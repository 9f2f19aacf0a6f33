------------------------------- MODULE MCServices -------------------------------
(* The configurations of the libraries, services and nodes of Services for  *)
(* model checking.                                                         *)
EXTENDS Services

AllAddresses == {"r1", "o1", "t1", "v1", "w1"}
UsedBy == [p \in Parts |-> CASE p \in {"eva", "cl"} -> {"r1", "o1", "t1"}
                             [] p = "fadas"         -> {"r1", "w1", "t1"}
                             [] OTHER               -> {}]

-----------------------------------------------------------------------------
(* The nodes on the engine for video analytics *)

EvaOffer(form, version, bad, direction, confidence) ==
  [form |-> form, version |-> version, outOfRange |-> bad, direction |-> direction,
   confidence |-> confidence]

(* One direction or both, with confidence; any call may fail. *)
Flow ==
  [kind |-> "flow",
   offers |-> { EvaOffer("static", 2, {}, "both", TRUE), EvaOffer("static", 3, {}, "forward", TRUE),
                EvaOffer("static", 4, {"fps"}, "both", FALSE), EvaOffer("none", 2, {}, "both", FALSE) },
   frames |-> { [reference |-> "r1", current |-> "r1", forwardMotion |-> "o1",
                 backwardMotion |-> "absent", forwardConfidence |-> "absent",
                 backwardConfidence |-> "t1"] },
   fits |-> {"m1"}, mayFail |-> {"Create", "SessionStart", "SessionStop", "Destroy"},
   mayFailAfter |-> {0, 5}, maxInits |-> 2]

StereoFrame == [primary |-> "r1", auxiliary |-> "r1", disparity |-> "o1", confidence |-> "t1"]
Stereo ==
  [Flow EXCEPT !.kind = "stereo",
               !.frames = {StereoFrame, [StereoFrame EXCEPT !.confidence = "absent"]},
               !.offers = { EvaOffer("dynamic", 2, {}, "both", FALSE),
                            EvaOffer("static", 3, {}, "forward", FALSE) },
               !.mayFail = {"Destroy", "Deregister", "Register"}, !.mayFailAfter = {}]

EvaAll == {Flow, Stereo}

-----------------------------------------------------------------------------
(* The CL2DFlex node *)

Input(mode, format, tables) ==
  [mode |-> mode, format |-> format, tables |-> tables, roiIsOutput |-> TRUE]
ClOffer(ins, output, deregister) ==
  [check |-> "valid", inputs |-> ins, output |-> output, early |-> {},
   deregister |-> deregister, mapFits |-> TRUE]

(* Two inputs, one compressed; configurations that are refused late. *)
Frames ==
  [offers |-> { ClOffer(<<Input("resize_nearest", "nv12", <<>>),
                          Input("convert_ubwc", "nv12_ubwc", <<>>)>>, "nv12", TRUE),
                [ClOffer(<<Input("convert", "uyvy", <<>>)>>, "rgb", FALSE) EXCEPT !.mapFits = FALSE],
                [ClOffer(<<Input("convert", "uyvy", <<>>)>>, "rgb", FALSE) EXCEPT !.check = "priority"],
                ClOffer(<<Input("convert", "uyvy", <<>>), Input("convert", "rgb", <<>>)>>, "rgb", FALSE) },
   frames |-> { [output |-> "o1", inputs |-> <<"r1", "r1">>, bad |-> -1],
                [output |-> "o1", inputs |-> <<"r1", "r1">>, bad |-> 2],
                [output |-> "o1", inputs |-> <<"r1">>, bad |-> -1] },
   mayFail |-> TRUE, maxInits |-> 2, maxStops |-> 1]

(* Pipelines that keep tables, and an early buffer. *)
Tabled ==
  [Frames EXCEPT !.offers =
     { ClOffer(<<Input("remap_nearest", "nv12", <<"t1", "r1">>),
                 Input("letterbox_nearest", "nv12", <<>>)>>, "rgb", FALSE),
       [ClOffer(<<Input("resize_nearest_multiple", "nv12", <<"t1">>)>>, "rgb", FALSE)
          EXCEPT !.early = {"r1"}] }]

ClAll == {Frames, Tabled}

-----------------------------------------------------------------------------
(* The descriptions of graphs: two that are whole, one without scales, one *)
(* of an unknown version in the middle, and a binary of an unknown version *)

Tensor == [named |-> TRUE, encoding |-> "scale", scales |-> FALSE, ranked |-> TRUE, dynamic |-> FALSE]
Axis   == [Tensor EXCEPT !.encoding = "axis", !.scales = TRUE, !.dynamic = TRUE]
Graph  == [version |-> 1, named |-> TRUE, inputs |-> <<Tensor, Axis>>, outputs |-> <<Tensor>>]

AllBinaries ==
  { [version |-> 1, graphs |-> <<Graph, [Graph EXCEPT !.version = 3, !.outputs = <<>>]>>],
    [version |-> 2, graphs |-> <<[Graph EXCEPT !.inputs = <<[Axis EXCEPT !.scales = FALSE]>>]>>],
    [version |-> 3, graphs |-> <<Graph, [Graph EXCEPT !.version = 2], Graph>>],
    [version |-> 4, graphs |-> <<Graph>>] }

-----------------------------------------------------------------------------
(* A remap and a voxelization node on the FastADAS library *)

Pair(a, b) == [n \in FadasNodeNames |-> IF n = "n1" THEN a ELSE b]
Buffer(at, kind, format) == [at |-> at, kind |-> kind, format |-> format, shape |-> 1]

RemapOf(tables) ==
  [kind |-> "remap", bad |-> {}, early |-> <<>>, deregister |-> FALSE, mapFits |-> TRUE,
   output |-> "rgb", normalize |-> FALSE, undistort |-> tables # <<>>,
   inputs |-> <<[format |-> "nv12", tables |-> tables]>>,
   frames |-> {<<Buffer("r1", "image", "nv12"), Buffer("o1", "image", "rgb")>>}]
Voxel ==
  LET t(at) == Buffer(at, "tensor", "none") IN
  [kind |-> "voxelization", bad |-> {}, early |-> <<t("w1")>>, deregister |-> TRUE,
   mapFits |-> TRUE, mode |-> "xyzr", opencl |-> FALSE, frames |-> {<<t("v1"), t("w1"), t("w1")>>}]

(* Calls may fail on the CPU and the GPU; on the GPU and the DSP, there    *)
(* with tables, the application replaces memory.                           *)
Cpu == [processor |-> "cpu", params |-> Pair(RemapOf(<<>>), Voxel), mayFail |-> TRUE,
        replaces |-> FALSE, again |-> FALSE, maxInits |-> 2]
Gpu == [Cpu EXCEPT !.processor = "gpu", !.again = TRUE, !.replaces = TRUE,
                   !.params["n2"] = [Voxel EXCEPT !.opencl = TRUE]]
Dsp == [processor |-> "dsp",
        params |-> Pair(RemapOf(<<Buffer("t1", "tensor", "none"), Buffer("t1", "tensor", "none")>>), Voxel),
        mayFail |-> FALSE, replaces |-> TRUE, again |-> FALSE, maxInits |-> 2]

(* The remap node is asked to deregister its buffers when it stops. *)
Flagged == [Dsp EXCEPT !.params["n1"] = [RemapOf(<<>>) EXCEPT !.deregister = TRUE]]

FadasAll  == {Cpu, Gpu, Dsp}
FadasStop == {Flagged}

ASSUME ApartAssumption == NodesApart
=============================================================================
