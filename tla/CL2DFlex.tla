-------------------------------- MODULE CL2DFlex --------------------------------
(***************************************************************************)
(* The CL2DFlex node (CL2DFlexImpl.cpp), its pipelines and its OpenCL      *)
(* service.  The calls of a node come from one thread and are atomic here; *)
(* each may end at any of the calls of OpenCL it makes.                    *)
(***************************************************************************)
EXTENDS OpenclSrv, FiniteSets

CONSTANTS
  Configs,     \* the configurations that are considered
  Addresses,   \* where buffers are
  Memory,      \* what memory there can be at an address
  Nothing      \* stands for what is in no table

(***************************************************************************)
(* A configuration of the model.                                           *)
(*   offers    configurations for Initialize: check, what becomes of it    *)
(*             ("valid", "invalid", or "priority", found while it is read),*)
(*             inputs with a work mode, a format and the buffers the       *)
(*             pipeline is given, the output's format, the early buffers,  *)
(*             deregister, and whether the map of buffers has the length   *)
(*   frames    output and input addresses, and which of them is not as     *)
(*             configured: 0 the output, i an input, -1 none               *)
(*   mayFail   whether calls of OpenCL may fail                            *)
(*   maxInits, maxStops   bounds on the calls of Initialize and Stop       *)
(***************************************************************************)
WorkModes == { "convert", "resize_nearest", "letterbox_nearest", "convert_ubwc",
               "letterbox_nearest_multiple", "resize_nearest_multiple",
               "remap_nearest" }
Multiple == { "letterbox_nearest_multiple", "resize_nearest_multiple" }

Inputs == [mode : WorkModes, format : STRING, tables : Seq(Addresses), roiIsOutput : BOOLEAN]
Offers == [check : {"valid", "invalid", "priority"}, inputs : Seq(Inputs), output : STRING,
           early : SUBSET Addresses, deregister : BOOLEAN, mapFits : BOOLEAN]

IsConfig(c) ==
  /\ \A o \in c.offers : o \in Offers
  /\ \A f \in c.frames : f.output \in Addresses /\ f.inputs \in Seq(Addresses)
  /\ c.mayFail \in BOOLEAN

VARIABLES
  config,     \* the configuration of the model, chosen once
  state,      \* m_state
  params,     \* m_config
  service,    \* m_OpenclSrvObj
  pipelines,  \* m_pCL2DPipeline: the kernel and the objects each has
  up,         \* the application has a node that Initialize did not refuse
  inits,      \* calls of Initialize so far
  stops,      \* calls of Stop so far
  memory      \* application: the memory at each address

vars == <<config, state, params, service, pipelines, up, inits, stops, memory>>

NoParams == [inputs |-> <<>>, output |-> "rgb", early |-> {},
             deregister |-> FALSE, mapFits |-> TRUE]

Init ==
  /\ config \in Configs
  /\ state = "INITIAL" /\ params = NoParams /\ service = Closed
  /\ pipelines = <<>> /\ up = FALSE /\ inits = 0 /\ stops = 0
  /\ memory \in [Addresses -> Memory]

-----------------------------------------------------------------------------
(* The pipelines *)

(***************************************************************************)
(* The conversions each kind of pipeline has a kernel for; a convert       *)
(* pipeline needs a region as large as the output, one with several        *)
(* regions to be the only one.                                             *)
(***************************************************************************)
ResizeKernels  == { <<"nv12", "rgb">>, <<"uyvy", "rgb">>, <<"rgb", "rgb">>,
                    <<"uyvy", "nv12">>, <<"nv12", "nv12">> }
ConvertKernels == { <<"nv12", "rgb">>, <<"uyvy", "rgb">>, <<"uyvy", "nv12">> }
UBWCKernels    == { <<"nv12_ubwc", "nv12">> }
RemapKernels   == { <<"nv12", "rgb">>, <<"nv12", "bgr">> }
LetterboxKernels == { <<"nv12", "rgb">> }
LetterboxMultipleKernels == { <<"nv12", "rgb">> }
ResizeMultipleKernels    == { <<"nv12", "rgb">> }

Kernels == [ convert |-> ConvertKernels, resize_nearest |-> ResizeKernels,
             letterbox_nearest |-> LetterboxKernels, convert_ubwc |-> UBWCKernels,
             letterbox_nearest_multiple |-> LetterboxMultipleKernels,
             resize_nearest_multiple |-> ResizeMultipleKernels,
             remap_nearest |-> RemapKernels ]

Supported(p, i) ==
  LET input == p.inputs[i] IN
  /\ <<input.format, p.output>> \in Kernels[input.mode]
  /\ input.mode = "convert" => input.roiIsOutput
  /\ input.mode \in Multiple => Len(p.inputs) = 1

Kernel(p, i) == <<p.inputs[i].mode, p.inputs[i].format, p.output>>

(* What the pipeline of an input registers once and keeps: the regions, or *)
(* the two tables of a remap.                                              *)
NumTables(mode) == IF mode \in Multiple THEN 1
                   ELSE IF mode = "remap_nearest" THEN 2 ELSE 0
Tables(input) == [j \in 1 .. NumTables(input.mode) |-> input.tables[j]]

PipelineInit(p, i) ==
  <<CreateKernel(Kernel(p, i))>>
    \o [j \in DOMAIN Tables(p.inputs[i]) |-> RegBufferDesc(Tables(p.inputs[i])[j])]

Pipeline(s, p, i) ==
  [kernel |-> Kernel(p, i),
   kept |-> UNION { Objects(s, RegBufferDesc(a)) : a \in ToSet(Tables(p.inputs[i])) }]

(* The calls of an execution; a compressed image has an object for each of *)
(* its planes as well.                                                     *)
ConvertUBWCFromNV12UBWCToNV12(in, out) ==
  << RegImage(in), RegBufferDesc(out), RegPlane(in, "Y"), RegPlane(in, "UV"), Execute >>
PipelineExecute(in, out) == << RegBufferDesc(out), RegBufferDesc(in), Execute >>

ExecuteInput(p, i, f) ==
  IF p.inputs[i].mode = "convert_ubwc"
  THEN ConvertUBWCFromNV12UBWCToNV12(f.inputs[i], f.output)
  ELSE PipelineExecute(f.inputs[i], f.output)

-----------------------------------------------------------------------------
(* Initialize *)

VerifyStaticConfig(o) == o.check # "invalid"

(* A bad priority does not keep the rest from being taken over. *)
ParseStaticConfig(o) == [key \in DOMAIN o \ {"check"} |-> o[key]]

(* The calls up to the first input without a kernel, whether there is one. *)
FirstUnsupported(p) ==
  { i \in DOMAIN p.inputs : ~Supported(p, i) /\ \A j \in 1 .. i - 1 : Supported(p, j) }
InitCalls(p) ==
  LET n == IF FirstUnsupported(p) = {} THEN Len(p.inputs)
           ELSE (CHOOSE i \in FirstUnsupported(p) : TRUE) - 1
  IN FlattenSeq([i \in 1 .. n |-> PipelineInit(p, i)])
       \o IF FirstUnsupported(p) = {} /\ p.mapFits
          THEN SetToSeq({ RegBufferDesc(a) : a \in p.early }) ELSE <<>>
AllInitCalls(p) == UNION { ToSet(PipelineInit(p, i)) : i \in DOMAIN p.inputs }
                     \union { RegBufferDesc(a) : a \in p.early }
SetupGlobalBufferIdMap(p) == FirstUnsupported(p) = {} /\ p.mapFits

(* Whether the call after the first k of rs may fail. *)
MayFailAfter(s, rs, k) ==
  /\ config.mayFail
  /\ k < Len(rs)
  /\ ~Known(DoAll(s, ToSet(SubSeq(rs, 1, k)), memory), rs[k + 1])

Initialize_Refused(o) ==
  /\ o.check # "valid"
  /\ params' = IF VerifyStaticConfig(o) THEN ParseStaticConfig(o) ELSE params
  /\ UNCHANGED <<state, service, pipelines, up>>

(* The service of a call that failed later is initialized for good. *)
Initialize_NoService(o) ==
  /\ o.check = "valid" /\ params' = ParseStaticConfig(o)
  /\ \/ service.initialized /\ UNCHANGED service
     \/ ~service.initialized /\ config.mayFail /\ service' \in ServiceFails(service)
  /\ UNCHANGED <<state, pipelines, up>>

(* LoadFromSource, a pipeline, the map or a registration fails. *)
Initialize_Fails(o) ==
  LET rs == InitCalls(o) IN
  /\ o.check = "valid" /\ params' = ParseStaticConfig(o)
  /\ ~service.initialized
  /\ \E k \in 0 .. Len(rs) :
       /\ \/ MayFailAfter(ServiceInit(service), rs, k)
          \/ k = 0 /\ config.mayFail
          \/ k = Len(rs) /\ ~SetupGlobalBufferIdMap(o)
       /\ service' = DoAll(ServiceInit(service), ToSet(SubSeq(rs, 1, k)), memory)
  /\ UNCHANGED <<state, pipelines, up>>

Initialize_Done(o) ==
  /\ o.check = "valid" /\ params' = ParseStaticConfig(o)
  /\ ~service.initialized /\ SetupGlobalBufferIdMap(o)
  /\ service' = DoAll(ServiceInit(service), AllInitCalls(o), memory)
  /\ pipelines' = [i \in DOMAIN o.inputs |-> Pipeline(service', o, i)]
  /\ state' = "READY"
  /\ up' = TRUE

Initialize(o) ==
  /\ ~up /\ inits < config.maxInits
  /\ inits' = inits + 1
  /\ \/ Initialize_Refused(o) \/ Initialize_NoService(o)
     \/ Initialize_Fails(o)   \/ Initialize_Done(o)
  /\ UNCHANGED <<config, stops, memory>>

-----------------------------------------------------------------------------
(* Start, Stop, DeInitialize, ProcessFrameDescriptor *)

Start ==
  /\ state = "READY"
  /\ state' = "RUNNING"
  /\ UNCHANGED <<config, params, service, pipelines, up, inits, stops, memory>>

(* The node goes on running where an object could not be released. *)
Stop ==
  /\ state = "RUNNING" /\ stops < config.maxStops
  /\ stops' = stops + 1
  /\ \/ /\ ~params.deregister
        /\ state' = "READY" /\ UNCHANGED service
     \/ /\ params.deregister
        /\ \E kept \in SUBSET service.tables :
             /\ kept # {} => config.mayFail
             /\ service' = DeregAllBuffers(service, kept)
             /\ state' = IF kept = {} THEN "READY" ELSE state
  /\ UNCHANGED <<config, params, pipelines, up, inits, memory>>

(* A failure of Deinit is reported, and changes nothing else. *)
DeInitialize ==
  /\ up /\ state = "READY"
  /\ \E kept \in SUBSET service.tables :
       /\ kept # {} => config.mayFail
       /\ service' = ServiceDeinit(service, kept)
  /\ pipelines' = <<>>
  /\ state' = "INITIAL"
  /\ up' = FALSE
  /\ UNCHANGED <<config, params, inits, stops, memory>>

(* The inputs are worked off in order, up to one that is not as configured *)
(* or a call that fails.                                                   *)
ProcessFrameDescriptor(f) ==
  LET n  == IF f.bad < 0 THEN Len(params.inputs) ELSE f.bad - 1
      rs == FlattenSeq([i \in 1 .. n |-> ExecuteInput(params, i, f)])
  IN /\ state = "RUNNING"
     /\ Len(f.inputs) = Len(params.inputs)
     /\ f.bad # 0
     /\ \E k \in 0 .. Len(rs) :
          /\ k = Len(rs) \/ MayFailAfter(service, rs, k)
          /\ service' = DoAll(service, ToSet(SubSeq(rs, 1, k)), memory)
     /\ UNCHANGED <<config, state, params, pipelines, up, inits, stops, memory>>

(* Without a node the application puts other memory at an address. *)
Replace(a, m) ==
  /\ ~up
  /\ memory' = [memory EXCEPT ![a] = m]
  /\ UNCHANGED <<config, state, params, service, pipelines, up, inits, stops>>

Next == \/ \E o \in config.offers : Initialize(o)
        \/ Start \/ Stop \/ DeInitialize
        \/ \E f \in config.frames : ProcessFrameDescriptor(f)
        \/ \E a \in Addresses, m \in Memory : Replace(a, m)

Spec == Init /\ [][Next]_vars

-----------------------------------------------------------------------------
(* Properties *)

(* What the service has in its tables exists and is made of the memory     *)
(* that is at the address.                                                 *)
TablesCurrent ==
  \A o \in service.tables : o \in service.live /\ o.memory = memory[o.key[1]]

(***************************************************************************)
(* A node that runs uses kernels and objects that exist.  (The pipelines   *)
(* keep objects from Initialize on, the other objects are looked up in     *)
(* each frame: CL2DPipelineRemap::Init, RegBufferDesc.)                    *)
(***************************************************************************)
HandlesLive ==
  state = "RUNNING" =>
    /\ service.initialized
    /\ TablesCurrent
    /\ Len(pipelines) = Len(params.inputs)
    /\ \A i \in DOMAIN pipelines :
         /\ pipelines[i].kernel \in service.kernels
         /\ pipelines[i].kept \subseteq service.live
         /\ Cardinality(pipelines[i].kept)
              = Cardinality(ToSet(Tables(params.inputs[i])))

(* The tables keep what BufferUse lets a node keep.  (After a failed       *)
(* Initialize nothing comes back to the entries: the service refuses.)     *)
Kept == [a \in Addresses |->
           IF Objects(service, RegBufferDesc(a)) # {} /\ state # "INITIAL"
           THEN (CHOOSE o \in Objects(service, RegBufferDesc(a)) : TRUE).memory
           ELSE Nothing]
Use == INSTANCE BufferUse WITH kept <- Kept
LetsGo == Use!Spec
=============================================================================
