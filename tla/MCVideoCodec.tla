----------------------------- MODULE MCVideoCodec -----------------------------
(***************************************************************************)
(* Configurations of the video codec nodes for TLC.  Encode and Decode run *)
(* with the default modes, dynamic input and static output.                *)
(***************************************************************************)
EXTENDS VideoCodec

(* Any buffer is submitted at any time; two compete for one dynamic slot. *)
Encode == [encoder |-> TRUE, dynamic |-> {"in"},
           slots |-> [in |-> 1, out |-> 1], buffers |-> [in |-> 2, out |-> 1],
           mayFail |-> {"Frame", "SetBuffer", "LOAD", "START_ALL", "STOP", "Free", "Done"},
           timely |-> TRUE, fatal |-> FALSE, reconfigs |-> 0,
           disciplined |-> FALSE, maxInits |-> 2, maxStarts |-> 2]

(* The driver is late, fails for good, or cannot be opened. *)
Late == [Encode EXCEPT !.timely = FALSE, !.fatal = TRUE, !.disciplined = TRUE,
                       !.buffers["in"] = 1,
                       !.mayFail = {"Config", "Open", "Properties", "RELEASE"}]

(* One output reconfiguration after each start. *)
Decode == [Encode EXCEPT !.encoder = FALSE, !.reconfigs = 1, !.disciplined = TRUE,
                         !.buffers = [in |-> 1, out |-> 2], !.slots["out"] = 2,
                         !.mayFail = {"Frame", "Reconfig", "Start", "Done"}]

(* Reconfigurations in mid-stream, dynamic output, a driver that fails. *)
Dynamic == [Decode EXCEPT !.reconfigs = 2, !.dynamic = {"in", "out"},
                          !.buffers["out"] = 1, !.fatal = TRUE, !.timely = FALSE,
                          !.mayFail = {"DRAIN"}, !.maxInits = 1]

Nodes == { Encode, Late, Decode, Dynamic }
Race  == { [Encode EXCEPT !.mayFail = {}, !.disciplined = TRUE, !.maxInits = 1] }
Steady == [Decode EXCEPT !.mayFail = @ \ {"Done"}]
Live  == { [Steady EXCEPT !.maxStarts = 1], [Steady EXCEPT !.maxInits = 1] }
=============================================================================
