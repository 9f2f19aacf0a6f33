------------------------------- MODULE MCCamera -------------------------------
(* Configurations of the camera for TLC: two streams, two buffers and one. *)
EXTENDS Camera

Running == { "Params", "SetBuffers", "Reserve", "Start", "Submit",
             "SubmitAll", "ReleaseFrame", "GetFrame" }
Any     == Running \union { "Config", "Open", "Stop", "GetBuffers",
                            "MemoryMap" }

Request == [numBuffers |-> <<2, 1>>, pattern |-> <<0, 0>>,
            requestMode |-> TRUE, imports |-> FALSE, multiFrame |-> TRUE,
            events |-> FALSE, mayFail |-> Running, orderly |-> TRUE,
            maxStarts |-> 2]
Patterned == [Request EXCEPT !.pattern = <<0, 2>>, !.mayFail = {},
                              !.maxStarts = 1]
Release  == [Request EXCEPT !.requestMode = FALSE, !.imports = TRUE,
                            !.events = TRUE, !.mayFail = Any]
AnyOrder == [Patterned EXCEPT !.mayFail = Running \union {"Stop"},
                              !.orderly = FALSE]

All      == { Request, Patterned, Release, AnyOrder }
Live     == { [Patterned EXCEPT !.multiFrame = FALSE] }
Restart  == { [Patterned EXCEPT !.multiFrame = FALSE, !.maxStarts = 2] }
=============================================================================
