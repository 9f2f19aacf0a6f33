-------------------------------- MODULE MCQnn --------------------------------
(***************************************************************************)
(* Configurations of the QNN node for TLC.                                 *)
(***************************************************************************)
EXTENDS Qnn

(* Two nodes use one buffer in the end; each has frames it has not seen. *)
Shared == [nodes |-> {"n1", "n2"}, buffers |-> {"b1", "b2"},
           early |-> [n1 |-> <<<<"b1", 0>>>>, n2 |-> <<>>],
           frames |-> [n1 |-> {<<<<"b1", 0>>>>, <<<<"b2", 0>>, <<"b1", 0>>>>},
                       n2 |-> {<<<<"b1", 0>>, <<"b2", 0>>>>}],
           async |-> {"n1"}, loads |-> {"Binary"}, power |-> FALSE,
           deregisters |-> TRUE, params |-> 2, modulus |-> 4, limit |-> 1,
           ordered |-> TRUE, serial |-> TRUE,
           mayFail |-> {"Map", "MemRegister", "BufferMap", "Validate"}, maxInits |-> 2,
           maxRefs |-> 3]

(* Tensors with an offset into the shared buffer. *)
Offsets == [Shared EXCEPT !.async = {}, !.mayFail = {"MemRegister"},
                          !.frames["n2"] = {<<<<"b1", 1>>>>, <<<<"b1", 0>>>>}]

One == [Shared EXCEPT !.nodes = {"n1"}, !.buffers = {"b1"},
                      !.early = [n1 |-> <<>>],
                      !.frames = [n1 |-> {<<<<"b1", 0>>>>}]]

(* Every step of Initialize fails; the form of the model does not change. *)
Life == [One EXCEPT !.power = TRUE, !.mayFail = {"Create", "Map"}, !.maxInits = 3]

(* As many requests as there are parameters; the ring wraps several times. *)
Ring == [One EXCEPT !.limit = 2, !.mayFail = {"Execute", "SetBuffer"},
                    !.loads = {"SharedObject"}, !.maxInits = 2]

(* The writes of Push are seen in any order; two requests fewer. *)
Reordered == [Ring EXCEPT !.ordered = FALSE, !.params = 4, !.modulus = 8,
                          !.mayFail = {}, !.maxInits = 1]

QnnNodes == { Shared, Offsets, Life, Ring, Reordered }
=============================================================================
