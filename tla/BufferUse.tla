------------------------------- MODULE BufferUse -------------------------------
(***************************************************************************)
(* What the nodes with a table of buffers promise.  They know a buffer by  *)
(* its address and keep what they made of it (a registration, a mapping, a *)
(* memory object) for as long as they like.  The application may put other *)
(* memory at an address; it does so without asking, at moments at which    *)
(* the node is documented to have let go.  It is for the node to have      *)
(* nothing left of the address then, for it would be used for the new      *)
(* memory.                                                                 *)
(***************************************************************************)
CONSTANTS Addresses, Memory, Nothing

VARIABLES
  memory,   \* the memory at each address
  kept      \* the memory the node's entry for an address was made of

vars == <<memory, kept>>

TypeOK == /\ memory \in [Addresses -> Memory]
          /\ kept \in [Addresses -> Memory \union {Nothing}]

Init == /\ memory \in [Addresses -> Memory]
        /\ kept = [a \in Addresses |-> Nothing]

(* A node enters addresses it has nothing of. *)
Keep ==
  /\ kept' = [a \in Addresses |-> kept'[a]]
  /\ \A a \in Addresses :
       kept'[a] = kept[a] \/ (kept[a] = Nothing /\ kept'[a] = memory[a])
  /\ UNCHANGED memory

(* A node lets go of addresses. *)
Drop ==
  /\ kept' = [a \in Addresses |-> kept'[a]]
  /\ \A a \in Addresses : kept'[a] = kept[a] \/ kept'[a] = Nothing
  /\ UNCHANGED memory

(* The application puts memory m at an address that is not kept. *)
Replace(a, m) ==
  /\ kept[a] = Nothing
  /\ memory' = [memory EXCEPT ![a] = m]
  /\ UNCHANGED kept

Next == \/ Keep \/ Drop
        \/ \E a \in Addresses, m \in Memory : Replace(a, m)

Spec == Init /\ [][Next]_vars

(* What a node has kept of an address is the memory that is there. *)
KeptIsCurrent == \A a \in Addresses : kept[a] # Nothing => kept[a] = memory[a]
=============================================================================
