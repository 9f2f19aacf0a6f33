------------------------------- MODULE GraphInfo -------------------------------
(***************************************************************************)
(* The descriptions of the graphs of a context binary, which QnnImpl       *)
(* copies piece by piece out of what the system library reports, and which *)
(* it frees in Destroy (QnnImpl.cpp).  Every malloc may fail.  A piece is  *)
(* named by its path: graph, side, tensor and field.                       *)
(***************************************************************************)
EXTENDS Naturals, FiniteSets, Sequences

CONSTANTS
  Binaries,   \* the binaries that are considered
  MaxInits    \* bound on the calls of Initialize

(***************************************************************************)
(* A binary has a version and graphs, which have a version, a name or      *)
(* none, and lists of input and output tensors.  A tensor is named or not, *)
(* has a quantization encoding, with or without scales, a rank that is 0   *)
(* or not, and dynamic dimensions or not.                                  *)
(***************************************************************************)
Tensors == [named : BOOLEAN, encoding : {"undefined", "scale", "axis", "other"},
            scales : BOOLEAN, ranked : BOOLEAN, dynamic : BOOLEAN]
Descriptions ==
  [version : Nat, named : BOOLEAN, inputs : Seq(Tensors), outputs : Seq(Tensors)]

IsBinary(b) == b.version \in Nat /\ b.graphs \in Seq(Descriptions)

VARIABLES
  heap,         \* what is allocated: <<call of Initialize, piece>>
  m_graphsInfo, \* the list it points to, <<graphs>>, or NoList
  attempts,     \* calls of Initialize so far
  whole         \* history: those of them that copied every graph

vars == <<heap, m_graphsInfo, attempts, whole>>

NoList == <<>>

Init == heap = {} /\ m_graphsInfo = NoList /\ attempts = 0 /\ whole = {}

-----------------------------------------------------------------------------
(***************************************************************************)
(* The copy.  Each operator gives the pieces it has allocated, less those  *)
(* that were refused, and whether it succeeds.                             *)
(***************************************************************************)
Fields(t) == { f \in {"name", "scales", "dimensions", "dynamic"} :
                 CASE f = "name"       -> t.named
                   [] f = "scales"     -> t.encoding = "axis" /\ t.scales
                   [] f = "dimensions" -> t.ranked
                   [] f = "dynamic"    -> t.ranked /\ t.dynamic }

(* A tensor whose name cannot be copied goes without one. *)
DeepCopyQnnTensorInfo(path, t, refused) ==
  [pieces |-> { path \o <<f>> : f \in Fields(t) } \ refused,
   ok |-> /\ t.encoding # "other" /\ (t.encoding = "axis" => t.scales)
          /\ t.ranked
          /\ \A f \in Fields(t) \ {"name"} : path \o <<f>> \notin refused]

(* A first part, and the others one after the other up to one that fails.  *)
InTurn(first, parts) ==
  LET tried == { i \in DOMAIN parts : first.ok /\ \A j \in 1 .. i - 1 : parts[j].ok }
  IN [pieces |-> first.pieces \union UNION { parts[i].pieces : i \in tried },
      ok |-> first.ok /\ \A i \in DOMAIN parts : parts[i].ok]
Piece(p, refused) == [pieces |-> {p} \ refused, ok |-> p \notin refused]
Done == [pieces |-> {}, ok |-> TRUE]

CopyTensorsInfo(path, ts, refused) ==
  InTurn(Piece(path \o <<0>>, refused),
         [i \in DOMAIN ts |-> DeepCopyQnnTensorInfo(path \o <<i>>, ts[i], refused)])

Unless(absent, part) == IF absent THEN Done ELSE part

CopyGraphsInfoV1(i, g, refused) ==
  InTurn(Unless(~g.named, Piece(<<i, "name">>, refused)),
    << Unless(g.inputs = <<>>, CopyTensorsInfo(<<i, "inputs">>, g.inputs, refused)),
       Unless(g.outputs = <<>>, CopyTensorsInfo(<<i, "outputs">>, g.outputs, refused)) >>)

CopyGraphsInfoV3(i, g, refused) == CopyGraphsInfoV1(i, g, refused)

CopyGraph(i, g, refused) ==
  CASE g.version = 1 -> CopyGraphsInfoV1(i, g, refused)
    [] g.version = 3 -> CopyGraphsInfoV3(i, g, refused)
    [] OTHER -> [pieces |-> {}, ok |-> FALSE]

List  == <<"list">>
Array == <<"array">>

(* How many graphs are complete before one fails. *)
Stored(gs, refused) ==
  Cardinality({ n \in DOMAIN gs : \A i \in 1 .. n : CopyGraph(i, gs[i], refused).ok })

-----------------------------------------------------------------------------
(***************************************************************************)
(* The release: what is freed of the graphs gs, of what is allocated.      *)
(***************************************************************************)
FreeQnnTensor(path, t, held) == { path \o <<f>> : f \in Fields(t) } \intersect held

FreeQnnTensors(path, ts, held) ==
  ({path \o <<0>>} \intersect held)
    \union UNION { FreeQnnTensor(path \o <<i>>, ts[i], held) : i \in DOMAIN ts }

FreeGraph(i, g, held) ==
  ({<<i, "name">>} \intersect held)
    \union FreeQnnTensors(<<i, "inputs">>, g.inputs, held)
    \union FreeQnnTensors(<<i, "outputs">>, g.outputs, held)

FreeGraphsInfo(gs, held) ==
  {List, Array} \union UNION { FreeGraph(i, gs[i], held) : i \in DOMAIN gs }

\* Mutant: the array is forgotten.
FreeStored_ListOnly(gs, n, held) ==
  {List} \union UNION { FreeGraph(i, gs[i], held) : i \in 1 .. n }

(* After a failure: the n graphs that are in the list, and the array by    *)
(* the first of them.                                                      *)
FreeStored(gs, n, held) ==
  (IF n = 0 THEN {List} ELSE {List, Array})
    \union UNION { FreeGraph(i, gs[i], held) : i \in 1 .. n }

(* What is allocated at the end, and the list. *)
CopyGraphsInfo(gs, refused) ==
  LET n     == Stored(gs, refused)
      tried == 1 .. IF n < Len(gs) THEN n + 1 ELSE n
      held  == UNION { CopyGraph(i, gs[i], refused).pieces : i \in tried }
  IN IF {List, Array} \intersect refused # {}
     THEN [pieces |-> IF List \in refused THEN {Array} ELSE {}, list |-> NoList]
     ELSE IF n = Len(gs)
     THEN [pieces |-> {List, Array} \union held, list |-> <<gs>>]
     ELSE [pieces |-> ({List, Array} \union held) \ FreeStored(gs, n, held),
           list |-> NoList]

CopyMetadataToGraphsInfo(b, refused) ==
  IF b.version \in {1, 2, 3} THEN CopyGraphsInfo(b.graphs, refused)
                             ELSE [pieces |-> {}, list |-> NoList]

(* Each allocation that may be refused, and none. *)
Refusable(b) ==
  {List, Array} \union
    UNION { UNION { LET g == b.graphs[i]
                        ts == IF side = "inputs" THEN g.inputs ELSE g.outputs
                    IN {<<i, "name">>, <<i, side, 0>>} \union
                       UNION { { <<i, side, k, f>> : f \in Fields(ts[k]) } : k \in DOMAIN ts }
                    : side \in {"inputs", "outputs"} } : i \in DOMAIN b.graphs }

-----------------------------------------------------------------------------
(* The library may refuse the binary before anything is copied. *)
CreateFromBinaryBuffer(b) ==
  { CopyMetadataToGraphsInfo(b, refused) :
      refused \in { {p} : p \in Refusable(b) } \union {{}} }
  \union {[pieces |-> {}, list |-> NoList]}

(* A file that cannot be read, or is empty, is not given to the library. *)
CreateFromBinaryFile(b) == CreateFromBinaryBuffer(b)

(* What Initialize does with a binary, up to a failure later on. *)
Initialize(b) ==
  /\ m_graphsInfo = NoList /\ attempts < MaxInits
  /\ attempts' = attempts + 1
  /\ \E copy \in CreateFromBinaryFile(b) :
       /\ heap' = heap \union { <<attempts', p>> : p \in copy.pieces }
       /\ m_graphsInfo' = copy.list
       /\ whole' = IF copy.list = NoList THEN whole ELSE whole \union {attempts'}

Destroy ==
  LET held == { p[2] : p \in { x \in heap : x[1] = attempts } } IN
  /\ m_graphsInfo # NoList
  /\ heap' = heap \ { <<attempts, p>> : p \in FreeGraphsInfo(m_graphsInfo[1], held) }
  /\ m_graphsInfo' = NoList
  /\ UNCHANGED <<attempts, whole>>

Next == (\E b \in Binaries : Initialize(b)) \/ Destroy

Spec == Init /\ [][Next]_vars

-----------------------------------------------------------------------------
(***************************************************************************)
(* A copy that was destroyed leaves nothing.  One that failed leaves no    *)
(* list, of at most one graph anything, and the array only where it failed *)
(* before its first graph was in the list (CopyGraphsInfo frees what is in *)
(* the list, and the array by its first entry).                            *)
(***************************************************************************)
Left(n) == { x[2] : x \in { y \in heap : y[1] = n } }

GraphsFreed ==
  \A n \in 1 .. attempts :
    m_graphsInfo = NoList \/ n # attempts =>
      LET graphs == { p[1] : p \in Left(n) \ {List, Array} }
      IN /\ n \in whole => Left(n) = {}
         /\ List \notin Left(n)
         /\ Cardinality(graphs) <= 1
         /\ Array \in Left(n) => graphs \subseteq {1}
=============================================================================
