---------------------------- MODULE FadasNodesProofs ----------------------------
(***************************************************************************)
(* The nodes on the FastADAS service (FadasNodes, FadasSrv) as a part of   *)
(* Services, for all configurations and every finite set of nodes.         *)
(***************************************************************************)
EXTENDS FadasProgramsProofs

-----------------------------------------------------------------------------
(***************************************************************************)
(* The invariant.  Every node is in one of the phases, and the count of    *)
(* the service is that of the nodes that use it, or more once an           *)
(* Initialize has left something behind.                                   *)
(***************************************************************************)
P(n)      == config.params[n]
User(n)   == Uses(P(n), state[n], todo[n])
Server(n) == Serves(P(n), state[n], todo[n])
Users     == { n \in Nodes : User(n) }

OnNodes(f) == f = [n \in Nodes |-> f[n]]

Types ==
  /\ config \in FadasConfigs /\ memory \in [Addresses -> Memory] /\ leftover \in BOOLEAN
  /\ OnNodes(state) /\ OnNodes(todo) /\ OnNodes(table) /\ OnNodes(ptrs) /\ OnNodes(inits)
Placed == \A n \in Nodes : Phase(P(n), state[n], todo[n], table[n])
UsersCounted == /\ srv.useRef >= Cardinality(Users)
                /\ ~leftover => srv.useRef = Cardinality(Users)
NodesInv == /\ Types /\ IsSrv(srv) /\ Backed(srv, memory, config.processor)
            /\ Placed /\ UsersCounted

(***************************************************************************)
(* What a node has that serves: the objects it made are its own and exist, *)
(* there are some once it is through with Initialize, and the buffers of   *)
(* its table and of the runs to come have entries.                         *)
(***************************************************************************)
Makes == {"worker", "map", "create"}
Holds(p, t, tab, ps, s, u, w) ==
  /\ w => \/ Marks(t) \intersect Makes # {}
          \/ "params" \notin Marks(t) /\ \E o \in ps : o[2] \in Kinds(p)
  /\ w /\ Marks(t) \intersect {"params", "create"} = {} => ps \subseteq s.objects
  /\ u => \A a \in tab : s.memMap[a] # NoEntry
  /\ Covered(s, t)
Equipped(n) == /\ \A o \in ptrs[n] : o[1] = n
               /\ Holds(P(n), todo[n], table[n], ptrs[n], srv, User(n), Server(n))

(***************************************************************************)
(* A step of node n, for the others: what it changes of the count, the     *)
(* entries and the objects.                                                *)
(***************************************************************************)
UserNext(n)   == Uses(P(n), state'[n], todo'[n])
ServerNext(n) == Serves(P(n), state'[n], todo'[n])

Alone(n) ==
  /\ UNCHANGED <<config, memory>>
  /\ OnNodes(state') /\ OnNodes(todo') /\ OnNodes(table') /\ OnNodes(ptrs')
  /\ \A m \in Nodes \ {n} : /\ state'[m] = state[m] /\ todo'[m] = todo[m]
                            /\ table'[m] = table[m] /\ ptrs'[m] = ptrs[m]
Counts(n) ==
  /\ leftover' \in BOOLEAN /\ (leftover => leftover')
  /\ \/ srv'.useRef = srv.useRef /\ (UserNext(n) <=> User(n))
     \/ srv'.useRef = srv.useRef + 1 /\ ~User(n) /\ UserNext(n)
     \/ srv'.useRef = srv.useRef - 1 /\ User(n) /\ ~UserNext(n)
     \/ srv'.useRef = srv.useRef /\ ~UserNext(n) /\ leftover'
Enters1(n) ==
  \/ Grows(srv, srv', memory)
  \/ Shrinks(srv, srv', DropAddrs(P(n)))
  \/ /\ User(n) /\ ~UserNext(n) /\ srv.useRef = 1 /\ srv'.useRef = 0
     /\ \A a \in Addresses : srv'.memMap[a] = NoEntry
Objects1(n) == srv.objects \ ptrs[n] \subseteq srv'.objects \/ (srv'.useRef = 0 /\ srv.useRef = 1 /\ User(n))
Moves(n) ==
  /\ Alone(n) /\ Counts(n) /\ Enters1(n) /\ Objects1(n)
  /\ IsSrv(srv') /\ Backed(srv', memory, config.processor)
  /\ Phase(P(n), state'[n], todo'[n], table'[n])
HoldsNext(n) ==
  /\ \A o \in ptrs'[n] : o[1] = n
  /\ Holds(P(n), todo'[n], table'[n], ptrs'[n], srv', UserNext(n), ServerNext(n))
\* What is to be shown of a step of node n.
Goes(n) == Moves(n) /\ (Fadas!HasInputs(config, n) /\ Equipped(n) => HoldsNext(n))

LEMMA AddrsIs ==
  ASSUME NEW p, ParamsOK(p)
  PROVE  /\ Fadas!FrameAddrs(p) \subseteq Addresses /\ Fadas!KeepAddrs(p) \subseteq Addresses
         /\ DropAddrs(p) \subseteq Addresses
<1>1. \A f \in p.frames : Fadas!At(f) \subseteq Addresses
  BY DEF ParamsOK, Fadas!At, Fadas!ToSet, BufferAt
<1>2. Fadas!At(p.early) \subseteq Addresses
  BY DEF ParamsOK, Fadas!At, Fadas!ToSet, BufferAt
<1>3. Fadas!FrameAddrs(p) \subseteq Addresses
  BY <1>1 DEF Fadas!FrameAddrs
<1>4. Fadas!KeepAddrs(p) \subseteq Addresses
  <2>1. p.kind = "voxelization" => \A f \in p.frames : f[1].at \in Addresses
    <3> SUFFICES ASSUME p.kind = "voxelization", NEW f \in p.frames PROVE f[1].at \in Addresses
      OBVIOUS
    <3>1. f \in Seq(Fadas!ToSet(f)) /\ Len(f) = 3 /\ \A i \in DOMAIN f : f[i].at \in Addresses
      BY DEF ParamsOK, BufferAt
    <3>2. 1 \in DOMAIN f
      BY <3>1
    <3> QED BY <3>1, <3>2
  <2> QED BY <1>2, <2>1 DEF Fadas!KeepAddrs
<1>5. DropAddrs(p) \subseteq Addresses
  <2>1. p.kind = "remap" => \A i \in DOMAIN p.inputs : Fadas!At(p.inputs[i].tables) \subseteq Addresses
    <3> SUFFICES ASSUME p.kind = "remap", NEW i \in DOMAIN p.inputs,
                        NEW k \in DOMAIN p.inputs[i].tables
                 PROVE  p.inputs[i].tables[k].at \in Addresses
      BY DEF Fadas!At, Fadas!ToSet
    <3> QED BY DEF ParamsOK, BufferAt
  <2> QED BY <1>4, <2>1 DEF DropAddrs, Fadas!DropsOf, ParamsOK
<1> QED BY <1>3, <1>4, <1>5

\* The engine works in the phase of the frames only.
LEMMA RunMarks ==
  ASSUME NEW p, NEW s, NEW t, NEW tab, Phase(p, s, t, tab), "run" \in Marks(t)
  PROVE  Framing(p, s, t)
<1>1. ~Resting(s, t, tab)
  BY MarksOf DEF Resting
<1>2. ~Stopping(p, s, t)
  BY Singles DEF Stopping, Known
<1>3. ~RemapStarting(p, s, t)
  <2> SUFFICES ASSUME NEW M, RemapMiddle(p, M),
                      t = RemapProgram(p, M) \/ t = RemapParams(p, M) \/ t = Body(M)
               PROVE  FALSE
    BY DEF RemapStarting
  <2>1. Marks(t) \subseteq {"init", "params", "READY"} \union RemapMarks
    BY RemapPieces DEF Known
  <2> QED BY <2>1 DEF RemapMarks
<1>4. ~RemapFailing(p, s, t)
  BY MiddleMarks DEF RemapFailing
<1>5. ~RemapEnding(p, s, t)
  BY Pieces, Singles DEF RemapEnding, Known
<1>6. ~VoxelStarting(p, s, t, tab)
  <2> SUFFICES ASSUME NEW M, VoxelMiddle(p, M),
                      t = VoxelProgram(p, M) \/ t = VoxelInit(p, M) \/ t = VoxelCreate(p, M) \/ t = Body(M)
               PROVE  FALSE
    BY DEF VoxelStarting
  <2>1. Marks(t) \subseteq {"INITIALIZING", "init", "create", "READY"} \union VoxelMarks
    BY VoxelPieces DEF Known
  <2> QED BY <2>1 DEF VoxelMarks
<1>7. ~VoxelFailing(p, s, t, tab)
  BY Pieces, Singles DEF VoxelFailing, Known
<1>8. ~VoxelEnding(p, s, t, tab)
  BY Pieces, Singles DEF VoxelEnding, Known
<1> QED BY <1>1, <1>2, <1>3, <1>4, <1>5, <1>6, <1>7, <1>8 DEF Phase

\* A node that is through with the objects uses the service.
LEMMA ServerUses ==
  ASSUME NEW p, NEW s, NEW t, NEW tab, Phase(p, s, t, tab), Serves(p, s, t),
         Marks(t) \intersect {"params", "create"} = {}
  PROVE  Uses(p, s, t)
<1> SUFFICES "init" \notin Marks(t)
  BY DEF Serves, Uses
<1>1. CASE Resting(s, t, tab)
  BY <1>1, MarksOf DEF Resting
<1>2. CASE Framing(p, s, t)
  BY <1>2, MiddleMarks
<1>3. CASE Stopping(p, s, t)
  BY <1>3, Singles DEF Stopping, Known
<1>4. CASE RemapStarting(p, s, t)
  <2> SUFFICES ASSUME NEW M, RemapMiddle(p, M),
                      t = RemapProgram(p, M) \/ t = RemapParams(p, M) \/ t = Body(M)
               PROVE  "init" \notin Marks(t)
    BY <1>4 DEF RemapStarting
  <2>1. Marks(RemapProgram(p, M)) = {"init", "params"} \union Marks(Body(M))
    BY RemapPieces DEF Known
  <2>2. Marks(RemapParams(p, M)) = {"params"} \union Marks(Body(M))
    BY RemapPieces DEF Known
  <2>3. Marks(Body(M)) \subseteq RemapMarks \union {"READY"}
    BY RemapPieces
  <2> QED BY <2>1, <2>2, <2>3 DEF RemapMarks
<1>5. CASE RemapFailing(p, s, t)
  BY <1>5, MiddleMarks DEF RemapFailing
<1>0. /\ \A q \in {EndMaps(p), EndWorkers(p), Ending(p), EndPreProc(p), EndBuffers(p)} :
           "init" \notin Marks(q)
      /\ \A q \in {VoxelUndone(p), UndoBuffers(p), JustDeinit(p)} : "init" \notin Marks(q)
      /\ \A q \in {JustInitial, VoxelFailed, JustRelease} : "init" \notin Marks(q)
  <2>0. /\ Marks(EndMaps(p)) = {"destroy", "deinit", "INITIAL"}
        /\ Marks(EndWorkers(p)) = {"destroy", "deinit", "INITIAL"}
        /\ Marks(Ending(p)) = {"deinit", "INITIAL"}
        /\ Marks(EndPreProc(p)) = {"destroy", "deinit", "INITIAL"}
        /\ Marks(EndBuffers(p)) = {"release", "destroy", "deinit", "INITIAL"}
        /\ Marks(VoxelUndone(p)) = {"INITIAL", "release", "deinit"}
        /\ Marks(UndoBuffers(p)) = {"release", "deinit"} /\ Marks(JustDeinit(p)) = {"deinit"}
    BY Pieces, Zenon DEF Known
  <2>1. /\ "init" \notin Marks(EndMaps(p)) /\ "init" \notin Marks(EndWorkers(p))
        /\ "init" \notin Marks(Ending(p)) /\ "init" \notin Marks(EndPreProc(p))
        /\ "init" \notin Marks(EndBuffers(p))
    BY <2>0
  <2>2. /\ "init" \notin Marks(VoxelUndone(p)) /\ "init" \notin Marks(UndoBuffers(p))
        /\ "init" \notin Marks(JustDeinit(p))
    BY <2>0
  <2>3. /\ "init" \notin Marks(JustInitial) /\ "init" \notin Marks(VoxelFailed)
        /\ "init" \notin Marks(JustRelease)
    BY Singles DEF Known
  <2> QED BY <2>1, <2>2, <2>3, Zenon
<1>6. CASE RemapEnding(p, s, t)
  BY <1>0, <1>6 DEF RemapEnding
<1>7. CASE VoxelStarting(p, s, t, tab)
  <2> SUFFICES ASSUME NEW M, VoxelMiddle(p, M),
                      t = VoxelProgram(p, M) \/ t = VoxelInit(p, M) \/ t = VoxelCreate(p, M) \/ t = Body(M)
               PROVE  "init" \notin Marks(t)
    BY <1>7 DEF VoxelStarting
  <2>1. "create" \in Marks(VoxelProgram(p, M)) /\ "create" \in Marks(VoxelInit(p, M))
    BY VoxelPieces DEF Known
  <2>2. Marks(VoxelCreate(p, M)) = {"create"} \union Marks(Body(M))
    BY VoxelPieces DEF Known
  <2>3. Marks(Body(M)) \subseteq VoxelMarks \union {"READY"}
    BY VoxelPieces
  <2> QED BY <2>1, <2>2, <2>3 DEF VoxelMarks
<1>8. CASE VoxelFailing(p, s, t, tab)
  BY <1>0, <1>8 DEF VoxelFailing
<1>9. CASE VoxelEnding(p, s, t, tab)
  BY <1>0, <1>9 DEF VoxelEnding
<1> QED BY <1>1, <1>2, <1>3, <1>4, <1>5, <1>6, <1>7, <1>8, <1>9 DEF Phase

-----------------------------------------------------------------------------
(***************************************************************************)
(* The steps of a node, one after the other.                               *)
(***************************************************************************)
Put(f, n, v) == [f EXCEPT ![n] = v]

LEMMA SetsIs ==
  ASSUME NEW f, OnNodes(f), NEW n \in Nodes, NEW v
  PROVE  /\ OnNodes(Put(f, n, v)) /\ Put(f, n, v)[n] = v
         /\ \A m \in Nodes \ {n} : Put(f, n, v)[m] = f[m]
<1>1. Put(f, n, v) = [m \in Nodes |-> IF m = n THEN v ELSE f[m]]
  BY ExceptIs DEF OnNodes, Put
<1> QED BY <1>1 DEF OnNodes

LEMMA StepFacts ==
  ASSUME NodesInv, NEW n \in Nodes
  PROVE  /\ Phase(P(n), state[n], todo[n], table[n]) /\ IsProg(todo[n]) /\ ParamsOK(P(n))
         /\ IsSrv(srv) /\ Backed(srv, memory, config.processor)
         /\ config.processor \in {"dsp", "gpu", "cpu"} /\ memory \in [Addresses -> Memory]
         /\ leftover \in BOOLEAN
         /\ OnNodes(state) /\ OnNodes(todo) /\ OnNodes(table) /\ OnNodes(ptrs)
         /\ todo[n] # <<>> =>
              /\ IsProg(Tail(todo[n]))
              /\ Marks(todo[n]) = {Label(Head(todo[n]))} \union Marks(Tail(todo[n]))
<1>1. Phase(P(n), state[n], todo[n], table[n])
  BY DEF NodesInv, Placed
<1>2. IsProg(todo[n])
  BY <1>1, PhaseProg
<1>3. ParamsOK(P(n)) /\ config.processor \in {"dsp", "gpu", "cpu"}
  BY ConfigIs DEF NodesInv, Types, P
<1>4. todo[n] # <<>> => IsProg(Tail(todo[n]))
  BY <1>2, TailIs
<1>5. todo[n] # <<>> => Marks(todo[n]) = {Label(Head(todo[n]))} \union Marks(Tail(todo[n]))
  BY <1>2, MarksOf
<1> QED BY <1>1, <1>2, <1>3, <1>4, <1>5 DEF NodesInv, Types

Special(t) == Marks(t) \intersect {"worker", "map", "create", "params"}

LEMMA HoldsOn ==
  ASSUME NEW p, NEW t, NEW tab, NEW ps, NEW s, NEW u, NEW w, Holds(p, t, tab, ps, s, u, w),
         NEW t2, NEW tab2, NEW s2, NEW u2, NEW w2,
         w2 => w, Special(t2) = Special(t), ps \subseteq s.objects /\ w2 => ps \subseteq s2.objects,
         u2 => \A a \in tab2 : s2.memMap[a] # NoEntry, Covered(s2, t2)
  PROVE  Holds(p, t2, tab2, ps, s2, u2, w2)
<1>1. w2 => \/ Marks(t2) \intersect Makes # {}
            \/ "params" \notin Marks(t2) /\ \E o \in ps : o[2] \in Kinds(p)
  BY DEF Holds, Special, Makes
<1>2. w2 /\ Marks(t2) \intersect {"params", "create"} = {} => ps \subseteq s2.objects
  BY DEF Holds, Special
<1> QED BY <1>1, <1>2 DEF Holds

LEMMA HoldsIdle ==
  ASSUME NEW p, NEW t, NEW tab, NEW ps, NEW s, NEW u, NEW w, ~w,
         u => \A a \in tab : s.memMap[a] # NoEntry, Covered(s, t)
  PROVE  Holds(p, t, tab, ps, s, u, w)
  BY DEF Holds

\* Without a change of the service.
LEMMA NothingMoves ==
  ASSUME NodesInv, NEW n \in Nodes, srv' = srv
  PROVE  Enters1(n) /\ Objects1(n)
  BY DEF Enters1, Objects1, Grows

LEMMA EnterStateGoes ==
  ASSUME NodesInv, NEW n \in Nodes, todo[n] # <<>>, Fadas!EnterState(n), UNCHANGED <<config, memory>>
  PROVE  Goes(n)
<1> DEFINE p == P(n)
           t == todo[n]
           a == Head(t).arg
<1>1. /\ Head(t).op = "state"
      /\ state' = [state EXCEPT ![n] = a] /\ todo' = [todo EXCEPT ![n] = Tail(t)]
      /\ UNCHANGED <<srv, table, ptrs, leftover>>
  BY DEF Fadas!EnterState
<1>2. /\ a \in {"READY", "INITIAL", "INITIALIZING"} /\ Phase(p, a, Tail(t), table[n])
      /\ Uses(p, a, Tail(t)) <=> Uses(p, state[n], t)
      /\ Serves(p, a, Tail(t)) => Serves(p, state[n], t)
  BY <1>1, StepFacts, StateNext
<1>3. /\ state'[n] = a /\ OnNodes(state') /\ \A m \in Nodes \ {n} : state'[m] = state[m]
      /\ todo'[n] = Tail(t) /\ OnNodes(todo') /\ \A m \in Nodes \ {n} : todo'[m] = todo[m]
  <2>1. OnNodes(state) /\ OnNodes(todo)
    BY StepFacts
  <2>2. state'[n] = a /\ OnNodes(state') /\ \A m \in Nodes \ {n} : state'[m] = state[m]
    <3>1. state' = Put(state, n, a)
      BY <1>1, Zenon DEF Put
    <3> QED BY <2>1, <3>1, SetsIs
  <2>3. todo'[n] = Tail(t) /\ OnNodes(todo') /\ \A m \in Nodes \ {n} : todo'[m] = todo[m]
    <3>1. todo' = Put(todo, n, Tail(t))
      BY <1>1, Zenon DEF Put
    <3> QED BY <2>1, <3>1, SetsIs
  <2> QED BY <2>2, <2>3
<1>4. Alone(n)
  BY <1>1, <1>3, StepFacts DEF Alone
<1>5. Counts(n)
  BY <1>1, <1>2, <1>3, StepFacts DEF Counts, User, UserNext
<1>6. Moves(n)
  BY <1>1, <1>2, <1>3, <1>4, <1>5, NothingMoves, StepFacts DEF Moves
<1>7. ASSUME Equipped(n) PROVE HoldsNext(n)
  <2>1. Label(Head(t)) = a /\ Marks(t) = {a} \union Marks(Tail(t)) /\ IsProg(Tail(t))
    BY <1>1, StepFacts DEF Label
  <2>2. Special(Tail(t)) = Special(t)
    BY <1>2, <2>1 DEF Special
  <2>3. "run" \notin Marks(Tail(t))
    BY <1>2, RunMarks DEF Framing
  <2>4. Covered(srv, Tail(t))
    BY <2>1, <2>3, NoneCovered
  <2>5. Holds(p, t, table[n], ptrs[n], srv, User(n), Server(n)) /\ \A o \in ptrs[n] : o[1] = n
    BY <1>7 DEF Equipped
  <2>6. UserNext(n) <=> User(n)
    BY <1>2, <1>3 DEF User, UserNext
  <2>7. ServerNext(n) => Server(n)
    BY <1>2, <1>3 DEF Server, ServerNext
  <2>8. UserNext(n) => \A b \in table[n] : srv.memMap[b] # NoEntry
    BY <2>5, <2>6 DEF Holds
  <2>9. Holds(p, Tail(t), table[n], ptrs[n], srv, UserNext(n), ServerNext(n))
    BY <2>2, <2>4, <2>5, <2>7, <2>8, HoldsOn
  <2> QED BY <1>1, <1>3, <2>5, <2>9 DEF HoldsNext
<1> QED BY <1>6, <1>7 DEF Goes

LEMMA ReleaseGoes ==
  ASSUME NodesInv, NEW n \in Nodes, todo[n] # <<>>, Fadas!DeRegisterAllBuffers(n),
         UNCHANGED <<config, memory>>
  PROVE  Goes(n)
<1> DEFINE p == P(n)
           t == todo[n]
<1>0. Head(t).op = "release" /\ UNCHANGED <<state, ptrs, leftover>>
  BY DEF Fadas!DeRegisterAllBuffers
<1>1. Label(Head(t)) = "release" /\ Marks(t) = {"release"} \union Marks(Tail(t)) /\ IsProg(Tail(t))
  BY <1>0, StepFacts DEF Label
<1>2. "run" \notin Marks(t) /\ IsProg(t)
  <2>1. ASSUME "run" \in Marks(t) PROVE FALSE
    <3>1. Framing(p, state[n], t)
      BY <2>1, StepFacts, RunMarks
    <3>2. FrameStep(p, Head(t))
      BY <3>1, StepFacts, HeadOps
    <3> QED BY <1>0, <3>2 DEF FrameStep
  <2> QED BY <2>1, StepFacts
<1>3. CASE table[n] = {}
  <2>1. todo' = [todo EXCEPT ![n] = Tail(t)] /\ UNCHANGED <<srv, table>>
    BY <1>3 DEF Fadas!DeRegisterAllBuffers
  <2>2. /\ Phase(p, state[n], Tail(t), table[n])
        /\ Uses(p, state[n], Tail(t)) <=> Uses(p, state[n], t)
        /\ Serves(p, state[n], Tail(t)) => Serves(p, state[n], t)
    <3>1. Phase(p, state[n], t, {})
      BY <1>3, StepFacts
    <3>2. /\ Phase(p, state[n], Tail(t), {})
          /\ Uses(p, state[n], Tail(t)) <=> Uses(p, state[n], t)
          /\ Serves(p, state[n], Tail(t)) => Serves(p, state[n], t)
      BY ONLY <1>0, <3>1, todo[n] # <<>>, ReleaseNext
    <3> QED BY <1>3, <3>2
  <2>3. todo'[n] = Tail(t) /\ OnNodes(todo') /\ \A m \in Nodes \ {n} : todo'[m] = todo[m]
    <3>1. OnNodes(todo)
      BY StepFacts
    <3>2. todo' = Put(todo, n, Tail(t))
      BY <2>1, Zenon DEF Put
    <3> QED BY <3>1, <3>2, SetsIs
  <2>4. Alone(n)
    BY <1>0, <2>1, <2>3, StepFacts DEF Alone
  <2>5. Counts(n)
    BY <1>0, <2>1, <2>2, <2>3, StepFacts DEF Counts, User, UserNext
  <2>6. Moves(n)
    BY <1>0, <2>1, <2>2, <2>3, <2>4, <2>5, NothingMoves, StepFacts DEF Moves
  <2>7. ASSUME Equipped(n) PROVE HoldsNext(n)
    <3>1. Special(Tail(t)) = Special(t)
      BY <1>1 DEF Special
    <3>2. Covered(srv, Tail(t))
      BY <1>1, <1>2, NoneCovered
    <3>3. Holds(p, t, table[n], ptrs[n], srv, User(n), Server(n)) /\ \A o \in ptrs[n] : o[1] = n
      BY <2>7 DEF Equipped
    <3>4. UserNext(n) => \A b \in table[n] : srv.memMap[b] # NoEntry
      BY <1>3
    <3>5. ServerNext(n) => Server(n)
      BY <1>0, <2>2, <2>3 DEF Server, ServerNext
    <3>6. Holds(p, Tail(t), table[n], ptrs[n], srv, UserNext(n), ServerNext(n))
      BY <3>1, <3>2, <3>3, <3>4, <3>5, HoldsOn
    <3> QED BY <1>0, <2>1, <2>3, <3>3, <3>6 DEF HoldsNext
  <2> QED BY <2>6, <2>7 DEF Goes
<1>4. CASE table[n] # {}
  <2>1. PICK a \in table[n] :
          /\ table' = [table EXCEPT ![n] = @ \ {a}]
          /\ IF P(n).opencl THEN UNCHANGED srv
             ELSE \E r \in Fadas!DeregBuf(srv, a, config.mayFail) : srv' = r.s
          /\ UNCHANGED todo
    BY <1>4 DEF Fadas!DeRegisterAllBuffers, P
  <2>2. p.kind = "voxelization" /\ a \in Fadas!KeepAddrs(p) /\ a \in Addresses
    <3>1. p.kind = "voxelization" /\ table[n] \subseteq Fadas!KeepAddrs(p)
      BY <1>4, StepFacts DEF Phase
    <3> QED BY <3>1, StepFacts, AddrsIs
  <2>3. /\ table'[n] = table[n] \ {a} /\ OnNodes(table')
        /\ \A m \in Nodes \ {n} : table'[m] = table[m]
    <3>1. OnNodes(table)
      BY StepFacts
    <3>2. table' = Put(table, n, table[n] \ {a})
      BY <2>1, Zenon DEF Put
    <3> QED BY <3>1, <3>2, SetsIs
  <2>4. Phase(p, state[n], t, table'[n])
    BY <2>3, StepFacts, TabShrinks
  <2>5. Alone(n)
    BY <1>0, <2>1, <2>3, StepFacts DEF Alone
  <2>6. UserNext(n) = User(n) /\ ServerNext(n) = Server(n)
    BY <1>0, <2>1 DEF User, UserNext, Server, ServerNext
  <2>7. /\ IsSrv(srv') /\ Backed(srv', memory, config.processor)
        /\ SameUsers(srv, srv') /\ Shrinks(srv, srv', IF p.opencl THEN {} ELSE {a})
    <3>1. CASE p.opencl
      BY <2>1, <3>1, StepFacts DEF SameUsers, Shrinks
    <3>2. CASE ~p.opencl
      <4>1. PICK r \in Fadas!DeregBuf(srv, a, config.mayFail) : srv' = r.s
        BY <2>1, <3>2
      <4>2. /\ IsSrv(r.s) /\ Backed(r.s, memory, config.processor)
            /\ SameUsers(srv, r.s) /\ Shrinks(srv, r.s, {a})
        BY <2>2, StepFacts, DeregBufDrops
      <4> QED BY <3>2, <4>1, <4>2
    <3> QED BY <3>1, <3>2
  <2>8. Shrinks(srv, srv', DropAddrs(p))
    <3>1. (IF p.opencl THEN {} ELSE {a}) \subseteq DropAddrs(p)
      BY <2>2 DEF DropAddrs, Fadas!DropsOf
    <3> QED BY <2>7, <3>1 DEF Shrinks
  <2>9. Moves(n)
    <3>1. Counts(n)
      BY <1>0, <2>6, <2>7, StepFacts DEF Counts, SameUsers
    <3>2. Enters1(n) /\ Objects1(n)
      BY <2>7, <2>8 DEF Enters1, Objects1, SameUsers
    <3> QED BY <1>0, <2>1, <2>4, <2>5, <2>7, <3>1, <3>2 DEF Moves
  <2>10. ASSUME Equipped(n) PROVE HoldsNext(n)
    <3>1. Covered(srv', t)
      BY <1>2, NoneCovered
    <3>2. Holds(p, t, table[n], ptrs[n], srv, User(n), Server(n)) /\ \A o \in ptrs[n] : o[1] = n
      BY <2>10 DEF Equipped
    <3>3. User(n) => \A b \in table'[n] : srv'.memMap[b] # NoEntry
      <4> SUFFICES ASSUME User(n), NEW b \in table[n] \ {a} PROVE srv'.memMap[b] # NoEntry
        BY <2>3
      <4>1. srv.memMap[b] # NoEntry
        BY <3>2 DEF Holds
      <4>2. b \in Addresses
        BY StepFacts, AddrsIs DEF Phase
      <4> QED BY <2>7, <4>1, <4>2 DEF Shrinks
    <3>4. Holds(p, t, table'[n], ptrs[n], srv', UserNext(n), ServerNext(n))
      <4>1. srv'.objects = srv.objects
        BY <2>7 DEF SameUsers
      <4>2. \A f \in {ptrs[n]} : f \subseteq srv.objects /\ ServerNext(n) => f \subseteq srv'.objects
        BY <4>1
      <4> QED BY <2>6, <3>1, <3>2, <3>3, <4>2, HoldsOn
    <3> QED BY <1>0, <2>1, <3>2, <3>4 DEF HoldsNext
  <2> QED BY <2>9, <2>10 DEF Goes
<1> QED BY <1>3, <1>4

LEMMA NoRun ==
  ASSUME NodesInv, NEW n \in Nodes, todo[n] # <<>>,
         Head(todo[n]).op \notin {"reg", "keep", "run", "kernels"}
  PROVE  "run" \notin Marks(todo[n]) /\ "run" \notin Marks(Tail(todo[n]))
<1>1. ASSUME "run" \in Marks(todo[n]) PROVE FALSE
  <2>1. Framing(P(n), state[n], todo[n])
    BY <1>1, StepFacts, RunMarks
  <2>2. FrameStep(P(n), Head(todo[n]))
    BY <2>1, StepFacts, HeadOps
  <2> QED BY <2>2 DEF FrameStep
<1> QED BY <1>1, StepFacts

LEMMA DestroyGoes ==
  ASSUME NodesInv, NEW n \in Nodes, todo[n] # <<>>, Fadas!Destroy(n), UNCHANGED <<config, memory>>
  PROVE  Goes(n)
<1> DEFINE p    == P(n)
           t    == todo[n]
           mine == { o \in ptrs[n] : o[2] = Head(t).arg }
<1>1. /\ Head(t).op = "destroy" /\ UNCHANGED <<state, table, ptrs, leftover>>
      /\ todo' = Put(todo, n, Tail(t))
      /\ \E kept : srv' = [srv EXCEPT !.objects = srv.objects \ (mine \ kept)]
  BY DEF Fadas!Destroy, Put
<1>2. PICK kept : srv' = [srv EXCEPT !.objects = srv.objects \ (mine \ kept)]
  BY <1>1
<1>3. todo'[n] = Tail(t) /\ OnNodes(todo') /\ \A m \in Nodes \ {n} : todo'[m] = todo[m]
  BY <1>1, StepFacts, SetsIs
<1>4. /\ Phase(p, state[n], Tail(t), table[n])
      /\ Uses(p, state[n], Tail(t)) <=> Uses(p, state[n], t)
      /\ ~Serves(p, state[n], Tail(t))
  BY <1>1, StepFacts, DestroyNext
<1>5. /\ IsSrv(srv') /\ SameEntries(srv, srv') /\ srv'.useRef = srv.useRef
      /\ srv'.objects = srv.objects \ (mine \ kept)
  <2> DEFINE gone == mine \ kept
  <2> HIDE DEF gone
  <2>1. srv' = [opened |-> srv.opened, initialized |-> srv.initialized, useRef |-> srv.useRef,
                memMap |-> srv.memMap, mapped |-> srv.mapped, regs |-> srv.regs,
                objects |-> srv.objects \ gone]
    BY <1>2, StepFacts DEF IsSrv, gone
  <2>2. SameEntries(srv, srv') /\ srv'.useRef = srv.useRef /\ srv'.objects = srv.objects \ gone
        /\ srv'.initialized = srv.initialized
    BY <2>1 DEF SameEntries
  <2>3. IsSrv(srv')
    BY <2>1, <2>2, StepFacts DEF IsSrv, SameEntries
  <2> QED BY <2>2, <2>3 DEF gone
<1>6. Moves(n)
  <2>1. Backed(srv', memory, config.processor)
    BY <1>5, StepFacts, SameBacked
  <2>2. Enters1(n)
    BY <1>5 DEF Enters1, Grows, SameEntries
  <2>3. Objects1(n)
    BY <1>5 DEF Objects1
  <2>4. Alone(n)
    BY <1>1, <1>3, StepFacts DEF Alone
  <2>5. Counts(n)
    BY <1>1, <1>3, <1>4, <1>5, StepFacts DEF Counts, User, UserNext
  <2> QED BY <1>1, <1>3, <1>4, <1>5, <2>1, <2>2, <2>3, <2>4, <2>5 DEF Moves
<1>7. ASSUME Equipped(n) PROVE HoldsNext(n)
  <2>1. Covered(srv', Tail(t))
    BY <1>1, StepFacts, NoRun, NoneCovered
  <2>2. ~ServerNext(n) /\ (UserNext(n) <=> User(n))
    BY <1>1, <1>3, <1>4 DEF ServerNext, UserNext, User
  <2>3. User(n) => \A a \in table[n] : srv'.memMap[a] # NoEntry
    BY <1>5, <1>7 DEF Equipped, Holds, SameEntries
  <2>4. Holds(p, Tail(t), table[n], ptrs[n], srv', UserNext(n), ServerNext(n))
    BY <2>1, <2>2, <2>3, HoldsIdle
  <2> QED BY <1>1, <1>3, <1>7, <2>4 DEF HoldsNext, Equipped
<1> QED BY <1>6, <1>7 DEF Goes

\* A step that fails in the course of a frame ends it.
LEMMA FrameEnds ==
  ASSUME NEW p, NEW s, NEW t, Framing(p, s, t)
  PROVE  /\ Special(t) = {} /\ Special(<<>>) = {}
         /\ Serves(p, s, <<>>) <=> Serves(p, s, t)
         /\ Uses(p, s, <<>>) <=> Uses(p, s, t)
<1>1. Marks(t) \subseteq {"reg", "keep", "run", "kernels"} /\ Marks(<<>>) = {}
  BY MiddleMarks, MarksOf
<1> QED BY <1>1 DEF Special, Serves, Uses

LEMMA MiddleMoves ==
  ASSUME NodesInv, NEW n \in Nodes, todo[n] # <<>>,
         NEW x, x = Head(todo[n]), x.op \in MiddleOps,
         NEW A, A = <<>> \/ (x.op = "worker" /\ RemapMiddle(P(n), A)),
         NEW ok \in BOOLEAN, Alone(n), state'[n] = state[n],
         todo'[n] = IF ok THEN A \o Tail(todo[n]) ELSE x.instead,
         table'[n] = table[n] \/ (/\ x.op = "keep" /\ ok /\ P(n).kind = "voxelization"
                                  /\ table'[n] = table[n] \union {x.arg.b.at}),
         IsSrv(srv'), Backed(srv', memory, config.processor),
         srv'.useRef = srv.useRef, srv.objects \subseteq srv'.objects,
         Grows(srv, srv', memory) \/ Shrinks(srv, srv', DropAddrs(P(n))),
         leftover' \in BOOLEAN, leftover => leftover',
         ~ok /\ P(n).kind = "remap" /\ state[n] = "INITIAL" => leftover'
  PROVE  Moves(n)
<1> DEFINE p == P(n)
           t == todo[n]
<1>1. Phase(p, state[n], t, table[n]) /\ table[n] \subseteq Fadas!KeepAddrs(p)
      /\ (p.kind = "remap" => table[n] = {})
  BY StepFacts DEF Phase
<1>2. x.op = "keep" => x.arg.b.at \in Fadas!KeepAddrs(p)
  <2>1. \/ FrameStep(p, x) \/ RemapStep(p, x) \/ Undoes(p, x) \/ VoxelStep(p, x)
    <3>1. {} \subseteq Fadas!KeepAddrs(p)
      OBVIOUS
    <3> QED BY <1>1, MiddleNext
  <2> QED BY <2>1 DEF FrameStep, RemapStep, Undoes, VoxelStep
<1>3. table'[n] \subseteq Fadas!KeepAddrs(p) /\ (p.kind = "remap" => table'[n] = {})
  BY <1>1, <1>2
<1>4. /\ Phase(p, state[n], A \o Tail(t), IF ok THEN table'[n] ELSE table[n])
      /\ Phase(p, state[n], x.instead, table[n])
      /\ Uses(p, state[n], A \o Tail(t)) <=> Uses(p, state[n], t)
      /\ IF p.kind = "remap" /\ state[n] = "INITIAL" THEN ~Uses(p, state[n], x.instead)
         ELSE Uses(p, state[n], x.instead) <=> Uses(p, state[n], t)
  <2> DEFINE more == IF ok THEN table'[n] ELSE table[n]
  <2>1. /\ more \subseteq Fadas!KeepAddrs(p) /\ (p.kind = "remap" => more = {})
        /\ more = table[n] \/ x.op = "keep"
    BY <1>1, <1>3
  <2> HIDE DEF more
  <2>2. /\ Phase(p, state[n], A \o Tail(t), more) /\ Phase(p, state[n], x.instead, table[n])
        /\ Uses(p, state[n], A \o Tail(t)) <=> Uses(p, state[n], t)
        /\ IF p.kind = "remap" /\ state[n] = "INITIAL" THEN ~Uses(p, state[n], x.instead)
           ELSE Uses(p, state[n], x.instead) <=> Uses(p, state[n], t)
    <3>1. /\ Phase(p, state[n], t, table[n]) /\ t # <<>> /\ x = Head(t) /\ x.op \in MiddleOps
          /\ A = <<>> \/ (x.op = "worker" /\ RemapMiddle(p, A))
          /\ more \subseteq Fadas!KeepAddrs(p) /\ (p.kind = "remap" => more = {})
          /\ more = table[n] \/ x.op = "keep"
      BY <1>1, <2>1
    <3> QED BY ONLY <3>1, MiddleNext
  <2> QED BY <2>2 DEF more
<1>5. Phase(p, state'[n], todo'[n], table'[n])
  BY <1>4
<1>6. Counts(n)
  <2>1. CASE ok
    BY <1>4, <2>1 DEF Counts, User, UserNext
  <2>2. CASE ~ok
    BY <1>4, <2>2 DEF Counts, User, UserNext
  <2> QED BY <2>1, <2>2
<1>7. Enters1(n) /\ Objects1(n)
  BY DEF Enters1, Objects1
<1> QED BY <1>5, <1>6, <1>7 DEF Moves

LEMMA MiddleHolds ==
  ASSUME NodesInv, NEW n \in Nodes, todo[n] # <<>>, Equipped(n),
         NEW x, x = Head(todo[n]), x.op \in MiddleOps \ {"worker", "map"},
         NEW ok \in BOOLEAN, state'[n] = state[n], ptrs'[n] = ptrs[n],
         todo'[n] = IF ok THEN Tail(todo[n]) ELSE x.instead,
         \A a \in table'[n] \ table[n] :
           /\ P(n).kind = "voxelization" /\ a \in Addresses
           /\ ~OpenCL(P(n)) => srv'.memMap[a] # NoEntry,
         srv'.objects = srv.objects,
         x.op # "dereg" => Grows(srv, srv', memory),
         ok /\ x.op \in {"reg", "keep"} /\ ~OpenCL(P(n)) => srv'.memMap[x.arg.b.at] # NoEntry
  PROVE  HoldsNext(n)
<1> DEFINE p == P(n)
           t == todo[n]
<1>1. /\ Phase(p, state[n], t, table[n]) /\ table[n] \subseteq Fadas!KeepAddrs(p)
      /\ (p.kind = "remap" => table[n] = {}) /\ Fadas!KeepAddrs(p) \subseteq Addresses
      /\ Fadas!FrameAddrs(p) \subseteq Addresses
  BY StepFacts, AddrsIs DEF Phase
<1>2. /\ \/ Framing(p, state[n], t) /\ FrameStep(p, x)
         \/ RemapStarting(p, state[n], t) /\ RemapStep(p, x)
         \/ RemapFailing(p, state[n], t) /\ Undoes(p, x)
         \/ VoxelStarting(p, state[n], t, table[n]) /\ VoxelStep(p, x)
      /\ Phase(p, state[n], x.instead, table[n])
      /\ Uses(p, state[n], <<>> \o Tail(t)) <=> Uses(p, state[n], t)
      /\ Serves(p, state[n], <<>> \o Tail(t)) => Serves(p, state[n], t)
      /\ Uses(p, state[n], x.instead) => Uses(p, state[n], t)
      /\ state[n] # "RUNNING" => ~Serves(p, state[n], x.instead)
  <2>1. x.op \in MiddleOps
    OBVIOUS
  <2>2. PICK A : A = <<>>
    OBVIOUS
  <2>3. {} \subseteq Fadas!KeepAddrs(p)
    OBVIOUS
  <2>4. /\ \/ Framing(p, state[n], t) /\ FrameStep(p, x)
           \/ RemapStarting(p, state[n], t) /\ RemapStep(p, x)
           \/ RemapFailing(p, state[n], t) /\ Undoes(p, x)
           \/ VoxelStarting(p, state[n], t, table[n]) /\ VoxelStep(p, x)
        /\ Phase(p, state[n], x.instead, table[n])
        /\ Uses(p, state[n], A \o Tail(t)) <=> Uses(p, state[n], t)
        /\ Serves(p, state[n], A \o Tail(t)) => Serves(p, state[n], t)
        /\ IF p.kind = "remap" /\ state[n] = "INITIAL" THEN ~Uses(p, state[n], x.instead)
           ELSE Uses(p, state[n], x.instead) <=> Uses(p, state[n], t)
        /\ state[n] # "RUNNING" => ~Serves(p, state[n], x.instead)
    <3>1. PICK more : more = table[n]
      OBVIOUS
    <3>2. /\ Phase(p, state[n], t, table[n]) /\ t # <<>> /\ x = Head(t) /\ x.op \in MiddleOps
          /\ A = <<>> \/ (x.op = "worker" /\ RemapMiddle(p, A))
          /\ more \subseteq Fadas!KeepAddrs(p) /\ (p.kind = "remap" => more = {})
          /\ more = table[n] \/ x.op = "keep"
      BY <1>1, <2>1, <2>2, <3>1
    <3>3. /\ \/ Framing(p, state[n], t) /\ FrameStep(p, x)
             \/ RemapStarting(p, state[n], t) /\ RemapStep(p, x)
             \/ RemapFailing(p, state[n], t) /\ Undoes(p, x)
             \/ VoxelStarting(p, state[n], t, table[n]) /\ VoxelStep(p, x)
          /\ Phase(p, state[n], x.instead, table[n])
      BY ONLY <3>2, MiddleNext
    <3>4. /\ Uses(p, state[n], A \o Tail(t)) <=> Uses(p, state[n], t)
          /\ Serves(p, state[n], A \o Tail(t)) => Serves(p, state[n], t)
      BY ONLY <3>2, MiddleNext
    <3>5. /\ IF p.kind = "remap" /\ state[n] = "INITIAL" THEN ~Uses(p, state[n], x.instead)
             ELSE Uses(p, state[n], x.instead) <=> Uses(p, state[n], t)
          /\ state[n] # "RUNNING" => ~Serves(p, state[n], x.instead)
      BY ONLY <3>2, MiddleNext
    <3> QED BY <3>3, <3>4, <3>5
  <2> QED BY <2>2, <2>4
<1>3. <<>> \o Tail(t) = Tail(t)
  BY StepFacts, NothingBefore
<1>4. Label(x) = x.op /\ x.op \notin {"worker", "map", "create", "params", "state"}
  BY DEF Label, MiddleOps
<1>5. User(n) => \A a \in table'[n] : srv'.memMap[a] # NoEntry
  <2> SUFFICES ASSUME User(n), NEW a \in table'[n] PROVE srv'.memMap[a] # NoEntry
    OBVIOUS
  <2>1. CASE a \in table[n]
    <3>1. srv.memMap[a] # NoEntry /\ a \in Addresses
      BY <1>1, <2>1 DEF Equipped, Holds
    <3>2. p.kind # "remap"
      BY <1>1, <2>1
    <3>3. x.op # "dereg"
      BY <1>2, <3>2 DEF FrameStep, RemapStarting, RemapFailing, VoxelStep
    <3> QED BY <3>1, <3>3 DEF Grows
  <2>2. CASE a \notin table[n]
    BY <2>2 DEF User, Uses
  <2> QED BY <2>1, <2>2
<1>6. Holds(p, t, table[n], ptrs[n], srv, User(n), Server(n)) /\ \A o \in ptrs[n] : o[1] = n
  BY DEF Equipped
<1>7. CASE ok
  <2>1. todo'[n] = Tail(t)
    BY <1>7
  <2>2. (UserNext(n) <=> User(n)) /\ (ServerNext(n) => Server(n))
    BY <1>2, <1>3, <2>1 DEF User, UserNext, Server, ServerNext
  <2>3. Special(Tail(t)) = Special(t)
    BY <1>4, StepFacts DEF Special
  <2>4. Covered(srv', Tail(t))
    <3>1. CASE "run" \notin Marks(Tail(t))
      BY <3>1, StepFacts, NoneCovered
    <3>2. CASE "run" \in Marks(Tail(t))
      <4>1. Framing(p, state[n], t) /\ FrameStep(p, x)
        <5>1. "run" \in Marks(t)
          BY <3>2, StepFacts
        <5> QED BY <1>1, <5>1, RunMarks, HeadOps
      <4>2. /\ \A y \in Elems(t) : y.op = "run" => { b.at : b \in y.arg.bs } \subseteq Fadas!FrameAddrs(p)
            /\ ~OpenCL(p)
        <5>1. \A y \in Elems(t) : FrameStep(p, y)
          BY <4>1 DEF Framing
        <5>2. PICK y \in Elems(Tail(t)) : y.op = "run" \/ (y.op = "state" /\ y.arg = "run")
          BY <3>2 DEF Marks, Label
        <5>3. y \in Elems(t)
          BY <5>2, StepFacts, TailIs
        <5> QED BY <5>1, <5>2, <5>3 DEF FrameStep
      <4>3. \A a \in Fadas!FrameAddrs(p) : srv.memMap[a] # NoEntry => srv'.memMap[a] # NoEntry
        BY <1>1, <4>1 DEF FrameStep, Grows
      <4>4. \A a \in Fadas!FrameAddrs(p) : Enters(Head(t), a) => srv'.memMap[a] # NoEntry
        BY <1>7, <4>2 DEF Enters
      <4>5. Covered(srv, t)
        BY <1>6 DEF Holds
      <4>6. IsProg(t) /\ t # <<>>
        BY StepFacts
      <4> QED BY ONLY <4>2, <4>3, <4>4, <4>5, <4>6, CoveredTail
    <3> QED BY <3>1, <3>2
  <2>5. ptrs[n] \subseteq srv.objects => ptrs[n] \subseteq srv'.objects
    OBVIOUS
  <2>6. Holds(p, Tail(t), table'[n], ptrs[n], srv', UserNext(n), ServerNext(n))
    BY <1>5, <1>6, <2>2, <2>3, <2>4, <2>5, HoldsOn
  <2> QED BY <1>6, <2>1, <2>6 DEF HoldsNext
<1>8. CASE ~ok
  <2>1. todo'[n] = x.instead /\ IsProg(x.instead)
    BY <1>2, <1>8, PhaseProg
  <2>2. UserNext(n) => User(n)
    BY <1>2, <2>1 DEF User, UserNext
  <2>3. CASE state[n] = "RUNNING"
    <3>1. Framing(p, state[n], t) /\ FrameStep(p, x)
      BY <1>2, <2>3 DEF RemapStarting, RemapFailing, VoxelStarting
    <3>2. x.instead = <<>>
      BY <3>1 DEF FrameStep
    <3>3. Special(<<>>) = Special(t) /\ (ServerNext(n) => Server(n))
      BY <2>1, <3>1, <3>2, FrameEnds DEF Server, ServerNext
    <3>4. Covered(srv', <<>>)
      BY NoneIs, NoneCovered, MarksOf
    <3>5. Holds(p, <<>>, table'[n], ptrs[n], srv', UserNext(n), ServerNext(n))
      BY <1>5, <1>6, <2>2, <3>3, <3>4, HoldsOn
    <3> QED BY <1>6, <2>1, <3>2, <3>5 DEF HoldsNext
  <2>4. CASE state[n] # "RUNNING"
    <3>1. ~ServerNext(n)
      BY <1>2, <2>1, <2>4 DEF ServerNext
    <3>2. "run" \notin Marks(x.instead)
      BY <1>2, <2>4, RunMarks DEF Framing
    <3>3. Covered(srv', x.instead)
      BY <2>1, <3>2, NoneCovered
    <3>4. Holds(p, x.instead, table'[n], ptrs[n], srv', UserNext(n), ServerNext(n))
      BY <1>5, <2>2, <3>1, <3>3, HoldsIdle
    <3> QED BY <1>6, <2>1, <3>4 DEF HoldsNext
  <2> QED BY <2>3, <2>4
<1> QED BY <1>7, <1>8

LEMMA MiddleAt ==
  ASSUME NodesInv, NEW n \in Nodes, todo[n] # <<>>,
         NEW x, x = Head(todo[n]), x.op \in MiddleOps
  PROVE  /\ \/ state[n] = "RUNNING" /\ FrameStep(P(n), x)
            \/ P(n).kind = "remap" /\ state[n] = "INITIAL" /\ (RemapStep(P(n), x) \/ Undoes(P(n), x))
            \/ P(n).kind = "voxelization" /\ VoxelStep(P(n), x)
         /\ x.op # "dereg" /\ ~OpenCL(P(n)) => User(n)
<1> DEFINE p == P(n)
           t == todo[n]
<1>1. PICK more, A : more = table[n] /\ A = <<>>
  OBVIOUS
<1>2. /\ Phase(p, state[n], t, table[n]) /\ t # <<>> /\ x = Head(t)
      /\ A = <<>> \/ (x.op = "worker" /\ RemapMiddle(p, A))
      /\ more \subseteq Fadas!KeepAddrs(p) /\ (p.kind = "remap" => more = {})
      /\ more = table[n] \/ x.op = "keep"
      /\ x.op \in MiddleOps
  BY <1>1, StepFacts DEF Phase
<1>3. /\ \/ Framing(p, state[n], t) /\ FrameStep(p, x)
         \/ RemapStarting(p, state[n], t) /\ RemapStep(p, x)
         \/ RemapFailing(p, state[n], t) /\ Undoes(p, x)
         \/ VoxelStarting(p, state[n], t, table[n]) /\ VoxelStep(p, x)
      /\ x.op # "dereg" /\ ~OpenCL(p) => Uses(p, state[n], t)
  BY ONLY <1>2, MiddleNext
<1> QED BY <1>3 DEF Framing, RemapStarting, RemapFailing, VoxelStarting, User

\* A user keeps the library up.
LEMMA UserCounts ==
  ASSUME NodesInv, NEW n \in Nodes, User(n)
  PROVE  srv.useRef # 0 /\ srv.useRef \in Nat /\ IsFiniteSet(Users)
<1>1. Users \subseteq Nodes /\ IsFiniteSet(Nodes)
  BY Configurations DEF Users, Nodes
<1>2. IsFiniteSet(Users)
  BY <1>1, FS_Subset
<1>3. n \in Users
  BY DEF Users
<1>4. Cardinality(Users) # 0 /\ Cardinality(Users) \in Nat
  BY <1>2, <1>3, FS_EmptySet, FS_CardinalityType
<1> QED BY <1>2, <1>4 DEF NodesInv, UsersCounted, IsSrv

LEMMA OutcomesAre ==
  /\ \A s : /\ Fadas!Ok(s).s = s /\ Fadas!Ok(s).ok = TRUE
            /\ Fadas!Failed(s).s = s /\ Fadas!Failed(s).ok = FALSE
  /\ \A s, may : \A r \in Fadas!Either(s, may) : r.s = s /\ r.ok \in BOOLEAN
<1>1. ASSUME NEW s
      PROVE /\ Fadas!Ok(s).s = s /\ Fadas!Ok(s).ok = TRUE
            /\ Fadas!Failed(s).s = s /\ Fadas!Failed(s).ok = FALSE
  BY DEF Fadas!Ok, Fadas!Failed
<1>2. ASSUME NEW s, NEW may, NEW r \in Fadas!Either(s, may) PROVE r.s = s /\ r.ok \in BOOLEAN
  <2>1. r = Fadas!Ok(s) \/ r = Fadas!Failed(s)
    BY DEF Fadas!Either
  <2> QED BY <1>1, <2>1
<1> QED BY <1>1, <1>2

\* What a registration does of node n, and what nothing does.
Keeps(n, r) ==
  /\ IsSrv(r.s) /\ Backed(r.s, memory, config.processor)
  /\ SameUsers(srv, r.s) /\ Grows(srv, r.s, memory) /\ r.ok \in BOOLEAN

LEMMA KeepsNothing ==
  ASSUME NodesInv, NEW n \in Nodes, NEW r, r.s = srv, r.ok \in BOOLEAN
  PROVE  Keeps(n, r)
  BY StepFacts DEF Keeps, SameUsers, Grows

LEMMA KeepsEntry ==
  ASSUME NodesInv, NEW n \in Nodes, User(n), NEW b, b.at \in Addresses, NEW use,
         NEW r \in Fadas!RegBuf(srv, b, use, memory[b.at], config.processor, config.mayFail)
  PROVE  Keeps(n, r) /\ (r.ok => r.s.memMap[b.at] # NoEntry)
<1>1. srv.useRef # 0
  BY UserCounts
<1>2. Took(srv, r, b.at, memory, config.processor)
  BY <1>1, StepFacts, RegBufTakes
<1> QED BY <1>2 DEF Took, Keeps

LEMMA RegisterBufferIs ==
  ASSUME NodesInv, NEW n \in Nodes, NEW x, x.arg.b.at \in Addresses,
         ~OpenCL(P(n)) => User(n), P(n).kind = "voxelization",
         NEW r \in Fadas!RegisterBuffer(n, x)
  PROVE  Keeps(n, r) /\ (r.ok /\ ~OpenCL(P(n)) =>
                           r.s.memMap[x.arg.b.at] # NoEntry \/ x.arg.b.at \in table[n])
<1> DEFINE b == x.arg.b
<1>1. CASE b.kind # "tensor"
  <2>1. r \in {Fadas!Failed(srv)}
    BY <1>1, SMT DEF Fadas!RegisterBuffer
  <2>2. r.s = srv /\ r.ok = FALSE
    BY <2>1, OutcomesAre
  <2> QED BY <2>2, KeepsNothing
<1>2. CASE b.kind = "tensor" /\ b.at \in table[n]
  <2>1. r \in {Fadas!Ok(srv)}
    BY <1>2, SMT DEF Fadas!RegisterBuffer
  <2>2. r.s = srv /\ r.ok = TRUE
    BY <2>1, OutcomesAre
  <2> QED BY <1>2, <2>2, KeepsNothing
<1>3. CASE b.kind = "tensor" /\ b.at \notin table[n] /\ P(n).opencl
  <2>1. r \in Fadas!Either(srv, config.mayFail)
    BY <1>3 DEF Fadas!RegisterBuffer, P
  <2>2. OpenCL(P(n))
    BY <1>3 DEF OpenCL
  <2> QED BY <2>1, <2>2, OutcomesAre, KeepsNothing
<1>4. CASE b.kind = "tensor" /\ b.at \notin table[n] /\ ~P(n).opencl
  <2>1. r \in Fadas!RegBuf(srv, b, x.arg.use, memory[b.at], config.processor, config.mayFail)
    BY <1>4 DEF Fadas!RegisterBuffer, P
  <2>2. ~OpenCL(P(n))
    BY <1>4 DEF OpenCL
  <2> QED BY <2>1, <2>2, KeepsEntry
<1> QED BY <1>1, <1>2, <1>3, <1>4

LEMMA RegisterGoes ==
  ASSUME NodesInv, NEW n \in Nodes, todo[n] # <<>>, Fadas!Register(n), UNCHANGED <<config, memory>>
  PROVE  Goes(n)
<1> DEFINE p == P(n)
           t == todo[n]
           x == Head(t)
           a == x.arg.b.at
<1>1. PICK r \in Fadas!RegisterBuffer(n, x) :
        /\ srv' = r.s
        /\ table' = Put(table, n, IF r.ok THEN table[n] \union {a} ELSE table[n])
        /\ todo' = Put(todo, n, IF r.ok THEN Tail(t) ELSE x.instead)
  BY DEF Fadas!Register, Put
<1>2. x.op = "keep" /\ UNCHANGED <<state, ptrs, leftover>>
  BY DEF Fadas!Register
<1>3. x.op \in MiddleOps
  BY <1>2 DEF MiddleOps
<1>4. /\ a \in Fadas!KeepAddrs(p) /\ a \in Addresses /\ p.kind = "voxelization"
      /\ ~OpenCL(p) => User(n)
  <2>1. /\ \/ state[n] = "RUNNING" /\ FrameStep(p, x)
           \/ p.kind = "remap" /\ state[n] = "INITIAL" /\ (RemapStep(p, x) \/ Undoes(p, x))
           \/ p.kind = "voxelization" /\ VoxelStep(p, x)
        /\ x.op # "dereg" /\ ~OpenCL(p) => User(n)
    BY <1>3, MiddleAt
  <2>2. a \in Fadas!KeepAddrs(p)
    BY <1>2, <2>1 DEF FrameStep, RemapStep, Undoes, VoxelStep
  <2>3. p.kind = "voxelization"
    BY <2>2 DEF Fadas!KeepAddrs
  <2> QED BY <1>2, <2>1, <2>2, <2>3, StepFacts, AddrsIs
<1> HIDE DEF a, x
<1>5. Keeps(n, r) /\ (r.ok /\ ~OpenCL(p) => r.s.memMap[a] # NoEntry \/ a \in table[n])
  BY <1>1, <1>4, RegisterBufferIs DEF a
<1>6. /\ table'[n] = IF r.ok THEN table[n] \union {a} ELSE table[n]
      /\ OnNodes(table') /\ \A m \in Nodes \ {n} : table'[m] = table[m]
      /\ todo'[n] = IF r.ok THEN Tail(t) ELSE x.instead
      /\ OnNodes(todo') /\ \A m \in Nodes \ {n} : todo'[m] = todo[m]
  <2>1. PICK v, w : /\ v = IF r.ok THEN table[n] \union {a} ELSE table[n]
                    /\ w = IF r.ok THEN Tail(t) ELSE x.instead
    OBVIOUS
  <2>2. table' = Put(table, n, v) /\ todo' = Put(todo, n, w)
    BY <1>1, <2>1
  <2>3. OnNodes(table) /\ OnNodes(todo)
    BY StepFacts
  <2> QED BY <2>1, <2>2, <2>3, SetsIs
<1>7. Alone(n)
  BY <1>2, <1>6, StepFacts DEF Alone
<1>8. x = Head(todo[n]) /\ <<>> \o Tail(t) = Tail(t)
  BY StepFacts, NothingBefore DEF x
<1>9. r.ok \in BOOLEAN
  BY <1>5 DEF Keeps
<1>10. Moves(n)
  <2>1. PICK A : A = <<>>
    OBVIOUS
  <2>2. todo'[n] = IF r.ok THEN A \o Tail(todo[n]) ELSE x.instead
    BY <1>6, <1>8, <2>1
  <2>3. /\ IsSrv(srv') /\ Backed(srv', memory, config.processor)
        /\ srv'.useRef = srv.useRef /\ srv.objects \subseteq srv'.objects
        /\ Grows(srv, srv', memory)
    BY <1>1, <1>5 DEF Keeps, SameUsers
  <2>4. table'[n] = table[n] \/ (/\ x.op = "keep" /\ r.ok /\ P(n).kind = "voxelization"
                                 /\ table'[n] = table[n] \union {x.arg.b.at})
    BY <1>2, <1>4, <1>6 DEF a
  <2>5. leftover' \in BOOLEAN /\ (leftover => leftover')
    BY <1>2, StepFacts
  <2>6. state'[n] = state[n] /\ P(n).kind # "remap"
    BY <1>2, <1>4
  <2> QED BY <1>3, <1>7, <1>8, <1>9, <2>1, <2>2, <2>3, <2>4, <2>5, <2>6, MiddleMoves
<1>11. ASSUME Equipped(n) PROVE HoldsNext(n)
  <2>1. x.op \in MiddleOps \ {"worker", "map"}
    BY <1>2, <1>3
  <2>2. r.ok /\ ~OpenCL(p) => srv'.memMap[a] # NoEntry
    <3> SUFFICES ASSUME r.ok, ~OpenCL(p), a \in table[n] PROVE srv'.memMap[a] # NoEntry
      BY <1>1, <1>5
    <3>1. srv.memMap[a] # NoEntry
      BY <1>4, <1>11 DEF Equipped, Holds
    <3> QED BY <1>1, <1>4, <1>5, <3>1 DEF Keeps, Grows
  <2>3. \A c \in table'[n] \ table[n] :
           /\ P(n).kind = "voxelization" /\ c \in Addresses
           /\ ~OpenCL(P(n)) => srv'.memMap[c] # NoEntry
    BY <1>4, <1>6, <2>2
  <2>4. srv'.objects = srv.objects /\ Grows(srv, srv', memory)
    BY <1>1, <1>5 DEF Keeps, SameUsers
  <2>5. r.ok /\ x.op \in {"reg", "keep"} /\ ~OpenCL(P(n)) => srv'.memMap[x.arg.b.at] # NoEntry
    BY <2>2 DEF a
  <2> QED BY <1>2, <1>6, <1>8, <1>9, <1>11, <2>1, <2>3, <2>4, <2>5, MiddleHolds
<1> QED BY <1>10, <1>11 DEF Goes

LEMMA ProcessCLFailsGoes ==
  ASSUME NodesInv, NEW n \in Nodes, todo[n] # <<>>, Fadas!ProcessCLFails(n),
         UNCHANGED <<config, memory>>
  PROVE  Goes(n)
<1> DEFINE p == P(n)
           t == todo[n]
           x == Head(t)
<1>1. x.op = "kernels" /\ todo' = Put(todo, n, <<>>) /\ UNCHANGED <<srv, state, table, ptrs, leftover>>
  BY DEF Fadas!ProcessCLFails, Put
<1>2. x.op \in MiddleOps \ {"worker", "map"}
  BY <1>1 DEF MiddleOps
<1>3. x.instead = <<>> /\ state[n] = "RUNNING"
  <2>1. \/ state[n] = "RUNNING" /\ FrameStep(p, x)
        \/ p.kind = "remap" /\ state[n] = "INITIAL" /\ (RemapStep(p, x) \/ Undoes(p, x))
        \/ p.kind = "voxelization" /\ VoxelStep(p, x)
    BY <1>2, MiddleAt
  <2> QED BY <1>1, <2>1 DEF FrameStep, RemapStep, Undoes, VoxelStep
<1>4. todo'[n] = <<>> /\ OnNodes(todo') /\ \A m \in Nodes \ {n} : todo'[m] = todo[m]
  <2>1. PICK v : v = <<>>
    OBVIOUS
  <2> QED BY <1>1, <2>1, StepFacts, SetsIs
<1>5. Alone(n)
  BY <1>1, <1>4, StepFacts DEF Alone
<1> HIDE DEF x
<1>6. Grows(srv, srv', memory) /\ srv' = srv /\ x = Head(todo[n])
  BY <1>1 DEF Grows, x
<1>7. PICK ok, A : ok = FALSE /\ ok \in BOOLEAN /\ A = <<>>
  OBVIOUS
<1>8. todo'[n] = IF ok THEN A \o Tail(todo[n]) ELSE x.instead
  BY <1>3, <1>4, <1>7
<1>9. Moves(n)
  <2>1. /\ leftover' \in BOOLEAN /\ (leftover => leftover') /\ state[n] # "INITIAL"
        /\ state'[n] = state[n] /\ table'[n] = table[n]
    BY <1>1, <1>3, StepFacts
  <2>2. /\ IsSrv(srv') /\ Backed(srv', memory, config.processor)
        /\ srv'.useRef = srv.useRef /\ srv.objects \subseteq srv'.objects
    BY <1>6, StepFacts
  <2> QED BY <1>2, <1>5, <1>6, <1>7, <1>8, <2>1, <2>2, MiddleMoves
<1>10. ASSUME Equipped(n) PROVE HoldsNext(n)
  <2>1. /\ state'[n] = state[n] /\ ptrs'[n] = ptrs[n] /\ table'[n] \ table[n] = {}
        /\ srv'.objects = srv.objects
    BY <1>1
  <2>2. todo'[n] = IF ok THEN Tail(todo[n]) ELSE x.instead
    BY <1>7, <1>8
  <2> QED BY <1>2, <1>6, <1>7, <1>10, <2>1, <2>2, MiddleHolds
<1> QED BY <1>9, <1>10 DEF Goes

-----------------------------------------------------------------------------
(***************************************************************************)
(* The steps that call the service or the engine.                          *)
(***************************************************************************)
Outcomes(n, x) ==
  CASE x.op \in {"params", "worker", "map"} -> Fadas!RemapOutcomes(n, x)
    [] x.op = "create" -> IF config.params[n].opencl
                          THEN Fadas!NoPointer(Fadas!Either(srv, config.mayFail))
                          ELSE Fadas!Created(n, "preproc", 1)
    [] OTHER -> Fadas!NoPointer(Fadas!ServiceOutcomes(n, x))

Did(n, x, r) ==
  /\ Alone(n) /\ state'[n] = state[n] /\ table'[n] = table[n]
  /\ srv' = r.s /\ ptrs'[n] = Fadas!Forget(n, x) \union r.ptr
  /\ todo'[n] = IF r.ok THEN Fadas!After(n, x) \o Tail(todo[n]) ELSE x.instead
  /\ leftover' = (leftover \/ (~r.ok /\ P(n).kind = "remap" /\ state[n] = "INITIAL"))

LEMMA CallIs ==
  ASSUME NodesInv, NEW n \in Nodes, todo[n] # <<>>, Fadas!Call(n), UNCHANGED <<config, memory>>,
         NEW x, x = Head(todo[n])
  PROVE  /\ x.op \notin {"release", "state", "keep", "destroy"}
         /\ \E r \in Outcomes(n, x) : Did(n, x, r)
<1>1. /\ x.op \notin {"release", "state", "keep", "destroy"}
      /\ \E r \in Outcomes(n, x) :
           /\ srv' = r.s
           /\ ptrs' = [ptrs EXCEPT ![n] = Fadas!Forget(n, x) \union r.ptr]
           /\ todo' = [todo EXCEPT ![n] = IF r.ok THEN Fadas!After(n, x) \o Tail(todo[n])
                                                  ELSE x.instead]
           /\ leftover' = (leftover \/ (~r.ok /\ P(n).kind = "remap" /\ state[n] = "INITIAL"))
      /\ UNCHANGED <<state, table>>
  BY DEF Fadas!Call, Outcomes, P
<1>2. PICK r \in Outcomes(n, x) :
        /\ srv' = r.s
        /\ ptrs' = [ptrs EXCEPT ![n] = Fadas!Forget(n, x) \union r.ptr]
        /\ todo' = [todo EXCEPT ![n] = IF r.ok THEN Fadas!After(n, x) \o Tail(todo[n])
                                               ELSE x.instead]
        /\ leftover' = (leftover \/ (~r.ok /\ P(n).kind = "remap" /\ state[n] = "INITIAL"))
  BY <1>1
<1>3. PICK v, w : /\ v = Fadas!Forget(n, x) \union r.ptr
                  /\ w = IF r.ok THEN Fadas!After(n, x) \o Tail(todo[n]) ELSE x.instead
  OBVIOUS
<1>4. ptrs' = Put(ptrs, n, v) /\ todo' = Put(todo, n, w)
  BY <1>2, <1>3, Zenon DEF Put
<1>5. OnNodes(ptrs) /\ OnNodes(todo) /\ OnNodes(state) /\ OnNodes(table)
  BY StepFacts
<1>6. /\ ptrs'[n] = v /\ OnNodes(ptrs') /\ \A m \in Nodes \ {n} : ptrs'[m] = ptrs[m]
      /\ todo'[n] = w /\ OnNodes(todo') /\ \A m \in Nodes \ {n} : todo'[m] = todo[m]
  BY <1>4, <1>5, SetsIs
<1>7. Alone(n)
  BY <1>1, <1>5, <1>6 DEF Alone
<1> QED BY <1>1, <1>2, <1>3, <1>6, <1>7 DEF Did

\* The outcomes of a call without and with an object.
LEMMA PointerIs ==
  /\ \A O : \A r \in Fadas!NoPointer(O) : \E q \in O : r.s = q.s /\ r.ok = q.ok /\ r.ptr = {}
  /\ \A n, k, i : \A r \in Fadas!Created(n, k, i) :
       \/ r.ok = FALSE /\ r.s = srv /\ r.ptr = {}
       \/ /\ r.ok = TRUE /\ r.s = [srv EXCEPT !.objects = @ \union r.ptr]
          /\ \A o \in r.ptr : o[1] = n /\ o[2] = k
          /\ r.ptr # {}
<1>1. ASSUME NEW O, NEW r \in Fadas!NoPointer(O)
      PROVE  \E q \in O : r.s = q.s /\ r.ok = q.ok /\ r.ptr = {}
  BY DEF Fadas!NoPointer
<1>2. ASSUME NEW n, NEW k, NEW i, NEW r \in Fadas!Created(n, k, i)
      PROVE  \/ r.ok = FALSE /\ r.s = srv /\ r.ptr = {}
             \/ /\ r.ok = TRUE /\ r.s = [srv EXCEPT !.objects = @ \union r.ptr]
                /\ \A o \in r.ptr : o[1] = n /\ o[2] = k
                /\ r.ptr # {}
  <2> DEFINE o == <<n, k, i, inits[n]>>
  <2>1. o[1] = n /\ o[2] = k
    OBVIOUS
  <2>2. \/ r = [s |-> [srv EXCEPT !.objects = @ \union {o}], ok |-> TRUE, ptr |-> {o}]
        \/ r = [s |-> srv, ok |-> FALSE, ptr |-> {}]
    BY DEF Fadas!Created
  <2> HIDE DEF o
  <2> QED BY <2>1, <2>2
<1> QED BY <1>1, <1>2

LEMMA ObjectsAdded ==
  ASSUME NodesInv, NEW ps, NEW s, s = [srv EXCEPT !.objects = @ \union ps]
  PROVE  /\ IsSrv(s) /\ SameEntries(srv, s) /\ s.useRef = srv.useRef
         /\ s.objects = srv.objects \union ps
         /\ Backed(s, memory, config.processor) /\ Grows(srv, s, memory)
<1>0. IsSrv(srv) /\ Backed(srv, memory, config.processor)
  BY DEF NodesInv
<1>1. s = [opened |-> srv.opened, initialized |-> srv.initialized, useRef |-> srv.useRef,
           memMap |-> srv.memMap, mapped |-> srv.mapped, regs |-> srv.regs,
           objects |-> srv.objects \union ps]
  BY <1>0 DEF IsSrv
<1>2. SameEntries(srv, s) /\ s.useRef = srv.useRef /\ s.objects = srv.objects \union ps
      /\ s.initialized = srv.initialized
  BY <1>1 DEF SameEntries
<1>3. IsSrv(s)
  BY <1>0, <1>1, <1>2 DEF IsSrv, SameEntries
<1>4. Backed(s, memory, config.processor)
  BY <1>0, <1>2, SameBacked
<1> QED BY <1>2, <1>3, <1>4 DEF Grows, SameEntries

\* The count of the users goes up.
LEMMA InitGoes ==
  ASSUME NodesInv, NEW n \in Nodes, todo[n] # <<>>, NEW x, x = Head(todo[n]), x.op = "init",
         NEW r \in Outcomes(n, x), Did(n, x, r)
  PROVE  Goes(n)
<1> DEFINE p == P(n)
           t == todo[n]
<1>1. PICK q \in Fadas!ServiceOutcomes(n, x) : r.s = q.s /\ r.ok = q.ok /\ r.ptr = {}
  BY PointerIs DEF Outcomes
<1>2. /\ IsSrv(r.s) /\ SameEntries(srv, r.s) /\ r.s.objects = srv.objects
      /\ r.ok = TRUE \/ r.ok = FALSE
      /\ r.s.useRef = IF r.ok /\ ~OpenCL(p) THEN srv.useRef + 1 ELSE srv.useRef
  <2>1. CASE OpenCL(p)
    <3>1. q \in Fadas!Either(srv, config.mayFail)
      BY <2>1 DEF Fadas!ServiceOutcomes, P, OpenCL
    <3>2. q.s = srv /\ q.ok \in BOOLEAN
      BY <3>1, OutcomesAre
    <3> QED BY <1>1, <2>1, <3>2, StepFacts DEF SameEntries
  <2>2. CASE ~OpenCL(p)
    <3>1. q \in Fadas!ServiceInit(srv, config.processor, config.mayFail)
      BY <2>2 DEF Fadas!ServiceOutcomes, P, OpenCL
    <3>2. /\ IsSrv(q.s) /\ SameEntries(srv, q.s) /\ q.s.objects = srv.objects
          /\ q.ok = TRUE \/ q.ok = FALSE
          /\ q.ok => q.s.useRef = srv.useRef + 1
          /\ ~q.ok => q.s.useRef = srv.useRef
      <4>1. IsSrv(srv) /\ config.processor \in {"dsp", "gpu", "cpu"}
        BY StepFacts
      <4> QED BY ONLY <3>1, <4>1, InitCounts
    <3> QED BY <1>1, <2>2, <3>2
  <2> QED BY <2>1, <2>2
<1>3. /\ Phase(p, state[n], Tail(t), table[n]) /\ Phase(p, state[n], x.instead, table[n])
      /\ ~Uses(p, state[n], t) /\ (~OpenCL(p) => Uses(p, state[n], Tail(t)))
      /\ ~Uses(p, state[n], x.instead) /\ ~Serves(p, state[n], x.instead)
      /\ Serves(p, state[n], Tail(t)) => Serves(p, state[n], t)
      /\ table[n] = {} /\ state[n] # "RUNNING"
      /\ Marks(t) \intersect {"params", "create"} # {}
  <2>1. Phase(p, state[n], t, table[n])
    BY StepFacts
  <2>2. \A s, tab : Phase(p, s, t, tab) =>
          /\ Phase(p, s, Tail(t), tab) /\ Phase(p, s, Head(t).instead, tab)
          /\ ~Uses(p, s, t) /\ (~OpenCL(p) => Uses(p, s, Tail(t)))
          /\ ~Uses(p, s, Head(t).instead) /\ ~Serves(p, s, Head(t).instead)
          /\ Serves(p, s, Tail(t)) => Serves(p, s, t)
          /\ s \in {"INITIAL", "INITIALIZING"} /\ tab = {}
          /\ Marks(t) \intersect {"params", "create"} # {}
    BY InitNext
  <2> QED BY <2>1, <2>2
<1>4. /\ srv' = r.s /\ state'[n] = state[n] /\ table'[n] = table[n] /\ ptrs'[n] = ptrs[n]
      /\ todo'[n] = IF r.ok THEN Tail(t) ELSE x.instead
      /\ leftover' \in BOOLEAN /\ (leftover => leftover') /\ Alone(n)
  <2>1. Fadas!Forget(n, x) \union r.ptr = ptrs[n]
    BY <1>1 DEF Fadas!Forget
  <2>2. Fadas!After(n, x) \o Tail(t) = Tail(t)
    <3>1. PICK A : A = <<>>
      OBVIOUS
    <3>2. Fadas!After(n, x) = A
      BY <3>1 DEF Fadas!After
    <3> QED BY <3>1, <3>2, StepFacts, NothingBefore
  <2> QED BY <2>1, <2>2, StepFacts DEF Did
<1>5. Moves(n)
  <2>1. Counts(n)
    <3>1. CASE r.ok /\ ~OpenCL(p)
      BY <1>2, <1>3, <1>4, <3>1 DEF Counts, User, UserNext
    <3>2. CASE r.ok /\ OpenCL(p)
      <4>1. ~Uses(p, state[n], Tail(t))
        BY <3>2 DEF Uses
      <4> QED BY <1>2, <1>3, <1>4, <3>2, <4>1 DEF Counts, User, UserNext
    <3>3. CASE ~r.ok
      BY <1>2, <1>3, <1>4, <3>3 DEF Counts, User, UserNext
    <3> QED BY <3>1, <3>2, <3>3
  <2>2. Enters1(n) /\ Objects1(n)
    BY <1>2, <1>4 DEF Enters1, Objects1, Grows, SameEntries
  <2>3. Backed(srv', memory, config.processor)
    BY <1>2, <1>4, StepFacts, SameBacked
  <2>4. Phase(p, state'[n], todo'[n], table'[n])
    BY <1>2, <1>3, <1>4
  <2> QED BY <1>2, <1>4, <2>1, <2>2, <2>3, <2>4 DEF Moves
<1>6. ASSUME Equipped(n) PROVE HoldsNext(n)
  <2>1. Holds(p, t, table[n], ptrs[n], srv, User(n), Server(n)) /\ \A o \in ptrs[n] : o[1] = n
    BY <1>6 DEF Equipped
  <2>2. UserNext(n) => \A a \in table'[n] : srv'.memMap[a] # NoEntry
    BY <1>3, <1>4
  <2>3. Covered(srv', todo'[n])
    <3>1. IsProg(todo'[n]) /\ "run" \notin Marks(Tail(t))
      BY <1>2, <1>3, <1>4, StepFacts, PhaseProg, NoRun
    <3>2. "run" \notin Marks(x.instead)
      BY <1>3, RunMarks DEF Framing
    <3> QED BY <1>2, <1>4, <3>1, <3>2, NoneCovered
  <2>4. CASE r.ok
    <3>1. Special(Tail(t)) = Special(t)
      <4>1. Label(x) = "init"
        BY DEF Label
      <4> QED BY <4>1, StepFacts DEF Special
    <3>2. ServerNext(n) => Server(n)
      BY <1>3, <1>4, <2>4 DEF Server, ServerNext
    <3>3. ptrs[n] \subseteq srv.objects => ptrs[n] \subseteq srv'.objects
      BY <1>2, <1>4
    <3>4. todo'[n] = Tail(t)
      BY <1>4, <2>4
    <3>5. Covered(srv', Tail(t))
      BY <2>3, <3>4
    <3>6. Holds(p, Tail(t), table'[n], ptrs[n], srv', UserNext(n), ServerNext(n))
      BY <2>1, <2>2, <3>1, <3>2, <3>3, <3>5, HoldsOn
    <3> QED BY <1>4, <2>1, <3>4, <3>6 DEF HoldsNext
  <2>5. CASE ~r.ok
    <3>1. ~ServerNext(n) /\ todo'[n] = x.instead
      BY <1>3, <1>4, <2>5 DEF ServerNext
    <3>2. Holds(p, todo'[n], table'[n], ptrs[n], srv', UserNext(n), ServerNext(n))
      BY <2>2, <2>3, <3>1, HoldsIdle
    <3> QED BY <1>4, <2>1, <3>2 DEF HoldsNext
  <2> QED BY <2>4, <2>5
<1> QED BY <1>5, <1>6 DEF Goes

\* The count of the users goes down; the last one ends everything.
LEMMA DeinitGoes ==
  ASSUME NodesInv, NEW n \in Nodes, todo[n] # <<>>, NEW x, x = Head(todo[n]), x.op = "deinit",
         NEW r \in Outcomes(n, x), Did(n, x, r)
  PROVE  Goes(n)
<1> DEFINE p == P(n)
           t == todo[n]
<1>1. PICK q \in Fadas!ServiceOutcomes(n, x) : r.s = q.s /\ r.ok = q.ok /\ r.ptr = {}
  BY PointerIs DEF Outcomes
<1>2. /\ Phase(p, state[n], Tail(t), table[n])
      /\ ~OpenCL(p) => Uses(p, state[n], t)
      /\ ~Uses(p, state[n], Tail(t)) /\ ~Serves(p, state[n], Tail(t))
  <2>1. Phase(p, state[n], t, table[n])
    BY StepFacts
  <2>2. \A s, tab : Phase(p, s, t, tab) =>
          /\ Phase(p, s, Tail(t), tab)
          /\ ~OpenCL(p) => Uses(p, s, t)
          /\ ~Uses(p, s, Tail(t)) /\ ~Serves(p, s, Tail(t))
    BY DeinitNext
  <2> QED BY <2>1, <2>2
<1>3. /\ r.ok = TRUE /\ IsSrv(r.s) /\ Backed(r.s, memory, config.processor)
      /\ OpenCL(p) => r.s = srv
      /\ ~OpenCL(p) => /\ r.s.useRef = srv.useRef - 1
                       /\ \/ srv.useRef = 1 /\ \A a \in Addresses : r.s.memMap[a] = NoEntry
                          \/ SameEntries(srv, r.s) /\ r.s.objects = srv.objects
  <2>1. CASE OpenCL(p)
    <3>1. q = Fadas!Ok(srv)
      BY <2>1 DEF Fadas!ServiceOutcomes, P, OpenCL
    <3>2. q.s = srv /\ q.ok = TRUE
      BY <3>1, OutcomesAre
    <3> QED BY <1>1, <2>1, <3>2, StepFacts
  <2>2. CASE ~OpenCL(p)
    <3>1. q \in Fadas!ServiceDeinit(srv, config.processor, config.mayFail)
      BY <2>2 DEF Fadas!ServiceOutcomes, P, OpenCL
    <3>2. IsSrv(srv) /\ srv.useRef # 0
      <4>1. User(n)
        BY <1>2, <2>2 DEF User
      <4> QED BY <4>1, StepFacts, UserCounts
    <3>3. /\ q.ok = TRUE /\ IsSrv(q.s) /\ q.s.useRef = srv.useRef - 1
          /\ \/ srv.useRef = 1 /\ \A a \in Addresses : q.s.memMap[a] = NoEntry
             \/ SameEntries(srv, q.s) /\ q.s.objects = srv.objects /\ srv.useRef > 1
      <4>1. Ended(srv, q)
        BY ONLY <3>1, <3>2, DeinitCounts
      <4> QED BY <4>1 DEF Ended
    <3>4. Backed(q.s, memory, config.processor)
      <4>1. CASE \A a \in Addresses : q.s.memMap[a] = NoEntry
        BY <4>1 DEF Backed
      <4>2. CASE SameEntries(srv, q.s)
        BY <4>2, StepFacts, SameBacked
      <4> QED BY <3>3, <4>1, <4>2
    <3> QED BY <1>1, <2>2, <3>3, <3>4
  <2> QED BY <2>1, <2>2
<1>4. /\ srv' = r.s /\ state'[n] = state[n] /\ table'[n] = table[n] /\ ptrs'[n] = ptrs[n]
      /\ todo'[n] = Tail(t)
      /\ leftover' \in BOOLEAN /\ (leftover => leftover') /\ Alone(n)
  <2>1. Fadas!Forget(n, x) \union r.ptr = ptrs[n]
    BY <1>1 DEF Fadas!Forget
  <2>2. Fadas!After(n, x) \o Tail(t) = Tail(t)
    <3>1. PICK A : A = <<>>
      OBVIOUS
    <3>2. Fadas!After(n, x) = A
      BY <3>1 DEF Fadas!After
    <3> QED BY <3>1, <3>2, StepFacts, NothingBefore
  <2> QED BY <1>3, <2>1, <2>2, StepFacts DEF Did
<1>5. ~UserNext(n) /\ ~ServerNext(n)
  BY <1>2, <1>4 DEF UserNext, ServerNext
<1>6. OpenCL(p) => ~User(n)
  BY DEF User, Uses
<1>7. ~OpenCL(p) => User(n)
  BY <1>2 DEF User
<1>8. Moves(n)
  <2>1. Counts(n)
    BY <1>3, <1>4, <1>5, <1>6, <1>7 DEF Counts
  <2>2. Enters1(n) /\ Objects1(n)
    <3>1. CASE OpenCL(p)
      BY <1>3, <1>4, <3>1, NothingMoves
    <3>2. CASE ~OpenCL(p) /\ SameEntries(srv, r.s) /\ r.s.objects = srv.objects
      BY <1>4, <3>2 DEF Enters1, Objects1, Grows, SameEntries
    <3>3. CASE ~OpenCL(p) /\ srv.useRef = 1 /\ \A a \in Addresses : r.s.memMap[a] = NoEntry
      <4>1. srv'.useRef = 0
        BY <1>3, <1>4, <3>3
      <4> QED BY <1>4, <1>5, <1>7, <3>3, <4>1 DEF Enters1, Objects1
    <3> QED BY <1>3, <3>1, <3>2, <3>3
  <2> QED BY <1>2, <1>3, <1>4, <2>1, <2>2 DEF Moves
<1>9. ASSUME Equipped(n) PROVE HoldsNext(n)
  <2>1. Covered(srv', todo'[n])
    BY <1>4, StepFacts, NoRun, NoneCovered
  <2>2. Holds(p, todo'[n], table'[n], ptrs'[n], srv', UserNext(n), ServerNext(n))
    BY <1>5, <2>1, HoldsIdle
  <2> QED BY <1>4, <1>9, <2>2 DEF HoldsNext, Equipped
<1> QED BY <1>8, <1>9 DEF Goes

\* SetRemapParams.
LEMMA ParamsGoes ==
  ASSUME NodesInv, NEW n \in Nodes, todo[n] # <<>>, NEW x, x = Head(todo[n]), x.op = "params",
         NEW r \in Outcomes(n, x), Did(n, x, r)
  PROVE  Goes(n)
<1> DEFINE p == P(n)
           t == todo[n]
<1>1. r.s = srv /\ r.ok \in BOOLEAN /\ r.ptr = {}
  <2>1. PICK q \in {IF config.params[n].output \in {"rgb", "bgr"} THEN Fadas!Ok(srv)
                    ELSE Fadas!Failed(srv)} : r.s = q.s /\ r.ok = q.ok /\ r.ptr = {}
    BY PointerIs DEF Outcomes, Fadas!RemapOutcomes
  <2>2. q = Fadas!Ok(srv) \/ q = Fadas!Failed(srv)
    BY <2>1
  <2>3. q.s = srv /\ q.ok \in BOOLEAN
    <3>1. CASE q = Fadas!Ok(srv)
      BY <3>1, OutcomesAre
    <3>2. CASE q = Fadas!Failed(srv)
      BY <3>2, OutcomesAre
    <3> QED BY <2>2, <3>1, <3>2
  <2> QED BY <2>1, <2>3
<1>2. /\ p.kind = "remap" /\ state[n] = "INITIAL" /\ x.instead = <<>>
      /\ Phase(p, state[n], Tail(t), table[n]) /\ Phase(p, state[n], <<>>, table[n])
      /\ Uses(p, state[n], t) /\ Uses(p, state[n], Tail(t)) /\ Serves(p, state[n], t)
      /\ ~Uses(p, state[n], <<>>) /\ ~Serves(p, state[n], <<>>)
      /\ Marks(Tail(t)) \intersect {"params", "create"} = {}
  <2>1. Phase(p, state[n], t, table[n])
    BY StepFacts
  <2>2. \A s, tab : Phase(p, s, t, tab) =>
         /\ p.kind = "remap" /\ s = "INITIAL" /\ Head(t).instead = <<>>
         /\ Phase(p, s, Tail(t), tab) /\ Phase(p, s, <<>>, tab)
         /\ Uses(p, s, t) /\ Uses(p, s, Tail(t)) /\ Serves(p, s, t)
         /\ ~Uses(p, s, <<>>) /\ ~Serves(p, s, <<>>)
         /\ Marks(Tail(t)) \intersect {"params", "create"} = {}
    BY ParamsNext
  <2> QED BY <2>1, <2>2
<1>3. /\ srv' = srv /\ state'[n] = state[n] /\ table'[n] = table[n] /\ ptrs'[n] = {}
      /\ todo'[n] = IF r.ok THEN Tail(t) ELSE <<>>
      /\ leftover' = (leftover \/ ~r.ok) /\ Alone(n)
  <2>1. Fadas!Forget(n, x) \union r.ptr = {}
    BY <1>1 DEF Fadas!Forget
  <2>2. Fadas!After(n, x) \o Tail(t) = Tail(t)
    <3>1. PICK A : A = <<>>
      OBVIOUS
    <3>2. Fadas!After(n, x) = A
      BY <3>1 DEF Fadas!After
    <3> QED BY <3>1, <3>2, StepFacts, NothingBefore
  <2> QED BY <1>1, <1>2, <2>1, <2>2 DEF Did
<1>4. Moves(n)
  <2>1. Counts(n)
    <3>1. leftover' \in BOOLEAN /\ (leftover => leftover')
      BY <1>1, <1>3, StepFacts
    <3>2. CASE r.ok
      BY <1>2, <1>3, <3>1, <3>2 DEF Counts, User, UserNext
    <3>3. CASE ~r.ok
      BY <1>2, <1>3, <3>1, <3>3 DEF Counts, User, UserNext
    <3> QED BY <1>1, <3>2, <3>3
  <2> QED BY <1>1, <1>2, <1>3, <2>1, NothingMoves, StepFacts DEF Moves
<1>5. ASSUME Equipped(n) PROVE HoldsNext(n)
  <2>1. table'[n] = {} /\ Holds(p, t, table[n], ptrs[n], srv, User(n), Server(n))
    BY <1>2, <1>3, <1>5, StepFacts DEF Equipped, Phase
  <2>2. CASE r.ok
    <3>1. Covered(srv', Tail(t))
      BY StepFacts, NoRun, NoneCovered
    <3>2. Server(n)
      BY <1>2 DEF Server
    <3>3. Label(x) = "params" /\ Marks(t) = {Label(x)} \union Marks(Tail(t))
      BY StepFacts DEF Label
    <3>4. Marks(t) \intersect Makes # {}
      BY <2>1, <3>2, <3>3 DEF Holds
    <3>5. Marks(Tail(t)) \intersect Makes # {}
      BY <3>3, <3>4 DEF Makes
    <3>6. Holds(p, Tail(t), {}, {}, srv', UserNext(n), ServerNext(n))
      BY <3>1, <3>5 DEF Holds
    <3> QED BY <1>3, <2>1, <2>2, <3>6 DEF HoldsNext
  <2>3. CASE ~r.ok
    <3>1. PICK T : T = <<>>
      OBVIOUS
    <3>2. ~ServerNext(n) /\ todo'[n] = T
      BY <1>2, <1>3, <2>3, <3>1 DEF ServerNext
    <3>3. Covered(srv', T)
      BY <3>1, NoneIs, NoneCovered, MarksOf
    <3>4. Holds(p, T, {}, {}, srv', UserNext(n), ServerNext(n))
      BY <3>2, <3>3, HoldsIdle
    <3> QED BY <1>3, <2>1, <3>2, <3>4 DEF HoldsNext
  <2> QED BY <1>1, <2>2, <2>3
<1> QED BY <1>4, <1>5 DEF Goes

\* The preprocessor.
LEMMA CreateGoes ==
  ASSUME NodesInv, NEW n \in Nodes, todo[n] # <<>>, NEW x, x = Head(todo[n]), x.op = "create",
         NEW r \in Outcomes(n, x), Did(n, x, r)
  PROVE  Goes(n)
<1> DEFINE p == P(n)
           t == todo[n]
<1>1. /\ p.kind = "voxelization" /\ state[n] = "INITIALIZING"
      /\ Phase(p, state[n], Tail(t), table[n]) /\ Phase(p, state[n], x.instead, table[n])
      /\ Uses(p, state[n], Tail(t)) <=> Uses(p, state[n], t)
      /\ Uses(p, state[n], x.instead) <=> Uses(p, state[n], t)
      /\ (~OpenCL(p) => Serves(p, state[n], t)) /\ ~Serves(p, state[n], x.instead)
      /\ Marks(Tail(t)) \intersect {"params", "create"} = {}
  <2>1. Phase(p, state[n], t, table[n])
    BY StepFacts
  <2>2. \A s, tab : Phase(p, s, t, tab) =>
         /\ p.kind = "voxelization" /\ s = "INITIALIZING"
         /\ Phase(p, s, Tail(t), tab) /\ Phase(p, s, Head(t).instead, tab)
         /\ Uses(p, s, Tail(t)) <=> Uses(p, s, t)
         /\ Uses(p, s, Head(t).instead) <=> Uses(p, s, t)
         /\ (~OpenCL(p) => Serves(p, s, t)) /\ ~Serves(p, s, Head(t).instead)
         /\ Marks(Tail(t)) \intersect {"params", "create"} = {}
    BY CreateNext
  <2> QED BY <2>1, <2>2
<1>2. /\ \A o \in r.ptr : o[1] = n /\ o[2] = "preproc"
      /\ r.ok \in BOOLEAN
      /\ r.ok /\ ~OpenCL(p) => r.ptr # {}
      /\ IsSrv(r.s) /\ SameEntries(srv, r.s) /\ r.s.useRef = srv.useRef
      /\ r.s.objects = srv.objects \union r.ptr
      /\ Backed(r.s, memory, config.processor) /\ Grows(srv, r.s, memory)
  <2>1. CASE OpenCL(p)
    <3>1. PICK q \in Fadas!Either(srv, config.mayFail) : r.s = q.s /\ r.ok = q.ok /\ r.ptr = {}
      BY <2>1, PointerIs DEF Outcomes, OpenCL, P
    <3>2. r.s = srv /\ r.ok \in BOOLEAN /\ r.ptr = {}
      BY <3>1, OutcomesAre
    <3> QED BY <2>1, <3>2, StepFacts DEF SameEntries, Grows
  <2>2. CASE ~OpenCL(p)
    <3>1. r \in Fadas!Created(n, "preproc", 1)
      BY <1>1, <2>2 DEF Outcomes, OpenCL, P
    <3>2. \/ r.ok = FALSE /\ r.s = srv /\ r.ptr = {}
          \/ /\ r.ok = TRUE /\ r.s = [srv EXCEPT !.objects = @ \union r.ptr]
             /\ \A o \in r.ptr : o[1] = n /\ o[2] = "preproc"
             /\ r.ptr # {}
      BY <3>1, PointerIs
    <3>3. CASE r.ok = FALSE /\ r.s = srv /\ r.ptr = {}
      BY <3>3, StepFacts DEF SameEntries, Grows
    <3>4. CASE r.ok = TRUE /\ r.s = [srv EXCEPT !.objects = @ \union r.ptr]
      <4>1. /\ IsSrv(r.s) /\ SameEntries(srv, r.s) /\ r.s.useRef = srv.useRef
            /\ r.s.objects = srv.objects \union r.ptr
            /\ Backed(r.s, memory, config.processor) /\ Grows(srv, r.s, memory)
        BY <3>4, ObjectsAdded
      <4> QED BY <3>2, <3>4, <4>1
    <3> QED BY <3>2, <3>3, <3>4
  <2> QED BY <2>1, <2>2
<1>3. /\ srv' = r.s /\ state'[n] = state[n] /\ table'[n] = table[n] /\ ptrs'[n] = r.ptr
      /\ todo'[n] = IF r.ok THEN Tail(t) ELSE x.instead
      /\ leftover' = leftover /\ Alone(n)
  <2>1. Fadas!Forget(n, x) \union r.ptr = r.ptr
    BY DEF Fadas!Forget
  <2>2. Fadas!After(n, x) \o Tail(t) = Tail(t)
    <3>1. PICK A : A = <<>>
      OBVIOUS
    <3>2. Fadas!After(n, x) = A
      BY <3>1 DEF Fadas!After
    <3> QED BY <3>1, <3>2, StepFacts, NothingBefore
  <2>3. leftover' = leftover
    BY <1>1, StepFacts DEF Did
  <2> QED BY <1>1, <2>1, <2>2, <2>3 DEF Did
<1>4. Moves(n)
  <2>1. Counts(n)
    BY <1>1, <1>2, <1>3, StepFacts DEF Counts, User, UserNext
  <2>2. Enters1(n) /\ Objects1(n)
    BY <1>2, <1>3 DEF Enters1, Objects1
  <2> QED BY <1>1, <1>2, <1>3, <2>1, <2>2 DEF Moves
<1>5. ASSUME Equipped(n) PROVE HoldsNext(n)
  <2>1. Holds(p, t, table[n], ptrs[n], srv, User(n), Server(n))
    BY <1>5 DEF Equipped
  <2>2. UserNext(n) => User(n)
    BY <1>1, <1>3 DEF User, UserNext
  <2>3. UserNext(n) => \A a \in table'[n] : srv'.memMap[a] # NoEntry
    BY <1>2, <1>3, <2>1, <2>2 DEF Holds, SameEntries
  <2>4. Covered(srv', todo'[n])
    <3>1. IsProg(todo'[n]) /\ "run" \notin Marks(Tail(t))
      BY <1>1, <1>2, <1>3, StepFacts, PhaseProg, NoRun
    <3>2. "run" \notin Marks(x.instead)
      BY <1>1, RunMarks DEF Framing
    <3> QED BY <1>2, <1>3, <3>1, <3>2, NoneCovered
  <2>5. CASE r.ok /\ ~OpenCL(p)
    <3>1. "params" \notin Marks(todo'[n]) /\ \E o \in r.ptr : o[2] \in Kinds(p)
      BY <1>1, <1>2, <1>3, <2>5 DEF Kinds
    <3>2. r.ptr \subseteq srv'.objects
      BY <1>2, <1>3
    <3>3. Holds(p, todo'[n], table'[n], r.ptr, srv', UserNext(n), ServerNext(n))
      BY <2>3, <2>4, <3>1, <3>2 DEF Holds
    <3> QED BY <1>2, <1>3, <3>3 DEF HoldsNext
  <2>6. CASE ~(r.ok /\ ~OpenCL(p))
    <3>1. ~ServerNext(n)
      <4>1. CASE OpenCL(p)
        BY <4>1 DEF ServerNext, Serves
      <4>2. CASE ~r.ok
        BY <1>1, <1>3, <4>2 DEF ServerNext
      <4> QED BY <2>6, <4>1, <4>2
    <3>2. Holds(p, todo'[n], table'[n], r.ptr, srv', UserNext(n), ServerNext(n))
      BY <2>3, <2>4, <3>1, HoldsIdle
    <3> QED BY <1>2, <1>3, <3>2 DEF HoldsNext
  <2> QED BY <2>5, <2>6
<1> QED BY <1>4, <1>5 DEF Goes

\* In the loop over the inputs the parameters are set.
LEMMA LoopMarks ==
  ASSUME NEW p, NEW s, NEW t, NEW tab, Phase(p, s, t, tab), t # <<>>, Head(t).op \in {"worker", "map"}
  PROVE  /\ p.kind = "remap" /\ s = "INITIAL" /\ tab = {}
         /\ Head(t).arg \in DOMAIN p.inputs
         /\ Marks(t) \subseteq RemapMarks \union {"READY"}
         /\ Uses(p, s, t)
<1>1. RemapStarting(p, s, t)
  BY HeadOps DEF Phase, FrameStep, Undoes, VoxelMarks
<1>2. PICK M : /\ RemapMiddle(p, M)
               /\ t = RemapProgram(p, M) \/ t = RemapParams(p, M) \/ t = Body(M)
  BY <1>1 DEF RemapStarting
<1>3. t # RemapProgram(p, M) /\ t # RemapParams(p, M)
  <2>1. Head(RemapProgram(p, M)).op = "init" /\ Head(RemapParams(p, M)).op = "params"
    BY <1>2, RemapPieces, StepsAre DEF Known, InitOf, Params
  <2> QED BY <2>1
<1>4. t = Body(M)
  BY <1>2, <1>3
<1>5. Marks(t) \subseteq RemapMarks \union {"READY"} /\ "READY" \in Marks(t)
  BY <1>2, <1>4, RemapPieces
<1>6. RemapStep(p, Head(t))
  <2>1. Head(t) = To("READY") \/ RemapStep(p, Head(t))
    BY <1>2, <1>4, BodyHead
  <2> QED BY <2>1, StepsAre
<1>7. Head(t).arg \in DOMAIN p.inputs
  BY <1>6 DEF RemapStep, Undoes
<1>8. p.kind = "remap" /\ s = "INITIAL" /\ tab = {}
  BY <1>1 DEF RemapStarting, Phase
<1>9. Uses(p, s, t)
  BY <1>5, <1>8 DEF Uses, OpenCL, RemapMarks
<1> QED BY <1>5, <1>7, <1>8, <1>9

\* A worker or a map of a remap node.
LEMMA WorkerGoes ==
  ASSUME NodesInv, NEW n \in Nodes, todo[n] # <<>>, NEW x, x = Head(todo[n]),
         x.op \in {"worker", "map"}, NEW r \in Outcomes(n, x), Did(n, x, r)
  PROVE  Goes(n)
<1> DEFINE p == P(n)
           t == todo[n]
<1>1. /\ p.kind = "remap" /\ state[n] = "INITIAL" /\ table[n] = {}
      /\ x.arg \in DOMAIN p.inputs
      /\ Marks(t) \subseteq RemapMarks \union {"READY"}
      /\ Phase(p, state[n], t, table[n]) /\ ParamsOK(p)
  <2>1. Phase(p, state[n], t, table[n]) /\ ParamsOK(p)
    BY StepFacts
  <2>2. \A s, tab : Phase(p, s, t, tab) =>
          /\ p.kind = "remap" /\ s = "INITIAL" /\ tab = {}
          /\ Head(t).arg \in DOMAIN p.inputs
          /\ Marks(t) \subseteq RemapMarks \union {"READY"}
    BY LoopMarks
  <2> QED BY <2>1, <2>2
<1>2. /\ \A o \in r.ptr : o[1] = n /\ o[2] = x.op
      /\ r.ok \in BOOLEAN
      /\ r.ok => r.ptr # {} \/ (x.op = "worker" /\ config.processor = "gpu")
      /\ IsSrv(r.s) /\ SameEntries(srv, r.s) /\ r.s.useRef = srv.useRef
      /\ r.s.objects = srv.objects \union r.ptr
      /\ Backed(r.s, memory, config.processor) /\ Grows(srv, r.s, memory)
  <2>0. /\ IsSrv(srv) /\ SameEntries(srv, srv) /\ Grows(srv, srv, memory)
        /\ Backed(srv, memory, config.processor) /\ srv.objects = srv.objects \union {}
    BY StepFacts DEF SameEntries, Grows
  <2>1. r \in IF x.op = "worker" /\ config.processor = "gpu"
              THEN Fadas!NoPointer({Fadas!Ok(srv)})
              ELSE IF Fadas!CanMake(n, x) THEN Fadas!Created(n, x.op, x.arg)
                   ELSE Fadas!NoPointer({Fadas!Failed(srv)})
    BY DEF Outcomes, Fadas!RemapOutcomes
  <2>2. CASE r \in Fadas!NoPointer({Fadas!Ok(srv)}) /\ x.op = "worker" /\ config.processor = "gpu"
    <3>1. PICK q \in {Fadas!Ok(srv)} : r.s = q.s /\ r.ok = q.ok /\ r.ptr = {}
      BY <2>2, PointerIs
    <3>2. r.s = srv /\ r.ok = TRUE /\ r.ptr = {}
      BY <3>1, OutcomesAre
    <3> QED BY <2>0, <2>2, <3>2
  <2>3. CASE r \in Fadas!NoPointer({Fadas!Failed(srv)})
    <3>1. PICK q \in {Fadas!Failed(srv)} : r.s = q.s /\ r.ok = q.ok /\ r.ptr = {}
      BY <2>3, PointerIs
    <3>2. r.s = srv /\ r.ok = FALSE /\ r.ptr = {}
      BY <3>1, OutcomesAre
    <3> QED BY <2>0, <3>2
  <2>4. CASE r \in Fadas!Created(n, x.op, x.arg)
    <3>1. \/ r.ok = FALSE /\ r.s = srv /\ r.ptr = {}
          \/ /\ r.ok = TRUE /\ r.s = [srv EXCEPT !.objects = @ \union r.ptr]
             /\ \A o \in r.ptr : o[1] = n /\ o[2] = x.op
             /\ r.ptr # {}
      BY <2>4, PointerIs
    <3>2. CASE r.ok = FALSE /\ r.s = srv /\ r.ptr = {}
      BY <2>0, <3>2
    <3>3. CASE r.ok = TRUE /\ r.s = [srv EXCEPT !.objects = @ \union r.ptr]
      <4>1. /\ IsSrv(r.s) /\ SameEntries(srv, r.s) /\ r.s.useRef = srv.useRef
            /\ r.s.objects = srv.objects \union r.ptr
            /\ Backed(r.s, memory, config.processor) /\ Grows(srv, r.s, memory)
        BY <3>3, ObjectsAdded
      <4> QED BY <3>1, <3>3, <4>1
    <3> QED BY <3>1, <3>2, <3>3
  <2> QED BY <2>1, <2>2, <2>3, <2>4
<1>3. PICK A : /\ A = Fadas!After(n, x)
               /\ A = <<>> \/ (x.op = "worker" /\ RemapMiddle(p, A))
               /\ x.op = "worker" /\ x.arg \notin Fadas!NoTensor(p) => "map" \in Marks(A)
               /\ Marks(A) \subseteq RemapMarks
  <2>1. CASE x.op = "worker"
    <3>1. Fadas!After(n, x) = Fadas!AfterWorker(p, x.arg)
      BY <2>1 DEF Fadas!After, P
    <3>2. /\ RemapMiddle(p, Fadas!AfterWorker(p, x.arg))
          /\ x.arg \notin Fadas!NoTensor(p) => "map" \in Marks(Fadas!AfterWorker(p, x.arg))
      BY <1>1, AfterMiddle
    <3>3. Marks(Fadas!AfterWorker(p, x.arg)) \subseteq RemapMarks
      BY <3>2, MiddleMarks
    <3> QED BY <2>1, <3>1, <3>2, <3>3
  <2>2. CASE x.op # "worker"
    <3>1. PICK B : B = <<>>
      OBVIOUS
    <3>2. Fadas!After(n, x) = B
      BY <2>2, <3>1 DEF Fadas!After
    <3>3. Marks(B) = {}
      BY <3>1, MarksOf
    <3> QED BY <2>2, <3>1, <3>2, <3>3
  <2> QED BY <2>1, <2>2
<1>4. /\ srv' = r.s /\ state'[n] = state[n] /\ table'[n] = table[n]
      /\ ptrs'[n] = ptrs[n] \union r.ptr
      /\ todo'[n] = IF r.ok THEN A \o Tail(t) ELSE x.instead
      /\ leftover' = (leftover \/ ~r.ok) /\ Alone(n)
  <2>1. Fadas!Forget(n, x) \union r.ptr = ptrs[n] \union r.ptr
    BY DEF Fadas!Forget
  <2> QED BY <1>1, <1>3, <2>1 DEF Did
<1>5. Moves(n)
  <2>1. x.op \in MiddleOps /\ r.ok \in BOOLEAN
    BY <1>2 DEF MiddleOps
  <2>2. /\ IsSrv(srv') /\ Backed(srv', memory, config.processor)
        /\ srv'.useRef = srv.useRef /\ srv.objects \subseteq srv'.objects
        /\ Grows(srv, srv', memory)
    BY <1>2, <1>4
  <2>3. /\ leftover' \in BOOLEAN /\ (leftover => leftover')
        /\ ~r.ok /\ P(n).kind = "remap" /\ state[n] = "INITIAL" => leftover'
    BY <1>2, <1>4, StepFacts
  <2> QED BY <1>3, <1>4, <2>1, <2>2, <2>3, MiddleMoves
<1>6. ASSUME Fadas!HasInputs(config, n), Equipped(n) PROVE HoldsNext(n)
  <2>1. Holds(p, t, table[n], ptrs[n], srv, User(n), Server(n)) /\ \A o \in ptrs[n] : o[1] = n
    BY <1>6 DEF Equipped
  <2>2. /\ IsProg(A \o Tail(t)) /\ Marks(A \o Tail(t)) = Marks(A) \union Marks(Tail(t))
        /\ Serves(p, state[n], A \o Tail(t)) => Serves(p, state[n], t)
        /\ ~Serves(p, state[n], x.instead) /\ Phase(p, state[n], x.instead, table[n])
    <3>1. PICK more : more = table[n]
      OBVIOUS
    <3>2. /\ Phase(p, state[n], t, table[n]) /\ t # <<>> /\ x = Head(t) /\ x.op \in MiddleOps
          /\ A = <<>> \/ (x.op = "worker" /\ RemapMiddle(p, A))
          /\ more \subseteq Fadas!KeepAddrs(p) /\ (p.kind = "remap" => more = {})
          /\ more = table[n] \/ x.op = "keep"
      BY <1>1, <1>3, <3>1 DEF MiddleOps
    <3>3. /\ Phase(p, state[n], x.instead, table[n])
          /\ Serves(p, state[n], A \o Tail(t)) => Serves(p, state[n], t)
          /\ state[n] # "RUNNING" => ~Serves(p, state[n], x.instead)
      BY ONLY <3>2, MiddleNext
    <3>4. IsProg(A) /\ IsProg(Tail(t))
      BY <1>3, NoneIs, StepFacts DEF RemapMiddle
    <3>5. IsProg(A \o Tail(t)) /\ Marks(A \o Tail(t)) = Marks(A) \union Marks(Tail(t))
      BY <3>4, CatIs, MarksOf
    <3> QED BY <1>1, <3>3, <3>5
  <2>3. \A o \in ptrs'[n] : o[1] = n
    BY <1>2, <1>4, <2>1
  <2>4. CASE r.ok
    <3>1. todo'[n] = A \o Tail(t)
      BY <1>4, <2>4
    <3>2. Marks(Tail(t)) \subseteq RemapMarks \union {"READY"}
      BY <1>1, StepFacts
    <3>3. "params" \notin Marks(todo'[n]) /\ "run" \notin Marks(todo'[n])
      BY <1>3, <2>2, <3>1, <3>2 DEF RemapMarks
    <3>4. ServerNext(n) => Server(n)
      BY <1>4, <2>2, <3>1 DEF Server, ServerNext
    <3>5. Marks(todo'[n]) \intersect Makes # {} \/ \E o \in ptrs'[n] : o[2] \in Kinds(p)
      <4>1. CASE r.ptr # {}
        BY <1>1, <1>2, <1>4, <4>1 DEF Kinds
      <4>2. CASE r.ptr = {}
        <5>1. x.op = "worker" /\ config.processor = "gpu"
          BY <1>2, <2>4, <4>2
        <5>2. x.arg \notin Fadas!NoTensor(p)
          BY <1>1, <1>6, <5>1 DEF Fadas!HasInputs, P
        <5> QED BY <1>3, <2>2, <3>1, <5>1, <5>2 DEF Makes
      <4> QED BY <4>1, <4>2
    <3>6. Server(n) => ptrs'[n] \subseteq srv'.objects
      <4>1. Marks(t) \intersect {"params", "create"} = {}
        BY <1>1 DEF RemapMarks
      <4> QED BY <1>2, <1>4, <2>1, <4>1 DEF Holds
    <3>7. Covered(srv', todo'[n])
      BY <2>2, <3>1, <3>3, NoneCovered
    <3> QED BY <1>1, <1>4, <2>3, <3>3, <3>4, <3>5, <3>6, <3>7 DEF HoldsNext, Holds
  <2>5. CASE ~r.ok
    <3>1. todo'[n] = x.instead /\ ~ServerNext(n)
      BY <1>4, <2>2, <2>5 DEF ServerNext
    <3>2. Covered(srv', x.instead)
      <4>1. IsProg(x.instead) /\ "run" \notin Marks(x.instead)
        BY <1>1, <2>2, PhaseProg, RunMarks DEF Framing
      <4> QED BY <4>1, NoneCovered
    <3> QED BY <1>1, <1>4, <2>3, <3>1, <3>2, HoldsIdle DEF HoldsNext
  <2> QED BY <1>2, <2>4, <2>5
<1> QED BY <1>5, <1>6 DEF Goes

\* The calls on the buffers, and those of the engine.
LEMMA ServiceGoes ==
  ASSUME NodesInv, NEW n \in Nodes, todo[n] # <<>>, NEW x, x = Head(todo[n]),
         x.op \in {"buffermap", "reg", "try", "dereg", "run", "kernels"},
         NEW r \in Outcomes(n, x), Did(n, x, r)
  PROVE  Goes(n)
<1> DEFINE p == P(n)
           t == todo[n]
<1>0. x.op \in MiddleOps \ {"worker", "map"} /\ x.op \in MiddleOps /\ x.op # "keep"
  BY DEF MiddleOps
<1>1. PICK q \in Fadas!ServiceOutcomes(n, x) : r.s = q.s /\ r.ok = q.ok /\ r.ptr = {}
  BY PointerIs DEF Outcomes
<1>2. /\ \/ state[n] = "RUNNING" /\ FrameStep(p, x)
         \/ p.kind = "remap" /\ state[n] = "INITIAL" /\ (RemapStep(p, x) \/ Undoes(p, x))
         \/ p.kind = "voxelization" /\ VoxelStep(p, x)
      /\ x.op # "dereg" /\ ~OpenCL(p) => User(n)
  BY <1>0, MiddleAt
<1>3. /\ IsSrv(r.s) /\ Backed(r.s, memory, config.processor)
      /\ SameUsers(srv, r.s) /\ r.ok \in BOOLEAN
      /\ x.op # "dereg" => Grows(srv, r.s, memory)
      /\ x.op = "dereg" => Shrinks(srv, r.s, DropAddrs(p))
      /\ r.ok /\ x.op = "reg" => r.s.memMap[x.arg.b.at] # NoEntry
  <2>1. CASE x.op \in {"buffermap", "run", "kernels"}
    <3>1. q = Fadas!Ok(srv) \/ q = Fadas!Failed(srv)
      BY <2>1 DEF Fadas!ServiceOutcomes, Fadas!Either
    <3>2. q.s = srv /\ q.ok \in BOOLEAN
      <4>1. CASE q = Fadas!Ok(srv)
        BY <4>1, OutcomesAre
      <4>2. CASE q = Fadas!Failed(srv)
        BY <4>2, OutcomesAre
      <4> QED BY <3>1, <4>1, <4>2
    <3>3. Keeps(n, r)
      BY <1>1, <3>2, KeepsNothing
    <3> QED BY <2>1, <3>3 DEF Keeps
  <2>2. CASE x.op \in {"reg", "try"}
    <3>1. /\ x.arg.b.at \in Addresses /\ User(n)
      <4>1. x.arg.b.at \in Addresses
        BY <1>2, <2>2, StepFacts, AddrsIs DEF FrameStep, RemapStep, Undoes, VoxelStep
      <4>2. ~OpenCL(p)
        BY <1>2, <2>2 DEF FrameStep, RemapStep, Undoes, VoxelStep, OpenCL
      <4> QED BY <1>2, <2>2, <4>1, <4>2
    <3>2. PICK v \in Fadas!RegBuf(srv, x.arg.b, x.arg.use, memory[x.arg.b.at], config.processor,
                                  config.mayFail) :
             q = v \/ (x.op = "try" /\ q = Fadas!Ok(v.s))
      BY <2>2 DEF Fadas!ServiceOutcomes
    <3>3. Keeps(n, v) /\ (v.ok => v.s.memMap[x.arg.b.at] # NoEntry)
      BY <3>1, KeepsEntry
    <3>4. CASE q = v
      BY <1>1, <2>2, <3>3, <3>4 DEF Keeps
    <3>5. CASE x.op = "try" /\ q = Fadas!Ok(v.s)
      <4>1. q.s = v.s /\ q.ok = TRUE
        BY <3>5, OutcomesAre
      <4> QED BY <1>1, <3>3, <3>5, <4>1 DEF Keeps
    <3> QED BY <3>2, <3>4, <3>5
  <2>3. CASE x.op = "dereg"
    <3>1. x.arg \in DropAddrs(p) /\ x.arg \in Addresses
      <4>1. x.arg \in DropAddrs(p)
        BY <1>2, <2>3 DEF FrameStep, RemapStep, Undoes, VoxelStep
      <4> QED BY <4>1, StepFacts, AddrsIs
    <3>2. q \in Fadas!DeregBuf(srv, x.arg, config.mayFail)
      BY <2>3 DEF Fadas!ServiceOutcomes
    <3>3. PICK a : a = x.arg
      OBVIOUS
    <3>4. /\ q.ok = TRUE /\ IsSrv(q.s) /\ Backed(q.s, memory, config.processor)
          /\ SameUsers(srv, q.s) /\ Shrinks(srv, q.s, {a})
      <4>1. /\ IsSrv(srv) /\ Backed(srv, memory, config.processor) /\ a \in Addresses
            /\ q \in Fadas!DeregBuf(srv, a, config.mayFail)
        BY <3>1, <3>2, <3>3, StepFacts
      <4> QED BY ONLY <4>1, DeregBufDrops
    <3>5. Shrinks(srv, q.s, DropAddrs(p))
      BY <3>1, <3>3, <3>4 DEF Shrinks
    <3> QED BY <1>1, <2>3, <3>4, <3>5
  <2> QED BY <2>1, <2>2, <2>3
<1>4. /\ srv' = r.s /\ state'[n] = state[n] /\ table'[n] = table[n] /\ ptrs'[n] = ptrs[n]
      /\ todo'[n] = IF r.ok THEN Tail(t) ELSE x.instead
      /\ leftover' = (leftover \/ (~r.ok /\ p.kind = "remap" /\ state[n] = "INITIAL"))
      /\ Alone(n)
  <2>1. Fadas!Forget(n, x) \union r.ptr = ptrs[n]
    BY <1>1 DEF Fadas!Forget
  <2>2. Fadas!After(n, x) \o Tail(t) = Tail(t)
    <3>1. PICK A : A = <<>>
      OBVIOUS
    <3>2. Fadas!After(n, x) = A
      BY <3>1 DEF Fadas!After
    <3> QED BY <3>1, <3>2, StepFacts, NothingBefore
  <2> QED BY <2>1, <2>2 DEF Did
<1>5. Moves(n)
  <2>1. PICK A : A = <<>>
    OBVIOUS
  <2>2. todo'[n] = IF r.ok THEN A \o Tail(todo[n]) ELSE x.instead
    BY <1>4, <2>1, StepFacts, NothingBefore
  <2>3. /\ IsSrv(srv') /\ Backed(srv', memory, config.processor)
        /\ srv'.useRef = srv.useRef /\ srv.objects \subseteq srv'.objects
        /\ Grows(srv, srv', memory) \/ Shrinks(srv, srv', DropAddrs(P(n)))
    BY <1>3, <1>4 DEF SameUsers
  <2>4. /\ leftover' \in BOOLEAN /\ (leftover => leftover')
        /\ ~r.ok /\ P(n).kind = "remap" /\ state[n] = "INITIAL" => leftover'
    BY <1>3, <1>4, StepFacts
  <2> QED BY <1>0, <1>3, <1>4, <2>1, <2>2, <2>3, <2>4, MiddleMoves
<1>6. ASSUME Equipped(n) PROVE HoldsNext(n)
  <2>1. /\ srv'.objects = srv.objects
        /\ x.op # "dereg" => Grows(srv, srv', memory)
        /\ r.ok /\ x.op \in {"reg", "keep"} /\ ~OpenCL(P(n)) => srv'.memMap[x.arg.b.at] # NoEntry
    BY <1>0, <1>3, <1>4 DEF SameUsers
  <2>2. table'[n] \ table[n] = {} /\ r.ok \in BOOLEAN
    BY <1>3, <1>4
  <2> QED BY <1>0, <1>4, <1>6, <2>1, <2>2, MiddleHolds
<1> QED BY <1>5, <1>6 DEF Goes

LEMMA CallGoes ==
  ASSUME NodesInv, NEW n \in Nodes, todo[n] # <<>>, Fadas!Call(n), UNCHANGED <<config, memory>>
  PROVE  Goes(n)
<1>1. PICK x : x = Head(todo[n])
  OBVIOUS
<1>2. x.op \notin {"release", "state", "keep", "destroy"}
  BY <1>1, CallIs
<1>3. PICK r \in Outcomes(n, x) : Did(n, x, r)
  BY <1>1, CallIs
<1>4. x.op \in {"init", "deinit", "params", "create"} \union MiddleOps
  <2>1. Phase(P(n), state[n], todo[n], table[n])
    BY StepFacts
  <2>2. /\ ~Resting(state[n], todo[n], table[n])
        /\ Framing(P(n), state[n], todo[n]) => FrameStep(P(n), x)
        /\ RemapFailing(P(n), state[n], todo[n]) => Undoes(P(n), x)
        /\ Stopping(P(n), state[n], todo[n]) => x.op \in {"release", "state"}
        /\ RemapStarting(P(n), state[n], todo[n]) =>
             x.op \in {"init", "params", "state"} \union RemapMarks
        /\ VoxelStarting(P(n), state[n], todo[n], table[n]) =>
             x.op \in {"init", "create", "state"} \union VoxelMarks
        /\ RemapEnding(P(n), state[n], todo[n]) => x.op \in {"destroy", "deinit", "state"}
        /\ VoxelFailing(P(n), state[n], todo[n], table[n]) => x.op \in {"release", "deinit", "state"}
        /\ VoxelEnding(P(n), state[n], todo[n], table[n]) =>
             x.op \in {"release", "destroy", "deinit", "state"}
    BY <1>1, <2>1, HeadOps
  <2> QED BY <1>2, <2>1, <2>2 DEF Phase, FrameStep, Undoes, RemapMarks, VoxelMarks, MiddleOps
<1>5. CASE x.op = "init"
  BY <1>1, <1>3, <1>5, InitGoes
<1>6. CASE x.op = "deinit"
  BY <1>1, <1>3, <1>6, DeinitGoes
<1>7. CASE x.op = "params"
  BY <1>1, <1>3, <1>7, ParamsGoes
<1>8. CASE x.op = "create"
  BY <1>1, <1>3, <1>8, CreateGoes
<1>9. CASE x.op \in {"worker", "map"}
  BY <1>1, <1>3, <1>9, WorkerGoes
<1>10. CASE x.op \in {"buffermap", "reg", "try", "dereg", "run", "kernels"}
  BY <1>1, <1>3, <1>10, ServiceGoes
<1> QED BY <1>2, <1>4, <1>5, <1>6, <1>7, <1>8, <1>9, <1>10 DEF MiddleOps

LEMMA StepGoes ==
  ASSUME NodesInv, NEW n \in Nodes, Fadas!Step(n)
  PROVE  Goes(n) /\ inits' = inits
<1>1. /\ todo[n] # <<>> /\ UNCHANGED <<config, memory>> /\ inits' = inits
      /\ \/ Fadas!DeRegisterAllBuffers(n) \/ Fadas!EnterState(n) \/ Fadas!Register(n)
         \/ Fadas!Destroy(n) \/ Fadas!Call(n) \/ Fadas!ProcessCLFails(n)
  BY DEF Fadas!Step
<1> QED BY <1>1, ReleaseGoes, EnterStateGoes, RegisterGoes, DestroyGoes, CallGoes, ProcessCLFailsGoes

-----------------------------------------------------------------------------
(***************************************************************************)
(* The calls of a node begin.                                              *)
(***************************************************************************)
LEMMA AtRest ==
  ASSUME NodesInv, NEW n \in Nodes, todo[n] = <<>>
  PROVE  /\ state[n] \in {"INITIAL", "READY", "RUNNING"}
         /\ state[n] = "INITIAL" => table[n] = {}
         /\ User(n) <=> ~OpenCL(P(n)) /\ state[n] # "INITIAL"
         /\ Server(n) <=> User(n)
         /\ Special(<<>>) = {} /\ Marks(<<>>) = {}
         /\ P(n).kind \in {"remap", "voxelization"}
<1>1. Phase(P(n), state[n], <<>>, table[n])
  BY StepFacts
<1>2. Marks(<<>>) = {}
  BY MarksOf
<1>3. \A p : /\ EndMaps(p) # <<>> /\ EndWorkers(p) # <<>> /\ Ending(p) # <<>> /\ EndPreProc(p) # <<>>
             /\ EndBuffers(p) # <<>> /\ VoxelUndone(p) # <<>> /\ UndoBuffers(p) # <<>>
             /\ JustDeinit(p) # <<>>
  BY Pieces DEF Known
<1>4. JustInitial # <<>> /\ JustReady # <<>> /\ JustRelease # <<>> /\ StopBuffers # <<>> /\ VoxelFailed # <<>>
  BY Singles DEF Known
<1>5. ~VoxelStarting(P(n), state[n], <<>>, table[n])
  BY VoxelPieces DEF VoxelStarting, Known
<1>6. ~RemapEnding(P(n), state[n], <<>>)
  BY <1>3, <1>4 DEF RemapEnding
<1>7. ~VoxelFailing(P(n), state[n], <<>>, table[n])
  BY <1>3, <1>4 DEF VoxelFailing
<1>8. ~VoxelEnding(P(n), state[n], <<>>, table[n])
  BY <1>3, <1>4 DEF VoxelEnding
<1>9. state[n] \in {"INITIAL", "READY", "RUNNING"} /\ (state[n] = "INITIAL" => table[n] = {})
  BY <1>1, <1>4, <1>5, <1>6, <1>7, <1>8 DEF Phase, Resting, Framing, Stopping, RemapStarting, RemapFailing
<1> QED BY <1>1, <1>2, <1>9 DEF User, Uses, Server, Serves, Special, Phase

Begins(n, s2, t2) ==
  /\ todo[n] = <<>> /\ state' = Put(state, n, s2) /\ todo' = Put(todo, n, t2)
  /\ UNCHANGED <<config, srv, table, ptrs, memory>>
  /\ leftover' \in BOOLEAN /\ (leftover => leftover')
  /\ Phase(P(n), s2, t2, table[n])

LEMMA BeginMoves ==
  ASSUME NodesInv, NEW n \in Nodes, NEW s2, NEW t2, Begins(n, s2, t2),
         \/ Uses(P(n), s2, t2) <=> User(n)
         \/ ~Uses(P(n), s2, t2) /\ leftover'
  PROVE  Moves(n) /\ UserNext(n) = Uses(P(n), s2, t2) /\ state'[n] = s2 /\ todo'[n] = t2
<1>1. state'[n] = s2 /\ OnNodes(state') /\ \A m \in Nodes \ {n} : state'[m] = state[m]
  BY StepFacts, SetsIs DEF Begins
<1>2. todo'[n] = t2 /\ OnNodes(todo') /\ \A m \in Nodes \ {n} : todo'[m] = todo[m]
  BY StepFacts, SetsIs DEF Begins
<1>3. Alone(n)
  BY <1>1, <1>2, StepFacts DEF Alone, Begins
<1>4. UserNext(n) = Uses(P(n), s2, t2)
  BY <1>1, <1>2 DEF UserNext
<1>5. Counts(n)
  BY <1>4 DEF Counts, Begins
<1>6. Enters1(n) /\ Objects1(n)
  BY NothingMoves DEF Begins
<1> QED BY <1>1, <1>2, <1>3, <1>4, <1>5, <1>6, StepFacts DEF Moves, Begins

LEMMA BeginHolds ==
  ASSUME NodesInv, NEW n \in Nodes, NEW s2, NEW t2, Begins(n, s2, t2),
         Uses(P(n), s2, t2) => User(n),
         state'[n] = s2, todo'[n] = t2,
         Serves(P(n), s2, t2) =>
           \/ Server(n) /\ Special(t2) = {}
           \/ Marks(t2) \intersect Makes # {} /\ Marks(t2) \intersect {"params", "create"} # {},
         Covered(srv, t2), Equipped(n)
  PROVE  HoldsNext(n)
<1> DEFINE p == P(n)
<1>1. PICK T : T = <<>> /\ T = todo[n]
  BY DEF Begins
<1>2. Special(T) = {} /\ Marks(T) = {}
  BY <1>1, AtRest DEF Begins
<1>3. Holds(p, T, table[n], ptrs[n], srv, User(n), Server(n)) /\ \A o \in ptrs[n] : o[1] = n
  BY <1>1 DEF Equipped
<1>4. UserNext(n) = Uses(p, s2, t2) /\ ServerNext(n) = Serves(p, s2, t2)
  BY DEF UserNext, ServerNext
<1>5. srv' = srv /\ table'[n] = table[n] /\ ptrs'[n] = ptrs[n]
  BY DEF Begins
<1>6. UserNext(n) => \A a \in table[n] : srv.memMap[a] # NoEntry
  BY <1>3, <1>4 DEF Holds
<1>7. CASE ~Serves(p, s2, t2)
  <2>1. Holds(p, t2, table[n], ptrs[n], srv, UserNext(n), ServerNext(n))
    BY <1>4, <1>6, <1>7, HoldsIdle
  <2> QED BY <1>3, <1>5, <2>1 DEF HoldsNext
<1>8. CASE Server(n) /\ Special(t2) = {}
  <2>1. Special(t2) = Special(T)
    BY <1>2, <1>8
  <2>2. Holds(p, t2, table[n], ptrs[n], srv, UserNext(n), ServerNext(n))
    BY <1>3, <1>6, <1>8, <2>1, HoldsOn
  <2> QED BY <1>3, <1>5, <2>2 DEF HoldsNext
<1>9. CASE Marks(t2) \intersect Makes # {} /\ Marks(t2) \intersect {"params", "create"} # {}
  <2>1. Holds(p, t2, table[n], ptrs[n], srv, UserNext(n), ServerNext(n))
    BY <1>6, <1>9 DEF Holds
  <2> QED BY <1>3, <1>5, <2>1 DEF HoldsNext
<1> QED BY <1>7, <1>8, <1>9

\* Without a change of the state.
LEMMA SameStates ==
  ASSUME NodesInv, NEW n \in Nodes, UNCHANGED state
  PROVE  state' = Put(state, n, state[n])
<1>1. OnNodes(state)
  BY StepFacts
<1>2. Put(state, n, state[n]) = [m \in Nodes |-> IF m = n THEN state[n] ELSE state[m]]
  BY <1>1, ExceptIs DEF OnNodes, Put
<1> QED BY <1>1, <1>2 DEF OnNodes

LEMMA InitializeGoes ==
  ASSUME NodesInv, NEW n \in Nodes, Fadas!Initialize(n)
  PROVE  Goes(n) /\ OnNodes(inits')
<1> DEFINE p == P(n)
<1>1. /\ todo[n] = <<>>
      /\ todo' = Put(todo, n, IF p.kind = "remap" THEN Fadas!RemapInitialize(p)
                              ELSE Fadas!VoxelizationInitialize(p, state[n] # "INITIAL"))
      /\ p.kind = "remap" => state[n] = "INITIAL"
      /\ inits' = Put(inits, n, inits[n] + 1)
      /\ leftover' = (leftover \/ state[n] # "INITIAL")
      /\ UNCHANGED <<config, srv, state, table, ptrs, memory>>
  BY DEF Fadas!Initialize, Fadas!Begin, P, Put
<1>2. OnNodes(inits')
  <2>1. OnNodes(inits)
    BY DEF NodesInv, Types
  <2>2. PICK v : v = inits[n] + 1
    OBVIOUS
  <2> QED BY <1>1, <2>1, <2>2, SetsIs
<1>3. /\ ParamsOK(p) /\ state' = Put(state, n, state[n])
      /\ leftover' \in BOOLEAN /\ (leftover => leftover')
  BY <1>1, StepFacts, SameStates
<1>4. /\ state[n] \in {"INITIAL", "READY", "RUNNING"}
      /\ state[n] = "INITIAL" => table[n] = {}
      /\ User(n) <=> ~OpenCL(p) /\ state[n] # "INITIAL"
      /\ p.kind \in {"remap", "voxelization"}
  BY <1>1, AtRest
<1>5. CASE p.kind = "remap"
  <2>1. PICK M : /\ RemapMiddle(p, M) /\ Fadas!RemapInitialize(p) = RemapProgram(p, M)
                 /\ p.inputs # <<>> => "worker" \in Marks(M)
    BY <1>3, <1>5, RemapInitializeIs
  <2> DEFINE t2 == RemapProgram(p, M)
  <2>2. /\ IsProg(t2) /\ Marks(t2) = {"init", "params"} \union Marks(Body(M))
        /\ "READY" \in Marks(Body(M)) /\ Marks(Body(M)) \subseteq RemapMarks \union {"READY"}
    BY <2>1, RemapPieces DEF Known
  <2>3. ~Uses(p, state[n], t2) /\ "run" \notin Marks(t2)
    BY <1>1, <1>5, <2>2 DEF Uses, RemapMarks
  <2>4. Phase(p, state[n], t2, table[n])
    BY <1>1, <1>4, <1>5, <2>1 DEF Phase, RemapStarting
  <2>5. Marks(t2) \intersect {"params", "create"} # {}
    BY <2>2
  <2> HIDE DEF t2
  <2>6. Begins(n, state[n], t2)
    BY <1>1, <1>3, <1>5, <2>1, <2>4 DEF Begins, t2
  <2>7. Moves(n) /\ state'[n] = state[n] /\ todo'[n] = t2
    BY <1>1, <1>4, <1>5, <2>3, <2>6, BeginMoves
  <2>8. ASSUME Fadas!HasInputs(config, n), Equipped(n) PROVE HoldsNext(n)
    <3>1. Marks(t2) \intersect Makes # {}
      <4>1. "worker" \in Marks(M)
        BY <1>5, <2>1, <2>8 DEF Fadas!HasInputs, P
      <4>2. "worker" \in Marks(Body(M))
        BY <2>1, <4>1, BodyIs DEF RemapMiddle
      <4> QED BY <2>2, <4>2 DEF Makes
    <3>2. Covered(srv, t2)
      BY <2>2, <2>3, NoneCovered DEF t2
    <3> QED BY <2>3, <2>5, <2>6, <2>7, <2>8, <3>1, <3>2, BeginHolds
  <2> QED BY <1>2, <2>7, <2>8 DEF Goes
<1>6. CASE p.kind = "voxelization"
  <2>1. PICK again : again = (state[n] # "INITIAL")
    OBVIOUS
  <2>2. \/ Fadas!VoxelizationInitialize(p, again) = VoxelFailed
        \/ \E M : VoxelMiddle(p, M) /\ Fadas!VoxelizationInitialize(p, again) = VoxelProgram(p, M)
                  /\ ~again
    BY <1>3, <1>6, VoxelizationInitializeIs
  <2>3. todo' = Put(todo, n, Fadas!VoxelizationInitialize(p, again))
    BY <1>1, <1>6, <2>1
  <2>4. CASE Fadas!VoxelizationInitialize(p, again) = VoxelFailed
    <3> DEFINE t2 == VoxelFailed
    <3>1. IsProg(t2) /\ Marks(t2) = {"INITIAL", "release"}
      BY Singles DEF Known
    <3>2. ~Uses(p, state[n], t2) /\ ~Serves(p, state[n], t2) /\ "run" \notin Marks(t2)
      BY <3>1 DEF Uses, Serves
    <3>3. Phase(p, state[n], t2, table[n])
      BY <1>6, StepFacts DEF Phase, VoxelFailing
    <3> HIDE DEF t2
    <3>4. Begins(n, state[n], t2)
      BY <1>1, <1>3, <2>3, <2>4, <3>3 DEF Begins, t2
    <3>5. (Uses(p, state[n], t2) <=> User(n)) \/ leftover'
      BY <1>1, <1>4, <3>2
    <3>6. Moves(n) /\ state'[n] = state[n] /\ todo'[n] = t2
      BY <3>2, <3>4, <3>5, BeginMoves
    <3>7. ASSUME Equipped(n) PROVE HoldsNext(n)
      BY <3>1, <3>2, <3>4, <3>6, <3>7, NoneCovered, BeginHolds
    <3> QED BY <1>2, <3>6, <3>7 DEF Goes
  <2>5. CASE Fadas!VoxelizationInitialize(p, again) # VoxelFailed
    <3>0. PICK M : VoxelMiddle(p, M) /\ Fadas!VoxelizationInitialize(p, again) = VoxelProgram(p, M)
      BY <2>2, <2>5
    <3>1. state[n] = "INITIAL" /\ table[n] = {}
      BY <1>4, <2>1, <2>2, <2>5
    <3> DEFINE t2 == VoxelProgram(p, M)
    <3>2. /\ IsProg(t2) /\ "create" \in Marks(t2) /\ "init" \in Marks(t2)
          /\ Marks(t2) \subseteq {"INITIALIZING", "init", "create", "READY"} \union VoxelMarks
      BY <3>0, VoxelPieces DEF Known
    <3>3. ~Uses(p, state[n], t2) /\ "run" \notin Marks(t2)
      BY <3>1, <3>2 DEF Uses, VoxelMarks
    <3>4. Phase(p, state[n], t2, table[n])
      BY <1>6, <3>0, <3>1 DEF Phase, VoxelStarting
    <3>5. Marks(t2) \intersect Makes # {} /\ Marks(t2) \intersect {"params", "create"} # {}
      BY <3>2 DEF Makes
    <3> HIDE DEF t2
    <3>6. Begins(n, state[n], t2)
      BY <1>1, <1>3, <2>3, <3>0, <3>4 DEF Begins, t2
    <3>7. Moves(n) /\ state'[n] = state[n] /\ todo'[n] = t2
      BY <1>4, <3>1, <3>3, <3>6, BeginMoves
    <3>8. ASSUME Equipped(n) PROVE HoldsNext(n)
      <4>1. Covered(srv, t2)
        BY <3>2, <3>3, NoneCovered DEF t2
      <4> QED BY <3>3, <3>5, <3>6, <3>7, <3>8, <4>1, BeginHolds
    <3> QED BY <1>2, <3>7, <3>8 DEF Goes
  <2> QED BY <2>4, <2>5
<1> QED BY <1>4, <1>5, <1>6

LEMMA StartGoes ==
  ASSUME NodesInv, NEW n \in Nodes,
         \/ Fadas!Start(n) \/ Fadas!RemapStop(n)
  PROVE  Goes(n) /\ inits' = inits
<1> DEFINE p == P(n)
<1>1. PICK s2 : /\ s2 \in {"READY", "RUNNING"} /\ state[n] \in {"READY", "RUNNING"}
                /\ state' = Put(state, n, s2) /\ todo[n] = <<>>
                /\ UNCHANGED <<config, srv, todo, table, ptrs, inits, leftover, memory>>
  BY DEF Fadas!Start, Fadas!RemapStop, Put
<1>2. PICK T : T = <<>> /\ T = todo[n]
  BY <1>1
<1>3. todo' = Put(todo, n, T)
  <2>1. OnNodes(todo)
    BY StepFacts
  <2>2. Put(todo, n, todo[n]) = [m \in Nodes |-> IF m = n THEN todo[n] ELSE todo[m]]
    BY <2>1, ExceptIs DEF OnNodes, Put
  <2> QED BY <1>1, <1>2, <2>1, <2>2 DEF OnNodes
<1>4. Phase(p, s2, T, table[n])
  BY <1>1, <1>2, StepFacts DEF Phase, Resting
<1>5. Begins(n, s2, T)
  BY <1>1, <1>2, <1>3, <1>4, StepFacts DEF Begins
<1>6. /\ User(n) <=> ~OpenCL(p) /\ state[n] # "INITIAL"
      /\ Server(n) <=> User(n)
      /\ Special(T) = {} /\ Marks(T) = {}
  BY <1>1, <1>2, AtRest
<1>7. (Uses(p, s2, T) <=> User(n)) /\ (Serves(p, s2, T) <=> Server(n))
  <2>1. Uses(p, s2, T) <=> ~OpenCL(p)
    BY <1>1, <1>6 DEF Uses
  <2>2. Serves(p, s2, T) <=> ~OpenCL(p)
    BY <1>1, <1>6 DEF Serves
  <2>3. state[n] # "INITIAL"
    BY <1>1
  <2> QED BY <1>6, <2>1, <2>2, <2>3, Zenon
<1>8. Moves(n) /\ state'[n] = s2 /\ todo'[n] = T
  BY <1>5, <1>7, BeginMoves
<1>9. ASSUME Equipped(n) PROVE HoldsNext(n)
  <2>1. Covered(srv, T)
    BY <1>2, NoneIs, NoneCovered, MarksOf
  <2> QED BY <1>5, <1>6, <1>7, <1>8, <1>9, <2>1, BeginHolds
<1> QED BY <1>1, <1>8, <1>9 DEF Goes

LEMMA StopGoes ==
  ASSUME NodesInv, NEW n \in Nodes, Fadas!VoxelizationStopCall(n)
  PROVE  Goes(n) /\ inits' = inits
<1> DEFINE p == P(n)
<1>1. PICK stuck : /\ todo' = Put(todo, n, Fadas!VoxelizationStop(p, stuck))
                   /\ todo[n] = <<>> /\ p.kind = "voxelization" /\ state[n] = "RUNNING"
                   /\ UNCHANGED <<config, srv, state, table, ptrs, inits, leftover, memory>>
  BY DEF Fadas!VoxelizationStopCall, Fadas!Begin, P, Put
<1>2. PICK t2 : t2 = Fadas!VoxelizationStop(p, stuck)
  OBVIOUS
<1>3. t2 \in {StopBuffers, JustRelease, JustReady}
  BY <1>2, StopIs
<1>4. /\ IsProg(t2) /\ Marks(t2) \subseteq {"release", "READY"}
  BY <1>3, Singles DEF Known
<1>5. Phase(p, state[n], t2, table[n])
  BY <1>1, <1>3, StepFacts DEF Phase, Stopping
<1>6. Begins(n, state[n], t2)
  BY <1>1, <1>2, <1>5, StepFacts, SameStates DEF Begins
<1>7. /\ User(n) <=> ~OpenCL(p) /\ state[n] # "INITIAL"
      /\ Server(n) <=> User(n)
  BY <1>1, AtRest
<1>8. (Uses(p, state[n], t2) <=> User(n)) /\ (Serves(p, state[n], t2) <=> Server(n))
  BY <1>1, <1>4, <1>7 DEF Uses, Serves
<1>9. Moves(n) /\ state'[n] = state[n] /\ todo'[n] = t2
  BY <1>6, <1>8, BeginMoves
<1>10. ASSUME Equipped(n) PROVE HoldsNext(n)
  <2>1. Special(t2) = {} /\ "run" \notin Marks(t2)
    BY <1>4 DEF Special
  <2>2. Covered(srv, t2)
    BY <1>4, <2>1, NoneCovered
  <2> QED BY <1>6, <1>8, <1>9, <1>10, <2>1, <2>2, BeginHolds
<1> QED BY <1>1, <1>9, <1>10 DEF Goes

LEMMA DeInitializeGoes ==
  ASSUME NodesInv, NEW n \in Nodes, Fadas!DeInitialize(n)
  PROVE  Goes(n) /\ inits' = inits
<1> DEFINE p == P(n)
<1>1. /\ todo' = Put(todo, n, IF p.kind = "remap" THEN Fadas!RemapDeInitialize(p)
                              ELSE Fadas!VoxelizationDeInitialize(p))
      /\ todo[n] = <<>> /\ state[n] = "READY"
      /\ UNCHANGED <<config, srv, state, table, ptrs, inits, leftover, memory>>
  BY DEF Fadas!DeInitialize, Fadas!Begin, P, Put
<1>2. PICK t2 : t2 = IF p.kind = "remap" THEN EndMaps(p) ELSE EndBuffers(p)
  OBVIOUS
<1>3. todo' = Put(todo, n, t2)
  BY <1>1, <1>2, DeInitializeIs
<1>4. IsProg(t2) /\ "deinit" \in Marks(t2) /\ "run" \notin Marks(t2)
  <2>1. /\ IsProg(EndMaps(p)) /\ IsProg(EndBuffers(p))
        /\ Marks(EndMaps(p)) = {"destroy", "deinit", "INITIAL"}
        /\ Marks(EndBuffers(p)) = {"release", "destroy", "deinit", "INITIAL"}
    BY Pieces, Zenon DEF Known
  <2> QED BY <1>2, <2>1
<1>5. Phase(p, state[n], t2, table[n])
  BY <1>1, <1>2, StepFacts DEF Phase, RemapEnding, VoxelEnding
<1>6. Begins(n, state[n], t2)
  BY <1>1, <1>3, <1>5, StepFacts, SameStates DEF Begins
<1>7. /\ User(n) <=> ~OpenCL(p) /\ state[n] # "INITIAL"
      /\ Server(n) <=> User(n)
  BY <1>1, AtRest
<1>8. (Uses(p, state[n], t2) <=> User(n)) /\ ~Serves(p, state[n], t2)
  BY <1>1, <1>4, <1>7 DEF Uses, Serves
<1>9. Moves(n) /\ state'[n] = state[n] /\ todo'[n] = t2
  BY <1>6, <1>8, BeginMoves
<1>10. ASSUME Equipped(n) PROVE HoldsNext(n)
  BY <1>4, <1>6, <1>8, <1>9, <1>10, NoneCovered, BeginHolds
<1> QED BY <1>1, <1>9, <1>10 DEF Goes

LEMMA ProcessGoes ==
  ASSUME NodesInv, NEW n \in Nodes, NEW f \in P(n).frames, Fadas!ProcessFrameDescriptor(n, f)
  PROVE  Goes(n) /\ inits' = inits
<1> DEFINE p == P(n)
<1>1. PICK t2 : /\ t2 = IF p.kind = "remap" THEN Fadas!RemapRun(p, f)
                        ELSE Fadas!VoxelizationProcess(p, f)
                /\ todo' = Put(todo, n, t2)
                /\ todo[n] = <<>> /\ state[n] = "RUNNING"
                /\ UNCHANGED <<config, srv, state, table, ptrs, inits, leftover, memory>>
  BY DEF Fadas!ProcessFrameDescriptor, Fadas!Begin, P, Put
<1>2. /\ User(n) <=> ~OpenCL(p) /\ state[n] # "INITIAL"
      /\ Server(n) <=> User(n)
      /\ p.kind \in {"remap", "voxelization"} /\ ParamsOK(p)
  BY <1>1, AtRest, StepFacts
<1>3. Framing(p, state[n], t2) /\ Covered(srv, t2)
  <2>1. CASE p.kind = "remap"
    BY <1>1, <1>2, <2>1, RemapRunIs
  <2>2. CASE p.kind = "voxelization"
    BY <1>1, <1>2, <2>2, ProcessIs
  <2> QED BY <1>2, <2>1, <2>2
<1>4. Marks(t2) \subseteq {"reg", "keep", "run", "kernels"}
  BY <1>3, MiddleMarks
<1>5. Phase(p, state[n], t2, table[n])
  BY <1>3, StepFacts DEF Phase
<1>6. Begins(n, state[n], t2)
  BY <1>1, <1>5, StepFacts, SameStates DEF Begins
<1>7. (Uses(p, state[n], t2) <=> User(n)) /\ (Serves(p, state[n], t2) <=> Server(n))
  BY <1>1, <1>2, <1>4 DEF Uses, Serves
<1>8. Moves(n) /\ state'[n] = state[n] /\ todo'[n] = t2
  BY <1>6, <1>7, BeginMoves
<1>9. ASSUME Equipped(n) PROVE HoldsNext(n)
  <2>1. Special(t2) = {}
    BY <1>4 DEF Special
  <2> QED BY <1>3, <1>6, <1>7, <1>8, <1>9, <2>1, BeginHolds
<1> QED BY <1>1, <1>8, <1>9 DEF Goes

\* Whatever a node does.
Acts(n) ==
  \/ Fadas!Step(n) \/ Fadas!Initialize(n) \/ Fadas!Start(n) \/ Fadas!RemapStop(n)
  \/ Fadas!VoxelizationStopCall(n) \/ Fadas!DeInitialize(n)
  \/ \E f \in config.params[n].frames : Fadas!ProcessFrameDescriptor(n, f)

LEMMA ActsGo ==
  ASSUME NodesInv, NEW n \in Nodes, Acts(n)
  PROVE  Goes(n) /\ OnNodes(inits')
<1>1. OnNodes(inits)
  BY DEF NodesInv, Types
<1>2. CASE Fadas!Step(n)
  BY <1>1, <1>2, StepGoes
<1>3. CASE Fadas!Initialize(n)
  BY <1>3, InitializeGoes
<1>4. CASE Fadas!Start(n) \/ Fadas!RemapStop(n)
  BY <1>1, <1>4, StartGoes
<1>5. CASE Fadas!VoxelizationStopCall(n)
  BY <1>1, <1>5, StopGoes
<1>6. CASE Fadas!DeInitialize(n)
  BY <1>1, <1>6, DeInitializeGoes
<1>7. CASE \E f \in config.params[n].frames : Fadas!ProcessFrameDescriptor(n, f)
  BY <1>1, <1>7, ProcessGoes DEF P
<1> QED BY <1>2, <1>3, <1>4, <1>5, <1>6, <1>7 DEF Acts

-----------------------------------------------------------------------------
(***************************************************************************)
(* The invariant holds throughout.                                         *)
(***************************************************************************)
LEMMA CountedNext ==
  ASSUME NodesInv, NEW n \in Nodes, Moves(n)
  PROVE  UsersCounted'
<1>1. config' = config /\ \A m \in Nodes \ {n} : state'[m] = state[m] /\ todo'[m] = todo[m]
  BY DEF Moves, Alone
<1>2. Users' = { m \in Nodes : UserNext(m) }
  BY <1>1 DEF Users, User, UserNext, P
<1>3. \A m \in Nodes \ {n} : UserNext(m) <=> User(m)
  BY <1>1 DEF User, UserNext
<1>4. Users' = IF UserNext(n) THEN Users \union {n} ELSE Users \ {n}
  BY <1>2, <1>3 DEF Users
<1>5. IsFiniteSet(Users) /\ Cardinality(Users) \in Nat
  <2>1. Users \subseteq Nodes /\ IsFiniteSet(Nodes)
    BY Configurations DEF Users, Nodes
  <2> QED BY <2>1, FS_Subset, FS_CardinalityType
<1>6. /\ srv.useRef \in Nat /\ srv.useRef >= Cardinality(Users)
      /\ ~leftover => srv.useRef = Cardinality(Users)
      /\ leftover \in BOOLEAN /\ leftover' \in BOOLEAN /\ (leftover => leftover')
  BY DEF NodesInv, Types, IsSrv, UsersCounted, Moves, Counts
<1>7. n \in Users <=> User(n)
  BY DEF Users
<1>8. CASE srv'.useRef = srv.useRef /\ (UserNext(n) <=> User(n))
  <2>1. Users' = Users
    BY <1>4, <1>7, <1>8
  <2> QED BY <1>6, <1>8, <2>1 DEF UsersCounted
<1>9. CASE srv'.useRef = srv.useRef + 1 /\ ~User(n) /\ UserNext(n)
  <2>1. Cardinality(Users') = Cardinality(Users) + 1
    BY <1>4, <1>5, <1>7, <1>9, FS_AddElement
  <2> QED BY <1>5, <1>6, <1>9, <2>1 DEF UsersCounted
<1>10. CASE srv'.useRef = srv.useRef - 1 /\ User(n) /\ ~UserNext(n)
  <2>1. Cardinality(Users') = Cardinality(Users) - 1
    BY <1>4, <1>5, <1>7, <1>10, FS_RemoveElement
  <2> QED BY <1>5, <1>6, <1>10, <2>1 DEF UsersCounted
<1>11. CASE srv'.useRef = srv.useRef /\ ~UserNext(n) /\ leftover'
  <2>1. Users' \subseteq Users
    BY <1>4, <1>11
  <2>2. Cardinality(Users') <= Cardinality(Users) /\ Cardinality(Users') \in Nat
    BY <1>5, <2>1, FS_Subset, FS_CardinalityType
  <2> QED BY <1>5, <1>6, <1>11, <2>2 DEF UsersCounted
<1> QED BY <1>8, <1>9, <1>10, <1>11 DEF Moves, Counts

\* A phase depends on the processor, in what is deregistered.
LEMMA PlacedNext ==
  ASSUME config' = config,
         \A m \in Nodes : Phase(P(m), state'[m], todo'[m], table'[m])
  PROVE  Placed'
<1>1. \A p : Fadas!DropsOf(config', p) = Fadas!DropsOf(config, p)
  OBVIOUS
<1> HIDE DEF Fadas!DropsOf
<1> QED
  BY <1>1 DEF Placed, P, Phase, RemapStarting, RemapFailing, RemapMiddle, RemapStep,
              Undoing, Undoes, DropAddrs

LEMMA MovesKeep ==
  ASSUME NodesInv, NEW n \in Nodes, Moves(n), OnNodes(inits')
  PROVE  NodesInv'
<1>1. config' = config /\ memory' = memory
  BY DEF Moves, Alone
<1>2. Types'
  BY <1>1 DEF NodesInv, Types, Moves, Alone, Counts, OnNodes
<1>3. Placed'
  <2>1. ASSUME NEW m \in Nodes PROVE Phase(P(m), state'[m], todo'[m], table'[m])
    <3>1. CASE m = n
      BY <3>1 DEF Moves
    <3>2. CASE m # n
      BY <3>2 DEF Moves, Alone, NodesInv, Placed
    <3> QED BY <3>1, <3>2
  <2> QED BY <1>1, <2>1, PlacedNext
<1>4. IsSrv(srv)' /\ Backed(srv, memory, config.processor)'
  BY <1>1 DEF Moves
<1> QED BY <1>2, <1>3, <1>4, CountedNext DEF NodesInv

\* With no node up nothing is left in the service.
LEMMA ReplaceKeeps ==
  ASSUME NodesInv, NEW a \in Addresses, NEW m \in Memory, Fadas!Replace(a, m)
  PROVE  NodesInv' /\ \A b \in Addresses : srv.memMap[b] = NoEntry
<1>1. /\ ~leftover /\ \A n \in Nodes : state[n] = "INITIAL" /\ todo[n] = <<>>
      /\ memory' = [memory EXCEPT ![a] = m]
      /\ UNCHANGED <<config, srv, state, todo, table, ptrs, inits, leftover>>
  BY DEF Fadas!Replace, Nodes
<1>2. Users = {}
  BY <1>1, AtRest DEF Users
<1>3. srv.useRef = 0
  BY <1>1, <1>2, FS_EmptySet DEF NodesInv, UsersCounted
<1>4. \A b \in Addresses : srv.memMap[b] = NoEntry
  BY <1>3 DEF NodesInv, IsSrv
<1>5. Types'
  BY <1>1 DEF NodesInv, Types, OnNodes
<1>6. Placed' /\ UsersCounted' /\ IsSrv(srv)'
  <2>1. Placed'
    BY <1>1, PlacedNext DEF NodesInv, Placed
  <2> QED BY <1>1, <2>1 DEF NodesInv, UsersCounted, Users, User, P
<1>7. Backed(srv, memory, config.processor)'
  BY <1>1, <1>4 DEF Backed
<1> QED BY <1>4, <1>5, <1>6, <1>7 DEF NodesInv

LEMMA NodesInit ==
  ASSUME Fadas!Init PROVE NodesInv /\ \A a \in Addresses : srv.memMap[a] = NoEntry
<1>1. /\ config \in FadasConfigs /\ srv = Fadas!Down
      /\ state = [n \in Nodes |-> "INITIAL"] /\ todo = [n \in Nodes |-> <<>>]
      /\ table = [n \in Nodes |-> {}] /\ ptrs = [n \in Nodes |-> {}]
      /\ inits = [n \in Nodes |-> 0] /\ leftover = FALSE
      /\ memory \in [Addresses -> Memory]
  BY DEF Fadas!Init, Nodes
<1>2. IsSrv(srv) /\ \A a \in Addresses : srv.memMap[a] = NoEntry
  BY <1>1, DownIs
<1>3. Types
  BY <1>1 DEF Types, OnNodes
<1>4. Placed
  <2> SUFFICES ASSUME NEW n \in Nodes PROVE Phase(P(n), state[n], todo[n], table[n])
    BY DEF Placed
  <2>1. P(n).kind \in {"remap", "voxelization"}
    BY <1>1, ConfigIs DEF P, ParamsOK
  <2> QED BY <1>1, <2>1 DEF Phase, Resting
<1>5. Users = {}
  <2> SUFFICES ASSUME NEW n \in Nodes PROVE ~User(n)
    BY DEF Users
  <2>1. PICK T : T = <<>> /\ T = todo[n]
    BY <1>1
  <2>2. Marks(T) = {}
    BY <2>1, MarksOf
  <2> QED BY <1>1, <2>1, <2>2 DEF User, Uses
<1>6. UsersCounted
  BY <1>1, <1>5, FS_EmptySet DEF UsersCounted, Fadas!Down
<1>7. Backed(srv, memory, config.processor)
  BY <1>2 DEF Backed
<1> QED BY <1>2, <1>3, <1>4, <1>6, <1>7 DEF NodesInv

\* The nodes in the services: the variables of the other parts differ.
FadasInv == /\ part = "fadas" => NodesInv
            /\ part # "fadas" => srv = Fadas!Down

LEMMA NodesNext ==
  ASSUME NodesInv, Fadas!Next
  PROVE  \/ \E n \in Nodes : Acts(n)
         \/ \E a \in Addresses, m \in Memory : Fadas!Replace(a, m)
  BY DEF Fadas!Next, Acts, Nodes

LEMMA FadasInvKept == ServicesSpec => []FadasInv
<1>1. ServicesInit => FadasInv
  BY NodesInit DEF ServicesInit, FadasInv, FadasIdle
<1>2. FadasInv /\ [ServicesNext]_servicesVars => FadasInv'
  <2> SUFFICES ASSUME FadasInv, [ServicesNext]_servicesVars PROVE FadasInv'
    OBVIOUS
  <2>1. CASE part = "fadas" /\ Fadas!Next /\ UNCHANGED part
    <3>1. NodesInv
      BY <2>1 DEF FadasInv
    <3>2. CASE \E n \in Nodes : Acts(n)
      <4>1. PICK n \in Nodes : Acts(n)
        BY <3>2
      <4>2. Moves(n) /\ OnNodes(inits')
        BY <3>1, <4>1, ActsGo DEF Goes
      <4>3. NodesInv'
        BY <3>1, <4>2, MovesKeep
      <4> QED BY <2>1, <4>3 DEF FadasInv
    <3>3. CASE \E a \in Addresses, m \in Memory : Fadas!Replace(a, m)
      <4>1. NodesInv'
        BY <3>1, <3>3, ReplaceKeeps
      <4> QED BY <2>1, <4>1 DEF FadasInv
    <3> QED BY <2>1, <3>1, <3>2, <3>3, NodesNext
  <2>2. CASE part # "fadas" /\ UNCHANGED <<part, srv>>
    BY <2>2 DEF FadasInv
  <2>3. CASE UNCHANGED <<part, common, fadasVars>>
    <3>1. UNCHANGED <<config, state, inits, memory, srv, todo, table, ptrs, leftover, part>>
      BY <2>3 DEF common, fadasVars
    <3>2. NodesInv => NodesInv'
      <4>1. NodesInv => Placed'
        BY <3>1, PlacedNext DEF NodesInv, Placed
      <4> QED BY <3>1, <4>1 DEF NodesInv, Types, OnNodes, UsersCounted, Users, User, P
    <3> QED BY <3>1, <3>2 DEF FadasInv
  <2>4. \/ part = "fadas" /\ Fadas!Next /\ UNCHANGED part
        \/ part # "fadas" /\ UNCHANGED <<part, srv>>
        \/ UNCHANGED <<part, common, fadasVars>>
    BY DEF ServicesNext, servicesVars, fadasVars, common
  <2> QED BY <2>1, <2>2, <2>3, <2>4
<1> QED BY <1>1, <1>2, PTL DEF ServicesSpec

-----------------------------------------------------------------------------
(***************************************************************************)
(* The service and BufferUse: an entry is of the memory that is at its     *)
(* address when it is made, and there are none when memory is replaced.    *)
(***************************************************************************)
LEMMA NoneKept ==
  /\ (\A a \in Addresses : srv.memMap[a] = NoEntry) => Fadas!Kept = [a \in Addresses |-> Nothing]
  /\ (\A a \in Addresses : srv'.memMap[a] = NoEntry) => Fadas!Kept' = [a \in Addresses |-> Nothing]
<1>1. NoEntry.memory = Nothing
  BY DEF NoEntry, Fadas!NoEntry
<1> QED BY <1>1 DEF Fadas!Kept

LEMMA MovesUse ==
  ASSUME NodesInv, NEW n \in Nodes, Moves(n)
  PROVE  Fadas!Use!Next
<1>1. memory' = memory
  BY DEF Moves, Alone
<1>2. /\ Fadas!Kept = [a \in Addresses |-> srv.memMap[a].memory]
      /\ Fadas!Kept' = [a \in Addresses |-> srv'.memMap[a].memory]
  BY DEF Fadas!Kept
<1>3. NoEntry.memory = Nothing
  BY DEF NoEntry, Fadas!NoEntry
<1> DEFINE kept == Fadas!Kept
<1>4. CASE Grows(srv, srv', memory)
  <2>1. \A a \in Addresses : kept'[a] = kept[a] \/ (kept[a] = Nothing /\ kept'[a] = memory[a])
    BY <1>2, <1>3, <1>4 DEF Grows
  <2>2. kept' = [a \in Addresses |-> kept'[a]]
    BY <1>2
  <2>3. Fadas!Use!Keep
    BY <1>1, <2>1, <2>2 DEF Fadas!Use!Keep
  <2> QED BY <2>3 DEF Fadas!Use!Next
<1>5. CASE \A a \in Addresses : srv'.memMap[a] = srv.memMap[a] \/ srv'.memMap[a] = NoEntry
  <2>1. \A a \in Addresses : kept'[a] = kept[a] \/ kept'[a] = Nothing
    BY <1>2, <1>3, <1>5
  <2>2. kept' = [a \in Addresses |-> kept'[a]]
    BY <1>2
  <2>3. Fadas!Use!Drop
    BY <1>1, <2>1, <2>2 DEF Fadas!Use!Drop
  <2> QED BY <2>3 DEF Fadas!Use!Next
<1> QED BY <1>4, <1>5 DEF Moves, Enters1, Shrinks

LEMMA FadasUse ==
  ASSUME NodesInv, Fadas!Next
  PROVE  Fadas!Use!Next
<1>1. CASE \E n \in Nodes : Acts(n)
  <2>1. PICK n \in Nodes : Acts(n)
    BY <1>1
  <2> QED BY <2>1, ActsGo, MovesUse DEF Goes
<1>2. CASE \E a \in Addresses, m \in Memory : Fadas!Replace(a, m)
  <2>1. PICK a \in Addresses, m \in Memory : Fadas!Replace(a, m)
    BY <1>2
  <2>2. Fadas!Kept = [b \in Addresses |-> Nothing] /\ UNCHANGED srv
    BY <2>1, ReplaceKeeps, NoneKept DEF Fadas!Replace
  <2>3. UNCHANGED Fadas!Kept
    BY <2>2 DEF Fadas!Kept
  <2>4. Fadas!Use!Replace(a, m)
    BY <2>1, <2>2, <2>3 DEF Fadas!Use!Replace, Fadas!Replace
  <2> QED BY <2>4 DEF Fadas!Use!Next
<1> QED BY <1>1, <1>2, NodesNext

LEMMA OthersUse ==
  ASSUME srv = Fadas!Down, UNCHANGED srv, part # "fadas", [ServicesNext]_servicesVars
  PROVE  [Fadas!Use!Next]_(Fadas!Use!vars)
<1>1. Fadas!Kept = [a \in Addresses |-> Nothing] /\ Fadas!Kept' = [a \in Addresses |-> Nothing]
  BY DownIs, NoneKept
<1>2. CASE UNCHANGED memory
  BY <1>1, <1>2 DEF Fadas!Use!vars
<1>3. ASSUME NEW a \in Addresses, NEW m \in Memory, memory' = [memory EXCEPT ![a] = m]
      PROVE  Fadas!Use!Next
  <2>1. Fadas!Use!Replace(a, m)
    BY <1>1, <1>3 DEF Fadas!Use!Replace
  <2> QED BY <2>1 DEF Fadas!Use!Next
<1>4. CASE part = "eva" /\ Eva!Next
  <2>1. \/ UNCHANGED memory
        \/ \E a \in Addresses, m \in Memory : memory' = [memory EXCEPT ![a] = m]
    BY <1>4 DEF Eva!Next, Eva!Initialize, Eva!Start, Eva!Stop, Eva!DeInitialize,
                Eva!ProcessFrameDescriptor, Eva!Replace
  <2> QED BY <1>2, <1>3, <2>1
<1>5. CASE part = "cl" /\ Cl!Next
  <2>1. \/ UNCHANGED memory
        \/ \E a \in Addresses, m \in Memory : memory' = [memory EXCEPT ![a] = m]
    BY <1>5 DEF Cl!Next, Cl!Initialize, Cl!Start, Cl!Stop, Cl!DeInitialize,
                Cl!ProcessFrameDescriptor, Cl!Replace
  <2> QED BY <1>2, <1>3, <2>1
<1>6. CASE UNCHANGED servicesVars
  BY <1>2, <1>6 DEF servicesVars, common
<1> QED BY <1>2, <1>4, <1>5, <1>6 DEF ServicesNext, common

LEMMA StepUse == FadasInv /\ [ServicesNext]_servicesVars => [Fadas!Use!Next]_(Fadas!Use!vars)
<1> SUFFICES ASSUME FadasInv, [ServicesNext]_servicesVars
             PROVE  [Fadas!Use!Next]_(Fadas!Use!vars)
  OBVIOUS
<1>1. CASE part = "fadas" /\ Fadas!Next
  BY <1>1, FadasUse DEF FadasInv
<1>2. CASE part # "fadas"
  <2>1. srv = Fadas!Down /\ UNCHANGED srv
    BY <1>2 DEF FadasInv, ServicesNext, servicesVars, fadasVars
  <2> QED BY <1>2, <2>1, OthersUse
<1>3. CASE UNCHANGED <<srv, memory>>
  BY <1>3 DEF Fadas!Use!vars, Fadas!Kept
<1> QED BY <1>1, <1>2, <1>3 DEF ServicesNext, servicesVars, fadasVars, common

LEMMA InitUse == ServicesInit => Fadas!Use!Init
<1> SUFFICES ASSUME ServicesInit PROVE Fadas!Use!Init
  OBVIOUS
<1>1. \A a \in Addresses : srv.memMap[a] = NoEntry
  BY NodesInit, DownIs DEF ServicesInit, FadasIdle
<1>2. memory \in [Addresses -> Memory]
  <2>1. CASE part = "eva"
    BY <2>1 DEF ServicesInit, Eva!Init
  <2>2. CASE part = "cl"
    BY <2>2 DEF ServicesInit, Cl!Init
  <2>3. CASE part \notin {"eva", "cl"}
    BY <2>3, Configurations DEF ServicesInit
  <2> QED BY <2>1, <2>2, <2>3
<1> QED BY <1>1, <1>2, NoneKept DEF Fadas!Use!Init

(***************************************************************************)
(* The FastADAS service implements BufferUse, for all configurations and   *)
(* every finite number of nodes that share it: an entry is made of the     *)
(* memory that is there when RegBuf maps and registers it, and no entry is *)
(* left once every node is down, so that none is of memory the application *)
(* has taken away (FadasSrv::RegBuf, DeregBuf, Deinit) - as long as no     *)
(* Initialize has left something behind in the service.                    *)
(***************************************************************************)
THEOREM FadasNodesLetGo == ServicesSpec => FadasLetsGo
<1>1. ServicesSpec => []FadasInv
  BY FadasInvKept
<1>2. ServicesInit => Fadas!Use!Init
  BY InitUse
<1>3. FadasInv /\ [ServicesNext]_servicesVars => [Fadas!Use!Next]_(Fadas!Use!vars)
  BY StepUse
<1> QED
  BY <1>1, <1>2, <1>3, PTL DEF ServicesSpec, FadasLetsGo, Fadas!LetsGo, Fadas!Use!Spec

-----------------------------------------------------------------------------
(***************************************************************************)
(* What a node has stays as it is while the other nodes take their steps,  *)
(* if none of them deregisters a buffer of its frames or of its table.     *)
(***************************************************************************)
\* Two users are two in the count.
LEMMA TwoUsers ==
  ASSUME NodesInv, NEW n \in Nodes, NEW m \in Nodes, m # n, User(n), User(m)
  PROVE  srv.useRef # 1
<1>1. IsFiniteSet(Users) /\ n \in Users /\ m \in Users
  BY UserCounts DEF Users
<1>2. IsFiniteSet(Users \ {n}) /\ Cardinality(Users \ {n}) = Cardinality(Users) - 1
  BY <1>1, FS_RemoveElement
<1>3. Users \ {n} # {}
  BY <1>1
<1>4. Cardinality(Users \ {n}) \in Nat /\ Cardinality(Users \ {n}) # 0 /\ Cardinality(Users) \in Nat
  BY <1>1, <1>2, <1>3, FS_CardinalityType, FS_EmptySet
<1>5. Cardinality(Users) >= 2
  BY <1>2, <1>4
<1>6. srv.useRef \in Nat /\ srv.useRef >= Cardinality(Users)
  BY DEF NodesInv, IsSrv, UsersCounted
<1> QED BY <1>4, <1>5, <1>6

LEMMA OthersHold ==
  ASSUME NodesInv, NEW n \in Nodes, NEW m \in Nodes, m # n, Equipped(n), Equipped(m), Moves(n),
         DropAddrs(P(n)) \intersect (Fadas!FrameAddrs(P(m)) \union Fadas!KeepAddrs(P(m))) = {}
  PROVE  Holds(P(m), todo[m], table[m], ptrs[m], srv', User(m), Server(m))
<1> DEFINE p == P(m)
           t == todo[m]
           A == Fadas!FrameAddrs(p) \union Fadas!KeepAddrs(p)
<1>1. /\ Holds(p, t, table[m], ptrs[m], srv, User(m), Server(m)) /\ \A o \in ptrs[m] : o[1] = m
      /\ \A o \in ptrs[n] : o[1] = n
  BY DEF Equipped
<1>2. Phase(p, state[m], t, table[m]) /\ IsProg(t) /\ ParamsOK(p) /\ A \subseteq Addresses
  BY StepFacts, AddrsIs
<1>3. ASSUME User(m), NEW a \in A, srv.memMap[a] # NoEntry PROVE srv'.memMap[a] # NoEntry
  <2>1. a \in Addresses /\ a \notin DropAddrs(P(n))
    BY <1>2
  <2>2. ~(User(n) /\ srv.useRef = 1)
    BY <1>3, TwoUsers
  <2> QED BY <1>3, <2>1, <2>2 DEF Moves, Enters1, Grows, Shrinks
<1>4. User(m) => \A a \in table[m] : srv'.memMap[a] # NoEntry
  <2>1. table[m] \subseteq A
    BY <1>2 DEF Phase
  <2> QED BY <1>1, <1>3, <2>1 DEF Holds
<1>5. Server(m) /\ Marks(t) \intersect {"params", "create"} = {} => ptrs[m] \subseteq srv'.objects
  <2> SUFFICES ASSUME Server(m), Marks(t) \intersect {"params", "create"} = {}
               PROVE  ptrs[m] \subseteq srv'.objects
    OBVIOUS
  <2>1. User(m)
    BY <1>2, ServerUses DEF Server, User
  <2>2. srv.objects \ ptrs[n] \subseteq srv'.objects
    BY <2>1, TwoUsers DEF Moves, Objects1
  <2>3. ptrs[m] \subseteq srv.objects
    BY <1>1 DEF Holds
  <2> QED BY <1>1, <2>2, <2>3
<1>6. Covered(srv', t)
  <2>1. CASE "run" \notin Marks(t)
    BY <1>2, <2>1, NoneCovered
  <2>2. CASE "run" \in Marks(t)
    <3>1. Framing(p, state[m], t)
      BY <1>2, <2>2, RunMarks
    <3>2. \A x \in Elems(t) : x.op = "run" => { b.at : b \in x.arg.bs } \subseteq Fadas!FrameAddrs(p) /\ ~OpenCL(p)
      BY <3>1 DEF Framing, FrameStep
    <3>3. User(m)
      <4>1. PICK x \in Elems(t) : x.op = "run" \/ (x.op = "state" /\ x.arg = "run")
        BY <2>2 DEF Marks, Label
      <4>2. x.op = "run"
        BY <3>1, <4>1 DEF Framing, FrameStep
      <4>3. ~OpenCL(p) /\ state[m] = "RUNNING" /\ "INITIAL" \notin Marks(t)
        BY <3>1, <3>2, <4>2, MiddleMarks DEF Framing
      <4> QED BY <4>3 DEF User, Uses
    <3>4. \A x \in Elems(t) : x.op = "run" => { b.at : b \in x.arg.bs } \subseteq Fadas!FrameAddrs(p)
      BY <3>2
    <3>5. \A a \in Fadas!FrameAddrs(p) : srv.memMap[a] # NoEntry => srv'.memMap[a] # NoEntry
      BY <1>3, <3>3
    <3>6. Covered(srv, t)
      BY <1>1 DEF Holds
    <3> QED BY ONLY <1>2, <3>4, <3>5, <3>6, CoveredStays
  <2> QED BY <2>1, <2>2
<1> QED BY <1>1, <1>4, <1>5, <1>6 DEF Holds

AllEquipped == \A n \in Nodes : Equipped(n)

LEMMA EquippedNext ==
  ASSUME NodesApart, NodesInv, AllEquipped, NEW n \in Nodes, Acts(n)
  PROVE  AllEquipped'
<1>1. Goes(n) /\ Fadas!HasInputs(config, n)
  BY ActsGo DEF NodesApart, Fadas!IsApart, NodesInv, Types, Nodes
<1>2. Moves(n) /\ HoldsNext(n)
  BY <1>1 DEF Goes, AllEquipped
<1>3. config' = config
  BY <1>2 DEF Moves, Alone
<1>4. ASSUME NEW m \in Nodes
      PROVE  /\ \A o \in ptrs'[m] : o[1] = m
             /\ Holds(P(m), todo'[m], table'[m], ptrs'[m], srv', UserNext(m), ServerNext(m))
  <2>1. CASE m = n
    BY <1>2, <2>1 DEF HoldsNext
  <2>2. CASE m # n
    <3>1. DropAddrs(P(n)) \intersect (Fadas!FrameAddrs(P(m)) \union Fadas!KeepAddrs(P(m))) = {}
      <4>1. config \in FadasConfigs
        BY DEF NodesInv, Types
      <4>2. Fadas!DropsOf(config, config.params[n])
              \intersect (Fadas!FrameAddrs(config.params[m]) \union Fadas!KeepAddrs(config.params[m])) = {}
        BY <2>2, <4>1 DEF NodesApart, Fadas!IsApart, Nodes
      <4> QED BY <4>2 DEF DropAddrs, P
    <3>2. Holds(P(m), todo[m], table[m], ptrs[m], srv', User(m), Server(m))
      BY <1>2, <2>2, <3>1, OthersHold DEF AllEquipped
    <3>3. /\ state'[m] = state[m] /\ todo'[m] = todo[m]
          /\ table'[m] = table[m] /\ ptrs'[m] = ptrs[m]
      BY <1>2, <2>2 DEF Moves, Alone
    <3>4. UserNext(m) = User(m) /\ ServerNext(m) = Server(m)
      BY <3>3 DEF UserNext, User, ServerNext, Server
    <3> QED BY <3>2, <3>3, <3>4 DEF AllEquipped, Equipped
  <2> QED BY <2>1, <2>2
<1> QED BY <1>3, <1>4 DEF AllEquipped, Equipped, User, UserNext, Server, ServerNext, P

LEMMA EquippedInit ==
  ASSUME Fadas!Init PROVE AllEquipped
<1> SUFFICES ASSUME NEW n \in Nodes PROVE Equipped(n)
  BY DEF AllEquipped
<1>1. /\ state[n] = "INITIAL" /\ table[n] = {} /\ ptrs[n] = {}
  BY DEF Fadas!Init, Nodes
<1>2. PICK T : T = <<>> /\ T = todo[n]
  BY DEF Fadas!Init, Nodes
<1>3. Marks(T) = {} /\ Covered(srv, T)
  BY <1>2, MarksOf, NoneIs, NoneCovered
<1>4. ~Server(n)
  BY <1>1, <1>2, <1>3 DEF Server, Serves
<1>5. Holds(P(n), T, {}, {}, srv, User(n), Server(n))
  BY <1>3, <1>4, HoldsIdle
<1> QED BY <1>1, <1>2, <1>5 DEF Equipped

LEMMA EquippedRuns ==
  ASSUME NodesInv, AllEquipped
  PROVE  Fadas!RunsRegistered
<1> SUFFICES ASSUME NEW n \in Nodes, todo[n] # <<>>, Head(todo[n]).op = "run"
             PROVE  /\ srv.initialized
                    /\ \A b \in Head(todo[n]).arg.bs : Fadas!Usable(b.at)
                    /\ Fadas!Objects(n, Head(todo[n]).arg.on) # {}
                    /\ Fadas!Objects(n, Head(todo[n]).arg.on) \subseteq srv.objects
  BY DEF Fadas!RunsRegistered, Nodes
<1> DEFINE p == P(n)
           t == todo[n]
           x == Head(t)
<1>1. Phase(p, state[n], t, table[n]) /\ IsProg(t) /\ ParamsOK(p) /\ "run" \in Marks(t)
  BY StepFacts DEF Label
<1>2. Framing(p, state[n], t) /\ FrameStep(p, x)
  BY <1>1, RunMarks, HeadOps
<1>3. /\ { b.at : b \in x.arg.bs } \subseteq Fadas!FrameAddrs(p) /\ x.arg.on = Kinds(p) /\ ~OpenCL(p)
  BY <1>2 DEF FrameStep
<1>4. Marks(t) \subseteq {"reg", "keep", "run", "kernels"} /\ state[n] = "RUNNING"
  BY <1>2, MiddleMarks DEF Framing
<1>5. User(n) /\ Server(n)
  BY <1>3, <1>4 DEF User, Uses, Server, Serves
<1>6. srv.initialized
  BY <1>5, UserCounts DEF NodesInv, IsSrv
<1>7. Holds(p, t, table[n], ptrs[n], srv, User(n), Server(n))
  BY DEF AllEquipped, Equipped
<1>8. \A b \in x.arg.bs : Fadas!Usable(b.at)
  <2> SUFFICES ASSUME NEW b \in x.arg.bs PROVE Fadas!Usable(b.at)
    OBVIOUS
  <2>1. b.at \in Addresses
    BY <1>1, <1>3, AddrsIs
  <2>2. x = t[1] /\ 1 \in 1 .. Len(t) /\ 1 .. 0 = {}
    BY <1>1, TailIs
  <2>3. srv.memMap[b.at] # NoEntry
    <3>1. Covered(srv, t)
      BY <1>7 DEF Holds
    <3>2. \A i \in 1 .. Len(t) : t[i].op = "run" =>
            \A c \in t[i].arg.bs :
              srv.memMap[c.at] # NoEntry \/ \E j \in 1 .. i - 1 : Enters(t[j], c.at)
      BY <3>1 DEF Covered
    <3>3. t[1].op = "run" /\ b \in t[1].arg.bs
      BY <2>2
    <3>4. srv.memMap[b.at] # NoEntry \/ \E j \in 1 .. 1 - 1 : Enters(t[j], b.at)
      BY <2>2, <3>2, <3>3
    <3> QED BY <3>4
  <2>4. /\ srv.memMap[b.at].memory = memory[b.at]
        /\ config.processor = "dsp" => b.at \in srv.mapped
        /\ config.processor # "dsp" =>
             \E r \in srv.regs : r.at = b.at /\ r.memory = memory[b.at] /\ r.part # "some"
    BY <2>1, <2>3 DEF NodesInv, Backed
  <2> QED BY <2>4 DEF Fadas!Usable
<1>9. (\E o \in ptrs[n] : o[2] \in Kinds(p)) /\ ptrs[n] \subseteq srv.objects
  BY <1>4, <1>5, <1>7 DEF Holds, Makes
<1>10. /\ Fadas!Objects(n, x.arg.on) # {}
       /\ Fadas!Objects(n, x.arg.on) \subseteq srv.objects
  BY <1>3, <1>9 DEF Fadas!Objects
<1> QED BY <1>6, <1>8, <1>10

EquippedInv == part = "fadas" => AllEquipped

LEMMA EquippedKept ==
  ASSUME NodesApart
  PROVE  ServicesSpec => []EquippedInv
<1>1. ServicesSpec => []FadasInv
  BY FadasInvKept
<1>2. ServicesInit => EquippedInv
  BY EquippedInit DEF ServicesInit, EquippedInv
<1>3. FadasInv /\ EquippedInv /\ [ServicesNext]_servicesVars => EquippedInv'
  <2> SUFFICES ASSUME FadasInv, EquippedInv, [ServicesNext]_servicesVars PROVE EquippedInv'
    OBVIOUS
  <2>0. CASE UNCHANGED <<part, config, state, todo, table, ptrs, srv>>
    BY <2>0 DEF EquippedInv, AllEquipped, Equipped, User, Server, P
  <2>1. CASE part = "fadas" /\ Fadas!Next /\ UNCHANGED part
    <3>1. NodesInv /\ AllEquipped
      BY <2>1 DEF FadasInv, EquippedInv
    <3>2. CASE \E n \in Nodes : Acts(n)
      BY <3>1, <3>2, EquippedNext DEF EquippedInv
    <3>3. CASE \E a \in Addresses, m \in Memory : Fadas!Replace(a, m)
      BY <2>0, <2>1, <3>3 DEF Fadas!Replace
    <3> QED BY <2>1, <3>1, <3>2, <3>3, NodesNext
  <2>2. CASE part # "fadas" /\ UNCHANGED part
    BY <2>2 DEF EquippedInv
  <2> QED BY <2>0, <2>1, <2>2 DEF ServicesNext, servicesVars, fadasVars, common
<1> QED BY <1>1, <1>2, <1>3, PTL DEF ServicesSpec

(***************************************************************************)
(* The engine works on what exists: whenever a FastADAS node has a run     *)
(* before it, the library is initialized, the buffers of the frame have    *)
(* entries of the memory that is there and are mapped or registered, and   *)
(* the workers, maps or the preprocessor of the node exist - for all       *)
(* configurations with IsApart: a remap node has an input (on the GPU with *)
(* tensors for its tables), and no node deregisters a buffer of the frames *)
(* or of the table of another (RemapImpl.cpp, VoxelizationImpl.cpp over    *)
(* FadasSrv::RegBuf, DeregBuf, Init and Deinit).                           *)
(***************************************************************************)
THEOREM RunsAreRegistered ==
  ASSUME NodesApart
  PROVE  ServicesSpec => []FadasRunsRegistered
<1>1. ServicesSpec => []FadasInv /\ []EquippedInv
  BY FadasInvKept, EquippedKept
<1>2. FadasInv /\ EquippedInv => FadasRunsRegistered
  BY EquippedRuns DEF FadasInv, EquippedInv, FadasRunsRegistered
<1> QED BY <1>1, <1>2, PTL
=============================================================================
