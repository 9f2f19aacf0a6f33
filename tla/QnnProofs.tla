------------------------------ MODULE QnnProofs ------------------------------
(***************************************************************************)
(* The QNN node, for all configurations: the tensors and the counts of     *)
(* mapped buffers, the ring of notify parameters, what a request in        *)
(* execution uses, and what is left of a node.                             *)
(***************************************************************************)
EXTENDS Qnn, FiniteSetTheorems, SequenceTheorems, TLAPS

-----------------------------------------------------------------------------
(* The inductive invariant, in parts *)

Params == 0 .. config.params - 1

Places == {"idle", "create", "register", "map", "memRegister", "deregister",
           "submit", "executing"}
Calls  == [pc : Places,
          todo : Seq(Tensors), keys : Seq(Tensors), seen : BOOLEAN,
          param : Params, failed : BOOLEAN]
Notifications == [pc : {"idle", "callback", "push", "advance", "entry"},
                  param : Params]
Requests == [param : Params, keys : SUBSET Tensors, profile : BOOLEAN]
Rings    == [ring : [Params -> Params], push : 0 .. config.modulus - 1,
             pop : 0 .. config.modulus - 1]
Loads    == {"SharedObject", "Binary"}
Graphs   == {"null", "copied", "composed", "unloaded"}

(* The types of the tables and of what the threads keep. *)
Typed ==
  /\ config \in Configs
  /\ state \in [Nodes -> {"INITIAL", "INITIALIZING", "READY", "RUNNING"}]
  /\ load \in [Nodes -> Loads]
  /\ handles \in [Nodes -> SUBSET Handles]
  /\ graphsInfo \in [Nodes -> Graphs]
  /\ powerIds \in [Nodes -> Seq(Nat)]
  /\ livePower \in [Nodes -> SUBSET Nat]
  /\ registered \in [Nodes -> SUBSET Tensors]
  /\ refs \in [config.buffers -> Nat]
  /\ mapped \subseteq config.buffers
  /\ queue \in [Nodes -> Rings]
  /\ lost \in [Nodes -> SUBSET Params]
  /\ executing \in [Nodes -> SUBSET Requests]
  /\ unanswered \in [Nodes -> 0 .. config.limit]
  /\ app \in [Nodes -> Calls]
  /\ cb \in [Nodes -> Notifications]
  /\ inits \in [Nodes -> Nat]
  /\ freedTwice \in BOOLEAN

(* Where the application's thread is, and what holds of the node there. *)
Registering(n) == app[n].pc \in {"register", "map", "memRegister"}

Controlled(n) ==
  /\ At(n, "idle") => app[n] = Idle
  /\ state[n] = "INITIAL" => At(n, "idle")
  /\ At(n, "create") => state[n] = "INITIALIZING"
  /\ Registering(n) => state[n] \in {"INITIALIZING", "RUNNING"}
  /\ At(n, "submit") => n \in config.async
  /\ At(n, "executing") => n \notin config.async
  /\ app[n].pc \in {"submit", "executing"} => state[n] = "RUNNING"
  /\ state[n] = "INITIALIZING" => At(n, "create") \/ Registering(n) \/ At(n, "deregister")
  /\ At(n, "deregister") =>
       IF app[n].failed THEN state[n] \in {"INITIALIZING", "READY"}
                        ELSE state[n] = "RUNNING"
  /\ state[n] \in {"INITIAL", "INITIALIZING"} => unanswered[n] = 0 /\ cb[n] = CbIdle
  /\ At(n, "deregister") => unanswered[n] = 0

(* Requests are executed for a thread that waits, or have no answer yet. *)
Answering(n) == IF cb[n].pc = "callback" THEN 1 ELSE 0
Awaited(n) ==
  IF n \in config.async
  THEN /\ IsFiniteSet(executing[n])
       /\ Cardinality(executing[n]) + Answering(n) <= unanswered[n]
       /\ (Registering(n) /\ state[n] = "RUNNING") \/ At(n, "submit") =>
            unanswered[n] < config.limit
  ELSE /\ executing[n] # {} => At(n, "executing")
       /\ cb[n] = CbIdle /\ unanswered[n] = 0

(* The tensor whose registration is under way. *)
Entering(n) ==
  app[n].pc \in InTables =>
    /\ app[n].todo # <<>>
    /\ Tensor(n) \notin registered[n]
    /\ config.serial /\ At(n, "map") =>
         (app[n].seen <=> Buffer(Tensor(n)) \in mapped)

(* The tensors of the request are registered or still to be registered. *)
Requesting(n) ==
  /\ Registering(n) /\ state[n] = "RUNNING" =>
       Range(app[n].keys) \subseteq registered[n] \union Range(app[n].todo)
  /\ app[n].pc \in {"submit", "executing"} => Range(app[n].keys) \subseteq registered[n]

Exclusive ==
  config.serial => \A n, m \in Nodes :
    app[n].pc \in InTables /\ app[m].pc \in InTables => n = m

Whole(ts) == \A t \in ts : Offset(t) = 0

WholeTensors == WholeBuffers => \A n \in Nodes :
  /\ Whole(registered[n])
  /\ Whole(Range(app[n].todo))

Needed(b) == Cardinality(Entries(b)) + Cardinality(Coming(b))
Counted(b) ==
  /\ IsFiniteSet(Entries(b))
  /\ b \in mapped <=> refs[b] > 0
  /\ Needed(b) <= refs[b]
  /\ WholeBuffers => refs[b] = Needed(b)

(* What QNN has of the node. *)
Uses == {"context", "backendHandle"}
Holding(n) ==
  /\ state[n] = "INITIAL" => handles[n] = {} /\ livePower[n] = {} /\ registered[n] = {}
  /\ At(n, "create") => handles[n] = {} /\ livePower[n] = {}
  /\ livePower[n] # {} => "perfInfra" \in handles[n]
  /\ livePower[n] \subseteq Range(powerIds[n])
  /\ state[n] \in {"READY", "RUNNING"} \/ Registering(n) => Uses \subseteq handles[n]

(* The requests in execution use what there is. *)
Served(n) ==
  /\ \A r \in executing[n] : r.keys \subseteq registered[n]
  /\ \A r \in executing[n] : r.profile => "profile" \in handles[n]

OneForm == \A x, y \in config.loads : x = y
Graph(n) ==
  /\ state[n] # "INITIAL" => load[n] \in config.loads
  /\ state[n] = "INITIAL" => graphsInfo[n] # "copied"
  /\ OneForm /\ "Binary" \in config.loads => graphsInfo[n] \in {"null", "copied"}
  /\ OneForm => ~freedTwice

(***************************************************************************)
(* The ring: P pushes and Q pops so far, of which the last push may not    *)
(* have its entry yet.                                                     *)
(***************************************************************************)
Entered(n, P)  == IF cb[n].pc = "entry" THEN P - 1 ELSE P
Entry(n, i)    == queue[n].ring[Slot(i)]
Waiting(n, P, Q) == { Entry(n, i) : i \in Q .. Entered(n, P) - 1 }
InHands(n) == { r.param : r \in executing[n] }
                \union (IF cb[n].pc # "idle" THEN {cb[n].param} ELSE {})
                \union (IF At(n, "submit") THEN {app[n].param} ELSE {})

RingAt(n, P, Q) ==
  /\ queue[n].push = P % config.modulus /\ queue[n].pop = Q % config.modulus
  /\ Q <= Entered(n, P) /\ P - Q <= config.params
  /\ \A i, j \in Q .. Entered(n, P) - 1 : Entry(n, i) = Entry(n, j) => i = j
  /\ cb[n].pc = "advance" => Entry(n, P) = cb[n].param
  /\ InHands(n) \union Waiting(n, P, Q) \union lost[n] = Params
  /\ InHands(n) \intersect Waiting(n, P, Q) = {}
  /\ lost[n] \intersect (InHands(n) \union Waiting(n, P, Q)) = {}

(* Each parameter in use is used once. *)
Distinct(n) ==
  /\ \A r, s \in executing[n] : r.param = s.param => r = s
  /\ cb[n].pc # "idle" => \A r \in executing[n] : r.param # cb[n].param
  /\ At(n, "submit") => \A r \in executing[n] : r.param # app[n].param
  /\ At(n, "submit") /\ cb[n].pc # "idle" => app[n].param # cb[n].param

Circulating(n) == Distinct(n) /\ \E P, Q \in Nat : RingAt(n, P, Q)

Ringed(n) ==
  /\ cb[n].pc = "entry" => ~config.ordered
  /\ n \in config.async /\ state[n] \in {"READY", "RUNNING"} => Circulating(n)
  /\ "Execute" \notin config.mayFail => lost[n] = {}

-----------------------------------------------------------------------------
(* The steps of one node, and what they leave alone *)

USE DEF node, tables, At, Goto, Return

Step(n) == \/ Initialize(n) \/ Register(n) \/ Process(n)
           \/ Notify(n) \/ Call(n) \/ Leave(n)

(* Only what belongs to n changes, and the tables of all nodes. *)
Frame(n) ==
  /\ config' = config
  /\ state' = [state EXCEPT ![n] = state'[n]]
  /\ load' = [load EXCEPT ![n] = load'[n]]
  /\ handles' = [handles EXCEPT ![n] = handles'[n]]
  /\ graphsInfo' = [graphsInfo EXCEPT ![n] = graphsInfo'[n]]
  /\ powerIds' = [powerIds EXCEPT ![n] = powerIds'[n]]
  /\ livePower' = [livePower EXCEPT ![n] = livePower'[n]]
  /\ registered' = [registered EXCEPT ![n] = registered'[n]]
  /\ queue' = [queue EXCEPT ![n] = queue'[n]]
  /\ lost' = [lost EXCEPT ![n] = lost'[n]]
  /\ executing' = [executing EXCEPT ![n] = executing'[n]]
  /\ unanswered' = [unanswered EXCEPT ![n] = unanswered'[n]]
  /\ app' = [app EXCEPT ![n] = app'[n]]
  /\ cb' = [cb EXCEPT ![n] = cb'[n]]
  /\ inits' = [inits EXCEPT ![n] = inits'[n]]

LEMMA InitializeFrame ==
  ASSUME Typed, NEW n \in Nodes, Initialize(n)
  PROVE  Frame(n)
<1>1. CASE Initialize_Begin(n)
  BY <1>1 DEF Typed, Frame, Initialize_Begin
<1>2. CASE Initialize_Create(n)
  <2>1. PICK k \in 0 .. Len(Creates(load[n])), ok \in BOOLEAN :
          LET created == Range(SubSeq(Creates(load[n]), 1, k))
          IN  /\ handles' = [handles EXCEPT ![n] = created \ {"graphsInfo"}]
              /\ graphsInfo' =
                   IF "graphsInfo" \in created
                   THEN [graphsInfo EXCEPT ![n] =
                           IF load[n] = "Binary" THEN "copied" ELSE "composed"]
                   ELSE graphsInfo
              /\ SetHtpPerformanceMode(n, created)
              /\ app' = [app EXCEPT ![n].pc = IF ok THEN "register" ELSE "deregister",
                                    ![n].failed = ~ok,
                                    ![n].todo = config.early[n]]
    BY <1>2 DEF Initialize_Create
  <2>2. /\ handles' = [handles EXCEPT ![n] = handles'[n]]
        /\ graphsInfo' = [graphsInfo EXCEPT ![n] = graphsInfo'[n]]
    BY <2>1 DEF Typed
  <2>3. /\ powerIds' = [powerIds EXCEPT ![n] = powerIds'[n]]
        /\ livePower' = [livePower EXCEPT ![n] = livePower'[n]]
    BY <2>1 DEF Typed, SetHtpPerformanceMode
  <2>4. app' = [app EXCEPT ![n] = app'[n]]
    BY <2>1 DEF Typed
  <2> QED
    BY <1>2, <2>2, <2>3, <2>4 DEF Typed, Frame, Initialize_Create
<1>3. CASE Initialize_End(n)
  BY <1>3 DEF Typed, Frame, Initialize_End
<1> QED
  BY <1>1, <1>2, <1>3 DEF Initialize

LEMMA StepFrame ==
  ASSUME Typed, NEW n \in Nodes, Step(n)
  PROVE  Frame(n)
<1>1. CASE Initialize(n)
  BY <1>1, InitializeFrame
<1>2. CASE Register(n)
  <2>1. CASE Register_Probe(n)
    BY <2>1 DEF Typed, Frame, Register_Probe
  <2>2. CASE Register_Map(n)
    BY <2>2 DEF Typed, Frame, Register_Map, RegisterFails
  <2>3. CASE Register_Mem(n)
    BY <2>3 DEF Typed, Frame, Register_Mem, RegisterFails
  <2> QED
    BY <1>2, <2>1, <2>2, <2>3 DEF Register
<1>3. CASE Process(n)
  <2>1. CASE Process_Begin(n) \/ ValidateTensor(n)
    BY <2>1 DEF Typed, Frame, Process_Begin, ValidateTensor
  <2>2. CASE Process_Execute(n) \/ Process_Executed(n)
    BY <2>2 DEF Typed, Frame, Process_Execute, Process_Executed
  <2>3. CASE Process_Pop(n)
    BY <2>3 DEF Typed, Frame, Process_Pop, Pop
  <2>4. CASE Process_Submit(n)
    BY <2>4 DEF Typed, Frame, Process_Submit
  <2> QED
    BY <1>3, <2>1, <2>2, <2>3, <2>4 DEF Process
<1>4. CASE Notify(n)
  <2>1. CASE Notify_Begin(n) \/ Notify_Callback(n)
    BY <2>1 DEF Typed, Frame, Notify_Begin, Notify_Callback
  <2>2. CASE Notify_Push(n)
    BY <2>2 DEF Typed, Frame, Notify_Push, PushEntry, PushAdvance
  <2>3. CASE Notify_Pushed(n)
    BY <2>3 DEF Typed, Frame, Notify_Pushed, PushAdvance
  <2> QED
    BY <1>4, <2>1, <2>2, <2>3 DEF Notify
<1>5. CASE Call(n)
  <2>1. CASE Start(n) \/ Stop(n) \/ DeInitialize(n)
    BY <2>1 DEF Typed, Frame, Start, Stop, DeInitialize
  <2>2. CASE EnablePerf(n) \/ DisablePerf(n)
    BY <2>2 DEF Typed, Frame, EnablePerf, DisablePerf
  <2> QED
    BY <1>5, <2>1, <2>2 DEF Call
<1>6. CASE Leave(n)
  <2>1. CASE DeRegister_One(n)
    BY <2>1 DEF Typed, Frame, DeRegister_One
  <2>2. CASE Destroy(n)
    BY <2>2 DEF Typed, Frame, Destroy, FreeGraphsInfo
  <2>3. CASE Stop_End(n)
    BY <2>3 DEF Typed, Frame, Stop_End
  <2> QED
    BY <1>6, <2>1, <2>2, <2>3 DEF Leave
<1> QED
  BY <1>1, <1>2, <1>3, <1>4, <1>5, <1>6 DEF Step

(* What another node has stays as it is. *)
LEMMA FrameOthers ==
  ASSUME Typed, NEW n \in Nodes, Frame(n), NEW m \in Nodes, m # n
  PROVE  /\ state'[m] = state[m] /\ load'[m] = load[m] /\ handles'[m] = handles[m]
         /\ graphsInfo'[m] = graphsInfo[m] /\ powerIds'[m] = powerIds[m]
         /\ livePower'[m] = livePower[m] /\ registered'[m] = registered[m]
         /\ queue'[m] = queue[m] /\ lost'[m] = lost[m]
         /\ executing'[m] = executing[m] /\ unanswered'[m] = unanswered[m]
         /\ app'[m] = app[m] /\ cb'[m] = cb[m] /\ inits'[m] = inits[m]
  BY DEF Typed, Frame

-----------------------------------------------------------------------------
(* The types *)

LEMMA ModRange ==
  ASSUME NEW x \in Int, NEW m \in Nat \ {0}
  PROVE  x % m \in 0 .. m - 1
  OBVIOUS

LEMMA ConfigFacts ==
  ASSUME config \in Configs
  PROVE  /\ config.params \in Nat \ {0} /\ config.modulus \in Nat \ {0}
         /\ config.limit \in Nat \ {0}
         /\ config.params < config.modulus /\ config.modulus % config.params = 0
         /\ IsFiniteSet(Nodes) /\ config.async \subseteq Nodes
         /\ config.loads \subseteq Loads
         /\ \A n \in Nodes : /\ config.early[n] \in Seq(Tensors)
                              /\ config.frames[n] \subseteq Seq(Tensors)
         /\ 0 \in Params
<1>1. IsConfig(config)
  BY QnnAssumption
<1>2. config.params \in Nat \ {0} /\ config.modulus \in Nat \ {0}
  BY <1>1 DEF IsConfig
<1>3. 0 \in Params
  BY <1>2 DEF Params
<1> QED
  BY <1>1, <1>2, <1>3 DEF IsConfig, Nodes, Tensors, Loads

(* A call in progress with one of its fields changed. *)
LEMMA CallIdle == ASSUME config \in Configs PROVE Idle \in Calls
  BY ConfigFacts DEF Idle, Calls, Places
LEMMA CallPc == \A c \in Calls, x \in Places : [c EXCEPT !.pc = x] \in Calls
  BY DEF Calls
LEMMA CallSequences ==
  \A c \in Calls : c.todo \in Seq(Tensors) /\ c.keys \in Seq(Tensors)
  BY DEF Calls
LEMMA CallLeaves ==
  \A c \in Calls : [c EXCEPT !.pc = "deregister", !.failed = TRUE] \in Calls
  BY DEF Calls, Places
LEMMA CallTodo == \A c \in Calls, x \in Seq(Tensors) : [c EXCEPT !.todo = x] \in Calls
  BY DEF Calls
LEMMA CallKeys == \A c \in Calls, x \in Seq(Tensors) : [c EXCEPT !.keys = x] \in Calls
  BY DEF Calls
LEMMA CallSeen == \A c \in Calls, x \in BOOLEAN : [c EXCEPT !.seen = x] \in Calls
  BY DEF Calls
LEMMA CallFailed == \A c \in Calls, x \in BOOLEAN : [c EXCEPT !.failed = x] \in Calls
  BY DEF Calls
LEMMA CallParam == \A c \in Calls, x \in Params : [c EXCEPT !.param = x] \in Calls
  BY DEF Calls

LEMMA NotificationTypes ==
  ASSUME config \in Configs
  PROVE  /\ CbIdle \in Notifications
         /\ \A c \in Notifications : c.param \in Params
         /\ \A x \in Params : [pc |-> "callback", param |-> x] \in Notifications
         /\ \A c \in Notifications, x \in {"push", "advance", "entry"} :
              [c EXCEPT !.pc = x] \in Notifications
  BY ConfigFacts DEF CbIdle, Notifications

LEMMA Next1Type ==
  ASSUME config \in Configs, NEW i \in Nat
  PROVE  Next1(i) \in 0 .. config.modulus - 1
<1>1. config.modulus \in Nat \ {0} /\ i + 1 \in Int
  BY ConfigFacts
<1> QED
  BY <1>1, ModRange DEF Next1

LEMMA SlotType ==
  ASSUME config \in Configs, NEW i \in Int
  PROVE  Slot(i) \in Params
<1>1. config.params \in Nat \ {0}
  BY ConfigFacts
<1> QED
  BY <1>1, ModRange DEF Slot, Params

LEMMA RingTypes ==
  ASSUME config \in Configs
  PROVE  /\ Full \in Rings
         /\ \A q \in Rings : q.push \in Nat /\ q.pop \in Nat
         /\ \A q \in Rings, i \in Int : q.ring[Slot(i)] \in Params
         /\ \A q \in Rings : [q EXCEPT !.push = Next1(@)] \in Rings
         /\ \A q \in Rings : [q EXCEPT !.pop = Next1(@)] \in Rings
         /\ \A q \in Rings, i \in Int, x \in Params :
              [q EXCEPT !.ring[Slot(i)] = x] \in Rings
<1>1. Full \in Rings
  <2>1. config.params % config.modulus \in 0 .. config.modulus - 1
    <3>1. config.params \in Int /\ config.modulus \in Nat \ {0}
      BY ConfigFacts
    <3> QED
      BY <3>1, ModRange
  <2>2. 0 \in 0 .. config.modulus - 1
    BY ConfigFacts
  <2>3. [i \in 0 .. config.params - 1 |-> i] \in [Params -> Params]
    BY DEF Params
  <2> QED
    BY <2>1, <2>2, <2>3 DEF Full, Rings
<1>2. ASSUME NEW q \in Rings
      PROVE  /\ q.push \in Nat /\ q.pop \in Nat
             /\ \A i \in Int : q.ring[Slot(i)] \in Params
             /\ [q EXCEPT !.push = Next1(@)] \in Rings
             /\ [q EXCEPT !.pop = Next1(@)] \in Rings
             /\ \A i \in Int, x \in Params :
                  [q EXCEPT !.ring[Slot(i)] = x] \in Rings
  <2>1. q.push \in Nat /\ q.pop \in Nat /\ q.ring \in [Params -> Params]
    BY ConfigFacts DEF Rings
  <2>2. Next1(q.push) \in 0 .. config.modulus - 1 /\ Next1(q.pop) \in 0 .. config.modulus - 1
    BY <2>1, Next1Type
  <2>3. \A i \in Int : q.ring[Slot(i)] \in Params
    BY <2>1, SlotType
  <2>4. \A x \in 0 .. config.modulus - 1 :
          [q EXCEPT !.push = x] \in Rings /\ [q EXCEPT !.pop = x] \in Rings
    BY DEF Rings
  <2>5. ASSUME NEW i \in Int, NEW x \in Params
        PROVE  [q EXCEPT !.ring[Slot(i)] = x] \in Rings
    <3>1. [q.ring EXCEPT ![Slot(i)] = x] \in [Params -> Params]
      BY <2>1
    <3> QED
      BY <3>1 DEF Rings
  <2> QED
    BY <2>1, <2>2, <2>3, <2>4, <2>5
<1> QED
  BY <1>1, <1>2

LEMMA AppTyped ==
  ASSUME Typed, NEW n \in Nodes, Entering(n), Step(n)
  PROVE  app'[n] \in Calls
<1> USE CallIdle, CallPc DEF Places
<1>1. config \in Configs /\ app \in [Nodes -> Calls] /\ app[n] \in Calls
  BY DEF Typed
<1>2. app[n].todo # <<>> => Tail(app[n].todo) \in Seq(Tensors)
  BY <1>1, CallSequences, HeadTailProperties
<1>3. CASE Initialize_Begin(n)
  BY <1>1, <1>3 DEF Initialize_Begin
<1>4. CASE Initialize_Create(n)
  <2>1. PICK ok \in BOOLEAN :
          app' = [app EXCEPT ![n].pc = IF ok THEN "register" ELSE "deregister",
                             ![n].failed = ~ok,
                             ![n].todo = config.early[n]]
    BY <1>4 DEF Initialize_Create
  <2> DEFINE a == [app[n] EXCEPT !.pc = IF ok THEN "register" ELSE "deregister"]
             b == [a EXCEPT !.failed = ~ok]
             c == [b EXCEPT !.todo = config.early[n]]
  <2>2. a \in Calls
    BY <1>1
  <2>3. b \in Calls
    BY <2>2, CallFailed
  <2>4. c \in Calls
    BY <1>1, <2>3, ConfigFacts, CallTodo
  <2>5. app'[n] = c
    BY <1>1, <2>1
  <2> QED
    BY <2>4, <2>5
<1>5. CASE Initialize_End(n)
  <2>1. \/ app' = [app EXCEPT ![n] = Idle]
        \/ app' = [app EXCEPT ![n].pc = "deregister", ![n].failed = TRUE]
    BY <1>5 DEF Initialize_End
  <2>2. \/ app'[n] = Idle
        \/ app'[n] = [app[n] EXCEPT !.pc = "deregister", !.failed = TRUE]
    BY <1>1, <2>1
  <2> QED
    BY <1>1, <2>2, CallLeaves
<1>6. CASE Register_Probe(n)
  <2>1. app[n].todo # <<>>
    BY <1>6 DEF Register_Probe
  <2>2. \/ app' = [app EXCEPT ![n].todo = Tail(@)]
        \/ app' = [app EXCEPT ![n].pc = "map",
                              ![n].seen = Buffer(Tensor(n)) \in mapped]
    BY <1>6 DEF Register_Probe
  <2>3. CASE app' = [app EXCEPT ![n].todo = Tail(@)]
    <3>1. app'[n] = [app[n] EXCEPT !.todo = Tail(@)]
      BY <1>1, <2>3
    <3> QED
      BY <1>1, <1>2, <2>1, <3>1, CallTodo
  <2>4. CASE app' = [app EXCEPT ![n].pc = "map",
                              ![n].seen = Buffer(Tensor(n)) \in mapped]
    <3> DEFINE a == [app[n] EXCEPT !.pc = "map"]
               x == Buffer(Tensor(n)) \in mapped
    <3>1. a \in Calls
      BY <1>1
    <3>2. x \in BOOLEAN
      OBVIOUS
    <3>3. app' = [app EXCEPT ![n].pc = "map", ![n].seen = x]
      BY <2>4
    <3> HIDE DEF x
    <3>4. app'[n] = [a EXCEPT !.seen = x]
      BY <1>1, <3>3
    <3> HIDE DEF a
    <3> QED
      BY <3>1, <3>2, <3>4, CallSeen
  <2> QED
    BY <2>2, <2>3, <2>4
<1>7. ASSUME RegisterFails(n)
      PROVE  app'[n] \in Calls
  <2>1. \/ app' = [app EXCEPT ![n] = Idle]
        \/ app' = [app EXCEPT ![n] =
                     [Idle EXCEPT !.pc = "deregister", !.failed = TRUE]]
    BY <1>7 DEF RegisterFails
  <2> QED
    BY <1>1, <2>1, CallLeaves
<1>8. CASE Register_Map(n)
  <2>1. app' = [app EXCEPT ![n].pc = "memRegister"] \/ RegisterFails(n)
    BY <1>8 DEF Register_Map
  <2> QED
    BY <1>1, <1>7, <2>1
<1>9. CASE Register_Mem(n)
  <2>1. \/ app' = [app EXCEPT ![n].pc = "register", ![n].todo = Tail(@)]
        \/ RegisterFails(n)
    BY <1>9 DEF Register_Mem
  <2>2. CASE app' = [app EXCEPT ![n].pc = "register", ![n].todo = Tail(@)]
    <3> DEFINE a == [app[n] EXCEPT !.pc = "register"]
    <3>1. a \in Calls
      BY <1>1
    <3>2. app[n].todo # <<>>
      BY <1>9 DEF Register_Mem, Entering, InTables
    <3>3. app'[n] = [a EXCEPT !.todo = Tail(app[n].todo)]
      BY <1>1, <2>2 DEF Calls
    <3>4. Tail(app[n].todo) \in Seq(Tensors)
      BY <1>2, <3>2
    <3> HIDE DEF a
    <3> QED
      BY <3>1, <3>3, <3>4, CallTodo
  <2> QED
    BY <2>1, <2>2, <1>7
<1>10. CASE Process_Begin(n)
  <2>1. PICK f \in config.frames[n] :
          app' = [app EXCEPT ![n] = [Idle EXCEPT !.pc = "register", !.todo = f,
                                                 !.keys = f]]
    BY <1>10 DEF Process_Begin
  <2> DEFINE a == [Idle EXCEPT !.pc = "register"]
             b == [a EXCEPT !.todo = f]
             c == [b EXCEPT !.keys = f]
  <2>2. a \in Calls /\ f \in Seq(Tensors)
    BY <1>1, ConfigFacts
  <2>3. b \in Calls
    BY <2>2, CallTodo
  <2>4. c \in Calls
    BY <2>2, <2>3, CallKeys
  <2> QED
    BY <1>1, <2>1, <2>4
<1>11. CASE ValidateTensor(n) \/ Process_Execute(n) \/ Process_Executed(n)
  BY <1>1, <1>11 DEF ValidateTensor, Process_Execute, Process_Executed
<1>12. CASE Process_Pop(n)
  <2> DEFINE a == [app[n] EXCEPT !.pc = "submit"]
             p == queue[n].ring[Slot(queue[n].pop)]
  <2>1. \/ app' = [app EXCEPT ![n] = Idle]
        \/ app' = [app EXCEPT ![n].pc = "submit", ![n].param = p]
    BY <1>12 DEF Process_Pop
  <2>2. p \in Params
    <3>1. queue[n] \in Rings
      BY DEF Typed
    <3>2. queue[n].pop \in Int
      BY <1>1, <3>1, RingTypes
    <3> QED
      BY <1>1, <3>1, <3>2, RingTypes
  <2>3. a \in Calls
    BY <1>1
  <2>4. [a EXCEPT !.param = p] \in Calls
    BY <2>2, <2>3, CallParam
  <2>5. \/ app'[n] = Idle
        \/ app'[n] = [a EXCEPT !.param = p]
    BY <1>1, <2>1
  <2> HIDE DEF a, p
  <2> QED
    BY <1>1, <2>4, <2>5
<1>13. CASE Process_Submit(n)
  BY <1>1, <1>13 DEF Process_Submit
<1>14. CASE Notify(n)
  BY <1>1, <1>14 DEF Notify, Notify_Begin, Notify_Callback, Notify_Push, Notify_Pushed
<1>15. CASE Start(n) \/ EnablePerf(n) \/ DisablePerf(n)
  BY <1>1, <1>15 DEF Start, EnablePerf, DisablePerf
<1>16. CASE Stop(n)
  BY <1>1, <1>16 DEF Stop
<1>17. CASE DeInitialize(n)
  <2>1. app'[n] = [app[n] EXCEPT !.pc = "deregister", !.failed = TRUE]
    BY <1>1, <1>17 DEF DeInitialize
  <2> QED
    BY <1>1, <2>1, CallLeaves
<1>18. CASE Leave(n)
  BY <1>1, <1>18 DEF Leave, DeRegister_One, Destroy, Stop_End
<1> QED
  BY <1>3, <1>4, <1>5, <1>6, <1>8, <1>9, <1>10, <1>11, <1>12, <1>13, <1>14, <1>15,
     <1>16, <1>17, <1>18 DEF Step, Initialize, Register, Process, Call

LEMMA NotificationTyped ==
  ASSUME Typed, NEW n \in Nodes, Step(n)
  PROVE  cb'[n] \in Notifications
<1>1. /\ config \in Configs /\ cb \in [Nodes -> Notifications] /\ cb[n] \in Notifications
      /\ executing[n] \subseteq Requests
  BY DEF Typed
<1>2. CASE Notify_Begin(n)
  <2>1. PICK r \in executing[n] :
          cb' = [cb EXCEPT ![n] = [pc |-> "callback", param |-> r.param]]
    BY <1>2 DEF Notify_Begin
  <2>2. r.param \in Params
    BY <1>1 DEF Requests
  <2> QED
    BY <1>1, <2>1, <2>2, NotificationTypes
<1>3. CASE Notify_Callback(n) \/ Notify_Push(n) \/ Notify_Pushed(n)
  <2>1. \/ cb'[n] = CbIdle
        \/ \E x \in {"push", "advance", "entry"} : cb'[n] = [cb[n] EXCEPT !.pc = x]
    BY <1>1, <1>3 DEF Notify_Callback, Notify_Push, Notify_Pushed
  <2> QED
    BY <1>1, <2>1, NotificationTypes
<1>4. CASE Initialize(n) \/ Register(n)
  BY <1>1, <1>4 DEF Initialize, Register, Initialize_Begin, Initialize_Create,
     Initialize_End, Register_Probe, Register_Map, Register_Mem
<1>5. CASE Process(n)
  BY <1>1, <1>5 DEF Process, Process_Begin, ValidateTensor, Process_Execute,
     Process_Executed, Process_Pop, Process_Submit
<1>6. CASE Call(n) \/ Leave(n)
  BY <1>1, <1>6 DEF Call, Leave, Start, Stop, DeInitialize, EnablePerf, DisablePerf,
     DeRegister_One, Destroy, Stop_End
<1> QED
  BY <1>2, <1>3, <1>4, <1>5, <1>6 DEF Step, Notify

LEMMA QueueTyped ==
  ASSUME Typed, NEW n \in Nodes, Step(n)
  PROVE  queue'[n] \in Rings
<1>1. /\ config \in Configs /\ queue \in [Nodes -> Rings] /\ queue[n] \in Rings
      /\ cb[n] \in Notifications
  BY DEF Typed
<1>2. /\ Full \in Rings /\ [queue[n] EXCEPT !.push = Next1(@)] \in Rings
      /\ [queue[n] EXCEPT !.pop = Next1(@)] \in Rings
  BY <1>1, RingTypes
<1>3. ASSUME NEW i \in Int
      PROVE  [queue[n] EXCEPT !.ring[Slot(i)] = cb[n].param] \in Rings
  BY <1>1, RingTypes, NotificationTypes
<1>4. CASE Initialize_End(n)
  BY <1>1, <1>2, <1>4 DEF Initialize_End
<1>5. CASE Process_Pop(n)
  BY <1>1, <1>2, <1>5 DEF Process_Pop, Pop
<1>6. CASE Notify_Push(n)
  <2>1. queue[n].push \in Int
    BY <1>1, RingTypes
  <2> QED
    BY <1>1, <1>2, <1>3, <1>6, <2>1 DEF Notify_Push, PushEntry, PushAdvance
<1>7. CASE Notify_Pushed(n)
  <2>1. (queue[n].push - 1) % config.modulus \in Int
    <3>1. queue[n].push - 1 \in Int /\ config.modulus \in Nat \ {0}
      BY <1>1, RingTypes, ConfigFacts
    <3> QED
      BY <3>1, ModRange
  <2> QED
    BY <1>1, <1>2, <1>3, <1>7, <2>1 DEF Notify_Pushed, PushAdvance
<1>8. CASE Initialize_Begin(n) \/ Initialize_Create(n) \/ Register(n)
  BY <1>1, <1>8 DEF Register, Initialize_Begin, Initialize_Create, Register_Probe,
     Register_Map, Register_Mem
<1>9. CASE \/ Process_Begin(n) \/ ValidateTensor(n) \/ Process_Execute(n)
           \/ Process_Executed(n) \/ Process_Submit(n)
  BY <1>1, <1>9 DEF Process_Begin, ValidateTensor, Process_Execute, Process_Executed,
     Process_Submit
<1>10. CASE Notify_Begin(n) \/ Notify_Callback(n) \/ Call(n) \/ Leave(n)
  BY <1>1, <1>10 DEF Call, Leave, Start, Stop, DeInitialize, EnablePerf, DisablePerf,
     DeRegister_One, Destroy, Stop_End, Notify_Begin, Notify_Callback
<1> QED
  BY <1>4, <1>5, <1>6, <1>7, <1>8, <1>9, <1>10
  DEF Step, Notify, Initialize, Process

(* What Initialize creates, in any form of the model. *)
Created == Handles \union {"graphsInfo"}

LEMMA Concatenated ==
  \A s, t \in Seq(Created) : /\ s \o t \in Seq(Created)
                              /\ Range(s \o t) = Range(s) \union Range(t)
  BY ConcatProperties, RangeConcatenation

LEMMA CreatesTyped ==
  ASSUME NEW form
  PROVE  /\ Creates(form) \in Seq(Created)
         /\ Uses \subseteq Range(Creates(form))
         /\ \A k \in 0 .. Len(Creates(form)) :
              Range(SubSeq(Creates(form), 1, k)) \subseteq Created
<1> DEFINE last == IF form = "Binary" THEN CreateFromBinaryBuffer ELSE CreateFromModelSo
           own  == <<"systemContext", "backendHandle">>
           head == GetQnnFunctionPointers \o <<"log">> \o GetQnnSystemFunctionPointers
<1>1. /\ GetQnnFunctionPointers \in Seq(Created) /\ <<"log">> \in Seq(Created)
      /\ GetQnnSystemFunctionPointers \in Seq(Created) /\ own \in Seq(Created)
      /\ CreateDevice \in Seq(Created) /\ SetPerformanceMode \in Seq(Created)
      /\ last \in Seq(Created)
  <2>1. \A x, y \in Created : <<x>> \in Seq(Created) /\ <<x, y>> \in Seq(Created)
    OBVIOUS
  <2>2. <<>> \in Seq(Created)
    OBVIOUS
  <2>3. Handles \subseteq Created /\ "graphsInfo" \in Created
    BY DEF Created
  <2>4. {"backend", "log", "system", "systemContext", "backendHandle", "platformInfo",
         "device", "perfInfra", "context", "graphsInfo"} \subseteq Created
    BY <2>3 DEF Handles
  <2>5. <<"log">> \in Seq(Created) /\ own \in Seq(Created)
    BY <2>1, <2>4
  <2>6. /\ GetQnnFunctionPointers \in Seq(Created) /\ CreateDevice \in Seq(Created)
        /\ GetQnnSystemFunctionPointers \in Seq(Created)
    BY <2>1, <2>4 DEF GetQnnFunctionPointers, GetQnnSystemFunctionPointers, CreateDevice
  <2>7. SetPerformanceMode \in Seq(Created) /\ last \in Seq(Created)
    BY <2>1, <2>2, <2>4
    DEF SetPerformanceMode, CreateFromModelSo, CreateFromBinaryBuffer
  <2> QED
    BY <2>5, <2>6, <2>7
<1>2. "backendHandle" \in Range(own) /\ "context" \in Range(last)
  <2>1. own[2] = "backendHandle" /\ 2 \in DOMAIN own
    OBVIOUS
  <2>2. CreateFromBinaryBuffer[2] = "context" /\ 2 \in DOMAIN CreateFromBinaryBuffer
    BY DEF CreateFromBinaryBuffer
  <2>3. CreateFromModelSo[1] = "context" /\ 1 \in DOMAIN CreateFromModelSo
    BY DEF CreateFromModelSo
  <2> QED
    BY <2>1, <2>2, <2>3 DEF Range
<1> HIDE DEF last, own
<1>3. head \in Seq(Created)
  BY <1>1, Concatenated
<1> HIDE DEF head
<1> DEFINE most == (head \o own) \o CreateDevice
<1>4. most \in Seq(Created) /\ Range(own) \subseteq Range(most)
  BY <1>1, <1>3, Concatenated
<1> HIDE DEF most
<1>5. /\ (most \o SetPerformanceMode) \o last \in Seq(Created)
      /\ Range(most) \subseteq Range((most \o SetPerformanceMode) \o last)
      /\ Range(last) \subseteq Range((most \o SetPerformanceMode) \o last)
  <2> DEFINE m == most \o SetPerformanceMode
  <2>1. m \in Seq(Created) /\ Range(most) \subseteq Range(m)
    BY <1>1, <1>4, Concatenated
  <2> HIDE DEF m
  <2>2. /\ m \o last \in Seq(Created)
        /\ Range(m \o last) = Range(m) \union Range(last)
    BY <1>1, <2>1, Concatenated
  <2> QED
    BY <2>1, <2>2 DEF m
<1>6. Creates(form) = (most \o SetPerformanceMode) \o last
  BY DEF Creates, head, own, last, most
<1>7. Creates(form) \in Seq(Created)
  BY <1>5, <1>6
<1>8. Uses \subseteq Range(Creates(form))
  BY <1>2, <1>4, <1>5, <1>6 DEF Uses
<1>9. ASSUME NEW k \in 0 .. Len(Creates(form))
      PROVE  Range(SubSeq(Creates(form), 1, k)) \subseteq Created
  <2>1. \A i \in 1 .. k : Creates(form)[i] \in Created
    BY <1>7, ElementOfSeq, LenProperties
  <2>2. SubSeq(Creates(form), 1, k) \in Seq(Created)
    BY <2>1, SubSeqProperties
  <2> QED
    BY <2>2, RangeOfSeq
<1> QED
  BY <1>7, <1>8, <1>9

ObjectsTyped(n) ==
  /\ state'[n] \in {"INITIAL", "INITIALIZING", "READY", "RUNNING"}
  /\ load'[n] \in Loads
  /\ handles'[n] \in SUBSET Handles
  /\ graphsInfo'[n] \in Graphs
  /\ powerIds'[n] \in Seq(Nat)
  /\ livePower'[n] \in SUBSET Nat
  /\ inits'[n] \in Nat
  /\ freedTwice' \in BOOLEAN

LEMMA StepObjects ==
  ASSUME Typed, NEW n \in Nodes, Step(n)
  PROVE  ObjectsTyped(n)
<1>1. /\ state[n] \in {"INITIAL", "INITIALIZING", "READY", "RUNNING"}
      /\ load[n] \in Loads /\ handles[n] \subseteq Handles /\ graphsInfo[n] \in Graphs
      /\ powerIds[n] \in Seq(Nat) /\ livePower[n] \subseteq Nat /\ inits[n] \in Nat
      /\ freedTwice \in BOOLEAN
  BY DEF Typed
<1>2. CASE Initialize_Begin(n)
  <2>1. load'[n] \in Loads
    BY <1>2, ConfigFacts DEF Typed, Initialize_Begin
  <2> QED
    BY <1>1, <1>2, <2>1 DEF Typed, ObjectsTyped, Initialize_Begin
<1>3. CASE Initialize_Create(n)
  <2>1. PICK k \in 0 .. Len(Creates(load[n])), ok \in BOOLEAN :
          LET created == Range(SubSeq(Creates(load[n]), 1, k))
          IN  /\ handles' = [handles EXCEPT ![n] = created \ {"graphsInfo"}]
              /\ graphsInfo' =
                   IF "graphsInfo" \in created
                   THEN [graphsInfo EXCEPT ![n] =
                           IF load[n] = "Binary" THEN "copied" ELSE "composed"]
                   ELSE graphsInfo
              /\ SetHtpPerformanceMode(n, created)
    BY <1>3 DEF Initialize_Create
  <2> DEFINE created == Range(SubSeq(Creates(load[n]), 1, k))
  <2>2. created \subseteq Created
    BY CreatesTyped
  <2>3. handles'[n] \subseteq Handles
    BY <2>1, <2>2 DEF Typed, Created
  <2>4. graphsInfo'[n] \in Graphs
    BY <1>1, <2>1 DEF Typed, Graphs
  <2>5. powerIds'[n] \in Seq(Nat) /\ livePower'[n] \subseteq Nat
    <3>1. Append(powerIds[n], inits[n]) \in Seq(Nat)
      BY <1>1, AppendProperties
    <3>2. \/ /\ powerIds' = [powerIds EXCEPT ![n] = Append(@, inits[n])]
             /\ livePower' = [livePower EXCEPT ![n] = @ \union {inits[n]}]
          \/ UNCHANGED <<powerIds, livePower>>
      BY <2>1 DEF SetHtpPerformanceMode, NewPowerId
    <3>3. powerIds'[n] \in Seq(Nat)
      BY <1>1, <3>1, <3>2 DEF Typed
    <3>4. livePower'[n] \subseteq Nat
      BY <1>1, <3>2 DEF Typed
    <3> QED
      BY <3>3, <3>4
  <2>6. UNCHANGED <<state, load, inits, freedTwice>>
    BY <1>3 DEF Initialize_Create
  <2> QED
    BY <1>1, <2>3, <2>4, <2>5, <2>6 DEF ObjectsTyped
<1>4. CASE Initialize_End(n)
  BY <1>1, <1>4 DEF Typed, ObjectsTyped, Initialize_End
<1>5. CASE Destroy(n)
  <2>1. handles'[n] \subseteq Handles /\ livePower'[n] \subseteq Nat
    BY <1>1, <1>5 DEF Typed, Destroy, Released
  <2>2. graphsInfo'[n] \in Graphs /\ freedTwice' \in BOOLEAN
    BY <1>1, <1>5 DEF Typed, Destroy, FreeGraphsInfo, Graphs
  <2> QED
    BY <1>1, <1>5, <2>1, <2>2 DEF Typed, ObjectsTyped, Destroy
<1>6. CASE Stop_End(n) \/ Start(n)
  BY <1>1, <1>6 DEF Typed, ObjectsTyped, Stop_End, Start
<1>7. CASE Stop(n)
  BY <1>1, <1>7 DEF Typed, ObjectsTyped, Stop
<1>8. CASE EnablePerf(n) \/ DisablePerf(n)
  BY <1>1, <1>8 DEF Typed, ObjectsTyped, EnablePerf, DisablePerf, Handles
<1>9. CASE UNCHANGED <<node, inits, freedTwice>>
  BY <1>1, <1>9 DEF ObjectsTyped
<1>10. CASE Register(n) \/ Notify(n) \/ DeInitialize(n) \/ DeRegister_One(n)
  BY <1>9, <1>10 DEF Register, Notify, DeInitialize, DeRegister_One, Register_Probe,
     Register_Map, Register_Mem, Notify_Begin, Notify_Callback, Notify_Push,
     Notify_Pushed
<1>11. CASE Process(n)
  BY <1>9, <1>11 DEF Process, Process_Begin, ValidateTensor, Process_Execute,
     Process_Executed, Process_Pop, Process_Submit
<1> QED
  BY <1>2, <1>3, <1>4, <1>5, <1>6, <1>7, <1>8, <1>10, <1>11
  DEF Step, Initialize, Call, Leave

TablesTyped(n) ==
  /\ registered'[n] \in SUBSET Tensors
  /\ refs' \in [config.buffers -> Nat]
  /\ mapped' \subseteq config.buffers

(* The tensor that is being registered is one of the node's. *)
LEMMA TensorType ==
  ASSUME Typed, NEW n \in Nodes, app[n].todo # <<>>
  PROVE  Tensor(n) \in Tensors /\ Buffer(Tensor(n)) \in config.buffers
<1>1. app[n] \in Calls
  BY DEF Typed
<1>2. Tensor(n) \in Tensors
  BY <1>1, CallSequences, HeadTailProperties DEF Tensor
<1> QED
  BY <1>2 DEF Tensors, Buffer

LEMMA DeRegisterTyped ==
  ASSUME Typed, NEW b \in config.buffers, RemoteDeRegisterBuf(b)
  PROVE  refs' \in [config.buffers -> Nat] /\ mapped' \subseteq config.buffers
  BY DEF Typed, RemoteDeRegisterBuf

LEMMA StepTables ==
  ASSUME Typed, NEW n \in Nodes, Entering(n), Step(n)
  PROVE  TablesTyped(n)
<1>1. /\ registered[n] \subseteq Tensors /\ refs \in [config.buffers -> Nat]
      /\ mapped \subseteq config.buffers
  BY DEF Typed
<1>2. CASE Register_Map(n)
  <2>1. Buffer(Tensor(n)) \in config.buffers
    BY <1>2, TensorType DEF Register_Map, Entering, InTables
  <2> QED
    BY <1>1, <1>2, <2>1 DEF TablesTyped, Register_Map, AddReference
<1>3. CASE Register_Mem(n)
  <2>1. Tensor(n) \in Tensors /\ Buffer(Tensor(n)) \in config.buffers
    BY <1>3, TensorType DEF Register_Mem, Entering, InTables
  <2>2. CASE RemoteDeRegisterBuf(Buffer(Tensor(n))) /\ UNCHANGED registered
    BY <1>1, <2>1, <2>2, DeRegisterTyped DEF TablesTyped
  <2>3. CASE /\ registered' = [registered EXCEPT ![n] = @ \union {Tensor(n)}]
             /\ UNCHANGED <<refs, mapped>>
    BY <1>1, <2>1, <2>3 DEF Typed, TablesTyped
  <2> QED
    BY <1>3, <2>2, <2>3 DEF Register_Mem
<1>4. CASE DeRegister_One(n)
  <2>1. PICK t \in registered[n] :
          /\ registered' = [registered EXCEPT ![n] = @ \ {t}]
          /\ RemoteDeRegisterBuf(Buffer(t)) \/ UNCHANGED <<refs, mapped>>
    BY <1>4 DEF DeRegister_One
  <2>2. Buffer(t) \in config.buffers
    BY <1>1 DEF Tensors, Buffer
  <2>3. refs' \in [config.buffers -> Nat] /\ mapped' \subseteq config.buffers
    BY <1>1, <2>1, <2>2, DeRegisterTyped
  <2> QED
    BY <1>1, <2>1, <2>3 DEF Typed, TablesTyped
<1>5. CASE UNCHANGED tables
  BY <1>1, <1>5 DEF TablesTyped
<1>6. CASE Initialize(n) \/ Register_Probe(n) \/ Notify(n)
  BY <1>5, <1>6 DEF Initialize, Notify, Initialize_Begin, Initialize_Create,
     Initialize_End, Register_Probe, Notify_Begin, Notify_Callback, Notify_Push,
     Notify_Pushed
<1>7. CASE Process(n)
  BY <1>5, <1>7 DEF Process, Process_Begin, ValidateTensor, Process_Execute,
     Process_Executed, Process_Pop, Process_Submit
<1>8. CASE Call(n) \/ Destroy(n) \/ Stop_End(n)
  BY <1>5, <1>8 DEF Call, Start, Stop, DeInitialize, EnablePerf, DisablePerf, Destroy,
     Stop_End
<1> QED
  BY <1>2, <1>3, <1>4, <1>6, <1>7, <1>8 DEF Step, Register, Leave

RequestsTyped(n) == executing'[n] \in SUBSET Requests /\ lost'[n] \in SUBSET Params

LEMMA RequestType ==
  ASSUME Typed, NEW n \in Nodes, NEW p \in Params
  PROVE  Request(n, p) \in Requests
<1>1. Range(app[n].keys) \subseteq Tensors
  <2>1. app[n] \in Calls
    BY DEF Typed
  <2> QED
    BY <2>1, CallSequences, RangeOfSeq
<1> QED
  BY <1>1 DEF Request, Requests

LEMMA StepRequests ==
  ASSUME Typed, NEW n \in Nodes, Step(n)
  PROVE  RequestsTyped(n)
<1>1. executing[n] \subseteq Requests /\ lost[n] \subseteq Params
  BY DEF Typed
<1>2. CASE Process_Execute(n)
  <2>1. Request(n, 0) \in Requests
    BY ConfigFacts, RequestType DEF Typed
  <2> QED
    BY <1>1, <1>2, <2>1 DEF Typed, RequestsTyped, Process_Execute
<1>3. CASE Process_Submit(n)
  <2>1. app[n].param \in Params
    BY DEF Typed, Calls
  <2>2. Request(n, app[n].param) \in Requests
    BY <2>1, RequestType
  <2> QED
    BY <1>1, <1>3, <2>1, <2>2 DEF Typed, RequestsTyped, Process_Submit
<1>4. CASE Initialize_End(n) \/ Process_Executed(n) \/ Notify_Begin(n) \/ Destroy(n)
  BY <1>1, <1>4
  DEF Typed, RequestsTyped, Initialize_End, Process_Executed, Notify_Begin, Destroy
<1>5. CASE UNCHANGED <<lost, executing>>
  BY <1>1, <1>5 DEF RequestsTyped
<1>6. CASE Initialize_Begin(n) \/ Initialize_Create(n) \/ Register(n)
  BY <1>5, <1>6 DEF Register, Initialize_Begin, Initialize_Create, Register_Probe,
     Register_Map, Register_Mem
<1>7. CASE Process_Begin(n) \/ ValidateTensor(n) \/ Process_Pop(n)
  BY <1>5, <1>7 DEF Process_Begin, ValidateTensor, Process_Pop
<1>8. CASE Notify_Callback(n) \/ Notify_Push(n) \/ Notify_Pushed(n)
  BY <1>5, <1>8 DEF Notify_Callback, Notify_Push, Notify_Pushed
<1>9. CASE Call(n) \/ DeRegister_One(n) \/ Stop_End(n)
  BY <1>5, <1>9 DEF Call, Start, Stop, DeInitialize, EnablePerf, DisablePerf,
     DeRegister_One, Stop_End
<1> QED
  BY <1>2, <1>3, <1>4, <1>6, <1>7, <1>8, <1>9
  DEF Step, Initialize, Process, Notify, Leave

-----------------------------------------------------------------------------
(* Control: where a call is, and how many answers are awaited *)

(* A notification takes one of the requests in execution. *)
LEMMA RequestTaken ==
  ASSUME NEW S, IsFiniteSet(S), NEW r \in S
  PROVE  /\ IsFiniteSet(S \ {r}) /\ Cardinality(S) \in Nat \ {0}
         /\ Cardinality(S \ {r}) = Cardinality(S) - 1
<1>1. /\ IsFiniteSet(S \ {r}) /\ Cardinality(S) \in Nat
      /\ Cardinality(S \ {r}) \in Nat /\ Cardinality(S \ {r}) = Cardinality(S) - 1
  BY FS_RemoveElement, FS_CardinalityType
<1> QED
  BY <1>1

(* The call in progress after the steps that change several of its fields. *)
LEMMA ProbeMoves ==
  ASSUME Typed, NEW n \in Nodes, Register_Probe(n)
  PROVE  /\ app'[n].keys = app[n].keys
         /\ \/ /\ Tensor(n) \in registered[n]
               /\ app'[n].pc = "register" /\ app'[n].todo = Tail(app[n].todo)
            \/ /\ Tensor(n) \notin registered[n] /\ MayEnter(n)
               /\ app'[n].pc = "map" /\ app'[n].todo = app[n].todo
               /\ app'[n].seen <=> Buffer(Tensor(n)) \in mapped
<1>1. app \in [Nodes -> Calls] /\ app[n] \in Calls
  BY DEF Typed
<1>2. CASE Tensor(n) \in registered[n]
  <2>1. app[n].pc = "register" /\ app'[n] = [app[n] EXCEPT !.todo = Tail(@)]
    BY <1>1, <1>2 DEF Register_Probe
  <2> QED
    BY <1>1, <1>2, <2>1 DEF Calls
<1>3. CASE Tensor(n) \notin registered[n]
  <2> DEFINE x == Buffer(Tensor(n)) \in mapped
  <2>1. MayEnter(n) /\ app' = [app EXCEPT ![n].pc = "map", ![n].seen = x]
    BY <1>3 DEF Register_Probe
  <2> HIDE DEF x
  <2>2. app'[n] = [app[n] EXCEPT !.pc = "map", !.seen = x]
    BY <1>1, <2>1
  <2>3. app'[n].pc = "map" /\ app'[n].todo = app[n].todo /\ app'[n].keys = app[n].keys
    BY <1>1, <2>2 DEF Calls
  <2>4. app'[n].seen = x
    BY <1>1, <2>2 DEF Calls
  <2> QED
    BY <1>3, <2>1, <2>3, <2>4 DEF x
<1> QED
  BY <1>2, <1>3

LEMMA FailMoves ==
  ASSUME Typed, NEW n \in Nodes, RegisterFails(n)
  PROVE  /\ app'[n].todo = <<>> /\ app'[n].keys = <<>>
         /\ IF state[n] = "INITIALIZING"
            THEN app'[n].pc = "deregister" /\ app'[n].failed
            ELSE app'[n] = Idle
<1>1. app \in [Nodes -> Calls]
  BY DEF Typed
<1>2. CASE state[n] = "INITIALIZING"
  <2>1. app'[n] = [Idle EXCEPT !.pc = "deregister", !.failed = TRUE]
    BY <1>1, <1>2 DEF RegisterFails
  <2> QED
    BY <1>2, <2>1 DEF Idle
<1>3. CASE state[n] # "INITIALIZING"
  <2>1. app'[n] = Idle
    BY <1>1, <1>3 DEF RegisterFails
  <2> QED
    BY <1>3, <2>1 DEF Idle
<1> QED
  BY <1>2, <1>3

LEMMA MapMoves ==
  ASSUME Typed, NEW n \in Nodes, Register_Map(n)
  PROVE  \/ RegisterFails(n)
         \/ /\ app'[n].pc = "memRegister" /\ app'[n].todo = app[n].todo
            /\ app'[n].keys = app[n].keys
<1>1. app \in [Nodes -> Calls] /\ app[n] \in Calls
  BY DEF Typed
<1>2. RegisterFails(n) \/ app' = [app EXCEPT ![n].pc = "memRegister"]
  BY DEF Register_Map
<1>3. CASE app' = [app EXCEPT ![n].pc = "memRegister"]
  <2>1. app'[n] = [app[n] EXCEPT !.pc = "memRegister"]
    BY <1>1, <1>3
  <2> QED
    BY <1>1, <2>1 DEF Calls
<1> QED
  BY <1>2, <1>3

LEMMA MemMoves ==
  ASSUME Typed, NEW n \in Nodes, Register_Mem(n)
  PROVE  \/ RegisterFails(n) /\ RemoteDeRegisterBuf(Buffer(Tensor(n))) /\ UNCHANGED registered
         \/ /\ app'[n].pc = "register" /\ app'[n].todo = Tail(app[n].todo)
            /\ app'[n].keys = app[n].keys
            /\ registered' = [registered EXCEPT ![n] = @ \union {Tensor(n)}]
            /\ UNCHANGED <<refs, mapped>>
<1>1. app \in [Nodes -> Calls] /\ app[n] \in Calls
  BY DEF Typed
<1>2. \/ RegisterFails(n) /\ RemoteDeRegisterBuf(Buffer(Tensor(n))) /\ UNCHANGED registered
      \/ /\ app' = [app EXCEPT ![n].pc = "register", ![n].todo = Tail(@)]
         /\ registered' = [registered EXCEPT ![n] = @ \union {Tensor(n)}]
         /\ UNCHANGED <<refs, mapped>>
  BY DEF Register_Mem
<1>3. CASE app' = [app EXCEPT ![n].pc = "register", ![n].todo = Tail(@)]
  <2>1. app'[n] = [app[n] EXCEPT !.pc = "register", !.todo = Tail(@)]
    BY <1>1, <1>3 DEF Calls
  <2>2. /\ app'[n].pc = "register" /\ app'[n].todo = Tail(app[n].todo)
        /\ app'[n].keys = app[n].keys
    BY <1>1, <2>1 DEF Calls
  <2> QED
    BY <1>2, <1>3, <2>2
<1> QED
  BY <1>2, <1>3

LEMMA CreateMoves ==
  ASSUME Typed, NEW n \in Nodes, Initialize_Create(n)
  PROVE  /\ app'[n].todo = config.early[n] /\ app'[n].keys = app[n].keys
         /\ \/ app'[n].pc = "register"
            \/ app'[n].pc = "deregister" /\ app'[n].failed
<1>1. app \in [Nodes -> Calls] /\ app[n] \in Calls
  BY DEF Typed
<1>2. PICK ok \in BOOLEAN :
        app' = [app EXCEPT ![n].pc = IF ok THEN "register" ELSE "deregister",
                           ![n].failed = ~ok,
                           ![n].todo = config.early[n]]
  BY DEF Initialize_Create
<1>3. CASE ok
  <2>1. app'[n].pc = "register"
    BY <1>1, <1>2, <1>3 DEF Calls
  <2>2. app'[n].todo = config.early[n] /\ app'[n].keys = app[n].keys
    BY <1>1, <1>2 DEF Calls
  <2> QED
    BY <2>1, <2>2
<1>4. CASE ~ok
  <2>1. app'[n].pc = "deregister"
    BY <1>1, <1>2, <1>4 DEF Calls
  <2>2. app'[n].failed
    <3>1. ~ok = TRUE
      BY <1>4
    <3>2. app' = [app EXCEPT ![n].pc = IF ok THEN "register" ELSE "deregister",
                             ![n].failed = TRUE,
                             ![n].todo = config.early[n]]
      BY <1>2, <3>1
    <3> QED
      BY <1>1, <3>2 DEF Calls
  <2>3. app'[n].todo = config.early[n] /\ app'[n].keys = app[n].keys
    BY <1>1, <1>2 DEF Calls
  <2> QED
    BY <2>1, <2>2, <2>3
<1> QED
  BY <1>3, <1>4

LEMMA BeginMoves ==
  ASSUME Typed, NEW n \in Nodes, Process_Begin(n)
  PROVE  /\ app'[n].pc = "register" /\ app'[n].todo = app'[n].keys
         /\ app'[n].todo \in config.frames[n]
<1>1. app \in [Nodes -> Calls]
  BY DEF Typed
<1>2. PICK f \in config.frames[n] :
        app' = [app EXCEPT ![n] = [Idle EXCEPT !.pc = "register", !.todo = f, !.keys = f]]
  BY DEF Process_Begin
<1>3. app'[n] = [Idle EXCEPT !.pc = "register", !.todo = f, !.keys = f]
  BY <1>1, <1>2
<1> QED
  BY <1>3 DEF Idle

LEMMA PopMoves ==
  ASSUME Typed, NEW n \in Nodes, Process_Pop(n)
  PROVE  \/ IsEmpty(queue[n]) /\ app'[n] = Idle /\ UNCHANGED queue
         \/ /\ ~IsEmpty(queue[n])
            /\ app'[n].pc = "submit" /\ app'[n].keys = app[n].keys
            /\ app'[n].param = queue[n].ring[Slot(queue[n].pop)]
            /\ Pop(n)
<1>1. app \in [Nodes -> Calls] /\ app[n] \in Calls
  BY DEF Typed
<1>2. CASE IsEmpty(queue[n])
  BY <1>1, <1>2 DEF Process_Pop
<1>3. CASE ~IsEmpty(queue[n])
  <2> DEFINE p == queue[n].ring[Slot(queue[n].pop)]
  <2>1. app' = [app EXCEPT ![n].pc = "submit", ![n].param = p] /\ Pop(n)
    BY <1>3 DEF Process_Pop
  <2> HIDE DEF p
  <2>2. app'[n] = [app[n] EXCEPT !.pc = "submit", !.param = p]
    BY <1>1, <2>1
  <2>3. app'[n].pc = "submit" /\ app'[n].keys = app[n].keys /\ app'[n].param = p
    BY <1>1, <2>2 DEF Calls
  <2> QED
    BY <1>3, <2>1, <2>3 DEF p
<1> QED
  BY <1>2, <1>3

(* Initialize fails at its end, or DeInitialize begins. *)
LEMMA LeaveMoves ==
  ASSUME Typed, NEW n \in Nodes,
         app' = [app EXCEPT ![n].pc = "deregister", ![n].failed = TRUE]
  PROVE  /\ app'[n].pc = "deregister" /\ app'[n].failed
         /\ app'[n].todo = app[n].todo
<1>1. app \in [Nodes -> Calls] /\ app[n] \in Calls
  BY DEF Typed
<1>2. app'[n] = [app[n] EXCEPT !.pc = "deregister", !.failed = TRUE]
  BY <1>1
<1> QED
  BY <1>1, <1>2 DEF Calls

LEMMA GoMoves ==
  ASSUME Typed, NEW n \in Nodes, NEW x, Goto(n, x)
  PROVE  app'[n] = [app[n] EXCEPT !.pc = x] /\ app'[n].pc = x
         /\ app'[n].todo = app[n].todo /\ app'[n].keys = app[n].keys
         /\ app'[n].failed = app[n].failed
<1>1. app \in [Nodes -> Calls] /\ app[n] \in Calls
  BY DEF Typed
<1>2. app'[n] = [app[n] EXCEPT !.pc = x]
  BY <1>1
<1> QED
  BY <1>1, <1>2 DEF Calls

AwaitedNext(n) == Awaited(n)' /\ unanswered'[n] \in 0 .. config.limit

LEMMA StepAwaited ==
  ASSUME Typed, NEW n \in Nodes, Controlled(n), Awaited(n), Step(n)
  PROVE  AwaitedNext(n)
<1> USE DEF Registering, Answering
<1>1. /\ config.limit \in Nat /\ unanswered[n] \in 0 .. config.limit /\ Frame(n)
      /\ config' = config
  BY ConfigFacts, StepFrame DEF Typed, Frame
<1>2. n \in config.async => Cardinality(executing[n]) \in Nat
  BY FS_CardinalityType DEF Awaited
<1>3. CASE Notify_Begin(n)
  <2>1. PICK r \in executing[n] :
          /\ executing' = [executing EXCEPT ![n] = @ \ {r}]
          /\ cb' = [cb EXCEPT ![n] = [pc |-> "callback", param |-> r.param]]
    BY <1>3 DEF Notify_Begin
  <2>2. n \in config.async /\ cb[n].pc = "idle" /\ UNCHANGED <<unanswered, app, state>>
    BY <1>3 DEF Notify_Begin, CbIdle
  <2>3. executing'[n] = executing[n] \ {r} /\ cb'[n].pc = "callback"
    BY <2>1 DEF Typed
  <2>4. /\ IsFiniteSet(executing'[n]) /\ Cardinality(executing[n]) \in Nat
        /\ Cardinality(executing'[n]) = Cardinality(executing[n]) - 1
    <3>1. IsFiniteSet(executing[n]) /\ r \in executing[n]
      BY <2>1, <2>2 DEF Awaited
    <3> QED
      BY <2>3, <3>1, RequestTaken
  <2> QED
    BY <1>1, <2>2, <2>3, <2>4 DEF Awaited, AwaitedNext
<1>4. CASE Notify_Callback(n)
  <2>1. /\ cb[n].pc = "callback" /\ cb'[n].pc = "push" /\ UNCHANGED <<executing, app, state>>
        /\ unanswered'[n] = unanswered[n] \/ unanswered'[n] = unanswered[n] - 1
    BY <1>4 DEF Typed, Notify_Callback, Notifications
  <2>2. n \in config.async
    BY <2>1 DEF Awaited, CbIdle
  <2> QED
    BY <1>1, <1>2, <2>1, <2>2 DEF Awaited, AwaitedNext
<1>5. CASE Notify_Push(n) \/ Notify_Pushed(n)
  <2>1. /\ cb[n].pc \notin {"idle", "callback"} /\ cb'[n].pc # "callback"
        /\ UNCHANGED <<executing, unanswered, app, state>>
    BY <1>5 DEF Typed, Notify_Push, Notify_Pushed, Notifications, CbIdle
  <2>2. n \in config.async
    BY <2>1 DEF Awaited, CbIdle
  <2> QED
    BY <1>1, <1>2, <2>1, <2>2 DEF Awaited, AwaitedNext
<1>6. CASE Process_Submit(n)
  <2>1. /\ At(n, "submit") /\ n \in config.async /\ UNCHANGED cb
        /\ app'[n] = Idle
    BY <1>6 DEF Typed, Process_Submit, Controlled
  <2>2. CASE UNCHANGED <<executing, unanswered>>
    BY <1>1, <1>2, <2>1, <2>2 DEF Awaited, AwaitedNext, Idle
  <2>3. CASE /\ executing'[n] = executing[n] \union {Request(n, app[n].param)}
             /\ unanswered'[n] = unanswered[n] + 1
    <3>1. /\ IsFiniteSet(executing'[n]) /\ Cardinality(executing'[n]) \in Nat
          /\ Cardinality(executing'[n]) <= Cardinality(executing[n]) + 1
      <4>1. IsFiniteSet(executing[n]) /\ Cardinality(executing[n]) \in Nat
        BY <1>2, <2>1 DEF Awaited
      <4>2. /\ IsFiniteSet(executing'[n])
            /\ Cardinality(executing'[n]) =
                 IF Request(n, app[n].param) \in executing[n]
                 THEN Cardinality(executing[n]) ELSE Cardinality(executing[n]) + 1
        <5> DEFINE r == Request(n, app[n].param)
        <5>1. executing'[n] = executing[n] \union {r}
          BY <2>3
        <5> HIDE DEF r
        <5>2. /\ IsFiniteSet(executing'[n])
              /\ Cardinality(executing'[n]) =
                   IF r \in executing[n]
                   THEN Cardinality(executing[n]) ELSE Cardinality(executing[n]) + 1
          BY <4>1, <5>1, FS_AddElement
        <5> QED
          BY <5>2 DEF r
      <4> QED
        BY <4>1, <4>2
    <3> QED
      BY <1>1, <1>2, <2>1, <2>3, <3>1 DEF Awaited, AwaitedNext, Idle
  <2> QED
    BY <1>6, <2>2, <2>3 DEF Typed, Process_Submit
<1>7. CASE Process_Execute(n) \/ Process_Executed(n)
  <2>1. n \notin config.async
    BY <1>7 DEF Process_Execute, Process_Executed, Controlled
  <2> QED
    BY <1>1, <1>7, <2>1
    DEF Typed, Calls, Process_Execute, Process_Executed, Awaited, AwaitedNext
<1>8. CASE Destroy(n)
  <2>1. executing'[n] = {} /\ app'[n] = Idle /\ cb[n] = CbIdle /\ UNCHANGED <<cb, unanswered>>
    BY <1>8 DEF Typed, Destroy
  <2> QED
    BY <1>1, <2>1, FS_EmptySet DEF Awaited, AwaitedNext, Idle, CbIdle
<1>9. ASSUME UNCHANGED <<executing, unanswered, cb>>,
             At(n, "executing") => At(n, "executing")',
             n \in config.async /\
               ((Registering(n) /\ state[n] = "RUNNING") \/ At(n, "submit"))' =>
                 unanswered[n] < config.limit
      PROVE  AwaitedNext(n)
  BY <1>1, <1>9 DEF Awaited, AwaitedNext
<1>10. CASE Process_Begin(n)
  BY <1>1, <1>9, <1>10 DEF Process_Begin
<1>11. CASE Initialize(n) \/ Call(n) \/ DeRegister_One(n) \/ Stop_End(n)
  <2>1. /\ UNCHANGED <<executing, unanswered, cb>> /\ ~At(n, "executing")
        /\ ~((Registering(n) /\ state[n] = "RUNNING") \/ At(n, "submit"))'
    <3>1. CASE Initialize_Begin(n) \/ Initialize_End(n)
      BY <3>1 DEF Typed, Calls, Controlled, Initialize_Begin, Initialize_End, Idle
    <3>2. CASE Initialize_Create(n)
      BY <3>2 DEF Typed, Calls, Controlled, Initialize_Create
    <3>3. CASE Call(n)
      BY <3>3 DEF Typed, Calls, Call, Start, Stop, DeInitialize, EnablePerf, DisablePerf
    <3>4. CASE DeRegister_One(n) \/ Stop_End(n)
      BY <3>4 DEF Typed, Calls, DeRegister_One, Stop_End, Idle
    <3> QED
      BY <1>11, <3>1, <3>2, <3>3, <3>4 DEF Initialize
  <2> QED
    BY <1>9, <2>1
<1>12. CASE Register(n)
  <2>1. /\ UNCHANGED <<executing, unanswered, cb, state>> /\ Registering(n)
    BY <1>12 DEF Register, Register_Probe, Register_Map, Register_Mem
  <2>2. ~(At(n, "submit")')
    <3>1. CASE Register_Probe(n)
      BY <3>1, ProbeMoves
    <3>2. CASE Register_Map(n)
      BY <3>2, MapMoves, FailMoves DEF Idle
    <3>3. CASE Register_Mem(n)
      BY <3>3, MemMoves, FailMoves DEF Idle
    <3> QED
      BY <1>12, <3>1, <3>2, <3>3 DEF Register
  <2> QED
    BY <1>9, <2>1, <2>2 DEF Awaited
<1>13. CASE ValidateTensor(n)
  BY <1>9, <1>13 DEF Typed, ValidateTensor, Idle
<1>14. CASE Process_Pop(n)
  <2>1. /\ UNCHANGED <<executing, unanswered, cb, state>> /\ n \in config.async
        /\ Registering(n) /\ state[n] = "RUNNING"
    BY <1>14 DEF Process_Pop
  <2> QED
    BY <1>9, <2>1 DEF Awaited
<1> QED
  BY <1>3, <1>4, <1>5, <1>6, <1>7, <1>8, <1>10, <1>11, <1>12, <1>13, <1>14
  DEF Step, Notify, Process, Leave

LEMMA StepTyped ==
  ASSUME Typed, NEW n \in Nodes, Controlled(n), Awaited(n), Entering(n), Step(n)
  PROVE  Typed'
<1>1. Frame(n)
  BY StepFrame
<1>2. config' = config /\ config \in Configs
  BY <1>1 DEF Frame, Typed
<1>3. /\ Nodes' = Nodes /\ Tensors' = Tensors /\ Params' = Params /\ Rings' = Rings
      /\ Notifications' = Notifications
  BY <1>2 DEF Nodes, Tensors, Params, Rings, Notifications
<1>4. Calls' = Calls /\ Requests' = Requests
  BY <1>3 DEF Calls, Requests
<1>5. (app \in [Nodes -> Calls])'
  <2>1. app'[n] \in Calls /\ app \in [Nodes -> Calls]
    BY AppTyped DEF Typed
  <2> QED
    BY <1>1, <1>3, <1>4, <2>1 DEF Frame
<1>6. (cb \in [Nodes -> Notifications])'
  <2>1. cb'[n] \in Notifications /\ cb \in [Nodes -> Notifications]
    BY NotificationTyped DEF Typed
  <2> QED
    BY <1>1, <1>3, <2>1 DEF Frame
<1>7. (queue \in [Nodes -> Rings])'
  <2>1. queue'[n] \in Rings /\ queue \in [Nodes -> Rings]
    BY QueueTyped DEF Typed
  <2> QED
    BY <1>1, <1>3, <2>1 DEF Frame
<1>8. (lost \in [Nodes -> SUBSET Params] /\ executing \in [Nodes -> SUBSET Requests])'
  <2>1. /\ executing'[n] \in SUBSET Requests /\ lost'[n] \in SUBSET Params
        /\ executing \in [Nodes -> SUBSET Requests] /\ lost \in [Nodes -> SUBSET Params]
    BY StepRequests DEF Typed, RequestsTyped
  <2> QED
    BY <1>1, <1>3, <1>4, <2>1 DEF Frame
<1>9. (unanswered \in [Nodes -> 0 .. config.limit])'
  <2>1. /\ unanswered'[n] \in 0 .. config.limit
        /\ unanswered \in [Nodes -> 0 .. config.limit]
    BY StepAwaited DEF Typed, AwaitedNext
  <2> QED
    BY <1>1, <1>2, <1>3, <2>1 DEF Frame
<1>10. (/\ state \in [Nodes -> {"INITIAL", "INITIALIZING", "READY", "RUNNING"}]
        /\ load \in [Nodes -> Loads]
        /\ handles \in [Nodes -> SUBSET Handles]
        /\ graphsInfo \in [Nodes -> Graphs]
        /\ powerIds \in [Nodes -> Seq(Nat)]
        /\ livePower \in [Nodes -> SUBSET Nat]
        /\ inits \in [Nodes -> Nat]
        /\ freedTwice \in BOOLEAN)'
  <2>1. ObjectsTyped(n)
    BY StepObjects
  <2>2. /\ state \in [Nodes -> {"INITIAL", "INITIALIZING", "READY", "RUNNING"}]
        /\ load \in [Nodes -> Loads] /\ handles \in [Nodes -> SUBSET Handles]
        /\ graphsInfo \in [Nodes -> Graphs] /\ powerIds \in [Nodes -> Seq(Nat)]
        /\ livePower \in [Nodes -> SUBSET Nat] /\ inits \in [Nodes -> Nat]
    BY DEF Typed
  <2> QED
    BY <1>1, <1>3, <2>1, <2>2 DEF Frame, ObjectsTyped
<1>11. (/\ registered \in [Nodes -> SUBSET Tensors]
        /\ refs \in [config.buffers -> Nat]
        /\ mapped \subseteq config.buffers)'
  <2>1. TablesTyped(n) /\ registered \in [Nodes -> SUBSET Tensors]
    BY StepTables DEF Typed
  <2> QED
    BY <1>1, <1>2, <1>3, <2>1 DEF Frame, TablesTyped
<1> QED
  BY <1>2, <1>5, <1>6, <1>7, <1>8, <1>9, <1>10, <1>11 DEF Typed

LEMMA StepControlled ==
  ASSUME Typed, NEW n \in Nodes, Controlled(n), Awaited(n), Step(n)
  PROVE  Controlled(n)'
<1> USE DEF Registering
<1>1. /\ app \in [Nodes -> Calls] /\ app[n] \in Calls /\ state \in [Nodes -> {"INITIAL", "INITIALIZING", "READY", "RUNNING"}]
      /\ cb \in [Nodes -> Notifications] /\ unanswered[n] \in Nat /\ config' = config
  BY ConfigFacts, StepFrame DEF Typed, Frame
<1>2. CASE Initialize_Begin(n)
  <2>1. app'[n] = [app[n] EXCEPT !.pc = "create"] /\ app'[n].pc = "create"
    BY <1>2, GoMoves DEF Initialize_Begin
  <2> QED
    BY <1>1, <1>2, <2>1 DEF Initialize_Begin, Controlled
<1>3. CASE Initialize_Create(n)
  BY <1>1, <1>3, CreateMoves DEF Initialize_Create, Controlled
<1>4. CASE Initialize_End(n)
  <2>1. \/ app'[n] = Idle /\ state'[n] = "READY"
        \/ app'[n].pc = "deregister" /\ app'[n].failed /\ UNCHANGED state
    BY <1>1, <1>4, LeaveMoves DEF Initialize_End
  <2>2. state[n] = "INITIALIZING" /\ UNCHANGED <<unanswered, cb>>
    BY <1>4 DEF Initialize_End
  <2> QED
    BY <1>1, <2>1, <2>2 DEF Controlled, Idle
<1>5. CASE Register(n)
  <2>1. UNCHANGED <<state, unanswered, cb>> /\ Registering(n)
    BY <1>5 DEF Register, Register_Probe, Register_Map, Register_Mem
  <2>2. \/ Registering(n)'
        \/ /\ state[n] = "INITIALIZING"
           /\ app'[n].pc = "deregister" /\ app'[n].failed
        \/ app'[n] = Idle /\ state[n] # "INITIALIZING"
    <3>1. CASE Register_Probe(n)
      BY <3>1, ProbeMoves
    <3>2. CASE Register_Map(n)
      BY <3>2, MapMoves, FailMoves
    <3>3. CASE Register_Mem(n)
      BY <3>3, MemMoves, FailMoves
    <3> QED
      BY <1>5, <3>1, <3>2, <3>3 DEF Register
  <2> QED
    BY <1>1, <2>1, <2>2 DEF Controlled, Idle
<1>6. CASE Process_Begin(n)
  BY <1>1, <1>6, BeginMoves DEF Process_Begin, Controlled
<1>7. CASE ValidateTensor(n) \/ Process_Executed(n) \/ Process_Submit(n)
  <2>1. app'[n] = Idle /\ UNCHANGED <<state, cb>>
    BY <1>1, <1>7 DEF ValidateTensor, Process_Executed, Process_Submit
  <2>2. state[n] = "RUNNING"
    BY <1>7 DEF ValidateTensor, Process_Executed, Process_Submit, Controlled
  <2> QED
    BY <1>1, <2>1, <2>2 DEF Controlled, Idle
<1>8. CASE Process_Execute(n)
  <2>1. app'[n].pc = "executing"
    BY <1>8, GoMoves DEF Process_Execute
  <2> QED
    BY <1>1, <1>8, <2>1 DEF Process_Execute, Controlled
<1>9. CASE Process_Pop(n)
  <2>1. app'[n] = Idle \/ app'[n].pc = "submit"
    BY <1>9, PopMoves
  <2> QED
    BY <1>1, <1>9, <2>1 DEF Process_Pop, Controlled, Idle
<1>10. CASE Notify(n)
  <2>1. UNCHANGED <<state, app>>
    BY <1>10 DEF Notify, Notify_Begin, Notify_Callback, Notify_Push, Notify_Pushed
  <2>2. CASE Notify_Begin(n)
    <3>1. n \in config.async /\ IsFiniteSet(executing[n]) /\ executing[n] # {}
      BY <2>2 DEF Notify_Begin, Awaited
    <3>2. unanswered[n] # 0 /\ UNCHANGED unanswered
      <4>1. Cardinality(executing[n]) \in Nat \ {0}
        BY <3>1, FS_CardinalityType, FS_EmptySet
      <4> QED
        BY <1>1, <2>2, <3>1, <4>1 DEF Notify_Begin, Awaited, Answering
    <3> QED
      BY <1>1, <2>1, <3>2 DEF Controlled
  <2>3. CASE Notify_Callback(n)
    <3>1. cb[n].pc = "callback"
      BY <2>3 DEF Notify_Callback
    <3>2. n \in config.async
      BY <3>1 DEF Awaited, CbIdle
    <3>3. unanswered[n] # 0
      <4>1. Cardinality(executing[n]) \in Nat
        BY <3>2, FS_CardinalityType DEF Awaited
      <4> QED
        BY <1>1, <3>1, <3>2, <4>1 DEF Awaited, Answering
    <3>4. state[n] \notin {"INITIAL", "INITIALIZING"} /\ ~At(n, "deregister")
      BY <3>3 DEF Controlled
    <3> QED
      BY <1>1, <2>1, <3>4 DEF Controlled
  <2>4. CASE Notify_Push(n) \/ Notify_Pushed(n)
    <3>1. cb[n].pc # "idle" /\ UNCHANGED unanswered
      BY <2>4 DEF Notify_Push, Notify_Pushed
    <3>2. state[n] \notin {"INITIAL", "INITIALIZING"}
      BY <3>1 DEF Controlled, CbIdle
    <3> QED
      BY <1>1, <2>1, <3>1, <3>2 DEF Controlled
  <2> QED
    BY <1>10, <2>2, <2>3, <2>4 DEF Notify
<1>11. CASE Start(n) \/ EnablePerf(n) \/ DisablePerf(n)
  BY <1>1, <1>11 DEF Start, EnablePerf, DisablePerf, Controlled
<1>12. CASE Stop(n)
  <2>1. /\ At(n, "idle") /\ state[n] = "RUNNING" /\ unanswered[n] = 0 /\ UNCHANGED <<unanswered, cb>>
        /\ app[n] = Idle
    BY <1>12 DEF Stop, Drained, Controlled
  <2>2. \/ app'[n] = [Idle EXCEPT !.pc = "deregister"] /\ UNCHANGED state
        \/ state'[n] = "READY" /\ UNCHANGED app
    BY <1>1, <1>12, <2>1 DEF Stop
  <2>3. \/ app'[n].pc = "deregister" /\ app'[n].failed = FALSE /\ UNCHANGED state
        \/ state'[n] = "READY" /\ UNCHANGED app
    BY <2>2 DEF Idle
  <2> QED
    BY <1>1, <2>1, <2>3 DEF Controlled
<1>13. CASE DeInitialize(n)
  <2>1. app'[n].pc = "deregister" /\ app'[n].failed
    BY <1>13, LeaveMoves DEF DeInitialize
  <2> QED
    BY <1>1, <1>13, <2>1 DEF DeInitialize, Drained, Controlled
<1>14. CASE DeRegister_One(n)
  BY <1>14 DEF DeRegister_One, Controlled
<1>15. CASE Destroy(n) \/ Stop_End(n)
  <2>1. /\ app'[n] = Idle /\ state'[n] \in {"INITIAL", "READY"}
        /\ state'[n] = "INITIAL" => cb[n] = CbIdle
        /\ At(n, "deregister") /\ UNCHANGED <<unanswered, cb>>
    BY <1>1, <1>15 DEF Destroy, Stop_End
  <2> QED
    BY <1>1, <2>1 DEF Controlled, Idle
<1> QED
  BY <1>2, <1>3, <1>4, <1>5, <1>6, <1>7, <1>8, <1>9, <1>10, <1>11, <1>12, <1>13,
     <1>14, <1>15 DEF Step, Initialize, Process, Call, Leave

(* Only a registration enters the tables, when no other node is in them. *)
LEMMA StepExclusive ==
  ASSUME Typed, NEW n \in Nodes, Exclusive, Step(n)
  PROVE  Exclusive'
<1>1. /\ config' = config /\ Nodes' = Nodes
      /\ \A m \in Nodes \ {n} : app'[m] = app[m]
  BY StepFrame, FrameOthers DEF Frame, Nodes
<1>2. \/ (app[n].pc \in InTables)' => app[n].pc \in InTables
      \/ MayEnter(n)
  <2>1. CASE Initialize(n)
    <3>1. CASE Initialize_Begin(n)
      BY <3>1, GoMoves DEF Initialize_Begin, InTables
    <3>2. CASE Initialize_Create(n)
      BY <3>2, CreateMoves DEF InTables
    <3>3. CASE Initialize_End(n)
      <4>1. app'[n] = Idle \/ app'[n].pc = "deregister"
        BY <3>3, LeaveMoves DEF Typed, Initialize_End
      <4> QED
        BY <4>1 DEF InTables, Idle
    <3> QED
      BY <2>1, <3>1, <3>2, <3>3 DEF Initialize
  <2>2. CASE Register(n)
    <3>1. CASE Register_Probe(n)
      BY <3>1, ProbeMoves DEF InTables
    <3>2. CASE Register_Map(n) \/ Register_Mem(n)
      BY <3>2 DEF Register_Map, Register_Mem, InTables
    <3> QED
      BY <2>2, <3>1, <3>2 DEF Register
  <2>3. CASE Process(n)
    <3>1. CASE Process_Begin(n)
      BY <3>1, BeginMoves DEF InTables
    <3>2. CASE Process_Execute(n)
      BY <3>2, GoMoves DEF Process_Execute, InTables
    <3>3. CASE Process_Pop(n)
      BY <3>3, PopMoves DEF InTables, Idle
    <3>4. CASE ValidateTensor(n) \/ Process_Executed(n) \/ Process_Submit(n)
      <4>1. app'[n] = Idle
        BY <3>4 DEF Typed, ValidateTensor, Process_Executed, Process_Submit
      <4> QED
        BY <4>1 DEF InTables, Idle
    <3> QED
      BY <2>3, <3>1, <3>2, <3>3, <3>4 DEF Process
  <2>4. CASE UNCHANGED app
    BY <2>4
  <2>5. CASE Notify(n) \/ Start(n) \/ EnablePerf(n) \/ DisablePerf(n) \/ DeRegister_One(n)
    BY <2>4, <2>5 DEF Notify, Notify_Begin, Notify_Callback, Notify_Push, Notify_Pushed,
       Start, EnablePerf, DisablePerf, DeRegister_One
  <2>6. CASE Stop(n) \/ DeInitialize(n) \/ Destroy(n) \/ Stop_End(n)
    <3>1. app'[n] = Idle \/ app'[n].pc = "deregister" \/ UNCHANGED app
      <4>1. CASE Stop(n) \/ DeInitialize(n)
        BY <4>1, GoMoves, LeaveMoves DEF Stop, DeInitialize
      <4>2. CASE Destroy(n) \/ Stop_End(n)
        BY <4>2 DEF Typed, Destroy, Stop_End
      <4> QED
        BY <2>6, <4>1, <4>2
    <3> QED
      BY <3>1 DEF InTables, Idle
  <2> QED
    BY <2>1, <2>2, <2>3, <2>5, <2>6 DEF Step, Call, Leave
<1> QED
  BY <1>1, <1>2 DEF Exclusive, MayEnter, InTables

LEMMA StepEntering ==
  ASSUME Typed, NEW n \in Nodes, Entering(n), Step(n)
  PROVE  Entering(n)'
<1>1. CASE Register_Probe(n)
  <2>1. UNCHANGED <<mapped, registered, config>> /\ app[n].todo # <<>>
    BY <1>1 DEF Register_Probe
  <2> QED
    BY <2>1, <1>1, ProbeMoves DEF Entering, InTables, Tensor
<1>2. CASE Register_Map(n)
  <2>1. CASE RegisterFails(n)
    BY <2>1, FailMoves DEF Entering, InTables, Idle
  <2>2. CASE app'[n].pc = "memRegister" /\ app'[n].todo = app[n].todo
    BY <1>2, <2>2 DEF Register_Map, Entering, InTables, Tensor
  <2> QED
    BY <1>2, <2>1, <2>2, MapMoves
<1>3. ASSUME (app[n].pc \notin InTables)'
      PROVE  Entering(n)'
  BY <1>3 DEF Entering
<1>4. CASE Register_Mem(n)
  BY <1>3, <1>4, MemMoves, FailMoves DEF InTables, Idle
<1>5. CASE Initialize(n)
  <2>1. CASE Initialize_Begin(n)
    BY <1>3, <2>1, GoMoves DEF Initialize_Begin, InTables
  <2>2. CASE Initialize_Create(n)
    BY <1>3, <2>2, CreateMoves DEF InTables
  <2>3. CASE Initialize_End(n)
    <3>1. app'[n] = Idle \/ app'[n].pc = "deregister"
      BY <2>3, LeaveMoves DEF Typed, Initialize_End
    <3> QED
      BY <1>3, <3>1 DEF InTables, Idle
  <2> QED
    BY <1>5, <2>1, <2>2, <2>3 DEF Initialize
<1>6. CASE Process(n)
  <2>1. CASE Process_Begin(n)
    BY <1>3, <2>1, BeginMoves DEF InTables
  <2>2. CASE Process_Execute(n)
    BY <1>3, <2>2, GoMoves DEF Process_Execute, InTables
  <2>3. CASE Process_Pop(n)
    BY <1>3, <2>3, PopMoves DEF InTables, Idle
  <2>4. CASE ValidateTensor(n) \/ Process_Executed(n) \/ Process_Submit(n)
    <3>1. app'[n] = Idle
      BY <2>4 DEF Typed, ValidateTensor, Process_Executed, Process_Submit
    <3> QED
      BY <1>3, <3>1 DEF InTables, Idle
  <2> QED
    BY <1>6, <2>1, <2>2, <2>3, <2>4 DEF Process
<1>7. CASE Notify(n)
  <2>1. UNCHANGED <<app, mapped, registered, config>>
    BY <1>7 DEF Notify, Notify_Begin, Notify_Callback, Notify_Push, Notify_Pushed
  <2> QED
    BY <2>1 DEF Entering, Tensor
<1>8. CASE Call(n)
  <2>1. app[n].pc = "idle"
    BY <1>8 DEF Call, Start, Stop, DeInitialize, EnablePerf, DisablePerf
  <2>2. app'[n].pc = "deregister" \/ UNCHANGED app
    BY <1>8, GoMoves, LeaveMoves DEF Call, Start, Stop, DeInitialize, EnablePerf, DisablePerf
  <2> QED
    BY <1>3, <2>1, <2>2 DEF InTables
<1>9. CASE Leave(n)
  <2>1. app'[n] = Idle \/ app'[n].pc = "deregister"
    BY <1>9 DEF Typed, Leave, DeRegister_One, Destroy, Stop_End
  <2> QED
    BY <1>3, <2>1 DEF InTables, Idle
<1> QED
  BY <1>1, <1>2, <1>4, <1>5, <1>6, <1>7, <1>8, <1>9 DEF Step, Register

(* What another node probed is still so, where registrations are serial. *)
LEMMA OthersEntering ==
  ASSUME Typed, NEW n \in Nodes, Exclusive, Step(n),
         NEW m \in Nodes, m # n, Entering(m)
  PROVE  Entering(m)'
<1>1. config' = config /\ app'[m] = app[m] /\ registered'[m] = registered[m]
  BY StepFrame, FrameOthers DEF Frame
<1>2. config.serial /\ At(m, "map") => UNCHANGED mapped
  <2>1. CASE Initialize(n) \/ Register_Probe(n) \/ Process(n)
    BY <2>1 DEF Initialize, Initialize_Begin, Initialize_Create, Initialize_End,
       Register_Probe, Process, Process_Begin, ValidateTensor, Process_Execute,
       Process_Executed, Process_Pop, Process_Submit
  <2>2. CASE Notify(n) \/ Call(n) \/ Destroy(n) \/ Stop_End(n)
    BY <2>2 DEF Notify, Notify_Begin, Notify_Callback, Notify_Push, Notify_Pushed,
       Call, Start, Stop, DeInitialize, EnablePerf, DisablePerf, Destroy, Stop_End
  <2>3. CASE Register_Map(n) \/ Register_Mem(n)
    <3>1. app[n].pc \in InTables
      BY <2>3 DEF Register_Map, Register_Mem, InTables
    <3> QED
      BY <3>1 DEF Exclusive, InTables
  <2>4. CASE DeRegister_One(n)
    BY <2>4 DEF DeRegister_One, MayEnter, InTables
  <2> QED
    BY <2>1, <2>2, <2>3, <2>4 DEF Step, Register, Leave
<1> QED
  BY <1>1, <1>2 DEF Entering, InTables, Tensor

(* The part of the invariant that every other part needs. *)
Base == /\ Typed /\ Exclusive
        /\ \A n \in Nodes : Controlled(n) /\ Awaited(n) /\ Entering(n)

LEMMA BaseStep ==
  ASSUME Base, NEW n \in Nodes, Step(n)
  PROVE  Base'
<1>1. Typed /\ Exclusive /\ Controlled(n) /\ Awaited(n) /\ Entering(n)
  BY DEF Base
<1>2. Typed' /\ Exclusive'
  BY <1>1, StepTyped, StepExclusive
<1>3. Controlled(n)' /\ Awaited(n)' /\ Entering(n)'
  BY <1>1, StepControlled, StepAwaited, StepEntering DEF AwaitedNext
<1>4. config' = config /\ Nodes' = Nodes
  BY <1>1, StepFrame DEF Frame, Nodes
<1>5. ASSUME NEW m \in Nodes, m # n
      PROVE  Controlled(m)' /\ Awaited(m)' /\ Entering(m)'
  <2>1. Controlled(m) /\ Awaited(m) /\ Entering(m)
    BY DEF Base
  <2>2. /\ app'[m] = app[m] /\ state'[m] = state[m] /\ cb'[m] = cb[m]
        /\ unanswered'[m] = unanswered[m] /\ executing'[m] = executing[m]
    BY <1>1, <1>5, StepFrame, FrameOthers
  <2>3. Controlled(m)'
    BY <1>4, <2>1, <2>2 DEF Controlled, Registering
  <2>4. Awaited(m)'
    BY <1>4, <2>1, <2>2 DEF Awaited, Answering, Registering
  <2> QED
    BY <1>1, <1>5, <2>1, <2>3, <2>4, OthersEntering
<1> QED
  BY <1>2, <1>3, <1>4, <1>5 DEF Base

LEMMA BaseStutter == Base /\ UNCHANGED vars => Base'
<1> SUFFICES ASSUME Base, UNCHANGED vars PROVE Base'
  OBVIOUS
<1>1. Typed'
  BY DEF Base, vars, Typed, Nodes, Tensors, Params, Calls, Notifications, Requests, Rings
<1>2. Exclusive'
  BY DEF Base, vars, Exclusive, Nodes
<1>3. Nodes' = Nodes
  BY DEF vars, Nodes
<1>4. ASSUME NEW n \in Nodes
      PROVE  Controlled(n)' /\ Awaited(n)' /\ Entering(n)'
  <2>1. Controlled(n) /\ Awaited(n) /\ Entering(n)
    BY DEF Base
  <2> QED
    BY <2>1 DEF vars, Controlled, Awaited, Entering, Registering, Answering, Tensor
<1> QED
  BY <1>1, <1>2, <1>3, <1>4 DEF Base

LEMMA BaseInit == Init => Base
<1> SUFFICES ASSUME Init PROVE Base
  OBVIOUS
<1>1. config \in Configs
  BY DEF Init
<1>2. Idle \in Calls /\ CbIdle \in Notifications /\ Full \in Rings
  BY <1>1, CallIdle, NotificationTypes, RingTypes
<1>3. Typed
  <2>1. /\ app \in [Nodes -> Calls] /\ cb \in [Nodes -> Notifications]
        /\ queue \in [Nodes -> Rings]
    BY <1>2 DEF Init
  <2>2. /\ state \in [Nodes -> {"INITIAL", "INITIALIZING", "READY", "RUNNING"}]
        /\ load \in [Nodes -> Loads] /\ handles \in [Nodes -> SUBSET Handles]
        /\ graphsInfo \in [Nodes -> Graphs] /\ powerIds \in [Nodes -> Seq(Nat)]
        /\ livePower \in [Nodes -> SUBSET Nat] /\ inits \in [Nodes -> Nat]
        /\ freedTwice \in BOOLEAN
    <3>1. <<>> \in Seq(Nat)
      OBVIOUS
    <3>2. powerIds \in [Nodes -> Seq(Nat)]
      BY <3>1 DEF Init
    <3>3. load \in [Nodes -> Loads] /\ graphsInfo \in [Nodes -> Graphs]
      BY DEF Init, Loads, Graphs
    <3> QED
      BY <3>2, <3>3 DEF Init
  <2>3. /\ registered \in [Nodes -> SUBSET Tensors] /\ refs \in [config.buffers -> Nat]
        /\ mapped \subseteq config.buffers
    BY DEF Init
  <2>4. /\ lost \in [Nodes -> SUBSET Params] /\ executing \in [Nodes -> SUBSET Requests]
        /\ unanswered \in [Nodes -> 0 .. config.limit]
    BY <1>1, ConfigFacts DEF Init
  <2> QED
    BY <1>1, <2>1, <2>2, <2>3, <2>4 DEF Typed
<1>4. \A n \in Nodes : /\ app[n] = Idle /\ cb[n] = CbIdle /\ state[n] = "INITIAL"
                        /\ executing[n] = {} /\ unanswered[n] = 0
  BY DEF Init
<1>5. Exclusive
  BY <1>4 DEF Exclusive, InTables, Idle
<1>6. ASSUME NEW n \in Nodes
      PROVE  Controlled(n) /\ Awaited(n) /\ Entering(n)
  <2>1. Controlled(n) /\ Entering(n)
    BY <1>4 DEF Controlled, Entering, InTables, Idle, Registering
  <2>2. IsFiniteSet(executing[n]) /\ Cardinality(executing[n]) = 0
    BY <1>4, FS_EmptySet
  <2>3. app[n].pc = "idle" /\ cb[n].pc = "idle"
    BY <1>4 DEF Idle, CbIdle
  <2>4. Awaited(n)
    BY <1>4, <2>2, <2>3 DEF Awaited, Answering, Registering
  <2> QED
    BY <2>1, <2>4
<1> QED
  BY <1>3, <1>5, <1>6 DEF Base

LEMMA NextStep == ASSUME Next PROVE \E n \in Nodes : Step(n)
  BY DEF Next, Step

LEMMA BaseHolds == Spec => []Base
<1>1. Base /\ [Next]_vars => Base'
  BY BaseStep, BaseStutter, NextStep
<1> QED
  BY <1>1, BaseInit, PTL DEF Spec

(***************************************************************************)
(* The types of the QNN node: in particular the indices and the parameters *)
(* of the ring of NotifyParamQueue stay in their ranges, and no more than  *)
(* the limit of requests has no answer.                                    *)
(***************************************************************************)
THEOREM TypesHold == Spec => []TypeOK
<1>1. Base => TypeOK
  <2> SUFFICES ASSUME Base PROVE TypeOK
    OBVIOUS
  <2>1. Typed
    BY DEF Base
  <2>2. ASSUME NEW n \in Nodes
        PROVE  /\ queue[n].ring \in [0 .. config.params - 1 -> 0 .. config.params - 1]
               /\ {queue[n].push, queue[n].pop} \subseteq 0 .. config.modulus - 1
               /\ cb[n].pc \in {"idle", "callback", "push", "advance", "entry"}
               /\ app[n].pc \in {"idle", "create", "register", "map", "memRegister",
                                 "deregister", "submit", "executing"}
    <3>1. queue[n] \in Rings /\ cb[n] \in Notifications /\ app[n] \in Calls
      BY <2>1 DEF Typed
    <3> QED
      BY <3>1 DEF Rings, Notifications, Calls, Params, Places
  <2> QED
    BY <2>1, <2>2 DEF Typed, TypeOK, Graphs
<1> QED
  BY <1>1, BaseHolds, PTL

-----------------------------------------------------------------------------
(* What a node has of QNN, and what its requests use *)

(* No request is in execution where none is awaited. *)
LEMMA NothingExecutes ==
  ASSUME Base, NEW n \in Nodes, unanswered[n] = 0, ~At(n, "executing")
  PROVE  executing[n] = {}
<1>1. Awaited(n)
  BY DEF Base
<1>2. CASE n \in config.async
  <2>1. IsFiniteSet(executing[n]) /\ Cardinality(executing[n]) + Answering(n) <= 0
    BY <1>1, <1>2 DEF Awaited
  <2>2. Cardinality(executing[n]) \in Nat /\ Answering(n) \in Nat
    BY <2>1, FS_CardinalityType DEF Answering
  <2>3. Cardinality(executing[n]) = 0
    BY <2>1, <2>2
  <2> QED
    BY <2>1, <2>3, FS_EmptySet
<1>3. CASE n \notin config.async
  BY <1>1, <1>3 DEF Awaited
<1> QED
  BY <1>2, <1>3

LEMMA RangeTail ==
  ASSUME NEW S, NEW s \in Seq(S), s # <<>>
  PROVE  Range(s) = {Head(s)} \union Range(Tail(s))
<1>1. /\ Len(s) \in Nat \ {0} /\ Len(Tail(s)) = Len(s) - 1 /\ Tail(s) \in Seq(S)
      /\ \A i \in 1 .. Len(Tail(s)) : Tail(s)[i] = s[i + 1]
      /\ Head(s) = s[1]
  BY EmptySeq, HeadTailProperties
<1>2. /\ Range(s) = { s[i] : i \in 1 .. Len(s) }
      /\ Range(Tail(s)) = { Tail(s)[i] : i \in 1 .. Len(Tail(s)) }
  BY <1>1, RangeEquality
<1>3. ASSUME NEW x \in Range(s)
      PROVE  x \in {Head(s)} \union Range(Tail(s))
  <2>1. PICK i \in 1 .. Len(s) : x = s[i]
    BY <1>2
  <2>2. CASE i = 1
    BY <1>1, <2>1, <2>2
  <2>3. CASE i # 1
    <3>1. i - 1 \in 1 .. Len(Tail(s)) /\ Tail(s)[i - 1] = s[(i - 1) + 1]
      BY <1>1, <2>3
    <3> QED
      BY <1>2, <2>1, <3>1
  <2> QED
    BY <2>2, <2>3
<1>4. ASSUME NEW x \in {Head(s)} \union Range(Tail(s))
      PROVE  x \in Range(s)
  <2>1. CASE x = Head(s)
    BY <1>1, <1>2, <2>1
  <2>2. CASE x \in Range(Tail(s))
    <3>1. PICK i \in 1 .. Len(Tail(s)) : x = Tail(s)[i]
      BY <1>2, <2>2
    <3>2. i + 1 \in 1 .. Len(s) /\ x = s[i + 1]
      BY <1>1, <3>1
    <3> QED
      BY <1>2, <3>2
  <2> QED
    BY <1>4, <2>1, <2>2
<1> QED
  BY <1>3, <1>4

LEMMA RangeNone == Range(<<>>) = {}
  BY DEF Range

LEMMA TodoTail ==
  ASSUME Typed, NEW n \in Nodes, app[n].todo # <<>>
  PROVE  /\ Range(app[n].todo) = {Tensor(n)} \union Range(Tail(app[n].todo))
         /\ app[n].todo \in Seq(Tensors)
<1>1. app[n].todo \in Seq(Tensors)
  BY CallSequences DEF Typed
<1> QED
  BY <1>1, RangeTail DEF Tensor

LEMMA StepRequesting ==
  ASSUME Base, NEW n \in Nodes, Requesting(n), Step(n)
  PROVE  Requesting(n)'
<1> USE DEF Registering
<1>1. Typed /\ Controlled(n) /\ Entering(n)
  BY DEF Base
<1>2. ASSUME (~(Registering(n) /\ state[n] = "RUNNING") /\ app[n].pc \notin {"submit", "executing"})'
      PROVE  Requesting(n)'
  BY <1>2 DEF Requesting
<1>3. CASE Initialize(n) \/ Call(n) \/ Leave(n)
  <2>1. CASE Initialize_Begin(n)
    BY <1>1, <1>2, <2>1, GoMoves DEF Initialize_Begin
  <2>2. CASE Initialize_Create(n)
    <3>1. state[n] = "INITIALIZING" /\ UNCHANGED state
      BY <1>1, <2>2 DEF Initialize_Create, Controlled
    <3> QED
      BY <1>1, <1>2, <2>2, <3>1, CreateMoves
  <2>3. CASE Initialize_End(n)
    <3>1. app'[n] = Idle \/ app'[n].pc = "deregister"
      BY <1>1, <2>3, LeaveMoves DEF Typed, Initialize_End
    <3> QED
      BY <1>2, <3>1 DEF Idle
  <2>4. CASE Call(n)
    <3>1. app[n].pc = "idle"
      BY <2>4 DEF Call, Start, Stop, DeInitialize, EnablePerf, DisablePerf
    <3>2. app'[n].pc = "deregister" \/ UNCHANGED app
      BY <1>1, <2>4, GoMoves, LeaveMoves DEF Call, Start, Stop, DeInitialize, EnablePerf, DisablePerf
    <3> QED
      BY <1>2, <3>1, <3>2
  <2>5. CASE Leave(n)
    <3>1. app'[n] = Idle \/ app'[n].pc = "deregister"
      BY <1>1, <2>5 DEF Typed, Leave, DeRegister_One, Destroy, Stop_End
    <3> QED
      BY <1>2, <3>1 DEF Idle
  <2> QED
    BY <1>3, <2>1, <2>2, <2>3, <2>4, <2>5 DEF Initialize
<1>4. CASE Register(n)
  <2>1. UNCHANGED state /\ Registering(n)
    BY <1>4 DEF Register, Register_Probe, Register_Map, Register_Mem
  <2>2. CASE Register_Probe(n)
    <3>1. app[n].todo # <<>> /\ UNCHANGED registered
      BY <2>2 DEF Register_Probe
    <3> QED
      BY <1>1, <2>1, <2>2, <3>1, ProbeMoves, TodoTail DEF Requesting
  <2>3. ASSUME RegisterFails(n)
        PROVE  Requesting(n)'
    BY <1>1, <1>2, <2>1, <2>3, FailMoves DEF Controlled, Idle
  <2>4. CASE Register_Map(n)
    <3>1. UNCHANGED registered
      BY <2>4 DEF Register_Map
    <3> QED
      BY <1>1, <2>1, <2>3, <2>4, <3>1, MapMoves DEF Requesting
  <2>5. CASE Register_Mem(n)
    <3>1. app[n].todo # <<>> /\ registered \in [Nodes -> SUBSET Tensors]
      BY <1>1, <2>5 DEF Typed, Register_Mem, Entering, InTables
    <3> QED
      BY <1>1, <2>1, <2>3, <2>5, <3>1, MemMoves, TodoTail DEF Requesting
  <2> QED
    BY <1>4, <2>2, <2>4, <2>5 DEF Register
<1>5. CASE Process_Begin(n)
  BY <1>1, <1>5, BeginMoves DEF Requesting
<1>6. CASE ValidateTensor(n) \/ Process_Executed(n) \/ Process_Submit(n)
  <2>1. app'[n] = Idle
    BY <1>1, <1>6 DEF Typed, ValidateTensor, Process_Executed, Process_Submit
  <2> QED
    BY <1>2, <2>1 DEF Idle
<1>7. CASE Process_Execute(n) \/ Process_Pop(n)
  <2>1. /\ app[n].todo = <<>> /\ Registering(n) /\ state[n] = "RUNNING"
        /\ UNCHANGED <<registered, state>>
    BY <1>7 DEF Process_Execute, Process_Pop
  <2>2. Range(app[n].keys) \subseteq registered[n]
    BY <2>1, RangeNone DEF Requesting
  <2>3. \/ app'[n].pc = "idle"
        \/ app'[n].pc \in {"submit", "executing"} /\ app'[n].keys = app[n].keys
    <3>1. CASE Process_Execute(n)
      BY <1>1, <3>1, GoMoves DEF Process_Execute
    <3>2. CASE Process_Pop(n)
      BY <1>1, <3>2, PopMoves DEF Idle
    <3> QED
      BY <1>7, <3>1, <3>2
  <2> QED
    BY <1>2, <2>1, <2>2, <2>3 DEF Requesting
<1>8. CASE Notify(n)
  <2>1. UNCHANGED <<app, registered, state>>
    BY <1>8 DEF Notify, Notify_Begin, Notify_Callback, Notify_Push, Notify_Pushed
  <2> QED
    BY <2>1 DEF Requesting
<1> QED
  BY <1>3, <1>4, <1>5, <1>6, <1>7, <1>8 DEF Step, Process

(* What Initialize has created when it goes on to register tensors.        *)
LEMMA CreateHandles ==
  ASSUME Typed, NEW n \in Nodes, Initialize_Create(n),
         handles[n] = {}, livePower[n] = {}
  PROVE  /\ At(n, "register")' => Uses \subseteq handles'[n]
         /\ livePower'[n] # {} => "perfInfra" \in handles'[n]
         /\ livePower'[n] \subseteq Range(powerIds'[n])
<1> DEFINE created(k) == Range(SubSeq(Creates(load[n]), 1, k))
<1>1. PICK k \in 0 .. Len(Creates(load[n])), ok \in BOOLEAN :
        /\ ok => k = Len(Creates(load[n]))
        /\ handles' = [handles EXCEPT ![n] = created(k) \ {"graphsInfo"}]
        /\ SetHtpPerformanceMode(n, created(k))
        /\ app' = [app EXCEPT ![n].pc = IF ok THEN "register" ELSE "deregister",
                              ![n].failed = ~ok,
                              ![n].todo = config.early[n]]
  BY DEF Initialize_Create
<1>2. handles'[n] = created(k) \ {"graphsInfo"}
  BY <1>1 DEF Typed
<1>3. ASSUME At(n, "register")'
      PROVE  Uses \subseteq handles'[n]
  <2>1. ok
    <3>1. app \in [Nodes -> Calls] /\ app[n] \in Calls
      BY DEF Typed
    <3>2. ~ok => app'[n].pc = "deregister"
      BY <1>1, <3>1 DEF Calls
    <3> QED
      BY <1>3, <3>2
  <2>2. created(k) = Range(Creates(load[n]))
    <3>1. SubSeq(Creates(load[n]), 1, Len(Creates(load[n]))) = Creates(load[n])
      BY CreatesTyped, SubSeqFull
    <3> QED
      BY <1>1, <2>1, <3>1
  <2>3. Uses \subseteq Range(Creates(load[n]))
    BY CreatesTyped
  <2> QED
    BY <1>2, <2>2, <2>3 DEF Uses
<1> HIDE DEF created
<1>4. CASE "perfInfra" \in created(k)
  <2>1. livePower'[n] = {inits[n]} /\ powerIds'[n] = Append(powerIds[n], inits[n])
    BY <1>1, <1>4 DEF Typed, SetHtpPerformanceMode, NewPowerId
  <2>2. inits[n] \in Range(Append(powerIds[n], inits[n]))
    <3>1. powerIds[n] \in Seq(Nat) /\ inits[n] \in Nat
      BY DEF Typed
    <3>2. /\ Append(powerIds[n], inits[n]) \in Seq(Nat)
          /\ Append(powerIds[n], inits[n])[Len(powerIds[n]) + 1] = inits[n]
          /\ Len(powerIds[n]) + 1 \in 1 .. Len(Append(powerIds[n], inits[n]))
      BY <3>1, AppendProperties
    <3> QED
      BY <3>2, RangeEquality
  <2> QED
    BY <1>2, <1>3, <1>4, <2>1, <2>2
<1>5. CASE "perfInfra" \notin created(k)
  <2>1. UNCHANGED <<livePower, powerIds>>
    BY <1>1, <1>5 DEF SetHtpPerformanceMode
  <2> QED
    BY <1>3, <2>1
<1> QED
  BY <1>4, <1>5

LEMMA StepServed ==
  ASSUME Base, NEW n \in Nodes, Requesting(n), Served(n), Step(n)
  PROVE  Served(n)'
<1>1. Typed /\ Controlled(n)
  BY DEF Base
<1>2. ASSUME executing[n] = {}, executing'[n] = executing[n]
      PROVE  Served(n)'
  BY <1>2 DEF Served
<1>3. ASSUME executing'[n] \subseteq executing[n], registered[n] \subseteq registered'[n],
             handles[n] \subseteq handles'[n]
      PROVE  Served(n)'
  BY <1>3 DEF Served
<1>4. ASSUME NEW p, Range(app[n].keys) \subseteq registered[n],
             executing'[n] \subseteq executing[n] \union {Request(n, p)},
             UNCHANGED <<registered, handles>>
      PROVE  Served(n)'
  <2> DEFINE q == Request(n, p)
  <2>1. q.keys = Range(app[n].keys)
    BY DEF Request
  <2>2. q.profile = ("profile" \in handles[n])
    BY DEF Request
  <2>3. q.profile => "profile" \in handles[n]
    BY <2>2
  <2> HIDE DEF q
  <2>4. \A r \in executing'[n] : r \in executing[n] \/ r = q
    BY <1>4 DEF q
  <2>5. \A r \in executing'[n] : r.keys \subseteq registered'[n]
    BY <1>4, <2>1, <2>4 DEF Served
  <2>6. \A r \in executing'[n] : r.profile => "profile" \in handles'[n]
    BY <1>4, <2>3, <2>4 DEF Served
  <2> QED
    BY <2>5, <2>6 DEF Served
<1>5. CASE Initialize(n)
  <2>1. CASE Initialize_Begin(n) \/ Initialize_End(n)
    BY <1>3, <2>1 DEF Initialize_Begin, Initialize_End
  <2>2. CASE Initialize_Create(n)
    <3>1. unanswered[n] = 0 /\ ~At(n, "executing") /\ UNCHANGED executing
      BY <1>1, <2>2 DEF Initialize_Create, Controlled
    <3> QED
      BY <1>2, <3>1, NothingExecutes
  <2> QED
    BY <1>5, <2>1, <2>2 DEF Initialize
<1>6. CASE Register(n)
  <2>1. registered[n] \subseteq registered'[n] /\ UNCHANGED <<executing, handles>>
    BY <1>1, <1>6
    DEF Typed, Register, Register_Probe, Register_Map, Register_Mem
  <2> QED
    BY <1>3, <2>1
<1>7. CASE Process_Execute(n)
  <2>1. /\ app[n].todo = <<>> /\ Registering(n) /\ state[n] = "RUNNING"
        /\ UNCHANGED <<registered, handles>> /\ executing'[n] = {Request(n, 0)}
    BY <1>1, <1>7 DEF Typed, Process_Execute, Registering
  <2> QED
    BY <1>4, <2>1, RangeNone DEF Requesting
<1>8. CASE Process_Submit(n)
  <2>1. /\ At(n, "submit") /\ UNCHANGED <<registered, handles>>
        /\ executing'[n] \subseteq executing[n] \union {Request(n, app[n].param)}
    BY <1>1, <1>8 DEF Typed, Process_Submit
  <2> QED
    BY <1>4, <2>1 DEF Requesting
<1>9. CASE Process_Begin(n) \/ ValidateTensor(n) \/ Process_Executed(n) \/ Process_Pop(n)
  <2>1. UNCHANGED <<registered, handles>> /\ executing'[n] \subseteq executing[n]
    BY <1>1, <1>9
    DEF Typed, Process_Begin, ValidateTensor, Process_Executed, Process_Pop
  <2> QED
    BY <1>3, <2>1
<1>10. CASE Notify(n)
  <2>1. UNCHANGED <<registered, handles>> /\ executing'[n] \subseteq executing[n]
    BY <1>1, <1>10
    DEF Typed, Notify, Notify_Begin, Notify_Callback, Notify_Push, Notify_Pushed
  <2> QED
    BY <1>3, <2>1
<1>11. CASE Start(n) \/ Stop(n) \/ DeInitialize(n) \/ EnablePerf(n)
  <2>1. UNCHANGED <<registered, executing>> /\ handles[n] \subseteq handles'[n]
    BY <1>1, <1>11 DEF Typed, Start, Stop, DeInitialize, EnablePerf
  <2> QED
    BY <1>3, <2>1
<1>12. CASE DisablePerf(n) \/ DeRegister_One(n) \/ Stop_End(n)
  <2>1. unanswered[n] = 0 /\ ~At(n, "executing") /\ UNCHANGED executing
    BY <1>1, <1>12 DEF DisablePerf, Drained, DeRegister_One, Stop_End, Controlled
  <2> QED
    BY <1>2, <2>1, NothingExecutes
<1>13. CASE Destroy(n)
  BY <1>1, <1>13 DEF Typed, Destroy, Served
<1> QED
  BY <1>5, <1>6, <1>7, <1>8, <1>9, <1>10, <1>11, <1>12, <1>13
  DEF Step, Process, Call, Leave

LEMMA StepHolding ==
  ASSUME Base, NEW n \in Nodes, Holding(n), Step(n)
  PROVE  Holding(n)'
<1> USE DEF Registering
<1>1. Typed /\ Controlled(n) /\ Entering(n)
  BY DEF Base
<1>2. ASSUME UNCHANGED <<state, powerIds, livePower, registered>>,
             handles'[n] = handles[n] \/ handles'[n] = handles[n] \union {"profile"}
               \/ handles'[n] = handles[n] \ {"profile"},
             app'[n].pc # "create", state[n] \in {"READY", "RUNNING"}
      PROVE  Holding(n)'
  BY <1>1, <1>2 DEF Holding, Controlled, Uses
<1>3. CASE Initialize_Begin(n)
  <2>1. app'[n].pc = "create" /\ state[n] = "INITIAL" /\ state'[n] = "INITIALIZING"
        /\ UNCHANGED <<handles, livePower, powerIds>>
    BY <1>1, <1>3, GoMoves DEF Typed, Initialize_Begin
  <2> QED
    BY <2>1 DEF Holding
<1>4. CASE Initialize_Create(n)
  <2>1. /\ handles[n] = {} /\ livePower[n] = {} /\ state[n] = "INITIALIZING"
        /\ UNCHANGED state
    BY <1>1, <1>4 DEF Initialize_Create, Holding, Controlled
  <2>2. app'[n].pc \in {"register", "deregister"}
    BY <1>1, <1>4, CreateMoves
  <2> QED
    BY <1>1, <1>4, <2>1, <2>2, CreateHandles DEF Holding
<1>5. CASE Initialize_End(n)
  <2>1. /\ app'[n] = Idle \/ app'[n].pc = "deregister"
        /\ state'[n] \in {"INITIALIZING", "READY"} /\ state[n] = "INITIALIZING"
        /\ Registering(n) /\ UNCHANGED <<handles, livePower, powerIds>>
    BY <1>1, <1>5, LeaveMoves DEF Typed, Initialize_End
  <2> QED
    BY <2>1 DEF Holding, Idle
<1>6. CASE Register(n)
  <2>1. /\ Registering(n) /\ UNCHANGED <<state, handles, livePower, powerIds>>
        /\ state[n] # "INITIAL"
    BY <1>1, <1>6
    DEF Register, Register_Probe, Register_Map, Register_Mem, Controlled
  <2>2. app'[n].pc # "create"
    <3>1. CASE Register_Probe(n)
      BY <1>1, <3>1, ProbeMoves
    <3>2. CASE Register_Map(n)
      BY <1>1, <3>2, MapMoves, FailMoves DEF Idle
    <3>3. CASE Register_Mem(n)
      BY <1>1, <3>3, MemMoves, FailMoves DEF Idle
    <3> QED
      BY <1>6, <3>1, <3>2, <3>3 DEF Register
  <2> QED
    BY <2>1, <2>2 DEF Holding
<1>7. CASE Process(n)
  <2>1. UNCHANGED <<state, handles, powerIds, livePower, registered>>
    BY <1>7 DEF Process, Process_Begin, ValidateTensor, Process_Execute,
       Process_Executed, Process_Pop, Process_Submit
  <2>2. state[n] = "RUNNING"
    BY <1>1, <1>7 DEF Process, Process_Begin, ValidateTensor, Process_Execute,
       Process_Executed, Process_Pop, Process_Submit, Controlled
  <2>3. app'[n].pc # "create"
    <3>1. CASE Process_Begin(n)
      BY <1>1, <3>1, BeginMoves
    <3>2. CASE Process_Execute(n)
      BY <1>1, <3>2, GoMoves DEF Process_Execute
    <3>3. CASE Process_Pop(n)
      BY <1>1, <3>3, PopMoves DEF Idle
    <3>4. CASE ValidateTensor(n) \/ Process_Executed(n) \/ Process_Submit(n)
      <4>1. app'[n] = Idle
        BY <1>1, <3>4 DEF Typed, ValidateTensor, Process_Executed, Process_Submit
      <4> QED
        BY <4>1 DEF Idle
    <3> QED
      BY <1>7, <3>1, <3>2, <3>3, <3>4 DEF Process
  <2> QED
    BY <1>2, <2>1, <2>2, <2>3
<1>8. CASE Notify(n)
  <2>1. UNCHANGED <<app, state, handles, powerIds, livePower, registered>>
    BY <1>8 DEF Notify, Notify_Begin, Notify_Callback, Notify_Push, Notify_Pushed
  <2> QED
    BY <2>1 DEF Holding
<1>9. CASE EnablePerf(n) \/ DisablePerf(n)
  <2>1. /\ UNCHANGED <<app, state, powerIds, livePower, registered>> /\ At(n, "idle")
        /\ state[n] \in {"READY", "RUNNING"} /\ app'[n].pc # "create"
        /\ \/ handles'[n] = handles[n] \union {"profile"}
           \/ handles'[n] = handles[n] \ {"profile"}
    BY <1>1, <1>9 DEF Typed, EnablePerf, DisablePerf, Profiled
  <2> QED
    BY <1>2, <2>1
<1>10. CASE Start(n) \/ Stop(n) \/ DeInitialize(n)
  <2>1. /\ UNCHANGED <<handles, powerIds, livePower, registered>> /\ At(n, "idle")
        /\ {state[n], state'[n]} \subseteq {"READY", "RUNNING"}
    BY <1>1, <1>10 DEF Typed, Start, Stop, DeInitialize
  <2>2. app'[n].pc \in {"idle", "deregister"}
    <3>1. CASE Start(n)
      BY <3>1 DEF Start
    <3>2. CASE Stop(n) \/ DeInitialize(n)
      BY <1>1, <2>1, <3>2, GoMoves, LeaveMoves DEF Stop, DeInitialize
    <3> QED
      BY <1>10, <3>1, <3>2
  <2> QED
    BY <2>1, <2>2 DEF Holding
<1>11. CASE DeRegister_One(n)
  <2>1. At(n, "deregister") /\ state[n] # "INITIAL" /\ UNCHANGED <<app, state, handles, powerIds, livePower>>
    BY <1>1, <1>11 DEF DeRegister_One, Controlled
  <2> QED
    BY <2>1 DEF Holding
<1>12. CASE Destroy(n)
  <2>1. /\ handles'[n] = {} /\ state'[n] = "INITIAL" /\ registered'[n] = {}
        /\ app'[n] = Idle /\ UNCHANGED powerIds
    BY <1>1, <1>12 DEF Typed, Destroy, Released
  <2>2. livePower'[n] = {}
    BY <1>1, <1>12 DEF Typed, Destroy, Holding
  <2> QED
    BY <2>1, <2>2 DEF Holding, Idle
<1>13. CASE Stop_End(n)
  <2>1. /\ state[n] = "RUNNING" /\ state'[n] = "READY" /\ app'[n] = Idle
        /\ UNCHANGED <<handles, powerIds, livePower, registered>>
    BY <1>1, <1>13 DEF Typed, Stop_End, Controlled
  <2> QED
    BY <2>1 DEF Holding, Idle
<1> QED
  BY <1>3, <1>4, <1>5, <1>6, <1>7, <1>8, <1>9, <1>10, <1>11, <1>12, <1>13
  DEF Step, Initialize, Call, Leave

LEMMA StepGraph ==
  ASSUME Base, NEW n \in Nodes, Graph(n), Step(n)
  PROVE  Graph(n)'
<1>1. Typed /\ Controlled(n) /\ config' = config /\ OneForm' = OneForm
  BY StepFrame DEF Base, Frame, OneForm
<1>2. ASSUME UNCHANGED <<load, graphsInfo, freedTwice>>,
             state'[n] = state[n] \/ {state[n], state'[n]} \subseteq {"INITIALIZING", "READY", "RUNNING"}
      PROVE  Graph(n)'
  BY <1>1, <1>2 DEF Graph
<1>3. CASE Initialize_Begin(n)
  <2>1. /\ state[n] = "INITIAL" /\ state'[n] = "INITIALIZING" /\ load'[n] \in config.loads
        /\ UNCHANGED <<graphsInfo, freedTwice>>
    BY <1>1, <1>3 DEF Typed, Initialize_Begin
  <2> QED
    BY <1>1, <2>1 DEF Graph
<1>4. CASE Initialize_Create(n)
  <2>1. /\ \/ graphsInfo'[n] = IF load[n] = "Binary" THEN "copied" ELSE "composed"
           \/ UNCHANGED graphsInfo
        /\ UNCHANGED <<state, load, freedTwice>> /\ state[n] # "INITIAL"
    BY <1>1, <1>4 DEF Typed, Initialize_Create, Controlled
  <2> QED
    BY <1>1, <2>1 DEF Graph, OneForm
<1>5. CASE Destroy(n)
  <2>1. state'[n] = "INITIAL" /\ state[n] # "INITIAL" /\ UNCHANGED load
    BY <1>1, <1>5 DEF Typed, Destroy, Controlled
  <2>2. load[n] \in config.loads /\ load[n] \in Loads /\ graphsInfo[n] \in Graphs
    BY <1>1, <2>1 DEF Typed, Graph
  <2>3. CASE load[n] = "Binary" /\ graphsInfo[n] # "null"
    <3>1. /\ graphsInfo'[n] = "null"
          /\ graphsInfo[n] = "copied" => freedTwice' = freedTwice
      BY <1>1, <1>5, <2>3 DEF Typed, Destroy, FreeGraphsInfo
    <3> QED
      BY <1>1, <2>1, <2>2, <2>3, <3>1 DEF Graph
  <2>4. CASE ~(load[n] = "Binary" /\ graphsInfo[n] # "null")
    <3>1. /\ graphsInfo'[n] = IF graphsInfo[n] = "null" THEN "null" ELSE "unloaded"
          /\ UNCHANGED freedTwice
      BY <1>1, <1>5, <2>4 DEF Typed, Destroy, FreeGraphsInfo
    <3>2. graphsInfo[n] # "null" => load[n] = "SharedObject"
      BY <2>2, <2>4 DEF Loads
    <3> QED
      BY <1>1, <2>1, <2>2, <3>1, <3>2 DEF Graph, OneForm
  <2> QED
    BY <2>3, <2>4
<1>6. CASE Initialize_End(n) \/ Register(n)
  BY <1>1, <1>2, <1>6 DEF Typed, Initialize_End, Register, Register_Probe, Register_Map,
     Register_Mem
<1>7. CASE Process(n) \/ Notify(n)
  BY <1>2, <1>7 DEF Process, Process_Begin, ValidateTensor, Process_Execute,
     Process_Executed, Process_Pop, Process_Submit, Notify, Notify_Begin,
     Notify_Callback, Notify_Push, Notify_Pushed
<1>8. CASE Call(n)
  BY <1>1, <1>2, <1>8 DEF Typed, Call, Start, Stop, DeInitialize, EnablePerf, DisablePerf
<1>9. CASE DeRegister_One(n) \/ Stop_End(n)
  <2>1. UNCHANGED <<load, graphsInfo, freedTwice>>
        /\ (state'[n] = state[n] \/ state'[n] = "READY") /\ state[n] # "INITIAL"
    BY <1>1, <1>9 DEF Typed, DeRegister_One, Stop_End, Controlled
  <2>2. state[n] \in {"INITIAL", "INITIALIZING", "READY", "RUNNING"}
    BY <1>1 DEF Typed
  <2> QED
    BY <1>2, <2>1, <2>2
<1> QED
  BY <1>3, <1>4, <1>5, <1>6, <1>7, <1>8, <1>9 DEF Step, Initialize, Leave

(* All that belongs to one node, and what it implies. *)
Owned == /\ OneForm => ~freedTwice
         /\ \A n \in Nodes : Requesting(n) /\ Served(n) /\ Holding(n) /\ Graph(n)

LEMMA OwnedStep ==
  ASSUME Base, Owned, NEW n \in Nodes, Step(n)
  PROVE  Owned'
<1>1. Typed /\ Frame(n) /\ Nodes' = Nodes
  BY StepFrame DEF Base, Frame, Nodes
<1>2. Requesting(n)' /\ Served(n)' /\ Holding(n)' /\ Graph(n)'
  BY StepRequesting, StepServed, StepHolding, StepGraph DEF Owned
<1>3. OneForm' = OneForm /\ config' = config /\ (OneForm => freedTwice' = freedTwice)
  <2>1. OneForm' = OneForm /\ config' = config
    BY <1>1 DEF Frame, OneForm
  <2>2. OneForm => ~freedTwice /\ ~freedTwice'
    BY <1>2, <2>1 DEF Owned, Graph
  <2>3. freedTwice \in BOOLEAN /\ freedTwice' \in BOOLEAN
    BY <1>1, StepObjects DEF Typed, ObjectsTyped
  <2> QED
    BY <2>1, <2>2, <2>3
<1>4. ASSUME NEW m \in Nodes, m # n
      PROVE  Requesting(m)' /\ Served(m)' /\ Holding(m)' /\ Graph(m)'
  <2>1. Requesting(m) /\ Served(m) /\ Holding(m) /\ Graph(m)
    BY DEF Owned
  <2>2. /\ app'[m] = app[m] /\ state'[m] = state[m] /\ executing'[m] = executing[m]
        /\ registered'[m] = registered[m] /\ handles'[m] = handles[m]
        /\ livePower'[m] = livePower[m] /\ powerIds'[m] = powerIds[m]
        /\ load'[m] = load[m] /\ graphsInfo'[m] = graphsInfo[m]
    BY <1>1, <1>4, FrameOthers
  <2>3. Requesting(m)' /\ Served(m)'
    BY <2>1, <2>2 DEF Requesting, Served, Registering
  <2>4. Holding(m)'
    BY <2>1, <2>2 DEF Holding, Registering
  <2>5. Graph(m)'
    BY <1>3, <2>1, <2>2 DEF Graph
  <2> QED
    BY <2>3, <2>4, <2>5
<1>5. OneForm' => ~freedTwice'
  BY <1>2 DEF Graph
<1> QED
  BY <1>1, <1>2, <1>4, <1>5 DEF Owned

LEMMA OwnedStutter == Owned /\ UNCHANGED vars => Owned'
<1> SUFFICES ASSUME Owned, UNCHANGED vars PROVE Owned'
  OBVIOUS
<1>1. Nodes' = Nodes /\ OneForm' = OneForm /\ freedTwice' = freedTwice
  BY DEF vars, Nodes, OneForm
<1>2. ASSUME NEW n \in Nodes
      PROVE  Requesting(n)' /\ Served(n)' /\ Holding(n)' /\ Graph(n)'
  <2>1. Requesting(n) /\ Served(n) /\ Holding(n) /\ Graph(n)
    BY DEF Owned
  <2> QED
    BY <1>1, <2>1 DEF vars, Requesting, Served, Holding, Graph, Registering
<1> QED
  BY <1>1, <1>2 DEF Owned

LEMMA OwnedInit == Init => Owned
<1> SUFFICES ASSUME Init, NEW n \in Nodes
             PROVE  Requesting(n) /\ Served(n) /\ Holding(n) /\ Graph(n)
  BY DEF Owned, Init
<1>1. /\ app[n] = Idle /\ state[n] = "INITIAL" /\ executing[n] = {}
      /\ handles[n] = {} /\ livePower[n] = {} /\ registered[n] = {}
      /\ graphsInfo[n] = "null" /\ freedTwice = FALSE
  BY DEF Init
<1> QED
  BY <1>1 DEF Requesting, Served, Holding, Graph, Registering, Idle

LEMMA OwnedHolds == Spec => [](Base /\ Owned)
<1>1. Base /\ Owned /\ [Next]_vars => Base' /\ Owned'
  BY BaseStep, BaseStutter, OwnedStep, OwnedStutter, NextStep
<1> QED
  BY <1>1, BaseInit, OwnedInit, PTL DEF Spec

(***************************************************************************)
(* A node that is INITIAL again has nothing of QNN any more, however its   *)
(* Initialize failed and whatever the other nodes did; and the information *)
(* on the graph was freed once, given that a node is always given models   *)
(* of the same form.  (Destroy, FreeGraphsInfo.)                           *)
(***************************************************************************)
THEOREM NodeRetainsNothing ==
  ASSUME \A c \in Configs : \A x, y \in c.loads : x = y
  PROVE  Spec => []NothingRetained
<1>1. ASSUME Base, Owned PROVE NothingRetained
  <2>1. OneForm
    BY <1>1 DEF Base, Typed, OneForm
  <2>2. ASSUME NEW n \in Nodes, state[n] = "INITIAL"
        PROVE  /\ handles[n] = {} /\ livePower[n] = {} /\ registered[n] = {}
               /\ graphsInfo[n] # "copied"
    <3>1. Holding(n) /\ Graph(n)
      BY <1>1 DEF Owned
    <3> QED
      BY <2>2, <3>1 DEF Holding, Graph
  <2> QED
    BY <1>1, <2>1, <2>2 DEF NothingRetained, Owned
<1> QED
  BY <1>1, OwnedHolds, PTL


-----------------------------------------------------------------------------
(* The references of the mapped buffers *)

(* What a step does to the tensors of n that are registered or to come. *)
LEMMA StepTensors ==
  ASSUME Base, NEW n \in Nodes, Step(n)
  PROVE  /\ \/ registered'[n] \subseteq registered[n]
            \/ /\ app[n].todo # <<>>
               /\ registered'[n] = registered[n] \union {Tensor(n)}
         /\ \/ app'[n].todo \in {app[n].todo, <<>>, config.early[n]}
            \/ app'[n].todo \in config.frames[n]
            \/ app[n].todo # <<>> /\ app'[n].todo = Tail(app[n].todo)
<1>1. Typed /\ Entering(n) /\ Controlled(n)
  BY DEF Base
<1>2. CASE Initialize(n)
  <2>1. UNCHANGED registered
    BY <1>2 DEF Initialize, Initialize_Begin, Initialize_Create, Initialize_End
  <2>2. app'[n].todo \in {app[n].todo, <<>>, config.early[n]}
    <3>1. CASE Initialize_Begin(n)
      BY <1>1, <3>1, GoMoves DEF Initialize_Begin
    <3>2. CASE Initialize_Create(n)
      BY <1>1, <3>2, CreateMoves
    <3>3. CASE Initialize_End(n)
      <4>1. \/ app'[n] = Idle
            \/ app' = [app EXCEPT ![n].pc = "deregister", ![n].failed = TRUE]
        BY <1>1, <3>3 DEF Typed, Initialize_End
      <4> QED
        BY <1>1, <4>1, LeaveMoves DEF Idle
    <3> QED
      BY <1>2, <3>1, <3>2, <3>3 DEF Initialize
  <2> QED
    BY <2>1, <2>2
<1>3. CASE Register(n)
  <2>1. CASE Register_Probe(n)
    BY <1>1, <2>1, ProbeMoves DEF Register_Probe
  <2>2. CASE Register_Map(n)
    <3>1. UNCHANGED registered
      BY <2>2 DEF Register_Map
    <3> QED
      BY <1>1, <2>2, <3>1, MapMoves, FailMoves
  <2>3. CASE Register_Mem(n)
    <3>1. app[n].todo # <<>> /\ registered \in [Nodes -> SUBSET Tensors]
      BY <1>1, <2>3 DEF Register_Mem, Entering, InTables, Typed
    <3>2. CASE RegisterFails(n) /\ UNCHANGED registered
      BY <1>1, <3>2, FailMoves
    <3>3. CASE /\ app'[n].todo = Tail(app[n].todo)
               /\ registered' = [registered EXCEPT ![n] = @ \union {Tensor(n)}]
      BY <3>1, <3>3
    <3> QED
      BY <1>1, <2>3, <3>2, <3>3, MemMoves
  <2> QED
    BY <1>3, <2>1, <2>2, <2>3 DEF Register
<1>4. CASE Process(n)
  <2>1. UNCHANGED registered
    BY <1>4 DEF Process, Process_Begin, ValidateTensor, Process_Execute,
       Process_Executed, Process_Pop, Process_Submit
  <2>2. CASE Process_Begin(n)
    BY <1>1, <2>1, <2>2, BeginMoves
  <2>3. CASE Process_Execute(n)
    BY <1>1, <2>1, <2>3, GoMoves DEF Process_Execute
  <2>4. CASE Process_Pop(n)
    <3>1. app[n].todo = <<>> /\ app'[n].todo \in {<<>>, app[n].todo}
      <4>1. CASE IsEmpty(queue[n])
        BY <1>1, <2>4, <4>1 DEF Process_Pop, Typed, Idle
      <4>2. CASE ~IsEmpty(queue[n])
        <5> DEFINE p == queue[n].ring[Slot(queue[n].pop)]
        <5>1. app' = [app EXCEPT ![n].pc = "submit", ![n].param = p]
          BY <2>4, <4>2 DEF Process_Pop
        <5> HIDE DEF p
        <5>2. app[n] \in Calls /\ app'[n] = [app[n] EXCEPT !.pc = "submit", !.param = p]
          BY <1>1, <5>1 DEF Typed
        <5> QED
          BY <2>4, <5>2 DEF Calls, Process_Pop
      <4> QED
        BY <2>4, <4>1, <4>2 DEF Process_Pop
    <3> QED
      BY <2>1, <3>1
  <2>5. CASE ValidateTensor(n) \/ Process_Executed(n) \/ Process_Submit(n)
    <3>1. app'[n] = Idle
      BY <1>1, <2>5 DEF Typed, ValidateTensor, Process_Executed, Process_Submit
    <3> QED
      BY <2>1, <3>1 DEF Idle
  <2> QED
    BY <1>4, <2>2, <2>3, <2>4, <2>5 DEF Process
<1>5. CASE Notify(n)
  BY <1>5 DEF Notify, Notify_Begin, Notify_Callback, Notify_Push, Notify_Pushed
<1>6. CASE Call(n)
  <2>1. UNCHANGED registered
    BY <1>6 DEF Call, Start, Stop, DeInitialize, EnablePerf, DisablePerf
  <2>2. app'[n].todo = app[n].todo
    <3>1. CASE Stop(n)
      BY <1>1, <3>1, GoMoves DEF Stop
    <3>2. CASE DeInitialize(n)
      BY <1>1, <3>2, LeaveMoves DEF DeInitialize
    <3> QED
      BY <1>6, <3>1, <3>2 DEF Call, Start, EnablePerf, DisablePerf
  <2> QED
    BY <2>1, <2>2
<1>7. CASE Leave(n)
  <2>1. registered'[n] \subseteq registered[n]
    BY <1>1, <1>7 DEF Typed, Leave, DeRegister_One, Destroy, Stop_End
  <2>2. app'[n] = Idle \/ UNCHANGED app
    BY <1>1, <1>7 DEF Typed, Leave, DeRegister_One, Destroy, Stop_End
  <2> QED
    BY <2>1, <2>2 DEF Idle
<1> QED
  BY <1>2, <1>3, <1>4, <1>5, <1>6, <1>7 DEF Step

(* Without offsets in the frames there are none in the tables. *)
LEMMA StepWholeTensors ==
  ASSUME Base, NEW n \in Nodes, WholeTensors, Step(n)
  PROVE  WholeTensors'
<1>1. Typed /\ Frame(n) /\ Nodes' = Nodes /\ WholeBuffers' = WholeBuffers
  BY StepFrame DEF Base, Frame, Nodes, WholeBuffers
<1> SUFFICES ASSUME WholeBuffers, NEW m \in Nodes
             PROVE  Whole(registered'[m]) /\ Whole(Range(app'[m].todo))
  BY <1>1 DEF WholeTensors
<1>2. Whole(registered[m]) /\ Whole(Range(app[m].todo))
  BY DEF WholeTensors
<1>3. CASE m # n
  BY <1>1, <1>2, <1>3, FrameOthers
<1>4. CASE m = n
  <2>1. app[n].todo # <<>> => /\ Range(app[n].todo) = {Tensor(n)} \union Range(Tail(app[n].todo))
    BY <1>1, TodoTail
  <2>2. Whole(registered'[n])
    BY <1>2, <1>4, <2>1, StepTensors DEF Whole
  <2>3. /\ \A f \in config.frames[n] : Whole(Range(f))
        /\ Whole(Range(config.early[n])) /\ Whole({})
    BY DEF WholeBuffers, Whole, Range
  <2>4. Whole(Range(app'[n].todo))
    <3>1. CASE app'[n].todo \in {app[n].todo, <<>>, config.early[n]}
      BY <1>2, <1>4, <2>3, <3>1, RangeNone
    <3>2. CASE app'[n].todo \in config.frames[n]
      BY <2>3, <3>2
    <3>3. CASE app[n].todo # <<>> /\ app'[n].todo = Tail(app[n].todo)
      BY <1>2, <1>4, <2>1, <3>3 DEF Whole
    <3> QED
      BY <3>1, <3>2, <3>3, StepTensors
  <2> QED
    BY <1>4, <2>2, <2>4
<1> QED
  BY <1>3, <1>4


(* A reference that is kept: nothing is registered and none is to come. *)
LEMMA CountKept ==
  ASSUME Base, NEW n \in Nodes, NEW b \in config.buffers, Counted(b), Frame(n),
         UNCHANGED <<refs, mapped, registered>>,
         ~At(n, "memRegister"), app'[n].pc # "memRegister"
  PROVE  Counted(b)'
<1>1. Nodes' = Nodes /\ Tensors' = Tensors /\ WholeBuffers' = WholeBuffers
  BY DEF Frame, Nodes, Tensors, WholeBuffers
<1>2. Entries(b)' = Entries(b)
  BY <1>1 DEF Entries
<1>3. \A m \in Nodes \ {n} : app'[m] = app[m]
  BY FrameOthers DEF Base
<1>4. Coming(b)' = Coming(b)
  BY <1>1, <1>3 DEF Coming, Tensor
<1> QED
  BY <1>1, <1>2, <1>4 DEF Counted, Needed

(* The cardinalities of what is needed. *)
LEMMA NeededFacts ==
  ASSUME Base, NEW b \in config.buffers, Counted(b)
  PROVE  /\ IsFiniteSet(Entries(b)) /\ Cardinality(Entries(b)) \in Nat
         /\ IsFiniteSet(Coming(b)) /\ Cardinality(Coming(b)) \in Nat
         /\ refs \in [config.buffers -> Nat] /\ refs[b] \in Nat
<1>1. IsFiniteSet(Nodes) /\ refs \in [config.buffers -> Nat]
  BY ConfigFacts DEF Base, Typed
<1>2. Coming(b) \subseteq Nodes
  BY DEF Coming
<1>3. IsFiniteSet(Coming(b)) /\ IsFiniteSet(Entries(b))
  BY <1>1, <1>2, FS_Subset DEF Counted
<1> QED
  BY <1>1, <1>3, FS_CardinalityType

(* A registration that has its buffer mapped is one more that needs it. *)
LEMMA CountMapped ==
  ASSUME Base, NEW n \in Nodes, NEW b \in config.buffers, Counted(b), config.serial,
         Register_Map(n)
  PROVE  Counted(b)'
<1>1. Typed /\ Frame(n) /\ Entering(n)
  BY StepFrame DEF Base, Step, Register
<1>2. Nodes' = Nodes /\ Tensors' = Tensors /\ WholeBuffers' = WholeBuffers
  BY <1>1 DEF Frame, Nodes, Tensors, WholeBuffers
<1>3. \A m \in Nodes \ {n} : app'[m] = app[m]
  BY <1>1, FrameOthers
<1>4. app[n] \in Calls /\ app \in [Nodes -> Calls] /\ refs \in [config.buffers -> Nat]
  BY <1>1 DEF Typed
<1> DEFINE c == Buffer(Tensor(n))
<1>5. c \in config.buffers /\ At(n, "map") /\ UNCHANGED registered
  BY <1>1, TensorType DEF Register_Map, Entering, InTables
<1>6. app[n].seen <=> c \in mapped
  BY <1>1, <1>5 DEF Entering, InTables
<1>7. \/ RegisterFails(n) /\ UNCHANGED <<refs, mapped>>
      \/ /\ app' = [app EXCEPT ![n].pc = "memRegister"]
         /\ c \in mapped => refs' = [refs EXCEPT ![c] = IF @ > 0 THEN @ + 1 ELSE @]
         /\ c \notin mapped => refs' = [refs EXCEPT ![c] = 1]
         /\ mapped' = mapped \union {c}
  <2>1. CASE app[n].seen
    BY <1>6, <2>1 DEF Register_Map, AddReference
  <2>2. CASE ~app[n].seen
    BY <1>6, <2>2 DEF Register_Map
  <2> QED
    BY <2>1, <2>2
<1>8. CASE RegisterFails(n) /\ UNCHANGED <<refs, mapped>>
  <2>1. app'[n].pc # "memRegister"
    BY <1>1, <1>8, FailMoves DEF Idle
  <2> QED
    BY <1>1, <1>5, <1>8, <2>1, CountKept
<1>9. CASE /\ app' = [app EXCEPT ![n].pc = "memRegister"]
           /\ c \in mapped => refs' = [refs EXCEPT ![c] = IF @ > 0 THEN @ + 1 ELSE @]
           /\ c \notin mapped => refs' = [refs EXCEPT ![c] = 1]
           /\ mapped' = mapped \union {c}
  <2>1. app'[n].pc = "memRegister" /\ app'[n].todo = app[n].todo
    BY <1>1, <1>9, GoMoves
  <2>2. Entries(b)' = Entries(b)
    BY <1>2, <1>5 DEF Entries
  <2>3. n \notin Coming(b)
    BY <1>5 DEF Coming
  <2>4. CASE b = c
    <3>1. Coming(b)' = Coming(b) \union {n}
      <4>1. ASSUME NEW m \in Nodes PROVE m \in Coming(b)' <=> m \in Coming(b) \union {n}
        BY <1>2, <1>3, <2>1, <2>4 DEF Coming, Tensor
      <4> QED
        BY <1>2, <4>1 DEF Coming
    <3>2. Cardinality(Coming(b)') = Cardinality(Coming(b)) + 1
      BY <2>3, <3>1, NeededFacts, FS_AddElement
    <3>3. refs[b] \in Nat /\ refs'[b] = refs[b] + 1 /\ b \in mapped'
      <4>1. CASE b \in mapped
        BY <1>4, <1>9, <2>4, <4>1 DEF Counted
      <4>2. CASE b \notin mapped
        <5>1. refs[b] = 0
          BY <1>4, <4>2 DEF Counted
        <5> QED
          BY <1>4, <1>9, <2>4, <4>2, <5>1
      <4> QED
        BY <4>1, <4>2
    <3> QED
      BY <1>2, <2>2, <3>2, <3>3, NeededFacts DEF Counted, Needed
  <2>5. CASE b # c
    <3>1. Coming(b)' = Coming(b)
      <4>1. ASSUME NEW m \in Nodes PROVE m \in Coming(b)' <=> m \in Coming(b)
        BY <1>2, <1>3, <2>1, <2>3, <2>5 DEF Coming, Tensor
      <4> QED
        BY <1>2, <4>1 DEF Coming
    <3>2. refs'[b] = refs[b] /\ (b \in mapped' <=> b \in mapped)
      BY <1>4, <1>9, <2>5
    <3> QED
      BY <1>2, <2>2, <3>1, <3>2 DEF Counted, Needed
  <2> QED
    BY <2>4, <2>5
<1> QED
  BY <1>7, <1>8, <1>9

(* RemoteDeRegisterBuf takes one reference, if there is one. *)
LEMMA CountReleased ==
  ASSUME Base, NEW b \in config.buffers, Counted(b), NEW c \in config.buffers,
         RemoteDeRegisterBuf(c)
  PROVE  /\ refs'[b] = IF b = c /\ refs[b] > 0 THEN refs[b] - 1 ELSE refs[b]
         /\ refs'[b] \in Nat
         /\ b \in mapped' <=> refs'[b] > 0
<1>1. refs \in [config.buffers -> Nat] /\ refs[b] \in Nat
  BY NeededFacts
<1>2. refs'[b] = IF b = c /\ refs[b] > 0 THEN refs[b] - 1 ELSE refs[b]
  BY <1>1 DEF RemoteDeRegisterBuf
<1>3. b \in mapped' <=> b \in mapped /\ ~(b = c /\ refs[b] = 1)
  BY DEF RemoteDeRegisterBuf
<1> QED
  BY <1>1, <1>2, <1>3 DEF Counted

(* A registration ends: its tensor is entered, or its reference given back. *)
LEMMA CountRegistered ==
  ASSUME Base, NEW n \in Nodes, NEW b \in config.buffers, Counted(b), Register_Mem(n)
  PROVE  Counted(b)'
<1>1. Typed /\ Frame(n) /\ Entering(n)
  BY StepFrame DEF Base, Step, Register
<1>2. Nodes' = Nodes /\ Tensors' = Tensors /\ WholeBuffers' = WholeBuffers
  BY <1>1 DEF Frame, Nodes, Tensors, WholeBuffers
<1>3. \A m \in Nodes \ {n} : app'[m] = app[m]
  BY <1>1, FrameOthers
<1> DEFINE t == Tensor(n)
<1>4. t \in Tensors /\ Buffer(t) \in config.buffers /\ At(n, "memRegister") /\ t \notin registered[n]
      /\ registered \in [Nodes -> SUBSET Tensors]
  BY <1>1, TensorType DEF Register_Mem, Entering, InTables, Typed
<1>5. app'[n].pc # "memRegister"
  BY <1>1, MemMoves, FailMoves DEF Idle
<1>6. /\ n \notin Coming(b)'
      /\ n \in Coming(b) <=> b = Buffer(t)
      /\ \A m \in Nodes \ {n} : m \in Coming(b)' <=> m \in Coming(b)
  BY <1>2, <1>3, <1>4, <1>5 DEF Coming, Tensor
<1>7. Coming(b)' = Coming(b) \ {n}
  BY <1>2, <1>6 DEF Coming
<1>8. Cardinality(Coming(b)') = IF b = Buffer(t) THEN Cardinality(Coming(b)) - 1
                                               ELSE Cardinality(Coming(b))
  <2>1. CASE b = Buffer(t)
    <3>1. IsFiniteSet(Coming(b)) /\ n \in Coming(b)
      BY <1>6, <2>1, NeededFacts
    <3> QED
      BY <1>7, <2>1, <3>1, FS_RemoveElement
  <2>2. CASE b # Buffer(t)
    <3>1. Coming(b)' = Coming(b)
      BY <1>6, <1>7, <2>2
    <3> QED
      BY <2>2, <3>1
  <2> QED
    BY <2>1, <2>2
<1>9. b = Buffer(t) => Cardinality(Coming(b)) > 0
  <2>1. b = Buffer(t) => Coming(b) # {}
    BY <1>6
  <2> QED
    BY <2>1, NeededFacts, FS_EmptySet
<1> HIDE DEF t
<1>10. CASE RemoteDeRegisterBuf(Buffer(t)) /\ UNCHANGED registered
  <2>1. Entries(b)' = Entries(b)
    BY <1>2, <1>10 DEF Entries
  <2>2. /\ refs'[b] = IF b = Buffer(t) /\ refs[b] > 0 THEN refs[b] - 1 ELSE refs[b]
        /\ refs'[b] \in Nat
        /\ b \in mapped' <=> refs'[b] > 0
    BY <1>4, <1>10, CountReleased
  <2> QED
    BY <1>2, <1>8, <1>9, <2>1, <2>2, NeededFacts DEF Counted, Needed
<1>11. CASE /\ registered' = [registered EXCEPT ![n] = @ \union {t}]
            /\ UNCHANGED <<refs, mapped>>
  <2>1. registered'[n] = registered[n] \union {t} /\ \A m \in Nodes \ {n} : registered'[m] = registered[m]
    BY <1>4, <1>11
  <2>2. CASE b = Buffer(t)
    <3>1. <<n, t>> \notin Entries(b)
      BY <1>4 DEF Entries
    <3>2. Entries(b)' = Entries(b) \union {<<n, t>>}
      <4>1. ASSUME NEW m \in Nodes, NEW u \in Tensors
            PROVE  <<m, u>> \in Entries(b)' <=> <<m, u>> \in Entries(b) \union {<<n, t>>}
        BY <1>2, <1>4, <2>1, <2>2 DEF Entries
      <4>2. Entries(b)' \subseteq Nodes \X Tensors /\ Entries(b) \union {<<n, t>>} \subseteq Nodes \X Tensors
        BY <1>2, <1>4 DEF Entries
      <4> QED
        BY <4>1, <4>2
    <3>3. IsFiniteSet(Entries(b)') /\ Cardinality(Entries(b)') = Cardinality(Entries(b)) + 1
      <4> DEFINE e == <<n, t>>
      <4>1. e \notin Entries(b) /\ Entries(b)' = Entries(b) \union {e}
        BY <3>1, <3>2
      <4> HIDE DEF e
      <4>2. IsFiniteSet(Entries(b))
        BY NeededFacts
      <4> QED
        BY <4>1, <4>2, FS_AddElement
    <3> QED
      BY <1>2, <1>8, <1>11, <2>2, <3>3, NeededFacts DEF Counted, Needed
  <2>3. CASE b # Buffer(t)
    <3>1. Entries(b)' = Entries(b)
      <4>1. ASSUME NEW m \in Nodes, NEW u \in Tensors
            PROVE  <<m, u>> \in Entries(b)' <=> <<m, u>> \in Entries(b)
        BY <1>2, <1>4, <2>1, <2>3 DEF Entries
      <4>2. Entries(b)' \subseteq Nodes \X Tensors /\ Entries(b) \subseteq Nodes \X Tensors
        BY <1>2 DEF Entries
      <4> QED
        BY <4>1, <4>2
    <3> QED
      BY <1>2, <1>8, <1>11, <2>3, <3>1 DEF Counted, Needed
  <2> QED
    BY <2>2, <2>3
<1> QED
  BY <1>1, <1>10, <1>11, MemMoves DEF t


(* A tensor is deregistered; its reference stays behind if it has an offset. *)
LEMMA CountDeRegistered ==
  ASSUME Base, NEW n \in Nodes, NEW b \in config.buffers, Counted(b), WholeTensors,
         DeRegister_One(n)
  PROVE  Counted(b)'
<1>1. Typed /\ Frame(n)
  BY StepFrame DEF Base, Step, Leave
<1>2. Nodes' = Nodes /\ Tensors' = Tensors /\ WholeBuffers' = WholeBuffers
  BY <1>1 DEF Frame, Nodes, Tensors, WholeBuffers
<1>3. UNCHANGED app /\ registered \in [Nodes -> SUBSET Tensors]
  BY <1>1 DEF DeRegister_One, Typed
<1>4. Coming(b)' = Coming(b)
  BY <1>2, <1>3 DEF Coming, Tensor
<1>5. PICK t \in registered[n] :
        /\ registered' = [registered EXCEPT ![n] = @ \ {t}]
        /\ IF Offset(t) = 0 THEN RemoteDeRegisterBuf(Buffer(t))
                            ELSE UNCHANGED <<refs, mapped>>
  BY DEF DeRegister_One
<1>6. t \in Tensors /\ Buffer(t) \in config.buffers
  BY <1>3 DEF Tensors, Buffer
<1>7. /\ registered'[n] = registered[n] \ {t}
      /\ \A m \in Nodes \ {n} : registered'[m] = registered[m]
  BY <1>3, <1>5
<1>8. WholeBuffers => Offset(t) = 0
  BY <1>5 DEF WholeTensors, Whole
<1>9. /\ b \in mapped' <=> refs'[b] > 0
      /\ refs'[b] \in Nat
      /\ refs'[b] = IF Offset(t) = 0 /\ b = Buffer(t) /\ refs[b] > 0
                    THEN refs[b] - 1 ELSE refs[b]
  <2>1. CASE Offset(t) = 0
    BY <1>5, <1>6, <2>1, CountReleased
  <2>2. CASE Offset(t) # 0
    BY <1>5, <2>2, NeededFacts DEF Counted
  <2> QED
    BY <2>1, <2>2
<1> DEFINE e == <<n, t>>
<1>10. Entries(b)' = Entries(b) \ {e}
  <2>1. ASSUME NEW m \in Nodes, NEW u \in Tensors
        PROVE  <<m, u>> \in Entries(b)' <=> <<m, u>> \in Entries(b) \ {e}
    BY <1>2, <1>7 DEF Entries
  <2>2. Entries(b)' \subseteq Nodes \X Tensors /\ Entries(b) \subseteq Nodes \X Tensors
    BY <1>2 DEF Entries
  <2> QED
    BY <2>1, <2>2
<1>11. e \in Entries(b) <=> b = Buffer(t)
  BY <1>5, <1>6 DEF Entries
<1> HIDE DEF e
<1>12. CASE b = Buffer(t)
  <2>1. IsFiniteSet(Entries(b)) /\ e \in Entries(b)
    BY <1>11, <1>12, NeededFacts
  <2>2. /\ IsFiniteSet(Entries(b)')
        /\ Cardinality(Entries(b)') = Cardinality(Entries(b)) - 1
        /\ Cardinality(Entries(b)) > 0
    BY <1>10, <2>1, RequestTaken
  <2> QED
    BY <1>2, <1>4, <1>8, <1>9, <1>12, <2>2, NeededFacts DEF Counted, Needed
<1>13. CASE b # Buffer(t)
  <2>1. Entries(b)' = Entries(b)
    BY <1>10, <1>11, <1>13
  <2> QED
    BY <1>2, <1>4, <1>9, <1>13, <2>1 DEF Counted, Needed
<1> QED
  BY <1>12, <1>13

LEMMA StepCounted ==
  ASSUME Base, NEW n \in Nodes, NEW b \in config.buffers, Counted(b), WholeTensors,
         config.serial, Step(n)
  PROVE  Counted(b)'
<1>1. Typed /\ Frame(n) /\ Controlled(n)
  BY StepFrame DEF Base
<1>2. CASE Initialize(n)
  <2>1. UNCHANGED <<refs, mapped, registered>> /\ ~At(n, "memRegister")
    BY <1>2 DEF Initialize, Initialize_Begin, Initialize_Create, Initialize_End
  <2>2. app'[n].pc # "memRegister"
    <3>1. CASE Initialize_Begin(n)
      BY <1>1, <3>1, GoMoves DEF Initialize_Begin
    <3>2. CASE Initialize_Create(n)
      BY <1>1, <3>2, CreateMoves
    <3>3. CASE Initialize_End(n)
      <4>1. app'[n] = Idle \/ app'[n].pc = "deregister"
        BY <1>1, <3>3, LeaveMoves DEF Typed, Initialize_End
      <4> QED
        BY <4>1 DEF Idle
    <3> QED
      BY <1>2, <3>1, <3>2, <3>3 DEF Initialize
  <2> QED
    BY <1>1, <2>1, <2>2, CountKept
<1>3. CASE Register_Probe(n)
  <2>1. UNCHANGED <<refs, mapped, registered>> /\ ~At(n, "memRegister")
        /\ app'[n].pc # "memRegister"
    BY <1>1, <1>3, ProbeMoves DEF Register_Probe
  <2> QED
    BY <1>1, <2>1, CountKept
<1>4. CASE Process(n)
  <2>1. UNCHANGED <<refs, mapped, registered>> /\ ~At(n, "memRegister")
    BY <1>4 DEF Process, Process_Begin, ValidateTensor, Process_Execute,
       Process_Executed, Process_Pop, Process_Submit
  <2>2. app'[n].pc # "memRegister"
    <3>1. CASE Process_Begin(n)
      BY <1>1, <3>1, BeginMoves
    <3>2. CASE Process_Execute(n)
      BY <1>1, <3>2, GoMoves DEF Process_Execute
    <3>3. CASE Process_Pop(n)
      BY <1>1, <3>3, PopMoves DEF Idle
    <3>4. CASE ValidateTensor(n) \/ Process_Executed(n) \/ Process_Submit(n)
      <4>1. app'[n] = Idle
        BY <1>1, <3>4 DEF Typed, ValidateTensor, Process_Executed, Process_Submit
      <4> QED
        BY <4>1 DEF Idle
    <3> QED
      BY <1>4, <3>1, <3>2, <3>3, <3>4 DEF Process
  <2> QED
    BY <1>1, <2>1, <2>2, CountKept
<1>5. CASE Notify(n)
  <2>1. UNCHANGED <<refs, mapped, registered, app, config>>
    BY <1>5 DEF Notify, Notify_Begin, Notify_Callback, Notify_Push, Notify_Pushed
  <2>2. /\ Entries(b)' = Entries(b) /\ Coming(b)' = Coming(b)
        /\ WholeBuffers' = WholeBuffers
    BY <2>1 DEF Entries, Coming, WholeBuffers, Nodes, Tensors, Tensor
  <2> QED
    BY <2>1, <2>2 DEF Counted, Needed
<1>6. CASE Call(n)
  <2>1. UNCHANGED <<refs, mapped, registered>> /\ At(n, "idle")
        /\ (app'[n].pc = "deregister" \/ UNCHANGED app)
    BY <1>1, <1>6, GoMoves, LeaveMoves
    DEF Call, Start, Stop, DeInitialize, EnablePerf, DisablePerf
  <2> QED
    BY <1>1, <2>1, CountKept
<1>7. CASE Destroy(n) \/ Stop_End(n)
  <2>1. UNCHANGED <<refs, mapped, registered>> /\ ~At(n, "memRegister") /\ app'[n] = Idle
    BY <1>1, <1>7 DEF Typed, Destroy, Stop_End
  <2> QED
    BY <1>1, <2>1, CountKept DEF Idle
<1> QED
  BY <1>2, <1>3, <1>4, <1>5, <1>6, <1>7, CountMapped, CountRegistered, CountDeRegistered
  DEF Step, Register, Leave

(* The references of all buffers, where registrations are serial. *)
Serial   == \A c \in Configs : c.serial
Counts   == WholeTensors /\ \A b \in config.buffers : Counted(b)

LEMMA CountsStep ==
  ASSUME Base, Counts, config.serial, NEW n \in Nodes, Step(n)
  PROVE  Counts'
<1>1. config' = config
  BY StepFrame DEF Base, Frame
<1> QED
  BY <1>1, StepCounted, StepWholeTensors DEF Counts

LEMMA CountsStutter == Counts /\ UNCHANGED vars => Counts'
<1> SUFFICES ASSUME Counts, UNCHANGED vars PROVE Counts'
  OBVIOUS
<1>1. /\ UNCHANGED <<config, registered, refs, mapped, app>>
      /\ Nodes' = Nodes /\ Tensors' = Tensors /\ WholeBuffers' = WholeBuffers
  BY DEF vars, Nodes, Tensors, WholeBuffers
<1>2. WholeTensors'
  BY <1>1 DEF Counts, WholeTensors
<1>3. ASSUME NEW b \in config.buffers PROVE Counted(b)'
  <2>1. Entries(b)' = Entries(b) /\ Coming(b)' = Coming(b) /\ Counted(b)
    BY <1>1 DEF Counts, Entries, Coming, Tensor
  <2> QED
    BY <1>1, <2>1 DEF Counted, Needed
<1> QED
  BY <1>1, <1>2, <1>3 DEF Counts

LEMMA CountsInit == Init => Counts
<1> SUFFICES ASSUME Init PROVE Counts
  OBVIOUS
<1>1. \A n \in Nodes : registered[n] = {} /\ app[n] = Idle
  BY DEF Init
<1>2. WholeTensors
  BY <1>1, RangeNone DEF WholeTensors, Whole, Idle
<1>3. ASSUME NEW b \in config.buffers PROVE Counted(b)
  <2>1. Entries(b) = {} /\ Coming(b) = {}
    BY <1>1 DEF Entries, Coming, Idle
  <2>2. refs[b] = 0 /\ b \notin mapped
    BY DEF Init
  <2> QED
    BY <2>1, <2>2, FS_EmptySet DEF Counted, Needed
<1> QED
  BY <1>2, <1>3 DEF Counts

LEMMA CountsHold ==
  ASSUME Serial
  PROVE  Spec => [](Base /\ Owned /\ Counts)
<1>1. Base => config.serial
  BY DEF Serial, Base, Typed
<1>2. Base /\ Owned /\ Counts /\ [Next]_vars => Counts'
  BY <1>1, CountsStep, CountsStutter, NextStep
<1> QED
  BY <1>2, CountsInit, OwnedHolds, PTL DEF Spec

(***************************************************************************)
(* s_dmaMemRefMap counts the tensors registered by all nodes, however the  *)
(* registrations of the nodes fail and succeed: a buffer is mapped as long *)
(* as one of them needs it, and no longer where no tensor has an offset,   *)
(* given that nodes register and deregister one after the other.           *)
(* (RemoteRegisterBuf, RemoteDeRegisterBuf.)                               *)
(***************************************************************************)
THEOREM BuffersStayMapped ==
  ASSUME \A c \in Configs : c.serial
  PROVE  Spec => []MappedWhileNeeded
<1>1. ASSUME Base, Counts PROVE MappedWhileNeeded
  <2> SUFFICES ASSUME NEW b \in config.buffers
               PROVE  /\ refs[b] >= Needed(b)
                      /\ Needed(b) > 0 => b \in mapped
                      /\ WholeBuffers => refs[b] = Needed(b) /\ (b \in mapped <=> Needed(b) > 0)
    BY DEF MappedWhileNeeded, Needed
  <2>1. Counted(b)
    BY <1>1 DEF Counts
  <2>2. Needed(b) \in Nat /\ refs[b] \in Nat
    BY <1>1, <2>1, NeededFacts DEF Needed
  <2> QED
    BY <2>1, <2>2 DEF Counted
<1>2. Spec => [](Base /\ Owned /\ Counts)
  BY CountsHold DEF Serial
<1> QED
  BY <1>1, <1>2, PTL

(***************************************************************************)
(* What a request in execution uses exists: its tensors are registered and *)
(* mapped whatever the other nodes register and deregister, and so are the *)
(* context and the profile handle.  (Stop, DeInitialize, DisablePerf.)     *)
(***************************************************************************)
THEOREM ExecutionsHoldTheirTensors ==
  ASSUME \A c \in Configs : c.serial
  PROVE  Spec => []ExecutionsHold
<1>1. ASSUME Base, Owned, Counts PROVE ExecutionsHold
  <2> SUFFICES ASSUME NEW n \in Nodes, NEW r \in executing[n]
               PROVE  /\ r.keys \subseteq registered[n]
                      /\ \A t \in r.keys : Buffer(t) \in mapped
                      /\ Uses \subseteq handles[n]
                      /\ r.profile => "profile" \in handles[n]
    BY DEF ExecutionsHold, Uses
  <2>1. /\ Served(n) /\ Holding(n) /\ Typed /\ Controlled(n)
    BY <1>1 DEF Base, Owned
  <2>2. r.keys \subseteq registered[n] /\ (r.profile => "profile" \in handles[n])
    BY <2>1 DEF Served
  <2>3. ASSUME NEW t \in r.keys PROVE Buffer(t) \in mapped
    <3>1. t \in registered[n] /\ t \in Tensors
      BY <2>1, <2>2 DEF Typed
    <3> DEFINE b == Buffer(t)
    <3>2. b \in config.buffers /\ <<n, t>> \in Entries(b)
      BY <3>1 DEF Entries, Tensors, Buffer
    <3>3. Entries(b) # {}
      BY <3>2
    <3> HIDE DEF b
    <3>4. Counted(b)
      BY <1>1, <3>2 DEF Counts
    <3>5. Cardinality(Entries(b)) > 0 /\ Cardinality(Coming(b)) >= 0 /\ refs[b] \in Nat
      BY <1>1, <3>2, <3>3, <3>4, NeededFacts, FS_EmptySet
    <3>6. Cardinality(Entries(b)) \in Nat /\ Cardinality(Coming(b)) \in Nat
      BY <1>1, <3>2, <3>4, NeededFacts
    <3> QED
      BY <3>4, <3>5, <3>6 DEF Counted, Needed, b
  <2>4. state[n] \in {"READY", "RUNNING"}
    <3>1. CASE At(n, "executing")
      BY <2>1, <3>1 DEF Controlled
    <3>2. CASE ~At(n, "executing")
      <4>1. unanswered[n] # 0
        BY <1>1, <3>2, NothingExecutes
      <4> QED
        BY <2>1, <4>1 DEF Controlled, Typed
    <3> QED
      BY <3>1, <3>2
  <2> QED
    BY <2>1, <2>2, <2>3, <2>4 DEF Holding
<1>2. Spec => [](Base /\ Owned /\ Counts)
  BY CountsHold DEF Serial
<1> QED
  BY <1>1, <1>2, PTL


-----------------------------------------------------------------------------
(* Division: the indices of the ring are taken modulo two numbers *)

LEMMA ModQuotient ==
  ASSUME NEW x \in Int, NEW m \in Nat \ {0}
  PROVE  x \div m \in Int /\ x % m \in 0 .. m - 1 /\ x = (m * (x \div m)) + (x % m)
  OBVIOUS

LEMMA ModUnique ==
  ASSUME NEW m \in Nat \ {0}, NEW d \in Int, NEW r \in 0 .. m - 1
  PROVE  ((m * d) + r) % m = r
  OBVIOUS

LEMMA ModShift ==
  ASSUME NEW m \in Nat \ {0}, NEW d \in Int, NEW y \in Int
  PROVE  ((m * d) + y) % m = y % m
<1> DEFINE e == y \div m
           s == y % m
<1>1. e \in Int /\ s \in 0 .. m - 1 /\ y = (m * e) + s
  BY ModQuotient
<1> HIDE DEF e, s
<1>2. d + e \in Int /\ (m * d) + y = (m * (d + e)) + s
  BY <1>1
<1>3. ((m * (d + e)) + s) % m = s
  BY <1>1, <1>2, ModUnique
<1> QED
  BY <1>2, <1>3 DEF s

LEMMA ModSmall ==
  ASSUME NEW m \in Nat \ {0}, NEW x \in 0 .. m - 1
  PROVE  x % m = x
  OBVIOUS

LEMMA ModAdd ==
  ASSUME NEW m \in Nat \ {0}, NEW x \in Int, NEW i \in Int
  PROVE  ((x % m) + i) % m = (x + i) % m
<1> DEFINE d == x \div m
           s == x % m
<1>1. d \in Int /\ s \in 0 .. m - 1 /\ x = (m * d) + s
  BY ModQuotient
<1> HIDE DEF d, s
<1>2. s + i \in Int /\ x + i = (m * d) + (s + i)
  BY <1>1
<1>3. ((m * d) + (s + i)) % m = (s + i) % m
  BY <1>1, <1>2, ModShift
<1> QED
  BY <1>2, <1>3 DEF s

LEMMA ModSub ==
  ASSUME NEW m \in Nat \ {0}, NEW x \in Int, NEW y \in Int
  PROVE  ((x % m) - (y % m)) % m = (x - y) % m
<1> DEFINE d == y \div m
           s == y % m
<1>1. d \in Int /\ s \in 0 .. m - 1 /\ y = (m * d) + s
  BY ModQuotient
<1>2. ((x % m) + (-s)) % m = (x + (-s)) % m
  <2>1. -s \in Int
    BY <1>1
  <2> QED
    BY <2>1, ModAdd
<1> HIDE DEF d, s
<1>3. x - y \in Int /\ d \in Int /\ x + (-s) = (m * d) + (x - y)
  BY <1>1
<1>4. ((m * d) + (x - y)) % m = (x - y) % m
  BY <1>3, ModShift
<1>5. x % m \in Int
  BY ModQuotient
<1>6. (x % m) + (-s) = (x % m) - s
  BY <1>1, <1>5
<1> QED
  BY <1>2, <1>3, <1>4, <1>6 DEF s

LEMMA ModDistinct ==
  ASSUME NEW m \in Nat \ {0}, NEW x \in Int, NEW y \in Int,
         x % m = y % m, x - y \in 0 .. m - 1
  PROVE  x = y
<1>1. ((x % m) - (y % m)) % m = x - y
  BY ModSub, ModSmall
<1>2. x % m \in Int /\ (x % m) - (y % m) = 0 /\ 0 \in 0 .. m - 1
  BY ModQuotient
<1>3. 0 % m = 0
  BY <1>2, ModSmall
<1> QED
  BY <1>1, <1>2, <1>3

LEMMA ModMod ==
  ASSUME NEW m \in Nat \ {0}, NEW p \in Nat \ {0}, m % p = 0, NEW x \in Int
  PROVE  (x % m) % p = x % p
<1> DEFINE k == m \div p
           d == x \div m
           s == x % m
<1>1. k \in Int /\ m = (p * k) + 0
  BY ModQuotient
<1>2. d \in Int /\ s \in 0 .. m - 1 /\ x = (m * d) + s
  BY ModQuotient
<1> HIDE DEF k, d, s
<1>3. k * d \in Int /\ s \in Int /\ x = (p * (k * d)) + s
  <2>1. m * d = p * (k * d)
    BY <1>1, <1>2
  <2> QED
    BY <1>1, <1>2, <2>1
<1>4. ((p * (k * d)) + s) % p = s % p
  BY <1>3, ModShift
<1> QED
  BY <1>3, <1>4 DEF s

(* As many values as there are arguments. *)
LEMMA ImageSize ==
  ASSUME NEW S, IsFiniteSet(S), NEW f, f = [x \in S |-> f[x]],
         \A x, y \in S : f[x] = f[y] => x = y
  PROVE  /\ IsFiniteSet({ f[x] : x \in S })
         /\ Cardinality({ f[x] : x \in S }) = Cardinality(S)
<1> DEFINE T == { f[x] : x \in S }
<1>1. f \in [S -> T]
  OBVIOUS
<1>2. f \in Surjection(S, T) /\ f \in Injection(S, T)
  BY <1>1 DEF Surjection, Injection, IsInjective
<1> QED
  BY <1>2, FS_Surjection

-----------------------------------------------------------------------------
(* The ring of the free parameters *)

(* The entries are those of the parameters of n: what RingAt is stated of. *)
LEMMA EntryType ==
  ASSUME Typed, NEW n \in Nodes
  PROVE  /\ queue[n] \in Rings /\ queue[n].ring \in [Params -> Params]
         /\ queue[n].push \in Nat /\ queue[n].pop \in Nat
         /\ \A i \in Int : Entry(n, i) \in Params
         /\ cb[n].param \in Params /\ app[n].param \in Params
         /\ \A r \in executing[n] : r.param \in Params
         /\ lost[n] \subseteq Params
<1>1. config \in Configs /\ queue[n] \in Rings /\ cb[n] \in Notifications
      /\ app[n] \in Calls /\ executing[n] \subseteq Requests /\ lost[n] \subseteq Params
  BY DEF Typed
<1>2. \A i \in Int : Entry(n, i) \in Params
  BY <1>1, RingTypes DEF Entry
<1>3. queue[n].push \in Nat /\ queue[n].pop \in Nat
  BY <1>1, RingTypes
<1>4. queue[n].ring \in [Params -> Params]
  BY <1>1 DEF Rings
<1>5. cb[n].param \in Params /\ app[n].param \in Params
  BY <1>1 DEF Notifications, Calls
<1>6. \A r \in executing[n] : r.param \in Params
  BY <1>1 DEF Requests
<1> QED
  BY <1>1, <1>2, <1>3, <1>4, <1>5, <1>6

LEMMA ParamsSize ==
  ASSUME Typed
  PROVE  IsFiniteSet(Params) /\ Cardinality(Params) = config.params
<1>1. config.params \in Nat \ {0}
  BY ConfigFacts DEF Typed
<1>2. 0 \in Int /\ config.params - 1 \in Int
  BY <1>1
<1>3. IsFiniteSet(0 .. config.params - 1)
      /\ Cardinality(0 .. config.params - 1) =
           IF 0 > config.params - 1 THEN 0 ELSE config.params - 1 - 0 + 1
  BY <1>2, FS_Interval
<1> QED
  BY <1>1, <1>3 DEF Params

(* The entries that wait are as many as the pushes less the pops. *)
LEMMA WaitingSize ==
  ASSUME Typed, NEW n \in Nodes, NEW P \in Nat, NEW Q \in Nat, RingAt(n, P, Q)
  PROVE  /\ Entered(n, P) \in Int
         /\ IsFiniteSet(Waiting(n, P, Q))
         /\ Cardinality(Waiting(n, P, Q)) = Entered(n, P) - Q
<1>1. Entered(n, P) \in Int /\ Q <= Entered(n, P)
  BY DEF RingAt, Entered
<1> DEFINE S == Q .. Entered(n, P) - 1
           f == [i \in S |-> Entry(n, i)]
<1>2. IsFiniteSet(S) /\ Cardinality(S) = Entered(n, P) - Q
  BY <1>1, FS_Interval
<1>3. \A i \in S : f[i] = Entry(n, i)
  OBVIOUS
<1>4. \A i, j \in S : f[i] = f[j] => i = j
  BY <1>3 DEF RingAt
<1>5. Waiting(n, P, Q) = { f[i] : i \in S }
  BY <1>3 DEF Waiting
<1> HIDE DEF S
<1>6. f = [i \in S |-> f[i]]
  OBVIOUS
<1> HIDE DEF f
<1> QED
  BY <1>1, <1>2, <1>4, <1>5, <1>6, ImageSize

(* There is room for a parameter that does not wait. *)
LEMMA RoomToPush ==
  ASSUME Typed, NEW n \in Nodes, NEW P \in Nat, NEW Q \in Nat, RingAt(n, P, Q),
         cb[n].pc \notin {"idle", "entry"}
  PROVE  Entered(n, P) = P /\ P - Q \in 0 .. config.params - 1
<1>1. Entered(n, P) = P /\ Q <= P
  BY DEF Entered, RingAt
<1>2. cb[n].param \in InHands(n) /\ cb[n].param \in Params
  BY EntryType DEF InHands
<1>3. Waiting(n, P, Q) \subseteq Params \ {cb[n].param}
  BY <1>2, EntryType DEF RingAt
<1>4. IsFiniteSet(Params \ {cb[n].param})
      /\ Cardinality(Params \ {cb[n].param}) = config.params - 1
  BY <1>2, ParamsSize, FS_RemoveElement
<1>5. P - Q <= config.params - 1
  <2>1. Cardinality(Waiting(n, P, Q)) <= config.params - 1
    BY <1>3, <1>4, FS_Subset
  <2> QED
    BY <1>1, <2>1, WaitingSize
<1>6. config.params \in Nat
  BY ConfigFacts DEF Typed
<1> QED
  BY <1>1, <1>5, <1>6

(* An entry that is written is not one of those that wait. *)
LEMMA SlotsApart ==
  ASSUME config \in Configs, NEW i \in Int, NEW k \in Int,
         k - i \in 1 .. config.params - 1
  PROVE  Slot(i) # Slot(k)
<1>1. config.params \in Nat \ {0} /\ k - i \in 0 .. config.params - 1 /\ k # i
  BY ConfigFacts
<1> QED
  BY <1>1, ModDistinct DEF Slot

(* The positions of the indices of 16 bits are those of the counts. *)
LEMMA SlotWraps ==
  ASSUME config \in Configs, NEW i \in Int
  PROVE  /\ Slot(i % config.modulus) = Slot(i)
         /\ Next1(i % config.modulus) = (i + 1) % config.modulus
         /\ ((i % config.modulus) - 1) % config.modulus = (i - 1) % config.modulus
<1>1. /\ config.params \in Nat \ {0} /\ config.modulus \in Nat \ {0}
      /\ config.modulus % config.params = 0
  BY ConfigFacts
<1>2. Slot(i % config.modulus) = Slot(i)
  BY <1>1, ModMod DEF Slot
<1>3. Next1(i % config.modulus) = (i + 1) % config.modulus
  BY <1>1, ModAdd DEF Next1
<1>4. ((i % config.modulus) + (-1)) % config.modulus = (i + (-1)) % config.modulus
  <2>1. -1 \in Int
    OBVIOUS
  <2> QED
    BY <1>1, <2>1, ModAdd
<1>5. i % config.modulus \in Int
  BY <1>1, ModQuotient
<1>6. (i % config.modulus) + (-1) = (i % config.modulus) - 1 /\ i + (-1) = i - 1
  BY <1>5
<1> QED
  BY <1>2, <1>3, <1>4, <1>6


(* Nothing that the ring or a request of n needs has changed. *)
LEMMA RingKept ==
  ASSUME Typed, NEW n \in Nodes, Circulating(n), config' = config,
         queue'[n] = queue[n], lost'[n] = lost[n], executing'[n] = executing[n],
         cb'[n] = cb[n], ~At(n, "submit"), app'[n].pc # "submit"
  PROVE  Circulating(n)'
<1>1. PICK P, Q \in Nat : RingAt(n, P, Q)
  BY DEF Circulating
<1>2. /\ Entered(n, P)' = Entered(n, P) /\ InHands(n)' = InHands(n)
      /\ \A i \in Int : Entry(n, i)' = Entry(n, i)
      /\ Params' = Params
  BY DEF Entered, InHands, Entry, Slot, Params
<1>3. Entered(n, P) \in Int
  BY DEF Entered
<1>4. Waiting(n, P, Q)' = Waiting(n, P, Q)
  BY <1>2, <1>3 DEF Waiting
<1>5. RingAt(n, P, Q)'
  BY <1>1, <1>2, <1>3, <1>4 DEF RingAt
<1>6. Distinct(n)'
  BY DEF Circulating, Distinct
<1> QED
  BY <1>5, <1>6 DEF Circulating

(* Initialize frees all parameters. *)
LEMMA RingFresh ==
  ASSUME Base, NEW n \in Nodes, Initialize_End(n), state'[n] # "INITIALIZING"
  PROVE  Circulating(n)'
<1>1. Typed /\ Controlled(n) /\ config' = config /\ config \in Configs
  BY DEF Base, Initialize_End, Typed
<1>2. /\ queue'[n] = Full /\ lost'[n] = {} /\ app'[n] = Idle
      /\ executing'[n] = executing[n] /\ cb'[n] = CbIdle
  BY <1>1 DEF Initialize_End, Typed, Controlled
<1>3. executing'[n] = {}
  <2>1. unanswered[n] = 0 /\ ~At(n, "executing")
    BY <1>1 DEF Initialize_End, Controlled
  <2> QED
    BY <1>2, <2>1, NothingExecutes
<1>4. InHands(n)' = {}
  BY <1>2, <1>3 DEF InHands, Idle, CbIdle
<1>5. config.params \in Nat \ {0} /\ config.modulus \in Nat \ {0} /\ Params' = Params
  BY <1>1, ConfigFacts DEF Params
<1>P. PICK P \in Nat : P = config.params
  BY <1>5
<1>6. Entered(n, P)' = P
  BY <1>1, <1>2 DEF Entered, CbIdle
<1>7. \A i \in Params : Entry(n, i)' = i
  <2>1. ASSUME NEW i \in Params PROVE Slot(i)' = i
    BY <1>1, <1>5, ModSmall DEF Slot, Params
  <2> QED
    BY <1>2, <2>1 DEF Entry, Full, Params
<1>8. 0 .. P - 1 = Params
  BY <1>P DEF Params
<1>9. Waiting(n, P, 0)' = Params
  BY <1>1, <1>6, <1>7, <1>8 DEF Waiting
<1>10. RingAt(n, P, 0)'
  <2>1. 0 % config.modulus = 0
    BY <1>5, ModSmall
  <2>2. (queue[n].push = P % config.modulus /\ queue[n].pop = 0 % config.modulus)'
    BY <1>P, <1>1, <1>2, <2>1 DEF Full
  <2>3. (cb[n].pc # "advance")'
    BY <1>2 DEF CbIdle
  <2>4. \A i, j \in 0 .. P - 1 : Entry(n, i)' = Entry(n, j)' => i = j
    BY <1>7, <1>8
  <2>5. 0 <= P /\ P - 0 <= config.params
    BY <1>P, <1>5
  <2> QED
    BY <1>1, <1>2, <1>4, <1>5, <1>6, <1>9, <2>2, <2>3, <2>4, <2>5 DEF RingAt
<1>11. Distinct(n)'
  BY <1>2, <1>3 DEF Distinct, Idle, CbIdle
<1> QED
  BY <1>10, <1>11 DEF Circulating

(***************************************************************************)
(* A parameter is popped: it is one that was pushed, with its entry.  This *)
(* is where an order of the writes, or a parameter to spare, is needed.    *)
(***************************************************************************)
LEMMA RingPop ==
  ASSUME Base, NEW n \in Nodes, Circulating(n), Process_Pop(n),
         cb[n].pc = "entry" => config.limit < config.params /\ lost[n] = {}
  PROVE  Circulating(n)'
<1>1. Typed /\ Awaited(n) /\ config' = config /\ config \in Configs
  BY DEF Base, Process_Pop, Typed
<1>2. UNCHANGED <<lost, executing, cb>> /\ ~At(n, "submit")
  BY DEF Process_Pop
<1>3. CASE IsEmpty(queue[n])
  <2>1. app'[n] = Idle /\ UNCHANGED queue
    BY <1>1, <1>3 DEF Process_Pop, Typed
  <2> QED
    BY <1>1, <1>2, <2>1, RingKept DEF Idle
<1>4. CASE ~IsEmpty(queue[n])
  <2> DEFINE p == queue[n].ring[Slot(queue[n].pop)]
  <2>1. app'[n].pc = "submit" /\ app'[n].param = p
        /\ queue' = [queue EXCEPT ![n].pop = Next1(@)]
    BY <1>1, <1>4, PopMoves DEF Pop
  <2>2. PICK P, Q \in Nat : RingAt(n, P, Q)
    BY DEF Circulating
  <2>3. /\ queue'[n].ring = queue[n].ring /\ queue'[n].push = queue[n].push
        /\ queue'[n].pop = (Q + 1) % config.modulus
        /\ p = Entry(n, Q)
    <3>1. queue[n] \in Rings /\ queue \in [Nodes -> Rings]
      BY <1>1 DEF Typed
    <3>2. queue'[n] = [queue[n] EXCEPT !.pop = Next1(queue[n].pop)]
      BY <2>1, <3>1
    <3>3. queue'[n].ring = queue[n].ring /\ queue'[n].push = queue[n].push
          /\ queue'[n].pop = Next1(queue[n].pop)
      BY <3>1, <3>2 DEF Rings
    <3>4. queue[n].pop = Q % config.modulus
      BY <2>2 DEF RingAt
    <3> QED
      BY <1>1, <3>3, <3>4, SlotWraps DEF Entry
  <2> HIDE DEF p
  <2> DEFINE E == Entered(n, P)
  <2>4. E \in Int /\ Q <= E /\ E <= P
    BY <2>2 DEF RingAt, Entered
  <2>5. Q < E
    <3>1. CASE cb[n].pc # "entry"
      <4>1. E = P /\ P # Q
        BY <1>4, <2>2, <3>1 DEF Entered, RingAt, IsEmpty
      <4> QED
        BY <2>4, <4>1
    <3>2. CASE cb[n].pc = "entry"
      <4>1. SUFFICES ASSUME Q = E PROVE FALSE
        BY <2>4
      <4>2. Waiting(n, P, Q) = {}
        BY <2>4, <4>1 DEF Waiting
      <4> DEFINE X == { r.param : r \in executing[n] }
      <4>3. Params = X \union {cb[n].param}
        BY <1>2, <2>2, <3>2, <4>2 DEF RingAt, InHands
      <4>4. n \in config.async /\ state[n] = "RUNNING" /\ At(n, "register")
        BY DEF Process_Pop
      <4>5. IsFiniteSet(executing[n]) /\ Cardinality(executing[n]) <= unanswered[n]
            /\ unanswered[n] < config.limit
        <5>1. /\ IsFiniteSet(executing[n])
              /\ Cardinality(executing[n]) + Answering(n) <= unanswered[n]
              /\ unanswered[n] < config.limit
          BY <1>1, <4>4 DEF Awaited, Registering
        <5>2. Answering(n) = 0 /\ Cardinality(executing[n]) \in Nat
          BY <3>2, <5>1, FS_CardinalityType DEF Answering
        <5> QED
          BY <5>1, <5>2
      <4>6. /\ IsFiniteSet(X) /\ Cardinality(X) <= Cardinality(executing[n])
        <5> DEFINE f == [r \in executing[n] |-> r.param]
        <5>1. f \in Surjection(executing[n], X)
          BY DEF Surjection
        <5> HIDE DEF f, X
        <5> QED
          BY <4>5, <5>1, FS_Surjection
      <4>7. Cardinality(X \union {cb[n].param}) <= Cardinality(X) + 1
        <5> HIDE DEF X
        <5>1. Cardinality(X) \in Nat
          BY <4>6, FS_CardinalityType
        <5>2. Cardinality(X \union {cb[n].param}) =
                IF cb[n].param \in X THEN Cardinality(X) ELSE Cardinality(X) + 1
          BY <4>6, FS_AddElement
        <5> QED
          BY <5>1, <5>2
      <4>8. /\ config.params \in Nat /\ config.limit \in Nat /\ unanswered[n] \in Nat
            /\ Cardinality(executing[n]) \in Nat /\ Cardinality(X) \in Nat
        BY <1>1, <4>5, <4>6, ConfigFacts, FS_CardinalityType DEF Typed
      <4>9. Cardinality(Params) = config.params /\ config.limit < config.params
        BY <1>1, <3>2, ParamsSize
      <4> HIDE DEF X
      <4> QED
        BY <4>3, <4>5, <4>6, <4>7, <4>8, <4>9
    <3> QED
      BY <3>1, <3>2
  <2>6. /\ Entered(n, P)' = E /\ Params' = Params /\ P \in Nat /\ Q + 1 \in Nat
        /\ \A i \in Int : Entry(n, i)' = Entry(n, i)
    BY <1>1, <1>2, <2>3 DEF Entered, Entry, Slot, Params
  <2>7. InHands(n)' = InHands(n) \union {p}
    BY <1>2, <2>1 DEF InHands
  <2>8. /\ Waiting(n, P, Q) = Waiting(n, P, Q + 1)' \union {p}
        /\ p \notin Waiting(n, P, Q + 1)'
    <3>1. Waiting(n, P, Q + 1)' = { Entry(n, i) : i \in Q + 1 .. E - 1 }
      BY <2>4, <2>6 DEF Waiting
    <3>2. Waiting(n, P, Q) = { Entry(n, i) : i \in Q .. E - 1 }
      BY DEF Waiting
    <3>3. \A i \in Q .. E - 1 : i = Q \/ i \in Q + 1 .. E - 1
      BY <2>4
    <3>4. Q \in Q .. E - 1 /\ Q + 1 .. E - 1 \subseteq Q .. E - 1 /\ Q \notin Q + 1 .. E - 1
      BY <2>4, <2>5
    <3>5. \A i, j \in Q .. E - 1 : Entry(n, i) = Entry(n, j) => i = j
      BY <2>2 DEF RingAt
    <3> HIDE DEF E
    <3>6. p \notin Waiting(n, P, Q + 1)'
      BY <2>3, <3>1, <3>4, <3>5
    <3>7. Waiting(n, P, Q) = Waiting(n, P, Q + 1)' \union {p}
      BY <2>3, <3>1, <3>2, <3>3, <3>4
    <3> QED
      BY <3>6, <3>7
  <2>9. RingAt(n, P, Q + 1)'
    <3>1. (queue[n].push = P % config.modulus /\ queue[n].pop = (Q + 1) % config.modulus)'
      BY <1>1, <2>2, <2>3 DEF RingAt
    <3>2. (Q + 1 <= Entered(n, P) /\ P - (Q + 1) <= config.params)'
      <4>1. P - Q <= config.params /\ config.params \in Nat
        BY <1>1, <2>2, ConfigFacts DEF RingAt
      <4> QED
        BY <1>1, <2>4, <2>5, <2>6, <4>1
    <3>3. (\A i, j \in Q + 1 .. Entered(n, P) - 1 : Entry(n, i) = Entry(n, j) => i = j)'
      <4>1. Q + 1 .. E - 1 \subseteq Q .. E - 1 /\ Q + 1 .. E - 1 \subseteq Int
        BY <2>4
      <4> QED
        BY <2>2, <2>6, <4>1 DEF RingAt
    <3>4. (cb[n].pc = "advance" => Entry(n, P) = cb[n].param)'
      BY <1>2, <2>2, <2>6 DEF RingAt
    <3>5. /\ InHands(n) \union Waiting(n, P, Q) \union lost[n] = Params
          /\ InHands(n) \intersect Waiting(n, P, Q) = {}
          /\ lost[n] \intersect (InHands(n) \union Waiting(n, P, Q)) = {}
      BY <2>2 DEF RingAt
    <3>6. (/\ InHands(n) \union Waiting(n, P, Q + 1) \union lost[n] = Params
           /\ InHands(n) \intersect Waiting(n, P, Q + 1) = {}
           /\ lost[n] \intersect (InHands(n) \union Waiting(n, P, Q + 1)) = {})'
      BY <1>2, <2>6, <2>7, <2>8, <3>5
    <3> QED
      BY <3>1, <3>2, <3>3, <3>4, <3>6 DEF RingAt
  <2>10. Distinct(n)'
    <3>1. p \notin InHands(n)
      BY <2>2, <2>8 DEF RingAt
    <3>2. (\A r \in executing[n] : r.param # p) /\ (cb[n].pc # "idle" => cb[n].param # p)
      BY <3>1 DEF InHands
    <3> QED
      BY <1>2, <2>1, <3>2 DEF Circulating, Distinct
  <2> QED
    BY <2>6, <2>9, <2>10 DEF Circulating
<1> QED
  BY <1>3, <1>4


(* RingAt in terms of the things it depends on, when the ring is untouched. *)
LEMMA RingSame ==
  ASSUME Typed, NEW n \in Nodes, NEW P \in Nat, NEW Q \in Nat, RingAt(n, P, Q),
         config' = config, queue'[n] = queue[n], Entered(n, P)' = Entered(n, P),
         (cb[n].pc = "advance")' => cb[n].pc = "advance" /\ cb'[n].param = cb[n].param,
         InHands(n)' \union lost'[n] = InHands(n) \union lost[n],
         InHands(n)' \intersect lost'[n] = {}
  PROVE  RingAt(n, P, Q)'
<1>1. Entered(n, P) \in Int
  BY DEF Entered
<1>2. Params' = Params /\ \A i \in Int : Entry(n, i)' = Entry(n, i)
  BY DEF Entry, Slot, Params
<1>3. Waiting(n, P, Q)' = Waiting(n, P, Q)
  BY <1>1, <1>2 DEF Waiting
<1>4. /\ InHands(n) \union Waiting(n, P, Q) \union lost[n] = Params
      /\ InHands(n) \intersect Waiting(n, P, Q) = {}
      /\ lost[n] \intersect (InHands(n) \union Waiting(n, P, Q)) = {}
  BY DEF RingAt
<1>5. (/\ InHands(n) \union Waiting(n, P, Q) \union lost[n] = Params
       /\ InHands(n) \intersect Waiting(n, P, Q) = {}
       /\ lost[n] \intersect (InHands(n) \union Waiting(n, P, Q)) = {})'
  BY <1>2, <1>3, <1>4
<1>6. (\A i, j \in Q .. Entered(n, P) - 1 : Entry(n, i) = Entry(n, j) => i = j)'
  BY <1>1, <1>2 DEF RingAt
<1> QED
  BY <1>2, <1>5, <1>6 DEF RingAt

(* A request takes the parameter, or it is lost with the refusal. *)
LEMMA RingSubmit ==
  ASSUME Typed, NEW n \in Nodes, Circulating(n), Process_Submit(n)
  PROVE  Circulating(n)'
<1> DEFINE p == app[n].param
           q == Request(n, p)
<1>1. /\ config' = config /\ UNCHANGED <<queue, cb>> /\ At(n, "submit") /\ app'[n].pc = "idle"
      /\ \/ executing'[n] = executing[n] \union {q} /\ lost'[n] = lost[n]
         \/ executing'[n] = executing[n] /\ lost'[n] = lost[n] \union {p}
  BY DEF Process_Submit, Typed, Idle
<1>2. q.param = p
  BY DEF Request
<1> HIDE DEF q, p
<1>3. Distinct(n) /\ (\A r \in executing[n] : r.param # p)
      /\ (cb[n].pc # "idle" => cb[n].param # p)
  BY <1>1 DEF Circulating, Distinct, p
<1>4. PICK P, Q \in Nat : RingAt(n, P, Q)
  BY DEF Circulating
<1>5. InHands(n) = { r.param : r \in executing[n] } \union {p}
                     \union (IF cb[n].pc # "idle" THEN {cb[n].param} ELSE {})
  BY <1>1 DEF InHands, p
<1>6. InHands(n) \intersect lost[n] = {} /\ p \notin lost[n]
  BY <1>4, <1>5 DEF RingAt
<1>7. CASE executing'[n] = executing[n] \union {q} /\ lost'[n] = lost[n]
  <2>1. InHands(n)' = InHands(n)
    <3>1. InHands(n)' = { r.param : r \in executing[n] \union {q} }
                          \union (IF cb[n].pc # "idle" THEN {cb[n].param} ELSE {})
      BY <1>1, <1>7 DEF InHands
    <3>2. { r.param : r \in executing[n] \union {q} } = { r.param : r \in executing[n] } \union {p}
      BY <1>2
    <3> QED
      BY <1>5, <3>1, <3>2
  <2>2. RingAt(n, P, Q)'
    BY <1>1, <1>4, <1>6, <1>7, <2>1, RingSame DEF Entered
  <2>3. Distinct(n)'
    BY <1>1, <1>2, <1>3, <1>7 DEF Distinct
  <2> QED
    BY <2>2, <2>3 DEF Circulating
<1>8. CASE executing'[n] = executing[n] /\ lost'[n] = lost[n] \union {p}
  <2>1. InHands(n)' = { r.param : r \in executing[n] }
                        \union (IF cb[n].pc # "idle" THEN {cb[n].param} ELSE {})
    BY <1>1, <1>8 DEF InHands
  <2>2. InHands(n) = InHands(n)' \union {p} /\ p \notin InHands(n)'
    BY <1>3, <1>5, <2>1
  <2>3. /\ InHands(n)' \union lost'[n] = InHands(n) \union lost[n]
        /\ InHands(n)' \intersect lost'[n] = {}
    BY <1>6, <1>8, <2>2
  <2>4. RingAt(n, P, Q)'
    BY <1>1, <1>4, <2>3, RingSame DEF Entered
  <2>5. Distinct(n)'
    BY <1>1, <1>3, <1>8 DEF Distinct
  <2> QED
    BY <2>4, <2>5 DEF Circulating
<1> QED
  BY <1>1, <1>7, <1>8

(* The thread of QNN has the parameter of a request that is done. *)
LEMMA RingNotified ==
  ASSUME Typed, NEW n \in Nodes, Circulating(n), Notify_Begin(n)
  PROVE  Circulating(n)'
<1>1. PICK r \in executing[n] :
        /\ executing' = [executing EXCEPT ![n] = @ \ {r}]
        /\ cb' = [cb EXCEPT ![n] = [pc |-> "callback", param |-> r.param]]
  BY DEF Notify_Begin
<1>2. /\ executing'[n] = executing[n] \ {r} /\ cb'[n].pc = "callback" /\ cb'[n].param = r.param
      /\ config' = config /\ UNCHANGED <<queue, lost, app>> /\ cb[n].pc = "idle"
  BY <1>1 DEF Notify_Begin, Typed, CbIdle
<1>3. PICK P, Q \in Nat : RingAt(n, P, Q)
  BY DEF Circulating
<1>4. InHands(n)' = InHands(n)
  <2>1. { s.param : s \in executing[n] } = { s.param : s \in executing'[n] } \union {r.param}
    BY <1>2
  <2>2. InHands(n) = { s.param : s \in executing[n] }
                       \union (IF At(n, "submit") THEN {app[n].param} ELSE {})
    BY <1>2 DEF InHands
  <2>3. InHands(n)' = { s.param : s \in executing'[n] } \union {r.param}
                        \union (IF At(n, "submit") THEN {app[n].param} ELSE {})
    BY <1>2 DEF InHands
  <2> QED
    BY <2>1, <2>2, <2>3
<1>5. InHands(n) \intersect lost[n] = {}
  BY <1>3 DEF RingAt
<1>6. RingAt(n, P, Q)'
  BY <1>2, <1>3, <1>4, <1>5, RingSame DEF Entered
<1>7. Distinct(n)'
  BY <1>2 DEF Circulating, Distinct
<1> QED
  BY <1>6, <1>7 DEF Circulating

(* The callback of the application is called. *)
LEMMA RingCalledBack ==
  ASSUME Typed, NEW n \in Nodes, Circulating(n), Notify_Callback(n)
  PROVE  Circulating(n)'
<1>1. /\ cb[n].pc = "callback" /\ cb'[n].pc = "push" /\ cb'[n].param = cb[n].param
      /\ config' = config /\ UNCHANGED <<queue, lost, app, executing>>
  BY DEF Notify_Callback, Typed, Notifications
<1>2. PICK P, Q \in Nat : RingAt(n, P, Q)
  BY DEF Circulating
<1>3. InHands(n)' = InHands(n)
  BY <1>1 DEF InHands
<1>4. InHands(n) \intersect lost[n] = {}
  BY <1>2 DEF RingAt
<1>5. RingAt(n, P, Q)'
  BY <1>1, <1>2, <1>3, <1>4, RingSame DEF Entered
<1>6. Distinct(n)'
  BY <1>1 DEF Circulating, Distinct
<1> QED
  BY <1>5, <1>6 DEF Circulating

(* An entry is written at k, which no entry that waits has. *)
LEMMA EntryWritten ==
  ASSUME Typed, NEW n \in Nodes, config' = config, NEW k \in Int, NEW Q \in Nat,
         k - Q \in 0 .. config.params - 1, NEW x \in Params,
         queue'[n] = [queue[n] EXCEPT !.ring[Slot(k)] = x]
  PROVE  /\ Entry(n, k)' = x
         /\ \A i \in Q .. k - 1 : Entry(n, i)' = Entry(n, i)
         /\ queue'[n].push = queue[n].push /\ queue'[n].pop = queue[n].pop
<1>1. queue[n] \in Rings /\ queue[n].ring \in [Params -> Params] /\ config \in Configs
  BY EntryType DEF Typed
<1>2. /\ queue'[n].ring = [queue[n].ring EXCEPT ![Slot(k)] = x]
      /\ queue'[n].push = queue[n].push /\ queue'[n].pop = queue[n].pop
  BY <1>1 DEF Rings
<1>3. \A i \in Int : Slot(i)' = Slot(i) /\ Slot(i) \in Params
  BY <1>1, SlotType DEF Slot
<1>4. Entry(n, k)' = x
  BY <1>1, <1>2, <1>3 DEF Entry
<1>5. ASSUME NEW i \in Q .. k - 1 PROVE Entry(n, i)' = Entry(n, i)
  <2>1. i \in Int /\ k - i \in 1 .. config.params - 1
    BY <1>1, ConfigFacts
  <2>2. Slot(i) # Slot(k)
    BY <1>1, <2>1, SlotsApart
  <2> QED
    BY <1>1, <1>2, <1>3, <2>1, <2>2 DEF Entry
<1> QED
  BY <1>2, <1>4, <1>5


(* The parameter in the hands of QNN's thread waits again. *)
LEMMA RingEntered ==
  ASSUME Typed, NEW n \in Nodes, NEW P \in Nat, NEW Q \in Nat, RingAt(n, P, Q),
         Distinct(n), cb[n].pc # "idle", cb'[n].pc = "idle",
         config' = config, lost'[n] = lost[n], app'[n] = app[n],
         executing'[n] = executing[n],
         NEW R \in Nat, R = Entered(n, P) + 1, R - Q <= config.params,
         queue'[n].push = R % config.modulus, queue'[n].pop = queue[n].pop,
         Entry(n, R - 1)' = cb[n].param,
         \A i \in Q .. R - 2 : Entry(n, i)' = Entry(n, i)
  PROVE  RingAt(n, R, Q)' /\ Distinct(n)'
<1> DEFINE x == cb[n].param
<1>1. Entered(n, R)' = R /\ Entered(n, P) = R - 1 /\ Params' = Params /\ Q <= R - 1
  BY DEF Entered, Params, RingAt
<1>2. InHands(n) = InHands(n)' \union {x} /\ x \notin InHands(n)'
  <2>1. InHands(n) = InHands(n)' \union {x}
    BY DEF InHands
  <2>2. x \notin InHands(n)'
    BY DEF InHands, Distinct
  <2> QED
    BY <2>1, <2>2
<1> HIDE DEF x
<1>3. /\ InHands(n) \union Waiting(n, P, Q) \union lost[n] = Params
      /\ InHands(n) \intersect Waiting(n, P, Q) = {}
      /\ lost[n] \intersect (InHands(n) \union Waiting(n, P, Q)) = {}
      /\ \A i, j \in Q .. R - 2 : Entry(n, i) = Entry(n, j) => i = j
      /\ Waiting(n, P, Q) = { Entry(n, i) : i \in Q .. R - 2 }
  <2>1. (R - 1) - 1 = R - 2
    OBVIOUS
  <2> QED
    BY <1>1, <2>1 DEF RingAt, Waiting
<1>4. Waiting(n, R, Q)' = { Entry(n, i)' : i \in Q .. R - 1 }
  BY <1>1 DEF Waiting
<1>5. \A i \in Q .. R - 1 : i = R - 1 \/ i \in Q .. R - 2
  OBVIOUS
<1>6. R - 1 \in Q .. R - 1 /\ \A i \in Q .. R - 2 : i \in Q .. R - 1
  BY <1>1
<1>7. \A i \in Q .. R - 2 : Entry(n, i)' = Entry(n, i) /\ Entry(n, i) \in Waiting(n, P, Q)
  BY <1>3
<1>8. Entry(n, R - 1)' = x
  BY DEF x
<1>9. Waiting(n, R, Q)' = Waiting(n, P, Q) \union {x}
  <2>1. ASSUME NEW e \in Waiting(n, R, Q)' PROVE e \in Waiting(n, P, Q) \union {x}
    BY <1>4, <1>5, <1>7, <1>8
  <2>2. ASSUME NEW e \in Waiting(n, P, Q) PROVE e \in Waiting(n, R, Q)'
    BY <1>3, <1>4, <1>6, <1>7
  <2>3. x \in Waiting(n, R, Q)'
    BY <1>4, <1>6, <1>8
  <2> QED
    BY <2>1, <2>2, <2>3
<1>10. x \notin Waiting(n, P, Q) /\ x \notin lost[n]
  BY <1>2, <1>3
<1>11. \A i, j \in Q .. R - 1 : Entry(n, i)' = Entry(n, j)' => i = j
  BY <1>3, <1>5, <1>7, <1>8, <1>10
<1>12. (/\ InHands(n) \union Waiting(n, R, Q) \union lost[n] = Params
        /\ InHands(n) \intersect Waiting(n, R, Q) = {}
        /\ lost[n] \intersect (InHands(n) \union Waiting(n, R, Q)) = {})'
  BY <1>1, <1>2, <1>3, <1>9, <1>10
<1>13. (queue[n].push = R % config.modulus /\ queue[n].pop = Q % config.modulus)'
  BY DEF RingAt
<1>14. RingAt(n, R, Q)'
  BY <1>1, <1>11, <1>12, <1>13 DEF RingAt
<1>15. Distinct(n)'
  BY DEF Distinct
<1> QED
  BY <1>14, <1>15

LEMMA RingPush ==
  ASSUME Typed, NEW n \in Nodes, Circulating(n), Notify_Push(n)
  PROVE  Circulating(n)'
<1>1. PICK P, Q \in Nat : RingAt(n, P, Q)
  BY DEF Circulating
<1>2. /\ config' = config /\ config \in Configs /\ UNCHANGED <<lost, app, executing>>
      /\ cb[n].pc = "push" /\ cb'[n].pc \in {"advance", "entry"} /\ cb'[n].param = cb[n].param
  BY DEF Notify_Push, Typed, Notifications
<1>3. Entered(n, P) = P /\ P - Q \in 0 .. config.params - 1 /\ config.params \in Nat
  BY <1>1, <1>2, RoomToPush, ConfigFacts
<1>4. queue[n].push = P % config.modulus /\ queue[n] \in Rings /\ queue \in [Nodes -> Rings]
  BY <1>1 DEF RingAt, Typed
<1>5. InHands(n)' = InHands(n) /\ Params' = Params /\ Distinct(n)'
  BY <1>2 DEF InHands, Params, Circulating, Distinct
<1>6. cb[n].param \in Params /\ P \in Int
  BY EntryType
<1>7. CASE PushEntry(n) /\ cb'[n].pc = "advance"
  <2>1. queue'[n] = [queue[n] EXCEPT !.ring[Slot(P)] = cb[n].param]
    <3>1. Slot(queue[n].push) = Slot(P)
      BY <1>2, <1>4, SlotWraps
    <3> QED
      BY <1>4, <1>7, <3>1 DEF PushEntry
  <2>2. /\ Entry(n, P)' = cb[n].param
        /\ \A i \in Q .. P - 1 : Entry(n, i)' = Entry(n, i)
        /\ queue'[n].push = queue[n].push /\ queue'[n].pop = queue[n].pop
    BY <1>2, <1>3, <1>6, <2>1, EntryWritten
  <2>3. Entered(n, P)' = P
    BY <1>7 DEF Entered
  <2>4. Waiting(n, P, Q)' = Waiting(n, P, Q)
    BY <1>3, <2>2, <2>3 DEF Waiting
  <2>5. RingAt(n, P, Q)'
    BY <1>1, <1>2, <1>3, <1>5, <2>2, <2>3, <2>4 DEF RingAt
  <2> QED
    BY <1>5, <2>5 DEF Circulating
<1>8. CASE PushAdvance(n) /\ cb'[n].pc = "entry"
  <2>1. queue'[n] = [queue[n] EXCEPT !.push = Next1(queue[n].push)]
    BY <1>4, <1>8 DEF PushAdvance
  <2>2. /\ queue'[n].ring = queue[n].ring /\ queue'[n].pop = queue[n].pop
        /\ queue'[n].push = (P + 1) % config.modulus
    BY <1>2, <1>4, <1>6, <2>1, SlotWraps DEF Rings
  <2>3. Entered(n, P + 1)' = P /\ P + 1 \in Nat
    BY <1>8 DEF Entered
  <2>4. \A i \in Int : Entry(n, i)' = Entry(n, i)
    BY <1>2, <2>2 DEF Entry, Slot
  <2>5. Waiting(n, P + 1, Q)' = Waiting(n, P, Q)
    BY <1>3, <2>3, <2>4 DEF Waiting
  <2>6. (\A i, j \in Q .. Entered(n, P + 1) - 1 : Entry(n, i) = Entry(n, j) => i = j)'
    BY <1>1, <1>3, <2>3, <2>4 DEF RingAt
  <2>7. (Q <= Entered(n, P + 1) /\ (P + 1) - Q <= config.params)'
    BY <1>2, <1>3, <2>3
  <2>8. RingAt(n, P + 1, Q)'
    BY <1>1, <1>2, <1>5, <1>8, <2>2, <2>5, <2>6, <2>7 DEF RingAt
  <2> QED
    BY <1>5, <2>3, <2>8 DEF Circulating
<1>9. (PushEntry(n) /\ cb'[n].pc = "advance") \/ (PushAdvance(n) /\ cb'[n].pc = "entry")
  BY DEF Notify_Push, Typed, Notifications
<1> QED
  BY <1>7, <1>8, <1>9

LEMMA RingPushed ==
  ASSUME Typed, NEW n \in Nodes, Circulating(n), Notify_Pushed(n)
  PROVE  Circulating(n)'
<1>1. PICK P, Q \in Nat : RingAt(n, P, Q)
  BY DEF Circulating
<1>2. /\ config' = config /\ config \in Configs /\ UNCHANGED <<lost, app, executing>>
      /\ cb[n].pc \in {"advance", "entry"} /\ cb'[n].pc = "idle"
  BY DEF Notify_Pushed, Typed, CbIdle
<1>3. queue[n].push = P % config.modulus /\ queue[n] \in Rings /\ queue \in [Nodes -> Rings]
  BY <1>1 DEF RingAt, Typed
<1>4. cb[n].param \in Params /\ P \in Int /\ Q \in Int /\ Distinct(n) /\ config.params \in Nat
  BY <1>2, EntryType, ConfigFacts DEF Circulating
<1>5. CASE cb[n].pc = "advance"
  <2>1. Entered(n, P) = P /\ P - Q \in 0 .. config.params - 1
    BY <1>1, <1>5, RoomToPush
  <2>2. queue'[n] = [queue[n] EXCEPT !.push = Next1(queue[n].push)]
    BY <1>3, <1>5 DEF Notify_Pushed, PushAdvance
  <2>3. /\ queue'[n].ring = queue[n].ring /\ queue'[n].pop = queue[n].pop
        /\ queue'[n].push = (P + 1) % config.modulus
    BY <1>2, <1>3, <1>4, <2>2, SlotWraps DEF Rings
  <2>4. \A i \in Int : Entry(n, i)' = Entry(n, i)
    BY <1>2, <2>3 DEF Entry, Slot
  <2>5. Entry(n, (P + 1) - 1)' = cb[n].param
    <3>1. (P + 1) - 1 = P /\ Entry(n, P) = cb[n].param
      BY <1>1, <1>5 DEF RingAt
    <3> QED
      BY <1>4, <2>4, <3>1
  <2>6. \A i \in Q .. (P + 1) - 2 : Entry(n, i)' = Entry(n, i)
    BY <2>4
  <2>7. P + 1 \in Nat /\ P + 1 = Entered(n, P) + 1 /\ (P + 1) - Q <= config.params
    BY <1>4, <2>1
  <2>8. RingAt(n, P + 1, Q)' /\ Distinct(n)'
    <3> DEFINE R == P + 1
    <3>1. /\ R \in Nat /\ R = Entered(n, P) + 1 /\ R - Q <= config.params
          /\ queue'[n].push = R % config.modulus /\ Entry(n, R - 1)' = cb[n].param
          /\ \A i \in Q .. R - 2 : Entry(n, i)' = Entry(n, i)
      BY <2>3, <2>5, <2>6, <2>7
    <3> HIDE DEF R
    <3>2. RingAt(n, R, Q)' /\ Distinct(n)'
      BY <1>1, <1>2, <1>4, <1>5, <2>3, <3>1, RingEntered
    <3> QED
      BY <3>2 DEF R
  <2> QED
    BY <2>7, <2>8 DEF Circulating
<1>6. CASE cb[n].pc = "entry"
  <2>1. Entered(n, P) = P - 1 /\ Q <= P - 1 /\ (P - 1) - Q \in 0 .. config.params - 1
    BY <1>1, <1>4, <1>6 DEF Entered, RingAt
  <2>2. queue'[n] = [queue[n] EXCEPT !.ring[Slot(P - 1)] = cb[n].param]
    <3>1. (queue[n].push - 1) % config.modulus = (P - 1) % config.modulus /\ P - 1 \in Int
      BY <1>2, <1>3, <1>4, SlotWraps
    <3>2. Slot((queue[n].push - 1) % config.modulus) = Slot(P - 1)
      BY <1>2, <3>1, SlotWraps
    <3>3. queue' = [queue EXCEPT
             ![n].ring[Slot((queue[n].push - 1) % config.modulus)] = cb[n].param]
      BY <1>6 DEF Notify_Pushed
    <3> QED
      BY <1>3, <3>2, <3>3
  <2>3. /\ Entry(n, P - 1)' = cb[n].param
        /\ \A i \in Q .. (P - 1) - 1 : Entry(n, i)' = Entry(n, i)
        /\ queue'[n].push = queue[n].push /\ queue'[n].pop = queue[n].pop
    <3>1. P - 1 \in Int
      BY <1>4
    <3> QED
      BY <1>2, <1>4, <2>1, <2>2, <3>1, EntryWritten
  <2>4. (P - 1) - 1 = P - 2 /\ P = Entered(n, P) + 1 /\ P - Q <= config.params
    BY <1>4, <2>1
  <2>5. RingAt(n, P, Q)' /\ Distinct(n)'
    BY <1>1, <1>2, <1>3, <1>4, <1>6, <2>3, <2>4, RingEntered
  <2> QED
    BY <2>5 DEF Circulating
<1> QED
  BY <1>2, <1>5, <1>6


(* An order of the writes of Push, or a parameter to spare. *)
Spared == config.ordered \/ (config.limit < config.params /\ "Execute" \notin config.mayFail)

LEMMA StepRinged ==
  ASSUME Base, NEW n \in Nodes, Ringed(n), Step(n), Spared
  PROVE  Ringed(n)'
<1>1. Typed /\ Controlled(n) /\ config' = config
  BY StepFrame DEF Base, Frame
<1>2. /\ (cb'[n].pc = "entry" => ~config.ordered)
      /\ ("Execute" \notin config.mayFail => lost'[n] = {})
  <2>1. CASE Notify_Push(n)
    BY <1>1, <2>1 DEF Notify_Push, Typed, Notifications, Ringed
  <2>2. CASE Notify_Begin(n) \/ Notify_Callback(n) \/ Notify_Pushed(n)
    BY <1>1, <2>2
    DEF Notify_Begin, Notify_Callback, Notify_Pushed, CbIdle, Typed, Notifications, Ringed
  <2>3. CASE Process_Submit(n)
    BY <1>1, <2>3 DEF Process_Submit, Outcome, Ringed, Typed
  <2>4. CASE Initialize_End(n)
    BY <1>1, <2>4 DEF Initialize_End, Ringed, Typed
  <2>5. CASE UNCHANGED <<cb, lost>>
    BY <2>5 DEF Ringed
  <2>6. CASE Initialize_Begin(n) \/ Initialize_Create(n) \/ Register(n)
    BY <2>5, <2>6 DEF Initialize_Begin, Initialize_Create, Register, Register_Probe,
       Register_Map, Register_Mem
  <2>7. CASE Process_Begin(n) \/ ValidateTensor(n) \/ Process_Execute(n)
               \/ Process_Executed(n) \/ Process_Pop(n)
    BY <2>5, <2>7 DEF Process_Begin, ValidateTensor, Process_Execute, Process_Executed,
       Process_Pop
  <2>8. CASE Call(n) \/ Leave(n)
    BY <2>5, <2>8 DEF Call, Start, Stop, DeInitialize, EnablePerf, DisablePerf, Leave,
       DeRegister_One, Destroy, Stop_End
  <2> QED
    BY <2>1, <2>2, <2>3, <2>4, <2>6, <2>7, <2>8 DEF Step, Initialize, Process, Notify
<1> SUFFICES ASSUME n \in config.async, state'[n] \in {"READY", "RUNNING"}
             PROVE  Circulating(n)'
  BY <1>1, <1>2 DEF Ringed
<1>3. ASSUME state[n] \in {"READY", "RUNNING"},
             UNCHANGED <<queue, lost, executing, cb>>,
             ~At(n, "submit"), app'[n].pc # "submit"
      PROVE  Circulating(n)'
  BY <1>1, <1>3, RingKept DEF Ringed
<1>4. CASE Initialize(n)
  <2>1. CASE Initialize_Begin(n) \/ Initialize_Create(n)
    BY <1>1, <2>1 DEF Initialize_Begin, Initialize_Create, Typed, Controlled
  <2>2. CASE Initialize_End(n)
    BY <2>2, RingFresh
  <2> QED
    BY <1>4, <2>1, <2>2 DEF Initialize
<1>5. CASE Register(n)
  <2>1. UNCHANGED <<queue, lost, executing, cb, state>> /\ ~At(n, "submit")
    BY <1>5 DEF Register, Register_Probe, Register_Map, Register_Mem
  <2>2. app'[n].pc # "submit"
    <3>1. CASE Register_Probe(n)
      BY <1>1, <3>1, ProbeMoves
    <3>2. CASE Register_Map(n)
      BY <1>1, <3>2, MapMoves, FailMoves DEF Idle
    <3>3. CASE Register_Mem(n)
      BY <1>1, <3>3, MemMoves, FailMoves DEF Idle
    <3> QED
      BY <1>5, <3>1, <3>2, <3>3 DEF Register
  <2> QED
    BY <1>3, <2>1, <2>2
<1>6. CASE Process(n)
  <2>1. state[n] \in {"READY", "RUNNING"} /\ Circulating(n)
    <3>1. state[n] = "RUNNING"
      BY <1>1, <1>6 DEF Process, Process_Begin, ValidateTensor, Process_Execute,
         Process_Executed, Process_Pop, Process_Submit, Controlled
    <3> QED
      BY <3>1 DEF Ringed
  <2>2. CASE Process_Begin(n) \/ ValidateTensor(n)
    <3>1. /\ UNCHANGED <<queue, lost, executing, cb>> /\ ~At(n, "submit")
          /\ app'[n].pc # "submit"
      <4>1. CASE Process_Begin(n)
        BY <1>1, <4>1, BeginMoves DEF Process_Begin
      <4>2. CASE ValidateTensor(n)
        BY <1>1, <4>2 DEF ValidateTensor, Typed, Idle
      <4> QED
        BY <2>2, <4>1, <4>2
    <3> QED
      BY <1>3, <2>1, <3>1
  <2>3. CASE Process_Execute(n) \/ Process_Executed(n)
    BY <1>1, <2>3 DEF Process_Execute, Process_Executed, Controlled
  <2>4. CASE Process_Pop(n)
    <3>1. cb[n].pc = "entry" => config.limit < config.params /\ lost[n] = {}
      BY DEF Ringed, Spared
    <3> QED
      BY <2>1, <2>4, <3>1, RingPop
  <2>5. CASE Process_Submit(n)
    BY <1>1, <2>1, <2>5, RingSubmit
  <2> QED
    BY <1>6, <2>2, <2>3, <2>4, <2>5 DEF Process
<1>7. CASE Notify(n)
  <2>1. UNCHANGED state
    BY <1>7 DEF Notify, Notify_Begin, Notify_Callback, Notify_Push, Notify_Pushed
  <2>2. Circulating(n)
    BY <2>1 DEF Ringed
  <2> QED
    BY <1>1, <1>7, <2>2, RingNotified, RingCalledBack, RingPush, RingPushed DEF Notify
<1>8. CASE Call(n)
  <2>1. /\ UNCHANGED <<queue, lost, executing, cb>> /\ At(n, "idle")
        /\ state[n] \in {"READY", "RUNNING"}
    BY <1>8 DEF Call, Start, Stop, DeInitialize, EnablePerf, DisablePerf, Profiled
  <2>2. app'[n].pc = "deregister" \/ UNCHANGED app
    BY <1>1, <1>8, GoMoves, LeaveMoves
    DEF Call, Start, Stop, DeInitialize, EnablePerf, DisablePerf
  <2> QED
    BY <1>3, <2>1, <2>2
<1>9. CASE DeRegister_One(n) \/ Stop_End(n)
  <2>1. /\ UNCHANGED <<queue, lost, executing, cb>> /\ ~At(n, "submit")
        /\ app'[n].pc # "submit" /\ state[n] \in {"READY", "RUNNING"}
    BY <1>1, <1>9 DEF DeRegister_One, Stop_End, Typed, Idle, Controlled
  <2> QED
    BY <1>3, <2>1
<1>10. CASE Destroy(n)
  BY <1>1, <1>10 DEF Destroy, Typed
<1> QED
  BY <1>4, <1>5, <1>6, <1>7, <1>8, <1>9, <1>10 DEF Step, Leave

LEMMA OthersRinged ==
  ASSUME Typed, NEW m \in Nodes, Ringed(m), config' = config,
         app'[m] = app[m], cb'[m] = cb[m], queue'[m] = queue[m], state'[m] = state[m],
         lost'[m] = lost[m], executing'[m] = executing[m]
  PROVE  Ringed(m)'
<1>1. ASSUME Circulating(m) PROVE Circulating(m)'
  <2>1. PICK P, Q \in Nat : RingAt(m, P, Q)
    BY <1>1 DEF Circulating
  <2>2. InHands(m)' = InHands(m) /\ Entered(m, P)' = Entered(m, P)
    BY DEF InHands, Entered
  <2>3. InHands(m) \intersect lost[m] = {}
    BY <2>1 DEF RingAt
  <2>4. RingAt(m, P, Q)'
    BY <2>1, <2>2, <2>3, RingSame
  <2>5. Distinct(m)'
    BY <1>1 DEF Circulating, Distinct
  <2> QED
    BY <2>4, <2>5 DEF Circulating
<1> QED
  BY <1>1 DEF Ringed

RingsFull == \A n \in Nodes : Ringed(n)

LEMMA RingsStep ==
  ASSUME Base, RingsFull, Spared, NEW n \in Nodes, Step(n)
  PROVE  RingsFull'
<1>1. Typed /\ Frame(n) /\ config' = config /\ Nodes' = Nodes
  BY StepFrame DEF Base, Frame, Nodes
<1>2. Ringed(n)'
  BY StepRinged DEF RingsFull
<1>3. ASSUME NEW m \in Nodes, m # n PROVE Ringed(m)'
  <2>1. /\ app'[m] = app[m] /\ cb'[m] = cb[m] /\ queue'[m] = queue[m]
        /\ state'[m] = state[m] /\ lost'[m] = lost[m] /\ executing'[m] = executing[m]
    BY <1>1, <1>3, FrameOthers
  <2> QED
    BY <1>1, <2>1, OthersRinged DEF RingsFull
<1> QED
  BY <1>1, <1>2, <1>3 DEF RingsFull

LEMMA RingsStutter ==
  ASSUME Base, RingsFull, UNCHANGED vars
  PROVE  RingsFull'
<1>1. Nodes' = Nodes /\ Typed
  BY DEF vars, Nodes, Base
<1> QED
  BY <1>1, OthersRinged DEF RingsFull, vars

LEMMA RingsInit == Init => RingsFull
<1> SUFFICES ASSUME Init, NEW n \in Nodes PROVE Ringed(n)
  BY DEF RingsFull
<1>1. state[n] = "INITIAL" /\ cb[n] = CbIdle /\ lost[n] = {}
  BY DEF Init
<1> QED
  BY <1>1 DEF Ringed, CbIdle

(***************************************************************************)
(* No two requests of a node share a notify parameter, none is free as     *)
(* well as in use, and only those of refused submissions are lost, however *)
(* the 16-bit indices wrap and the threads of the application and of QNN   *)
(* interleave, for any number of parameters and any range of the indices.  *)
(* Given that the two writes of Push are seen in order, or else that the   *)
(* application keeps a parameter to spare and QNN refuses no submission.   *)
(* (NotifyParamQueue.)                                                     *)
(***************************************************************************)
THEOREM ParametersCirculate ==
  ASSUME \A c \in Configs : c.ordered \/ (c.limit < c.params /\ "Execute" \notin c.mayFail)
  PROVE  Spec => []ParametersPartitioned
<1>1. ASSUME Base, RingsFull PROVE ParametersPartitioned
  <2> SUFFICES ASSUME NEW n \in config.async, state[n] \in {"READY", "RUNNING"}
               PROVE  /\ Cardinality(InUse(n)) = Cardinality(Carried(n))
                      /\ cb[n].pc \notin {"advance", "entry"} =>
                           /\ InUse(n) \intersect Free(queue[n]) = {}
                           /\ Cardinality(Free(queue[n])) = Cardinality(FreeSlots(queue[n]))
                           /\ InUse(n) \union Free(queue[n]) \union lost[n] = Params
    BY DEF ParametersPartitioned, Params
  <2>1. Typed /\ n \in Nodes /\ Awaited(n) /\ config \in Configs
    BY <1>1, ConfigFacts DEF Base, Typed
  <2>2. Distinct(n) /\ \E P, Q \in Nat : RingAt(n, P, Q)
    BY <1>1, <2>1 DEF RingsFull, Ringed, Circulating
  <2>3. PICK P, Q \in Nat : RingAt(n, P, Q)
    BY <2>2
  <2>4. Cardinality(InUse(n)) = Cardinality(Carried(n))
    <3>1. IsFiniteSet(Carried(n))
      <4> DEFINE X == { <<"executing", r.param>> : r \in executing[n] }
                 Y == IF cb[n].pc \in {"callback", "push"} THEN {<<"notified", cb[n].param>>} ELSE {}
                 Z == IF At(n, "submit") THEN {<<"popped", app[n].param>>} ELSE {}
                 f == [r \in executing[n] |-> <<"executing", r.param>>]
      <4>1. IsFiniteSet(executing[n])
        BY <2>1 DEF Awaited
      <4>2. f \in Surjection(executing[n], X)
        BY DEF Surjection
      <4>3. IsFiniteSet(Y) /\ IsFiniteSet(Z)
        BY FS_EmptySet, FS_Singleton
      <4>4. Carried(n) = X \union Y \union Z
        BY DEF Carried
      <4> HIDE DEF f, X, Y, Z
      <4>5. IsFiniteSet(X)
        BY <4>1, <4>2, FS_Surjection
      <4>6. IsFiniteSet(X \union Y)
        BY <4>3, <4>5, FS_Union
      <4>7. IsFiniteSet((X \union Y) \union Z)
        BY <4>3, <4>6, FS_Union
      <4> QED
        BY <4>4, <4>7
    <3>2. ASSUME NEW c \in Carried(n), NEW d \in Carried(n), c[2] = d[2] PROVE c = d
      <4>1. ASSUME NEW e \in Carried(n)
            PROVE  \/ \E r \in executing[n] : e = <<"executing", r.param>>
                   \/ cb[n].pc # "idle" /\ e = <<"notified", cb[n].param>>
                   \/ At(n, "submit") /\ e = <<"popped", app[n].param>>
        BY <4>1 DEF Carried
      <4>2. \/ \E r \in executing[n] : c = <<"executing", r.param>>
            \/ cb[n].pc # "idle" /\ c = <<"notified", cb[n].param>>
            \/ At(n, "submit") /\ c = <<"popped", app[n].param>>
        BY <4>1
      <4>3. \/ \E r \in executing[n] : d = <<"executing", r.param>>
            \/ cb[n].pc # "idle" /\ d = <<"notified", cb[n].param>>
            \/ At(n, "submit") /\ d = <<"popped", app[n].param>>
        BY <4>1
      <4>4. CASE \E r \in executing[n] : c = <<"executing", r.param>>
        BY <2>2, <3>2, <4>3, <4>4 DEF Distinct
      <4>5. CASE cb[n].pc # "idle" /\ c = <<"notified", cb[n].param>>
        BY <2>2, <3>2, <4>3, <4>5 DEF Distinct
      <4>6. CASE At(n, "submit") /\ c = <<"popped", app[n].param>>
        BY <2>2, <3>2, <4>3, <4>6 DEF Distinct
      <4> QED
        BY <4>2, <4>4, <4>5, <4>6
    <3> DEFINE S == Carried(n)
               f == [c \in S |-> c[2]]
    <3>3. InUse(n) = { f[c] : c \in S } /\ \A x, y \in S : f[x] = f[y] => x = y
      BY <3>2 DEF InUse
    <3>4. f = [c \in S |-> f[c]]
      OBVIOUS
    <3> HIDE DEF f
    <3> QED
      BY <3>1, <3>3, <3>4, ImageSize
  <2> SUFFICES ASSUME cb[n].pc \notin {"advance", "entry"}
               PROVE  /\ InUse(n) \intersect Free(queue[n]) = {}
                      /\ Cardinality(Free(queue[n])) = Cardinality(FreeSlots(queue[n]))
                      /\ InUse(n) \union Free(queue[n]) \union lost[n] = Params
    BY <2>4
  <2>5. InUse(n) = InHands(n)
    <3>1. cb[n].pc # "idle" <=> cb[n].pc \in {"callback", "push"}
      BY <2>1 DEF Typed, Notifications
    <3>2. ASSUME NEW x \in InHands(n) PROVE x \in InUse(n)
      <4>1. CASE \E r \in executing[n] : x = r.param
        <5>1. PICK r \in executing[n] : x = r.param
          BY <4>1
        <5>2. <<"executing", r.param>> \in Carried(n) /\ <<"executing", r.param>>[2] = x
          BY <5>1 DEF Carried
        <5> QED
          BY <5>2 DEF InUse
      <4>2. CASE cb[n].pc # "idle" /\ x = cb[n].param
        <5>1. <<"notified", cb[n].param>> \in Carried(n) /\ <<"notified", cb[n].param>>[2] = x
          BY <3>1, <4>2 DEF Carried
        <5> QED
          BY <5>1 DEF InUse
      <4>3. CASE At(n, "submit") /\ x = app[n].param
        <5>1. <<"popped", app[n].param>> \in Carried(n) /\ <<"popped", app[n].param>>[2] = x
          BY <4>3 DEF Carried
        <5> QED
          BY <5>1 DEF InUse
      <4> QED
        BY <3>2, <4>1, <4>2, <4>3 DEF InHands
    <3>3. ASSUME NEW c \in Carried(n) PROVE c[2] \in InHands(n)
      BY <3>1, <3>3 DEF InHands, Carried
    <3> QED
      BY <3>2, <3>3 DEF InUse
  <2>6. /\ config.params \in Nat \ {0} /\ config.modulus \in Nat \ {0}
        /\ config.params < config.modulus
    BY <2>1, ConfigFacts
  <2>7. Entered(n, P) = P /\ P - Q \in 0 .. config.modulus - 1
    BY <2>3, <2>6 DEF Entered, RingAt
  <2> DEFINE d == P - Q
             s == [i \in 0 .. d - 1 |-> (Q + i) % config.modulus]
  <2>8. FreeSlots(queue[n]) = { s[i] : i \in 0 .. d - 1 }
    <3>1. queue[n].push = P % config.modulus /\ queue[n].pop = Q % config.modulus
      BY <2>3 DEF RingAt
    <3>2. ((P % config.modulus) - (Q % config.modulus)) % config.modulus = P - Q
      <4>1. P \in Int /\ Q \in Int
        OBVIOUS
      <4>2. ((P % config.modulus) - (Q % config.modulus)) % config.modulus
              = (P - Q) % config.modulus
        BY <2>6, <4>1, ModSub
      <4>3. (P - Q) % config.modulus = P - Q
        BY <2>6, <2>7, ModSmall
      <4> QED
        BY <4>2, <4>3
    <3>3. \A i \in Int : ((Q % config.modulus) + i) % config.modulus = (Q + i) % config.modulus
      BY <2>6, ModAdd
    <3>4. FreeSlots(queue[n]) = { (queue[n].pop + i) % config.modulus : i \in 0 .. d - 1 }
      BY <3>1, <3>2 DEF FreeSlots
    <3>5. \A i \in 0 .. d - 1 : (queue[n].pop + i) % config.modulus = s[i]
      BY <3>1, <3>3
    <3> HIDE DEF s, d
    <3> QED
      BY <3>4, <3>5
  <2>9. \A i, j \in 0 .. d - 1 : s[i] = s[j] => i = j
    <3> SUFFICES ASSUME NEW i \in 0 .. d - 1, NEW j \in 0 .. d - 1, s[i] = s[j]
                 PROVE  i = j
      OBVIOUS
    <3>1. (Q + i) % config.modulus = (Q + j) % config.modulus /\ Q + i \in Int /\ Q + j \in Int
      OBVIOUS
    <3>2. \/ (Q + i) - (Q + j) \in 0 .. config.modulus - 1
          \/ (Q + j) - (Q + i) \in 0 .. config.modulus - 1
      BY <2>6, <2>7
    <3>3. Q + i = Q + j
      BY <2>6, <3>1, <3>2, ModDistinct
    <3> QED
      BY <3>3
  <2>10. IsFiniteSet(0 .. d - 1) /\ Cardinality(0 .. d - 1) = d
    <3>1. 0 \in Int /\ d - 1 \in Int /\ d \in Nat
      BY <2>6, <2>7
    <3> HIDE DEF d
    <3>2. IsFiniteSet(0 .. d - 1)
          /\ Cardinality(0 .. d - 1) = IF 0 > d - 1 THEN 0 ELSE (d - 1) - 0 + 1
      BY <3>1, FS_Interval
    <3> QED
      BY <3>1, <3>2
  <2>11. Cardinality(FreeSlots(queue[n])) = d
    <3> DEFINE S == 0 .. d - 1
    <3>1. s = [i \in S |-> s[i]]
      OBVIOUS
    <3>2. /\ IsFiniteSet(S) /\ Cardinality(S) = d
          /\ FreeSlots(queue[n]) = { s[i] : i \in S }
          /\ \A i, j \in S : s[i] = s[j] => i = j
      BY <2>8, <2>9, <2>10
    <3> HIDE DEF S, s, d
    <3> QED
      BY <3>1, <3>2, ImageSize
  <2>12. Free(queue[n]) = Waiting(n, P, Q)
    <3>1. \A i \in Int : Slot((Q + i) % config.modulus) = Slot(Q + i)
      BY <2>1, SlotWraps
    <3>2. ASSUME NEW x \in Free(queue[n]) PROVE x \in Waiting(n, P, Q)
      <4>1. PICK k \in FreeSlots(queue[n]) : x = queue[n].ring[Slot(k)]
        BY DEF Free
      <4>2. PICK i \in 0 .. d - 1 : k = (Q + i) % config.modulus
        BY <2>8
      <4>3. x = Entry(n, Q + i) /\ Q + i \in Q .. P - 1
        BY <3>1, <4>1, <4>2 DEF Entry
      <4> QED
        BY <2>7, <4>3 DEF Waiting
    <3>3. ASSUME NEW x \in Waiting(n, P, Q) PROVE x \in Free(queue[n])
      <4>1. PICK j \in Q .. P - 1 : x = Entry(n, j)
        BY <2>7 DEF Waiting
      <4>2. j - Q \in 0 .. d - 1 /\ Q + (j - Q) = j
        OBVIOUS
      <4>3. s[j - Q] = j % config.modulus /\ s[j - Q] \in FreeSlots(queue[n])
        BY <2>8, <4>2
      <4>4. x = queue[n].ring[Slot(j % config.modulus)]
        BY <3>1, <4>1, <4>2 DEF Entry
      <4> QED
        BY <4>3, <4>4 DEF Free
    <3> QED
      BY <3>2, <3>3
  <2>13. Cardinality(Free(queue[n])) = d
    BY <2>1, <2>3, <2>7, <2>12, WaitingSize
  <2> HIDE DEF d, s
  <2> QED
    BY <2>3, <2>5, <2>11, <2>12, <2>13 DEF RingAt
<1>2. Base => Spared
  BY DEF Base, Typed, Spared
<1>3. Base /\ Owned /\ RingsFull /\ [Next]_vars => RingsFull'
  BY <1>2, RingsStep, RingsStutter, NextStep
<1> QED
  BY <1>1, <1>3, RingsInit, OwnedHolds, PTL DEF Spec
=============================================================================
