-------------------------- MODULE VideoCodecProofs --------------------------
(***************************************************************************)
(* The encoder and the decoder node, for every set of configurations and   *)
(* of threads that submit frames.  The invariants build on each other:     *)
(* TypeInv (the values, what a closed session still has, and that nothing  *)
(* is started while Initialize opens the node), AnswerInv (the command a   *)
(* call waits for is on its way, being answered or answered) and           *)
(* ControlInv (what the session, its ports and the state are at each step  *)
(* of a call and of a callback).  What is submitted to the driver needs    *)
(* SubmitInv, the conjunction of                                           *)
(*   DriverInv   what the driver may have during Initialize, and which     *)
(*               ports are started when a callback needs them              *)
(*   EncoderInv  an encoder becomes RUNNING by its start alone             *)
(*   CallsInv    a command of a decoder's call is pending only while that  *)
(*               call waits for it                                         *)
(*   EventsInv   and so is the event that follows it                       *)
(*   Calm        nobody submits while Initialize sets the buffers          *)
(*   StaticInv   nobody has the buffers that a reconfiguration sets        *)
(*   PlaceInv    a buffer is in one place, and its flag says whether       *)
(***************************************************************************)
EXTENDS VideoCodec, SequenceTheorems, FiniteSetTheorems, TLAPS

-----------------------------------------------------------------------------
(* The inductive invariant. *)

\* The lists are of the node's buffers; of a dynamic direction it lists none.
ListsOK ==
  /\ list = [d \in Dir |-> list[d]]
  /\ \A d \in Dir : list[d] \in Seq(Buffers(d)) /\ (~Static(d) => list[d] = <<>>)

\* The maps do not exceed their slots.
SlotsInv(d) ==
  /\ map[d] \subseteq Buffers(d) /\ Cardinality(map[d]) <= config.slots[d]
  /\ used[d] \subseteq map[d]
  /\ stuck[d] \subseteq used[d]
SlotsOK ==
  /\ map = [d \in Dir |-> map[d]]
  /\ used = [d \in Dir |-> used[d]]
  /\ stuck = [d \in Dir |-> stuck[d]]
  /\ \A d \in Dir : SlotsInv(d)

\* The buffers at the driver, and those of the application.
QueuedOK ==
  /\ queued = [d \in Dir |-> queued[d]]
  /\ \A d \in Dir : queued[d] \in [Buffers(d) -> Nat]
ClientOK ==
  /\ client = [d \in Dir |-> client[d]]
  /\ \A d \in Dir : client[d] \subseteq Buffers(d)

\* A session that is closed has nothing, and nothing comes from it.
Closed ==
  session = "CLOSED" =>
    /\ started = {} /\ cmds = <<>> /\ CbIdle
    /\ \A d \in Dir : \A b \in Buffers(d) : queued[d][b] = 0

\* What a worker has in hand.
WorkerInv(w) ==
  /\ worker[w] = [pc |-> worker[w].pc, d |-> worker[w].d, b |-> worker[w].b,
                  next |-> worker[w].next]
  /\ worker[w].pc \in {"idle", "state", "slot", "ioctl"}
  /\ worker[w].pc # "idle" => worker[w].d \in Dir /\ worker[w].b \in Buffers(worker[w].d)
  /\ worker[w].next \in {0} \cup Buffers("out")
WorkersOK ==
  /\ worker = [w \in Workers |-> worker[w]]
  /\ \A w \in Workers : WorkerInv(w)

\* The calls that use app.k: how many commands of a Stop, which failure cleans up.
StopPcs   == {"stop_reset", "stop_call", "stop_wait", "stop_next"}
DeInitPcs == { "deinit_reset", "deinit_call", "deinit_wait", "deinit_state", "deinit_free",
               "deinit_close", "deinit_end", "deinit_fail" }

AppInv ==
  /\ app = [pc |-> app.pc, k |-> app.k]
  /\ app.pc \in AppPcs /\ app.k \in Nat
  /\ app.pc \in StopPcs => app.k \in 1 .. Len(StopCommands)
  /\ app.pc \in DeInitPcs => app.k \in 0 .. 2
  /\ app.pc = "cleanup" => app.k \in 1 .. 2
  /\ app.pc = "fill_ioctl" => app.k < Len(ToFill)
  /\ app.pc = "deinit_end" => session = "CLOSED"

Finishing == {"state", "slot", "ioctl"}
CbInv ==
  /\ cb = [pc |-> cb.pc, d |-> cb.d, k |-> cb.k, what |-> cb.what]
  /\ cb.pc \in CbPcs /\ cb.d \in Dir /\ cb.k \in Nat
  /\ cb.what \in Commands \cup States \cup {"NONE"}
  /\ cb.pc = "done" => cb.k \in Buffers(cb.d)
  /\ cb.pc \in {"answer", "event"} => cb.what \in Commands
  /\ cb.pc = "write" => cb.what \in States
  /\ cb.pc \in Finishing => state # "INITIAL" /\ cb.k # 0
  /\ cb.pc \in {"slot", "ioctl"} => cb.k <= Len(list["out"])

MiscInv ==
  /\ config \in Configs /\ state \in States
  /\ open \in BOOLEAN /\ reconfiguring \in BOOLEAN /\ crossed \in BOOLEAN /\ missed \in BOOLEAN
  /\ cmdCompleted \in Commands \cup {"NONE"}
  /\ dynamicMode \subseteq Dir /\ started \subseteq Dir
  /\ session \in {"CLOSED", "OPEN", "LOADED"}
  /\ cmds \in Seq(Commands)

\* Initialize after the driver was opened, and the DeInitialize of its failure.
Opening ==
  \/ app.pc \in { "init_set", "init_reset", "init_load", "init_wait", "init_ready",
                 "post_fail", "init_fail", "cleanup", "init_end" }
  \/ app.pc \in DeInitPcs /\ app.k # 0

\* Nothing of the session was started, and no callback uses the lists.
Starters == {"START_ALL", "START_IN", "START_OUT"}
Barren ==
  /\ started = {}
  /\ \A i \in 1 .. Len(cmds) : cmds[i] \notin Starters
  /\ cb.pc \notin {"reconfig", "start_output", "output_started"} \cup Finishing
  /\ cb.pc \in {"answer", "event"} => cb.what \notin Starters
OpeningInv == Opening => Barren

TypeInv ==
  /\ MiscInv /\ ListsOK /\ SlotsOK /\ QueuedOK /\ ClientOK
  /\ WorkersOK /\ AppInv /\ CbInv /\ Closed /\ OpeningInv

\* The command the call in progress waits for.
Awaited ==
  CASE app.pc = "init_wait" -> "LOAD"
    [] app.pc = "start_wait" -> StartCommand
    [] app.pc = "stop_wait" -> StopCommands[app.k]
    [] app.pc = "deinit_wait" -> "RELEASE"

\* It is the driver's last command, or being answered, or answered last.
AnswerInv ==
  /\ missed => crossed
  /\ config.timely /\ ~crossed /\ app.pc \in Waiting =>
       \/ cmds # <<>> /\ cmds[Len(cmds)] = Awaited
       \/ cmds = <<>> /\ cb.pc = "answer" /\ cb.what = Awaited
       \/ cmds = <<>> /\ cb.pc # "answer" /\ cmdCompleted = Awaited

-----------------------------------------------------------------------------
(* Which steps change what. *)

ListStep    == Initialize_Refuse \/ Initialize_BadConfig \/ Initialize_SetBuffer
               \/ Initialize_Fail
CloseStep   == Initialize_Open \/ DeInitialize_Close
SetStep     == Initialize_SetBuffer \/ HandleOutputReconfig
CommandStep == Initialize_Load \/ Start_Call \/ Stop_Call \/ DeInitialize_Call
WaitStep    == Initialize_Wait \/ Start_Wait \/ Stop_Wait \/ DeInitialize_Wait
TakeStep    == Start_Fill \/ Finish_Slot \/ \E w \in Workers : Submit_Slot(w)
IoctlStep   == Start_FillIoctl \/ Finish_Ioctl \/ \E w \in Workers : Submit_Ioctl(w)
DoneStep    == \E d \in Dir : \E b \in Buffers(d) : Device_Done(d, b)
NodeStep    ==
  \/ Initialize_Refuse \/ Initialize_BadConfig \/ Initialize_Begin \/ Initialize_Open
  \/ Initialize_SetBuffer \/ Initialize_PostFail \/ Initialize_Fail \/ Initialize_End
  \/ Start_Begin \/ Start_Fail
  \/ Stop_Begin \/ Stop_End \/ DeInitialize_Begin \/ DeInitialize_Close \/ DeInitialize_End
  \/ Event_Write \/ HandleOutputReconfig \/ Reconfig_StartOutput \/ Output_Started
WorkerStep  == \E w \in Workers : ProcessFrameDescriptor(w)

Changes ==
  /\ UNCHANGED config
  /\ UNCHANGED <<state, open, dynamicMode, reconfiguring>> \/ NodeStep
  /\ UNCHANGED list \/ ListStep
  /\ UNCHANGED <<map, used>> \/ SetStep \/ TakeStep \/ IoctlStep \/ FrameDone
  /\ UNCHANGED stuck \/ SetStep \/ CloseStep \/ IoctlStep \/ FrameDone
  /\ UNCHANGED queued \/ CloseStep \/ IoctlStep \/ DoneStep
  /\ UNCHANGED <<session, started>> \/ CloseStep \/ Device_Answer
  /\ UNCHANGED cmds \/ CloseStep \/ CommandStep \/ Device_Answer \/ Reconfig_StartOutput
  /\ UNCHANGED client \/ CloseStep \/ Start_Begin \/ TakeStep \/ IoctlStep \/ FrameDone
     \/ Finish_State \/ WorkerStep
  /\ UNCHANGED worker \/ WorkerStep
  /\ UNCHANGED app \/ Lifecycle
  /\ UNCHANGED cb \/ Callback \/ Device
  /\ UNCHANGED missed \/ WaitStep
  /\ UNCHANGED crossed \/ Reconfig_StartOutput
  /\ UNCHANGED cmdCompleted \/ InitCmdCompleted \/ Answer \/ Reconfig_StartOutput

LEMMA StepChanges == ASSUME [Next]_vars PROVE Changes
<1> USE DEF Changes, NodeStep, node, slots, driver, budget, history
<1>1. CASE Initialize
  <2> USE <1>1 DEF ListStep, SetStep, CloseStep, CommandStep, WaitStep, Lifecycle
  <2>1. CASE Initialize_Refuse BY <2>1 DEF Initialize_Refuse
  <2>2. CASE Initialize_BadConfig BY <2>2 DEF Initialize_BadConfig
  <2>3. CASE Initialize_Begin BY <2>3 DEF Initialize_Begin
  <2>4. CASE Initialize_Open BY <2>4 DEF Initialize_Open, CloseDriver, EndSession, Goto
  <2>5. CASE Initialize_SetBuffer BY <2>5 DEF Initialize_SetBuffer
  <2>6. CASE Initialize_Load BY <2>6 DEF Initialize_Load, Command, Goto
  <2>7. CASE Initialize_Wait BY <2>7 DEF Initialize_Wait, AwaitCmd, AwaitState, Goto
  <2>8. CASE Initialize_PostFail BY <2>8 DEF Initialize_PostFail
  <2>9. CASE Initialize_Fail BY <2>9 DEF Initialize_Fail
  <2>10. CASE Initialize_End BY <2>10 DEF Initialize_End
  <2> QED BY <2>1, <2>2, <2>3, <2>4, <2>5, <2>6, <2>7, <2>8, <2>9, <2>10 DEF Initialize
<1>2. CASE Start
  <2> USE <1>2 DEF CommandStep, WaitStep, TakeStep, IoctlStep, Lifecycle
  <2>1. CASE Start_Begin BY <2>1 DEF Start_Begin
  <2>2. CASE Start_Call BY <2>2 DEF Start_Call, Command, Goto
  <2>3. CASE Start_Wait BY <2>3 DEF Start_Wait, AwaitCmd, AwaitState, Goto
  <2>4. CASE Start_Fail BY <2>4 DEF Start_Fail
  <2>5. CASE Start_Fill BY <2>5 DEF Start_Fill, TakeSlot, Return
  <2>6. CASE Start_FillIoctl BY <2>6 DEF Start_FillIoctl, SubmitFrame, ResetSlot, Queue, Return
  <2> QED BY <2>1, <2>2, <2>3, <2>4, <2>5, <2>6 DEF Start
<1>3. CASE Stop
  <2> USE <1>3 DEF CommandStep, WaitStep, Lifecycle
  <2>1. CASE Stop_Begin BY <2>1 DEF Stop_Begin
  <2>2. CASE Stop_Call BY <2>2 DEF Stop_Call, Command, Goto
  <2>3. CASE Stop_Wait BY <2>3 DEF Stop_Wait, AwaitCmd, AwaitState, Goto
  <2>4. CASE Stop_Next BY <2>4 DEF Stop_Next
  <2>5. CASE Stop_End BY <2>5 DEF Stop_End
  <2> QED BY <2>1, <2>2, <2>3, <2>4, <2>5 DEF Stop
<1>4. CASE DeInitialize
  <2> USE <1>4 DEF CommandStep, WaitStep, CloseStep, Lifecycle
  <2>1. CASE DeInitialize_Begin BY <2>1 DEF DeInitialize_Begin, DeInitialize_Enter
  <2>2. CASE DeInitialize_Call BY <2>2 DEF DeInitialize_Call, Command, Goto
  <2>3. CASE DeInitialize_Wait BY <2>3 DEF DeInitialize_Wait, AwaitCmd, AwaitState, Goto
  <2>4. CASE DeInitialize_Free BY <2>4 DEF DeInitialize_Free
  <2>5. CASE DeInitialize_Close BY <2>5 DEF DeInitialize_Close, CloseDriver, EndSession, Goto
  <2>6. CASE DeInitialize_End BY <2>6 DEF DeInitialize_End
  <2> QED BY <2>1, <2>2, <2>3, <2>4, <2>5, <2>6 DEF DeInitialize
<1>5. CASE Callback
  <2> USE <1>5 DEF SetStep, TakeStep, IoctlStep
  <2>1. CASE FrameDone BY <2>1 DEF FrameDone, ResetSlot, Return
  <2>2. CASE Answer BY <2>2 DEF Answer
  <2>3. CASE Event_Read BY <2>3 DEF Event_Read
  <2>4. CASE Event_Write BY <2>4 DEF Event_Write
  <2>5. CASE HandleOutputReconfig BY <2>5 DEF HandleOutputReconfig, Reconfig_Error, SetBuffer
  <2>6. CASE Reconfig_StartOutput BY <2>6 DEF Reconfig_StartOutput, Reconfig_Error
  <2>7. CASE Output_Started BY <2>7 DEF Output_Started
  <2>8. CASE Finish_End BY <2>8 DEF Finish_End
  <2>9. CASE Finish_State BY <2>9 DEF Finish_State, Finish_Break
  <2>10. CASE Finish_Slot BY <2>10 DEF Finish_Slot, TakeSlot, Finish_Break
  <2>11. CASE Finish_Ioctl BY <2>11 DEF Finish_Ioctl, ResetSlot, Queue, Finish_Break
  <2> QED BY <2>1, <2>2, <2>3, <2>4, <2>5, <2>6, <2>7, <2>8, <2>9, <2>10, <2>11 DEF Callback, FinishOutputReconfig
<1>6. CASE Device
  <2> USE <1>6 DEF DoneStep
  <2>1. CASE Device_Answer BY <2>1 DEF Device_Answer
  <2>2. CASE Device_Fatal BY <2>2 DEF Device_Fatal
  <2>3. CASE Device_Reconfig BY <2>3 DEF Device_Reconfig
  <2>4. ASSUME NEW d \in Dir, NEW b \in Buffers(d), Device_Done(d, b) PROVE Changes
    BY <2>4 DEF Device_Done
  <2> QED BY <2>1, <2>2, <2>3, <2>4 DEF Device
<1>7. ASSUME NEW w \in Workers, ProcessFrameDescriptor(w) PROVE Changes
  <2> USE <1>7 DEF TakeStep, IoctlStep, WorkerStep
  <2>1. CASE Process_Begin(w) BY <2>1 DEF Process_Begin
  <2>2. CASE Submit_State(w) BY <2>2 DEF Submit_State, GiveUp
  <2>3. CASE Submit_Slot(w) BY <2>3 DEF Submit_Slot, GiveUp, TakeSlot
  <2>4. CASE Submit_Ioctl(w) BY <2>4 DEF Submit_Ioctl, GiveUp, ResetSlot, Queue
  <2> QED BY <1>7, <2>1, <2>2, <2>3, <2>4 DEF ProcessFrameDescriptor
<1>8. CASE InitCmdCompleted BY <1>8 DEF InitCmdCompleted, Lifecycle
<1>9. CASE UNCHANGED vars BY <1>9 DEF vars
<1> QED BY <1>1, <1>2, <1>3, <1>4, <1>5, <1>6, <1>7, <1>8, <1>9 DEF Next, Lifecycle

-----------------------------------------------------------------------------
(* The slots of the maps. *)

LEMMA BufferFacts ==
  ASSUME MiscInv, NEW d \in Dir
  PROVE  /\ config.buffers[d] \in Nat /\ config.slots[d] \in Nat
         /\ Static(d) => config.slots[d] = config.buffers[d]
         /\ IsFiniteSet(Buffers(d)) /\ Cardinality(Buffers(d)) = config.buffers[d]
<1>1. IsConfig(config)
  BY VideoAssumption DEF MiscInv
<1>2. config.buffers[d] \in Nat /\ config.slots[d] \in Nat
  BY <1>1 DEF IsConfig
<1>3. Static(d) => config.slots[d] = config.buffers[d]
  BY <1>1 DEF IsConfig, Static
<1>4. IsFiniteSet(Buffers(d)) /\ Cardinality(Buffers(d)) = config.buffers[d]
  <2>1. \A n \in Nat : IsFiniteSet(1 .. n) /\ Cardinality(1 .. n) = n
    BY FS_Interval
  <2> QED BY <1>2, <2>1 DEF Buffers
<1> QED BY <1>2, <1>3, <1>4

LEMMA Subsets ==
  ASSUME MiscInv, NEW d \in Dir, NEW S \in SUBSET Buffers(d)
  PROVE  /\ IsFiniteSet(S) /\ Cardinality(S) \in Nat
         /\ Static(d) => Cardinality(S) <= config.slots[d]
<1>1. IsFiniteSet(Buffers(d)) /\ IsFiniteSet(S)
  BY BufferFacts, FS_Subset
<1>2. Cardinality(S) <= Cardinality(Buffers(d)) /\ Cardinality(S) \in Nat
  BY <1>1, FS_Subset, FS_CardinalityType
<1> QED BY <1>1, <1>2, BufferFacts

LEMMA SlotTaken ==
  ASSUME MiscInv, SlotsOK, NEW d \in Dir, NEW b \in Buffers(d), SlotFree(d, b),
         TakeSlot(d, b), UNCHANGED <<config, stuck>>
  PROVE  SlotsOK'
<1>1. /\ map' = [map EXCEPT ![d] = map[d] \cup {b}]
      /\ used' = [used EXCEPT ![d] = used[d] \cup {b}]
  BY DEF TakeSlot
<1>2. Cardinality(map[d] \cup {b}) <= config.slots[d]
  <2>1. CASE b \in map[d]
    <3>1. map[d] \cup {b} = map[d]
      BY <2>1
    <3> QED BY <3>1 DEF SlotsOK, SlotsInv
  <2>2. CASE b \notin map[d]
    <3>1. Cardinality(map[d]) < config.slots[d]
      BY <2>2 DEF SlotFree
    <3>2. IsFiniteSet(map[d]) /\ Cardinality(map[d]) \in Nat
      BY Subsets DEF SlotsOK, SlotsInv
    <3>3. Cardinality(map[d] \cup {b}) = Cardinality(map[d]) + 1
      BY <2>2, <3>2, FS_AddElement
    <3> QED BY <3>1, <3>2, <3>3, BufferFacts
  <2> QED BY <2>1, <2>2
<1>3. \A e \in Dir : /\ map'[e] = IF e = d THEN map[d] \cup {b} ELSE map[e]
                     /\ used'[e] = IF e = d THEN used[d] \cup {b} ELSE used[e]
  BY <1>1 DEF SlotsOK
<1>4. ASSUME NEW e \in Dir PROVE SlotsInv(e)'
  BY <1>2, <1>3 DEF SlotsOK, SlotsInv, Buffers
<1>5. map' = [e \in Dir |-> map'[e]] /\ used' = [e \in Dir |-> used'[e]]
  BY <1>1 DEF SlotsOK
<1> QED BY <1>4, <1>5 DEF SlotsOK

LEMMA SlotReset ==
  ASSUME SlotsOK, NEW d \in Dir, NEW b, ResetSlot(d, b), UNCHANGED config
  PROVE  SlotsOK'
<1>1. /\ used' = [used EXCEPT ![d] = used[d] \ {b}]
      /\ stuck' = [stuck EXCEPT ![d] = stuck[d] \ {b}] /\ UNCHANGED map
  BY DEF ResetSlot
<1>2. \A e \in Dir : /\ used'[e] = IF e = d THEN used[d] \ {b} ELSE used[e]
                     /\ stuck'[e] = IF e = d THEN stuck[d] \ {b} ELSE stuck[e]
  BY <1>1 DEF SlotsOK
<1>3. ASSUME NEW e \in Dir PROVE SlotsInv(e)'
  BY <1>1, <1>2 DEF SlotsOK, SlotsInv, Buffers
<1>4. used' = [e \in Dir |-> used'[e]] /\ stuck' = [e \in Dir |-> stuck'[e]]
  BY <1>1 DEF SlotsOK
<1> QED BY <1>1, <1>3, <1>4 DEF SlotsOK

LEMMA SlotsSet ==
  ASSUME MiscInv, SlotsOK, ListsOK', NEW D, SetBuffer(D), UNCHANGED config
  PROVE  SlotsOK'
<1>1. ASSUME NEW d \in Dir PROVE SlotsInv(d)'
  <2>1. ToSet(list'[d]) \subseteq Buffers(d)
    <3>1. list'[d] \in Seq(Buffers(d))
      BY DEF ListsOK, Buffers
    <3>2. \A s \in Seq(Buffers(d)) : ToSet(s) \subseteq Buffers(d)
      BY DEF ToSet
    <3> QED BY <3>1, <3>2
  <2>2. ~Static(d) => ToSet(list'[d]) = {}
    BY DEF ListsOK, ToSet, Static
  <2>3. /\ map'[d] = IF d \in D THEN map[d] \cup ToSet(list'[d]) ELSE map[d]
        /\ used'[d] = IF d \in D THEN used[d] \ ToSet(list'[d]) ELSE used[d]
        /\ stuck'[d] = IF d \in D THEN stuck[d] \ ToSet(list'[d]) ELSE stuck[d]
    BY DEF SetBuffer
  <2>4. /\ map[d] \subseteq Buffers(d) /\ Cardinality(map[d]) <= config.slots[d]
        /\ used[d] \subseteq map[d] /\ stuck[d] \subseteq used[d]
    BY DEF SlotsOK, SlotsInv
  <2>5. map'[d] \subseteq Buffers(d)
    BY <2>1, <2>3, <2>4
  <2>6. Cardinality(map'[d]) <= config.slots[d]
    <3>1. CASE Static(d)
      BY <2>5, <3>1, Subsets
    <3>2. CASE ~Static(d)
      <4>1. map'[d] = map[d]
        BY <2>2, <2>3, <3>2
      <4> QED BY <2>4, <4>1
    <3> QED BY <3>1, <3>2
  <2>7. used'[d] \subseteq map'[d] /\ stuck'[d] \subseteq used'[d]
    BY <2>3, <2>4
  <2> QED BY <2>5, <2>6, <2>7 DEF SlotsInv, Buffers
<1> QED BY <1>1 DEF SlotsOK, SetBuffer

LEMMA ListedSeq ==
  ASSUME MiscInv, NEW d \in Dir
  PROVE  Listed[d] \in Seq(Buffers(d))
<1>1. CASE Static(d)
  <2>1. config.buffers[d] \in Nat
    BY BufferFacts
  <2> QED BY <1>1, <2>1 DEF Listed, Buffers
<1>2. CASE ~Static(d)
  <2>1. Listed[d] = <<>>
    BY <1>2 DEF Listed
  <2> QED BY <2>1
<1> QED BY <1>1, <1>2

-----------------------------------------------------------------------------
(* The buffers that are in somebody's hands. *)

LEMMA FillInHand ==
  ASSUME ListsOK, NEW k \in Nat, k < Len(ToFill)
  PROVE  ToFill[k + 1] \in Buffers("out")
<1>1. list["out"] \in Seq(Buffers("out"))
  BY DEF ListsOK, Dir
<1>2. ToFill \in Seq(Buffers("out"))
  BY <1>1 DEF ToFill
<1> QED BY <1>2

LEMMA ListedInHand ==
  ASSUME ListsOK, CbInv, cb.pc \in {"slot", "ioctl"}
  PROVE  ListedOutput \in Buffers("out")
<1>1. list["out"] \in Seq(Buffers("out"))
  BY DEF ListsOK, Dir
<1>2. cb.k \in 1 .. Len(list["out"])
  BY DEF CbInv, Finishing
<1> QED BY <1>1, <1>2 DEF ListedOutput

LEMMA WorkerInHand ==
  ASSUME WorkersOK, NEW w \in Workers, worker[w].pc # "idle"
  PROVE  worker[w].d \in Dir /\ worker[w].b \in Buffers(worker[w].d)
BY DEF WorkersOK, WorkerInv

LEMMA HeldAreBuffers ==
  ASSUME NEW w \in Workers, NEW d \in Dir
  PROVE  HeldBy(w, d) \subseteq Buffers(d)
BY DEF HeldBy

-----------------------------------------------------------------------------
(* Each part of the invariant is kept. *)

LEMMA ListsKept ==
  ASSUME TypeInv, [Next]_vars
  PROVE  ListsOK'
<1>1. UNCHANGED config /\ (UNCHANGED list \/ ListStep)
  BY StepChanges DEF Changes
<1>2. ListsOK
  BY DEF TypeInv
<1>3. CASE UNCHANGED list
  BY <1>1, <1>2, <1>3 DEF ListsOK, Buffers, Static
<1>4. CASE list' = Empty
  BY <1>1, <1>4 DEF ListsOK, Empty, Buffers, Static
<1>5. CASE Initialize_SetBuffer
  <2>1. list' = [d \in Dir |-> list[d] \o Listed[d]]
    BY <1>5 DEF Initialize_SetBuffer
  <2>2. ASSUME NEW d \in Dir
        PROVE  list'[d] \in Seq(Buffers(d)) /\ (~Static(d) => list'[d] = <<>>)
    <3>1. list[d] \in Seq(Buffers(d)) /\ (~Static(d) => list[d] = <<>>)
      BY <1>2 DEF ListsOK
    <3>2. CASE Static(d)
      <4>1. config.buffers[d] \in Nat
        BY BufferFacts DEF TypeInv
      <4>2. Listed[d] \in Seq(Buffers(d))
        BY <3>2, <4>1 DEF Listed, Buffers
      <4> QED BY <2>1, <3>1, <3>2, <4>2
    <3>3. CASE ~Static(d)
      <4>1. Listed[d] = <<>> /\ list[d] = <<>>
        BY <3>1, <3>3 DEF Listed
      <4>2. list[d] \o Listed[d] = <<>>
        BY <3>1, <4>1, ConcatEmptySeq
      <4>3. list'[d] = <<>>
        BY <2>1, <4>2
      <4>4. <<>> \in Seq(Buffers(d))
        OBVIOUS
      <4> QED BY <4>3, <4>4
    <3> QED BY <3>2, <3>3
  <2> QED BY <1>1, <2>1, <2>2 DEF ListsOK, Buffers, Static
<1> QED BY <1>1, <1>3, <1>4, <1>5
        DEF ListStep, Initialize_Refuse, Initialize_BadConfig, Initialize_Fail

\* One of the buffers in hand takes its slot, or gives it up.
Taken(d, b) == b \in Buffers(d) /\ SlotFree(d, b) /\ TakeSlot(d, b) /\ UNCHANGED stuck

LEMMA TakeStepTakes ==
  ASSUME TypeInv, TakeStep
  PROVE  UNCHANGED <<map, used, stuck>> \/ \E d \in Dir : \E b \in Buffers(d) : Taken(d, b)
<1> USE DEF history, slots
<1>1. CASE Start_Fill
  <2>1. ToFill[app.k + 1] \in Buffers("out") \/ ~(app.k < Len(ToFill))
    BY FillInHand DEF TypeInv, AppInv
  <2> QED BY <1>1, <2>1 DEF Start_Fill, Taken, Dir
<1>2. CASE Finish_Slot
  <2>1. ListedOutput \in Buffers("out")
    BY <1>2, ListedInHand DEF Finish_Slot, TypeInv
  <2> QED BY <1>2, <2>1 DEF Finish_Slot, Taken, Dir
<1>3. ASSUME NEW w \in Workers, Submit_Slot(w)
      PROVE  UNCHANGED <<map, used, stuck>> \/ \E d \in Dir : \E b \in Buffers(d) : Taken(d, b)
  <2>1. worker[w].d \in Dir /\ worker[w].b \in Buffers(worker[w].d)
    BY <1>3, WorkerInHand DEF Submit_Slot, TypeInv
  <2> QED BY <1>3, <2>1 DEF Submit_Slot, Taken
<1> QED BY <1>1, <1>2, <1>3 DEF TakeStep

\* A buffer in hand goes to the driver, or its slot is free again.
Sent(d, b) ==
  /\ b \in Buffers(d)
  /\ UNCHANGED <<map, session, started, cmds>>
  /\ \/ session = "LOADED" /\ started # {} /\ Queue(d, b) /\ UNCHANGED <<used, stuck>>
     \/ ResetSlot(d, b) /\ UNCHANGED queued

LEMMA TakesNeedsSession == TRUE \in Takes => session = "LOADED" /\ started # {}
BY DEF Takes

LEMMA IoctlStepSends ==
  ASSUME TypeInv, IoctlStep
  PROVE  \E d \in Dir : \E b \in Buffers(d) : Sent(d, b)
<1> USE TakesNeedsSession DEF history, slots
<1>1. CASE Start_FillIoctl
  <2>1. ToFill[app.k + 1] \in Buffers("out")
    BY <1>1, FillInHand DEF TypeInv, AppInv, Start_FillIoctl, AppAt
  <2>2. Sent("out", ToFill[app.k + 1])
    BY <1>1, <2>1 DEF Start_FillIoctl, SubmitFrame, Sent, ResetSlot
  <2> QED BY <2>1, <2>2 DEF Dir
<1>2. CASE Finish_Ioctl
  <2>1. ListedOutput \in Buffers("out")
    BY <1>2, ListedInHand DEF Finish_Ioctl, TypeInv
  <2>2. Sent("out", ListedOutput)
    BY <1>2, <2>1 DEF Finish_Ioctl, Sent, ResetSlot
  <2> QED BY <2>1, <2>2 DEF Dir
<1>3. ASSUME NEW w \in Workers, Submit_Ioctl(w)
      PROVE  \E d \in Dir : \E b \in Buffers(d) : Sent(d, b)
  <2>1. worker[w].d \in Dir /\ worker[w].b \in Buffers(worker[w].d)
    BY <1>3, WorkerInHand DEF Submit_Ioctl, TypeInv
  <2>2. Sent(worker[w].d, worker[w].b)
    BY <1>3, <2>1 DEF Submit_Ioctl, Sent, ResetSlot
  <2> QED BY <2>1, <2>2
<1> QED BY <1>1, <1>2, <1>3 DEF IoctlStep

LEMMA SlotsKept ==
  ASSUME TypeInv, [Next]_vars
  PROVE  SlotsOK'
<1> USE DEF TypeInv
<1>1. /\ UNCHANGED config
      /\ UNCHANGED <<map, used>> \/ SetStep \/ TakeStep \/ IoctlStep \/ FrameDone
      /\ UNCHANGED stuck \/ SetStep \/ CloseStep \/ IoctlStep \/ FrameDone
  BY StepChanges DEF Changes
<1>2. CASE UNCHANGED <<map, used, stuck>>
  BY <1>1, <1>2 DEF SlotsOK, SlotsInv, Buffers
<1>3. CASE TakeStep
  <2>1. ASSUME NEW d \in Dir, NEW b \in Buffers(d), Taken(d, b) PROVE SlotsOK'
    BY <1>1, <2>1, SlotTaken DEF Taken
  <2> QED BY <1>2, <1>3, <2>1, TakeStepTakes
<1>4. CASE IoctlStep
  <2>1. ASSUME NEW d \in Dir, NEW b \in Buffers(d), Sent(d, b) PROVE SlotsOK'
    BY <1>1, <1>2, <2>1, SlotReset DEF Sent
  <2> QED BY <1>4, <2>1, IoctlStepSends
<1>5. CASE SetStep
  <2>1. UNCHANGED <<map, used, stuck>> \/ \E D : SetBuffer(D)
    BY <1>5 DEF SetStep, Initialize_SetBuffer, HandleOutputReconfig, slots
  <2> QED BY <1>1, <1>2, <2>1, SlotsSet, ListsKept
<1>6. CASE FrameDone
  <2>1. cb.d \in Dir
    BY DEF CbInv
  <2>2. CASE ResetSlot(cb.d, cb.k)
    BY <1>1, <2>1, <2>2, SlotReset
  <2>3. CASE ~ResetSlot(cb.d, cb.k)
    <3>1. /\ UNCHANGED <<map, used>>
          /\ stuck' = [stuck EXCEPT ![cb.d] = stuck[cb.d] \cup ({cb.k} \cap used[cb.d])]
      BY <1>6, <2>3 DEF FrameDone, slots
    <3>2. \A d \in Dir : stuck'[d] = IF d = cb.d THEN stuck[d] \cup ({cb.k} \cap used[d])
                                    ELSE stuck[d]
      BY <2>1, <3>1 DEF SlotsOK
    <3>3. stuck' = [d \in Dir |-> stuck'[d]]
      BY <3>1 DEF SlotsOK
    <3>4. ASSUME NEW d \in Dir PROVE SlotsInv(d)'
      BY <1>1, <3>1, <3>2 DEF SlotsOK, SlotsInv, Buffers
    <3> QED BY <3>1, <3>3, <3>4 DEF SlotsOK
  <2> QED BY <2>2, <2>3
<1>7. CASE CloseStep
  <2>1. stuck' = used /\ UNCHANGED <<map, used>>
    BY <1>7 DEF CloseStep, Initialize_Open, DeInitialize_Close,
       CloseDriver, EndSession, slots
  <2> QED BY <1>1, <2>1 DEF SlotsOK, SlotsInv, Buffers
<1> QED BY <1>1, <1>2, <1>3, <1>4, <1>5, <1>6, <1>7

LEMMA QueuedKept ==
  ASSUME TypeInv, [Next]_vars
  PROVE  QueuedOK'
<1> USE DEF TypeInv
<1>1. UNCHANGED config /\ (UNCHANGED queued \/ CloseStep \/ IoctlStep \/ DoneStep)
  BY StepChanges DEF Changes
<1>2. CASE UNCHANGED queued
  BY <1>1, <1>2 DEF QueuedOK, Buffers
<1>3. CASE CloseStep
  <2>1. queued' = Nothing
    BY <1>3 DEF CloseStep, Initialize_Open, DeInitialize_Close,
       CloseDriver, EndSession
  <2> QED BY <1>1, <2>1 DEF QueuedOK, Nothing, Buffers
<1>4. ASSUME NEW d \in Dir, NEW b \in Buffers(d), NEW n \in Nat,
             queued' = [queued EXCEPT ![d][b] = n]
      PROVE  QueuedOK'
  <2>1. \A e \in Dir : queued'[e] = IF e = d THEN [queued[d] EXCEPT ![b] = n] ELSE queued[e]
    BY <1>4 DEF QueuedOK
  <2>2. queued' = [e \in Dir |-> queued'[e]]
    BY <1>4 DEF QueuedOK
  <2>3. ASSUME NEW e \in Dir PROVE queued'[e] \in [Buffers(e) -> Nat]
    BY <2>1 DEF QueuedOK
  <2> QED BY <1>1, <2>2, <2>3 DEF QueuedOK, Buffers
<1>5. ASSUME NEW d \in Dir, NEW b \in Buffers(d), Sent(d, b) PROVE QueuedOK'
  <2>1. queued[d][b] + 1 \in Nat
    BY DEF QueuedOK
  <2>2. UNCHANGED queued \/ queued' = [queued EXCEPT ![d][b] = queued[d][b] + 1]
    BY <1>5 DEF Sent, Queue
  <2> QED BY <1>2, <1>4, <2>1, <2>2
<1>6. ASSUME NEW d \in Dir, NEW b \in Buffers(d), Device_Done(d, b) PROVE QueuedOK'
  <2>1. queued[d][b] > 0 /\ queued' = [queued EXCEPT ![d][b] = queued[d][b] - 1]
    BY <1>6 DEF Device_Done
  <2>2. queued[d][b] - 1 \in Nat
    BY <2>1 DEF QueuedOK
  <2> QED BY <1>4, <2>1, <2>2
<1> QED BY <1>1, <1>2, <1>3, <1>5, <1>6, IoctlStepSends DEF DoneStep

LEMMA ClientKept ==
  ASSUME TypeInv, [Next]_vars
  PROVE  ClientOK'
<1> USE DEF TypeInv
<1>1. /\ UNCHANGED config
      /\ UNCHANGED client \/ CloseStep \/ Start_Begin \/ TakeStep \/ IoctlStep \/ FrameDone
         \/ Finish_State \/ WorkerStep
  BY StepChanges DEF Changes
<1>2. CASE UNCHANGED client
  BY <1>1, <1>2 DEF ClientOK, Buffers
<1>3. CASE CloseStep \/ Start_Begin
  <2>1. UNCHANGED client \/ client' = [d \in Dir |-> Buffers(d) \ Submitting(d)]
        \/ client' = [client EXCEPT !["out"] = @ \ ToSet(list["out"])]
    BY <1>3 DEF CloseStep, Initialize_Open, DeInitialize_Close,
       CloseDriver, Start_Begin
  <2> QED BY <1>1, <1>2, <2>1 DEF ClientOK, Buffers
<1>4. ASSUME NEW d \in Dir, NEW S \in SUBSET Buffers(d),
             client' = [client EXCEPT ![d] = @ \cup S]
      PROVE  ClientOK'
  <2>1. client' = [e \in Dir |-> client'[e]]
    BY <1>4 DEF ClientOK
  <2>2. \A e \in Dir : client'[e] \subseteq Buffers(e)
    BY <1>4 DEF ClientOK
  <2> QED BY <1>1, <2>1, <2>2 DEF ClientOK, Buffers
<1>5. ASSUME NEW d \in Dir, NEW b \in Buffers(d), Return(d, b) PROVE ClientOK'
  <2>1. {b} \in SUBSET Buffers(d) /\ client' = [client EXCEPT ![d] = @ \cup {b}]
    BY <1>5 DEF Return
  <2> QED BY <1>4, <2>1
<1>6. ASSUME NEW w \in Workers, GiveUp(w) PROVE ClientOK'
  BY <1>1, <1>6, HeldAreBuffers DEF GiveUp, ClientOK, Buffers
<1>7. ASSUME Finish_Break PROVE ClientOK'
  <2>1. Unsubmitted \subseteq Buffers("out")
    <3>1. list["out"] \in Seq(Buffers("out"))
      BY DEF ListsOK, Dir
    <3> QED BY <3>1 DEF Unsubmitted
  <2> QED BY <1>4, <1>7, <2>1 DEF Finish_Break, Dir
<1>8. CASE Start_Fill \/ Start_FillIoctl
  <2>1. UNCHANGED client \/ (app.k < Len(ToFill) /\ Return("out", ToFill[app.k + 1]))
    BY <1>8 DEF Start_Fill, Start_FillIoctl, SubmitFrame, AppInv, AppAt
  <2> QED BY <1>2, <1>5, <2>1, FillInHand DEF AppInv, Dir
<1>9. CASE Finish_State \/ Finish_Slot \/ Finish_Ioctl
  BY <1>2, <1>7, <1>9 DEF Finish_State, Finish_Slot, Finish_Ioctl
<1>10. CASE FrameDone
  BY <1>2, <1>5, <1>10 DEF FrameDone, CbInv
<1>11. ASSUME NEW w \in Workers, ProcessFrameDescriptor(w) PROVE ClientOK'
  <2>1. CASE Process_Begin(w)
    <3>1. \E i, o : client' = [client EXCEPT !["in"] = @ \ {i}, !["out"] = @ \ {o}]
      BY <2>1 DEF Process_Begin
    <3> QED BY <1>1, <3>1 DEF ClientOK, Buffers, Dir
  <2>2. CASE Submit_State(w)
    BY <1>2, <1>6, <2>2 DEF Submit_State
  <2>3. CASE Submit_Slot(w)
    BY <1>2, <1>6, <2>3 DEF Submit_Slot
  <2>4. CASE Submit_Ioctl(w)
    BY <1>2, <1>6, <2>4 DEF Submit_Ioctl
  <2> QED BY <1>11, <2>1, <2>2, <2>3, <2>4 DEF ProcessFrameDescriptor
<1>12. (\E w \in Workers : Submit_Slot(w) \/ Submit_Ioctl(w)) => WorkerStep
  BY DEF WorkerStep, ProcessFrameDescriptor
<1> QED BY <1>1, <1>2, <1>3, <1>8, <1>9, <1>10, <1>11, <1>12
        DEF TakeStep, IoctlStep, WorkerStep

LEMMA WorkersKept ==
  ASSUME TypeInv, [Next]_vars
  PROVE  WorkersOK'
<1> USE DEF TypeInv
<1>1. UNCHANGED config /\ (UNCHANGED worker \/ WorkerStep)
  BY StepChanges DEF Changes
<1>2. CASE UNCHANGED worker
  BY <1>1, <1>2 DEF WorkersOK, WorkerInv, Buffers
<1>3. ASSUME NEW w \in Workers, NEW pc \in {"idle", "state", "slot", "ioctl"}, NEW d \in Dir,
             NEW b, NEW next \in {0} \cup Buffers("out"), pc # "idle" => b \in Buffers(d),
             worker' = [worker EXCEPT ![w] = [pc |-> pc, d |-> d, b |-> b, next |-> next]]
      PROVE  WorkersOK'
  <2>1. worker' = [v \in Workers |-> worker'[v]]
    BY <1>3 DEF WorkersOK
  <2>2. worker'[w] = [pc |-> pc, d |-> d, b |-> b, next |-> next]
    BY <1>3 DEF WorkersOK
  <2>3. WorkerInv(w)'
    BY <1>1, <1>3, <2>2 DEF WorkerInv, Buffers
  <2>4. ASSUME NEW v \in Workers, v # w PROVE WorkerInv(v)'
    <3>1. worker'[v] = worker[v] /\ WorkerInv(v)
      BY <1>3, <2>4 DEF WorkersOK
    <3> QED BY <1>1, <3>1 DEF WorkerInv, Buffers
  <2> QED BY <2>1, <2>3, <2>4 DEF WorkersOK
<1>4. ASSUME NEW w \in Workers, worker' = [worker EXCEPT ![w] = Idle] PROVE WorkersOK'
  <2>1. Idle = [pc |-> "idle", d |-> "in", b |-> 0, next |-> 0]
    BY DEF Idle
  <2> QED BY <1>3, <1>4, <2>1 DEF Dir
<1>5. ASSUME NEW w \in Workers, ProcessFrameDescriptor(w) PROVE WorkersOK'
  <2>1. CASE Process_Begin(w)
    <3>1. PICK in \in {0} \cup Buffers("in"), out \in {0} \cup Buffers("out") :
            /\ in # 0 \/ out # 0
            /\ worker' = [worker EXCEPT ![w] =
                            IF in # 0
                            THEN [pc |-> "slot", d |-> "in", b |-> in, next |-> out]
                            ELSE [pc |-> "slot", d |-> "out", b |-> out, next |-> 0]]
      BY <2>1 DEF Process_Begin, ClientOK, Dir
    <3>2. CASE in # 0
      BY <1>3, <3>1, <3>2 DEF Dir
    <3>3. CASE in = 0
      BY <1>3, <3>1, <3>3 DEF Dir
    <3> QED BY <3>2, <3>3
  <2>2. ASSUME NEW pc \in {"slot", "ioctl"}, worker[w].pc # "idle",
               worker' = [worker EXCEPT ![w].pc = pc]
        PROVE  WorkersOK'
    <3>1. WorkerInv(w)
      BY DEF WorkersOK
    <3>2. [worker[w] EXCEPT !.pc = pc]
            = [pc |-> pc, d |-> worker[w].d, b |-> worker[w].b, next |-> worker[w].next]
      BY <3>1 DEF WorkerInv
    <3>3. worker' = [worker EXCEPT ![w] = [worker[w] EXCEPT !.pc = pc]]
      BY <2>2
    <3>4. /\ worker[w].d \in Dir /\ worker[w].b \in Buffers(worker[w].d)
          /\ worker[w].next \in {0} \cup Buffers("out")
      BY <2>2, <3>1 DEF WorkerInv
    <3>5. worker' = [worker EXCEPT ![w] = [pc |-> pc, d |-> worker[w].d, b |-> worker[w].b,
                                           next |-> worker[w].next]]
      BY <3>2, <3>3
    <3>6. pc \in {"idle", "state", "slot", "ioctl"}
      BY <2>2
    <3>7. PICK d : d = worker[w].d
      OBVIOUS
    <3> QED BY ONLY <1>3, <3>4, <3>5, <3>6, <3>7, w \in Workers
  <2>3. CASE Submit_State(w)
    BY <1>4, <2>2, <2>3 DEF Submit_State, GiveUp
  <2>4. CASE Submit_Slot(w)
    BY <1>4, <2>2, <2>4 DEF Submit_Slot, GiveUp
  <2>5. CASE Submit_Ioctl(w)
    <3>1. worker' = [worker EXCEPT ![w] = Idle] \/ worker' = [worker EXCEPT ![w] = Following(w)]
      BY <2>5 DEF Submit_Ioctl, GiveUp
    <3>2. WorkerInv(w)
      BY DEF WorkersOK
    <3>3. CASE worker[w].next = 0
      BY <1>4, <3>1, <3>3 DEF Following
    <3>4. CASE worker[w].next # 0
      <4>1. worker[w].next \in Buffers("out")
        BY <3>2, <3>4 DEF WorkerInv
      <4>2. Following(w) = [pc |-> "state", d |-> "out", b |-> worker[w].next, next |-> 0]
        BY <3>4 DEF Following
      <4> QED BY <1>3, <1>4, <3>1, <4>1, <4>2 DEF Dir
    <3> QED BY <3>3, <3>4
  <2> QED BY <1>5, <2>1, <2>3, <2>4, <2>5 DEF ProcessFrameDescriptor
<1> QED BY <1>1, <1>2, <1>5 DEF WorkerStep

LEMMA CommandsStayTyped ==
  ASSUME TypeInv, NEW c \in Commands, NEW pc, NEW failPc, Command(c, pc, failPc)
  PROVE  cmds' \in Seq(Commands)
BY DEF TypeInv, MiscInv, Command

LEMMA StopIsCommand ==
  ASSUME AppInv, app.pc \in {"stop_call", "stop_wait", "stop_next"}
  PROVE  StopCommands[app.k] \in Commands \ Starters
BY DEF AppInv, StopPcs, StopCommands, Commands, Starters

LEMMA MiscKept ==
  ASSUME TypeInv, [Next]_vars
  PROVE  MiscInv'
<1> USE DEF TypeInv
<1>1. Changes
  BY StepChanges
<1>2. started' \subseteq Dir /\ session' \in {"CLOSED", "OPEN", "LOADED"}
  <2>1. CASE CloseStep
    BY <2>1 DEF CloseStep, Initialize_Open, DeInitialize_Close, CloseDriver,
       EndSession, Outcome
  <2>2. CASE Device_Answer
    BY <2>2 DEF Device_Answer, Executed, MiscInv, Dir
  <2> QED BY <1>1, <2>1, <2>2 DEF Changes, MiscInv
<1>3. cmds' \in Seq(Commands)
  <2>1. CASE CommandStep
    <3>1. {"LOAD", StartCommand, "RELEASE"} \subseteq Commands
      BY DEF Commands, StartCommand
    <3>2. CASE Stop_Call
      BY <3>2, StopIsCommand, CommandsStayTyped DEF Stop_Call, AppAt
    <3> QED BY <2>1, <3>1, <3>2, CommandsStayTyped
            DEF CommandStep, Initialize_Load, Start_Call, DeInitialize_Call
  <2>2. CASE CloseStep
    <3>1. cmds' = <<>>
      BY <2>2 DEF CloseStep, Initialize_Open, DeInitialize_Close, CloseDriver,
         EndSession
    <3> QED BY <3>1
  <2>3. CASE Device_Answer
    BY <2>3 DEF Device_Answer, MiscInv
  <2>4. CASE Reconfig_StartOutput
    BY <2>4 DEF Reconfig_StartOutput, MiscInv, Commands
  <2> QED BY <1>1, <2>1, <2>2, <2>3, <2>4 DEF Changes, MiscInv
<1>4. cmdCompleted' \in Commands \cup {"NONE"}
  <2>1. CASE InitCmdCompleted
    BY <2>1 DEF InitCmdCompleted
  <2>2. CASE Answer
    BY <2>2 DEF Answer, CbInv
  <2>3. CASE Reconfig_StartOutput
    BY <2>3 DEF Reconfig_StartOutput
  <2> QED BY <1>1, <2>1, <2>2, <2>3 DEF Changes, MiscInv
<1>5. crossed' \in BOOLEAN
  BY <1>1 DEF Changes, MiscInv, Reconfig_StartOutput
<1>6. missed' \in BOOLEAN
  <2>1. config.timely \in BOOLEAN
    BY VideoAssumption DEF MiscInv, IsConfig
  <2>2. WaitStep => UNCHANGED missed \/ missed' = (missed \/ config.timely)
    BY DEF WaitStep, Initialize_Wait, Start_Wait, Stop_Wait, DeInitialize_Wait, AwaitCmd
  <2> QED BY <1>1, <2>1, <2>2 DEF Changes, MiscInv
<1>7. /\ state' \in States /\ open' \in BOOLEAN /\ dynamicMode' \subseteq Dir
      /\ reconfiguring' \in BOOLEAN
  <2>0. MiscInv /\ Encoder \in BOOLEAN
    BY VideoAssumption DEF MiscInv, IsConfig, Encoder
  <2>1. CASE UNCHANGED <<state, open, dynamicMode, reconfiguring>>
    BY <2>0, <2>1 DEF MiscInv
  <2>2. CASE \/ Initialize_Refuse \/ Initialize_BadConfig \/ Initialize_Begin
             \/ Initialize_PostFail \/ Initialize_Fail \/ Initialize_End
    BY <2>0, <2>2 DEF MiscInv, States, Initialize_Refuse, Initialize_BadConfig, Initialize_Begin,
       Initialize_PostFail, Initialize_Fail, Initialize_End
  <2>3. CASE Initialize_Open \/ DeInitialize_Close
    BY <2>0, <2>3 DEF MiscInv, States, Initialize_Open, DeInitialize_Close,
       CloseDriver, EndSession, Outcome
  <2>a. \A D \in SUBSET Dir : SetBuffer(D) => dynamicMode' \subseteq Dir
    BY <2>0 DEF MiscInv, SetBuffer
  <2>4. CASE Initialize_SetBuffer
    <3>1. (IF Encoder THEN Dir ELSE {"in"}) \in SUBSET Dir
      BY DEF Dir
    <3> QED BY <2>0, <2>4, <2>a, <3>1 DEF MiscInv, Initialize_SetBuffer
  <2>5. CASE \/ Start_Begin \/ Start_Fail \/ Stop_Begin \/ Stop_End
             \/ DeInitialize_Begin \/ DeInitialize_End
    BY <2>0, <2>5 DEF MiscInv, States, Start_Begin, Start_Fail, Stop_Begin, Stop_End,
       DeInitialize_Begin, DeInitialize_Enter, DeInitialize_End
  <2>6. CASE Event_Write
    BY <2>0, <2>6 DEF MiscInv, Event_Write, CbInv
  <2>7. CASE HandleOutputReconfig
    <3>1. {"out"} \in SUBSET Dir
      BY DEF Dir
    <3> QED BY <2>0, <2>7, <2>a, <3>1 DEF MiscInv, HandleOutputReconfig
  <2>8. CASE Reconfig_StartOutput \/ Output_Started
    BY <2>0, <2>8 DEF MiscInv, States, Reconfig_StartOutput, Output_Started
  <2> QED BY <1>1, <2>1, <2>2, <2>3, <2>4, <2>5, <2>6, <2>7, <2>8 DEF Changes, NodeStep
<1>8. config' \in Configs
  BY <1>1 DEF Changes, MiscInv
<1> QED BY <1>2, <1>3, <1>4, <1>5, <1>6, <1>7, <1>8 DEF MiscInv

LEMMA AppKept ==
  ASSUME TypeInv, [Next]_vars
  PROVE  AppInv'
<1> USE DEF TypeInv
<1>1. /\ UNCHANGED config
      /\ UNCHANGED list \/ ListStep
      /\ UNCHANGED <<session, started>> \/ CloseStep \/ Device_Answer
      /\ UNCHANGED app \/ Lifecycle
  BY StepChanges DEF Changes
<1>a. AppInv
  OBVIOUS
<1>2. CASE UNCHANGED app
  <2>1. app.pc # "idle" => UNCHANGED list
    <3>1. CASE Initialize_Refuse \/ Initialize_BadConfig
      BY <3>1 DEF Initialize_Refuse, Initialize_BadConfig, AppAt
    <3>2. CASE Initialize_SetBuffer
      BY <1>2, <1>a, <3>2 DEF Initialize_SetBuffer, AppAt, Goto, AppInv, AppPcs
    <3>3. CASE Initialize_Fail
      BY <1>2, <1>a, <3>3 DEF Initialize_Fail, AppAt, Goto, AppInv, AppPcs
    <3> QED BY <1>1, <3>1, <3>2, <3>3 DEF ListStep
  <2>2. app.pc = "deinit_end" => session' = "CLOSED"
    <3>1. CASE Device_Answer
      BY <3>1, <1>a DEF Device_Answer, Closed, AppInv
    <3>2. CASE CloseStep
      BY <1>2, <1>a, <3>2 DEF CloseStep, Initialize_Open, DeInitialize_Close,
         AppAt, Goto, AppInv
    <3> QED BY <1>1, <1>a, <3>1, <3>2 DEF AppInv
  <2>3. app.pc # "idle" => UNCHANGED ToFill
    BY <1>1, <2>1 DEF ToFill, Encoder
  <2>4. UNCHANGED StopCommands
    BY <1>1 DEF StopCommands, Encoder
  <2> QED BY <1>2, <1>a, <2>2, <2>3, <2>4 DEF AppInv
<1>3. ASSUME NEW pc \in AppPcs \ (StopPcs \cup DeInitPcs \cup {"fill_ioctl", "cleanup"}),
             NEW k \in Nat, app' = [pc |-> pc, k |-> k]
      PROVE  AppInv'
  BY <1>3 DEF AppInv, DeInitPcs
<1>b. ASSUME NEW pc \in (DeInitPcs \cup {"cleanup"}) \ {"deinit_end"}, NEW k \in 0 .. 2,
             pc = "cleanup" => k # 0, app' = [pc |-> pc, k |-> k]
      PROVE  AppInv'
  BY <1>b DEF AppInv, DeInitPcs, StopPcs, AppPcs
<1>c. ASSUME NEW pc \in DeInitPcs \ {"deinit_end"}, app.pc \in DeInitPcs \cup {"cleanup"},
             app' = [pc |-> pc, k |-> app.k]
      PROVE  AppInv'
  <2>1. app.k \in 0 .. 2 /\ pc # "cleanup"
    BY <1>a, <1>c DEF AppInv, DeInitPcs
  <2> QED BY <1>b, <1>c, <2>1
<1>4. ASSUME NEW pc \in AppPcs \ (StopPcs \cup DeInitPcs \cup {"fill_ioctl", "cleanup"}), Goto(pc)
      PROVE  AppInv'
  <2>1. app' = [pc |-> pc, k |-> app.k] /\ app.k \in Nat
    BY <1>4, <1>a DEF Goto, AppInv
  <2> QED BY <1>3, <2>1
<1>5. ASSUME NEW pc \in StopPcs, NEW k \in 1 .. Len(StopCommands),
             app' = [pc |-> pc, k |-> k]
      PROVE  AppInv'
  <2>1. UNCHANGED StopCommands /\ k \in Nat
    BY <1>1 DEF StopCommands, Encoder
  <2> QED BY <1>5, <2>1 DEF AppInv, AppPcs, StopPcs, DeInitPcs
<1>6. CASE Initialize
  <2>1. CASE Initialize_Refuse \/ Initialize_BadConfig
    BY <1>2, <2>1 DEF Initialize_Refuse, Initialize_BadConfig
  <2>0. {"init_open", "init_set", "init_reset", "init_wait", "init_ready", "idle",
         "post_fail", "init_fail"}
          \subseteq AppPcs \ (StopPcs \cup DeInitPcs \cup {"fill_ioctl", "cleanup"})
    BY DEF AppPcs, StopPcs, DeInitPcs
  <2>2. CASE Initialize_Begin \/ Initialize_Open \/ Initialize_SetBuffer
    BY <1>4, <2>0, <2>2 DEF Initialize_Begin, Initialize_Open, Initialize_SetBuffer
  <2>3. CASE Initialize_Load \/ Initialize_Wait
    BY <1>4, <2>0, <2>3 DEF Initialize_Load, Initialize_Wait, Command, AwaitCmd, AwaitState
  <2>4. CASE Initialize_PostFail \/ Initialize_Fail
    BY <1>b, <2>4 DEF Initialize_PostFail, Initialize_Fail, DeInitPcs
  <2>5. CASE Initialize_End
    BY <1>3, <2>0, <2>5 DEF Initialize_End
  <2> QED BY <1>6, <2>1, <2>2, <2>3, <2>4, <2>5 DEF Initialize
<1>7. CASE Start
  <2>1. CASE Start_Begin \/ Start_Fail
    BY <1>4, <2>1 DEF Start_Begin, Start_Fail, AppPcs, StopPcs, DeInitPcs
  <2>2. CASE Start_Call \/ Start_Wait
    BY <1>4, <2>2 DEF Start_Call, Start_Wait, Command, AwaitCmd, AwaitState, AppPcs, StopPcs,
       DeInitPcs
  <2>3. CASE Start_FillIoctl
    <3>0. app = [pc |-> app.pc, k |-> app.k] /\ app.k \in Nat
      BY <1>a DEF AppInv
    <3>1. app' = [pc |-> "fill", k |-> app.k + 1] /\ app.k + 1 \in Nat
      <4>1. app' = [app EXCEPT !.pc = "fill", !.k = @ + 1]
        BY <2>3 DEF Start_FillIoctl
      <4>2. PICK k \in Nat : k = app.k
        BY <3>0
      <4>3. PICK pc : app = [pc |-> pc, k |-> k]
        BY <3>0, <4>2
      <4>4. app' = [pc |-> "fill", k |-> k + 1]
        BY ONLY <4>1, <4>3
      <4> QED BY ONLY <4>2, <4>4, k \in Nat
    <3>2. "fill" \in AppPcs \ (StopPcs \cup DeInitPcs \cup {"fill_ioctl", "cleanup"})
      BY DEF AppPcs, StopPcs, DeInitPcs
    <3> QED BY <1>3, <3>1, <3>2
  <2>4. CASE Start_Fill
    <3>1. UNCHANGED ToFill
      BY <1>1, <2>4 DEF ToFill, Encoder, Start_Fill, node
    <3>2. \/ app' = [pc |-> "idle", k |-> 0]
          \/ app' = [pc |-> "fill", k |-> app.k + 1]
          \/ app' = [pc |-> "fill_ioctl", k |-> app.k] /\ app.k < Len(ToFill)
      BY <1>a, <2>4 DEF Start_Fill, AppInv, AppAt, Goto
    <3>3. app.k \in Nat
      BY <1>a DEF AppInv
    <3>4. CASE app' = [pc |-> "fill_ioctl", k |-> app.k] /\ app.k < Len(ToFill)
      BY <3>1, <3>3, <3>4 DEF AppInv, AppPcs, StopPcs, DeInitPcs
    <3>5. /\ {"idle", "fill"}
               \subseteq AppPcs \ (StopPcs \cup DeInitPcs \cup {"fill_ioctl", "cleanup"})
          /\ app.k + 1 \in Nat
      BY <3>3 DEF AppPcs, StopPcs, DeInitPcs
    <3> QED BY <1>3, <3>2, <3>4, <3>5
  <2> QED BY <1>7, <2>1, <2>2, <2>3, <2>4 DEF Start
<1>8. CASE Stop
  <2>1. CASE Stop_Begin
    <3>1. 1 \in 1 .. Len(StopCommands)
      BY DEF StopCommands
    <3> QED BY <1>5, <2>1, <3>1 DEF Stop_Begin, StopPcs
  <2>2. CASE Stop_Call \/ Stop_Wait
    <3>1. app.k \in 1 .. Len(StopCommands)
      BY <1>a, <2>2 DEF AppInv, Stop_Call, Stop_Wait, AppAt, StopPcs
    <3>2. \/ Goto("stop_fail")
          \/ \E pc \in StopPcs : app' = [pc |-> pc, k |-> app.k]
      BY <1>a, <2>2 DEF Stop_Call, Stop_Wait, Command, AwaitCmd, Goto, AppInv, StopPcs
    <3>3. "stop_fail" \in AppPcs \ (StopPcs \cup DeInitPcs \cup {"fill_ioctl", "cleanup"})
      BY DEF AppPcs, StopPcs, DeInitPcs
    <3> QED BY <1>4, <1>5, <3>1, <3>2, <3>3
  <2>3. CASE Stop_Next
    <3>1. app.k + 1 \in 1 .. Len(StopCommands)
      BY <1>a, <2>3 DEF AppInv, Stop_Next, AppAt, StopCommands, StopPcs
    <3> QED BY <1>5, <2>3, <3>1 DEF Stop_Next, StopPcs
  <2>4. CASE Stop_End
    BY <1>3, <2>4 DEF Stop_End, AppPcs, StopPcs, DeInitPcs
  <2> QED BY <1>8, <2>1, <2>2, <2>3, <2>4 DEF Stop
<1>9. CASE DeInitialize
  <2>0. app = [pc |-> app.pc, k |-> app.k]
    BY <1>a DEF AppInv
  <2>a. ASSUME NEW pc, Goto(pc) PROVE app' = [pc |-> pc, k |-> app.k]
    BY <2>0, <2>a DEF Goto
  <2>1. CASE DeInitialize_Begin
    <3>1. \A k : DeInitialize_Enter(k) =>
            \E pc \in DeInitPcs \ {"deinit_end"} : app' = [pc |-> pc, k |-> k]
      BY DEF DeInitialize_Enter, DeInitPcs
    <3>2. CASE DeInitialize_Enter(0)
      BY <1>b, <3>1, <3>2 DEF DeInitPcs
    <3>3. CASE app.pc = "cleanup" /\ DeInitialize_Enter(app.k)
      BY <1>c, <3>1, <3>3
    <3> QED BY <2>1, <3>2, <3>3 DEF DeInitialize_Begin, AppAt
  <2>2. CASE DeInitialize_Call \/ DeInitialize_Wait \/ DeInitialize_Free
    <3>1. \E pc \in DeInitPcs \ {"deinit_end"} : Goto(pc)
      BY <2>2 DEF DeInitialize_Call, DeInitialize_Wait, DeInitialize_Free, Command, AwaitCmd,
         AwaitState, DeInitPcs
    <3>2. app.pc \in DeInitPcs
      BY <2>2 DEF DeInitialize_Call, DeInitialize_Wait, DeInitialize_Free, AppAt, DeInitPcs
    <3> QED BY <1>c, <2>a, <3>1, <3>2
  <2>3. CASE DeInitialize_Close
    BY <1>a, <2>3 DEF DeInitialize_Close, CloseDriver, Goto, AppInv, AppPcs, AppAt, StopPcs,
       DeInitPcs
  <2>4. CASE DeInitialize_End
    <3>1. app.k \in {0, 1, 2}
      BY <1>a, <2>4 DEF DeInitialize_End, AppAt, AppInv, DeInitPcs
    <3>2. app' \in { [pc |-> pc, k |-> 0] : pc \in {"idle", "init_fail", "init_end"} }
      BY <2>4, <3>1 DEF DeInitialize_End
    <3>3. {"idle", "init_fail", "init_end"}
            \subseteq AppPcs \ (StopPcs \cup DeInitPcs \cup {"fill_ioctl", "cleanup"})
      BY DEF AppPcs, StopPcs, DeInitPcs
    <3> QED BY <1>3, <3>2, <3>3
  <2> QED BY <1>9, <2>1, <2>2, <2>3, <2>4 DEF DeInitialize
<1>10. CASE InitCmdCompleted
  <2>0. app = [pc |-> app.pc, k |-> app.k] /\ Goto(Calling[app.pc])
    BY <1>a, <1>10 DEF InitCmdCompleted, AppInv
  <2>1. app' = [pc |-> Calling[app.pc], k |-> app.k]
    BY <2>0 DEF Goto
  <2>2. CASE app.pc = "init_reset"
    <3>1. "init_load" \in AppPcs \ (StopPcs \cup DeInitPcs \cup {"fill_ioctl", "cleanup"})
      BY DEF AppPcs, StopPcs, DeInitPcs
    <3> QED BY <1>4, <2>0, <2>2, <3>1 DEF Calling
  <2>3. CASE app.pc = "start_reset"
    <3>1. "start_call" \in AppPcs \ (StopPcs \cup DeInitPcs \cup {"fill_ioctl", "cleanup"})
      BY DEF AppPcs, StopPcs, DeInitPcs
    <3> QED BY <1>4, <2>0, <2>3, <3>1 DEF Calling
  <2>4. CASE app.pc = "stop_reset"
    <3>1. app.k \in 1 .. Len(StopCommands) /\ "stop_call" \in StopPcs
      BY <1>a, <2>4 DEF AppInv, StopPcs
    <3>2. Calling[app.pc] = "stop_call"
      BY <2>4 DEF Calling
    <3> QED BY <1>5, <2>1, <3>1, <3>2
  <2>5. CASE app.pc = "deinit_reset"
    <3>1. Calling[app.pc] = "deinit_call" /\ "deinit_call" \in DeInitPcs \ {"deinit_end"}
          /\ app.pc \in DeInitPcs
      BY <2>5 DEF Calling, DeInitPcs
    <3> QED BY <1>c, <2>1, <3>1
  <2> QED BY <1>10, <2>2, <2>3, <2>4, <2>5 DEF InitCmdCompleted, Calling
<1> QED BY <1>1, <1>2, <1>6, <1>7, <1>8, <1>9, <1>10 DEF Lifecycle

\* The callback keeps what it works on.
LEMMA CbKept ==
  ASSUME TypeInv, [Next]_vars
  PROVE  CbInv'
<1> USE DEF TypeInv
<1>1. /\ UNCHANGED config
      /\ UNCHANGED <<state, open, dynamicMode, reconfiguring>> \/ NodeStep
      /\ UNCHANGED list \/ ListStep
      /\ UNCHANGED cb \/ Callback \/ Device
  BY StepChanges DEF Changes
<1>a. CbInv /\ MiscInv
  OBVIOUS
<1>2. CASE UNCHANGED cb
  <2>1. state' = "INITIAL" => state = "INITIAL" \/ cb.pc \notin Finishing
    <3>1. CASE DeInitialize_End
      BY <3>1 DEF DeInitialize_End, AppAt, AppInv, Closed, CbIdle, Finishing
    <3>2. CASE Event_Write
      BY <3>2 DEF Event_Write, Finishing
    <3>3. CASE \/ Initialize_Refuse \/ Initialize_BadConfig \/ Initialize_Begin \/ Initialize_Open
               \/ Initialize_SetBuffer \/ Initialize_PostFail \/ Initialize_Fail
               \/ Initialize_End
      BY <3>3 DEF Initialize_Refuse, Initialize_BadConfig, Initialize_Begin, Initialize_Open,
         Initialize_SetBuffer, Initialize_PostFail, Initialize_Fail, Initialize_End
    <3>4. CASE \/ Start_Begin \/ Start_Fail \/ Stop_Begin \/ Stop_End
               \/ DeInitialize_Begin \/ DeInitialize_Close
      BY <3>4 DEF Start_Begin, Start_Fail, Stop_Begin, Stop_End, DeInitialize_Begin,
         DeInitialize_Enter, DeInitialize_Close, CloseDriver, EndSession
    <3>5. CASE HandleOutputReconfig \/ Reconfig_StartOutput \/ Output_Started
      BY <3>5 DEF HandleOutputReconfig, Reconfig_StartOutput, Output_Started
    <3> QED BY <1>1, <3>1, <3>2, <3>3, <3>4, <3>5 DEF NodeStep
  <2>2. cb.pc \in {"slot", "ioctl"} => cb.k <= Len(list'["out"])
    <3>1. CASE Initialize_Refuse \/ Initialize_BadConfig \/ Initialize_Fail
      BY <3>1 DEF Initialize_Refuse, Initialize_BadConfig, Initialize_Fail, AppAt, OpeningInv,
         Opening, Barren, CbIdle, CbInv, Finishing
    <3>2. CASE Initialize_SetBuffer
      <4>1. list'["out"] = list["out"] \o Listed["out"]
        BY <3>2 DEF Initialize_SetBuffer, Dir
      <4>2. list["out"] \in Seq(Buffers("out")) /\ list'["out"] \in Seq(Buffers("out"))
        BY <1>1, ListsKept DEF ListsOK, Dir, Buffers
      <4>3. Listed["out"] \in Seq(Buffers("out"))
        BY ListedSeq DEF Dir
      <4>4. Len(list'["out"]) = Len(list["out"]) + Len(Listed["out"])
        BY <4>1, <4>2, <4>3
      <4>5. Len(list["out"]) \in Nat /\ Len(Listed["out"]) \in Nat
        BY <4>2, <4>3, LenProperties
      <4>6. cb.pc \in {"slot", "ioctl"} => cb.k \in Nat /\ cb.k <= Len(list["out"])
        BY <1>a DEF CbInv
      <4>7. ASSUME NEW l, NEW m \in Nat, NEW n \in Nat, l = m + n PROVE m <= l /\ l \in Nat
        BY ONLY <4>7
      <4>8. Len(list["out"]) <= Len(list'["out"]) /\ Len(list'["out"]) \in Nat
        BY ONLY <4>4, <4>5, <4>7, Zenon
      <4>9. ASSUME cb.pc \in {"slot", "ioctl"} PROVE cb.k <= Len(list'["out"])
        <5>1. cb.k \in Nat /\ cb.k <= Len(list["out"])
          BY <4>6, <4>9
        <5> QED BY ONLY <4>5, <4>8, <5>1
      <4> QED BY <4>9
    <3> QED BY <1>1, <1>a, <3>1, <3>2 DEF ListStep, CbInv
  <2> QED BY <1>1, <1>2, <1>a, <2>1, <2>2 DEF CbInv, Buffers, Finishing
<1>3. ASSUME NEW pc \in CbPcs \ (Finishing \cup {"done"}), NEW what \in Commands \cup States \cup {"NONE"},
             pc \in {"answer", "event"} => what \in Commands, pc = "write" => what \in States,
             cb' = [pc |-> pc, d |-> "in", k |-> 0, what |-> what]
      PROVE  CbInv'
  BY <1>3 DEF CbInv, Dir, Finishing
<1>4. CASE cb' = NoCb
  BY <1>3, <1>4 DEF NoCb, CbPcs, Finishing
<1>5. CASE Reconfig_Error
  <2>1. cb' = [pc |-> "write", d |-> "in", k |-> 0, what |-> "ERROR"]
    BY <1>5 DEF Reconfig_Error, NoCb
  <2>2. "write" \in CbPcs \ (Finishing \cup {"done"}) /\ "ERROR" \in States
    BY DEF CbPcs, Finishing, States
  <2> QED BY <1>3, <2>1, <2>2
<1>6. CASE Device
  <2>1. ASSUME NEW d \in Dir, NEW b \in Buffers(d), Device_Done(d, b) PROVE CbInv'
    <3>1. b \in Nat
      BY BufferFacts DEF Buffers
    <3> QED BY <1>1, <2>1, <3>1 DEF Device_Done, CbInv, CbPcs, Finishing, Buffers
  <2>2. CASE Device_Answer
    <3>1. Head(cmds) \in Commands
      BY <1>a, <2>2 DEF Device_Answer, MiscInv
    <3>2. cb' = [pc |-> "answer", d |-> "in", k |-> 0, what |-> Head(cmds)]
      BY <2>2 DEF Device_Answer, NoCb
    <3> QED BY <1>3, <3>1, <3>2 DEF CbPcs, Finishing
  <2>3. CASE Device_Fatal
    BY <1>5, <2>3 DEF Device_Fatal, Reconfig_Error
  <2>4. CASE Device_Reconfig
    BY <1>3, <2>4 DEF Device_Reconfig, NoCb, CbPcs, Finishing
  <2> QED BY <1>6, <2>1, <2>2, <2>3, <2>4 DEF Device
<1>7. CASE Callback
  <2>1. CASE FrameDone \/ Event_Write \/ Finish_End
    BY <1>4, <2>1 DEF FrameDone, Event_Write, Finish_End
  <2>2. CASE Answer
    BY <1>4, <1>a, <2>2 DEF Answer, CbInv, CbPcs, Finishing
  <2>3. CASE Event_Read
    <3>1. cb.pc = "event" /\ cb.what \in Commands
      BY <1>a, <2>3 DEF Event_Read, CbInv
    <3>2. NextState(cb.what) \in States
      BY <3>1 DEF NextState, Transition, States
    <3>3. CASE cb.what = "START_OUT"
      BY <1>a, <2>3, <3>3 DEF Event_Read, CbInv, CbPcs, Finishing
    <3>4. CASE cb.what # "START_OUT"
      <4>1. cb' = [pc |-> "write", d |-> "in", k |-> 0, what |-> NextState(cb.what)]
        BY <2>3, <3>4 DEF Event_Read, NoCb
      <4> QED BY <1>3, <3>2, <4>1 DEF CbPcs, Finishing
    <3> QED BY <3>3, <3>4
  <2>4. CASE HandleOutputReconfig
    BY <1>5, <1>a, <2>4 DEF HandleOutputReconfig, CbInv, CbPcs, Finishing
  <2>5. CASE Reconfig_StartOutput
    BY <1>4, <1>5, <2>5 DEF Reconfig_StartOutput
  <2>6. CASE Output_Started
    <3>1. state' = "RUNNING" /\ UNCHANGED list
      BY <2>6 DEF Output_Started
    <3>2. CASE cb' = [NoCb EXCEPT !.pc = "state", !.k = 1]
      <4>1. cb' = [pc |-> "state", d |-> "in", k |-> 1, what |-> "NONE"]
        BY <3>2 DEF NoCb
      <4> QED BY <3>1, <4>1 DEF CbInv, CbPcs, Finishing, Dir
    <3> QED BY <1>4, <2>6, <3>2 DEF Output_Started
  <2>7. CASE Finish_Break
    BY <1>4, <2>7 DEF Finish_Break
  <2>8. ASSUME NEW pc \in {"state", "slot", "ioctl"}, NEW k \in Nat \ {0},
               cb' = [pc |-> pc, d |-> cb.d, k |-> k, what |-> cb.what],
               pc # "state" => k <= Len(list["out"]),
               cb.pc \in Finishing, UNCHANGED <<state, list>>
        PROVE  CbInv'
    BY <1>a, <2>8 DEF CbInv, CbPcs, Finishing
  <2>9. CASE Finish_State
    <3>1. CASE Finish_Break
      BY <2>7, <3>1
    <3>2. CASE ~Finish_Break
      <4>1. /\ cb.pc = "state" /\ cb.k <= Len(list["out"]) /\ UNCHANGED <<state, list>>
            /\ cb' = [cb EXCEPT !.pc = "slot"]
        BY <2>9, <3>2 DEF Finish_State, node
      <4>2. cb' = [pc |-> "slot", d |-> cb.d, k |-> cb.k, what |-> cb.what]
        BY <1>a, <4>1 DEF CbInv
      <4>3. cb.k \in Nat \ {0}
        BY <1>a, <4>1 DEF CbInv, Finishing
      <4> QED BY <2>8, <4>1, <4>2, <4>3 DEF Finishing
    <3> QED BY <3>1, <3>2
  <2>10. CASE Finish_Slot
    <3>1. CASE Finish_Break
      BY <2>7, <3>1
    <3>2. CASE ~Finish_Break
      <4>1. /\ cb.pc = "slot" /\ UNCHANGED <<state, list>>
            /\ cb' = [cb EXCEPT !.pc = "ioctl"]
        BY <2>10, <3>2 DEF Finish_Slot, node
      <4>2. cb' = [pc |-> "ioctl", d |-> cb.d, k |-> cb.k, what |-> cb.what]
        BY <1>a, <4>1 DEF CbInv
      <4>3. cb.k \in Nat \ {0} /\ cb.k <= Len(list["out"])
        BY <1>a, <4>1 DEF CbInv, Finishing
      <4> QED BY <2>8, <4>1, <4>2, <4>3 DEF Finishing
    <3> QED BY <3>1, <3>2
  <2>11. CASE Finish_Ioctl
    <3>1. CASE Finish_Break
      BY <2>7, <3>1
    <3>2. CASE ~Finish_Break
      <4>1. /\ cb.pc = "ioctl" /\ UNCHANGED <<state, list>>
            /\ cb' = [cb EXCEPT !.pc = "state", !.k = @ + 1]
        BY <2>11, <3>2 DEF Finish_Ioctl, node
      <4>2. cb' = [pc |-> "state", d |-> cb.d, k |-> cb.k + 1, what |-> cb.what]
        BY <1>a, <4>1 DEF CbInv
      <4>3. cb.k + 1 \in Nat \ {0}
        BY <1>a, <4>1 DEF CbInv
      <4> QED BY <2>8, <4>1, <4>2, <4>3 DEF Finishing
    <3> QED BY <3>1, <3>2
  <2> QED BY <1>7, <2>1, <2>2, <2>3, <2>4, <2>5, <2>6, <2>9, <2>10, <2>11
          DEF Callback, FinishOutputReconfig
<1> QED BY <1>1, <1>2, <1>6, <1>7

\* A closed session stays without anything until the driver is opened again.
LEMMA ClosedKept ==
  ASSUME TypeInv, [Next]_vars
  PROVE  Closed'
<1> USE DEF TypeInv
<1>1. Changes
  BY StepChanges
<1>2. UNCHANGED config
  BY <1>1 DEF Changes
<1>3. CASE CloseStep
  <2>1. started' = {} /\ cmds' = <<>> /\ queued' = Nothing /\ UNCHANGED cb /\ CbIdle
    BY <1>3 DEF CloseStep, Initialize_Open, DeInitialize_Close, CloseDriver,
       EndSession
  <2> QED BY <1>2, <2>1 DEF Closed, CbIdle, Nothing, Buffers
<1>4. CASE ~CloseStep /\ session' = "CLOSED"
  <2>1. ~Device_Answer \/ session # "CLOSED"
    BY DEF Device_Answer, Closed
  <2>2. session = "CLOSED"
    <3>1. Device_Answer => session' \in {"LOADED", "OPEN", session}
      BY DEF Device_Answer, Executed
    <3> QED BY <1>1, <1>4, <3>1 DEF Changes
  <2>3. /\ started = {} /\ cmds = <<>> /\ cb.pc = "idle"
        /\ \A d \in Dir : \A b \in Buffers(d) : queued[d][b] = 0
    BY <2>2 DEF Closed, CbIdle
  <2>4. ~Device_Answer
    BY <2>1, <2>2
  <2>5. ~DoneStep
    BY <2>3 DEF DoneStep, Device_Done
  <2>6. ~Device
    BY <2>2, <2>3, <2>4, <2>5 DEF Device, DoneStep, Device_Fatal, Device_Reconfig
  <2>7. ~Callback
    BY <2>3 DEF Callback, FrameDone, Answer, Event_Read, Event_Write, HandleOutputReconfig,
       Reconfig_StartOutput, Output_Started, FinishOutputReconfig, Finish_End, Finish_State,
       Finish_Slot, Finish_Ioctl
  <2>8. ~Reconfig_StartOutput
    BY <2>7 DEF Callback
  <2>9. CommandStep => UNCHANGED cmds
    BY <2>2 DEF CommandStep, Initialize_Load, Start_Call, Stop_Call, DeInitialize_Call, Command
  <2>10. IoctlStep => UNCHANGED queued
    BY <2>2, IoctlStepSends DEF Sent
  <2> QED BY <1>1, <1>2, <1>4, <2>3, <2>4, <2>5, <2>6, <2>7, <2>8, <2>9, <2>10
          DEF Changes, Closed, CbIdle, Buffers
<1> QED BY <1>3, <1>4 DEF Closed

-----------------------------------------------------------------------------
(* Nothing is started while Initialize opens the node. *)

\* Only the opening of the driver, and what follows it, is a step of Initialize.
LEMMA OpeningBegins ==
  ASSUME TypeInv, [Next]_vars, ~Initialize_Open, Opening'
  PROVE  Opening
<1> USE DEF TypeInv
<1>1. UNCHANGED app \/ Lifecycle
  BY StepChanges DEF Changes
<1>2. app = [pc |-> app.pc, k |-> app.k] /\ AppInv
  BY DEF AppInv
<1>3. ASSUME NEW pc, Goto(pc) PROVE app'.pc = pc /\ app'.k = app.k
  BY <1>2, <1>3 DEF Goto
<1>4. CASE Initialize
  <2>1. CASE Initialize_Refuse \/ Initialize_BadConfig
    BY <2>1 DEF Initialize_Refuse, Initialize_BadConfig, Opening
  <2>2. CASE Initialize_Begin
    BY <1>3, <2>2 DEF Initialize_Begin, Opening, DeInitPcs
  <2>3. CASE ~(Initialize_Refuse \/ Initialize_BadConfig \/ Initialize_Begin)
    BY <1>4, <2>3 DEF Initialize, Initialize_SetBuffer, Initialize_Load, Initialize_Wait,
       Initialize_PostFail, Initialize_Fail, Initialize_End, AppAt, Opening
  <2> QED BY <2>1, <2>2, <2>3
<1>5. CASE Start
  <2>1. \/ \E pc \in {"start_reset", "start_wait", "start_running", "start_fail", "fill",
                      "idle", "fill_ioctl"} : Goto(pc)
        \/ app' = [app EXCEPT !.pc = "idle", !.k = 0]
        \/ app.pc = "fill" /\ app' = [app EXCEPT !.k = @ + 1]
        \/ app' = [app EXCEPT !.pc = "fill", !.k = @ + 1]
    BY <1>5 DEF Start, Start_Begin, Start_Call, Start_Wait, Start_Fail, Start_Fill,
       Start_FillIoctl, Command, AwaitCmd, AwaitState, AppAt
  <2>2. app'.pc \in {"start_reset", "start_wait", "start_running", "start_fail", "fill",
                     "idle", "fill_ioctl"}
    BY <1>2, <1>3, <2>1
  <2> QED BY <2>2 DEF Opening, DeInitPcs
<1>6. CASE Stop
  <2>1. app'.pc \in {"stop_reset", "stop_wait", "stop_fail", "stop_next", "idle"}
    BY <1>3, <1>6 DEF Stop, Stop_Begin, Stop_Call, Stop_Wait, Stop_Next, Stop_End, Command,
       AwaitCmd
  <2> QED BY <2>1 DEF Opening, DeInitPcs
<1>7. CASE DeInitialize
  <2>1. CASE DeInitialize_Begin
    <3>1. \A k : DeInitialize_Enter(k) => app'.k = k /\ app'.pc \in DeInitPcs
      BY DEF DeInitialize_Enter, DeInitPcs
    <3>2. (app'.k = 0 /\ app'.pc \in DeInitPcs) \/ app.pc = "cleanup"
      BY <2>1, <3>1 DEF DeInitialize_Begin, AppAt
    <3> QED BY <3>2 DEF Opening, DeInitPcs
  <2>2. CASE DeInitialize_Call \/ DeInitialize_Wait \/ DeInitialize_Free \/ DeInitialize_Close
    <3>1. app'.k = app.k /\ app'.pc \in DeInitPcs
      BY <1>3, <2>2 DEF DeInitialize_Call, DeInitialize_Wait, DeInitialize_Free,
         DeInitialize_Close, Command, AwaitCmd, AwaitState, DeInitPcs
    <3>2. app.pc \in DeInitPcs
      BY <2>2 DEF DeInitialize_Call, DeInitialize_Wait, DeInitialize_Free,
         DeInitialize_Close, AppAt, DeInitPcs
    <3> QED BY <3>1, <3>2 DEF Opening, DeInitPcs
  <2>3. CASE DeInitialize_End
    <3>1. app.pc \in DeInitPcs
      BY <2>3 DEF DeInitialize_End, AppAt, DeInitPcs
    <3>2. app.k = 0 => app'.pc = "idle"
      BY <2>3 DEF DeInitialize_End
    <3> QED BY <3>1, <3>2 DEF Opening, DeInitPcs
  <2> QED BY <1>7, <2>1, <2>2, <2>3 DEF DeInitialize
<1>8. CASE InitCmdCompleted
  <2>1. app'.pc = Calling[app.pc] /\ app'.k = app.k
    BY <1>3, <1>8 DEF InitCmdCompleted
  <2> QED BY <1>8, <2>1 DEF InitCmdCompleted, Calling, Opening, DeInitPcs
<1>9. CASE UNCHANGED app
  BY <1>9 DEF Opening
<1> QED BY <1>1, <1>4, <1>5, <1>6, <1>7, <1>8, <1>9 DEF Lifecycle

LEMMA OpeningKept ==
  ASSUME TypeInv, [Next]_vars
  PROVE  OpeningInv'
<1> USE DEF TypeInv
<1>1. Changes
  BY StepChanges
<1>2. CASE Initialize_Open
  <2>1. started' = {} /\ cmds' = <<>> /\ UNCHANGED cb /\ cb.pc = "idle"
    BY <1>2 DEF Initialize_Open, EndSession, CbIdle
  <2> QED BY <2>1 DEF OpeningInv, Barren, Finishing
<1> SUFFICES ASSUME ~Initialize_Open, Opening' PROVE Barren'
  BY <1>2 DEF OpeningInv
<1>3. Opening
  BY OpeningBegins
<1>4. /\ started = {} /\ cmds \in Seq(Commands)
      /\ \A i \in 1 .. Len(cmds) : cmds[i] \notin Starters
      /\ cb.pc \notin {"reconfig", "start_output", "output_started", "state", "slot", "ioctl"}
      /\ cb.pc \in {"answer", "event"} => cb.what \notin Starters
  BY <1>3 DEF OpeningInv, Barren, MiscInv, Finishing
<1>5. ~Reconfig_StartOutput /\ ~Start_Call
  BY <1>3, <1>4 DEF Reconfig_StartOutput, Start_Call, AppAt, Opening, DeInitPcs
<1>6. started' = {}
  <2>1. CASE CloseStep
    BY <2>1 DEF CloseStep, Initialize_Open, DeInitialize_Close, CloseDriver, EndSession
  <2>2. CASE Device_Answer
    <3>1. Head(cmds) \notin Starters
      BY <1>4, <2>2 DEF Device_Answer
    <3> QED BY <1>4, <2>2, <3>1 DEF Device_Answer, Executed, Starters
  <2> QED BY <1>1, <1>4, <2>1, <2>2 DEF Changes
<1>7. \A i \in 1 .. Len(cmds') : cmds'[i] \notin Starters
  <2>1. CASE CloseStep
    BY <2>1 DEF CloseStep, Initialize_Open, DeInitialize_Close, CloseDriver, EndSession
  <2>2. CASE Device_Answer
    BY <1>4, <2>2 DEF Device_Answer
  <2>3. ASSUME NEW c \in Commands \ Starters, NEW pc, NEW failPc, Command(c, pc, failPc)
        PROVE  \A i \in 1 .. Len(cmds') : cmds'[i] \notin Starters
    BY <1>4, <2>3 DEF Command
  <2>4. CASE CommandStep
    <3>1. "LOAD" \in Commands \ Starters /\ "RELEASE" \in Commands \ Starters
      BY DEF Commands, Starters
    <3>2. CASE Stop_Call
      BY <2>3, <3>2, StopIsCommand DEF Stop_Call, AppAt
    <3> QED BY <1>5, <2>3, <2>4, <3>1, <3>2
            DEF CommandStep, Initialize_Load, DeInitialize_Call
  <2> QED BY <1>1, <1>4, <1>5, <2>1, <2>2, <2>4 DEF Changes
<1>8. /\ cb'.pc \notin {"reconfig", "start_output", "output_started", "state", "slot", "ioctl"}
      /\ cb'.pc \in {"answer", "event"} => cb'.what \notin Starters
  <2>0. cb = [pc |-> cb.pc, d |-> cb.d, k |-> cb.k, what |-> cb.what]
    BY DEF CbInv
  <2>1. CASE cb' = NoCb
    BY <2>1 DEF NoCb
  <2>2. CASE Callback
    <3>1. CASE FrameDone \/ Event_Write
      BY <2>1, <3>1 DEF FrameDone, Event_Write
    <3>2. CASE Answer
      <4>1. cb' = NoCb \/ cb' = [cb EXCEPT !.pc = "event"]
        BY <3>2 DEF Answer
      <4>2. cb.what \notin Starters
        BY <1>4, <3>2 DEF Answer
      <4>3. CASE cb' = [cb EXCEPT !.pc = "event"]
        <5>1. cb'.pc = "event" /\ cb'.what = cb.what
          BY <2>0, <4>3
        <5> QED BY <4>2, <5>1
      <4> QED BY <2>1, <4>1, <4>3
    <3>3. CASE Event_Read
      <4>1. cb.what # "START_OUT"
        BY <1>4, <3>3 DEF Event_Read, Starters
      <4> QED BY <3>3, <4>1 DEF Event_Read, NoCb
    <3>4. ~HandleOutputReconfig /\ ~Output_Started /\ ~FinishOutputReconfig
      BY <1>4 DEF HandleOutputReconfig, Output_Started, FinishOutputReconfig, Finish_End,
         Finish_State, Finish_Slot, Finish_Ioctl
    <3> QED BY <1>5, <2>2, <3>1, <3>2, <3>3, <3>4 DEF Callback
  <2>3. CASE Device
    <3>1. ~Device_Reconfig
      BY <1>4 DEF Device_Reconfig
    <3>2. ASSUME NEW d \in Dir, NEW b \in Buffers(d), Device_Done(d, b) PROVE cb'.pc = "done"
      BY <3>2 DEF Device_Done
    <3>3. Device_Answer => cb'.pc = "answer" /\ cb'.what \notin Starters
      BY <1>4 DEF Device_Answer, NoCb
    <3>4. Device_Fatal => cb'.pc = "write"
      BY DEF Device_Fatal, NoCb
    <3> QED BY <2>3, <3>1, <3>2, <3>3, <3>4 DEF Device
  <2> QED BY <1>1, <1>4, <2>2, <2>3 DEF Changes
<1> QED BY <1>6, <1>7, <1>8 DEF Barren, Finishing

-----------------------------------------------------------------------------
(* The types. *)

LEMMA TypeInit == Init => TypeInv
<1> SUFFICES ASSUME Init PROVE TypeInv
  OBVIOUS
<1> USE DEF Init
<1>1. MiscInv
  <2>1. <<>> \in Seq(Commands)
    OBVIOUS
  <2>2. "INITIAL" \in States
    BY DEF States
  <2> QED BY <2>1, <2>2 DEF MiscInv
<1>2. ListsOK /\ ClientOK
  BY DEF ListsOK, ClientOK, Empty, All
<1>3. SlotsOK
  <2>1. \A d \in Dir : config.slots[d] \in Nat
    BY <1>1, BufferFacts
  <2>2. Cardinality({}) = 0
    BY FS_EmptySet
  <2> QED BY <2>1, <2>2 DEF SlotsOK, SlotsInv, None
<1>4. QueuedOK
  BY DEF QueuedOK, Nothing
<1>5. WorkersOK
  BY DEF WorkersOK, WorkerInv, Idle
<1>6. AppInv
  BY DEF AppInv, AppPcs, StopPcs, DeInitPcs
<1>7. CbInv
  BY DEF CbInv, NoCb, CbPcs, Dir, Finishing
<1>8. Closed
  BY DEF Closed, CbIdle, NoCb, Nothing
<1>9. OpeningInv
  BY DEF OpeningInv, Opening, DeInitPcs
<1> QED BY ONLY <1>1, <1>2, <1>3, <1>4, <1>5, <1>6, <1>7, <1>8, <1>9 DEF TypeInv

LEMMA TypeStep == TypeInv /\ [Next]_vars => TypeInv'
BY MiscKept, ListsKept, SlotsKept, QueuedKept, ClientKept, WorkersKept, AppKept, CbKept,
   ClosedKept, OpeningKept DEF TypeInv

LEMMA TypesFollow == TypeInv => TypeOK
<1> SUFFICES ASSUME TypeInv PROVE TypeOK
  OBVIOUS
<1> USE DEF TypeInv
<1>1. ASSUME NEW d \in Dir
      PROVE  /\ list[d] \in Seq(Buffers(d))
             /\ map[d] \subseteq Buffers(d) /\ Cardinality(map[d]) <= config.slots[d]
             /\ used[d] \subseteq map[d] /\ stuck[d] \subseteq used[d]
             /\ queued[d] \in [Buffers(d) -> Nat]
             /\ client[d] \subseteq Buffers(d)
  BY DEF ListsOK, SlotsOK, SlotsInv, QueuedOK, ClientOK
<1>2. \A w \in Workers : worker[w].pc \in {"idle", "state", "slot", "ioctl"}
  BY DEF WorkersOK, WorkerInv
<1>3. app.pc \in AppPcs /\ cb.pc \in CbPcs /\ cb.what \in Commands \cup States \cup {"NONE"}
  BY DEF AppInv, CbInv
<1> QED BY <1>1, <1>2, <1>3 DEF TypeOK, MiscInv

LEMMA TypesAlways == Spec => []TypeInv
BY TypeInit, TypeStep, PTL DEF Spec

(***************************************************************************)
(* The fields of the nodes, of the driver and of the calls in progress     *)
(* have their types; a map of buffers never has more entries than it has   *)
(* slots, a used buffer is an entry, and a buffer whose flag the driver    *)
(* will not have reset is a used one.  For any configurations and any      *)
(* number of workers.                                                      *)
(***************************************************************************)
THEOREM TypesHold == Spec => []TypeOK
BY TypesAlways, TypesFollow, PTL

-----------------------------------------------------------------------------
(* The answers. *)

LEMMA AwaitedValues ==
  ASSUME app.pc \in Waiting
  PROVE  /\ app.pc = "init_wait" => Awaited = "LOAD"
         /\ app.pc = "start_wait" => Awaited = StartCommand
         /\ app.pc = "stop_wait" => Awaited = StopCommands[app.k]
         /\ app.pc = "deinit_wait" => Awaited = "RELEASE"
BY DEF Awaited

\* A wait begins with its command at the end of the driver's queue.
LEMMA WaitBegins ==
  ASSUME TypeInv, Lifecycle, UNCHANGED config, app'.pc \in Waiting
  PROVE  cmds' = Append(cmds, Awaited') /\ cmds' # <<>> /\ cmds'[Len(cmds')] = Awaited'
<1> USE DEF TypeInv
<1>1. app = [pc |-> app.pc, k |-> app.k] /\ cmds \in Seq(Commands)
  BY DEF AppInv, MiscInv
<1>2. ASSUME NEW pc, Goto(pc) PROVE app'.pc = pc /\ app'.k = app.k
  BY <1>1, <1>2 DEF Goto
<1>3. ASSUME NEW c, NEW pc, NEW failPc, Command(c, pc, failPc), failPc \notin Waiting
      PROVE  cmds' = Append(cmds, c) /\ app'.pc = pc /\ app'.k = app.k
  BY <1>2, <1>3 DEF Command
<1>4. UNCHANGED <<StartCommand, StopCommands>>
  BY DEF StartCommand, StopCommands, Encoder
<1>5. cmds' = Append(cmds, Awaited')
  <2>1. CASE Initialize_Load
    <3>1. cmds' = Append(cmds, "LOAD") /\ app'.pc = "init_wait"
      BY <1>3, <2>1 DEF Initialize_Load, Waiting
    <3> QED BY <3>1 DEF Awaited
  <2>2. CASE Start_Call
    <3>1. cmds' = Append(cmds, StartCommand) /\ app'.pc = "start_wait"
      BY <1>3, <2>2 DEF Start_Call, Waiting
    <3> QED BY <1>4, <3>1 DEF Awaited
  <2>3. CASE Stop_Call
    <3>1. cmds' = Append(cmds, StopCommands[app.k]) /\ app'.pc = "stop_wait" /\ app'.k = app.k
      BY <1>3, <2>3 DEF Stop_Call, Waiting
    <3> QED BY <1>4, <3>1 DEF Awaited
  <2>4. CASE DeInitialize_Call
    <3>1. cmds' = Append(cmds, "RELEASE") /\ app'.pc = "deinit_wait"
      BY <1>3, <2>4 DEF DeInitialize_Call, Waiting
    <3> QED BY <3>1 DEF Awaited
  <2>5. ~Initialize_Refuse /\ ~Initialize_BadConfig
    BY DEF Initialize_Refuse, Initialize_BadConfig, AppAt, Waiting
  <2>6. ~Initialize_Begin /\ ~Initialize_PostFail /\ ~Initialize_Fail /\ ~Initialize_End
    BY <1>2 DEF Initialize_Begin, Initialize_PostFail, Initialize_Fail, Initialize_End, Waiting
  <2>7. ~Initialize_Open
    BY <1>2 DEF Initialize_Open, Waiting
  <2>8. ~Initialize_SetBuffer
    <3>1. Initialize_SetBuffer => Goto("init_reset") \/ Goto("init_fail")
      BY DEF Initialize_SetBuffer
    <3> QED BY <1>2, <3>1 DEF Waiting
  <2>9. ~Initialize_Wait
    BY <1>2 DEF Initialize_Wait, AwaitCmd, AwaitState, Waiting
  <2>10. ~Start_Begin /\ ~Start_Fail
    BY <1>2 DEF Start_Begin, Start_Fail, Waiting
  <2>11. ~Start_Wait
    BY <1>2 DEF Start_Wait, AwaitCmd, AwaitState, Waiting
  <2>12. ~Start_Fill /\ ~Start_FillIoctl
    <3>1. app' = [app EXCEPT !.pc = "idle", !.k = 0] => app'.pc = "idle"
      BY <1>1
    <3>2. app' = [app EXCEPT !.pc = "fill", !.k = @ + 1] => app'.pc = "fill"
      BY <1>1
    <3>3. app.pc = "fill" /\ app' = [app EXCEPT !.k = @ + 1] => app'.pc = "fill"
      BY <1>1
    <3> QED BY <1>2, <3>1, <3>2, <3>3 DEF Start_Fill, Start_FillIoctl, AppAt, Waiting
  <2>13. ~Stop_Begin /\ ~Stop_Next /\ ~Stop_End
    BY DEF Stop_Begin, Stop_Next, Stop_End, Waiting
  <2>14. ~Stop_Wait
    BY <1>2 DEF Stop_Wait, AwaitCmd, Waiting
  <2>15. ~DeInitialize_Begin /\ ~DeInitialize_Free /\ ~DeInitialize_Close /\ ~DeInitialize_End
    <3>1. ~DeInitialize_Begin
      BY DEF DeInitialize_Begin, DeInitialize_Enter, Waiting
    <3>2. ~DeInitialize_Free /\ ~DeInitialize_Close
      BY <1>2 DEF DeInitialize_Free, DeInitialize_Close, Waiting
    <3>3. ~DeInitialize_End
      <4>1. DeInitialize_End => app.k \in {0, 1, 2}
        BY DEF AppInv, DeInitialize_End, AppAt, DeInitPcs
      <4>2. DeInitialize_End => app'.pc \in {"idle", "init_fail", "init_end"}
        <5> SUFFICES ASSUME DeInitialize_End PROVE app'.pc \in {"idle", "init_fail", "init_end"}
          OBVIOUS
        <5>1. CASE app.k = 0
          BY <5>1 DEF DeInitialize_End
        <5>2. CASE app.k = 1
          BY <5>2 DEF DeInitialize_End
        <5>3. CASE app.k = 2
          BY <5>3 DEF DeInitialize_End
        <5> QED BY <4>1, <5>1, <5>2, <5>3
      <4> QED BY <4>2 DEF Waiting
    <3> QED BY <3>1, <3>2, <3>3
  <2>a. ~InitCmdCompleted
    BY <1>2 DEF InitCmdCompleted, Calling, Waiting
  <2>16. ~DeInitialize_Wait
    BY <1>2 DEF DeInitialize_Wait, AwaitCmd, AwaitState, Waiting
  <2> QED BY <2>1, <2>2, <2>3, <2>4, <2>5, <2>6, <2>7, <2>8, <2>9, <2>10, <2>11, <2>12, <2>13,
             <2>14, <2>15, <2>16, <2>a DEF Lifecycle, Initialize, Start, Stop, DeInitialize
<1>6. \A s \in Seq(Commands) : \A c : Append(s, c) # <<>> /\ Append(s, c)[Len(Append(s, c))] = c
  OBVIOUS
<1> QED BY <1>1, <1>5, <1>6

\* A wait that gives up, or an answer that a wait sees.
LEMMA GivingUp ==
  ASSUME TypeInv, AnswerInv, WaitStep, missed' # missed
  PROVE  crossed'
<1> USE DEF TypeInv
<1>1. UNCHANGED crossed /\ config.timely \in BOOLEAN /\ crossed \in BOOLEAN
  <2>1. config.timely \in BOOLEAN
    BY VideoAssumption DEF MiscInv, IsConfig
  <2> QED BY <2>1 DEF WaitStep, Initialize_Wait, Start_Wait, Stop_Wait, DeInitialize_Wait, MiscInv
<1>2. app.pc \in Waiting /\ cmdCompleted # Awaited /\ GivesUp /\ missed' = (missed \/ config.timely)
  <2>1. CASE Initialize_Wait
    BY <2>1 DEF Initialize_Wait, AwaitCmd, AppAt, Waiting, Awaited
  <2>2. CASE Start_Wait
    BY <2>2 DEF Start_Wait, AwaitCmd, AppAt, Waiting, Awaited
  <2>3. CASE Stop_Wait
    BY <2>3 DEF Stop_Wait, AwaitCmd, AppAt, Waiting, Awaited
  <2>4. CASE DeInitialize_Wait
    BY <2>4 DEF DeInitialize_Wait, AwaitCmd, AppAt, Waiting, Awaited
  <2> QED BY <2>1, <2>2, <2>3, <2>4 DEF WaitStep
<1>3. config.timely
  BY <1>1, <1>2 DEF MiscInv
<1>4. cmds = <<>> /\ cb.pc = "idle"
  BY <1>2, <1>3 DEF GivesUp, CbIdle
<1>5. crossed
  BY <1>2, <1>3, <1>4 DEF AnswerInv
<1> QED BY <1>1, <1>5

LEMMA OnlyAnswerAnswers ==
  ASSUME TypeInv, Callback \/ Device, ~Device_Answer, ~Answer
  PROVE  cb'.pc # "answer"
<1> USE DEF TypeInv
<1>1. cb = [pc |-> cb.pc, d |-> cb.d, k |-> cb.k, what |-> cb.what]
  BY DEF CbInv
<1>2. ASSUME NEW pc, pc # "answer", cb' = [cb EXCEPT !.pc = pc] PROVE cb'.pc # "answer"
  BY ONLY <1>1, <1>2
<1>3. CASE cb' = NoCb
  BY <1>3 DEF NoCb
<1>4. CASE Reconfig_Error
  BY <1>4 DEF Reconfig_Error, NoCb
<1>5. CASE FrameDone \/ Event_Write \/ Finish_End \/ Finish_Break
  BY <1>3, <1>5 DEF FrameDone, Event_Write, Finish_End, Finish_Break
<1>6. CASE Event_Read
  BY <1>2, <1>6 DEF Event_Read, NoCb
<1>7. CASE HandleOutputReconfig
  BY <1>2, <1>4, <1>7 DEF HandleOutputReconfig
<1>8. CASE Reconfig_StartOutput
  BY <1>3, <1>4, <1>8 DEF Reconfig_StartOutput
<1>9. CASE Output_Started
  BY <1>3, <1>9 DEF Output_Started, NoCb
<1>10. CASE Finish_State \/ Finish_Slot
  BY <1>2, <1>5, <1>10 DEF Finish_State, Finish_Slot
<1>11. CASE Finish_Ioctl
  <2>1. Finish_Break \/ cb' = [cb EXCEPT !.pc = "state", !.k = @ + 1]
    BY <1>11 DEF Finish_Ioctl
  <2>2. cb' = [cb EXCEPT !.pc = "state", !.k = @ + 1] => cb'.pc = "state"
    BY <1>1
  <2> QED BY <1>5, <2>1, <2>2
<1>12. ASSUME NEW d \in Dir, NEW b \in Buffers(d), Device_Done(d, b) PROVE cb'.pc # "answer"
  BY <1>12 DEF Device_Done
<1>13. CASE Device_Fatal \/ Device_Reconfig
  <2>1. \E pc \in {"write", "reconfig"} : cb'.pc = pc
    BY <1>13 DEF Device_Fatal, Device_Reconfig, NoCb
  <2> QED BY <2>1
<1> QED BY <1>5, <1>6, <1>7, <1>8, <1>9, <1>10, <1>11, <1>12, <1>13
        DEF Callback, Device, FinishOutputReconfig

\* The answer is on its way, or has come.
Coming ==
  \/ cmds # <<>> /\ cmds[Len(cmds)] = Awaited
  \/ cmds = <<>> /\ cb.pc = "answer" /\ cb.what = Awaited
  \/ cmds = <<>> /\ cb.pc # "answer" /\ cmdCompleted = Awaited

\* Whatever the driver and its callback do while a call waits.
LEMMA StillComing ==
  ASSUME TypeInv, [Next]_vars, app.pc \in Waiting, UNCHANGED app, ~Lifecycle,
         ~Reconfig_StartOutput, Coming
  PROVE  Coming'
<1> USE DEF TypeInv
<1>1. Changes
  BY StepChanges
<1>2. UNCHANGED Awaited
  <2>1. UNCHANGED <<StartCommand, StopCommands>>
    BY <1>1 DEF Changes, StartCommand, StopCommands, Encoder
  <2> QED BY <2>1 DEF Awaited, Waiting
<1>3. ~CloseStep /\ ~CommandStep /\ ~InitCmdCompleted
  BY DEF CloseStep, CommandStep, Lifecycle, Initialize, Start, Stop, DeInitialize
<1>4. CASE Device_Answer
  <2>1. cb.pc = "idle" /\ cmds # <<>> /\ cmds[Len(cmds)] = Awaited /\ cmds \in Seq(Commands)
    BY <1>4 DEF Device_Answer, CbIdle, Coming, MiscInv
  <2>2. cmds' = Tail(cmds) /\ cb'.pc = "answer" /\ cb'.what = Head(cmds)
    BY <1>4 DEF Device_Answer, NoCb
  <2>3. \A s \in Seq(Commands) : s # <<>> =>
          IF Tail(s) = <<>> THEN Head(s) = s[Len(s)] ELSE Tail(s)[Len(Tail(s))] = s[Len(s)]
    <3> SUFFICES ASSUME NEW s \in Seq(Commands), s # <<>>
                 PROVE  IF Tail(s) = <<>> THEN Head(s) = s[Len(s)]
                                          ELSE Tail(s)[Len(Tail(s))] = s[Len(s)]
      OBVIOUS
    <3>1. Tail(s) \in Seq(Commands) /\ Len(Tail(s)) = Len(s) - 1 /\ Len(s) \in Nat \ {0}
      OBVIOUS
    <3>a. Tail(s) = <<>> <=> Len(Tail(s)) = 0
      BY ONLY <3>1, EmptySeq, Zenon
    <3>2. CASE Len(s) = 1
      <4>1. Tail(s) = <<>>
        BY <3>1, <3>2, <3>a
      <4> QED BY <3>2, <4>1
    <3>3. CASE Len(s) # 1
      <4>1. Tail(s) # <<>>
        BY <3>1, <3>3, <3>a
      <4>2. Tail(s)[Len(Tail(s))] = s[Len(Tail(s)) + 1]
        BY <3>1, <3>3
      <4>3. Len(Tail(s)) + 1 = Len(s)
        BY <3>1
      <4> QED BY <4>1, <4>2, <4>3
    <3> QED BY <3>2, <3>3
  <2> QED BY <1>2, <2>1, <2>2, <2>3 DEF Coming
<1>5. CASE ~Device_Answer
  <2>1. UNCHANGED cmds
    BY <1>1, <1>3, <1>5 DEF Changes
  <2>2. CASE Answer
    <3>1. cb.pc = "answer" /\ cmdCompleted' = cb.what
      BY <2>2 DEF Answer
    <3>2. cb'.pc # "answer"
      <4>1. cb' = NoCb \/ cb' = [cb EXCEPT !.pc = "event"]
        BY <2>2 DEF Answer
      <4>2. cb' = [cb EXCEPT !.pc = "event"] => cb'.pc = "event"
        BY DEF CbInv
      <4> QED BY <4>1, <4>2 DEF NoCb
    <3> QED BY <1>2, <2>1, <3>1, <3>2 DEF Coming
  <2>3. CASE ~Answer
    <3>1. UNCHANGED cmdCompleted
      BY <1>1, <1>3, <2>3 DEF Changes
    <3>2. CASE UNCHANGED cb
      BY <1>2, <2>1, <3>1, <3>2 DEF Coming
    <3>3. CASE Callback \/ Device
      <4>1. cb.pc # "answer"
        BY <1>5, <2>3, <3>3 DEF Callback, Device, FrameDone, Event_Read, Event_Write,
           HandleOutputReconfig, Reconfig_StartOutput, Output_Started, FinishOutputReconfig,
           Finish_End, Finish_State, Finish_Slot, Finish_Ioctl, Device_Done, Device_Fatal,
           Device_Reconfig, CbIdle
      <4>2. cb'.pc # "answer"
        BY <1>5, <2>3, <3>3, OnlyAnswerAnswers
      <4> QED BY <1>2, <2>1, <3>1, <4>1, <4>2 DEF Coming
    <3> QED BY <1>1, <3>2, <3>3 DEF Changes
  <2> QED BY <2>2, <2>3
<1> QED BY <1>4, <1>5

LEMMA AnswerInit == Init => AnswerInv
BY DEF Init, AnswerInv, Waiting

LEMMA AnswerStep == TypeInv /\ AnswerInv /\ [Next]_vars => AnswerInv'
<1> SUFFICES ASSUME TypeInv, AnswerInv, [Next]_vars PROVE AnswerInv'
  OBVIOUS
<1>1. Changes
  BY StepChanges
<1>2. MiscInv /\ MiscInv'
  BY MiscKept DEF TypeInv
<1>3. crossed => crossed'
  BY <1>1, <1>2 DEF Changes, Reconfig_StartOutput, MiscInv
<1>4. missed' => crossed'
  <2>1. CASE UNCHANGED missed
    BY <1>3, <2>1 DEF AnswerInv
  <2>2. CASE WaitStep /\ missed' # missed
    BY <2>2, GivingUp
  <2> QED BY <1>1, <2>1, <2>2 DEF Changes
<1>5. ASSUME config'.timely, ~crossed', app'.pc \in Waiting PROVE Coming'
  <2>1. CASE Lifecycle
    BY <1>1, <1>5, <2>1, WaitBegins DEF Changes, Coming
  <2>2. CASE ~Lifecycle
    <3>1. UNCHANGED app /\ app.pc \in Waiting /\ config.timely
      BY <1>1, <1>5, <2>2 DEF Changes
    <3>2. ~Reconfig_StartOutput
      BY <1>5, <3>1 DEF Reconfig_StartOutput
    <3>3. Coming
      BY <1>3, <1>5, <3>1 DEF AnswerInv, Coming
    <3> QED BY <2>2, <3>1, <3>2, <3>3, StillComing
  <2> QED BY <2>1, <2>2
<1> QED BY <1>4, <1>5 DEF AnswerInv, Coming

(***************************************************************************)
(* WaitForCmdCompleted, with a driver that answers in time: a call that    *)
(* gives up did so because HandleOutputReconfig reset m_cmdCompleted while *)
(* it waited, and for no other reason, whatever the workers, the callbacks *)
(* and the other calls do in between.                                      *)
(***************************************************************************)
THEOREM AnswersComeThrough == Spec => []AnswersAreSeen
<1>1. TypeInv /\ AnswerInv /\ [Next]_vars => AnswerInv'
  BY AnswerStep
<1>2. AnswerInv => AnswersAreSeen
  BY DEF AnswerInv, AnswersAreSeen
<1> QED BY <1>1, <1>2, TypesAlways, AnswerInit, PTL DEF Spec

-----------------------------------------------------------------------------
(* State and session, with a driver that answers in time. *)

Loaded == session = "LOADED"

\* RELEASE is answered: DeInitialize waits for its event, and for nothing else.
Releasing == app.pc \in {"deinit_wait", "deinit_state"} /\ state # "INITIAL" /\ cmds = <<>>

\* What the session is while a callback with c or for state c is in progress.
CommandDone(c) ==
  /\ c \in Starters => started # {}
  /\ c \in {"LOAD", "STOP"} => Loaded /\ started = {}
  /\ c = "RELEASE" => Releasing
StateDue(s) ==
  /\ s \in {"INITIAL", "READY", "RUNNING", "ERROR"}
  /\ s = "RUNNING" => started # {}
  /\ s = "READY" => Loaded /\ started = {}
  /\ s = "INITIAL" => Releasing
CbControl ==
  /\ cb.pc \in {"reconfig", "start_output"} => "in" \in started
  /\ cb.pc = "output_started" => started # {}
  /\ cb.pc \in {"answer", "event"} => CommandDone(cb.what)
  /\ cb.pc = "event" => cb.what \notin Silent
  /\ cb.pc = "write" => StateDue(cb.what)

SessionControl ==
  /\ started # {} => Loaded
  /\ \A i \in 1 .. Len(cmds) : cmds[i] = "START_OUT" => "in" \in started

\* The first k commands of Stop are executed.
Stopped(k) ==
  /\ Encoder => started = {}
  /\ ~Encoder /\ k >= 2 => "in" \notin started
  /\ ~Encoder /\ k >= 3 => started = {}

\* The command the call waits for is executed.
Executing ==
  /\ app.pc = "init_wait" => Loaded
  /\ app.pc = "start_wait" => started # {}
  /\ app.pc = "stop_wait" => Stopped(app.k)

\* Only START_OUT is sent by nobody's call.
Sending == {"init_load", "start_call", "stop_call", "deinit_call"}
CmdControl ==
  IF app.pc \in Waiting
  THEN /\ \A i \in 1 .. Len(cmds) - 1 : cmds[i] = "START_OUT"
       /\ cmds # <<>> /\ cb.pc = "answer" => cb.what = "START_OUT"
       /\ cmds # <<>> \/ cb.pc = "answer" => cmdCompleted # Awaited
       /\ cmds = <<>> => Executing
  ELSE /\ \A i \in 1 .. Len(cmds) : cmds[i] = "START_OUT"
       /\ cb.pc = "answer" => cb.what = "START_OUT"
       /\ app.pc \in Sending => cmdCompleted \in {"NONE", "START_OUT"}

Phase ==
  /\ app.pc = "idle" =>
       /\ state \in {"INITIAL", "READY", "RUNNING", "ERROR"}
       /\ state = "INITIAL" => session = "CLOSED"
       /\ state = "READY" => Loaded /\ started = {}
       /\ state = "RUNNING" => started # {}
  /\ app.pc = "init_open" => session = "CLOSED"
  /\ app.pc \in {"init_set", "init_reset", "init_load", "init_wait", "init_ready",
                 "start_reset", "start_call", "cleanup", "deinit_reset", "deinit_call",
                 "deinit_wait"} => started = {}
  /\ app.pc \in {"init_ready", "start_reset", "start_call", "start_wait", "stop_reset",
                 "stop_call", "stop_wait", "stop_next", "deinit_reset", "deinit_call"} => Loaded
  /\ app.pc \in {"start_running", "fill", "fill_ioctl"} => started # {}
  /\ app.pc \in {"fill", "fill_ioctl"} => state \in {"RUNNING", "ERROR"}
  /\ app.pc = "stop_next" => Stopped(app.k)
  /\ app.pc \in {"stop_reset", "stop_call", "stop_wait"} /\ ~Encoder /\ app.k = 3
       => "in" \notin started
  /\ app.pc = "cleanup" /\ state = "READY" => Loaded
  /\ app.pc \in {"deinit_reset", "deinit_call"} => state # "INITIAL"
  /\ app.pc = "deinit_wait" /\ cmds # <<>> => state # "INITIAL"

Control == CbControl /\ SessionControl /\ CmdControl /\ Phase
ControlInv == config.timely /\ ~crossed => Control

ControlVars == <<config, state, cmdCompleted, session, started, cmds, app, cb>>

LEMMA ControlSame ==
  ASSUME Control, UNCHANGED ControlVars
  PROVE  Control'
<1> USE DEF ControlVars
<1>1. UNCHANGED <<Encoder, StartCommand, StopCommands>>
  BY DEF Encoder, StartCommand, StopCommands
<1>2. UNCHANGED <<Loaded, Releasing, Executing>> /\ \A k : UNCHANGED Stopped(k)
  BY <1>1 DEF Loaded, Releasing, Executing, Stopped
<1>3. app.pc \in Waiting => UNCHANGED Awaited
  BY <1>1 DEF Awaited, Waiting
<1>4. CbControl' /\ SessionControl'
  BY <1>2 DEF Control, CbControl, SessionControl, CommandDone, StateDue
<1>5. CmdControl'
  BY <1>2, <1>3 DEF Control, CmdControl
<1>6. Phase'
  BY <1>1, <1>2 DEF Control, Phase
<1> QED BY <1>4, <1>5, <1>6 DEF Control

\* A step that is none of the commands' and changes the callback at most.
LEMMA CallbackMoves ==
  ASSUME Control, CbControl', cb'.pc # "answer",
         UNCHANGED <<config, state, cmdCompleted, session, started, cmds, app>>
  PROVE  Control'
<1>1. UNCHANGED <<Encoder, StartCommand, StopCommands>>
  BY DEF Encoder, StartCommand, StopCommands
<1>2. UNCHANGED <<Loaded, Executing>> /\ \A k : UNCHANGED Stopped(k)
  BY <1>1 DEF Loaded, Executing, Stopped
<1>3. app.pc \in Waiting => UNCHANGED Awaited
  BY <1>1 DEF Awaited, Waiting
<1>4. SessionControl'
  BY <1>2 DEF Control, SessionControl
<1>5. CmdControl'
  BY <1>2, <1>3 DEF Control, CmdControl
<1>6. Phase'
  BY <1>1, <1>2 DEF Control, Phase
<1> QED BY <1>4, <1>5, <1>6 DEF Control

\* The state that a callback stores is due.
LEMMA StateStored ==
  ASSUME Control, StateDue(state'), CbControl', cb'.pc \notin {"answer", "event", "write"},
         state' = "INITIAL" => app.pc \in {"deinit_wait", "deinit_state"} /\ cmds = <<>>,
         UNCHANGED <<config, cmdCompleted, session, started, cmds, app>>
  PROVE  Control'
<1>1. UNCHANGED <<Encoder, StartCommand, StopCommands>>
  BY DEF Encoder, StartCommand, StopCommands
<1>2. UNCHANGED <<Loaded, Executing>> /\ \A k : UNCHANGED Stopped(k)
  BY <1>1 DEF Loaded, Executing, Stopped
<1>3. app.pc \in Waiting => UNCHANGED Awaited
  BY <1>1 DEF Awaited, Waiting
<1>4. SessionControl'
  BY <1>2 DEF Control, SessionControl
<1>5. CmdControl'
  BY <1>2, <1>3 DEF Control, CmdControl
<1>6. Phase'
  BY <1>1, <1>2 DEF Control, Phase, StateDue
<1> QED BY <1>4, <1>5, <1>6 DEF Control

\* Without an answer, what a callback is about stays due.
LEMMA CallbackControl ==
  ASSUME TypeInv, Control, UNCHANGED <<config, state, session, started, cmds, app>>
  PROVE  /\ cb' = NoCb => CbControl'
         /\ Reconfig_Error => CbControl'
         /\ UNCHANGED cb => CbControl'
         /\ cb'.pc \in {"done", "state", "slot", "ioctl"} => CbControl'
         /\ \A c : UNCHANGED CommandDone(c)
         /\ \A s : UNCHANGED StateDue(s)
<1>1. UNCHANGED <<Loaded, Releasing>>
  BY DEF Loaded, Releasing
<1>2. (\A c : UNCHANGED CommandDone(c)) /\ (\A s : UNCHANGED StateDue(s))
  BY <1>1 DEF CommandDone, StateDue
<1>3. cb' = NoCb => CbControl'
  BY DEF CbControl, NoCb
<1>4. Reconfig_Error => CbControl'
  <2>1. Reconfig_Error => cb'.pc = "write" /\ cb'.what = "ERROR"
    BY DEF Reconfig_Error, NoCb
  <2> QED BY <2>1 DEF CbControl, StateDue
<1>5. UNCHANGED cb => CbControl'
  BY <1>2 DEF CbControl, Control
<1>6. cb'.pc \in {"done", "state", "slot", "ioctl"} => CbControl'
  BY DEF CbControl
<1> QED BY <1>2, <1>3, <1>4, <1>5, <1>6

LEMMA Tails ==
  ASSUME cmds \in Seq(Commands), cmds # <<>>, cmds' = Tail(cmds)
  PROVE  /\ Len(cmds) \in Nat \ {0} /\ Len(cmds') = Len(cmds) - 1
         /\ Head(cmds) = cmds[1] /\ \A i \in 1 .. Len(cmds') : cmds'[i] = cmds[i + 1]
         /\ cmds' = <<>> <=> Len(cmds) = 1
         /\ Head(cmds) \in Commands /\ cmds' \in Seq(Commands)
<1>1. Tail(cmds) \in Seq(Commands) /\ Len(Tail(cmds)) = Len(cmds) - 1 /\ Len(cmds) \in Nat \ {0}
  OBVIOUS
<1>2. Tail(cmds) = <<>> <=> Len(Tail(cmds)) = 0
  BY ONLY <1>1, EmptySeq, Zenon
<1>3. Head(cmds) = cmds[1] /\ Head(cmds) \in Commands
  OBVIOUS
<1>4. \A i \in 1 .. Len(Tail(cmds)) : Tail(cmds)[i] = cmds[i + 1]
  BY <1>1
<1> QED BY <1>1, <1>2, <1>3, <1>4

\* Of the commands START_OUT is nobody's.
LEMMA AwaitedIsCall ==
  ASSUME TypeInv, app.pc \in Waiting
  PROVE  Awaited # "START_OUT"
<1>1. app.pc = "stop_wait" => app.k \in 1 .. Len(StopCommands)
  BY DEF TypeInv, AppInv, StopPcs
<1>2. \A k \in 1 .. Len(StopCommands) : StopCommands[k] # "START_OUT"
  BY DEF StopCommands
<1> QED BY <1>1, <1>2, AwaitedValues DEF Waiting, StartCommand

\* The driver executes a command.
LEMMA AnswerControl ==
  ASSUME TypeInv, Control, app.pc \in Waiting => Coming, Device_Answer
  PROVE  Control'
<1>1. /\ UNCHANGED <<config, state, cmdCompleted, app>> /\ cb.pc = "idle" /\ cmds # <<>>
      /\ cmds' = Tail(cmds) /\ Executed(Head(cmds))
      /\ cb'.pc = "answer" /\ cb'.what = Head(cmds)
  BY DEF Device_Answer, NoCb, CbIdle, node
<1>2. cmds \in Seq(Commands) /\ started \subseteq Dir
  BY DEF TypeInv, MiscInv
<1>3. PICK c \in Commands : c = Head(cmds) /\ c = cmds[1]
  BY <1>1, <1>2, Tails
<1>4. UNCHANGED <<Encoder, StartCommand, StopCommands>>
  BY <1>1 DEF Encoder, StartCommand, StopCommands
<1>5. app.pc \in Waiting => UNCHANGED Awaited
  BY <1>1, <1>4 DEF Awaited, Waiting
<1>6. CASE c = "START_OUT"
  <2>1. "in" \in started /\ Loaded
    <3>1. 1 \in 1 .. Len(cmds) /\ cmds[1] = "START_OUT"
      BY <1>1, <1>2, <1>3, <1>6, Tails
    <3> QED BY <3>1 DEF Control, SessionControl
  <2>2. session' = session /\ started' = started \cup {"out"}
    BY <1>1, <1>3, <1>6 DEF Executed
  <2>3. Loaded' /\ "in" \in started' /\ started' # {}
    BY <2>1, <2>2 DEF Loaded
  <2>4. \A i \in 1 .. Len(cmds') : i + 1 \in 1 .. Len(cmds) /\ cmds'[i] = cmds[i + 1]
    BY <1>1, <1>2, Tails
  <2>5. CbControl'
    BY <1>1, <1>3, <1>6, <2>3 DEF CbControl, CommandDone, Starters
  <2>6. SessionControl'
    BY <2>3 DEF SessionControl
  <2>7. CmdControl'
    <3>1. CASE app.pc \in Waiting
      <4>1. Awaited # "START_OUT" /\ cmds[Len(cmds)] = Awaited
        BY <1>1, <3>1, AwaitedIsCall DEF Coming
      <4>2. Len(cmds) # 1
        BY <1>3, <1>6, <4>1
      <4>3. cmds' # <<>> /\ Len(cmds') = Len(cmds) - 1 /\ Len(cmds) \in Nat
        BY <1>1, <1>2, <4>2, Tails
      <4>4. \A i \in 1 .. Len(cmds) - 1 : cmds[i] = "START_OUT"
        BY <3>1 DEF Control, CmdControl
      <4>5. \A i \in 1 .. Len(cmds') - 1 : cmds'[i] = "START_OUT"
        <5> SUFFICES ASSUME NEW i \in 1 .. Len(cmds') - 1 PROVE cmds'[i] = "START_OUT"
          OBVIOUS
        <5>1. i + 1 \in 1 .. Len(cmds) - 1 /\ i \in 1 .. Len(cmds')
          BY <4>3
        <5> QED BY <2>4, <4>4, <5>1
      <4>6. cmdCompleted # Awaited
        BY <1>1, <3>1 DEF Control, CmdControl
      <4> QED BY <1>1, <1>3, <1>5, <1>6, <3>1, <4>3, <4>5, <4>6 DEF CmdControl
    <3>2. CASE app.pc \notin Waiting
      <4>1. /\ \A i \in 1 .. Len(cmds) : cmds[i] = "START_OUT"
            /\ app.pc \in Sending => cmdCompleted \in {"NONE", "START_OUT"}
        BY <3>2 DEF Control, CmdControl
      <4> QED BY <1>1, <1>3, <1>6, <2>4, <3>2, <4>1 DEF CmdControl
    <3> QED BY <3>1, <3>2
  <2>8. Phase'
    <3>1. Phase
      BY DEF Control
    <3> QED BY <1>1, <1>4, <2>1, <2>2, <2>3, <3>1 DEF Phase, Stopped, Loaded
  <2> QED BY <2>5, <2>6, <2>7, <2>8 DEF Control
<1>7. CASE c # "START_OUT"
  <2>1. app.pc \in Waiting
    <3>1. 1 \in 1 .. Len(cmds)
      BY <1>1, <1>2, Tails
    <3> QED BY <1>3, <1>7, <3>1 DEF Control, CmdControl
  <2>2. Len(cmds) = 1
    <3>1. Len(cmds) \in Nat \ {0}
      BY <1>1, <1>2, Tails
    <3>a. \A n \in Nat \ {0} : n # 1 => 1 \in 1 .. n - 1
      OBVIOUS
    <3>2. Len(cmds) # 1 => 1 \in 1 .. Len(cmds) - 1
      BY ONLY <3>1, <3>a, Zenon
    <3> QED BY <1>3, <1>7, <2>1, <3>2 DEF Control, CmdControl
  <2>3. c = Awaited /\ cmds' = <<>>
    BY <1>1, <1>2, <1>3, <2>1, <2>2, Tails DEF Coming
  <2>a. 1 .. Len(cmds') = {} /\ 1 .. Len(cmds') - 1 = {}
    <3>1. Len(cmds') = 0
      BY <1>1, <1>2, <2>2, Tails
    <3> QED BY ONLY <3>1
  <2>b. cmdCompleted' # Awaited'
    BY <1>1, <1>5, <2>1 DEF Control, CmdControl
  <2>4. Executed(c) /\ cb'.what = c
    BY <1>1, <1>3
  <2>5. CASE app.pc = "init_wait"
    <3>1. c = "LOAD" /\ started = {}
      BY <2>1, <2>3, <2>5, AwaitedValues DEF Control, Phase
    <3>2. session' = "LOADED" /\ started' = {}
      BY <2>4, <3>1 DEF Executed
    <3>3. CbControl' /\ SessionControl' /\ CmdControl'
      <4>1. CbControl'
        BY <1>1, <2>1, <2>3, <2>4, <2>5, <3>1, <3>2
           DEF CbControl, CommandDone, Starters, Loaded, Releasing
      <4>2. SessionControl'
        BY <2>a, <2>4, <2>5, <3>1, <3>2 DEF SessionControl, Loaded
      <4>3. CmdControl'
        BY <2>a, <2>b, <1>1, <2>1, <2>3, <2>4, <2>5, <3>1, <3>2
           DEF CmdControl, Executing, Loaded
      <4> QED BY <4>1, <4>2, <4>3
    <3>4. Phase'
      BY <1>1, <2>5, <3>2 DEF Phase
    <3> QED BY <3>3, <3>4 DEF Control
  <2>6. CASE app.pc = "start_wait"
    <3>1. c \in {"START_ALL", "START_IN"} /\ session = "LOADED"
      BY <2>1, <2>3, <2>6, AwaitedValues DEF Control, Phase, StartCommand, Loaded
    <3>2. session' = "LOADED" /\ started' # {}
      BY <2>4, <3>1 DEF Executed, Dir
    <3>3. CbControl' /\ SessionControl' /\ CmdControl'
      <4>1. CbControl'
        BY <1>1, <2>1, <2>3, <2>4, <2>6, <3>1, <3>2
           DEF CbControl, CommandDone, Starters, Loaded, Releasing
      <4>2. SessionControl'
        BY <2>a, <2>4, <2>6, <3>1, <3>2 DEF SessionControl, Loaded
      <4>3. CmdControl'
        BY <2>a, <2>b, <1>1, <2>1, <2>3, <2>4, <2>6, <3>1, <3>2
           DEF CmdControl, Executing, Loaded
      <4> QED BY <4>1, <4>2, <4>3
    <3>4. Phase'
      BY <1>1, <2>6, <3>2 DEF Phase, Loaded
    <3> QED BY <3>3, <3>4 DEF Control
  <2>7. CASE app.pc = "stop_wait"
    <3>1. c = StopCommands[app.k] /\ session = "LOADED" /\ app.k \in 1 .. Len(StopCommands)
      BY <2>1, <2>3, <2>7, AwaitedValues DEF Control, Phase, Loaded, TypeInv, AppInv, StopPcs
    <3>2. ~Encoder /\ app.k = 3 => "in" \notin started
      BY <2>7 DEF Control, Phase
    <3>3. /\ Encoder => c = "STOP" /\ app.k = 1
          /\ ~Encoder => \/ app.k = 1 /\ c = "DRAIN"
                         \/ app.k = 2 /\ c = "STOP_IN"
                         \/ app.k = 3 /\ c = "STOP_OUT"
      BY <3>1 DEF StopCommands
    <3>4. session' = session /\ started' \subseteq started
          /\ (c = "STOP" => started' = {})
          /\ (c = "STOP_IN" => started' = started \ {"in"})
          /\ (c = "STOP_OUT" => started' = started \ {"out"})
      BY <2>4, <3>3 DEF Executed
    <3>5. Stopped(app.k)'
      BY <1>1, <1>2, <1>4, <3>2, <3>3, <3>4 DEF Stopped, Dir
    <3>6. CbControl' /\ SessionControl' /\ CmdControl'
      <4>1. CbControl'
        BY <1>1, <2>1, <2>3, <2>4, <2>7, <3>1, <3>3, <3>4, <3>5
           DEF CbControl, CommandDone, Starters, Loaded, Releasing
      <4>2. SessionControl'
        BY <2>a, <2>4, <2>7, <3>1, <3>3, <3>4, <3>5 DEF SessionControl, Loaded
      <4>3. CmdControl'
        BY <2>a, <2>b, <1>1, <2>1, <2>3, <2>4, <2>7, <3>1, <3>3, <3>4, <3>5
           DEF CmdControl, Executing, Loaded
      <4> QED BY <4>1, <4>2, <4>3
    <3>7. Phase'
      BY <1>1, <1>4, <2>7, <3>1, <3>2, <3>4 DEF Phase, Loaded
    <3> QED BY <3>6, <3>7 DEF Control
  <2>8. CASE app.pc = "deinit_wait"
    <3>1. c = "RELEASE" /\ started = {} /\ state # "INITIAL"
      BY <1>1, <2>1, <2>3, <2>8, AwaitedValues DEF Control, Phase
    <3>2. started' = {}
      BY <2>4, <3>1 DEF Executed
    <3>3. CbControl' /\ SessionControl' /\ CmdControl'
      <4>1. CbControl'
        BY <1>1, <2>1, <2>3, <2>4, <2>8, <3>1, <3>2
           DEF CbControl, CommandDone, Starters, Loaded, Releasing
      <4>2. SessionControl'
        BY <2>a, <2>4, <2>8, <3>1, <3>2 DEF SessionControl, Loaded
      <4>3. CmdControl'
        BY <2>a, <2>b, <1>1, <2>1, <2>3, <2>4, <2>8, <3>1, <3>2
           DEF CmdControl, Executing, Loaded
      <4> QED BY <4>1, <4>2, <4>3
    <3>4. Phase'
      BY <1>1, <2>3, <2>8, <3>2 DEF Phase
    <3> QED BY <3>3, <3>4 DEF Control
  <2> QED BY <2>1, <2>5, <2>6, <2>7, <2>8 DEF Waiting
<1> QED BY <1>6, <1>7

\* A step of the callback, or a device event that is not an answer.
LEMMA EventControl ==
  ASSUME TypeInv, Control, Callback \/ Device, ~Device_Answer, ~crossed'
  PROVE  Control'
<1> USE DEF node, driver
<1> DEFINE Silently == UNCHANGED <<config, state, session, started, cmds, app>>
           Quietly == Silently /\ UNCHANGED cmdCompleted
<1>1. cb = [pc |-> cb.pc, d |-> cb.d, k |-> cb.k, what |-> cb.what]
  BY DEF TypeInv, CbInv
<1>2. ASSUME NEW pc, cb' = [cb EXCEPT !.pc = pc] PROVE cb'.pc = pc /\ cb'.what = cb.what
  BY ONLY <1>1, <1>2
<1>a. /\ cb' = NoCb => cb'.pc = "idle"
      /\ Reconfig_Error => cb'.pc = "write" /\ cb'.what = "ERROR"
  <2>1. cb' = NoCb => cb'.pc = "idle"
    BY DEF NoCb
  <2>2. Reconfig_Error => cb' = [pc |-> "write", d |-> "in", k |-> 0, what |-> "ERROR"]
    BY DEF NoCb, Reconfig_Error
  <2> QED BY <2>1, <2>2
<1>3. ASSUME Quietly, CbControl', cb'.pc # "answer" PROVE Control'
  BY <1>3, CallbackMoves
<1>4. CbControl /\ Phase
  BY DEF Control
<1>5. ASSUME Quietly, cb' = NoCb \/ Reconfig_Error \/ cb'.pc \in {"done", "state", "slot", "ioctl"}
      PROVE  Control'
  <2>1. CbControl'
    BY <1>5, CallbackControl
  <2>2. cb'.pc # "answer"
    BY <1>5, <1>a
  <2> QED BY <1>3, <1>5, <2>1, <2>2
<1>6. CASE FrameDone \/ Finish_End
  BY <1>5, <1>6 DEF FrameDone, Finish_End
<1>7. CASE Finish_State
  <2>1. Quietly /\ (cb' = NoCb \/ cb' = [cb EXCEPT !.pc = "slot"])
    BY <1>7 DEF Finish_State, Finish_Break
  <2> QED BY <1>2, <1>5, <2>1
<1>8. CASE Finish_Slot
  <2>1. Quietly /\ (cb' = NoCb \/ cb' = [cb EXCEPT !.pc = "ioctl"])
    BY <1>8 DEF Finish_Slot, Finish_Break
  <2> QED BY <1>2, <1>5, <2>1
<1>9. CASE Finish_Ioctl
  <2>1. Quietly /\ (cb' = NoCb \/ cb' = [cb EXCEPT !.pc = "state", !.k = @ + 1])
    BY <1>9 DEF Finish_Ioctl, Finish_Break
  <2>2. cb' = [cb EXCEPT !.pc = "state", !.k = @ + 1] => cb'.pc = "state"
    BY <1>1
  <2> QED BY <1>5, <2>1, <2>2
<1>10. ASSUME NEW d \in Dir, NEW b \in Buffers(d), Device_Done(d, b) PROVE Control'
  BY <1>5, <1>10 DEF Device_Done
<1>11. CASE Device_Fatal
  <2>1. Quietly /\ Reconfig_Error
    BY <1>11 DEF Device_Fatal, Reconfig_Error
  <2> QED BY <1>5, <2>1
<1>12. CASE Device_Reconfig
  <2>1. Quietly /\ cb'.pc = "reconfig" /\ "in" \in started
    BY <1>12 DEF Device_Reconfig, NoCb
  <2>2. CbControl'
    BY <2>1 DEF CbControl
  <2> QED BY <1>3, <2>1, <2>2
<1>13. CASE HandleOutputReconfig
  <2>1. Quietly /\ (Reconfig_Error \/ cb' = [cb EXCEPT !.pc = "start_output"]) /\ cb.pc = "reconfig"
    BY <1>13 DEF HandleOutputReconfig
  <2>2. CASE cb' = [cb EXCEPT !.pc = "start_output"]
    <3>1. cb'.pc = "start_output" /\ "in" \in started'
      BY <1>2, <1>4, <2>1, <2>2 DEF CbControl
    <3>2. CbControl'
      BY <3>1 DEF CbControl
    <3> QED BY <1>3, <2>1, <3>1, <3>2
  <2> QED BY <1>5, <2>1, <2>2
<1>14. CASE Event_Read
  <2>1. Quietly /\ cb.pc = "event"
    BY <1>14 DEF Event_Read
  <2>2. cb.what \in Commands /\ CommandDone(cb.what) /\ cb.what \notin Silent
    BY <1>4, <2>1 DEF CbControl, TypeInv, CbInv
  <2>3. CASE cb.what = "START_OUT"
    <3>1. cb'.pc = "output_started"
      BY <1>2, <1>14, <2>3 DEF Event_Read
    <3>2. started # {}
      BY <2>2, <2>3 DEF CommandDone, Starters
    <3>3. CbControl'
      BY <2>1, <3>1, <3>2 DEF CbControl
    <3> QED BY <1>3, <2>1, <3>1, <3>3
  <2>4. CASE cb.what # "START_OUT"
    <3>1. cb'.pc = "write" /\ cb'.what = NextState(cb.what)
      BY <1>14, <2>4 DEF Event_Read, NoCb
    <3>2. StateDue(NextState(cb.what))
      BY <2>2, <2>4 DEF NextState, Transition, StateDue, CommandDone, Starters, Commands, Silent
    <3>3. CbControl'
      BY <2>1, <3>1, <3>2, CallbackControl DEF CbControl
    <3> QED BY <1>3, <2>1, <3>1, <3>3
  <2> QED BY <2>3, <2>4
<1>15. CASE Event_Write
  <2>1. /\ cb.pc = "write" /\ state' = cb.what /\ cb' = NoCb
        /\ UNCHANGED <<config, cmdCompleted, session, started, cmds, app>>
    BY <1>15 DEF Event_Write
  <2>2. StateDue(state')
    BY <1>4, <2>1 DEF CbControl
  <2>3. state' = "INITIAL" => app.pc \in {"deinit_wait", "deinit_state"} /\ cmds = <<>>
    BY <2>2 DEF StateDue, Releasing
  <2>4. CbControl' /\ cb'.pc = "idle"
    BY <2>1 DEF CbControl, NoCb
  <2> QED BY <2>1, <2>2, <2>3, <2>4, StateStored
<1>16. CASE Output_Started
  <2>1. /\ cb.pc = "output_started" /\ state' = "RUNNING" /\ cb'.pc \in {"idle", "state"}
        /\ UNCHANGED <<config, cmdCompleted, session, started, cmds, app>>
    BY <1>16 DEF Output_Started, NoCb
  <2>2. StateDue(state')
    BY <1>4, <2>1 DEF CbControl, StateDue
  <2>3. CbControl'
    BY <2>1 DEF CbControl
  <2> QED BY <2>1, <2>2, <2>3, StateStored
<1>17. CASE Answer
  <2>1. cb.pc = "answer" /\ cmdCompleted' = cb.what /\ Silently
    BY <1>17 DEF Answer
  <2>2. cb' = NoCb \/ (cb'.pc = "event" /\ cb'.what = cb.what /\ cb.what \notin Silent)
    BY <1>2, <1>17 DEF Answer
  <2>3. CbControl'
    <3>1. CommandDone(cb.what)
      BY <1>4, <2>1 DEF CbControl
    <3> QED BY <2>1, <2>2, <3>1, CallbackControl DEF CbControl
  <2>4. SessionControl'
    BY <2>1 DEF Control, SessionControl, Loaded
  <2>5. UNCHANGED <<Encoder, StartCommand, StopCommands>>
    BY <2>1 DEF Encoder, StartCommand, StopCommands
  <2>6. CmdControl'
    <3>1. UNCHANGED Executing
      BY <2>1, <2>5 DEF Executing, Loaded, Stopped
    <3>2. app.pc \in Waiting => UNCHANGED Awaited /\ Awaited # "START_OUT"
      BY <2>1, <2>5, AwaitedIsCall DEF Awaited, Waiting
    <3>3. cb'.pc # "answer"
      BY <2>2 DEF NoCb
    <3> QED BY <2>1, <3>1, <3>2, <3>3 DEF Control, CmdControl
  <2>7. Phase'
    BY <1>4, <2>1, <2>5 DEF Phase, Loaded, Stopped
  <2> QED BY <2>3, <2>4, <2>6, <2>7 DEF Control
<1>18. CASE Reconfig_StartOutput
  <2>1. /\ cb.pc = "start_output" /\ cmdCompleted' = "NONE" /\ app.pc \notin Waiting
        /\ UNCHANGED <<config, state, session, started, app>>
        /\ \/ cmds' = Append(cmds, "START_OUT") /\ cb' = NoCb
           \/ Reconfig_Error /\ UNCHANGED cmds
    BY <1>18 DEF Reconfig_StartOutput
  <2>2. "in" \in started
    BY <1>4, <2>1 DEF CbControl
  <2>3. \A i \in 1 .. Len(cmds') : cmds'[i] = "START_OUT"
    <3>1. \A i \in 1 .. Len(cmds) : cmds[i] = "START_OUT"
      BY <2>1 DEF Control, CmdControl
    <3>2. cmds \in Seq(Commands)
      BY DEF TypeInv, MiscInv
    <3> QED BY <2>1, <3>1, <3>2
  <2>4. CbControl'
    BY <1>a, <2>1 DEF CbControl, StateDue
  <2>5. SessionControl'
    BY <2>1, <2>2 DEF Control, SessionControl, Loaded
  <2>6. CmdControl'
    BY <1>a, <2>1, <2>3 DEF CmdControl
  <2>7. Phase'
    <3>1. UNCHANGED <<Encoder, StartCommand, StopCommands>>
      BY <2>1 DEF Encoder, StartCommand, StopCommands
    <3>2. app.pc # "deinit_wait"
      BY <2>1 DEF Waiting
    <3> QED BY <1>4, <2>1, <3>1, <3>2 DEF Phase, Loaded, Stopped
  <2> QED BY <2>4, <2>5, <2>6, <2>7 DEF Control
<1> QED BY <1>6, <1>7, <1>8, <1>9, <1>10, <1>11, <1>12, <1>13, <1>14, <1>15, <1>16, <1>17, <1>18
        DEF Callback, Device, FinishOutputReconfig

-----------------------------------------------------------------------------
(* The calls of the application. *)

LEMMA CallMoves ==
  ASSUME TypeInv, Control, UNCHANGED <<config, session, started, cmds, cb>>,
         app'.pc \notin Waiting,
         app'.pc \in Sending => cmdCompleted' = "NONE",
         app.pc \in Waiting => cmds = <<>> /\ cb.pc # "answer",
         \/ app.pc \notin {"deinit_wait", "deinit_state"}
         \/ app'.pc = "deinit_state" /\ UNCHANGED state
         \/ cb.pc = "idle"
         \/ state = "INITIAL",
         Phase'
  PROVE  Control'
<1>1. UNCHANGED Loaded /\ (Releasing => Releasing' \/ cb.pc = "idle")
  BY DEF Loaded, Releasing
<1>2. ASSUME cb.pc # "idle" PROVE \A c : CommandDone(c) => CommandDone(c)'
  BY <1>1, <1>2 DEF CommandDone
<1>3. ASSUME cb.pc # "idle" PROVE \A s : StateDue(s) => StateDue(s)'
  BY <1>1, <1>3 DEF StateDue
<1>4. CbControl'
  BY <1>2, <1>3 DEF Control, CbControl
<1>5. SessionControl'
  BY <1>1 DEF Control, SessionControl
<1>6. CmdControl'
  <2>1. cmds = <<>> => 1 .. Len(cmds) = {}
    OBVIOUS
  <2> QED BY <2>1 DEF Control, CmdControl
<1> QED BY <1>4, <1>5, <1>6 DEF Control

LEMMA SessionEnds ==
  ASSUME cb.pc = "idle", UNCHANGED <<config, cb>>, started' = {}, cmds' = <<>>,
         app'.pc \notin Waiting \cup Sending, Phase'
  PROVE  Control'
<1>1. 1 .. Len(cmds') = {}
  OBVIOUS
<1>2. CbControl'
  BY DEF CbControl
<1>3. SessionControl' /\ CmdControl'
  BY <1>1 DEF SessionControl, CmdControl
<1> QED BY <1>2, <1>3 DEF Control

LEMMA CommandSent ==
  ASSUME TypeInv, Control, NEW c, NEW pc \in Waiting, NEW failPc,
         failPc \notin Waiting \cup Sending,
         Command(c, pc, failPc), UNCHANGED <<config, state, cmdCompleted, session, started, cb>>,
         app.pc \in Sending, c # "START_OUT",
         app'.pc = pc => Awaited' = c, c # "NONE",
         Phase'
  PROVE  Control'
<1>1. app = [pc |-> app.pc, k |-> app.k] /\ cmds \in Seq(Commands)
  BY DEF TypeInv, AppInv, MiscInv
<1>2. \/ cmds' = Append(cmds, c) /\ app'.pc = pc
      \/ UNCHANGED cmds /\ app'.pc = failPc
  <2>1. ASSUME NEW p, Goto(p) PROVE app'.pc = p
    BY <1>1, <2>1 DEF Goto
  <2> QED BY <2>1 DEF Command
<1>3. app.pc \notin {"deinit_wait", "deinit_state"} /\ app.pc \notin Waiting
  BY DEF Waiting, Sending
<1>4. CbControl'
  <2>1. UNCHANGED Loaded /\ ~Releasing
    BY <1>3 DEF Loaded, Releasing
  <2>2. \A s : (CommandDone(s) => CommandDone(s)') /\ (StateDue(s) => StateDue(s)')
    BY <2>1 DEF CommandDone, StateDue
  <2> QED BY <2>2 DEF Control, CbControl
<1>5. /\ \A i \in 1 .. Len(cmds) : cmds[i] = "START_OUT"
      /\ cb.pc = "answer" => cb.what = "START_OUT"
      /\ cmdCompleted # c
  BY <1>3 DEF Control, CmdControl
<1>6. CASE UNCHANGED cmds /\ app'.pc = failPc
  <2>1. SessionControl'
    BY <1>6 DEF Control, SessionControl, Loaded
  <2>2. CmdControl'
    BY <1>5, <1>6 DEF CmdControl
  <2> QED BY <1>4, <2>1, <2>2 DEF Control
<1>7. CASE cmds' = Append(cmds, c) /\ app'.pc = pc
  <2>1. /\ Len(cmds') = Len(cmds) + 1 /\ Len(cmds) \in Nat /\ cmds' # <<>>
        /\ \A i \in 1 .. Len(cmds) : cmds'[i] = cmds[i]
        /\ cmds'[Len(cmds) + 1] = c
    BY <1>1, <1>7
  <2>2. 1 .. Len(cmds') - 1 = 1 .. Len(cmds)
    BY ONLY <2>1
  <2>3. \A i \in 1 .. Len(cmds') : i \in 1 .. Len(cmds) \/ cmds'[i] = c
    BY ONLY <2>1
  <2>4. SessionControl'
    BY <2>1, <2>3 DEF Control, SessionControl, Loaded
  <2>6. CmdControl'
    BY <1>2, <1>5, <1>7, <2>1, <2>2 DEF CmdControl
  <2> QED BY <1>4, <2>4, <2>6 DEF Control
<1> QED BY <1>2, <1>6, <1>7

\* A wait ends with its command executed, and its answer stored.
LEMMA WaitSucceeds ==
  ASSUME TypeInv, Control, Coming, config.timely, app.pc \in Waiting, NEW pc, NEW failPc,
         AwaitCmd(Awaited, pc, failPc)
  PROVE  Goto(pc) /\ cmds = <<>> /\ cb.pc # "answer" /\ Executing
<1>1. GivesUp => cmds = <<>> /\ cb.pc = "idle"
  BY DEF GivesUp, CbIdle
<1>2. cmdCompleted = Awaited
  BY <1>1 DEF AwaitCmd, Coming
<1>3. cmds = <<>> /\ cb.pc # "answer" /\ Executing
  BY <1>2 DEF Control, CmdControl
<1> QED BY <1>2, <1>3 DEF AwaitCmd

LEMMA CallControl ==
  ASSUME TypeInv, Control, app.pc \in Waiting => Coming, config.timely, Lifecycle
  PROVE  Control'
<1> USE DEF node, driver
<1>1. app = [pc |-> app.pc, k |-> app.k] /\ Phase
  BY DEF TypeInv, AppInv, Control
<1>2. ASSUME NEW pc, Goto(pc) PROVE app'.pc = pc /\ app'.k = app.k
  BY <1>1, <1>2 DEF Goto
<1>3. GivesUp => cmds = <<>> /\ cb.pc = "idle"
  BY DEF GivesUp, CbIdle
<1>4. ASSUME UNCHANGED config
      PROVE  UNCHANGED <<Encoder, StartCommand, StopCommands>>
  BY <1>4 DEF Encoder, StartCommand, StopCommands
<1>5. ASSUME UNCHANGED <<config, session, started, cmds, cb>>, app.pc \notin Waiting,
             app'.pc = "idle", app.pc \notin {"deinit_wait", "deinit_state"},
             \/ state' = "ERROR"
             \/ state' = "READY" /\ Loaded /\ started = {}
             \/ state' = "INITIAL" /\ session = "CLOSED"
      PROVE  Control'
  <2>1. Phase'
    BY <1>5 DEF Phase, Loaded
  <2> QED BY <1>5, <2>1, CallMoves DEF Waiting, Sending
<1>6. CASE Initialize
  <2>1. CASE Initialize_Refuse \/ Initialize_BadConfig
    BY <1>5, <2>1 DEF Initialize_Refuse, Initialize_BadConfig, AppAt, Waiting, Sending
  <2>2. CASE Initialize_Begin
    <3>1. /\ app.pc = "idle" /\ state = "INITIAL" /\ app'.pc = "init_open"
          /\ UNCHANGED <<config, session, started, cmds, cb>>
      BY <1>2, <2>2 DEF Initialize_Begin, AppAt
    <3>2. Phase'
      BY <1>1, <3>1 DEF Phase
    <3> QED BY <3>1, <3>2, CallMoves DEF Waiting, Sending
  <2>3. CASE Initialize_Open
    <3>1. /\ cb.pc = "idle" /\ UNCHANGED <<config, cb>> /\ started' = {} /\ cmds' = <<>>
          /\ app'.pc \in {"init_set", "init_fail"}
      <4>1. Goto("init_set") \/ Goto("init_fail")
        BY <2>3 DEF Initialize_Open
      <4> QED BY <1>2, <2>3, <4>1 DEF Initialize_Open, EndSession, CbIdle
    <3>2. Phase'
      BY <3>1 DEF Phase
    <3> QED BY <3>1, <3>2, SessionEnds DEF Waiting, Sending
  <2>4. CASE Initialize_SetBuffer
    <3>1. /\ app.pc = "init_set" /\ app'.pc \in {"init_reset", "init_fail"}
          /\ UNCHANGED <<config, session, started, cmds, cb>>
      <4>1. Goto("init_reset") \/ Goto("init_fail")
        BY <2>4 DEF Initialize_SetBuffer
      <4> QED BY <1>2, <2>4, <4>1 DEF Initialize_SetBuffer, AppAt
    <3>2. Phase'
      BY <1>1, <3>1 DEF Phase
    <3> QED BY <3>1, <3>2, CallMoves DEF Waiting, Sending
  <2>5. CASE Initialize_Load
    <3>1. /\ app.pc = "init_load" /\ Command("LOAD", "init_wait", "post_fail")
          /\ UNCHANGED <<config, state, cmdCompleted, session, started, cb>>
      BY <2>5 DEF Initialize_Load, AppAt
    <3>2. app'.pc \in {"init_wait", "post_fail"}
      BY <1>2, <3>1 DEF Command
    <3>3. Phase'
      BY <1>1, <3>1, <3>2 DEF Phase
    <3>4. app'.pc = "init_wait" => Awaited' = "LOAD"
      BY DEF Awaited
    <3> QED BY <3>1, <3>3, <3>4, CommandSent DEF Waiting, Sending
  <2>6. CASE Initialize_Wait
    <3>1. UNCHANGED <<config, state, session, started, cmds, cb>>
      BY <2>6 DEF Initialize_Wait
    <3>2. CASE app.pc = "init_wait"
      <4>1. Goto("init_ready") /\ cmds = <<>> /\ cb.pc # "answer" /\ Executing
        BY <2>6, <3>2, WaitSucceeds, AwaitedValues DEF Initialize_Wait, AppAt, Waiting, Sending
      <4>2. app'.pc = "init_ready" /\ Loaded'
        BY <1>2, <3>1, <3>2, <4>1 DEF Executing, Loaded
      <4>3. Phase'
        BY <1>1, <3>1, <3>2, <4>2 DEF Phase
      <4> QED BY <3>1, <3>2, <4>1, <4>2, <4>3, CallMoves DEF Waiting, Sending
    <3>3. CASE app.pc = "init_ready"
      <4>1. (state = "READY" /\ app'.pc = "idle") \/ app'.pc = "post_fail"
        BY <1>2, <2>6, <3>3 DEF Initialize_Wait, AppAt, AwaitState
      <4>2. Phase'
        BY <1>1, <3>1, <3>3, <4>1 DEF Phase, Loaded
      <4> QED BY <3>1, <3>3, <4>1, <4>2, CallMoves DEF Waiting, Sending
    <3> QED BY <2>6, <3>2, <3>3 DEF Initialize_Wait, AppAt
  <2>7. CASE Initialize_PostFail \/ Initialize_Fail
    <3>1. /\ app.pc \in {"post_fail", "init_fail"} /\ app'.pc = "cleanup" /\ state' = "ERROR"
          /\ UNCHANGED <<config, session, started, cmds, cb>>
      BY <2>7 DEF Initialize_PostFail, Initialize_Fail, AppAt
    <3>2. started = {}
      BY <3>1 DEF TypeInv, OpeningInv, Opening, Barren
    <3>3. Phase'
      BY <3>1, <3>2 DEF Phase
    <3> QED BY <3>1, <3>3, CallMoves DEF Waiting, Sending
  <2>8. CASE Initialize_End
    BY <1>5, <2>8 DEF Initialize_End, AppAt, Waiting
  <2> QED BY <1>6, <2>1, <2>2, <2>3, <2>4, <2>5, <2>6, <2>7, <2>8 DEF Initialize
<1>7. CASE Start
  <2>1. CASE Start_Begin
    <3>1. /\ app.pc = "idle" /\ state = "READY" /\ app'.pc = "start_reset"
          /\ UNCHANGED <<config, session, started, cmds, cb>>
      BY <1>2, <2>1 DEF Start_Begin, AppAt
    <3>2. Phase'
      BY <1>1, <3>1 DEF Phase, Loaded
    <3> QED BY <3>1, <3>2, CallMoves DEF Waiting, Sending
  <2>2. CASE Start_Call
    <3>1. /\ app.pc = "start_call" /\ Command(StartCommand, "start_wait", "start_fail")
          /\ UNCHANGED <<config, state, cmdCompleted, session, started, cb>>
      BY <2>2 DEF Start_Call, AppAt
    <3>2. app'.pc \in {"start_wait", "start_fail"}
      BY <1>2, <3>1 DEF Command
    <3>3. Phase'
      BY <1>1, <3>1, <3>2 DEF Phase, Loaded
    <3>4. app'.pc = "start_wait" => Awaited' = StartCommand
      BY <1>4, <3>1 DEF Awaited
    <3>5. StartCommand \notin {"START_OUT", "NONE"}
      BY DEF StartCommand
    <3> QED BY <3>1, <3>3, <3>4, <3>5, CommandSent DEF Waiting, Sending
  <2>3. CASE Start_Wait
    <3>1. UNCHANGED <<config, state, session, started, cmds, cb>>
      BY <2>3 DEF Start_Wait
    <3>2. CASE app.pc = "start_wait"
      <4>1. Goto("start_running") /\ cmds = <<>> /\ cb.pc # "answer" /\ Executing
        BY <2>3, <3>2, WaitSucceeds, AwaitedValues DEF Start_Wait, AppAt, Waiting, Sending
      <4>2. app'.pc = "start_running" /\ started' # {}
        BY <1>2, <3>1, <3>2, <4>1 DEF Executing
      <4>3. Phase'
        BY <1>1, <3>1, <3>2, <4>2 DEF Phase
      <4> QED BY <3>1, <3>2, <4>1, <4>2, <4>3, CallMoves DEF Waiting, Sending
    <3>3. CASE app.pc = "start_running"
      <4>1. (state = "RUNNING" /\ app'.pc = "fill") \/ app'.pc = "start_fail"
        BY <1>2, <2>3, <3>3 DEF Start_Wait, AppAt, AwaitState
      <4>2. Phase'
        BY <1>1, <3>1, <3>3, <4>1 DEF Phase
      <4> QED BY <3>1, <3>3, <4>1, <4>2, CallMoves DEF Waiting, Sending
    <3> QED BY <2>3, <3>2, <3>3 DEF Start_Wait, AppAt
  <2>4. CASE Start_Fail
    BY <1>2, <1>5, <2>4 DEF Start_Fail, AppAt, Waiting, Sending
  <2>5. CASE Start_Fill \/ Start_FillIoctl
    <3>1. /\ app.pc \in {"fill", "fill_ioctl"} /\ app'.pc \in {"idle", "fill", "fill_ioctl"}
          /\ UNCHANGED <<config, state, session, started, cmds, cb>>
      <4>1. app' = [app EXCEPT !.pc = "idle", !.k = 0] => app'.pc = "idle"
        BY <1>1
      <4>2. app' = [app EXCEPT !.pc = "fill", !.k = @ + 1] => app'.pc = "fill"
        BY <1>1
      <4>3. app.pc = "fill" /\ app' = [app EXCEPT !.k = @ + 1] => app'.pc = "fill"
        BY <1>1
      <4> QED BY <1>2, <2>5, <4>1, <4>2, <4>3 DEF Start_Fill, Start_FillIoctl, AppAt
    <3>2. Phase'
      BY <1>1, <3>1 DEF Phase
    <3> QED BY <3>1, <3>2, CallMoves DEF Waiting, Sending
  <2> QED BY <1>7, <2>1, <2>2, <2>3, <2>4, <2>5 DEF Start
<1>8. CASE Stop
  <2>1. CASE Stop_Begin
    <3>1. /\ app.pc = "idle" /\ state = "RUNNING" /\ app'.pc = "stop_reset" /\ app'.k = 1
          /\ UNCHANGED <<config, session, started, cmds, cb>>
      BY <2>1 DEF Stop_Begin, AppAt
    <3>2. Loaded
      BY <1>1, <3>1 DEF Phase, Control, SessionControl
    <3>3. Phase'
      BY <1>1, <3>1, <3>2 DEF Phase, Loaded
    <3> QED BY <3>1, <3>3, CallMoves DEF Waiting, Sending
  <2>2. CASE Stop_Call
    <3>1. /\ app.pc = "stop_call" /\ Command(StopCommands[app.k], "stop_wait", "stop_fail")
          /\ UNCHANGED <<config, state, cmdCompleted, session, started, cb>>
      BY <2>2 DEF Stop_Call, AppAt
    <3>2. app'.pc \in {"stop_wait", "stop_fail"} /\ app'.k = app.k
      BY <1>2, <3>1 DEF Command
    <3>3. Phase'
      BY <1>1, <1>4, <3>1, <3>2 DEF Phase, Loaded
    <3>4. app'.pc = "stop_wait" => Awaited' = StopCommands[app.k]
      BY <1>4, <3>1, <3>2 DEF Awaited
    <3>5. StopCommands[app.k] \notin {"START_OUT", "NONE"}
      <4>1. app.k \in 1 .. Len(StopCommands)
        BY <3>1 DEF TypeInv, AppInv, StopPcs
      <4> QED BY <4>1 DEF StopCommands
    <3> QED BY <3>1, <3>3, <3>4, <3>5, CommandSent DEF Waiting, Sending
  <2>3. CASE Stop_Wait
    <3>1. UNCHANGED <<config, state, session, started, cmds, cb>> /\ app.pc = "stop_wait"
      BY <2>3 DEF Stop_Wait, AppAt
    <3>2. Goto("stop_next") /\ cmds = <<>> /\ cb.pc # "answer" /\ Executing
      BY <2>3, <3>1, WaitSucceeds, AwaitedValues DEF Stop_Wait, AppAt, Waiting, Sending
    <3>3. app'.pc = "stop_next" /\ Stopped(app.k)'
      <4>1. app'.pc = "stop_next" /\ app'.k = app.k
        BY <1>2, <3>2
      <4>2. UNCHANGED <<Encoder, started>>
        BY <1>4, <3>1
      <4>3. Stopped(app.k)
        BY <3>1, <3>2 DEF Executing
      <4> QED BY <4>1, <4>2, <4>3 DEF Stopped
    <3>4. Phase'
      BY <1>1, <1>4, <3>1, <3>3 DEF Phase, Loaded
    <3> QED BY <3>1, <3>2, <3>3, <3>4, CallMoves DEF Waiting, Sending
  <2>4. CASE Stop_Next
    <3>1. /\ app.pc = "stop_next" /\ app'.pc = "stop_reset" /\ app'.k = app.k + 1
          /\ UNCHANGED <<config, state, session, started, cmds, cb>>
      BY <2>4 DEF Stop_Next, AppAt
    <3>2. ~Encoder' /\ app'.k = 3 => "in" \notin started'
      <4>1. app.k \in Nat
        BY DEF TypeInv, AppInv
      <4>2. Stopped(app.k)
        BY <1>1, <3>1 DEF Phase
      <4> QED BY <1>4, <3>1, <4>1, <4>2 DEF Stopped
    <3>3. Phase'
      BY <1>1, <3>1, <3>2 DEF Phase, Loaded
    <3> QED BY <3>1, <3>3, CallMoves DEF Waiting, Sending
  <2>5. CASE Stop_End
    <3>1. CASE app.pc = "stop_fail"
      BY <1>5, <2>5, <3>1 DEF Stop_End, AppAt, Waiting, Sending
    <3>2. CASE app.pc = "stop_next"
      <4>1. started = {} /\ Loaded
        <5>1. app.k = Len(StopCommands) /\ Stopped(app.k) /\ Loaded
          BY <1>1, <2>5, <3>2 DEF Stop_End, AppAt, Phase
        <5>2. Len(StopCommands) = IF Encoder THEN 1 ELSE 3
          BY DEF StopCommands
        <5> QED BY <5>1, <5>2 DEF Stopped
      <4> QED BY <1>5, <2>5, <3>2, <4>1 DEF Stop_End, AppAt, Waiting, Sending
    <3> QED BY <2>5, <3>1, <3>2 DEF Stop_End, AppAt
  <2> QED BY <1>8, <2>1, <2>2, <2>3, <2>4, <2>5 DEF Stop
<1>9. CASE DeInitialize
  <2>1. CASE DeInitialize_Begin
    <3>1. /\ app.pc \in {"idle", "cleanup"} /\ UNCHANGED <<config, session, started, cmds, cb>>
          /\ \/ state = "READY" /\ state' = "DEINITIALIZING" /\ app'.pc = "deinit_reset"
             \/ app'.pc \in {"deinit_free", "deinit_fail"}
      BY <2>1 DEF DeInitialize_Begin, DeInitialize_Enter, AppAt
    <3>2. Phase'
      BY <1>1, <3>1 DEF Phase, Loaded
    <3> QED BY <3>1, <3>2, CallMoves DEF Waiting, Sending
  <2>2. CASE DeInitialize_Call
    <3>1. /\ app.pc = "deinit_call" /\ Command("RELEASE", "deinit_wait", "deinit_fail")
          /\ UNCHANGED <<config, state, cmdCompleted, session, started, cb>>
      BY <2>2 DEF DeInitialize_Call, AppAt
    <3>2. app'.pc \in {"deinit_wait", "deinit_fail"}
      BY <1>2, <3>1 DEF Command
    <3>3. Phase'
      BY <1>1, <3>1, <3>2 DEF Phase
    <3>4. app'.pc = "deinit_wait" => Awaited' = "RELEASE"
      BY DEF Awaited
    <3> QED BY <3>1, <3>3, <3>4, CommandSent DEF Waiting, Sending
  <2>3. CASE DeInitialize_Wait
    <3>1. UNCHANGED <<config, state, session, started, cmds, cb>>
      BY <2>3 DEF DeInitialize_Wait
    <3>2. CASE app.pc = "deinit_wait"
      <4>1. Goto("deinit_state") /\ cmds = <<>> /\ cb.pc # "answer"
        BY <2>3, <3>2, WaitSucceeds, AwaitedValues DEF DeInitialize_Wait, AppAt, Waiting, Sending
      <4>2. app'.pc = "deinit_state"
        BY <1>2, <4>1
      <4>3. Phase'
        BY <4>2 DEF Phase
      <4> QED BY <3>1, <3>2, <4>1, <4>2, <4>3, CallMoves DEF Waiting, Sending
    <3>3. CASE app.pc = "deinit_state"
      <4>1. \/ state = "INITIAL" /\ app'.pc = "deinit_free"
            \/ cb.pc = "idle" /\ app'.pc = "deinit_fail"
        BY <1>2, <1>3, <2>3, <3>3 DEF DeInitialize_Wait, AppAt, AwaitState
      <4>2. Phase'
        BY <4>1 DEF Phase
      <4> QED BY <3>1, <3>3, <4>1, <4>2, CallMoves DEF Waiting, Sending
    <3> QED BY <2>3, <3>2, <3>3 DEF DeInitialize_Wait, AppAt
  <2>4. CASE DeInitialize_Free
    <3>1. /\ app.pc = "deinit_free" /\ app'.pc \in {"deinit_close", "deinit_fail"}
          /\ UNCHANGED <<config, state, session, started, cmds, cb>>
      BY <1>2, <2>4 DEF DeInitialize_Free, AppAt
    <3>2. Phase'
      BY <3>1 DEF Phase
    <3> QED BY <3>1, <3>2, CallMoves DEF Waiting, Sending
  <2>5. CASE DeInitialize_Close
    <3>1. /\ cb.pc = "idle" /\ UNCHANGED <<config, cb>> /\ started' = {} /\ cmds' = <<>>
          /\ app'.pc = "deinit_end"
      BY <1>2, <2>5 DEF DeInitialize_Close, CloseDriver, EndSession, CbIdle
    <3>2. Phase'
      BY <3>1 DEF Phase
    <3> QED BY <3>1, <3>2, SessionEnds DEF Waiting, Sending
  <2>6. CASE DeInitialize_End
    <3>1. app.pc = "deinit_end" => session = "CLOSED"
      BY DEF TypeInv, AppInv
    <3>2. app.pc \in {"deinit_end", "deinit_fail"} /\ app.k \in {0, 1, 2}
      BY <2>6 DEF DeInitialize_End, AppAt, TypeInv, AppInv, DeInitPcs
    <3>3. CASE app.k = 0
      BY <1>5, <2>6, <3>1, <3>2, <3>3 DEF DeInitialize_End, AppAt, Waiting
    <3>4. CASE app.k # 0
      <4>1. app'.pc \in {"init_fail", "init_end"} /\ UNCHANGED <<config, session, started, cmds, cb>>
        BY <2>6, <3>2, <3>4 DEF DeInitialize_End
      <4>2. Phase'
        BY <4>1 DEF Phase
      <4> QED BY <3>2, <4>1, <4>2, CallMoves DEF Waiting, Sending
    <3> QED BY <3>3, <3>4
  <2> QED BY <1>9, <2>1, <2>2, <2>3, <2>4, <2>5, <2>6 DEF DeInitialize
<1>10. CASE InitCmdCompleted
  <2>1. /\ app.pc \in {"init_reset", "start_reset", "stop_reset", "deinit_reset"}
        /\ app'.pc = Calling[app.pc] /\ app'.k = app.k /\ cmdCompleted' = "NONE"
        /\ UNCHANGED <<config, state, session, started, cmds, cb>>
    BY <1>2, <1>10 DEF InitCmdCompleted, Calling
  <2>2. Phase'
    BY <1>1, <1>4, <2>1 DEF Phase, Calling, Loaded
  <2>3. app'.pc \notin Waiting
    BY <2>1 DEF Calling, Waiting
  <2> QED BY <2>1, <2>2, <2>3, CallMoves DEF Waiting
<1> QED BY <1>6, <1>7, <1>8, <1>9, <1>10 DEF Lifecycle

-----------------------------------------------------------------------------
(* The invariant holds, and with it the property. *)

LEMMA ControlInit == Init => ControlInv
<1> SUFFICES ASSUME Init PROVE Control
  BY DEF ControlInv
<1>1. /\ state = "INITIAL" /\ session = "CLOSED" /\ started = {} /\ cmds = <<>>
      /\ app.pc = "idle" /\ cb.pc = "idle"
  BY DEF Init, NoCb
<1>2. 1 .. Len(cmds) = {}
  BY <1>1
<1>3. CbControl /\ SessionControl /\ CmdControl
  BY <1>1, <1>2 DEF CbControl, SessionControl, CmdControl, Waiting, Sending
<1>4. Phase
  BY <1>1 DEF Phase
<1> QED BY <1>3, <1>4 DEF Control

LEMMA WorkerControl ==
  ASSUME NEW w \in Workers, ProcessFrameDescriptor(w)
  PROVE  UNCHANGED ControlVars
BY DEF ProcessFrameDescriptor, Process_Begin, Submit_State, Submit_Slot, Submit_Ioctl,
       ControlVars, node, driver

LEMMA ControlStep ==
  ASSUME TypeInv, AnswerInv, ControlInv, [Next]_vars
  PROVE  ControlInv'
<1>1. UNCHANGED config /\ (UNCHANGED crossed \/ Reconfig_StartOutput)
  BY StepChanges DEF Changes
<1>2. crossed => crossed'
  BY <1>1 DEF Reconfig_StartOutput
<1> SUFFICES ASSUME config.timely, ~crossed, ~crossed' PROVE Control'
  BY <1>1, <1>2 DEF ControlInv
<1>3. Control
  BY DEF ControlInv
<1>4. app.pc \in Waiting => Coming
  BY DEF AnswerInv, Coming
<1>5. CASE Lifecycle
  BY <1>3, <1>4, <1>5, CallControl
<1>6. CASE Device_Answer
  BY <1>3, <1>4, <1>6, AnswerControl
<1>7. CASE (Callback \/ Device) /\ ~Device_Answer
  BY <1>3, <1>7, EventControl
<1>8. ASSUME NEW w \in Workers, ProcessFrameDescriptor(w) PROVE Control'
  BY <1>3, <1>8, WorkerControl, ControlSame
<1>9. CASE UNCHANGED vars
  <2>1. UNCHANGED ControlVars
    BY <1>9 DEF vars, node, driver, ControlVars
  <2> QED BY <1>3, <2>1, ControlSame
<1> QED BY <1>5, <1>6, <1>7, <1>8, <1>9 DEF Next

LEMMA ControlMatches == TypeInv /\ ControlInv => StateMatchesDevice
<1> SUFFICES ASSUME Control, Settled
             PROVE  /\ state = "INITIAL" => session = "CLOSED"
                    /\ state = "READY"   => session = "LOADED" /\ started = {}
                    /\ state = "RUNNING" => session = "LOADED" /\ started # {}
                    /\ state \in {"INITIAL", "READY", "RUNNING", "ERROR"}
  BY DEF StateMatchesDevice, ControlInv
<1>1. app.pc = "idle"
  BY DEF Settled, AppAt
<1> QED BY <1>1 DEF Control, Phase, SessionControl, Loaded

(***************************************************************************)
(* Initialize, Start, Stop and DeInitialize store m_state in the thread    *)
(* that calls them, EventCallback and the reconfiguration in the driver's: *)
(* when both are done, and the driver answers in time, the state says what *)
(* the session is - closed, loaded, or loaded with a started port - or     *)
(* ERROR.  For any mix of failures of the driver and of its fatal events,  *)
(* any stream and any number of workers.                                   *)
(***************************************************************************)
THEOREM StatesFollowSession == Spec => []StateMatchesDevice
<1>1. TypeInv /\ AnswerInv /\ ControlInv /\ [Next]_vars => ControlInv'
  BY ControlStep
<1>2. TypeInv /\ AnswerInv /\ [Next]_vars => AnswerInv'
  BY AnswerStep
<1> QED BY <1>1, <1>2, TypesAlways, AnswerInit, ControlInit, ControlMatches, PTL DEF Spec

-----------------------------------------------------------------------------
(* What the steps of a call and of a callback do, for the proofs below. *)

Moves(p, q) == app.pc = p /\ app'.pc = q
Stays(p, q) == Moves(p, q) /\ app'.k = app.k /\ UNCHANGED state

\* DeInitialize begins and ends: the application's, or that of a failed Initialize.
Enters(q) == \/ Moves("idle", q) /\ app'.k = 0 /\ Quiet
             \/ Moves("cleanup", q) /\ app'.k = app.k /\ app.k # 0
Leaves(p) == \/ Moves(p, "idle") /\ app.k = 0
             \/ Moves(p, "init_fail") /\ app.k = 1
             \/ Moves(p, "init_end") /\ app.k = 2

\* A step of a call that leaves the driver alone.
LocalMove ==
  \/ Moves("idle", "idle") /\ state' = "ERROR" /\ (state = "INITIAL" \/ (Quiet /\ CbIdle))
  \/ Moves("idle", "init_open") /\ state = "INITIAL" /\ state' = "INITIALIZING" /\ Quiet
  \/ Stays("init_set", "init_reset") \/ Stays("init_set", "init_fail")
  \/ Stays("init_wait", "init_ready") /\ cmdCompleted = "LOAD"
  \/ Stays("init_wait", "post_fail") /\ GivesUp
  \/ Stays("init_ready", "idle") /\ state = "READY"
  \/ Stays("init_ready", "post_fail") /\ GivesUp
  \/ Moves("post_fail", "cleanup") /\ state' = "ERROR" /\ app'.k = 1
  \/ Moves("init_fail", "cleanup") /\ state' = "ERROR" /\ app'.k = 2
  \/ Moves("init_end", "idle") /\ state' = "ERROR"
  \/ Moves("idle", "start_reset") /\ state = "READY" /\ state' = "STARTING" /\ Quiet
  \/ Stays("start_wait", "start_running") /\ cmdCompleted = StartCommand
  \/ Stays("start_wait", "start_fail") /\ GivesUp
  \/ Stays("start_running", "fill") /\ state = "RUNNING"
  \/ Stays("start_running", "start_fail") /\ GivesUp
  \/ Moves("start_fail", "idle") /\ state' = "ERROR"
  \/ Moves("fill", "idle") /\ UNCHANGED state
  \/ Stays("fill", "fill_ioctl")
  \/ Moves("fill", "fill") /\ UNCHANGED state
  \/ Moves("fill_ioctl", "fill") /\ UNCHANGED state
  \/ Moves("idle", "stop_reset") /\ app'.k = 1 /\ state = "RUNNING" /\ state' = "STOPING"
  \/ Stays("stop_wait", "stop_next") /\ cmdCompleted = StopCommands[app.k]
  \/ Stays("stop_wait", "stop_fail") /\ GivesUp
  \/ Moves("stop_next", "stop_reset") /\ app'.k = app.k + 1 /\ UNCHANGED state
     /\ app.k < Len(StopCommands)
  \/ Moves("stop_next", "idle") /\ app.k = Len(StopCommands) /\ state' = "READY"
  \/ Moves("stop_fail", "idle") /\ state' = "ERROR"
  \/ Enters("deinit_reset") /\ state = "READY" /\ state' = "DEINITIALIZING"
  \/ Enters("deinit_free") /\ state = "ERROR" /\ UNCHANGED state
  \/ Enters("deinit_fail") /\ state \notin {"READY", "ERROR"} /\ UNCHANGED state
  \/ Stays("deinit_wait", "deinit_state") /\ cmdCompleted = "RELEASE"
  \/ Stays("deinit_wait", "deinit_fail") /\ GivesUp
  \/ Stays("deinit_state", "deinit_free") /\ state = "INITIAL"
  \/ Stays("deinit_state", "deinit_fail") /\ GivesUp
  \/ Stays("deinit_free", "deinit_close") \/ Stays("deinit_free", "deinit_fail")
  \/ Leaves("deinit_end") /\ state' = "INITIAL"
  \/ Leaves("deinit_fail") /\ state' = "ERROR"

\* A step of a call that ends the session.
CloseMove ==
  /\ CbIdle /\ started' = {} /\ cmds' = <<>> /\ queued' = Nothing /\ stuck' = used
  /\ \/ Stays("init_open", "init_set") \/ Stays("init_open", "init_fail")
     \/ Stays("deinit_close", "deinit_end") /\ session' = "CLOSED"

\* A step of a call that sends a command, and the one before it.
Sends(p, c, q, r) ==
  \/ Stays(p, q) /\ cmds' = Append(cmds, c)
  \/ Stays(p, r) /\ UNCHANGED cmds
CommandMove ==
  \/ Sends("init_load", "LOAD", "init_wait", "post_fail")
  \/ Sends("start_call", StartCommand, "start_wait", "start_fail")
  \/ Sends("stop_call", StopCommands[app.k], "stop_wait", "stop_fail")
  \/ Sends("deinit_call", "RELEASE", "deinit_wait", "deinit_fail")
ResetMove ==
  /\ cmdCompleted' = "NONE"
  /\ \/ Stays("init_reset", "init_load") \/ Stays("start_reset", "start_call")
     \/ Stays("stop_reset", "stop_call") \/ Stays("deinit_reset", "deinit_call")

CallEffect ==
  /\ UNCHANGED <<cb, worker>>
  /\ \/ LocalMove /\ UNCHANGED <<session, started, cmds, cmdCompleted>>
     \/ CloseMove /\ UNCHANGED cmdCompleted
     \/ CommandMove /\ UNCHANGED <<session, started, cmdCompleted>>
     \/ ResetMove /\ UNCHANGED <<session, started, cmds>>

LEMMA CallEffects ==
  ASSUME TypeInv, Lifecycle
  PROVE  CallEffect
<1> USE DEF Moves, Stays, AppAt, node, driver
<1>1. /\ app = [pc |-> app.pc, k |-> app.k]
      /\ app.pc = "cleanup" => app.k # 0
      /\ app.pc \in DeInitPcs => app.k \in {0, 1, 2}
  BY DEF TypeInv, AppInv
<1>2. ASSUME NEW pc, Goto(pc) PROVE app'.pc = pc /\ app'.k = app.k
  BY <1>1, <1>2 DEF Goto
<1>3. ASSUME NEW c, NEW pc, NEW failPc, AwaitCmd(c, pc, failPc)
      PROVE  /\ app'.k = app.k
             /\ (app'.pc = pc /\ cmdCompleted = c) \/ (app'.pc = failPc /\ GivesUp)
  <2>1. (cmdCompleted = c /\ Goto(pc)) \/ (GivesUp /\ Goto(failPc))
    BY <1>3 DEF AwaitCmd
  <2> QED BY <1>2, <2>1
<1>4. ASSUME NEW s, NEW pc, NEW failPc, AwaitState(s, pc, failPc)
      PROVE  /\ app'.k = app.k
             /\ (app'.pc = pc /\ state = s) \/ (app'.pc = failPc /\ GivesUp)
  <2>1. (state = s /\ Goto(pc)) \/ (GivesUp /\ Goto(failPc))
    BY <1>4 DEF AwaitState
  <2> QED BY <1>2, <2>1
<1>5. ASSUME NEW c, NEW pc, NEW failPc, Command(c, pc, failPc)
      PROVE  /\ app'.k = app.k
             /\ \/ app'.pc = pc /\ cmds' = Append(cmds, c)
                \/ app'.pc = failPc /\ UNCHANGED cmds
  BY <1>2, <1>5 DEF Command
<1>6. CASE Initialize
  <2>1. CASE Initialize_Refuse \/ Initialize_BadConfig
    BY <2>1 DEF Initialize_Refuse, Initialize_BadConfig, CallEffect, LocalMove
  <2>2. CASE Initialize_Begin
    BY <1>2, <2>2 DEF Initialize_Begin, CallEffect, LocalMove
  <2>3. CASE Initialize_Open
    <3>1. Goto("init_set") \/ Goto("init_fail")
      BY <2>3 DEF Initialize_Open
    <3> QED BY <1>2, <2>3, <3>1 DEF Initialize_Open, EndSession, CallEffect, CloseMove
  <2>4. CASE Initialize_SetBuffer
    <3>1. Goto("init_reset") \/ Goto("init_fail")
      BY <2>4 DEF Initialize_SetBuffer
    <3> QED BY <1>2, <2>4, <3>1 DEF Initialize_SetBuffer, CallEffect, LocalMove
  <2>5. CASE Initialize_Load
    BY <1>5, <2>5 DEF Initialize_Load, CallEffect, CommandMove, Sends
  <2>6. CASE Initialize_Wait
    BY <1>3, <1>4, <2>6 DEF Initialize_Wait, CallEffect, LocalMove
  <2>7. CASE Initialize_PostFail
    BY <2>7 DEF Initialize_PostFail, CallEffect, LocalMove
  <2>8. CASE Initialize_Fail
    BY <2>8 DEF Initialize_Fail, CallEffect, LocalMove
  <2>9. CASE Initialize_End
    BY <2>9 DEF Initialize_End, CallEffect, LocalMove
  <2> QED BY <1>6, <2>1, <2>2, <2>3, <2>4, <2>5, <2>6, <2>7, <2>8, <2>9 DEF Initialize
<1>7. CASE Start
  <2>1. CASE Start_Begin
    BY <1>2, <2>1 DEF Start_Begin, CallEffect, LocalMove
  <2>2. CASE Start_Call
    BY <1>5, <2>2 DEF Start_Call, CallEffect, CommandMove, Sends
  <2>3. CASE Start_Wait
    BY <1>3, <1>4, <2>3 DEF Start_Wait, CallEffect, LocalMove
  <2>4. CASE Start_Fail
    BY <1>2, <2>4 DEF Start_Fail, CallEffect, LocalMove
  <2>5. CASE Start_Fill
    <3>1. app' = [app EXCEPT !.pc = "idle", !.k = 0] => app'.pc = "idle"
      BY <1>1
    <3>2. app.pc = "fill" /\ app' = [app EXCEPT !.k = @ + 1] => app'.pc = "fill"
      BY <1>1
    <3>a. app.pc = "fill"
      BY <2>5 DEF Start_Fill
    <3>b. \/ app' = [app EXCEPT !.pc = "idle", !.k = 0]
          \/ Goto("fill_ioctl")
          \/ app' = [app EXCEPT !.k = @ + 1]
      BY <2>5 DEF Start_Fill
    <3>3. app'.pc \in {"idle", "fill"} \/ (app'.pc = "fill_ioctl" /\ app'.k = app.k)
      BY <1>2, <3>a, <3>b, <3>1, <3>2
    <3>4. UNCHANGED <<state, cb, worker, session, started, cmds, cmdCompleted>>
      BY <2>5 DEF Start_Fill
    <3> QED BY <3>a, <3>3, <3>4 DEF CallEffect, LocalMove
  <2>6. CASE Start_FillIoctl
    <3>1. app'.pc = "fill"
      BY <1>1, <2>6 DEF Start_FillIoctl
    <3> QED BY <2>6, <3>1 DEF Start_FillIoctl, CallEffect, LocalMove
  <2> QED BY <1>7, <2>1, <2>2, <2>3, <2>4, <2>5, <2>6 DEF Start
<1>8. CASE Stop
  <2>1. CASE Stop_Begin
    BY <2>1 DEF Stop_Begin, CallEffect, LocalMove
  <2>2. CASE Stop_Call
    BY <1>5, <2>2 DEF Stop_Call, CallEffect, CommandMove, Sends
  <2>3. CASE Stop_Wait
    BY <1>3, <2>3 DEF Stop_Wait, CallEffect, LocalMove
  <2>4. CASE Stop_Next
    BY <2>4 DEF Stop_Next, CallEffect, LocalMove
  <2>5. CASE Stop_End
    BY <2>5 DEF Stop_End, CallEffect, LocalMove
  <2> QED BY <1>8, <2>1, <2>2, <2>3, <2>4, <2>5 DEF Stop
<1>9. CASE DeInitialize
  <2>1. CASE DeInitialize_Begin
    <3>1. ASSUME NEW k, DeInitialize_Enter(k)
          PROVE  /\ app'.k = k
                 /\ \/ app'.pc = "deinit_reset" /\ state = "READY" /\ state' = "DEINITIALIZING"
                    \/ app'.pc = "deinit_free" /\ state = "ERROR" /\ UNCHANGED state
                    \/ app'.pc = "deinit_fail" /\ state \notin {"READY", "ERROR"}
                       /\ UNCHANGED state
      BY <3>1 DEF DeInitialize_Enter
    <3>2. UNCHANGED <<cb, worker, session, started, cmds, cmdCompleted>>
      BY <2>1 DEF DeInitialize_Begin
    <3>3. CASE app.pc = "idle" /\ Quiet /\ DeInitialize_Enter(0)
      BY <3>1, <3>2, <3>3 DEF CallEffect, LocalMove, Enters
    <3>4. CASE app.pc = "cleanup" /\ DeInitialize_Enter(app.k)
      BY <1>1, <3>1, <3>2, <3>4 DEF CallEffect, LocalMove, Enters
    <3> QED BY <2>1, <3>3, <3>4 DEF DeInitialize_Begin
  <2>2. CASE DeInitialize_Call
    BY <1>5, <2>2 DEF DeInitialize_Call, CallEffect, CommandMove, Sends
  <2>3. CASE DeInitialize_Wait
    BY <1>3, <1>4, <2>3 DEF DeInitialize_Wait, CallEffect, LocalMove
  <2>4. CASE DeInitialize_Free
    BY <1>2, <2>4 DEF DeInitialize_Free, CallEffect, LocalMove
  <2>5. CASE DeInitialize_Close
    BY <1>2, <2>5 DEF DeInitialize_Close, CloseDriver, EndSession, CallEffect, CloseMove
  <2>6. CASE DeInitialize_End
    <3>1. app.k \in {0, 1, 2}
      BY <1>1, <2>6 DEF DeInitialize_End, DeInitPcs
    <3> QED BY <2>6, <3>1 DEF DeInitialize_End, CallEffect, LocalMove, Leaves
  <2> QED BY <1>9, <2>1, <2>2, <2>3, <2>4, <2>5, <2>6 DEF DeInitialize
<1>10. CASE InitCmdCompleted
  <2>1. app'.pc = Calling[app.pc] /\ app'.k = app.k
    BY <1>2, <1>10 DEF InitCmdCompleted
  <2> QED BY <1>10, <2>1 DEF InitCmdCompleted, Calling, CallEffect, ResetMove
<1> QED BY <1>6, <1>7, <1>8, <1>9, <1>10 DEF Lifecycle

\* The steps of a callback, and those of the driver that begin one.
CbMoves(p, q)   == cb.pc = p /\ cb'.pc = q
CbWrites(p, s)  == CbMoves(p, "write") /\ cb'.what = s
CbEffect ==
  /\ UNCHANGED <<app, worker>>
  /\ \/ /\ UNCHANGED <<state, session, started, cmds, cmdCompleted>>
        /\ \/ CbMoves("done", "idle")
           \/ CbMoves("idle", "done") /\ \E d \in Dir : ~Returned(d)
           \/ CbMoves("event", "output_started") /\ cb.what = "START_OUT"
           \/ CbWrites("event", NextState(cb.what)) /\ cb.what # "START_OUT"
           \/ CbMoves("reconfig", "start_output") \/ CbWrites("reconfig", "ERROR")
           \/ CbWrites("idle", "ERROR")
           \/ CbMoves("idle", "reconfig") /\ ~Encoder /\ "in" \in started
           \/ cb.pc \in Finishing /\ cb'.pc \in {"idle"} \cup Finishing
     \/ /\ UNCHANGED <<state, session, started, cmds>>
        /\ cmdCompleted' = cb.what
        /\ \/ CbMoves("answer", "idle") /\ cb.what \in Silent
           \/ CbMoves("answer", "event") /\ cb'.what = cb.what /\ cb.what \notin Silent
     \/ /\ UNCHANGED <<session, started, cmds, cmdCompleted>>
        /\ \/ CbMoves("write", "idle") /\ state' = cb.what
           \/ CbMoves("output_started", "idle") /\ state' = "RUNNING"
           \/ CbMoves("output_started", "state") /\ state' = "RUNNING" /\ Static("out")
     \/ /\ UNCHANGED <<state, session, started>>
        /\ cmdCompleted' = "NONE"
        /\ \/ CbMoves("start_output", "idle") /\ cmds' = Append(cmds, "START_OUT")
           \/ CbWrites("start_output", "ERROR") /\ UNCHANGED cmds
     \/ /\ UNCHANGED <<state, cmdCompleted>>
        /\ CbMoves("idle", "answer") /\ cb'.what = Head(cmds)
        /\ cmds # <<>> /\ cmds' = Tail(cmds)
        /\ Answerable(Head(cmds)) /\ Executed(Head(cmds))

LEMMA CbEffects ==
  ASSUME TypeInv, Callback \/ Device
  PROVE  CbEffect
<1> USE DEF CbMoves, CbWrites, node, driver
<1>1. cb = [pc |-> cb.pc, d |-> cb.d, k |-> cb.k, what |-> cb.what]
  BY DEF TypeInv, CbInv
<1>2. ASSUME NEW pc, cb' = [cb EXCEPT !.pc = pc] PROVE cb'.pc = pc /\ cb'.what = cb.what
  BY ONLY <1>1, <1>2
<1>3. cb' = NoCb => cb'.pc = "idle"
  BY DEF NoCb
<1>4. Reconfig_Error => cb'.pc = "write" /\ cb'.what = "ERROR"
  BY DEF Reconfig_Error, NoCb
<1>5. Finish_Break => cb'.pc = "idle"
  BY <1>3 DEF Finish_Break
<1>6. CASE FrameDone
  BY <1>3, <1>6 DEF FrameDone, CbEffect
<1>7. CASE Answer
  BY <1>2, <1>3, <1>7 DEF Answer, CbEffect
<1>8. CASE Event_Read
  <2>1. CASE cb.what = "START_OUT"
    <3>1. cb'.pc = "output_started"
      BY <1>2, <1>8, <2>1 DEF Event_Read
    <3> QED BY <1>8, <2>1, <3>1 DEF Event_Read, CbEffect
  <2>2. CASE cb.what # "START_OUT"
    <3>1. cb'.pc = "write" /\ cb'.what = NextState(cb.what)
      BY <1>8, <2>2 DEF Event_Read, NoCb
    <3> QED BY <1>8, <2>2, <3>1 DEF Event_Read, CbEffect
  <2> QED BY <2>1, <2>2
<1>9. CASE Event_Write
  BY <1>3, <1>9 DEF Event_Write, CbEffect
<1>10. CASE HandleOutputReconfig
  <2>1. Reconfig_Error \/ cb'.pc = "start_output"
    BY <1>2, <1>10 DEF HandleOutputReconfig
  <2> QED BY <1>4, <1>10, <2>1 DEF HandleOutputReconfig, CbEffect
<1>11. CASE Reconfig_StartOutput
  BY <1>3, <1>4, <1>11 DEF Reconfig_StartOutput, CbEffect
<1>12. CASE Output_Started
  <2>1. cb'.pc = "idle" \/ (cb'.pc = "state" /\ Static("out"))
    <3>1. [NoCb EXCEPT !.pc = "state", !.k = 1].pc = "state"
      BY DEF NoCb
    <3>2. cb' = NoCb \/ (Static("out") /\ cb' = [NoCb EXCEPT !.pc = "state", !.k = 1])
      BY <1>12 DEF Output_Started
    <3> QED BY <1>3, <3>1, <3>2
  <2> QED BY <1>12, <2>1 DEF Output_Started, CbEffect
<1>13. CASE FinishOutputReconfig
  <2>1. cb.pc \in Finishing /\ UNCHANGED <<state, session, started, cmds, cmdCompleted, app, worker>>
    BY <1>13 DEF FinishOutputReconfig, Finish_End, Finish_State, Finish_Slot, Finish_Ioctl,
       Finishing
  <2>2. cb'.pc \in {"idle"} \cup Finishing
    <3>1. CASE Finish_End
      BY <1>3, <3>1 DEF Finish_End
    <3>2. CASE Finish_State
      BY <1>2, <1>5, <3>2 DEF Finish_State, Finishing
    <3>3. CASE Finish_Slot
      BY <1>2, <1>5, <3>3 DEF Finish_Slot, Finishing
    <3>4. CASE Finish_Ioctl
      <4>1. Finish_Break \/ cb' = [cb EXCEPT !.pc = "state", !.k = @ + 1]
        BY <3>4 DEF Finish_Ioctl
      <4>2. cb' = [cb EXCEPT !.pc = "state", !.k = @ + 1] => cb'.pc = "state"
        BY <1>1
      <4> QED BY <1>5, <4>1, <4>2 DEF Finishing
    <3> QED BY <1>13, <3>1, <3>2, <3>3, <3>4 DEF FinishOutputReconfig
  <2> QED BY <2>1, <2>2 DEF CbEffect
<1>14. ASSUME NEW d \in Dir, NEW b \in Buffers(d), Device_Done(d, b) PROVE CbEffect
  BY <1>14 DEF Device_Done, CbIdle, CbEffect, Returned
<1>15. CASE Device_Answer
  <2>1. cb'.pc = "answer" /\ cb'.what = Head(cmds)
    BY <1>15 DEF Device_Answer, NoCb
  <2> QED BY <1>15, <2>1 DEF Device_Answer, CbIdle, CbEffect
<1>16. CASE Device_Fatal
  <2>1. cb'.pc = "write" /\ cb'.what = "ERROR"
    BY <1>16 DEF Device_Fatal, NoCb
  <2> QED BY <1>16, <2>1 DEF Device_Fatal, CbIdle, CbEffect
<1>17. CASE Device_Reconfig
  <2>1. cb'.pc = "reconfig"
    BY <1>17 DEF Device_Reconfig, NoCb
  <2> QED BY <1>17, <2>1 DEF Device_Reconfig, CbIdle, CbEffect
<1> QED BY <1>6, <1>7, <1>8, <1>9, <1>10, <1>11, <1>12, <1>13, <1>14, <1>15, <1>16, <1>17
        DEF Callback, Device

LEMMA StepEffects ==
  ASSUME TypeInv, [Next]_vars
  PROVE  UNCHANGED config /\ (CallEffect \/ CbEffect \/ UNCHANGED ControlVars)
<1>1. UNCHANGED config
  BY StepChanges DEF Changes
<1>2. CASE UNCHANGED vars
  BY <1>2 DEF vars, node, driver, ControlVars
<1> QED BY <1>1, <1>2, CallEffects, CbEffects, WorkerControl DEF Next

LEMMA StillReturned ==
  ASSUME TypeInv, [Next]_vars, started = {}, NEW d \in Dir, Returned(d)
  PROVE  Returned(d)'
<1>1. UNCHANGED config /\ (UNCHANGED queued \/ CloseStep \/ IoctlStep \/ DoneStep)
  BY StepChanges DEF Changes
<1>2. CASE UNCHANGED queued
  BY <1>1, <1>2 DEF Returned, Buffers
<1>3. CASE CloseStep
  <2>1. queued' = Nothing
    BY <1>3 DEF CloseStep, Initialize_Open, DeInitialize_Close, CloseDriver,
       EndSession
  <2> QED BY <1>1, <2>1 DEF Returned, Nothing, Buffers
<1>4. CASE IoctlStep
  BY <1>2, <1>4, IoctlStepSends DEF Sent
<1>5. ASSUME NEW e \in Dir, NEW b \in Buffers(e), Device_Done(e, b) PROVE Returned(d)'
  <2>1. queued[e][b] > 0 /\ queued' = [queued EXCEPT ![e][b] = @ - 1]
    BY <1>5 DEF Device_Done
  <2>2. e # d
    BY <2>1 DEF Returned, TypeInv, QueuedOK
  <2>3. queued'[d] = queued[d]
    BY <2>1, <2>2 DEF TypeInv, QueuedOK
  <2> QED BY <1>1, <2>3 DEF Returned, Buffers
<1> QED BY <1>1, <1>2, <1>3, <1>4, <1>5 DEF DoneStep

-----------------------------------------------------------------------------
(* The commands that are listed at the driver. *)

CallCommands == {"LOAD", "RELEASE", "START_IN", "DRAIN", "STOP_IN", "STOP_OUT"}
Listing(c) == \E i \in 1 .. Len(cmds) : cmds[i] = c
OneCall == \A i, j \in 1 .. Len(cmds) : cmds[i] \in CallCommands /\ cmds[j] \in CallCommands => i = j

LEMMA NothingListed == ASSUME cmds = <<>> PROVE OneCall /\ \A c : ~Listing(c)
<1>1. 1 .. Len(cmds) = {}
  OBVIOUS
<1> QED BY <1>1 DEF OneCall, Listing

LEMMA ListedLonger ==
  ASSUME cmds \in Seq(Commands), NEW c, cmds' = Append(cmds, c)
  PROVE  /\ \A x : Listing(x)' <=> Listing(x) \/ x = c
         /\ (\A x \in CallCommands : ~Listing(x)) => OneCall'
         /\ c \notin CallCommands /\ OneCall => OneCall'
<1>1. /\ Len(cmds') = Len(cmds) + 1 /\ Len(cmds) \in Nat
      /\ \A i \in 1 .. Len(cmds) : cmds'[i] = cmds[i]
      /\ cmds'[Len(cmds) + 1] = c
  OBVIOUS
<1>2. \A i \in 1 .. Len(cmds') : i \in 1 .. Len(cmds) \/ i = Len(cmds')
  BY ONLY <1>1
<1>3. \A i \in 1 .. Len(cmds) : i \in 1 .. Len(cmds')
  BY ONLY <1>1
<1>4. Len(cmds') \in 1 .. Len(cmds') /\ cmds'[Len(cmds')] = c
  BY ONLY <1>1
<1>5. \A x : Listing(x)' <=> Listing(x) \/ x = c
  <2> SUFFICES ASSUME NEW x PROVE Listing(x)' <=> Listing(x) \/ x = c
    OBVIOUS
  <2> QED BY ONLY <1>1, <1>2, <1>3, <1>4, Zenon DEF Listing
<1>6. ASSUME \A x \in CallCommands : ~Listing(x) PROVE OneCall'
  <2>1. \A i \in 1 .. Len(cmds) : cmds[i] \notin CallCommands
    BY <1>6 DEF Listing
  <2> QED BY ONLY <1>1, <1>2, <2>1, Zenon DEF OneCall
<1>7. ASSUME c \notin CallCommands, OneCall PROVE OneCall'
  BY ONLY <1>1, <1>2, <1>4, <1>7, Zenon DEF OneCall
<1> QED BY <1>5, <1>6, <1>7

LEMMA ListedShorter ==
  ASSUME cmds \in Seq(Commands), cmds # <<>>, cmds' = Tail(cmds)
  PROVE  /\ \A x : Listing(x) <=> Listing(x)' \/ x = Head(cmds)
         /\ OneCall => OneCall'
         /\ OneCall /\ Head(cmds) \in CallCommands => \A x \in CallCommands : ~Listing(x)'
<1>1. /\ Len(cmds) \in Nat \ {0} /\ Len(cmds') = Len(cmds) - 1 /\ Head(cmds) = cmds[1]
      /\ \A i \in 1 .. Len(cmds') : cmds'[i] = cmds[i + 1]
  BY Tails
<1>2. /\ \A i \in 1 .. Len(cmds') : i + 1 \in 1 .. Len(cmds) /\ i + 1 # 1
      /\ \A i \in 1 .. Len(cmds) : i = 1 \/ \E j \in 1 .. Len(cmds') : i = j + 1
      /\ 1 \in 1 .. Len(cmds)
      /\ \A i, j \in 1 .. Len(cmds') : i + 1 = j + 1 => i = j
  <2>1. \A i \in 1 .. Len(cmds) : i = 1 \/ (i - 1 \in 1 .. Len(cmds') /\ i = (i - 1) + 1)
    BY ONLY <1>1
  <2> QED BY ONLY <1>1, <2>1
<1>a. \A i \in 1 .. Len(cmds) : i = 1 \/ \E j \in 1 .. Len(cmds') : cmds'[j] = cmds[i]
  <2> SUFFICES ASSUME NEW i \in 1 .. Len(cmds), i # 1
               PROVE  \E j \in 1 .. Len(cmds') : cmds'[j] = cmds[i]
    OBVIOUS
  <2>1. PICK j \in 1 .. Len(cmds') : i = j + 1
    BY <1>2
  <2>2. cmds'[j] = cmds[i]
    BY <1>1, <2>1
  <2> QED BY <2>2
<1>3. ASSUME NEW x PROVE Listing(x) <=> Listing(x)' \/ x = Head(cmds)
  <2>1. ASSUME NEW i \in 1 .. Len(cmds), cmds[i] = x PROVE Listing(x)' \/ x = Head(cmds)
    BY ONLY <1>1, <1>a, <2>1, Zenon DEF Listing
  <2>2. Listing(x)' => Listing(x)
    BY ONLY <1>1, <1>2, Zenon DEF Listing
  <2>3. x = Head(cmds) => Listing(x)
    BY ONLY <1>1, <1>2, Zenon DEF Listing
  <2> QED BY <2>1, <2>2, <2>3 DEF Listing
<1>4. ASSUME OneCall PROVE OneCall'
  BY ONLY <1>1, <1>2, <1>4, Zenon DEF OneCall
<1>5. ASSUME OneCall, Head(cmds) \in CallCommands, NEW x \in CallCommands PROVE ~Listing(x)'
  <2> SUFFICES ASSUME NEW j \in 1 .. Len(cmds'), cmds'[j] = x PROVE FALSE
    BY DEF Listing
  <2>1. cmds[j + 1] \in CallCommands /\ cmds[1] \in CallCommands /\ j + 1 \in 1 .. Len(cmds)
        /\ 1 \in 1 .. Len(cmds) /\ j + 1 # 1
    BY <1>1, <1>2, <1>5
  <2> QED BY ONLY <1>5, <2>1, Zenon DEF OneCall
<1> QED BY <1>3, <1>4, <1>5

-----------------------------------------------------------------------------
(* What the driver may still have, and what its callback is about. *)

DriverInv ==
  /\ app.pc = "init_set" =>
       /\ cmds = <<>> /\ started = {} /\ Returned("in") /\ Returned("out")
       /\ cb.pc = "idle" \/ (cb.pc = "write" /\ cb.what = "ERROR")
  /\ ~Static("out") => cb.pc \notin Finishing
  /\ cb.pc \in {"reconfig", "start_output"} => "in" \in started /\ ~Encoder
  /\ cb.pc \in {"output_started"} \cup Finishing => "out" \in started
  /\ cb.pc \in {"answer", "event"} /\ cb.what = "START_OUT" => "out" \in started

LEMMA DriverInit == Init => DriverInv
BY DEF Init, DriverInv, NoCb, Finishing

LEMMA DriverStep ==
  ASSUME TypeInv, DriverInv, [Next]_vars
  PROVE  DriverInv'
<1>1. UNCHANGED config
  BY StepEffects
<1>2. UNCHANGED <<Encoder, Static("out")>>
  BY <1>1 DEF Encoder, Static
<1>a. started \subseteq Dir /\ cmds \in Seq(Commands)
  BY DEF TypeInv, MiscInv
<1>3. CASE CallEffect
  <2>1. CASE LocalMove /\ UNCHANGED <<session, started, cmds, cmdCompleted>>
    BY <1>2, <1>3, <2>1 DEF CallEffect, LocalMove, Moves, Stays, Enters, Leaves, DriverInv
  <2>2. CASE CommandMove /\ UNCHANGED <<session, started, cmdCompleted>>
    BY <1>2, <1>3, <2>2 DEF CallEffect, CommandMove, Sends, Moves, Stays, DriverInv
  <2>4. CASE ResetMove /\ UNCHANGED <<session, started, cmds>>
    BY <1>2, <1>3, <2>4 DEF CallEffect, ResetMove, Moves, Stays, DriverInv
  <2>3. CASE CloseMove
    <3>1. Returned("in")' /\ Returned("out")'
      BY <1>1, <2>3 DEF CloseMove, Nothing, Returned, Buffers, Dir
    <3> QED BY <1>3, <2>3, <3>1 DEF CallEffect, CloseMove, CbIdle, DriverInv, Finishing
  <2> QED BY <1>3, <2>1, <2>2, <2>3, <2>4 DEF CallEffect
<1>4. app.pc = "init_set" => (Returned("in") => Returned("in")') /\ (Returned("out") => Returned("out")')
  BY StillReturned DEF DriverInv, Dir
<1>5. CASE CbEffect
  <2>1. CASE Answerable(Head(cmds)) /\ Executed(Head(cmds)) /\ CbMoves("idle", "answer")
             /\ cb'.what = Head(cmds) /\ cmds # <<>>
    <3>1. app'.pc # "init_set"
      BY <1>5, <2>1 DEF CbEffect, DriverInv
    <3>2. cb'.pc = "answer" /\ (cb'.what = "START_OUT" => "out" \in started')
      BY <2>1 DEF CbMoves, Executed
    <3> QED BY <3>1, <3>2 DEF DriverInv, Finishing
  <2>2. CASE ~CbMoves("idle", "answer")
    <3>a. UNCHANGED started
      BY <1>5, <2>2 DEF CbEffect
    <3>1. app.pc = "init_set" => ~(\E d \in Dir : ~Returned(d))
      BY DEF DriverInv, Dir
    <3>b. \/ cb.pc = "idle" /\ cb'.pc = "done" /\ \E d \in Dir : ~Returned(d)
          \/ cb'.pc = "idle" /\ cb.pc # "idle"
          \/ cb.pc = "event" /\ cb'.pc = "output_started" /\ cb.what = "START_OUT"
          \/ cb.pc = "answer" /\ cb'.pc = "event" /\ cb'.what = cb.what
          \/ cb.pc = "idle" /\ cb'.pc = "write" /\ cb'.what = "ERROR"
          \/ cb.pc \notin {"idle", "write"} /\ cb'.pc = "write"
          \/ cb.pc = "idle" /\ cb'.pc = "reconfig" /\ ~Encoder /\ "in" \in started
          \/ cb.pc = "reconfig" /\ cb'.pc = "start_output"
          \/ cb.pc = "output_started" /\ cb'.pc = "state" /\ Static("out")
          \/ cb.pc \in Finishing /\ cb'.pc \in {"idle"} \cup Finishing
      BY <1>5, <2>2 DEF CbEffect, CbMoves, CbWrites, Finishing
    <3>c. UNCHANGED app /\ (cb.pc # "start_output" => UNCHANGED cmds)
      BY <1>5, <2>2 DEF CbEffect, CbMoves, CbWrites
    <3>d. app'.pc = "init_set" =>
            /\ cmds' = <<>> /\ started' = {} /\ Returned("in")' /\ Returned("out")'
            /\ cb'.pc = "idle" \/ (cb'.pc = "write" /\ cb'.what = "ERROR")
      BY <1>4, <3>1, <3>a, <3>b, <3>c DEF DriverInv, Finishing
    <3>e. /\ ~Static("out") => cb'.pc \notin Finishing
          /\ cb'.pc \in {"reconfig", "start_output"} => "in" \in started /\ ~Encoder
          /\ cb'.pc \in {"output_started"} \cup Finishing => "out" \in started
          /\ cb'.pc \in {"answer", "event"} /\ cb'.what = "START_OUT" => "out" \in started
      BY <3>b DEF DriverInv, Finishing
    <3> QED BY <1>2, <3>a, <3>d, <3>e DEF DriverInv
  <2>3. CbMoves("idle", "answer") =>
          cb'.what = Head(cmds) /\ cmds # <<>> /\ Answerable(Head(cmds)) /\ Executed(Head(cmds))
    BY <1>5 DEF CbEffect, CbMoves, CbWrites, Finishing
  <2> QED BY <2>1, <2>2, <2>3
<1>6. CASE UNCHANGED ControlVars
  BY <1>2, <1>4, <1>6 DEF ControlVars, DriverInv
<1> QED BY <1>3, <1>5, <1>6, StepEffects

-----------------------------------------------------------------------------
(* An encoder becomes RUNNING by its start, and by nothing else. *)

EncoderCommands == {"LOAD", "RELEASE", "START_ALL", "STOP"}
Starting == {"start_reset", "start_call", "start_wait", "start_running", "start_fail"}
EncoderInv ==
  /\ cmds \in Seq(EncoderCommands)
  /\ cb.pc \in {"answer", "event"} => cb.what \in EncoderCommands
  /\ cb.pc \notin {"reconfig", "start_output", "output_started"} \cup Finishing
  /\ cb.pc = "write" => cb.what \in {"INITIAL", "READY", "RUNNING", "ERROR"}
  /\ state = "STARTING" => app.pc \in Starting
  /\ cb.pc = "write" /\ cb.what = "RUNNING" =>
       /\ state \in {"STARTING", "ERROR"}
       /\ \/ app.pc \in Starting \cup {"idle"}
          \/ app.pc \in {"deinit_free", "deinit_close", "deinit_fail"} /\ app.k = 0

LEMMA EncoderInit == Init => EncoderInv
<1>1. <<>> \in Seq(EncoderCommands)
  OBVIOUS
<1> QED BY <1>1 DEF Init, EncoderInv, NoCb, Finishing

LEMMA EncoderStep ==
  ASSUME TypeInv, EncoderInv, [Next]_vars, Encoder
  PROVE  EncoderInv'
<1>1. StartCommand = "START_ALL" /\ StopCommands = <<"STOP">>
  BY DEF StartCommand, StopCommands
<1>2. cmds \in Seq(EncoderCommands)
  BY DEF EncoderInv
<1>3. CASE CallEffect
  <2>1. CASE LocalMove /\ UNCHANGED <<session, started, cmds, cmdCompleted>>
    BY <1>3, <2>1 DEF CallEffect, LocalMove, Moves, Stays, Enters, Leaves, EncoderInv, Starting, CbIdle
  <2>4. CASE ResetMove /\ UNCHANGED <<session, started, cmds>>
    BY <1>3, <2>4 DEF CallEffect, ResetMove, Moves, Stays, EncoderInv, Starting
  <2>2. CASE CommandMove /\ UNCHANGED <<session, started, cmdCompleted>>
    <3>1. app.pc = "stop_call" => StopCommands[app.k] = "STOP"
      <4>1. app.pc = "stop_call" => app.k \in 1 .. 1
        BY <1>1 DEF TypeInv, AppInv, StopPcs
      <4>2. app.pc = "stop_call" => app.k = 1
        BY ONLY <4>1
      <4> QED BY <1>1, <4>2
    <3>2. \A c \in EncoderCommands : Append(cmds, c) \in Seq(EncoderCommands)
      BY <1>2
    <3>3. cmds' \in Seq(EncoderCommands)
      BY <1>1, <1>2, <2>2, <3>1, <3>2 DEF CommandMove, Sends, Stays, Moves, EncoderCommands
    <3> QED BY <1>3, <2>2, <3>3 DEF CallEffect, CommandMove, Sends, Moves, Stays, EncoderInv, Starting
  <2>3. CASE CloseMove
    <3>1. cmds' \in Seq(EncoderCommands)
      <4>1. cmds' = <<>>
        BY <2>3 DEF CloseMove
      <4> QED BY <4>1
    <3> QED BY <1>3, <2>3, <3>1
            DEF CallEffect, CloseMove, Moves, Stays, CbIdle, EncoderInv, Starting, Finishing
  <2> QED BY <1>3, <2>1, <2>2, <2>3, <2>4 DEF CallEffect
<1>4. CASE CbEffect
  <2>1. CASE CbMoves("idle", "answer") /\ cb'.what = Head(cmds) /\ cmds # <<>> /\ cmds' = Tail(cmds)
    <3>1. Head(cmds) \in EncoderCommands /\ Tail(cmds) \in Seq(EncoderCommands)
      BY <1>2, <2>1
    <3>2. UNCHANGED <<state, app>>
      BY <1>4, <2>1 DEF CbEffect, CbMoves, CbWrites
    <3> QED BY <2>1, <3>1, <3>2 DEF CbMoves, EncoderInv, Finishing
  <2>2. CASE CbWrites("event", NextState(cb.what))
    <3>1. cb.what \in EncoderCommands /\ UNCHANGED <<state, app, cmds>>
      BY <1>4, <2>2 DEF CbEffect, CbMoves, CbWrites, EncoderInv
    <3>2. /\ NextState(cb.what) = "RUNNING" => state = "STARTING"
          /\ NextState(cb.what) \in {"INITIAL", "READY", "RUNNING", "ERROR"}
      BY <3>1 DEF NextState, Transition, EncoderCommands
    <3> QED BY <2>2, <3>1, <3>2 DEF CbMoves, CbWrites, EncoderInv, Starting, Finishing
  <2>3. CASE CbMoves("write", "idle") /\ state' = cb.what
    <3>1. UNCHANGED <<app, cmds>> /\ state' # "STARTING"
      BY <1>4, <2>3 DEF CbEffect, CbMoves, CbWrites, EncoderInv
    <3> QED BY <2>3, <3>1 DEF CbMoves, EncoderInv, Finishing
  <2>4. CASE ~CbWrites("event", NextState(cb.what)) /\ ~CbMoves("write", "idle") /\ ~CbMoves("idle", "answer")
    <3>1. /\ UNCHANGED <<app, state, cmds>>
          /\ \/ cb'.pc \in {"idle", "done"}
             \/ cb.pc = "answer" /\ cb'.pc = "event" /\ cb'.what = cb.what
             \/ cb'.pc = "write" /\ cb'.what = "ERROR"
      BY <1>4, <2>4 DEF CbEffect, CbMoves, CbWrites, EncoderInv, EncoderCommands, Finishing
    <3> QED BY <3>1 DEF EncoderInv, Finishing
  <2>5. /\ CbMoves("write", "idle") => state' = cb.what
        /\ CbMoves("idle", "answer") => cb'.what = Head(cmds) /\ cmds # <<>> /\ cmds' = Tail(cmds)
    BY <1>4 DEF CbEffect, CbMoves, CbWrites, Finishing
  <2> QED BY <2>1, <2>2, <2>3, <2>4, <2>5
<1>5. CASE UNCHANGED ControlVars
  BY <1>5 DEF ControlVars, EncoderInv
<1> QED BY <1>3, <1>4, <1>5, StepEffects

-----------------------------------------------------------------------------
(* A decoder whose driver answers in time: a command of a call is listed,  *)
(* or being answered, only while that call waits for it - whatever a       *)
(* reconfiguration does to m_cmdCompleted in the meantime.                 *)

TimelyDecoder == ~Encoder /\ config.timely

Pending(c) == Listing(c) \/ (cb.pc = "answer" /\ cb.what = c)
CallsInv ==
  /\ cmds \in Seq(CallCommands \cup {"START_OUT"})
  /\ cb.pc \in {"answer", "event"} => cb.what \in CallCommands \cup {"START_OUT"}
  /\ \A c \in CallCommands : Pending(c) => app.pc \in Waiting /\ Awaited = c /\ cmdCompleted # c
  /\ app.pc \in Sending => cmdCompleted \notin CallCommands
  /\ OneCall
  /\ cb.pc = "answer" /\ cb.what \in CallCommands => \A c \in CallCommands : ~Listing(c)

\* The event of a command, up to the state it stores.
Eventful(c, s) == (cb.pc = "event" /\ cb.what = c) \/ (cb.pc = "write" /\ cb.what = s)
Loading   == Pending("LOAD") \/ Eventful("LOAD", "READY")
Unloading == Pending("RELEASE") \/ Eventful("RELEASE", "INITIAL")
Closing   == {"deinit_wait", "deinit_state", "deinit_free", "deinit_close", "deinit_fail"}
EventsInv ==
  /\ Eventful("LOAD", "READY") => ~Listing("LOAD")
  /\ Loading => app.pc \in {"init_wait", "init_ready"} /\ state # "READY"
  /\ app.pc \in {"init_open", "init_set", "init_reset", "init_load"} => state # "READY"
  /\ Eventful("RELEASE", "INITIAL") => ~Listing("RELEASE")
  /\ Unloading => app.pc \in {"deinit_wait", "deinit_state"} /\ state # "INITIAL"
  /\ app.pc \in {"init_open", "deinit_reset", "deinit_call"} => state # "INITIAL"
  /\ state = "INITIAL" => session = "CLOSED" \/ app.pc \in Closing
  /\ app.pc = "init_open" => session = "CLOSED"
  /\ app.pc = "fill" => state # "READY"

LEMMA CallsInit == Init => CallsInv /\ EventsInv
<1> SUFFICES ASSUME Init PROVE CallsInv /\ EventsInv
  OBVIOUS
<1>1. /\ state = "INITIAL" /\ session = "CLOSED" /\ cmds = <<>> /\ app.pc = "idle"
      /\ cb.pc = "idle"
  BY DEF Init, NoCb
<1>2. OneCall /\ \A c : ~Listing(c)
  BY <1>1, NothingListed
<1>3. <<>> \in Seq(CallCommands \cup {"START_OUT"})
  OBVIOUS
<1>4. CallsInv
  BY <1>1, <1>2, <1>3 DEF CallsInv, Pending, Sending
<1>5. EventsInv
  BY <1>1, <1>2 DEF EventsInv, Loading, Unloading, Pending, Eventful
<1> QED BY <1>4, <1>5

\* Which commands the calls of a decoder wait for.
LEMMA DecoderWaits ==
  ASSUME TypeInv, ~Encoder, app.pc \in Waiting
  PROVE  /\ Awaited \in CallCommands
         /\ app.pc = "init_wait" <=> Awaited = "LOAD"
         /\ app.pc = "start_wait" <=> Awaited = "START_IN"
         /\ app.pc = "deinit_wait" <=> Awaited = "RELEASE"
         /\ app.pc = "stop_wait" => Awaited = StopCommands[app.k]
<1>1. app.pc = "stop_wait" => app.k \in 1 .. 3 /\ StopCommands[app.k] \in {"DRAIN", "STOP_IN", "STOP_OUT"}
  <2>1. app.pc = "stop_wait" => app.k \in 1 .. Len(StopCommands)
    BY DEF TypeInv, AppInv, StopPcs
  <2>2. \A k \in 1 .. Len(StopCommands) : k \in 1 .. 3 /\ StopCommands[k] \in {"DRAIN", "STOP_IN", "STOP_OUT"}
    BY DEF StopCommands
  <2> QED BY <2>1, <2>2
<1>2. StartCommand = "START_IN"
  BY DEF StartCommand
<1> QED BY <1>1, <1>2, AwaitedValues DEF Waiting, CallCommands

\* A call that goes on has nothing pending.
LEMMA NothingPending ==
  ASSUME TypeInv, TimelyDecoder, CallsInv, LocalMove \/ app.pc \notin Waiting
  PROVE  \A c \in CallCommands : ~Pending(c)
<1> SUFFICES ASSUME NEW c \in CallCommands, Pending(c) PROVE FALSE
  OBVIOUS
<1>1. app.pc \in Waiting /\ Awaited = c /\ cmdCompleted # c
  BY DEF CallsInv
<1>2. ~GivesUp
  <2>1. cmds = <<>> => ~Listing(c)
    BY NothingListed
  <2> QED BY <2>1 DEF GivesUp, CbIdle, TimelyDecoder, Pending
<1> QED BY <1>1, <1>2, AwaitedValues DEF LocalMove, Moves, Stays, Enters, Leaves, Waiting

LEMMA CallsStep ==
  ASSUME TypeInv, TimelyDecoder, CallsInv, [Next]_vars
  PROVE  CallsInv'
<1>1. UNCHANGED <<config, Encoder, StartCommand, StopCommands>>
  BY StepEffects DEF Encoder, StartCommand, StopCommands
<1>2. cmds \in Seq(CallCommands \cup {"START_OUT"}) /\ cmds \in Seq(Commands)
  BY DEF CallsInv, TypeInv, MiscInv
<1>3. CASE CallEffect
  <2>1. CASE LocalMove /\ UNCHANGED <<session, started, cmds, cmdCompleted>>
    <3>1. \A c \in CallCommands : ~Pending(c)
      BY <2>1, NothingPending
    <3>2. \A c : UNCHANGED <<Pending(c), Listing(c)>>
      BY <1>3, <2>1 DEF CallEffect, Pending, Listing
    <3>3. UNCHANGED OneCall
      BY <2>1 DEF OneCall
    <3>4. app'.pc \notin Sending
      BY <2>1 DEF LocalMove, Moves, Stays, Enters, Leaves, Sending
    <3> QED BY <1>3, <2>1, <3>1, <3>2, <3>3, <3>4 DEF CallEffect, CallsInv
  <2>5. CASE ResetMove /\ UNCHANGED <<session, started, cmds>>
    <3>1. app.pc \notin Waiting /\ cmdCompleted' = "NONE" /\ UNCHANGED cb
      BY <1>3, <2>5 DEF ResetMove, Stays, Moves, Waiting, CallEffect
    <3>2. \A c \in CallCommands : ~Pending(c)
      BY <3>1, NothingPending
    <3>3. UNCHANGED OneCall /\ \A c : UNCHANGED <<Pending(c), Listing(c)>>
      BY <2>5, <3>1 DEF Pending, Listing, OneCall
    <3>4. "NONE" \notin CallCommands
      BY DEF CallCommands
    <3> QED BY <2>5, <3>1, <3>2, <3>3, <3>4 DEF CallsInv
  <2>2. CASE CloseMove
    <3>1. cmds' = <<>> /\ cb'.pc = "idle"
      BY <1>3, <2>2 DEF CloseMove, CallEffect, CbIdle
    <3>2. OneCall' /\ \A c : ~Listing(c)'
      <4>1. 1 .. Len(cmds') = {}
        BY <3>1
      <4> QED BY <4>1 DEF OneCall, Listing
    <3>3. cmds' \in Seq(CallCommands \cup {"START_OUT"})
      BY <3>1
    <3>4. app'.pc \notin Sending
      BY <2>2 DEF CloseMove, Stays, Moves, Sending
    <3> QED BY <3>1, <3>2, <3>3, <3>4 DEF CallsInv, Pending
  <2>3. ASSUME NEW p, NEW c \in CallCommands, NEW q, NEW r, Sends(p, c, q, r), p \in Sending,
               {q, r} \cap Sending = {}, UNCHANGED cmdCompleted,
               app'.pc = q => q \in Waiting /\ Awaited' = c
        PROVE  CallsInv'
    <3>a. app.pc = p /\ app'.pc \in {q, r}
      BY <2>3 DEF Sends, Stays, Moves
    <3>b. p \notin Waiting
      BY <2>3 DEF Sending, Waiting
    <3>c. app'.pc \notin Sending /\ cmdCompleted' \notin CallCommands
      BY <2>3, <3>a DEF CallsInv
    <3>1. (\A x \in CallCommands : ~Pending(x)) /\ UNCHANGED cb
      BY <1>3, <3>a, <3>b, NothingPending DEF CallEffect
    <3>2. CASE UNCHANGED cmds
      <4>1. UNCHANGED OneCall /\ \A x : UNCHANGED <<Pending(x), Listing(x)>>
        BY <3>1, <3>2 DEF Pending, Listing, OneCall
      <4> QED BY <3>1, <3>2, <3>c, <4>1 DEF CallsInv
    <3>3. CASE cmds' = Append(cmds, c) /\ app'.pc = q
      <4>1. OneCall' /\ \A x : Listing(x)' <=> Listing(x) \/ x = c
        BY <1>2, <3>1, <3>3, ListedLonger DEF Pending
      <4>2. cmds' \in Seq(CallCommands \cup {"START_OUT"})
        BY <1>2, <3>3
      <4>3. \A x \in CallCommands : Pending(x)' => x = c
        BY <3>1, <4>1 DEF Pending
      <4>4. cmdCompleted' # c
        BY <3>c
      <4>5. cb.pc = "answer" => cb.what \notin CallCommands
        BY <3>1 DEF Pending
      <4> QED BY <2>3, <3>1, <3>3, <3>c, <4>1, <4>2, <4>3, <4>4, <4>5 DEF CallsInv
    <3> QED BY <2>3, <3>2, <3>3 DEF Sends, Stays, Moves
  <2>4. CASE CommandMove /\ UNCHANGED <<session, started, cmdCompleted>>
    <3>1. StartCommand = "START_IN"
      BY DEF TimelyDecoder, StartCommand
    <3>2. app.pc = "stop_call" => StopCommands[app.k] \in CallCommands
      <4>1. app.pc = "stop_call" => app.k \in 1 .. Len(StopCommands)
        BY DEF TypeInv, AppInv, StopPcs
      <4>2. \A k \in 1 .. Len(StopCommands) : StopCommands[k] \in CallCommands
        BY DEF StopCommands, CallCommands, TimelyDecoder
      <4> QED BY <4>1, <4>2
    <3>3. /\ app'.pc = "init_wait" => Awaited' = "LOAD"
          /\ app'.pc = "start_wait" => Awaited' = StartCommand
          /\ app'.pc = "stop_wait" => Awaited' = StopCommands[app'.k]
          /\ app'.pc = "deinit_wait" => Awaited' = "RELEASE"
      BY <1>1 DEF Awaited
    <3>4. CASE Sends("init_load", "LOAD", "init_wait", "post_fail")
      BY <2>3, <2>4, <3>3, <3>4 DEF CallCommands, Waiting, Sending
    <3>5. CASE Sends("start_call", StartCommand, "start_wait", "start_fail")
      BY <2>3, <2>4, <3>1, <3>3, <3>5 DEF CallCommands, Waiting, Sending
    <3>6. CASE Sends("stop_call", StopCommands[app.k], "stop_wait", "stop_fail")
      <4>1. app.pc = "stop_call" /\ app'.k = app.k
        BY <3>6 DEF Sends, Stays, Moves
      <4>2. app'.pc = "stop_wait" => Awaited' = StopCommands[app.k]
        BY <3>3, <4>1
      <4> QED BY <2>3, <2>4, <3>2, <3>6, <4>1, <4>2 DEF Waiting, Sending
    <3>7. CASE Sends("deinit_call", "RELEASE", "deinit_wait", "deinit_fail")
      BY <2>3, <2>4, <3>3, <3>7 DEF CallCommands, Waiting, Sending
    <3> QED BY <2>4, <3>4, <3>5, <3>6, <3>7 DEF CommandMove
  <2> QED BY <1>3, <2>1, <2>2, <2>4, <2>5 DEF CallEffect
<1>4. ASSUME UNCHANGED app
      PROVE  app.pc \in Waiting => UNCHANGED Awaited
  BY <1>1, <1>4 DEF Awaited, Waiting
<1>5. CASE CbEffect
  <2>0. app.pc \in Waiting => UNCHANGED Awaited
    BY <1>4, <1>5 DEF CbEffect
  <2>1. CASE CbMoves("idle", "answer") /\ cb'.what = Head(cmds) /\ cmds # <<>> /\ cmds' = Tail(cmds)
    <3>1. UNCHANGED <<app, cmdCompleted>> /\ cb'.pc = "answer"
      BY <1>5, <2>1 DEF CbEffect, CbMoves, CbWrites
    <3>2. /\ \A x : Listing(x) <=> Listing(x)' \/ x = Head(cmds)
          /\ OneCall'
          /\ Head(cmds) \in CallCommands => \A x \in CallCommands : ~Listing(x)'
      BY <1>2, <2>1, ListedShorter DEF CallsInv
    <3>3. Head(cmds) \in CallCommands \cup {"START_OUT"} /\ cmds' \in Seq(CallCommands \cup {"START_OUT"})
      BY <1>2, <2>1
    <3>4. \A x \in CallCommands : Pending(x)' => Pending(x)
      BY <2>1, <3>1, <3>2 DEF Pending
    <3> QED BY <2>0, <2>1, <3>1, <3>2, <3>3, <3>4 DEF CallsInv
  <2>2. CASE cb.pc = "answer"
    <3>1. /\ UNCHANGED <<app, cmds>> /\ cmdCompleted' = cb.what /\ cb'.pc \in {"idle", "event"}
          /\ cb'.pc = "event" => cb'.what = cb.what
      BY <1>5, <2>2 DEF CbEffect, CbMoves, CbWrites, Finishing
    <3>2. UNCHANGED OneCall /\ \A x : UNCHANGED Listing(x)
      BY <3>1 DEF OneCall, Listing
    <3>3. \A x \in CallCommands : Pending(x)' => Listing(x) /\ Pending(x) /\ cb.what # x
      BY <2>2, <3>1, <3>2 DEF Pending, CallsInv
    <3>4. app.pc \in Sending => cb.what \notin CallCommands
      BY <2>2 DEF Pending, CallsInv, Sending, Waiting
    <3> QED BY <2>0, <2>2, <3>1, <3>2, <3>3, <3>4 DEF CallsInv
  <2>3. CASE CbMoves("start_output", "idle") /\ cmds' = Append(cmds, "START_OUT")
    <3>1. UNCHANGED app /\ cmdCompleted' = "NONE" /\ "START_OUT" \notin CallCommands /\ "NONE" \notin CallCommands
      BY <1>5, <2>3 DEF CbEffect, CbMoves, CbWrites, CallCommands, Finishing
    <3>2. OneCall' /\ \A x : Listing(x)' <=> Listing(x) \/ x = "START_OUT"
      BY <1>2, <2>3, <3>1, ListedLonger DEF CallsInv
    <3>3. cmds' \in Seq(CallCommands \cup {"START_OUT"})
      BY <1>2, <2>3
    <3>4. \A x \in CallCommands : Pending(x)' => Pending(x)
      BY <2>3, <3>1, <3>2 DEF Pending, CbMoves
    <3> QED BY <2>0, <2>3, <3>1, <3>2, <3>3, <3>4 DEF CallsInv, CbMoves
  <2>4. CASE ~CbMoves("idle", "answer") /\ cb.pc # "answer" /\ UNCHANGED cmds
    <3>1. /\ UNCHANGED app /\ cb'.pc # "answer" /\ cb'.pc # "event"
          /\ UNCHANGED cmdCompleted \/ cmdCompleted' = "NONE"
      BY <1>5, <2>4 DEF CbEffect, CbMoves, CbWrites, Finishing
    <3>2. UNCHANGED OneCall /\ \A x : UNCHANGED Listing(x)
      BY <2>4 DEF OneCall, Listing
    <3>3. \A x \in CallCommands : Pending(x)' => Pending(x) /\ x # "NONE"
      BY <2>4, <3>1, <3>2 DEF Pending, CallCommands
    <3>4. "NONE" \notin CallCommands
      BY DEF CallCommands
    <3> QED BY <2>0, <2>4, <3>1, <3>2, <3>3, <3>4 DEF CallsInv
  <2>5. /\ CbMoves("idle", "answer") => cb'.what = Head(cmds) /\ cmds # <<>> /\ cmds' = Tail(cmds)
        /\ CbMoves("start_output", "idle") \/ CbMoves("idle", "answer") \/ UNCHANGED cmds
        /\ CbMoves("start_output", "idle") => cmds' = Append(cmds, "START_OUT")
    BY <1>5 DEF CbEffect, CbMoves, CbWrites, Finishing
  <2> QED BY <2>1, <2>2, <2>3, <2>4, <2>5
<1>6. CASE UNCHANGED ControlVars
  <2>1. UNCHANGED <<cmds, cb, app, cmdCompleted>>
    BY <1>6 DEF ControlVars
  <2>2. UNCHANGED OneCall /\ \A x : UNCHANGED <<Listing(x), Pending(x)>>
    BY <2>1 DEF OneCall, Listing, Pending
  <2> QED BY <1>4, <2>1, <2>2 DEF CallsInv
<1> QED BY <1>3, <1>5, <1>6, StepEffects

LEMMA EventsStep ==
  ASSUME TypeInv, TimelyDecoder, DriverInv, CallsInv, CallsInv', EventsInv, [Next]_vars
  PROVE  EventsInv'
<1>1. UNCHANGED <<config, Encoder>>
  BY StepEffects DEF Encoder
<1>2. cmds \in Seq(Commands) /\ cmds \in Seq(CallCommands \cup {"START_OUT"})
  BY DEF CallsInv, TypeInv, MiscInv
<1>a. session = "CLOSED" => cb.pc = "idle" /\ cmds = <<>>
  BY DEF TypeInv, Closed, CbIdle
<1>3. CASE CallEffect
  <2>1. CASE LocalMove /\ UNCHANGED <<session, started, cmds, cmdCompleted>>
    <3>1. ~Pending("LOAD") /\ ~Pending("RELEASE")
      BY <2>1, NothingPending DEF CallCommands
    <3>2. \A c : UNCHANGED <<Listing(c), Pending(c)>>
      BY <1>3, <2>1 DEF CallEffect, Pending, Listing
    <3>3. \A c, s : UNCHANGED Eventful(c, s)
      BY <1>3 DEF CallEffect, Eventful
    <3>4. GivesUp => ~Eventful("LOAD", "READY") /\ ~Eventful("RELEASE", "INITIAL")
      BY DEF GivesUp, TimelyDecoder, CbIdle, Eventful
    <3>5. UNCHANGED <<Loading, Unloading>>
      BY <3>2, <3>3 DEF Loading, Unloading
    <3>6. /\ Loading' => Eventful("LOAD", "READY")
          /\ Unloading' => Eventful("RELEASE", "INITIAL")
          /\ ~Listing("LOAD")' /\ ~Listing("RELEASE")'
      BY <3>1, <3>2, <3>5 DEF Loading, Unloading, Pending
    <3>7. /\ Loading => app.pc \in {"init_wait", "init_ready"} /\ state # "READY" /\ ~GivesUp
          /\ Unloading => app.pc \in {"deinit_wait", "deinit_state"} /\ state # "INITIAL" /\ ~GivesUp
      BY <3>4, <3>5, <3>6 DEF EventsInv
    <3>8. Loading' => app'.pc \in {"init_wait", "init_ready"} /\ state' # "READY"
      BY <2>1, <3>5, <3>7 DEF LocalMove, Moves, Stays, Enters, Leaves
    <3>9. Unloading' => app'.pc \in {"deinit_wait", "deinit_state"} /\ state' # "INITIAL"
      BY <2>1, <3>5, <3>7 DEF LocalMove, Moves, Stays, Enters, Leaves
    <3>10. /\ app'.pc \in {"init_open", "init_set", "init_reset", "init_load"} => state' # "READY"
           /\ app'.pc \in {"init_open", "deinit_reset", "deinit_call"} => state' # "INITIAL"
           /\ app'.pc = "init_open" => session' = "CLOSED"
           /\ app'.pc = "fill" => state' # "READY"
      <4>1. app.pc = "fill_ioctl" => FALSE
        <5>1. ToFill = <<>>
          BY DEF ToFill, TimelyDecoder
        <5> QED BY <5>1 DEF TypeInv, AppInv
      <4> QED BY <2>1, <4>1 DEF LocalMove, Moves, Stays, Enters, Leaves, EventsInv, Closing
    <3>11. state' = "INITIAL" => session' = "CLOSED" \/ app'.pc \in Closing
      <4>1. app.pc = "deinit_end" => session = "CLOSED"
        BY DEF TypeInv, AppInv
      <4> QED BY <2>1, <4>1 DEF LocalMove, Moves, Stays, Enters, Leaves, EventsInv, Closing
    <3> QED BY <3>6, <3>8, <3>9, <3>10, <3>11 DEF EventsInv
  <2>2. CASE CloseMove
    <3>1. cmds' = <<>> /\ cb'.pc = "idle"
      BY <1>3, <2>2 DEF CloseMove, CallEffect, CbIdle
    <3>2. ~Listing("LOAD")' /\ ~Listing("RELEASE")'
      <4>1. 1 .. Len(cmds') = {}
        BY <3>1
      <4> QED BY <4>1 DEF Listing
    <3>3. ~Loading' /\ ~Unloading'
      BY <3>1, <3>2 DEF Loading, Unloading, Pending, Eventful
    <3> QED BY <2>2, <3>2, <3>3 DEF CloseMove, Moves, Stays, EventsInv, Closing
  <2>4. CASE ResetMove /\ UNCHANGED <<session, started, cmds>>
    <3>1. /\ app.pc \in {"init_reset", "start_reset", "stop_reset", "deinit_reset"}
          /\ app.pc = "init_reset" <=> app'.pc = "init_load"
          /\ app.pc = "deinit_reset" <=> app'.pc = "deinit_call"
          /\ app'.pc \in {"init_load", "start_call", "stop_call", "deinit_call"}
          /\ UNCHANGED state
      BY <2>4 DEF ResetMove, Stays, Moves
    <3>2. ~Loading /\ ~Unloading
      BY <3>1 DEF EventsInv
    <3>3. \A c, s : UNCHANGED <<Listing(c), Pending(c), Eventful(c, s)>>
      BY <1>3, <2>4 DEF CallEffect, Pending, Listing, Eventful
    <3>4. UNCHANGED <<Loading, Unloading>>
      BY <3>3 DEF Loading, Unloading
    <3>5. ~Eventful("LOAD", "READY")' /\ ~Eventful("RELEASE", "INITIAL")'
      BY <3>2, <3>4 DEF Loading, Unloading
    <3> QED BY <2>4, <3>1, <3>2, <3>4, <3>5 DEF EventsInv, Closing
  <2>3. CASE CommandMove /\ UNCHANGED <<session, started, cmdCompleted>>
    <3>1. app.pc \notin Waiting
      BY <2>3 DEF CommandMove, Sends, Stays, Moves, Waiting
    <3>2. ~Loading /\ ~Unloading
      BY <2>3 DEF CommandMove, Sends, Stays, Moves, EventsInv
    <3>3. /\ UNCHANGED <<cb, state>> /\ app'.pc \in {"init_wait", "post_fail", "start_wait", "start_fail",
               "stop_wait", "stop_fail", "deinit_wait", "deinit_fail"}
      BY <1>3, <2>3 DEF CallEffect, CommandMove, Sends, Stays, Moves
    <3>4. /\ app.pc = "init_load" => state # "READY"
          /\ app.pc = "deinit_call" => state # "INITIAL"
          /\ app'.pc = "init_wait" => app.pc = "init_load"
          /\ app'.pc \in {"deinit_wait", "deinit_fail"} <=> app.pc = "deinit_call"
      BY <2>3 DEF CommandMove, Sends, Stays, Moves, EventsInv
    <3>5. ~Eventful("LOAD", "READY")' /\ ~Eventful("RELEASE", "INITIAL")'
      BY <3>2, <3>3 DEF Loading, Unloading, Eventful
    <3>6. /\ Loading' => Pending("LOAD")'
          /\ Unloading' => Pending("RELEASE")'
      BY <3>5 DEF Loading, Unloading
    <3>7. /\ Pending("LOAD")' => app'.pc \in Waiting /\ Awaited' = "LOAD"
          /\ Pending("RELEASE")' => app'.pc \in Waiting /\ Awaited' = "RELEASE"
      BY DEF CallsInv, CallCommands
    <3>8. /\ app'.pc = "start_wait" => Awaited' = "START_IN"
          /\ app'.pc = "stop_wait" => Awaited' \notin {"LOAD", "RELEASE"}
          /\ app'.pc = "init_wait" => Awaited' = "LOAD"
          /\ app'.pc = "deinit_wait" => Awaited' = "RELEASE"
      <4>1. StartCommand' = "START_IN"
        BY <1>1 DEF StartCommand, TimelyDecoder
      <4>2. app'.pc = "stop_wait" => StopCommands'[app'.k] \notin {"LOAD", "RELEASE"}
        <5>1. app'.pc = "stop_wait" => app.pc = "stop_call" /\ app'.k = app.k
          BY <2>3 DEF CommandMove, Sends, Stays, Moves
        <5>2. app.pc = "stop_call" => app.k \in 1 .. Len(StopCommands)
          BY DEF TypeInv, AppInv, StopPcs
        <5>3. \A k \in 1 .. Len(StopCommands) : StopCommands[k] \notin {"LOAD", "RELEASE"}
          BY DEF StopCommands, TimelyDecoder
        <5>4. UNCHANGED StopCommands
          BY <1>1 DEF StopCommands
        <5> QED BY <5>1, <5>2, <5>3, <5>4
      <4> QED BY <4>1, <4>2 DEF Awaited
    <3>9. /\ Loading' => app'.pc = "init_wait"
          /\ Unloading' => app'.pc = "deinit_wait"
      BY <3>6, <3>7, <3>8 DEF Waiting
    <3>10. state' = "INITIAL" => session' = "CLOSED" \/ app'.pc \in Closing
      BY <2>3, <3>3, <3>4 DEF EventsInv, Closing, CommandMove, Sends, Stays, Moves
    <3> QED BY <3>3, <3>4, <3>5, <3>9, <3>10 DEF EventsInv
  <2> QED BY <1>3, <2>1, <2>2, <2>3, <2>4 DEF CallEffect
<1>4. CASE CbEffect
  <2>0. UNCHANGED app
    BY <1>4 DEF CbEffect
  <2>1. CASE CbMoves("idle", "answer") /\ cb'.what = Head(cmds) /\ cmds # <<>> /\ cmds' = Tail(cmds)
    <3>1. UNCHANGED state /\ cb'.pc = "answer" /\ Executed(Head(cmds))
      BY <1>4, <2>1 DEF CbEffect, CbMoves, CbWrites
    <3>2. \A x : Listing(x) <=> Listing(x)' \/ x = Head(cmds)
      BY <1>2, <2>1, ListedShorter
    <3>3. \A x : Pending(x)' => Pending(x)
      BY <2>1, <3>1, <3>2 DEF Pending
    <3>4. ~Eventful("LOAD", "READY")' /\ ~Eventful("RELEASE", "INITIAL")'
      BY <3>1 DEF Eventful
    <3>5. (Loading' => Loading) /\ (Unloading' => Unloading)
      BY <3>3, <3>4 DEF Loading, Unloading
    <3>6. session # "CLOSED"
      BY <1>a, <2>1
    <3> QED BY <2>0, <3>1, <3>4, <3>5, <3>6 DEF EventsInv
  <2>2. CASE cb.pc = "answer"
    <3>1. /\ UNCHANGED <<state, session, cmds>> /\ cb'.pc \in {"idle", "event"}
          /\ cb'.pc = "event" => cb'.what = cb.what
      BY <1>4, <2>2 DEF CbEffect, CbMoves, CbWrites, Finishing
    <3>2. \A x : UNCHANGED Listing(x)
      BY <3>1 DEF Listing
    <3>3. \A x : Pending(x)' => Pending(x)
      BY <2>2, <3>1, <3>2 DEF Pending
    <3>4. /\ Eventful("LOAD", "READY")' => Pending("LOAD") /\ ~Listing("LOAD")
          /\ Eventful("RELEASE", "INITIAL")' => Pending("RELEASE") /\ ~Listing("RELEASE")
      BY <2>2, <3>1 DEF Eventful, Pending, CallsInv, CallCommands
    <3>5. (Loading' => Loading) /\ (Unloading' => Unloading)
      BY <3>3, <3>4 DEF Loading, Unloading
    <3> QED BY <2>0, <3>1, <3>2, <3>4, <3>5 DEF EventsInv
  <2>3. CASE cb.pc = "event"
    <3>1. /\ UNCHANGED <<state, session, cmds>>
          /\ \/ cb'.pc = "output_started"
             \/ cb'.pc = "write" /\ cb'.what = NextState(cb.what)
      BY <1>4, <2>3 DEF CbEffect, CbMoves, CbWrites, Finishing
    <3>2. \A x : UNCHANGED Listing(x)
      BY <3>1 DEF Listing
    <3>3. \A x : Pending(x)' => Pending(x)
      BY <2>3, <3>1, <3>2 DEF Pending
    <3>4. /\ NextState(cb.what) = "READY" => cb.what = "LOAD"
          /\ NextState(cb.what) = "INITIAL" => cb.what = "RELEASE"
      BY <2>3 DEF NextState, Transition, CallsInv, CallCommands
    <3>5. /\ Eventful("LOAD", "READY")' => Eventful("LOAD", "READY")
          /\ Eventful("RELEASE", "INITIAL")' => Eventful("RELEASE", "INITIAL")
      BY <2>3, <3>1, <3>4 DEF Eventful
    <3>6. (Loading' => Loading) /\ (Unloading' => Unloading)
      BY <3>3, <3>5 DEF Loading, Unloading
    <3> QED BY <2>0, <3>1, <3>2, <3>5, <3>6 DEF EventsInv
  <2>4. CASE cb.pc = "write"
    <3>1. UNCHANGED <<session, cmds>> /\ state' = cb.what /\ cb'.pc = "idle"
      BY <1>4, <2>4 DEF CbEffect, CbMoves, CbWrites, Finishing
    <3>2. \A x : UNCHANGED Listing(x)
      BY <3>1 DEF Listing
    <3>3. \A x : Pending(x)' => Listing(x) /\ Pending(x)
      BY <3>1, <3>2 DEF Pending
    <3>4. ~Eventful("LOAD", "READY")' /\ ~Eventful("RELEASE", "INITIAL")'
      BY <3>1 DEF Eventful
    <3>5. /\ Loading' => Listing("LOAD") /\ Loading
          /\ Unloading' => Listing("RELEASE") /\ Unloading
      BY <3>3, <3>4 DEF Loading, Unloading
    <3>6. /\ state' = "READY" => Loading /\ ~Listing("LOAD")
          /\ state' = "INITIAL" => Unloading /\ ~Listing("RELEASE")
      BY <2>4, <3>1 DEF EventsInv, Eventful, Loading, Unloading
    <3>7. /\ state' = "READY" => ~Loading' /\ app.pc \in {"init_wait", "init_ready"}
          /\ state' = "INITIAL" => ~Unloading' /\ app.pc \in {"deinit_wait", "deinit_state"}
      BY <3>5, <3>6 DEF EventsInv
    <3> QED BY <2>0, <3>1, <3>4, <3>5, <3>7 DEF EventsInv, Closing
  <2>5. CASE ~CbMoves("idle", "answer") /\ cb.pc \notin {"answer", "event", "write"}
    <3>1. /\ UNCHANGED session /\ (UNCHANGED state \/ state' = "RUNNING")
          /\ cb'.pc \notin {"answer", "event"}
          /\ cb'.pc = "write" => cb'.what = "ERROR"
          /\ UNCHANGED cmds \/ cmds' = Append(cmds, "START_OUT")
      BY <1>4, <2>5 DEF CbEffect, CbMoves, CbWrites, Finishing
    <3>2. \A x : Listing(x)' => Listing(x) \/ x = "START_OUT"
      <4>1. UNCHANGED cmds => \A x : UNCHANGED Listing(x)
        BY DEF Listing
      <4> QED BY <1>2, <3>1, <4>1, ListedLonger
    <3>3. ~Eventful("LOAD", "READY")' /\ ~Eventful("RELEASE", "INITIAL")'
      BY <3>1 DEF Eventful
    <3>4. (Loading' => Loading) /\ (Unloading' => Unloading)
      BY <3>1, <3>2, <3>3 DEF Loading, Unloading, Pending
    <3> QED BY <2>0, <3>1, <3>3, <3>4 DEF EventsInv
  <2>6. CbMoves("idle", "answer") => cb'.what = Head(cmds) /\ cmds # <<>> /\ cmds' = Tail(cmds)
    BY <1>4 DEF CbEffect, CbMoves, CbWrites, Finishing
  <2> QED BY <2>1, <2>2, <2>3, <2>4, <2>5, <2>6
<1>5. CASE UNCHANGED ControlVars
  <2>1. UNCHANGED <<state, session, cmds, cb, app>>
    BY <1>5 DEF ControlVars
  <2>2. \A x : UNCHANGED <<Listing(x), Pending(x)>>
    BY <2>1 DEF Listing, Pending
  <2>3. (\A c, s : UNCHANGED Eventful(c, s)) /\ UNCHANGED <<Loading, Unloading>>
    BY <2>1, <2>2 DEF Eventful, Loading, Unloading
  <2> QED BY <2>1, <2>2, <2>3 DEF EventsInv
<1> QED BY <1>3, <1>4, <1>5, StepEffects

-----------------------------------------------------------------------------
(* While Initialize sets the buffers nobody submits any. *)

Calm == app.pc \in {"init_open", "init_set"} => Quiet /\ state # "RUNNING"

LEMMA CalmInit == Init => Calm
BY DEF Init, Calm

LEMMA CalmStep ==
  ASSUME TypeInv, DriverInv, Calm, [Next]_vars,
         Encoder => EncoderInv, ~Encoder => EventsInv
  PROVE  Calm'
<1>1. CASE Lifecycle
  <2>1. CallEffect
    BY <1>1, CallEffects
  <2>2. Quiet => Quiet'
    BY <2>1 DEF CallEffect, Quiet
  <2> QED BY <2>1, <2>2
          DEF CallEffect, LocalMove, CloseMove, CommandMove, ResetMove, Sends, Moves, Stays,
              Enters, Leaves, Calm
<1>2. CASE Callback \/ Device
  <2>1. CbEffect
    BY <1>2, CbEffects
  <2>2. UNCHANGED app /\ (Quiet => Quiet')
    BY <2>1 DEF CbEffect, Quiet
  <2>3. state' = "RUNNING" =>
          UNCHANGED state \/ (cb.pc = "write" /\ cb.what = "RUNNING") \/ cb.pc = "output_started"
    BY <2>1 DEF CbEffect, CbMoves, CbWrites
  <2>4. app.pc \in {"init_open", "init_set"} =>
          cb.pc # "output_started" /\ ~(cb.pc = "write" /\ cb.what = "RUNNING")
    <3>1. app.pc = "init_open" /\ ~Encoder => cb.pc = "idle"
      BY DEF EventsInv, TypeInv, Closed, CbIdle
    <3> QED BY <3>1 DEF DriverInv, EncoderInv, Starting
  <2> QED BY <2>2, <2>3, <2>4 DEF Calm
<1>3. ASSUME NEW w \in Workers, ProcessFrameDescriptor(w) PROVE Calm'
  <2>1. UNCHANGED <<app, state>>
    BY <1>3, WorkerControl DEF ControlVars
  <2>2. app.pc \in {"init_open", "init_set"} => ~ProcessFrameDescriptor(w)
    BY DEF Calm, Quiet, ProcessFrameDescriptor, Process_Begin, Submit_State, Submit_Slot,
       Submit_Ioctl, Idle
  <2> QED BY <1>3, <2>1, <2>2 DEF Calm
<1>4. CASE UNCHANGED vars
  BY <1>4 DEF vars, node, Calm, Quiet
<1> QED BY <1>1, <1>2, <1>3, <1>4 DEF Next

-----------------------------------------------------------------------------
(* Where a buffer is: with the driver, on its way back in the callback, or *)
(* on its way there with a callback, with Start or with a worker.          *)

InCb(d, b) == \/ cb.pc = "done" /\ cb.d = d /\ cb.k = b
              \/ cb.pc = "ioctl" /\ d = "out" /\ list["out"][cb.k] = b
InApp(d, b) == app.pc = "fill_ioctl" /\ d = "out" /\ ToFill[app.k + 1] = b
InWorker(w, d, b) == worker[w].pc = "ioctl" /\ worker[w].d = d /\ worker[w].b = b

NoWorker(d, b) == \A w \in Workers : ~InWorker(w, d, b)
Free(d, b)     == queued[d][b] = 0 /\ ~InCb(d, b) /\ ~InApp(d, b) /\ NoWorker(d, b)
AtDriver(d, b) == queued[d][b] = 1 /\ ~InCb(d, b) /\ ~InApp(d, b) /\ NoWorker(d, b)
AtCb(d, b)     == queued[d][b] = 0 /\ InCb(d, b)  /\ ~InApp(d, b) /\ NoWorker(d, b)
AtApp(d, b)    == queued[d][b] = 0 /\ ~InCb(d, b) /\ InApp(d, b)  /\ NoWorker(d, b)
AtWorker(v, d, b) ==
  queued[d][b] = 0 /\ ~InCb(d, b) /\ ~InApp(d, b)
  /\ \A w \in Workers : InWorker(w, d, b) <=> w = v
Placed(d, b) ==
  AtDriver(d, b) \/ AtCb(d, b) \/ AtApp(d, b) \/ \E v \in Workers : AtWorker(v, d, b)

\* It is in one place at most, and its flag says whether it is in one.
Here(d, b) ==
  /\ Free(d, b) \/ Placed(d, b)
  /\ b \notin used[d] => Free(d, b)
  /\ b \in used[d] /\ b \notin stuck[d] => Placed(d, b)
PlaceInv == \A d \in Dir : \A b \in Buffers(d) : Here(d, b)

SamePlace(d, b) ==
  /\ queued'[d][b] = queued[d][b]
  /\ InCb(d, b)' <=> InCb(d, b)
  /\ InApp(d, b)' <=> InApp(d, b)
  /\ \A w \in Workers : InWorker(w, d, b)' <=> InWorker(w, d, b)
SameFlags(d, b) ==
  /\ b \in used'[d] <=> b \in used[d]
  /\ b \in stuck'[d] <=> b \in stuck[d]

LEMMA PlacedNotFree ==
  ASSUME NEW d, NEW b, Placed(d, b)
  PROVE  ~Free(d, b)
BY DEF Placed, Free, AtDriver, AtCb, AtApp, AtWorker, NoWorker

LEMMA PlaceStays ==
  ASSUME NEW d, NEW b, SamePlace(d, b)
  PROVE  (Free(d, b)' <=> Free(d, b)) /\ (Placed(d, b)' <=> Placed(d, b))
<1>1. NoWorker(d, b)' <=> NoWorker(d, b)
  BY DEF SamePlace, NoWorker
<1>2. Free(d, b)' <=> Free(d, b)
  BY <1>1 DEF SamePlace, Free
<1>3. AtDriver(d, b)' <=> AtDriver(d, b)
  BY <1>1 DEF SamePlace, AtDriver
<1>4. AtCb(d, b)' <=> AtCb(d, b)
  BY <1>1 DEF SamePlace, AtCb
<1>5. AtApp(d, b)' <=> AtApp(d, b)
  BY <1>1 DEF SamePlace, AtApp
<1>6. \A v \in Workers : AtWorker(v, d, b)' <=> AtWorker(v, d, b)
  BY DEF SamePlace, AtWorker
<1> QED BY <1>2, <1>3, <1>4, <1>5, <1>6 DEF Placed

LEMMA HereStays ==
  ASSUME NEW d, NEW b, Here(d, b), SamePlace(d, b), SameFlags(d, b)
  PROVE  Here(d, b)'
BY PlaceStays DEF Here, SameFlags

\* The steps that move no buffer in the hands of Start, of a callback, of a worker.
LEMMA AppPlace ==
  ASSUME TypeInv, [Next]_vars, ~Start_Fill, ~Start_FillIoctl, NEW d, NEW b
  PROVE  InApp(d, b)' <=> InApp(d, b)
<1>1. Changes
  BY StepChanges
<1>2. CASE UNCHANGED app
  <2>1. CASE app.pc = "fill_ioctl"
    <3>1. ~ListStep
      BY <2>1 DEF ListStep, Initialize_Refuse, Initialize_BadConfig, Initialize_SetBuffer,
         Initialize_Fail, AppAt
    <3>2. UNCHANGED ToFill
      BY <1>1, <3>1 DEF Changes, ToFill, Encoder
    <3> QED BY <1>2, <3>2 DEF InApp
  <2> QED BY <1>2, <2>1 DEF InApp
<1>3. CASE Lifecycle
  <2>1. app.pc \notin {"fill", "fill_ioctl"}
    <3>1. ~Start \/ app.pc \notin {"fill", "fill_ioctl"}
      BY DEF Start, Start_Begin, Start_Call, Start_Wait, Start_Fail, AppAt
    <3>2. ~Initialize \/ app.pc \notin {"fill", "fill_ioctl"}
      BY DEF Initialize, Initialize_Refuse, Initialize_BadConfig, Initialize_Begin,
         Initialize_Open, Initialize_SetBuffer, Initialize_Load, Initialize_Wait,
         Initialize_PostFail, Initialize_Fail, Initialize_End, AppAt
    <3>3. ~Stop \/ app.pc \notin {"fill", "fill_ioctl"}
      BY DEF Stop, Stop_Begin, Stop_Call, Stop_Wait, Stop_Next, Stop_End, AppAt
    <3>4. ~DeInitialize \/ app.pc \notin {"fill", "fill_ioctl"}
      BY DEF DeInitialize, DeInitialize_Begin, DeInitialize_Call, DeInitialize_Wait,
         DeInitialize_Free, DeInitialize_Close, DeInitialize_End, AppAt
    <3>5. ~InitCmdCompleted \/ app.pc \notin {"fill", "fill_ioctl"}
      BY DEF InitCmdCompleted, Calling
    <3> QED BY <1>3, <3>1, <3>2, <3>3, <3>4, <3>5 DEF Lifecycle
  <2>2. app'.pc # "fill_ioctl"
    <3>1. CallEffect
      BY <1>3, CallEffects
    <3> QED BY <2>1, <3>1 DEF CallEffect, LocalMove, CloseMove, CommandMove, ResetMove, Sends,
              Moves, Stays, Enters, Leaves
  <2> QED BY <2>1, <2>2 DEF InApp
<1> QED BY <1>1, <1>2, <1>3 DEF Changes

LEMMA CbPlace ==
  ASSUME TypeInv, DriverInv, [Next]_vars, ~FrameDone, ~DoneStep, ~Finish_Slot, ~Finish_Ioctl,
         NEW d, NEW b
  PROVE  InCb(d, b)' <=> InCb(d, b)
<1>1. Changes
  BY StepChanges
<1>2. CASE UNCHANGED cb
  <2>1. CASE cb.pc = "ioctl"
    <3>1. ~CbIdle /\ state # "INITIAL" /\ app.pc \notin {"init_set", "init_fail"}
      BY <2>1 DEF CbIdle, TypeInv, CbInv, Finishing, OpeningInv, Opening, Barren
    <3>2. ~ListStep
      BY <3>1 DEF ListStep, Initialize_Refuse, Initialize_BadConfig, Initialize_SetBuffer,
         Initialize_Fail, AppAt
    <3> QED BY <1>1, <1>2, <3>2 DEF Changes, InCb
  <2> QED BY <1>2, <2>1 DEF InCb
<1>3. CASE Callback \/ Device
  <2>1. CbEffect
    BY <1>3, CbEffects
  <2>2. CASE cb.pc \notin {"idle", "done"} \cup Finishing
    <3>1. cb'.pc \notin {"done", "ioctl"}
      BY <2>1, <2>2 DEF CbEffect, CbMoves, CbWrites
    <3> QED BY <2>2, <3>1 DEF InCb, Finishing
  <2>3. CASE cb.pc = "idle"
    <3>1. Device_Answer \/ Device_Fatal \/ Device_Reconfig
      BY <1>3, <2>3 DEF Callback, Device, DoneStep, FrameDone, Answer, Event_Read, Event_Write,
         HandleOutputReconfig, Reconfig_StartOutput, Output_Started, FinishOutputReconfig,
         Finish_End, Finish_State, Finish_Slot, Finish_Ioctl
    <3>2. cb'.pc \in {"answer", "write", "reconfig"}
      BY <3>1 DEF Device_Answer, Device_Fatal, Device_Reconfig, NoCb
    <3> QED BY <2>3, <3>2 DEF InCb
  <2>4. CASE cb.pc \in {"done"} \cup Finishing
    <3>1. Finish_End \/ Finish_State
      BY <1>3, <2>4 DEF Callback, Device, DoneStep, FrameDone, Answer, Event_Read, Event_Write,
         HandleOutputReconfig, Reconfig_StartOutput, Output_Started, FinishOutputReconfig,
         Device_Answer, Device_Fatal, Device_Reconfig, CbIdle, Finishing
    <3>2. cb.pc = "state" /\ cb'.pc \in {"idle", "slot"}
      <4>1. cb' = NoCb => cb'.pc = "idle"
        BY DEF NoCb
      <4>2. cb' = [cb EXCEPT !.pc = "slot"] => cb'.pc = "slot"
        BY DEF TypeInv, CbInv
      <4> QED BY <3>1, <4>1, <4>2 DEF Finish_End, Finish_State, Finish_Break
    <3> QED BY <3>2 DEF InCb
  <2> QED BY <2>2, <2>3, <2>4 DEF Finishing
<1> QED BY <1>1, <1>2, <1>3 DEF Changes

LEMMA WorkerPlace ==
  ASSUME TypeInv, [Next]_vars, \A v \in Workers : ~Submit_Slot(v) /\ ~Submit_Ioctl(v),
         NEW w \in Workers, NEW d, NEW b
  PROVE  InWorker(w, d, b)' <=> InWorker(w, d, b)
<1>1. UNCHANGED worker \/ WorkerStep
  BY StepChanges DEF Changes
<1>2. CASE UNCHANGED worker
  BY <1>2 DEF InWorker
<1>3. ASSUME NEW v \in Workers, ProcessFrameDescriptor(v)
      PROVE  InWorker(w, d, b)' <=> InWorker(w, d, b)
  <2>1. worker = [u \in Workers |-> worker[u]] /\ WorkerInv(v) /\ WorkerInv(w)
    BY DEF TypeInv, WorkersOK
  <2>2. Process_Begin(v) \/ Submit_State(v)
    BY <1>3 DEF ProcessFrameDescriptor
  <2>3. worker[v].pc # "ioctl"
    BY <2>2 DEF Process_Begin, Submit_State, Idle
  <2>4. \E r : worker' = [worker EXCEPT ![v] = r] /\ r.pc # "ioctl"
    <3>1. CASE Process_Begin(v)
      <4>1. PICK in, out : worker' = [worker EXCEPT ![v] =
                             IF in # 0
                             THEN [pc |-> "slot", d |-> "in", b |-> in, next |-> out]
                             ELSE [pc |-> "slot", d |-> "out", b |-> out, next |-> 0]]
        BY <3>1 DEF Process_Begin
      <4> DEFINE r == IF in # 0 THEN [pc |-> "slot", d |-> "in", b |-> in, next |-> out]
                      ELSE [pc |-> "slot", d |-> "out", b |-> out, next |-> 0]
      <4>2. worker' = [worker EXCEPT ![v] = r] /\ r.pc # "ioctl"
        BY <4>1
      <4> HIDE DEF r
      <4> QED BY <4>2
    <3>2. CASE Submit_State(v)
      <4>1. CASE GiveUp(v)
        <5>1. worker' = [worker EXCEPT ![v] = Idle] /\ Idle.pc # "ioctl"
          BY <4>1 DEF GiveUp, Idle
        <5> QED BY <5>1
      <4>2. CASE worker' = [worker EXCEPT ![v].pc = "slot"]
        <5> DEFINE r == [worker[v] EXCEPT !.pc = "slot"]
        <5>1. worker' = [worker EXCEPT ![v] = r] /\ r.pc # "ioctl"
          BY <2>1, <4>2 DEF WorkerInv
        <5> HIDE DEF r
        <5> QED BY <5>1
      <4> QED BY <3>2, <4>1, <4>2 DEF Submit_State
    <3> QED BY <2>2, <3>1, <3>2
  <2>5. PICK r : worker' = [worker EXCEPT ![v] = r] /\ r.pc # "ioctl"
    BY <2>4
  <2>6. worker'[w] = IF w = v THEN r ELSE worker[w]
    BY <2>1, <2>5
  <2> QED BY <2>3, <2>5, <2>6 DEF InWorker
<1> QED BY <1>1, <1>2, <1>3 DEF WorkerStep

LEMMA QueuedAt ==
  ASSUME TypeInv, NEW e \in Dir, NEW c \in Buffers(e)
  PROVE  /\ Queue(e, c) => \A d \in Dir : \A b \in Buffers(d) :
              queued'[d][b] = IF d = e /\ b = c THEN queued[e][c] + 1 ELSE queued[d][b]
         /\ Device_Done(e, c) => \A d \in Dir : \A b \in Buffers(d) :
              queued'[d][b] = IF d = e /\ b = c THEN queued[e][c] - 1 ELSE queued[d][b]
<1>1. queued = [d \in Dir |-> queued[d]] /\ \A d \in Dir : queued[d] \in [Buffers(d) -> Nat]
  BY DEF TypeInv, QueuedOK
<1>2. ASSUME Queue(e, c)
      PROVE  \A d \in Dir : \A b \in Buffers(d) :
               queued'[d][b] = IF d = e /\ b = c THEN queued[e][c] + 1 ELSE queued[d][b]
  <2>1. \A d \in Dir : queued'[d] = IF d = e THEN [queued[e] EXCEPT ![c] = queued[e][c] + 1] ELSE queued[d]
    BY <1>1, <1>2 DEF Queue
  <2> QED BY <1>1, <2>1
<1>3. ASSUME Device_Done(e, c)
      PROVE  \A d \in Dir : \A b \in Buffers(d) :
               queued'[d][b] = IF d = e /\ b = c THEN queued[e][c] - 1 ELSE queued[d][b]
  <2>1. \A d \in Dir : queued'[d] = IF d = e THEN [queued[e] EXCEPT ![c] = queued[e][c] - 1] ELSE queued[d]
    BY <1>1, <1>3 DEF Device_Done
  <2> QED BY <1>1, <2>1
<1> QED BY <1>2, <1>3

\* The buffers the output reconfiguration is about to set are nowhere.
Kept(b) ==
  /\ b \notin client["out"] /\ queued["out"][b] = 0
  /\ ~(cb.pc = "done" /\ cb.d = "out" /\ cb.k = b)
  /\ \A w \in Workers : b \notin HeldBy(w, "out")
AllKept == \A b \in ToSet(list["out"]) : Kept(b)

LEMMA FillOnlyEncoder ==
  ASSUME TypeInv, app.pc = "fill_ioctl"
  PROVE  Encoder
<1>1. app.k \in Nat /\ app.k < Len(ToFill)
  BY DEF TypeInv, AppInv
<1> QED BY <1>1 DEF ToFill

\* A flag that is taken, a buffer that is sent, and one that is back.
LEMMA PlaceTaken ==
  ASSUME TypeInv, NEW e \in Dir, NEW c \in Buffers(e), Here(e, c), SlotFree(e, c), TakeSlot(e, c),
         queued'[e][c] = queued[e][c],
         \/ InCb(e, c)' /\ ~InApp(e, c)' /\ NoWorker(e, c)'
         \/ ~InCb(e, c)' /\ InApp(e, c)' /\ NoWorker(e, c)'
         \/ /\ ~InCb(e, c)' /\ ~InApp(e, c)'
            /\ \E v \in Workers : \A w \in Workers : InWorker(w, e, c)' <=> w = v
  PROVE  Here(e, c)'
<1>1. used[e] \subseteq map[e] /\ used' = [used EXCEPT ![e] = @ \cup {c}]
      /\ used = [d \in Dir |-> used[d]]
  BY DEF TypeInv, SlotsOK, SlotsInv, TakeSlot
<1>2. c \notin used[e]
  BY <1>1 DEF SlotFree
<1>3. queued'[e][c] = 0
  BY <1>2 DEF Here, Free
<1>4. Placed(e, c)'
  BY <1>3 DEF Placed, AtCb, AtApp, AtWorker
<1>5. c \in used'[e]
  BY <1>1
<1> QED BY <1>4, <1>5 DEF Here

LEMMA OthersUntaken ==
  ASSUME TypeInv, NEW e \in Dir, NEW c, TakeSlot(e, c), UNCHANGED stuck,
         NEW d \in Dir, NEW b, ~(d = e /\ b = c)
  PROVE  SameFlags(d, b)
<1>1. used = [x \in Dir |-> used[x]] /\ used' = [used EXCEPT ![e] = @ \cup {c}]
  BY DEF TypeInv, SlotsOK, TakeSlot
<1> QED BY <1>1 DEF SameFlags

LEMMA PlaceSent ==
  ASSUME TypeInv, NEW e \in Dir, NEW c \in Buffers(e), Here(e, c),
         Placed(e, c), queued[e][c] = 0,
         ~InCb(e, c)', ~InApp(e, c)', NoWorker(e, c)',
         \/ Queue(e, c) /\ UNCHANGED <<used, stuck>>
         \/ ResetSlot(e, c) /\ UNCHANGED queued
  PROVE  Here(e, c)'
<1>1. c \in used[e]
  BY PlacedNotFree DEF Here
<1>2. CASE Queue(e, c) /\ UNCHANGED <<used, stuck>>
  <2>2. queued'[e][c] = 1
    BY <1>2, QueuedAt
  <2>3. Placed(e, c)'
    BY <2>2 DEF Placed, AtDriver
  <2> QED BY <1>1, <1>2, <2>3 DEF Here
<1>3. CASE ResetSlot(e, c) /\ UNCHANGED queued
  <2>1. used = [x \in Dir |-> used[x]] /\ used' = [used EXCEPT ![e] = @ \ {c}]
    BY <1>3 DEF TypeInv, SlotsOK, ResetSlot
  <2>2. c \notin used'[e]
    BY <2>1
  <2>3. Free(e, c)'
    BY <1>3 DEF Free
  <2> QED BY <2>2, <2>3 DEF Here
<1> QED BY <1>2, <1>3

LEMMA OthersUnsent ==
  ASSUME TypeInv, NEW e \in Dir, NEW c \in Buffers(e),
         \/ Queue(e, c) /\ UNCHANGED <<used, stuck>>
         \/ ResetSlot(e, c) /\ UNCHANGED queued,
         NEW d \in Dir, NEW b \in Buffers(d), ~(d = e /\ b = c)
  PROVE  SameFlags(d, b) /\ queued'[d][b] = queued[d][b]
<1>1. CASE Queue(e, c) /\ UNCHANGED <<used, stuck>>
  <2> QED BY <1>1, QueuedAt DEF SameFlags
<1>2. CASE ResetSlot(e, c) /\ UNCHANGED queued
  <2>1. /\ used = [x \in Dir |-> used[x]] /\ used' = [used EXCEPT ![e] = @ \ {c}]
        /\ stuck = [x \in Dir |-> stuck[x]] /\ stuck' = [stuck EXCEPT ![e] = @ \ {c}]
    BY <1>2 DEF TypeInv, SlotsOK, ResetSlot
  <2> QED BY <1>2, <2>1 DEF SameFlags
<1> QED BY <1>1, <1>2

-----------------------------------------------------------------------------
(* Each kind of step. *)

LEMMA FillTakes ==
  ASSUME TypeInv, DriverInv, PlaceInv, Start_Fill, [Next]_vars
  PROVE  PlaceInv'
<1>1. UNCHANGED <<config, list, cb, worker, queued, stuck, ToFill>> /\ app.pc = "fill"
  BY StepChanges DEF Start_Fill, node, driver, history, Changes, AppAt, ToFill, Encoder
<1>2. app = [pc |-> app.pc, k |-> app.k]
  BY DEF TypeInv, AppInv
<1> SUFFICES ASSUME NEW d \in Dir, NEW b \in Buffers(d) PROVE Here(d, b)'
  BY <1>1 DEF PlaceInv, Buffers
<1>3. Here(d, b)
  BY DEF PlaceInv
<1>4. /\ InCb(d, b)' <=> InCb(d, b)
      /\ \A w \in Workers : InWorker(w, d, b)' <=> InWorker(w, d, b)
  BY <1>1 DEF InCb, InWorker
<1>5. CASE app'.pc # "fill_ioctl" /\ UNCHANGED slots
  <2>1. SamePlace(d, b) /\ SameFlags(d, b)
    BY <1>1, <1>4, <1>5 DEF SamePlace, SameFlags, InApp, slots
  <2> QED BY <1>3, <2>1, HereStays
<1>6. CASE /\ app.k < Len(ToFill) /\ SlotFree("out", ToFill[app.k + 1])
           /\ TakeSlot("out", ToFill[app.k + 1]) /\ app'.pc = "fill_ioctl" /\ app'.k = app.k
  <2>1. ToFill[app.k + 1] \in Buffers("out")
    BY <1>6, FillInHand DEF TypeInv, AppInv
  <2>2. InApp(d, b)' <=> d = "out" /\ b = ToFill[app.k + 1]
    BY <1>1, <1>6 DEF InApp
  <2>3. ~InApp(d, b)
    BY <1>1 DEF InApp
  <2>4. CASE d = "out" /\ b = ToFill[app.k + 1]
    <3>1. b \notin used[d]
      BY <1>6, <2>4 DEF SlotFree, TypeInv, SlotsOK, SlotsInv, Dir
    <3>2. Free(d, b)
      BY <1>3, <3>1 DEF Here
    <3>3. ~InCb(d, b)' /\ InApp(d, b)' /\ NoWorker(d, b)'
      BY <1>4, <2>2, <2>4, <3>2 DEF Free, NoWorker
    <3> QED BY <1>1, <1>3, <1>6, <2>4, <3>3, PlaceTaken
  <2>5. CASE ~(d = "out" /\ b = ToFill[app.k + 1])
    <3>1. SameFlags(d, b)
      BY <1>1, <1>6, <2>5, OthersUntaken DEF Dir
    <3>2. SamePlace(d, b)
      BY <1>1, <1>4, <2>2, <2>3, <2>5 DEF SamePlace
    <3> QED BY <1>3, <3>1, <3>2, HereStays
  <2> QED BY <2>4, <2>5
<1> QED
  <2>1. app' = [app EXCEPT !.pc = "idle", !.k = 0] => app'.pc = "idle"
    BY <1>2
  <2>2. app' = [app EXCEPT !.k = @ + 1] => app'.pc = "fill"
    BY <1>1, <1>2
  <2>3. Goto("fill_ioctl") => app'.pc = "fill_ioctl" /\ app'.k = app.k
    BY <1>2 DEF Goto
  <2> QED BY <1>5, <1>6, <2>1, <2>2, <2>3 DEF Start_Fill, slots

LEMMA FinishTakes ==
  ASSUME TypeInv, DriverInv, PlaceInv, Finish_Slot, [Next]_vars
  PROVE  PlaceInv'
<1>1. UNCHANGED <<config, list, app, worker, queued, stuck, ToFill>> /\ cb.pc = "slot"
  BY StepChanges DEF Finish_Slot, node, driver, history, Changes, ToFill, Encoder
<1>2. cb = [pc |-> cb.pc, d |-> cb.d, k |-> cb.k, what |-> cb.what]
  BY DEF TypeInv, CbInv
<1> SUFFICES ASSUME NEW d \in Dir, NEW b \in Buffers(d) PROVE Here(d, b)'
  BY <1>1 DEF PlaceInv, Buffers
<1>3. Here(d, b)
  BY DEF PlaceInv
<1>4. /\ InApp(d, b)' <=> InApp(d, b)
      /\ \A w \in Workers : InWorker(w, d, b)' <=> InWorker(w, d, b)
  BY <1>1 DEF InApp, InWorker
<1>5. CASE Finish_Break /\ UNCHANGED slots
  <2>1. cb'.pc = "idle"
    BY <1>5 DEF Finish_Break, NoCb
  <2>2. SamePlace(d, b) /\ SameFlags(d, b)
    BY <1>1, <1>4, <1>5, <2>1 DEF SamePlace, SameFlags, InCb, slots
  <2> QED BY <1>3, <2>2, HereStays
<1>6. CASE SlotFree("out", ListedOutput) /\ TakeSlot("out", ListedOutput) /\ cb' = [cb EXCEPT !.pc = "ioctl"]
  <2>1. ListedOutput \in Buffers("out")
    BY <1>1, ListedInHand DEF TypeInv
  <2>a. cb'.pc = "ioctl" /\ cb'.k = cb.k
    BY <1>2, <1>6
  <2>2. InCb(d, b)' <=> d = "out" /\ b = ListedOutput
    BY <1>1, <2>a DEF InCb, ListedOutput
  <2>3. ~InCb(d, b)
    BY <1>1 DEF InCb
  <2>4. CASE d = "out" /\ b = ListedOutput
    <3>1. b \notin used[d]
      BY <1>6, <2>4 DEF SlotFree, TypeInv, SlotsOK, SlotsInv, Dir
    <3>2. Free(d, b)
      BY <1>3, <3>1 DEF Here
    <3>3. InCb(d, b)' /\ ~InApp(d, b)' /\ NoWorker(d, b)'
      BY <1>4, <2>2, <2>4, <3>2 DEF Free, NoWorker
    <3> QED BY <1>1, <1>3, <1>6, <2>4, <3>3, PlaceTaken
  <2>5. CASE ~(d = "out" /\ b = ListedOutput)
    <3>1. SameFlags(d, b)
      BY <1>1, <1>6, <2>5, OthersUntaken DEF Dir
    <3>2. SamePlace(d, b)
      BY <1>1, <1>4, <2>2, <2>3, <2>5 DEF SamePlace
    <3> QED BY <1>3, <3>1, <3>2, HereStays
  <2> QED BY <2>4, <2>5
<1> QED BY <1>5, <1>6 DEF Finish_Slot, slots

\* What a worker holds after a step of its own.
LEMMA WorkerMoves ==
  ASSUME TypeInv, NEW v \in Workers, NEW d, NEW b
  PROVE  \A r : worker' = [worker EXCEPT ![v] = r] =>
           /\ InWorker(v, d, b)' <=> r.pc = "ioctl" /\ r.d = d /\ r.b = b
           /\ \A w \in Workers \ {v} : InWorker(w, d, b)' <=> InWorker(w, d, b)
<1> SUFFICES ASSUME NEW r, worker' = [worker EXCEPT ![v] = r]
             PROVE  /\ InWorker(v, d, b)' <=> r.pc = "ioctl" /\ r.d = d /\ r.b = b
                    /\ \A w \in Workers \ {v} : InWorker(w, d, b)' <=> InWorker(w, d, b)
  OBVIOUS
<1>1. worker = [u \in Workers |-> worker[u]]
  BY DEF TypeInv, WorkersOK
<1>2. \A w \in Workers : worker'[w] = IF w = v THEN r ELSE worker[w]
  BY <1>1
<1> QED BY <1>2 DEF InWorker

LEMMA WorkerTakes ==
  ASSUME TypeInv, DriverInv, PlaceInv, NEW v \in Workers, Submit_Slot(v), [Next]_vars
  PROVE  PlaceInv'
<1>1. UNCHANGED <<config, list, app, cb, queued, stuck, ToFill>> /\ worker[v].pc = "slot"
  BY StepChanges DEF Submit_Slot, node, driver, history, Changes, ToFill, Encoder
<1>2. WorkerInv(v)
  BY DEF TypeInv, WorkersOK
<1> SUFFICES ASSUME NEW d \in Dir, NEW b \in Buffers(d) PROVE Here(d, b)'
  BY <1>1 DEF PlaceInv, Buffers
<1>3. Here(d, b)
  BY DEF PlaceInv
<1>4. /\ InApp(d, b)' <=> InApp(d, b)
      /\ InCb(d, b)' <=> InCb(d, b)
      /\ ~InWorker(v, d, b)
  BY <1>1 DEF InApp, InCb, InWorker
<1>5. CASE GiveUp(v) /\ UNCHANGED slots
  <2>1. worker' = [worker EXCEPT ![v] = Idle] /\ Idle.pc = "idle"
    BY <1>5 DEF GiveUp, Idle
  <2>2. \A w \in Workers : InWorker(w, d, b)' <=> InWorker(w, d, b)
    BY <1>4, <2>1, WorkerMoves
  <2>3. SamePlace(d, b) /\ SameFlags(d, b)
    BY <1>1, <1>4, <1>5, <2>2 DEF SamePlace, SameFlags, slots
  <2> QED BY <1>3, <2>3, HereStays
<1>6. CASE /\ SlotFree(worker[v].d, worker[v].b) /\ TakeSlot(worker[v].d, worker[v].b)
           /\ worker' = [worker EXCEPT ![v].pc = "ioctl"]
  <2> DEFINE e == worker[v].d
             c == worker[v].b
             r == [worker[v] EXCEPT !.pc = "ioctl"]
  <2>1. e \in Dir /\ c \in Buffers(e)
    BY <1>1, WorkerInHand DEF TypeInv
  <2>2. worker' = [worker EXCEPT ![v] = r] /\ r.pc = "ioctl" /\ r.d = e /\ r.b = c
    BY <1>2, <1>6 DEF WorkerInv
  <2>3. /\ InWorker(v, d, b)' <=> d = e /\ b = c
        /\ \A w \in Workers \ {v} : InWorker(w, d, b)' <=> InWorker(w, d, b)
    <3>1. /\ InWorker(v, d, b)' <=> r.pc = "ioctl" /\ r.d = d /\ r.b = b
          /\ \A w \in Workers \ {v} : InWorker(w, d, b)' <=> InWorker(w, d, b)
      <4> HIDE DEF r
      <4> QED BY <2>2, WorkerMoves, Zenon
    <3>2. r.pc = "ioctl" /\ r.d = e /\ r.b = c
      BY <2>2
    <3> HIDE DEF r
    <3> QED BY <3>1, <3>2
  <2>4. SlotFree(e, c) /\ TakeSlot(e, c)
    BY <1>6
  <2> HIDE DEF e, c, r
  <2>5. CASE d = e /\ b = c
    <3>1. b \notin used[d]
      BY <2>1, <2>4, <2>5 DEF SlotFree, TypeInv, SlotsOK, SlotsInv
    <3>2. Free(d, b)
      BY <1>3, <3>1 DEF Here
    <3>3. ~InCb(d, b)' /\ ~InApp(d, b)' /\ \A w \in Workers : InWorker(w, d, b)' <=> w = v
      BY <1>4, <2>3, <2>5, <3>2 DEF Free, NoWorker
    <3> QED BY <1>1, <1>3, <2>4, <2>5, <3>3, PlaceTaken
  <2>6. CASE ~(d = e /\ b = c)
    <3>1. SameFlags(d, b)
      BY <1>1, <2>1, <2>4, <2>6, OthersUntaken
    <3>2. SamePlace(d, b)
      BY <1>1, <1>4, <2>3, <2>6 DEF SamePlace
    <3> QED BY <1>3, <3>1, <3>2, HereStays
  <2> QED BY <2>5, <2>6
<1> QED BY <1>5, <1>6 DEF Submit_Slot, slots

LEMMA FillSends ==
  ASSUME TypeInv, DriverInv, PlaceInv, Start_FillIoctl, [Next]_vars
  PROVE  PlaceInv'
<1> DEFINE c == ToFill[app.k + 1]
<1>1. UNCHANGED <<config, list, cb, worker>> /\ app.pc = "fill_ioctl"
  BY StepChanges DEF Start_FillIoctl, node, Changes, AppAt
<1>2. c \in Buffers("out") /\ app'.pc = "fill"
  <2>1. app = [pc |-> app.pc, k |-> app.k] /\ app' = [app EXCEPT !.pc = "fill", !.k = @ + 1]
    BY DEF TypeInv, AppInv, Start_FillIoctl
  <2> QED BY <1>1, <2>1, FillInHand DEF TypeInv, AppInv
<1>3. \/ Queue("out", c) /\ UNCHANGED <<used, stuck>>
      \/ ResetSlot("out", c) /\ UNCHANGED queued
  BY DEF Start_FillIoctl, SubmitFrame, slots
<1> SUFFICES ASSUME NEW d \in Dir, NEW b \in Buffers(d) PROVE Here(d, b)'
  BY <1>1 DEF PlaceInv, Buffers
<1>4. Here(d, b)
  BY DEF PlaceInv
<1>5. /\ InApp(d, b) <=> d = "out" /\ b = c
      /\ ~InApp(d, b)'
      /\ InCb(d, b)' <=> InCb(d, b)
      /\ \A w \in Workers : InWorker(w, d, b)' <=> InWorker(w, d, b)
  BY <1>1, <1>2 DEF InApp, InCb, InWorker
<1> HIDE DEF c
<1>6. CASE d = "out" /\ b = c
  <2>1. Placed(d, b)
    BY <1>4, <1>5, <1>6 DEF Here, Free
  <2>2. AtApp(d, b)
    BY <1>5, <1>6, <2>1 DEF Placed, AtDriver, AtCb, AtApp, AtWorker
  <2>3. queued[d][b] = 0 /\ ~InCb(d, b)' /\ NoWorker(d, b)'
    BY <1>5, <2>2 DEF AtApp, NoWorker
  <2> QED BY <1>3, <1>4, <1>5, <1>6, <2>1, <2>3, PlaceSent
<1>7. CASE ~(d = "out" /\ b = c)
  <2>1. SameFlags(d, b) /\ queued'[d][b] = queued[d][b]
    BY <1>2, <1>3, <1>7, OthersUnsent DEF Dir
  <2>2. SamePlace(d, b)
    BY <1>5, <1>7, <2>1 DEF SamePlace
  <2> QED BY <1>4, <2>1, <2>2, HereStays
<1> QED BY <1>6, <1>7

LEMMA FinishSends ==
  ASSUME TypeInv, DriverInv, PlaceInv, Finish_Ioctl, [Next]_vars
  PROVE  PlaceInv'
<1> DEFINE c == ListedOutput
<1>1. UNCHANGED <<config, list, app, worker, ToFill>> /\ cb.pc = "ioctl"
  BY StepChanges DEF Finish_Ioctl, node, Changes, ToFill, Encoder
<1>2. c \in Buffers("out") /\ cb'.pc \in {"idle", "state"}
  <2>1. cb = [pc |-> cb.pc, d |-> cb.d, k |-> cb.k, what |-> cb.what]
    BY DEF TypeInv, CbInv
  <2>2. cb' = NoCb => cb'.pc = "idle"
    BY DEF NoCb
  <2>3. cb' = [cb EXCEPT !.pc = "state", !.k = @ + 1] => cb'.pc = "state"
    BY <2>1
  <2>4. cb'.pc \in {"idle", "state"}
    BY <2>2, <2>3 DEF Finish_Ioctl, Finish_Break
  <2> QED BY <1>1, <2>4, ListedInHand DEF TypeInv
<1>3. \/ Queue("out", c) /\ UNCHANGED <<used, stuck>>
      \/ ResetSlot("out", c) /\ UNCHANGED queued
  BY DEF Finish_Ioctl, slots
<1> SUFFICES ASSUME NEW d \in Dir, NEW b \in Buffers(d) PROVE Here(d, b)'
  BY <1>1 DEF PlaceInv, Buffers
<1>4. Here(d, b)
  BY DEF PlaceInv
<1>5. /\ InCb(d, b) <=> d = "out" /\ b = c
      /\ ~InCb(d, b)'
      /\ InApp(d, b)' <=> InApp(d, b)
      /\ \A w \in Workers : InWorker(w, d, b)' <=> InWorker(w, d, b)
  BY <1>1, <1>2 DEF InApp, InCb, InWorker, ListedOutput
<1> HIDE DEF c
<1>6. CASE d = "out" /\ b = c
  <2>1. Placed(d, b)
    BY <1>4, <1>5, <1>6 DEF Here, Free
  <2>2. AtCb(d, b)
    BY <1>5, <1>6, <2>1 DEF Placed, AtDriver, AtCb, AtApp, AtWorker
  <2>3. queued[d][b] = 0 /\ ~InApp(d, b)' /\ NoWorker(d, b)'
    BY <1>5, <2>2 DEF AtCb, NoWorker
  <2> QED BY <1>3, <1>4, <1>5, <1>6, <2>1, <2>3, PlaceSent
<1>7. CASE ~(d = "out" /\ b = c)
  <2>1. SameFlags(d, b) /\ queued'[d][b] = queued[d][b]
    BY <1>2, <1>3, <1>7, OthersUnsent DEF Dir
  <2>2. SamePlace(d, b)
    BY <1>5, <1>7, <2>1 DEF SamePlace
  <2> QED BY <1>4, <2>1, <2>2, HereStays
<1> QED BY <1>6, <1>7

LEMMA WorkerSends ==
  ASSUME TypeInv, DriverInv, PlaceInv, NEW v \in Workers, Submit_Ioctl(v), [Next]_vars
  PROVE  PlaceInv'
<1> DEFINE e == worker[v].d
           c == worker[v].b
<1>1. UNCHANGED <<config, list, app, cb, ToFill>> /\ worker[v].pc = "ioctl"
  BY StepChanges DEF Submit_Ioctl, node, Changes, ToFill, Encoder
<1>2. e \in Dir /\ c \in Buffers(e)
  BY <1>1, WorkerInHand DEF TypeInv
<1>3. \/ Queue(e, c) /\ UNCHANGED <<used, stuck>>
      \/ ResetSlot(e, c) /\ UNCHANGED queued
  BY DEF Submit_Ioctl, slots
<1>a. \E r : worker' = [worker EXCEPT ![v] = r] /\ r.pc # "ioctl"
  <2>1. worker' = [worker EXCEPT ![v] = Following(v)] \/ worker' = [worker EXCEPT ![v] = Idle]
    BY DEF Submit_Ioctl, GiveUp
  <2>2. Following(v).pc # "ioctl" /\ Idle.pc # "ioctl"
    BY DEF Following, Idle
  <2> QED BY <2>1, <2>2, Zenon
<1> SUFFICES ASSUME NEW d \in Dir, NEW b \in Buffers(d) PROVE Here(d, b)'
  BY <1>1 DEF PlaceInv, Buffers
<1>4. Here(d, b)
  BY DEF PlaceInv
<1>b. PICK r : worker' = [worker EXCEPT ![v] = r] /\ r.pc # "ioctl"
  BY <1>a
<1>5. /\ InWorker(v, d, b) <=> d = e /\ b = c
      /\ ~InWorker(v, d, b)'
      /\ \A w \in Workers \ {v} : InWorker(w, d, b)' <=> InWorker(w, d, b)
  <2>1. /\ InWorker(v, d, b)' <=> r.pc = "ioctl" /\ r.d = d /\ r.b = b
        /\ \A w \in Workers \ {v} : InWorker(w, d, b)' <=> InWorker(w, d, b)
    BY <1>b, WorkerMoves, Zenon
  <2> QED BY <1>1, <1>b, <2>1 DEF InWorker
<1>c. /\ InApp(d, b)' <=> InApp(d, b)
      /\ InCb(d, b)' <=> InCb(d, b)
  BY <1>1 DEF InApp, InCb
<1> HIDE DEF e, c
<1>6. CASE d = e /\ b = c
  <2>1. Placed(d, b)
    BY <1>4, <1>5, <1>6 DEF Here, Free, NoWorker
  <2>2. PICK u \in Workers : AtWorker(u, d, b)
    BY <1>5, <1>6, <2>1 DEF Placed, AtDriver, AtCb, AtApp, NoWorker
  <2>3. \A w \in Workers : InWorker(w, d, b) <=> w = v
    BY <1>5, <1>6, <2>2 DEF AtWorker
  <2>4. queued[d][b] = 0 /\ ~InApp(d, b)' /\ ~InCb(d, b)' /\ NoWorker(d, b)'
    BY <1>5, <1>c, <2>2, <2>3 DEF AtWorker, NoWorker
  <2> QED BY <1>3, <1>4, <1>6, <2>1, <2>4, PlaceSent
<1>7. CASE ~(d = e /\ b = c)
  <2>1. SameFlags(d, b) /\ queued'[d][b] = queued[d][b]
    BY <1>2, <1>3, <1>7, OthersUnsent
  <2>2. SamePlace(d, b)
    BY <1>5, <1>7, <1>c, <2>1 DEF SamePlace
  <2> QED BY <1>4, <2>1, <2>2, HereStays
<1> QED BY <1>6, <1>7

LEMMA DriverReturns ==
  ASSUME TypeInv, PlaceInv, NEW e \in Dir, NEW c \in Buffers(e), Device_Done(e, c), [Next]_vars
  PROVE  PlaceInv'
<1>1. /\ UNCHANGED <<config, list, app, worker, used, stuck, ToFill>> /\ cb.pc = "idle"
      /\ cb'.pc = "done" /\ cb'.d = e /\ cb'.k = c
      /\ queued[e][c] > 0 /\ queued' = [queued EXCEPT ![e][c] = queued[e][c] - 1]
  BY StepChanges DEF Device_Done, node, slots, history, CbIdle, Changes, ToFill, Encoder
<1> SUFFICES ASSUME NEW d \in Dir, NEW b \in Buffers(d) PROVE Here(d, b)'
  BY <1>1 DEF PlaceInv, Buffers
<1>2. Here(d, b) /\ queued'[d][b] = IF d = e /\ b = c THEN queued[e][c] - 1 ELSE queued[d][b]
  BY QueuedAt DEF PlaceInv
<1>3. /\ ~InCb(d, b) /\ (InCb(d, b)' <=> d = e /\ b = c)
      /\ InApp(d, b)' <=> InApp(d, b)
      /\ \A w \in Workers : InWorker(w, d, b)' <=> InWorker(w, d, b)
  BY <1>1 DEF InApp, InCb, InWorker
<1>4. CASE d = e /\ b = c
  <2>1. ~Free(d, b)
    BY <1>1, <1>4 DEF Free
  <2>2. AtDriver(d, b)
    BY <1>1, <1>2, <1>4, <2>1 DEF Here, Placed, AtCb, AtApp, AtWorker
  <2>3. AtCb(d, b)'
    BY <1>2, <1>3, <1>4, <2>2 DEF AtDriver, AtCb, NoWorker
  <2>4. b \in used'[d]
    BY <1>1, <1>2, <2>1 DEF Here
  <2> QED BY <2>3, <2>4 DEF Here, Placed
<1>5. CASE ~(d = e /\ b = c)
  <2>1. SamePlace(d, b) /\ SameFlags(d, b)
    BY <1>1, <1>2, <1>3, <1>5 DEF SamePlace, SameFlags
  <2> QED BY <1>2, <2>1, HereStays
<1> QED BY <1>4, <1>5

LEMMA BufferBack ==
  ASSUME TypeInv, PlaceInv, FrameDone, [Next]_vars
  PROVE  PlaceInv'
<1>1. /\ UNCHANGED <<config, list, app, worker, queued, ToFill>> /\ cb.pc = "done"
      /\ cb'.pc = "idle"
  BY StepChanges DEF FrameDone, node, driver, NoCb, Changes, ToFill, Encoder
<1>2. cb.d \in Dir /\ used = [d \in Dir |-> used[d]] /\ stuck = [d \in Dir |-> stuck[d]]
  BY DEF TypeInv, CbInv, SlotsOK
<1>a. \/ /\ used' = [used EXCEPT ![cb.d] = @ \ {cb.k}]
         /\ stuck' = [stuck EXCEPT ![cb.d] = @ \ {cb.k}]
      \/ /\ UNCHANGED used
         /\ stuck' = [stuck EXCEPT ![cb.d] = @ \cup ({cb.k} \cap used[cb.d])]
  BY DEF FrameDone, ResetSlot, slots
<1> SUFFICES ASSUME NEW d \in Dir, NEW b \in Buffers(d) PROVE Here(d, b)'
  BY <1>1 DEF PlaceInv, Buffers
<1>3. Here(d, b)
  BY DEF PlaceInv
<1>4. /\ ~InCb(d, b)' /\ (InCb(d, b) <=> d = cb.d /\ b = cb.k)
      /\ InApp(d, b)' <=> InApp(d, b)
      /\ \A w \in Workers : InWorker(w, d, b)' <=> InWorker(w, d, b)
  BY <1>1 DEF InApp, InCb, InWorker
<1>5. CASE d = cb.d /\ b = cb.k
  <2>1. AtCb(d, b)
    BY <1>3, <1>4, <1>5 DEF Here, Free, Placed, AtDriver, AtCb, AtApp, AtWorker
  <2>2. Free(d, b)'
    BY <1>1, <1>4, <2>1 DEF AtCb, Free, NoWorker
  <2>3. b \notin used'[d] \/ b \in stuck'[d]
    BY <1>2, <1>a, <1>5
  <2> QED BY <2>2, <2>3 DEF Here
<1>6. CASE ~(d = cb.d /\ b = cb.k)
  <2>1. SameFlags(d, b)
    BY <1>2, <1>a, <1>6 DEF SameFlags
  <2>2. SamePlace(d, b)
    BY <1>1, <1>4, <1>6 DEF SamePlace
  <2> QED BY <1>3, <2>1, <2>2, HereStays
<1> QED BY <1>5, <1>6

LEMMA SessionGone ==
  ASSUME TypeInv, PlaceInv, CloseStep, [Next]_vars
  PROVE  PlaceInv'
<1>1. /\ UNCHANGED <<config, cb, worker, used>> /\ cb.pc = "idle" /\ queued' = Nothing
      /\ stuck' = used
  BY StepChanges DEF CloseStep, Initialize_Open, DeInitialize_Close, CloseDriver,
     EndSession, CbIdle, slots, Changes
<1>2. app.pc # "fill_ioctl" /\ app'.pc # "fill_ioctl"
  BY DEF CloseStep, Initialize_Open, DeInitialize_Close, AppAt, Goto, TypeInv, AppInv
<1> SUFFICES ASSUME NEW d \in Dir, NEW b \in Buffers(d) PROVE Here(d, b)'
  BY <1>1 DEF PlaceInv, Buffers
<1>3. Here(d, b)
  BY DEF PlaceInv
<1>4. /\ ~InCb(d, b) /\ ~InCb(d, b)' /\ ~InApp(d, b) /\ ~InApp(d, b)'
      /\ \A w \in Workers : InWorker(w, d, b)' <=> InWorker(w, d, b)
  BY <1>1, <1>2 DEF InApp, InCb, InWorker
<1>5. queued'[d][b] = 0
  BY <1>1 DEF Nothing
<1>6. Free(d, b) \/ AtDriver(d, b) => Free(d, b)'
  BY <1>4, <1>5 DEF Free, AtDriver, NoWorker
<1>7. ASSUME NEW v \in Workers, AtWorker(v, d, b) PROVE Placed(d, b)'
  <2>1. AtWorker(v, d, b)'
    BY <1>4, <1>5, <1>7 DEF AtWorker
  <2> QED BY <2>1 DEF Placed
<1>8. Free(d, b)' \/ Placed(d, b)'
  BY <1>3, <1>4, <1>6, <1>7 DEF Here, Placed, AtCb, AtApp
<1> QED BY <1>1, <1>3, <1>6, <1>8 DEF Here

\* Whoever sets the buffers of a list has them all.
LEMMA FlagsReset ==
  ASSUME NEW d, NEW b, Here(d, b), SamePlace(d, b),
         SameFlags(d, b) \/ (Free(d, b) /\ b \notin used'[d])
  PROVE  Here(d, b)'
BY HereStays, PlaceStays DEF Here

LEMMA InitializeSets ==
  ASSUME TypeInv, DriverInv, PlaceInv, Initialize_SetBuffer, [Next]_vars,
         config.dynamic = Dir \/ Calm
  PROVE  PlaceInv'
<1>1. UNCHANGED <<config, cb, worker, queued>> /\ app.pc = "init_set"
  BY StepChanges DEF Initialize_SetBuffer, driver, Changes, AppAt
<1>2. app'.pc # "fill_ioctl" /\ cb.pc \notin {"done", "ioctl"}
  <2>1. Goto("init_reset") \/ Goto("init_fail")
    BY DEF Initialize_SetBuffer
  <2> QED BY <1>1, <2>1 DEF Goto, TypeInv, AppInv, DriverInv
<1> SUFFICES ASSUME NEW d \in Dir, NEW b \in Buffers(d) PROVE Here(d, b)'
  BY <1>1 DEF PlaceInv, Buffers
<1>3. Here(d, b) /\ SamePlace(d, b)
  BY <1>1, <1>2 DEF PlaceInv, SamePlace, InCb, InApp, InWorker
<1>4. SameFlags(d, b) \/ (b \in ToSet(list'[d]) /\ b \notin used'[d])
  BY DEF Initialize_SetBuffer, SetBuffer, SameFlags, slots
<1>5. b \in ToSet(list'[d]) => Free(d, b)
  <2>1. CASE config.dynamic = Dir
    <3>1. ~Static(d)' /\ ListsOK'
      BY <1>1, <2>1, ListsKept DEF Static
    <3>2. ToSet(list'[d]) = {}
      BY <3>1 DEF ListsOK, ToSet
    <3> QED BY <3>2
  <2>2. CASE Calm
    <3>1. queued[d][b] = 0 /\ Quiet
      BY <1>1, <2>2 DEF Calm, DriverInv, Returned, Dir
    <3> QED BY <1>1, <1>2, <3>1 DEF Free, InCb, InApp, NoWorker, InWorker, Quiet, Idle
  <2> QED BY <2>1, <2>2
<1> QED BY <1>3, <1>4, <1>5, FlagsReset

LEMMA ReconfigurationSets ==
  ASSUME TypeInv, DriverInv, PlaceInv, HandleOutputReconfig, [Next]_vars, Static("out") => AllKept
  PROVE  PlaceInv'
<1>1. UNCHANGED <<config, list, app, worker, queued, ToFill>> /\ cb.pc = "reconfig"
  BY StepChanges DEF HandleOutputReconfig, driver, Changes, ToFill, Encoder
<1>2. cb'.pc \notin {"done", "ioctl"}
  <2>1. CbEffect
    BY CbEffects DEF Callback
  <2> QED BY <1>1, <2>1 DEF CbEffect, CbMoves, CbWrites, Finishing
<1> SUFFICES ASSUME NEW d \in Dir, NEW b \in Buffers(d) PROVE Here(d, b)'
  BY <1>1 DEF PlaceInv, Buffers
<1>3. Here(d, b) /\ SamePlace(d, b)
  BY <1>1, <1>2 DEF PlaceInv, SamePlace, InCb, InApp, InWorker
<1>4. SameFlags(d, b)
      \/ (Static("out") /\ d = "out" /\ b \in ToSet(list["out"]) /\ b \notin used'[d])
  BY <1>1 DEF HandleOutputReconfig, SetBuffer, SameFlags, slots, Reconfig_Error
<1>5. Static("out") /\ d = "out" /\ b \in ToSet(list["out"]) => Free(d, b)
  <2> SUFFICES ASSUME d = "out", Kept(b) PROVE Free(d, b)
    BY DEF AllKept
  <2>1. app.pc # "fill_ioctl"
    BY <1>1, FillOnlyEncoder DEF DriverInv
  <2>2. ASSUME NEW w \in Workers PROVE ~InWorker(w, "out", b)
    BY DEF Kept, HeldBy, InWorker
  <2> QED BY <1>1, <2>1, <2>2 DEF Kept, Free, InCb, InApp, NoWorker
<1> QED BY <1>3, <1>4, <1>5, FlagsReset

LEMMA PlaceInit == Init => PlaceInv
<1> SUFFICES ASSUME Init, NEW d \in Dir, NEW b \in Buffers(d) PROVE Here(d, b)
  BY DEF PlaceInv
<1>1. b \notin used[d]
  BY DEF Init, None
<1>2. queued[d][b] = 0 /\ cb.pc = "idle" /\ app.pc = "idle" /\ \A w \in Workers : worker[w].pc = "idle"
  BY DEF Init, Nothing, NoCb, Idle
<1> QED BY <1>1, <1>2 DEF Here, Free, InCb, InApp, NoWorker, InWorker

LEMMA PlaceStep ==
  ASSUME TypeInv, DriverInv, PlaceInv, [Next]_vars, config.dynamic = Dir \/ Calm,
         cb.pc = "reconfig" /\ Static("out") => AllKept
  PROVE  PlaceInv'
<1>1. Changes
  BY StepChanges
<1>2. CASE TakeStep
  BY <1>2, FillTakes, FinishTakes, WorkerTakes DEF TakeStep
<1>3. CASE IoctlStep
  BY <1>3, FillSends, FinishSends, WorkerSends DEF IoctlStep
<1>4. CASE DoneStep
  BY <1>4, DriverReturns DEF DoneStep
<1>5. CASE FrameDone
  BY <1>5, BufferBack
<1>6. CASE CloseStep
  BY <1>6, SessionGone
<1>7. CASE SetStep
  BY <1>7, InitializeSets, ReconfigurationSets DEF SetStep, HandleOutputReconfig
<1>8. CASE ~TakeStep /\ ~IoctlStep /\ ~DoneStep /\ ~FrameDone /\ ~CloseStep /\ ~SetStep
  <2>1. UNCHANGED <<config, used, stuck, queued>>
    BY <1>1, <1>8 DEF Changes
  <2> SUFFICES ASSUME NEW d \in Dir, NEW b \in Buffers(d) PROVE Here(d, b)'
    BY <2>1 DEF PlaceInv, Buffers
  <2>2. InApp(d, b)' <=> InApp(d, b)
    BY <1>8, AppPlace DEF TakeStep, IoctlStep
  <2>3. InCb(d, b)' <=> InCb(d, b)
    BY <1>8, CbPlace DEF TakeStep, IoctlStep
  <2>4. \A w \in Workers : InWorker(w, d, b)' <=> InWorker(w, d, b)
    BY <1>8, WorkerPlace DEF TakeStep, IoctlStep
  <2>5. SamePlace(d, b) /\ SameFlags(d, b)
    BY <2>1, <2>2, <2>3, <2>4 DEF SamePlace, SameFlags
  <2> QED BY <2>5, HereStays DEF PlaceInv
<1> QED BY <1>2, <1>3, <1>4, <1>5, <1>6, <1>7, <1>8

-----------------------------------------------------------------------------
(* A decoder of static output buffers, of an application that submits only *)
(* what it holds: from Start to the reconfiguration nobody has the buffers *)
(* the reconfiguration is about to set.                                    *)

StaticDecoder == TimelyDecoder /\ Static("out") /\ config.disciplined

\* No output buffer is on its way, and none can be sent.
Dormant ==
  /\ started = {} /\ ~Listing("START_OUT") /\ Returned("out")
  /\ ~(cb.pc = "done" /\ cb.d = "out")
AtRest ==
  \/ app.pc \in {"init_set", "init_reset", "init_load", "init_wait", "init_ready",
                 "start_reset", "start_call"}
  \/ app.pc = "idle" /\ state = "READY"
  \/ app.pc = "start_wait" /\ Listing("START_IN")
  \/ app.pc = "stop_wait" /\ app.k = 3 /\ ~Listing("STOP_OUT")
  \/ app.pc = "stop_next" /\ app.k = 3

\* The input port is stopped first, and the output port last.
OrderInv ==
  /\ app.pc \in {"stop_wait", "stop_next"} /\ app.k = 2
       /\ (app.pc = "stop_next" \/ ~Listing("STOP_IN")) => "in" \notin started
  /\ app.pc \in StopPcs /\ app.k = 3 => "in" \notin started
  /\ app.pc = "stop_wait" /\ app.k = 3 /\ Listing("STOP_OUT") => cmds[Len(cmds)] = "STOP_OUT"

\* Between Start and the reconfiguration of the stream.
Streaming ==
  "in" \in started \/ Listing("START_IN") \/ app.pc \in {"start_reset", "start_call"}
Unasked ==
  /\ ~Listing("START_OUT")
  /\ cb.pc \notin {"reconfig", "start_output", "output_started"} \cup Finishing
  /\ ~(cb.pc \in {"answer", "event"} /\ cb.what = "START_OUT")

StaticInv ==
  /\ reconfigs \in Nat
  /\ AtRest => Dormant
  /\ OrderInv
  /\ reconfigs = 0 /\ Streaming => AllKept /\ Unasked
  /\ cb.pc = "reconfig" => AllKept

LEMMA StaticInit == Init => StaticInv
<1> SUFFICES ASSUME Init PROVE StaticInv
  OBVIOUS
<1>1. /\ state = "INITIAL" /\ started = {} /\ cmds = <<>> /\ app.pc = "idle" /\ cb.pc = "idle"
      /\ reconfigs = 0
  BY DEF Init, NoCb
<1>2. \A c : ~Listing(c)
  BY <1>1, NothingListed
<1> QED BY <1>1, <1>2 DEF StaticInv, AtRest, OrderInv, StopPcs, Streaming

\* Which commands join the list, and which ports are started.
LEMMA ListingGrows ==
  ASSUME TypeInv, TimelyDecoder, [Next]_vars
  PROVE  /\ Listing("START_OUT")' => Listing("START_OUT") \/ cb.pc = "start_output"
         /\ Listing("START_IN")' => Listing("START_IN") \/ app.pc = "start_call"
<1>1. cmds \in Seq(Commands)
  BY DEF TypeInv, MiscInv
<1>2. CASE UNCHANGED cmds
  BY <1>2 DEF Listing
<1>3. CASE cmds' = <<>>
  <2>1. 1 .. Len(cmds') = {}
    BY <1>3
  <2> QED BY <2>1 DEF Listing
<1>4. CASE cmds # <<>> /\ cmds' = Tail(cmds)
  BY <1>1, <1>4, ListedShorter
<1>5. ASSUME NEW c, cmds' = Append(cmds, c),
             c = "START_OUT" => cb.pc = "start_output", c = "START_IN" => app.pc = "start_call"
      PROVE  /\ Listing("START_OUT")' => Listing("START_OUT") \/ cb.pc = "start_output"
             /\ Listing("START_IN")' => Listing("START_IN") \/ app.pc = "start_call"
  BY <1>1, <1>5, ListedLonger
<1>6. CASE CommandMove
  <2>1. app.pc = "stop_call" => StopCommands[app.k] \notin {"START_OUT", "START_IN"}
    <3>1. app.pc = "stop_call" => app.k \in 1 .. Len(StopCommands)
      BY DEF TypeInv, AppInv, StopPcs
    <3>2. \A k \in 1 .. Len(StopCommands) : StopCommands[k] \notin {"START_OUT", "START_IN"}
      BY DEF StopCommands
    <3> QED BY <3>1, <3>2
  <2>2. CASE Sends("init_load", "LOAD", "init_wait", "post_fail")
    BY <1>2, <1>5, <2>2 DEF Sends
  <2>3. CASE Sends("start_call", StartCommand, "start_wait", "start_fail")
    BY <1>2, <1>5, <2>3 DEF Sends, Stays, Moves, StartCommand
  <2>4. CASE Sends("stop_call", StopCommands[app.k], "stop_wait", "stop_fail")
    BY <1>2, <1>5, <2>1, <2>4 DEF Sends, Stays, Moves
  <2>5. CASE Sends("deinit_call", "RELEASE", "deinit_wait", "deinit_fail")
    BY <1>2, <1>5, <2>5 DEF Sends
  <2> QED BY <1>6, <2>2, <2>3, <2>4, <2>5 DEF CommandMove
<1>7. CASE CbEffect
  <2>1. \/ UNCHANGED cmds \/ (cmds # <<>> /\ cmds' = Tail(cmds))
        \/ (cb.pc = "start_output" /\ cmds' = Append(cmds, "START_OUT"))
    BY <1>7 DEF CbEffect, CbMoves, CbWrites
  <2> QED BY <1>2, <1>4, <1>5, <2>1
<1>8. CASE CallEffect
  BY <1>2, <1>3, <1>6, <1>8 DEF CallEffect, CloseMove
<1> QED BY <1>2, <1>7, <1>8, StepEffects DEF ControlVars

LEMMA StartedGrows ==
  ASSUME TypeInv, CallsInv, [Next]_vars
  PROVE  /\ started' \subseteq Dir
         /\ "out" \in started' => "out" \in started \/ Listing("START_OUT")
         /\ "in" \in started' /\ "in" \notin started =>
              /\ Listing("START_IN") /\ ~Listing("START_IN")' /\ UNCHANGED app
<1>1. cmds \in Seq(Commands) /\ cmds \in Seq(CallCommands \cup {"START_OUT"}) /\ started \subseteq Dir
      /\ OneCall
  BY DEF TypeInv, MiscInv, CallsInv
<1>2. CASE UNCHANGED started \/ started' = {}
  BY <1>1, <1>2
<1>3. CASE cmds # <<>> /\ cmds' = Tail(cmds) /\ Executed(Head(cmds)) /\ UNCHANGED app
  <2>1. Head(cmds) \in CallCommands \cup {"START_OUT"}
    BY <1>1, <1>3
  <2>2. Listing(Head(cmds)) /\ (Head(cmds) \in CallCommands => \A x \in CallCommands : ~Listing(x)')
    BY <1>1, <1>3, ListedShorter
  <2>3. started' \subseteq started
        \/ (Head(cmds) = "START_IN" /\ started' = started \cup {"in"})
        \/ (Head(cmds) = "START_OUT" /\ started' = started \cup {"out"})
    BY <1>3, <2>1 DEF Executed, CallCommands
  <2> QED BY <1>1, <1>3, <2>2, <2>3 DEF CallCommands, Dir
<1>4. CASE CbEffect
  BY <1>2, <1>3, <1>4 DEF CbEffect
<1>5. CASE CallEffect
  BY <1>2, <1>5 DEF CallEffect, CloseMove
<1> QED BY <1>2, <1>4, <1>5, StepEffects DEF ControlVars

LEMMA DormantStays ==
  ASSUME TypeInv, TimelyDecoder, DriverInv, [Next]_vars, Dormant, started' = {}
  PROVE  Dormant'
<1>1. started = {} /\ Returned("out")
  BY DEF Dormant
<1>2. Returned("out")'
  BY <1>1, StillReturned DEF Dir
<1>3. ~Listing("START_OUT")'
  BY <1>1, ListingGrows DEF Dormant, DriverInv
<1>4. ~(cb'.pc = "done" /\ cb'.d = "out")
  <2>1. CASE UNCHANGED cb
    BY <2>1 DEF Dormant
  <2>2. ASSUME NEW d \in Dir, NEW b \in Buffers(d), Device_Done(d, b) PROVE cb'.d # "out"
    <3>1. d # "out" /\ cb'.d = d
      BY <1>1, <2>2 DEF Device_Done, Returned
    <3> QED BY <3>1
  <2>3. CASE DoneStep
    BY <2>2, <2>3 DEF DoneStep
  <2>4. CASE (Callback \/ Device) /\ ~DoneStep
    <3>1. CbEffect
      BY <2>4, CbEffects
    <3>2. cb.pc = "idle" => cb'.pc # "done"
      <4> SUFFICES ASSUME cb.pc = "idle" PROVE cb'.pc # "done"
        OBVIOUS
      <4>1. Device_Answer \/ Device_Fatal \/ Device_Reconfig
        BY <2>4 DEF Callback, Device, DoneStep, FrameDone, Answer, Event_Read, Event_Write,
           HandleOutputReconfig, Reconfig_StartOutput, Output_Started, FinishOutputReconfig,
           Finish_End, Finish_State, Finish_Slot, Finish_Ioctl
      <4>2. cb'.pc \in {"answer", "write", "reconfig"}
        BY <4>1 DEF Device_Answer, Device_Fatal, Device_Reconfig, NoCb
      <4> QED BY <4>2
    <3> QED BY <3>1, <3>2 DEF CbEffect, CbMoves, CbWrites, Finishing
  <2> QED BY <2>1, <2>3, <2>4, StepChanges DEF Changes
<1> QED BY <1>2, <1>3, <1>4 DEF Dormant

LEMMA RestKept ==
  ASSUME TypeInv, TimelyDecoder, DriverInv, CallsInv, CallsInv', EventsInv, EventsInv', StaticInv,
         [Next]_vars, AtRest'
  PROVE  Dormant'
<1>1. cmds \in Seq(Commands) /\ Len(StopCommands) = 3
  BY DEF TypeInv, MiscInv, StopCommands, TimelyDecoder
<1>2. CASE AtRest
  <2>1. Dormant
    BY <1>2 DEF StaticInv
  <2>2. "out" \notin started'
    BY <2>1, StartedGrows DEF Dormant
  <2>3. "in" \notin started'
    <3> SUFFICES ASSUME "in" \in started' PROVE FALSE
      OBVIOUS
    <3>1. Listing("START_IN") /\ ~Listing("START_IN")' /\ UNCHANGED app
      BY <2>1, StartedGrows DEF Dormant
    <3>2. app.pc \in Waiting /\ Awaited = "START_IN"
      BY <3>1 DEF CallsInv, Pending, CallCommands
    <3>3. app'.pc = "start_wait"
      BY <3>1, <3>2, DecoderWaits DEF TimelyDecoder
    <3> QED BY <3>1, <3>3 DEF AtRest
  <2>4. started' = {}
    BY <2>2, <2>3, StartedGrows DEF Dir
  <2> QED BY <2>1, <2>4, DormantStays
<1>3. CASE ~AtRest /\ CallEffect
  <2>1. CASE CloseMove
    <3>1. cmds' = <<>> /\ started' = {} /\ cb'.pc = "idle"
      BY <1>3, <2>1 DEF CloseMove, CallEffect, CbIdle
    <3>2. ~Listing("START_OUT")'
      <4>1. 1 .. Len(cmds') = {}
        BY <3>1
      <4> QED BY <4>1 DEF Listing
    <3>3. Returned("out")'
      <4>1. UNCHANGED config
        BY StepEffects
      <4> QED BY <2>1, <4>1 DEF CloseMove, Nothing, Returned, Buffers, Dir
    <3> QED BY <3>1, <3>2, <3>3 DEF Dormant
  <2>2. CASE LocalMove /\ UNCHANGED <<session, started, cmds, cmdCompleted>>
    <3>1. ~Listing("STOP_OUT") /\ \A c : UNCHANGED Listing(c)
      BY <2>2, NothingPending DEF Listing, Pending, CallCommands
    <3>2. app.pc = "fill" => state # "READY"
      BY DEF EventsInv
    <3>3. app'.pc \in {"init_reset", "init_ready", "start_reset"} => AtRest
      BY <2>2 DEF LocalMove, Moves, Stays, Enters, Leaves, AtRest
    <3>4. app'.pc = "idle" /\ state' = "READY" => AtRest
      BY <1>1, <2>2, <3>2 DEF LocalMove, Moves, Stays, Enters, Leaves, AtRest
    <3>5. app'.pc = "stop_next" /\ app'.k = 3 => AtRest
      BY <2>2, <3>1 DEF LocalMove, Moves, Stays, Enters, Leaves, AtRest
    <3>6. app'.pc \notin {"init_set", "init_load", "init_wait", "start_call", "start_wait", "stop_wait"}
      BY <2>2 DEF LocalMove, Moves, Stays, Enters, Leaves
    <3> QED BY <1>3, <3>3, <3>4, <3>5, <3>6 DEF AtRest
  <2>4. CASE ResetMove
    <3>1. app'.pc = "init_load" => app.pc = "init_reset"
      BY <2>4 DEF ResetMove, Stays, Moves
    <3>2. app'.pc = "start_call" => app.pc = "start_reset"
      BY <2>4 DEF ResetMove, Stays, Moves
    <3>3. app'.pc \in {"init_load", "start_call", "stop_call", "deinit_call"}
      BY <2>4 DEF ResetMove, Stays, Moves
    <3> QED BY <1>3, <3>1, <3>2, <3>3 DEF AtRest
  <2>3. CASE CommandMove
    <3>1. app'.pc = "init_wait" => app.pc = "init_load"
      BY <2>3 DEF CommandMove, Sends, Stays, Moves
    <3>2. app'.pc = "start_wait" => app.pc = "start_call"
      BY <2>3 DEF CommandMove, Sends, Stays, Moves
    <3>3. app'.pc = "stop_wait" /\ app'.k = 3 => Listing("STOP_OUT")'
      <4>1. StopCommands[3] = "STOP_OUT"
        BY DEF StopCommands, TimelyDecoder
      <4>2. app'.pc = "stop_wait" => cmds' = Append(cmds, StopCommands[app.k]) /\ app'.k = app.k
        BY <2>3 DEF CommandMove, Sends, Stays, Moves
      <4> QED BY <1>1, <4>1, <4>2, ListedLonger
    <3>4. app'.pc \in {"init_wait", "post_fail", "start_wait", "start_fail", "stop_wait", "stop_fail",
                       "deinit_wait", "deinit_fail"}
      BY <2>3 DEF CommandMove, Sends, Stays, Moves
    <3> QED BY <1>3, <3>1, <3>2, <3>3, <3>4 DEF AtRest
  <2> QED BY <1>3, <2>1, <2>2, <2>3, <2>4 DEF CallEffect
<1>4. CASE ~AtRest /\ CbEffect
  <2>1. UNCHANGED app
    BY <1>4 DEF CbEffect
  <2>2. ~(app'.pc = "idle" /\ state' = "READY")
    <3> SUFFICES ASSUME app.pc = "idle", state' = "READY" PROVE FALSE
      BY <2>1
    <3>1. state # "READY"
      BY <1>4 DEF AtRest
    <3>2. cb.pc = "write" /\ cb.what = "READY"
      BY <1>4, <3>1 DEF CbEffect, CbMoves, CbWrites
    <3> QED BY <3>2 DEF EventsInv, Loading, Eventful
  <2>3. ~(app'.pc = "start_wait" /\ Listing("START_IN")')
    BY <1>4, <2>1, ListingGrows DEF AtRest
  <2>4. app.pc = "stop_wait" /\ app.k = 3 /\ ~Listing("STOP_OUT")' /\ Listing("STOP_OUT")
    BY <1>4, <2>1, <2>2, <2>3 DEF AtRest
  <2>5. cmds[Len(cmds)] = "STOP_OUT" /\ "in" \notin started
    BY <2>4 DEF StaticInv, OrderInv, StopPcs
  <2>6. cmds # <<>> /\ cmds' = Tail(cmds) /\ cb'.pc = "answer" /\ Answerable(Head(cmds))
        /\ Executed(Head(cmds))
    <3>1. \/ UNCHANGED cmds
          \/ cmds' = Append(cmds, "START_OUT")
          \/ cmds # <<>> /\ cmds' = Tail(cmds) /\ cb'.pc = "answer" /\ Answerable(Head(cmds))
             /\ Executed(Head(cmds))
      BY <1>4 DEF CbEffect, CbMoves, CbWrites
    <3>2. cmds' # cmds
      BY <2>4 DEF Listing
    <3>3. cmds' # Append(cmds, "START_OUT")
      BY <1>1, <2>4, ListedLonger
    <3> QED BY <3>1, <3>2, <3>3
  <2>7. Head(cmds) = "STOP_OUT"
    BY <1>1, <2>4, <2>6, ListedShorter
  <2>8. cmds' = <<>>
    <3>1. OneCall /\ Len(cmds) \in Nat \ {0} /\ Head(cmds) = cmds[1] /\ (cmds' = <<>> <=> Len(cmds) = 1)
      BY <1>1, <2>6, Tails DEF CallsInv
    <3>2. 1 \in 1 .. Len(cmds) /\ Len(cmds) \in 1 .. Len(cmds)
      BY <3>1
    <3>3. "STOP_OUT" \in CallCommands
      BY DEF CallCommands
    <3>4. Len(cmds) = 1
      BY <2>5, <2>7, <3>1, <3>2, <3>3 DEF OneCall
    <3> QED BY <3>1, <3>4
  <2>9. ~Listing("START_OUT")'
    <3>1. 1 .. Len(cmds') = {}
      BY <2>8
    <3> QED BY <3>1 DEF Listing
  <2>10. started' = {}
    <3>1. started' = started \ {"out"} /\ started \subseteq Dir
      BY <2>6, <2>7 DEF Executed, TypeInv, MiscInv
    <3> QED BY <2>5, <3>1 DEF Dir
  <2>11. Returned("out")'
    <3>1. Returned("out")
      BY <2>6, <2>7 DEF Answerable
    <3>2. UNCHANGED <<config, queued>>
      <4>1. ~IoctlStep /\ ~DoneStep /\ ~CloseStep
        <5>1. cmds' # cmds
          BY <2>4 DEF Listing
        <5>2. cb.pc = "idle" /\ cb'.pc = "answer"
          BY <1>4, <2>6, <5>1 DEF CbEffect, CbMoves, CbWrites
        <5> QED BY <2>1, <2>4, <5>1, <5>2
                DEF IoctlStep, Start_FillIoctl, Finish_Ioctl, Submit_Ioctl, DoneStep, Device_Done,
                    CloseStep, Initialize_Open, DeInitialize_Close, AppAt, driver
      <4> QED BY <4>1, StepChanges DEF Changes
    <3> QED BY <3>1, <3>2 DEF Returned, Buffers
  <2> QED BY <2>6, <2>9, <2>10, <2>11 DEF Dormant
<1>5. CASE ~AtRest /\ UNCHANGED ControlVars
  BY <1>5 DEF ControlVars, AtRest, Listing
<1> QED BY <1>2, <1>3, <1>4, <1>5, StepEffects

LEMMA OrderKept ==
  ASSUME TypeInv, TimelyDecoder, DriverInv, CallsInv, StaticInv, [Next]_vars
  PROVE  OrderInv'
<1>1. cmds \in Seq(Commands) /\ Len(StopCommands) = 3
      /\ StopCommands[2] = "STOP_IN" /\ StopCommands[3] = "STOP_OUT"
  BY DEF TypeInv, MiscInv, StopCommands, TimelyDecoder
<1>2. OrderInv
  BY DEF StaticInv
<1>3. CASE LocalMove /\ UNCHANGED <<session, started, cmds, cmdCompleted>>
  <2>1. ~Listing("STOP_IN")
    BY <1>3, NothingPending DEF Pending, CallCommands
  <2>2. app'.pc \notin {"stop_wait", "stop_call"}
    BY <1>3 DEF LocalMove, Moves, Stays, Enters, Leaves
  <2>3. app'.pc = "stop_next" => app.pc = "stop_wait" /\ app'.k = app.k
    BY <1>3 DEF LocalMove, Moves, Stays, Enters, Leaves
  <2>4. app'.pc = "stop_reset" /\ app'.k = 3 => app.pc = "stop_next" /\ app.k = 2
    <3>1. app.k \in Nat
      BY DEF TypeInv, AppInv
    <3>2. app'.pc = "stop_reset" => app'.k = 1 \/ (app.pc = "stop_next" /\ app'.k = app.k + 1)
      BY <1>3 DEF LocalMove, Moves, Stays, Enters, Leaves
    <3> QED BY <3>1, <3>2
  <2> QED BY <1>2, <1>3, <2>1, <2>2, <2>3, <2>4 DEF OrderInv, StopPcs
<1>8. CASE ResetMove /\ UNCHANGED <<session, started, cmds>>
  <2>1. /\ app'.pc \notin {"stop_reset", "stop_wait", "stop_next"}
        /\ app'.pc = "stop_call" => app.pc = "stop_reset" /\ app'.k = app.k
    BY <1>8 DEF ResetMove, Stays, Moves
  <2> QED BY <1>2, <1>8, <2>1 DEF OrderInv, StopPcs
<1>4. CASE CloseMove
  BY <1>4 DEF CloseMove, Moves, Stays, OrderInv, StopPcs
<1>5. CASE CommandMove /\ UNCHANGED <<session, started, cmdCompleted>>
  <2>1. app'.pc \notin {"stop_reset", "stop_call", "stop_next"}
    BY <1>5 DEF CommandMove, Sends, Stays, Moves
  <2>2. app'.pc = "stop_wait" =>
          cmds' = Append(cmds, StopCommands[app.k]) /\ app'.k = app.k /\ app.pc = "stop_call"
    BY <1>5 DEF CommandMove, Sends, Stays, Moves
  <2>3. app'.pc = "stop_wait" /\ app'.k = 2 => Listing("STOP_IN")'
    BY <1>1, <2>2, ListedLonger
  <2>4. app'.pc = "stop_wait" /\ app'.k = 3 => cmds'[Len(cmds')] = "STOP_OUT"
    BY <1>1, <2>2
  <2> QED BY <1>2, <1>5, <2>1, <2>2, <2>3, <2>4 DEF OrderInv, StopPcs
<1>6. CASE CbEffect
  <2>1. UNCHANGED app
    BY <1>6 DEF CbEffect
  <2>2. app.pc \in StopPcs /\ "in" \notin started => "in" \notin started'
    <3> SUFFICES ASSUME app.pc \in StopPcs, "in" \notin started, "in" \in started'
                 PROVE  FALSE
      OBVIOUS
    <3>1. Pending("START_IN")
      BY StartedGrows DEF Pending
    <3>2. app.pc \in Waiting /\ Awaited = "START_IN"
      BY <3>1 DEF CallsInv, CallCommands
    <3> QED BY <3>2, DecoderWaits DEF TimelyDecoder, StopPcs
  <2>3. \/ UNCHANGED cmds
        \/ cb.pc = "start_output" /\ cmds' = Append(cmds, "START_OUT")
        \/ cmds # <<>> /\ cmds' = Tail(cmds) /\ Executed(Head(cmds))
    BY <1>6 DEF CbEffect, CbMoves, CbWrites
  <2>4. Listing("STOP_IN") /\ ~Listing("STOP_IN")' => "in" \notin started'
    <3>1. CASE UNCHANGED cmds
      BY <3>1 DEF Listing
    <3>2. CASE cmds' = Append(cmds, "START_OUT")
      BY <1>1, <3>2, ListedLonger
    <3>3. CASE cmds # <<>> /\ cmds' = Tail(cmds) /\ Executed(Head(cmds))
      <4>1. Listing("STOP_IN") /\ ~Listing("STOP_IN")' => Head(cmds) = "STOP_IN"
        BY <1>1, <3>3, ListedShorter
      <4> QED BY <3>3, <4>1 DEF Executed
    <3> QED BY <2>3, <3>1, <3>2, <3>3
  <2>5. app.pc = "stop_wait" /\ app.k = 3 /\ Listing("STOP_OUT")' => cmds'[Len(cmds')] = "STOP_OUT"
    <3> SUFFICES ASSUME app.pc = "stop_wait", app.k = 3, Listing("STOP_OUT")'
                 PROVE  cmds'[Len(cmds')] = "STOP_OUT"
      OBVIOUS
    <3>1. cb.pc # "start_output"
      BY <1>2 DEF OrderInv, DriverInv, StopPcs
    <3>2. CASE UNCHANGED cmds
      BY <1>2, <3>2 DEF OrderInv, Listing
    <3>3. CASE cmds # <<>> /\ cmds' = Tail(cmds)
      <4>1. cmds[Len(cmds)] = "STOP_OUT"
        BY <1>1, <1>2, <3>3, ListedShorter DEF OrderInv
      <4>2. Len(cmds) \in Nat \ {0} /\ Len(cmds') = Len(cmds) - 1
            /\ \A i \in 1 .. Len(cmds') : cmds'[i] = cmds[i + 1]
        BY <1>1, <3>3, Tails
      <4>3. Len(cmds') # 0
        <5>1. Len(cmds') = 0 => 1 .. Len(cmds') = {}
          OBVIOUS
        <5> QED BY <5>1 DEF Listing
      <4>4. Len(cmds') \in 1 .. Len(cmds') /\ Len(cmds') + 1 = Len(cmds)
        BY ONLY <4>2, <4>3
      <4> QED BY <4>1, <4>2, <4>4
    <3> QED BY <2>3, <3>1, <3>2, <3>3
  <2> QED BY <1>2, <2>1, <2>2, <2>4, <2>5 DEF OrderInv, StopPcs
<1>7. CASE UNCHANGED ControlVars
  BY <1>2, <1>7 DEF ControlVars, OrderInv, Listing
<1> QED BY <1>3, <1>4, <1>5, <1>6, <1>7, <1>8, StepEffects DEF CallEffect

\* The reconfigurations are counted from a start.
LEMMA ReconfigsCounted ==
  ASSUME [Next]_vars
  PROVE  \/ UNCHANGED reconfigs
         \/ Start_Begin /\ reconfigs' = 0
         \/ Device_Reconfig /\ reconfigs' = reconfigs + 1
<1> USE DEF budget
<1>1. CASE Initialize
  BY <1>1 DEF Initialize, Initialize_Refuse, Initialize_BadConfig, Initialize_Begin, Initialize_Open,
     Initialize_SetBuffer, Initialize_Load, Initialize_Wait, Initialize_PostFail,
     Initialize_Fail, Initialize_End
<1>2. CASE Start
  BY <1>2 DEF Start, Start_Begin, Start_Call, Start_Wait, Start_Fail, Start_Fill, Start_FillIoctl
<1>3. CASE Stop
  BY <1>3 DEF Stop, Stop_Begin, Stop_Call, Stop_Wait, Stop_Next, Stop_End
<1>4. CASE DeInitialize
  BY <1>4 DEF DeInitialize, DeInitialize_Begin, DeInitialize_Call, DeInitialize_Wait,
     DeInitialize_Free, DeInitialize_Close, DeInitialize_End
<1>5. CASE Callback
  BY <1>5 DEF Callback, FrameDone, Answer, Event_Read, Event_Write, HandleOutputReconfig,
     Reconfig_StartOutput, Output_Started, FinishOutputReconfig, Finish_End, Finish_State,
     Finish_Slot, Finish_Ioctl
<1>6. CASE Device
  BY <1>6 DEF Device, Device_Done, Device_Answer, Device_Fatal, Device_Reconfig
<1>7. ASSUME NEW w \in Workers, ProcessFrameDescriptor(w) PROVE UNCHANGED reconfigs
  BY <1>7 DEF ProcessFrameDescriptor, Process_Begin, Submit_State, Submit_Slot, Submit_Ioctl
<1>8. CASE UNCHANGED vars
  BY <1>8 DEF vars
<1>9. CASE InitCmdCompleted
  BY <1>9 DEF InitCmdCompleted
<1> QED BY <1>1, <1>2, <1>3, <1>4, <1>5, <1>6, <1>7, <1>8, <1>9 DEF Next, Lifecycle

\* A buffer that nobody has stays with the node.
LEMMA WorkerKeeps ==
  ASSUME TypeInv, config.disciplined, NEW v \in Workers, ProcessFrameDescriptor(v), [Next]_vars,
         NEW b \in Buffers("out"), Kept(b)
  PROVE  Kept(b)'
<1>1. UNCHANGED <<config, cb>> /\ worker = [u \in Workers |-> worker[u]] /\ WorkerInv(v)
  BY WorkerControl DEF ControlVars, TypeInv, WorkersOK
<1>2. b # 0 /\ b \notin HeldBy(v, "out") /\ client = [d \in Dir |-> client[d]]
  <2>1. config.buffers["out"] \in Nat
    BY BufferFacts DEF TypeInv, Dir
  <2> QED BY <2>1 DEF Kept, Buffers, TypeInv, ClientOK
<1>3. ~(worker[v].d = "out" /\ worker[v].b = b) /\ worker[v].next # b
  BY <1>2 DEF HeldBy
<1>4. ASSUME NEW r, worker' = [worker EXCEPT ![v] = r], ~(r.d = "out" /\ r.b = b), r.next # b
      PROVE  \A w \in Workers : b \notin HeldBy(w, "out")'
  <2> SUFFICES ASSUME NEW w \in Workers PROVE b \notin HeldBy(w, "out")'
    OBVIOUS
  <2>1. worker'[w] = IF w = v THEN r ELSE worker[w]
    BY <1>1, <1>4
  <2>2. b \notin HeldBy(w, "out")
    BY DEF Kept
  <2> QED BY <1>1, <1>4, <2>1, <2>2 DEF HeldBy, Buffers
<1>5. ASSUME GiveUp(v)
      PROVE  (\A w \in Workers : b \notin HeldBy(w, "out")') /\ b \notin client'["out"]
  <2>1. worker' = [worker EXCEPT ![v] = Idle] /\ ~(Idle.d = "out" /\ Idle.b = b) /\ Idle.next # b
    BY <1>2, <1>5 DEF GiveUp, Idle
  <2>2. client'["out"] = client["out"] \cup HeldBy(v, "out")
    BY <1>5 DEF GiveUp, Dir
  <2> HIDE DEF Idle
  <2> QED BY <1>2, <1>4, <2>1, <2>2 DEF Kept
<1>6. ASSUME NEW pc, worker' = [worker EXCEPT ![v].pc = pc]
      PROVE  \A w \in Workers : b \notin HeldBy(w, "out")'
  <2> DEFINE r == [worker[v] EXCEPT !.pc = pc]
  <2>1. worker' = [worker EXCEPT ![v] = r]
    BY <1>6
  <2>2. r.d = worker[v].d /\ r.b = worker[v].b /\ r.next = worker[v].next
    BY <1>1 DEF WorkerInv
  <2> HIDE DEF r
  <2> QED BY <1>3, <1>4, <2>1, <2>2
<1>7. CASE Process_Begin(v)
  <2>1. PICK in \in {0} \cup client["in"], out \in {0} \cup client["out"] :
          /\ in # 0 \/ out # 0
          /\ worker' = [worker EXCEPT ![v] =
                          IF in # 0
                          THEN [pc |-> "slot", d |-> "in", b |-> in, next |-> out]
                          ELSE [pc |-> "slot", d |-> "out", b |-> out, next |-> 0]]
          /\ client' = [client EXCEPT !["in"] = @ \ {in}, !["out"] = @ \ {out}]
    BY <1>7 DEF Process_Begin
  <2> DEFINE r == IF in # 0 THEN [pc |-> "slot", d |-> "in", b |-> in, next |-> out]
                  ELSE [pc |-> "slot", d |-> "out", b |-> out, next |-> 0]
  <2>2. b # out
    BY <1>2, <2>1 DEF Kept
  <2>3. worker' = [worker EXCEPT ![v] = r]
    BY <2>1
  <2>4. ~(r.d = "out" /\ r.b = b) /\ r.next # b
    BY <1>2, <2>2
  <2>5. b \notin client'["out"]
    BY <1>2, <2>1 DEF Kept, Dir
  <2>6. UNCHANGED queued
    BY <1>7 DEF Process_Begin, driver
  <2> HIDE DEF r
  <2>7. \A w \in Workers : b \notin HeldBy(w, "out")'
    BY <1>4, <2>3, <2>4
  <2> QED BY <1>1, <2>5, <2>6, <2>7 DEF Kept
<1>8. CASE Submit_State(v) \/ Submit_Slot(v)
  <2>1. UNCHANGED queued
    BY <1>8 DEF Submit_State, Submit_Slot, driver
  <2>2. CASE GiveUp(v)
    BY <1>1, <1>5, <2>1, <2>2 DEF Kept
  <2>3. CASE ~GiveUp(v)
    <3>1. UNCHANGED client
          /\ (worker' = [worker EXCEPT ![v].pc = "slot"] \/ worker' = [worker EXCEPT ![v].pc = "ioctl"])
      BY <1>8, <2>3 DEF Submit_State, Submit_Slot
    <3>2. \A w \in Workers : b \notin HeldBy(w, "out")'
      BY <1>6, <3>1
    <3> QED BY <1>1, <2>1, <3>1, <3>2 DEF Kept
  <2> QED BY <2>2, <2>3
<1>9. CASE Submit_Ioctl(v)
  <2>1. CASE GiveUp(v) /\ UNCHANGED queued
    BY <1>1, <1>5, <2>1 DEF Kept
  <2>2. CASE Queue(worker[v].d, worker[v].b) /\ worker' = [worker EXCEPT ![v] = Following(v)]
             /\ UNCHANGED client
    <3>1. worker[v].d \in Dir /\ worker[v].b \in Buffers(worker[v].d)
      BY <1>9, WorkerInHand DEF Submit_Ioctl, TypeInv
    <3>2. queued'["out"][b] = queued["out"][b]
      BY <1>3, <2>2, <3>1, QueuedAt DEF Dir
    <3>3. ~(Following(v).d = "out" /\ Following(v).b = b) /\ Following(v).next # b
      BY <1>2, <1>3 DEF Following, Idle
    <3>4. \A w \in Workers : b \notin HeldBy(w, "out")'
      BY <1>4, <2>2, <3>3
    <3> QED BY <1>1, <2>2, <3>2, <3>4 DEF Kept
  <2> QED BY <1>9, <2>1, <2>2 DEF Submit_Ioctl
<1> QED BY <1>7, <1>8, <1>9 DEF ProcessFrameDescriptor

LEMMA BufferKept ==
  ASSUME TypeInv, StaticDecoder, [Next]_vars, cb.pc \notin Finishing, ~CloseStep,
         NEW b \in Buffers("out"), Kept(b)
  PROVE  Kept(b)'
<1>1. UNCHANGED config
  BY StepChanges DEF Changes
<1>2. ASSUME NEW v \in Workers, ProcessFrameDescriptor(v) PROVE Kept(b)'
  BY <1>2, WorkerKeeps DEF StaticDecoder
<1>3. CASE DoneStep
  <2>a. PICK d \in Dir : \E c \in Buffers(d) : Device_Done(d, c)
    BY <1>3 DEF DoneStep
  <2>1. PICK c \in Buffers(d) : Device_Done(d, c)
    BY <2>a
  <2>2. UNCHANGED <<client, worker>> /\ cb'.d = d /\ cb'.k = c /\ queued[d][c] > 0
    BY <2>1 DEF Device_Done
  <2>3. ~(d = "out" /\ c = b)
    BY <2>2 DEF Kept
  <2>4. queued'["out"][b] = queued["out"][b]
    BY <2>1, <2>3, QueuedAt DEF Dir
  <2> QED BY <1>1, <2>2, <2>3, <2>4 DEF Kept, HeldBy, Buffers
<1>4. CASE FrameDone
  <2>1. UNCHANGED <<worker, queued>> /\ cb'.pc = "idle" /\ cb.pc = "done"
    BY <1>4 DEF FrameDone, driver, NoCb
  <2>2. /\ UNCHANGED client \/ client' = [client EXCEPT ![cb.d] = @ \cup {cb.k}]
        /\ client = [d \in Dir |-> client[d]]
    BY <1>4 DEF FrameDone, Return, TypeInv, ClientOK
  <2>3. b \notin client'["out"]
    BY <2>1, <2>2 DEF Kept, Dir
  <2> QED BY <1>1, <2>1, <2>3 DEF Kept, HeldBy, Buffers
<1>5. CASE ~WorkerStep /\ ~DoneStep /\ ~FrameDone
  <2>1. ~Finish_Slot /\ ~Finish_Ioctl /\ ~Finish_State
    BY DEF Finish_Slot, Finish_Ioctl, Finish_State, Finishing
  <2>2. ~Start_FillIoctl
    BY FillOnlyEncoder DEF Start_FillIoctl, AppAt, StaticDecoder, TimelyDecoder
  <2>3. \A v \in Workers : ~Submit_Slot(v) /\ ~Submit_Ioctl(v)
    BY <1>5 DEF WorkerStep, ProcessFrameDescriptor
  <2>4. UNCHANGED <<queued, worker>>
    BY <1>5, <2>1, <2>2, <2>3, StepChanges DEF Changes, IoctlStep
  <2>5. b \notin client'["out"]
    <3>1. client = [d \in Dir |-> client[d]] /\ b \notin client["out"]
      BY DEF TypeInv, ClientOK, Kept
    <3>2. CASE Start_Begin
      BY <3>1, <3>2 DEF Start_Begin, Dir
    <3>3. CASE Start_Fill
      <4>1. Len(ToFill) = 0 /\ app.k \in Nat
        BY DEF ToFill, StaticDecoder, TimelyDecoder, TypeInv, AppInv
      <4>2. ~(app.k < Len(ToFill))
        BY ONLY <4>1
      <4> QED BY <3>1, <3>3, <4>2 DEF Start_Fill
    <3>4. UNCHANGED client \/ Start_Begin \/ Start_Fill
      BY <1>5, <2>1, <2>2, <2>3, StepChanges DEF Changes, IoctlStep, TakeStep
    <3> QED BY <3>1, <3>2, <3>3, <3>4
  <2>6. ~(cb'.pc = "done" /\ cb'.d = "out" /\ cb'.k = b)
    <3>1. CASE UNCHANGED cb
      BY <3>1 DEF Kept
    <3>2. CASE Callback \/ Device
      <4>1. CbEffect
        BY <3>2, CbEffects
      <4>2. cb.pc = "idle" => cb'.pc # "done"
        <5> SUFFICES ASSUME cb.pc = "idle" PROVE cb'.pc # "done"
          OBVIOUS
        <5>1. Device_Answer \/ Device_Fatal \/ Device_Reconfig
          BY <1>5, <3>2 DEF Callback, Device, DoneStep, FrameDone, Answer, Event_Read, Event_Write,
             HandleOutputReconfig, Reconfig_StartOutput, Output_Started, FinishOutputReconfig,
             Finish_End, Finish_State, Finish_Slot, Finish_Ioctl
        <5>2. cb'.pc \in {"answer", "write", "reconfig"}
          BY <5>1 DEF Device_Answer, Device_Fatal, Device_Reconfig, NoCb
        <5> QED BY <5>2
      <4> QED BY <4>1, <4>2 DEF CbEffect, CbMoves, CbWrites, Finishing
    <3> QED BY <3>1, <3>2, StepChanges DEF Changes
  <2> QED BY <1>1, <2>4, <2>5, <2>6 DEF Kept, HeldBy, Buffers
<1> QED BY <1>2, <1>3, <1>4, <1>5 DEF WorkerStep

LEMMA AllStayKept ==
  ASSUME TypeInv, StaticDecoder, [Next]_vars, AllKept, cb.pc \notin Finishing, ~CloseStep,
         ~Initialize_SetBuffer
  PROVE  AllKept'
<1>1. UNCHANGED list \/ list' = Empty
  BY StepChanges DEF Changes, ListStep, CloseStep, Initialize_Refuse, Initialize_BadConfig,
     Initialize_Fail
<1>2. CASE UNCHANGED list
  <2> SUFFICES ASSUME NEW b \in ToSet(list["out"]) PROVE Kept(b)'
    BY <1>2 DEF AllKept, ToSet
  <2>1. list["out"] \in Seq(Buffers("out"))
    BY DEF TypeInv, ListsOK, Dir
  <2>2. b \in Buffers("out")
    BY <2>1 DEF ToSet
  <2>3. Kept(b)
    BY DEF AllKept
  <2> QED BY <2>2, <2>3, BufferKept
<1>3. CASE list' = Empty
  <2>1. ToSet(list'["out"]) = {}
    BY <1>3 DEF Empty, Dir, ToSet
  <2> QED BY <2>1 DEF AllKept, ToSet
<1> QED BY <1>1, <1>2, <1>3

LEMMA OnlyStartStarts ==
  ASSUME TypeInv, [Next]_vars, ~Start_Begin, app'.pc \in {"start_reset", "start_call"}
  PROVE  app.pc \in {"start_reset", "start_call"}
<1>1. CASE UNCHANGED app
  BY <1>1
<1>2. CASE Lifecycle /\ app.pc \notin {"start_reset", "start_call"}
  <2>1. app.pc = "idle" /\ state' = "STARTING"
    <3>1. CallEffect
      BY <1>2, CallEffects
    <3> QED BY <1>2, <3>1 DEF CallEffect, LocalMove, CloseMove, CommandMove, ResetMove, Sends,
              Moves, Stays, Enters, Leaves
  <2>2. Initialize_Refuse \/ Initialize_BadConfig \/ Initialize_Begin \/ Stop_Begin
        \/ DeInitialize_Begin
    <3>1. ~(Start \/ Stop) \/ Stop_Begin
      BY <2>1 DEF Start, Start_Call, Start_Wait, Start_Fail, Start_Fill, Start_FillIoctl, Stop,
         Stop_Call, Stop_Wait, Stop_Next, Stop_End, AppAt
    <3>2. ~DeInitialize \/ DeInitialize_Begin
      BY <2>1 DEF DeInitialize, DeInitialize_Call, DeInitialize_Wait, DeInitialize_Free,
         DeInitialize_Close, DeInitialize_End, AppAt
    <3>3. ~Initialize \/ Initialize_Refuse \/ Initialize_BadConfig \/ Initialize_Begin
      BY <2>1 DEF Initialize, Initialize_Open, Initialize_SetBuffer, Initialize_Load,
         Initialize_Wait, Initialize_PostFail, Initialize_Fail, Initialize_End, AppAt
    <3>4. ~InitCmdCompleted
      BY <2>1 DEF InitCmdCompleted, Calling
    <3> QED BY <1>2, <3>1, <3>2, <3>3, <3>4 DEF Lifecycle
  <2>3. ~DeInitialize_Begin
    BY <2>1 DEF DeInitialize_Begin, DeInitialize_Enter
  <2> QED BY <2>1, <2>2, <2>3 DEF Initialize_Refuse, Initialize_BadConfig, Initialize_Begin, Stop_Begin
<1> QED BY <1>1, <1>2, StepChanges DEF Changes

LEMMA OnlyStreamReconfigures ==
  ASSUME TypeInv, [Next]_vars, ~Device_Reconfig, cb'.pc = "reconfig"
  PROVE  cb.pc = "reconfig"
<1>1. CASE UNCHANGED cb
  BY <1>1
<1>2. CASE Callback \/ Device
  <2>1. cb.pc = "idle"
    <3>1. CbEffect
      BY <1>2, CbEffects
    <3> QED BY <3>1 DEF CbEffect, CbMoves, CbWrites, Finishing
  <2>2. DoneStep \/ Device_Answer \/ Device_Fatal
    BY <1>2, <2>1 DEF Callback, Device, DoneStep, FrameDone, Answer, Event_Read, Event_Write,
       HandleOutputReconfig, Reconfig_StartOutput, Output_Started, FinishOutputReconfig,
       Finish_End, Finish_State, Finish_Slot, Finish_Ioctl
  <2>3. cb'.pc \in {"done", "answer", "write"}
    <3>1. ASSUME NEW d \in Dir, NEW b \in Buffers(d), Device_Done(d, b) PROVE cb'.pc = "done"
      BY <3>1 DEF Device_Done
    <3>2. Device_Answer \/ Device_Fatal => cb'.pc \in {"answer", "write"}
      BY DEF Device_Answer, Device_Fatal, NoCb
    <3> QED BY <2>2, <3>1, <3>2 DEF DoneStep
  <2> QED BY <2>3
<1> QED BY <1>1, <1>2, StepChanges DEF Changes

\* Start leaves the listed output buffers to the node.
LEMMA StartKeeps ==
  ASSUME TypeInv, DriverInv, Dormant, Start_Begin, [Next]_vars
  PROVE  AllKept' /\ Unasked'
<1>1. /\ UNCHANGED <<config, list, cb, queued, started, cmds>> /\ worker' = worker /\ Quiet
      /\ client' = [client EXCEPT !["out"] = @ \ ToSet(list["out"])]
      /\ client = [d \in Dir |-> client[d]]
  BY StepChanges DEF Start_Begin, driver, Changes, TypeInv, ClientOK
<1>2. list["out"] \in Seq(Buffers("out")) /\ config.buffers["out"] \in Nat
  BY BufferFacts DEF TypeInv, ListsOK, Dir
<1>3. ASSUME NEW b \in ToSet(list["out"]) PROVE Kept(b)'
  <2>1. b \in Buffers("out") /\ b # 0
    BY <1>2 DEF ToSet, Buffers
  <2>2. b \notin client'["out"]
    BY <1>1 DEF Dir
  <2>3. queued["out"][b] = 0
    BY <2>1 DEF Dormant, Returned
  <2>4. \A w \in Workers : b \notin HeldBy(w, "out")
    BY <1>1, <2>1 DEF Quiet, Idle, HeldBy
  <2> QED BY <1>1, <2>2, <2>3, <2>4 DEF Kept, Dormant, HeldBy, Buffers
<1>4. AllKept'
  BY <1>1, <1>3 DEF AllKept, ToSet
<1>5. Unasked
  BY DEF Dormant, DriverInv, Unasked
<1> QED BY <1>1, <1>4, <1>5 DEF Unasked, Listing

LEMMA StreamingKept ==
  ASSUME TypeInv, StaticDecoder, DriverInv, CallsInv, StaticInv, [Next]_vars,
         reconfigs' = 0, Streaming'
  PROVE  AllKept' /\ Unasked'
<1>1. CASE Start_Begin
  <2>1. Dormant
    BY <1>1 DEF Start_Begin, AppAt, StaticInv, AtRest
  <2> QED BY <1>1, <2>1, StartKeeps
<1>2. CASE ~Start_Begin
  <2>1. reconfigs = 0 /\ ~Device_Reconfig
    <3>1. reconfigs \in Nat /\ reconfigs' # reconfigs + 1
      BY DEF StaticInv
    <3>2. ~Device_Reconfig
      BY <3>1 DEF Device_Reconfig
    <3> QED BY <1>2, <3>2, ReconfigsCounted
  <2>2. Streaming
    BY <1>2, ListingGrows, StartedGrows, OnlyStartStarts DEF Streaming, StaticDecoder
  <2>3. AllKept /\ Unasked
    BY <2>1, <2>2 DEF StaticInv
  <2>4. ~CloseStep
    <3> SUFFICES ASSUME CloseStep PROVE ~Streaming'
      OBVIOUS
    <3>1. cmds' = <<>> /\ started' = {}
      BY DEF CloseStep, Initialize_Open, DeInitialize_Close, CloseDriver, EndSession
    <3>2. app.pc \notin {"start_reset", "start_call"}
      BY DEF CloseStep, Initialize_Open, DeInitialize_Close, AppAt
    <3>3. 1 .. Len(cmds') = {}
      BY <3>1
    <3> QED BY <1>2, <3>1, <3>2, <3>3, OnlyStartStarts DEF Streaming, Listing
  <2>5. ~Initialize_SetBuffer
    <3> SUFFICES ASSUME app.pc = "init_set" PROVE ~Streaming
      BY <2>2 DEF Initialize_SetBuffer, AppAt
    <3> QED BY NothingListed DEF DriverInv, Streaming
  <2>6. AllKept'
    BY <2>3, <2>4, <2>5, AllStayKept DEF Unasked
  <2>7. ~Listing("START_OUT")'
    BY <2>3, ListingGrows DEF Unasked, StaticDecoder
  <2>8. cb'.pc # "reconfig"
    BY <2>1, <2>3, OnlyStreamReconfigures DEF Unasked
  <2>9. /\ cb'.pc \notin {"start_output", "output_started"} \cup Finishing
        /\ ~(cb'.pc \in {"answer", "event"} /\ cb'.what = "START_OUT")
    <3>1. CASE UNCHANGED cb
      BY <2>3, <3>1 DEF Unasked
    <3>2. CASE CbEffect
      <4>1. cmds # <<>> => Listing(Head(cmds))
        <5>1. cmds \in Seq(Commands)
          BY DEF TypeInv, MiscInv
        <5>2. cmds # <<>> => Len(cmds) \in Nat \ {0} /\ Head(cmds) = cmds[1]
          BY <5>1
        <5>3. cmds # <<>> => 1 \in 1 .. Len(cmds)
          BY ONLY <5>2
        <5> QED BY <5>2, <5>3 DEF Listing
      <4>2. cmds # <<>> => Head(cmds) # "START_OUT"
        BY <2>3, <4>1 DEF Unasked
      <4> QED BY <2>3, <3>2, <4>2 DEF Unasked, CbEffect, CbMoves, CbWrites, Finishing
    <3> QED BY <3>1, <3>2, StepEffects DEF CallEffect, ControlVars
  <2> QED BY <2>6, <2>7, <2>8, <2>9 DEF Unasked
<1> QED BY <1>1, <1>2

LEMMA ReconfigurationKept ==
  ASSUME TypeInv, StaticDecoder, SteadyStream, DriverInv, StaticInv, [Next]_vars,
         cb'.pc = "reconfig"
  PROVE  AllKept'
<1>1. CASE cb.pc = "reconfig"
  <2>1. AllKept /\ cb.pc \notin Finishing
    BY <1>1 DEF StaticInv, Finishing
  <2>2. ~CloseStep
    BY <1>1 DEF CloseStep, Initialize_Open, DeInitialize_Close, CloseDriver,
       EndSession, CbIdle
  <2>3. ~Initialize_SetBuffer
    BY <1>1 DEF Initialize_SetBuffer, AppAt, DriverInv
  <2> QED BY <2>1, <2>2, <2>3, AllStayKept
<1>2. CASE cb.pc # "reconfig"
  <2>1. Device_Reconfig
    BY <1>2, OnlyStreamReconfigures
  <2>2. reconfigs = 0
    <3>1. config.reconfigs \in Nat
      BY VideoAssumption DEF TypeInv, MiscInv, IsConfig
    <3> QED BY <2>1, <3>1 DEF Device_Reconfig, SteadyStream, StaticInv
  <2>3. AllKept
    BY <2>1, <2>2 DEF Device_Reconfig, StaticInv, Streaming
  <2>4. UNCHANGED <<config, list, queued, client, worker>>
    BY <2>1, StepChanges DEF Device_Reconfig, node, driver, Changes
  <2> QED BY <2>3, <2>4 DEF AllKept, Kept, HeldBy, Buffers, ToSet
<1> QED BY <1>1, <1>2

LEMMA StaticStep ==
  ASSUME TypeInv, StaticDecoder, SteadyStream, DriverInv, CallsInv, CallsInv', EventsInv,
         EventsInv', StaticInv, [Next]_vars
  PROVE  StaticInv'
<1>1. reconfigs' \in Nat
  BY ReconfigsCounted DEF StaticInv
<1>2. TimelyDecoder
  BY DEF StaticDecoder
<1> QED BY <1>1, <1>2, RestKept, OrderKept, StreamingKept, ReconfigurationKept DEF StaticInv

-----------------------------------------------------------------------------
(* The invariants together. *)

Guided == Encoder \/ config.dynamic = Dir
          \/ (TimelyDecoder /\ (Static("out") => config.disciplined))
SubmitInv ==
  /\ DriverInv
  /\ Encoder => EncoderInv
  /\ TimelyDecoder => CallsInv /\ EventsInv
  /\ Encoder \/ TimelyDecoder => Calm
  /\ StaticDecoder /\ SteadyStream => StaticInv
  /\ Guided /\ SteadyStream => PlaceInv

LEMMA SubmitInit == Init => SubmitInv
BY DriverInit, EncoderInit, CallsInit, CalmInit, StaticInit, PlaceInit DEF SubmitInv

LEMMA SubmitStep == TypeInv /\ SubmitInv /\ [Next]_vars => SubmitInv'
<1> SUFFICES ASSUME TypeInv, SubmitInv, [Next]_vars PROVE SubmitInv'
  OBVIOUS
<1>1. UNCHANGED config
  BY StepEffects
<1>2. UNCHANGED <<Encoder, TimelyDecoder, StaticDecoder, SteadyStream, Guided>>
  BY <1>1 DEF Encoder, TimelyDecoder, StaticDecoder, SteadyStream, Guided, Static
<1>3. DriverInv /\ DriverInv'
  BY DriverStep DEF SubmitInv
<1>4. Encoder => EncoderInv'
  BY EncoderStep DEF SubmitInv
<1>5. TimelyDecoder => CallsInv'
  BY CallsStep DEF SubmitInv
<1>6. TimelyDecoder => EventsInv'
  BY <1>3, <1>5, EventsStep DEF SubmitInv
<1>7. Encoder \/ TimelyDecoder => Calm'
  BY <1>3, CalmStep DEF SubmitInv, TimelyDecoder
<1>8. StaticDecoder /\ SteadyStream => StaticInv'
  BY <1>3, <1>5, <1>6, StaticStep DEF SubmitInv, StaticDecoder
<1>9. Guided /\ SteadyStream => PlaceInv'
  <2> SUFFICES ASSUME Guided, SteadyStream PROVE PlaceInv'
    OBVIOUS
  <2>1. config.dynamic = Dir \/ Calm
    BY DEF SubmitInv, Guided
  <2>2. cb.pc = "reconfig" /\ Static("out") => AllKept
    <3> SUFFICES ASSUME cb.pc = "reconfig", Static("out") PROVE AllKept
      OBVIOUS
    <3>1. ~Encoder /\ config.dynamic # Dir
      BY <1>3 DEF DriverInv, Static, Dir
    <3>2. StaticDecoder
      BY <3>1 DEF Guided, StaticDecoder
    <3> QED BY <3>2 DEF SubmitInv, StaticInv
  <2> QED BY <1>3, <2>1, <2>2, PlaceStep DEF SubmitInv
<1> QED BY <1>2, <1>3, <1>4, <1>5, <1>6, <1>7, <1>8, <1>9 DEF SubmitInv

LEMMA SubmitAlways == Spec => []SubmitInv
<1>1. TypeInv /\ SubmitInv /\ [Next]_vars => SubmitInv'
  BY SubmitStep
<1> QED BY <1>1, TypesAlways, SubmitInit, PTL DEF Spec

\* How often a buffer is counted.
LEMMA FlightCounts ==
  ASSUME TypeInv, NEW d \in Dir, NEW b \in Buffers(d), Here(d, b)
  PROVE  InFlight(d, b) <= 1 /\ (InFlight(d, b) > 0 <=> ~Free(d, b))
<1> DEFINE Back   == cb.pc = "done" /\ cb.d = d /\ cb.k = b
           There  == cb.pc = "ioctl" /\ d = "out" /\ list[d][cb.k] = b
           Filled == AppAt("fill_ioctl") /\ d = "out" /\ ToFill[app.k + 1] = b
           W      == { w \in Workers : /\ worker[w].pc = "ioctl"
                                       /\ worker[w].d = d /\ worker[w].b = b }
<1>1. InFlight(d, b) = queued[d][b] + Count(Back) + Count(There) + Count(Filled) + Cardinality(W)
  BY DEF InFlight
<1>2. queued[d][b] \in Nat
  BY DEF TypeInv, QueuedOK
<1>3. /\ InCb(d, b) <=> Back \/ There
      /\ ~(Back /\ There)
      /\ InApp(d, b) <=> Filled
      /\ \A w \in Workers : InWorker(w, d, b) <=> w \in W
      /\ W \subseteq Workers
  BY DEF InCb, InApp, InWorker, AppAt
<1> HIDE DEF Back, There, Filled, W
<1>4. /\ Count(Back) = IF Back THEN 1 ELSE 0
      /\ Count(There) = IF There THEN 1 ELSE 0
      /\ Count(Filled) = IF Filled THEN 1 ELSE 0
  BY DEF Count
<1>5. NoWorker(d, b) => Cardinality(W) = 0
  <2>1. NoWorker(d, b) => W = {}
    BY <1>3 DEF NoWorker
  <2> QED BY <2>1, FS_EmptySet
<1>6. ASSUME NEW v \in Workers, AtWorker(v, d, b) PROVE Cardinality(W) = 1
  <2>1. W = {v}
    BY <1>3, <1>6 DEF AtWorker
  <2> QED BY <2>1, FS_Singleton
<1>7. CASE Free(d, b)
  BY <1>1, <1>3, <1>4, <1>5, <1>7 DEF Free
<1>8. CASE Placed(d, b)
  <2>1. ~Free(d, b)
    BY <1>8, PlacedNotFree
  <2>2. CASE AtDriver(d, b)
    BY <1>1, <1>3, <1>4, <1>5, <2>1, <2>2 DEF AtDriver
  <2>3. CASE AtCb(d, b)
    BY <1>1, <1>3, <1>4, <1>5, <2>1, <2>3 DEF AtCb
  <2>4. CASE AtApp(d, b)
    BY <1>1, <1>3, <1>4, <1>5, <2>1, <2>4 DEF AtApp
  <2>5. ASSUME NEW v \in Workers, AtWorker(v, d, b)
        PROVE  InFlight(d, b) = 1
    BY <1>1, <1>3, <1>4, <1>6, <2>5 DEF AtWorker
  <2> QED BY <1>8, <2>1, <2>2, <2>3, <2>4, <2>5 DEF Placed
<1> QED BY <1>7, <1>8 DEF Here

(***************************************************************************)
(* The configurations the theorems below are about: encoders; decoders     *)
(* whose buffers are all dynamic; and, when a list of buffers is set,      *)
(* decoders whose driver answers in time - with static output, of an       *)
(* application that submits only buffers it holds.                         *)
(***************************************************************************)
Steered ==
  \A c \in Configs : \/ c.encoder
                     \/ c.dynamic = Dir
                     \/ c.timely /\ ("out" \notin c.dynamic => c.disciplined)

LEMMA Steering == ASSUME Steered, TypeInv, SubmitInv, SteadyStream PROVE PlaceInv
<1>1. config \in Configs
  BY DEF TypeInv, MiscInv
<1>2. Guided
  BY <1>1 DEF Steered, Guided, Encoder, TimelyDecoder, Static
<1> QED BY <1>2 DEF SubmitInv

(***************************************************************************)
(* ProcessFrameDescriptor, VideoEncoder::Start and FinishOutputReconfig    *)
(* look at bUsedFlag and set it in one critical section, and submit after  *)
(* it; SetBuffer resets the flags of a whole list.  The driver never gets  *)
(* a buffer it has, and is never about to get it twice: whatever the       *)
(* threads submit and in whatever order, whatever the driver refuses, and  *)
(* however often the node is stopped, closed and initialized again.        *)
(***************************************************************************)
THEOREM BuffersGoOnce == ASSUME Steered PROVE Spec => []NoDoubleSubmit
<1>1. TypeInv /\ SubmitInv => NoDoubleSubmit
  <2> SUFFICES ASSUME TypeInv, SubmitInv, SteadyStream, NEW d \in Dir, NEW b \in Buffers(d)
               PROVE  InFlight(d, b) <= 1
    BY DEF NoDoubleSubmit
  <2> QED BY Steering, FlightCounts DEF PlaceInv
<1> QED BY <1>1, TypesAlways, SubmitAlways, PTL

(***************************************************************************)
(* bUsedFlag of a buffer is set exactly while the driver has it, or it is  *)
(* on its way there or back - so that no buffer is locked out for good -   *)
(* but for those the driver had when its session was closed or returned in *)
(* a message that is not understood.                                       *)
(***************************************************************************)
THEOREM FlagsFollowDriver == ASSUME Steered PROVE Spec => []SlotsMatchDriver
<1>1. TypeInv /\ SubmitInv => SlotsMatchDriver
  <2> SUFFICES ASSUME TypeInv, SubmitInv, SteadyStream, NEW d \in Dir,
                      NEW b \in Buffers(d) \ stuck[d]
               PROVE  b \in used[d] <=> InFlight(d, b) > 0
    BY DEF SlotsMatchDriver
  <2>1. Here(d, b)
    BY Steering DEF PlaceInv
  <2>2. InFlight(d, b) > 0 <=> ~Free(d, b)
    BY <2>1, FlightCounts
  <2>3. Placed(d, b) => ~Free(d, b)
    BY PlacedNotFree
  <2> QED BY <2>1, <2>2, <2>3 DEF Here
<1> QED BY <1>1, TypesAlways, SubmitAlways, PTL

=============================================================================
