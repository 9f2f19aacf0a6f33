------------------------------ MODULE VideoCodec ------------------------------
(***************************************************************************)
(* The video encoder and the video decoder node: VideoEncoder.cpp,         *)
(* VideoDecoder.cpp, their base VidcNodeBase.cpp and the client of the     *)
(* codec driver, VidcDrvClient.cpp.  One application thread makes the      *)
(* lifecycle calls; Workers submit frames with ProcessFrameDescriptor; the *)
(* driver executes its commands in order and runs one callback at a time   *)
(* on its own thread.                                                      *)
(*                                                                         *)
(* m_inLock and m_outLock protect the maps of buffers and nothing else:    *)
(* m_state and m_cmdCompleted are read and written by every thread, each   *)
(* access one step.  Lifecycle calls wait by polling, and give up.         *)
(***************************************************************************)
EXTENDS Integers, Sequences, FiniteSets

CONSTANTS
  Configs,   \* the configurations of the node that are considered
  Workers    \* threads that submit frames

Dir == {"in", "out"}

(***************************************************************************)
(* A configuration: what Initialize is given, and how driver and           *)
(* application behave.                                                     *)
(*   encoder      an encoder; a decoder otherwise                          *)
(*   dynamic      directions in dynamic mode                               *)
(*   slots        numInputBufferReq and numOutputBufferReq                 *)
(*   buffers      buffers of the application in each direction             *)
(*   mayFail      the calls of the driver that may fail                    *)
(*   timely       the driver answers before a wait gives up                *)
(*   fatal        the driver may report a fatal error, once                *)
(*   reconfigs    output reconfigurations of the stream after each Start   *)
(*   disciplined  the application submits only buffers it holds, and calls *)
(*                DeInitialize of a node that is READY or in ERROR         *)
(*   maxInits, maxStarts   bounds on the calls of Initialize and Start     *)
(***************************************************************************)
IsConfig(c) ==
  /\ {c.encoder, c.timely, c.fatal, c.disciplined} \subseteq BOOLEAN
  /\ c.dynamic \subseteq Dir
  /\ \A d \in Dir : /\ c.slots[d] \in Nat \ {0}
                    /\ c.buffers[d] \in Nat
                    /\ d \notin c.dynamic => c.slots[d] = c.buffers[d]
  /\ {c.reconfigs, c.maxInits, c.maxStarts} \subseteq Nat

ASSUME VideoAssumption == \A c \in Configs : IsConfig(c)

VARIABLES
  config,         \* the configuration, chosen once
  state,          \* m_state
  open,           \* m_pIoHandle is not nullptr
  cmdCompleted,   \* m_cmdCompleted
  list,           \* m_inputBufferList, m_outputBufferList
  dynamicMode,    \* m_bInputDynamicMode, m_bOutputDynamicMode
  map,            \* keys of m_inputMap, m_outputMap
  used,           \* those whose bUsedFlag is set
  reconfiguring,  \* m_OutputReconfigInprogress
  session,        \* driver: state of the session of the handle
  started,        \* driver: ports that are started
  cmds,           \* driver: commands it has not answered
  queued,         \* driver: how often it has each buffer
  client,         \* buffers the application holds
  app,            \* the lifecycle call in progress
  cb,             \* the driver callback in progress
  worker,         \* the ProcessFrameDescriptor call of each worker
  inits, starts, reconfigs, fatals,   \* calls and events so far
  stuck,          \* history: flags the driver will not have reset
  crossed,        \* history: a reconfiguration reset m_cmdCompleted during a wait
  missed          \* history: a wait gave up although the driver is timely

node    == <<state, open, list, dynamicMode, reconfiguring>>
slots   == <<map, used>>
driver  == <<session, started, cmds, queued>>
budget  == <<inits, starts, reconfigs, fatals>>
history == <<stuck, crossed, missed>>
vars == <<config, node, cmdCompleted, slots, driver, client, app, cb, worker,
          budget, history>>

States == { "INITIAL", "INITIALIZING", "READY", "STARTING", "RUNNING",
            "STOPING", "DEINITIALIZING", "ERROR" }

Encoder     == config.encoder
Static(d)   == d \notin config.dynamic
Buffers(d)  == 1 .. config.buffers[d]
Outcome(call) == IF call \in config.mayFail THEN BOOLEAN ELSE {TRUE}

ToSet(s) == { s[i] : i \in DOMAIN s }
Listed   == [d \in Dir |-> IF Static(d) THEN [i \in Buffers(d) |-> i] ELSE <<>>]
All      == [d \in Dir |-> Buffers(d)]
None     == [d \in Dir |-> {}]
Empty    == [d \in Dir |-> <<>>]
Nothing  == [d \in Dir |-> [b \in Buffers(d) |-> 0]]

Idle    == [pc |-> "idle", d |-> "in", b |-> 0, next |-> 0]
Quiet   == \A w \in Workers : worker[w] = Idle
NoCb    == [pc |-> "idle", d |-> "in", k |-> 0, what |-> "NONE"]
CbIdle  == cb.pc = "idle"

Init ==
  /\ config \in Configs
  /\ state = "INITIAL"
  /\ open = FALSE
  /\ cmdCompleted = "NONE"
  /\ list = Empty
  /\ dynamicMode = Dir
  /\ map = None
  /\ used = None
  /\ reconfiguring = FALSE
  /\ session = "CLOSED"
  /\ started = {}
  /\ cmds = <<>>
  /\ queued = Nothing
  /\ client = All
  /\ app = [pc |-> "idle", k |-> 0]
  /\ cb = NoCb
  /\ worker = [w \in Workers |-> Idle]
  /\ inits = 0 /\ starts = 0 /\ reconfigs = 0 /\ fatals = 0
  /\ stuck = None
  /\ crossed = FALSE
  /\ missed = FALSE

-----------------------------------------------------------------------------
(* Frames: the slots of the maps and the buffers of the driver *)

\* Mutant: one buffer more than there are slots.
SlotFree_OffByOne(d, b) ==
  \/ b \in map[d] /\ b \notin used[d]
  \/ b \notin map[d] /\ d \in dynamicMode
                     /\ Cardinality(map[d]) <= config.slots[d]

\* Mutant: bUsedFlag of a known buffer is not looked at.
SlotFree_IgnoresFlag(d, b) ==
  \/ b \in map[d]
  \/ b \notin map[d] /\ d \in dynamicMode
                     /\ Cardinality(map[d]) < config.slots[d]

(* A buffer may be submitted: known and not used, or new to a dynamic map. *)
SlotFree(d, b) ==
  \/ b \in map[d] /\ b \notin used[d]
  \/ b \notin map[d] /\ d \in dynamicMode
                     /\ Cardinality(map[d]) < config.slots[d]

TakeSlot(d, b) ==
  /\ map' = [map EXCEPT ![d] = @ \union {b}]
  /\ used' = [used EXCEPT ![d] = @ \union {b}]

\* Mutant: a failed ioctl leaves the flag set.
ResetSlot_Forgotten(d, b) == UNCHANGED <<map, used, stuck>>

ResetSlot(d, b) ==
  /\ used' = [used EXCEPT ![d] = @ \ {b}]
  /\ stuck' = [stuck EXCEPT ![d] = @ \ {b}]
  /\ UNCHANGED map

(* The driver takes frames of a session with a started port. *)
Takes == IF session = "LOADED" /\ started # {} THEN Outcome("Frame") ELSE {FALSE}

Queue(d, b)  == queued' = [queued EXCEPT ![d][b] = @ + 1]
Return(d, b) == client' = [client EXCEPT ![d] = @ \union {b}]

(* EMPTY_INPUT_BUFFER or FILL_OUTPUT_BUFFER with a buffer whose slot is taken. *)
SubmitFrame(d, b, ok) ==
  IF ok THEN Queue(d, b) /\ UNCHANGED <<slots, stuck, client>>
        ELSE ResetSlot(d, b) /\ Return(d, b) /\ UNCHANGED queued

(* What the calls of the workers have of the buffers of d. *)
HeldBy(w, d) == { b \in Buffers(d) :
                    \/ worker[w].d = d /\ worker[w].b = b
                    \/ d = "out" /\ worker[w].next = b }
Submitting(d) == UNION { HeldBy(w, d) : w \in Workers }

-----------------------------------------------------------------------------
(* Driver commands: InitCmdCompleted, the ioctl, WaitForCmdCompleted *)

AppAt(pc)   == app.pc = pc
Goto(pc)    == app' = [app EXCEPT !.pc = pc]

(* Where a call goes on after InitCmdCompleted. *)
Calling == [ init_reset   |-> "init_load",  start_reset  |-> "start_call",
             stop_reset   |-> "stop_call",  deinit_reset |-> "deinit_call" ]

InitCmdCompleted ==
  /\ app.pc \in DOMAIN Calling
  /\ cmdCompleted' = "NONE"
  /\ Goto(Calling[app.pc])
  /\ UNCHANGED <<config, node, slots, driver, client, cb, worker, budget, history>>

(* The command c goes to the driver, or its ioctl fails. *)
Command(c, pc, failPc) ==
  \E ok \in Outcome(c) :
    IF ok /\ session # "CLOSED"
    THEN cmds' = Append(cmds, c) /\ Goto(pc)
    ELSE UNCHANGED cmds /\ Goto(failPc)

(* A poll gives up when nothing can come any more, or at any time. *)
GivesUp == ~config.timely \/ (cmds = <<>> /\ CbIdle)

AwaitCmd(c, pc, failPc) ==
  \/ cmdCompleted = c /\ Goto(pc) /\ UNCHANGED missed
  \/ /\ cmdCompleted # c /\ GivesUp
     /\ Goto(failPc)
     /\ missed' = (missed \/ config.timely)

AwaitState(s, pc, failPc) ==
  \/ state = s /\ Goto(pc)
  \/ state # s /\ GivesUp /\ Goto(failPc)

(* A session ends with whatever it has; the flags of its buffers stay set. *)
EndSession ==
  /\ CbIdle
  /\ started' = {}
  /\ cmds' = <<>>
  /\ queued' = Nothing
  /\ stuck' = used

(***************************************************************************)
(* CloseDriver: device_close waits for the callback in progress; what the  *)
(* driver had is the application's again.                                  *)
(***************************************************************************)
CloseDriver ==
  /\ EndSession
  /\ open' = FALSE
  /\ session' = "CLOSED"
  /\ client' = [d \in Dir |-> Buffers(d) \ Submitting(d)]

-----------------------------------------------------------------------------
(* Initialize *)

(***************************************************************************)
(* Not in the INITIAL state: the buffers are freed, the lists cleared, and *)
(* the node is left in ERROR.  (Called when no callback uses the lists.)   *)
(***************************************************************************)
Initialize_Refuse ==
  /\ AppAt("idle") /\ Quiet /\ CbIdle
  /\ inits < config.maxInits
  /\ state # "INITIAL"
  /\ inits' = inits + 1
  /\ list' = Empty
  /\ state' = "ERROR"
  /\ reconfiguring' = (Encoder /\ reconfiguring)
  /\ UNCHANGED <<config, open, dynamicMode, cmdCompleted, slots, driver, client,
                 app, cb, worker, starts, reconfigs, fatals, history>>

Initialize_BadConfig ==
  /\ AppAt("idle")
  /\ "Config" \in config.mayFail
  /\ inits < config.maxInits
  /\ state = "INITIAL"
  /\ inits' = inits + 1
  /\ list' = Empty
  /\ state' = "ERROR"
  /\ reconfiguring' = FALSE
  /\ UNCHANGED <<config, open, dynamicMode, cmdCompleted, slots, driver, client,
                 app, cb, worker, starts, reconfigs, fatals, history>>

Initialize_Begin ==
  /\ AppAt("idle") /\ Quiet
  /\ inits < config.maxInits
  /\ state = "INITIAL"
  /\ inits' = inits + 1
  /\ state' = "INITIALIZING"
  /\ reconfiguring' = FALSE
  /\ Goto("init_open")
  /\ UNCHANGED <<config, open, list, dynamicMode, cmdCompleted, slots, driver,
                 client, cb, worker, starts, reconfigs, fatals, history>>

(***************************************************************************)
(* OpenDriver, the properties of the session, NegotiateBufferReq.  A       *)
(* handle that is still open is overwritten, and its session lost.         *)
(***************************************************************************)
Initialize_Open ==
  /\ AppAt("init_open")
  /\ EndSession
  /\ \E opened \in Outcome("Open"), ok \in Outcome("Properties") :
       /\ open' = opened
       /\ session' = IF opened THEN "OPEN" ELSE "CLOSED"
       /\ Goto(IF opened /\ ok THEN "init_set" ELSE "init_fail")
  /\ UNCHANGED <<config, state, list, dynamicMode, reconfiguring, cmdCompleted,
                 slots, client, cb, worker, budget, crossed, missed>>

(***************************************************************************)
(* AllocateBuffer appends the given buffers to the lists, which            *)
(* DeInitialize has not cleared; SetBuffer enters them into the map, or    *)
(* resets their flags.  A decoder sets its output at the reconfiguration.  *)
(***************************************************************************)
SetBuffer(D) ==
  /\ dynamicMode' = (dynamicMode \ D) \union (D \intersect config.dynamic)
  /\ map' = [d \in Dir |-> IF d \in D THEN map[d] \union ToSet(list'[d]) ELSE map[d]]
  /\ used' = [d \in Dir |-> IF d \in D THEN used[d] \ ToSet(list'[d]) ELSE used[d]]
  /\ stuck' = [d \in Dir |-> IF d \in D THEN stuck[d] \ ToSet(list'[d]) ELSE stuck[d]]

Initialize_SetBuffer ==
  /\ AppAt("init_set")
  /\ list' = [d \in Dir |-> list[d] \o Listed[d]]
  /\ \E ok \in Outcome("SetBuffer") :
       IF ok THEN SetBuffer(IF Encoder THEN Dir ELSE {"in"}) /\ Goto("init_reset")
             ELSE UNCHANGED <<dynamicMode, slots, stuck>> /\ Goto("init_fail")
  /\ UNCHANGED <<config, state, open, reconfiguring, cmdCompleted, driver,
                 client, cb, worker, budget, crossed, missed>>

(* PostInit: LoadResources, then WaitForState( READY ). *)
Initialize_Load ==
  /\ AppAt("init_load")
  /\ Command("LOAD", "init_wait", "post_fail")
  /\ UNCHANGED <<config, node, cmdCompleted, slots, session, started, queued,
                 client, cb, worker, budget, history>>

Initialize_Wait ==
  /\ \/ AppAt("init_wait") /\ AwaitCmd("LOAD", "init_ready", "post_fail")
     \/ AppAt("init_ready") /\ AwaitState("READY", "idle", "post_fail")
                            /\ UNCHANGED missed
  /\ UNCHANGED <<config, node, cmdCompleted, slots, driver, client, cb, worker,
                 budget, stuck, crossed>>

(* A failed PostInit cleans up before it returns (app.k = 1), *)
Initialize_PostFail ==
  /\ AppAt("post_fail")
  /\ state' = "ERROR"
  /\ app' = [pc |-> "cleanup", k |-> 1]
  /\ UNCHANGED <<config, open, list, dynamicMode, reconfiguring, cmdCompleted,
                 slots, driver, client, cb, worker, budget, history>>

(***************************************************************************)
(* and a failed Initialize does (app.k = 2): it frees and forgets the      *)
(* buffers, and makes DeInitialize from ERROR, or whatever state an event  *)
(* has stored since, and then ERROR again.                                 *)
(***************************************************************************)
Initialize_Fail ==
  /\ AppAt("init_fail")
  /\ list' = Empty
  /\ state' = "ERROR"
  /\ app' = [pc |-> "cleanup", k |-> 2]
  /\ UNCHANGED <<config, open, dynamicMode, reconfiguring, cmdCompleted, slots,
                 driver, client, cb, worker, budget, history>>

Initialize_End ==
  /\ AppAt("init_end")
  /\ state' = "ERROR"
  /\ app' = [pc |-> "idle", k |-> 0]
  /\ UNCHANGED <<config, open, list, dynamicMode, reconfiguring, cmdCompleted,
                 slots, driver, client, cb, worker, budget, history>>

Initialize ==
  \/ Initialize_Refuse \/ Initialize_BadConfig \/ Initialize_Begin
  \/ Initialize_Open \/ Initialize_SetBuffer \/ Initialize_Load
  \/ Initialize_Wait \/ Initialize_PostFail \/ Initialize_Fail \/ Initialize_End

-----------------------------------------------------------------------------
(* Start *)

(***************************************************************************)
(* The application leaves the listed output buffers to the node, which     *)
(* submits them itself.                                                    *)
(***************************************************************************)
Start_Begin ==
  /\ AppAt("idle") /\ Quiet
  /\ starts < config.maxStarts
  /\ state = "READY"
  /\ starts' = starts + 1
  /\ reconfigs' = 0
  /\ state' = "STARTING"
  /\ client' = [client EXCEPT !["out"] = @ \ ToSet(list["out"])]
  /\ Goto("start_reset")
  /\ UNCHANGED <<config, open, list, dynamicMode, reconfiguring, cmdCompleted,
                 slots, driver, cb, worker, inits, fatals, history>>

StartCommand == IF Encoder THEN "START_ALL" ELSE "START_IN"

Start_Call ==
  /\ AppAt("start_call")
  /\ Command(StartCommand, "start_wait", "start_fail")
  /\ UNCHANGED <<config, node, cmdCompleted, slots, session, started, queued,
                 client, cb, worker, budget, history>>

Start_Wait ==
  /\ \/ /\ AppAt("start_wait")
        /\ AwaitCmd(StartCommand, "start_running", "start_fail")
     \/ /\ AppAt("start_running")
        /\ AwaitState("RUNNING", "fill", "start_fail")
        /\ UNCHANGED missed
  /\ UNCHANGED <<config, node, cmdCompleted, slots, driver, client, cb, worker,
                 budget, stuck, crossed>>

Start_Fail ==
  /\ AppAt("start_fail")
  /\ state' = "ERROR"
  /\ Goto("idle")
  /\ UNCHANGED <<config, open, list, dynamicMode, reconfiguring, cmdCompleted,
                 slots, driver, client, cb, worker, budget, history>>

(***************************************************************************)
(* VideoEncoder::Start submits every listed output buffer; one that is     *)
(* refused is the application's again.                                     *)
(***************************************************************************)
ToFill == IF Encoder THEN list["out"] ELSE <<>>

Start_Fill ==
  /\ AppAt("fill")
  /\ LET b == ToFill[app.k + 1]
     IN  \/ app.k = Len(ToFill) /\ app' = [app EXCEPT !.pc = "idle", !.k = 0]
                               /\ UNCHANGED <<slots, client>>
         \/ /\ app.k < Len(ToFill)
            /\ SlotFree("out", b)
            /\ TakeSlot("out", b)
            /\ Goto("fill_ioctl")
            /\ UNCHANGED client
         \/ /\ app.k < Len(ToFill)
            /\ ~SlotFree("out", b)
            /\ Return("out", b)
            /\ app' = [app EXCEPT !.k = @ + 1]
            /\ UNCHANGED slots
  /\ UNCHANGED <<config, node, cmdCompleted, driver, cb, worker, budget, history>>

Start_FillIoctl ==
  /\ AppAt("fill_ioctl")
  /\ \E ok \in Takes : SubmitFrame("out", ToFill[app.k + 1], ok)
  /\ app' = [app EXCEPT !.pc = "fill", !.k = @ + 1]
  /\ UNCHANGED <<config, node, cmdCompleted, session, started, cmds, cb, worker,
                 budget, crossed, missed>>

Start == \/ Start_Begin \/ Start_Call \/ Start_Wait \/ Start_Fail
         \/ Start_Fill \/ Start_FillIoctl

-----------------------------------------------------------------------------
(* Stop *)

\* Mutant: the output port is not stopped.
StopCommands_InputOnly == IF Encoder THEN <<"STOP">> ELSE <<"DRAIN", "STOP_IN">>

(* What StopEncoder and StopDecoder ask of the driver, one after the other. *)
StopCommands == IF Encoder THEN <<"STOP">> ELSE <<"DRAIN", "STOP_IN", "STOP_OUT">>

Stop_Begin ==
  /\ AppAt("idle")
  /\ state = "RUNNING"
  /\ state' = "STOPING"
  /\ app' = [pc |-> "stop_reset", k |-> 1]
  /\ UNCHANGED <<config, open, list, dynamicMode, reconfiguring, cmdCompleted,
                 slots, driver, client, cb, worker, budget, history>>

Stop_Call ==
  /\ AppAt("stop_call")
  /\ Command(StopCommands[app.k], "stop_wait", "stop_fail")
  /\ UNCHANGED <<config, node, cmdCompleted, slots, session, started, queued,
                 client, cb, worker, budget, history>>

Stop_Wait ==
  /\ AppAt("stop_wait")
  /\ AwaitCmd(StopCommands[app.k], "stop_next", "stop_fail")
  /\ UNCHANGED <<config, node, cmdCompleted, slots, driver, client, cb, worker,
                 budget, stuck, crossed>>

Stop_Next ==
  /\ AppAt("stop_next")
  /\ app.k < Len(StopCommands)
  /\ app' = [pc |-> "stop_reset", k |-> app.k + 1]
  /\ UNCHANGED <<config, node, cmdCompleted, slots, driver, client, cb, worker,
                 budget, history>>

Stop_End ==
  /\ \/ AppAt("stop_next") /\ app.k = Len(StopCommands) /\ state' = "READY"
     \/ AppAt("stop_fail") /\ state' = "ERROR"
  /\ app' = [pc |-> "idle", k |-> 0]
  /\ UNCHANGED <<config, open, list, dynamicMode, reconfiguring, cmdCompleted,
                 slots, driver, client, cb, worker, budget, history>>

Stop == Stop_Begin \/ Stop_Call \/ Stop_Wait \/ Stop_Next \/ Stop_End

-----------------------------------------------------------------------------
(* DeInitialize *)

(* What the state lets DeInitialize do: a call in another state is an error. *)
DeInitialize_Enter(k) ==
  \/ /\ state = "READY"
     /\ state' = "DEINITIALIZING"
     /\ app' = [pc |-> "deinit_reset", k |-> k]
  \/ state = "ERROR" /\ app' = [pc |-> "deinit_free", k |-> k] /\ UNCHANGED state
  \/ /\ state \notin {"READY", "ERROR"}
     /\ app' = [pc |-> "deinit_fail", k |-> k]
     /\ UNCHANGED state

(* The application's call, and the calls in a failed Initialize. *)
DeInitialize_Begin ==
  /\ \/ /\ AppAt("idle") /\ Quiet
        /\ state \in {"READY", "ERROR"} \/ ~config.disciplined
        /\ DeInitialize_Enter(0)
     \/ AppAt("cleanup") /\ DeInitialize_Enter(app.k)
  /\ UNCHANGED <<config, open, list, dynamicMode, reconfiguring, cmdCompleted,
                 slots, driver, client, cb, worker, budget, history>>

DeInitialize_Call ==
  /\ AppAt("deinit_call")
  /\ Command("RELEASE", "deinit_wait", "deinit_fail")
  /\ UNCHANGED <<config, node, cmdCompleted, slots, session, started, queued,
                 client, cb, worker, budget, history>>

DeInitialize_Wait ==
  /\ \/ /\ AppAt("deinit_wait")
        /\ AwaitCmd("RELEASE", "deinit_state", "deinit_fail")
     \/ /\ AppAt("deinit_state")
        /\ AwaitState("INITIAL", "deinit_free", "deinit_fail")
        /\ UNCHANGED missed
  /\ UNCHANGED <<config, node, cmdCompleted, slots, driver, client, cb, worker,
                 budget, stuck, crossed>>

(***************************************************************************)
(* FreeInputBuffers and FreeOutputBuffers: the lists keep their buffers,   *)
(* and none can be freed without the driver.                               *)
(***************************************************************************)
DeInitialize_Free ==
  /\ AppAt("deinit_free")
  /\ \/ (list = Empty \/ open) /\ Goto("deinit_close")
     \/ list # Empty /\ ("Free" \in config.mayFail \/ ~open) /\ Goto("deinit_fail")
  /\ UNCHANGED <<config, node, cmdCompleted, slots, driver, client, cb, worker,
                 budget, history>>

DeInitialize_Close ==
  /\ AppAt("deinit_close")
  /\ CloseDriver
  /\ Goto("deinit_end")
  /\ UNCHANGED <<config, state, list, dynamicMode, reconfiguring, cmdCompleted,
                 slots, cb, worker, budget, crossed, missed>>

DeInitialize_End ==
  /\ \/ AppAt("deinit_end") /\ state' = "INITIAL"
     \/ AppAt("deinit_fail") /\ state' = "ERROR"
  /\ app' = CASE app.k = 0 -> [pc |-> "idle", k |-> 0]
              [] app.k = 1 -> [pc |-> "init_fail", k |-> 0]
              [] app.k = 2 -> [pc |-> "init_end", k |-> 0]
  /\ UNCHANGED <<config, open, list, dynamicMode, reconfiguring, cmdCompleted,
                 slots, driver, client, cb, worker, budget, history>>

DeInitialize ==
  \/ DeInitialize_Begin \/ DeInitialize_Call \/ DeInitialize_Wait
  \/ DeInitialize_Free \/ DeInitialize_Close \/ DeInitialize_End

-----------------------------------------------------------------------------
(* ProcessFrameDescriptor *)

(***************************************************************************)
(* A frame descriptor carries an input buffer, an output buffer or both;   *)
(* the output is submitted after the input.                                *)
(***************************************************************************)
Process_Begin(w) ==
  /\ worker[w] = Idle
  /\ state = "RUNNING"
  /\ \E in \in {0} \union (IF config.disciplined THEN client["in"] ELSE Buffers("in")),
        out \in {0} \union (IF config.disciplined THEN client["out"] ELSE Buffers("out")) :
       /\ in # 0 \/ out # 0
       /\ worker' = [worker EXCEPT ![w] =
                       IF in # 0
                       THEN [pc |-> "slot", d |-> "in", b |-> in, next |-> out]
                       ELSE [pc |-> "slot", d |-> "out", b |-> out, next |-> 0]]
       /\ client' = [client EXCEPT !["in"] = @ \ {in}, !["out"] = @ \ {out}]
  /\ UNCHANGED <<config, node, cmdCompleted, slots, driver, app, cb, budget, history>>

(* The call fails: what was not submitted is the application's again. *)
GiveUp(w) ==
  /\ client' = [d \in Dir |-> client[d] \union HeldBy(w, d)]
  /\ worker' = [worker EXCEPT ![w] = Idle]

(* ValidateFrameSubmission of the output, after the input was submitted. *)
Submit_State(w) ==
  /\ worker[w].pc = "state"
  /\ \/ /\ state = "RUNNING"
        /\ worker' = [worker EXCEPT ![w].pc = "slot"]
        /\ UNCHANGED client
     \/ state # "RUNNING" /\ GiveUp(w)
  /\ UNCHANGED <<config, node, cmdCompleted, slots, driver, app, cb, budget, history>>

Submit_Slot(w) ==
  LET d == worker[w].d
      b == worker[w].b
  IN  /\ worker[w].pc = "slot"
      /\ \/ /\ SlotFree(d, b)
            /\ TakeSlot(d, b)
            /\ worker' = [worker EXCEPT ![w].pc = "ioctl"]
            /\ UNCHANGED client
         \/ ~SlotFree(d, b) /\ GiveUp(w) /\ UNCHANGED slots
      /\ UNCHANGED <<config, node, cmdCompleted, driver, app, cb, budget, history>>

(* The output of the frame descriptor is next, or the call returns. *)
Following(w) ==
  IF worker[w].next = 0 THEN Idle
  ELSE [pc |-> "state", d |-> "out", b |-> worker[w].next, next |-> 0]

Submit_Ioctl(w) ==
  LET d == worker[w].d
      b == worker[w].b
  IN  /\ worker[w].pc = "ioctl"
      /\ \E ok \in Takes :
           \/ /\ ok
              /\ Queue(d, b)
              /\ worker' = [worker EXCEPT ![w] = Following(w)]
              /\ UNCHANGED <<slots, stuck, client>>
           \/ ~ok /\ ResetSlot(d, b) /\ GiveUp(w) /\ UNCHANGED queued
      /\ UNCHANGED <<config, node, cmdCompleted, session, started, cmds, app, cb,
                     budget, crossed, missed>>

ProcessFrameDescriptor(w) ==
  Process_Begin(w) \/ Submit_State(w) \/ Submit_Slot(w) \/ Submit_Ioctl(w)

-----------------------------------------------------------------------------
(* The driver and its callback, DeviceCbHandler *)

Returned(d) == \A b \in Buffers(d) : queued[d][b] = 0

(* INPUT_DONE or OUTPUT_DONE: the driver gives a buffer back. *)
Device_Done(d, b) ==
  /\ CbIdle
  /\ queued[d][b] > 0
  /\ queued' = [queued EXCEPT ![d][b] = @ - 1]
  /\ cb' = [pc |-> "done", d |-> d, k |-> b, what |-> "NONE"]
  /\ UNCHANGED <<config, node, cmdCompleted, slots, session, started, cmds, client,
                 app, worker, budget, history>>

(***************************************************************************)
(* The flag is reset and the application gets its buffer.  It gets none    *)
(* when the output comes back with another address; and a message without  *)
(* an address, or of no known handle, leaves the flag set as well (stuck). *)
(***************************************************************************)
FrameDone ==
  /\ cb.pc = "done"
  /\ \/ ResetSlot(cb.d, cb.k) /\ Return(cb.d, cb.k)
     \/ /\ "Done" \in config.mayFail /\ cb.d = "out"
        /\ ResetSlot(cb.d, cb.k)
        /\ UNCHANGED client
     \/ /\ "Done" \in config.mayFail
        /\ stuck' = [stuck EXCEPT ![cb.d] = @ \union ({cb.k} \intersect used[cb.d])]
        /\ UNCHANGED <<slots, client>>
  /\ cb' = NoCb
  /\ UNCHANGED <<config, node, cmdCompleted, driver, app, worker, budget, crossed,
                 missed>>

(* A drain ends when the input is consumed, a stop when the buffers are back. *)
Answerable(c) ==
  CASE c \in {"DRAIN", "STOP_IN"} -> Returned("in")
    [] c = "STOP_OUT"            -> Returned("out")
    [] c = "STOP"                -> Returned("in") /\ Returned("out")
    [] OTHER                     -> TRUE

Executed(c) ==
  /\ session' = CASE c = "LOAD" -> "LOADED" [] c = "RELEASE" -> "OPEN"
                   [] OTHER -> session
  /\ started' = CASE c = "START_ALL" -> Dir
                   [] c = "START_IN"  -> started \union {"in"}
                   [] c = "START_OUT" -> started \union {"out"}
                   [] c = "STOP"      -> {}
                   [] c = "STOP_IN"   -> started \ {"in"}
                   [] c = "STOP_OUT"  -> started \ {"out"}
                   [] OTHER -> started

(* The driver answers its first command; the callback stores the answer. *)
Device_Answer ==
  /\ CbIdle
  /\ cmds # <<>>
  /\ Answerable(Head(cmds))
  /\ Executed(Head(cmds))
  /\ cmds' = Tail(cmds)
  /\ cb' = [NoCb EXCEPT !.pc = "answer", !.what = Head(cmds)]
  /\ UNCHANGED <<config, node, cmdCompleted, slots, queued, client, app, worker,
                 budget, history>>

(* DRAIN, STOP_INPUT and STOP_OUTPUT only complete the command. *)
Silent == {"DRAIN", "STOP_IN", "STOP_OUT"}

\* Mutant: an event without a callback does not complete its command.
Answer_CallbackOnly ==
  /\ cb.pc = "answer"
  /\ cmdCompleted' = IF cb.what \in Silent THEN cmdCompleted ELSE cb.what
  /\ cb' = IF cb.what \in Silent THEN NoCb ELSE [cb EXCEPT !.pc = "event"]
  /\ UNCHANGED <<config, node, slots, driver, client, app, worker, budget, history>>

Answer ==
  /\ cb.pc = "answer"
  /\ cmdCompleted' = cb.what
  /\ cb' = IF cb.what \in Silent THEN NoCb ELSE [cb EXCEPT !.pc = "event"]
  /\ UNCHANGED <<config, node, slots, driver, client, app, worker, budget, history>>

(***************************************************************************)
(* EventCallback: the base class moves the node from one state to the      *)
(* next, or to ERROR; the decoder's events set RUNNING in any state.       *)
(***************************************************************************)
Transition == [ LOAD      |-> <<"INITIALIZING", "READY">>,
                RELEASE   |-> <<"DEINITIALIZING", "INITIAL">>,
                START_ALL |-> <<"STARTING", "RUNNING">>,
                STOP      |-> <<"STOPING", "READY">> ]

NextState(c) ==
  IF c \notin DOMAIN Transition THEN "RUNNING"
  ELSE IF state = Transition[c][1] THEN Transition[c][2] ELSE "ERROR"

Event_Read ==
  /\ cb.pc = "event"
  /\ cb' = IF cb.what = "START_OUT" THEN [cb EXCEPT !.pc = "output_started"]
           ELSE [NoCb EXCEPT !.pc = "write", !.what = NextState(cb.what)]
  /\ UNCHANGED <<config, node, cmdCompleted, slots, driver, client, app, worker,
                 budget, history>>

Event_Write ==
  /\ cb.pc = "write"
  /\ state' = cb.what
  /\ cb' = NoCb
  /\ UNCHANGED <<config, open, list, dynamicMode, reconfiguring, cmdCompleted,
                 slots, driver, client, app, worker, budget, history>>

(* ERR_HWFATAL, ERR_CLIENTFATAL. *)
Device_Fatal ==
  /\ CbIdle
  /\ config.fatal /\ fatals = 0
  /\ session # "CLOSED"
  /\ fatals' = 1
  /\ cb' = [NoCb EXCEPT !.pc = "write", !.what = "ERROR"]
  /\ UNCHANGED <<config, node, cmdCompleted, slots, driver, client, app, worker,
                 inits, starts, reconfigs, history>>

-----------------------------------------------------------------------------
(* Output reconfiguration of a decoder, all of it on the callback's thread *)

(***************************************************************************)
(* The stream needs other output buffers: once the decoder works on its    *)
(* input and the driver has no output buffer any more.                     *)
(***************************************************************************)
Device_Reconfig ==
  /\ CbIdle
  /\ ~Encoder
  /\ "in" \in started
  /\ ~Returned("in") /\ Returned("out")
  /\ reconfigs < config.reconfigs
  /\ reconfigs' = reconfigs + 1
  /\ cb' = [NoCb EXCEPT !.pc = "reconfig"]
  /\ UNCHANGED <<config, node, cmdCompleted, slots, driver, client, app, worker,
                 inits, starts, fatals, history>>

Reconfig_Error == cb' = [NoCb EXCEPT !.pc = "write", !.what = "ERROR"]

(* HandleOutputReconfig up to StartDriver. *)
HandleOutputReconfig ==
  /\ cb.pc = "reconfig"
  /\ UNCHANGED list
  /\ \/ reconfiguring /\ Reconfig_Error
                      /\ UNCHANGED <<dynamicMode, reconfiguring, slots, stuck>>
     \/ /\ ~reconfiguring
        /\ IF Static("out") THEN SetBuffer({"out"})
                            ELSE UNCHANGED <<dynamicMode, slots, stuck>>
        /\ reconfiguring' = TRUE
        /\ cb' = [cb EXCEPT !.pc = "start_output"]
     \/ /\ ~reconfiguring
        /\ "Reconfig" \in config.mayFail
        /\ reconfiguring' = FALSE
        /\ Reconfig_Error
        /\ UNCHANGED <<dynamicMode, slots, stuck>>
  /\ UNCHANGED <<config, state, open, cmdCompleted, driver, client, app, worker,
                 budget, crossed, missed>>

Waiting == { "init_wait", "start_wait", "stop_wait", "deinit_wait" }

\* Mutant: the failed reconfiguration stays in progress.
Reconfig_StartOutput_NoReset ==
  /\ cb.pc = "start_output"
  /\ cmdCompleted' = "NONE"
  /\ crossed' = (crossed \/ app.pc \in Waiting)
  /\ \E ok \in Outcome("Start") :
       \/ ok /\ cmds' = Append(cmds, "START_OUT") /\ cb' = NoCb
       \/ ~ok /\ Reconfig_Error /\ UNCHANGED cmds
  /\ UNCHANGED <<config, node, slots, session, started, queued, client, app,
                 worker, budget, stuck, missed>>

(* StartDriver( START_OUTPUT ): nobody waits for its answer. *)
Reconfig_StartOutput ==
  /\ cb.pc = "start_output"
  /\ cmdCompleted' = "NONE"
  /\ crossed' = (crossed \/ app.pc \in Waiting)
  /\ \E ok \in Outcome("Start") :
       \/ ok /\ cmds' = Append(cmds, "START_OUT") /\ cb' = NoCb
             /\ UNCHANGED reconfiguring
       \/ ~ok /\ reconfiguring' = FALSE /\ Reconfig_Error /\ UNCHANGED cmds
  /\ UNCHANGED <<config, state, open, list, dynamicMode, slots, session, started,
                 queued, client, app, worker, budget, stuck, missed>>

(* RUNNING, then FinishOutputReconfig. *)
Output_Started ==
  /\ cb.pc = "output_started"
  /\ state' = "RUNNING"
  /\ reconfiguring' = FALSE
  /\ cb' = IF reconfiguring /\ Static("out")
           THEN [NoCb EXCEPT !.pc = "state", !.k = 1] ELSE NoCb
  /\ UNCHANGED <<config, open, list, dynamicMode, cmdCompleted, slots, driver,
                 client, app, worker, budget, history>>

(* A refused buffer ends the loop: it and the rest are not submitted. *)
Unsubmitted == { list["out"][i] : i \in { i \in DOMAIN list["out"] : i >= cb.k } }
Finish_Break ==
  /\ cb' = NoCb
  /\ client' = [client EXCEPT !["out"] = @ \union Unsubmitted]

ListedOutput == list["out"][cb.k]

Finish_End ==
  /\ cb.pc = "state"
  /\ cb.k > Len(list["out"])
  /\ cb' = NoCb
  /\ UNCHANGED <<config, node, cmdCompleted, slots, driver, client, app, worker,
                 budget, history>>

Finish_State ==
  /\ cb.pc = "state"
  /\ cb.k <= Len(list["out"])
  /\ \/ state = "RUNNING" /\ cb' = [cb EXCEPT !.pc = "slot"] /\ UNCHANGED client
     \/ state # "RUNNING" /\ Finish_Break
  /\ UNCHANGED <<config, node, cmdCompleted, slots, driver, app, worker, budget,
                 history>>

Finish_Slot ==
  /\ cb.pc = "slot"
  /\ \/ /\ SlotFree("out", ListedOutput)
        /\ TakeSlot("out", ListedOutput)
        /\ cb' = [cb EXCEPT !.pc = "ioctl"]
        /\ UNCHANGED client
     \/ ~SlotFree("out", ListedOutput) /\ Finish_Break /\ UNCHANGED slots
  /\ UNCHANGED <<config, node, cmdCompleted, driver, app, worker, budget, history>>

Finish_Ioctl ==
  /\ cb.pc = "ioctl"
  /\ \E ok \in Takes :
       \/ /\ ok
          /\ Queue("out", ListedOutput)
          /\ cb' = [cb EXCEPT !.pc = "state", !.k = @ + 1]
          /\ UNCHANGED <<slots, stuck, client>>
       \/ ~ok /\ ResetSlot("out", ListedOutput) /\ Finish_Break /\ UNCHANGED queued
  /\ UNCHANGED <<config, node, cmdCompleted, session, started, cmds, app, worker,
                 budget, crossed, missed>>

FinishOutputReconfig ==
  Finish_End \/ Finish_State \/ Finish_Slot \/ Finish_Ioctl

Callback == \/ FrameDone \/ Answer \/ Event_Read \/ Event_Write
            \/ HandleOutputReconfig \/ Reconfig_StartOutput
            \/ Output_Started \/ FinishOutputReconfig

Device == \/ \E d \in Dir : \E b \in Buffers(d) : Device_Done(d, b)
          \/ Device_Answer \/ Device_Fatal \/ Device_Reconfig

-----------------------------------------------------------------------------

Lifecycle == Initialize \/ Start \/ Stop \/ DeInitialize \/ InitCmdCompleted

Next == \/ Lifecycle
        \/ \E w \in Workers : ProcessFrameDescriptor(w)
        \/ Callback
        \/ Device

Spec == Init /\ [][Next]_vars

(***************************************************************************)
(* Fairness: threads run, a call that has begun goes on, and the driver    *)
(* answers its commands, returns the buffers it has and delivers events.   *)
(***************************************************************************)
AllBuffers == UNION { 1 .. c.buffers[d] : c \in Configs, d \in Dir }

Fairness ==
  /\ WF_vars(Lifecycle /\ ~AppAt("idle"))
  /\ \A w \in Workers :
       WF_vars(Submit_State(w) \/ Submit_Slot(w) \/ Submit_Ioctl(w))
  /\ WF_vars(Callback)
  /\ SF_vars(Device_Answer)
  /\ \A d \in Dir : \A b \in AllBuffers :
       SF_vars(b \in Buffers(d) /\ Device_Done(d, b))

FairSpec == Spec /\ Fairness

-----------------------------------------------------------------------------
(* Properties *)

Commands == { "LOAD", "RELEASE", "START_ALL", "START_IN", "START_OUT", "STOP",
              "DRAIN", "STOP_IN", "STOP_OUT" }

AppPcs ==
  { "idle", "init_open", "init_set", "init_reset", "init_load", "init_wait",
    "init_ready", "post_fail", "init_fail", "cleanup", "init_end", "start_reset",
    "start_call", "start_wait", "start_running", "start_fail", "fill", "fill_ioctl",
    "stop_reset", "stop_call", "stop_wait", "stop_next", "stop_fail",
    "deinit_reset", "deinit_call", "deinit_wait", "deinit_state", "deinit_free", "deinit_close",
    "deinit_end", "deinit_fail" }

CbPcs == { "idle", "done", "answer", "event", "write", "reconfig",
           "start_output", "output_started", "state", "slot", "ioctl" }

(* The values of the fields; a dynamic map never exceeds its slots. *)
TypeOK ==
  /\ config \in Configs
  /\ state \in States
  /\ {open, reconfiguring, crossed, missed} \subseteq BOOLEAN
  /\ cmdCompleted \in Commands \union {"NONE"}
  /\ \A d \in Dir :
       /\ list[d] \in Seq(Buffers(d))
       /\ map[d] \subseteq Buffers(d) /\ Cardinality(map[d]) <= config.slots[d]
       /\ used[d] \subseteq map[d] /\ stuck[d] \subseteq used[d]
       /\ queued[d] \in [Buffers(d) -> Nat]
       /\ client[d] \subseteq Buffers(d)
  /\ {dynamicMode, started} \subseteq SUBSET Dir
  /\ session \in {"CLOSED", "OPEN", "LOADED"}
  /\ cmds \in Seq(Commands)
  /\ app.pc \in AppPcs
  /\ cb.pc \in CbPcs /\ cb.what \in Commands \union States \union {"NONE"}
  /\ \A w \in Workers : worker[w].pc \in {"idle", "state", "slot", "ioctl"}

Count(P) == IF P THEN 1 ELSE 0

(* How often buffer b is with the driver, on its way there or on its way back. *)
InFlight(d, b) ==
  queued[d][b]
    + Count(cb.pc = "done" /\ cb.d = d /\ cb.k = b)
    + Count(cb.pc = "ioctl" /\ d = "out" /\ list[d][cb.k] = b)
    + Count(AppAt("fill_ioctl") /\ d = "out" /\ ToFill[app.k + 1] = b)
    + Cardinality({ w \in Workers : /\ worker[w].pc = "ioctl"
                                    /\ worker[w].d = d /\ worker[w].b = b })

(***************************************************************************)
(* A stream that asks for other output buffers once after its start.  (A   *)
(* second time, SetBuffer resets the flags of buffers that are in use:     *)
(* see the README.)                                                        *)
(***************************************************************************)
SteadyStream == config.reconfigs <= 1

(***************************************************************************)
(* The driver never gets a buffer it has, whatever the application and its *)
(* threads submit: not by ProcessFrameDescriptor, not by Start, and not by *)
(* the reconfiguration.                                                    *)
(***************************************************************************)
NoDoubleSubmit ==
  SteadyStream => \A d \in Dir : \A b \in Buffers(d) : InFlight(d, b) <= 1

(***************************************************************************)
(* bUsedFlag is set exactly while the driver has the buffer, so none is    *)
(* locked out forever - except those the driver had when it was closed or  *)
(* returned in a message that is not understood.                           *)
(***************************************************************************)
SlotsMatchDriver ==
  SteadyStream =>
    \A d \in Dir : \A b \in Buffers(d) \ stuck[d] :
      b \in used[d] <=> InFlight(d, b) > 0

(* Nothing is under way between the node and the driver. *)
Settled == AppAt("idle") /\ CbIdle /\ cmds = <<>>

(***************************************************************************)
(* With a driver that answers in time, the state of the node is that of    *)
(* its session whenever nothing is under way.                              *)
(***************************************************************************)
StateMatchesDevice ==
  config.timely /\ ~crossed /\ Settled =>
    /\ state = "INITIAL" => session = "CLOSED"
    /\ state = "READY"   => session = "LOADED" /\ started = {}
    /\ state = "RUNNING" => session = "LOADED" /\ started # {}
    /\ state \in {"INITIAL", "READY", "RUNNING", "ERROR"}

(***************************************************************************)
(* An answer that came in time is seen by the call that waits for it,      *)
(* unless the reconfiguration reset m_cmdCompleted under its eyes.         *)
(***************************************************************************)
AnswersAreSeen == missed => crossed

(***************************************************************************)
(* A reconfiguration ends, so that the next one is not refused, unless the *)
(* session is closed under it.                                             *)
(***************************************************************************)
ReconfigurationEnds == reconfiguring ~> (~reconfiguring \/ session = "CLOSED")

(***************************************************************************)
(* Stop takes a running node back to READY (docs/VideoEncoder.md); without *)
(* a failure of the driver nothing takes it to ERROR.                      *)
(***************************************************************************)
ErrorNeedsFailure ==
  config.timely /\ ~config.fatal /\ config.mayFail = {} => state # "ERROR"

=============================================================================
