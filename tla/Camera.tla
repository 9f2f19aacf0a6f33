-------------------------------- MODULE Camera --------------------------------
(***************************************************************************)
(* One camera node (src/source/Node/Camera/CameraImpl.cpp) between the     *)
(* application that drives it and the QCarCam library that captures        *)
(* frames.  Four kinds of threads meet in it: the application thread that  *)
(* calls Initialize, Start, Stop and DeInitialize; the application threads *)
(* (Workers) that hand frames back with ProcessFrameDescriptor; the        *)
(* QCarCam thread that runs the event callback; and QCarCam itself.        *)
(*                                                                         *)
(* Only m_freeBufIdxQueue is protected by a lock.  Every other access to   *)
(* the object's fields is one step here, and so is every QCarCam call.     *)
(***************************************************************************)
EXTENDS Integers, Sequences, FiniteSets

CONSTANTS
  Configs,    \* the configurations of the node that are considered
  Workers     \* threads that hand frames back to the camera

(***************************************************************************)
(* A configuration: what Initialize is given, which calls may fail, and    *)
(* how the application behaves.                                            *)
(*   numBuffers   frame buffers of each stream (bufferIds.size())          *)
(*   pattern      submitRequestPattern of each stream                      *)
(*   requestMode  the requestMode configuration flag                       *)
(*   imports      clientId # 0 and not primary: QCarCam has the buffers    *)
(*   multiFrame   enableMultiStreamFrameReady: one event, several frames   *)
(*   events       QCarCam also reports error and client events             *)
(*   mayFail      the calls that may fail                                  *)
(*   orderly      the application follows the documented order of calls    *)
(*   maxStarts    bound on the calls of Start                              *)
(***************************************************************************)
IsConfig(c) ==
  /\ c.numBuffers \in Seq(Nat \ {0}) /\ c.numBuffers # <<>>
  /\ c.pattern \in Seq(Nat) /\ Len(c.pattern) = Len(c.numBuffers)
  /\ {c.requestMode, c.imports, c.multiFrame, c.events, c.orderly} \subseteq BOOLEAN
  /\ c.maxStarts \in Nat

ASSUME CameraAssumption == IsFiniteSet(Workers) /\ \A c \in Configs : IsConfig(c)

VARIABLES
  config,                \* the configuration, chosen once
  state,                 \* m_state
  handle,                \* m_QcarCamHndl is not QCARCAM_HNDL_INVALID
  frameBuffers,          \* streams whose m_frameBuffers arrays are allocated
  mapped,                \* imported buffers that are mapped (pBuf is valid)
  freeBufIdxQueue,       \* m_freeBufIdxQueue
  submitRequestPattern,  \* m_submitRequestPattern
  session,               \* QCarCam: what the handle stands for
  owned,                 \* QCarCam: captures of each buffer still to come
  held,                  \* frames delivered to the application
  app,                   \* the application thread's call in progress
  cb,                    \* the QCarCam thread's callback in progress
  worker,                \* the ProcessFrameDescriptor call of each worker
  sinceRequest,          \* history: reference frames since the last request
  starts,                \* calls of Start so far
  event,                 \* what became of the last error or client event
  undefined,             \* freed buffer descriptors have been accessed
  illegal                \* QCarCam was called on a session not fit for it

object  == <<handle, frameBuffers, mapped>>
queues  == <<freeBufIdxQueue, submitRequestPattern, sinceRequest>>
driver  == <<session, owned>>
threads == <<app, cb, worker>>
history == <<event, undefined, illegal>>
vars == <<config, state, object, queues, driver, held, threads, starts, history>>

NumBuffers  == config.numBuffers
NumStreams  == Len(NumBuffers)
Pattern     == config.pattern
RequestMode == config.requestMode
Imports     == config.imports
MultiFrame  == config.multiFrame
Events      == config.events
MayFail     == config.mayFail
Orderly     == config.orderly

Streams == 1 .. NumStreams
BuffersOf(c) ==
  UNION { {s} \X (0 .. c.numBuffers[s] - 1) : s \in 1 .. Len(c.numBuffers) }
Buf     == BuffersOf(config)
AllBuf  == UNION { BuffersOf(c) : c \in Configs }

States == { "INITIAL", "INITIALIZING", "READY", "STARTING", "RUNNING",
            "STOPING", "DEINITIALIZING", "ERROR" }

(***************************************************************************)
(* The request pattern is in force when some stream asks for it.  The      *)
(* first stream without a pattern is the reference: its returned frames    *)
(* clock the requests of the others.                                       *)
(***************************************************************************)
PatternMode == /\ RequestMode
               /\ NumStreams > 1
               /\ \E s \in Streams : Pattern[s] > 0
Unpatterned == { s \in Streams : Pattern[s] = 0 }
RefStream   == CHOOSE s \in Unpatterned : \A r \in Unpatterned : s <= r

(* A pattern for every stream is refused.                                  *)
NoReference == PatternMode /\ Unpatterned = {}

(* The outcomes of a call: it may fail only if the configuration says so. *)
Outcome(call) == IF call \in MayFail THEN BOOLEAN ELSE {TRUE}

NoFrame == <<0, 0>>
Quiet   == \A w \in Workers : worker[w].pc = "idle"

Init ==
  /\ config \in Configs
  /\ state = "INITIAL"
  /\ handle = FALSE
  /\ frameBuffers = {}
  /\ mapped = {}
  /\ freeBufIdxQueue = [s \in Streams |-> <<>>]
  /\ submitRequestPattern = [s \in Streams |-> 0]
  /\ session = "CLOSED"
  /\ owned = [b \in Buf |-> 0]
  /\ held = {}
  /\ app = [pc |-> "idle", k |-> 0, ok |-> TRUE, prev |-> "INITIAL"]
  /\ cb = [pc |-> "idle", frames |-> {}, cur |-> NoFrame]
  /\ worker = [w \in Workers |->
                 [pc |-> "idle", buf |-> NoFrame, request |-> {}]]
  /\ sinceRequest = [s \in Streams |-> 0]
  /\ starts = 0
  /\ event = "none"
  /\ undefined = FALSE
  /\ illegal = FALSE

-----------------------------------------------------------------------------
(* Initialize *)

AppAt(pc)   == app.pc = pc
Goto(pc, k) == app' = [app EXCEPT !.pc = pc, !.k = k]

(* Not in the INITIAL state: the error path below runs all the same. *)
Initialize_Refuse ==
  /\ AppAt("idle")
  /\ ~Orderly
  /\ state # "INITIAL"
  /\ Goto("init_fail", 0)
  /\ UNCHANGED <<state, object, queues, driver, held, cb, worker, starts,
                 history>>

Initialize_BadConfig ==
  /\ AppAt("idle")
  /\ state = "INITIAL"
  /\ "Config" \in MayFail
  /\ Goto("init_fail", 0)
  /\ UNCHANGED <<state, object, queues, driver, held, cb, worker, starts,
                 history>>

(* The configuration is copied; the queues of free indices are not reset. *)
Initialize_Begin ==
  /\ AppAt("idle")
  /\ state = "INITIAL"
  /\ state' = "INITIALIZING"
  /\ submitRequestPattern' = IF RequestMode /\ NumStreams > 1
                             THEN Pattern ELSE submitRequestPattern
  /\ sinceRequest' = [s \in Streams |-> 0]
  /\ Goto(IF NoReference THEN "init_fail" ELSE "init_open", 0)
  /\ UNCHANGED <<object, freeBufIdxQueue, driver, held, cb, worker, starts,
                 history>>

Initialize_Open ==
  /\ AppAt("init_open")
  /\ \E ok \in Outcome("Open") :
       IF ok THEN /\ handle' = TRUE
                  /\ session' = "OPEN"
                  /\ Goto("init_params", 0)
             ELSE /\ Goto("init_fail", 0)
                  /\ UNCHANGED <<handle, session>>
  /\ UNCHANGED <<state, frameBuffers, mapped, queues, owned, held, cb, worker,
                 starts, history>>

(* The event callback, the event mask, the ISP use case, the frame drop. *)
Initialize_Params ==
  /\ AppAt("init_params")
  /\ \E ok \in Outcome("Params") :
       app' = [app EXCEPT !.pc = IF ok THEN "init_buffers" ELSE "init_fail",
                          !.k = 1, !.ok = TRUE]
  /\ UNCHANGED <<state, object, queues, driver, held, cb, worker, starts,
                 history>>

(* SetFrameBuffers, one stream; a failure frees what was set before. *)
Initialize_SetFrameBuffers ==
  /\ AppAt("init_buffers")
  /\ ~Imports
  /\ \E ok \in Outcome("SetBuffers") :
       IF ok
       THEN /\ frameBuffers' = frameBuffers \union {app.k}
            /\ IF app.k = NumStreams THEN Goto("init_reserve", 0)
                                     ELSE Goto("init_buffers", app.k + 1)
       ELSE /\ frameBuffers' = {}
            /\ Goto("init_fail", 0)
  /\ UNCHANGED <<state, handle, mapped, queues, driver, held, cb, worker,
                 starts, history>>

(***************************************************************************)
(* ImportBuffers, one stream.  The loop over the streams goes on after a   *)
(* failure: once QCarCamGetBuffers has failed the next stream indexes the  *)
(* vector ClearFrameBuffers emptied, and a stream whose buffers cannot be  *)
(* mapped is forgotten when the next one succeeds.                         *)
(***************************************************************************)
NextImport(ok) ==
  app' = [app EXCEPT !.ok = ok, !.k = @ + 1,
                     !.pc = IF app.k < NumStreams THEN "init_buffers"
                            ELSE IF ok THEN "init_reserve" ELSE "init_fail"]

FramesOf(s) == { b \in Buf : b[1] = s }

Import_Stream(s) ==
  \/ /\ "GetBuffers" \in MayFail
     /\ frameBuffers # {} \/ s = 1
     /\ frameBuffers' = {}
     /\ NextImport(FALSE)
     /\ UNCHANGED <<mapped, undefined>>
  \/ /\ frameBuffers = {} /\ s > 1
     /\ undefined' = TRUE
     /\ UNCHANGED <<frameBuffers, mapped, app>>
  \/ /\ frameBuffers # {} \/ s = 1
     /\ frameBuffers' = frameBuffers \union {s}
     /\ \E n \in 0 .. NumBuffers[s] :
          /\ n < NumBuffers[s] => "MemoryMap" \in MayFail
          /\ mapped' = mapped \union { b \in FramesOf(s) : b[2] < n }
          /\ NextImport(n = NumBuffers[s])
     /\ UNCHANGED undefined

Initialize_ImportBuffers ==
  /\ AppAt("init_buffers")
  /\ Imports
  /\ Import_Stream(app.k)
  /\ UNCHANGED <<state, handle, queues, driver, held, cb, worker, starts,
                 event, illegal>>

\* Mutant: the result of QCarCamReserve is not looked at.
Initialize_Reserve_Unchecked ==
  /\ AppAt("init_reserve")
  /\ \E ok \in Outcome("Reserve") :
       session' = IF ok THEN "RESERVED" ELSE session
  /\ state' = "READY"
  /\ Goto("idle", 0)
  /\ UNCHANGED <<object, queues, owned, held, cb, worker, starts, history>>

(* SetMetaDataBuffers, then QCarCamReserve. *)
Initialize_Reserve ==
  /\ AppAt("init_reserve")
  /\ \E ok \in Outcome("Reserve") :
       IF ok THEN /\ session' = "RESERVED"
                  /\ state' = "READY"
                  /\ Goto("idle", 0)
             ELSE /\ Goto("init_fail", 0)
                  /\ UNCHANGED <<session, state>>
  /\ UNCHANGED <<object, queues, owned, held, cb, worker, starts, history>>

Initialize_Fail ==
  /\ AppAt("init_fail")
  /\ state' = "INITIAL"
  /\ Goto("init_close", 0)
  /\ UNCHANGED <<object, queues, driver, held, cb, worker, starts, history>>

(***************************************************************************)
(* QCarCamClose waits for the callback in progress, as QCarCamStop does.   *)
(***************************************************************************)
Initialize_Close ==
  /\ AppAt("init_close")
  /\ cb.pc = "idle"
  /\ illegal' = (illegal \/ (handle /\ session = "CLOSED"))
  /\ session' = IF handle THEN "CLOSED" ELSE session
  /\ owned' = IF handle THEN [b \in Buf |-> 0] ELSE owned
  /\ handle' = FALSE
  /\ Goto("init_clear", 0)
  /\ UNCHANGED <<state, frameBuffers, mapped, queues, held, cb, worker, starts,
                 event, undefined>>

Initialize_Clear ==
  /\ AppAt("init_clear")
  /\ frameBuffers' = {}
  /\ Goto("idle", 0)
  /\ UNCHANGED <<state, handle, mapped, queues, driver, held, cb, worker,
                 starts, history>>

Initialize ==
  \/ Initialize_Refuse \/ Initialize_BadConfig \/ Initialize_Begin
  \/ Initialize_Open \/ Initialize_Params \/ Initialize_SetFrameBuffers
  \/ Initialize_ImportBuffers \/ Initialize_Reserve \/ Initialize_Fail
  \/ Initialize_Close \/ Initialize_Clear

-----------------------------------------------------------------------------
(* Start *)

Start_Begin ==
  /\ AppAt("idle")
  /\ state = "READY"
  /\ starts < config.maxStarts
  /\ Orderly => held = {} /\ Quiet
  /\ state' = "STARTING"
  /\ starts' = starts + 1
  /\ Goto("start_call", 0)
  /\ UNCHANGED <<object, queues, driver, held, cb, worker, history>>

(* In release mode QCarCam starts with every buffer it was given. *)
Start_Call ==
  /\ AppAt("start_call")
  /\ illegal' = (illegal \/ session # "RESERVED")
  /\ \E ok \in Outcome("Start") :
       IF ok THEN /\ session' = "STARTED"
                  /\ owned' = [b \in Buf |-> IF RequestMode THEN 0 ELSE 1]
                  /\ Goto("start_run", 0)
                  /\ UNCHANGED state
             ELSE /\ state' = "READY"
                  /\ Goto("idle", 0)
                  /\ UNCHANGED driver
  /\ UNCHANGED <<object, queues, held, cb, worker, starts, event, undefined>>

Start_Run ==
  /\ AppAt("start_run")
  /\ state' = "RUNNING"
  /\ Goto(IF RequestMode /\ ~Imports THEN "submit_all" ELSE "idle", 0)
  /\ UNCHANGED <<object, queues, driver, held, cb, worker, starts, history>>

(***************************************************************************)
(* SubmitAllBuffers: one request for each buffer index, for the streams    *)
(* that have it.  Frames of the first requests may arrive in between.      *)
(***************************************************************************)
Row(k)     == { b \in Buf : b[2] = k }
LastRow(k) == \A s \in Streams : NumBuffers[s] <= k + 1

Submit(request) == owned' = [b \in Buf |-> IF b \in request THEN owned[b] + 1
                                                            ELSE owned[b]]

SubmitAllBuffers ==
  /\ AppAt("submit_all")
  /\ \/ /\ Submit(Row(app.k))
        /\ IF LastRow(app.k) THEN Goto("idle", 0)
                                    ELSE Goto("submit_all", app.k + 1)
     \/ /\ "SubmitAll" \in MayFail
        /\ Goto("start_fail", 0)
        /\ UNCHANGED owned
  /\ UNCHANGED <<state, object, queues, session, held, cb, worker, starts,
                 history>>

\* Mutant: the captures are not stopped.
Start_Fail_NoStop ==
  /\ AppAt("start_fail")
  /\ state' = "READY"
  /\ Goto("idle", 0)
  /\ UNCHANGED <<object, queues, driver, held, cb, worker, starts, history>>

Start_Fail ==
  /\ AppAt("start_fail")
  /\ state' = "READY"
  /\ Goto("start_stop", 0)
  /\ UNCHANGED <<object, queues, driver, held, cb, worker, starts, history>>

(* QCarCamStop ends the captures and waits for the callback in progress. *)
StopCaptures ==
  /\ cb.pc = "idle"
  /\ session' = "RESERVED"
  /\ owned' = [b \in Buf |-> 0]

Start_Stop ==
  /\ AppAt("start_stop")
  /\ StopCaptures
  /\ Goto("idle", 0)
  /\ UNCHANGED <<state, object, queues, held, cb, worker, starts, history>>

Start == Start_Begin \/ Start_Call \/ Start_Run \/ SubmitAllBuffers
           \/ Start_Fail \/ Start_Stop

-----------------------------------------------------------------------------
(* Stop *)

Stop_Begin ==
  /\ AppAt("idle")
  /\ state = "RUNNING"
  /\ state' = "STOPING"
  /\ Goto("stop_call", 0)
  /\ UNCHANGED <<object, queues, driver, held, cb, worker, starts, history>>

Stop_Call ==
  /\ AppAt("stop_call")
  /\ illegal' = (illegal \/ session # "STARTED")
  /\ \E ok \in Outcome("Stop") :
       IF ok THEN /\ StopCaptures
                  /\ state' = "READY"
             ELSE /\ state' = "RUNNING"
                  /\ UNCHANGED driver
  /\ Goto("idle", 0)
  /\ UNCHANGED <<object, queues, held, cb, worker, starts, event, undefined>>

Stop == Stop_Begin \/ Stop_Call

-----------------------------------------------------------------------------
(* DeInitialize *)

\* Mutant: a running camera may be de-initialized.
DeInitialize_Begin_Running ==
  /\ AppAt("idle")
  /\ state \in {"READY", "RUNNING"}
  /\ Orderly => Quiet
  /\ state' = "DEINITIALIZING"
  /\ app' = [app EXCEPT !.pc = "release", !.ok = TRUE, !.prev = state]
  /\ UNCHANGED <<object, queues, driver, held, cb, worker, starts, history>>

DeInitialize_Begin ==
  /\ AppAt("idle")
  /\ state = "READY"
  /\ Orderly => Quiet
  /\ state' = "DEINITIALIZING"
  /\ app' = [app EXCEPT !.pc = "release", !.ok = TRUE, !.prev = state]
  /\ UNCHANGED <<object, queues, driver, held, cb, worker, starts, history>>

(* In any other state the buffers are cleared all the same. *)
DeInitialize_Refuse ==
  /\ AppAt("idle")
  /\ ~Orderly
  /\ state # "READY"
  /\ app' = [app EXCEPT !.pc = "deinit_clear", !.ok = FALSE, !.prev = state]
  /\ UNCHANGED <<state, object, queues, driver, held, cb, worker, starts,
                 history>>

DeInitialize_Release ==
  /\ AppAt("release")
  /\ illegal' = (illegal \/ session # "RESERVED")
  /\ \E ok \in Outcome("Release") :
       /\ session' = IF ok THEN "OPEN" ELSE session
       /\ app' = [app EXCEPT !.pc = "close", !.ok = ok]
  /\ UNCHANGED <<state, object, queues, owned, held, cb, worker, starts,
                 event, undefined>>

(* The handle keeps its value. *)
DeInitialize_Close ==
  /\ AppAt("close")
  /\ illegal' = (illegal \/ session = "CLOSED")
  /\ \E ok \in Outcome("Close") :
       /\ session' = IF ok THEN "CLOSED" ELSE session
       /\ app' = [app EXCEPT !.ok = @ /\ ok,
                             !.pc = IF Imports THEN "unimport"
                                               ELSE "deinit_clear"]
  /\ UNCHANGED <<state, object, queues, owned, held, cb, worker, starts,
                 event, undefined>>

(***************************************************************************)
(* UnImportBuffers.  What it returns, the result of its last unmapping,    *)
(* replaces the failures of the calls before it.                           *)
(***************************************************************************)
LastBuffer == <<NumStreams, NumBuffers[NumStreams] - 1>>

DeInitialize_UnImport ==
  /\ AppAt("unimport")
  /\ undefined' = (undefined \/ frameBuffers = {})
  /\ \E kept \in SUBSET mapped :
       /\ kept # {} => "MemoryUnMap" \in MayFail
       /\ mapped' = kept
       /\ app' = [app EXCEPT !.pc = "deinit_clear",
                             !.ok = LastBuffer \notin kept]
  /\ UNCHANGED <<state, handle, frameBuffers, queues, driver, held, cb, worker,
                 starts, event, illegal>>

DeInitialize_Clear ==
  /\ AppAt("deinit_clear")
  /\ frameBuffers' = {}
  /\ Goto("deinit_end", 0)
  /\ UNCHANGED <<state, handle, mapped, queues, driver, held, cb, worker,
                 starts, history>>

DeInitialize_End ==
  /\ AppAt("deinit_end")
  /\ state' = IF app.ok THEN "INITIAL" ELSE app.prev
  /\ Goto("idle", 0)
  /\ UNCHANGED <<object, queues, driver, held, cb, worker, starts, history>>

DeInitialize ==
  DeInitialize_Begin \/ DeInitialize_Refuse \/ DeInitialize_Release
    \/ DeInitialize_Close \/ DeInitialize_UnImport \/ DeInitialize_Clear
    \/ DeInitialize_End

-----------------------------------------------------------------------------
(* ProcessFrameDescriptor *)

Set(w, pc, b, request) ==
  worker' = [worker EXCEPT ![w] = [pc |-> pc, buf |-> b, request |-> request]]
Return(w) == Set(w, "idle", NoFrame, {})

(***************************************************************************)
(* The application is done with a frame it holds.  A camera that is not    *)
(* running, or has forgotten the buffer, refuses it, and the application   *)
(* drops the frame: Start submits every buffer again.                      *)
(***************************************************************************)
Process_Check(w, b) ==
  /\ worker[w].pc = "idle"
  /\ b \in held
  /\ held' = held \ {b}
  /\ IF state = "RUNNING" /\ b[1] \in frameBuffers
     THEN Set(w, "execute", b, {})
     ELSE UNCHANGED worker
  /\ UNCHANGED <<state, object, queues, driver, app, cb, starts, history>>

(* QCarCamReleaseFrame; QCarCam refuses it unless the session is started. *)
ReleaseFrame(w) ==
  /\ worker[w].pc = "execute"
  /\ ~RequestMode
  /\ Return(w)
  /\ \E ok \in Outcome("ReleaseFrame") :
       IF ok /\ session = "STARTED"
       THEN Submit({worker[w].buf}) /\ UNCHANGED held
       ELSE held' = held \union {worker[w].buf} /\ UNCHANGED owned
  /\ UNCHANGED <<state, object, queues, session, app, cb, starts, history>>

(* SubmitRequest without a pattern: a request for the buffer alone. *)
SubmitRequest_One(w) ==
  /\ worker[w].pc = "execute"
  /\ RequestMode
  /\ ~PatternMode
  /\ IF Imports THEN Return(w) /\ held' = held \union {worker[w].buf}
                ELSE /\ Set(w, "submit", worker[w].buf, {worker[w].buf})
                     /\ UNCHANGED held
  /\ UNCHANGED <<state, object, queues, driver, app, cb, starts, history>>

(***************************************************************************)
(* SubmitRequest under m_mutex with a pattern: the index is queued, and a  *)
(* frame of the reference stream counts every pattern down and requests    *)
(* the next free buffer of each stream whose pattern has run out.          *)
(***************************************************************************)
\* Mutant: a pattern that has run out is counted down again.
CountDown_NoGuard(n) == n - 1
\* Mutant: the pattern is not counted down.
CountDown_Never(n) == n

CountDown(n) == IF n > 0 THEN n - 1 ELSE 0

Clocks(b)   == b[1] = RefStream
Queue(b, s) == IF s = b[1] THEN Append(freeBufIdxQueue[s], b[2])
                           ELSE freeBufIdxQueue[s]
Taken(b)    == { s \in Streams : /\ Clocks(b)
                                 /\ CountDown(submitRequestPattern[s]) = 0
                                 /\ Queue(b, s) # <<>> }

\* Mutant: the index stays in the queue.
Popped_Stays(b) == [s \in Streams |-> Queue(b, s)]

Popped(b) == [s \in Streams |-> IF s \in Taken(b) THEN Tail(Queue(b, s))
                                                  ELSE Queue(b, s)]

\* Mutant: every stream request is written to the first slot.
RequestOf_Overwrites(b) == { <<s, Head(Queue(b, s))>> :
                               s \in { r \in Taken(b) : \A q \in Taken(b) : q <= r } }

RequestOf(b) == { <<s, Head(Queue(b, s))>> : s \in Taken(b) }

\* Mutant: the pattern is not reset by a request.
Counted_NoReset(b) == [s \in Streams |-> IF Clocks(b)
                                         THEN CountDown(submitRequestPattern[s])
                                         ELSE submitRequestPattern[s]]

Counted(b) == [s \in Streams |->
                 IF s \in Taken(b) THEN Pattern[s]
                 ELSE IF Clocks(b) THEN CountDown(submitRequestPattern[s])
                                   ELSE submitRequestPattern[s]]

(* History: reference frames of each stream since it was last requested. *)
Aged(b) == [s \in Streams |->
              IF s \in Taken(b) THEN 0
              ELSE IF Clocks(b) /\ sinceRequest[s] < Pattern[s]
                   THEN sinceRequest[s] + 1 ELSE sinceRequest[s]]

SubmitRequest_Pattern(w) ==
  LET b == worker[w].buf
  IN /\ worker[w].pc = "execute"
     /\ PatternMode
     /\ freeBufIdxQueue' = Popped(b)
     /\ submitRequestPattern' = Counted(b)
     /\ sinceRequest' = Aged(b)
     /\ IF RequestOf(b) = {} THEN Return(w)
                             ELSE Set(w, "submit", b, RequestOf(b))
     /\ UNCHANGED <<state, object, driver, held, app, cb, starts, history>>

(* QCarCamSubmitRequest.  The caller can offer its own frame again only    *)
(* when it is not one of the queued ones.                                  *)
SubmitRequest_Submit(w) ==
  /\ worker[w].pc = "submit"
  /\ Return(w)
  /\ \E ok \in Outcome("Submit") :
       IF ok /\ session = "STARTED"
       THEN Submit(worker[w].request) /\ UNCHANGED held
       ELSE /\ held' = IF PatternMode THEN held
                       ELSE held \union {worker[w].buf}
            /\ UNCHANGED owned
  /\ UNCHANGED <<state, object, queues, session, app, cb, starts, history>>

ProcessFrameDescriptor(w) ==
  \/ \E b \in Buf : Process_Check(w, b)
  \/ ReleaseFrame(w) \/ SubmitRequest_One(w) \/ SubmitRequest_Pattern(w)
  \/ SubmitRequest_Submit(w)

-----------------------------------------------------------------------------
(* QcarcamEventCb, on the QCarCam thread *)

(* QCarCam: captures of one buffer, or of one buffer of several streams. *)
Captured == { F \in SUBSET { b \in Buf : owned[b] > 0 } :
                /\ F # {}
                /\ Cardinality(F) = 1 \/ MultiFrame
                /\ \A b, c \in F : b[1] = c[1] => b = c }

FrameReady(F) ==
  /\ session = "STARTED"
  /\ cb.pc = "idle"
  /\ F \in Captured
  /\ owned' = [b \in Buf |-> IF b \in F THEN owned[b] - 1 ELSE owned[b]]
  /\ cb' = [pc |-> "get", frames |-> F, cur |-> NoFrame]
  /\ UNCHANGED <<state, object, queues, session, held, app, worker, starts,
                 history>>

(* The callback goes on with the remaining frames of the event. *)
NextFrame(b) ==
  cb' = [pc |-> IF cb.frames = {b} THEN "idle" ELSE "get",
         frames |-> cb.frames \ {b}, cur |-> NoFrame]

(***************************************************************************)
(* GetFrame: the descriptor of the frame is filled in.  In release mode    *)
(* QCarCamGetFrame may fail, and the frame stays with QCarCam.             *)
(***************************************************************************)
GetFrame(b) ==
  /\ cb.pc = "get"
  /\ b \in cb.frames
  /\ \/ /\ cb' = [cb EXCEPT !.pc = "deliver", !.cur = b]
        /\ undefined' = (undefined \/ b[1] \notin frameBuffers)
        /\ UNCHANGED owned
     \/ /\ ~RequestMode
        /\ "GetFrame" \in MayFail
        /\ NextFrame(b)
        /\ Submit({b})
        /\ UNCHANGED undefined
  /\ UNCHANGED <<state, object, queues, session, held, app, worker, starts,
                 event, illegal>>

(* FrameCallback: the application is called only if the state is RUNNING. *)
FrameCallback ==
  /\ cb.pc = "deliver"
  /\ undefined' = (undefined \/ cb.cur[1] \notin frameBuffers)
  /\ held' = IF state = "RUNNING" THEN held \union {cb.cur} ELSE held
  /\ NextFrame(cb.cur)
  /\ UNCHANGED <<state, object, queues, driver, app, worker, starts, event,
                 illegal>>

(* QCARCAM_EVENT_ERROR and QCARCAM_EVENT_MC_NOTIFY. *)
ErrorReady ==
  /\ Events
  /\ session = "STARTED"
  /\ cb.pc = "idle"
  /\ cb' = [cb EXCEPT !.pc = "event"]
  /\ UNCHANGED <<state, object, queues, driver, held, app, worker, starts,
                 history>>

EventCallback ==
  /\ cb.pc = "event"
  /\ event' = IF state = "RUNNING" THEN "refused" ELSE "delivered"
  /\ cb' = [cb EXCEPT !.pc = "idle"]
  /\ UNCHANGED <<state, object, queues, driver, held, app, worker, starts,
                 undefined, illegal>>

QcarcamEventCb == \/ \E b \in Buf : GetFrame(b)
                  \/ FrameCallback
                  \/ EventCallback

-----------------------------------------------------------------------------
Configured == UNCHANGED config

Application == Configured /\ (Initialize \/ Start \/ Stop \/ DeInitialize)
Worker(w)   == Configured /\ ProcessFrameDescriptor(w)
Callback    == Configured /\ QcarcamEventCb
Capture     == Configured /\ (ErrorReady \/ \E F \in SUBSET Buf : FrameReady(F))

(* After an access to freed descriptors nothing is known of the program. *)
Next ==
  \/ ~undefined /\ (Application \/ Callback \/ Capture
                     \/ \E w \in Workers : Worker(w))
  \/ undefined /\ UNCHANGED vars

Spec == Init /\ [][Next]_vars

(***************************************************************************)
(* Calls in progress go on, the application hands back what it holds, and  *)
(* QCarCam, which captures its buffers in the order they were submitted,   *)
(* reaches every one of them.  The application need not call anything.     *)
(***************************************************************************)
Fairness ==
  /\ WF_vars(~AppAt("idle") /\ Application)
  /\ WF_vars(Callback)
  /\ \A w \in Workers : WF_vars(worker[w].pc # "idle" /\ Worker(w))
  /\ \A b \in AllBuf :
       /\ SF_vars(Configured /\ FrameReady({b}))
       /\ SF_vars(Configured /\ \E w \in Workers : Process_Check(w, b))

FairSpec == Spec /\ Fairness

-----------------------------------------------------------------------------
(* Properties *)

AppPcs == { "idle", "init_open", "init_params", "init_buffers",
            "init_reserve", "init_fail", "init_close", "init_clear",
            "start_call", "start_run", "submit_all", "start_fail",
            "start_stop", "stop_call", "release", "close", "unimport",
            "deinit_clear", "deinit_end" }

(* The values the camera's fields and the threads' positions can take. *)
TypeOK ==
  /\ config \in Configs
  /\ state \in States
  /\ handle \in BOOLEAN
  /\ frameBuffers \in SUBSET Streams
  /\ mapped \in SUBSET Buf
  /\ freeBufIdxQueue \in [Streams -> Seq(Nat)]
  /\ submitRequestPattern \in [Streams -> Nat]
  /\ session \in {"CLOSED", "OPEN", "RESERVED", "STARTED"}
  /\ owned \in [Buf -> Nat]
  /\ held \in SUBSET Buf
  /\ app \in [pc : AppPcs, k : Nat, ok : BOOLEAN, prev : States]
  /\ cb \in [pc : {"idle", "get", "deliver", "event"},
             frames : SUBSET Buf, cur : Buf \union {NoFrame}]
  /\ worker \in [Workers -> [pc : {"idle", "execute", "submit"},
                             buf : Buf \union {NoFrame},
                             request : SUBSET Buf]]
  /\ sinceRequest \in [Streams -> Nat]
  /\ starts \in Nat
  /\ event \in {"none", "delivered", "refused"}
  /\ {undefined, illegal} \subseteq BOOLEAN

(* How many parties have frame buffer b, or a claim to it. *)
Claims(b) ==
  owned[b]
    + Cardinality({ i \in DOMAIN freeBufIdxQueue[b[1]] :
                      freeBufIdxQueue[b[1]][i] = b[2] })
    + (IF b \in held THEN 1 ELSE 0)
    + (IF b \in cb.frames THEN 1 ELSE 0)
    + Cardinality({ w \in Workers :
                      \/ worker[w].pc = "execute" /\ worker[w].buf = b
                      \/ worker[w].pc = "submit" /\ b \in worker[w].request })

(***************************************************************************)
(* A frame buffer never has two owners: QCarCam is not asked to write into *)
(* a buffer it already has, that the application still reads, or that is   *)
(* queued for a later request.                                             *)
(***************************************************************************)
OneOwner == \A b \in Buf : Claims(b) <= 1

(***************************************************************************)
(* A frame is not captured into while the application holds it: the next   *)
(* frame is requested only after the current one is processed.             *)
(***************************************************************************)
NoCaptureWhileHeld == \A b \in held : owned[b] = 0

(* A request the pattern put together can be lost as a whole. *)
RequestsLost == PatternMode /\ "Submit" \in MayFail

(***************************************************************************)
(* While the camera runs in request mode no buffer is forgotten: each one  *)
(* is with QCarCam, with the application, in a queue or on its way between *)
(* them.                                                                   *)
(***************************************************************************)
NoBufferLost ==
  RequestMode /\ ~Imports /\ ~RequestsLost /\ state = "RUNNING" /\ AppAt("idle")
    => \A b \in Buf : Claims(b) >= 1

(***************************************************************************)
(* The callback of an orderly application's camera never touches           *)
(* descriptors that Initialize or DeInitialize has freed.                  *)
(***************************************************************************)
NoFreedDescriptor == Orderly /\ ~Imports => ~undefined

(***************************************************************************)
(* Start, Stop, Release and Close reach QCarCam only for a session in the  *)
(* state they need, whatever the application calls: the node's state is a  *)
(* faithful account of it.  (An Initialize that fails before it has opened *)
(* a session closes the previous one again: see the README.)               *)
(***************************************************************************)
SessionProtocol ==
  MayFail \intersect {"Config", "Open"} = {} /\ ~NoReference => ~illegal

(***************************************************************************)
(* The states of the node and of the QCarCam session correspond whenever   *)
(* no call is in progress, for an orderly application.                     *)
(***************************************************************************)
StateMatchesSession ==
  Orderly /\ AppAt("idle") =>
    /\ state = "INITIAL" => session = "CLOSED" /\ frameBuffers = {}
    /\ state = "READY" => session = "RESERVED" /\ frameBuffers = Streams
    /\ state = "RUNNING" => session = "STARTED" /\ frameBuffers = Streams

(***************************************************************************)
(* A returned reference frame requests exactly the streams that have a     *)
(* free buffer and that were last requested at least their pattern's       *)
(* number of reference frames ago.                                         *)
(***************************************************************************)
PatternPacing ==
  [][ \A w \in Workers :
        SubmitRequest_Pattern(w) /\ worker[w].buf[1] = RefStream =>
          { b[1] : b \in worker'[w].request } =
             { s \in Streams : /\ sinceRequest[s] + 1 >= Pattern[s]
                               /\ \/ freeBufIdxQueue[s] # <<>>
                                  \/ s = RefStream } ]_vars

(***************************************************************************)
(* While a camera none of whose calls fail keeps running, every buffer is  *)
(* captured into again.                                                    *)
(***************************************************************************)
Recirculates(b) == b \in Buf /\ MayFail = {} /\ RequestMode /\ ~Imports /\ Orderly
BuffersRecirculate ==
  \A b \in AllBuf :
    (Recirculates(b) /\ state = "RUNNING")
      ~> (owned[b] > 0 \/ state # "RUNNING")

=============================================================================
