----------------------------- MODULE CameraProofs -----------------------------
(***************************************************************************)
(* The camera node, for every set of configurations and of threads that    *)
(* hand frames back.  The invariants build on each other: TypeInv;         *)
(* ControlInv (where each call stands, the node's state and the session),  *)
(* DescriptorInv (and the descriptors), StartedInv (what of ControlInv     *)
(* holds whatever calls fail), OwnInv (each buffer at one place), LossInv  *)
(* (each buffer somewhere) and PaceInv (the counters of the pattern).      *)
(***************************************************************************)
EXTENDS Camera, FiniteSetTheorems, SequenceTheorems, TLAPS

-----------------------------------------------------------------------------
(* What the configuration gives *)

LEMMA Shape ==
  ASSUME config \in Configs
  PROVE  /\ NumStreams \in Nat \ {0}
         /\ NumBuffers \in [Streams -> Nat \ {0}]
         /\ Pattern \in [Streams -> Nat]
         /\ RequestMode \in BOOLEAN /\ Imports \in BOOLEAN /\ Orderly \in BOOLEAN
         /\ config.maxStarts \in Nat
<1>1. IsConfig(config)
  BY CameraAssumption
<1>2. /\ config.numBuffers \in Seq(Nat \ {0}) /\ config.numBuffers # <<>>
      /\ config.pattern \in Seq(Nat)
      /\ Len(config.pattern) = Len(config.numBuffers)
      /\ config.maxStarts \in Nat
  BY <1>1 DEF IsConfig
<1>3. RequestMode \in BOOLEAN /\ Imports \in BOOLEAN /\ Orderly \in BOOLEAN
  BY <1>1 DEF IsConfig, RequestMode, Imports, Orderly
<1>4. NumStreams \in Nat \ {0}
  BY <1>2 DEF NumStreams, NumBuffers
<1>5. NumBuffers \in [Streams -> Nat \ {0}]
  BY <1>2 DEF NumStreams, NumBuffers, Streams
<1>6. Pattern \in [Streams -> Nat]
  BY <1>2 DEF NumStreams, NumBuffers, Streams, Pattern
<1> QED
  BY <1>2, <1>3, <1>4, <1>5, <1>6

LEMMA FirstAndLast ==
  ASSUME config \in Configs
  PROVE  1 \in Streams /\ NumStreams \in Streams
  BY Shape DEF Streams

LEMMA StreamNext ==
  ASSUME config \in Configs, NEW k \in Streams
  PROVE  /\ k \in Nat /\ k + 1 \in Nat
         /\ k < NumStreams => k + 1 \in Streams
         /\ k # NumStreams => k + 1 \in Streams
  BY Shape DEF Streams

LEMMA BufIs ==
  /\ \A b \in Buf : /\ b = <<b[1], b[2]>> /\ b[1] \in Streams
                    /\ b[2] \in 0 .. NumBuffers[b[1]] - 1
  /\ \A s \in Streams : \A k \in 0 .. NumBuffers[s] - 1 : <<s, k>> \in Buf
  BY DEF Buf, BuffersOf, Streams, NumStreams, NumBuffers

(* The configuration, and what is read off it, never changes. *)
LEMMA ConfigStays ==
  ASSUME config' = config
  PROVE  /\ Streams' = Streams /\ Buf' = Buf /\ NumStreams' = NumStreams
         /\ Pattern' = Pattern /\ NumBuffers' = NumBuffers
         /\ RequestMode' = RequestMode /\ Imports' = Imports /\ MayFail' = MayFail
         /\ Orderly' = Orderly /\ PatternMode' = PatternMode
         /\ Unpatterned' = Unpatterned /\ NoReference' = NoReference
  BY DEF Streams, Buf, BuffersOf, NumStreams, Pattern, NumBuffers, RequestMode,
         Imports, MayFail, Orderly, PatternMode, Unpatterned, NoReference

LEMMA Outcomes == \A call : Outcome(call) \subseteq BOOLEAN
  BY DEF Outcome

-----------------------------------------------------------------------------
(* Types *)

CallTypes ==
  { a \in [pc : AppPcs, k : Nat, ok : BOOLEAN, prev : States] :
      a.pc = "init_buffers" => a.k \in Streams }

(* What the types alone do not say of a callback, a worker and a queue: *)
CallbackTypes ==
  { c \in [pc : {"idle", "get", "deliver", "event"}, frames : SUBSET Buf,
           cur : Buf \union {NoFrame}] :
      c.pc = "deliver" => c.cur \in c.frames }

WorkerTypes ==
  { r \in [pc : {"idle", "execute", "submit"}, buf : Buf \union {NoFrame},
           request : SUBSET Buf] : r.pc # "idle" => r.buf \in Buf }

Indices(s) == 0 .. NumBuffers[s] - 1

TypeInv ==
  /\ TypeOK
  /\ app \in CallTypes
  /\ cb \in CallbackTypes
  /\ worker \in [Workers -> WorkerTypes]
  /\ \A s \in Streams : freeBufIdxQueue[s] \in Seq(Indices(s))

LEMMA GotoTyped ==
  ASSUME app \in CallTypes, NEW pc \in AppPcs, NEW k \in Nat, Goto(pc, k),
         pc = "init_buffers" => k \in Streams
  PROVE  app' \in CallTypes
  BY DEF CallTypes, Goto

(* The steps of the application's thread leave the queues, the frames it   *)
(* holds and the other threads alone.                                      *)
Apart == <<held, cb, worker, event, freeBufIdxQueue>>

LEMMA TypesMade ==
  ASSUME TypeInv, config' = config, UNCHANGED Apart,
         submitRequestPattern' \in [Streams -> Nat],
         sinceRequest' \in [Streams -> Nat], state' \in States,
         handle' \in BOOLEAN, frameBuffers' \in SUBSET Streams,
         mapped' \in SUBSET Buf,
         session' \in {"CLOSED", "OPEN", "RESERVED", "STARTED"},
         owned' \in [Buf -> Nat], app' \in CallTypes, starts' \in Nat,
         undefined' \in BOOLEAN, illegal' \in BOOLEAN
  PROVE  TypeInv'
<1>1. TypeOK'
  BY ConfigStays DEF TypeInv, TypeOK, Apart, CallTypes
<1>2. /\ CallTypes' = CallTypes /\ CallbackTypes' = CallbackTypes
      /\ WorkerTypes' = WorkerTypes /\ \A s : Indices(s)' = Indices(s)
  BY ConfigStays DEF CallTypes, CallbackTypes, WorkerTypes, Indices
<1> QED
  BY <1>1, <1>2, ConfigStays DEF TypeInv, Apart

LEMMA TypesHad ==
  ASSUME TypeInv
  PROVE  /\ config \in Configs /\ app \in CallTypes
         /\ submitRequestPattern \in [Streams -> Nat]
         /\ sinceRequest \in [Streams -> Nat]
         /\ state \in States /\ handle \in BOOLEAN
         /\ frameBuffers \in SUBSET Streams /\ mapped \in SUBSET Buf
         /\ session \in {"CLOSED", "OPEN", "RESERVED", "STARTED"}
         /\ owned \in [Buf -> Nat] /\ starts \in Nat
         /\ undefined \in BOOLEAN /\ illegal \in BOOLEAN
         /\ cb \in CallbackTypes /\ worker \in [Workers -> WorkerTypes]
         /\ held \in SUBSET Buf /\ event \in {"none", "delivered", "refused"}
         /\ freeBufIdxQueue \in [Streams -> Seq(Nat)]
         /\ \A s \in Streams : freeBufIdxQueue[s] \in Seq(Indices(s))
  BY DEF TypeInv, TypeOK

LEMMA ApplicationTypes == TypeInv /\ Application => TypeInv'
<1> SUFFICES ASSUME TypeInv, Application PROVE TypeInv'
  OBVIOUS
<1>0. config' = config
  BY DEF Application, Configured
<1>c. config \in Configs
  BY TypesHad
<1> USE TypesHad, Shape, TypesMade, Outcomes, <1>0
        DEF States, AppAt, object, queues, driver, threads, history, Apart
<1>1. CASE Initialize_Refuse
  <2>1. app' \in CallTypes
    BY <1>1, GotoTyped DEF Initialize_Refuse, AppPcs
  <2> QED
    BY <1>1, <2>1 DEF Initialize_Refuse
<1>2. CASE Initialize_BadConfig
  <2>1. app' \in CallTypes
    BY <1>2, GotoTyped DEF Initialize_BadConfig, AppPcs
  <2> QED
    BY <1>2, <2>1 DEF Initialize_BadConfig
<1>3. CASE Initialize_Begin
  <2>1. app' \in CallTypes
    BY <1>3, GotoTyped DEF Initialize_Begin, AppPcs
  <2> QED
    BY <1>3, <2>1 DEF Initialize_Begin
<1>4. CASE Initialize_Open
  <2>1. app' \in CallTypes
    BY <1>4, GotoTyped DEF Initialize_Open, AppPcs
  <2> QED
    BY <1>4, <2>1 DEF Initialize_Open
<1>5. CASE Initialize_Params
  <2>1. PICK ok \in BOOLEAN :
          app' = [app EXCEPT !.pc = IF ok THEN "init_buffers" ELSE "init_fail",
                             !.k = 1, !.ok = TRUE]
    BY <1>5 DEF Initialize_Params
  <2>2. /\ app' \in [pc : AppPcs, k : Nat, ok : BOOLEAN, prev : States]
        /\ app'.k = 1 /\ 1 \in Streams
    BY <2>1, FirstAndLast DEF AppPcs, CallTypes
  <2> QED
    BY <1>5, <2>2 DEF Initialize_Params, CallTypes
<1>6. CASE Initialize_SetFrameBuffers
  <2>1. app.k \in Streams
    BY <1>6 DEF Initialize_SetFrameBuffers, CallTypes
  <2>2. CASE frameBuffers' = {} /\ Goto("init_fail", 0)
    <3>1. app' \in CallTypes
      BY <2>2, GotoTyped DEF AppPcs
    <3> QED
      BY <1>6, <2>2, <3>1 DEF Initialize_SetFrameBuffers
  <2>3. CASE /\ frameBuffers' = frameBuffers \union {app.k}
             /\ app.k = NumStreams /\ Goto("init_reserve", 0)
    <3>1. app' \in CallTypes
      BY <2>3, GotoTyped DEF AppPcs
    <3> QED
      BY <1>6, <2>1, <2>3, <3>1 DEF Initialize_SetFrameBuffers
  <2>4. CASE /\ frameBuffers' = frameBuffers \union {app.k}
             /\ app.k # NumStreams /\ Goto("init_buffers", app.k + 1)
    <3>1. app.k + 1 \in Nat /\ app.k + 1 \in Streams
      BY ONLY <1>c, <2>1, <2>4, StreamNext
    <3>2. app' \in CallTypes
      BY <2>4, <3>1, GotoTyped DEF AppPcs
    <3> QED
      BY <1>6, <2>1, <2>4, <3>2 DEF Initialize_SetFrameBuffers
  <2> QED
    BY <1>6, <2>2, <2>3, <2>4 DEF Initialize_SetFrameBuffers
<1>7. CASE Initialize_ImportBuffers
  <2>1. app.k \in Streams
    BY <1>7 DEF Initialize_ImportBuffers, CallTypes
  <2>2. ASSUME NEW ok \in BOOLEAN, NextImport(ok)
        PROVE  app' \in CallTypes
    <3>1. /\ app.k + 1 \in Nat
          /\ app.k < NumStreams => app.k + 1 \in Streams
      BY ONLY <1>c, <2>1, StreamNext
    <3>2. \E pc \in AppPcs :
            /\ app' = [app EXCEPT !.ok = ok, !.k = @ + 1, !.pc = pc]
            /\ pc = "init_buffers" => app.k < NumStreams
      <4>1. CASE app.k < NumStreams
        BY <2>2, <4>1 DEF NextImport, AppPcs
      <4>2. CASE ~(app.k < NumStreams) /\ ok
        BY <2>2, <4>2 DEF NextImport, AppPcs
      <4>3. CASE ~(app.k < NumStreams) /\ ~ok
        BY <2>2, <4>3 DEF NextImport, AppPcs
      <4> QED
        BY <4>1, <4>2, <4>3
    <3> QED
      BY <3>1, <3>2 DEF CallTypes
  <2>3. app' \in CallTypes /\ undefined' \in BOOLEAN
    BY <1>7, <2>1, <2>2 DEF Initialize_ImportBuffers, Import_Stream
  <2>4. frameBuffers' \in SUBSET Streams /\ mapped' \in SUBSET Buf
    BY <1>7, <2>1 DEF Initialize_ImportBuffers, Import_Stream, FramesOf
  <2> QED
    BY <1>7, <2>3, <2>4 DEF Initialize_ImportBuffers
<1>8. CASE Initialize_Reserve
  <2>1. app' \in CallTypes
    BY <1>8, GotoTyped DEF Initialize_Reserve, AppPcs
  <2> QED
    BY <1>8, <2>1 DEF Initialize_Reserve
<1>9. CASE Initialize_Fail
  <2>1. app' \in CallTypes
    BY <1>9, GotoTyped DEF Initialize_Fail, AppPcs
  <2> QED
    BY <1>9, <2>1 DEF Initialize_Fail
<1>10. CASE Initialize_Close
  <2>1. app' \in CallTypes
    BY <1>10, GotoTyped DEF Initialize_Close, AppPcs
  <2> QED
    BY <1>10, <2>1 DEF Initialize_Close
<1>11. CASE Initialize_Clear
  <2>1. app' \in CallTypes
    BY <1>11, GotoTyped DEF Initialize_Clear, AppPcs
  <2> QED
    BY <1>11, <2>1 DEF Initialize_Clear
<1>12. CASE Start_Begin
  <2>1. app' \in CallTypes
    BY <1>12, GotoTyped DEF Start_Begin, AppPcs
  <2> QED
    BY <1>12, <2>1 DEF Start_Begin
<1>13. CASE Start_Call
  <2>1. app' \in CallTypes
    BY <1>13, GotoTyped DEF Start_Call, AppPcs
  <2> QED
    BY <1>13, <2>1 DEF Start_Call
<1>14. CASE Start_Run
  <2>1. app' \in CallTypes
    BY <1>14, GotoTyped DEF Start_Run, AppPcs
  <2> QED
    BY <1>14, <2>1 DEF Start_Run
<1>15. CASE SubmitAllBuffers
  <2>1. app.k + 1 \in Nat
    BY DEF CallTypes
  <2>2. app' \in CallTypes
    BY <1>15, <2>1, GotoTyped DEF SubmitAllBuffers, AppPcs
  <2>3. owned' \in [Buf -> Nat]
    BY <1>15 DEF SubmitAllBuffers, Submit
  <2> QED
    BY <1>15, <2>2, <2>3 DEF SubmitAllBuffers
<1>16. CASE Start_Fail
  <2>1. app' \in CallTypes
    BY <1>16, GotoTyped DEF Start_Fail, AppPcs
  <2> QED
    BY <1>16, <2>1 DEF Start_Fail
<1>17. CASE Start_Stop
  <2>1. app' \in CallTypes
    BY <1>17, GotoTyped DEF Start_Stop, AppPcs
  <2> QED
    BY <1>17, <2>1 DEF Start_Stop, StopCaptures
<1>18. CASE Stop_Begin
  <2>1. app' \in CallTypes
    BY <1>18, GotoTyped DEF Stop_Begin, AppPcs
  <2> QED
    BY <1>18, <2>1 DEF Stop_Begin
<1>19. CASE Stop_Call
  <2>1. app' \in CallTypes
    BY <1>19, GotoTyped DEF Stop_Call, AppPcs
  <2> QED
    BY <1>19, <2>1 DEF Stop_Call, StopCaptures
<1>20. CASE DeInitialize_Begin
  <2>1. app' \in CallTypes
    BY <1>20 DEF DeInitialize_Begin, AppPcs, CallTypes
  <2> QED
    BY <1>20, <2>1 DEF DeInitialize_Begin
<1>21. CASE DeInitialize_Refuse
  <2>1. app' \in CallTypes
    BY <1>21 DEF DeInitialize_Refuse, AppPcs, CallTypes
  <2> QED
    BY <1>21, <2>1 DEF DeInitialize_Refuse
<1>22. CASE DeInitialize_Release
  <2>1. app' \in CallTypes
    BY <1>22 DEF DeInitialize_Release, AppPcs, CallTypes
  <2> QED
    BY <1>22, <2>1 DEF DeInitialize_Release
<1>23. CASE DeInitialize_Close
  <2>1. PICK ok \in BOOLEAN, pc \in AppPcs :
          /\ app' = [app EXCEPT !.ok = ok, !.pc = pc]
          /\ pc # "init_buffers"
    <3>1. PICK ok \in BOOLEAN :
            app' = [app EXCEPT !.ok = @ /\ ok,
                               !.pc = IF Imports THEN "unimport"
                                                 ELSE "deinit_clear"]
      BY <1>23 DEF DeInitialize_Close
    <3>2. (app.ok /\ ok) \in BOOLEAN
      OBVIOUS
    <3> QED
      BY <3>1, <3>2 DEF AppPcs
  <2>2. app' \in CallTypes
    BY <2>1 DEF CallTypes
  <2> QED
    BY <1>23, <2>2 DEF DeInitialize_Close
<1>24. CASE DeInitialize_UnImport
  <2>1. app' \in CallTypes
    BY <1>24 DEF DeInitialize_UnImport, AppPcs, CallTypes
  <2> QED
    BY <1>24, <2>1 DEF DeInitialize_UnImport
<1>25. CASE DeInitialize_Clear
  <2>1. app' \in CallTypes
    BY <1>25, GotoTyped DEF DeInitialize_Clear, AppPcs
  <2> QED
    BY <1>25, <2>1 DEF DeInitialize_Clear
<1>26. CASE DeInitialize_End
  <2>1. app' \in CallTypes
    BY <1>26, GotoTyped DEF DeInitialize_End, AppPcs
  <2>2. app.prev \in {"INITIAL", "INITIALIZING", "READY", "STARTING", "RUNNING",
                      "STOPING", "DEINITIALIZING", "ERROR"}
    BY DEF CallTypes
  <2>3. state' \in {"INITIAL", "INITIALIZING", "READY", "STARTING", "RUNNING",
                    "STOPING", "DEINITIALIZING", "ERROR"}
    BY <1>26, <2>2 DEF DeInitialize_End
  <2> QED
    BY <1>26, <2>1, <2>3 DEF DeInitialize_End
<1> QED
  BY <1>1, <1>2, <1>3, <1>4, <1>5, <1>6, <1>7, <1>8, <1>9, <1>10,
     <1>11, <1>12, <1>13, <1>14, <1>15, <1>16, <1>17, <1>18, <1>19,
     <1>20, <1>21, <1>22, <1>23, <1>24, <1>25, <1>26
     DEF Application, Initialize, Start, Stop, DeInitialize

(* A step of another thread leaves the application's thread and the object *)
(* alone, but for the buffers.                                             *)
LEMMA TypesMadeByOthers ==
  ASSUME TypeInv, config' = config,
         UNCHANGED <<state, object, app, starts, session, illegal>>,
         freeBufIdxQueue' \in [Streams -> Seq(Nat)],
         \A s \in Streams : freeBufIdxQueue'[s] \in Seq(Indices(s)),
         submitRequestPattern' \in [Streams -> Nat],
         sinceRequest' \in [Streams -> Nat], owned' \in [Buf -> Nat],
         held' \in SUBSET Buf, cb' \in CallbackTypes,
         worker' \in [Workers -> WorkerTypes],
         event' \in {"none", "delivered", "refused"}, undefined' \in BOOLEAN
  PROVE  TypeInv'
<1>1. TypeOK'
  BY ConfigStays DEF TypeInv, TypeOK, object, CallbackTypes, WorkerTypes
<1>2. /\ CallTypes' = CallTypes /\ CallbackTypes' = CallbackTypes
      /\ WorkerTypes' = WorkerTypes /\ \A s : Indices(s)' = Indices(s)
  BY ConfigStays DEF CallTypes, CallbackTypes, WorkerTypes, Indices
<1> QED
  BY <1>1, <1>2, ConfigStays DEF TypeInv

LEMMA SetTyped ==
  ASSUME worker \in [Workers -> WorkerTypes], NEW w,
         NEW pc \in {"idle", "execute", "submit"}, NEW b \in Buf \union {NoFrame},
         NEW request \in SUBSET Buf, pc # "idle" => b \in Buf,
         Set(w, pc, b, request)
  PROVE  worker' \in [Workers -> WorkerTypes]
<1>1. [pc |-> pc, buf |-> b, request |-> request] \in WorkerTypes
  BY DEF WorkerTypes
<1> QED
  BY <1>1 DEF Set

LEMMA ReturnTyped ==
  ASSUME worker \in [Workers -> WorkerTypes], NEW w, Return(w)
  PROVE  worker' \in [Workers -> WorkerTypes]
<1>1. NoFrame \in Buf \union {NoFrame} /\ {} \in SUBSET Buf
  OBVIOUS
<1> QED
  BY <1>1, SetTyped DEF Return

LEMMA SubmitTyped ==
  ASSUME owned \in [Buf -> Nat], NEW F, Submit(F)
  PROVE  owned' \in [Buf -> Nat]
  BY DEF Submit

(* The queues of a step that returns a frame, and what it requests.        *)
LEMMA QueueTyped ==
  ASSUME TypeInv, NEW b \in Buf, NEW s \in Streams
  PROVE  /\ Queue(b, s) \in Seq(Indices(s))
         /\ s \in Taken(b) => /\ Queue(b, s) # <<>>
                              /\ Head(Queue(b, s)) \in Indices(s)
                              /\ Tail(Queue(b, s)) \in Seq(Indices(s))
<1>1. b[2] \in Indices(b[1])
  BY BufIs DEF Indices
<1>2. Queue(b, s) \in Seq(Indices(s))
  BY <1>1, TypesHad DEF Queue
<1>3. s \in Taken(b) => Queue(b, s) # <<>>
  BY DEF Taken
<1> QED
  BY <1>2, <1>3

LEMMA IndicesNat ==
  ASSUME config \in Configs, NEW s \in Streams
  PROVE  Indices(s) \subseteq Nat
  BY Shape DEF Indices

LEMMA RequestTyped ==
  ASSUME TypeInv, NEW b \in Buf
  PROVE  RequestOf(b) \subseteq Buf
<1> SUFFICES ASSUME NEW s \in Taken(b)
             PROVE  <<s, Head(Queue(b, s))>> \in Buf
  BY DEF RequestOf
<1>1. s \in Streams
  BY DEF Taken
<1> QED
  BY <1>1, QueueTyped, BufIs DEF Indices

LEMMA PatternTyped ==
  ASSUME TypeInv, NEW b \in Buf
  PROVE  /\ Popped(b) \in [Streams -> Seq(Nat)]
         /\ \A s \in Streams : Popped(b)[s] \in Seq(Indices(s))
         /\ Counted(b) \in [Streams -> Nat]
         /\ Aged(b) \in [Streams -> Nat]
<1>1. ASSUME NEW s \in Streams
      PROVE  /\ Popped(b)[s] \in Seq(Indices(s))
             /\ Popped(b)[s] \in Seq(Nat)
  <2>1. Popped(b)[s] \in Seq(Indices(s))
    BY QueueTyped DEF Popped
  <2>2. Indices(s) \subseteq Nat
    BY TypesHad, IndicesNat
  <2> QED
    BY <2>1, <2>2
<1>2. Popped(b) \in [Streams -> Seq(Nat)]
  BY <1>1 DEF Popped
<1>3. Counted(b) \in [Streams -> Nat]
  BY TypesHad, Shape DEF Counted, CountDown
<1>4. Aged(b) \in [Streams -> Nat]
  BY TypesHad, Shape DEF Aged
<1> QED
  BY <1>1, <1>2, <1>3, <1>4

LEMMA WorkerTyped == TypeInv /\ (\E w \in Workers : Worker(w)) => TypeInv'
<1> SUFFICES ASSUME TypeInv, NEW w \in Workers, Worker(w) PROVE TypeInv'
  OBVIOUS
<1>0. config' = config
  BY DEF Worker, Configured
<1>1. worker[w] \in WorkerTypes
  BY TypesHad
<1>2. worker[w].pc # "idle" => worker[w].buf \in Buf
  BY <1>1 DEF WorkerTypes
<1> USE TypesHad, TypesMadeByOthers, SubmitTyped, <1>0
        DEF object, queues, driver, threads, history
<1>3. ASSUME NEW b \in Buf, Process_Check(w, b) PROVE TypeInv'
  <2>1. worker' \in [Workers -> WorkerTypes]
    <3>1. CASE UNCHANGED worker
      BY <3>1
    <3>2. CASE Set(w, "execute", b, {})
      <4>1. b \in Buf \union {NoFrame} /\ {} \in SUBSET Buf
        OBVIOUS
      <4> QED
        BY <3>2, <4>1, SetTyped
    <3> QED
      BY <1>3, <3>1, <3>2 DEF Process_Check
  <2> QED
    BY <1>3, <2>1 DEF Process_Check
<1>4. CASE ReleaseFrame(w)
  <2>1. worker' \in [Workers -> WorkerTypes]
    BY <1>4, ReturnTyped DEF ReleaseFrame
  <2> QED
    BY <1>2, <1>4, <2>1 DEF ReleaseFrame
<1>5. CASE SubmitRequest_One(w)
  <2>1. worker' \in [Workers -> WorkerTypes]
    <3>1. CASE Return(w)
      BY <3>1, ReturnTyped
    <3>2. CASE Set(w, "submit", worker[w].buf, {worker[w].buf})
      <4>1. /\ worker[w].buf \in Buf /\ worker[w].buf \in Buf \union {NoFrame}
            /\ {worker[w].buf} \in SUBSET Buf
        BY <1>2, <1>5 DEF SubmitRequest_One
      <4> QED
        BY <3>2, <4>1, SetTyped
    <3> QED
      BY <1>5, <3>1, <3>2 DEF SubmitRequest_One
  <2> QED
    BY <1>2, <1>5, <2>1 DEF SubmitRequest_One
<1>6. CASE SubmitRequest_Pattern(w)
  <2> DEFINE b == worker[w].buf
  <2>1. b \in Buf /\ RequestOf(b) \subseteq Buf
    BY <1>2, <1>6, RequestTyped DEF SubmitRequest_Pattern
  <2>2. worker' \in [Workers -> WorkerTypes]
    <3>1. CASE Return(w)
      BY <3>1, ReturnTyped
    <3>2. CASE Set(w, "submit", b, RequestOf(b))
      <4>1. b \in Buf \union {NoFrame} /\ RequestOf(b) \in SUBSET Buf
        BY <2>1
      <4> QED
        BY <2>1, <3>2, <4>1, SetTyped
    <3> QED
      BY <1>6, <3>1, <3>2 DEF SubmitRequest_Pattern
  <2> QED
    BY <1>6, <2>1, <2>2, PatternTyped DEF SubmitRequest_Pattern
<1>7. CASE SubmitRequest_Submit(w)
  <2>1. worker' \in [Workers -> WorkerTypes]
    BY <1>7, ReturnTyped DEF SubmitRequest_Submit
  <2> QED
    BY <1>2, <1>7, <2>1 DEF SubmitRequest_Submit
<1> QED
  BY <1>3, <1>4, <1>5, <1>6, <1>7 DEF Worker, ProcessFrameDescriptor

LEMMA NextFrameTyped ==
  ASSUME TypeInv, NEW b, NextFrame(b)
  PROVE  cb' \in CallbackTypes
  BY TypesHad DEF NextFrame, CallbackTypes

LEMMA CallbackTyped == TypeInv /\ Callback => TypeInv'
<1> SUFFICES ASSUME TypeInv, Callback PROVE TypeInv'
  OBVIOUS
<1>0. config' = config
  BY DEF Callback, Configured
<1> USE TypesHad, TypesMadeByOthers, NextFrameTyped, SubmitTyped, <1>0
        DEF object, queues, driver, threads, history
<1>1. ASSUME NEW b \in Buf, GetFrame(b) PROVE TypeInv'
  <2>1. cb' \in CallbackTypes
    BY <1>1 DEF GetFrame, CallbackTypes
  <2> QED
    BY <1>1, <2>1 DEF GetFrame
<1>2. CASE FrameCallback
  <2>1. cb.cur \in Buf /\ cb' \in CallbackTypes
    BY <1>2 DEF FrameCallback, CallbackTypes
  <2> QED
    BY <1>2, <2>1 DEF FrameCallback
<1>3. CASE EventCallback
  <2>1. cb' \in CallbackTypes
    BY <1>3 DEF EventCallback, CallbackTypes
  <2> QED
    BY <1>3, <2>1 DEF EventCallback
<1> QED
  BY <1>1, <1>2, <1>3 DEF Callback, QcarcamEventCb

LEMMA CapturedIs ==
  ASSUME NEW F \in Captured
  PROVE  F \subseteq Buf /\ \A b \in F : owned[b] > 0
  BY DEF Captured

LEMMA CaptureTyped == TypeInv /\ Capture => TypeInv'
<1> SUFFICES ASSUME TypeInv, Capture PROVE TypeInv'
  OBVIOUS
<1>0. config' = config
  BY DEF Capture, Configured
<1> USE TypesHad, TypesMadeByOthers, <1>0
        DEF object, queues, driver, threads, history
<1>1. CASE ErrorReady
  <2>1. cb' \in CallbackTypes
    BY <1>1 DEF ErrorReady, CallbackTypes
  <2> QED
    BY <1>1, <2>1 DEF ErrorReady
<1>2. ASSUME NEW F, FrameReady(F) PROVE TypeInv'
  <2>1. F \subseteq Buf /\ \A b \in F : owned[b] > 0
    BY <1>2, CapturedIs DEF FrameReady
  <2>2. cb' \in CallbackTypes
    BY <1>2, <2>1 DEF FrameReady, CallbackTypes
  <2>3. owned' \in [Buf -> Nat]
    BY <1>2, <2>1 DEF FrameReady
  <2> QED
    BY <1>2, <2>2, <2>3 DEF FrameReady
<1> QED
  BY <1>1, <1>2 DEF Capture

LEMMA TypesKept == TypeInv /\ [Next]_vars => TypeInv'
<1> SUFFICES ASSUME TypeInv, [Next]_vars PROVE TypeInv'
  OBVIOUS
<1>1. CASE UNCHANGED vars
  <2>1. config' = config
    BY <1>1 DEF vars
  <2> QED
    BY <1>1, <2>1, TypesHad, TypesMade
    DEF vars, object, queues, driver, threads, history, Apart
<1> QED
  BY <1>1, ApplicationTypes, WorkerTyped, CallbackTyped, CaptureTyped DEF Next

LEMMA TypesInit == Init => TypeInv
<1> SUFFICES ASSUME Init PROVE TypeInv
  OBVIOUS
<1>1. config \in Configs
  BY DEF Init
<1>2. /\ state \in States /\ handle \in BOOLEAN
      /\ frameBuffers \in SUBSET Streams /\ mapped \in SUBSET Buf
      /\ session \in {"CLOSED", "OPEN", "RESERVED", "STARTED"}
      /\ held \in SUBSET Buf /\ starts \in Nat
      /\ event \in {"none", "delivered", "refused"}
      /\ undefined = FALSE /\ illegal = FALSE
  BY DEF Init, States
<1>7. /\ freeBufIdxQueue \in [Streams -> Seq(Nat)]
      /\ submitRequestPattern \in [Streams -> Nat]
      /\ owned \in [Buf -> Nat] /\ sinceRequest \in [Streams -> Nat]
  BY DEF Init
<1>3. app \in CallTypes
  BY DEF Init, CallTypes, States, AppPcs
<1>4. cb \in CallbackTypes /\ worker \in [Workers -> WorkerTypes]
  BY DEF Init, CallbackTypes, WorkerTypes
<1>5. \A s \in Streams : freeBufIdxQueue[s] \in Seq(Indices(s))
  BY DEF Init
<1>6. TypeOK
  BY <1>1, <1>2, <1>3, <1>4, <1>7 DEF TypeOK, CallTypes, CallbackTypes, WorkerTypes
<1> QED
  BY <1>3, <1>4, <1>5, <1>6 DEF TypeInv

(***************************************************************************)
(* Every field of the camera, and every position of a thread, is what its  *)
(* declaration says: a queued index is one of its stream's buffers, and    *)
(* ImportBuffers' loop indexes a stream the node has.                      *)
(***************************************************************************)
THEOREM TypesHold == Spec => []TypeOK
<1>1. TypeInv => TypeOK
  BY DEF TypeInv
<1> QED
  BY <1>1, TypesInit, TypesKept, PTL DEF Spec

-----------------------------------------------------------------------------
(* The node's state and the session *)

(* The calls DeInitialize makes succeed, for every configuration.          *)
Closes ==
  \A c \in Configs :
    c.mayFail \intersect {"Release", "Close", "MemoryUnMap"} = {}

(* The calls of Initialize that can fail before a session is opened.       *)
FailsUnopened == MayFail \intersect {"Config", "Open"} # {} \/ NoReference

Settled(st, ses) == \/ st = "INITIAL" /\ ses = "CLOSED"
                    \/ st = "READY" /\ ses = "RESERVED"
                    \/ st = "RUNNING" /\ ses = "STARTED"

(* Where a call in progress stands, the state and the session are known.   *)
Stands(a, st, ses) ==
  /\ a.pc = "idle" => Settled(st, ses)
  /\ a.pc = "init_open" => st = "INITIALIZING" /\ ses = "CLOSED"
  /\ a.pc \in {"init_params", "init_buffers", "init_reserve"}
       => st = "INITIALIZING" /\ ses = "OPEN"
  /\ a.pc = "init_close" => st = "INITIAL"
  /\ a.pc = "init_clear" => st = "INITIAL" /\ ses = "CLOSED"
  /\ a.pc = "start_call" => st = "STARTING" /\ ses = "RESERVED"
  /\ a.pc = "start_run" => st = "STARTING" /\ ses = "STARTED"
  /\ a.pc \in {"submit_all", "start_fail"} => st = "RUNNING" /\ ses = "STARTED"
  /\ a.pc = "start_stop" => st = "READY" /\ ses = "STARTED"
  /\ a.pc = "stop_call" => st = "STOPING" /\ ses = "STARTED"
  /\ a.pc = "release" => st = "DEINITIALIZING" /\ ses = "RESERVED" /\ a.ok
  /\ a.pc = "close" => st = "DEINITIALIZING" /\ ses = "OPEN" /\ a.ok
  /\ a.pc = "unimport" => st = "DEINITIALIZING" /\ ses = "CLOSED"

(* The error path of Initialize is reached from any state when the         *)
(* application is not orderly, and so is the end of DeInitialize.          *)
Fails(a, ses) ==
  a.pc \in {"init_fail", "init_close"} =>
    /\ ses = "CLOSED" => FailsUnopened
    /\ Orderly => ses \in {"CLOSED", "OPEN"}
Ends(a, st, ses) ==
  a.pc \in {"deinit_clear", "deinit_end"} =>
    \/ a.ok /\ st = "DEINITIALIZING" /\ ses = "CLOSED"
    \/ ~a.ok /\ ~Orderly /\ a.prev = st /\ Settled(st, ses)

ControlInv ==
  /\ TypeInv
  /\ session # "CLOSED" => handle
  /\ cb.pc # "idle" => session = "STARTED"
  /\ Stands(app, state, session)
  /\ Fails(app, session)
  /\ Ends(app, state, session)
  /\ illegal => FailsUnopened

LEMMA GotoIs ==
  ASSUME app \in CallTypes, NEW pc, NEW k, Goto(pc, k)
  PROVE  app'.pc = pc /\ app'.k = k /\ app'.ok = app.ok /\ app'.prev = app.prev
  BY DEF CallTypes, Goto

LEMMA Unfailing ==
  ASSUME Closes, config \in Configs,
         NEW call \in {"Release", "Close", "MemoryUnMap"}
  PROVE  call \notin MayFail /\ Outcome(call) = {TRUE}
  BY DEF Closes, MayFail, Outcome

LEMMA ApplicationControl ==
  ASSUME Closes, ControlInv, Application PROVE ControlInv'
<1>0. /\ config' = config /\ TypeInv /\ TypeInv' /\ config \in Configs
      /\ app \in CallTypes
  BY ApplicationTypes, TypesHad DEF Application, Configured, ControlInv
<1>a. MayFail' = MayFail /\ Orderly' = Orderly /\ FailsUnopened' = FailsUnopened
  BY <1>0, ConfigStays DEF FailsUnopened
<1> USE <1>0, <1>a, GotoIs, Outcomes
        DEF ControlInv, AppAt, object, queues, driver, history, Stands, Fails, Ends,
            Settled
<1>1. CASE Initialize_Refuse
  BY <1>1 DEF Initialize_Refuse
<1>2. CASE Initialize_BadConfig
  <2>1. FailsUnopened
    BY <1>2 DEF Initialize_BadConfig, FailsUnopened
  <2> QED
    BY <1>2, <2>1 DEF Initialize_BadConfig
<1>3. CASE Initialize_Begin
  <2>1. CASE NoReference
    BY <1>3, <2>1 DEF Initialize_Begin, FailsUnopened
  <2>2. CASE ~NoReference
    BY <1>3, <2>2 DEF Initialize_Begin
  <2> QED
    BY <2>1, <2>2
<1>4. CASE Initialize_Open
  <2>1. CASE handle' = TRUE /\ session' = "OPEN" /\ Goto("init_params", 0)
    BY <1>4, <2>1 DEF Initialize_Open
  <2>2. CASE FALSE \in Outcome("Open") /\ Goto("init_fail", 0)
              /\ UNCHANGED <<handle, session>>
    <3>1. FailsUnopened
      BY <2>2 DEF Outcome, FailsUnopened
    <3> QED
      BY <1>4, <2>2, <3>1 DEF Initialize_Open
  <2> QED
    BY <1>4, <2>1, <2>2 DEF Initialize_Open
<1>5. CASE Initialize_Params
  BY <1>5 DEF Initialize_Params
<1>6. CASE Initialize_SetFrameBuffers
  BY <1>6 DEF Initialize_SetFrameBuffers
<1>7. CASE Initialize_ImportBuffers
  <2>1. /\ app'.pc \in {"init_buffers", "init_reserve", "init_fail"}
        /\ UNCHANGED <<state, handle, session, cb, illegal>>
        /\ app.pc = "init_buffers"
    <3>1. ASSUME NEW ok \in BOOLEAN, NextImport(ok)
          PROVE  app'.pc \in {"init_buffers", "init_reserve", "init_fail"}
      BY <3>1 DEF NextImport, CallTypes
    <3> QED
      BY <1>7, <3>1 DEF Initialize_ImportBuffers, Import_Stream
  <2> QED
    BY <2>1
<1>8. CASE Initialize_Reserve
  BY <1>8 DEF Initialize_Reserve
<1>9. CASE Initialize_Fail
  BY <1>9 DEF Initialize_Fail
<1>10. CASE Initialize_Close
  <2>1. /\ cb.pc = "idle" /\ session' = "CLOSED" /\ handle' = FALSE
        /\ app'.pc = "init_clear" /\ UNCHANGED <<state, cb>>
        /\ app.pc = "init_close"
        /\ illegal' => illegal \/ session = "CLOSED"
    BY <1>10 DEF Initialize_Close
  <2> QED
    BY <2>1
<1>11. CASE Initialize_Clear
  BY <1>11 DEF Initialize_Clear
<1>12. CASE Start_Begin
  BY <1>12 DEF Start_Begin
<1>13. CASE Start_Call
  <2>1. session = "RESERVED" /\ illegal' = illegal
    BY <1>13 DEF Start_Call, TypeInv, TypeOK
  <2>2. CASE session' = "STARTED" /\ Goto("start_run", 0) /\ UNCHANGED state
    BY <1>13, <2>1, <2>2 DEF Start_Call
  <2>3. CASE state' = "READY" /\ Goto("idle", 0) /\ UNCHANGED session
    BY <1>13, <2>1, <2>3 DEF Start_Call
  <2> QED
    BY <1>13, <2>2, <2>3 DEF Start_Call
<1>14. CASE Start_Run
  BY <1>14 DEF Start_Run
<1>15. CASE SubmitAllBuffers
  BY <1>15 DEF SubmitAllBuffers
<1>16. CASE Start_Fail
  BY <1>16 DEF Start_Fail
<1>17. CASE Start_Stop
  BY <1>17 DEF Start_Stop, StopCaptures
<1>18. CASE Stop_Begin
  BY <1>18 DEF Stop_Begin
<1>19. CASE Stop_Call
  <2>1. session = "STARTED" /\ illegal' = illegal
    BY <1>19 DEF Stop_Call, TypeInv, TypeOK
  <2>2. CASE StopCaptures /\ state' = "READY"
    BY <1>19, <2>1, <2>2 DEF Stop_Call, StopCaptures
  <2>3. CASE state' = "RUNNING" /\ UNCHANGED session
    BY <1>19, <2>1, <2>3 DEF Stop_Call
  <2> QED
    BY <1>19, <2>2, <2>3 DEF Stop_Call
<1>20. CASE DeInitialize_Begin
  BY <1>20 DEF DeInitialize_Begin
<1>21. CASE DeInitialize_Refuse
  BY <1>21 DEF DeInitialize_Refuse
<1>22. CASE DeInitialize_Release
  <2>1. session = "RESERVED" /\ illegal' = illegal
    BY <1>22 DEF DeInitialize_Release, TypeInv, TypeOK
  <2>2. session' = "OPEN" /\ app' = [app EXCEPT !.pc = "close", !.ok = TRUE]
    BY <1>22, Unfailing DEF DeInitialize_Release
  <2>3. app'.pc = "close" /\ app'.ok
    BY <2>2 DEF CallTypes
  <2> QED
    BY <1>22, <2>1, <2>2, <2>3 DEF DeInitialize_Release
<1>23. CASE DeInitialize_Close
  <2>1. session = "OPEN" /\ illegal' = illegal
    BY <1>23 DEF DeInitialize_Close, TypeInv, TypeOK
  <2>2. /\ session' = "CLOSED"
        /\ app' = [app EXCEPT !.ok = @ /\ TRUE,
                              !.pc = IF Imports THEN "unimport"
                                                ELSE "deinit_clear"]
    BY <1>23, Unfailing DEF DeInitialize_Close
  <2>3. app'.pc \in {"unimport", "deinit_clear"} /\ app'.ok
    BY <1>23, <2>2 DEF CallTypes, DeInitialize_Close
  <2> QED
    BY <1>23, <2>1, <2>2, <2>3 DEF DeInitialize_Close
<1>24. CASE DeInitialize_UnImport
  <2>1. app' = [app EXCEPT !.pc = "deinit_clear", !.ok = TRUE]
    <3>1. LastBuffer \notin {}
      OBVIOUS
    <3>2. PICK kept \in SUBSET mapped :
            /\ kept = {}
            /\ app' = [app EXCEPT !.pc = "deinit_clear",
                                  !.ok = LastBuffer \notin kept]
      BY <1>24, Unfailing DEF DeInitialize_UnImport
    <3> QED
      BY <3>1, <3>2
  <2>2. app'.pc = "deinit_clear" /\ app'.ok
    BY <2>1 DEF CallTypes
  <2> QED
    BY <1>24, <2>2 DEF DeInitialize_UnImport
<1>25. CASE DeInitialize_Clear
  BY <1>25 DEF DeInitialize_Clear
<1>26. CASE DeInitialize_End
  BY <1>26 DEF DeInitialize_End
<1> QED
  BY <1>1, <1>2, <1>3, <1>4, <1>5, <1>6, <1>7, <1>8, <1>9, <1>10,
     <1>11, <1>12, <1>13, <1>14, <1>15, <1>16, <1>17, <1>18, <1>19,
     <1>20, <1>21, <1>22, <1>23, <1>24, <1>25, <1>26
     DEF Application, Initialize, Start, Stop, DeInitialize

(* The other threads leave the node's state and the session alone, and a   *)
(* callback begins only on a started session.                              *)
LEMMA OthersLeave ==
  ASSUME TypeInv, Callback \/ Capture \/ \E w \in Workers : Worker(w)
  PROVE  /\ config' = config
         /\ UNCHANGED <<state, handle, frameBuffers, session, app, starts, illegal>>
         /\ cb'.pc # "idle" => cb.pc # "idle" \/ session = "STARTED"
<1> USE DEF Configured, object, queues, driver, threads, history
<1>1. CASE \E w \in Workers : Worker(w)
  BY <1>1 DEF Worker, ProcessFrameDescriptor, Process_Check, ReleaseFrame,
     SubmitRequest_One, SubmitRequest_Pattern, SubmitRequest_Submit
<1>2. CASE Callback
  <2>1. ASSUME NEW b \in Buf, GetFrame(b)
        PROVE  cb.pc # "idle"
    BY <2>1 DEF GetFrame
  <2> QED
    BY <1>2, <2>1 DEF Callback, QcarcamEventCb, GetFrame, FrameCallback,
       EventCallback
<1>3. CASE Capture
  BY <1>3 DEF Capture, ErrorReady, FrameReady
<1> QED
  BY <1>1, <1>2, <1>3

LEMMA ControlKept ==
  ASSUME Closes, ControlInv, [Next]_vars PROVE ControlInv'
<1>0. TypeInv /\ TypeInv'
  BY TypesKept DEF ControlInv
<1>1. CASE UNCHANGED <<config, state, handle, session, app, illegal>>
           /\ (cb'.pc # "idle" => cb.pc # "idle" \/ session = "STARTED")
  BY <1>0, <1>1, ConfigStays
     DEF ControlInv, Stands, Fails, Ends, Settled, FailsUnopened
<1>2. CASE UNCHANGED vars
  BY <1>1, <1>2 DEF vars, object, driver, threads, history
<1>3. CASE Callback \/ Capture \/ \E w \in Workers : Worker(w)
  BY <1>0, <1>1, <1>3, OthersLeave
<1> QED
  BY <1>2, <1>3, ApplicationControl DEF Next

LEMMA ControlInit == Init => ControlInv
<1> SUFFICES ASSUME Init PROVE ControlInv
  OBVIOUS
<1>1. TypeInv
  BY TypesInit
<1> QED
  BY <1>1 DEF Init, ControlInv, Stands, Fails, Ends, Settled

(***************************************************************************)
(* Start, Stop, Release and Close reach QCarCam only for a session in the  *)
(* state they need, in whatever order an application calls the node and    *)
(* whatever other calls fail, when those of DeInitialize succeed: one that *)
(* fails after QCarCamClose leaves the node READY without a session.       *)
(***************************************************************************)
THEOREM SessionsAreUsedInOrder ==
  ASSUME Closes
  PROVE  Spec => []SessionProtocol
<1>1. ControlInv => SessionProtocol
  BY DEF ControlInv, SessionProtocol, FailsUnopened
<1>2. ControlInv /\ [Next]_vars => ControlInv'
  BY ControlKept
<1> QED
  BY <1>1, <1>2, ControlInit, PTL DEF Spec

-----------------------------------------------------------------------------
(* The frame buffers' descriptors *)

Past(a) ==
  /\ a.pc \in {"init_open", "init_params", "deinit_end"} => frameBuffers = {}
  /\ a.pc = "init_buffers" => \/ frameBuffers = 1 .. a.k - 1
                              \/ Imports /\ frameBuffers = {}
  /\ a.pc = "unimport" => Imports
  /\ a.pc \in {"init_reserve", "start_call", "start_run", "submit_all",
               "start_fail", "start_stop", "stop_call", "release", "close",
               "unimport"} => frameBuffers = Streams
  /\ a.pc = "idle" => frameBuffers = IF state = "INITIAL" THEN {} ELSE Streams

(* An orderly application's node has all its descriptors or none but while *)
(* Initialize sets them up and after it has failed.                        *)
DescriptorInv ==
  /\ ControlInv
  /\ Orderly => Past(app)
  /\ Orderly /\ ~Imports => ~undefined

LEMMA LastStream ==
  ASSUME config \in Configs, NEW k \in Streams, ~(k < NumStreams)
  PROVE  k = NumStreams
  BY Shape DEF Streams

LEMMA Grows ==
  ASSUME config \in Configs, NEW k \in Streams, NEW F,
         F = 1 .. k - 1 \/ (F = {} /\ k = 1)
  PROVE  /\ F \union {k} = 1 .. k
         /\ k = NumStreams => F \union {k} = Streams
  BY Shape DEF Streams

LEMMA StartedHasAll ==
  ASSUME ControlInv, Past(app), Orderly, session = "STARTED"
  PROVE  frameBuffers = Streams
  BY DEF ControlInv, TypeInv, TypeOK, CallTypes, AppPcs, Stands, Fails, Ends,
         Settled, Past

LEMMA ApplicationDescriptors ==
  ASSUME Closes, DescriptorInv, Application, Orderly
  PROVE  Past(app)' /\ (~Imports => undefined' = undefined)
<1>0. /\ config' = config /\ TypeInv /\ ControlInv /\ config \in Configs
      /\ app \in CallTypes /\ Past(app)
  BY ApplicationTypes, TypesHad
  DEF Application, Configured, ControlInv, DescriptorInv
<1>a. Orderly /\ Streams' = Streams
  BY <1>0, ConfigStays
<1>c. Imports' = Imports /\ Imports \in BOOLEAN
  BY <1>0, ConfigStays, Shape
<1>b. /\ Stands(app, state, session) /\ Ends(app, state, session)
  BY <1>0 DEF ControlInv
<1> USE <1>0, <1>a, <1>b, <1>c, GotoIs, Outcomes
        DEF AppAt, object, queues, driver, history, Stands, Settled, Ends, Past
<1>1. CASE Initialize_Refuse
  BY <1>1 DEF Initialize_Refuse
<1>2. CASE Initialize_BadConfig
  BY <1>2 DEF Initialize_BadConfig
<1>3. CASE Initialize_Begin
  BY <1>3 DEF Initialize_Begin
<1>4. CASE Initialize_Open
  BY <1>4 DEF Initialize_Open
<1>5. CASE Initialize_Params
  <2>1. PICK ok \in BOOLEAN :
          app' = [app EXCEPT !.pc = IF ok THEN "init_buffers" ELSE "init_fail",
                             !.k = 1, !.ok = TRUE]
    BY <1>5 DEF Initialize_Params
  <2>2. app'.pc \in {"init_buffers", "init_fail"} /\ app'.k = 1
    BY <2>1 DEF CallTypes
  <2> QED
    BY <1>5, <2>2 DEF Initialize_Params
<1>6. CASE Initialize_SetFrameBuffers
  <2>1. /\ app.pc = "init_buffers" /\ app.k \in Streams
        /\ frameBuffers = 1 .. app.k - 1
        /\ UNCHANGED <<state, undefined>>
    BY <1>6 DEF Initialize_SetFrameBuffers, CallTypes
  <2>2. CASE frameBuffers' = {} /\ Goto("init_fail", 0)
    BY <2>1, <2>2
  <2>3. ASSUME frameBuffers' = frameBuffers \union {app.k},
               frameBuffers = 1 .. app.k - 1,
               \/ app.k = NumStreams /\ Goto("init_reserve", 0)
               \/ app.k # NumStreams /\ Goto("init_buffers", app.k + 1)
        PROVE  Past(app)'
    <3>1. /\ frameBuffers' = 1 .. app.k
          /\ app.k = NumStreams => frameBuffers' = Streams
      BY <2>1, <2>3, Grows
    <3>2. 1 .. app.k = 1 .. (app.k + 1) - 1
      BY ONLY <1>0, <2>1, StreamNext
    <3> QED
      BY <2>1, <2>3, <3>1, <3>2
  <2>4. Past(app)'
    BY <1>6, <2>1, <2>2, <2>3 DEF Initialize_SetFrameBuffers
  <2> QED
    BY <2>1, <2>4
<1>7. CASE Initialize_ImportBuffers
  <2>1. /\ app.pc = "init_buffers" /\ app.k \in Streams
        /\ frameBuffers = {} \/ frameBuffers = 1 .. app.k - 1
        /\ UNCHANGED state /\ Imports
    BY <1>7 DEF Initialize_ImportBuffers, CallTypes
  <2>2. ASSUME NEW ok \in BOOLEAN, NextImport(ok)
        PROVE  /\ app'.k = app.k + 1
               /\ \/ app'.pc = "init_buffers"
                  \/ app'.pc = "init_fail"
                  \/ app'.pc = "init_reserve" /\ app.k = NumStreams
    <3>1. ~(app.k < NumStreams) => app.k = NumStreams
      BY ONLY <1>0, <2>1, LastStream
    <3> QED
      BY <2>2, <3>1 DEF NextImport, CallTypes
  <2>3. CASE frameBuffers' = {} /\ NextImport(FALSE) /\ app.k < NumStreams
    <3>1. app'.pc = "init_buffers"
      BY <2>3 DEF NextImport, CallTypes
    <3> QED
      BY <2>1, <2>3, <3>1
  <2>4. CASE frameBuffers' = {} /\ NextImport(FALSE) /\ ~(app.k < NumStreams)
    <3>1. app'.pc = "init_fail"
      BY <2>4 DEF NextImport, CallTypes
    <3> QED
      BY <2>1, <2>4, <3>1
  <2>5. CASE UNCHANGED <<frameBuffers, app>>
    BY <2>1, <2>5
  <2>6. ASSUME frameBuffers # {} \/ app.k = 1,
               frameBuffers' = frameBuffers \union {app.k},
               NEW ok \in BOOLEAN, NextImport(ok)
        PROVE  Past(app)'
    <3>1. /\ frameBuffers' = 1 .. app.k
          /\ app.k = NumStreams => frameBuffers' = Streams
      BY <2>1, <2>6, Grows
    <3>2. 1 .. app.k = 1 .. app'.k - 1
      BY ONLY <1>0, <2>1, <2>2, <2>6, StreamNext
    <3> QED
      BY <2>1, <2>2, <2>6, <3>1, <3>2
  <2>7. \/ frameBuffers' = {} /\ NextImport(FALSE)
        \/ UNCHANGED <<frameBuffers, app>>
        \/ /\ frameBuffers # {} \/ app.k = 1
           /\ frameBuffers' = frameBuffers \union {app.k}
           /\ \E ok \in BOOLEAN : NextImport(ok)
    BY <1>7 DEF Initialize_ImportBuffers, Import_Stream
  <2>8. Past(app)'
    BY <2>3, <2>4, <2>5, <2>6, <2>7
  <2> QED
    BY <2>1, <2>8
<1>8. CASE Initialize_Reserve
  BY <1>8 DEF Initialize_Reserve
<1>9. CASE Initialize_Fail
  BY <1>9 DEF Initialize_Fail
<1>10. CASE Initialize_Close
  BY <1>10 DEF Initialize_Close
<1>11. CASE Initialize_Clear
  BY <1>11 DEF Initialize_Clear
<1>12. CASE Start_Begin
  BY <1>12 DEF Start_Begin
<1>13. CASE Start_Call
  BY <1>13 DEF Start_Call
<1>14. CASE Start_Run
  BY <1>14 DEF Start_Run
<1>15. CASE SubmitAllBuffers
  BY <1>15 DEF SubmitAllBuffers
<1>16. CASE Start_Fail
  BY <1>16 DEF Start_Fail
<1>17. CASE Start_Stop
  BY <1>17 DEF Start_Stop, StopCaptures
<1>18. CASE Stop_Begin
  BY <1>18 DEF Stop_Begin
<1>19. CASE Stop_Call
  BY <1>19 DEF Stop_Call, StopCaptures
<1>20. CASE DeInitialize_Begin
  BY <1>20 DEF DeInitialize_Begin
<1>21. CASE DeInitialize_Refuse
  BY <1>21 DEF DeInitialize_Refuse
<1>22. CASE DeInitialize_Release
  BY <1>22 DEF DeInitialize_Release
<1>23. CASE DeInitialize_Close
  <2>1. app'.pc = IF Imports THEN "unimport" ELSE "deinit_clear"
    BY <1>23 DEF DeInitialize_Close, CallTypes
  <2> QED
    BY <1>23, <2>1 DEF DeInitialize_Close
<1>24. CASE DeInitialize_UnImport
  BY <1>24 DEF DeInitialize_UnImport
<1>25. CASE DeInitialize_Clear
  BY <1>25 DEF DeInitialize_Clear
<1>26. CASE DeInitialize_End
  BY <1>26 DEF DeInitialize_End
<1> QED
  BY <1>1, <1>2, <1>3, <1>4, <1>5, <1>6, <1>7, <1>8, <1>9, <1>10,
     <1>11, <1>12, <1>13, <1>14, <1>15, <1>16, <1>17, <1>18, <1>19,
     <1>20, <1>21, <1>22, <1>23, <1>24, <1>25, <1>26
     DEF Application, Initialize, Start, Stop, DeInitialize

(* A callback in progress fills in a descriptor of the node's streams.     *)
LEMMA CallbackDescriptors ==
  ASSUME DescriptorInv, Callback, Orderly, ~undefined
  PROVE  ~undefined'
<1>1. ControlInv /\ Past(app) /\ TypeInv
  BY DEF DescriptorInv, ControlInv
<1>2. cb.pc # "idle" => frameBuffers = Streams
  BY <1>1, StartedHasAll DEF ControlInv
<1>3. ASSUME NEW b \in Buf, GetFrame(b) PROVE ~undefined'
  BY <1>2, <1>3, BufIs DEF GetFrame
<1>4. CASE FrameCallback
  <2>1. cb.cur \in Buf
    BY <1>1, <1>4, TypesHad DEF FrameCallback, CallbackTypes
  <2> QED
    BY <1>2, <1>4, <2>1, BufIs DEF FrameCallback
<1>5. CASE EventCallback
  BY <1>5 DEF EventCallback
<1> QED
  BY <1>3, <1>4, <1>5 DEF Callback, QcarcamEventCb

LEMMA DescriptorKept ==
  ASSUME Closes, DescriptorInv, [Next]_vars PROVE DescriptorInv'
<1>0. ControlInv /\ ControlInv' /\ TypeInv
  BY ControlKept DEF DescriptorInv, ControlInv
<1>1. CASE Application
  <2>1. config' = config
    BY <1>1 DEF Application, Configured
  <2> QED
    BY <1>0, <1>1, <2>1, ApplicationDescriptors, ConfigStays DEF DescriptorInv
<1>2. ASSUME UNCHANGED <<config, frameBuffers, state, app>>,
             Orderly /\ ~Imports => ~undefined'
      PROVE  DescriptorInv'
  BY <1>0, <1>2, ConfigStays DEF DescriptorInv, Past
<1>3. CASE Callback
  BY <1>2, <1>3, <1>0, OthersLeave, CallbackDescriptors DEF DescriptorInv
<1>4. CASE Capture
  <2>1. undefined' = undefined
    BY <1>4 DEF Capture, ErrorReady, FrameReady, history
  <2> QED
    BY <1>2, <1>4, <1>0, <2>1, OthersLeave DEF DescriptorInv
<1>5. CASE \E w \in Workers : Worker(w)
  <2>1. undefined' = undefined
    BY <1>5 DEF Worker, ProcessFrameDescriptor, Process_Check, ReleaseFrame,
       SubmitRequest_One, SubmitRequest_Pattern, SubmitRequest_Submit, history
  <2> QED
    BY <1>2, <1>5, <1>0, <2>1, OthersLeave DEF DescriptorInv
<1>6. CASE UNCHANGED vars
  BY <1>2, <1>6 DEF vars, object, threads, history, DescriptorInv
<1> QED
  BY <1>1, <1>3, <1>4, <1>5, <1>6 DEF Next

LEMMA DescriptorInit == Init => DescriptorInv
  BY ControlInit DEF Init, DescriptorInv, Past

(***************************************************************************)
(* With no call in progress an orderly application's node is in the state  *)
(* of its session, and has the descriptors of all its streams or of none.  *)
(***************************************************************************)
THEOREM StatesCorrespond ==
  ASSUME Closes
  PROVE  Spec => []StateMatchesSession
<1>1. DescriptorInv => StateMatchesSession
  BY DEF DescriptorInv, ControlInv, Stands, Settled, Past, AppAt,
         StateMatchesSession
<1>2. DescriptorInv /\ [Next]_vars => DescriptorInv'
  BY DescriptorKept
<1> QED
  BY <1>1, <1>2, DescriptorInit, PTL DEF Spec

(***************************************************************************)
(* The callback of an orderly application's camera finds the descriptors   *)
(* of its streams, wherever Initialize, Stop or DeInitialize stand.        *)
(***************************************************************************)
THEOREM DescriptorsOutliveCallbacks ==
  ASSUME Closes
  PROVE  Spec => []NoFreedDescriptor
<1>1. DescriptorInv => NoFreedDescriptor
  BY DEF DescriptorInv, NoFreedDescriptor
<1>2. DescriptorInv /\ [Next]_vars => DescriptorInv'
  BY DescriptorKept
<1> QED
  BY <1>1, <1>2, DescriptorInit, PTL DEF Spec

-----------------------------------------------------------------------------
(* Where the session is started, whatever calls fail *)

Begun(a, st, ses) ==
  /\ a.pc = "idle" => /\ st \in {"INITIAL", "READY", "RUNNING"}
                      /\ ses = "STARTED" <=> st = "RUNNING"
  /\ a.pc \in {"start_run", "submit_all", "start_fail", "start_stop",
               "stop_call"} => ses = "STARTED"
  /\ a.pc \in {"init_open", "init_params", "init_buffers", "init_reserve",
               "init_clear", "start_call", "release", "close", "unimport"}
       => ses # "STARTED"
  /\ a.pc \in {"init_close", "init_clear"} => st = "INITIAL"
  /\ a.pc = "start_stop" => st = "READY"
  /\ a.pc = "submit_all" => st = "RUNNING" /\ RequestMode
  /\ a.pc \in {"release", "close", "unimport"}
       => st = "DEINITIALIZING" /\ a.prev = "READY"
  /\ a.pc \in {"deinit_clear", "deinit_end"} =>
       \/ st = "DEINITIALIZING" /\ a.prev = "READY" /\ ses # "STARTED"
       \/ ~a.ok /\ a.prev = st /\ st \in {"INITIAL", "RUNNING"}
          /\ (ses = "STARTED" <=> st = "RUNNING")

(* From there Start may begin the session: it has a handle.                *)
Startable(a, st) ==
  \/ a.pc \in {"init_params", "init_buffers", "init_reserve", "start_call",
               "release", "close", "unimport"}
  \/ a.pc = "idle" /\ st = "READY"
  \/ a.pc \in {"deinit_clear", "deinit_end"} /\ st = "DEINITIALIZING"

StartedInv ==
  /\ TypeInv
  /\ cb.pc # "idle" => session = "STARTED"
  /\ Begun(app, state, session)
  /\ session = "STARTED" \/ Startable(app, state) => handle
  /\ session = "STARTED" \/ app.pc = "start_call" => starts > 0

LEMMA ApplicationStarted ==
  ASSUME StartedInv, Application PROVE StartedInv'
<1>0. /\ config' = config /\ TypeInv /\ TypeInv' /\ config \in Configs
      /\ app \in CallTypes /\ starts \in Nat
  BY ApplicationTypes, TypesHad DEF Application, Configured, StartedInv
<1>a. RequestMode' = RequestMode
  BY <1>0, ConfigStays
<1> USE <1>0, <1>a, GotoIs, Outcomes
        DEF StartedInv, AppAt, object, queues, driver, history, Begun, Startable
<1>1. CASE Initialize_Refuse
  BY <1>1 DEF Initialize_Refuse
<1>2. CASE Initialize_BadConfig
  BY <1>2 DEF Initialize_BadConfig
<1>3. CASE Initialize_Begin
  BY <1>3 DEF Initialize_Begin
<1>4. CASE Initialize_Open
  BY <1>4 DEF Initialize_Open
<1>5. CASE Initialize_Params
  BY <1>5 DEF Initialize_Params
<1>6. CASE Initialize_SetFrameBuffers
  BY <1>6 DEF Initialize_SetFrameBuffers
<1>7. CASE Initialize_ImportBuffers
  <2>1. /\ app'.pc \in {"init_buffers", "init_reserve", "init_fail"}
        /\ UNCHANGED <<state, handle, session, cb, starts>>
        /\ app.pc = "init_buffers"
    <3>1. ASSUME NEW ok \in BOOLEAN, NextImport(ok)
          PROVE  app'.pc \in {"init_buffers", "init_reserve", "init_fail"}
      BY <3>1 DEF NextImport, CallTypes
    <3> QED
      BY <1>7, <3>1 DEF Initialize_ImportBuffers, Import_Stream
  <2> QED
    BY <2>1
<1>8. CASE Initialize_Reserve
  BY <1>8 DEF Initialize_Reserve
<1>9. CASE Initialize_Fail
  BY <1>9 DEF Initialize_Fail
<1>10. CASE Initialize_Close
  <2>1. /\ cb.pc = "idle" /\ app.pc = "init_close" /\ app'.pc = "init_clear"
        /\ session' # "STARTED" /\ UNCHANGED <<state, cb, starts>>
    BY <1>10 DEF Initialize_Close
  <2> QED
    BY <2>1
<1>11. CASE Initialize_Clear
  BY <1>11 DEF Initialize_Clear
<1>12. CASE Start_Begin
  BY <1>12 DEF Start_Begin
<1>13. CASE Start_Call
  BY <1>13 DEF Start_Call
<1>14. CASE Start_Run
  BY <1>14 DEF Start_Run
<1>15. CASE SubmitAllBuffers
  BY <1>15 DEF SubmitAllBuffers
<1>16. CASE Start_Fail
  BY <1>16 DEF Start_Fail
<1>17. CASE Start_Stop
  BY <1>17 DEF Start_Stop, StopCaptures
<1>18. CASE Stop_Begin
  BY <1>18 DEF Stop_Begin
<1>19. CASE Stop_Call
  BY <1>19 DEF Stop_Call, StopCaptures
<1>20. CASE DeInitialize_Begin
  BY <1>20 DEF DeInitialize_Begin
<1>21. CASE DeInitialize_Refuse
  <2>1. /\ app.pc = "idle" /\ state # "READY" /\ app'.pc = "deinit_clear"
        /\ ~app'.ok /\ app'.prev = state
        /\ UNCHANGED <<state, handle, session, cb, starts>>
    BY <1>21 DEF DeInitialize_Refuse, CallTypes
  <2> QED
    BY <2>1
<1>22. CASE DeInitialize_Release
  <2>1. /\ app.pc = "release" /\ app'.pc = "close"
        /\ session' # "STARTED" /\ UNCHANGED <<state, handle, cb, starts>>
    BY <1>22 DEF DeInitialize_Release, CallTypes
  <2>2. app'.prev = app.prev
    BY <1>22 DEF DeInitialize_Release, CallTypes
  <2> QED
    BY <2>1, <2>2
<1>23. CASE DeInitialize_Close
  <2>1. /\ app.pc = "close" /\ app'.pc \in {"unimport", "deinit_clear"}
        /\ app'.prev = app.prev
        /\ session' # "STARTED" /\ UNCHANGED <<state, handle, cb, starts>>
    BY <1>23 DEF DeInitialize_Close, CallTypes
  <2> QED
    BY <2>1
<1>24. CASE DeInitialize_UnImport
  <2>1. /\ app.pc = "unimport" /\ app'.pc = "deinit_clear"
        /\ app'.prev = app.prev
        /\ UNCHANGED <<state, handle, session, cb, starts>>
    BY <1>24 DEF DeInitialize_UnImport, CallTypes
  <2> QED
    BY <2>1
<1>25. CASE DeInitialize_Clear
  BY <1>25 DEF DeInitialize_Clear
<1>26. CASE DeInitialize_End
  BY <1>26 DEF DeInitialize_End
<1> QED
  BY <1>1, <1>2, <1>3, <1>4, <1>5, <1>6, <1>7, <1>8, <1>9, <1>10,
     <1>11, <1>12, <1>13, <1>14, <1>15, <1>16, <1>17, <1>18, <1>19,
     <1>20, <1>21, <1>22, <1>23, <1>24, <1>25, <1>26
     DEF Application, Initialize, Start, Stop, DeInitialize

LEMMA StartedKept ==
  ASSUME StartedInv, [Next]_vars PROVE StartedInv'
<1>0. TypeInv /\ TypeInv'
  BY TypesKept DEF StartedInv
<1>1. CASE UNCHANGED <<config, state, handle, session, app, starts>>
           /\ (cb'.pc # "idle" => cb.pc # "idle" \/ session = "STARTED")
  BY <1>0, <1>1, ConfigStays DEF StartedInv, Begun, Startable
<1>2. CASE UNCHANGED vars
  BY <1>1, <1>2 DEF vars, object, driver, threads, history
<1>3. CASE Callback \/ Capture \/ \E w \in Workers : Worker(w)
  BY <1>0, <1>1, <1>3, OthersLeave
<1> QED
  BY <1>2, <1>3, ApplicationStarted DEF Next

LEMMA StartedInit == Init => StartedInv
<1> SUFFICES ASSUME Init PROVE StartedInv
  OBVIOUS
<1>1. TypeInv
  BY TypesInit
<1> QED
  BY <1>1 DEF Init, StartedInv, Begun, Startable

-----------------------------------------------------------------------------
(* Where a frame buffer is *)

In(q, k)   == \E i \in 1 .. Len(q) : q[i] = k
Once(q, k) == \A i, j \in 1 .. Len(q) : q[i] = k /\ q[j] = k => i = j

LEMMA AppendIn ==
  ASSUME NEW q \in Seq(Nat), NEW v \in Nat, NEW k
  PROVE  /\ In(Append(q, v), k) <=> In(q, k) \/ k = v
         /\ Once(q, k) /\ (k = v => ~In(q, k)) => Once(Append(q, v), k)
  BY DEF In, Once

LEMMA TailIn ==
  ASSUME NEW q \in Seq(Nat), q # <<>>, NEW k
  PROVE  /\ In(q, k) <=> In(Tail(q), k) \/ k = Head(q)
         /\ Once(q, k) => /\ Once(Tail(q), k)
                          /\ ~(k = Head(q) /\ In(Tail(q), k))
<1>1. /\ Len(q) \in Nat \ {0} /\ Len(Tail(q)) = Len(q) - 1 /\ Head(q) = q[1]
      /\ \A i \in 1 .. Len(q) - 1 : Tail(q)[i] = q[i + 1]
  OBVIOUS
<1>2. ASSUME In(Tail(q), k) PROVE In(q, k)
  <2>1. PICK i \in 1 .. Len(q) - 1 : Tail(q)[i] = k
    BY <1>1, <1>2 DEF In
  <2>2. i + 1 \in 1 .. Len(q) /\ q[i + 1] = k
    BY <1>1, <2>1
  <2> QED
    BY <2>2 DEF In
<1>3. ASSUME k = Head(q) PROVE In(q, k)
  BY <1>1, <1>3 DEF In
<1>4. ASSUME In(q, k), k # Head(q) PROVE In(Tail(q), k)
  <2>1. PICK i \in 1 .. Len(q) : q[i] = k
    BY <1>4 DEF In
  <2>2. i - 1 \in 1 .. Len(q) - 1 /\ Tail(q)[i - 1] = k
    BY <1>1, <1>4, <2>1
  <2> QED
    BY <1>1, <2>2 DEF In
<1>5. ASSUME Once(q, k), k = Head(q), In(Tail(q), k) PROVE FALSE
  <2>1. PICK i \in 1 .. Len(q) - 1 : Tail(q)[i] = k
    BY <1>1, <1>5 DEF In
  <2>2. i + 1 \in 1 .. Len(q) /\ q[i + 1] = k /\ 1 \in 1 .. Len(q) /\ q[1] = k
    BY <1>1, <1>5, <2>1
  <2>3. i + 1 = 1
    BY <1>5, <2>2 DEF Once
  <2> QED
    BY <2>1, <2>3
<1>6. ASSUME Once(q, k) PROVE Once(Tail(q), k)
  <2> SUFFICES ASSUME NEW i \in 1 .. Len(q) - 1, NEW j \in 1 .. Len(q) - 1,
                      Tail(q)[i] = k, Tail(q)[j] = k
               PROVE  i = j
    BY <1>1 DEF Once
  <2>1. i + 1 \in 1 .. Len(q) /\ q[i + 1] = k /\ j + 1 \in 1 .. Len(q) /\ q[j + 1] = k
    BY <1>1
  <2>2. i + 1 = j + 1
    BY <1>6, <2>1 DEF Once
  <2> QED
    BY <2>2
<1> QED
  BY <1>2, <1>3, <1>4, <1>5, <1>6

(* The call of a worker has the buffer it processes, then those of its     *)
(* request.                                                                *)
With(r, b) == \/ r.pc = "execute" /\ r.buf = b
              \/ r.pc = "submit" /\ b \in r.request

QueueOf(b) == freeBufIdxQueue[b[1]]

Free(b) ==
  /\ owned[b] = 0
  /\ ~In(QueueOf(b), b[2])
  /\ b \notin held
  /\ b \notin cb.frames
  /\ \A w \in Workers : ~With(worker[w], b)

(* At most one of QCarCam, its queue, the application, the callback and    *)
(* the workers has the buffer, and has it once.                            *)
Single(b) ==
  /\ owned[b] <= 1
  /\ Once(QueueOf(b), b[2])
  /\ owned[b] > 0 => /\ ~In(QueueOf(b), b[2]) /\ b \notin held
                     /\ b \notin cb.frames
                     /\ \A w \in Workers : ~With(worker[w], b)
  /\ In(QueueOf(b), b[2]) => /\ b \notin held /\ b \notin cb.frames
                             /\ \A w \in Workers : ~With(worker[w], b)
  /\ b \in held => b \notin cb.frames /\ \A w \in Workers : ~With(worker[w], b)
  /\ b \in cb.frames => \A w \in Workers : ~With(worker[w], b)
  /\ \A v, w \in Workers : With(worker[v], b) /\ With(worker[w], b) => v = w

(* A camera in this state returns every buffer it is given.                *)
Kept ==
  /\ RequestMode /\ ~Imports /\ ~RequestsLost
  /\ state = "RUNNING" /\ session = "STARTED" /\ frameBuffers = Streams

PlaceInv ==
  /\ ~PatternMode => \A s \in Streams : freeBufIdxQueue[s] = <<>>
  /\ ~PatternMode => \A w \in Workers :
                       worker[w].pc = "submit" => worker[w].request = {worker[w].buf}
  /\ cb.pc \in {"idle", "event"} => cb.frames = {}

Moves(b) ==
  /\ Single(b) => Single(b)'
  /\ Free(b) => Free(b)'
  /\ Kept /\ ~Free(b) => ~Free(b)'

LEMMA SetPlaces ==
  ASSUME worker \in [Workers -> WorkerTypes], NEW w \in Workers,
         NEW pc, NEW b, NEW request, Set(w, pc, b, request)
  PROVE  /\ \A v \in Workers : v # w => worker'[v] = worker[v]
         /\ \A x : With(worker'[w], x) <=> \/ pc = "execute" /\ b = x
                                           \/ pc = "submit" /\ x \in request
         /\ worker'[w].pc = pc /\ worker'[w].buf = b /\ worker'[w].request = request
  BY DEF Set, With

LEMMA SubmitPlaces ==
  ASSUME owned \in [Buf -> Nat], NEW F, Submit(F), NEW b \in Buf
  PROVE  owned'[b] = IF b \in F THEN owned[b] + 1 ELSE owned[b]
  BY DEF Submit

LEMMA ReturnPlaces ==
  ASSUME worker \in [Workers -> WorkerTypes], NEW w \in Workers, Return(w)
  PROVE  /\ \A v \in Workers : v # w => worker'[v] = worker[v]
         /\ \A x : ~With(worker'[w], x)
         /\ worker'[w].pc = "idle"
  BY SetPlaces DEF Return

(* The frame the application is done with goes to the worker, or nowhere.  *)
LEMMA CheckMoves ==
  ASSUME TypeInv, NEW w \in Workers, NEW b \in Buf, Process_Check(w, b),
         NEW x \in Buf
  PROVE  Moves(x)
<1>1. /\ worker \in [Workers -> WorkerTypes] /\ owned \in [Buf -> Nat]
      /\ b[1] \in Streams
  BY TypesHad, BufIs
<1>2. /\ UNCHANGED <<owned, freeBufIdxQueue, cb>> /\ b \in held
      /\ held' = held \ {b} /\ ~With(worker[w], x)
  BY DEF Process_Check, queues, driver, With
<1>3. CASE UNCHANGED worker /\ ~Kept
  BY <1>2, <1>3 DEF Moves, Single, Free, QueueOf
<1>4. CASE Set(w, "execute", b, {})
  <2>1. /\ \A v \in Workers : v # w => worker'[v] = worker[v]
        /\ With(worker'[w], x) <=> b = x
    BY <1>1, <1>4, SetPlaces
  <2> QED
    BY <1>2, <2>1 DEF Moves, Single, Free, QueueOf
<1> QED
  BY <1>1, <1>3, <1>4 DEF Process_Check, Kept

LEMMA ReleaseMoves ==
  ASSUME TypeInv, NEW w \in Workers, ReleaseFrame(w), NEW x \in Buf
  PROVE  Moves(x)
<1> DEFINE b == worker[w].buf
<1>1. worker \in [Workers -> WorkerTypes] /\ owned \in [Buf -> Nat]
  BY TypesHad
<1>2. /\ UNCHANGED <<freeBufIdxQueue, cb>>
      /\ With(worker[w], x) <=> x = b
      /\ ~Kept
  BY DEF ReleaseFrame, queues, With, Kept
<1>3. /\ \A v \in Workers : v # w => worker'[v] = worker[v]
      /\ ~With(worker'[w], x)
  BY <1>1, ReturnPlaces DEF ReleaseFrame
<1>4. \/ owned'[x] = (IF x = b THEN owned[x] + 1 ELSE owned[x]) /\ held' = held
      \/ owned'[x] = owned[x] /\ held' = held \union {b}
  BY <1>1, SubmitPlaces DEF ReleaseFrame
<1> HIDE DEF b
<1>5. owned[x] \in Nat
  BY <1>1
<1> QED
  BY <1>2, <1>3, <1>4, <1>5 DEF Moves, Single, Free, QueueOf

LEMMA OneMoves ==
  ASSUME TypeInv, NEW w \in Workers, SubmitRequest_One(w), NEW x \in Buf
  PROVE  Moves(x)
<1> DEFINE b == worker[w].buf
<1>1. worker \in [Workers -> WorkerTypes] /\ owned \in [Buf -> Nat]
  BY TypesHad
<1>2. /\ UNCHANGED <<freeBufIdxQueue, cb, owned>>
      /\ With(worker[w], x) <=> x = b
  BY DEF SubmitRequest_One, queues, driver, With
<1>3. CASE Set(w, "submit", b, {b}) /\ UNCHANGED held
  <2>1. /\ \A v \in Workers : v # w => worker'[v] = worker[v]
        /\ With(worker'[w], x) <=> x = b
    BY <1>1, <1>3, SetPlaces
  <2> HIDE DEF b
  <2> QED
    BY <1>2, <1>3, <2>1 DEF Moves, Single, Free, QueueOf
<1>4. CASE Return(w) /\ held' = held \union {b} /\ Imports
  <2>1. /\ \A v \in Workers : v # w => worker'[v] = worker[v]
        /\ ~With(worker'[w], x)
    BY <1>1, <1>4, ReturnPlaces
  <2> HIDE DEF b
  <2> QED
    BY <1>2, <1>4, <2>1 DEF Moves, Single, Free, QueueOf, Kept
<1> QED
  BY <1>3, <1>4 DEF SubmitRequest_One

LEMMA SubmitMoves ==
  ASSUME TypeInv, PlaceInv, NEW w \in Workers, SubmitRequest_Submit(w),
         NEW x \in Buf
  PROVE  Moves(x)
<1> DEFINE R == worker[w].request
<1>1. worker \in [Workers -> WorkerTypes] /\ owned \in [Buf -> Nat]
  BY TypesHad
<1>2. /\ UNCHANGED <<freeBufIdxQueue, cb>>
      /\ With(worker[w], x) <=> x \in R
  BY DEF SubmitRequest_Submit, queues, With
<1>3. /\ \A v \in Workers : v # w => worker'[v] = worker[v]
      /\ ~With(worker'[w], x)
  BY <1>1, ReturnPlaces DEF SubmitRequest_Submit
<1>4. owned[x] \in Nat
  BY <1>1
<1>5. CASE Submit(R) /\ UNCHANGED held
  <2>1. owned'[x] = IF x \in R THEN owned[x] + 1 ELSE owned[x]
    BY <1>1, <1>5, SubmitPlaces
  <2> HIDE DEF R
  <2> QED
    BY <1>2, <1>3, <1>4, <1>5, <2>1 DEF Moves, Single, Free, QueueOf
<1>6. CASE /\ UNCHANGED owned /\ PatternMode /\ held' = held
           /\ session = "STARTED" => "Submit" \in MayFail
  <2>1. ~Kept
    BY <1>6 DEF Kept, RequestsLost
  <2> HIDE DEF R
  <2> QED
    BY <1>2, <1>3, <1>6, <2>1 DEF Moves, Single, Free, QueueOf
<1>7. CASE UNCHANGED owned /\ ~PatternMode /\ held' = held \union {worker[w].buf}
  <2>1. held' = held \union R
    BY <1>7 DEF PlaceInv, SubmitRequest_Submit
  <2> HIDE DEF R
  <2> QED
    BY <1>2, <1>3, <1>7, <2>1 DEF Moves, Single, Free, QueueOf
<1> QED
  BY <1>5, <1>6, <1>7 DEF SubmitRequest_Submit, Outcome

(* With a pattern the index of the frame is queued; then some of the       *)
(* queues are popped, and what is popped is the request.                   *)
LEMMA QueueMoves ==
  ASSUME TypeInv, NEW b \in Buf, NEW x \in Buf
  PROVE  /\ In(Popped(b)[x[1]], x[2]) \/ x \in RequestOf(b)
              <=> In(QueueOf(x), x[2]) \/ x = b
         /\ Once(QueueOf(x), x[2]) /\ (x = b => ~In(QueueOf(x), x[2]))
              => /\ Once(Popped(b)[x[1]], x[2])
                 /\ ~(In(Popped(b)[x[1]], x[2]) /\ x \in RequestOf(b))
<1> DEFINE s == x[1]
           k == x[2]
           q == Queue(b, s)
<1>1. /\ s \in Streams /\ x = <<s, k>> /\ b = <<b[1], b[2]>>
      /\ b[2] \in Nat /\ freeBufIdxQueue[s] \in Seq(Nat) /\ q \in Seq(Nat)
  <2>1. Indices(s) \subseteq Nat /\ Indices(b[1]) \subseteq Nat
    BY BufIs, TypesHad, IndicesNat
  <2>2. q \in Seq(Indices(s)) /\ b[2] \in Indices(b[1])
    BY BufIs, QueueTyped DEF Indices
  <2> QED
    BY <2>1, <2>2, BufIs, TypesHad
<1>2. /\ In(q, k) <=> In(freeBufIdxQueue[s], k) \/ x = b
      /\ Once(freeBufIdxQueue[s], k) /\ (x = b => ~In(freeBufIdxQueue[s], k))
           => Once(q, k)
  <2>1. CASE s = b[1]
    <3>1. q = Append(freeBufIdxQueue[s], b[2]) /\ (x = b <=> k = b[2])
      BY <1>1, <2>1 DEF Queue
    <3> HIDE DEF q, s, k
    <3> QED
      BY <1>1, <3>1, AppendIn
  <2>2. CASE s # b[1]
    <3>1. q = freeBufIdxQueue[s] /\ x # b
      BY <2>2 DEF Queue
    <3> QED
      BY <3>1
  <2> QED
    BY <2>1, <2>2
<1>3. CASE s \in Taken(b)
  <2>1. /\ Popped(b)[s] = Tail(q) /\ q # <<>>
    BY <1>1, <1>3 DEF Popped, Taken
  <2>2. x \in RequestOf(b) <=> k = Head(q)
    BY <1>1, <1>3 DEF RequestOf
  <2> HIDE DEF q
  <2> QED
    BY <1>1, <1>2, <2>1, <2>2, TailIn DEF QueueOf
<1>4. CASE s \notin Taken(b)
  <2>1. Popped(b)[s] = q
    BY <1>1, <1>4 DEF Popped
  <2>2. x \notin RequestOf(b)
    BY <1>1, <1>4 DEF RequestOf
  <2> HIDE DEF q
  <2> QED
    BY <1>1, <1>2, <2>1, <2>2 DEF QueueOf
<1> QED
  BY <1>3, <1>4

LEMMA PatternMoves ==
  ASSUME TypeInv, NEW w \in Workers, SubmitRequest_Pattern(w), NEW x \in Buf
  PROVE  Moves(x)
<1> DEFINE b == worker[w].buf
           R == RequestOf(b)
<1>1. /\ worker \in [Workers -> WorkerTypes] /\ owned \in [Buf -> Nat]
      /\ b \in Buf
  BY TypesHad DEF WorkerTypes, SubmitRequest_Pattern
<1>2. /\ UNCHANGED <<cb, owned, held>> /\ freeBufIdxQueue' = Popped(b)
      /\ With(worker[w], x) <=> x = b
  BY DEF SubmitRequest_Pattern, driver, With
<1>3. /\ \A v \in Workers : v # w => worker'[v] = worker[v]
      /\ With(worker'[w], x) <=> x \in R
  <2>1. CASE R = {} /\ Return(w)
    BY <1>1, <2>1, ReturnPlaces
  <2>2. CASE Set(w, "submit", b, R)
    BY <1>1, <2>2, SetPlaces
  <2> QED
    BY <2>1, <2>2 DEF SubmitRequest_Pattern
<1>4. /\ In(QueueOf(x)', x[2]) \/ x \in R <=> In(QueueOf(x), x[2]) \/ x = b
      /\ Once(QueueOf(x), x[2]) /\ (x = b => ~In(QueueOf(x), x[2]))
              => /\ Once(QueueOf(x)', x[2])
                 /\ ~(In(QueueOf(x)', x[2]) /\ x \in R)
  BY <1>1, <1>2, QueueMoves DEF QueueOf
<1>5. (x[2])' = x[2]
  OBVIOUS
<1> HIDE DEF b, R
<1> QED
  BY <1>2, <1>3, <1>4, <1>5 DEF Moves, Single, Free

LEMMA GetFrameMoves ==
  ASSUME TypeInv, NEW b \in Buf, GetFrame(b), NEW x \in Buf
  PROVE  Moves(x)
<1>1. owned \in [Buf -> Nat] /\ owned[x] \in Nat /\ cb \in CallbackTypes
  BY TypesHad
<1>2. UNCHANGED <<freeBufIdxQueue, held, worker>> /\ b \in cb.frames
  BY DEF GetFrame, queues
<1>3. CASE cb'.frames = cb.frames /\ UNCHANGED owned
  BY <1>2, <1>3 DEF Moves, Single, Free, QueueOf
<1>4. CASE cb'.frames = cb.frames \ {b} /\ Submit({b})
  <2>1. owned'[x] = IF x = b THEN owned[x] + 1 ELSE owned[x]
    BY <1>1, <1>4, SubmitPlaces
  <2> QED
    BY <1>1, <1>2, <1>4, <2>1 DEF Moves, Single, Free, QueueOf
<1>5. ASSUME cb' = [cb EXCEPT !.pc = "deliver", !.cur = b]
      PROVE  cb'.frames = cb.frames
  BY <1>1, <1>5 DEF CallbackTypes
<1>6. ASSUME NextFrame(b) PROVE cb'.frames = cb.frames \ {b}
  BY <1>6 DEF NextFrame
<1> QED
  BY <1>3, <1>4, <1>5, <1>6 DEF GetFrame

LEMMA FrameCallbackMoves ==
  ASSUME TypeInv, FrameCallback, NEW x \in Buf
  PROVE  Moves(x)
<1> DEFINE b == cb.cur
<1>1. cb \in CallbackTypes /\ b \in cb.frames
  BY TypesHad DEF FrameCallback, CallbackTypes
<1>2. /\ UNCHANGED <<freeBufIdxQueue, owned, worker>>
      /\ cb'.frames = cb.frames \ {b}
      /\ held' = IF state = "RUNNING" THEN held \union {b} ELSE held
  BY DEF FrameCallback, NextFrame, queues, driver
<1> HIDE DEF b
<1> QED
  BY <1>1, <1>2 DEF Moves, Single, Free, QueueOf, Kept

LEMMA EventMoves ==
  ASSUME TypeInv, EventCallback \/ ErrorReady, NEW x \in Buf
  PROVE  Moves(x)
<1>1. cb'.frames = cb.frames /\ UNCHANGED <<freeBufIdxQueue, owned, worker, held>>
  BY TypesHad DEF EventCallback, ErrorReady, CallbackTypes, queues, driver
<1> QED
  BY <1>1 DEF Moves, Single, Free, QueueOf

LEMMA CaptureMoves ==
  ASSUME TypeInv, PlaceInv, NEW F, FrameReady(F), NEW x \in Buf
  PROVE  Moves(x)
<1>1. owned \in [Buf -> Nat] /\ owned[x] \in Nat
  BY TypesHad
<1>2. /\ UNCHANGED <<freeBufIdxQueue, held, worker>>
      /\ cb'.frames = F /\ cb.frames = {}
      /\ x \in F => owned[x] > 0
      /\ owned'[x] = IF x \in F THEN owned[x] - 1 ELSE owned[x]
  BY CapturedIs DEF FrameReady, PlaceInv, queues
<1> QED
  BY <1>1, <1>2 DEF Moves, Single, Free, QueueOf

LEMMA OthersMove ==
  ASSUME TypeInv, PlaceInv,
         Callback \/ Capture \/ \E w \in Workers : Worker(w)
  PROVE  \A x \in Buf : Moves(x)
<1> SUFFICES ASSUME NEW x \in Buf PROVE Moves(x)
  OBVIOUS
<1>1. CASE Callback
  BY <1>1, GetFrameMoves, FrameCallbackMoves, EventMoves
  DEF Callback, QcarcamEventCb
<1>2. CASE Capture
  BY <1>2, CaptureMoves, EventMoves DEF Capture
<1>3. ASSUME NEW w \in Workers, Worker(w) PROVE Moves(x)
  BY <1>3, CheckMoves, ReleaseMoves, OneMoves, PatternMoves, SubmitMoves
  DEF Worker, ProcessFrameDescriptor
<1> QED
  BY <1>1, <1>2, <1>3

(* The application's calls move no frame but between QCarCam and the node: *)
(* captures end, or begin for the buffers QCarCam starts with.             *)
Ended == owned' = [b \in Buf |-> 0]
LEMMA ApplicationMoves ==
  ASSUME TypeInv, Application
  PROVE  /\ UNCHANGED <<freeBufIdxQueue, held, worker, cb>>
         /\ \/ UNCHANGED owned
            \/ Ended
            \/ Start_Call
            \/ SubmitAllBuffers
<1>1. CASE Initialize
  BY <1>1 DEF Initialize, Initialize_Refuse, Initialize_BadConfig,
     Initialize_Begin, Initialize_Open, Initialize_Params,
     Initialize_SetFrameBuffers, Initialize_ImportBuffers, Initialize_Reserve,
     Initialize_Fail, Initialize_Close, Initialize_Clear, queues, driver, Ended
<1>2. CASE Start
  BY <1>2 DEF Start, Start_Begin, Start_Call, Start_Run, SubmitAllBuffers,
     Start_Fail, Start_Stop, StopCaptures, queues, driver, Ended
<1>3. CASE Stop
  BY <1>3 DEF Stop, Stop_Begin, Stop_Call, StopCaptures, queues, driver, Ended
<1>4. CASE DeInitialize
  BY <1>4 DEF DeInitialize, DeInitialize_Begin, DeInitialize_Refuse,
     DeInitialize_Release, DeInitialize_Close, DeInitialize_UnImport,
     DeInitialize_Clear, DeInitialize_End, queues, driver
<1> QED
  BY <1>1, <1>2, <1>3, <1>4 DEF Application

LEMMA PlaceKept ==
  ASSUME TypeInv, PlaceInv, [Next]_vars
  PROVE  PlaceInv'
<1>0. config \in Configs /\ worker \in [Workers -> WorkerTypes] /\ cb \in CallbackTypes
  BY TypesHad
<1>1. config' = config
  BY DEF Next, Application, Callback, Capture, Worker, Configured, vars
<1>2. PatternMode' = PatternMode /\ Streams' = Streams
  BY <1>0, <1>1, ConfigStays
<1> USE <1>1, <1>2
<1>3. CASE UNCHANGED <<freeBufIdxQueue, worker, cb>>
  BY <1>3 DEF PlaceInv
<1>4. CASE UNCHANGED vars \/ Application
  BY <1>3, <1>4, ApplicationMoves DEF vars, queues, threads
<1>5. CASE Callback \/ Capture
  <2>1. ASSUME NEW b, NextFrame(b)
        PROVE  cb'.pc \in {"idle", "event"} => cb'.frames = {}
    BY <2>1 DEF NextFrame
  <2>2. UNCHANGED <<freeBufIdxQueue, worker>>
    BY <1>5 DEF Callback, Capture, QcarcamEventCb, GetFrame, FrameCallback,
       EventCallback, ErrorReady, FrameReady, queues
  <2>3. cb'.pc \in {"idle", "event"} => cb'.frames = {}
    <3>1. ASSUME NEW b \in Buf, GetFrame(b)
          PROVE  cb'.pc \in {"idle", "event"} => cb'.frames = {}
      BY <1>0, <2>1, <3>1 DEF GetFrame, CallbackTypes
    <3>2. CASE FrameCallback
      BY <2>1, <3>2 DEF FrameCallback
    <3>3. CASE EventCallback
      BY <1>0, <3>3 DEF EventCallback, CallbackTypes, PlaceInv
    <3>4. CASE ErrorReady
      BY <1>0, <3>4 DEF ErrorReady, CallbackTypes, PlaceInv
    <3>5. ASSUME NEW F, FrameReady(F) PROVE cb'.pc = "get"
      BY <3>5 DEF FrameReady
    <3> QED
      BY <1>5, <3>1, <3>2, <3>3, <3>4, <3>5 DEF Callback, QcarcamEventCb, Capture
  <2> QED
    BY <2>2, <2>3 DEF PlaceInv
<1>6. ASSUME NEW w \in Workers, Worker(w) PROVE PlaceInv'
  <2>1. ~PatternMode => UNCHANGED freeBufIdxQueue
    BY <1>6 DEF Worker, ProcessFrameDescriptor, Process_Check, ReleaseFrame,
       SubmitRequest_One, SubmitRequest_Pattern, SubmitRequest_Submit, queues
  <2>2. UNCHANGED cb
    BY <1>6 DEF Worker, ProcessFrameDescriptor, Process_Check, ReleaseFrame,
       SubmitRequest_One, SubmitRequest_Pattern, SubmitRequest_Submit
  <2>3. ~PatternMode => \/ UNCHANGED worker
                        \/ \E b : Set(w, "execute", b, {})
                        \/ Return(w)
                        \/ \E b : Set(w, "submit", b, {b})
    BY <1>6 DEF Worker, ProcessFrameDescriptor, Process_Check, ReleaseFrame,
       SubmitRequest_One, SubmitRequest_Pattern, SubmitRequest_Submit
  <2>4. ASSUME ~PatternMode, NEW v \in Workers, worker'[v].pc = "submit"
        PROVE  worker'[v].request = {worker'[v].buf}
    <3>1. CASE UNCHANGED worker
      BY <2>4, <3>1 DEF PlaceInv
    <3>2. ASSUME NEW b, Set(w, "execute", b, {}) \/ Return(w) \/ Set(w, "submit", b, {b})
          PROVE  worker'[v].request = {worker'[v].buf}
      BY <1>0, <2>4, <3>2, SetPlaces, ReturnPlaces DEF PlaceInv
    <3> QED
      BY <2>3, <2>4, <3>1, <3>2
  <2> QED
    BY <2>1, <2>2, <2>4 DEF PlaceInv
<1> QED
  BY <1>4, <1>5, <1>6 DEF Next

-----------------------------------------------------------------------------
(* Who owns a frame buffer *)

(* The application may start the camera again only if it is orderly and no *)
(* request pattern keeps indices of the last run in its queues.            *)
Patterned(c) == /\ c.requestMode
                /\ Len(c.numBuffers) > 1
                /\ \E s \in 1 .. Len(c.numBuffers) : c.pattern[s] > 0
StartsAfresh ==
  \A c \in Configs : c.maxStarts <= 1 \/ (c.orderly /\ ~Patterned(c))

LEMMA PatternOfConfig == PatternMode <=> Patterned(config)
  BY DEF Patterned, PatternMode, RequestMode, NumStreams, NumBuffers, Streams,
         Pattern

AllFree == \A b \in Buf : Free(b)

OwnInv ==
  /\ StartedInv
  /\ PlaceInv
  /\ \A b \in Buf : Single(b)
  /\ session # "STARTED" => \A b \in Buf : owned[b] = 0
  /\ starts = 0 \/ app.pc = "start_call" => AllFree
  /\ app.pc = "start_run" /\ RequestMode => AllFree
  /\ app.pc = "submit_all" => \A b \in Buf : b[2] >= app.k => Free(b)

(* QCarCam owns buffers only while the session is started.                 *)
LEMMA OthersOwn ==
  ASSUME StartedInv, session # "STARTED",
         Callback \/ Capture \/ \E w \in Workers : Worker(w)
  PROVE  owned' = owned
<1>1. cb.pc = "idle"
  BY DEF StartedInv
<1> QED
  BY <1>1 DEF Callback, QcarcamEventCb, GetFrame, FrameCallback, EventCallback,
     Capture, ErrorReady, FrameReady, Worker, ProcessFrameDescriptor,
     Process_Check, ReleaseFrame, SubmitRequest_One, SubmitRequest_Pattern,
     SubmitRequest_Submit, driver

LEMMA ApplicationOwns ==
  ASSUME StartedInv, Application, session' # "STARTED"
  PROVE  Ended \/ (UNCHANGED owned /\ session # "STARTED")
<1>0. Begun(app, state, session) /\ (session = "STARTED" => handle)
  BY DEF StartedInv
<1>1. CASE Initialize
  BY <1>0, <1>1 DEF Initialize, Initialize_Refuse, Initialize_BadConfig,
     Initialize_Begin, Initialize_Open, Initialize_Params,
     Initialize_SetFrameBuffers, Initialize_ImportBuffers, Initialize_Reserve,
     Initialize_Fail, Initialize_Close, Initialize_Clear, queues, driver, Ended,
     Begun, AppAt
<1>2. CASE Start
  BY <1>0, <1>2 DEF Start, Start_Begin, Start_Call, Start_Run, SubmitAllBuffers,
     Start_Fail, Start_Stop, StopCaptures, queues, driver, Ended, Begun, AppAt
<1>3. CASE Stop
  BY <1>0, <1>3 DEF Stop, Stop_Begin, Stop_Call, StopCaptures, queues, driver,
     Ended, Begun, AppAt
<1>4. CASE DeInitialize
  BY <1>0, <1>4 DEF DeInitialize, DeInitialize_Begin, DeInitialize_Refuse,
     DeInitialize_Release, DeInitialize_Close, DeInitialize_UnImport,
     DeInitialize_Clear, DeInitialize_End, queues, driver, Begun, AppAt
<1> QED
  BY <1>1, <1>2, <1>3, <1>4 DEF Application

(* Where the calls of Start stand after a step of the application.         *)
LEMMA ApplicationStarts ==
  ASSUME TypeInv, Application
  PROVE  /\ starts' = 0 => starts = 0
         /\ app'.pc = "start_call" => Start_Begin
         /\ app'.pc = "start_run" => Start_Call
         /\ app'.pc = "submit_all" =>
              \/ app.pc = "start_run" /\ app'.k = 0 /\ UNCHANGED owned
              \/ SubmitAllBuffers /\ app'.k = app.k + 1 /\ Submit(Row(app.k))
<1>0. app \in CallTypes /\ starts \in Nat
  BY TypesHad
<1> USE <1>0, GotoIs DEF AppAt
<1>1. CASE Initialize
  <2>1. ASSUME NEW ok, NextImport(ok)
        PROVE  app'.pc \in {"init_buffers", "init_reserve", "init_fail"}
    BY <2>1 DEF NextImport, CallTypes
  <2>2. CASE Initialize_ImportBuffers
    BY <2>1, <2>2 DEF Initialize_ImportBuffers, Import_Stream
  <2>3. CASE Initialize_Params
    BY <2>3 DEF Initialize_Params, CallTypes
  <2> QED
    BY <1>1, <2>2, <2>3 DEF Initialize, Initialize_Refuse, Initialize_BadConfig,
       Initialize_Begin, Initialize_Open, Initialize_SetFrameBuffers,
       Initialize_Reserve, Initialize_Fail, Initialize_Close, Initialize_Clear
<1>2. CASE Start
  <2>1. CASE Start_Begin
    BY <2>1 DEF Start_Begin
  <2>2. CASE Start_Call
    BY <2>2 DEF Start_Call
  <2>3. CASE Start_Run
    BY <2>3 DEF Start_Run, driver
  <2>4. CASE SubmitAllBuffers
    BY <2>4 DEF SubmitAllBuffers
  <2>5. CASE Start_Fail \/ Start_Stop
    BY <2>5 DEF Start_Fail, Start_Stop
  <2> QED
    BY <1>2, <2>1, <2>2, <2>3, <2>4, <2>5 DEF Start
<1>3. CASE Stop
  BY <1>3 DEF Stop, Stop_Begin, Stop_Call
<1>4. CASE DeInitialize
  <2>1. starts' = starts
    BY <1>4 DEF DeInitialize, DeInitialize_Begin, DeInitialize_Refuse,
       DeInitialize_Release, DeInitialize_Close, DeInitialize_UnImport,
       DeInitialize_Clear, DeInitialize_End
  <2>2. CASE DeInitialize_Begin \/ DeInitialize_Refuse
    BY <2>1, <2>2 DEF DeInitialize_Begin, DeInitialize_Refuse, CallTypes
  <2>3. CASE DeInitialize_Release \/ DeInitialize_UnImport
    BY <2>1, <2>3 DEF DeInitialize_Release, DeInitialize_UnImport, CallTypes
  <2>4. CASE DeInitialize_Close
    <3>1. app'.pc \in {"unimport", "deinit_clear"}
      BY <2>4 DEF DeInitialize_Close, CallTypes
    <3> QED
      BY <2>1, <3>1
  <2>5. CASE DeInitialize_Clear \/ DeInitialize_End
    BY <2>1, <2>5 DEF DeInitialize_Clear, DeInitialize_End
  <2> QED
    BY <1>4, <2>2, <2>3, <2>4, <2>5 DEF DeInitialize
<1> QED
  BY <1>1, <1>2, <1>3, <1>4 DEF Application

LEMMA RestIs ==
  ASSUME UNCHANGED <<freeBufIdxQueue, held, worker, cb>>, NEW b
  PROVE  /\ owned'[b] = owned[b] => (Single(b) => Single(b)') /\ (Free(b) => Free(b)')
         /\ owned'[b] = 0 => (Single(b) => Single(b)') /\ (Free(b) => Free(b)')
         /\ Free(b) /\ owned'[b] \in {0, 1} => Single(b)'
  BY DEF Single, Free, QueueOf, Once, In

(* When Start begins no frame of an earlier run is left anywhere.          *)
LEMMA StartsFree ==
  ASSUME StartsAfresh, OwnInv, Start_Begin
  PROVE  AllFree
<1>0. /\ StartedInv /\ PlaceInv /\ TypeInv /\ starts \in Nat /\ config \in Configs
      /\ config.maxStarts \in Nat
  BY TypesHad, Shape DEF OwnInv, StartedInv
<1>1. CASE config.maxStarts <= 1
  BY <1>0, <1>1 DEF OwnInv, Start_Begin
<1>2. CASE config.orderly /\ ~Patterned(config)
  <2>1. session # "STARTED" /\ cb.pc = "idle"
    BY <1>0 DEF StartedInv, Begun, Start_Begin, AppAt
  <2>2. held = {} /\ cb.frames = {} /\ \A w \in Workers : worker[w].pc = "idle"
    BY <1>0, <1>2, <2>1 DEF Start_Begin, Orderly, Quiet, PlaceInv
  <2>3. ~PatternMode
    BY <1>2, PatternOfConfig
  <2>4. ASSUME NEW b \in Buf PROVE Free(b)
    <3>1. QueueOf(b) = <<>>
      BY <1>0, <2>3, BufIs DEF PlaceInv, QueueOf
    <3>2. ~In(<<>>, b[2])
      BY DEF In
    <3> QED
      BY <2>1, <2>2, <3>1, <3>2 DEF Free, With, OwnInv
  <2> QED
    BY <2>4 DEF AllFree
<1> QED
  BY <1>0, <1>1, <1>2 DEF StartsAfresh

LEMMA ApplicationOwn ==
  ASSUME StartsAfresh, OwnInv, [Next]_vars, Application
  PROVE  OwnInv'
<1>0. /\ StartedInv /\ PlaceInv /\ TypeInv /\ config' = config
      /\ StartedInv' /\ config \in Configs /\ owned \in [Buf -> Nat] /\ starts \in Nat
      /\ starts' \in Nat /\ owned' \in [Buf' -> Nat] /\ app \in CallTypes
  BY TypesHad, ApplicationStarted
  DEF OwnInv, StartedInv, TypeInv, TypeOK, Application, Configured
<1>1. Buf' = Buf /\ RequestMode' = RequestMode
  BY <1>0, ConfigStays
<1>2. PlaceInv'
  BY <1>0, PlaceKept
<1>3. UNCHANGED <<freeBufIdxQueue, held, worker, cb>>
  BY <1>0, ApplicationMoves
<1>4. \/ UNCHANGED owned
      \/ Ended
      \/ Start_Call /\ app.pc = "start_call" /\ app'.pc = "start_run"
           /\ AllFree
           /\ owned' = [b \in Buf |-> IF RequestMode THEN 0 ELSE 1]
      \/ /\ SubmitAllBuffers /\ app.pc = "submit_all" /\ Submit(Row(app.k))
  <2>1. ASSUME Start_Call
        PROVE  \/ UNCHANGED owned
               \/ /\ app.pc = "start_call" /\ app'.pc = "start_run" /\ AllFree
                  /\ owned' = [b \in Buf |-> IF RequestMode THEN 0 ELSE 1]
    BY <1>0, <2>1, GotoIs DEF Start_Call, AppAt, driver, OwnInv
  <2>2. ASSUME SubmitAllBuffers
        PROVE  UNCHANGED owned \/ (app.pc = "submit_all" /\ Submit(Row(app.k)))
    BY <2>2 DEF SubmitAllBuffers, AppAt
  <2> QED
    BY <1>0, <2>1, <2>2, ApplicationMoves
<1>5. ASSUME NEW b \in Buf
      PROVE  \/ owned'[b] = owned[b] \/ owned'[b] = 0
             \/ app.pc = "start_call" /\ Free(b) /\ owned'[b] \in {0, 1}
             \/ /\ app.pc = "submit_all" /\ Free(b) /\ owned'[b] = 1
                /\ b[2] = app.k
  <2>1. CASE Ended
    BY <2>1 DEF Ended
  <2>2. CASE /\ app.pc = "start_call" /\ AllFree
             /\ owned' = [x \in Buf |-> IF RequestMode THEN 0 ELSE 1]
    <3>1. owned'[b] \in {0, 1}
      BY <2>2
    <3> QED
      BY <2>2, <3>1 DEF AllFree
  <2>3. CASE app.pc = "submit_all" /\ Submit(Row(app.k))
    <3>1. owned'[b] = IF b \in Row(app.k) THEN owned[b] + 1 ELSE owned[b]
      BY <1>0, <2>3, SubmitPlaces
    <3>2. CASE b \in Row(app.k)
      <4>1. b[2] = app.k /\ app.k \in Nat
        BY <1>0, <3>2 DEF Row, CallTypes
      <4>2. Free(b)
        BY <2>3, <4>1 DEF OwnInv
      <4> QED
        BY <2>3, <3>1, <3>2, <4>1, <4>2 DEF Free
    <3> QED
      BY <3>1, <3>2
  <2> QED
    BY <1>4, <2>1, <2>2, <2>3
<1>6. ASSUME NEW b \in Buf PROVE Single(b)'
  BY <1>3, <1>5, RestIs DEF OwnInv
<1>7. session' # "STARTED" => \A b \in Buf : owned'[b] = 0
  BY <1>0, ApplicationOwns DEF OwnInv, Ended
<1>8. starts' = 0 => AllFree'
  <2> SUFFICES ASSUME starts' = 0, NEW b \in Buf PROVE Free(b)'
    BY <1>1 DEF AllFree
  <2>1. starts = 0 /\ app.pc \notin {"start_call", "submit_all"}
    BY <1>0, ApplicationStarts DEF StartedInv, Begun
  <2> QED
    BY <1>3, <1>5, <2>1, RestIs DEF OwnInv, AllFree
<1>9. app'.pc = "start_call" => AllFree'
  <2> SUFFICES ASSUME app'.pc = "start_call", NEW b \in Buf PROVE Free(b)'
    BY <1>1 DEF AllFree
  <2>1. Start_Begin
    BY <1>0, ApplicationStarts
  <2>2. owned' = owned /\ Free(b)
    BY <2>1, StartsFree DEF Start_Begin, driver, AllFree
  <2> QED
    BY <1>3, <2>2, RestIs
<1>10. app'.pc = "start_run" /\ RequestMode => AllFree'
  <2> SUFFICES ASSUME app'.pc = "start_run", RequestMode, NEW b \in Buf
               PROVE  Free(b)'
    BY <1>1 DEF AllFree
  <2>1. Start_Call
    BY <1>0, ApplicationStarts
  <2>2. owned'[b] = 0 /\ Free(b)
    BY <1>0, <2>1, GotoIs DEF Start_Call, AppAt, OwnInv, AllFree
  <2> QED
    BY <1>3, <2>2, RestIs
<1>11. app'.pc = "submit_all" => \A b \in Buf : b[2] >= app'.k => Free(b)'
  <2> SUFFICES ASSUME app'.pc = "submit_all", NEW b \in Buf, b[2] >= app'.k
               PROVE  Free(b)'
    OBVIOUS
  <2>1. CASE app.pc = "start_run" /\ app'.k = 0 /\ UNCHANGED owned
    <3>1. RequestMode
      BY <1>0, <1>1 DEF StartedInv, Begun
    <3>2. Free(b)
      BY <2>1, <3>1 DEF OwnInv, AllFree
    <3> QED
      BY <1>3, <2>1, <3>2, RestIs
  <2>2. CASE SubmitAllBuffers /\ app'.k = app.k + 1 /\ Submit(Row(app.k))
    <3>1. app.k \in Nat /\ b[2] \in Int
      BY <1>0, BufIs, Shape DEF CallTypes
    <3>2. b[2] > app.k /\ b \notin Row(app.k)
      BY <2>2, <3>1 DEF Row
    <3>3. Free(b) /\ owned'[b] = owned[b]
      BY <1>0, <2>2, <3>1, <3>2, SubmitPlaces DEF OwnInv, SubmitAllBuffers, AppAt
    <3> QED
      BY <1>3, <3>3, RestIs
  <2> QED
    BY <1>0, <2>1, <2>2, ApplicationStarts
<1> QED
  BY <1>0, <1>1, <1>2, <1>6, <1>7, <1>8, <1>9, <1>10, <1>11 DEF OwnInv

LEMMA OwnKept ==
  ASSUME StartsAfresh, OwnInv, [Next]_vars
  PROVE  OwnInv'
<1>0. /\ StartedInv /\ PlaceInv /\ TypeInv /\ StartedInv' /\ PlaceInv'
      /\ config \in Configs
  BY StartedKept, PlaceKept, TypesHad DEF OwnInv, StartedInv
<1>1. CASE UNCHANGED vars
  <2>1. UNCHANGED <<config, freeBufIdxQueue, held, worker, cb, owned, session,
                    starts, app>>
    BY <1>1 DEF vars, queues, driver, threads
  <2>2. Buf' = Buf /\ RequestMode' = RequestMode
    BY <1>0, <2>1, ConfigStays
  <2>3. \A b \in Buf : (Single(b) => Single(b)') /\ (Free(b) => Free(b)')
    BY <2>1, RestIs
  <2> QED
    BY <1>0, <2>1, <2>2, <2>3 DEF OwnInv, AllFree
<1>2. CASE Callback \/ Capture \/ \E w \in Workers : Worker(w)
  <2>1. /\ config' = config /\ UNCHANGED <<session, app, starts>>
    BY <1>0, <1>2, OthersLeave
  <2>2. Buf' = Buf /\ RequestMode' = RequestMode
    BY <1>0, <2>1, ConfigStays
  <2>3. \A b \in Buf : (Single(b) => Single(b)') /\ (Free(b) => Free(b)')
    BY <1>0, <1>2, OthersMove DEF Moves
  <2>4. session' # "STARTED" => \A b \in Buf : owned'[b] = 0
    BY <1>0, <1>2, <2>1, OthersOwn DEF OwnInv
  <2> QED
    BY <1>0, <2>1, <2>2, <2>3, <2>4 DEF OwnInv, AllFree
<1> QED
  BY <1>1, <1>2, ApplicationOwn DEF Next

LEMMA OwnInit == Init => OwnInv
<1> SUFFICES ASSUME Init PROVE OwnInv
  OBVIOUS
<1>1. StartedInv
  BY StartedInit
<1>2. PlaceInv
  BY DEF Init, PlaceInv
<1>3. ASSUME NEW b \in Buf PROVE Free(b) /\ Single(b)
  <2>1. b[1] \in Streams
    BY BufIs
  <2>2. QueueOf(b) = <<>> /\ owned[b] = 0 /\ held = {} /\ cb.frames = {}
        /\ \A w \in Workers : worker[w].pc = "idle"
    BY <2>1 DEF Init, QueueOf
  <2> QED
    BY <2>2 DEF Free, Single, In, Once, With
<1>4. app.pc = "idle" /\ \A b \in Buf : owned[b] = 0
  BY DEF Init
<1> QED
  BY <1>1, <1>2, <1>3, <1>4 DEF OwnInv, AllFree

(* The numbers Claims adds up, for a buffer at one place.                  *)
QueueClaims(b)  == { i \in DOMAIN freeBufIdxQueue[b[1]] :
                       freeBufIdxQueue[b[1]][i] = b[2] }
WorkerClaims(b) == { w \in Workers :
                       \/ worker[w].pc = "execute" /\ worker[w].buf = b
                       \/ worker[w].pc = "submit" /\ b \in worker[w].request }

LEMMA AtMostOne ==
  ASSUME NEW S, \A x, y \in S : x = y
  PROVE  IsFiniteSet(S) /\ Cardinality(S) \in {0, 1} /\ (Cardinality(S) = 0 <=> S = {})
<1>1. CASE S = {}
  BY <1>1, FS_EmptySet
<1>2. CASE S # {}
  <2>1. PICK x : S = {x}
    BY <1>2
  <2>2. IsFiniteSet({x}) /\ Cardinality({x}) = 1
    BY FS_Singleton
  <2> QED
    BY <1>2, <2>1, <2>2
<1> QED
  BY <1>1, <1>2

LEMMA ClaimSets ==
  ASSUME TypeInv, NEW b \in Buf
  PROVE  /\ QueueClaims(b) # {} <=> In(QueueOf(b), b[2])
         /\ Once(QueueOf(b), b[2]) => \A i, j \in QueueClaims(b) : i = j
         /\ WorkerClaims(b) = { w \in Workers : With(worker[w], b) }
         /\ IsFiniteSet(QueueClaims(b)) /\ IsFiniteSet(WorkerClaims(b))
<1>1. b[1] \in Streams /\ freeBufIdxQueue[b[1]] \in Seq(Nat)
  BY BufIs, TypesHad
<1>2. DOMAIN freeBufIdxQueue[b[1]] = 1 .. Len(freeBufIdxQueue[b[1]])
      /\ Len(freeBufIdxQueue[b[1]]) \in Nat
  BY <1>1
<1>3. IsFiniteSet(QueueClaims(b))
  <2>1. IsFiniteSet(1 .. Len(freeBufIdxQueue[b[1]]))
    BY <1>2, FS_Interval
  <2> QED
    BY <1>2, <2>1, FS_Subset DEF QueueClaims
<1>4. IsFiniteSet(WorkerClaims(b))
  BY CameraAssumption, FS_Subset DEF WorkerClaims
<1> QED
  BY <1>2, <1>3, <1>4 DEF QueueClaims, WorkerClaims, In, Once, QueueOf, With

LEMMA ClaimsIs ==
  ASSUME NEW b
  PROVE  Claims(b) = owned[b] + Cardinality(QueueClaims(b))
                       + (IF b \in held THEN 1 ELSE 0)
                       + (IF b \in cb.frames THEN 1 ELSE 0)
                       + Cardinality(WorkerClaims(b))
  BY DEF Claims, QueueClaims, WorkerClaims

LEMMA SingleClaims ==
  ASSUME TypeInv, NEW b \in Buf, Single(b)
  PROVE  Claims(b) <= 1
<1>1. owned[b] \in {0, 1}
  BY TypesHad DEF Single
<1>2. /\ Cardinality(QueueClaims(b)) \in {0, 1}
      /\ Cardinality(QueueClaims(b)) = 0 <=> ~In(QueueOf(b), b[2])
  BY ClaimSets, AtMostOne DEF Single
<1>3. /\ Cardinality(WorkerClaims(b)) \in {0, 1}
      /\ Cardinality(WorkerClaims(b)) = 0 <=> \A w \in Workers : ~With(worker[w], b)
  <2>1. \A v, w \in WorkerClaims(b) : v = w
    BY ClaimSets DEF Single
  <2>2. WorkerClaims(b) = {} <=> \A w \in Workers : ~With(worker[w], b)
    BY ClaimSets
  <2> QED
    BY <2>1, <2>2, AtMostOne
<1> QED
  BY <1>1, <1>2, <1>3, ClaimsIs DEF Single

(***************************************************************************)
(* No frame buffer has two owners among QCarCam, its queue, the            *)
(* application, the callback and the threads that hand frames back, in any *)
(* interleaving of them and whatever calls fail, for a camera that is      *)
(* started once, or again by an orderly application without a pattern.     *)
(***************************************************************************)
THEOREM BuffersHaveOneOwner ==
  ASSUME StartsAfresh
  PROVE  Spec => []OneOwner
<1>1. OwnInv => OneOwner
  BY SingleClaims DEF OwnInv, StartedInv, OneOwner
<1>2. OwnInv /\ [Next]_vars => OwnInv'
  BY OwnKept
<1> QED
  BY <1>1, <1>2, OwnInit, PTL DEF Spec

-----------------------------------------------------------------------------
(* No frame buffer is lost *)

(* The application is orderly and its calls of Stop succeed, where buffers *)
(* are requested and no request of a pattern can be lost as a whole.       *)
StopsInOrder ==
  \A c \in Configs :
    c.requestMode /\ ~c.imports /\ ~(Patterned(c) /\ "Submit" \in c.mayFail)
      => c.orderly /\ "Stop" \notin c.mayFail

Returning == RequestMode /\ ~Imports /\ ~RequestsLost

LossInv ==
  /\ DescriptorInv
  /\ PlaceInv
  /\ app.pc = "submit_all" => RequestMode /\ ~Imports
  /\ Returning /\ state = "RUNNING" /\ app.pc = "idle" =>
       \A b \in Buf : ~Free(b)
  /\ Returning /\ app.pc = "submit_all" =>
       \A b \in Buf : b[2] < app.k => ~Free(b)

LEMMA ReturningInOrder ==
  ASSUME StopsInOrder, config \in Configs, Returning
  PROVE  Orderly /\ Outcome("Stop") = {TRUE}
  BY PatternOfConfig
  DEF StopsInOrder, Returning, RequestMode, Imports, RequestsLost, MayFail,
      Orderly, Outcome

LEMMA ClaimedCounts ==
  ASSUME TypeInv, NEW b \in Buf, ~Free(b)
  PROVE  Claims(b) >= 1
<1>1. owned[b] \in Nat
  BY TypesHad
<1>2. /\ Cardinality(QueueClaims(b)) \in Nat
      /\ Cardinality(QueueClaims(b)) = 0 => ~In(QueueOf(b), b[2])
  BY ClaimSets, FS_CardinalityType, FS_EmptySet
<1>3. /\ Cardinality(WorkerClaims(b)) \in Nat
      /\ Cardinality(WorkerClaims(b)) = 0 => \A w \in Workers : ~With(worker[w], b)
  BY ClaimSets, FS_CardinalityType, FS_EmptySet
<1> QED
  BY <1>1, <1>2, <1>3, ClaimsIs DEF Free

(* The only way into a running camera, between calls, is SubmitAllBuffers  *)
(* after its last row.                                                     *)
LEMMA RunsAfterSubmit ==
  ASSUME StopsInOrder, LossInv, Application, Returning,
         state' = "RUNNING", app'.pc = "idle"
  PROVE  SubmitAllBuffers /\ LastRow(app.k) /\ Submit(Row(app.k))
<1>0. /\ TypeInv /\ app \in CallTypes /\ config \in Configs
      /\ Stands(app, state, session) /\ Ends(app, state, session)
  BY TypesHad DEF LossInv, DescriptorInv, ControlInv
<1>1. Orderly /\ Outcome("Stop") = {TRUE} /\ RequestMode /\ ~Imports
  BY <1>0, ReturningInOrder DEF Returning
<1> USE <1>0, <1>1, GotoIs DEF AppAt, Stands, Ends, Settled
<1>2. CASE Initialize
  <2>1. ASSUME NEW ok, NextImport(ok)
        PROVE  app'.pc \in {"init_buffers", "init_reserve", "init_fail"}
    BY <2>1 DEF NextImport, CallTypes
  <2>2. CASE Initialize_ImportBuffers
    BY <2>1, <2>2 DEF Initialize_ImportBuffers, Import_Stream
  <2>3. CASE Initialize_Params
    BY <2>3 DEF Initialize_Params, CallTypes
  <2> QED
    BY <1>2, <2>2, <2>3 DEF Initialize, Initialize_Refuse, Initialize_BadConfig,
       Initialize_Begin, Initialize_Open, Initialize_SetFrameBuffers,
       Initialize_Reserve, Initialize_Fail, Initialize_Close, Initialize_Clear
<1>3. CASE Start_Begin \/ Start_Call \/ Start_Run \/ Start_Fail \/ Start_Stop
  BY <1>3 DEF Start_Begin, Start_Call, Start_Run, Start_Fail, Start_Stop
<1>4. CASE SubmitAllBuffers
  BY <1>4 DEF SubmitAllBuffers
<1>5. CASE Stop
  BY <1>5 DEF Stop, Stop_Begin, Stop_Call
<1>6. CASE DeInitialize
  <2>1. CASE DeInitialize_Begin \/ DeInitialize_Refuse
    BY <2>1 DEF DeInitialize_Begin, DeInitialize_Refuse, CallTypes
  <2>2. CASE DeInitialize_Release \/ DeInitialize_UnImport
    BY <2>2 DEF DeInitialize_Release, DeInitialize_UnImport, CallTypes
  <2>3. CASE DeInitialize_Close
    <3>1. app'.pc \in {"unimport", "deinit_clear"}
      BY <2>3 DEF DeInitialize_Close, CallTypes
    <3> QED
      BY <3>1
  <2>4. CASE DeInitialize_Clear \/ DeInitialize_End
    BY <2>4 DEF DeInitialize_Clear, DeInitialize_End
  <2> QED
    BY <1>6, <2>1, <2>2, <2>3, <2>4 DEF DeInitialize
<1> QED
  BY <1>2, <1>3, <1>4, <1>5, <1>6 DEF Application, Start

LEMMA SubmitFollowsRun ==
  ASSUME TypeInv, Application, app'.pc = "submit_all", app.pc # "submit_all"
  PROVE  Start_Run
<1>1. app.pc = "start_run" /\ app \in CallTypes
  BY ApplicationStarts, TypesHad DEF SubmitAllBuffers, AppAt
<1> QED
  BY <1>1 DEF Application, AppAt, Initialize, Initialize_Refuse,
     Initialize_BadConfig, Initialize_Begin, Initialize_Open, Initialize_Params,
     Initialize_SetFrameBuffers, Initialize_ImportBuffers, Initialize_Reserve,
     Initialize_Fail, Initialize_Close, Initialize_Clear, Start, Start_Begin,
     Start_Call, SubmitAllBuffers, Start_Fail, Start_Stop, Stop, Stop_Begin,
     Stop_Call, DeInitialize, DeInitialize_Begin, DeInitialize_Refuse,
     DeInitialize_Release, DeInitialize_Close, DeInitialize_UnImport,
     DeInitialize_Clear, DeInitialize_End

(* After a row is submitted QCarCam has its buffers.                       *)
LEMMA RowSubmitted ==
  ASSUME LossInv, Application, SubmitAllBuffers, Submit(Row(app.k)), Returning,
         NEW b \in Buf, b[2] < app.k + 1
  PROVE  ~Free(b)'
<1>0. /\ TypeInv /\ app.k \in Nat /\ owned \in [Buf -> Nat] /\ b[2] \in Int
      /\ owned[b] \in Nat /\ app.pc = "submit_all"
  BY TypesHad, BufIs, Shape
  DEF LossInv, DescriptorInv, ControlInv, CallTypes, SubmitAllBuffers, AppAt
<1>1. owned'[b] = IF b \in Row(app.k) THEN owned[b] + 1 ELSE owned[b]
  BY <1>0, SubmitPlaces
<1>2. UNCHANGED <<freeBufIdxQueue, held, worker, cb>>
  BY <1>0, ApplicationMoves
<1>3. CASE b[2] = app.k
  BY <1>0, <1>1, <1>3 DEF Row, Free
<1>4. CASE b[2] < app.k
  <2>1. ~Free(b) /\ owned'[b] = owned[b]
    BY <1>0, <1>1, <1>4 DEF LossInv, Row
  <2> QED
    BY <1>2, <2>1 DEF Free, QueueOf
<1> QED
  BY <1>0, <1>3, <1>4

LEMMA LossKept ==
  ASSUME Closes, StopsInOrder, LossInv, [Next]_vars
  PROVE  LossInv'
<1>0. /\ DescriptorInv /\ DescriptorInv' /\ PlaceInv /\ PlaceInv'
      /\ ControlInv /\ TypeInv /\ config \in Configs /\ app \in CallTypes
  BY DescriptorKept, PlaceKept, TypesHad DEF LossInv, DescriptorInv, ControlInv
<1>1. config' = config
  BY DEF Next, Application, Callback, Capture, Worker, Configured, vars
<1>2. /\ Buf' = Buf /\ RequestMode' = RequestMode /\ Imports' = Imports
      /\ Returning' = Returning
  BY <1>0, <1>1, ConfigStays DEF Returning, RequestsLost
<1>3. CASE Application
  <2>1. app'.pc = "submit_all" => RequestMode /\ ~Imports
    <3>1. CASE app.pc = "submit_all"
      BY <3>1 DEF LossInv
    <3>2. ASSUME app'.pc = "submit_all", app.pc # "submit_all"
          PROVE  RequestMode /\ ~Imports
      <4>1. Start_Run
        BY <1>0, <1>3, <3>2, SubmitFollowsRun
      <4> QED
        BY <1>0, <3>2, <4>1, GotoIs DEF Start_Run, AppAt
    <3> QED
      BY <3>1, <3>2
  <2>2. Returning /\ state' = "RUNNING" /\ app'.pc = "idle" =>
          \A b \in Buf : ~Free(b)'
    <3> SUFFICES ASSUME Returning, state' = "RUNNING", app'.pc = "idle",
                        NEW b \in Buf
                 PROVE  ~Free(b)'
      OBVIOUS
    <3>1. SubmitAllBuffers /\ LastRow(app.k) /\ Submit(Row(app.k))
      BY <1>3, RunsAfterSubmit
    <3>2. b[2] < app.k + 1
      BY <1>0, <3>1, BufIs, Shape DEF LastRow, CallTypes
    <3> QED
      BY <1>3, <3>1, <3>2, RowSubmitted
  <2>3. Returning /\ app'.pc = "submit_all" =>
          \A b \in Buf : b[2] < app'.k => ~Free(b)'
    <3> SUFFICES ASSUME Returning, app'.pc = "submit_all", NEW b \in Buf,
                        b[2] < app'.k
                 PROVE  ~Free(b)'
      OBVIOUS
    <3>1. b[2] \in Nat
      BY <1>0, BufIs, Shape
    <3> QED
      BY <1>0, <1>3, <3>1, ApplicationStarts, RowSubmitted
  <2> QED
    BY <1>0, <1>2, <2>1, <2>2, <2>3 DEF LossInv
<1>4. CASE Callback \/ Capture \/ \E w \in Workers : Worker(w)
  <2>1. UNCHANGED <<session, state, app>>
    BY <1>0, <1>4, OthersLeave
  <2>2. ASSUME Returning, \/ state = "RUNNING" /\ app.pc = "idle"
                          \/ app.pc = "submit_all"
        PROVE  Kept
    <3>1. state = "RUNNING" /\ session = "STARTED"
      BY <1>0, <2>2 DEF ControlInv, Stands, Settled
    <3>2. Orderly
      BY <1>0, <2>2, ReturningInOrder
    <3>3. frameBuffers = Streams
      BY <1>0, <3>1, <3>2, StartedHasAll DEF DescriptorInv
    <3> QED
      BY <2>2, <3>1, <3>3 DEF Kept, Returning
  <2>3. Kept => \A b \in Buf : ~Free(b) => ~Free(b)'
    BY <1>0, <1>4, OthersMove DEF Moves
  <2> QED
    BY <1>0, <1>2, <2>1, <2>2, <2>3 DEF LossInv
<1>5. CASE UNCHANGED vars
  <2>1. UNCHANGED <<state, freeBufIdxQueue, held, worker, cb, owned, session, app>>
    BY <1>5 DEF vars, queues, driver, threads
  <2>2. \A b \in Buf : ~Free(b) => ~Free(b)'
    BY <2>1 DEF Free, QueueOf
  <2> QED
    BY <1>0, <1>2, <2>1, <2>2 DEF LossInv
<1> QED
  BY <1>3, <1>4, <1>5 DEF Next

LEMMA LossInit == Init => LossInv
<1> SUFFICES ASSUME Init PROVE LossInv
  OBVIOUS
<1>1. DescriptorInv /\ PlaceInv
  BY DescriptorInit DEF Init, PlaceInv
<1> QED
  BY <1>1 DEF Init, LossInv

(***************************************************************************)
(* While an orderly application's camera runs in request mode every frame  *)
(* buffer is with QCarCam, with the application, queued or on its way:     *)
(* none is forgotten by a callback, a returned frame or a request pattern, *)
(* over any number of starts.                                              *)
(***************************************************************************)
THEOREM BuffersAreNotLost ==
  ASSUME Closes, StopsInOrder
  PROVE  Spec => []NoBufferLost
<1>1. LossInv => NoBufferLost
  BY ClaimedCounts
  DEF LossInv, DescriptorInv, ControlInv, NoBufferLost, Returning, AppAt
<1>2. LossInv /\ [Next]_vars => LossInv'
  BY LossKept
<1> QED
  BY <1>1, <1>2, LossInit, PTL DEF Spec

-----------------------------------------------------------------------------
(* The pace of a request pattern *)

(* The counters of a pattern hold what is left of it since the last        *)
(* request, from the first Initialize on; before it nothing is in use.     *)
Paced ==
  PatternMode => \A s \in Streams :
    submitRequestPattern[s] = IF sinceRequest[s] >= Pattern[s] THEN 0
                              ELSE Pattern[s] - sinceRequest[s]
Fresh ==
  /\ state = "INITIAL" /\ session # "STARTED"
  /\ app.pc \in {"idle", "init_fail", "init_close", "init_clear",
                 "deinit_clear", "deinit_end"}
  /\ app.pc \in {"deinit_clear", "deinit_end"} => app.prev = "INITIAL"
  /\ held = {}
  /\ \A w \in Workers : worker[w].pc = "idle"

PaceInv == StartedInv /\ (Paced \/ Fresh)

LEMMA PacedStays ==
  ASSUME config \in Configs, config' = config, Paced,
         UNCHANGED <<submitRequestPattern, sinceRequest>>
  PROVE  Paced'
  BY ConfigStays DEF Paced

LEMMA PacedBegins ==
  ASSUME TypeInv, config' = config, Initialize_Begin
  PROVE  Paced'
<1>0. config \in Configs
  BY TypesHad
<1>1. PatternMode => /\ submitRequestPattern' = Pattern
                     /\ sinceRequest' = [s \in Streams |-> 0]
  BY DEF Initialize_Begin, PatternMode
<1>2. ASSUME PatternMode, NEW s \in Streams
      PROVE  submitRequestPattern'[s] = IF sinceRequest'[s] >= Pattern[s] THEN 0
                                        ELSE Pattern[s] - sinceRequest'[s]
  <2>1. Pattern[s] \in Nat /\ sinceRequest'[s] = 0
    BY <1>0, <1>1, <1>2, Shape
  <2>2. submitRequestPattern'[s] = Pattern[s]
    BY <1>1, <1>2
  <2> QED
    BY <2>1, <2>2
<1> QED
  BY <1>0, <1>2, ConfigStays DEF Paced

LEMMA PacedCounts ==
  ASSUME TypeInv, config' = config, Paced, NEW w \in Workers,
         SubmitRequest_Pattern(w)
  PROVE  Paced'
<1> DEFINE b == worker[w].buf
<1>0. /\ config \in Configs /\ PatternMode
      /\ submitRequestPattern' = Counted(b) /\ sinceRequest' = Aged(b)
      /\ submitRequestPattern \in [Streams -> Nat]
      /\ sinceRequest \in [Streams -> Nat] /\ Pattern \in [Streams -> Nat]
  BY TypesHad, Shape DEF SubmitRequest_Pattern
<1> HIDE DEF b
<1>1. ASSUME NEW s \in Streams
      PROVE  Counted(b)[s] = IF Aged(b)[s] >= Pattern[s] THEN 0
                             ELSE Pattern[s] - Aged(b)[s]
  <2>1. /\ submitRequestPattern[s] \in Nat /\ sinceRequest[s] \in Nat
        /\ Pattern[s] \in Nat
        /\ submitRequestPattern[s] = IF sinceRequest[s] >= Pattern[s] THEN 0
                                     ELSE Pattern[s] - sinceRequest[s]
    BY <1>0 DEF Paced
  <2>2. CASE s \in Taken(b)
    BY <2>1, <2>2 DEF Counted, Aged
  <2>3. CASE s \notin Taken(b) /\ Clocks(b)
    BY <2>1, <2>3 DEF Counted, Aged, CountDown
  <2>4. CASE s \notin Taken(b) /\ ~Clocks(b)
    BY <2>1, <2>4 DEF Counted, Aged
  <2> QED
    BY <2>2, <2>3, <2>4
<1> QED
  BY <1>0, <1>1, ConfigStays DEF Paced

LEMMA FreshStays ==
  ASSUME StartedInv, Fresh, Application
  PROVE  Initialize_Begin \/ Fresh'
<1>0. TypeInv /\ app \in CallTypes /\ Begun(app, state, session)
  BY TypesHad DEF StartedInv
<1>1. UNCHANGED <<held, worker>>
  BY <1>0, ApplicationMoves
<1> USE <1>0, <1>1, GotoIs DEF Fresh, AppAt
<1>2. CASE Initialize
  <2>1. CASE Initialize_BadConfig
    BY <2>1 DEF Initialize_BadConfig, driver
  <2>2. CASE Initialize_Fail
    BY <2>2 DEF Initialize_Fail, driver
  <2>3. CASE Initialize_Close
    <3>1. session' # "STARTED" /\ state' = state /\ app'.pc = "init_clear"
      BY <2>3 DEF Initialize_Close
    <3> QED
      BY <3>1
  <2>4. CASE Initialize_Clear
    BY <2>4 DEF Initialize_Clear, driver
  <2> QED
    BY <1>2, <2>1, <2>2, <2>3, <2>4 DEF Initialize, Initialize_Refuse,
       Initialize_Open, Initialize_Params, Initialize_SetFrameBuffers,
       Initialize_ImportBuffers, Initialize_Reserve
<1>3. CASE Start
  BY <1>3 DEF Start, Start_Begin, Start_Call, Start_Run, SubmitAllBuffers,
     Start_Fail, Start_Stop
<1>4. CASE Stop
  BY <1>4 DEF Stop, Stop_Begin, Stop_Call
<1>5. CASE DeInitialize
  <2>1. CASE DeInitialize_Refuse
    <3>1. /\ app'.pc = "deinit_clear" /\ app'.prev = state
          /\ UNCHANGED <<state, session>>
      BY <2>1 DEF DeInitialize_Refuse, CallTypes, driver
    <3> QED
      BY <3>1
  <2>2. CASE DeInitialize_Clear \/ DeInitialize_End
    BY <2>2 DEF DeInitialize_Clear, DeInitialize_End, driver
  <2> QED
    BY <1>5, <2>1, <2>2 DEF DeInitialize, DeInitialize_Begin,
       DeInitialize_Release, DeInitialize_Close, DeInitialize_UnImport
<1> QED
  BY <1>2, <1>3, <1>4, <1>5 DEF Application

LEMMA PaceKept ==
  ASSUME PaceInv, [Next]_vars
  PROVE  PaceInv'
<1>0. StartedInv /\ StartedInv' /\ TypeInv /\ config \in Configs
  BY StartedKept, TypesHad DEF PaceInv, StartedInv
<1>1. config' = config
  BY DEF Next, Application, Callback, Capture, Worker, Configured, vars
<1>2. ASSUME UNCHANGED <<submitRequestPattern, sinceRequest>>, Fresh => Fresh'
      PROVE  PaceInv'
  BY <1>0, <1>1, <1>2, PacedStays DEF PaceInv
<1>3. CASE UNCHANGED vars
  BY <1>2, <1>3 DEF vars, queues, driver, threads, Fresh
<1>4. CASE Initialize_Begin
  BY <1>0, <1>1, <1>4, PacedBegins DEF PaceInv
<1>5. CASE Application /\ ~Initialize_Begin
  <2>1. UNCHANGED <<submitRequestPattern, sinceRequest>>
    BY <1>5 DEF Application, Initialize, Initialize_Refuse,
       Initialize_BadConfig, Initialize_Open, Initialize_Params,
       Initialize_SetFrameBuffers, Initialize_ImportBuffers,
       Initialize_Reserve, Initialize_Fail, Initialize_Close,
       Initialize_Clear, Start, Start_Begin, Start_Call, Start_Run,
       SubmitAllBuffers, Start_Fail, Start_Stop, Stop, Stop_Begin, Stop_Call,
       DeInitialize, DeInitialize_Begin, DeInitialize_Refuse,
       DeInitialize_Release, DeInitialize_Close, DeInitialize_UnImport,
       DeInitialize_Clear, DeInitialize_End, queues
  <2> QED
    BY <1>0, <1>2, <1>5, <2>1, FreshStays
<1>6. CASE Callback \/ Capture
  <2>1. /\ UNCHANGED <<submitRequestPattern, sinceRequest, app, state, session,
                       worker>>
        /\ session # "STARTED" => FALSE
    <3>1. session = "STARTED"
      BY <1>0, <1>6 DEF StartedInv, Callback, QcarcamEventCb, GetFrame,
         FrameCallback, EventCallback, Capture, ErrorReady, FrameReady
    <3> QED
      BY <1>6, <3>1 DEF Callback, QcarcamEventCb, GetFrame, FrameCallback,
         EventCallback, Capture, ErrorReady, FrameReady, queues, driver
  <2> QED
    BY <1>2, <2>1 DEF Fresh
<1>7. ASSUME NEW w \in Workers, Worker(w) PROVE PaceInv'
  <2>1. ~Fresh
    BY <1>7 DEF Fresh, Worker, ProcessFrameDescriptor, Process_Check,
       ReleaseFrame, SubmitRequest_One, SubmitRequest_Pattern,
       SubmitRequest_Submit
  <2>2. CASE SubmitRequest_Pattern(w)
    BY <1>0, <1>1, <2>1, <2>2, PacedCounts DEF PaceInv
  <2>3. CASE ~SubmitRequest_Pattern(w)
    <3>1. UNCHANGED <<submitRequestPattern, sinceRequest>>
      BY <1>7, <2>3 DEF Worker, ProcessFrameDescriptor, Process_Check,
         ReleaseFrame, SubmitRequest_One, SubmitRequest_Submit, queues
    <3> QED
      BY <1>2, <2>1, <3>1
  <2> QED
    BY <2>2, <2>3
<1> QED
  BY <1>3, <1>4, <1>5, <1>6, <1>7 DEF Next

LEMMA PaceInit == Init => PaceInv
<1> SUFFICES ASSUME Init PROVE PaceInv
  OBVIOUS
<1>1. StartedInv
  BY StartedInit
<1>2. Fresh
  BY DEF Init, Fresh
<1> QED
  BY <1>1, <1>2 DEF PaceInv

(* A returned reference frame requests the streams it takes from.          *)
LEMMA ReferenceRequests ==
  ASSUME PaceInv, NEW w \in Workers, SubmitRequest_Pattern(w),
         worker[w].buf[1] = RefStream
  PROVE  { b[1] : b \in worker'[w].request } =
            { s \in Streams : /\ sinceRequest[s] + 1 >= Pattern[s]
                              /\ \/ freeBufIdxQueue[s] # <<>>
                                 \/ s = RefStream }
<1> DEFINE f == worker[w].buf
<1>0. /\ TypeInv /\ config \in Configs /\ PatternMode /\ Clocks(f)
      /\ worker \in [Workers -> WorkerTypes]
      /\ submitRequestPattern \in [Streams -> Nat]
      /\ sinceRequest \in [Streams -> Nat] /\ Pattern \in [Streams -> Nat]
      /\ freeBufIdxQueue \in [Streams -> Seq(Nat)]
  BY TypesHad, Shape
  DEF PaceInv, StartedInv, SubmitRequest_Pattern, Clocks
<1>1. Paced
  BY DEF PaceInv, Fresh, SubmitRequest_Pattern
<1>2. worker'[w].request = RequestOf(f)
  <2>1. CASE RequestOf(f) = {} /\ Return(w)
    BY <1>0, <2>1, SetPlaces DEF Return
  <2>2. CASE Set(w, "submit", f, RequestOf(f))
    BY <1>0, <2>2, SetPlaces
  <2> QED
    BY <2>1, <2>2 DEF SubmitRequest_Pattern
<1>3. { b[1] : b \in RequestOf(f) } = Taken(f)
  <2>1. \A s \in Taken(f) : <<s, Head(Queue(f, s))>>[1] = s
    OBVIOUS
  <2> QED
    BY <2>1 DEF RequestOf
<1>4. ASSUME NEW s \in Streams
      PROVE  /\ CountDown(submitRequestPattern[s]) = 0
                  <=> sinceRequest[s] + 1 >= Pattern[s]
             /\ Queue(f, s) # <<>> <=> freeBufIdxQueue[s] # <<>> \/ s = RefStream
  <2>1. /\ submitRequestPattern[s] \in Nat /\ sinceRequest[s] \in Nat
        /\ Pattern[s] \in Nat
        /\ submitRequestPattern[s] = IF sinceRequest[s] >= Pattern[s] THEN 0
                                     ELSE Pattern[s] - sinceRequest[s]
    BY <1>0, <1>1 DEF Paced
  <2>2. CountDown(submitRequestPattern[s]) = 0
          <=> sinceRequest[s] + 1 >= Pattern[s]
    BY <2>1 DEF CountDown
  <2>3. CASE s = f[1]
    <3>1. Queue(f, s) = Append(freeBufIdxQueue[s], f[2]) /\ s = RefStream
      BY <1>0, <2>3 DEF Queue, Clocks
    <3>2. Append(freeBufIdxQueue[s], f[2]) # <<>>
      <4>1. freeBufIdxQueue[s] \in Seq(Nat) /\ f[2] \in Nat
        BY <1>0, BufIs, Shape DEF WorkerTypes, SubmitRequest_Pattern
      <4> QED
        BY <4>1
    <3> QED
      BY <2>2, <3>1, <3>2
  <2>4. CASE s # f[1]
    BY <1>0, <2>2, <2>4 DEF Queue, Clocks
  <2> QED
    BY <2>3, <2>4
<1>5. Taken(f) = { s \in Streams : /\ sinceRequest[s] + 1 >= Pattern[s]
                                   /\ \/ freeBufIdxQueue[s] # <<>>
                                      \/ s = RefStream }
  BY <1>0, <1>4 DEF Taken
<1> QED
  BY <1>2, <1>3, <1>5

(***************************************************************************)
(* With a request pattern a returned reference frame requests exactly the  *)
(* streams that have a free buffer and whose pattern has run out, whatever *)
(* the calls, failures and restarts before it.                             *)
(***************************************************************************)
THEOREM PatternsPaceRequests == Spec => PatternPacing
<1>1. PaceInv /\ [Next]_vars => PaceInv'
  BY PaceKept
<1>2. PaceInv =>
        [ \A w \in Workers :
            SubmitRequest_Pattern(w) /\ worker[w].buf[1] = RefStream =>
              { b[1] : b \in worker'[w].request } =
                 { s \in Streams : /\ sinceRequest[s] + 1 >= Pattern[s]
                                   /\ \/ freeBufIdxQueue[s] # <<>>
                                      \/ s = RefStream } ]_vars
  BY ReferenceRequests
<1> QED
  BY <1>1, <1>2, PaceInit, PTL DEF Spec, PatternPacing
=============================================================================
