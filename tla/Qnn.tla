---------------------------------- MODULE Qnn ----------------------------------
(***************************************************************************)
(* The QNN inference node (QnnImpl.cpp): several nodes on one processor,   *)
(* which share the table of mapped buffers, s_dmaMemRefMap, under s_lock.  *)
(* Each node has an application thread; an asynchronous node is notified   *)
(* by a thread of QNN, one notification at a time.                         *)
(*                                                                         *)
(* A tensor is a pair of a DMA buffer and an offset into it.  m_lock and   *)
(* s_lock are released within the steps below, never held between them,    *)
(* except that DeRegisterAllBuffers keeps m_lock, which no other thread of *)
(* the node then wants.                                                    *)
(***************************************************************************)
EXTENDS Integers, Sequences, SequencesExt, FiniteSets, Functions

CONSTANT Configs   \* the configurations that are considered

(***************************************************************************)
(* A configuration: the nodes and how application and QNN behave.          *)
(*   nodes        the nodes                                                *)
(*   buffers      the DMA buffers                                          *)
(*   early        the tensors a node registers in Initialize, each a       *)
(*                buffer and an offset, 0 or 1 for any other               *)
(*   frames       the frames of a node, the tensors of each in order       *)
(*   async        nodes that have a callback                               *)
(*   loads        the model's possible forms: shared object or binary      *)
(*   power        a performance profile other than the default is set      *)
(*   deregisters  bDeRegisterAllBuffersWhenStop                            *)
(*   params       QNN_NOTIFY_PARAM_NUM                                     *)
(*   modulus      stands for 2^16: the range of pushIdx and popIdx, a      *)
(*                multiple of params, which must be a power of 2           *)
(*   limit        requests an application has unanswered at most           *)
(*   ordered      the two writes of Push are seen in program order         *)
(*   serial       no two nodes register or deregister at the same time     *)
(*   mayFail      calls of QNN and FastRPC that may fail                   *)
(*   maxInits     bound on the calls of Initialize of a node               *)
(*   maxRefs      bound: no Start while a buffer has more references       *)
(***************************************************************************)
IsConfig(c) ==
  /\ {c.power, c.deregisters, c.ordered, c.serial} \subseteq BOOLEAN
  /\ {c.params, c.modulus, c.limit, c.maxInits, c.maxRefs} \subseteq Nat \ {0}
  /\ c.params < c.modulus /\ c.modulus % c.params = 0
  /\ IsFiniteSet(c.nodes)
  /\ c.async \subseteq c.nodes
  /\ c.loads \subseteq {"SharedObject", "Binary"}
  /\ \A n \in c.nodes : /\ c.early[n] \in Seq(c.buffers \X {0, 1})
                         /\ \A f \in c.frames[n] : f \in Seq(c.buffers \X {0, 1})

ASSUME QnnAssumption == \A c \in Configs : IsConfig(c)

VARIABLES
  config,       \* the configuration, chosen once
  state,        \* m_state
  load,         \* m_config.loadType
  handles,      \* the libraries and objects of QNN the node has pointers to
  graphsInfo,   \* what m_graphsInfo points to
  powerIds,     \* m_powerConfigIds
  livePower,    \* QNN: the power configurations of each node that exist
  registered,   \* keys of m_dmaMemInfoMap
  refs,         \* s_dmaMemRefMap, 0 where a buffer has no entry
  mapped,       \* FastRPC: the buffers that are mapped
  queue,        \* m_notifyParamQ
  lost,         \* parameters of requests that were refused by QNN
  executing,    \* QNN: the requests in execution
  unanswered,   \* requests the application has had no callback for
  app,          \* the call in progress of each application thread
  cb,           \* the notification in progress of each node
  inits,        \* calls of Initialize so far
  freedTwice    \* history: the graph information was freed again

node    == <<state, load, handles, graphsInfo, powerIds, livePower>>
tables  == <<registered, refs, mapped>>
vars    == <<config, node, tables, queue, lost, executing, unanswered, app, cb,
             inits, freedTwice>>

Nodes   == config.nodes
Tensors == config.buffers \X {0, 1}
Outcome(call) == IF call \in config.mayFail THEN BOOLEAN ELSE {TRUE}

Idle    == [pc |-> "idle", todo |-> <<>>, keys |-> <<>>, seen |-> FALSE,
            param |-> 0, failed |-> FALSE]
CbIdle  == [pc |-> "idle", param |-> 0]
At(n, pc)   == app[n].pc = pc
Goto(n, pc) == app' = [app EXCEPT ![n].pc = pc]
Return(n)   == app' = [app EXCEPT ![n] = Idle]

-----------------------------------------------------------------------------
(* NotifyParamQueue: a ring of the free parameters *)

Full == [ring |-> [i \in 0 .. config.params - 1 |-> i],
         push |-> config.params % config.modulus, pop |-> 0]

Slot(i)  == i % config.params

\* Mutant: the index does not wrap.
Next1_NoWrap(i) == i + 1

(* An index of 16 bits. *)
Next1(i) == (i + 1) % config.modulus
IsEmpty(q)  == q.push = q.pop
FreeSlots(q) == { (q.pop + i) % config.modulus :
                    i \in 0 .. ((q.push - q.pop) % config.modulus) - 1 }
Free(q)  == { q.ring[Slot(i)] : i \in FreeSlots(q) }

\* Mutant: the parameter stays at the head of the ring.
Pop_NoAdvance(n) == UNCHANGED queue

(* The rest of Pop, once the parameter has been read. *)
Pop(n) == queue' = [queue EXCEPT ![n].pop = Next1(@)]

Init ==
  /\ config \in Configs
  /\ state = [n \in Nodes |-> "INITIAL"]
  /\ load = [n \in Nodes |-> "Binary"]
  /\ handles = [n \in Nodes |-> {}]
  /\ graphsInfo = [n \in Nodes |-> "null"]
  /\ powerIds = [n \in Nodes |-> <<>>]
  /\ livePower = [n \in Nodes |-> {}]
  /\ registered = [n \in Nodes |-> {}]
  /\ refs = [b \in config.buffers |-> 0]
  /\ mapped = {}
  /\ queue = [n \in Nodes |-> Full]
  /\ lost = [n \in Nodes |-> {}]
  /\ executing = [n \in Nodes |-> {}]
  /\ unanswered = [n \in Nodes |-> 0]
  /\ app = [n \in Nodes |-> Idle]
  /\ cb = [n \in Nodes |-> CbIdle]
  /\ inits = [n \in Nodes |-> 0]
  /\ freedTwice = FALSE

-----------------------------------------------------------------------------
(* Initialize: libraries, objects of QNN, the graph *)

(***************************************************************************)
(* What Initialize creates, in order.  GetQnnFunctionPointers opens the    *)
(* library of the processor and that of a model; like the one after it, it *)
(* closes what it opened where it fails.                                   *)
(***************************************************************************)
GetQnnFunctionPointers       == <<"backend">>
GetQnnSystemFunctionPointers == <<"system">>
CreateDevice                 == <<"platformInfo", "device">>
SetPerformanceMode           == IF config.power THEN <<"perfInfra">> ELSE <<>>
CreateFromModelSo            == <<"context", "graphsInfo">>
CreateFromBinaryBuffer       == <<"graphsInfo", "context">>

Creates(form) ==
  GetQnnFunctionPointers \o <<"log">> \o GetQnnSystemFunctionPointers
    \o <<"systemContext", "backendHandle">> \o CreateDevice
    \o SetPerformanceMode
    \o IF form = "Binary" THEN CreateFromBinaryBuffer ELSE CreateFromModelSo

NewPowerId(n) == inits[n]

Initialize_Begin(n) ==
  /\ At(n, "idle")
  /\ state[n] = "INITIAL"
  /\ inits[n] < config.maxInits
  /\ inits' = [inits EXCEPT ![n] = @ + 1]
  /\ \E form \in config.loads : load' = [load EXCEPT ![n] = form]
  /\ state' = [state EXCEPT ![n] = "INITIALIZING"]
  /\ Goto(n, "create")
  /\ UNCHANGED <<config, handles, graphsInfo, powerIds, livePower, tables,
                 queue, lost, executing, unanswered, cb, freedTwice>>

(***************************************************************************)
(* SetHtpPerformanceMode appends the power configurations it creates to    *)
(* m_powerConfigIds and then sets every one that is listed: one that an    *)
(* earlier Destroy has destroyed may be refused.                           *)
(***************************************************************************)
SetHtpPerformanceMode(n, created) ==
  IF "perfInfra" \in created
  THEN /\ powerIds' = [powerIds EXCEPT ![n] = Append(@, NewPowerId(n))]
       /\ livePower' = [livePower EXCEPT ![n] = @ \union {NewPowerId(n)}]
  ELSE UNCHANGED <<powerIds, livePower>>

PowerRefused(n) == Range(powerIds[n]) \ livePower[n] # {}

(***************************************************************************)
(* Everything up to the context: the node's own objects, in one step.  It  *)
(* ends where a call fails: an operation package, the graphs to finalise   *)
(* or to retrieve are as good a reason as what could not be created.       *)
(***************************************************************************)
Initialize_Create(n) ==
  /\ At(n, "create")
  /\ \E k \in 0 .. Len(Creates(load[n])), ok \in BOOLEAN :
       LET created == Range(SubSeq(Creates(load[n]), 1, k))
       IN  /\ IF ok THEN k = Len(Creates(load[n]))
              ELSE \/ "Create" \in config.mayFail
                   \/ /\ k > 0 /\ Creates(load[n])[k] = "perfInfra"
                      /\ PowerRefused(n)
           /\ handles' = [handles EXCEPT ![n] = created \ {"graphsInfo"}]
           /\ graphsInfo' =
                IF "graphsInfo" \in created
                THEN [graphsInfo EXCEPT ![n] =
                        IF load[n] = "Binary" THEN "copied" ELSE "composed"]
                ELSE graphsInfo
           /\ SetHtpPerformanceMode(n, created)
           /\ app' = [app EXCEPT ![n].pc = IF ok THEN "register" ELSE "deregister",
                                 ![n].failed = ~ok,
                                 ![n].todo = config.early[n]]
  /\ UNCHANGED <<config, state, load, tables, queue, lost, executing,
                 unanswered, cb, inits, freedTwice>>

(* Whether the map of the configuration has the length of the tensors.     *)
SetupGlobalBufferIdMap == Outcome("BufferMap")

(* The callback is stored, the parameters are free, the node is READY.     *)
Initialize_End(n) ==
  /\ At(n, "register") /\ app[n].todo = <<>> /\ state[n] = "INITIALIZING"
  /\ \E ok \in SetupGlobalBufferIdMap :
       IF ok
       THEN /\ state' = [state EXCEPT ![n] = "READY"]
            /\ queue' = [queue EXCEPT ![n] = Full]
            /\ lost' = [lost EXCEPT ![n] = {}]
            /\ Return(n)
       ELSE /\ app' = [app EXCEPT ![n].pc = "deregister", ![n].failed = TRUE]
            /\ UNCHANGED <<state, queue, lost>>
  /\ UNCHANGED <<config, load, handles, graphsInfo, powerIds, livePower, tables,
                 executing, unanswered, cb, inits, freedTwice>>

-----------------------------------------------------------------------------
(* Registration of the next tensor of app[n].todo *)

Buffer(t) == t[1]
Offset(t) == t[2]
Tensor(n) == Head(app[n].todo)

(* The nodes that are between the probe and the end of a registration. *)
InTables == {"map", "memRegister"}
MayEnter(n) == config.serial =>
                 \A m \in Nodes \ {n} : app[m].pc \notin InTables

(* RegisterBufferToHTP: the tensor is known, or rpcmem_to_fd probes its buffer. *)
Register_Probe(n) ==
  /\ At(n, "register") /\ app[n].todo # <<>>
  /\ IF Tensor(n) \in registered[n]
     THEN app' = [app EXCEPT ![n].todo = Tail(@)]
     ELSE /\ MayEnter(n)
          /\ app' = [app EXCEPT ![n].pc = "map",
                                ![n].seen = Buffer(Tensor(n)) \in mapped]
  /\ UNCHANGED <<config, node, tables, queue, lost, executing, unanswered, cb,
                 inits, freedTwice>>

(* A registration failed: Initialize cleans up, ProcessFrameDescriptor returns. *)
RegisterFails(n) ==
  app' = [app EXCEPT ![n] =
            IF state[n] = "INITIALIZING"
            THEN [Idle EXCEPT !.pc = "deregister", !.failed = TRUE]
            ELSE Idle]

\* Mutant: a buffer that is mapped already is not counted.
AddReference_Forgotten(b) == UNCHANGED refs

(* The buffer was mapped when it was probed; others may have mapped it. *)
AddReference(b) ==
  refs' = [refs EXCEPT ![b] = IF @ > 0 THEN @ + 1 ELSE @]

(* RemoteRegisterBuf, with s_lock. *)
Register_Map(n) ==
  /\ At(n, "map")
  /\ LET b == Buffer(Tensor(n)) IN
       IF app[n].seen
       THEN AddReference(b) /\ Goto(n, "memRegister") /\ UNCHANGED mapped
       ELSE \E ok \in Outcome("Map") :
              IF ok \/ b \in mapped
              THEN /\ refs' = [refs EXCEPT ![b] = 1]
                   /\ mapped' = mapped \union {b}
                   /\ Goto(n, "memRegister")
              ELSE RegisterFails(n) /\ UNCHANGED <<refs, mapped>>
  /\ UNCHANGED <<config, node, registered, queue, lost, executing, unanswered,
                 cb, inits, freedTwice>>

\* Mutant: the buffer is unmapped whoever else uses it.
RemoteDeRegisterBuf_Always(b) ==
  /\ refs' = [refs EXCEPT ![b] = 0]
  /\ mapped' = mapped \ {b}

(* RemoteDeRegisterBuf, with s_lock. *)
RemoteDeRegisterBuf(b) ==
  /\ refs' = [refs EXCEPT ![b] = IF @ > 0 THEN @ - 1 ELSE @]
  /\ mapped' = IF refs[b] = 1 THEN mapped \ {b} ELSE mapped

Register_Mem(n) ==
  /\ At(n, "memRegister")
  /\ \E ok \in Outcome("MemRegister") :
       IF ok
       THEN /\ registered' = [registered EXCEPT ![n] = @ \union {Tensor(n)}]
            /\ app' = [app EXCEPT ![n].pc = "register", ![n].todo = Tail(@)]
            /\ UNCHANGED <<refs, mapped>>
       ELSE /\ RemoteDeRegisterBuf(Buffer(Tensor(n)))
            /\ RegisterFails(n)
            /\ UNCHANGED registered
  /\ UNCHANGED <<config, node, queue, lost, executing, unanswered, cb, inits,
                 freedTwice>>

-----------------------------------------------------------------------------
(* DeRegisterAllBuffers and Destroy *)

(***************************************************************************)
(* One tensor: memDeRegister, whose failure is only reported, and          *)
(* RemoteDeRegisterBuf with the address of the data: s_dmaMemRefMap has no *)
(* entry for it unless the offset is 0.                                    *)
(***************************************************************************)
DeRegister_One(n) ==
  /\ At(n, "deregister") /\ MayEnter(n)
  /\ \E t \in registered[n] :
       /\ registered' = [registered EXCEPT ![n] = @ \ {t}]
       /\ IF Offset(t) = 0 THEN RemoteDeRegisterBuf(Buffer(t))
                           ELSE UNCHANGED <<refs, mapped>>
  /\ UNCHANGED <<config, node, queue, lost, executing, unanswered, app, cb,
                 inits, freedTwice>>

\* Mutant: the platform information is not given back.
Released_PlatformKept(n) == handles[n] \intersect {"platformInfo"}

(* The handles Destroy leaves behind: none. *)
Released(n) == {}

(* The copied graph information is freed; one of a model library stays. *)
FreeGraphsInfo(n) ==
  IF load[n] = "Binary" /\ graphsInfo[n] # "null"
  THEN /\ graphsInfo' = [graphsInfo EXCEPT ![n] = "null"]
       /\ freedTwice' = (freedTwice \/ graphsInfo[n] # "copied")
  ELSE /\ graphsInfo' = [graphsInfo EXCEPT ![n] =
                           IF @ = "null" THEN @ ELSE "unloaded"]
       /\ UNCHANGED freedTwice

(***************************************************************************)
(* The rest of Destroy, the node's own objects.  contextFree returns when  *)
(* no notification is in progress.  m_powerConfigIds is not cleared.       *)
(***************************************************************************)
Destroy(n) ==
  /\ At(n, "deregister") /\ registered[n] = {}
  /\ app[n].failed
  /\ cb[n] = CbIdle
  /\ handles' = [handles EXCEPT ![n] = Released(n)]
  /\ livePower' = IF "perfInfra" \in handles[n]
                  THEN [livePower EXCEPT ![n] = @ \ Range(powerIds[n])]
                  ELSE livePower
  /\ FreeGraphsInfo(n)
  /\ executing' = [executing EXCEPT ![n] = {}]
  /\ state' = [state EXCEPT ![n] = "INITIAL"]
  /\ Return(n)
  /\ UNCHANGED <<config, load, powerIds, tables, queue, lost, unanswered, cb,
                 inits>>

(* Stop after DeRegisterAllBuffers. *)
Stop_End(n) ==
  /\ At(n, "deregister") /\ registered[n] = {}
  /\ ~app[n].failed
  /\ state' = [state EXCEPT ![n] = "READY"]
  /\ Return(n)
  /\ UNCHANGED <<config, load, handles, graphsInfo, powerIds, livePower, tables,
                 queue, lost, executing, unanswered, cb, inits, freedTwice>>

-----------------------------------------------------------------------------
(* Start, Stop, DeInitialize, EnablePerf, DisablePerf *)

(* The application waits for its answers before it stops the node. *)
Drained(n) == unanswered[n] = 0

Start(n) ==
  /\ At(n, "idle") /\ state[n] = "READY"
  /\ \A b \in config.buffers : refs[b] <= config.maxRefs
  /\ state' = [state EXCEPT ![n] = "RUNNING"]
  /\ UNCHANGED <<config, load, handles, graphsInfo, powerIds, livePower, tables,
                 queue, lost, executing, unanswered, app, cb, inits, freedTwice>>

Stop(n) ==
  /\ At(n, "idle") /\ state[n] = "RUNNING" /\ Drained(n)
  /\ IF config.deregisters
     THEN Goto(n, "deregister") /\ UNCHANGED state
     ELSE state' = [state EXCEPT ![n] = "READY"] /\ UNCHANGED app
  /\ UNCHANGED <<config, load, handles, graphsInfo, powerIds, livePower, tables,
                 queue, lost, executing, unanswered, cb, inits, freedTwice>>

DeInitialize(n) ==
  /\ At(n, "idle") /\ state[n] = "READY" /\ Drained(n)
  /\ app' = [app EXCEPT ![n].pc = "deregister", ![n].failed = TRUE]
  /\ UNCHANGED <<config, node, tables, queue, lost, executing, unanswered, cb,
                 inits, freedTwice>>

Profiled == {"READY", "RUNNING"}

EnablePerf(n) ==
  /\ At(n, "idle") /\ state[n] \in Profiled /\ "profile" \notin handles[n]
  /\ handles' = [handles EXCEPT ![n] = @ \union {"profile"}]
  /\ UNCHANGED <<config, state, load, graphsInfo, powerIds, livePower, tables,
                 queue, lost, executing, unanswered, app, cb, inits, freedTwice>>

DisablePerf(n) ==
  /\ At(n, "idle") /\ state[n] \in Profiled /\ "profile" \in handles[n]
  /\ Drained(n)
  /\ handles' = [handles EXCEPT ![n] = @ \ {"profile"}]
  /\ UNCHANGED <<config, state, load, graphsInfo, powerIds, livePower, tables,
                 queue, lost, executing, unanswered, app, cb, inits, freedTwice>>

-----------------------------------------------------------------------------
(* ProcessFrameDescriptor *)

Process_Begin(n) ==
  /\ At(n, "idle") /\ state[n] = "RUNNING"
  /\ unanswered[n] < config.limit
  /\ \E f \in config.frames[n] :
       app' = [app EXCEPT ![n] = [Idle EXCEPT !.pc = "register", !.todo = f,
                                              !.keys = f]]
  /\ UNCHANGED <<config, node, tables, queue, lost, executing, unanswered, cb,
                 inits, freedTwice>>

(* A tensor that is not as the graph wants it ends the call, after those   *)
(* before it were registered.                                              *)
ValidateTensor(n) ==
  /\ At(n, "register") /\ app[n].todo # <<>> /\ state[n] = "RUNNING"
  /\ "Validate" \in config.mayFail
  /\ Return(n)
  /\ UNCHANGED <<config, node, tables, queue, lost, executing, unanswered, cb,
                 inits, freedTwice>>

Request(n, p) == [param |-> p, keys |-> Range(app[n].keys),
                  profile |-> "profile" \in handles[n]]

(* All tensors have handles.  Without a callback graphExecute blocks. *)
Process_Execute(n) ==
  /\ At(n, "register") /\ app[n].todo = <<>> /\ state[n] = "RUNNING"
  /\ n \notin config.async
  /\ Goto(n, "executing")
  /\ executing' = [executing EXCEPT ![n] = {Request(n, 0)}]
  /\ UNCHANGED <<config, node, tables, queue, lost, unanswered, cb, inits,
                 freedTwice>>

Process_Executed(n) ==
  /\ At(n, "executing")
  /\ executing' = [executing EXCEPT ![n] = {}]
  /\ Return(n)
  /\ UNCHANGED <<config, node, tables, queue, lost, unanswered, cb, inits,
                 freedTwice>>

(* The parameter of the request, or a refusal when there is none. *)
Process_Pop(n) ==
  /\ At(n, "register") /\ app[n].todo = <<>> /\ state[n] = "RUNNING"
  /\ n \in config.async
  /\ IF IsEmpty(queue[n])
     THEN Return(n) /\ UNCHANGED queue
     ELSE /\ app' = [app EXCEPT ![n].pc = "submit",
                                ![n].param = queue[n].ring[Slot(queue[n].pop)]]
          /\ Pop(n)
  /\ UNCHANGED <<config, node, tables, lost, executing, unanswered, cb, inits,
                 freedTwice>>

(* graphExecuteAsync: where it fails the parameter is not put back. *)
Process_Submit(n) ==
  /\ At(n, "submit")
  /\ \E ok \in Outcome("Execute") :
       IF ok
       THEN /\ executing' = [executing EXCEPT ![n] =
                               @ \union {Request(n, app[n].param)}]
            /\ unanswered' = [unanswered EXCEPT ![n] = @ + 1]
            /\ UNCHANGED lost
       ELSE /\ lost' = [lost EXCEPT ![n] = @ \union {app[n].param}]
            /\ UNCHANGED <<executing, unanswered>>
  /\ Return(n)
  /\ UNCHANGED <<config, node, tables, queue, cb, inits, freedTwice>>

-----------------------------------------------------------------------------
(* QnnNotifyFn, on the thread of QNN *)

Notify_Begin(n) ==
  /\ n \in config.async /\ cb[n] = CbIdle
  /\ \E r \in executing[n] :
       /\ executing' = [executing EXCEPT ![n] = @ \ {r}]
       /\ cb' = [cb EXCEPT ![n] = [pc |-> "callback", param |-> r.param]]
  /\ UNCHANGED <<config, node, tables, queue, lost, unanswered, app, inits,
                 freedTwice>>

(***************************************************************************)
(* The application has its answer, a result or an error, and may go on; it *)
(* gets none where the error cannot be entered into the frame.             *)
(***************************************************************************)
Notify_Callback(n) ==
  /\ cb[n].pc = "callback"
  /\ \E told \in Outcome("SetBuffer") :
       unanswered' = [unanswered EXCEPT ![n] = IF told THEN @ - 1 ELSE @]
  /\ cb' = [cb EXCEPT ![n].pc = "push"]
  /\ UNCHANGED <<config, node, tables, queue, lost, executing, app, inits,
                 freedTwice>>

PushEntry(n)   == queue' = [queue EXCEPT ![n].ring[Slot(queue[n].push)] = cb[n].param]

\* Mutant: pushIdx is not advanced.
PushAdvance_Forgotten(n) == UNCHANGED queue

PushAdvance(n) == queue' = [queue EXCEPT ![n].push = Next1(@)]

(***************************************************************************)
(* Push: neither write is atomic, so that the application's thread sees    *)
(* them in either order.                                                   *)
(***************************************************************************)
Notify_Push(n) ==
  /\ \/ /\ cb[n].pc = "push"
        /\ PushEntry(n)
        /\ cb' = [cb EXCEPT ![n].pc = "advance"]
     \/ /\ cb[n].pc = "push" /\ ~config.ordered
        /\ PushAdvance(n)
        /\ cb' = [cb EXCEPT ![n].pc = "entry"]
  /\ UNCHANGED <<config, node, tables, lost, executing, unanswered, app, inits,
                 freedTwice>>

Notify_Pushed(n) ==
  /\ \/ cb[n].pc = "advance" /\ PushAdvance(n)
     \/ /\ cb[n].pc = "entry"
        /\ queue' = [queue EXCEPT
             ![n].ring[Slot((queue[n].push - 1) % config.modulus)] = cb[n].param]
  /\ cb' = [cb EXCEPT ![n] = CbIdle]
  /\ UNCHANGED <<config, node, tables, lost, executing, unanswered, app, inits,
                 freedTwice>>

-----------------------------------------------------------------------------
Initialize(n) == Initialize_Begin(n) \/ Initialize_Create(n) \/ Initialize_End(n)
Register(n)   == Register_Probe(n) \/ Register_Map(n) \/ Register_Mem(n)
Process(n)    == Process_Begin(n) \/ ValidateTensor(n) \/ Process_Execute(n) \/ Process_Executed(n)
                   \/ Process_Pop(n) \/ Process_Submit(n)
Notify(n)     == Notify_Begin(n) \/ Notify_Callback(n) \/ Notify_Push(n)
                   \/ Notify_Pushed(n)
Call(n)       == Start(n) \/ Stop(n) \/ DeInitialize(n) \/ EnablePerf(n)
                   \/ DisablePerf(n)
Leave(n)      == DeRegister_One(n) \/ Destroy(n) \/ Stop_End(n)

Next == \E n \in Nodes : \/ Initialize(n) \/ Register(n) \/ Process(n)
                         \/ Notify(n) \/ Call(n) \/ Leave(n)

(***************************************************************************)
(* Fairness: the thread of QNN runs its notifications, and a submission    *)
(* that has its parameter goes on.  The application need not make calls.   *)
(***************************************************************************)
AllNodes == UNION { c.nodes : c \in Configs }
Fairness == \A n \in AllNodes : /\ WF_vars(n \in Nodes /\ Notify(n))
                               /\ WF_vars(n \in Nodes /\ Process_Submit(n))

Spec     == Init /\ [][Next]_vars
FairSpec == Spec /\ Fairness

-----------------------------------------------------------------------------
(* Properties *)

Handles == { "backend", "log", "system", "systemContext", "backendHandle",
             "platformInfo", "device", "perfInfra", "context", "profile" }

(* The types: in particular the indices and parameters of the ring. *)
TypeOK ==
  /\ config \in Configs
  /\ state \in [Nodes -> {"INITIAL", "INITIALIZING", "READY", "RUNNING"}]
  /\ handles \in [Nodes -> SUBSET Handles]
  /\ graphsInfo \in [Nodes -> {"null", "copied", "composed", "unloaded"}]
  /\ registered \in [Nodes -> SUBSET Tensors]
  /\ refs \in [config.buffers -> Nat]
  /\ mapped \subseteq config.buffers
  /\ unanswered \in [Nodes -> 0 .. config.limit]
  /\ \A n \in Nodes :
       /\ queue[n].ring \in [0 .. config.params - 1 -> 0 .. config.params - 1]
       /\ {queue[n].push, queue[n].pop} \subseteq 0 .. config.modulus - 1
       /\ cb[n].pc \in {"idle", "callback", "push", "advance", "entry"}
       /\ app[n].pc \in {"idle", "create", "register", "map", "memRegister",
                         "deregister", "submit", "executing"}

(* The references of b: the tensors registered, and a registration under way. *)
Entries(b) == { e \in Nodes \X Tensors :
                  e[2] \in registered[e[1]] /\ Buffer(e[2]) = b }
Coming(b)  == { n \in Nodes : /\ At(n, "memRegister")
                              /\ Buffer(Tensor(n)) = b }
\* Tensors with an offset that were deregistered leave their reference behind.
WholeBuffers == \A n \in Nodes : /\ \A f \in config.frames[n] :
                                      \A i \in DOMAIN f : Offset(f[i]) = 0
                                 /\ \A i \in DOMAIN config.early[n] :
                                      Offset(config.early[n][i]) = 0

(***************************************************************************)
(* s_dmaMemRefMap counts the tensors registered by all nodes: a buffer is  *)
(* mapped as long as one of them needs it, and no longer where no tensor   *)
(* has an offset.  (RemoteRegisterBuf, RemoteDeRegisterBuf.)               *)
(***************************************************************************)
MappedWhileNeeded ==
  \A b \in config.buffers :
    LET needed == Cardinality(Entries(b)) + Cardinality(Coming(b))
    IN  /\ refs[b] >= needed
        /\ needed > 0 => b \in mapped
        /\ WholeBuffers => refs[b] = needed /\ (b \in mapped <=> needed > 0)

(* The parameters that requests of n have at some stage of their way. *)
Carried(n) == { <<"executing", r.param>> : r \in executing[n] }
                \union (IF cb[n].pc \in {"callback", "push"}
                        THEN {<<"notified", cb[n].param>>} ELSE {})
                \union (IF At(n, "submit") THEN {<<"popped", app[n].param>>}
                                           ELSE {})
InUse(n) == { c[2] : c \in Carried(n) }

(***************************************************************************)
(* No two requests share a notify parameter, none is free as well as in    *)
(* use, and only those of failed submissions are lost: the ring neither    *)
(* duplicates nor drops one, however its indices wrap and the two threads  *)
(* interleave.  (NotifyParamQueue.)                                        *)
(***************************************************************************)
ParametersPartitioned ==
  \A n \in config.async :
    state[n] \in {"READY", "RUNNING"} =>
      /\ Cardinality(InUse(n)) = Cardinality(Carried(n))
      /\ cb[n].pc \notin {"advance", "entry"} =>
           /\ InUse(n) \intersect Free(queue[n]) = {}
           /\ Cardinality(Free(queue[n])) = Cardinality(FreeSlots(queue[n]))
           /\ InUse(n) \union Free(queue[n]) \union lost[n] = 0 .. config.params - 1

(***************************************************************************)
(* What a request in execution uses exists: its tensors are registered and *)
(* mapped, whatever other nodes deregister, and so are context and profile *)
(* handle.  (Stop, DeInitialize, DisablePerf, DeRegisterAllBuffers.)       *)
(***************************************************************************)
ExecutionsHold ==
  \A n \in Nodes : \A r \in executing[n] :
    /\ r.keys \subseteq registered[n]
    /\ \A t \in r.keys : Buffer(t) \in mapped
    /\ {"context", "backendHandle"} \subseteq handles[n]
    /\ r.profile => "profile" \in handles[n]

(***************************************************************************)
(* A node that is INITIAL again, after DeInitialize or an Initialize that  *)
(* failed anywhere, has nothing of QNN any more: no object, no library, no *)
(* power configuration, no copied graph, no tensor; and the information on *)
(* the graph was freed once, given that the form of the model stays the    *)
(* same.  (Destroy, FreeGraphsInfo.)                                       *)
(***************************************************************************)
NothingRetained ==
  /\ ~freedTwice
  /\ \A n \in Nodes : state[n] = "INITIAL" =>
       /\ handles[n] = {} /\ livePower[n] = {} /\ registered[n] = {}
       /\ graphsInfo[n] # "copied"

(***************************************************************************)
(* A node without free parameters, which refuses every request, has one    *)
(* again, unless submissions that failed have lost them all.  (Push.)      *)
(***************************************************************************)
ParametersReturn ==
  \A n \in AllNodes :
    (n \in Nodes /\ IsEmpty(queue[n]))
      ~> (n \in Nodes => \/ ~IsEmpty(queue[n])
                         \/ Cardinality(lost[n]) = config.params)
=============================================================================
