--------------------------- MODULE MemoryManager ---------------------------
(***************************************************************************)
(* QC::Memory::ManagerLocal with the Pool objects it creates.  Several     *)
(* threads call the public methods.  Each method runs from lock boundary   *)
(* to lock boundary: a lookup under m_handle2NodeIdLock that copies the    *)
(* node index out, then a commit under the lock of that node's entry.      *)
(* m_state is an unprotected member; the methods that read it on entry and *)
(* store it back on exit keep the value they read in th[t].saved.          *)
(*                                                                         *)
(* Buffers stand for buffer descriptors (all the fields operator< looks    *)
(* at), so two calls of the allocator that are both outstanding never      *)
(* return the same one.  The free and allocated lists of a pool are sets:  *)
(* which free element is at the front does not matter to any property.     *)
(*                                                                         *)
(* An access to m_pools or m_allocations beyond their size, and a change   *)
(* of the registry while DeInitialize walks over it without its lock, are  *)
(* undefined behaviour: "fault", after which nothing more is modelled.     *)
(***************************************************************************)
EXTENDS Naturals, FiniteSets

CONSTANTS
  Threads,            \* client threads
  Buffers,            \* what the allocators can hand out
  Rnd,                \* values of the handles' random numbers
  MaxNodes,           \* largest numOfNodes a client configures
  MaxEntries,         \* bound on the entries of m_pools and m_allocations
  PoolCounterModulus, \* 2^w of the w-bit poolSequenceCounter (uint8_t in the code)
  MaxElements,        \* largest maxElements of a pool configuration
  LifecycleExclusive, \* clients serialise (De)Initialize against all other calls
  UnregisterFirst,    \* clients unregister every node before DeInitialize
  NoThread            \* m_multiThreadLock is free

ASSUME ConstantsAssumption ==
  /\ MaxNodes \in Nat \ {0}
  /\ MaxEntries \in Nat /\ MaxNodes <= MaxEntries
  /\ PoolCounterModulus \in Nat \ {0}
  /\ MaxElements \in Nat
  /\ LifecycleExclusive \in BOOLEAN
  /\ UnregisterFirst \in BOOLEAN
  /\ NoThread \notin Threads

NodeIds     == 0 .. (MaxNodes - 1)
\* The indices of m_pools and m_allocations; those from numEntries on do not
\* exist and are kept empty.
Entries     == 0 .. (MaxEntries - 1)
\* QCMemoryHandle: the node count at registration and a random number.
Handles     == (1 .. MaxNodes) \X Rnd
\* QCMemoryPoolHandle: owning memory handle, pool count, random number.
PoolHandles == Handles \X (0 .. (PoolCounterModulus - 1)) \X Rnd
\* QC_MEMORY_MAX_POOLS_PER_NODE is UINT8_MAX: one less than the modulus.
MaxPoolsPerNode == PoolCounterModulus - 1

States == {"INITIAL", "INITIALIZING", "READY", "ERROR", "DEINITIALIZING"}

VARIABLES
  m_state,          \* QCMemoryManagerIfs::m_state
  numOfNodes,       \* m_config.numOfNodes
  numEntries,       \* size of m_pools and of m_allocations
  handleToNodeId,   \* m_handleToNodeIdInVector
  allocationSet,    \* m_allocations[n].allocationSet
  poolMap,          \* the handles in m_pools[n].poolMap
  freeObjects,      \* Pool::m_freeObjects of the pool at poolMap[n][p]
  allocatedObjects, \* Pool::m_allocatedObjects of the pool at poolMap[n][p]
  poolCount,        \* m_pools[n].poolSequenceCounter
  m_multiThreadLock,
  th,               \* the call each thread is in
  live,             \* buffers the allocators have handed out and not taken back
  freeFailed,       \* buffers whose Free has failed
  lost,             \* buffers the manager dropped without a successful Free
  fault             \* the behaviour has become undefined

conf  == <<numOfNodes, numEntries>>
db    == <<allocationSet, poolMap, freeObjects, allocatedObjects, poolCount>>
alloc == <<live, freeFailed, lost>>
vars  == <<m_state, conf, handleToNodeId, db, m_multiThreadLock, th, alloc, fault>>

PoolBuffers(n, p) == freeObjects[n][p] \cup allocatedObjects[n][p]
Owned(n) == allocationSet[n] \cup UNION {PoolBuffers(n, p) : p \in PoolHandles}

NoHandles == [h \in {} |-> 0]
Idle == [pc |-> "idle"]
InRange(n) == n < numEntries
IsMemoryHandleRegistered(h) == h \in DOMAIN handleToNodeId
IsNodeIdUnique(id) == \A h \in DOMAIN handleToNodeId : handleToNodeId[h] # id

\* Thread t is free to enter a method.
MayCall(t) ==
  /\ ~fault
  /\ th[t].pc = "idle"
  /\ LifecycleExclusive => m_multiThreadLock = NoThread

Goto(t, r)  == th' = [th EXCEPT ![t] = r]
Return(t)   == Goto(t, Idle)
\* After undefined behaviour nothing is said about the process: no call goes on.
Undefined ==
  /\ fault' = TRUE
  /\ th' = [t \in Threads |-> Idle]
  /\ UNCHANGED <<m_state, conf, handleToNodeId, db, m_multiThreadLock, alloc>>

----------------------------------------------------------------------------
(* Initialize and DeInitialize: under m_multiThreadLock.                   *)

OthersQuiet(t) == LifecycleExclusive => \A u \in Threads \ {t} : th[u].pc = "idle"

\* A refused call keeps the state it read, to store it back at its end.
Initialize_Begin(t, n) ==
  /\ MayCall(t) /\ OthersQuiet(t)
  /\ m_multiThreadLock = NoThread
  /\ IF m_state = "INITIAL" /\ n # 0
     THEN /\ numEntries + n <= MaxEntries
          /\ m_state' = "INITIALIZING"
          /\ numOfNodes' = n
     ELSE UNCHANGED <<m_state, numOfNodes>>
  /\ m_multiThreadLock' = t
  /\ Goto(t, [pc |-> "initialize", saved |-> m_state])
  /\ UNCHANGED <<numEntries, handleToNodeId, db, alloc, fault>>

\* The entries are appended if the state is INITIALIZING, whoever stored that;
\* if the vectors move, the entries' move constructor leaves
\* poolSequenceCounter at 0.
Initialize_End(t) ==
  /\ th[t].pc = "initialize"
  /\ IF m_state = "INITIALIZING"
     THEN /\ numEntries + numOfNodes <= MaxEntries
          /\ m_state' = "READY"
          /\ numEntries' = numEntries + numOfNodes
          /\ poolCount' \in {poolCount, [i \in Entries |-> 0]}
     ELSE /\ m_state' = th[t].saved
          /\ UNCHANGED <<numEntries, poolCount>>
  /\ m_multiThreadLock' = NoThread
  /\ Return(t)
  /\ UNCHANGED <<numOfNodes, handleToNodeId, allocationSet, poolMap, freeObjects,
                 allocatedObjects, alloc, fault>>

DeInitialize_Begin(t) ==
  /\ MayCall(t) /\ OthersQuiet(t)
  /\ m_multiThreadLock = NoThread
  /\ UnregisterFirst => DOMAIN handleToNodeId = {}
  /\ m_state # "INITIAL"
  /\ m_multiThreadLock' = t
  /\ m_state' = "DEINITIALIZING"
  /\ Goto(t, [pc |-> "deinit", handles |-> DOMAIN handleToNodeId, ok |-> TRUE])
  /\ UNCHANGED <<conf, handleToNodeId, db, alloc, fault>>

\* The registered handles are reclaimed one after the other.
DeInitialize_Next(t, h) ==
  /\ th[t].pc = "deinit" /\ h \in th[t].handles
  /\ Goto(t, [pc |-> "reclaim", h |-> h, caller |-> "DeInitialize",
              handles |-> th[t].handles \ {h}, ok |-> th[t].ok])
  /\ UNCHANGED <<m_state, conf, handleToNodeId, db, m_multiThreadLock, alloc, fault>>

\* numOfNodes entries are popped and the configuration reset; what the entries
\* still name is dropped (the pools are held by reference and not deleted).
\* m_handleToNodeIdInVector is left as it is.
DeInitialize_End(t) ==
  /\ th[t].pc = "deinit" /\ th[t].handles = {}
  /\ numOfNodes <= numEntries
  /\ LET left == numEntries - numOfNodes
         Kept(f, empty) == [i \in Entries |-> IF i < left THEN f[i] ELSE empty] IN
     /\ numEntries' = left
     /\ lost' = lost \cup UNION {Owned(n) : n \in left .. (MaxEntries - 1)}
     /\ allocationSet' = Kept(allocationSet, {})
     /\ poolMap' = Kept(poolMap, {})
     /\ freeObjects' = Kept(freeObjects, [p \in PoolHandles |-> {}])
     /\ allocatedObjects' = Kept(allocatedObjects, [p \in PoolHandles |-> {}])
     /\ poolCount' = Kept(poolCount, 0)
  /\ numOfNodes' = 0
  /\ m_state' = IF th[t].ok THEN "INITIAL" ELSE "ERROR"
  /\ m_multiThreadLock' = NoThread
  /\ Return(t)
  /\ UNCHANGED <<handleToNodeId, live, freeFailed, fault>>

----------------------------------------------------------------------------
(* Register and UnRegister.                                                *)

\* Mutant: the bound of the node id is off by one.
Register_Check_OffByOne(t, id) ==
  /\ MayCall(t)
  /\ m_state = "READY" /\ id <= numOfNodes
  /\ Goto(t, [pc |-> "register", id |-> id])
  /\ UNCHANGED <<m_state, conf, handleToNodeId, db, m_multiThreadLock, alloc, fault>>

\* The checks made without a lock.
Register_Check(t, id) ==
  /\ MayCall(t)
  /\ m_state = "READY" /\ id < numOfNodes
  /\ Goto(t, [pc |-> "register", id |-> id])
  /\ UNCHANGED <<m_state, conf, handleToNodeId, db, m_multiThreadLock, alloc, fault>>

\* Mutant: the id is not checked again under the lock.
Register_Commit_NoIdCheck(t, r) ==
  /\ th[t].pc = "register"
  /\ Cardinality(DOMAIN handleToNodeId) < numOfNodes
  /\ LET h == <<Cardinality(DOMAIN handleToNodeId) + 1, r>> IN
     /\ ~IsMemoryHandleRegistered(h)
     /\ handleToNodeId' = [k \in DOMAIN handleToNodeId \cup {h} |->
                             IF k = h THEN th[t].id ELSE handleToNodeId[k]]
  /\ Return(t)
  /\ UNCHANGED <<m_state, conf, db, m_multiThreadLock, alloc, fault>>

\* The critical section under the unique lock of the registry.
Register_Commit(t, r) ==
  /\ th[t].pc = "register"
  /\ Cardinality(DOMAIN handleToNodeId) < numOfNodes
  /\ IsNodeIdUnique(th[t].id)
  /\ LET h == <<Cardinality(DOMAIN handleToNodeId) + 1, r>>
     IN \/ /\ IsMemoryHandleRegistered(h)
           /\ m_state' = "ERROR"
           /\ UNCHANGED handleToNodeId
        \/ /\ ~IsMemoryHandleRegistered(h)
           /\ handleToNodeId' = [k \in DOMAIN handleToNodeId \cup {h} |->
                                   IF k = h THEN th[t].id ELSE handleToNodeId[k]]
           /\ UNCHANGED m_state
  /\ Return(t)
  /\ UNCHANGED <<conf, db, m_multiThreadLock, alloc, fault>>

Register_Refuse(t) ==
  /\ th[t].pc = "register"
  /\ \/ Cardinality(DOMAIN handleToNodeId) >= numOfNodes
     \/ ~IsNodeIdUnique(th[t].id)
  /\ Return(t)
  /\ UNCHANGED <<m_state, conf, handleToNodeId, db, m_multiThreadLock, alloc, fault>>

\* A refused call, and a successful UnRegister, store back the state they read
\* on entry.
WriteBack(t) ==
  /\ th[t].pc = "writeback"
  /\ m_state' = th[t].saved
  /\ Return(t)
  /\ UNCHANGED <<conf, handleToNodeId, db, m_multiThreadLock, alloc, fault>>

Refused(t) == Goto(t, [pc |-> "writeback", saved |-> m_state])

UnRegister_Check(t, h) ==
  /\ MayCall(t)
  /\ IF m_state = "READY" /\ IsMemoryHandleRegistered(h)
     THEN Goto(t, [pc |-> "reclaim", h |-> h, caller |-> "UnRegister",
                   handles |-> {}, ok |-> TRUE])
     ELSE Refused(t)
  /\ UNCHANGED <<m_state, conf, handleToNodeId, db, m_multiThreadLock, alloc, fault>>

\* ReclaimResources failed: the handle stays registered.
UnRegister_Fail(t) ==
  /\ th[t].pc = "unregister" /\ ~th[t].ok
  /\ m_state' = "ERROR"
  /\ Return(t)
  /\ UNCHANGED <<conf, handleToNodeId, db, m_multiThreadLock, alloc, fault>>

\* Mutant: the handle goes although ReclaimResources failed.
UnRegister_Erase_AfterFailure(t) ==
  /\ th[t].pc = "unregister"
  /\ handleToNodeId' = [k \in DOMAIN handleToNodeId \ {th[t].h} |-> handleToNodeId[k]]
  /\ Goto(t, [pc |-> "writeback", saved |-> "READY"])
  /\ UNCHANGED <<m_state, conf, db, m_multiThreadLock, alloc, fault>>

\* The handle leaves the registry under its lock; the READY read on entry is
\* stored afterwards.
UnRegister_Erase(t) ==
  /\ th[t].pc = "unregister" /\ th[t].ok
  /\ handleToNodeId' = [k \in DOMAIN handleToNodeId \ {th[t].h} |-> handleToNodeId[k]]
  /\ Goto(t, [pc |-> "writeback", saved |-> "READY"])
  /\ UNCHANGED <<m_state, conf, db, m_multiThreadLock, alloc, fault>>

----------------------------------------------------------------------------
(* Stand-alone buffers.                                                    *)

AllocateBuffer_Lookup(t, h) ==
  /\ MayCall(t)
  /\ \/ /\ m_state = "READY" /\ IsMemoryHandleRegistered(h)
        /\ Goto(t, [pc |-> "alloc", n |-> handleToNodeId[h], saved |-> m_state])
     \/ Refused(t)   \* also for a size of 0 or an unknown allocator
  /\ UNCHANGED <<m_state, conf, handleToNodeId, db, m_multiThreadLock, alloc, fault>>

AllocateBuffer_Commit(t, b) ==
  /\ th[t].pc = "alloc" /\ InRange(th[t].n)
  /\ b \notin live
  /\ live' = live \cup {b}
  /\ allocationSet' = [allocationSet EXCEPT ![th[t].n] = @ \cup {b}]
  /\ m_state' = th[t].saved
  /\ Return(t)
  /\ UNCHANGED <<conf, handleToNodeId, poolMap, freeObjects, allocatedObjects,
                 poolCount, m_multiThreadLock, freeFailed, lost, fault>>

\* Allocate returned QC_STATUS_FAIL, or another error.
AllocateBuffer_Fail(t, general) ==
  /\ th[t].pc = "alloc" /\ InRange(th[t].n)
  /\ m_state' = IF general THEN "ERROR" ELSE th[t].saved
  /\ Return(t)
  /\ UNCHANGED <<conf, handleToNodeId, db, m_multiThreadLock, alloc, fault>>

\* Mutant: the descriptor stays in the data base after Free.
FreeFromSet_KeepsEntry(n, b, fails) ==
  /\ b \in allocationSet[n]
  /\ UNCHANGED <<freeFailed, allocationSet>>
  /\ IF fails
     THEN m_state' \in {m_state, "ERROR"} /\ UNCHANGED live
     ELSE live' = live \ {b} /\ UNCHANGED m_state

\* Mutant: the descriptor leaves the data base although Free failed.
FreeFromSet_ErasesAnyway(n, b, fails) ==
  /\ b \in allocationSet[n]
  /\ allocationSet' = [allocationSet EXCEPT ![n] = @ \ {b}]
  /\ UNCHANGED freeFailed
  /\ IF fails
     THEN m_state' \in {m_state, "ERROR"} /\ UNCHANGED live
     ELSE live' = live \ {b} /\ UNCHANGED m_state

\* What FreeBuffer does to the data base for a descriptor b once it holds
\* allocationMutex; "fails" says that the allocator's Free fails, with
\* QC_STATUS_FAIL, which alone makes the state ERROR, or with another status.
FreeFromSet(n, b, fails) ==
  /\ b \in allocationSet[n]
  /\ IF fails
     THEN /\ m_state' \in {m_state, "ERROR"}
          /\ freeFailed' = freeFailed \cup {b}
          /\ UNCHANGED <<live, allocationSet>>
     ELSE /\ live' = live \ {b}
          /\ freeFailed' = freeFailed \ {b}
          /\ allocationSet' = [allocationSet EXCEPT ![n] = @ \ {b}]
          /\ UNCHANGED m_state

FreeBuffer_Lookup(t, h, b) ==
  /\ MayCall(t)
  /\ m_state = "READY" /\ IsMemoryHandleRegistered(h)
  /\ Goto(t, [pc |-> "free", n |-> handleToNodeId[h], b |-> b])
  /\ UNCHANGED <<m_state, conf, handleToNodeId, db, m_multiThreadLock, alloc, fault>>

FreeBuffer_Commit(t, fails) ==
  /\ th[t].pc = "free" /\ InRange(th[t].n)
  /\ FreeFromSet(th[t].n, th[t].b, fails)
  /\ Return(t)
  /\ UNCHANGED <<conf, handleToNodeId, poolMap, freeObjects, allocatedObjects,
                 poolCount, m_multiThreadLock, lost, fault>>

\* The descriptor is not in the node's data base: QC_STATUS_BAD_ARGUMENTS.
FreeBuffer_Refuse(t) ==
  /\ th[t].pc = "free" /\ InRange(th[t].n)
  /\ th[t].b \notin allocationSet[th[t].n]
  /\ Return(t)
  /\ UNCHANGED <<m_state, conf, handleToNodeId, db, m_multiThreadLock, alloc, fault>>

----------------------------------------------------------------------------
(* Pools.                                                                  *)

CreatePool_Lookup(t, h) ==
  /\ MayCall(t)
  /\ \/ /\ m_state = "READY" /\ IsMemoryHandleRegistered(h)
        /\ Goto(t, [pc |-> "create", h |-> h, n |-> handleToNodeId[h], saved |-> m_state])
     \/ Refused(t)   \* also for an unknown allocator
  /\ UNCHANGED <<m_state, conf, handleToNodeId, db, m_multiThreadLock, alloc, fault>>

NewPoolHandle(t, r) == <<th[t].h, poolCount[th[t].n], r>>

\* Mutant: the counter is wider than its bound.
TakePoolNumber_NoWrap(t) ==
  /\ th[t].pc = "create" /\ InRange(th[t].n)
  /\ Cardinality(poolMap[th[t].n]) # MaxPoolsPerNode
  /\ poolCount' = [poolCount EXCEPT ![th[t].n] = @ + 1]

TakePoolNumber(t) ==
  /\ th[t].pc = "create" /\ InRange(th[t].n)
  /\ Cardinality(poolMap[th[t].n]) # MaxPoolsPerNode
  /\ poolCount' = [poolCount EXCEPT ![th[t].n] = (@ + 1) % PoolCounterModulus]

\* Pool::Init allocated every element; S is what the allocator returned.
CreatePool_Commit(t, r, S) ==
  /\ TakePoolNumber(t)
  /\ NewPoolHandle(t, r) \notin poolMap[th[t].n]
  /\ S # {} /\ S \cap live = {}
  /\ live' = live \cup S
  /\ poolMap' = [poolMap EXCEPT ![th[t].n] = @ \cup {NewPoolHandle(t, r)}]
  /\ freeObjects' = [freeObjects EXCEPT ![th[t].n][NewPoolHandle(t, r)] = S]
  /\ m_state' = "READY"
  /\ Return(t)
  /\ UNCHANGED <<conf, handleToNodeId, allocationSet, allocatedObjects,
                 m_multiThreadLock, freeFailed, lost, fault>>

\* The generated pool handle is already in the map.
CreatePool_Collide(t, r) ==
  /\ TakePoolNumber(t)
  /\ NewPoolHandle(t, r) \in poolMap[th[t].n]
  /\ m_state' = "ERROR"
  /\ Return(t)
  /\ UNCHANGED <<conf, handleToNodeId, allocationSet, poolMap, freeObjects,
                 allocatedObjects, m_multiThreadLock, alloc, fault>>

\* Pool::Init failed with QC_STATUS_FAIL after it got the elements S: the pool
\* is neither entered in the map nor destroyed, S stays with the allocator.
CreatePool_InitFail(t, r, S) ==
  /\ TakePoolNumber(t)
  /\ NewPoolHandle(t, r) \notin poolMap[th[t].n]
  /\ S \cap live = {}
  /\ live' = live \cup S
  /\ lost' = lost \cup S
  /\ m_state' = "ERROR"
  /\ Return(t)
  /\ UNCHANGED <<conf, handleToNodeId, allocationSet, poolMap, freeObjects,
                 allocatedObjects, m_multiThreadLock, freeFailed, fault>>

\* Pool::Init failed otherwise: the pool is destroyed, which frees the elements
\* it got; S are those whose Free fails, and ~Pool ignores what Free returns.
CreatePool_InitRefuse(t, r, S) ==
  /\ TakePoolNumber(t)
  /\ NewPoolHandle(t, r) \notin poolMap[th[t].n]
  /\ S \cap live = {}
  /\ live' = live \cup S
  /\ freeFailed' = freeFailed \cup S
  /\ lost' = lost \cup S
  /\ m_state' = "READY"
  /\ Return(t)
  /\ UNCHANGED <<conf, handleToNodeId, allocationSet, poolMap, freeObjects,
                 allocatedObjects, m_multiThreadLock, fault>>

\* QC_MEMORY_MAX_POOLS_PER_NODE reached: QC_STATUS_OUT_OF_BOUND.
CreatePool_Full(t) ==
  /\ th[t].pc = "create" /\ InRange(th[t].n)
  /\ Cardinality(poolMap[th[t].n]) = MaxPoolsPerNode
  /\ m_state' = th[t].saved
  /\ Return(t)
  /\ UNCHANGED <<conf, handleToNodeId, db, m_multiThreadLock, alloc, fault>>

\* Pool::~Pool frees every element and ignores what Free returns; the map
\* entry is erased.  F is the set of elements whose Free fails.
ErasePool(n, p, F) ==
  /\ p \in poolMap[n]
  /\ F \subseteq PoolBuffers(n, p)
  /\ live' = live \ (PoolBuffers(n, p) \ F)
  /\ freeFailed' = freeFailed \cup F
  /\ lost' = lost \cup F
  /\ poolMap' = [poolMap EXCEPT ![n] = @ \ {p}]
  /\ freeObjects' = [freeObjects EXCEPT ![n][p] = {}]
  /\ allocatedObjects' = [allocatedObjects EXCEPT ![n][p] = {}]

\* The entry of the methods on an existing pool: p[1] is its memory handle.
PoolOp_Lookup(t, p, r) ==
  /\ MayCall(t)
  /\ m_state = "READY" /\ IsMemoryHandleRegistered(p[1])
  /\ Goto(t, r)
  /\ UNCHANGED <<m_state, conf, handleToNodeId, db, m_multiThreadLock, alloc, fault>>

DestroyPool_Lookup(t, p) ==
  PoolOp_Lookup(t, p, [pc |-> "destroy", n |-> handleToNodeId[p[1]], p |-> p])

DestroyPool_Commit(t, F) ==
  /\ th[t].pc = "destroy" /\ InRange(th[t].n)
  /\ ErasePool(th[t].n, th[t].p, F)
  /\ Return(t)
  /\ UNCHANGED <<m_state, conf, handleToNodeId, allocationSet, poolCount,
                 m_multiThreadLock, fault>>

DestroyPool_Refuse(t) ==
  /\ th[t].pc = "destroy" /\ InRange(th[t].n)
  /\ th[t].p \notin poolMap[th[t].n]
  /\ Return(t)
  /\ UNCHANGED <<m_state, conf, handleToNodeId, db, m_multiThreadLock, alloc, fault>>

AllocateBufferFromPool_Lookup(t, p) ==
  PoolOp_Lookup(t, p, [pc |-> "get", n |-> handleToNodeId[p[1]], p |-> p])

\* Mutant: the element stays in the free list.
AllocateBufferFromPool_Commit_StaysFree(t, b) ==
  /\ th[t].pc = "get" /\ InRange(th[t].n)
  /\ LET n == th[t].n  p == th[t].p IN
     /\ p \in poolMap[n]
     /\ b \in freeObjects[n][p]
     /\ allocatedObjects' = [allocatedObjects EXCEPT ![n][p] = @ \cup {b}]
  /\ Return(t)
  /\ UNCHANGED <<m_state, conf, handleToNodeId, allocationSet, poolMap, freeObjects,
                 poolCount, m_multiThreadLock, alloc, fault>>

\* Pool::GetElement.
AllocateBufferFromPool_Commit(t, b) ==
  /\ th[t].pc = "get" /\ InRange(th[t].n)
  /\ LET n == th[t].n  p == th[t].p IN
     /\ p \in poolMap[n]
     /\ b \in freeObjects[n][p]
     /\ freeObjects' = [freeObjects EXCEPT ![n][p] = @ \ {b}]
     /\ allocatedObjects' = [allocatedObjects EXCEPT ![n][p] = @ \cup {b}]
  /\ Return(t)
  /\ UNCHANGED <<m_state, conf, handleToNodeId, allocationSet, poolMap,
                 poolCount, m_multiThreadLock, alloc, fault>>

\* Unknown pool, or no free element: QC_STATUS_NO_RESOURCE.
AllocateBufferFromPool_Refuse(t) ==
  /\ th[t].pc = "get" /\ InRange(th[t].n)
  /\ th[t].p \in poolMap[th[t].n] => freeObjects[th[t].n][th[t].p] = {}
  /\ Return(t)
  /\ UNCHANGED <<m_state, conf, handleToNodeId, db, m_multiThreadLock, alloc, fault>>

PutBufferToPool_Lookup(t, p, b) ==
  PoolOp_Lookup(t, p, [pc |-> "put", n |-> handleToNodeId[p[1]], p |-> p, b |-> b])

\* Pool::PutElement.
PutBufferToPool_Commit(t) ==
  /\ th[t].pc = "put" /\ InRange(th[t].n)
  /\ LET n == th[t].n  p == th[t].p  b == th[t].b IN
     /\ p \in poolMap[n]
     /\ b \in allocatedObjects[n][p]
     /\ allocatedObjects' = [allocatedObjects EXCEPT ![n][p] = @ \ {b}]
     /\ freeObjects' = [freeObjects EXCEPT ![n][p] = @ \cup {b}]
  /\ Return(t)
  /\ UNCHANGED <<m_state, conf, handleToNodeId, allocationSet, poolMap,
                 poolCount, m_multiThreadLock, alloc, fault>>

PutBufferToPool_Refuse(t) ==
  /\ th[t].pc = "put" /\ InRange(th[t].n)
  /\ th[t].p \in poolMap[th[t].n] => th[t].b \notin allocatedObjects[th[t].n][th[t].p]
  /\ Return(t)
  /\ UNCHANGED <<m_state, conf, handleToNodeId, db, m_multiThreadLock, alloc, fault>>

----------------------------------------------------------------------------
(* ReclaimResources, called by a client, by UnRegister and by DeInitialize. *)

\* The program points inside ReclaimResources.
ReclaimPoints == {"reclaim", "reclaimed", "copyBuffers", "freeBuffers", "freeBuffer",
                  "copyPools", "destroyPools", "destroyPool"}

ReclaimResources(t, h) ==
  /\ MayCall(t)
  /\ Goto(t, [pc |-> "reclaim", h |-> h, caller |-> "client", handles |-> {}, ok |-> TRUE])
  /\ UNCHANGED <<m_state, conf, handleToNodeId, db, m_multiThreadLock, alloc, fault>>

\* Any state but READY is replaced by READY for the duration of the call, so
\* that the release methods it calls are not refused.
Reclaim_Lookup(t) ==
  /\ th[t].pc = "reclaim"
  /\ m_state' = "READY"
  /\ LET known == IsMemoryHandleRegistered(th[t].h) IN
     Goto(t, [pc      |-> IF known THEN "copyBuffers" ELSE "reclaimed",
              h       |-> th[t].h,
              caller  |-> th[t].caller,
              handles |-> th[t].handles,
              ok      |-> known /\ th[t].ok,
              saved   |-> m_state,
              n       |-> IF known THEN handleToNodeId[th[t].h] ELSE 0,
              todo    |-> {}])
  /\ UNCHANGED <<conf, handleToNodeId, db, m_multiThreadLock, alloc, fault>>

\* ReclaimResources at program point "pc" with "todo" left of the copy; a call
\* that was not "good" turns its status into an error and its state into ERROR.
ReclaimAt(t, pc, todo, good) ==
  [pc |-> pc, h |-> th[t].h, caller |-> th[t].caller, handles |-> th[t].handles,
   ok |-> th[t].ok /\ good, saved |-> IF good THEN th[t].saved ELSE "ERROR",
   n |-> th[t].n, todo |-> todo]

\* The node's buffers, then its pools, are copied under their lock.
Reclaim_CopyBuffers(t) ==
  /\ th[t].pc = "copyBuffers" /\ InRange(th[t].n)
  /\ Goto(t, ReclaimAt(t, "freeBuffers", allocationSet[th[t].n], TRUE))
  /\ UNCHANGED <<m_state, conf, handleToNodeId, db, m_multiThreadLock, alloc, fault>>

Reclaim_BuffersDone(t) ==
  /\ th[t].pc = "freeBuffers" /\ th[t].todo = {}
  /\ Goto(t, ReclaimAt(t, "copyPools", {}, TRUE))
  /\ UNCHANGED <<m_state, conf, handleToNodeId, db, m_multiThreadLock, alloc, fault>>

\* Mutant: the pools are left out.
Reclaim_CopyPools_Skip(t) ==
  /\ th[t].pc = "copyPools" /\ InRange(th[t].n)
  /\ Goto(t, ReclaimAt(t, "destroyPools", {}, TRUE))
  /\ UNCHANGED <<m_state, conf, handleToNodeId, db, m_multiThreadLock, alloc, fault>>

Reclaim_CopyPools(t) ==
  /\ th[t].pc = "copyPools" /\ InRange(th[t].n)
  /\ Goto(t, ReclaimAt(t, "destroyPools", poolMap[th[t].n], TRUE))
  /\ UNCHANGED <<m_state, conf, handleToNodeId, db, m_multiThreadLock, alloc, fault>>

\* Mutant: a release that is refused is tried again.
ReleaseLookup_Retry(t, x, h, next) ==
  IF m_state = "READY" /\ IsMemoryHandleRegistered(h)
  THEN Goto(t, [pc |-> next, h |-> th[t].h, caller |-> th[t].caller,
                handles |-> th[t].handles, ok |-> th[t].ok, saved |-> th[t].saved,
                n |-> th[t].n, todo |-> th[t].todo \ {x},
                x |-> x, m |-> handleToNodeId[h]])
  ELSE Goto(t, ReclaimAt(t, th[t].pc, th[t].todo, FALSE))

\* One more element x of the copy is released by a call of FreeBuffer or
\* DestroyPool, which checks the state and looks the handle h up again.
ReleaseLookup(t, x, h, next) ==
  IF m_state = "READY" /\ IsMemoryHandleRegistered(h)
  THEN Goto(t, [pc |-> next, h |-> th[t].h, caller |-> th[t].caller,
                handles |-> th[t].handles, ok |-> th[t].ok, saved |-> th[t].saved,
                n |-> th[t].n, todo |-> th[t].todo \ {x},
                x |-> x, m |-> handleToNodeId[h]])
  ELSE Goto(t, ReclaimAt(t, th[t].pc, th[t].todo \ {x}, FALSE))

Reclaim_FreeBuffer_Lookup(t, b) ==
  /\ th[t].pc = "freeBuffers" /\ b \in th[t].todo
  /\ ReleaseLookup(t, b, th[t].h, "freeBuffer")
  /\ UNCHANGED <<m_state, conf, handleToNodeId, db, m_multiThreadLock, alloc, fault>>

Reclaim_FreeBuffer_Commit(t, fails) ==
  /\ th[t].pc = "freeBuffer" /\ InRange(th[t].m)
  /\ FreeFromSet(th[t].m, th[t].x, fails)
  /\ Goto(t, ReclaimAt(t, "freeBuffers", th[t].todo, ~fails))
  /\ UNCHANGED <<conf, handleToNodeId, poolMap, freeObjects, allocatedObjects,
                 poolCount, m_multiThreadLock, lost, fault>>

Reclaim_FreeBuffer_Refuse(t) ==
  /\ th[t].pc = "freeBuffer" /\ InRange(th[t].m)
  /\ th[t].x \notin allocationSet[th[t].m]
  /\ Goto(t, ReclaimAt(t, "freeBuffers", th[t].todo, FALSE))
  /\ UNCHANGED <<m_state, conf, handleToNodeId, db, m_multiThreadLock, alloc, fault>>

Reclaim_DestroyPool_Lookup(t, p) ==
  /\ th[t].pc = "destroyPools" /\ p \in th[t].todo
  /\ ReleaseLookup(t, p, p[1], "destroyPool")
  /\ UNCHANGED <<m_state, conf, handleToNodeId, db, m_multiThreadLock, alloc, fault>>

Reclaim_DestroyPool_Commit(t, F) ==
  /\ th[t].pc = "destroyPool" /\ InRange(th[t].m)
  /\ ErasePool(th[t].m, th[t].x, F)
  /\ Goto(t, ReclaimAt(t, "destroyPools", th[t].todo, TRUE))
  /\ UNCHANGED <<m_state, conf, handleToNodeId, allocationSet, poolCount,
                 m_multiThreadLock, fault>>

Reclaim_DestroyPool_Refuse(t) ==
  /\ th[t].pc = "destroyPool" /\ InRange(th[t].m)
  /\ th[t].x \notin poolMap[th[t].m]
  /\ Goto(t, ReclaimAt(t, "destroyPools", th[t].todo, FALSE))
  /\ UNCHANGED <<m_state, conf, handleToNodeId, db, m_multiThreadLock, alloc, fault>>

\* Mutant: the state is not restored.
Reclaim_End_LeavesReady(t) ==
  /\ \/ th[t].pc = "reclaimed"
     \/ th[t].pc = "destroyPools" /\ th[t].todo = {}
  /\ Goto(t, CASE th[t].caller = "client" -> Idle
               [] th[t].caller = "UnRegister" ->
                    [pc |-> "unregister", h |-> th[t].h, ok |-> th[t].ok]
               [] th[t].caller = "DeInitialize" ->
                    [pc |-> "deinit", handles |-> th[t].handles, ok |-> th[t].ok])
  /\ UNCHANGED <<m_state, conf, handleToNodeId, db, m_multiThreadLock, alloc, fault>>

\* The state read on entry (or ERROR) is stored back.
Reclaim_End(t) ==
  /\ \/ th[t].pc = "reclaimed"
     \/ th[t].pc = "destroyPools" /\ th[t].todo = {}
  /\ m_state' = th[t].saved
  /\ Goto(t, CASE th[t].caller = "client" -> Idle
               [] th[t].caller = "UnRegister" ->
                    [pc |-> "unregister", h |-> th[t].h, ok |-> th[t].ok]
               [] th[t].caller = "DeInitialize" ->
                    [pc |-> "deinit", handles |-> th[t].handles, ok |-> th[t].ok])
  /\ UNCHANGED <<conf, handleToNodeId, db, m_multiThreadLock, alloc, fault>>

----------------------------------------------------------------------------
\* operator[] of m_pools / m_allocations with an index that is not theirs,
\* pop_back of an empty one, or the registry changed under DeInitialize's loop.
UndefinedAccess(t) ==
  /\ \/ /\ th[t].pc \in {"alloc", "free", "create", "destroy", "get", "put",
                         "copyBuffers", "copyPools"}
        /\ ~InRange(th[t].n)
     \/ /\ th[t].pc \in {"freeBuffer", "destroyPool"}
        /\ ~InRange(th[t].m)
     \/ /\ th[t].pc = "deinit" /\ th[t].handles = {}
        /\ numOfNodes > numEntries
     \/ /\ \/ th[t].pc = "register"
           \/ th[t].pc = "unregister" /\ th[t].ok
        /\ \E u \in Threads \ {t} :
             \/ th[u].pc = "deinit"
             \/ th[u].pc \in ReclaimPoints /\ th[u].caller = "DeInitialize"
  /\ Undefined

\* The possible results of an allocation of up to MaxElements buffers.
Batches == {S \in SUBSET Buffers : Cardinality(S) <= MaxElements}

Init ==
  /\ m_state = "INITIAL"
  /\ numOfNodes = 0 /\ numEntries = 0
  /\ handleToNodeId = NoHandles
  /\ allocationSet = [i \in Entries |-> {}]
  /\ poolMap = [i \in Entries |-> {}]
  /\ freeObjects = [i \in Entries |-> [p \in PoolHandles |-> {}]]
  /\ allocatedObjects = [i \in Entries |-> [p \in PoolHandles |-> {}]]
  /\ poolCount = [i \in Entries |-> 0]
  /\ m_multiThreadLock = NoThread
  /\ th = [t \in Threads |-> Idle]
  /\ live = {} /\ freeFailed = {} /\ lost = {}
  /\ fault = FALSE

\* A thread enters a method.
Call(t) ==
  \/ \E n \in 0 .. MaxNodes : Initialize_Begin(t, n)
  \/ DeInitialize_Begin(t)
  \/ \E id \in NodeIds : Register_Check(t, id)
  \/ \E h \in Handles :
       \/ UnRegister_Check(t, h)
       \/ AllocateBuffer_Lookup(t, h)
       \/ \E b \in Buffers : FreeBuffer_Lookup(t, h, b)
       \/ CreatePool_Lookup(t, h)
       \/ ReclaimResources(t, h)
  \/ \E p \in PoolHandles :
       \/ DestroyPool_Lookup(t, p)
       \/ AllocateBufferFromPool_Lookup(t, p)
       \/ \E b \in Buffers : PutBufferToPool_Lookup(t, p, b)

\* A thread inside a method goes on.
Continue(t) ==
  \/ Initialize_End(t)
  \/ \E h \in Handles : DeInitialize_Next(t, h)
  \/ DeInitialize_End(t)
  \/ \E r \in Rnd : Register_Commit(t, r)
  \/ Register_Refuse(t)
  \/ WriteBack(t)
  \/ UnRegister_Fail(t)
  \/ UnRegister_Erase(t)
  \/ \E b \in Buffers : AllocateBuffer_Commit(t, b)
  \/ \E general \in BOOLEAN : AllocateBuffer_Fail(t, general)
  \/ \E fails \in BOOLEAN : FreeBuffer_Commit(t, fails)
  \/ FreeBuffer_Refuse(t)
  \/ \E r \in Rnd :
       \/ \E S \in Batches :
            \/ CreatePool_Commit(t, r, S)
            \/ CreatePool_InitFail(t, r, S)
            \/ CreatePool_InitRefuse(t, r, S)
       \/ CreatePool_Collide(t, r)
  \/ CreatePool_Full(t)
  \/ \E F \in Batches : DestroyPool_Commit(t, F)
  \/ DestroyPool_Refuse(t)
  \/ \E b \in Buffers : AllocateBufferFromPool_Commit(t, b)
  \/ AllocateBufferFromPool_Refuse(t)
  \/ PutBufferToPool_Commit(t)
  \/ PutBufferToPool_Refuse(t)
  \/ Reclaim_Lookup(t)
  \/ Reclaim_CopyBuffers(t)
  \/ Reclaim_BuffersDone(t)
  \/ Reclaim_CopyPools(t)
  \/ \E b \in Buffers : Reclaim_FreeBuffer_Lookup(t, b)
  \/ \E fails \in BOOLEAN : Reclaim_FreeBuffer_Commit(t, fails)
  \/ Reclaim_FreeBuffer_Refuse(t)
  \/ \E p \in PoolHandles : Reclaim_DestroyPool_Lookup(t, p)
  \/ \E F \in Batches : Reclaim_DestroyPool_Commit(t, F)
  \/ Reclaim_DestroyPool_Refuse(t)
  \/ Reclaim_End(t)
  \/ UndefinedAccess(t)

Crashed == fault /\ UNCHANGED vars

Next ==
  \/ \E t \in Threads : Call(t)
  \/ \E t \in Threads : Continue(t)
  \/ Crashed

Spec == Init /\ [][Next]_vars

\* A thread inside a method is scheduled again and again.
FairSpec == Spec /\ \A t \in Threads : WF_vars(Continue(t))

----------------------------------------------------------------------------
(* Properties.                                                             *)

\* What a call record holds at each program point.
CallOK(c) ==
  /\ c.pc \in {"idle", "initialize", "deinit", "register", "writeback", "unregister", "alloc", "free",
               "create", "destroy", "get", "put"} \cup ReclaimPoints
  /\ c.pc = "register" => c.id \in NodeIds
  /\ c.pc \in {"initialize", "alloc", "create", "writeback"} => c.saved \in States
  /\ c.pc \in {"alloc", "free", "create", "destroy", "get", "put"} => c.n \in NodeIds
  /\ c.pc \in {"free", "put"} => c.b \in Buffers
  /\ c.pc \in {"destroy", "get", "put"} => c.p \in PoolHandles
  /\ c.pc \in {"create", "unregister"} => c.h \in Handles
  /\ c.pc \in {"deinit", "unregister"} => c.ok \in BOOLEAN
  /\ c.pc = "deinit" => c.handles \subseteq Handles
  /\ c.pc \in ReclaimPoints =>
       /\ c.h \in Handles
       /\ c.caller \in {"client", "UnRegister", "DeInitialize"}
       /\ c.handles \subseteq Handles
       /\ c.ok \in BOOLEAN
  /\ c.pc \in ReclaimPoints \ {"reclaim"} => c.saved \in States /\ c.n \in NodeIds
  /\ c.pc \in {"freeBuffers", "freeBuffer"} => c.todo \subseteq Buffers
  /\ c.pc \in {"destroyPools", "destroyPool"} => c.todo \subseteq PoolHandles
  /\ c.pc = "freeBuffer" => c.x \in Buffers /\ c.m \in NodeIds
  /\ c.pc = "destroyPool" => c.x \in PoolHandles /\ c.m \in NodeIds

ConfOK ==
  /\ m_state \in States
  /\ numOfNodes \in 0 .. MaxNodes
  /\ numEntries \in Nat
  /\ IsFiniteSet(DOMAIN handleToNodeId)
  /\ DOMAIN handleToNodeId \subseteq Handles
  /\ \A h \in DOMAIN handleToNodeId : handleToNodeId[h] \in NodeIds
  /\ m_multiThreadLock \in Threads \cup {NoThread}
  /\ fault \in BOOLEAN

DbOK ==
  /\ allocationSet \in [Entries -> SUBSET Buffers]
  /\ poolMap \in [Entries -> SUBSET PoolHandles]
  /\ freeObjects \in [Entries -> [PoolHandles -> SUBSET Buffers]]
  /\ allocatedObjects \in [Entries -> [PoolHandles -> SUBSET Buffers]]
  /\ poolCount \in [Entries -> 0 .. (PoolCounterModulus - 1)]
  /\ live \subseteq Buffers /\ freeFailed \subseteq Buffers /\ lost \subseteq Buffers

CallsOK ==
  /\ th = [t \in Threads |-> th[t]]
  /\ \A t \in Threads : CallOK(th[t])

\* The type invariant of the manager's members and of the calls in progress.
TypeOK == ConfOK /\ DbOK /\ CallsOK

\* A buffer has one owner: one node's stand-alone set, or one list of one
\* pool.  Whatever handles and descriptors the clients pass, however their
\* calls interleave, no entry of m_pools/m_allocations shares a buffer with
\* another (a shared one would be freed twice by ReclaimResources).
OwnershipExclusive ==
  \A n \in Entries :
    /\ \A m \in Entries \ {n} : allocationSet[n] \cap allocationSet[m] = {}
    /\ \A p \in PoolHandles :
         /\ freeObjects[n][p] \cap allocatedObjects[n][p] = {}
         /\ \A m \in Entries : allocationSet[m] \cap PoolBuffers(n, p) = {}
         /\ \A m \in Entries, q \in PoolHandles :
              <<m, q>> # <<n, p>> => PoolBuffers(n, p) \cap PoolBuffers(m, q) = {}

\* Every buffer the data base names is still allocated, so each call the
\* manager makes of an allocator's Free is for a live buffer; a pool that is
\* not in the map has no elements left.
OwnedIsLive ==
  \A n \in Entries :
    /\ allocationSet[n] \subseteq live
    /\ \A p \in PoolHandles :
         /\ PoolBuffers(n, p) \subseteq live
         /\ p \notin poolMap[n] => PoolBuffers(n, p) = {}

\* Every outstanding buffer is in the data base, or was dropped at one of the
\* three places where the code gives up on it (a Pool::Init that fails with
\* QC_STATUS_FAIL, a failed Free in ~Pool, DeInitialize after a failed release);
\* none is both.
Accounted ==
  /\ live \subseteq lost \cup UNION {Owned(n) : n \in Entries}
  /\ \A n \in Entries : lost \cap Owned(n) = {}

\* Two handles never name the same node entry (Register checks the id and
\* inserts under one unique lock).
RegistryInjective ==
  \A g, h \in DOMAIN handleToNodeId :
    handleToNodeId[g] = handleToNodeId[h] => g = h

\* Clients that serialise the lifecycle calls and unregister their nodes
\* before DeInitialize never make a method index past m_pools/m_allocations,
\* although every method uses its node index after it has released the registry.
NoUndefinedAccess == ~fault

\* A configured node that no handle names owns neither buffers nor pools:
\* UnRegister releases everything before the handle disappears.
UnregisteredOwnsNothing ==
  \A n \in Entries :
    InRange(n) /\ IsNodeIdUnique(n) => allocationSet[n] = {} /\ poolMap[n] = {}

\* Every pool can still be reached: its handle's memory handle is registered
\* and names the entry the pool is in (DestroyPool finds it through both).
PoolsReachable ==
  \A n \in Entries : \A p \in poolMap[n] :
    IsMemoryHandleRegistered(p[1]) /\ handleToNodeId[p[1]] = n

\* With one client thread no step of any method but DeInitialize loses the
\* error state, although ReclaimResources replaces it by READY for a while and
\* a refused call stores the state it read back at its end.
DeInitializing ==
  \E t \in Threads :
    \/ th[t].pc = "deinit"
    \/ th[t].pc \in ReclaimPoints /\ th[t].caller = "DeInitialize"
ErrorPending ==
  /\ ~DeInitializing
  /\ \A t \in Threads : IF th[t].pc \in ReclaimPoints \ {"reclaim"}
                        THEN th[t].saved = "ERROR" ELSE m_state = "ERROR"
ErrorSurvivesCalls ==
  [][ErrorPending /\ ~DeInitializing' /\ ~fault' => ErrorPending']_vars

\* Every method returns: the release loops of ReclaimResources and
\* DeInitialize end whatever fails in them.
CallsReturn ==
  \A t \in Threads : (th[t].pc # "idle") ~> (th[t].pc = "idle" \/ fault)
============================================================================
