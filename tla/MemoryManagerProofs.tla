------------------------ MODULE MemoryManagerProofs ------------------------
(***************************************************************************)
(* Type correctness of MemoryManager and the registry of its nodes, for    *)
(* every number of threads, nodes, buffers and handles.  TypeOK and        *)
(* RegistryInjective are each inductive.  One lemma per action; most       *)
(* actions only replace a call record and perhaps m_state, which CallStep  *)
(* covers.  At the end, what a discipline of the clients suffices for:     *)
(* DisciplineInv relates the lock, m_state, the size of the vectors and    *)
(* the index each call carries from its lookup to its commit.              *)
(***************************************************************************)
EXTENDS MemoryManager, FiniteSetTheorems, TLAPS

\* Replacing one thread's call record by a well-formed one keeps all of them
\* well-formed.
LEMMA GotoOK ==
  ASSUME NEW t \in Threads, NEW c, CallOK(c), CallsOK, Goto(t, c)
  PROVE  CallsOK'
<1>1. th' = [u \in Threads |-> IF u = t THEN c ELSE th[u]]
  BY DEF Goto, CallsOK
<1>2. ASSUME NEW u \in Threads PROVE CallOK(th'[u])
  <2>1. CASE u = t
    <3>1. th'[u] = c BY <1>1, <2>1
    <3> QED BY <3>1
  <2>2. CASE u # t
    <3>1. th'[u] = th[u] BY <1>1, <2>2
    <3>2. CallOK(th[u]) BY DEF CallsOK
    <3> QED BY <3>1, <3>2
  <2> QED BY <2>1, <2>2
<1>3. th' = [u \in Threads |-> th'[u]]
  BY <1>1
<1> QED BY <1>2, <1>3 DEF CallsOK, CallOK

LEMMA IdleOK == CallOK(Idle)
BY DEF CallOK, ReclaimPoints, Idle

\* A step that changes only the state and one call record.
LEMMA CallStep ==
  ASSUME TypeOK, NEW t \in Threads, NEW c, CallOK(c), Goto(t, c), m_state' \in States,
         UNCHANGED <<conf, handleToNodeId, db, m_multiThreadLock, alloc, fault>>
  PROVE  TypeOK'
<1>1. CallsOK' BY GotoOK DEF TypeOK
<1>2. ConfOK' BY DEF TypeOK, ConfOK, conf
<1>3. DbOK' BY DEF TypeOK, DbOK, db, alloc
<1> QED BY <1>1, <1>2, <1>3 DEF TypeOK

\* The node index a call carries is an index of the data base.
LEMMA NodeIsEntry == NodeIds \subseteq Entries
BY ConstantsAssumption DEF NodeIds, Entries

LEMMA CounterWraps == \A k \in Nat : (k + 1) % PoolCounterModulus \in 0 .. (PoolCounterModulus - 1)
BY ConstantsAssumption

LEMMA Type_DeInitialize_Next ==
  ASSUME TypeOK, NEW t \in Threads, NEW h \in Handles, DeInitialize_Next(t, h)
  PROVE  TypeOK'
<1>1. CallOK(th[t]) BY DEF TypeOK, CallsOK
<1>2. CallOK([pc |-> "reclaim", h |-> h, caller |-> "DeInitialize",
                  handles |-> th[t].handles \ {h}, ok |-> th[t].ok])
  BY <1>1 DEF DeInitialize_Next, TypeOK, ConfOK, DbOK, Entries, NodeIds, States, CallOK, ReclaimPoints
<1>3. m_state' \in States BY DEF DeInitialize_Next, TypeOK, ConfOK
<1> QED BY <1>2, <1>3, CallStep DEF DeInitialize_Next

LEMMA Type_Register_Check ==
  ASSUME TypeOK, NEW t \in Threads, NEW id \in NodeIds, Register_Check(t, id)
  PROVE  TypeOK'
<1>1. CallOK(th[t]) BY DEF TypeOK, CallsOK
<1>2. CallOK([pc |-> "register", id |-> id])
  BY <1>1 DEF Register_Check, TypeOK, ConfOK, DbOK, Entries, NodeIds, States, CallOK, ReclaimPoints
<1>3. m_state' \in States BY DEF Register_Check, TypeOK, ConfOK
<1> QED BY <1>2, <1>3, CallStep DEF Register_Check

LEMMA Type_Register_Refuse ==
  ASSUME TypeOK, NEW t \in Threads, Register_Refuse(t)
  PROVE  TypeOK'
<1>1. CallOK(th[t]) BY DEF TypeOK, CallsOK
<1>2. m_state' \in States BY <1>1 DEF Register_Refuse, TypeOK, ConfOK, CallOK, ReclaimPoints, States
<1> QED BY <1>2, IdleOK, CallStep DEF Register_Refuse, Return

LEMMA Type_WriteBack ==
  ASSUME TypeOK, NEW t \in Threads, WriteBack(t)
  PROVE  TypeOK'
<1>1. CallOK(th[t]) BY DEF TypeOK, CallsOK
<1>2. m_state' \in States BY <1>1 DEF WriteBack, TypeOK, ConfOK, CallOK, ReclaimPoints, States
<1> QED BY <1>2, IdleOK, CallStep DEF WriteBack, Return

LEMMA Type_UnRegister_Fail ==
  ASSUME TypeOK, NEW t \in Threads, UnRegister_Fail(t)
  PROVE  TypeOK'
<1>1. CallOK(th[t]) BY DEF TypeOK, CallsOK
<1>2. m_state' \in States BY <1>1 DEF UnRegister_Fail, TypeOK, ConfOK, CallOK, ReclaimPoints, States
<1> QED BY <1>2, IdleOK, CallStep DEF UnRegister_Fail, Return

LEMMA Type_AllocateBuffer_Fail ==
  ASSUME TypeOK, NEW t \in Threads, NEW general \in BOOLEAN, AllocateBuffer_Fail(t, general)
  PROVE  TypeOK'
<1>1. CallOK(th[t]) BY DEF TypeOK, CallsOK
<1>2. m_state' \in States BY <1>1 DEF AllocateBuffer_Fail, TypeOK, ConfOK, CallOK, ReclaimPoints, States
<1> QED BY <1>2, IdleOK, CallStep DEF AllocateBuffer_Fail, Return

LEMMA Type_FreeBuffer_Lookup ==
  ASSUME TypeOK, NEW t \in Threads, NEW h \in Handles, NEW b \in Buffers, FreeBuffer_Lookup(t, h, b)
  PROVE  TypeOK'
<1>1. CallOK(th[t]) BY DEF TypeOK, CallsOK
<1>2. CallOK([pc |-> "free", n |-> handleToNodeId[h], b |-> b])
  BY <1>1 DEF FreeBuffer_Lookup, TypeOK, ConfOK, DbOK, Entries, NodeIds, States, CallOK, ReclaimPoints, IsMemoryHandleRegistered
<1>3. m_state' \in States BY DEF FreeBuffer_Lookup, TypeOK, ConfOK
<1> QED BY <1>2, <1>3, CallStep DEF FreeBuffer_Lookup

LEMMA Type_FreeBuffer_Refuse ==
  ASSUME TypeOK, NEW t \in Threads, FreeBuffer_Refuse(t)
  PROVE  TypeOK'
<1>1. CallOK(th[t]) BY DEF TypeOK, CallsOK
<1>2. m_state' \in States BY <1>1 DEF FreeBuffer_Refuse, TypeOK, ConfOK, CallOK, ReclaimPoints, States
<1> QED BY <1>2, IdleOK, CallStep DEF FreeBuffer_Refuse, Return

LEMMA Type_CreatePool_Full ==
  ASSUME TypeOK, NEW t \in Threads, CreatePool_Full(t)
  PROVE  TypeOK'
<1>1. CallOK(th[t]) BY DEF TypeOK, CallsOK
<1>2. m_state' \in States BY <1>1 DEF CreatePool_Full, TypeOK, ConfOK, CallOK, ReclaimPoints, States
<1> QED BY <1>2, IdleOK, CallStep DEF CreatePool_Full, Return

LEMMA Type_DestroyPool_Lookup ==
  ASSUME TypeOK, NEW t \in Threads, NEW p \in PoolHandles, DestroyPool_Lookup(t, p)
  PROVE  TypeOK'
<1>1. CallOK(th[t]) BY DEF TypeOK, CallsOK
<1>2. CallOK([pc |-> "destroy", n |-> handleToNodeId[p[1]], p |-> p])
  BY <1>1 DEF DestroyPool_Lookup, TypeOK, ConfOK, DbOK, Entries, NodeIds, States, CallOK, ReclaimPoints, PoolOp_Lookup, IsMemoryHandleRegistered
<1>3. m_state' \in States BY DEF DestroyPool_Lookup, TypeOK, ConfOK, PoolOp_Lookup
<1> QED BY <1>2, <1>3, CallStep DEF DestroyPool_Lookup, PoolOp_Lookup

LEMMA Type_DestroyPool_Refuse ==
  ASSUME TypeOK, NEW t \in Threads, DestroyPool_Refuse(t)
  PROVE  TypeOK'
<1>1. CallOK(th[t]) BY DEF TypeOK, CallsOK
<1>2. m_state' \in States BY <1>1 DEF DestroyPool_Refuse, TypeOK, ConfOK, CallOK, ReclaimPoints, States
<1> QED BY <1>2, IdleOK, CallStep DEF DestroyPool_Refuse, Return

LEMMA Type_AllocateBufferFromPool_Lookup ==
  ASSUME TypeOK, NEW t \in Threads, NEW p \in PoolHandles, AllocateBufferFromPool_Lookup(t, p)
  PROVE  TypeOK'
<1>1. CallOK(th[t]) BY DEF TypeOK, CallsOK
<1>2. CallOK([pc |-> "get", n |-> handleToNodeId[p[1]], p |-> p])
  BY <1>1 DEF AllocateBufferFromPool_Lookup, TypeOK, ConfOK, DbOK, Entries, NodeIds, States, CallOK, ReclaimPoints, PoolOp_Lookup, IsMemoryHandleRegistered
<1>3. m_state' \in States BY DEF AllocateBufferFromPool_Lookup, TypeOK, ConfOK, PoolOp_Lookup
<1> QED BY <1>2, <1>3, CallStep DEF AllocateBufferFromPool_Lookup, PoolOp_Lookup

LEMMA Type_AllocateBufferFromPool_Refuse ==
  ASSUME TypeOK, NEW t \in Threads, AllocateBufferFromPool_Refuse(t)
  PROVE  TypeOK'
<1>1. CallOK(th[t]) BY DEF TypeOK, CallsOK
<1>2. m_state' \in States BY <1>1 DEF AllocateBufferFromPool_Refuse, TypeOK, ConfOK, CallOK, ReclaimPoints, States
<1> QED BY <1>2, IdleOK, CallStep DEF AllocateBufferFromPool_Refuse, Return

LEMMA Type_PutBufferToPool_Lookup ==
  ASSUME TypeOK, NEW t \in Threads, NEW p \in PoolHandles, NEW b \in Buffers, PutBufferToPool_Lookup(t, p, b)
  PROVE  TypeOK'
<1>1. CallOK(th[t]) BY DEF TypeOK, CallsOK
<1>2. CallOK([pc |-> "put", n |-> handleToNodeId[p[1]], p |-> p, b |-> b])
  BY <1>1 DEF PutBufferToPool_Lookup, TypeOK, ConfOK, DbOK, Entries, NodeIds, States, CallOK, ReclaimPoints, PoolOp_Lookup, IsMemoryHandleRegistered
<1>3. m_state' \in States BY DEF PutBufferToPool_Lookup, TypeOK, ConfOK, PoolOp_Lookup
<1> QED BY <1>2, <1>3, CallStep DEF PutBufferToPool_Lookup, PoolOp_Lookup

LEMMA Type_PutBufferToPool_Refuse ==
  ASSUME TypeOK, NEW t \in Threads, PutBufferToPool_Refuse(t)
  PROVE  TypeOK'
<1>1. CallOK(th[t]) BY DEF TypeOK, CallsOK
<1>2. m_state' \in States BY <1>1 DEF PutBufferToPool_Refuse, TypeOK, ConfOK, CallOK, ReclaimPoints, States
<1> QED BY <1>2, IdleOK, CallStep DEF PutBufferToPool_Refuse, Return

LEMMA Type_ReclaimResources ==
  ASSUME TypeOK, NEW t \in Threads, NEW h \in Handles, ReclaimResources(t, h)
  PROVE  TypeOK'
<1>1. CallOK(th[t]) BY DEF TypeOK, CallsOK
<1>2. CallOK([pc |-> "reclaim", h |-> h, caller |-> "client", handles |-> {}, ok |-> TRUE])
  BY <1>1 DEF ReclaimResources, TypeOK, ConfOK, DbOK, Entries, NodeIds, States, CallOK, ReclaimPoints
<1>3. m_state' \in States BY DEF ReclaimResources, TypeOK, ConfOK
<1> QED BY <1>2, <1>3, CallStep DEF ReclaimResources

LEMMA Type_Reclaim_CopyBuffers ==
  ASSUME TypeOK, NEW t \in Threads, Reclaim_CopyBuffers(t)
  PROVE  TypeOK'
<1>1. CallOK(th[t]) BY DEF TypeOK, CallsOK
<1>a. th[t].n \in Entries BY <1>1, NodeIsEntry DEF Reclaim_CopyBuffers, CallOK, ReclaimPoints
<1>b. allocationSet[th[t].n] \subseteq Buffers BY <1>a DEF TypeOK, DbOK
<1>2. CallOK(ReclaimAt(t, "freeBuffers", allocationSet[th[t].n], TRUE))
  BY <1>1, <1>b DEF Reclaim_CopyBuffers, CallOK, ReclaimPoints, ReclaimAt
<1>3. m_state' \in States BY DEF Reclaim_CopyBuffers, TypeOK, ConfOK
<1> QED BY <1>2, <1>3, CallStep DEF Reclaim_CopyBuffers

LEMMA Type_Reclaim_BuffersDone ==
  ASSUME TypeOK, NEW t \in Threads, Reclaim_BuffersDone(t)
  PROVE  TypeOK'
<1>1. CallOK(th[t]) BY DEF TypeOK, CallsOK
<1>2. CallOK(ReclaimAt(t, "copyPools", {}, TRUE))
  BY <1>1 DEF Reclaim_BuffersDone, TypeOK, ConfOK, DbOK, Entries, NodeIds, States, CallOK, ReclaimPoints, ReclaimAt
<1>3. m_state' \in States BY DEF Reclaim_BuffersDone, TypeOK, ConfOK
<1> QED BY <1>2, <1>3, CallStep DEF Reclaim_BuffersDone

LEMMA Type_Reclaim_CopyPools ==
  ASSUME TypeOK, NEW t \in Threads, Reclaim_CopyPools(t)
  PROVE  TypeOK'
<1>1. CallOK(th[t]) BY DEF TypeOK, CallsOK
<1>a. th[t].n \in Entries BY <1>1, NodeIsEntry DEF Reclaim_CopyPools, CallOK, ReclaimPoints
<1>b. poolMap[th[t].n] \subseteq PoolHandles BY <1>a DEF TypeOK, DbOK
<1>2. CallOK(ReclaimAt(t, "destroyPools", poolMap[th[t].n], TRUE))
  BY <1>1, <1>b DEF Reclaim_CopyPools, CallOK, ReclaimPoints, ReclaimAt
<1>3. m_state' \in States BY DEF Reclaim_CopyPools, TypeOK, ConfOK
<1> QED BY <1>2, <1>3, CallStep DEF Reclaim_CopyPools

LEMMA Type_Reclaim_FreeBuffer_Refuse ==
  ASSUME TypeOK, NEW t \in Threads, Reclaim_FreeBuffer_Refuse(t)
  PROVE  TypeOK'
<1>1. CallOK(th[t]) BY DEF TypeOK, CallsOK
<1>2. CallOK(ReclaimAt(t, "freeBuffers", th[t].todo, FALSE))
  BY <1>1 DEF Reclaim_FreeBuffer_Refuse, TypeOK, ConfOK, DbOK, Entries, NodeIds, States, CallOK, ReclaimPoints, ReclaimAt
<1>3. m_state' \in States BY DEF Reclaim_FreeBuffer_Refuse, TypeOK, ConfOK
<1> QED BY <1>2, <1>3, CallStep DEF Reclaim_FreeBuffer_Refuse

LEMMA Type_Reclaim_DestroyPool_Refuse ==
  ASSUME TypeOK, NEW t \in Threads, Reclaim_DestroyPool_Refuse(t)
  PROVE  TypeOK'
<1>1. CallOK(th[t]) BY DEF TypeOK, CallsOK
<1>2. CallOK(ReclaimAt(t, "destroyPools", th[t].todo, FALSE))
  BY <1>1 DEF Reclaim_DestroyPool_Refuse, TypeOK, ConfOK, DbOK, Entries, NodeIds, States, CallOK, ReclaimPoints, ReclaimAt
<1>3. m_state' \in States BY DEF Reclaim_DestroyPool_Refuse, TypeOK, ConfOK
<1> QED BY <1>2, <1>3, CallStep DEF Reclaim_DestroyPool_Refuse

LEMMA Type_AllocateBuffer_Commit ==
  ASSUME TypeOK, NEW t \in Threads, NEW b \in Buffers, AllocateBuffer_Commit(t, b)
  PROVE  TypeOK'
<1>1. CallOK(th[t]) BY DEF TypeOK, CallsOK
<1>2. CallsOK' BY IdleOK, GotoOK DEF AllocateBuffer_Commit, Return, TypeOK
<1>3. ConfOK' BY <1>1 DEF AllocateBuffer_Commit, TypeOK, ConfOK, conf, CallOK, ReclaimPoints, States
<1>4. DbOK' BY <1>1, ConstantsAssumption DEF AllocateBuffer_Commit, TypeOK, DbOK, ConfOK, db, alloc, CallOK, ReclaimPoints, InRange, Entries, NodeIds
<1> QED BY <1>2, <1>3, <1>4 DEF TypeOK

LEMMA Type_FreeBuffer_Commit ==
  ASSUME TypeOK, NEW t \in Threads, NEW fails \in BOOLEAN, FreeBuffer_Commit(t, fails)
  PROVE  TypeOK'
<1>1. CallOK(th[t]) BY DEF TypeOK, CallsOK
<1>2. CallsOK' BY IdleOK, GotoOK DEF FreeBuffer_Commit, Return, TypeOK
<1>3. ConfOK' BY <1>1 DEF FreeBuffer_Commit, TypeOK, ConfOK, conf, CallOK, ReclaimPoints, States, FreeFromSet
<1>4. th[t].n \in Entries /\ th[t].b \in Buffers
  BY <1>1, NodeIsEntry DEF FreeBuffer_Commit, CallOK, ReclaimPoints
<1>5. DbOK'
  <2>1. CASE fails
    BY <1>4, <2>1 DEF FreeBuffer_Commit, FreeFromSet, TypeOK, DbOK
  <2>2. CASE ~fails
    BY <1>4, <2>2 DEF FreeBuffer_Commit, FreeFromSet, TypeOK, DbOK
  <2> QED BY <2>1, <2>2
<1> QED BY <1>2, <1>3, <1>5 DEF TypeOK

LEMMA Type_CreatePool_Commit ==
  ASSUME TypeOK, NEW t \in Threads, NEW r \in Rnd, NEW S \in Batches, CreatePool_Commit(t, r, S)
  PROVE  TypeOK'
<1>1. CallOK(th[t]) BY DEF TypeOK, CallsOK
<1>2. CallsOK' BY IdleOK, GotoOK DEF CreatePool_Commit, Return, TypeOK
<1>3. ConfOK' BY <1>1 DEF CreatePool_Commit, TypeOK, ConfOK, conf, CallOK, ReclaimPoints, States
<1>a. th[t].n \in Entries
  BY <1>1, NodeIsEntry DEF CreatePool_Commit, TakePoolNumber, CallOK, ReclaimPoints
<1>b. poolCount' \in [Entries -> 0 .. (PoolCounterModulus - 1)]
  BY <1>a, CounterWraps DEF CreatePool_Commit, TakePoolNumber, TypeOK, DbOK
<1>c. NewPoolHandle(t, r) \in PoolHandles
  BY <1>1, <1>a DEF CreatePool_Commit, TakePoolNumber, CallOK, ReclaimPoints, NewPoolHandle, PoolHandles, TypeOK, DbOK
<1>4. DbOK'
  BY <1>a, <1>b, <1>c DEF CreatePool_Commit, TypeOK, DbOK, Batches, alloc
<1> QED BY <1>2, <1>3, <1>4 DEF TypeOK

LEMMA Type_CreatePool_InitFail ==
  ASSUME TypeOK, NEW t \in Threads, NEW r \in Rnd, NEW S \in Batches, CreatePool_InitFail(t, r, S)
  PROVE  TypeOK'
<1>1. CallOK(th[t]) BY DEF TypeOK, CallsOK
<1>2. CallsOK' BY IdleOK, GotoOK DEF CreatePool_InitFail, Return, TypeOK
<1>3. ConfOK' BY <1>1 DEF CreatePool_InitFail, TypeOK, ConfOK, conf, CallOK, ReclaimPoints, States
<1>a. th[t].n \in Entries
  BY <1>1, NodeIsEntry DEF CreatePool_InitFail, TakePoolNumber, CallOK, ReclaimPoints
<1>b. poolCount' \in [Entries -> 0 .. (PoolCounterModulus - 1)]
  BY <1>a, CounterWraps DEF CreatePool_InitFail, TakePoolNumber, TypeOK, DbOK
<1>4. DbOK'
  BY <1>a, <1>b DEF CreatePool_InitFail, TypeOK, DbOK, Batches, alloc
<1> QED BY <1>2, <1>3, <1>4 DEF TypeOK

LEMMA Type_CreatePool_Collide ==
  ASSUME TypeOK, NEW t \in Threads, NEW r \in Rnd, CreatePool_Collide(t, r)
  PROVE  TypeOK'
<1>1. CallOK(th[t]) BY DEF TypeOK, CallsOK
<1>2. CallsOK' BY IdleOK, GotoOK DEF CreatePool_Collide, Return, TypeOK
<1>3. ConfOK' BY <1>1 DEF CreatePool_Collide, TypeOK, ConfOK, conf, CallOK, ReclaimPoints, States
<1>a. th[t].n \in Entries
  BY <1>1, NodeIsEntry DEF CreatePool_Collide, TakePoolNumber, CallOK, ReclaimPoints
<1>b. poolCount' \in [Entries -> 0 .. (PoolCounterModulus - 1)]
  BY <1>a, CounterWraps DEF CreatePool_Collide, TakePoolNumber, TypeOK, DbOK
<1>4. DbOK'
  BY <1>a, <1>b DEF CreatePool_Collide, TypeOK, DbOK, Batches, alloc
<1> QED BY <1>2, <1>3, <1>4 DEF TypeOK

LEMMA Type_CreatePool_InitRefuse ==
  ASSUME TypeOK, NEW t \in Threads, NEW r \in Rnd, NEW S \in Batches,
         CreatePool_InitRefuse(t, r, S)
  PROVE  TypeOK'
<1>1. CallOK(th[t]) BY DEF TypeOK, CallsOK
<1>2. CallsOK' BY IdleOK, GotoOK DEF CreatePool_InitRefuse, Return, TypeOK
<1>3. ConfOK' BY <1>1 DEF CreatePool_InitRefuse, TypeOK, ConfOK, conf, CallOK, ReclaimPoints, States
<1>a. th[t].n \in Entries
  BY <1>1, NodeIsEntry DEF CreatePool_InitRefuse, TakePoolNumber, CallOK, ReclaimPoints
<1>b. poolCount' \in [Entries -> 0 .. (PoolCounterModulus - 1)]
  BY <1>a, CounterWraps DEF CreatePool_InitRefuse, TakePoolNumber, TypeOK, DbOK
<1>4. DbOK'
  BY <1>a, <1>b DEF CreatePool_InitRefuse, TypeOK, DbOK, Batches, alloc
<1> QED BY <1>2, <1>3, <1>4 DEF TypeOK

LEMMA Type_DestroyPool_Commit ==
  ASSUME TypeOK, NEW t \in Threads, NEW F \in Batches, DestroyPool_Commit(t, F)
  PROVE  TypeOK'
<1>1. CallOK(th[t]) BY DEF TypeOK, CallsOK
<1>2. CallsOK' BY IdleOK, GotoOK DEF DestroyPool_Commit, Return, TypeOK
<1>3. ConfOK' BY <1>1 DEF DestroyPool_Commit, TypeOK, ConfOK, conf, CallOK, ReclaimPoints, States, ErasePool
<1>4. DbOK' BY <1>1, ConstantsAssumption DEF DestroyPool_Commit, TypeOK, DbOK, ConfOK, db, alloc, CallOK, ReclaimPoints, InRange, Entries, NodeIds, ErasePool, Batches
<1> QED BY <1>2, <1>3, <1>4 DEF TypeOK

LEMMA Type_AllocateBufferFromPool_Commit ==
  ASSUME TypeOK, NEW t \in Threads, NEW b \in Buffers, AllocateBufferFromPool_Commit(t, b)
  PROVE  TypeOK'
<1>1. CallOK(th[t]) BY DEF TypeOK, CallsOK
<1>2. CallsOK' BY IdleOK, GotoOK DEF AllocateBufferFromPool_Commit, Return, TypeOK
<1>3. ConfOK' BY <1>1 DEF AllocateBufferFromPool_Commit, TypeOK, ConfOK, conf, CallOK, ReclaimPoints, States
<1>4. DbOK' BY <1>1, ConstantsAssumption DEF AllocateBufferFromPool_Commit, TypeOK, DbOK, ConfOK, db, alloc, CallOK, ReclaimPoints, InRange, Entries, NodeIds
<1> QED BY <1>2, <1>3, <1>4 DEF TypeOK

LEMMA Type_PutBufferToPool_Commit ==
  ASSUME TypeOK, NEW t \in Threads, PutBufferToPool_Commit(t)
  PROVE  TypeOK'
<1>1. CallOK(th[t]) BY DEF TypeOK, CallsOK
<1>2. CallsOK' BY IdleOK, GotoOK DEF PutBufferToPool_Commit, Return, TypeOK
<1>3. ConfOK' BY <1>1 DEF PutBufferToPool_Commit, TypeOK, ConfOK, conf, CallOK, ReclaimPoints, States
<1>4. DbOK' BY <1>1, ConstantsAssumption DEF PutBufferToPool_Commit, TypeOK, DbOK, ConfOK, db, alloc, CallOK, ReclaimPoints, InRange, Entries, NodeIds
<1> QED BY <1>2, <1>3, <1>4 DEF TypeOK

LEMMA Type_Reclaim_FreeBuffer_Commit ==
  ASSUME TypeOK, NEW t \in Threads, NEW fails \in BOOLEAN, Reclaim_FreeBuffer_Commit(t, fails)
  PROVE  TypeOK'
<1>1. CallOK(th[t]) BY DEF TypeOK, CallsOK
<1>a. CallOK(ReclaimAt(t, "freeBuffers", th[t].todo, ~fails))
  BY <1>1 DEF Reclaim_FreeBuffer_Commit, CallOK, ReclaimPoints, ReclaimAt, States
<1>2. CallsOK' BY <1>a, GotoOK DEF Reclaim_FreeBuffer_Commit, TypeOK
<1>3. ConfOK' BY <1>1 DEF Reclaim_FreeBuffer_Commit, TypeOK, ConfOK, conf, CallOK, ReclaimPoints, States, FreeFromSet
<1>4. th[t].m \in Entries /\ th[t].x \in Buffers
  BY <1>1, NodeIsEntry DEF Reclaim_FreeBuffer_Commit, CallOK, ReclaimPoints
<1>5. DbOK'
  <2>1. CASE fails
    BY <1>4, <2>1 DEF Reclaim_FreeBuffer_Commit, FreeFromSet, TypeOK, DbOK
  <2>2. CASE ~fails
    BY <1>4, <2>2 DEF Reclaim_FreeBuffer_Commit, FreeFromSet, TypeOK, DbOK
  <2> QED BY <2>1, <2>2
<1> QED BY <1>2, <1>3, <1>5 DEF TypeOK

LEMMA Type_Reclaim_DestroyPool_Commit ==
  ASSUME TypeOK, NEW t \in Threads, NEW F \in Batches, Reclaim_DestroyPool_Commit(t, F)
  PROVE  TypeOK'
<1>1. CallOK(th[t]) BY DEF TypeOK, CallsOK
<1>a. CallOK(ReclaimAt(t, "destroyPools", th[t].todo, TRUE))
  BY <1>1 DEF Reclaim_DestroyPool_Commit, CallOK, ReclaimPoints, ReclaimAt, States
<1>2. CallsOK' BY <1>a, GotoOK DEF Reclaim_DestroyPool_Commit, TypeOK
<1>3. ConfOK' BY <1>1 DEF Reclaim_DestroyPool_Commit, TypeOK, ConfOK, conf, CallOK, ReclaimPoints, States, ErasePool
<1>4. DbOK' BY <1>1, ConstantsAssumption DEF Reclaim_DestroyPool_Commit, TypeOK, DbOK, ConfOK, db, alloc, CallOK, ReclaimPoints, InRange, Entries, NodeIds, ErasePool, Batches
<1> QED BY <1>2, <1>3, <1>4 DEF TypeOK

LEMMA Type_Initialize_Begin ==
  ASSUME TypeOK, NEW t \in Threads, NEW n \in 0 .. MaxNodes, Initialize_Begin(t, n)
  PROVE  TypeOK'
<1>1. CallOK([pc |-> "initialize", saved |-> m_state])
  BY DEF TypeOK, ConfOK, CallOK, ReclaimPoints
<1>2. CallsOK' BY <1>1, GotoOK DEF Initialize_Begin, TypeOK
<1>3. m_state' \in States /\ numOfNodes' \in 0 .. MaxNodes
  BY DEF Initialize_Begin, TypeOK, ConfOK, States
<1>4. ConfOK' BY <1>3 DEF Initialize_Begin, TypeOK, ConfOK
<1>5. DbOK' BY DEF Initialize_Begin, TypeOK, DbOK, db, alloc
<1> QED BY <1>2, <1>4, <1>5 DEF TypeOK

LEMMA Type_Initialize_End ==
  ASSUME TypeOK, NEW t \in Threads, Initialize_End(t)
  PROVE  TypeOK'
<1>1. CallOK(th[t]) BY DEF TypeOK, CallsOK
<1>2. CallsOK' BY IdleOK, GotoOK DEF Initialize_End, Return, TypeOK
<1>3. m_state' \in States
  BY <1>1 DEF Initialize_End, CallOK, ReclaimPoints, States
<1>4. numEntries' \in Nat
  BY ConstantsAssumption DEF Initialize_End, TypeOK, ConfOK
<1>5. ConfOK' BY <1>3, <1>4 DEF Initialize_End, TypeOK, ConfOK
<1>6. poolCount' \in [Entries -> 0 .. (PoolCounterModulus - 1)]
  BY ConstantsAssumption DEF Initialize_End, TypeOK, DbOK
<1>7. DbOK' BY <1>6 DEF Initialize_End, TypeOK, DbOK, alloc
<1> QED BY <1>2, <1>5, <1>7 DEF TypeOK

LEMMA Type_DeInitialize_Begin ==
  ASSUME TypeOK, NEW t \in Threads, DeInitialize_Begin(t)
  PROVE  TypeOK'
<1>1. CallOK([pc |-> "deinit", handles |-> DOMAIN handleToNodeId, ok |-> TRUE])
  BY DEF TypeOK, ConfOK, CallOK, ReclaimPoints
<1>2. CallsOK' BY <1>1, GotoOK DEF DeInitialize_Begin, TypeOK
<1>3. ConfOK' BY DEF DeInitialize_Begin, TypeOK, ConfOK, conf, States
<1>4. DbOK' BY DEF DeInitialize_Begin, TypeOK, DbOK, db, alloc
<1> QED BY <1>2, <1>3, <1>4 DEF TypeOK

LEMMA Type_DeInitialize_End ==
  ASSUME TypeOK, NEW t \in Threads, DeInitialize_End(t)
  PROVE  TypeOK'
<1>1. CallsOK' BY IdleOK, GotoOK DEF DeInitialize_End, Return, TypeOK
<1>2. ConfOK' BY ConstantsAssumption DEF DeInitialize_End, TypeOK, ConfOK, States
<1> DEFINE left == numEntries - numOfNodes
           Kept(f, empty) == [i \in Entries |-> IF i < left THEN f[i] ELSE empty]
<1>3. left \in Nat BY DEF DeInitialize_End, TypeOK, ConfOK
<1>4. \A n \in left .. (MaxEntries - 1) : n \in Entries
  BY <1>3, ConstantsAssumption DEF Entries
<1>5. \A n \in Entries : Owned(n) \subseteq Buffers
  BY DEF TypeOK, DbOK, Owned, PoolBuffers
<1>6. lost' \subseteq Buffers
  <2>1. UNION {Owned(n) : n \in left .. (MaxEntries - 1)} \subseteq Buffers
    BY <1>4, <1>5
  <2>2. lost' = lost \cup UNION {Owned(n) : n \in left .. (MaxEntries - 1)}
    BY DEF DeInitialize_End
  <2> QED BY <2>1, <2>2 DEF TypeOK, DbOK
<1>7. /\ allocationSet' = Kept(allocationSet, {})
      /\ poolMap' = Kept(poolMap, {})
      /\ freeObjects' = Kept(freeObjects, [p \in PoolHandles |-> {}])
      /\ allocatedObjects' = Kept(allocatedObjects, [p \in PoolHandles |-> {}])
      /\ poolCount' = Kept(poolCount, 0)
  BY DEF DeInitialize_End
<1> HIDE DEF left
<1>8. /\ allocationSet' \in [Entries -> SUBSET Buffers]
      /\ poolMap' \in [Entries -> SUBSET PoolHandles]
  BY <1>7 DEF TypeOK, DbOK
<1>9. /\ freeObjects' \in [Entries -> [PoolHandles -> SUBSET Buffers]]
      /\ allocatedObjects' \in [Entries -> [PoolHandles -> SUBSET Buffers]]
  BY <1>7 DEF TypeOK, DbOK
<1>10. poolCount' \in [Entries -> 0 .. (PoolCounterModulus - 1)]
  BY <1>7, ConstantsAssumption DEF TypeOK, DbOK
<1>11. DbOK' BY <1>6, <1>8, <1>9, <1>10 DEF DeInitialize_End, TypeOK, DbOK
<1> QED BY <1>1, <1>2, <1>11 DEF TypeOK

LEMMA Type_Register_Commit ==
  ASSUME TypeOK, NEW t \in Threads, NEW r \in Rnd, Register_Commit(t, r)
  PROVE  TypeOK'
<1>1. CallOK(th[t]) BY DEF TypeOK, CallsOK
<1>2. CallsOK' BY IdleOK, GotoOK DEF Register_Commit, Return, TypeOK
<1> DEFINE h == <<Cardinality(DOMAIN handleToNodeId) + 1, r>>
<1>3. h \in Handles
  <2>1. Cardinality(DOMAIN handleToNodeId) \in Nat
    BY FS_CardinalityType DEF TypeOK, ConfOK
  <2> QED BY <2>1, ConstantsAssumption DEF Register_Commit, TypeOK, ConfOK, Handles
<1>4. th[t].id \in NodeIds BY <1>1 DEF Register_Commit, CallOK, ReclaimPoints
<1>5. CASE IsMemoryHandleRegistered(h)
  <2>1. ConfOK' BY <1>5 DEF Register_Commit, TypeOK, ConfOK, conf, States
  <2>2. DbOK' BY DEF Register_Commit, TypeOK, DbOK, db, alloc
  <2> QED BY <1>2, <2>1, <2>2 DEF TypeOK
<1>6. CASE ~IsMemoryHandleRegistered(h)
  <2>1. /\ handleToNodeId' = [k \in DOMAIN handleToNodeId \cup {h} |->
                                IF k = h THEN th[t].id ELSE handleToNodeId[k]]
        /\ UNCHANGED <<m_state, conf, m_multiThreadLock, fault>>
    BY <1>6 DEF Register_Commit
  <2> HIDE DEF h
  <2>2. IsFiniteSet(DOMAIN handleToNodeId \cup {h})
    BY FS_AddElement DEF TypeOK, ConfOK
  <2>3. ConfOK' BY <1>3, <1>4, <2>1, <2>2 DEF TypeOK, ConfOK, conf
  <2>4. DbOK' BY DEF Register_Commit, TypeOK, DbOK, db, alloc
  <2> QED BY <1>2, <2>3, <2>4 DEF TypeOK
<1> QED BY <1>5, <1>6

LEMMA Type_UnRegister_Erase ==
  ASSUME TypeOK, NEW t \in Threads, UnRegister_Erase(t)
  PROVE  TypeOK'
<1>a. CallOK([pc |-> "writeback", saved |-> "READY"])
  BY DEF CallOK, ReclaimPoints, States
<1>1. CallsOK' BY <1>a, GotoOK DEF UnRegister_Erase, TypeOK
<1>2. IsFiniteSet(DOMAIN handleToNodeId \ {th[t].h})
  BY FS_Subset DEF TypeOK, ConfOK
<1>3. ConfOK' BY <1>2 DEF UnRegister_Erase, TypeOK, ConfOK, conf, States
<1>4. DbOK' BY DEF UnRegister_Erase, TypeOK, DbOK, db, alloc
<1> QED BY <1>1, <1>3, <1>4 DEF TypeOK

LEMMA RefusedOK == TypeOK => CallOK([pc |-> "writeback", saved |-> m_state])
BY DEF TypeOK, ConfOK, CallOK, ReclaimPoints

LEMMA Type_UnRegister_Check ==
  ASSUME TypeOK, NEW t \in Threads, NEW h \in Handles, UnRegister_Check(t, h)
  PROVE  TypeOK'
<1>1. m_state' \in States BY DEF UnRegister_Check, TypeOK, ConfOK
<1>2. CallOK([pc |-> "reclaim", h |-> h, caller |-> "UnRegister", handles |-> {}, ok |-> TRUE])
  BY DEF CallOK, ReclaimPoints
<1> QED BY <1>1, <1>2, RefusedOK, CallStep DEF UnRegister_Check, Refused

LEMMA Type_AllocateBuffer_Lookup ==
  ASSUME TypeOK, NEW t \in Threads, NEW h \in Handles, AllocateBuffer_Lookup(t, h)
  PROVE  TypeOK'
<1>1. m_state' \in States BY DEF AllocateBuffer_Lookup, TypeOK, ConfOK
<1>2. IsMemoryHandleRegistered(h) =>
        CallOK([pc |-> "alloc", n |-> handleToNodeId[h], saved |-> m_state])
  BY DEF CallOK, ReclaimPoints, IsMemoryHandleRegistered, TypeOK, ConfOK
<1> QED BY <1>1, <1>2, RefusedOK, CallStep DEF AllocateBuffer_Lookup, Refused

LEMMA Type_CreatePool_Lookup ==
  ASSUME TypeOK, NEW t \in Threads, NEW h \in Handles, CreatePool_Lookup(t, h)
  PROVE  TypeOK'
<1>1. m_state' \in States BY DEF CreatePool_Lookup, TypeOK, ConfOK
<1>2. IsMemoryHandleRegistered(h) =>
        CallOK([pc |-> "create", h |-> h, n |-> handleToNodeId[h], saved |-> m_state])
  BY DEF CallOK, ReclaimPoints, IsMemoryHandleRegistered, TypeOK, ConfOK
<1> QED BY <1>1, <1>2, RefusedOK, CallStep DEF CreatePool_Lookup, Refused

LEMMA Type_Reclaim_Lookup ==
  ASSUME TypeOK, NEW t \in Threads, Reclaim_Lookup(t)
  PROVE  TypeOK'
<1>1. CallOK(th[t]) BY DEF TypeOK, CallsOK
<1> DEFINE known == IsMemoryHandleRegistered(th[t].h)
           c == [pc      |-> IF known THEN "copyBuffers" ELSE "reclaimed",
                 h       |-> th[t].h,
                 caller  |-> th[t].caller,
                 handles |-> th[t].handles,
                 ok      |-> known /\ th[t].ok,
                 saved   |-> m_state,
                 n       |-> IF known THEN handleToNodeId[th[t].h] ELSE 0,
                 todo    |-> {}]
<1>2. (IF known THEN handleToNodeId[th[t].h] ELSE 0) \in NodeIds
  BY ConstantsAssumption DEF TypeOK, ConfOK, IsMemoryHandleRegistered, NodeIds
<1>3. CallOK(c)
  BY <1>1, <1>2 DEF CallOK, ReclaimPoints, Reclaim_Lookup, TypeOK, ConfOK
<1>4. Goto(t, c) BY DEF Reclaim_Lookup
<1>5. m_state' \in States BY DEF Reclaim_Lookup, States
<1> HIDE DEF c
<1> QED BY <1>3, <1>4, <1>5, CallStep DEF Reclaim_Lookup

LEMMA Type_Reclaim_FreeBuffer_Lookup ==
  ASSUME TypeOK, NEW t \in Threads, NEW b \in Buffers, Reclaim_FreeBuffer_Lookup(t, b)
  PROVE  TypeOK'
<1>1. CallOK(th[t]) BY DEF TypeOK, CallsOK
<1> DEFINE c == [pc |-> "freeBuffer", h |-> th[t].h, caller |-> th[t].caller,
                 handles |-> th[t].handles, ok |-> th[t].ok, saved |-> th[t].saved,
                 n |-> th[t].n, todo |-> th[t].todo \ {b},
                 x |-> b, m |-> handleToNodeId[th[t].h]]
           d == ReclaimAt(t, th[t].pc, th[t].todo \ {b}, FALSE)
<1>2. th[t].pc = "freeBuffers" BY DEF Reclaim_FreeBuffer_Lookup
<1>3. IsMemoryHandleRegistered(th[t].h) => CallOK(c)
  BY <1>1, <1>2 DEF CallOK, ReclaimPoints, TypeOK, ConfOK, IsMemoryHandleRegistered
<1>4. CallOK(d)
  BY <1>1, <1>2 DEF CallOK, ReclaimPoints, ReclaimAt, States
<1>5. m_state' \in States BY DEF Reclaim_FreeBuffer_Lookup, TypeOK, ConfOK
<1>6. (IsMemoryHandleRegistered(th[t].h) /\ Goto(t, c)) \/ Goto(t, d)
  BY DEF Reclaim_FreeBuffer_Lookup, ReleaseLookup
<1> HIDE DEF c, d
<1> QED BY <1>3, <1>4, <1>5, <1>6, CallStep DEF Reclaim_FreeBuffer_Lookup

LEMMA Type_Reclaim_DestroyPool_Lookup ==
  ASSUME TypeOK, NEW t \in Threads, NEW p \in PoolHandles, Reclaim_DestroyPool_Lookup(t, p)
  PROVE  TypeOK'
<1>1. CallOK(th[t]) BY DEF TypeOK, CallsOK
<1> DEFINE c == [pc |-> "destroyPool", h |-> th[t].h, caller |-> th[t].caller,
                 handles |-> th[t].handles, ok |-> th[t].ok, saved |-> th[t].saved,
                 n |-> th[t].n, todo |-> th[t].todo \ {p},
                 x |-> p, m |-> handleToNodeId[p[1]]]
           d == ReclaimAt(t, th[t].pc, th[t].todo \ {p}, FALSE)
<1>2. th[t].pc = "destroyPools" BY DEF Reclaim_DestroyPool_Lookup
<1>3. IsMemoryHandleRegistered(p[1]) => CallOK(c)
  BY <1>1, <1>2 DEF CallOK, ReclaimPoints, TypeOK, ConfOK, IsMemoryHandleRegistered
<1>4. CallOK(d)
  BY <1>1, <1>2 DEF CallOK, ReclaimPoints, ReclaimAt, States
<1>5. m_state' \in States BY DEF Reclaim_DestroyPool_Lookup, TypeOK, ConfOK
<1>6. (IsMemoryHandleRegistered(p[1]) /\ Goto(t, c)) \/ Goto(t, d)
  BY DEF Reclaim_DestroyPool_Lookup, ReleaseLookup
<1> HIDE DEF c, d
<1> QED BY <1>3, <1>4, <1>5, <1>6, CallStep DEF Reclaim_DestroyPool_Lookup

LEMMA Type_Reclaim_End ==
  ASSUME TypeOK, NEW t \in Threads, Reclaim_End(t)
  PROVE  TypeOK'
<1>1. CallOK(th[t]) BY DEF TypeOK, CallsOK
<1>2. m_state' \in States BY <1>1 DEF Reclaim_End, CallOK, ReclaimPoints
<1>3. th[t].caller \in {"client", "UnRegister", "DeInitialize"}
  BY <1>1 DEF Reclaim_End, CallOK, ReclaimPoints
<1>4. CASE th[t].caller = "client"
  <2>1. Goto(t, Idle) BY <1>4 DEF Reclaim_End
  <2> QED BY <1>2, <2>1, IdleOK, CallStep DEF Reclaim_End
<1>5. CASE th[t].caller = "UnRegister"
  <2> DEFINE c == [pc |-> "unregister", h |-> th[t].h, ok |-> th[t].ok]
  <2>1. Goto(t, c) BY <1>5 DEF Reclaim_End
  <2>2. CallOK(c) BY <1>1 DEF Reclaim_End, CallOK, ReclaimPoints
  <2> HIDE DEF c
  <2> QED BY <1>2, <2>1, <2>2, CallStep DEF Reclaim_End
<1>6. CASE th[t].caller = "DeInitialize"
  <2> DEFINE c == [pc |-> "deinit", handles |-> th[t].handles, ok |-> th[t].ok]
  <2>1. Goto(t, c) BY <1>6 DEF Reclaim_End
  <2>2. CallOK(c) BY <1>1 DEF Reclaim_End, CallOK, ReclaimPoints
  <2> HIDE DEF c
  <2> QED BY <1>2, <2>1, <2>2, CallStep DEF Reclaim_End
<1> QED BY <1>3, <1>4, <1>5, <1>6

LEMMA Type_UndefinedAccess ==
  ASSUME TypeOK, NEW t \in Threads, UndefinedAccess(t)
  PROVE  TypeOK'
<1>1. CallsOK'
  <2>1. th' = [u \in Threads |-> Idle] BY DEF UndefinedAccess, Undefined
  <2> QED BY <2>1, IdleOK DEF CallsOK, CallOK
<1>2. ConfOK' BY DEF UndefinedAccess, Undefined, TypeOK, ConfOK, conf
<1>3. DbOK' BY DEF UndefinedAccess, Undefined, TypeOK, DbOK, db, alloc
<1> QED BY <1>1, <1>2, <1>3 DEF TypeOK

LEMMA TypeStep == TypeOK /\ [Next]_vars => TypeOK'
<1> SUFFICES ASSUME TypeOK, [Next]_vars PROVE TypeOK'
  OBVIOUS
<1>1. ASSUME NEW t \in Threads, Call(t) PROVE TypeOK'
  BY <1>1,
      Type_Register_Check, Type_FreeBuffer_Lookup, Type_DestroyPool_Lookup,
      Type_AllocateBufferFromPool_Lookup, Type_PutBufferToPool_Lookup,
      Type_ReclaimResources, Type_Initialize_Begin, Type_DeInitialize_Begin,
      Type_UnRegister_Check, Type_AllocateBuffer_Lookup, Type_CreatePool_Lookup
     DEF Call
<1>2. ASSUME NEW t \in Threads, Continue(t) PROVE TypeOK'
  BY <1>2,
      Type_Initialize_End, Type_DeInitialize_Next, Type_Register_Refuse, Type_WriteBack,
      Type_UnRegister_Fail, Type_AllocateBuffer_Fail, Type_FreeBuffer_Refuse,
      Type_CreatePool_Full, Type_DestroyPool_Refuse, Type_AllocateBufferFromPool_Refuse,
      Type_PutBufferToPool_Refuse, Type_Reclaim_CopyBuffers, Type_Reclaim_BuffersDone,
      Type_Reclaim_CopyPools, Type_Reclaim_FreeBuffer_Refuse,
      Type_Reclaim_DestroyPool_Refuse, Type_AllocateBuffer_Commit,
      Type_FreeBuffer_Commit, Type_CreatePool_Commit, Type_CreatePool_InitFail,
      Type_CreatePool_Collide, Type_CreatePool_InitRefuse, Type_DestroyPool_Commit,
      Type_AllocateBufferFromPool_Commit, Type_PutBufferToPool_Commit,
      Type_Reclaim_FreeBuffer_Commit, Type_Reclaim_DestroyPool_Commit,
      Type_DeInitialize_End, Type_Register_Commit, Type_UnRegister_Erase,
      Type_Reclaim_Lookup, Type_Reclaim_FreeBuffer_Lookup,
      Type_Reclaim_DestroyPool_Lookup, Type_Reclaim_End, Type_UndefinedAccess
     DEF Continue
<1>3. CASE UNCHANGED vars
  BY <1>3 DEF vars, conf, db, alloc, TypeOK, ConfOK, DbOK, CallsOK
<1> QED BY <1>1, <1>2, <1>3 DEF Next, Crashed

LEMMA TypeInit == Init => TypeOK
<1> SUFFICES ASSUME Init PROVE TypeOK
  OBVIOUS
<1>1. CallsOK BY IdleOK DEF Init, CallsOK
<1>2. DOMAIN handleToNodeId = {} BY DEF Init, NoHandles
<1>3. IsFiniteSet(DOMAIN handleToNodeId) BY <1>2, FS_EmptySet
<1>4. /\ m_state \in States /\ m_multiThreadLock \in Threads \cup {NoThread} /\ fault \in BOOLEAN
      /\ numOfNodes = 0 /\ numEntries = 0
  BY DEF Init, States
<1>5. ConfOK
  <2>1. numOfNodes \in 0 .. MaxNodes /\ numEntries \in Nat
    BY <1>4, ConstantsAssumption
  <2>2. \A h \in DOMAIN handleToNodeId : handleToNodeId[h] \in NodeIds
    BY <1>2
  <2>3. DOMAIN handleToNodeId \subseteq Handles BY <1>2
  <2> QED BY <1>3, <1>4, <2>1, <2>2, <2>3 DEF ConfOK
<1>6. DbOK BY ConstantsAssumption DEF Init, DbOK
<1> QED BY <1>1, <1>5, <1>6 DEF TypeOK

\* Every reachable state of the manager is well-typed, for any number of
\* threads, nodes, buffers and handles; in particular the node index each
\* method carries from its lookup to its commit is one that was registered.
THEOREM TypeCorrect == Spec => []TypeOK
BY TypeInit, TypeStep, PTL DEF Spec

----------------------------------------------------------------------------
(* The registry.                                                           *)

LEMMA RegistryStep ==
  ASSUME RegistryInjective, [Next]_vars
  PROVE  RegistryInjective'
<1>1. CASE UNCHANGED handleToNodeId
  BY <1>1 DEF RegistryInjective
<1>2. ASSUME NEW t \in Threads, NEW r \in Rnd, Register_Commit(t, r)
      PROVE  RegistryInjective'
  <2> DEFINE h == <<Cardinality(DOMAIN handleToNodeId) + 1, r>>
  <2>1. \A k \in DOMAIN handleToNodeId : handleToNodeId[k] # th[t].id
    BY <1>2 DEF Register_Commit, IsNodeIdUnique
  <2>2. \/ UNCHANGED handleToNodeId
        \/ handleToNodeId' = [k \in DOMAIN handleToNodeId \cup {h} |->
                                IF k = h THEN th[t].id ELSE handleToNodeId[k]]
    BY <1>2 DEF Register_Commit
  <2> HIDE DEF h
  <2> QED BY <2>1, <2>2 DEF RegistryInjective
<1>3. ASSUME NEW t \in Threads, UnRegister_Erase(t)
      PROVE  RegistryInjective'
  BY <1>3 DEF UnRegister_Erase, RegistryInjective
<1>4. ASSUME NEW t \in Threads, Call(t) PROVE UNCHANGED handleToNodeId
  BY <1>4 DEF Call, Initialize_Begin, DeInitialize_Begin, Register_Check, UnRegister_Check,
     AllocateBuffer_Lookup, FreeBuffer_Lookup, CreatePool_Lookup, ReclaimResources,
     DestroyPool_Lookup, AllocateBufferFromPool_Lookup, PutBufferToPool_Lookup,
     PoolOp_Lookup
<1>5. ASSUME NEW t \in Threads, Continue(t)
      PROVE  \/ UNCHANGED handleToNodeId
             \/ \E r \in Rnd : Register_Commit(t, r)
             \/ UnRegister_Erase(t)
  BY <1>5 DEF Continue, Initialize_End, DeInitialize_Next, DeInitialize_End, Register_Refuse, WriteBack,
     UnRegister_Fail, AllocateBuffer_Commit, AllocateBuffer_Fail, FreeBuffer_Commit,
     FreeBuffer_Refuse, CreatePool_Commit, CreatePool_InitFail, CreatePool_Collide,
     CreatePool_InitRefuse, CreatePool_Full, DestroyPool_Commit, DestroyPool_Refuse,
     AllocateBufferFromPool_Commit, AllocateBufferFromPool_Refuse,
     PutBufferToPool_Commit, PutBufferToPool_Refuse, Reclaim_Lookup,
     Reclaim_CopyBuffers, Reclaim_BuffersDone, Reclaim_CopyPools,
     Reclaim_FreeBuffer_Lookup, Reclaim_FreeBuffer_Commit, Reclaim_FreeBuffer_Refuse,
     Reclaim_DestroyPool_Lookup, Reclaim_DestroyPool_Commit, Reclaim_DestroyPool_Refuse,
     Reclaim_End, UndefinedAccess, Undefined
<1>6. CASE UNCHANGED vars \/ Crashed
  BY <1>1, <1>6 DEF vars, Crashed
<1> QED BY <1>1, <1>2, <1>3, <1>4, <1>5, <1>6 DEF Next

\* Two handles never name one node entry: Register's check of the id and its
\* insertion are one critical section, which no interleaving comes between.
THEOREM RegistryIsInjective == Spec => []RegistryInjective
<1>1. Init => RegistryInjective
  BY DEF Init, NoHandles, RegistryInjective
<1> QED BY <1>1, RegistryStep, PTL DEF Spec

----------------------------------------------------------------------------
(* Clients that serialise the lifecycle calls and unregister their nodes   *)
(* before DeInitialize.                                                    *)

Lifecycle == {"initialize", "deinit"}
\* The program points at which a method indexes the data base later on.
Indexing  == {"alloc", "free", "create", "destroy", "get", "put", "copyBuffers",
              "freeBuffers", "freeBuffer", "copyPools", "destroyPools", "destroyPool"}
Saving    == {"initialize", "alloc", "create", "writeback"} \cup (ReclaimPoints \ {"reclaim"})

\* What a call holds: an index that exists, and no state of a lifecycle call.
CallFits(c) ==
  /\ c.pc = "register" => c.id < numEntries
  /\ c.pc \in Indexing => c.n < numEntries
  /\ c.pc \in {"freeBuffer", "destroyPool"} => c.m < numEntries
  /\ c.pc \in Saving => c.saved # "INITIALIZING"
  /\ c.pc \in ReclaimPoints => c.caller # "DeInitialize"
  /\ c.pc = "deinit" => c.handles = {} /\ m_state # "INITIALIZING"

\* A lifecycle call is alone.
Alone ==
  \A t \in Threads :
    /\ th[t].pc \in Lifecycle => m_multiThreadLock = t
    /\ m_multiThreadLock = t => /\ th[t].pc \in Lifecycle
                                /\ \A u \in Threads \ {t} : th[u].pc = "idle"
    /\ th[t].pc = "deinit" => DOMAIN handleToNodeId = {}

RegistryFits == \A h \in DOMAIN handleToNodeId : handleToNodeId[h] < numEntries

Sized ==
  /\ m_state = "INITIALIZING" => m_multiThreadLock # NoThread
  /\ numOfNodes <= numEntries \/ m_state = "INITIALIZING"

DisciplineInv ==
  /\ ~fault /\ Alone /\ RegistryFits /\ Sized
  /\ \A t \in Threads : CallFits(th[t])

Disciplined == LifecycleExclusive /\ UnregisterFirst

\* A call that is not one of the lifecycle begins, goes on or returns.
LEMMA PlainStep ==
  ASSUME TypeOK, DisciplineInv, NEW t \in Threads, NEW c, Goto(t, c),
         m_multiThreadLock = NoThread, c.pc \notin Lifecycle,
         UNCHANGED <<conf, m_multiThreadLock, fault>>,
         m_state' # "INITIALIZING", RegistryFits', CallFits(c)
  PROVE  DisciplineInv'
<1>1. th' = [u \in Threads |-> IF u = t THEN c ELSE th[u]]
  BY DEF Goto, TypeOK, CallsOK
<1>2. /\ numEntries' = numEntries /\ numOfNodes' = numOfNodes
      /\ m_multiThreadLock' = NoThread /\ fault' = fault
  BY DEF conf
<1>3. ASSUME NEW u \in Threads
      PROVE  CallFits(th[u])' /\ th'[u].pc \notin Lifecycle
  <2>1. th[u].pc \notin Lifecycle /\ CallFits(th[u])
    BY ConstantsAssumption DEF DisciplineInv, Alone
  <2>2. th'[u] = c \/ th'[u] = th[u]
    BY <1>1
  <2> QED BY <1>2, <2>1, <2>2 DEF CallFits
<1>4. Alone'
  BY <1>2, <1>3, ConstantsAssumption DEF Alone, Lifecycle
<1>5. Sized'
  BY <1>2 DEF Sized, DisciplineInv
<1> QED BY <1>2, <1>3, <1>4, <1>5 DEF DisciplineInv

LEMMA IdleFits == CallFits(Idle) /\ Idle.pc \notin Lifecycle
BY DEF CallFits, Idle, Indexing, Saving, ReclaimPoints, Lifecycle

\* Outside the lifecycle calls nobody holds the lock, and the sizes agree.
LEMMA Unlocked ==
  ASSUME TypeOK, DisciplineInv, NEW t \in Threads,
         (Disciplined /\ MayCall(t)) \/ th[t].pc \notin Lifecycle \cup {"idle"}
  PROVE  /\ m_multiThreadLock = NoThread
         /\ m_state # "INITIALIZING"
         /\ numOfNodes <= numEntries
         /\ numOfNodes \in Nat /\ numEntries \in Nat
<1>1. m_multiThreadLock = NoThread
  BY DEF MayCall, Disciplined, DisciplineInv, Alone, TypeOK, ConfOK
<1> QED BY <1>1, ConstantsAssumption DEF DisciplineInv, Sized, TypeOK, ConfOK

\* Thread t goes on with a call that fits, or with none.
Fitting(t) == \E c : Goto(t, c) /\ c.pc \notin Lifecycle /\ CallFits(c)

LEMMA Discipline_Call ==
  ASSUME TypeOK, DisciplineInv, Disciplined, NEW t \in Threads, Call(t),
         ~DeInitialize_Begin(t), ~\E n \in 0 .. MaxNodes : Initialize_Begin(t, n)
  PROVE  DisciplineInv'
<1>1. MayCall(t)
  BY DEF Call, Register_Check, UnRegister_Check, AllocateBuffer_Lookup, FreeBuffer_Lookup,
     CreatePool_Lookup, ReclaimResources, DestroyPool_Lookup,
     AllocateBufferFromPool_Lookup, PutBufferToPool_Lookup, PoolOp_Lookup
<1>2. /\ m_multiThreadLock = NoThread /\ m_state # "INITIALIZING"
      /\ numOfNodes <= numEntries /\ numOfNodes \in Nat /\ numEntries \in Nat
  BY <1>1, Unlocked
<1>3. UNCHANGED <<m_state, conf, handleToNodeId, m_multiThreadLock, fault>>
  BY DEF Call, Register_Check, UnRegister_Check, AllocateBuffer_Lookup, FreeBuffer_Lookup,
     CreatePool_Lookup, ReclaimResources, DestroyPool_Lookup,
     AllocateBufferFromPool_Lookup, PutBufferToPool_Lookup, PoolOp_Lookup
<1>4. RegistryFits /\ RegistryFits'
  BY <1>3 DEF DisciplineInv, RegistryFits, conf
<1>5. Fitting(t)
  <2> USE DEF Fitting, CallFits, Indexing, Saving, ReclaimPoints, Lifecycle
  <2>1. CASE Refused(t)
    BY <1>2, <2>1 DEF Refused
  <2>2. ASSUME NEW id \in NodeIds, Register_Check(t, id) PROVE Fitting(t)
    BY <1>2, <2>2 DEF Register_Check, NodeIds
  <2>3. ASSUME NEW h \in Handles, UnRegister_Check(t, h) PROVE Fitting(t)
    BY <2>1, <2>3 DEF UnRegister_Check
  <2>4. ASSUME NEW h \in Handles, AllocateBuffer_Lookup(t, h) PROVE Fitting(t)
    BY <1>2, <1>4, <2>1, <2>4
    DEF AllocateBuffer_Lookup, RegistryFits, IsMemoryHandleRegistered
  <2>5. ASSUME NEW h \in Handles, NEW b \in Buffers, FreeBuffer_Lookup(t, h, b) PROVE Fitting(t)
    BY <1>4, <2>5 DEF FreeBuffer_Lookup, RegistryFits, IsMemoryHandleRegistered
  <2>6. ASSUME NEW h \in Handles, CreatePool_Lookup(t, h) PROVE Fitting(t)
    BY <1>2, <1>4, <2>1, <2>6
    DEF CreatePool_Lookup, RegistryFits, IsMemoryHandleRegistered
  <2>7. ASSUME NEW h \in Handles, ReclaimResources(t, h) PROVE Fitting(t)
    BY <2>7 DEF ReclaimResources
  <2>8. ASSUME NEW p \in PoolHandles,
               DestroyPool_Lookup(t, p) \/ AllocateBufferFromPool_Lookup(t, p)
        PROVE  Fitting(t)
    BY <1>4, <2>8 DEF DestroyPool_Lookup, AllocateBufferFromPool_Lookup, PoolOp_Lookup,
       RegistryFits, IsMemoryHandleRegistered
  <2>9. ASSUME NEW p \in PoolHandles, NEW b \in Buffers, PutBufferToPool_Lookup(t, p, b)
        PROVE  Fitting(t)
    BY <1>4, <2>9 DEF PutBufferToPool_Lookup, PoolOp_Lookup, RegistryFits,
       IsMemoryHandleRegistered
  <2> QED BY <2>2, <2>3, <2>4, <2>5, <2>6, <2>7, <2>8, <2>9 DEF Call
<1> QED BY <1>2, <1>3, <1>4, <1>5, PlainStep DEF Fitting

\* The steps inside a method that is not a lifecycle call.
Inside(t) ==
  \/ \E r \in Rnd : Register_Commit(t, r)
  \/ Register_Refuse(t) \/ WriteBack(t) \/ UnRegister_Fail(t) \/ UnRegister_Erase(t)
  \/ \E b \in Buffers : AllocateBuffer_Commit(t, b)
  \/ \E general \in BOOLEAN : AllocateBuffer_Fail(t, general)
  \/ \E fails \in BOOLEAN : FreeBuffer_Commit(t, fails)
  \/ FreeBuffer_Refuse(t)
  \/ \E r \in Rnd :
       \/ \E S \in Batches :
            \/ CreatePool_Commit(t, r, S)
            \/ CreatePool_InitFail(t, r, S)
            \/ CreatePool_InitRefuse(t, r, S)
       \/ CreatePool_Collide(t, r)
  \/ CreatePool_Full(t)
  \/ \E F \in Batches : DestroyPool_Commit(t, F)
  \/ DestroyPool_Refuse(t)
  \/ \E b \in Buffers : AllocateBufferFromPool_Commit(t, b)
  \/ AllocateBufferFromPool_Refuse(t)
  \/ PutBufferToPool_Commit(t) \/ PutBufferToPool_Refuse(t)
Reclaiming(t) ==
  \/ Reclaim_Lookup(t)
  \/ Reclaim_CopyBuffers(t) \/ Reclaim_BuffersDone(t) \/ Reclaim_CopyPools(t)
  \/ \E b \in Buffers : Reclaim_FreeBuffer_Lookup(t, b)
  \/ \E fails \in BOOLEAN : Reclaim_FreeBuffer_Commit(t, fails)
  \/ Reclaim_FreeBuffer_Refuse(t)
  \/ \E p \in PoolHandles : Reclaim_DestroyPool_Lookup(t, p)
  \/ \E F \in Batches : Reclaim_DestroyPool_Commit(t, F)
  \/ Reclaim_DestroyPool_Refuse(t) \/ Reclaim_End(t)

LEMMA Discipline_Inside ==
  ASSUME TypeOK, DisciplineInv, NEW t \in Threads, Inside(t)
  PROVE  DisciplineInv'
<1> USE DEF Register_Commit, Register_Refuse, WriteBack, UnRegister_Fail, UnRegister_Erase,
        AllocateBuffer_Commit, AllocateBuffer_Fail, FreeBuffer_Commit, FreeFromSet,
        FreeBuffer_Refuse, TakePoolNumber, CreatePool_Commit, CreatePool_InitFail,
        CreatePool_Collide, CreatePool_InitRefuse, CreatePool_Full, DestroyPool_Commit,
        DestroyPool_Refuse, AllocateBufferFromPool_Commit, AllocateBufferFromPool_Refuse,
        PutBufferToPool_Commit, PutBufferToPool_Refuse
<1>1. /\ th[t].pc \in {"register", "writeback", "unregister", "alloc", "free", "create",
                       "destroy", "get", "put"}
      /\ UNCHANGED <<conf, m_multiThreadLock, fault>>
  BY DEF Inside
<1>2. CallFits(th[t])
  BY DEF DisciplineInv
<1>3. /\ m_multiThreadLock = NoThread /\ m_state # "INITIALIZING"
      /\ numEntries \in Nat
  BY <1>1, Unlocked DEF Lifecycle
<1>4. m_state' # "INITIALIZING"
  BY <1>2, <1>3 DEF Inside, CallFits, Saving
<1>5. RegistryFits'
  <2>1. CASE UNCHANGED handleToNodeId
    BY <1>1, <2>1 DEF DisciplineInv, RegistryFits, conf
  <2>2. ASSUME NEW r \in Rnd, Register_Commit(t, r) PROVE RegistryFits'
    BY <1>1, <1>2, <2>1, <2>2 DEF DisciplineInv, RegistryFits, conf, CallFits
  <2>3. CASE UnRegister_Erase(t)
    BY <1>1, <2>3 DEF DisciplineInv, RegistryFits, conf
  <2> QED BY <2>1, <2>2, <2>3 DEF Inside
<1>6. CASE Return(t)
  BY <1>1, <1>3, <1>4, <1>5, <1>6, IdleFits, PlainStep DEF Return
<1>7. CASE UnRegister_Erase(t)
  <2>1. PICK c : c = [pc |-> "writeback", saved |-> "READY"]
    OBVIOUS
  <2>2. Goto(t, c) /\ c.pc \notin Lifecycle /\ CallFits(c)
    BY <1>7, <2>1 DEF CallFits, Indexing, Saving, ReclaimPoints, Lifecycle
  <2> QED BY <1>1, <1>3, <1>4, <1>5, <2>2, PlainStep
<1> QED BY <1>6, <1>7 DEF Inside

\* A step of ReclaimResources that does not end it.
LEMMA Discipline_Reclaiming ==
  ASSUME TypeOK, DisciplineInv, NEW t \in Threads, Reclaiming(t)
  PROVE  DisciplineInv'
<1> USE DEF Reclaim_Lookup, Reclaim_CopyBuffers, Reclaim_BuffersDone, Reclaim_CopyPools,
        Reclaim_FreeBuffer_Lookup, Reclaim_FreeBuffer_Commit, Reclaim_FreeBuffer_Refuse,
        Reclaim_DestroyPool_Lookup, Reclaim_DestroyPool_Commit,
        Reclaim_DestroyPool_Refuse, Reclaim_End
<1>1. /\ th[t].pc \in ReclaimPoints
      /\ UNCHANGED <<conf, handleToNodeId, m_multiThreadLock, fault>>
  BY DEF Reclaiming, ReclaimPoints
<1>2. CallFits(th[t]) /\ CallOK(th[t])
  BY DEF DisciplineInv, TypeOK, CallsOK
<1>3. /\ m_multiThreadLock = NoThread /\ m_state # "INITIALIZING"
      /\ numEntries \in Nat
  BY <1>1, Unlocked DEF Lifecycle, ReclaimPoints
<1>4. m_state' # "INITIALIZING"
  BY <1>2, <1>3 DEF Reclaiming, FreeFromSet, CallFits, Saving, ReclaimPoints
<1>5. RegistryFits /\ RegistryFits'
  BY <1>1 DEF DisciplineInv, RegistryFits, conf
<1>6. Fitting(t)
  <2> USE DEF CallFits, Indexing, Saving, ReclaimPoints, Lifecycle
  <2>1. CASE Reclaim_Lookup(t)
    BY <1>2, <1>3, <1>5, <2>1 DEF Fitting, RegistryFits, IsMemoryHandleRegistered
  <2>2. CASE \/ Reclaim_CopyBuffers(t) \/ Reclaim_BuffersDone(t) \/ Reclaim_CopyPools(t)
             \/ \E fails \in BOOLEAN : Reclaim_FreeBuffer_Commit(t, fails)
             \/ Reclaim_FreeBuffer_Refuse(t)
             \/ \E F \in Batches : Reclaim_DestroyPool_Commit(t, F)
             \/ Reclaim_DestroyPool_Refuse(t)
    <3>1. ASSUME NEW pc \in {"freeBuffers", "copyPools", "destroyPools"}, NEW todo,
                 NEW good \in BOOLEAN, th[t].pc \in Indexing, Goto(t, ReclaimAt(t, pc, todo, good))
          PROVE  Fitting(t)
      BY <1>1, <1>2, <3>1 DEF Fitting, ReclaimAt
    <3>2. CASE Reclaim_CopyBuffers(t)
      <4>1. Goto(t, ReclaimAt(t, "freeBuffers", allocationSet[th[t].n], TRUE))
        BY <3>2
      <4> QED BY <3>1, <3>2, <4>1
    <3>3. CASE Reclaim_BuffersDone(t)
      <4>1. Goto(t, ReclaimAt(t, "copyPools", {}, TRUE))
        BY <3>3
      <4> QED BY <3>1, <3>3, <4>1
    <3>4. CASE Reclaim_CopyPools(t)
      <4>1. Goto(t, ReclaimAt(t, "destroyPools", poolMap[th[t].n], TRUE))
        BY <3>4
      <4> QED BY <3>1, <3>4, <4>1
    <3>5. ASSUME NEW fails \in BOOLEAN,
                 Reclaim_FreeBuffer_Commit(t, fails) \/ Reclaim_FreeBuffer_Refuse(t)
          PROVE  Fitting(t)
      <4>1. \E good \in BOOLEAN : Goto(t, ReclaimAt(t, "freeBuffers", th[t].todo, good))
        BY <3>5
      <4>2. th[t].pc \in Indexing
        BY <3>5
      <4> QED BY <3>1, <4>1, <4>2
    <3>6. ASSUME NEW F \in Batches,
                 Reclaim_DestroyPool_Commit(t, F) \/ Reclaim_DestroyPool_Refuse(t)
          PROVE  Fitting(t)
      <4>1. \E good \in BOOLEAN : Goto(t, ReclaimAt(t, "destroyPools", th[t].todo, good))
        BY <3>6
      <4>2. th[t].pc \in Indexing
        BY <3>6
      <4> QED BY <3>1, <4>1, <4>2
    <3>7. {} \in Batches
      BY FS_EmptySet, ConstantsAssumption DEF Batches
    <3> QED BY ONLY <2>2, <3>2, <3>3, <3>4, <3>5, <3>6, <3>7
  <2>3. ASSUME NEW x, NEW h, NEW next, ReleaseLookup(t, x, h, next),
               \/ th[t].pc = "freeBuffers" /\ next = "freeBuffer"
               \/ th[t].pc = "destroyPools" /\ next = "destroyPool"
        PROVE  Fitting(t)
    BY <1>2, <1>5, <2>3 DEF Fitting, ReclaimAt, RegistryFits, IsMemoryHandleRegistered, ReleaseLookup
  <2>4. CASE Reclaim_End(t)
    BY <1>2, <2>4, IdleFits DEF Fitting, CallOK
  <2> QED BY <2>1, <2>2, <2>3, <2>4 DEF Reclaiming
<1> QED BY <1>1, <1>3, <1>4, <1>5, <1>6, PlainStep DEF Fitting

\* A lifecycle call begins when all other threads are idle, and ends.
LEMMA Discipline_Begin ==
  ASSUME TypeOK, DisciplineInv, Disciplined, NEW t \in Threads,
         DeInitialize_Begin(t) \/ \E n \in 0 .. MaxNodes : Initialize_Begin(t, n)
  PROVE  DisciplineInv'
<1>1. PICK c : /\ Goto(t, c) /\ c.pc \in Lifecycle
               /\ c.pc = "initialize" => c.saved = m_state
               /\ c.pc = "deinit" => c.handles = DOMAIN handleToNodeId /\ c.handles = {}
               /\ c.pc = "deinit" => m_state' # "INITIALIZING"
  BY DEF DeInitialize_Begin, Initialize_Begin, Disciplined, Lifecycle
<1>2. /\ m_multiThreadLock = NoThread /\ m_multiThreadLock' = t
      /\ UNCHANGED <<numEntries, handleToNodeId, fault>>
      /\ \A u \in Threads \ {t} : th[u].pc = "idle"
      /\ MayCall(t)
  BY DEF DeInitialize_Begin, Initialize_Begin, Disciplined, OthersQuiet, conf
<1>3. m_state # "INITIALIZING" /\ numOfNodes <= numEntries
  BY <1>2, Unlocked
<1>4. th' = [u \in Threads |-> IF u = t THEN c ELSE th[u]]
  BY <1>1 DEF Goto, TypeOK, CallsOK
<1>5. /\ th'[t] = c
      /\ \A u \in Threads \ {t} : th'[u].pc = "idle"
  BY <1>2, <1>4
<1>6. Alone'
  BY <1>1, <1>2, <1>5 DEF Alone, Lifecycle
<1>7. \A u \in Threads : CallFits(th[u])'
  BY <1>1, <1>2, <1>3, <1>5
  DEF CallFits, Lifecycle, Indexing, Saving, ReclaimPoints
<1>8. Sized'
  BY <1>2, <1>3, ConstantsAssumption
  DEF Sized, DeInitialize_Begin, Initialize_Begin, conf
<1>9. ~fault' /\ RegistryFits'
  BY <1>2 DEF DisciplineInv, RegistryFits
<1> QED BY <1>6, <1>7, <1>8, <1>9 DEF DisciplineInv

LEMMA Discipline_End ==
  ASSUME TypeOK, DisciplineInv, NEW t \in Threads,
         Initialize_End(t) \/ DeInitialize_End(t)
  PROVE  DisciplineInv'
<1>1. /\ th[t].pc \in Lifecycle /\ Return(t) /\ m_multiThreadLock' = NoThread
      /\ UNCHANGED <<handleToNodeId, fault>>
  BY DEF Initialize_End, DeInitialize_End, Lifecycle
<1>2. \A u \in Threads \ {t} : th[u].pc = "idle"
  BY <1>1 DEF DisciplineInv, Alone
<1>3. \A u \in Threads : th'[u].pc = "idle"
  BY <1>1, <1>2 DEF Return, Goto, Idle, TypeOK, CallsOK
<1>4. Alone' /\ \A u \in Threads : CallFits(th[u])'
  BY <1>1, <1>3, ConstantsAssumption
  DEF Alone, CallFits, Lifecycle, Indexing, Saving, ReclaimPoints
<1>5. /\ numOfNodes \in Nat /\ numEntries \in Nat
      /\ \A h \in DOMAIN handleToNodeId : handleToNodeId[h] \in Nat
  BY DEF TypeOK, ConfOK, NodeIds
<1>6. CallFits(th[t])
  BY DEF DisciplineInv
<1>7. CASE Initialize_End(t)
  <2>1. numEntries' \in Nat /\ numEntries' >= numEntries
    BY <1>5, <1>7 DEF Initialize_End
  <2>2. Sized'
    BY <1>5, <1>6, <1>7 DEF Sized, DisciplineInv, Initialize_End, CallFits, Saving
  <2>3. RegistryFits'
    BY <1>1, <1>5, <2>1 DEF DisciplineInv, RegistryFits
  <2> QED BY <1>1, <1>4, <2>2, <2>3 DEF DisciplineInv
<1>8. CASE DeInitialize_End(t)
  <2>1. Sized'
    BY <1>5, <1>8 DEF Sized, DeInitialize_End
  <2>2. RegistryFits'
    BY <1>1, <1>8 DEF DisciplineInv, Alone, DeInitialize_End, RegistryFits
  <2> QED BY <1>1, <1>4, <2>1, <2>2 DEF DisciplineInv
<1> QED BY <1>7, <1>8

LEMMA DisciplineStep ==
  ASSUME TypeOK, DisciplineInv, Disciplined, [Next]_vars
  PROVE  DisciplineInv'
<1>1. ASSUME NEW t \in Threads, Call(t) PROVE DisciplineInv'
  BY <1>1, Discipline_Call, Discipline_Begin
<1>2. ASSUME NEW t \in Threads, Continue(t) PROVE DisciplineInv'
  <2>1. CASE Inside(t)
    BY <2>1, Discipline_Inside
  <2>2. CASE Reclaiming(t)
    BY <2>2, Discipline_Reclaiming
  <2>3. CASE Initialize_End(t) \/ DeInitialize_End(t)
    BY <2>3, Discipline_End
  <2>4. ~\E h \in Handles : DeInitialize_Next(t, h)
    BY DEF DeInitialize_Next, DisciplineInv, CallFits
  <2>5. ~UndefinedAccess(t)
    <3> SUFFICES ASSUME UndefinedAccess(t) PROVE FALSE
      OBVIOUS
    <3>1. /\ CallFits(th[t])
          /\ \A u \in Threads : CallFits(th[u])
      BY DEF DisciplineInv
    <3>2. CASE th[t].pc = "deinit"
      <4>2. numOfNodes <= numEntries \/ m_state = "INITIALIZING"
        BY DEF DisciplineInv, Sized
      <4>3. m_state # "INITIALIZING" /\ numOfNodes \in Nat /\ numEntries \in Nat
        BY <3>1, <3>2 DEF CallFits, TypeOK, ConfOK
      <4> QED BY <3>2, <4>2, <4>3 DEF UndefinedAccess, ReclaimPoints
    <3>3. CASE th[t].pc # "deinit"
      <4>1. th[t].pc \notin Lifecycle \cup {"idle"}
        BY <3>3 DEF UndefinedAccess, Lifecycle
      <4>2. m_multiThreadLock = NoThread /\ numEntries \in Nat
        BY <4>1, Unlocked
      <4>3. \A u \in Threads : th[u].pc \notin Lifecycle
        BY <4>2, ConstantsAssumption DEF DisciplineInv, Alone
      <4> QED BY <3>1, <3>3, <4>2, <4>3
              DEF UndefinedAccess, CallFits, Indexing, Lifecycle, InRange
    <3> QED BY <3>2, <3>3
  <2> QED BY <1>2, <2>1, <2>2, <2>3, <2>4, <2>5 DEF Continue, Inside, Reclaiming
<1>3. CASE UNCHANGED vars
  BY <1>3 DEF vars, conf, db, alloc, DisciplineInv, Alone, RegistryFits, Sized, CallFits
<1> QED BY <1>1, <1>2, <1>3 DEF Next, Crashed

\* Clients that serialise the lifecycle calls and unregister their nodes
\* before DeInitialize never make a method index past m_pools or
\* m_allocations, nor change the registry under DeInitialize's loop, although
\* every method uses its node index after it has released the registry and
\* m_state is read and stored without a lock.
THEOREM DisciplineSuffices ==
  ASSUME LifecycleExclusive, UnregisterFirst
  PROVE  Spec => []NoUndefinedAccess
<1>1. Init => DisciplineInv
  BY ConstantsAssumption, IdleFits
  DEF Init, DisciplineInv, Alone, RegistryFits, Sized, NoHandles
<1>2. TypeOK /\ DisciplineInv /\ [Next]_vars => DisciplineInv'
  BY DisciplineStep DEF Disciplined
<1>3. DisciplineInv => NoUndefinedAccess
  BY DEF DisciplineInv, NoUndefinedAccess
<1> QED BY <1>1, <1>2, <1>3, TypeCorrect, PTL DEF Spec

============================================================================
