----------------------- MODULE MemoryOwnershipProofs -----------------------
(***************************************************************************)
(* Who owns a buffer, for every number of threads, nodes, buffers and      *)
(* handles.  The ownership properties of MemoryManager are not inductive   *)
(* one by one: that a new buffer is nobody's needs "what is owned or lost  *)
(* is live", that a new pool starts empty needs "a handle outside poolMap  *)
(* has no elements", and that a released buffer leaves no account behind   *)
(* needs the exclusive ownership itself.  OwnInv is their joint            *)
(* strengthening, stated element by element.                               *)
(*                                                                         *)
(* For one client thread, ReleaseInv follows ReclaimResources through its  *)
(* copies of an entry: what is left in the entry is what is left to do.    *)
(* StateInv adds that m_state is still what the call has read at its       *)
(* entry.                                                                  *)
(***************************************************************************)
EXTENDS MemoryManagerProofs

InPool(n, p, b) == b \in freeObjects[n][p] \/ b \in allocatedObjects[n][p]

OneSet     == \A n, m \in Entries : \A b \in allocationSet[n] :
                b \in allocationSet[m] => n = m
SetNotPool == \A n, m \in Entries : \A p \in PoolHandles : \A b \in allocationSet[n] :
                ~InPool(m, p, b)
OnePool    == \A n, m \in Entries : \A p, q \in PoolHandles : \A b :
                InPool(n, p, b) /\ InPool(m, q, b) => n = m /\ p = q
OneList    == \A n \in Entries : \A p \in PoolHandles : \A b \in freeObjects[n][p] :
                b \notin allocatedObjects[n][p]
SetLive    == \A n \in Entries : \A b \in allocationSet[n] : b \in live /\ b \notin lost
PoolLive   == \A n \in Entries : \A p \in PoolHandles : \A b :
                InPool(n, p, b) => b \in live /\ b \notin lost /\ p \in poolMap[n]
LostLive   == \A b \in lost : b \in live
LiveOwned  == \A b \in live :
                \/ b \in lost
                \/ \E n \in Entries : b \in allocationSet[n]
                \/ \E n \in Entries : \E p \in PoolHandles : InPool(n, p, b)

OwnInv == /\ OneSet /\ SetNotPool /\ OnePool /\ OneList
          /\ SetLive /\ PoolLive /\ LostLive /\ LiveOwned

----------------------------------------------------------------------------
(* What each kind of step does to the owners, element by element.          *)

\* A step that at most moves a buffer from one list of a pool to the other.
LEMMA SameOwners ==
  ASSUME OwnInv, OneList',
         UNCHANGED <<allocationSet, poolMap, live, lost>>,
         \A n \in Entries : \A p \in PoolHandles : \A b :
           InPool(n, p, b)' <=> InPool(n, p, b)
  PROVE  OwnInv'
<1>1. OneSet' BY DEF OwnInv, OneSet
<1>2. SetNotPool' BY DEF OwnInv, SetNotPool
<1>3. OnePool' BY DEF OwnInv, OnePool
<1>4. SetLive' BY DEF OwnInv, SetLive
<1>5. PoolLive' BY DEF OwnInv, PoolLive
<1>6. LostLive' BY DEF OwnInv, LostLive
<1>7. LiveOwned' BY DEF OwnInv, LiveOwned
<1> QED BY <1>1, <1>2, <1>3, <1>4, <1>5, <1>6, <1>7 DEF OwnInv

\* A buffer that is not live is nobody's.
LEMMA NewIsFree ==
  ASSUME OwnInv, NEW b, b \notin live
  PROVE  /\ b \notin lost
         /\ \A n \in Entries : b \notin allocationSet[n]
         /\ \A n \in Entries : \A p \in PoolHandles : ~InPool(n, p, b)
BY DEF OwnInv, SetLive, PoolLive, LostLive

\* A new buffer joins the stand-alone buffers of node n.
LEMMA JoinsSet ==
  ASSUME OwnInv, NEW n \in Entries, NEW b, b \notin live,
         live' = live \cup {b},
         \A m \in Entries : allocationSet'[m] = IF m = n THEN allocationSet[m] \cup {b}
                                                ELSE allocationSet[m],
         UNCHANGED <<poolMap, freeObjects, allocatedObjects, lost>>
  PROVE  OwnInv'
<1>1. /\ b \notin lost
      /\ \A m \in Entries : b \notin allocationSet[m]
      /\ \A m \in Entries : \A p \in PoolHandles : ~InPool(m, p, b)
  BY NewIsFree
<1>2. OneSet' BY <1>1 DEF OwnInv, OneSet
<1>3. SetNotPool'
  <2>1. \A m \in Entries : \A p \in PoolHandles : \A c :
          InPool(m, p, c)' <=> InPool(m, p, c)
    BY DEF InPool
  <2>2. \A m \in Entries : \A c \in allocationSet'[m] : c = b \/ c \in allocationSet[m]
    OBVIOUS
  <2> QED BY <1>1, <2>1, <2>2 DEF OwnInv, SetNotPool
<1>4. OnePool' BY DEF OwnInv, OnePool, InPool
<1>5. OneList' BY DEF OwnInv, OneList
<1>6. SetLive' BY <1>1 DEF OwnInv, SetLive
<1>7. PoolLive' BY DEF OwnInv, PoolLive, InPool
<1>8. LostLive' BY DEF OwnInv, LostLive
<1>9. LiveOwned' BY DEF OwnInv, LiveOwned, InPool
<1> QED BY <1>2, <1>3, <1>4, <1>5, <1>6, <1>7, <1>8, <1>9 DEF OwnInv

\* A stand-alone buffer of node n is released.
LEMMA LeavesSet ==
  ASSUME OwnInv, NEW n \in Entries, NEW b \in allocationSet[n],
         live' = live \ {b},
         \A m \in Entries : allocationSet'[m] = IF m = n THEN allocationSet[m] \ {b}
                                                ELSE allocationSet[m],
         UNCHANGED <<poolMap, freeObjects, allocatedObjects, lost>>
  PROVE  OwnInv'
<1>1. /\ b \notin lost
      /\ \A m \in Entries : b \in allocationSet[m] => m = n
      /\ \A m \in Entries : \A p \in PoolHandles : ~InPool(m, p, b)
  BY DEF OwnInv, OneSet, SetNotPool, SetLive
<1>2. OneSet' BY DEF OwnInv, OneSet
<1>3. SetNotPool' BY DEF OwnInv, SetNotPool, InPool
<1>4. OnePool' BY DEF OwnInv, OnePool, InPool
<1>5. OneList' BY DEF OwnInv, OneList
<1>6. SetLive' BY <1>1 DEF OwnInv, SetLive
<1>7. PoolLive' BY <1>1 DEF OwnInv, PoolLive, InPool
<1>8. LostLive' BY <1>1 DEF OwnInv, LostLive
<1>9. LiveOwned' BY DEF OwnInv, LiveOwned, InPool
<1> QED BY <1>2, <1>3, <1>4, <1>5, <1>6, <1>7, <1>8, <1>9 DEF OwnInv

\* New buffers S become the elements of a new pool h of node n.
LEMMA PoolAppears ==
  ASSUME OwnInv, NEW n \in Entries, NEW h \in PoolHandles, h \notin poolMap[n],
         NEW S, S \cap live = {}, live' = live \cup S,
         \A m \in Entries : poolMap'[m] = IF m = n THEN poolMap[m] \cup {h} ELSE poolMap[m],
         \A m \in Entries : \A p \in PoolHandles :
           freeObjects'[m][p] = IF m = n /\ p = h THEN S ELSE freeObjects[m][p],
         UNCHANGED <<allocationSet, allocatedObjects, lost>>
  PROVE  OwnInv'
<1>1. \A b \in S : /\ b \notin lost
                   /\ \A m \in Entries : b \notin allocationSet[m]
                   /\ \A m \in Entries : \A p \in PoolHandles : ~InPool(m, p, b)
  BY NewIsFree
<1>2. \A b : ~InPool(n, h, b)
  BY DEF OwnInv, PoolLive
<1>3. \A m \in Entries : \A p \in PoolHandles : \A b :
        InPool(m, p, b)' <=> InPool(m, p, b) \/ (m = n /\ p = h /\ b \in S)
  BY <1>2 DEF InPool
<1>4. OneSet' BY DEF OwnInv, OneSet
<1>5. SetNotPool' BY <1>1, <1>3 DEF OwnInv, SetNotPool
<1>6. OnePool' BY <1>1, <1>3 DEF OwnInv, OnePool
<1>7. OneList' BY <1>2 DEF OwnInv, OneList, InPool
<1>8. SetLive' BY DEF OwnInv, SetLive
<1>9. PoolLive'
  <2>1. \A m \in Entries : \A p \in PoolHandles :
          p \in poolMap[m] \/ (m = n /\ p = h) => p \in poolMap'[m]
    OBVIOUS
  <2>2. \A b : b \in live \/ b \in S => b \in live'
    OBVIOUS
  <2> QED BY <1>1, <1>3, <2>1, <2>2 DEF OwnInv, PoolLive
<1>10. LostLive' BY DEF OwnInv, LostLive
<1>11. LiveOwned' BY <1>3 DEF OwnInv, LiveOwned
<1> QED BY <1>4, <1>5, <1>6, <1>7, <1>8, <1>9, <1>10, <1>11 DEF OwnInv

\* New buffers S are dropped at once.
LEMMA BornLost ==
  ASSUME OwnInv, NEW S, S \cap live = {}, live' = live \cup S, lost' = lost \cup S,
         UNCHANGED <<allocationSet, poolMap, freeObjects, allocatedObjects>>
  PROVE  OwnInv'
<1>1. \A b \in S : /\ \A m \in Entries : b \notin allocationSet[m]
                   /\ \A m \in Entries : \A p \in PoolHandles : ~InPool(m, p, b)
  BY NewIsFree
<1>2. OneSet' /\ SetNotPool' /\ OnePool' /\ OneList'
  BY DEF OwnInv, OneSet, SetNotPool, OnePool, OneList, InPool
<1>3. SetLive' BY <1>1 DEF OwnInv, SetLive
<1>4. PoolLive' BY <1>1 DEF OwnInv, PoolLive, InPool
<1>5. LostLive' BY DEF OwnInv, LostLive
<1>6. LiveOwned' BY DEF OwnInv, LiveOwned, InPool
<1> QED BY <1>2, <1>3, <1>4, <1>5, <1>6 DEF OwnInv

\* The pool p of node n goes; its elements are freed, but for F, which are lost.
LEMMA PoolGoes ==
  ASSUME OwnInv, NEW n \in Entries, NEW p \in PoolHandles, NEW F,
         F \subseteq PoolBuffers(n, p),
         live' = live \ (PoolBuffers(n, p) \ F), lost' = lost \cup F,
         \A m \in Entries : \A q \in PoolHandles :
           (m # n \/ q # p) /\ q \in poolMap[m] => q \in poolMap'[m],
         \A m \in Entries : \A q \in PoolHandles :
           /\ freeObjects'[m][q] = IF m = n /\ q = p THEN {} ELSE freeObjects[m][q]
           /\ allocatedObjects'[m][q] = IF m = n /\ q = p THEN {} ELSE allocatedObjects[m][q],
         UNCHANGED allocationSet
  PROVE  OwnInv'
<1>1. \A b : b \in PoolBuffers(n, p) <=> InPool(n, p, b)
  BY DEF PoolBuffers, InPool
<1>2. \A m \in Entries : \A q \in PoolHandles : \A b :
        InPool(m, q, b)' <=> InPool(m, q, b) /\ (m # n \/ q # p)
  BY DEF InPool
<1>3. \A b : InPool(n, p, b) =>
        /\ b \in live /\ b \notin lost
        /\ \A m \in Entries : b \notin allocationSet[m]
        /\ \A m \in Entries : \A q \in PoolHandles : InPool(m, q, b) => m = n /\ q = p
  BY DEF OwnInv, PoolLive, SetNotPool, OnePool
<1>4. /\ \A b : b \in live' <=> b \in live /\ (InPool(n, p, b) => b \in F)
      /\ \A b : b \in lost' <=> b \in lost \/ b \in F
      /\ \A b \in F : InPool(n, p, b)
  BY <1>1
<1>5. OneSet' BY DEF OwnInv, OneSet
<1>6. SetNotPool' BY <1>2 DEF OwnInv, SetNotPool
<1>7. OnePool' BY <1>2 DEF OwnInv, OnePool
<1>8. OneList' BY DEF OwnInv, OneList
<1>9. SetLive' BY <1>3, <1>4 DEF OwnInv, SetLive
<1>10. PoolLive' BY <1>2, <1>3, <1>4 DEF OwnInv, PoolLive
<1>11. LostLive' BY <1>3, <1>4 DEF OwnInv, LostLive
<1>12. LiveOwned' BY <1>2, <1>4 DEF OwnInv, LiveOwned
<1> QED BY <1>5, <1>6, <1>7, <1>8, <1>9, <1>10, <1>11, <1>12 DEF OwnInv

\* The entries from k on go; what they own is lost.
LEMMA EntriesGo ==
  ASSUME OwnInv, NEW k \in Nat,
         live' = live,
         lost' = lost \cup UNION {Owned(n) : n \in {m \in Entries : m >= k}},
         \A m \in Entries :
           /\ allocationSet'[m] = IF m < k THEN allocationSet[m] ELSE {}
           /\ poolMap'[m] = IF m < k THEN poolMap[m] ELSE {},
         \A m \in Entries : \A q \in PoolHandles :
           /\ freeObjects'[m][q] = IF m < k THEN freeObjects[m][q] ELSE {}
           /\ allocatedObjects'[m][q] = IF m < k THEN allocatedObjects[m][q] ELSE {}
  PROVE  OwnInv'
<1>1. \A n \in Entries : \A b : b \in Owned(n) <=>
        b \in allocationSet[n] \/ \E p \in PoolHandles : InPool(n, p, b)
  BY DEF Owned, PoolBuffers, InPool
<1>2. \A m \in Entries : \A q \in PoolHandles : \A b :
        InPool(m, q, b)' <=> InPool(m, q, b) /\ m < k
  BY DEF InPool
<1>3. \A b : b \in lost' <=> b \in lost \/ \E n \in Entries : ~(n < k) /\ b \in Owned(n)
  BY DEF Entries
<1>4. OneSet' BY DEF OwnInv, OneSet
<1>5. SetNotPool' BY <1>2 DEF OwnInv, SetNotPool
<1>6. OnePool' BY <1>2 DEF OwnInv, OnePool
<1>7. OneList' BY DEF OwnInv, OneList
<1>8. SetLive' BY <1>1, <1>3 DEF OwnInv, SetLive, OneSet, SetNotPool
<1>9. PoolLive' BY <1>1, <1>2, <1>3 DEF OwnInv, PoolLive, OnePool, SetNotPool
<1>10. LostLive' BY <1>1, <1>3 DEF OwnInv, LostLive, SetLive, PoolLive
<1>11. LiveOwned'
  <2> SUFFICES ASSUME NEW b \in live, b \notin lost'
               PROVE  \/ \E n \in Entries : b \in allocationSet'[n]
                      \/ \E n \in Entries : \E p \in PoolHandles : InPool(n, p, b)'
    BY DEF LiveOwned
  <2>1. b \notin lost /\ \A n \in Entries : b \in Owned(n) => n < k
    BY <1>3
  <2>2. CASE \E n \in Entries : b \in allocationSet[n]
    BY <1>1, <2>1, <2>2
  <2>3. CASE \E n \in Entries : \E p \in PoolHandles : InPool(n, p, b)
    BY <1>1, <1>2, <2>1, <2>3
  <2> QED BY <2>1, <2>2, <2>3 DEF OwnInv, LiveOwned
<1> QED BY <1>4, <1>5, <1>6, <1>7, <1>8, <1>9, <1>10, <1>11 DEF OwnInv

----------------------------------------------------------------------------
(* The actions that move a buffer or a pool.                               *)

\* An action that leaves the data base and the allocators alone.
LEMMA OwnQuiet ==
  ASSUME OwnInv, UNCHANGED <<allocationSet, poolMap, freeObjects, allocatedObjects, live, lost>>
  PROVE  OwnInv'
<1>1. OneList' BY DEF OwnInv, OneList
<1> QED BY <1>1, SameOwners DEF InPool

LEMMA Own_FreeFromSet ==
  ASSUME TypeOK, OwnInv, NEW n \in Entries, NEW b, NEW fails \in BOOLEAN,
         FreeFromSet(n, b, fails),
         UNCHANGED <<poolMap, freeObjects, allocatedObjects, lost>>
  PROVE  OwnInv'
<1>1. CASE fails
  BY <1>1, OwnQuiet DEF FreeFromSet
<1>2. CASE ~fails
  <2>1. b \in allocationSet[n] /\ live' = live \ {b}
    BY <1>2 DEF FreeFromSet
  <2>2. \A m \in Entries : allocationSet'[m] = IF m = n THEN allocationSet[m] \ {b}
                                               ELSE allocationSet[m]
    BY <1>2 DEF FreeFromSet, TypeOK, DbOK
  <2> QED BY <2>1, <2>2, LeavesSet
<1> QED BY <1>1, <1>2

LEMMA Own_ErasePool ==
  ASSUME TypeOK, OwnInv, NEW n \in Entries, NEW p \in PoolHandles, NEW F,
         ErasePool(n, p, F), UNCHANGED allocationSet
  PROVE  OwnInv'
<1>1. /\ F \subseteq PoolBuffers(n, p)
      /\ live' = live \ (PoolBuffers(n, p) \ F) /\ lost' = lost \cup F
  BY DEF ErasePool
<1>2. \A m \in Entries : \A q \in PoolHandles :
        (m # n \/ q # p) /\ q \in poolMap[m] => q \in poolMap'[m]
  BY DEF ErasePool, TypeOK, DbOK
<1>3. \A m \in Entries : \A q \in PoolHandles :
        freeObjects'[m][q] = IF m = n /\ q = p THEN {} ELSE freeObjects[m][q]
  BY DEF ErasePool, TypeOK, DbOK
<1>4. \A m \in Entries : \A q \in PoolHandles :
        allocatedObjects'[m][q] = IF m = n /\ q = p THEN {} ELSE allocatedObjects[m][q]
  BY DEF ErasePool, TypeOK, DbOK
<1> QED BY <1>1, <1>2, <1>3, <1>4, PoolGoes

\* A call record names an entry and, where it has them, a buffer or a pool.
LEMMA CallNames ==
  ASSUME TypeOK, NEW t \in Threads
  PROVE  /\ th[t].pc \in {"alloc", "free", "create", "destroy", "get", "put"}
              => th[t].n \in Entries
         /\ th[t].pc \in {"destroy", "get", "put"} => th[t].p \in PoolHandles
         /\ th[t].pc = "create" => th[t].h \in Handles
         /\ th[t].pc \in {"freeBuffer", "destroyPool"} => th[t].m \in Entries
         /\ th[t].pc = "destroyPool" => th[t].x \in PoolHandles
<1>1. CallOK(th[t]) BY DEF TypeOK, CallsOK
<1> QED BY <1>1, NodeIsEntry DEF CallOK

LEMMA Own_DeInitialize_End ==
  ASSUME TypeOK, OwnInv, NEW t \in Threads, DeInitialize_End(t)
  PROVE  OwnInv'
<1> DEFINE left == numEntries - numOfNodes
           Kept(f, empty) == [i \in Entries |-> IF i < left THEN f[i] ELSE empty]
<1>1. left \in Nat /\ Entries \subseteq Nat
  BY DEF DeInitialize_End, TypeOK, ConfOK, Entries
<1>2. left .. (MaxEntries - 1) = {m \in Entries : m >= left}
  BY <1>1, ConstantsAssumption DEF Entries
<1>3. /\ allocationSet' = Kept(allocationSet, {})
      /\ poolMap' = Kept(poolMap, {})
      /\ freeObjects' = Kept(freeObjects, [p \in PoolHandles |-> {}])
      /\ allocatedObjects' = Kept(allocatedObjects, [p \in PoolHandles |-> {}])
      /\ lost' = lost \cup UNION {Owned(n) : n \in left .. (MaxEntries - 1)}
      /\ live' = live
  BY DEF DeInitialize_End
<1> HIDE DEF left
<1>4. \A m \in Entries :
        /\ allocationSet'[m] = IF m < left THEN allocationSet[m] ELSE {}
        /\ poolMap'[m] = IF m < left THEN poolMap[m] ELSE {}
  BY <1>3
<1>5. \A m \in Entries : \A q \in PoolHandles :
        /\ freeObjects'[m][q] = IF m < left THEN freeObjects[m][q] ELSE {}
        /\ allocatedObjects'[m][q] = IF m < left THEN allocatedObjects[m][q] ELSE {}
  BY <1>3
<1>6. lost' = lost \cup UNION {Owned(n) : n \in {m \in Entries : m >= left}}
  BY <1>2, <1>3
<1> QED BY <1>1, <1>3, <1>4, <1>5, <1>6, EntriesGo

LEMMA Own_AllocateBuffer_Commit ==
  ASSUME TypeOK, OwnInv, NEW t \in Threads, NEW b \in Buffers, AllocateBuffer_Commit(t, b)
  PROVE  OwnInv'
<1>1. th[t].n \in Entries BY CallNames DEF AllocateBuffer_Commit
<1>2. \A m \in Entries : allocationSet'[m] = IF m = th[t].n THEN allocationSet[m] \cup {b}
                                             ELSE allocationSet[m]
  BY <1>1 DEF AllocateBuffer_Commit, TypeOK, DbOK
<1> QED BY <1>1, <1>2, JoinsSet DEF AllocateBuffer_Commit

LEMMA Own_CreatePool_Commit ==
  ASSUME TypeOK, OwnInv, NEW t \in Threads, NEW r \in Rnd, NEW S \in Batches,
         CreatePool_Commit(t, r, S)
  PROVE  OwnInv'
<1> DEFINE n == th[t].n
           h == NewPoolHandle(t, r)
<1>1. n \in Entries /\ th[t].h \in Handles
  BY CallNames DEF CreatePool_Commit, TakePoolNumber
<1>2. h \in PoolHandles
  BY <1>1 DEF NewPoolHandle, PoolHandles, TypeOK, DbOK
<1>3. h \notin poolMap[n] /\ S \cap live = {} /\ live' = live \cup S
  BY DEF CreatePool_Commit
<1>4. \A m \in Entries : poolMap'[m] = IF m = n THEN poolMap[m] \cup {h} ELSE poolMap[m]
  BY <1>1 DEF CreatePool_Commit, TypeOK, DbOK
<1>5. freeObjects' = [freeObjects EXCEPT ![n][h] = S]
  BY DEF CreatePool_Commit
<1>6. UNCHANGED <<allocationSet, allocatedObjects, lost>>
  BY DEF CreatePool_Commit
<1> HIDE DEF n, h
<1>7. \A m \in Entries : \A p \in PoolHandles :
        freeObjects'[m][p] = IF m = n /\ p = h THEN S ELSE freeObjects[m][p]
  BY <1>1, <1>2, <1>5 DEF TypeOK, DbOK
<1> QED BY <1>1, <1>2, <1>3, <1>4, <1>6, <1>7, PoolAppears, SMTT(60)

LEMMA Own_CreatePool_InitFail ==
  ASSUME OwnInv, NEW t \in Threads, NEW r \in Rnd, NEW S \in Batches,
         CreatePool_InitFail(t, r, S) \/ CreatePool_InitRefuse(t, r, S)
  PROVE  OwnInv'
BY BornLost DEF CreatePool_InitFail, CreatePool_InitRefuse

LEMMA Own_AllocateBufferFromPool_Commit ==
  ASSUME TypeOK, OwnInv, NEW t \in Threads, NEW b \in Buffers,
         AllocateBufferFromPool_Commit(t, b)
  PROVE  OwnInv'
<1> DEFINE n == th[t].n
           p == th[t].p
<1>1. n \in Entries /\ p \in PoolHandles
  BY CallNames DEF AllocateBufferFromPool_Commit
<1>2. /\ b \in freeObjects[n][p]
      /\ freeObjects' = [freeObjects EXCEPT ![n][p] = @ \ {b}]
      /\ allocatedObjects' = [allocatedObjects EXCEPT ![n][p] = @ \cup {b}]
      /\ UNCHANGED <<allocationSet, poolMap, live, lost>>
  BY DEF AllocateBufferFromPool_Commit, alloc
<1> HIDE DEF n, p
<1>3. \A m \in Entries : \A q \in PoolHandles :
        freeObjects'[m][q] = IF m = n /\ q = p THEN freeObjects[m][q] \ {b} ELSE freeObjects[m][q]
  BY <1>1, <1>2 DEF TypeOK, DbOK
<1>4. \A m \in Entries : \A q \in PoolHandles :
        allocatedObjects'[m][q] = IF m = n /\ q = p THEN allocatedObjects[m][q] \cup {b}
                                  ELSE allocatedObjects[m][q]
  BY <1>1, <1>2 DEF TypeOK, DbOK
<1>5. OneList'
  <2> SUFFICES ASSUME NEW m \in Entries, NEW q \in PoolHandles, NEW c \in freeObjects'[m][q]
               PROVE  c \notin allocatedObjects'[m][q]
    BY DEF OneList
  <2>1. CASE m = n /\ q = p
    BY <1>2, <1>3, <1>4, <2>1 DEF OwnInv, OneList
  <2>2. CASE ~(m = n /\ q = p)
    BY <1>3, <1>4, <2>2 DEF OwnInv, OneList
  <2> QED BY <2>1, <2>2
<1>6. \A m \in Entries : \A q \in PoolHandles : \A c :
        InPool(m, q, c)' <=> InPool(m, q, c)
  BY <1>2, <1>3, <1>4 DEF InPool
<1> QED BY <1>2, <1>5, <1>6, SameOwners

LEMMA Own_PutBufferToPool_Commit ==
  ASSUME TypeOK, OwnInv, NEW t \in Threads, PutBufferToPool_Commit(t)
  PROVE  OwnInv'
<1> DEFINE n == th[t].n
           p == th[t].p
           b == th[t].b
<1>1. n \in Entries /\ p \in PoolHandles
  BY CallNames DEF PutBufferToPool_Commit
<1>2. /\ b \in allocatedObjects[n][p]
      /\ allocatedObjects' = [allocatedObjects EXCEPT ![n][p] = @ \ {b}]
      /\ freeObjects' = [freeObjects EXCEPT ![n][p] = @ \cup {b}]
      /\ UNCHANGED <<allocationSet, poolMap, live, lost>>
  BY DEF PutBufferToPool_Commit, alloc
<1> HIDE DEF n, p, b
<1>3. \A m \in Entries : \A q \in PoolHandles :
        allocatedObjects'[m][q] = IF m = n /\ q = p THEN allocatedObjects[m][q] \ {b}
                                  ELSE allocatedObjects[m][q]
  BY <1>1, <1>2 DEF TypeOK, DbOK
<1>4. \A m \in Entries : \A q \in PoolHandles :
        freeObjects'[m][q] = IF m = n /\ q = p THEN freeObjects[m][q] \cup {b}
                             ELSE freeObjects[m][q]
  BY <1>1, <1>2 DEF TypeOK, DbOK
<1>5. OneList'
  <2> SUFFICES ASSUME NEW m \in Entries, NEW q \in PoolHandles, NEW c \in freeObjects'[m][q]
               PROVE  c \notin allocatedObjects'[m][q]
    BY DEF OneList
  <2>1. CASE m = n /\ q = p
    BY <1>2, <1>3, <1>4, <2>1 DEF OwnInv, OneList
  <2>2. CASE ~(m = n /\ q = p)
    BY <1>3, <1>4, <2>2 DEF OwnInv, OneList
  <2> QED BY <2>1, <2>2
<1>6. \A m \in Entries : \A q \in PoolHandles : \A c :
        InPool(m, q, c)' <=> InPool(m, q, c)
  BY <1>2, <1>3, <1>4 DEF InPool
<1> QED BY <1>2, <1>5, <1>6, SameOwners

----------------------------------------------------------------------------
(* The invariant and the properties it gives.                              *)

LEMMA OwnCall ==
  ASSUME OwnInv, NEW t \in Threads, Call(t)
  PROVE  OwnInv'
<1>1. UNCHANGED <<allocationSet, poolMap, freeObjects, allocatedObjects, live, lost>>
  BY DEF Call, Initialize_Begin, DeInitialize_Begin, Register_Check, UnRegister_Check,
         AllocateBuffer_Lookup, FreeBuffer_Lookup, CreatePool_Lookup, ReclaimResources,
         DestroyPool_Lookup, AllocateBufferFromPool_Lookup, PutBufferToPool_Lookup,
         PoolOp_Lookup, db, alloc
<1> QED BY <1>1, OwnQuiet

\* The steps of a method that change neither the data base nor the allocators.
Quiet(t) ==
  \/ Initialize_End(t)
  \/ \E h \in Handles : DeInitialize_Next(t, h)
  \/ \E r \in Rnd : Register_Commit(t, r)
  \/ Register_Refuse(t) \/ WriteBack(t) \/ UnRegister_Fail(t) \/ UnRegister_Erase(t)
  \/ \E general \in BOOLEAN : AllocateBuffer_Fail(t, general)
  \/ FreeBuffer_Refuse(t)
  \/ \E r \in Rnd : CreatePool_Collide(t, r)
  \/ CreatePool_Full(t) \/ DestroyPool_Refuse(t)
  \/ AllocateBufferFromPool_Refuse(t) \/ PutBufferToPool_Refuse(t)
  \/ Reclaim_Lookup(t) \/ Reclaim_CopyBuffers(t) \/ Reclaim_BuffersDone(t)
  \/ Reclaim_CopyPools(t)
  \/ \E b \in Buffers : Reclaim_FreeBuffer_Lookup(t, b)
  \/ Reclaim_FreeBuffer_Refuse(t)
  \/ \E p \in PoolHandles : Reclaim_DestroyPool_Lookup(t, p)
  \/ Reclaim_DestroyPool_Refuse(t) \/ Reclaim_End(t) \/ UndefinedAccess(t)

LEMMA OwnQuietStep ==
  ASSUME OwnInv, NEW t \in Threads, Quiet(t)
  PROVE  OwnInv'
<1>1. UNCHANGED <<allocationSet, poolMap, freeObjects, allocatedObjects, live, lost>>
  BY DEF Quiet, Initialize_End, DeInitialize_Next, Register_Commit, Register_Refuse, WriteBack,
         UnRegister_Fail, UnRegister_Erase, AllocateBuffer_Fail, FreeBuffer_Refuse,
         CreatePool_Collide, CreatePool_Full, DestroyPool_Refuse,
         AllocateBufferFromPool_Refuse, PutBufferToPool_Refuse, Reclaim_Lookup,
         Reclaim_CopyBuffers, Reclaim_BuffersDone, Reclaim_CopyPools,
         Reclaim_FreeBuffer_Lookup, Reclaim_FreeBuffer_Refuse,
         Reclaim_DestroyPool_Lookup, Reclaim_DestroyPool_Refuse, Reclaim_End,
         UndefinedAccess, Undefined, db, alloc
<1> QED BY <1>1, OwnQuiet

LEMMA OwnContinue ==
  ASSUME TypeOK, OwnInv, NEW t \in Threads, Continue(t)
  PROVE  OwnInv'
<1>1. CASE Quiet(t)
  BY <1>1, OwnQuietStep
<1>2. CASE DeInitialize_End(t)
  BY <1>2, Own_DeInitialize_End
<1>3. ASSUME NEW b \in Buffers, AllocateBuffer_Commit(t, b) PROVE OwnInv'
  BY <1>3, Own_AllocateBuffer_Commit
<1>4. ASSUME NEW fails \in BOOLEAN, FreeBuffer_Commit(t, fails) PROVE OwnInv'
  BY <1>4, CallNames, Own_FreeFromSet DEF FreeBuffer_Commit
<1>5. ASSUME NEW r \in Rnd, NEW S \in Batches, CreatePool_Commit(t, r, S) PROVE OwnInv'
  BY <1>5, Own_CreatePool_Commit
<1>6. ASSUME NEW r \in Rnd, NEW S \in Batches,
             CreatePool_InitFail(t, r, S) \/ CreatePool_InitRefuse(t, r, S)
      PROVE  OwnInv'
  BY <1>6, Own_CreatePool_InitFail
<1>7. ASSUME NEW F \in Batches, DestroyPool_Commit(t, F) PROVE OwnInv'
  BY <1>7, CallNames, Own_ErasePool DEF DestroyPool_Commit
<1>8. ASSUME NEW b \in Buffers, AllocateBufferFromPool_Commit(t, b) PROVE OwnInv'
  BY <1>8, Own_AllocateBufferFromPool_Commit
<1>9. CASE PutBufferToPool_Commit(t)
  BY <1>9, Own_PutBufferToPool_Commit
<1>10. ASSUME NEW fails \in BOOLEAN, Reclaim_FreeBuffer_Commit(t, fails) PROVE OwnInv'
  BY <1>10, CallNames, Own_FreeFromSet DEF Reclaim_FreeBuffer_Commit
<1>11. ASSUME NEW F \in Batches, Reclaim_DestroyPool_Commit(t, F) PROVE OwnInv'
  BY <1>11, CallNames, Own_ErasePool DEF Reclaim_DestroyPool_Commit
<1> QED BY <1>1, <1>2, <1>3, <1>4, <1>5, <1>6, <1>7, <1>8, <1>9, <1>10, <1>11
        DEF Continue, Quiet

LEMMA OwnStep == TypeOK /\ OwnInv /\ [Next]_vars => OwnInv'
<1> SUFFICES ASSUME TypeOK, OwnInv, [Next]_vars PROVE OwnInv'
  OBVIOUS
<1>1. ASSUME UNCHANGED vars PROVE OwnInv'
  BY <1>1, OwnQuiet DEF vars, db, alloc
<1> QED BY <1>1, OwnCall, OwnContinue DEF Next, Crashed

LEMMA OwnInit == Init => OwnInv
BY DEF Init, OwnInv, OneSet, SetNotPool, OnePool, OneList, SetLive, PoolLive, LostLive,
       LiveOwned, InPool

LEMMA OwnCorrect == Spec => []OwnInv
BY TypeCorrect, OwnInit, OwnStep, PTL DEF Spec

\* Under every interleaving of every number of threads, a buffer is in at most
\* one node's stand-alone set or in one list of one pool: no two release paths
\* of ManagerLocal ever free the same descriptor.
THEOREM OwnershipIsExclusive == Spec => []OwnershipExclusive
<1>1. OwnInv => OwnershipExclusive
  BY DEF OwnInv, OwnershipExclusive, OneSet, SetNotPool, OnePool, OneList, InPool, PoolBuffers
<1> QED BY <1>1, OwnCorrect, PTL

\* Whatever the data base names is still allocated, and a pool handle that is
\* not in a node's map names no element: Free is only called for live buffers.
THEOREM OwnedBuffersAreLive == Spec => []OwnedIsLive
<1>1. OwnInv => OwnedIsLive
  BY DEF OwnInv, OwnedIsLive, SetLive, PoolLive, InPool, PoolBuffers
<1> QED BY <1>1, OwnCorrect, PTL

\* No buffer disappears: what the allocators have handed out is in the data
\* base, or was given up at one of the places that give up, never both.
THEOREM BuffersAreAccounted == Spec => []Accounted
<1>1. ASSUME OwnInv PROVE Accounted
  <2>1. \A n \in Entries : \A b : b \in Owned(n) <=>
          b \in allocationSet[n] \/ \E p \in PoolHandles : InPool(n, p, b)
    BY DEF Owned, PoolBuffers, InPool
  <2>2. \A n \in Entries : lost \cap Owned(n) = {}
    BY <1>1, <2>1 DEF OwnInv, SetLive, PoolLive
  <2>3. \A b \in live : b \in lost \/ \E n \in Entries : b \in Owned(n)
    BY <1>1, <2>1 DEF OwnInv, LiveOwned
  <2> QED BY <2>2, <2>3 DEF Accounted
<1> QED BY <1>1, OwnCorrect, PTL

----------------------------------------------------------------------------
(* One client thread.  What a call in progress has found out stays so, and *)
(* the release loops of ReclaimResources have less and less left.          *)

Named(h, n) == IsMemoryHandleRegistered(h) /\ handleToNodeId[h] = n
Empty(n)    == allocationSet[n] = {} /\ poolMap[n] = {}

\* The program points at which ReclaimResources knows its node.
Looping == {"copyBuffers", "freeBuffers", "freeBuffer", "copyPools", "destroyPools",
            "destroyPool"}

\* A call that will put something into an entry, or take everything out of
\* it, knows the handle that names it.
CallNamed(c) ==
  /\ c.pc = "alloc" => ~IsNodeIdUnique(c.n)
  /\ c.pc = "create" => Named(c.h, c.n)
  /\ c.pc \in Looping => Named(c.h, c.n)
  /\ c.pc \in {"freeBuffer", "destroyPool"} => c.m = c.n
  /\ c.pc \in {"destroyPools", "destroyPool"} => \A p \in c.todo : Named(p[1], c.n)
  /\ c.pc = "reclaimed" => ~c.ok

\* Of a release without a failure so far, what is left is still to be done.
CallReleased(c) ==
  /\ c.pc = "freeBuffers" => allocationSet[c.n] \subseteq c.todo
  /\ c.pc = "freeBuffer" => allocationSet[c.n] \subseteq c.todo \cup {c.x}
  /\ c.pc \in {"copyPools", "destroyPools", "destroyPool"} => allocationSet[c.n] = {}
  /\ c.pc = "destroyPools" => poolMap[c.n] \subseteq c.todo
  /\ c.pc = "destroyPool" => poolMap[c.n] \subseteq c.todo \cup {c.x}
  /\ c.pc = "unregister" => IsMemoryHandleRegistered(c.h) /\ Empty(handleToNodeId[c.h])

CallHolds(c) ==
  CallNamed(c) /\ (c.pc \in Looping \cup {"unregister"} /\ c.ok => CallReleased(c))

ReleaseInv ==
  /\ \A t \in Threads : CallHolds(th[t])
  /\ \A n \in Entries : ~InRange(n) => Empty(n)
  /\ \A n \in Entries : InRange(n) /\ IsNodeIdUnique(n) => Empty(n)
  /\ \A n \in Entries : \A p \in poolMap[n] : Named(p[1], n)

OneClient == \A t, u \in Threads : t = u

\* The thread goes on; the data base and the registry stay.
LEMMA GoesOn ==
  ASSUME TypeOK, ReleaseInv, OneClient, NEW t \in Threads, NEW c, Goto(t, c), CallHolds(c),
         UNCHANGED <<allocationSet, poolMap, handleToNodeId, numEntries>>
  PROVE  ReleaseInv'
<1>1. th'[t] = c
  BY DEF Goto, TypeOK, CallsOK
<1>2. CallHolds(th[t])'
  BY <1>1 DEF CallHolds, CallNamed, CallReleased, Named, Empty,
     IsMemoryHandleRegistered, IsNodeIdUnique
<1>3. \A u \in Threads : CallHolds(th[u])'
  BY <1>2 DEF OneClient
<1> QED BY <1>3 DEF ReleaseInv, Named, Empty, InRange, IsMemoryHandleRegistered,
           IsNodeIdUnique

LEMMA IdleHolds == CallHolds(Idle)
BY DEF CallHolds, CallNamed, CallReleased, Idle, Looping

\* The thread returns; one entry that a handle names has changed.
LEMMA EntryChanges ==
  ASSUME TypeOK, ReleaseInv, OneClient, NEW t \in Threads, NEW n \in Entries, InRange(n),
         \A m \in Entries : m # n => allocationSet'[m] = allocationSet[m]
                                     /\ poolMap'[m] = poolMap[m],
         ~IsNodeIdUnique(n) \/ (allocationSet'[n] \subseteq allocationSet[n]
                                /\ poolMap'[n] \subseteq poolMap[n]),
         \A p \in poolMap'[n] : Named(p[1], n),
         UNCHANGED <<handleToNodeId, numEntries>>,
         NEW c, Goto(t, c), CallHolds(c)'
  PROVE  ReleaseInv'
<1>1. th'[t] = c
  BY DEF Goto, TypeOK, CallsOK
<1>2. \A u \in Threads : CallHolds(th[u])'
  BY <1>1 DEF OneClient, CallHolds, CallNamed, CallReleased
<1>3. ASSUME NEW m \in Entries
      PROVE  /\ ~InRange(m)' => Empty(m)'
             /\ InRange(m)' /\ IsNodeIdUnique(m)' => Empty(m)'
             /\ \A p \in poolMap'[m] : Named(p[1], m)'
  <2>1. CASE m = n
    BY <2>1 DEF ReleaseInv, InRange, IsNodeIdUnique, Empty, Named, IsMemoryHandleRegistered
  <2>2. CASE m # n
    BY <2>2 DEF ReleaseInv, InRange, IsNodeIdUnique, Empty, Named, IsMemoryHandleRegistered
  <2> QED BY <2>1, <2>2
<1> QED BY <1>2, <1>3 DEF ReleaseInv

\* The thread goes on with a call that holds what it should.
Holding(t) == \E c : Goto(t, c) /\ CallHolds(c)

LEMMA HoldingKept ==
  ASSUME TypeOK, ReleaseInv, OneClient, NEW t \in Threads, Holding(t),
         UNCHANGED <<allocationSet, poolMap, handleToNodeId, numEntries>>
  PROVE  ReleaseInv'
BY GoesOn DEF Holding

LEMMA ReturnKept ==
  ASSUME TypeOK, ReleaseInv, OneClient, NEW t \in Threads, Return(t),
         UNCHANGED <<allocationSet, poolMap, handleToNodeId, numEntries>>
  PROVE  ReleaseInv'
BY GoesOn, IdleHolds DEF Return

LEMMA Release_Call ==
  ASSUME TypeOK, ReleaseInv, OneClient, NEW t \in Threads, Call(t)
  PROVE  ReleaseInv'
<1>1. UNCHANGED <<allocationSet, poolMap, handleToNodeId, numEntries>>
  BY DEF Call, Initialize_Begin, DeInitialize_Begin, Register_Check, UnRegister_Check,
     AllocateBuffer_Lookup, FreeBuffer_Lookup, CreatePool_Lookup, ReclaimResources,
     DestroyPool_Lookup, AllocateBufferFromPool_Lookup, PutBufferToPool_Lookup,
     PoolOp_Lookup, db, conf
<1>2. Holding(t)
  <2> USE DEF Holding, CallHolds, CallNamed, Looping
  <2>1. CASE Refused(t)
    BY <2>1 DEF Refused
  <2>2. ASSUME NEW n \in 0 .. MaxNodes, Initialize_Begin(t, n) PROVE Holding(t)
    BY <2>2 DEF Initialize_Begin
  <2>3. CASE DeInitialize_Begin(t)
    BY <2>3 DEF DeInitialize_Begin
  <2>4. ASSUME NEW id \in NodeIds, Register_Check(t, id) PROVE Holding(t)
    BY <2>4 DEF Register_Check
  <2>5. ASSUME NEW h \in Handles, UnRegister_Check(t, h) \/ ReclaimResources(t, h)
        PROVE  Holding(t)
    BY <2>1, <2>5 DEF UnRegister_Check, ReclaimResources
  <2>6. ASSUME NEW h \in Handles, AllocateBuffer_Lookup(t, h) PROVE Holding(t)
    BY <2>1, <2>6 DEF AllocateBuffer_Lookup, IsNodeIdUnique, IsMemoryHandleRegistered
  <2>7. ASSUME NEW h \in Handles, CreatePool_Lookup(t, h) PROVE Holding(t)
    BY <2>1, <2>7 DEF CreatePool_Lookup, Named
  <2>8. ASSUME NEW h \in Handles, NEW b \in Buffers, FreeBuffer_Lookup(t, h, b)
        PROVE  Holding(t)
    BY <2>8 DEF FreeBuffer_Lookup
  <2>9. ASSUME NEW p \in PoolHandles, NEW r, PoolOp_Lookup(t, p, r),
               r.pc \in {"destroy", "get", "put"}
        PROVE  Holding(t)
    BY <2>9 DEF PoolOp_Lookup
  <2>10. ASSUME NEW p \in PoolHandles, DestroyPool_Lookup(t, p) PROVE Holding(t)
    BY <2>9, <2>10 DEF DestroyPool_Lookup
  <2>11. ASSUME NEW p \in PoolHandles, AllocateBufferFromPool_Lookup(t, p)
         PROVE  Holding(t)
    BY <2>9, <2>11 DEF AllocateBufferFromPool_Lookup
  <2>12. ASSUME NEW p \in PoolHandles, NEW b \in Buffers, PutBufferToPool_Lookup(t, p, b)
         PROVE  Holding(t)
    BY <2>9, <2>12 DEF PutBufferToPool_Lookup
  <2> QED BY <2>2, <2>3, <2>4, <2>5, <2>6, <2>7, <2>8, <2>10, <2>11, <2>12 DEF Call
<1> QED BY <1>1, <1>2, HoldingKept

\* Methods that change one entry and return.
LEMMA Release_Commit ==
  ASSUME TypeOK, ReleaseInv, OneClient, NEW t \in Threads, NEW n \in Entries, th[t].n = n,
         \/ \E b \in Buffers : AllocateBuffer_Commit(t, b)
         \/ \E fails \in BOOLEAN : FreeBuffer_Commit(t, fails)
         \/ \E r \in Rnd : \E S \in Batches : CreatePool_Commit(t, r, S)
         \/ \E F \in Batches : DestroyPool_Commit(t, F)
  PROVE  ReleaseInv'
<1>1. /\ InRange(n) /\ Goto(t, Idle) /\ UNCHANGED <<handleToNodeId, numEntries>>
  BY DEF AllocateBuffer_Commit, FreeBuffer_Commit, CreatePool_Commit, TakePoolNumber,
     DestroyPool_Commit, Return, conf
<1>2. CallHolds(Idle)'
  BY DEF CallHolds, CallNamed, CallReleased, Idle, Looping
<1>3. CallHolds(th[t])
  BY DEF ReleaseInv
<1>4. \A p \in poolMap[n] : Named(p[1], n)
  BY DEF ReleaseInv
<1>a. allocationSet \in [Entries -> SUBSET Buffers] /\ poolMap \in [Entries -> SUBSET PoolHandles]
  BY DEF TypeOK, DbOK
<1>5. ASSUME NEW b \in Buffers, AllocateBuffer_Commit(t, b) PROVE ReleaseInv'
  <2>1. ~IsNodeIdUnique(n)
    BY <1>3, <1>5 DEF CallHolds, CallNamed, AllocateBuffer_Commit
  <2>2. /\ \A m \in Entries : m # n => allocationSet'[m] = allocationSet[m]
        /\ poolMap' = poolMap
    BY <1>5, <1>a DEF AllocateBuffer_Commit
  <2> QED BY <1>1, <1>2, <1>4, <2>1, <2>2, EntryChanges
<1>6. ASSUME NEW fails \in BOOLEAN, FreeBuffer_Commit(t, fails) PROVE ReleaseInv'
  <2>1. /\ \A m \in Entries : m # n => allocationSet'[m] = allocationSet[m]
        /\ allocationSet'[n] \subseteq allocationSet[n]
        /\ poolMap' = poolMap
    BY <1>6, <1>a DEF FreeBuffer_Commit, FreeFromSet
  <2> QED BY <1>1, <1>2, <1>4, <2>1, EntryChanges
<1>7. ASSUME NEW r \in Rnd, NEW S \in Batches, CreatePool_Commit(t, r, S) PROVE ReleaseInv'
  <2>1. Named(th[t].h, n)
    BY <1>3, <1>7 DEF CallHolds, CallNamed, CreatePool_Commit, TakePoolNumber
  <2>2. ~IsNodeIdUnique(n)
    BY <2>1 DEF Named, IsNodeIdUnique, IsMemoryHandleRegistered
  <2>3. PICK q : q = NewPoolHandle(t, r)
    OBVIOUS
  <2>4. q[1] = th[t].h
    BY <2>3 DEF NewPoolHandle
  <2>5. /\ \A m \in Entries : m # n => poolMap'[m] = poolMap[m]
        /\ poolMap'[n] = poolMap[n] \cup {q}
        /\ allocationSet' = allocationSet
    BY <1>7, <1>a, <2>3 DEF CreatePool_Commit
  <2>6. \A p \in poolMap'[n] : Named(p[1], n)
    BY <1>4, <2>1, <2>4, <2>5
  <2> QED BY <1>1, <1>2, <2>2, <2>5, <2>6, EntryChanges
<1>8. ASSUME NEW F \in Batches, DestroyPool_Commit(t, F) PROVE ReleaseInv'
  <2>1. /\ \A m \in Entries : m # n => poolMap'[m] = poolMap[m]
        /\ poolMap'[n] \subseteq poolMap[n]
        /\ allocationSet' = allocationSet
    BY <1>8, <1>a DEF DestroyPool_Commit, ErasePool
  <2> QED BY <1>1, <1>2, <1>4, <2>1, EntryChanges
<1> QED BY <1>5, <1>6, <1>7, <1>8

\* Methods that return and leave the entries' contents.
LEMMA Release_Quiet ==
  ASSUME TypeOK, ReleaseInv, OneClient, NEW t \in Threads,
         \/ Register_Refuse(t) \/ WriteBack(t) \/ UnRegister_Fail(t)
         \/ \E general \in BOOLEAN : AllocateBuffer_Fail(t, general)
         \/ FreeBuffer_Refuse(t)
         \/ \E r \in Rnd :
              \/ \E S \in Batches : CreatePool_InitFail(t, r, S) \/ CreatePool_InitRefuse(t, r, S)
              \/ CreatePool_Collide(t, r)
         \/ CreatePool_Full(t) \/ DestroyPool_Refuse(t)
         \/ \E b \in Buffers : AllocateBufferFromPool_Commit(t, b)
         \/ AllocateBufferFromPool_Refuse(t)
         \/ PutBufferToPool_Commit(t) \/ PutBufferToPool_Refuse(t)
  PROVE  ReleaseInv'
<1>1. Return(t) /\ UNCHANGED <<allocationSet, poolMap, handleToNodeId, numEntries>>
  BY DEF Register_Refuse, WriteBack, UnRegister_Fail, AllocateBuffer_Fail,
     FreeBuffer_Refuse, CreatePool_InitFail, CreatePool_Collide, CreatePool_InitRefuse,
     CreatePool_Full, DestroyPool_Refuse, AllocateBufferFromPool_Commit,
     AllocateBufferFromPool_Refuse, PutBufferToPool_Commit, PutBufferToPool_Refuse,
     db, conf
<1> QED BY <1>1, ReturnKept

LEMMA Release_Register ==
  ASSUME TypeOK, ReleaseInv, OneClient, NEW t \in Threads, NEW r \in Rnd,
         Register_Commit(t, r)
  PROVE  ReleaseInv'
<1>1. Return(t) /\ UNCHANGED <<allocationSet, poolMap, numEntries>>
  BY DEF Register_Commit, db, conf
<1>2. CASE UNCHANGED handleToNodeId
  BY <1>1, <1>2, ReturnKept
<1>3. CASE ~UNCHANGED handleToNodeId
  <2>1. PICK h : /\ ~IsMemoryHandleRegistered(h)
                 /\ handleToNodeId' = [k \in DOMAIN handleToNodeId \cup {h} |->
                                         IF k = h THEN th[t].id ELSE handleToNodeId[k]]
    BY <1>3 DEF Register_Commit
  <2>2. \A g, n : Named(g, n) => Named(g, n)'
    BY <2>1 DEF Named, IsMemoryHandleRegistered
  <2>3. \A n : IsNodeIdUnique(n)' => IsNodeIdUnique(n)
    BY <2>1 DEF IsNodeIdUnique, IsMemoryHandleRegistered
  <2>4. CallHolds(Idle)'
    BY DEF CallHolds, CallNamed, CallReleased, Idle, Looping
  <2>5. \A u \in Threads : CallHolds(th[u])'
    <3>1. th'[t] = Idle
      BY <1>1 DEF Return, Goto, TypeOK, CallsOK
    <3> QED BY <2>4, <3>1 DEF OneClient, CallHolds, CallNamed, CallReleased
  <2> QED BY <1>1, <2>2, <2>3, <2>5 DEF ReleaseInv, Empty, InRange
<1> QED BY <1>2, <1>3

\* The handle that goes is the one whose entry has been emptied.
LEMMA Release_UnRegister ==
  ASSUME TypeOK, ReleaseInv, OneClient, NEW t \in Threads, UnRegister_Erase(t)
  PROVE  ReleaseInv'
<1>c. PICK c : c = [pc |-> "writeback", saved |-> "READY"]
  OBVIOUS
<1>1. /\ Goto(t, c) /\ UNCHANGED <<allocationSet, poolMap, numEntries>>
      /\ th[t].pc = "unregister" /\ th[t].ok
  BY <1>c DEF UnRegister_Erase, db, conf
<1>2. PICK h : h = th[t].h
  OBVIOUS
<1>3. PICK n : n = handleToNodeId[h]
  OBVIOUS
<1>4. IsMemoryHandleRegistered(h) /\ Empty(n)
  BY <1>1, <1>2, <1>3 DEF ReleaseInv, CallHolds, CallReleased
<1>5. handleToNodeId' = [k \in DOMAIN handleToNodeId \ {h} |-> handleToNodeId[k]]
  BY <1>2 DEF UnRegister_Erase
<1>6. \A m : IsNodeIdUnique(m)' => IsNodeIdUnique(m) \/ m = n
  BY <1>3, <1>5 DEF IsNodeIdUnique
<1>7. \A g, m : Named(g, m) /\ m # n => Named(g, m)'
  BY <1>3, <1>5 DEF Named, IsMemoryHandleRegistered
<1>8. CallHolds(c)'
  BY <1>c DEF CallHolds, CallNamed, CallReleased, Looping
<1>9. \A u \in Threads : CallHolds(th[u])'
  <2>1. th'[t] = c
    BY <1>1 DEF Goto, TypeOK, CallsOK
  <2> QED BY <1>8, <2>1 DEF OneClient, CallHolds, CallNamed, CallReleased
<1> QED BY <1>1, <1>4, <1>6, <1>7, <1>9 DEF ReleaseInv, Empty, InRange

\* The lifecycle calls: an entry that comes into range is empty, and an entry
\* that goes out of range is emptied.
LEMMA Release_Lifecycle ==
  ASSUME TypeOK, ReleaseInv, OneClient, NEW t \in Threads,
         \/ Initialize_End(t) \/ \E h \in Handles : DeInitialize_Next(t, h)
         \/ DeInitialize_End(t) \/ UndefinedAccess(t)
  PROVE  ReleaseInv'
<1>a. numEntries \in Nat /\ numOfNodes \in Nat
  BY ConstantsAssumption DEF TypeOK, ConfOK
<1>b. CallHolds(Idle)'
  BY DEF CallHolds, CallNamed, CallReleased, Idle, Looping
<1>c. Return(t) => \A u \in Threads : CallHolds(th[u])'
  <2>1. Return(t) => th'[t] = Idle
    BY DEF Return, Goto, TypeOK, CallsOK
  <2> QED BY <1>b, <2>1 DEF OneClient, CallHolds, CallNamed, CallReleased
<1>1. CASE Initialize_End(t)
  <2>1. /\ Return(t) /\ UNCHANGED <<allocationSet, poolMap, handleToNodeId>>
    BY <1>1 DEF Initialize_End
  <2>2. ASSUME NEW n \in Entries
        PROVE  /\ ~InRange(n)' => Empty(n)'
               /\ InRange(n)' /\ IsNodeIdUnique(n)' => Empty(n)'
    <3>1. n \in Int /\ numEntries' \in Int /\ numEntries <= numEntries'
      BY <1>1, <1>a DEF Entries, Initialize_End
    <3> QED BY <1>a, <2>1, <3>1 DEF ReleaseInv, InRange, Empty, IsNodeIdUnique
  <2>3. \A n \in Entries : \A p \in poolMap'[n] : Named(p[1], n)'
    BY <2>1 DEF ReleaseInv, Named, IsMemoryHandleRegistered
  <2> QED BY <1>c, <2>1, <2>2, <2>3 DEF ReleaseInv
<1>2. ASSUME NEW h \in Handles, DeInitialize_Next(t, h) PROVE ReleaseInv'
  <2>1. Holding(t)
    BY <1>2 DEF DeInitialize_Next, Holding, CallHolds, CallNamed, Looping
  <2> QED BY <1>2, <2>1, HoldingKept DEF DeInitialize_Next, db, conf
<1>3. CASE DeInitialize_End(t)
  <2>1. PICK left \in Int : left = numEntries - numOfNodes
    BY <1>a
  <2>2. /\ Return(t) /\ UNCHANGED handleToNodeId
        /\ numEntries' = left
        /\ allocationSet' = [i \in Entries |-> IF i < left THEN allocationSet[i] ELSE {}]
        /\ poolMap' = [i \in Entries |-> IF i < left THEN poolMap[i] ELSE {}]
    BY <1>3, <2>1 DEF DeInitialize_End
  <2>3. ASSUME NEW n \in Entries
        PROVE  /\ ~InRange(n)' => Empty(n)'
               /\ InRange(n)' /\ IsNodeIdUnique(n)' => Empty(n)'
               /\ \A p \in poolMap'[n] : Named(p[1], n)'
    <3>1. n \in Int
      BY DEF Entries
    <3>2. CASE n < left
      BY <1>a, <2>1, <2>2, <3>1, <3>2 DEF ReleaseInv, InRange, IsNodeIdUnique, Empty, Named,
         IsMemoryHandleRegistered
    <3>3. CASE ~(n < left)
      BY <2>2, <3>3 DEF InRange, Empty
    <3> QED BY <3>2, <3>3
  <2> QED BY <1>c, <2>2, <2>3 DEF ReleaseInv
<1>4. CASE UndefinedAccess(t)
  <2>1. /\ \A u \in Threads : th'[u] = Idle
        /\ UNCHANGED <<allocationSet, poolMap, handleToNodeId, numEntries>>
    BY <1>4 DEF UndefinedAccess, Undefined, db, conf
  <2>2. \A u \in Threads : CallHolds(th[u])'
    BY <1>b, <2>1 DEF CallHolds, CallNamed, CallReleased
  <2> QED BY <2>1, <2>2 DEF ReleaseInv, Empty, InRange, Named, IsMemoryHandleRegistered,
             IsNodeIdUnique
<1> QED BY <1>1, <1>2, <1>3, <1>4

\* The steps of ReclaimResources that leave the entries as they are.
LEMMA Release_Going ==
  ASSUME TypeOK, ReleaseInv, OneClient, NEW t \in Threads,
         \/ Reclaim_Lookup(t)
         \/ Reclaim_CopyBuffers(t) \/ Reclaim_BuffersDone(t) \/ Reclaim_CopyPools(t)
         \/ \E b \in Buffers : Reclaim_FreeBuffer_Lookup(t, b)
         \/ Reclaim_FreeBuffer_Refuse(t)
         \/ \E p \in PoolHandles : Reclaim_DestroyPool_Lookup(t, p)
         \/ Reclaim_DestroyPool_Refuse(t) \/ Reclaim_End(t)
  PROVE  ReleaseInv'
<1>1. UNCHANGED <<allocationSet, poolMap, handleToNodeId, numEntries>>
  BY DEF Reclaim_Lookup, Reclaim_CopyBuffers, Reclaim_BuffersDone, Reclaim_CopyPools,
     Reclaim_FreeBuffer_Lookup, Reclaim_FreeBuffer_Refuse, Reclaim_DestroyPool_Lookup,
     Reclaim_DestroyPool_Refuse, Reclaim_End, db, conf
<1>a. CallHolds(th[t]) /\ CallOK(th[t])
  BY DEF ReleaseInv, TypeOK, CallsOK
<1>b. \A n \in Entries : \A p \in poolMap[n] : Named(p[1], n)
  BY DEF ReleaseInv
<1>c. th[t].pc \in Looping => th[t].n \in Entries
  BY <1>a, NodeIsEntry DEF CallOK, Looping, ReclaimPoints
<1>2. Holding(t)
  <2> USE DEF CallHolds, CallNamed, CallReleased, Looping
  <2>1. CASE Reclaim_Lookup(t)
    <3>1. CASE IsMemoryHandleRegistered(th[t].h)
      <4>1. PICK c :
              /\ Goto(t, c)
              /\ c = [pc      |-> "copyBuffers",
                      h       |-> th[t].h,
                      caller  |-> th[t].caller,
                      handles |-> th[t].handles,
                      ok      |-> TRUE /\ th[t].ok,
                      saved   |-> m_state,
                      n       |-> handleToNodeId[th[t].h],
                      todo    |-> {}]
        BY <2>1, <3>1 DEF Reclaim_Lookup
      <4>2. c.pc = "copyBuffers" /\ c.h = th[t].h /\ c.n = handleToNodeId[th[t].h]
        BY <4>1
      <4>3. CallNamed(c) /\ CallReleased(c)
        BY <3>1, <4>2 DEF Named
      <4> QED BY <4>1, <4>3 DEF Holding
    <3>2. CASE ~IsMemoryHandleRegistered(th[t].h)
      <4>1. PICK c :
              /\ Goto(t, c)
              /\ c = [pc      |-> "reclaimed",
                      h       |-> th[t].h,
                      caller  |-> th[t].caller,
                      handles |-> th[t].handles,
                      ok      |-> FALSE,
                      saved   |-> m_state,
                      n       |-> 0,
                      todo    |-> {}]
        BY <2>1, <3>2 DEF Reclaim_Lookup
      <4>2. c.pc = "reclaimed" /\ c.ok = FALSE
        BY <4>1
      <4> QED BY <4>1, <4>2 DEF Holding
    <3> QED BY <3>1, <3>2
  <2>2. ASSUME NEW pc \in {"freeBuffers", "copyPools", "destroyPools"}, NEW todo,
               NEW good \in BOOLEAN, th[t].pc \in Looping, Goto(t, ReclaimAt(t, pc, todo, good)),
               pc = "destroyPools" => \A p \in todo : Named(p[1], th[t].n),
               th[t].ok /\ good =>
                 /\ pc = "freeBuffers" => allocationSet[th[t].n] \subseteq todo
                 /\ pc # "freeBuffers" => allocationSet[th[t].n] = {}
                 /\ pc = "destroyPools" => poolMap[th[t].n] \subseteq todo
        PROVE  Holding(t)
    <3>1. PICK c : c = ReclaimAt(t, pc, todo, good)
      OBVIOUS
    <3>2. /\ c.pc = pc /\ c.todo = todo /\ c.ok = (th[t].ok /\ good)
          /\ c.h = th[t].h /\ c.n = th[t].n
      BY <3>1 DEF ReclaimAt
    <3>3. Named(th[t].h, th[t].n)
      BY <1>a, <2>2
    <3>4. CallNamed(c)
      BY <2>2, <3>2, <3>3
    <3>5. c.ok => CallReleased(c)
      BY <2>2, <3>2
    <3> QED BY <2>2, <3>1, <3>4, <3>5 DEF Holding
  <2>3. CASE Reclaim_CopyBuffers(t)
    <3>1. /\ th[t].pc = "copyBuffers"
          /\ Goto(t, ReclaimAt(t, "freeBuffers", allocationSet[th[t].n], TRUE))
      BY <2>3 DEF Reclaim_CopyBuffers
    <3> QED BY <2>2, <3>1
  <2>4. CASE Reclaim_BuffersDone(t)
    <3>1. /\ th[t].pc = "freeBuffers" /\ th[t].todo = {}
          /\ Goto(t, ReclaimAt(t, "copyPools", {}, TRUE))
      BY <2>4 DEF Reclaim_BuffersDone
    <3>2. th[t].ok => allocationSet[th[t].n] = {}
      BY <1>a, <3>1
    <3> QED BY <2>2, <3>1, <3>2
  <2>5. CASE Reclaim_CopyPools(t)
    <3>1. /\ th[t].pc = "copyPools"
          /\ Goto(t, ReclaimAt(t, "destroyPools", poolMap[th[t].n], TRUE))
      BY <2>5 DEF Reclaim_CopyPools
    <3>2. th[t].ok => allocationSet[th[t].n] = {}
      BY <1>a, <3>1
    <3>3. \A p \in poolMap[th[t].n] : Named(p[1], th[t].n)
      BY <1>b, <1>c, <3>1
    <3> QED BY <2>2, <3>1, <3>2, <3>3
  <2>6. CASE Reclaim_FreeBuffer_Refuse(t)
    <3>1. /\ th[t].pc = "freeBuffer"
          /\ Goto(t, ReclaimAt(t, "freeBuffers", th[t].todo, FALSE))
      BY <2>6 DEF Reclaim_FreeBuffer_Refuse
    <3> QED BY <2>2, <3>1
  <2>7. CASE Reclaim_DestroyPool_Refuse(t)
    <3>1. /\ th[t].pc = "destroyPool"
          /\ Goto(t, ReclaimAt(t, "destroyPools", th[t].todo, FALSE))
      BY <2>7 DEF Reclaim_DestroyPool_Refuse
    <3>2. \A p \in th[t].todo : Named(p[1], th[t].n)
      BY <1>a, <3>1
    <3> QED BY <2>2, <3>1, <3>2
  <2>8. ASSUME NEW b \in Buffers, Reclaim_FreeBuffer_Lookup(t, b) PROVE Holding(t)
    <3>1. /\ th[t].pc = "freeBuffers"
          /\ ReleaseLookup(t, b, th[t].h, "freeBuffer")
      BY <2>8 DEF Reclaim_FreeBuffer_Lookup
    <3>2. Named(th[t].h, th[t].n)
      BY <1>a, <3>1
    <3>3. CASE Goto(t, ReclaimAt(t, th[t].pc, th[t].todo \ {b}, FALSE))
      BY <2>2, <3>1, <3>3
    <3>4. CASE ~Goto(t, ReclaimAt(t, th[t].pc, th[t].todo \ {b}, FALSE))
      <4>1. PICK c :
              /\ Goto(t, c)
              /\ c = [pc |-> "freeBuffer", h |-> th[t].h, caller |-> th[t].caller,
                      handles |-> th[t].handles, ok |-> th[t].ok, saved |-> th[t].saved,
                      n |-> th[t].n, todo |-> th[t].todo \ {b},
                      x |-> b, m |-> handleToNodeId[th[t].h]]
        BY <3>1, <3>4 DEF ReleaseLookup
      <4>2. /\ c.pc = "freeBuffer" /\ c.h = th[t].h /\ c.ok = th[t].ok /\ c.n = th[t].n
            /\ c.todo = th[t].todo \ {b} /\ c.x = b /\ c.m = handleToNodeId[th[t].h]
        BY <4>1
      <4>3. Named(th[t].h, th[t].n)
        BY <1>a, <3>1
      <4>4. CallNamed(c)
        BY <3>1, <3>2, <4>2, <4>3 DEF Named
      <4>5. c.ok => CallReleased(c)
        BY <1>a, <3>1, <4>2
      <4> QED BY <4>1, <4>4, <4>5 DEF Holding
    <3> QED BY <3>3, <3>4
  <2>9. ASSUME NEW p \in PoolHandles, Reclaim_DestroyPool_Lookup(t, p) PROVE Holding(t)
    <3>1. /\ th[t].pc = "destroyPools" /\ p \in th[t].todo
          /\ ReleaseLookup(t, p, p[1], "destroyPool")
      BY <2>9 DEF Reclaim_DestroyPool_Lookup
    <3>2. \A q \in th[t].todo : Named(q[1], th[t].n)
      BY <1>a, <3>1
    <3>3. CASE Goto(t, ReclaimAt(t, th[t].pc, th[t].todo \ {p}, FALSE))
      BY <2>2, <3>1, <3>2, <3>3
    <3>4. CASE ~Goto(t, ReclaimAt(t, th[t].pc, th[t].todo \ {p}, FALSE))
      <4>1. PICK c :
              /\ Goto(t, c)
              /\ c = [pc |-> "destroyPool", h |-> th[t].h, caller |-> th[t].caller,
                      handles |-> th[t].handles, ok |-> th[t].ok, saved |-> th[t].saved,
                      n |-> th[t].n, todo |-> th[t].todo \ {p},
                      x |-> p, m |-> handleToNodeId[p[1]]]
        BY <3>1, <3>4 DEF ReleaseLookup
      <4>2. /\ c.pc = "destroyPool" /\ c.h = th[t].h /\ c.ok = th[t].ok /\ c.n = th[t].n
            /\ c.todo = th[t].todo \ {p} /\ c.x = p /\ c.m = handleToNodeId[p[1]]
        BY <4>1
      <4>3. Named(th[t].h, th[t].n)
        BY <1>a, <3>1
      <4>4. CallNamed(c)
        BY <3>1, <3>2, <4>2, <4>3 DEF Named
      <4>5. c.ok => CallReleased(c)
        BY <1>a, <3>1, <4>2
      <4> QED BY <4>1, <4>4, <4>5 DEF Holding
    <3> QED BY <3>3, <3>4
  <2>10. CASE Reclaim_End(t)
    <3>1. /\ th[t].pc = "reclaimed" \/ (th[t].pc = "destroyPools" /\ th[t].todo = {})
          /\ Goto(t, CASE th[t].caller = "client" -> Idle
               [] th[t].caller = "UnRegister" ->
                    [pc |-> "unregister", h |-> th[t].h, ok |-> th[t].ok]
               [] th[t].caller = "DeInitialize" ->
                    [pc |-> "deinit", handles |-> th[t].handles, ok |-> th[t].ok])
      BY <2>10 DEF Reclaim_End
    <3>2. th[t].caller \in {"client", "UnRegister", "DeInitialize"}
      BY <1>a, <3>1 DEF CallOK, ReclaimPoints
    <3>3. CASE th[t].caller = "client"
      BY <3>1, <3>3, IdleHolds DEF Holding
    <3>4. CASE th[t].caller = "UnRegister"
      <4>1. th[t].ok => IsMemoryHandleRegistered(th[t].h) /\ Empty(handleToNodeId[th[t].h])
        BY <1>a, <3>1 DEF Named, Empty
      <4> QED BY <3>1, <3>4, <4>1 DEF Holding
    <3>5. CASE th[t].caller = "DeInitialize"
      BY <3>1, <3>5 DEF Holding
    <3> QED BY <3>2, <3>3, <3>4, <3>5
  <2> QED BY <2>1, <2>3, <2>4, <2>5, <2>6, <2>7, <2>8, <2>9, <2>10
<1> QED BY <1>1, <1>2, HoldingKept

\* A release that the loop makes: what it takes out of the entry is the
\* element it is at; a failed one clears the call's ok.
LEMMA Release_FreeBuffer ==
  ASSUME TypeOK, ReleaseInv, OneClient, NEW t \in Threads, NEW fails \in BOOLEAN,
         Reclaim_FreeBuffer_Commit(t, fails)
  PROVE  ReleaseInv'
<1>1. PICK n : n = th[t].n
  OBVIOUS
<1>2. PICK c : c = ReclaimAt(t, "freeBuffers", th[t].todo, ~fails)
  OBVIOUS
<1>3. /\ c.pc = "freeBuffers" /\ c.todo = th[t].todo /\ c.ok = (th[t].ok /\ ~fails)
      /\ c.h = th[t].h /\ c.n = n
  BY <1>1, <1>2 DEF ReclaimAt
<1>4. /\ th[t].pc = "freeBuffer" /\ InRange(th[t].m) /\ Goto(t, c)
      /\ FreeFromSet(th[t].m, th[t].x, fails)
      /\ UNCHANGED <<poolMap, handleToNodeId, numEntries>>
  BY <1>2 DEF Reclaim_FreeBuffer_Commit, conf
<1>5. CallHolds(th[t]) /\ CallOK(th[t])
  BY DEF ReleaseInv, TypeOK, CallsOK
<1>6. Named(c.h, n) /\ th[t].m = n
  BY <1>1, <1>3, <1>4, <1>5 DEF CallHolds, CallNamed, Looping
<1>7. n \in Entries
  BY <1>1, <1>4, <1>5, NodeIsEntry DEF CallOK, ReclaimPoints
<1>8. /\ \A m \in Entries : m # n => allocationSet'[m] = allocationSet[m]
      /\ allocationSet'[n] \subseteq allocationSet[n]
      /\ ~fails => allocationSet'[n] = allocationSet[n] \ {th[t].x}
  <2>1. allocationSet \in [Entries -> SUBSET Buffers]
    BY DEF TypeOK, DbOK
  <2> QED BY <1>4, <1>6, <1>7, <2>1 DEF FreeFromSet
<1>9. c.ok => allocationSet'[n] \subseteq c.todo
  <2>1. th[t].ok => allocationSet[n] \subseteq th[t].todo \cup {th[t].x}
    BY <1>1, <1>4, <1>5 DEF CallHolds, CallReleased, Looping
  <2> QED BY <1>3, <1>8, <2>1
<1>10. CallHolds(c)'
  <2>1. Named(c.h, n)'
    BY <1>4, <1>6 DEF Named, IsMemoryHandleRegistered
  <2> QED BY <1>3, <1>9, <2>1 DEF CallHolds, CallNamed, CallReleased, Looping
<1>11. \A p \in poolMap'[n] : Named(p[1], n)
  BY <1>4, <1>7 DEF ReleaseInv
<1> QED BY <1>4, <1>6, <1>7, <1>8, <1>10, <1>11, EntryChanges

LEMMA Release_DestroyPool ==
  ASSUME TypeOK, ReleaseInv, OneClient, NEW t \in Threads, NEW F \in Batches,
         Reclaim_DestroyPool_Commit(t, F)
  PROVE  ReleaseInv'
<1>1. PICK n : n = th[t].n
  OBVIOUS
<1>2. PICK c : c = ReclaimAt(t, "destroyPools", th[t].todo, TRUE)
  OBVIOUS
<1>3. /\ c.pc = "destroyPools" /\ c.todo = th[t].todo /\ c.ok = th[t].ok
      /\ c.h = th[t].h /\ c.n = n
  <2>1. CallOK(th[t]) /\ th[t].pc = "destroyPool"
    BY DEF TypeOK, CallsOK, Reclaim_DestroyPool_Commit
  <2>2. th[t].ok \in BOOLEAN
    BY <2>1 DEF CallOK, ReclaimPoints
  <2> QED BY <1>1, <1>2, <2>2 DEF ReclaimAt
<1>4. /\ th[t].pc = "destroyPool" /\ InRange(th[t].m) /\ Goto(t, c)
      /\ poolMap' = [poolMap EXCEPT ![th[t].m] = @ \ {th[t].x}]
      /\ UNCHANGED <<allocationSet, handleToNodeId, numEntries>>
  BY <1>2 DEF Reclaim_DestroyPool_Commit, ErasePool, conf
<1>5. CallHolds(th[t]) /\ CallOK(th[t])
  BY DEF ReleaseInv, TypeOK, CallsOK
<1>6. Named(c.h, n) /\ th[t].m = n /\ \A p \in c.todo : Named(p[1], n)
  BY <1>1, <1>3, <1>4, <1>5 DEF CallHolds, CallNamed, Looping
<1>7. n \in Entries
  BY <1>1, <1>4, <1>5, NodeIsEntry DEF CallOK, ReclaimPoints
<1>8. /\ \A m \in Entries : m # n => poolMap'[m] = poolMap[m]
      /\ poolMap'[n] = poolMap[n] \ {th[t].x}
  <2>1. poolMap \in [Entries -> SUBSET PoolHandles]
    BY DEF TypeOK, DbOK
  <2> QED BY <1>4, <1>6, <1>7, <2>1
<1>9. c.ok => poolMap'[n] \subseteq c.todo /\ allocationSet'[n] = {}
  <2>1. th[t].ok => /\ poolMap[n] \subseteq th[t].todo \cup {th[t].x}
                    /\ allocationSet[n] = {}
    BY <1>1, <1>4, <1>5 DEF CallHolds, CallReleased, Looping
  <2> QED BY <1>3, <1>4, <1>8, <2>1
<1>10. CallHolds(c)'
  <2>1. /\ Named(c.h, n)'
        /\ \A p \in c.todo : Named(p[1], n)'
    BY <1>4, <1>6 DEF Named, IsMemoryHandleRegistered
  <2> QED BY <1>3, <1>9, <2>1 DEF CallHolds, CallNamed, CallReleased, Looping
<1>11. \A p \in poolMap'[n] : Named(p[1], n)
  BY <1>7, <1>8 DEF ReleaseInv
<1> QED BY <1>4, <1>6, <1>7, <1>8, <1>10, <1>11, EntryChanges

LEMMA ReleaseContinue ==
  ASSUME TypeOK, ReleaseInv, OneClient, NEW t \in Threads, Continue(t)
  PROVE  ReleaseInv'
<1> USE CallNames
<1>1. ASSUME NEW b \in Buffers, AllocateBuffer_Commit(t, b) PROVE ReleaseInv'
  BY <1>1, Release_Commit DEF AllocateBuffer_Commit
<1>2. ASSUME NEW fails \in BOOLEAN, FreeBuffer_Commit(t, fails) PROVE ReleaseInv'
  BY <1>2, Release_Commit DEF FreeBuffer_Commit
<1>3. ASSUME NEW r \in Rnd, NEW S \in Batches, CreatePool_Commit(t, r, S) PROVE ReleaseInv'
  BY <1>3, Release_Commit DEF CreatePool_Commit, TakePoolNumber
<1>4. ASSUME NEW F \in Batches, DestroyPool_Commit(t, F) PROVE ReleaseInv'
  BY <1>4, Release_Commit DEF DestroyPool_Commit
<1>5. ASSUME NEW fails \in BOOLEAN, Reclaim_FreeBuffer_Commit(t, fails) PROVE ReleaseInv'
  BY <1>5, Release_FreeBuffer
<1>6. ASSUME NEW F \in Batches, Reclaim_DestroyPool_Commit(t, F) PROVE ReleaseInv'
  BY <1>6, Release_DestroyPool
<1>7. ASSUME NEW r \in Rnd, Register_Commit(t, r) PROVE ReleaseInv'
  BY <1>7, Release_Register
<1>8. CASE UnRegister_Erase(t)
  BY <1>8, Release_UnRegister
<1> QED BY <1>1, <1>2, <1>3, <1>4, <1>5, <1>6, <1>7, <1>8, Release_Quiet,
           Release_Lifecycle, Release_Going DEF Continue

LEMMA ReleaseStep == OneClient /\ TypeOK /\ ReleaseInv /\ [Next]_vars => ReleaseInv'
<1> SUFFICES ASSUME OneClient, TypeOK, ReleaseInv, [Next]_vars PROVE ReleaseInv'
  OBVIOUS
<1>1. ASSUME UNCHANGED vars PROVE ReleaseInv'
  BY <1>1 DEF vars, conf, db, ReleaseInv, CallHolds, CallNamed, CallReleased, Empty, Named,
     InRange, IsMemoryHandleRegistered, IsNodeIdUnique
<1> QED BY <1>1, Release_Call, ReleaseContinue DEF Next, Crashed

LEMMA ReleaseInit == Init => ReleaseInv
BY IdleHolds DEF Init, ReleaseInv, Empty

LEMMA ReleaseCorrect == ASSUME OneClient PROVE Spec => []ReleaseInv
BY ReleaseInit, ReleaseStep, TypeCorrect, PTL DEF Spec

\* With one client thread UnRegister releases everything before the handle
\* disappears, whatever allocators fail and whatever DeInitialize leaves behind:
\* an entry of m_pools and m_allocations that no handle names is empty.
THEOREM UnregisteredNodesOwnNothing ==
  ASSUME OneClient PROVE Spec => []UnregisteredOwnsNothing
<1>1. ReleaseInv => UnregisteredOwnsNothing
  BY DEF ReleaseInv, UnregisteredOwnsNothing, Empty
<1> QED BY <1>1, ReleaseCorrect, PTL

\* With one client thread DestroyPool can reach every pool: the memory handle
\* inside the pool's own handle is registered and names the entry the pool is
\* in, also while ReclaimResources works through its copies of the entry.
THEOREM PoolsAreReachable ==
  ASSUME OneClient PROVE Spec => []PoolsReachable
<1>1. ReleaseInv => PoolsReachable
  BY DEF ReleaseInv, PoolsReachable, Named
<1> QED BY <1>1, ReleaseCorrect, PTL

----------------------------------------------------------------------------
(* The error state, for one client thread: what a call has read of m_state *)
(* is still so when it stores it back.                                     *)

CallReads(c) ==
  /\ c.pc \in {"register", "alloc", "free", "create", "destroy", "get", "put"} =>
       m_state = "READY"
  /\ c.pc = "writeback" /\ m_state = "ERROR" => c.saved = "ERROR"
  /\ c.pc = "initialize" => m_state \in {c.saved, "INITIALIZING"}
  /\ c.pc = "reclaim" /\ c.caller = "UnRegister" => m_state = "READY"
  /\ c.pc \in ReclaimPoints \ {"reclaim"} /\ c.caller = "UnRegister" /\ c.saved = "ERROR" =>
       ~c.ok
  /\ c.pc = "unregister" /\ m_state = "ERROR" => ~c.ok

StateInv == \A t \in Threads : CallReads(th[t])

\* What is pending of one call.
Held(c) ==
  /\ c.pc # "deinit" /\ ~(c.pc \in ReclaimPoints /\ c.caller = "DeInitialize")
  /\ IF c.pc \in ReclaimPoints \ {"reclaim"} THEN c.saved = "ERROR" ELSE m_state = "ERROR"
InDeInitialize(c) == c.pc = "deinit" \/ (c.pc \in ReclaimPoints /\ c.caller = "DeInitialize")

\* A step to the call c is well if c has read what is so and keeps the error.
Keeps(t, c) ==
  /\ CallReads(c)'
  /\ Held(th[t]) /\ ~InDeInitialize(c) /\ ~fault' => Held(c)'

KeptBy(t) == \E c : Goto(t, c) /\ Keeps(t, c)

LEMMA Keeping ==
  ASSUME TypeOK, OneClient, NEW t \in Threads, KeptBy(t)
  PROVE  /\ StateInv'
         /\ ErrorPending /\ ~DeInitializing' /\ ~fault' => ErrorPending'
<1>1. PICK c : Goto(t, c) /\ Keeps(t, c)
  BY DEF KeptBy
<1>2. th'[t] = c
  BY <1>1 DEF Goto, TypeOK, CallsOK
<1>3. \A u \in Threads : u = t
  BY DEF OneClient
<1>4. StateInv'
  BY <1>1, <1>2, <1>3 DEF Keeps, StateInv, CallReads
<1>5. ErrorPending => Held(th[t])
  BY DEF ErrorPending, DeInitializing, Held
<1>6. ~DeInitializing' => ~InDeInitialize(c)
  BY <1>2 DEF DeInitializing, InDeInitialize
<1>7. Held(c)' => ErrorPending'
  BY <1>2, <1>3 DEF ErrorPending, DeInitializing, Held
<1> QED BY <1>1, <1>4, <1>5, <1>6, <1>7 DEF Keeps

\* A call that returns, and the state that it leaves.
LEMMA ReturnKeeps ==
  ASSUME NEW t \in Threads, Return(t), Held(th[t]) => m_state' = "ERROR"
  PROVE  KeptBy(t)
<1>1. Keeps(t, Idle)
  BY DEF Keeps, CallReads, Held, Idle, ReclaimPoints
<1> QED BY <1>1 DEF KeptBy, Return

LEMMA State_Call ==
  ASSUME TypeOK, StateInv, OneClient, NEW t \in Threads, Call(t)
  PROVE  KeptBy(t)
<1>0. th[t].pc = "idle"
  BY DEF Call, MayCall, Initialize_Begin, DeInitialize_Begin, Register_Check,
     UnRegister_Check, AllocateBuffer_Lookup, FreeBuffer_Lookup, CreatePool_Lookup,
     ReclaimResources, DestroyPool_Lookup, AllocateBufferFromPool_Lookup,
     PutBufferToPool_Lookup, PoolOp_Lookup
<1> USE DEF KeptBy, Keeps, CallReads, Held, InDeInitialize, ReclaimPoints
<1>1. CASE Refused(t) /\ UNCHANGED m_state
  BY <1>0, <1>1 DEF Refused
<1>2. ASSUME NEW n \in 0 .. MaxNodes, Initialize_Begin(t, n) PROVE KeptBy(t)
  BY <1>0, <1>2 DEF Initialize_Begin
<1>3. CASE DeInitialize_Begin(t)
  BY <1>3 DEF DeInitialize_Begin
<1>4. ASSUME NEW id \in NodeIds, Register_Check(t, id) PROVE KeptBy(t)
  BY <1>0, <1>4 DEF Register_Check
<1>5. ASSUME NEW h \in Handles, UnRegister_Check(t, h) PROVE KeptBy(t)
  BY <1>0, <1>1, <1>5 DEF UnRegister_Check
<1>6. ASSUME NEW h \in Handles, ReclaimResources(t, h) PROVE KeptBy(t)
  BY <1>0, <1>6 DEF ReclaimResources
<1>7. ASSUME NEW h \in Handles, AllocateBuffer_Lookup(t, h) PROVE KeptBy(t)
  BY <1>0, <1>1, <1>7 DEF AllocateBuffer_Lookup
<1>8. ASSUME NEW h \in Handles, CreatePool_Lookup(t, h) PROVE KeptBy(t)
  BY <1>0, <1>1, <1>8 DEF CreatePool_Lookup
<1>9. ASSUME NEW h \in Handles, NEW b \in Buffers, FreeBuffer_Lookup(t, h, b)
      PROVE  KeptBy(t)
  BY <1>0, <1>9 DEF FreeBuffer_Lookup
<1>10. ASSUME NEW p \in PoolHandles, NEW r, PoolOp_Lookup(t, p, r),
              r.pc \in {"destroy", "get", "put"}
       PROVE  KeptBy(t)
  BY <1>0, <1>10 DEF PoolOp_Lookup
<1>11. ASSUME NEW p \in PoolHandles, DestroyPool_Lookup(t, p) PROVE KeptBy(t)
  BY <1>10, <1>11 DEF DestroyPool_Lookup
<1>12. ASSUME NEW p \in PoolHandles, AllocateBufferFromPool_Lookup(t, p) PROVE KeptBy(t)
  BY <1>10, <1>12 DEF AllocateBufferFromPool_Lookup
<1>13. ASSUME NEW p \in PoolHandles, NEW b \in Buffers, PutBufferToPool_Lookup(t, p, b)
       PROVE  KeptBy(t)
  BY <1>10, <1>13 DEF PutBufferToPool_Lookup
<1> QED BY <1>2, <1>3, <1>4, <1>5, <1>6, <1>7, <1>8, <1>9, <1>11, <1>12, <1>13 DEF Call

\* The methods that return.
LEMMA State_Return ==
  ASSUME TypeOK, StateInv, NEW t \in Threads,
         \/ Initialize_End(t) \/ DeInitialize_End(t)
         \/ \E r \in Rnd : Register_Commit(t, r)
         \/ Register_Refuse(t) \/ WriteBack(t) \/ UnRegister_Fail(t)
         \/ \E b \in Buffers : AllocateBuffer_Commit(t, b)
         \/ \E general \in BOOLEAN : AllocateBuffer_Fail(t, general)
         \/ \E fails \in BOOLEAN : FreeBuffer_Commit(t, fails)
         \/ FreeBuffer_Refuse(t)
         \/ \E r \in Rnd :
              \/ \E S \in Batches :
                   \/ CreatePool_Commit(t, r, S)
                   \/ CreatePool_InitFail(t, r, S)
                   \/ CreatePool_InitRefuse(t, r, S)
              \/ CreatePool_Collide(t, r)
         \/ CreatePool_Full(t) \/ DestroyPool_Refuse(t)
         \/ \E F \in Batches : DestroyPool_Commit(t, F)
         \/ \E b \in Buffers : AllocateBufferFromPool_Commit(t, b)
         \/ AllocateBufferFromPool_Refuse(t)
         \/ PutBufferToPool_Commit(t) \/ PutBufferToPool_Refuse(t)
  PROVE  KeptBy(t)
<1>0. Return(t)
  BY DEF Initialize_End, DeInitialize_End, Register_Commit, Register_Refuse, WriteBack,
     UnRegister_Fail, AllocateBuffer_Commit, AllocateBuffer_Fail,
     FreeBuffer_Commit, FreeBuffer_Refuse, CreatePool_Commit, CreatePool_InitFail,
     CreatePool_Collide, CreatePool_InitRefuse, CreatePool_Full, DestroyPool_Commit,
     DestroyPool_Refuse, AllocateBufferFromPool_Commit, AllocateBufferFromPool_Refuse,
     PutBufferToPool_Commit, PutBufferToPool_Refuse
<1>r. CallReads(th[t])
  BY DEF StateInv
<1>1. CASE Initialize_End(t)
  BY <1>0, <1>1, <1>r, ReturnKeeps DEF Initialize_End, CallReads, Held, ReclaimPoints
<1>2. CASE DeInitialize_End(t)
  BY <1>0, <1>2, ReturnKeeps DEF DeInitialize_End, Held
<1>3. CASE WriteBack(t)
  BY <1>0, <1>3, <1>r, ReturnKeeps DEF WriteBack, CallReads, Held, ReclaimPoints
<1>4. CASE UnRegister_Fail(t)
  BY <1>0, <1>4, ReturnKeeps DEF UnRegister_Fail
<1>6. CASE th[t].pc \in {"register", "alloc", "free", "create", "destroy", "get", "put"}
  <2>1. ~Held(th[t])
    BY <1>6, <1>r DEF CallReads, Held, ReclaimPoints
  <2> QED BY <1>0, <2>1, ReturnKeeps
<1>7. CASE ~(\/ Initialize_End(t) \/ DeInitialize_End(t) \/ WriteBack(t) \/ UnRegister_Fail(t))
  <2>1. th[t].pc \in {"register", "alloc", "free", "create", "destroy", "get", "put"}
    BY <1>7 DEF Register_Commit, Register_Refuse, AllocateBuffer_Commit, AllocateBuffer_Fail,
       FreeBuffer_Commit, FreeBuffer_Refuse, CreatePool_Commit, CreatePool_InitFail,
       CreatePool_Collide, CreatePool_InitRefuse, CreatePool_Full, TakePoolNumber,
       DestroyPool_Commit, DestroyPool_Refuse, AllocateBufferFromPool_Commit,
       AllocateBufferFromPool_Refuse, PutBufferToPool_Commit, PutBufferToPool_Refuse
  <2> QED BY <1>6, <2>1
<1> QED BY <1>1, <1>2, <1>3, <1>4, <1>7

\* UnRegister goes on to store the READY it read on entry.
LEMMA State_UnRegister ==
  ASSUME StateInv, NEW t \in Threads, UnRegister_Erase(t)
  PROVE  KeptBy(t)
<1>1. PICK c : c = [pc |-> "writeback", saved |-> "READY"]
  OBVIOUS
<1>2. Goto(t, c) /\ m_state' = m_state /\ m_state # "ERROR" /\ th[t].pc = "unregister"
  BY <1>1 DEF UnRegister_Erase, StateInv, CallReads
<1>3. Keeps(t, c)
  BY <1>1, <1>2 DEF Keeps, CallReads, Held, ReclaimPoints
<1> QED BY <1>2, <1>3 DEF KeptBy

\* ReclaimResources on its way: its state is kept, or has become ERROR.
LEMMA ReclaimKeeps ==
  ASSUME StateInv, NEW t \in Threads, th[t].pc \in ReclaimPoints \ {"reclaim"},
         NEW c, Goto(t, c), c.pc \in ReclaimPoints \ {"reclaim"}, c.caller = th[t].caller,
         \/ c.saved = th[t].saved /\ c.ok = th[t].ok
         \/ c.saved = "ERROR" /\ ~c.ok
  PROVE  KeptBy(t)
<1>1. CallReads(th[t])
  BY DEF StateInv
<1>2. CallReads(c)'
  BY <1>1 DEF CallReads, ReclaimPoints
<1>3. Held(th[t]) => Held(c)'
  BY DEF Held, ReclaimPoints
<1> QED BY <1>2, <1>3 DEF KeptBy, Keeps

LEMMA AtKeeps ==
  ASSUME StateInv, NEW t \in Threads, th[t].pc \in ReclaimPoints \ {"reclaim"},
         th[t].ok \in BOOLEAN,
         NEW pc \in ReclaimPoints \ {"reclaim"}, NEW todo, NEW good \in BOOLEAN,
         Goto(t, ReclaimAt(t, pc, todo, good))
  PROVE  KeptBy(t)
<1> DEFINE c == ReclaimAt(t, pc, todo, good)
<1>1. /\ c.pc = pc /\ c.caller = th[t].caller
      /\ \/ c.saved = th[t].saved /\ c.ok = th[t].ok
         \/ c.saved = "ERROR" /\ ~c.ok
  BY DEF ReclaimAt
<1>2. Goto(t, c)
  OBVIOUS
<1> HIDE DEF c
<1> QED BY <1>1, <1>2, ReclaimKeeps

LEMMA LookupKeeps ==
  ASSUME StateInv, NEW t \in Threads, th[t].pc \in ReclaimPoints \ {"reclaim"},
         th[t].ok \in BOOLEAN, NEW x, NEW h, NEW next \in ReclaimPoints \ {"reclaim"},
         ReleaseLookup(t, x, h, next)
  PROVE  KeptBy(t)
<1>1. CASE m_state = "READY" /\ IsMemoryHandleRegistered(h)
  <2> DEFINE c == [pc |-> next, h |-> th[t].h, caller |-> th[t].caller,
                   handles |-> th[t].handles, ok |-> th[t].ok, saved |-> th[t].saved,
                   n |-> th[t].n, todo |-> th[t].todo \ {x},
                   x |-> x, m |-> handleToNodeId[h]]
  <2>1. Goto(t, c)
    BY <1>1 DEF ReleaseLookup
  <2>2. c.pc = next /\ c.caller = th[t].caller /\ c.saved = th[t].saved /\ c.ok = th[t].ok
    OBVIOUS
  <2> HIDE DEF c
  <2> QED BY <2>1, <2>2, ReclaimKeeps
<1>2. CASE ~(m_state = "READY" /\ IsMemoryHandleRegistered(h))
  BY <1>2, AtKeeps DEF ReleaseLookup
<1> QED BY <1>1, <1>2

LEMMA State_Reclaim ==
  ASSUME TypeOK, StateInv, NEW t \in Threads,
         \/ Reclaim_CopyBuffers(t) \/ Reclaim_BuffersDone(t) \/ Reclaim_CopyPools(t)
         \/ \E b \in Buffers : Reclaim_FreeBuffer_Lookup(t, b)
         \/ \E fails \in BOOLEAN : Reclaim_FreeBuffer_Commit(t, fails)
         \/ Reclaim_FreeBuffer_Refuse(t)
         \/ \E p \in PoolHandles : Reclaim_DestroyPool_Lookup(t, p)
         \/ \E F \in Batches : Reclaim_DestroyPool_Commit(t, F)
         \/ Reclaim_DestroyPool_Refuse(t)
  PROVE  KeptBy(t)
<1>1. th[t].pc \in ReclaimPoints \ {"reclaim"}
  BY DEF ReclaimPoints, Reclaim_CopyBuffers, Reclaim_BuffersDone, Reclaim_CopyPools,
     Reclaim_FreeBuffer_Lookup, Reclaim_FreeBuffer_Commit, Reclaim_FreeBuffer_Refuse,
     Reclaim_DestroyPool_Lookup, Reclaim_DestroyPool_Commit, Reclaim_DestroyPool_Refuse
<1>2. th[t].ok \in BOOLEAN
  BY <1>1 DEF TypeOK, CallsOK, CallOK
<1>3. CASE \/ \E b \in Buffers : Reclaim_FreeBuffer_Lookup(t, b)
           \/ \E p \in PoolHandles : Reclaim_DestroyPool_Lookup(t, p)
  BY <1>1, <1>2, <1>3, LookupKeeps
     DEF ReclaimPoints, Reclaim_FreeBuffer_Lookup, Reclaim_DestroyPool_Lookup
<1>4. ASSUME NEW pc \in {"freeBuffers", "copyPools", "destroyPools"}, NEW todo,
             NEW good \in BOOLEAN, Goto(t, ReclaimAt(t, pc, todo, good))
      PROVE  KeptBy(t)
  <2>1. pc \in ReclaimPoints \ {"reclaim"}
    BY DEF ReclaimPoints
  <2> QED BY <1>1, <1>2, <1>4, <2>1, AtKeeps
<1>5. CASE Reclaim_CopyBuffers(t)
  BY <1>4, <1>5 DEF Reclaim_CopyBuffers
<1>6. CASE Reclaim_BuffersDone(t)
  BY <1>4, <1>6 DEF Reclaim_BuffersDone
<1>7. CASE Reclaim_CopyPools(t)
  BY <1>4, <1>7 DEF Reclaim_CopyPools
<1>8. CASE Reclaim_FreeBuffer_Refuse(t)
  BY <1>4, <1>8 DEF Reclaim_FreeBuffer_Refuse
<1>9. CASE Reclaim_DestroyPool_Refuse(t)
  BY <1>4, <1>9 DEF Reclaim_DestroyPool_Refuse
<1>10. ASSUME NEW fails \in BOOLEAN, Reclaim_FreeBuffer_Commit(t, fails) PROVE KeptBy(t)
  <2>1. Goto(t, ReclaimAt(t, "freeBuffers", th[t].todo, ~fails))
    BY <1>10 DEF Reclaim_FreeBuffer_Commit
  <2> QED BY <1>4, <2>1
<1>11. ASSUME NEW F \in Batches, Reclaim_DestroyPool_Commit(t, F) PROVE KeptBy(t)
  <2>1. Goto(t, ReclaimAt(t, "destroyPools", th[t].todo, TRUE))
    BY <1>11 DEF Reclaim_DestroyPool_Commit
  <2> QED BY <1>4, <2>1
<1> QED BY <1>3, <1>5, <1>6, <1>7, <1>8, <1>9, <1>10, <1>11

LEMMA State_Begins ==
  ASSUME TypeOK, StateInv, NEW t \in Threads, Reclaim_Lookup(t)
  PROVE  KeptBy(t)
<1>1. CallReads(th[t]) /\ th[t].pc = "reclaim"
  BY DEF StateInv, Reclaim_Lookup
<1>2. PICK c : /\ Goto(t, c) /\ c.pc \in {"copyBuffers", "reclaimed"}
               /\ c.caller = th[t].caller /\ c.saved = m_state
  BY DEF Reclaim_Lookup
<1>3. CallReads(c)'
  BY <1>1, <1>2 DEF CallReads, ReclaimPoints
<1>4. Held(th[t]) => Held(c)'
  BY <1>1, <1>2 DEF Held, ReclaimPoints
<1> QED BY <1>2, <1>3, <1>4 DEF KeptBy, Keeps

LEMMA State_Ends ==
  ASSUME TypeOK, StateInv, NEW t \in Threads, Reclaim_End(t)
  PROVE  KeptBy(t)
<1>1. CallReads(th[t]) /\ th[t].pc \in ReclaimPoints \ {"reclaim"} /\ m_state' = th[t].saved
  BY DEF StateInv, Reclaim_End, ReclaimPoints
<1>2. th[t].caller \in {"client", "UnRegister", "DeInitialize"}
  BY <1>1 DEF TypeOK, CallsOK, CallOK
<1>3. CASE th[t].caller = "client"
  <2>1. Return(t)
    BY <1>3 DEF Reclaim_End, Return
  <2> QED BY <1>1, <2>1, ReturnKeeps DEF Held
<1>4. CASE th[t].caller = "UnRegister"
  <2>1. Goto(t, [pc |-> "unregister", h |-> th[t].h, ok |-> th[t].ok])
    BY <1>4 DEF Reclaim_End
  <2>2. PICK c : Goto(t, c) /\ c.pc = "unregister" /\ c.ok = th[t].ok
    BY <2>1
  <2>3. CallReads(c)'
    BY <1>1, <1>4, <2>2 DEF CallReads, ReclaimPoints
  <2>4. Held(th[t]) => Held(c)'
    BY <1>1, <2>2 DEF Held, ReclaimPoints
  <2> QED BY <2>2, <2>3, <2>4 DEF KeptBy, Keeps
<1>5. CASE th[t].caller = "DeInitialize"
  <2>1. Goto(t, [pc |-> "deinit", handles |-> th[t].handles, ok |-> th[t].ok])
    BY <1>5 DEF Reclaim_End
  <2>2. PICK c : Goto(t, c) /\ c.pc = "deinit"
    BY <2>1
  <2> QED BY <2>2 DEF KeptBy, Keeps, CallReads, InDeInitialize, ReclaimPoints
<1> QED BY <1>2, <1>3, <1>4, <1>5

LEMMA State_Next ==
  ASSUME TypeOK, StateInv, NEW t \in Threads, NEW h \in Handles, DeInitialize_Next(t, h)
  PROVE  KeptBy(t)
<1>1. PICK c : Goto(t, c) /\ c.pc = "reclaim" /\ c.caller = "DeInitialize"
  BY DEF DeInitialize_Next
<1> QED BY <1>1 DEF KeptBy, Keeps, CallReads, InDeInitialize, ReclaimPoints

LEMMA StateStep ==
  ASSUME OneClient, TypeOK, StateInv, [Next]_vars
  PROVE  /\ StateInv'
         /\ ErrorPending /\ ~DeInitializing' /\ ~fault' => ErrorPending' \/ UNCHANGED vars
<1>1. CASE UNCHANGED vars
  BY <1>1 DEF vars, StateInv, CallReads
<1>2. ASSUME NEW t \in Threads, Call(t) \/ (Continue(t) /\ ~UndefinedAccess(t))
      PROVE  KeptBy(t)
  BY <1>2, State_Call, State_Return, State_UnRegister, State_Reclaim, State_Begins, State_Ends, State_Next
     DEF Continue
<1>3. ASSUME NEW t \in Threads, UndefinedAccess(t)
      PROVE  StateInv' /\ fault'
  <2>1. CallReads(Idle)'
    BY DEF CallReads, Idle, ReclaimPoints
  <2> QED BY <1>3, <2>1 DEF UndefinedAccess, Undefined, StateInv, CallReads
<1>4. CASE Crashed
  BY <1>1, <1>4 DEF Crashed
<1> QED BY <1>1, <1>2, <1>3, <1>4, Keeping DEF Next

\* With one client thread the error state that a failed release or a failed
\* allocation has left is there after every method but DeInitialize, through
\* the READY that ReclaimResources stores for a while and the write-back of a
\* call that is refused.
THEOREM TheErrorSurvives ==
  ASSUME OneClient PROVE Spec => ErrorSurvivesCalls
<1>1. Init => StateInv
  BY DEF Init, Idle, StateInv, CallReads, ReclaimPoints
<1>2. TypeOK /\ StateInv /\ [Next]_vars => StateInv'
  BY StateStep
<1>3. TypeOK /\ StateInv /\ [Next]_vars =>
        [ErrorPending /\ ~DeInitializing' /\ ~fault' => ErrorPending']_vars
  BY StateStep
<1> QED BY <1>1, <1>2, <1>3, TypeCorrect, PTL DEF Spec, ErrorSurvivesCalls

============================================================================
