---------------------------- MODULE ServicesProofs ----------------------------
(***************************************************************************)
(* The library of the cameras (CameraLibrary), the nodes on the engine for *)
(* video analytics (EvaNode), the descriptions of graphs (GraphInfo), the  *)
(* CL2DFlex node (CL2DFlex) and the calls to the DSP (FadasRpc), as parts  *)
(* of Services, for all configurations, binaries and bounds.               *)
(***************************************************************************)
EXTENDS Services, FiniteSetTheorems, SequenceTheorems, TLAPS

-----------------------------------------------------------------------------
(***************************************************************************)
(* CameraLibrary, for any finite set of cameras and any failures.  Neither *)
(* of its invariants is inductive: that QCarCam is up rests on the count,  *)
(* and the count on the fact that a camera whose constructor failed exists *)
(* until it is destroyed.  LibraryInv adds those two facts.                *)
(***************************************************************************)

(* A camera is in failed only between its constructor and its destructor. *)
FailedExist == \A c \in failed : camera[c] # "none"

(* QCarCam is initialized whenever a camera is counted. *)
CountedKeepLibrary == ~stray /\ g_nCamInitRefCount > 0 => library

(* The inductive invariant. *)
LibraryInv ==
  /\ TypeOK
  /\ FailedExist
  /\ CountsCameras
  /\ CountedKeepLibrary
  /\ LibraryUpWhileUsed

(* The counted cameras are finitely many, and none exactly at count 0. *)
LEMMA CountedFinite ==
  /\ IsFiniteSet(Counted)
  /\ Cardinality(Counted) \in Nat
  /\ Cardinality(Counted) = 0 <=> Counted = {}
<1>1. Counted \subseteq Cameras
  BY DEF Counted
<1>2. IsFiniteSet(Counted)
  BY <1>1, FS_Subset, LibraryAssumption
<1> QED
  BY <1>2, FS_CardinalityType, FS_EmptySet

(* No camera exists and none is counted at first. *)
LEMMA InitLibrary == Init => LibraryInv
<1> SUFFICES ASSUME Init PROVE LibraryInv
  OBVIOUS
<1>1. Counted = {}
  BY DEF Init, Counted
<1>2. Cardinality(Counted) = 0
  BY <1>1, FS_EmptySet
<1>3. TypeOK /\ FailedExist
  BY DEF Init, TypeOK, FailedExist
<1>4. CountsCameras /\ CountedKeepLibrary
  BY <1>2 DEF Init, CountsCameras, CountedKeepLibrary
<1>5. LibraryUpWhileUsed
  BY <1>1 DEF LibraryUpWhileUsed
<1> QED
  BY <1>3, <1>4, <1>5 DEF LibraryInv

(* A constructor takes a count exactly when it succeeds. *)
LEMMA ConstructCounts ==
  ASSUME NEW c \in Cameras, LibraryInv, Construct(c) PROVE LibraryInv'
<1> USE DEF LibraryInv
<1>1. PICK ok \in Outcome(InitMayFail /\ g_nCamInitRefCount = 0) : Construct(c)!2!(ok)
  BY DEF Construct
<1>2. ok \in BOOLEAN /\ stray' = stray /\ camera[c] = "none" /\ c \notin failed
  BY <1>1 DEF Construct, Outcome, FailedExist
<1>3. c \notin Counted
  BY <1>2 DEF Counted
<1>4. Counted' = IF ok THEN Counted \union {c} ELSE Counted
  BY <1>1, <1>2 DEF Counted, TypeOK
<1>5. TypeOK' /\ FailedExist'
  <2>1. FailedExist'
    BY <1>1, <1>2 DEF TypeOK, FailedExist
  <2>2. library' \in BOOLEAN /\ inputs' \in BOOLEAN /\ stray' \in BOOLEAN
    BY <1>1, <1>2 DEF TypeOK, Outcome
  <2>3. /\ camera' \in [Cameras -> {"none", "INITIAL", "READY", "ERROR"}]
        /\ g_nCamInitRefCount' \in Nat
        /\ failed' \in SUBSET Cameras
    BY <1>1, <1>2 DEF TypeOK
  <2> QED
    BY <2>1, <2>2, <2>3 DEF TypeOK
<1>6. CountsCameras'
  <2>1. Cardinality(Counted \union {c}) = Cardinality(Counted) + 1
    BY <1>3, CountedFinite, FS_AddElement
  <2>2. CASE ok
    BY <1>1, <1>2, <1>4, <2>1, <2>2 DEF CountsCameras
  <2>3. CASE ~ok
    BY <1>1, <1>2, <1>4, <2>3, CountedFinite DEF CountsCameras, TypeOK
  <2> QED
    BY <1>2, <2>2, <2>3
<1>7. CountedKeepLibrary'
  BY <1>1, <1>2 DEF CountedKeepLibrary, TypeOK
<1>8. LibraryUpWhileUsed'
  <2> SUFFICES ASSUME ~stray, NEW d \in Counted', camera'[d] = "READY"
               PROVE  library' /\ inputs'
    BY <1>2 DEF LibraryUpWhileUsed
  <2>1. d # c
    BY <1>1, <1>2 DEF TypeOK
  <2>2. d \in Counted /\ camera[d] = "READY"
    BY <1>1, <1>4, <2>1 DEF TypeOK, Counted
  <2>3. g_nCamInitRefCount # 0
    BY <2>2, CountedFinite DEF CountsCameras
  <2> QED
    BY <1>1, <2>2, <2>3 DEF LibraryUpWhileUsed
<1> QED
  BY <1>5, <1>6, <1>7, <1>8

(* A session begins only with the input descriptions at hand. *)
LEMMA InitializeCounts ==
  ASSUME NEW c \in Cameras, LibraryInv, Initialize(c) PROVE LibraryInv'
<1> USE DEF LibraryInv
<1>1. PICK s \in {"INITIAL"} \union
                  (IF camera[c] = "INITIAL" /\ inputs THEN {"READY"} ELSE {}) :
        camera' = [camera EXCEPT ![c] = s]
  BY DEF Initialize
<1>2. UNCHANGED <<shared, failed, stray>> /\ camera[c] # "none"
  BY DEF Initialize
<1>3. Counted' = Counted
  BY <1>1, <1>2 DEF Counted, TypeOK
<1>4. TypeOK' /\ FailedExist' /\ CountsCameras' /\ CountedKeepLibrary'
  BY <1>1, <1>2, <1>3 DEF TypeOK, FailedExist, CountsCameras, CountedKeepLibrary, shared
<1>5. LibraryUpWhileUsed'
  <2> SUFFICES ASSUME ~stray, NEW d \in Counted, camera'[d] = "READY"
               PROVE  library /\ inputs
    BY <1>2, <1>3 DEF LibraryUpWhileUsed, shared
  <2>1. library
    BY CountedFinite DEF CountsCameras, CountedKeepLibrary
  <2>2. inputs
    BY <1>1 DEF LibraryUpWhileUsed, TypeOK
  <2> QED
    BY <2>1, <2>2
<1> QED
  BY <1>4, <1>5

(* A destructor gives a count back, and the last one ends QCarCam. *)
LEMMA DestroyCounts ==
  ASSUME NEW c \in Cameras, LibraryInv, Destroy(c) PROVE LibraryInv'
<1> USE DEF LibraryInv
<1>1. /\ camera[c] # "none"
      /\ camera' = [camera EXCEPT ![c] = "none"]
      /\ failed' = failed \ {c}
      /\ stray' = (stray \/ c \in failed)
  BY DEF Destroy
<1>2. TypeOK' /\ FailedExist'
  <2>1. FailedExist'
    BY <1>1 DEF TypeOK, FailedExist
  <2>2. library' \in BOOLEAN /\ inputs' \in BOOLEAN /\ stray' \in BOOLEAN
    BY <1>1 DEF Destroy, TypeOK, Outcome, shared
  <2>3. camera' \in [Cameras -> {"none", "INITIAL", "READY", "ERROR"}]
    BY <1>1 DEF TypeOK
  <2>4. g_nCamInitRefCount' \in Nat /\ failed' \in SUBSET Cameras
    BY <1>1 DEF Destroy, TypeOK, shared
  <2> QED
    BY <2>1, <2>2, <2>3, <2>4 DEF TypeOK
<1>3. CASE stray'
  BY <1>2, <1>3 DEF CountsCameras, CountedKeepLibrary, LibraryUpWhileUsed
<1>4. CASE ~stray'
  <2>1. ~stray /\ c \notin failed /\ c \in Counted
    BY <1>1, <1>4 DEF Counted
  <2>2. Counted' = Counted \ {c}
    BY <1>1, <2>1 DEF Counted, TypeOK
  <2>3. g_nCamInitRefCount = Cardinality(Counted) /\ g_nCamInitRefCount # 0
    BY <2>1, CountedFinite DEF CountsCameras
  <2>4. CountsCameras'
    BY <2>1, <2>2, <2>3, CountedFinite, FS_RemoveElement DEF CountsCameras, Destroy
  <2>5. CountedKeepLibrary'
    BY <2>1, <2>3, CountedFinite DEF CountedKeepLibrary, Destroy
  <2>6. LibraryUpWhileUsed'
    <3> SUFFICES ASSUME NEW d \in Counted', camera'[d] = "READY"
                 PROVE  library' /\ inputs'
      BY DEF LibraryUpWhileUsed
    <3>1. d \in Counted /\ camera[d] = "READY"
      BY <1>1, <2>2 DEF TypeOK
    <3>2. g_nCamInitRefCount' # 0
      <4>1. Cardinality(Counted \ {c}) # 0
        BY <2>2, CountedFinite, FS_RemoveElement, FS_EmptySet
      <4> QED
        BY <2>2, <2>4, <4>1, <1>4 DEF CountsCameras
    <3> QED
      BY <2>1, <2>3, <3>1, <3>2 DEF Destroy, LibraryUpWhileUsed, TypeOK
  <2> QED
    BY <1>2, <2>4, <2>5, <2>6
<1> QED
  BY <1>3, <1>4

(* LibraryInv is inductive. *)
LEMMA LibraryNextKeeps == LibraryInv /\ [Next]_vars => LibraryInv'
<1> SUFFICES ASSUME LibraryInv, [Next]_vars PROVE LibraryInv'
  OBVIOUS
<1>1. CASE UNCHANGED vars
  BY <1>1 DEF vars, shared, LibraryInv, TypeOK, FailedExist, CountsCameras, CountedKeepLibrary,
     LibraryUpWhileUsed, Counted
<1>2. CASE Next
  <2> SUFFICES ASSUME NEW c \in Cameras, Construct(c) \/ Initialize(c) \/ Destroy(c)
               PROVE  LibraryInv'
    BY <1>2 DEF Next
  <2> QED
    BY ConstructCounts, InitializeCounts, DestroyCounts
<1> QED
  BY <1>1, <1>2

\* The library is a part of Services.
LEMMA LibraryPart == ServicesSpec => Spec
<1>1. ServicesInit => Init
  BY DEF ServicesInit
<1>2. [ServicesNext]_servicesVars => [Next]_vars
  BY DEF ServicesNext, servicesVars
<1> QED BY <1>1, <1>2, PTL DEF ServicesSpec, Spec

LEMMA LibraryKept == ServicesSpec => []LibraryInv
  BY LibraryPart, InitLibrary, LibraryNextKeeps, PTL DEF Spec

(***************************************************************************)
(* The count of CameraImpl's constructors and destructors is exact, for    *)
(* any number of cameras, until a failed camera has been destroyed.        *)
(***************************************************************************)
THEOREM CountIsExact == ServicesSpec => []CountsCameras
<1>1. LibraryInv => CountsCameras
  BY DEF LibraryInv
<1> QED
  BY <1>1, LibraryKept, PTL

(***************************************************************************)
(* No destructor takes QCarCam or its input descriptions from a camera     *)
(* with a session, until a failed camera has been destroyed.               *)
(***************************************************************************)
THEOREM LibraryStaysUp == ServicesSpec => []LibraryUpWhileUsed
<1>1. LibraryInv => LibraryUpWhileUsed
  BY DEF LibraryInv
<1> QED
  BY <1>1, LibraryKept, PTL

-----------------------------------------------------------------------------
(***************************************************************************)
(* EvaNode, by itself and as a part of Services: a node that runs holds    *)
(* what the engine reads, and keeps what BufferUse lets it keep, for all   *)
(* addresses, memory and configurations.                                   *)
(***************************************************************************)

(***************************************************************************)
(* The table is empty while the application has no node, the only time at  *)
(* which it puts other memory at an address; so what the table has of an   *)
(* address stays what is there.                                            *)
(***************************************************************************)
TableInv ==
  /\ memory \in [Addresses -> Memory]
  /\ memMap \in [Addresses -> Memory \union {Nothing}]
  /\ ~up => \A a \in Addresses : memMap[a] = Nothing
  /\ Eva!Use!KeptIsCurrent

LEMMA InitTable == Eva!Init => TableInv
  BY DEF Eva!Init, TableInv, Eva!Use!KeptIsCurrent

(* Registering keeps what is at the addresses now. *)
LEMMA RegisterKeeps ==
  ASSUME NEW as, Eva!RegisterMemory(as), UNCHANGED memory
  PROVE  Eva!Use!Keep
<1>1. memMap' = [a \in Addresses |->
                   IF a \in as /\ memMap[a] = Nothing THEN memory[a] ELSE memMap[a]]
  BY DEF Eva!RegisterMemory
<1> QED
  BY <1>1 DEF Eva!Use!Keep

(* ProcessFrameDescriptor only registers, for a node that is up. *)
LEMMA ProcessKeeps ==
  ASSUME NEW f, Eva!ProcessFrameDescriptor(f)
  PROVE  /\ up /\ UNCHANGED <<up, memory>>
         /\ Eva!Use!Keep
<1>1. up /\ UNCHANGED <<up, memory>>
  BY DEF Eva!ProcessFrameDescriptor
<1>2. PICK as : Eva!RegisterMemory(as)
  BY DEF Eva!ProcessFrameDescriptor
<1> QED
  BY <1>1, <1>2, RegisterKeeps

(* DeInitialize empties the table. *)
LEMMA DeInitializeDrops ==
  ASSUME Eva!DeInitialize
  PROVE  /\ ~up' /\ UNCHANGED memory
         /\ memMap' = [a \in Addresses |-> Nothing]
         /\ Eva!Use!Drop
<1>1. ~up' /\ UNCHANGED memory /\ memMap' = [a \in Addresses |-> Nothing]
  BY DEF Eva!DeInitialize, Eva!ClearTable
<1>2. Eva!Use!Drop
  BY <1>1 DEF Eva!Use!Drop
<1> QED
  BY <1>1, <1>2

(* The other calls leave the table and the memory alone; only Initialize,  *)
(* with an empty table, changes whether there is a node.                   *)
LEMMA OthersLeave ==
  ASSUME \/ \E o \in config.offers : Eva!Initialize(o)
         \/ Eva!Start
         \/ Eva!Stop
  PROVE  UNCHANGED <<memory, memMap>> /\ (up => up')
<1>1. CASE \E o \in config.offers : Eva!Initialize(o)
  BY <1>1 DEF Eva!Initialize, Eva!Initialize_Refused, Eva!Initialize_BadEntry,
              Eva!Initialize_NoEngine, Eva!Initialize_Done
<1>2. CASE Eva!Start
  BY <1>2 DEF Eva!Start
<1>3. CASE Eva!Stop
  BY <1>3 DEF Eva!Stop
<1> QED
  BY <1>1, <1>2, <1>3

LEMMA StepTable == TableInv /\ [Eva!Next]_(Eva!vars) => TableInv'
<1> SUFFICES ASSUME TableInv, [Eva!Next]_(Eva!vars) PROVE TableInv'
  OBVIOUS
<1>1. CASE \E o \in config.offers : Eva!Initialize(o)
  <2>1. UNCHANGED <<memory, memMap>> /\ (up => up')
    BY <1>1, OthersLeave
  <2> QED
    BY <2>1 DEF TableInv, Eva!Use!KeptIsCurrent
<1>2. CASE Eva!Start \/ Eva!Stop
  <2>1. UNCHANGED <<memory, memMap>> /\ (up => up')
    BY <1>2, OthersLeave
  <2> QED
    BY <2>1 DEF TableInv, Eva!Use!KeptIsCurrent
<1>3. CASE Eva!DeInitialize
  BY <1>3, DeInitializeDrops DEF TableInv, Eva!Use!KeptIsCurrent
<1>4. CASE \E f \in config.frames : Eva!ProcessFrameDescriptor(f)
  <2>1. /\ up /\ UNCHANGED <<up, memory>>
        /\ Eva!Use!Keep
    BY <1>4, ProcessKeeps
  <2> QED
    BY <2>1 DEF TableInv, Eva!Use!KeptIsCurrent, Eva!Use!Keep
<1>5. ASSUME NEW a \in Addresses, NEW m \in Memory, Eva!Replace(a, m)
      PROVE  TableInv'
  BY <1>5 DEF TableInv, Eva!Replace, Eva!node, Eva!Use!KeptIsCurrent
<1>6. CASE UNCHANGED Eva!vars
  BY <1>6 DEF Eva!vars, Eva!node, TableInv, Eva!Use!KeptIsCurrent
<1> QED
  BY <1>1, <1>2, <1>3, <1>4, <1>5, <1>6 DEF Eva!Next

(***************************************************************************)
(* What m_memMap has of an address is the memory that is there, after any  *)
(* calls with any failures (RegisterMemory knows addresses only).          *)
(***************************************************************************)
THEOREM TableIsCurrent == Eva!Spec => [](Eva!Use!KeptIsCurrent)
<1>1. TableInv => Eva!Use!KeptIsCurrent
  BY DEF TableInv
<1> QED
  BY <1>1, InitTable, StepTable, PTL DEF Eva!Spec

-----------------------------------------------------------------------------
(***************************************************************************)
(* Why a node that runs holds what the engine reads.  A session that       *)
(* nobody owes to a failure belongs to a node that is up; such a node has  *)
(* its object, and the entries of Iconfig of its configuration, since      *)
(* Initialize succeeded; the frame entries and the session's start are     *)
(* those of the only step to RUNNING.                                      *)
(***************************************************************************)
SessionInv ==
  /\ live \subseteq {session} \union orphans
  /\ ~up => state # "RUNNING" /\ live \subseteq orphans
  /\ up => session \in live \intersect objects /\ engine = session
  /\ up /\ state = "RUNNING" => session \in started

EntryInv ==
  /\ settings = [id \in Eva!Entries |-> settings[id]]
  /\ up => \A id \in Eva!Range(Eva!Iconfig) : settings[id] = current.version
  /\ up /\ state = "RUNNING" => \A id \in Eva!Entries : settings[id] = current.version

RegisteredInv ==
  up => \A a \in Addresses : memMap[a] # Nothing => <<session, a, memory[a]>> \in regs

RunningInv == TableInv /\ SessionInv /\ EntryInv /\ RegisteredInv

(* Setting all entries of a list sets them, and leaves the others alone.   *)
LEMMA AllEntriesSet ==
  ASSUME NEW S, NEW ids \in Seq(S), NEW c,
         settings = [id \in Eva!Entries |-> settings[id]],
         settings' = Eva!SetEntries(ids, Len(ids), c)
  PROVE  settings' = [id \in Eva!Entries |->
                        IF id \in Eva!Range(ids) THEN c.version ELSE settings[id]]
<1>1. SubSeq(ids, 1, Len(ids)) = ids
  OBVIOUS
<1>2. DOMAIN settings = Eva!Entries
  OBVIOUS
<1> QED
  BY <1>1, <1>2 DEF Eva!SetEntries

(* Setting some entries keeps the table of the entries whole.              *)
LEMMA SomeEntriesSet ==
  ASSUME NEW ids, NEW k, NEW c,
         settings = [id \in Eva!Entries |-> settings[id]],
         settings' = Eva!SetEntries(ids, k, c), UNCHANGED config
  PROVE  /\ settings' = [id \in Eva!Entries |-> settings'[id]]
         /\ Eva!Entries' = Eva!Entries
<1>1. DOMAIN settings = Eva!Entries
  OBVIOUS
<1>2. Eva!Entries' = Eva!Entries
  BY DEF Eva!Entries, Eva!Iconfig, Eva!FrameConfig
<1> QED
  BY <1>1, <1>2 DEF Eva!SetEntries

(* A sequence is one of its own elements, the concatenation of two of      *)
(* those of both.                                                          *)
LEMMA Concatenation ==
  ASSUME NEW s, NEW t, NEW S, NEW T, s \in Seq(S), t \in Seq(T)
  PROVE  s \o t \in Seq(S \union T)
<1>1. s \in Seq(S \union T) /\ t \in Seq(S \union T)
  OBVIOUS
<1> QED
  BY <1>1

LEMMA ListsOfEntries ==
  /\ \E S : Eva!Iconfig \in Seq(S)
  /\ \E S : Eva!FrameConfig \in Seq(S)
<1>1. Eva!FlowOutputIconfig \in Seq(Eva!Range(Eva!FlowOutputIconfig))
  BY DEF Eva!Range, Eva!FlowOutputIconfig
<1>2. Eva!FlowSearchIconfig \in Seq(Eva!Range(Eva!FlowSearchIconfig))
  BY DEF Eva!Range, Eva!FlowSearchIconfig
<1>3. Eva!StereoIconfig \in Seq(Eva!Range(Eva!StereoIconfig))
  BY DEF Eva!Range, Eva!StereoIconfig
<1>4. Eva!FlowToleranceFrameConfig \in Seq(Eva!Range(Eva!FlowToleranceFrameConfig))
  BY DEF Eva!Range, Eva!FlowToleranceFrameConfig
<1>5. Eva!FlowThresholdFrameConfig \in Seq(Eva!Range(Eva!FlowThresholdFrameConfig))
  BY DEF Eva!Range, Eva!FlowThresholdFrameConfig
<1>6. Eva!StereoToleranceFrameConfig \in Seq(Eva!Range(Eva!StereoToleranceFrameConfig))
  BY DEF Eva!Range, Eva!StereoToleranceFrameConfig
<1>7. Eva!StereoThresholdFrameConfig \in Seq(Eva!Range(Eva!StereoThresholdFrameConfig))
  BY DEF Eva!Range, Eva!StereoThresholdFrameConfig
<1>8. \E S : Eva!Iconfig \in Seq(S)
  BY <1>1, <1>2, <1>3, Concatenation DEF Eva!Iconfig
<1>9. \E S : Eva!FrameConfig \in Seq(S)
  BY <1>4, <1>5, <1>6, <1>7, Concatenation DEF Eva!FrameConfig
<1> QED
  BY <1>8, <1>9

-----------------------------------------------------------------------------
(* The steps of the node, one after the other.                             *)

LEMMA InitRunning == Eva!Init => RunningInv
<1> SUFFICES ASSUME Eva!Init PROVE RunningInv
  OBVIOUS
<1>1. TableInv
  BY InitTable
<1>2. SessionInv /\ RegisteredInv
  BY DEF Eva!Init, SessionInv, RegisteredInv
<1>3. EntryInv
  BY DEF Eva!Init, EntryInv
<1> QED
  BY <1>1, <1>2, <1>3 DEF RunningInv

(* The lists of the entries do not change with a step.                     *)
LEMMA ListsStay ==
  ASSUME UNCHANGED config
  PROVE  /\ Eva!Iconfig' = Eva!Iconfig /\ Eva!FrameConfig' = Eva!FrameConfig
         /\ Eva!Entries' = Eva!Entries
  BY DEF Eva!Entries, Eva!Iconfig, Eva!FrameConfig

(* Initialize is called on no node that is up; a node that is refused is   *)
(* not up, and owns no session.                                            *)
LEMMA InitializeSession ==
  ASSUME SessionInv, NEW o, Eva!Initialize(o)
  PROVE  SessionInv'
<1>1. CASE Eva!Initialize_Refused(o)
  BY <1>1 DEF SessionInv, Eva!Initialize, Eva!Initialize_Refused, Eva!eva
<1>2. CASE Eva!Initialize_BadEntry(o)
  BY <1>2 DEF SessionInv, Eva!Initialize, Eva!Initialize_BadEntry
<1>3. CASE Eva!Initialize_NoEngine(o)
  BY <1>3 DEF SessionInv, Eva!Initialize, Eva!Initialize_NoEngine
<1>4. CASE Eva!Initialize_Done(o)
  BY <1>4 DEF SessionInv, Eva!Initialize, Eva!Initialize_Done
<1> QED
  BY <1>1, <1>2, <1>3, <1>4 DEF Eva!Initialize

LEMMA InitializeEntries ==
  ASSUME EntryInv, NEW o, Eva!Initialize(o), ~up => state # "RUNNING"
  PROVE  EntryInv'
<1>0. ~up /\ UNCHANGED config
  BY DEF Eva!Initialize
<1>1. CASE Eva!Initialize_Refused(o)
  BY <1>0, <1>1, ListsStay DEF EntryInv, Eva!Initialize_Refused
<1>2. CASE Eva!Initialize_BadEntry(o)
  <2>1. PICK c, k : settings' = Eva!SetEntries(Eva!Iconfig, k, c)
    BY <1>2 DEF Eva!Initialize_BadEntry
  <2>2. settings' = [id \in Eva!Entries' |-> settings'[id]]
    BY <1>0, <2>1, SomeEntriesSet DEF EntryInv
  <2> QED
    BY <1>0, <1>2, <2>2 DEF EntryInv, Eva!Initialize_BadEntry
<1>3. CASE Eva!Initialize_NoEngine(o)
  <2>1. PICK c : settings' = Eva!SetEntries(Eva!Iconfig, Len(Eva!Iconfig), c)
    BY <1>3 DEF Eva!Initialize_NoEngine
  <2>2. settings' = [id \in Eva!Entries' |-> settings'[id]]
    BY <1>0, <2>1, SomeEntriesSet DEF EntryInv
  <2> QED
    BY <1>0, <1>3, <2>2 DEF EntryInv, Eva!Initialize_NoEngine
<1>4. CASE Eva!Initialize_Done(o)
  <2>1. PICK c : /\ settings' = Eva!SetEntries(Eva!Iconfig, Len(Eva!Iconfig), c)
                 /\ current' = c /\ state' = "READY"
    BY <1>4 DEF Eva!Initialize_Done
  <2>2. settings' = [id \in Eva!Entries' |-> settings'[id]]
    BY <1>0, <2>1, SomeEntriesSet DEF EntryInv
  <2>3. settings' = [id \in Eva!Entries |->
                       IF id \in Eva!Range(Eva!Iconfig) THEN c.version ELSE settings[id]]
    BY <2>1, AllEntriesSet, ListsOfEntries DEF EntryInv
  <2>4. \A id \in Eva!Range(Eva!Iconfig) : settings'[id] = current'.version
    BY <2>1, <2>3 DEF Eva!Entries
  <2>5. \A id \in Eva!Range(Eva!Iconfig') : settings'[id] = current'.version
    BY <1>0, <2>4, ListsStay
  <2> QED
    BY <2>1, <2>2, <2>5 DEF EntryInv, Eva!Range
<1> QED
  BY <1>1, <1>2, <1>3, <1>4 DEF Eva!Initialize

(* Start runs a node only once every entry of the frames is set.           *)
LEMMA EvaStartHolds ==
  ASSUME SessionInv, EntryInv, Eva!Start
  PROVE  SessionInv' /\ EntryInv'
<1>0. up /\ state = "READY" /\ UNCHANGED <<config, current, up>>
  BY DEF Eva!Start
<1>1. SessionInv'
  <2>1. CASE UNCHANGED <<state, settings, started>>
    BY <2>1 DEF Eva!Start, SessionInv
  <2>2. CASE started' = started \union {session}
    BY <1>0, <2>2 DEF Eva!Start, SessionInv
  <2> QED
    BY <2>1, <2>2 DEF Eva!Start
<1>2. EntryInv'
  <2>1. CASE UNCHANGED <<state, settings, started>>
    BY <1>0, <2>1, ListsStay DEF EntryInv, Eva!Range
  <2>2. ASSUME NEW k \in Eva!Reach(Eva!FrameConfig), Eva!SetInitialFrameConfig(k),
               state' = IF k = Len(Eva!FrameConfig) THEN "RUNNING" ELSE state
        PROVE  EntryInv'
    <3>1. settings' = Eva!SetEntries(Eva!FrameConfig, k, current)
      BY <2>2 DEF Eva!SetInitialFrameConfig
    <3>2. settings' = [id \in Eva!Entries' |-> settings'[id]]
      BY <1>0, <3>1, SomeEntriesSet DEF EntryInv
    <3>3. \A id \in Eva!Range(Eva!Iconfig) : settings'[id] = current.version
      <4>1. DOMAIN settings = Eva!Entries /\ Eva!Range(Eva!Iconfig) \subseteq Eva!Entries
        BY DEF EntryInv, Eva!Entries
      <4> QED
        BY <1>0, <3>1, <4>1 DEF EntryInv, Eva!SetEntries
    <3>4. \A id \in Eva!Range(Eva!Iconfig') : settings'[id] = current'.version
      BY <1>0, <3>3, ListsStay
    <3>5. ASSUME state' = "RUNNING", NEW id \in Eva!Entries
          PROVE  settings'[id] = current.version
      <4>1. k = Len(Eva!FrameConfig)
        BY <1>0, <2>2, <3>5
      <4>2. settings' = [i \in Eva!Entries |->
                           IF i \in Eva!Range(Eva!FrameConfig) THEN current.version
                                                              ELSE settings[i]]
        BY <3>1, <4>1, AllEntriesSet, ListsOfEntries DEF EntryInv
      <4>3. id \in Eva!Range(Eva!Iconfig) \/ id \in Eva!Range(Eva!FrameConfig)
        BY DEF Eva!Entries
      <4> QED
        BY <1>0, <4>2, <4>3 DEF EntryInv
    <3> QED
      BY <1>0, <3>2, <3>4, <3>5, ListsStay DEF EntryInv, Eva!Range
  <2> QED
    BY <2>1, <2>2 DEF Eva!Start
<1> QED
  BY <1>1, <1>2

(* A session that could not be stopped goes on with a node that runs.      *)
LEMMA EvaStopHolds ==
  ASSUME SessionInv, EntryInv, Eva!Stop
  PROVE  SessionInv' /\ EntryInv'
<1>1. SessionInv'
  BY DEF Eva!Stop, SessionInv
<1>2. EntryInv'
  <2>1. UNCHANGED <<config, settings, current, up>> /\ state = "RUNNING"
    BY DEF Eva!Stop
  <2> QED
    BY <2>1, ListsStay DEF EntryInv, Eva!Range
<1> QED
  BY <1>1, <1>2

(* Whether or not the session is destroyed, nobody has it afterwards.      *)
LEMMA EvaDeInitializeHolds ==
  ASSUME SessionInv, EntryInv, Eva!DeInitialize
  PROVE  SessionInv' /\ EntryInv'
<1>0. /\ up /\ ~up' /\ state = "READY" /\ session' = 0
      /\ UNCHANGED <<config, state, current, settings>>
  BY DEF Eva!DeInitialize
<1>1. SessionInv'
  <2>1. PICK destroyed \in BOOLEAN :
          /\ live' = IF destroyed THEN live \ {session} ELSE live
          /\ orphans' = IF destroyed THEN orphans ELSE orphans \union {session}
    BY DEF Eva!DeInitialize, Eva!Outcome
  <2> QED
    BY <1>0, <2>1 DEF SessionInv
<1>2. EntryInv'
  BY <1>0, ListsStay DEF EntryInv
<1> QED
  BY <1>1, <1>2

(* A frame changes what is registered, and nothing else.                   *)
LEMMA ProcessHolds ==
  ASSUME SessionInv, EntryInv, NEW f, Eva!ProcessFrameDescriptor(f)
  PROVE  SessionInv' /\ EntryInv'
<1>1. UNCHANGED <<config, state, session, engine, current, settings, up, live, objects,
                  started, orphans>>
  BY DEF Eva!ProcessFrameDescriptor
<1>2. SessionInv'
  BY <1>1 DEF SessionInv
<1>3. EntryInv'
  BY <1>1, ListsStay DEF EntryInv, Eva!Range
<1> QED
  BY <1>2, <1>3

(* What the table has is registered: an entry is made with the             *)
(* registration, and the table of a node that begins is empty.             *)
LEMMA StepRegistered ==
  ASSUME TableInv, RegisteredInv, Eva!Next
  PROVE  RegisteredInv'
<1>1. ASSUME NEW o, Eva!Initialize(o) PROVE RegisteredInv'
  <2>1. UNCHANGED <<memMap, memory>> /\ ~up
    BY <1>1 DEF Eva!Initialize, Eva!Initialize_Refused, Eva!Initialize_BadEntry,
                Eva!Initialize_NoEngine, Eva!Initialize_Done
  <2> QED
    BY <2>1 DEF TableInv, RegisteredInv
<1>2. CASE Eva!Start
  BY <1>2 DEF Eva!Start, RegisteredInv
<1>3. CASE Eva!Stop
  BY <1>3 DEF Eva!Stop, RegisteredInv
<1>4. CASE Eva!DeInitialize
  BY <1>4, DeInitializeDrops DEF RegisteredInv
<1>5. ASSUME NEW f, Eva!ProcessFrameDescriptor(f) PROVE RegisteredInv'
  <2>1. /\ up /\ UNCHANGED <<session, memory, up>>
        /\ \E as : Eva!RegisterMemory(as)
    BY <1>5 DEF Eva!ProcessFrameDescriptor
  <2>2. PICK as : Eva!RegisterMemory(as)
    BY <2>1
  <2>3. ASSUME NEW a \in Addresses, memMap'[a] # Nothing
        PROVE  <<session, a, memory[a]>> \in regs'
    BY <2>1, <2>2, <2>3 DEF Eva!RegisterMemory, RegisteredInv
  <2> QED
    BY <2>1, <2>3 DEF RegisteredInv
<1>6. ASSUME NEW a \in Addresses, NEW m \in Memory, Eva!Replace(a, m)
      PROVE  RegisteredInv'
  BY <1>6 DEF Eva!Replace, RegisteredInv
<1> QED
  BY <1>1, <1>2, <1>3, <1>4, <1>5, <1>6 DEF Eva!Next

LEMMA StepRunning == RunningInv /\ [Eva!Next]_(Eva!vars) => RunningInv'
<1> SUFFICES ASSUME RunningInv, [Eva!Next]_(Eva!vars) PROVE RunningInv'
  OBVIOUS
<1>0. TableInv /\ SessionInv /\ EntryInv /\ RegisteredInv
  BY DEF RunningInv
<1>1. TableInv'
  BY <1>0, StepTable
<1>2. CASE Eva!Next
  <2>1. RegisteredInv'
    BY <1>0, <1>2, StepRegistered
  <2>2. ASSUME NEW o, Eva!Initialize(o) PROVE SessionInv' /\ EntryInv'
    <3>1. ~up => state # "RUNNING"
      BY <1>0 DEF SessionInv
    <3> QED
      BY <1>0, <2>2, <3>1, InitializeSession, InitializeEntries
  <2>3. ASSUME NEW a, NEW m, Eva!Replace(a, m) PROVE SessionInv' /\ EntryInv'
    <3>1. UNCHANGED <<config, state, session, engine, current, settings, up, live,
                      objects, started, orphans>>
      BY <2>3 DEF Eva!Replace, Eva!node, Eva!eva
    <3>2. SessionInv'
      BY <1>0, <3>1 DEF SessionInv
    <3>3. EntryInv'
      BY <1>0, <3>1, ListsStay DEF EntryInv, Eva!Range
    <3> QED
      BY <3>2, <3>3
  <2>4. SessionInv' /\ EntryInv'
    BY <1>0, <1>2, <2>2, <2>3, EvaStartHolds, EvaStopHolds, EvaDeInitializeHolds, ProcessHolds
       DEF Eva!Next
  <2> QED
    BY <1>1, <2>1, <2>4 DEF RunningInv
<1>3. CASE UNCHANGED Eva!vars
  <2>1. UNCHANGED <<config, state, session, engine, current, settings, memMap, up, live,
                    objects, started, regs, orphans, memory>>
    BY <1>3 DEF Eva!vars, Eva!node, Eva!eva
  <2>2. SessionInv' /\ RegisteredInv'
    BY <1>0, <2>1 DEF SessionInv, RegisteredInv
  <2>3. EntryInv'
    BY <1>0, <2>1, ListsStay DEF EntryInv, Eva!Range
  <2> QED
    BY <1>1, <2>2, <2>3 DEF RunningInv
<1> QED
  BY <1>2, <1>3

-----------------------------------------------------------------------------
(***************************************************************************)
(* The node by itself, and as a part of Services.                          *)
(***************************************************************************)
LEMMA RunningHolds == RunningInv => Eva!RunningNodeHolds
  BY DEF RunningInv, SessionInv, EntryInv, RegisteredInv, Eva!RunningNodeHolds

(* A step of Services is one of this node, or leaves its table empty.      *)
EvaPartInv ==
  /\ part = "eva" => RunningInv
  /\ part # "eva" => memMap = [a \in Addresses |-> Nothing]

LEMMA InitEvaPart == ServicesInit => EvaPartInv
  BY InitRunning DEF ServicesInit, EvaPartInv, EvaIdle

LEMMA EvaPartSteps ==
  ASSUME [ServicesNext]_servicesVars
  PROVE  /\ UNCHANGED part
         /\ part = "eva" => [Eva!Next]_(Eva!vars)
         /\ part # "eva" => UNCHANGED memMap
<1>1. CASE ServicesNext
  BY <1>1 DEF ServicesNext, evaVars
<1>2. CASE UNCHANGED servicesVars
  BY <1>2 DEF servicesVars, common, evaVars, Eva!vars, Eva!node, Eva!eva
<1> QED
  BY <1>1, <1>2

LEMMA StepEvaPart == EvaPartInv /\ [ServicesNext]_servicesVars => EvaPartInv'
<1> SUFFICES ASSUME EvaPartInv, [ServicesNext]_servicesVars PROVE EvaPartInv'
  OBVIOUS
<1>1. /\ UNCHANGED part
      /\ part = "eva" => [Eva!Next]_(Eva!vars)
      /\ part # "eva" => UNCHANGED memMap
  BY EvaPartSteps
<1> QED
  BY <1>1, StepRunning DEF EvaPartInv

(***************************************************************************)
(* A node that runs has a started session with its object on it, every     *)
(* entry the engine reads is of the configuration in force, and what the   *)
(* table has is registered with this session - after any calls with any    *)
(* failures (Start and RegisterMemory test m_state and the address only).  *)
(***************************************************************************)
THEOREM RunningNodesHold == ServicesSpec => []EvaRunningNodeHolds
<1>1. EvaPartInv => EvaRunningNodeHolds
  BY RunningHolds DEF EvaPartInv, EvaRunningNodeHolds
<1> QED
  BY <1>1, InitEvaPart, StepEvaPart, PTL DEF ServicesSpec

LEMMA StepUse == TableInv /\ [Eva!Next]_(Eva!vars) => [Eva!Use!Next]_(Eva!Use!vars)
<1> SUFFICES ASSUME TableInv, [Eva!Next]_(Eva!vars) PROVE [Eva!Use!Next]_(Eva!Use!vars)
  OBVIOUS
<1>1. CASE \/ \E o \in config.offers : Eva!Initialize(o)
           \/ Eva!Start
           \/ Eva!Stop
  BY <1>1, OthersLeave DEF Eva!Use!vars
<1>2. CASE Eva!DeInitialize
  BY <1>2, DeInitializeDrops DEF Eva!Use!Next
<1>3. CASE \E f \in config.frames : Eva!ProcessFrameDescriptor(f)
  BY <1>3, ProcessKeeps DEF Eva!Use!Next
<1>4. ASSUME NEW a \in Addresses, NEW m \in Memory, Eva!Replace(a, m)
      PROVE  Eva!Use!Next
  <2>1. Eva!Use!Replace(a, m)
    BY <1>4 DEF Eva!Replace, TableInv, Eva!Use!Replace, Eva!node
  <2> QED
    BY <2>1 DEF Eva!Use!Next
<1>5. CASE UNCHANGED Eva!vars
  BY <1>5 DEF Eva!vars, Eva!node, Eva!Use!vars
<1> QED
  BY <1>1, <1>2, <1>3, <1>4, <1>5 DEF Eva!Next

(* Another part moves: the table is empty, and memory is replaced at one   *)
(* address, or not at all.                                                 *)
LEMMA OthersUse ==
  ASSUME memMap = [a \in Addresses |-> Nothing], UNCHANGED memMap,
         part # "eva", [ServicesNext]_servicesVars
  PROVE  [Eva!Use!Next]_(Eva!Use!vars)
<1>1. CASE UNCHANGED memory
  BY <1>1 DEF Eva!Use!vars
<1>2. ASSUME NEW a \in Addresses, NEW m \in Memory, memory' = [memory EXCEPT ![a] = m]
      PROVE  Eva!Use!Next
  BY <1>2 DEF Eva!Use!Next, Eva!Use!Replace
<1>3. CASE part = "cl" /\ Cl!Next
  <2>1. \/ UNCHANGED memory
        \/ \E a \in Addresses, m \in Memory : memory' = [memory EXCEPT ![a] = m]
    BY <1>3 DEF Cl!Next, Cl!Initialize, Cl!Start, Cl!Stop, Cl!DeInitialize,
                Cl!ProcessFrameDescriptor, Cl!Replace
  <2> QED
    BY <2>1, <1>1, <1>2
<1>4. CASE part = "fadas" /\ Fadas!Next
  <2>1. \/ UNCHANGED memory
        \/ \E a \in Addresses, m \in Memory : memory' = [memory EXCEPT ![a] = m]
    BY <1>4 DEF Fadas!Next, Fadas!Step, Fadas!Initialize, Fadas!Start, Fadas!RemapStop,
                Fadas!VoxelizationStopCall, Fadas!DeInitialize,
                Fadas!ProcessFrameDescriptor, Fadas!Replace
  <2> QED
    BY <2>1, <1>1, <1>2
<1>5. CASE UNCHANGED servicesVars
  BY <1>1, <1>5 DEF servicesVars, common
<1> QED
  BY <1>1, <1>3, <1>4, <1>5 DEF ServicesNext, common

(***************************************************************************)
(* The node implements BufferUse: it takes up memory in                    *)
(* ProcessFrameDescriptor, lets go of all of it in DeInitialize, and the   *)
(* memory at an address changes only when it has nothing of it.            *)
(***************************************************************************)
THEOREM NodeLetsGo == ServicesSpec => EvaLetsGo
<1>1. ServicesInit => Eva!Use!Init
  <2>1. ASSUME ServicesInit PROVE memory \in [Addresses -> Memory]
    <3>1. CASE part = "eva"
      BY <2>1, <3>1 DEF ServicesInit, Eva!Init
    <3>2. CASE part = "cl"
      BY <2>1, <3>2 DEF ServicesInit, Cl!Init
    <3>3. CASE part \notin {"eva", "cl"}
      BY <2>1, <3>3, Configurations DEF ServicesInit
    <3> QED
      BY <3>1, <3>2, <3>3
  <2> QED
    BY <2>1 DEF ServicesInit, Eva!Init, EvaIdle, Eva!Use!Init
<1>2. EvaPartInv /\ [ServicesNext]_servicesVars => [Eva!Use!Next]_(Eva!Use!vars)
  BY EvaPartSteps, StepUse, OthersUse DEF EvaPartInv, RunningInv
<1> QED
  BY <1>1, <1>2, InitEvaPart, StepEvaPart, PTL
     DEF ServicesSpec, EvaLetsGo, Eva!LetsGo, Eva!Use!Spec

-----------------------------------------------------------------------------
(***************************************************************************)
(* GraphInfo.  The pieces of a graph, whether allocated or not: what is    *)
(* copied of a graph is among them, and the release frees those that are   *)
(* held.                                                                   *)
(***************************************************************************)
TensorPieces(path, t) == { path \o <<f>> : f \in Graphs!Fields(t) }
TensorsPieces(path, ts) ==
  {path \o <<0>>} \union UNION { TensorPieces(path \o <<i>>, ts[i]) : i \in DOMAIN ts }
GraphPieces(i, g) ==
  {<<i, "name">>} \union TensorsPieces(<<i, "inputs">>, g.inputs)
                  \union TensorsPieces(<<i, "outputs">>, g.outputs)

LEMMA TensorCopied ==
  ASSUME NEW path, NEW t, NEW refused
  PROVE  Graphs!DeepCopyQnnTensorInfo(path, t, refused).pieces \subseteq TensorPieces(path, t)
  BY DEF Graphs!DeepCopyQnnTensorInfo, TensorPieces

LEMMA TensorsCopied ==
  ASSUME NEW path, NEW ts, NEW refused
  PROVE  Graphs!CopyTensorsInfo(path, ts, refused).pieces \subseteq TensorsPieces(path, ts)
<1> DEFINE first == Graphs!Piece(path \o <<0>>, refused)
           parts == [i \in DOMAIN ts |->
                       Graphs!DeepCopyQnnTensorInfo(path \o <<i>>, ts[i], refused)]
<1>1. first.pieces \subseteq {path \o <<0>>}
  BY DEF Graphs!Piece
<1>2. \A i \in DOMAIN ts : parts[i].pieces \subseteq TensorPieces(path \o <<i>>, ts[i])
  BY TensorCopied
<1>3. DOMAIN parts = DOMAIN ts
  OBVIOUS
<1>4. Graphs!InTurn(first, parts).pieces
        \subseteq first.pieces \union UNION { parts[i].pieces : i \in DOMAIN ts }
  <2> HIDE DEF first, parts
  <2> QED
    BY <1>3 DEF Graphs!InTurn
<1>5. Graphs!CopyTensorsInfo(path, ts, refused) = Graphs!InTurn(first, parts)
  BY DEF Graphs!CopyTensorsInfo
<1> HIDE DEF first, parts
<1> QED
  BY <1>1, <1>2, <1>4, <1>5 DEF TensorsPieces

LEMMA GraphCopied ==
  ASSUME NEW i, NEW g, NEW refused
  PROVE  Graphs!CopyGraph(i, g, refused).pieces \subseteq GraphPieces(i, g)
<1> DEFINE name == Graphs!Unless(~g.named, Graphs!Piece(<<i, "name">>, refused))
           ins  == Graphs!Unless(g.inputs = <<>>,
                     Graphs!CopyTensorsInfo(<<i, "inputs">>, g.inputs, refused))
           outs == Graphs!Unless(g.outputs = <<>>,
                     Graphs!CopyTensorsInfo(<<i, "outputs">>, g.outputs, refused))
<1>1. name.pieces \subseteq {<<i, "name">>}
  BY DEF Graphs!Unless, Graphs!Done, Graphs!Piece
<1>2. ins.pieces \subseteq TensorsPieces(<<i, "inputs">>, g.inputs)
  BY TensorsCopied DEF Graphs!Unless, Graphs!Done
<1>3. outs.pieces \subseteq TensorsPieces(<<i, "outputs">>, g.outputs)
  BY TensorsCopied DEF Graphs!Unless, Graphs!Done
<1>4. Graphs!CopyGraphsInfoV1(i, g, refused) = Graphs!InTurn(name, <<ins, outs>>)
  BY DEF Graphs!CopyGraphsInfoV1
<1>5. Graphs!InTurn(name, <<ins, outs>>).pieces
        \subseteq name.pieces \union ins.pieces \union outs.pieces
  <2> HIDE DEF name, ins, outs
  <2> DEFINE parts == <<ins, outs>>
  <2>1. DOMAIN parts = {1, 2} /\ parts[1] = ins /\ parts[2] = outs
    OBVIOUS
  <2> HIDE DEF parts
  <2>2. Graphs!InTurn(name, parts).pieces
          \subseteq name.pieces \union UNION { parts[k].pieces : k \in {1, 2} }
    BY <2>1 DEF Graphs!InTurn
  <2> QED
    BY <2>1, <2>2 DEF parts
<1> HIDE DEF name, ins, outs
<1>6. Graphs!CopyGraphsInfoV1(i, g, refused).pieces \subseteq GraphPieces(i, g)
  BY <1>1, <1>2, <1>3, <1>4, <1>5 DEF GraphPieces
<1> QED
  BY <1>6 DEF Graphs!CopyGraph, Graphs!CopyGraphsInfoV3

(* The release of a graph frees what is held of it. *)
LEMMA GraphFreed ==
  ASSUME NEW i, NEW g, NEW held
  PROVE  GraphPieces(i, g) \intersect held \subseteq Graphs!FreeGraph(i, g, held)
<1>1. ASSUME NEW path, NEW t
      PROVE  TensorPieces(path, t) \intersect held \subseteq Graphs!FreeQnnTensor(path, t, held)
  BY DEF TensorPieces, Graphs!FreeQnnTensor
<1>2. ASSUME NEW path, NEW ts
      PROVE  TensorsPieces(path, ts) \intersect held
               \subseteq Graphs!FreeQnnTensors(path, ts, held)
  BY <1>1 DEF TensorsPieces, Graphs!FreeQnnTensors
<1> QED
  BY <1>2 DEF GraphPieces, Graphs!FreeGraph

(* A path starts as what it extends does. *)
LEMMA PathStarts ==
  ASSUME NEW S, NEW s \in Seq(S), s # <<>>, NEW e
  PROVE  /\ s \o <<e>> \in Seq(S \union {e}) /\ s \o <<e>> # <<>>
         /\ (s \o <<e>>)[1] = s[1]
<1>1. s \in Seq(S \union {e}) /\ <<e>> \in Seq(S \union {e}) /\ Len(<<e>>) = 1
  OBVIOUS
<1>2. Len(s) \in Nat /\ Len(s) >= 1
  OBVIOUS
<1> QED
  BY <1>1, <1>2

(* The pieces of a graph bear its number. *)
LEMMA PiecesNumbered ==
  ASSUME NEW i, NEW g, NEW p \in GraphPieces(i, g)
  PROVE  p[1] = i
<1>1. ASSUME NEW side, NEW ts, p \in TensorsPieces(<<i, side>>, ts)
      PROVE  p[1] = i
  <2> DEFINE path == <<i, side>>
  <2>1. path \in Seq({i, side}) /\ path # <<>> /\ path[1] = i
    OBVIOUS
  <2>2. p \in TensorsPieces(path, ts)
    BY <1>1
  <2> HIDE DEF path
  <2>3. CASE p = path \o <<0>>
    BY <2>1, <2>3, PathStarts
  <2>4. ASSUME NEW k, NEW f, p = (path \o <<k>>) \o <<f>>
        PROVE  p[1] = i
    <3> DEFINE longer == path \o <<k>>
    <3>1. longer \in Seq({i, side} \union {k}) /\ longer # <<>> /\ longer[1] = i
      BY <2>1, PathStarts
    <3> HIDE DEF longer
    <3>2. (longer \o <<f>>)[1] = i
      BY <3>1, PathStarts
    <3> QED
      BY <2>4, <3>2 DEF longer
  <2> QED
    BY <2>2, <2>3, <2>4 DEF TensorsPieces, TensorPieces
<1>2. CASE p = <<i, "name">>
  BY <1>2
<1> QED
  BY <1>1, <1>2 DEF GraphPieces

(***************************************************************************)
(* What a copy leaves: all pieces of the graphs in the list, or, of a copy *)
(* that failed, pieces of the graph after the n that are in the list, and  *)
(* the array if there are none.                                            *)
(***************************************************************************)
ListPieces(gs) ==
  {Graphs!List, Graphs!Array} \union UNION { GraphPieces(i, gs[i]) : i \in DOMAIN gs }

FailedLeaves(pieces) ==
  /\ Graphs!List \notin pieces
  /\ \E n \in Nat : /\ \A p \in pieces \ {Graphs!Array} : p[1] = n + 1
                    /\ Graphs!Array \in pieces => n = 0

CopyOutcome(copy) ==
  \/ \E gs : copy.list = <<gs>> /\ copy.pieces \subseteq ListPieces(gs)
  \/ copy.list = Graphs!NoList /\ FailedLeaves(copy.pieces)

(* GraphInfo counts as the library's facts do. *)
LEMMA GraphsCardinality ==
  ASSUME NEW S PROVE Graphs!Cardinality(S) = Cardinality(S)
  BY DEF Graphs!Cardinality, Cardinality

LEMMA StoredNat ==
  ASSUME NEW gs \in Seq(Graphs!Descriptions), NEW refused
  PROVE  Graphs!Stored(gs, refused) \in Nat
<1> DEFINE S == { n \in DOMAIN gs : \A i \in 1 .. n : Graphs!CopyGraph(i, gs[i], refused).ok }
<1>1. DOMAIN gs = 1 .. Len(gs) /\ Len(gs) \in Nat
  OBVIOUS
<1>2. IsFiniteSet(1 .. Len(gs))
  BY <1>1, FS_Interval
<1>3. S \subseteq 1 .. Len(gs)
  BY <1>1
<1>0. Graphs!Stored(gs, refused) = Cardinality(S)
  BY GraphsCardinality DEF Graphs!Stored
<1> HIDE DEF S
<1>4. IsFiniteSet(S)
  BY <1>2, <1>3, FS_Subset
<1>5. Cardinality(S) \in Nat
  BY <1>4, FS_CardinalityType
<1> QED
  BY <1>0, <1>5

LEMMA CopyLeaves ==
  ASSUME NEW gs \in Seq(Graphs!Descriptions), NEW refused
  PROVE  CopyOutcome(Graphs!CopyGraphsInfo(gs, refused))
<1> DEFINE n     == Graphs!Stored(gs, refused)
           tried == 1 .. IF n < Len(gs) THEN n + 1 ELSE n
           held  == UNION { Graphs!CopyGraph(i, gs[i], refused).pieces : i \in tried }
           copy  == Graphs!CopyGraphsInfo(gs, refused)
<1>1. n \in Nat /\ DOMAIN gs = 1 .. Len(gs) /\ Len(gs) \in Nat
  BY StoredNat
<1>2. copy = IF {Graphs!List, Graphs!Array} \intersect refused # {}
             THEN [pieces |-> IF Graphs!List \in refused THEN {Graphs!Array} ELSE {},
                   list |-> Graphs!NoList]
             ELSE IF n = Len(gs)
             THEN [pieces |-> {Graphs!List, Graphs!Array} \union held, list |-> <<gs>>]
             ELSE [pieces |-> ({Graphs!List, Graphs!Array} \union held)
                                \ Graphs!FreeStored(gs, n, held),
                   list |-> Graphs!NoList]
  BY DEF Graphs!CopyGraphsInfo
<1>3. Graphs!List # Graphs!Array
  BY DEF Graphs!List, Graphs!Array
<1>4. \A p \in held : \E i \in tried : p \in GraphPieces(i, gs[i])
  BY GraphCopied
<1> HIDE DEF n, held, copy
<1>5. CASE {Graphs!List, Graphs!Array} \intersect refused # {}
  <2>1. copy.list = Graphs!NoList /\ copy.pieces \subseteq {Graphs!Array}
    BY <1>2, <1>5
  <2>2. FailedLeaves(copy.pieces)
    <3>1. 0 \in Nat
      OBVIOUS
    <3> QED
      BY <1>3, <2>1, <3>1 DEF FailedLeaves
  <2> QED
    BY <2>1, <2>2 DEF CopyOutcome, copy
<1>6. CASE {Graphs!List, Graphs!Array} \intersect refused = {} /\ n = Len(gs)
  <2>1. copy.list = <<gs>> /\ copy.pieces = {Graphs!List, Graphs!Array} \union held
    BY <1>2, <1>6
  <2>2. tried = DOMAIN gs
    <3>1. ~(n < Len(gs))
      BY <1>1, <1>6
    <3> QED
      BY <1>1, <1>6, <3>1
  <2>3. copy.pieces \subseteq ListPieces(gs)
    BY <1>4, <2>1, <2>2 DEF ListPieces
  <2> QED
    BY <2>1, <2>3 DEF CopyOutcome, copy
<1>7. CASE {Graphs!List, Graphs!Array} \intersect refused = {} /\ n # Len(gs)
  <2>1. /\ copy.list = Graphs!NoList
        /\ copy.pieces = ({Graphs!List, Graphs!Array} \union held)
                           \ Graphs!FreeStored(gs, n, held)
    BY <1>2, <1>7
  <2>2. Graphs!List \notin copy.pieces
    BY <2>1 DEF Graphs!FreeStored
  <2>3. Graphs!Array \in copy.pieces => n = 0
    BY <2>1 DEF Graphs!FreeStored
  <2>4. ASSUME NEW p \in copy.pieces \ {Graphs!Array}
        PROVE  p[1] = n + 1
    <3>1. p \in held /\ p \notin Graphs!FreeStored(gs, n, held)
      BY <2>1, <2>2, <2>4
    <3>2. PICK i \in tried : p \in GraphPieces(i, gs[i])
      BY <1>4, <3>1
    <3>3. i \notin 1 .. n
      BY <3>1, <3>2, GraphFreed DEF Graphs!FreeStored
    <3>4. i = n + 1
      BY <1>1, <3>2, <3>3
    <3> QED
      BY <3>2, <3>4, PiecesNumbered
  <2>5. FailedLeaves(copy.pieces)
    BY <1>1, <2>2, <2>3, <2>4 DEF FailedLeaves
  <2> QED
    BY <2>1, <2>5 DEF CopyOutcome, copy
<1> QED
  BY <1>5, <1>6, <1>7

LEMMA InitializeLeaves ==
  ASSUME NEW b \in Binaries, NEW copy \in Graphs!CreateFromBinaryFile(b)
  PROVE  CopyOutcome(copy)
<1>1. b.graphs \in Seq(Graphs!Descriptions)
  BY Configurations DEF Graphs!IsBinary
<1>2. FailedLeaves({})
  <2>1. 0 \in Nat
    OBVIOUS
  <2> QED
    BY <2>1 DEF FailedLeaves
<1>3. CopyOutcome([pieces |-> {}, list |-> Graphs!NoList])
  BY <1>2 DEF CopyOutcome
<1>4. ASSUME NEW refused PROVE CopyOutcome(Graphs!CopyMetadataToGraphsInfo(b, refused))
  BY <1>1, <1>3, CopyLeaves DEF Graphs!CopyMetadataToGraphsInfo
<1> QED
  BY <1>3, <1>4 DEF Graphs!CreateFromBinaryFile, Graphs!CreateFromBinaryBuffer

(***************************************************************************)
(* What is allocated belongs to a call.  Of the call that made the list    *)
(* there are pieces of its graphs only, so the release leaves none; of the *)
(* calls before it there is what a failure left, or nothing.               *)
(***************************************************************************)
HeapInv ==
  /\ attempts \in Nat /\ whole \subseteq 1 .. attempts
  /\ \A x \in heap : x = <<x[1], x[2]>> /\ x[1] \in 1 .. attempts
  /\ m_graphsInfo # Graphs!NoList =>
       /\ attempts \in whole
       /\ \E gs : m_graphsInfo = <<gs>> /\ Graphs!Left(attempts) \subseteq ListPieces(gs)
  /\ \A n \in 1 .. attempts :
       m_graphsInfo = Graphs!NoList \/ n # attempts =>
         IF n \in whole THEN Graphs!Left(n) = {} ELSE FailedLeaves(Graphs!Left(n))

LEMMA LeftIs ==
  ASSUME NEW n, NEW p, \A x \in heap : x = <<x[1], x[2]>>
  PROVE  p \in Graphs!Left(n) <=> <<n, p>> \in heap
<1>1. ASSUME <<n, p>> \in heap PROVE p \in Graphs!Left(n)
  <2>1. <<n, p>>[1] = n /\ <<n, p>>[2] = p
    OBVIOUS
  <2> QED
    BY <1>1, <2>1 DEF Graphs!Left
<1>2. ASSUME p \in Graphs!Left(n) PROVE <<n, p>> \in heap
  BY <1>2 DEF Graphs!Left
<1> QED
  BY <1>1, <1>2

LEMMA InitHeap == Graphs!Init => HeapInv
  BY DEF Graphs!Init, HeapInv

LEMMA InitializeHeap ==
  ASSUME HeapInv, NEW b \in Binaries, Graphs!Initialize(b)
  PROVE  HeapInv'
<1>0. attempts + 1 \in Nat
  BY DEF HeapInv
<1>k. PICK k \in Nat : k = attempts + 1
  BY <1>0
<1>1. PICK copy \in Graphs!CreateFromBinaryFile(b) :
        /\ heap' = heap \union { <<k, p>> : p \in copy.pieces }
        /\ m_graphsInfo' = copy.list
        /\ whole' = IF copy.list = Graphs!NoList THEN whole ELSE whole \union {k}
  BY <1>k DEF Graphs!Initialize
<1>2. m_graphsInfo = Graphs!NoList /\ attempts' = k
  BY <1>k DEF Graphs!Initialize
<1>3. /\ attempts \in Nat /\ whole \subseteq 1 .. attempts
      /\ \A x \in heap : x = <<x[1], x[2]>> /\ x[1] \in 1 .. attempts
      /\ \A n \in 1 .. attempts :
           IF n \in whole THEN Graphs!Left(n) = {} ELSE FailedLeaves(Graphs!Left(n))
  BY <1>2 DEF HeapInv
<1>4. CopyOutcome(copy)
  BY InitializeLeaves
<1>5. /\ k \in Nat /\ k \in 1 .. k /\ k \notin 1 .. attempts
      /\ \A n \in 1 .. k : n = k \/ n \in 1 .. attempts
      /\ 1 .. attempts \subseteq 1 .. k
  BY <1>k, <1>3
<1>6. \A x \in heap' : x = <<x[1], x[2]>> /\ x[1] \in 1 .. k
  BY <1>1, <1>3, <1>5
<1>7. ASSUME NEW n, NEW p PROVE p \in Graphs!Left(n)' <=> <<n, p>> \in heap'
  <2>1. ASSUME <<n, p>> \in heap' PROVE p \in Graphs!Left(n)'
    <3>1. <<n, p>>[1] = n /\ <<n, p>>[2] = p
      OBVIOUS
    <3> QED
      BY <2>1, <3>1 DEF Graphs!Left
  <2>2. ASSUME p \in Graphs!Left(n)' PROVE <<n, p>> \in heap'
    BY <1>6, <2>2 DEF Graphs!Left
  <2> QED
    BY <2>1, <2>2
<1>8. \A n \in 1 .. attempts : Graphs!Left(n)' = Graphs!Left(n)
  <2> SUFFICES ASSUME NEW n \in 1 .. attempts, NEW p
               PROVE  p \in Graphs!Left(n)' <=> p \in Graphs!Left(n)
    OBVIOUS
  <2>1. <<n, p>> \in heap' <=> <<n, p>> \in heap
    BY <1>1, <1>5
  <2> QED
    BY <1>3, <1>7, <2>1, LeftIs
<1>9. Graphs!Left(k)' = copy.pieces
  <2>1. ASSUME NEW p PROVE <<k, p>> \in heap' <=> p \in copy.pieces
    <3>1. <<k, p>> \notin heap
      <4>1. <<k, p>>[1] = k
        OBVIOUS
      <4> QED
        BY <1>3, <1>5, <4>1
    <3> QED
      BY <1>1, <3>1
  <2> QED
    BY <1>7, <2>1
<1>10. CASE copy.list = Graphs!NoList
  <2>1. FailedLeaves(copy.pieces)
    BY <1>4, <1>10 DEF CopyOutcome, Graphs!NoList
  <2>2. whole' = whole /\ k \notin whole
    BY <1>1, <1>3, <1>5, <1>10
  <2>3. \A n \in 1 .. k :
          IF n \in whole' THEN Graphs!Left(n)' = {} ELSE FailedLeaves(Graphs!Left(n)')
    BY <1>3, <1>5, <1>8, <1>9, <2>1, <2>2
  <2>4. \A n \in 1 .. k :
          IF n \in whole' THEN Graphs!Left(n)' = {} ELSE FailedLeaves(Graphs!Left(n))'
    BY <2>3 DEF FailedLeaves, Graphs!List, Graphs!Array
  <2> QED
    BY <1>1, <1>2, <1>3, <1>5, <1>6, <1>10, <2>2, <2>4 DEF HeapInv, Graphs!NoList
<1>11. CASE copy.list # Graphs!NoList
  <2>1. PICK gs : copy.list = <<gs>> /\ copy.pieces \subseteq ListPieces(gs)
    BY <1>4, <1>11 DEF CopyOutcome
  <2>2. whole' = whole \union {k}
    BY <1>1, <1>11
  <2>3. \A n \in 1 .. k : n # k =>
          IF n \in whole' THEN Graphs!Left(n)' = {} ELSE FailedLeaves(Graphs!Left(n)')
    BY <1>3, <1>5, <1>8, <2>2
  <2>4. \A n \in 1 .. k : n # k =>
          IF n \in whole' THEN Graphs!Left(n)' = {} ELSE FailedLeaves(Graphs!Left(n))'
    BY <2>3 DEF FailedLeaves, Graphs!List, Graphs!Array
  <2>5. m_graphsInfo' = <<gs>> /\ Graphs!Left(k)' \subseteq ListPieces(gs)
    BY <1>1, <1>9, <2>1
  <2>6. whole' \subseteq 1 .. k
    BY <1>3, <1>5, <2>2
  <2> QED
    BY <1>1, <1>2, <1>5, <1>6, <1>11, <2>2, <2>4, <2>5, <2>6 DEF HeapInv, Graphs!NoList
<1> QED
  BY <1>10, <1>11

LEMMA DestroyHeap ==
  ASSUME HeapInv, Graphs!Destroy
  PROVE  HeapInv'
<1>1. PICK k \in Nat : k = attempts /\ attempts \in whole /\ whole \subseteq 1 .. k
  BY DEF HeapInv, Graphs!Destroy
<1>2. PICK gs : m_graphsInfo = <<gs>> /\ Graphs!Left(k) \subseteq ListPieces(gs)
  BY <1>1 DEF HeapInv, Graphs!Destroy
<1> DEFINE held  == { p[2] : p \in { x \in heap : x[1] = attempts } }
           freed == Graphs!FreeGraphsInfo(gs, held)
<1>3. held = Graphs!Left(k)
  BY <1>1 DEF Graphs!Left
<1>4. m_graphsInfo[1] = gs
  BY <1>2
<1>5. /\ heap' = heap \ { <<k, p>> : p \in freed }
      /\ m_graphsInfo' = Graphs!NoList /\ UNCHANGED <<attempts, whole>>
  BY <1>1, <1>4 DEF Graphs!Destroy
<1>6. \A x \in heap : x = <<x[1], x[2]>> /\ x[1] \in 1 .. k
  BY <1>1 DEF HeapInv
<1>7. \A n \in 1 .. k : n # k =>
        IF n \in whole THEN Graphs!Left(n) = {} ELSE FailedLeaves(Graphs!Left(n))
  BY <1>1 DEF HeapInv
<1>8. Graphs!Left(k) \subseteq freed
  <2>1. ListPieces(gs) \intersect held \subseteq freed
    BY GraphFreed DEF ListPieces, Graphs!FreeGraphsInfo
  <2> QED
    BY <1>2, <1>3, <2>1
<1> HIDE DEF held, freed
<1>9. \A x \in heap' : x = <<x[1], x[2]>> /\ x[1] \in 1 .. k
  BY <1>5, <1>6
<1>10. Graphs!Left(k)' = {}
  <2> SUFFICES ASSUME NEW p \in Graphs!Left(k)' PROVE FALSE
    OBVIOUS
  <2>1. <<k, p>> \in heap'
    BY <1>9 DEF Graphs!Left
  <2>2. p \in Graphs!Left(k) /\ p \notin freed
    BY <1>5, <1>6, <2>1, LeftIs
  <2> QED
    BY <1>8, <2>2
<1>11. \A n \in 1 .. k : n # k => Graphs!Left(n)' = Graphs!Left(n)
  <2> SUFFICES ASSUME NEW n \in 1 .. k, n # k
               PROVE  { x \in heap' : x[1] = n } = { x \in heap : x[1] = n }
    BY DEF Graphs!Left
  <2>1. ASSUME NEW x \in heap, x[1] = n PROVE x \in heap'
    <3>1. \A p : <<k, p>>[1] = k
      OBVIOUS
    <3> QED
      BY <1>5, <2>1, <3>1
  <2> QED
    BY <1>5, <2>1
<1>12. \A n \in 1 .. k :
         IF n \in whole THEN Graphs!Left(n)' = {} ELSE FailedLeaves(Graphs!Left(n)')
  BY <1>1, <1>7, <1>10, <1>11
<1>13. \A n \in 1 .. k :
         IF n \in whole THEN Graphs!Left(n)' = {} ELSE FailedLeaves(Graphs!Left(n))'
  BY <1>12 DEF FailedLeaves, Graphs!List, Graphs!Array
<1> QED
  BY <1>1, <1>5, <1>9, <1>13 DEF HeapInv, Graphs!NoList

LEMMA StepHeap == HeapInv /\ [Graphs!Next]_(Graphs!vars) => HeapInv'
<1>1. ASSUME HeapInv, UNCHANGED Graphs!vars PROVE HeapInv'
  <2>1. UNCHANGED <<heap, m_graphsInfo, attempts, whole>>
    BY <1>1 DEF Graphs!vars
  <2>2. \A n : Graphs!Left(n)' = Graphs!Left(n)
    BY <2>1 DEF Graphs!Left
  <2>3. \A n : FailedLeaves(Graphs!Left(n))' = FailedLeaves(Graphs!Left(n))
    BY <2>2 DEF FailedLeaves, Graphs!List, Graphs!Array
  <2>4. Graphs!Left(attempts)' = Graphs!Left(attempts)
    BY <2>1 DEF Graphs!Left
  <2> QED
    BY <1>1, <2>1, <2>2, <2>3, <2>4 DEF HeapInv, Graphs!NoList
<1> QED
  BY <1>1, InitializeHeap, DestroyHeap DEF Graphs!Next

(* What a failure leaves is of one graph. *)
LEMMA LeavesOfOne ==
  ASSUME NEW pieces, FailedLeaves(pieces)
  PROVE  LET graphs == { p[1] : p \in pieces \ {Graphs!List, Graphs!Array} }
         IN /\ Graphs!List \notin pieces
            /\ Graphs!Cardinality(graphs) <= 1
            /\ Graphs!Array \in pieces => graphs \subseteq {1}
<1> DEFINE graphs == { p[1] : p \in pieces \ {Graphs!List, Graphs!Array} }
<1>1. PICK n \in Nat : /\ \A p \in pieces \ {Graphs!Array} : p[1] = n + 1
                       /\ Graphs!Array \in pieces => n = 0
  BY DEF FailedLeaves
<1>2. graphs \subseteq {n + 1}
  BY <1>1
<1> HIDE DEF graphs
<1>3. IsFiniteSet({n + 1}) /\ Cardinality({n + 1}) = 1
  BY FS_Singleton
<1>4. Cardinality(graphs) <= 1
  BY <1>2, <1>3, FS_Subset
<1>5. Graphs!Cardinality(graphs) <= 1
  BY <1>4, GraphsCardinality
<1> QED
  BY <1>1, <1>2, <1>5 DEF FailedLeaves, graphs

LEMMA LeavesOfNone ==
  LET graphs == { p[1] : p \in {} \ {Graphs!List, Graphs!Array} }
  IN /\ Graphs!List \notin {}
     /\ Graphs!Cardinality(graphs) <= 1
     /\ Graphs!Array \in {} => graphs \subseteq {1}
<1> DEFINE graphs == { p[1] : p \in {} \ {Graphs!List, Graphs!Array} }
<1>1. graphs = {}
  OBVIOUS
<1> HIDE DEF graphs
<1>2. Graphs!Cardinality(graphs) <= 1
  BY <1>1, FS_EmptySet, GraphsCardinality
<1> QED
  BY <1>2 DEF graphs

LEMMA HeapFreed == HeapInv => Graphs!GraphsFreed
<1> SUFFICES ASSUME HeapInv, NEW n \in 1 .. attempts,
                    m_graphsInfo = Graphs!NoList \/ n # attempts
             PROVE  LET graphs == { p[1] : p \in Graphs!Left(n) \ {Graphs!List, Graphs!Array} }
                    IN /\ n \in whole => Graphs!Left(n) = {}
                       /\ Graphs!List \notin Graphs!Left(n)
                       /\ Graphs!Cardinality(graphs) <= 1
                       /\ Graphs!Array \in Graphs!Left(n) => graphs \subseteq {1}
  BY DEF Graphs!GraphsFreed
<1> DEFINE left == Graphs!Left(n)
<1>1. IF n \in whole THEN left = {} ELSE FailedLeaves(left)
  BY DEF HeapInv
<1> HIDE DEF left
<1>2. CASE n \in whole
  <2>1. left = {}
    BY <1>1, <1>2
  <2> QED
    BY <2>1, LeavesOfNone DEF left
<1>3. CASE n \notin whole
  <2>1. FailedLeaves(left)
    BY <1>1, <1>3
  <2> QED
    BY <1>3, <2>1, LeavesOfOne DEF left
<1> QED
  BY <1>2, <1>3

LEMMA GraphsSteps ==
  ASSUME [ServicesNext]_servicesVars
  PROVE  [Graphs!Next]_(Graphs!vars)
<1>1. CASE ServicesNext
  BY <1>1 DEF ServicesNext, graphVars, Graphs!vars
<1>2. CASE UNCHANGED servicesVars
  BY <1>2 DEF servicesVars, graphVars, Graphs!vars
<1> QED
  BY <1>1, <1>2

(***************************************************************************)
(* After any sequence of calls of Initialize and Destroy, with any binary  *)
(* and any allocation refused, a copy that was destroyed has left nothing, *)
(* and one that failed left pieces of one graph at most, and the array     *)
(* only before its first graph was in the list (CopyGraphsInfo,            *)
(* FreeGraphsInfo).                                                        *)
(***************************************************************************)
THEOREM CopiesAreFreed == ServicesSpec => []GraphsFreed
<1>1. ServicesInit => HeapInv
  BY InitHeap DEF ServicesInit
<1>2. HeapInv /\ [ServicesNext]_servicesVars => HeapInv'
  BY GraphsSteps, StepHeap
<1>3. HeapInv => GraphsFreed
  BY HeapFreed DEF GraphsFreed
<1> QED
  BY <1>1, <1>2, <1>3, PTL DEF ServicesSpec

-----------------------------------------------------------------------------
(***************************************************************************)
(* CL2DFlex.  The state of the service is a record with all its fields.    *)
(***************************************************************************)
WholeService(s) ==
  /\ DOMAIN s = {"initialized", "kernels", "tables", "live", "contexts", "epoch"}
  /\ s.initialized \in BOOLEAN

LEMMA ClosedIs ==
  /\ WholeService(Cl!Closed) /\ Cl!Closed.tables = {} /\ Cl!Closed.live = {}
  /\ Cl!Closed.initialized = FALSE
  BY DEF WholeService, Cl!Closed

LEMMA ServiceInitIs ==
  ASSUME NEW s, WholeService(s)
  PROVE  LET t == Cl!ServiceInit(s)
         IN /\ WholeService(t) /\ t.initialized = TRUE
            /\ t.kernels = s.kernels /\ t.tables = s.tables /\ t.live = s.live
            /\ t.epoch = s.epoch
  BY DEF WholeService, Cl!ServiceInit

LEMMA ServiceFailsIs ==
  ASSUME NEW s, WholeService(s), NEW t \in Cl!ServiceFails(s)
  PROVE  /\ WholeService(t) /\ t.initialized = s.initialized
         /\ t.kernels = s.kernels /\ t.tables = s.tables /\ t.live = s.live
  BY DEF WholeService, Cl!ServiceFails

LEMMA RegisterIs ==
  ASSUME NEW s, WholeService(s), NEW new
  PROVE  LET t == Cl!Register(s, new)
         IN /\ WholeService(t) /\ t.initialized = s.initialized
            /\ t.kernels = s.kernels
            /\ t.tables = s.tables \union new /\ t.live = s.live \union new
  BY DEF WholeService, Cl!Register

LEMMA DeregAllBuffersIs ==
  ASSUME NEW s, WholeService(s), NEW kept
  PROVE  LET t == Cl!DeregAllBuffers(s, kept)
         IN /\ WholeService(t) /\ t.initialized = s.initialized
            /\ t.kernels = s.kernels /\ t.tables = {}
  BY DEF WholeService, Cl!DeregAllBuffers

LEMMA ServiceDeinitIs ==
  ASSUME NEW s, WholeService(s), NEW kept
  PROVE  LET t == Cl!ServiceDeinit(s, kept)
         IN WholeService(t) /\ t.initialized = FALSE /\ t.tables = {}
<1> DEFINE d == Cl!DeregAllBuffers(s, kept)
<1>1. WholeService(d) /\ d.tables = {}
  BY DeregAllBuffersIs
<1>2. Cl!ServiceDeinit(s, kept) = [d EXCEPT !.initialized = FALSE, !.kernels = {}, !.contexts = @ - 1]
  BY DEF Cl!ServiceDeinit
<1> HIDE DEF d
<1> QED
  BY <1>1, <1>2 DEF WholeService

(* What a sequence of calls adds: kernels, and objects for what is in no   *)
(* table yet, each made of the memory at its address.                      *)
Unknown(s, rs) ==
  { r \in rs : r.table \in {"buffer", "image", "plane"} /\ ~Cl!Known(s, r) }
NewObjects(s, rs, mem) == { Cl!NewObject(s, r, mem) : r \in Unknown(s, rs) }

NewKernels(rs) == { r.key : r \in { q \in rs : q.table = "kernel" } }

LEMMA DoAllIs ==
  ASSUME NEW s, WholeService(s), NEW rs, NEW mem
  PROVE  LET t == Cl!DoAll(s, rs, mem)
         IN /\ WholeService(t) /\ t.initialized = s.initialized
            /\ t.kernels = s.kernels \union NewKernels(rs)
            /\ t.tables = s.tables \union NewObjects(s, rs, mem)
            /\ t.live = s.live \union NewObjects(s, rs, mem)
<1>1. PICK k : k = [s EXCEPT !.kernels = @ \union NewKernels(rs)]
  OBVIOUS
<1>2. /\ WholeService(k) /\ k.initialized = s.initialized
      /\ k.kernels = s.kernels \union NewKernels(rs)
      /\ k.tables = s.tables /\ k.live = s.live
  BY <1>1 DEF WholeService
<1>3. Cl!DoAll(s, rs, mem) = Cl!Register(k, NewObjects(s, rs, mem))
  BY <1>1 DEF Cl!DoAll, NewObjects, Unknown, NewKernels
<1> QED
  BY <1>2, <1>3, RegisterIs

(* An object is made of the memory at the address that is its key.         *)
Current(s, mem) == \A o \in s.tables : o \in s.live /\ o.memory = mem[o.key[1]]

LEMMA NewObjectsCurrent ==
  ASSUME NEW s, NEW rs, NEW mem, NEW o \in NewObjects(s, rs, mem)
  PROVE  /\ o.memory = mem[o.key[1]]
         /\ \E r \in Unknown(s, rs) : o.table = r.table /\ o.key = r.key
  BY DEF NewObjects, Cl!NewObject

LEMMA DoAllCurrent ==
  ASSUME NEW s, WholeService(s), NEW rs, NEW mem, Current(s, mem)
  PROVE  /\ Current(Cl!DoAll(s, rs, mem), mem)
         /\ s.kernels \subseteq Cl!DoAll(s, rs, mem).kernels
         /\ s.live \subseteq Cl!DoAll(s, rs, mem).live
<1> HIDE DEF Current
<1>1. PICK t : t = Cl!DoAll(s, rs, mem)
  OBVIOUS
<1>2. /\ t.tables = s.tables \union NewObjects(s, rs, mem)
      /\ t.live = s.live \union NewObjects(s, rs, mem)
      /\ s.kernels \subseteq t.kernels
  BY <1>1, DoAllIs
<1>3. Current(t, mem)
  BY <1>2, NewObjectsCurrent DEF Current
<1> QED
  BY <1>1, <1>2, <1>3

-----------------------------------------------------------------------------
(* CL2DFlex counts as the library's facts do. *)
LEMMA ClCardinality ==
  ASSUME NEW S PROVE Cl!Cardinality(S) = Cardinality(S)
  BY DEF Cl!Cardinality, Cardinality

(* What Initialize asks for a pipeline is among its calls. *)
LEMMA PipelineCalls ==
  ASSUME NEW p, NEW i \in DOMAIN p.inputs
  PROVE  /\ Cl!CreateKernel(Cl!Kernel(p, i)) \in Cl!AllInitCalls(p)
         /\ \A a \in Cl!ToSet(Cl!Tables(p.inputs[i])) :
              Cl!RegBufferDesc(a) \in Cl!AllInitCalls(p)
<1> DEFINE k == Cl!CreateKernel(Cl!Kernel(p, i))
           T == Cl!Tables(p.inputs[i])
           n == Cl!NumTables(p.inputs[i].mode)
           q == [j \in DOMAIN T |-> Cl!RegBufferDesc(T[j])]
           S == {k} \union { q[j] : j \in 1 .. n }
           calls == Cl!PipelineInit(p, i)
<1>1. n \in Nat
  BY DEF Cl!NumTables
<1>2. DOMAIN T = 1 .. n
  BY DEF Cl!Tables
<1>3. calls = <<k>> \o q
  BY DEF Cl!PipelineInit
<1>4. Cl!ToSet(calls) \subseteq Cl!AllInitCalls(p)
  BY DEF Cl!AllInitCalls
<1>5. \A a \in Cl!ToSet(T) : \E j \in 1 .. n : a = T[j]
  BY <1>2 DEF Cl!ToSet
<1>6. \A j \in 1 .. n : q[j] = Cl!RegBufferDesc(T[j])
  BY <1>2
<1>7. q = [j \in 1 .. n |-> q[j]]
  BY <1>2
<1> HIDE DEF k, n, q, T, calls
<1>8. <<k>> \in Seq(S) /\ q \in Seq(S) /\ Len(q) = n
  BY <1>1, <1>7
<1>9. /\ calls \in Seq(S) /\ Len(calls) = 1 + n
      /\ calls[1] = k
      /\ \A j \in 1 .. n : calls[j + 1] = q[j]
  BY <1>1, <1>3, <1>8, ConcatProperties
<1>10. k \in Cl!ToSet(calls) /\ \A j \in 1 .. n : q[j] \in Cl!ToSet(calls)
  <2>1. DOMAIN calls = 1 .. 1 + n
    BY <1>9
  <2>2. 1 \in DOMAIN calls /\ \A j \in 1 .. n : j + 1 \in DOMAIN calls
    BY <1>1, <2>1
  <2> QED
    BY <1>9, <2>2 DEF Cl!ToSet
<1> QED
  BY <1>4, <1>5, <1>6, <1>10 DEF k, T

(* In empty tables each address gets one object, and addresses differ in   *)
(* theirs.                                                                 *)
LEMMA ObjectsOfNew ==
  ASSUME NEW s, WholeService(s), s.tables = {}, NEW rs, NEW mem, NEW a,
         Cl!RegBufferDesc(a) \in rs
  PROVE  /\ Cl!Objects(Cl!DoAll(s, rs, mem), Cl!RegBufferDesc(a))
              = { Cl!NewObject(s, Cl!RegBufferDesc(a), mem) }
         /\ Cl!NewObject(s, Cl!RegBufferDesc(a), mem) \in Cl!DoAll(s, rs, mem).live
<1> DEFINE r == Cl!RegBufferDesc(a)
           o == Cl!NewObject(s, r, mem)
<1>1. r.table = "buffer" /\ r.key = <<a>> /\ o.table = "buffer" /\ o.key = <<a>>
  BY DEF Cl!RegBufferDesc, Cl!NewObject
<1>2. o \in NewObjects(s, rs, mem)
  <2>1. ~Cl!Known(s, r)
    BY <1>1 DEF Cl!Known, Cl!Objects
  <2> QED
    BY <1>1, <2>1 DEF NewObjects, Unknown
<1>3. ASSUME NEW x \in NewObjects(s, rs, mem), x.table = "buffer", x.key = <<a>>
      PROVE  x = o
  <2>1. PICK q \in rs : x = Cl!NewObject(s, q, mem)
    BY DEF NewObjects, Unknown
  <2>2. q.table = "buffer" /\ q.key = <<a>>
    BY <1>3, <2>1 DEF Cl!NewObject
  <2> QED
    BY <1>1, <2>1, <2>2 DEF Cl!NewObject
<1>4. /\ Cl!DoAll(s, rs, mem).tables = NewObjects(s, rs, mem)
      /\ o \in Cl!DoAll(s, rs, mem).live
  <2> HIDE DEF o
  <2>1. LET t == Cl!DoAll(s, rs, mem)
        IN /\ t.tables = s.tables \union NewObjects(s, rs, mem)
           /\ t.live = s.live \union NewObjects(s, rs, mem)
    BY DoAllIs
  <2> QED
    BY <1>2, <2>1
<1> HIDE DEF r, o
<1>5. \A x : x \in Cl!Objects(Cl!DoAll(s, rs, mem), r) <=> x = o
  BY <1>1, <1>2, <1>3, <1>4 DEF Cl!Objects
<1> QED
  BY <1>4, <1>5 DEF r, o

LEMMA ObjectsDiffer ==
  ASSUME NEW s, NEW mem, NEW a, NEW b,
         Cl!NewObject(s, Cl!RegBufferDesc(a), mem) = Cl!NewObject(s, Cl!RegBufferDesc(b), mem)
  PROVE  a = b
<1>1. /\ Cl!NewObject(s, Cl!RegBufferDesc(a), mem).key = <<a>>
      /\ Cl!NewObject(s, Cl!RegBufferDesc(b), mem).key = <<b>>
  BY DEF Cl!NewObject, Cl!RegBufferDesc
<1>2. <<a>>[1] = a /\ <<b>>[1] = b
  OBVIOUS
<1> QED
  BY <1>1, <1>2

LEMMA TablesFinite ==
  ASSUME NEW input
  PROVE  /\ IsFiniteSet(Cl!ToSet(Cl!Tables(input)))
         /\ Cl!NumTables(input.mode) = 0 => Cl!ToSet(Cl!Tables(input)) = {}
<1> DEFINE n == Cl!NumTables(input.mode)
           T == Cl!Tables(input)
<1>1. n \in Nat
  BY DEF Cl!NumTables
<1>2. DOMAIN T = 1 .. n
  BY DEF Cl!Tables
<1>3. Cl!ToSet(T) = { T[j] : j \in 1 .. n }
  BY <1>2 DEF Cl!ToSet
<1>4. IsFiniteSet(1 .. n)
  BY <1>1, FS_Interval
<1> HIDE DEF n, T
<1>5. [j \in 1 .. n |-> T[j]] \in Surjection(1 .. n, { T[j] : j \in 1 .. n })
  BY DEF Surjection
<1>6. IsFiniteSet({ T[j] : j \in 1 .. n })
  BY <1>4, <1>5, FS_Surjection
<1>7. n = 0 => { T[j] : j \in 1 .. n } = {}
  OBVIOUS
<1> QED
  BY <1>3, <1>6, <1>7 DEF n, T

(* A pipeline that Initialize has made in empty tables. *)
PipelineHolds(pipeline, input, s) ==
  /\ pipeline.kernel \in s.kernels
  /\ pipeline.kept \subseteq s.live
  /\ Cardinality(pipeline.kept) = Cardinality(Cl!ToSet(Cl!Tables(input)))

LEMMA PipelineMade ==
  ASSUME NEW s, WholeService(s), s.tables = {}, NEW p, NEW i \in DOMAIN p.inputs, NEW mem
  PROVE  LET t == Cl!DoAll(s, Cl!AllInitCalls(p), mem)
         IN /\ PipelineHolds(Cl!Pipeline(t, p, i), p.inputs[i], t)
            /\ Cl!NumTables(p.inputs[i].mode) = 0 => Cl!Pipeline(t, p, i).kept = {}
<1> DEFINE rs == Cl!AllInitCalls(p)
           t  == Cl!DoAll(s, rs, mem)
           A  == Cl!ToSet(Cl!Tables(p.inputs[i]))
           Of(a) == Cl!NewObject(s, Cl!RegBufferDesc(a), mem)
           K  == { Of(a) : a \in A }
           kept == Cl!Pipeline(t, p, i).kept
<1>1. Cl!Pipeline(t, p, i).kernel \in t.kernels
  <2>1. Cl!CreateKernel(Cl!Kernel(p, i)) \in rs
    BY PipelineCalls
  <2>2. Cl!Kernel(p, i) \in NewKernels(rs)
    BY <2>1 DEF NewKernels, Cl!CreateKernel
  <2>3. t.kernels = s.kernels \union NewKernels(rs)
    BY DoAllIs
  <2> HIDE DEF t, rs
  <2> QED
    BY <2>2, <2>3 DEF Cl!Pipeline
<1>2. \A a \in A : Cl!Objects(t, Cl!RegBufferDesc(a)) = {Of(a)} /\ Of(a) \in t.live
  BY PipelineCalls, ObjectsOfNew
<1>3. kept = UNION { Cl!Objects(t, Cl!RegBufferDesc(a)) : a \in A }
  BY DEF Cl!Pipeline
<1>4. IsFiniteSet(A) /\ (Cl!NumTables(p.inputs[i].mode) = 0 => A = {})
  BY TablesFinite
<1>5. \A a, b \in A : Of(a) = Of(b) => a = b
  BY ObjectsDiffer
<1> HIDE DEF t, A, Of, kept
<1>6. kept = K
  BY <1>2, <1>3
<1>7. kept \subseteq t.live
  BY <1>2, <1>6
<1>8. [a \in A |-> Of(a)] \in Surjection(A, K)
  BY DEF Surjection
<1>9. [a \in A |-> Of(a)] \in Injection(A, K)
  BY <1>5 DEF Injection, IsInjective
<1>10. Cardinality(K) = Cardinality(A)
  <2> HIDE DEF K
  <2> QED
    BY <1>4, <1>8, <1>9, FS_Surjection
<1>11. PipelineHolds(Cl!Pipeline(t, p, i), p.inputs[i], t)
  BY <1>1, <1>6, <1>7, <1>10 DEF PipelineHolds, kept, A
<1>12. Cl!NumTables(p.inputs[i].mode) = 0 => kept = {}
  BY <1>4, <1>6
<1> QED
  BY <1>11, <1>12 DEF t, kept

(***************************************************************************)
(* The inductive invariant.  A service that is not initialized has empty   *)
(* tables, so Initialize starts with those; between Initialize and         *)
(* DeInitialize the tables are current, whether the node runs or not, and  *)
(* the pipelines whole, if TablesStay: pipelines with tables are not given *)
(* the flag that releases them in Stop.                                    *)
(***************************************************************************)
TablesStay ==
  \A c \in ClConfigs : \A o \in c.offers : o.deregister =>
    \A i \in DOMAIN o.inputs : Cl!NumTables(o.inputs[i].mode) = 0

NodeHolds ==
  /\ service.initialized
  /\ Cl!TablesCurrent
  /\ DOMAIN pipelines = 1 .. Len(pipelines) /\ Len(pipelines) = Len(params.inputs)
  /\ TablesStay => \A i \in DOMAIN pipelines :
                     /\ PipelineHolds(pipelines[i], params.inputs[i], service)
                     /\ params.deregister => pipelines[i].kept = {}

ClInv ==
  /\ config \in ClConfigs
  /\ WholeService(service)
  /\ state \in {"INITIAL", "READY", "RUNNING"}
  /\ ~up => state = "INITIAL"
  /\ ~service.initialized => service.tables = {}
  /\ state # "INITIAL" => NodeHolds

LEMMA InvHandles == TablesStay /\ ClInv => Cl!HandlesLive
<1> SUFFICES ASSUME TablesStay, ClInv, state = "RUNNING" PROVE Cl!HandlesLive
  BY DEF Cl!HandlesLive
<1>1. NodeHolds
  BY DEF ClInv
<1>2. \A i \in DOMAIN pipelines :
        /\ pipelines[i].kernel \in service.kernels
        /\ pipelines[i].kept \subseteq service.live
        /\ Cardinality(pipelines[i].kept)
             = Cardinality(Cl!ToSet(Cl!Tables(params.inputs[i])))
  BY <1>1 DEF NodeHolds, PipelineHolds
<1> QED
  BY <1>1, <1>2, ClCardinality DEF NodeHolds, Cl!HandlesLive

LEMMA InitCl == Cl!Init => ClInv
  BY ClosedIs DEF Cl!Init, ClInv

LEMMA CurrentIs == Cl!TablesCurrent <=> Current(service, memory)
  BY DEF Cl!TablesCurrent, Current

LEMMA OfferIs ==
  ASSUME ClInv, NEW o \in config.offers
  PROVE  /\ o \in Cl!Offers
         /\ o.inputs \in Seq(Cl!Inputs)
         /\ Cl!ParseStaticConfig(o).inputs = o.inputs
         /\ Cl!ParseStaticConfig(o).deregister = o.deregister
<1>1. o \in Cl!Offers
  BY Configurations DEF ClInv, Cl!IsConfig
<1>2. DOMAIN o = {"check", "inputs", "output", "early", "deregister", "mapFits"}
      /\ o.inputs \in Seq(Cl!Inputs)
  BY <1>1 DEF Cl!Offers
<1> QED
  BY <1>1, <1>2 DEF Cl!ParseStaticConfig

(* Only the calls that go through leave INITIAL; the others leave at most  *)
(* an initialized service behind.                                          *)
LEMMA RefusedCalls ==
  ASSUME ClInv, NEW o \in config.offers, Cl!Initialize(o),
         Cl!Initialize_Refused(o) \/ Cl!Initialize_NoService(o) \/ Cl!Initialize_Fails(o)
  PROVE  ClInv'
<1>1. /\ config' = config /\ ~up /\ up' = up /\ state' = state
  BY DEF Cl!Initialize, Cl!Initialize_Refused, Cl!Initialize_NoService, Cl!Initialize_Fails
<1>2. state = "INITIAL"
  BY <1>1 DEF ClInv
<1>3. WholeService(service') /\ (~service'.initialized => service'.tables = {})
  <2>1. CASE Cl!Initialize_Refused(o)
    BY <2>1 DEF Cl!Initialize_Refused, ClInv
  <2>2. CASE Cl!Initialize_NoService(o)
    <3>1. CASE service' = service
      BY <3>1 DEF ClInv
    <3>2. CASE ~service.initialized /\ service' \in Cl!ServiceFails(service)
      BY <3>2, ServiceFailsIs DEF ClInv
    <3> QED
      BY <2>2, <3>1, <3>2 DEF Cl!Initialize_NoService
  <2>3. CASE Cl!Initialize_Fails(o)
    <3>1. PICK rs : service' = Cl!DoAll(Cl!ServiceInit(service), rs, memory)
      BY <2>3 DEF Cl!Initialize_Fails
    <3>2. PICK s : s = Cl!ServiceInit(service)
      OBVIOUS
    <3>3. WholeService(s) /\ s.initialized = TRUE
      BY <3>2, ServiceInitIs DEF ClInv
    <3>4. LET t == Cl!DoAll(s, rs, memory) IN WholeService(t) /\ t.initialized = s.initialized
      BY <3>3, DoAllIs
    <3> QED
      BY <3>1, <3>2, <3>3, <3>4
  <2> QED
    BY <2>1, <2>2, <2>3
<1> QED
  BY <1>1, <1>2, <1>3 DEF ClInv

LEMMA InitializeDone ==
  ASSUME ClInv, NEW o \in config.offers, Cl!Initialize(o), Cl!Initialize_Done(o)
  PROVE  ClInv'
<1>1. /\ config' = config /\ memory' = memory /\ up' = TRUE /\ state' = "READY"
      /\ ~service.initialized
      /\ params' = Cl!ParseStaticConfig(o)
      /\ service' = Cl!DoAll(Cl!ServiceInit(service), Cl!AllInitCalls(o), memory)
      /\ pipelines' = [i \in DOMAIN o.inputs |-> Cl!Pipeline(service', o, i)]
  BY DEF Cl!Initialize, Cl!Initialize_Done
<1>2. PICK s : s = Cl!ServiceInit(service)
  OBVIOUS
<1>3. WholeService(s) /\ s.initialized = TRUE /\ s.tables = {}
  BY <1>1, <1>2, ServiceInitIs DEF ClInv
<1>4. PICK t : t = Cl!DoAll(s, Cl!AllInitCalls(o), memory)
  OBVIOUS
<1>5. service' = t
  BY <1>1, <1>2, <1>4
<1>6. WholeService(t) /\ t.initialized = TRUE
  <2>1. LET u == Cl!DoAll(s, Cl!AllInitCalls(o), memory)
        IN WholeService(u) /\ u.initialized = s.initialized
    BY <1>3, DoAllIs
  <2> QED
    BY <1>3, <1>4, <2>1
<1>7. Current(t, memory)
  <2>1. Current(s, memory)
    BY <1>3 DEF Current
  <2> QED
    BY <1>3, <1>4, <2>1, DoAllCurrent
<1>8. Cl!TablesCurrent'
  BY <1>1, <1>5, <1>7 DEF Cl!TablesCurrent, Current
<1>9. /\ params'.inputs = o.inputs /\ params'.deregister = o.deregister
      /\ o.inputs \in Seq(Cl!Inputs)
  BY <1>1, OfferIs
<1>10. /\ DOMAIN pipelines' = 1 .. Len(o.inputs)
       /\ Len(pipelines') = Len(o.inputs)
       /\ \A i \in DOMAIN pipelines' : i \in DOMAIN o.inputs /\ pipelines'[i] = Cl!Pipeline(t, o, i)
  BY <1>1, <1>5, <1>9
<1>11. \A i \in DOMAIN pipelines' :
         /\ PipelineHolds(pipelines'[i], o.inputs[i], t)
         /\ Cl!NumTables(o.inputs[i].mode) = 0 => pipelines'[i].kept = {}
  <2> SUFFICES ASSUME NEW i \in DOMAIN pipelines'
               PROVE  /\ PipelineHolds(pipelines'[i], o.inputs[i], t)
                      /\ Cl!NumTables(o.inputs[i].mode) = 0 => pipelines'[i].kept = {}
    OBVIOUS
  <2>1. i \in DOMAIN o.inputs /\ pipelines'[i] = Cl!Pipeline(t, o, i)
    BY <1>10
  <2>2. LET u == Cl!DoAll(s, Cl!AllInitCalls(o), memory)
        IN /\ PipelineHolds(Cl!Pipeline(u, o, i), o.inputs[i], u)
           /\ Cl!NumTables(o.inputs[i].mode) = 0 => Cl!Pipeline(u, o, i).kept = {}
    BY <1>3, <2>1, PipelineMade
  <2> QED
    BY <1>4, <2>1, <2>2
<1>12. TablesStay /\ o.deregister => \A i \in DOMAIN pipelines' : pipelines'[i].kept = {}
  BY <1>10, <1>11 DEF TablesStay, ClInv
<1>13. \A i \in DOMAIN pipelines' : PipelineHolds(pipelines'[i], params'.inputs[i], service')
  BY <1>5, <1>9, <1>11
<1>14. NodeHolds'
  BY <1>5, <1>6, <1>8, <1>9, <1>10, <1>12, <1>13 DEF NodeHolds, PipelineHolds
<1> QED
  BY <1>1, <1>5, <1>6, <1>14 DEF ClInv

LEMMA StartHolds == ClInv /\ Cl!Start => ClInv'
<1> SUFFICES ASSUME ClInv, Cl!Start PROVE ClInv'
  OBVIOUS
<1>1. /\ UNCHANGED <<config, params, service, pipelines, up, memory>>
      /\ state = "READY" /\ state' = "RUNNING"
  BY DEF Cl!Start
<1>2. NodeHolds
  BY <1>1 DEF ClInv
<1>3. NodeHolds'
  BY <1>1, <1>2 DEF NodeHolds, PipelineHolds, Cl!TablesCurrent
<1> QED
  BY <1>1, <1>3 DEF ClInv

LEMMA StopHolds == ClInv /\ Cl!Stop => ClInv'
<1> SUFFICES ASSUME ClInv, Cl!Stop PROVE ClInv'
  OBVIOUS
<1>1. /\ UNCHANGED <<config, params, pipelines, up, memory>>
      /\ state = "RUNNING" /\ state' \in {"READY", "RUNNING"}
  BY DEF Cl!Stop
<1>2. NodeHolds
  BY <1>1 DEF ClInv
<1>3. CASE service' = service
  <2>1. NodeHolds'
    BY <1>1, <1>2, <1>3 DEF NodeHolds, PipelineHolds, Cl!TablesCurrent
  <2> QED
    BY <1>1, <1>3, <2>1 DEF ClInv
<1>4. ASSUME params.deregister, NEW kept, service' = Cl!DeregAllBuffers(service, kept)
      PROVE  ClInv'
  <2>1. LET t == Cl!DeregAllBuffers(service, kept)
        IN /\ WholeService(t) /\ t.initialized = service.initialized
           /\ t.kernels = service.kernels /\ t.tables = {}
    BY DeregAllBuffersIs DEF ClInv
  <2>2. PICK t : t = Cl!DeregAllBuffers(service, kept)
    OBVIOUS
  <2>3. /\ service' = t /\ WholeService(t) /\ t.initialized = service.initialized
        /\ t.kernels = service.kernels /\ t.tables = {}
    BY <1>4, <2>1, <2>2
  <2>4. TablesStay => \A i \in DOMAIN pipelines :
          /\ PipelineHolds(pipelines[i], params.inputs[i], t)
          /\ pipelines[i].kept = {}
    BY <1>2, <1>4, <2>3 DEF NodeHolds, PipelineHolds
  <2>5. TablesStay => \A i \in DOMAIN pipelines' : PipelineHolds(pipelines'[i], params'.inputs[i], service')
    BY <1>1, <2>3, <2>4
  <2>6. Cl!TablesCurrent'
    BY <2>3 DEF Cl!TablesCurrent
  <2>7. NodeHolds'
    BY <1>1, <1>2, <2>3, <2>4, <2>5, <2>6 DEF NodeHolds, PipelineHolds
  <2> QED
    BY <1>1, <2>3, <2>7 DEF ClInv
<1> QED
  BY <1>3, <1>4 DEF Cl!Stop

LEMMA DeInitializeHolds == ClInv /\ Cl!DeInitialize => ClInv'
<1> SUFFICES ASSUME ClInv, Cl!DeInitialize PROVE ClInv'
  OBVIOUS
<1>1. PICK kept : service' = Cl!ServiceDeinit(service, kept)
  BY DEF Cl!DeInitialize
<1>2. LET t == Cl!ServiceDeinit(service, kept)
      IN WholeService(t) /\ t.initialized = FALSE /\ t.tables = {}
  BY ServiceDeinitIs DEF ClInv
<1>3. config' = config /\ state' = "INITIAL"
  BY DEF Cl!DeInitialize
<1> QED
  BY <1>1, <1>2, <1>3 DEF ClInv

LEMMA FramesHold ==
  ASSUME ClInv, NEW f \in config.frames, Cl!ProcessFrameDescriptor(f)
  PROVE  ClInv'
<1>1. /\ UNCHANGED <<config, params, pipelines, up, memory>>
      /\ state = "RUNNING" /\ state' = "RUNNING"
  BY DEF Cl!ProcessFrameDescriptor
<1>2. PICK rs : service' = Cl!DoAll(service, rs, memory)
  BY DEF Cl!ProcessFrameDescriptor
<1>3. NodeHolds /\ Current(service, memory)
  BY <1>1, CurrentIs DEF ClInv, NodeHolds
<1>4. PICK t : t = Cl!DoAll(service, rs, memory)
  OBVIOUS
<1>5. /\ Current(t, memory)
      /\ service.kernels \subseteq t.kernels /\ service.live \subseteq t.live
  BY <1>3, <1>4, DoAllCurrent DEF ClInv
<1>6. WholeService(t) /\ t.initialized = service.initialized
  <2>1. LET u == Cl!DoAll(service, rs, memory)
        IN WholeService(u) /\ u.initialized = service.initialized
    BY DoAllIs DEF ClInv
  <2> QED
    BY <1>4, <2>1
<1>7. service' = t
  BY <1>2, <1>4
<1>8. TablesStay => \A i \in DOMAIN pipelines' : PipelineHolds(pipelines'[i], params'.inputs[i], service')
  BY <1>1, <1>3, <1>5, <1>7 DEF NodeHolds, PipelineHolds
<1>9. Cl!TablesCurrent'
  BY <1>1, <1>5, <1>7 DEF Cl!TablesCurrent, Current
<1>10. NodeHolds'
  BY <1>1, <1>3, <1>6, <1>7, <1>8, <1>9 DEF NodeHolds, PipelineHolds
<1> QED
  BY <1>1, <1>3, <1>6, <1>7, <1>10 DEF ClInv, NodeHolds

LEMMA StepCl == ClInv /\ [Cl!Next]_(Cl!vars) => ClInv'
<1> SUFFICES ASSUME ClInv, [Cl!Next]_(Cl!vars) PROVE ClInv'
  OBVIOUS
<1>1. ASSUME NEW o \in config.offers, Cl!Initialize(o) PROVE ClInv'
  BY <1>1, RefusedCalls, InitializeDone DEF Cl!Initialize
<1>2. ASSUME NEW f \in config.frames, Cl!ProcessFrameDescriptor(f) PROVE ClInv'
  BY <1>2, FramesHold
<1>3. ASSUME NEW a \in Addresses, NEW m \in Memory, Cl!Replace(a, m) PROVE ClInv'
  <2>1. UNCHANGED <<config, state, service, up>> /\ ~up
    BY <1>3 DEF Cl!Replace
  <2>2. state' = "INITIAL"
    BY <2>1 DEF ClInv
  <2> QED
    BY <2>1, <2>2 DEF ClInv
<1>4. CASE UNCHANGED Cl!vars
  <2>1. UNCHANGED <<config, state, params, service, pipelines, up, memory>>
    BY <1>4 DEF Cl!vars
  <2>2. NodeHolds => NodeHolds'
    BY <2>1 DEF NodeHolds, PipelineHolds, Cl!TablesCurrent
  <2> QED
    BY <2>1, <2>2 DEF ClInv
<1> QED
  BY <1>1, <1>2, <1>3, <1>4, StartHolds, StopHolds, DeInitializeHolds DEF Cl!Next

ClPartInv == part = "cl" => ClInv

LEMMA ClSteps ==
  ASSUME [ServicesNext]_servicesVars
  PROVE  /\ part' = part
         /\ part = "cl" => [Cl!Next]_(Cl!vars)
         /\ part # "cl" => UNCHANGED clVars
<1>1. CASE ServicesNext
  BY <1>1 DEF ServicesNext
<1>2. CASE UNCHANGED servicesVars
  BY <1>2 DEF servicesVars, common, clVars, Cl!vars
<1> QED
  BY <1>1, <1>2

LEMMA InitClPart == ServicesInit => ClPartInv
  BY InitCl DEF ServicesInit, ClPartInv

LEMMA StepClPart == ClPartInv /\ [ServicesNext]_servicesVars => ClPartInv'
  BY ClSteps, StepCl DEF ClPartInv

(***************************************************************************)
(* A CL2DFlex node that runs uses kernels and objects that exist and are   *)
(* made of the memory that is there, whichever calls of OpenCL failed      *)
(* before and whichever configurations were refused, and each pipeline has *)
(* the tables it asked for (CL2DFlexImpl::Initialize, Stop,                *)
(* ProcessFrameDescriptor; OpenclSrv::RegBufferDesc).  TablesStay is what  *)
(* the code needs for it: Stop releases the tables of the pipelines where  *)
(* the flag asks it to, and Start does not register them again.            *)
(***************************************************************************)
THEOREM RunningPipelinesHold ==
  ASSUME TablesStay
  PROVE  ServicesSpec => []ClHandlesLive
<1>1. ClPartInv => ClHandlesLive
  BY InvHandles DEF ClPartInv, ClHandlesLive
<1>2. ClPartInv /\ [ServicesNext]_servicesVars => ClPartInv'
  BY StepClPart
<1> QED
  BY <1>1, <1>2, InitClPart, PTL DEF ServicesSpec

-----------------------------------------------------------------------------
(***************************************************************************)
(* The refinement of BufferUse.  What the node has of an address is read   *)
(* off one of its objects; with current tables that is the memory there.   *)
(***************************************************************************)
KeptOf(s, st, mem) ==
  [a \in Addresses |-> IF Cl!Objects(s, Cl!RegBufferDesc(a)) # {} /\ st # "INITIAL"
                       THEN mem[a] ELSE Nothing]

LEMMA ObjectOf ==
  ASSUME NEW s, NEW mem, Current(s, mem), NEW a,
         NEW o \in Cl!Objects(s, Cl!RegBufferDesc(a))
  PROVE  o.memory = mem[a]
<1>1. o \in s.tables /\ o.key = <<a>>
  BY DEF Cl!Objects, Cl!RegBufferDesc
<1> QED
  BY <1>1 DEF Current

KeptByChoice(s, st) ==
  [a \in Addresses |->
     IF Cl!Objects(s, Cl!RegBufferDesc(a)) # {} /\ st # "INITIAL"
     THEN (CHOOSE o \in Cl!Objects(s, Cl!RegBufferDesc(a)) : TRUE).memory
     ELSE Nothing]

LEMMA KeptIs ==
  ASSUME NEW s, NEW st, NEW mem, st # "INITIAL" => Current(s, mem)
  PROVE  KeptByChoice(s, st) = KeptOf(s, st, mem)
<1>1. ASSUME NEW a \in Addresses, Cl!Objects(s, Cl!RegBufferDesc(a)) # {}, st # "INITIAL"
      PROVE  (CHOOSE o \in Cl!Objects(s, Cl!RegBufferDesc(a)) : TRUE).memory = mem[a]
  <2>1. (CHOOSE o \in Cl!Objects(s, Cl!RegBufferDesc(a)) : TRUE)
          \in Cl!Objects(s, Cl!RegBufferDesc(a))
    BY <1>1
  <2> QED
    BY <1>1, <2>1, ObjectOf
<1> QED
  BY <1>1 DEF KeptByChoice, KeptOf

LEMMA KeptNow ==
  ASSUME ClInv
  PROVE  Cl!Kept = KeptOf(service, state, memory)
<1>1. state # "INITIAL" => Current(service, memory)
  BY CurrentIs DEF ClInv, NodeHolds
<1> QED
  BY <1>1, KeptIs DEF Cl!Kept, KeptByChoice

LEMMA KeptNext ==
  ASSUME ClInv'
  PROVE  Cl!Kept' = KeptOf(service', state', memory')
<1>1. state' # "INITIAL" => Current(service', memory')
  BY DEF ClInv, NodeHolds, Cl!TablesCurrent, Current
<1> QED
  BY <1>1, KeptIs DEF Cl!Kept, KeptByChoice

LEMMA NothingKept ==
  ASSUME NEW s, NEW mem
  PROVE  KeptOf(s, "INITIAL", mem) = [a \in Addresses |-> Nothing]
  BY DEF KeptOf

(* A step that leaves the memory alone and loses no object keeps, one that *)
(* makes none drops.                                                       *)
LEMMA StepKeeps ==
  ASSUME ClInv, ClInv', UNCHANGED memory,
         state # "INITIAL" => state' # "INITIAL" /\ service.tables \subseteq service'.tables
  PROVE  Cl!Use!Keep
<1>1. \A a \in Addresses :
        state # "INITIAL" => Cl!Objects(service, Cl!RegBufferDesc(a))
                               \subseteq Cl!Objects(service', Cl!RegBufferDesc(a))
  BY DEF Cl!Objects
<1>2. /\ Cl!Kept = KeptOf(service, state, memory)
      /\ Cl!Kept' = KeptOf(service', state', memory)
  BY KeptNow, KeptNext
<1>3. \A a \in Addresses :
        \/ Cl!Kept'[a] = Cl!Kept[a]
        \/ Cl!Kept[a] = Nothing /\ Cl!Kept'[a] = memory[a]
  BY <1>1, <1>2 DEF KeptOf
<1>4. Cl!Kept' = [a \in Addresses |-> Cl!Kept'[a]]
  BY <1>2 DEF KeptOf
<1> QED
  BY <1>3, <1>4 DEF Cl!Use!Keep

LEMMA StepDrops ==
  ASSUME ClInv, ClInv', UNCHANGED memory,
         state' = "INITIAL" \/ service'.tables = {}
  PROVE  Cl!Use!Drop
<1>1. \A a \in Addresses :
        state' = "INITIAL" \/ Cl!Objects(service', Cl!RegBufferDesc(a)) = {}
  BY DEF Cl!Objects
<1>2. Cl!Kept' = KeptOf(service', state', memory')
  BY KeptNext
<1>3. \A a \in Addresses : Cl!Kept'[a] = Nothing
  BY <1>1, <1>2 DEF KeptOf
<1>4. Cl!Kept' = [a \in Addresses |-> Cl!Kept'[a]]
  BY <1>2 DEF KeptOf
<1> QED
  BY <1>3, <1>4 DEF Cl!Use!Drop

LEMMA ClUse == ClInv /\ [Cl!Next]_(Cl!vars) => [Cl!Use!Next]_(Cl!Use!vars)
<1> SUFFICES ASSUME ClInv, [Cl!Next]_(Cl!vars) PROVE [Cl!Use!Next]_(Cl!Use!vars)
  OBVIOUS
<1>0. ClInv'
  BY StepCl
<1>1. ASSUME NEW o \in config.offers, Cl!Initialize(o) PROVE Cl!Use!Keep
  <2>1. state = "INITIAL" /\ memory' = memory
    BY <1>1 DEF Cl!Initialize, ClInv
  <2> QED
    BY <1>0, <2>1, StepKeeps
<1>2. CASE Cl!Start
  <2>1. state' # "INITIAL" /\ service' = service /\ memory' = memory
    BY <1>2 DEF Cl!Start
  <2> QED
    BY <1>0, <2>1, StepKeeps DEF Cl!Use!Next
<1>3. CASE Cl!Stop
  <2>1. state' # "INITIAL" /\ memory' = memory
    BY <1>3 DEF Cl!Stop
  <2>2. CASE service' = service
    BY <1>0, <2>1, <2>2, StepKeeps DEF Cl!Use!Next
  <2>3. ASSUME NEW kept, service' = Cl!DeregAllBuffers(service, kept) PROVE Cl!Use!Next
    <3>1. LET t == Cl!DeregAllBuffers(service, kept) IN t.tables = {}
      BY DeregAllBuffersIs DEF ClInv
    <3>2. service'.tables = {}
      BY <2>3, <3>1
    <3> QED
      BY <1>0, <2>1, <3>2, StepDrops DEF Cl!Use!Next
  <2> QED
    BY <1>3, <2>2, <2>3 DEF Cl!Stop
<1>4. CASE Cl!DeInitialize
  <2>1. state' = "INITIAL" /\ memory' = memory
    BY <1>4 DEF Cl!DeInitialize
  <2> QED
    BY <1>0, <2>1, StepDrops DEF Cl!Use!Next
<1>5. ASSUME NEW f \in config.frames, Cl!ProcessFrameDescriptor(f) PROVE Cl!Use!Keep
  <2>1. state' = "RUNNING" /\ memory' = memory
    BY <1>5 DEF Cl!ProcessFrameDescriptor
  <2>2. PICK rs : service' = Cl!DoAll(service, rs, memory)
    BY <1>5 DEF Cl!ProcessFrameDescriptor
  <2>3. LET t == Cl!DoAll(service, rs, memory)
        IN t.tables = service.tables \union NewObjects(service, rs, memory)
    BY DoAllIs DEF ClInv
  <2>4. service.tables \subseteq service'.tables
    BY <2>2, <2>3
  <2> QED
    BY <1>0, <2>1, <2>4, StepKeeps
<1>6. ASSUME NEW a \in Addresses, NEW m \in Memory, Cl!Replace(a, m) PROVE Cl!Use!Next
  <2>1. /\ state = "INITIAL" /\ state' = "INITIAL"
        /\ memory' = [memory EXCEPT ![a] = m]
    BY <1>6 DEF Cl!Replace, ClInv
  <2>2. Cl!Kept = [b \in Addresses |-> Nothing] /\ Cl!Kept' = [b \in Addresses |-> Nothing]
    BY <1>0, <2>1, KeptNow, KeptNext, NothingKept
  <2>3. Cl!Use!Replace(a, m)
    BY <2>1, <2>2 DEF Cl!Use!Replace
  <2> QED
    BY <2>3 DEF Cl!Use!Next
<1>7. CASE UNCHANGED Cl!vars
  <2>1. UNCHANGED <<service, state, memory>>
    BY <1>7 DEF Cl!vars
  <2>2. UNCHANGED Cl!Kept
    BY <1>0, <2>1, KeptNow, KeptNext
  <2> QED
    BY <2>1, <2>2 DEF Cl!Use!vars
<1> QED
  BY <1>1, <1>2, <1>3, <1>4, <1>5, <1>6, <1>7 DEF Cl!Next, Cl!Use!Next

(* Another part moves: there is no object, and memory is replaced at one   *)
(* address, or not at all.                                                 *)
ClUseInv ==
  /\ part = "cl" => ClInv
  /\ part # "cl" => service = Cl!Closed

LEMMA ClosedKeeps ==
  ASSUME service = Cl!Closed
  PROVE  Cl!Kept = [a \in Addresses |-> Nothing]
<1>1. \A a \in Addresses : Cl!Objects(service, Cl!RegBufferDesc(a)) = {}
  BY ClosedIs DEF Cl!Objects
<1> QED
  BY <1>1 DEF Cl!Kept

LEMMA ClOthersUse ==
  ASSUME service = Cl!Closed, UNCHANGED service, part # "cl", [ServicesNext]_servicesVars
  PROVE  [Cl!Use!Next]_(Cl!Use!vars)
<1>1. Cl!Kept = [a \in Addresses |-> Nothing]
  BY ClosedKeeps
<1>2. Cl!Kept' = [a \in Addresses |-> Nothing]
  <2>1. \A a \in Addresses : Cl!Objects(service', Cl!RegBufferDesc(a)) = {}
    BY ClosedIs DEF Cl!Objects
  <2> QED
    BY <2>1 DEF Cl!Kept
<1>3. CASE UNCHANGED memory
  BY <1>1, <1>2, <1>3 DEF Cl!Use!vars
<1>4. ASSUME NEW a \in Addresses, NEW m \in Memory, memory' = [memory EXCEPT ![a] = m]
      PROVE  Cl!Use!Next
  <2>1. Cl!Use!Replace(a, m)
    BY <1>1, <1>2, <1>4 DEF Cl!Use!Replace
  <2> QED
    BY <2>1 DEF Cl!Use!Next
<1>5. CASE part = "eva" /\ Eva!Next
  <2>1. \/ UNCHANGED memory
        \/ \E a \in Addresses, m \in Memory : memory' = [memory EXCEPT ![a] = m]
    BY <1>5 DEF Eva!Next, Eva!Initialize, Eva!Start, Eva!Stop, Eva!DeInitialize,
                Eva!ProcessFrameDescriptor, Eva!Replace
  <2> QED
    BY <2>1, <1>3, <1>4
<1>6. CASE part = "fadas" /\ Fadas!Next
  <2>1. \/ UNCHANGED memory
        \/ \E a \in Addresses, m \in Memory : memory' = [memory EXCEPT ![a] = m]
    BY <1>6 DEF Fadas!Next, Fadas!Step, Fadas!Initialize, Fadas!Start, Fadas!RemapStop,
                Fadas!VoxelizationStopCall, Fadas!DeInitialize,
                Fadas!ProcessFrameDescriptor, Fadas!Replace
  <2> QED
    BY <2>1, <1>3, <1>4
<1>7. CASE UNCHANGED servicesVars
  BY <1>3, <1>7 DEF servicesVars, common
<1> QED
  BY <1>3, <1>5, <1>6, <1>7 DEF ServicesNext, common

LEMMA InitClUse == ServicesInit => ClUseInv /\ Cl!Use!Init
<1> SUFFICES ASSUME ServicesInit PROVE ClUseInv /\ Cl!Use!Init
  OBVIOUS
<1>1. service = Cl!Closed
  BY DEF ServicesInit, Cl!Init, ClIdle
<1>2. memory \in [Addresses -> Memory]
  <2>1. CASE part = "eva"
    BY <2>1 DEF ServicesInit, Eva!Init
  <2>2. CASE part = "cl"
    BY <2>2 DEF ServicesInit, Cl!Init
  <2>3. CASE part \notin {"eva", "cl"}
    BY <2>3, Configurations DEF ServicesInit
  <2> QED
    BY <2>1, <2>2, <2>3
<1>3. ClUseInv
  BY <1>1, InitCl DEF ServicesInit, ClUseInv
<1> QED
  BY <1>1, <1>2, <1>3, ClosedKeeps DEF Cl!Use!Init

LEMMA StepClUse ==
  ClUseInv /\ [ServicesNext]_servicesVars => ClUseInv' /\ [Cl!Use!Next]_(Cl!Use!vars)
<1> SUFFICES ASSUME ClUseInv, [ServicesNext]_servicesVars
             PROVE  ClUseInv' /\ [Cl!Use!Next]_(Cl!Use!vars)
  OBVIOUS
<1>1. CASE part = "cl"
  BY <1>1, ClSteps, StepCl, ClUse DEF ClUseInv
<1>2. CASE part # "cl"
  <2>1. service = Cl!Closed /\ service' = service /\ part' = part
    BY <1>2, ClSteps DEF ClUseInv, clVars
  <2> QED
    BY <1>2, <2>1, ClOthersUse DEF ClUseInv
<1> QED
  BY <1>1, <1>2

(***************************************************************************)
(* The CL2DFlex node implements BufferUse, for all configurations: it      *)
(* makes objects of the memory of the buffers in Initialize and            *)
(* ProcessFrameDescriptor, lets go of all of them in Stop, with the flag,  *)
(* or in DeInitialize, and the memory at an address changes only when no   *)
(* table has an object of it (OpenclSrv::RegBufferDesc, DeregAllBuffers).  *)
(***************************************************************************)
THEOREM PipelinesLetGo == ServicesSpec => ClLetsGo
  BY InitClUse, StepClUse, PTL DEF ServicesSpec, ClLetsGo, Cl!LetsGo, Cl!Use!Spec

-----------------------------------------------------------------------------
(***************************************************************************)
(* FadasRpc.  The two lists of a call are the same, and an argument that   *)
(* the channel changed is in the checksum of the DSP and in none of the    *)
(* client.                                                                 *)
(***************************************************************************)
LEMMA ListsAgree == Rpc!Checked = Rpc!Sent
  BY DEF Rpc!Checked, Rpc!Sent,
         Rpc!FadasVersion_Sent, Rpc!FadasVersion_Checked,
         Rpc!CreateMapFromMap_Sent, Rpc!CreateMapFromMap_Checked,
         Rpc!CreateMapNoUndistortion_Sent, Rpc!CreateMapNoUndistortion_Checked,
         Rpc!DestroyMap_Sent, Rpc!DestroyMap_Checked,
         Rpc!CreateWorkers_Sent, Rpc!CreateWorkers_Checked,
         Rpc!DestroyWorkers_Sent, Rpc!DestroyWorkers_Checked,
         Rpc!RunMT_Sent, Rpc!RunMT_Checked,
         Rpc!mmap_Sent, Rpc!mmap_Checked, Rpc!munmap_Sent, Rpc!munmap_Checked,
         Rpc!RegBuf_Sent, Rpc!RegBuf_Checked, Rpc!DeregBuf_Sent, Rpc!DeregBuf_Checked,
         Rpc!PointPillarCreate_Sent, Rpc!PointPillarCreate_Checked,
         Rpc!PointPillarRun_Sent, Rpc!PointPillarRun_Checked,
         Rpc!PointPillarDestroy_Sent, Rpc!PointPillarDestroy_Checked,
         Rpc!ExtractBBoxCreate_Sent, Rpc!ExtractBBoxCreate_Checked,
         Rpc!ExtractBBoxRun_Sent, Rpc!ExtractBBoxRun_Checked,
         Rpc!ExtractBBoxDestroy_Sent, Rpc!ExtractBBoxDestroy_Checked

Changed == Rpc!Value("changed")

LEMMA ChecksumsDiffer ==
  ASSUME NEW list, NEW args, NEW got, \A i \in DOMAIN list : args[list[i]] # Changed,
         NEW k \in DOMAIN list, got[list[k]] = Changed
  PROVE  Rpc!crc32(list, got) # Rpc!crc32(list, args)
<1>1. Changed # Rpc!Absent
  BY DEF Changed, Rpc!Absent, Rpc!Value
<1>2. \E pair \in Rpc!crc32(list, got) : pair[2] = Changed
  <2>1. PICK n : <<n, got[list[k]]>> \in Rpc!crc32(list, got)
    BY <1>1 DEF Rpc!crc32
  <2> QED
    BY <2>1
<1>3. \A pair \in Rpc!crc32(list, args) : pair[2] # Changed
  <2> SUFFICES ASSUME NEW pair \in Rpc!crc32(list, args) PROVE pair[2] # Changed
    OBVIOUS
  <2>1. \E n, i : i \in DOMAIN list /\ pair = <<n, args[list[i]]>>
    BY DEF Rpc!crc32
  <2> QED
    BY <2>1
<1> QED
  BY <1>2, <1>3

\* The arguments are those of the list, and the channel has made none of them.
Meant(fn, args) ==
  /\ fn \in Rpc!Calls
  /\ DOMAIN args = Rpc!ToSet(Rpc!Sent[fn]) /\ args = [a \in DOMAIN args |-> args[a]]
  /\ \A a \in DOMAIN args : args[a] # Changed
Arrived(args, got) ==
  got = args \/ \E a \in DOMAIN args : got = [args EXCEPT ![a] = Changed]

LEMMA ChecksumTells ==
  ASSUME NEW fn, NEW args, NEW got, Meant(fn, args), Arrived(args, got)
  PROVE  Rpc!crc32(Rpc!Checked[fn], got) = Rpc!crc32(Rpc!Sent[fn], args) <=> got = args
<1>1. CASE got = args
  BY <1>1, ListsAgree
<1>2. ASSUME NEW a \in DOMAIN args, got = [args EXCEPT ![a] = Changed]
      PROVE  got # args /\ Rpc!crc32(Rpc!Sent[fn], got) # Rpc!crc32(Rpc!Sent[fn], args)
  <2>1. got[a] = Changed /\ args[a] # Changed
    BY <1>2 DEF Meant
  <2>2. PICK k \in DOMAIN Rpc!Sent[fn] : Rpc!Sent[fn][k] = a
    BY DEF Meant, Rpc!ToSet
  <2>3. \A i \in DOMAIN Rpc!Sent[fn] : args[Rpc!Sent[fn][i]] # Changed
    BY DEF Meant, Rpc!ToSet
  <2> QED
    BY <2>1, <2>2, <2>3, ChecksumsDiffer
<1> QED
  BY <1>1, <1>2, ListsAgree DEF Arrived

\* The calls that give an object back, and the object.
Destroying == { "DestroyMap", "DestroyWorkers", "PointPillarDestroy", "ExtractBBoxDestroy" }
GivenBack(fn, args) == IF fn \in Destroying THEN { args[a] : a \in DOMAIN args } ELSE {}

LEMMA ArgumentsAre ==
  ASSUME NEW fn \in Rpc!Calls, NEW args \in Rpc!Arguments(fn)
  PROVE  Meant(fn, args) /\ GivenBack(fn, args) \subseteq handles
<1> DEFINE names == Rpc!ToSet(Rpc!Sent[fn])
           kinds == { Rpc!KindOf[a] : a \in names \intersect DOMAIN Rpc!KindOf }
           Arg(fd, h, opt) ==
             [a \in names |-> CASE a \in Rpc!FdArguments   -> fd[a]
                                [] a \in DOMAIN Rpc!KindOf -> h[Rpc!KindOf[a]]
                                [] a \in Rpc!Optional      -> opt
                                [] OTHER                   -> Rpc!Value("plain")]
<1> DEFINE Descriptors == [names \intersect Rpc!FdArguments -> {"fd"} \X Fds]
           Handles == { f \in [kinds -> handles] : \A k \in kinds : f[k][1] = k }
           Opts == IF names \intersect Rpc!Optional = {} THEN {Rpc!Absent}
                   ELSE {Rpc!Value("plain"), Rpc!Absent}
<1>0. Rpc!Arguments(fn) =
        { Arg(fd, h, opt) : fd \in Descriptors, h \in Handles, opt \in Opts }
  BY DEF Rpc!Arguments
<1> HIDE DEF names, kinds
<1>1. PICK fd \in Descriptors, h \in Handles, opt \in Opts : args = Arg(fd, h, opt)
  <2> HIDE DEF Arg, Descriptors, Handles, Opts
  <2> QED
    BY <1>0
<1>2. DOMAIN args = names /\ args = [a \in DOMAIN args |-> args[a]]
  BY <1>1
<1>3. ASSUME NEW a \in names
      PROVE  /\ args[a] # Changed
             /\ a \in DOMAIN Rpc!KindOf => args[a] \in handles
  <2>0. \A x \in names : args[x] = CASE x \in Rpc!FdArguments   -> fd[x]
                                    [] x \in DOMAIN Rpc!KindOf -> h[Rpc!KindOf[x]]
                                    [] x \in Rpc!Optional      -> opt
                                    [] OTHER                   -> Rpc!Value("plain")
    BY ONLY <1>1
  <2>1. DOMAIN Rpc!KindOf = {"mapPtr", "mapPtrs", "worker_ptr", "workerPtrs", "hPreProc", "hPostProc"}
    BY DEF Rpc!KindOf
  <2>2. CASE a \in Rpc!FdArguments
    <3>2. a \notin DOMAIN Rpc!KindOf
      BY <2>1, <2>2 DEF Rpc!FdArguments
    <3>c. a \notin Rpc!Optional
      BY <2>2 DEF Rpc!FdArguments, Rpc!Optional
    <3>0. args[a] = fd[a]
      BY ONLY <1>3, <2>0, <2>2, <3>2, <3>c
    <3>a. a \in names \intersect Rpc!FdArguments
      BY <2>2
    <3>1. fd[a] \in {"fd"} \X Fds
      BY <3>a
    <3> QED
      BY <3>0, <3>1, <3>2 DEF Changed, Rpc!Value
  <2>3. CASE a \notin Rpc!FdArguments /\ a \in DOMAIN Rpc!KindOf
    <3>c. a \notin Rpc!Optional
      BY <2>1, <2>3 DEF Rpc!Optional
    <3>1. args[a] = h[Rpc!KindOf[a]]
      BY ONLY <1>3, <2>0, <2>3, <3>c
    <3>a. Rpc!KindOf[a] \in kinds
      BY <2>3 DEF kinds
    <3>b. h \in [kinds -> handles] /\ \A k \in kinds : h[k][1] = k
      OBVIOUS
    <3>2. args[a] \in handles /\ args[a][1] = Rpc!KindOf[a]
      BY <3>1, <3>a, <3>b
    <3>3. Rpc!KindOf[a] # "changed"
      BY <2>1, <2>3 DEF Rpc!KindOf
    <3> QED
      BY <3>2, <3>3 DEF Changed, Rpc!Value
  <2>4. CASE a \notin Rpc!FdArguments /\ a \notin DOMAIN Rpc!KindOf
    <3>1. args[a] \in {Rpc!Value("plain"), Rpc!Absent}
      BY <1>1, <2>4 DEF Opts
    <3> QED
      BY <2>4, <3>1 DEF Changed, Rpc!Value, Rpc!Absent
  <2> QED
    BY <2>2, <2>3, <2>4
<1>4. fn \in Destroying => names \subseteq DOMAIN Rpc!KindOf
  BY DEF Destroying, Rpc!KindOf, Rpc!ToSet, Rpc!Sent, Rpc!DestroyMap_Sent,
         Rpc!DestroyWorkers_Sent, Rpc!PointPillarDestroy_Sent, Rpc!ExtractBBoxDestroy_Sent, names
<1>5. Meant(fn, args)
  BY <1>2, <1>3 DEF Meant, names
<1>6. GivenBack(fn, args) \subseteq handles
  BY <1>2, <1>3, <1>4 DEF GivenBack
<1> QED
  BY <1>5, <1>6

\* What becomes of the objects in a call that is executed.
DspOK(d) == d = [objects |-> d.objects, mapped |-> d.mapped, regs |-> d.regs]

LEMMA DoneIs ==
  ASSUME NEW fn \in Rpc!Calls, NEW d, DspOK(d), NEW g, Meant(fn, g), NEW r \in Rpc!Done(fn, d, g)
  PROVE  /\ DspOK(r.d)
         /\ fn \in Rpc!Creating =>
              IF r.ok THEN r.d.objects = d.objects \union {r.out} ELSE r.d.objects = d.objects
         /\ fn \in Destroying =>
              IF r.ok THEN r.d.objects = d.objects \ GivenBack(fn, g) ELSE r.d.objects = d.objects
         /\ fn \notin Rpc!Creating \union Destroying => r.d.objects = d.objects
         /\ fn \in Rpc!Creating \union Destroying => \E q \in Rpc!Done(fn, d, g) : q.ok
         /\ r.ok \in BOOLEAN
<1>a. \A x : /\ Rpc!Plain(x).d = x /\ Rpc!Plain(x).ok = TRUE
            /\ Rpc!Refused(x).d = x /\ Rpc!Refused(x).ok = FALSE
            /\ \A o : Rpc!Answer(x, TRUE, o).d = x /\ Rpc!Answer(x, TRUE, o).ok = TRUE
                     /\ Rpc!Answer(x, TRUE, o).out = o
  BY DEF Rpc!Plain, Rpc!Refused, Rpc!Answer
<1>b. ASSUME NEW S
      PROVE  /\ DspOK([d EXCEPT !.objects = S]) /\ [d EXCEPT !.objects = S].objects = S
             /\ DspOK([d EXCEPT !.mapped = S]) /\ [d EXCEPT !.mapped = S].objects = d.objects
             /\ DspOK([d EXCEPT !.regs = S]) /\ [d EXCEPT !.regs = S].objects = d.objects
  <2>1. [d EXCEPT !.objects = S] = [objects |-> S, mapped |-> d.mapped, regs |-> d.regs]
    BY DEF DspOK
  <2>2. [d EXCEPT !.mapped = S] = [objects |-> d.objects, mapped |-> S, regs |-> d.regs]
    BY DEF DspOK
  <2>3. [d EXCEPT !.regs = S] = [objects |-> d.objects, mapped |-> d.mapped, regs |-> S]
    BY DEF DspOK
  <2> QED
    BY ONLY <2>1, <2>2, <2>3 DEF DspOK
<1>1. CASE fn \in Rpc!Creating
  <2>1. Rpc!Done(fn, d, g) = Rpc!Create(d, "map") \/ Rpc!Done(fn, d, g) = Rpc!Create(d, "worker")
        \/ Rpc!Done(fn, d, g) = Rpc!Create(d, "plr") \/ Rpc!Done(fn, d, g) = Rpc!Create(d, "bbox")
    BY <1>1 DEF Rpc!Creating, Rpc!Done, Rpc!CreateMapFromMap_Done, Rpc!CreateMapNoUndistortion_Done,
                Rpc!CreateWorkers_Done, Rpc!PointPillarCreate_Done, Rpc!ExtractBBoxCreate_Done
  <2>2. PICK kind : Rpc!Done(fn, d, g) = Rpc!Create(d, kind)
    BY <2>1
  <2>3. fn \notin Destroying
    BY <1>1 DEF Rpc!Creating, Destroying
  <2>4. ASSUME NEW o, Rpc!Done(fn, d, g) =
                        {Rpc!Answer([d EXCEPT !.objects = d.objects \union {o}], TRUE, o), Rpc!Refused(d)}
        PROVE  /\ DspOK(r.d) /\ r.ok \in BOOLEAN
               /\ IF r.ok THEN r.d.objects = d.objects \union {r.out} ELSE r.d.objects = d.objects
               /\ \E q \in Rpc!Done(fn, d, g) : q.ok
    <3> DEFINE x == [d EXCEPT !.objects = d.objects \union {o}]
    <3>1. DspOK(x) /\ x.objects = d.objects \union {o}
      BY <1>b
    <3> HIDE DEF x
    <3> DEFINE more == Rpc!Answer(x, TRUE, o)
    <3>2. more.d = x /\ more.ok = TRUE /\ more.out = o
      BY <1>a
    <3>3. Rpc!Done(fn, d, g) = {more, Rpc!Refused(d)}
      BY <2>4 DEF x
    <3> HIDE DEF more
    <3>4. CASE r = more
      BY <3>1, <3>2, <3>3, <3>4
    <3>5. CASE r = Rpc!Refused(d)
      BY <1>a, <3>2, <3>3, <3>5
    <3> QED
      BY <3>3, <3>4, <3>5
  <2>5. Rpc!Done(fn, d, g) =
          {Rpc!Answer([d EXCEPT !.objects = d.objects \union {<<kind, made + 1>>}], TRUE, <<kind, made + 1>>),
           Rpc!Refused(d)}
    BY <2>2 DEF Rpc!Create
  <2>6. /\ DspOK(r.d) /\ r.ok \in BOOLEAN
        /\ IF r.ok THEN r.d.objects = d.objects \union {r.out} ELSE r.d.objects = d.objects
        /\ \E q \in Rpc!Done(fn, d, g) : q.ok
    BY <2>4, <2>5
  <2> QED
    BY <1>1, <2>3, <2>6
<1>2. CASE fn \in Destroying
  <2>1. ASSUME NEW a, Rpc!ToSet(Rpc!Sent[fn]) = {a},
               Rpc!Plain(Rpc!Without(d, g[a])) \in Rpc!Done(fn, d, g),
               \A q \in Rpc!Done(fn, d, g) : q = Rpc!Plain(Rpc!Without(d, g[a])) \/ q = Rpc!Refused(d)
        PROVE  /\ DspOK(r.d) /\ r.ok \in BOOLEAN
               /\ IF r.ok THEN r.d.objects = d.objects \ GivenBack(fn, g) ELSE r.d.objects = d.objects
               /\ \E q \in Rpc!Done(fn, d, g) : q.ok
    <3>1. GivenBack(fn, g) = {g[a]}
      BY <1>2, <2>1 DEF GivenBack, Meant
    <3>2. Rpc!Without(d, g[a]) = [d EXCEPT !.objects = d.objects \ {g[a]}]
      BY DEF Rpc!Without
    <3>3. DspOK(Rpc!Without(d, g[a])) /\ Rpc!Without(d, g[a]).objects = d.objects \ {g[a]}
      BY <1>b, <3>2
    <3> DEFINE x == Rpc!Without(d, g[a])
    <3> HIDE DEF x
    <3>4. DspOK(x) /\ x.objects = d.objects \ GivenBack(fn, g)
      BY <3>1, <3>3 DEF x
    <3>5. /\ Rpc!Plain(x) \in Rpc!Done(fn, d, g)
          /\ r = Rpc!Plain(x) \/ r = Rpc!Refused(d)
      BY <2>1 DEF x
    <3> QED
      BY <1>a, <3>4, <3>5
  <2>2. fn \notin Rpc!Creating
    BY <1>2 DEF Rpc!Creating, Destroying
  <2>3. CASE fn = "DestroyMap"
    <3>1. Rpc!ToSet(Rpc!Sent[fn]) = {"mapPtr"}
      BY <2>3 DEF Rpc!ToSet, Rpc!Sent, Rpc!DestroyMap_Sent
    <3> QED
      BY <1>2, <2>1, <2>2, <2>3, <3>1 DEF Rpc!Done, Rpc!DestroyMap_Done
  <2>4. CASE fn = "DestroyWorkers"
    <3>1. Rpc!ToSet(Rpc!Sent[fn]) = {"worker_ptr"}
      BY <2>4 DEF Rpc!ToSet, Rpc!Sent, Rpc!DestroyWorkers_Sent
    <3> QED
      BY <1>2, <2>1, <2>2, <2>4, <3>1 DEF Rpc!Done, Rpc!DestroyWorkers_Done
  <2>5. CASE fn = "PointPillarDestroy"
    <3>1. Rpc!ToSet(Rpc!Sent[fn]) = {"hPreProc"}
      BY <2>5 DEF Rpc!ToSet, Rpc!Sent, Rpc!PointPillarDestroy_Sent
    <3> QED
      BY <1>2, <2>1, <2>2, <2>5, <3>1 DEF Rpc!Done, Rpc!PointPillarDestroy_Done
  <2>6. CASE fn = "ExtractBBoxDestroy"
    <3>1. Rpc!ToSet(Rpc!Sent[fn]) = {"hPostProc"}
      BY <2>6 DEF Rpc!ToSet, Rpc!Sent, Rpc!ExtractBBoxDestroy_Sent
    <3> QED
      BY <1>2, <2>1, <2>2, <2>6, <3>1 DEF Rpc!Done, Rpc!ExtractBBoxDestroy_Done
  <2> QED
    BY <1>2, <2>3, <2>4, <2>5, <2>6 DEF Destroying
<1>3. CASE fn \notin Rpc!Creating \union Destroying
  <2>0. ASSUME NEW x, DspOK(x), x.objects = d.objects, r = Rpc!Plain(x) \/ r = Rpc!Refused(x)
        PROVE  DspOK(r.d) /\ r.d.objects = d.objects /\ r.ok \in BOOLEAN
    BY <1>a, <2>0
  <2>1. CASE fn \in {"FadasInit", "FadasDeInit", "FadasVersion"}
    <3>1. r = Rpc!Plain(d)
      BY <2>1 DEF Rpc!Done
    <3> QED
      BY <1>3, <2>0, <3>1
  <2>2. CASE fn \in {"RunMT", "PointPillarRun", "ExtractBBoxRun"}
    <3>1. r = Rpc!Plain(d) \/ r = Rpc!Refused(d)
      BY <2>2 DEF Rpc!Done, Rpc!RunMT_Done, Rpc!PointPillarRun_Done, Rpc!ExtractBBoxRun_Done
    <3> QED
      BY <1>3, <2>0, <3>1
  <2>3. CASE fn = "mmap"
    <3> DEFINE x == [d EXCEPT !.mapped = d.mapped \union {g.bufFd}]
    <3>1. \/ r = Rpc!Plain(d) \/ r = Rpc!Refused(d)
          \/ r = Rpc!Plain(x)
      BY <2>3 DEF Rpc!Done, Rpc!mmap_Done
    <3>2. DspOK(x) /\ x.objects = d.objects
      BY <1>b
    <3> HIDE DEF x
    <3> QED
      BY <1>3, <2>0, <3>1, <3>2
  <2>4. CASE fn = "munmap"
    <3> DEFINE x == [d EXCEPT !.mapped = d.mapped \ {g.bufFd}]
    <3>1. \/ r = Rpc!Plain(d) \/ r = Rpc!Refused(d)
          \/ r = Rpc!Plain(x)
      BY <2>4 DEF Rpc!Done, Rpc!munmap_Done
    <3>2. DspOK(x) /\ x.objects = d.objects
      BY <1>b
    <3> HIDE DEF x
    <3> QED
      BY <1>3, <2>0, <3>1, <3>2
  <2>5. CASE fn = "RegBuf"
    <3> DEFINE x == [d EXCEPT !.regs = d.regs \union {g.bufFd}]
    <3>1. \/ r = Rpc!Plain(d) \/ r = Rpc!Refused(d)
          \/ r = Rpc!Plain(x)
          \/ r = Rpc!Refused(x)
      BY <2>5 DEF Rpc!Done, Rpc!RegBuf_Done
    <3>2. DspOK(x) /\ x.objects = d.objects
      BY <1>b
    <3> HIDE DEF x
    <3> QED
      BY <1>3, <2>0, <3>1, <3>2
  <2>6. CASE fn = "DeregBuf"
    <3> DEFINE x == [d EXCEPT !.regs = d.regs \ {g.bufFd}]
    <3>1. \/ r = Rpc!Plain(d) \/ r = Rpc!Refused(d)
          \/ r = Rpc!Plain(x)
          \/ r = Rpc!Refused(x)
      BY <2>6 DEF Rpc!Done, Rpc!DeregBuf_Done
    <3>2. DspOK(x) /\ x.objects = d.objects
      BY <1>b
    <3> HIDE DEF x
    <3> QED
      BY <1>3, <2>0, <3>1, <3>2
  <2>7. fn \in Rpc!Creating \union Destroying \/ fn \in {"FadasInit", "FadasDeInit", "FadasVersion"}
        \/ fn \in {"RunMT", "PointPillarRun", "ExtractBBoxRun"}
        \/ fn \in {"mmap", "munmap", "RegBuf", "DeregBuf"}
    BY DEF Rpc!Calls, Rpc!Sent, Rpc!Creating, Destroying
  <2> QED
    BY <1>3, <2>1, <2>2, <2>3, <2>4, <2>5, <2>6, <2>7
<1> QED
  BY <1>1, <1>2, <1>3

RpcShape(r) ==
  r = [phase |-> r.phase, fn |-> r.fn, args |-> r.args, got |-> r.got, crc |-> r.crc,
       given |-> r.given, out |-> r.out, executed |-> r.executed, ok |-> r.ok, ret |-> r.ret]

(***************************************************************************)
(* What is so of a call in each of its phases.  Between the request and    *)
(* the answer the client has let go of the object it gives back, and the   *)
(* DSP has not yet.                                                        *)
(***************************************************************************)
RpcIdle == rpc = Rpc!NoCall /\ (faults = 0 => handles = dsp.objects)

RpcSent ==
  /\ Meant(rpc.fn, rpc.args) /\ Arrived(rpc.args, rpc.got)
  /\ rpc.crc = Rpc!crc32(Rpc!Sent[rpc.fn], rpc.args)
  /\ rpc.executed = FALSE /\ rpc.ret = "none"
  /\ handles \intersect GivenBack(rpc.fn, rpc.args) = {}
  /\ faults = 0 => rpc.got = rpc.args
  /\ faults = 0 => dsp.objects = handles \union GivenBack(rpc.fn, rpc.args)

RpcAnswered ==
  /\ \/ rpc.executed = TRUE /\ rpc.got = rpc.args
        /\ rpc.ok \in BOOLEAN /\ rpc.ret = IF rpc.ok THEN "SUCCESS" ELSE "EFAILED"
     \/ rpc.executed = FALSE /\ rpc.got # rpc.args /\ rpc.ret = "EBADPARM" /\ faults # 0
  /\ rpc.fn \in Rpc!Creating /\ rpc.ret = "SUCCESS" => rpc.given \in dsp.objects
  /\ faults = 0 =>
       dsp.objects = IF rpc.fn \in Rpc!Creating /\ rpc.ret = "SUCCESS"
                     THEN handles \union {rpc.given} ELSE handles

RpcReturned ==
  /\ rpc.executed = FALSE \/ (rpc.executed = TRUE /\ rpc.got = rpc.args)
  /\ rpc.ret = "EBADPARM" => rpc.got # rpc.args
  /\ rpc.ret = "SUCCESS" /\ rpc.fn # "RegBuf" =>
       rpc.executed = TRUE /\ rpc.ok = TRUE /\ rpc.out = rpc.given
  /\ faults = 0 => handles = dsp.objects

RpcInv ==
  /\ faults \in Nat /\ RpcShape(rpc) /\ DspOK(dsp) /\ handles \subseteq dsp.objects
  /\ rpc.phase \in {"idle", "sent", "answered", "returned"}
  /\ rpc.phase = "idle" => RpcIdle
  /\ rpc.phase = "sent" => RpcSent
  /\ rpc.phase = "answered" => RpcAnswered
  /\ rpc.phase = "returned" => RpcReturned

LEMMA RpcWhole == RpcInv => Rpc!CallsArriveWhole
<1> SUFFICES ASSUME RpcInv PROVE Rpc!CallsArriveWhole
  OBVIOUS
<1>1. CASE rpc.phase = "idle"
  BY <1>1 DEF RpcInv, RpcIdle, Rpc!NoCall, Rpc!CallsArriveWhole
<1>2. CASE rpc.phase = "sent"
  BY <1>2 DEF RpcInv, RpcSent, Rpc!CallsArriveWhole
<1>3. CASE rpc.phase = "answered"
  BY <1>3 DEF RpcInv, RpcAnswered, Rpc!CallsArriveWhole
<1>4. CASE rpc.phase = "returned"
  BY <1>4 DEF RpcInv, RpcReturned, Rpc!CallsArriveWhole
<1> QED
  BY <1>1, <1>2, <1>3, <1>4 DEF RpcInv

LEMMA RpcBegins == Rpc!Init => RpcInv
<1> SUFFICES ASSUME Rpc!Init PROVE RpcInv
  OBVIOUS
<1>1. RpcShape(rpc) /\ rpc.phase = "idle" /\ DspOK(dsp) /\ dsp.objects = {}
  BY DEF Rpc!Init, Rpc!NoCall, RpcShape, DspOK
<1> QED
  BY <1>1 DEF Rpc!Init, RpcInv, RpcIdle

\* What the changes of the record come to.
LEMMA PhaseReturned ==
  ASSUME RpcShape(rpc), NEW ret, rpc' = [rpc EXCEPT !.phase = "returned", !.ret = ret]
  PROVE  /\ RpcShape(rpc') /\ rpc'.phase = "returned" /\ rpc'.ret = ret
         /\ rpc'.fn = rpc.fn /\ rpc'.args = rpc.args /\ rpc'.got = rpc.got
         /\ rpc'.executed = rpc.executed /\ rpc'.ok = rpc.ok /\ rpc'.given = rpc.given
  BY DEF RpcShape

LEMMA RpcCalls ==
  ASSUME RpcInv, NEW fn \in Rpc!Calls, NEW args \in Rpc!Arguments(fn), Rpc!Call(fn, args)
  PROVE  RpcInv'
<1>1. Meant(fn, args) /\ GivenBack(fn, args) \subseteq handles
  BY ArgumentsAre
<1>2. RpcIdle /\ faults \in Nat /\ handles \subseteq dsp.objects /\ DspOK(dsp)
  BY DEF RpcInv, Rpc!Call
<1>3. handles' = handles \ GivenBack(fn, args) /\ dsp' = dsp
  BY DEF Rpc!Call, GivenBack, Destroying
<1>4. ASSUME NEW got \in Rpc!Transferred(args),
             rpc' = [Rpc!NoCall EXCEPT !.phase = "sent", !.fn = fn, !.args = args, !.got = got,
                                       !.crc = Rpc!crc32(Rpc!Sent[fn], args)],
             faults' = IF got = args THEN faults ELSE faults + 1
      PROVE  RpcInv'
  <2>1. /\ RpcShape(rpc') /\ rpc'.phase = "sent" /\ rpc'.fn = fn /\ rpc'.args = args
        /\ rpc'.got = got /\ rpc'.crc = Rpc!crc32(Rpc!Sent[fn], args)
        /\ rpc'.ret = "none" /\ rpc'.executed = FALSE
    <3> DEFINE crc == Rpc!crc32(Rpc!Sent[fn], args)
    <3>0. rpc' = [Rpc!NoCall EXCEPT !.phase = "sent", !.fn = fn, !.args = args, !.got = got,
                                    !.crc = crc]
      BY <1>4
    <3> HIDE DEF crc
    <3>1. rpc' = [phase |-> "sent", fn |-> fn, args |-> args, got |-> got, crc |-> crc,
                  given |-> Rpc!Value("none"), out |-> Rpc!Value("none"), executed |-> FALSE,
                  ok |-> FALSE, ret |-> "none"]
      BY <3>0 DEF Rpc!NoCall
    <3>2. /\ RpcShape(rpc') /\ rpc'.phase = "sent" /\ rpc'.fn = fn /\ rpc'.args = args
          /\ rpc'.got = got /\ rpc'.crc = crc
          /\ rpc'.ret = "none" /\ rpc'.executed = FALSE
      BY ONLY <3>1 DEF RpcShape
    <3> QED
      BY <3>2 DEF crc
  <2>2. Arrived(args, got)
    BY <1>4 DEF Rpc!Transferred, Arrived, Changed
  <2>3. faults' \in Nat /\ (faults' = 0 => faults = 0 /\ got = args)
    BY <1>2, <1>4
  <2>4. RpcSent'
    <3>1. Meant(rpc'.fn, rpc'.args) /\ Arrived(rpc'.args, rpc'.got)
      BY <1>1, <2>1, <2>2
    <3>2. rpc'.crc = Rpc!crc32(Rpc!Sent[rpc'.fn], rpc'.args)
      BY <2>1
    <3>3. GivenBack(rpc'.fn, rpc'.args) = GivenBack(fn, args)
      BY <2>1
    <3>4. faults' = 0 => dsp'.objects = handles' \union GivenBack(fn, args)
      BY <1>1, <1>2, <1>3, <2>3 DEF RpcIdle
    <3>5. handles' \intersect GivenBack(fn, args) = {}
      BY <1>3
    <3> QED
      BY <2>1, <2>3, <3>1, <3>2, <3>3, <3>4, <3>5 DEF RpcSent, Meant, Arrived, GivenBack
  <2> QED
    BY <1>2, <1>3, <2>1, <2>3, <2>4 DEF RpcInv, RpcShape, DspOK
<1>5. ASSUME Rpc!Faulty,
             rpc' = [Rpc!NoCall EXCEPT !.phase = "returned", !.fn = fn, !.args = args,
                                       !.got = args, !.ret = "EFAILED"]
      PROVE  RpcInv'
  <2>1. rpc' = [phase |-> "returned", fn |-> fn, args |-> args, got |-> args, crc |-> {},
                given |-> Rpc!Value("none"), out |-> Rpc!Value("none"), executed |-> FALSE,
                ok |-> FALSE, ret |-> "EFAILED"]
    BY <1>5 DEF Rpc!NoCall
  <2>2. RpcShape(rpc') /\ rpc'.phase = "returned" /\ rpc'.executed = FALSE /\ rpc'.ret = "EFAILED"
    BY ONLY <2>1 DEF RpcShape
  <2>3. faults' \in Nat /\ faults' # 0
    BY <1>2, <1>5 DEF Rpc!Faulty
  <2>4. RpcReturned'
    BY <2>2, <2>3 DEF RpcReturned
  <2> QED
    BY <1>2, <1>3, <2>2, <2>3, <2>4 DEF RpcInv, RpcShape, DspOK
<1> QED
  BY <1>4, <1>5 DEF Rpc!Call

LEMMA RpcLost ==
  ASSUME RpcInv, Rpc!Lost
  PROVE  RpcInv'
<1>1. /\ RpcShape(rpc') /\ rpc'.phase = "returned" /\ rpc'.ret = Rpc!Reported("EFAILED")
      /\ rpc'.fn = rpc.fn /\ rpc'.args = rpc.args /\ rpc'.got = rpc.got
      /\ rpc'.executed = rpc.executed
  BY PhaseReturned DEF Rpc!Lost, RpcInv
<1>2. rpc'.ret = IF rpc.fn = "RegBuf" THEN "SUCCESS" ELSE "EFAILED"
  BY <1>1 DEF Rpc!Reported
<1>3. faults' \in Nat /\ faults' # 0
  BY DEF Rpc!Lost, Rpc!Faulty, RpcInv
<1>4. rpc.executed = FALSE
  BY DEF RpcInv, RpcSent, Rpc!Lost
<1>5. RpcReturned'
  BY <1>1, <1>2, <1>3, <1>4 DEF RpcReturned
<1> QED
  BY <1>1, <1>3, <1>5 DEF RpcInv, RpcShape, DspOK, Rpc!Lost

LEMMA RpcRefuse ==
  ASSUME RpcInv, Rpc!Refuse
  PROVE  RpcInv'
<1>0. RpcSent /\ RpcShape(rpc) /\ faults' = faults /\ dsp' = dsp /\ handles' = handles
  BY DEF RpcInv, Rpc!Refuse
<1>1. /\ RpcShape(rpc') /\ rpc'.phase = "answered" /\ rpc'.ret = "EBADPARM"
      /\ rpc'.args = rpc.args /\ rpc'.got = rpc.got /\ rpc'.executed = rpc.executed
  BY <1>0 DEF Rpc!Refuse, RpcShape
<1>2. rpc.got # rpc.args
  BY <1>0, ChecksumTells DEF RpcSent, Rpc!Refuse, Rpc!Accepts
<1>3. RpcAnswered'
  BY <1>0, <1>1, <1>2 DEF RpcSent, RpcAnswered
<1> QED
  BY <1>0, <1>1, <1>3 DEF RpcInv, RpcShape, DspOK

LEMMA RpcExecute ==
  ASSUME RpcInv, Rpc!Execute
  PROVE  RpcInv'
<1>0. RpcSent /\ RpcShape(rpc) /\ DspOK(dsp) /\ handles' = handles /\ faults \in Nat
      /\ handles \subseteq dsp.objects
  BY DEF RpcInv, Rpc!Execute
<1>1. rpc.got = rpc.args /\ Meant(rpc.fn, rpc.got) /\ rpc.fn \in Rpc!Calls
  BY <1>0, ChecksumTells DEF RpcSent, Rpc!Execute, Rpc!Accepts, Meant
<1> DEFINE results == Rpc!Done(rpc.fn, dsp, rpc.got)
<1>2. PICK r \in results :
        /\ IF r.ok \/ \A q \in results : ~q.ok THEN UNCHANGED faults ELSE Rpc!Faulty
        /\ dsp' = r.d
        /\ rpc' = [rpc EXCEPT !.phase = "answered", !.executed = TRUE, !.ok = r.ok,
                              !.given = r.out, !.ret = IF r.ok THEN "SUCCESS" ELSE "EFAILED"]
  BY DEF Rpc!Execute
<1>3. /\ DspOK(r.d)
      /\ rpc.fn \in Rpc!Creating =>
           IF r.ok THEN r.d.objects = dsp.objects \union {r.out} ELSE r.d.objects = dsp.objects
      /\ rpc.fn \in Destroying =>
           IF r.ok THEN r.d.objects = dsp.objects \ GivenBack(rpc.fn, rpc.got)
                   ELSE r.d.objects = dsp.objects
      /\ rpc.fn \notin Rpc!Creating \union Destroying => r.d.objects = dsp.objects
      /\ rpc.fn \in Rpc!Creating \union Destroying => \E q \in results : q.ok
      /\ r.ok \in BOOLEAN
  BY <1>0, <1>1, DoneIs
<1>4. faults' \in Nat /\ (faults' = 0 => faults = 0)
      /\ (faults' = 0 => r.ok \/ rpc.fn \notin Rpc!Creating \union Destroying)
  BY <1>0, <1>2, <1>3 DEF Rpc!Faulty
<1> HIDE DEF results
<1>5. /\ RpcShape(rpc') /\ rpc'.phase = "answered" /\ rpc'.executed = TRUE /\ rpc'.ok = r.ok
      /\ rpc'.given = r.out /\ rpc'.ret = (IF r.ok THEN "SUCCESS" ELSE "EFAILED")
      /\ rpc'.fn = rpc.fn /\ rpc'.args = rpc.args /\ rpc'.got = rpc.got
  BY <1>0, <1>2 DEF RpcShape
<1>6. handles \intersect GivenBack(rpc.fn, rpc.got) = {}
      /\ (faults = 0 => dsp.objects = handles \union GivenBack(rpc.fn, rpc.got))
  BY <1>0, <1>1 DEF RpcSent
<1>7. dsp' = r.d /\ dsp'.objects = r.d.objects
  BY <1>2
<1>8. rpc.fn \notin Destroying => GivenBack(rpc.fn, rpc.got) = {}
  BY DEF GivenBack
<1>9. rpc.fn \in Rpc!Creating => rpc.fn \notin Destroying
  BY DEF Rpc!Creating, Destroying
<1>10. handles \subseteq dsp'.objects
  BY <1>0, <1>3, <1>6, <1>7
<1>11. rpc.fn \in Rpc!Creating /\ r.ok => r.out \in dsp'.objects
  BY <1>3, <1>7
<1>12. faults' = 0 => dsp'.objects = IF rpc.fn \in Rpc!Creating /\ r.ok
                                     THEN handles \union {r.out} ELSE handles
  <2>1. CASE rpc.fn \in Rpc!Creating
    BY <1>3, <1>4, <1>6, <1>7, <1>8, <1>9, <2>1
  <2>2. CASE rpc.fn \in Destroying
    BY <1>3, <1>4, <1>6, <1>7, <1>9, <2>2
  <2>3. CASE rpc.fn \notin Rpc!Creating \union Destroying
    BY <1>3, <1>4, <1>6, <1>7, <1>8, <2>3
  <2> QED
    BY <2>1, <2>2, <2>3
<1>13. RpcAnswered'
  BY <1>0, <1>1, <1>3, <1>5, <1>11, <1>12 DEF RpcAnswered
<1> QED
  BY <1>0, <1>3, <1>4, <1>5, <1>7, <1>10, <1>13 DEF RpcInv, RpcShape, DspOK

LEMMA RpcNoAnswer ==
  ASSUME RpcInv, Rpc!NoAnswer
  PROVE  RpcInv'
<1>0. RpcAnswered /\ RpcShape(rpc) /\ dsp' = dsp /\ handles' = handles
  BY DEF RpcInv, Rpc!NoAnswer
<1>1. /\ RpcShape(rpc') /\ rpc'.phase = "returned" /\ rpc'.ret = "EFAILED"
      /\ rpc'.args = rpc.args /\ rpc'.got = rpc.got /\ rpc'.executed = rpc.executed
  BY <1>0, PhaseReturned DEF Rpc!NoAnswer
<1>2. faults' \in Nat /\ faults' # 0
  BY DEF Rpc!NoAnswer, Rpc!Faulty, RpcInv
<1>3. RpcReturned'
  BY <1>0, <1>1, <1>2 DEF RpcReturned, RpcAnswered
<1> QED
  BY <1>0, <1>1, <1>2, <1>3 DEF RpcInv, RpcShape, DspOK

LEMMA RpcReturn ==
  ASSUME RpcInv, Rpc!Return
  PROVE  RpcInv'
<1>0. /\ RpcAnswered /\ RpcShape(rpc) /\ dsp' = dsp /\ DspOK(dsp)
      /\ handles \subseteq dsp.objects /\ faults \in Nat
  BY DEF RpcInv, Rpc!Return
<1>1. CASE /\ rpc' = [rpc EXCEPT !.phase = "returned", !.out = rpc.given,
                                 !.ret = Rpc!Reported(rpc.ret)]
           /\ handles' = IF rpc.ret = "SUCCESS" /\ rpc.fn \in Rpc!Creating
                         THEN handles \union {rpc.given} ELSE handles
           /\ UNCHANGED faults
  <2>1. /\ RpcShape(rpc') /\ rpc'.phase = "returned" /\ rpc'.ret = Rpc!Reported(rpc.ret)
        /\ rpc'.fn = rpc.fn /\ rpc'.args = rpc.args /\ rpc'.got = rpc.got /\ rpc'.out = rpc.given
        /\ rpc'.executed = rpc.executed /\ rpc'.ok = rpc.ok /\ rpc'.given = rpc.given
    BY <1>0, <1>1 DEF RpcShape
  <2>2. rpc'.ret = IF rpc.fn = "RegBuf" THEN "SUCCESS" ELSE rpc.ret
    BY <2>1 DEF Rpc!Reported
  <2>3. handles' \subseteq dsp.objects /\ (faults = 0 => handles' = dsp.objects)
    BY <1>0, <1>1 DEF RpcAnswered
  <2>4. RpcReturned'
    BY <1>0, <1>1, <2>1, <2>2, <2>3 DEF RpcReturned, RpcAnswered
  <2> QED
    BY <1>0, <1>1, <2>1, <2>3, <2>4 DEF RpcInv, RpcShape, DspOK
<1>2. CASE /\ Rpc!Faulty
           /\ rpc' = [rpc EXCEPT !.phase = "returned", !.ret = Rpc!Reported("EFAILED")]
           /\ UNCHANGED handles
  <2>1. /\ RpcShape(rpc') /\ rpc'.phase = "returned" /\ rpc'.ret = Rpc!Reported("EFAILED")
        /\ rpc'.fn = rpc.fn /\ rpc'.args = rpc.args /\ rpc'.got = rpc.got
        /\ rpc'.executed = rpc.executed
    BY <1>0, <1>2, PhaseReturned
  <2>2. rpc'.ret = IF rpc.fn = "RegBuf" THEN "SUCCESS" ELSE "EFAILED"
    BY <2>1 DEF Rpc!Reported
  <2>3. faults' \in Nat /\ faults' # 0
    BY <1>0, <1>2 DEF Rpc!Faulty
  <2>4. RpcReturned'
    BY <1>0, <2>1, <2>2, <2>3 DEF RpcReturned, RpcAnswered
  <2> QED
    BY <1>0, <1>2, <2>1, <2>3, <2>4 DEF RpcInv, RpcShape, DspOK
<1> QED
  BY <1>1, <1>2 DEF Rpc!Return

LEMMA RpcLeave ==
  ASSUME RpcInv, Rpc!Leave
  PROVE  RpcInv'
<1>0. /\ RpcReturned /\ dsp' = dsp /\ handles' = handles /\ faults' = faults
      /\ rpc' = Rpc!NoCall
  BY DEF RpcInv, Rpc!Leave
<1>1. RpcShape(rpc') /\ rpc'.phase = "idle"
  BY <1>0 DEF Rpc!NoCall, RpcShape
<1>2. RpcIdle'
  BY <1>0 DEF RpcIdle, RpcReturned, Rpc!NoCall
<1> QED
  BY <1>0, <1>1, <1>2 DEF RpcInv, RpcShape, DspOK

LEMMA RpcKept == RpcInv /\ [Rpc!Next]_(Rpc!vars) => RpcInv'
<1> SUFFICES ASSUME RpcInv, [Rpc!Next]_(Rpc!vars) PROVE RpcInv'
  OBVIOUS
<1>1. CASE UNCHANGED Rpc!vars
  BY <1>1 DEF Rpc!vars, RpcInv, RpcIdle, RpcSent, RpcAnswered, RpcReturned, Rpc!NoCall
<1>2. CASE Rpc!Next
  BY <1>2, RpcCalls, RpcLost, RpcRefuse, RpcExecute, RpcNoAnswer, RpcReturn, RpcLeave DEF Rpc!Next
<1> QED
  BY <1>1, <1>2

LEMMA RpcSteps ==
  ASSUME [ServicesNext]_servicesVars
  PROVE  [Rpc!Next]_(Rpc!vars)
<1>1. CASE ServicesNext
  BY <1>1 DEF ServicesNext, rpcVars, Rpc!vars
<1>2. CASE UNCHANGED servicesVars
  BY <1>2 DEF servicesVars, rpcVars, Rpc!vars
<1> QED
  BY <1>1, <1>2

(***************************************************************************)
(* Whatever the channel does to a request or an answer, the DSP executes a *)
(* call with the arguments the client meant or refuses it, and refuses     *)
(* only what was changed; what is reported as done was done, but for       *)
(* RegBuf; and no object of the client is gone on the DSP, nor, without a  *)
(* fault, lost to the client (the checksums of FadasIfaceSafe.cpp and      *)
(* FadasIfaceCore.cpp).                                                    *)
(***************************************************************************)
THEOREM CallsAreWhole == ServicesSpec => []CallsArriveWhole
<1>1. ServicesInit => RpcInv
  BY RpcBegins DEF ServicesInit
<1>2. RpcInv /\ [ServicesNext]_servicesVars => RpcInv'
  BY RpcSteps, RpcKept
<1>3. RpcInv => CallsArriveWhole
  BY RpcWhole DEF CallsArriveWhole
<1> QED
  BY <1>1, <1>2, <1>3, PTL DEF ServicesSpec
=============================================================================
