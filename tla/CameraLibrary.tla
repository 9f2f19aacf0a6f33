----------------------------- MODULE CameraLibrary -----------------------------
(***************************************************************************)
(* The QCarCam library shared by the camera nodes of a process: the        *)
(* reference count g_nCamInitRefCount and the input descriptions           *)
(* s_cameraInputsInfo that the constructors and destructors of CameraImpl  *)
(* maintain under g_camInitMutex, each of them one step.                   *)
(***************************************************************************)
EXTENDS Naturals, FiniteSets

CONSTANTS
  Cameras,        \* camera objects
  InitMayFail,    \* whether QCarCamInitialize may fail
  QueryMayFail    \* whether QueryInputs and QCarCamUninitialize may fail

ASSUME LibraryAssumption ==
  IsFiniteSet(Cameras) /\ InitMayFail \in BOOLEAN /\ QueryMayFail \in BOOLEAN

VARIABLES
  camera,             \* state of each camera object
  g_nCamInitRefCount,
  library,            \* QCarCam is initialized
  inputs,             \* s_cameraInputsInfo holds the input descriptions
  failed,             \* history: cameras whose constructor failed
  stray               \* history: such a camera has been destroyed

shared == <<g_nCamInitRefCount, library, inputs>>
vars == <<camera, shared, failed, stray>>

Init ==
  /\ camera = [c \in Cameras |-> "none"]
  /\ g_nCamInitRefCount = 0
  /\ library = FALSE
  /\ inputs = FALSE
  /\ failed = {}
  /\ stray = FALSE

Outcome(mayFail) == IF mayFail THEN BOOLEAN ELSE {TRUE}

\* Mutant: only the camera that initializes QCarCam is counted.
Construct_CountsFirst(c) ==
  /\ camera[c] = "none"
  /\ camera' = [camera EXCEPT ![c] = "INITIAL"]
  /\ g_nCamInitRefCount' = 1
  /\ library' = TRUE
  /\ inputs' = (inputs \/ g_nCamInitRefCount = 0)
  /\ UNCHANGED <<failed, stray>>

(* CameraImpl(): the first camera initializes QCarCam and reads its inputs. *)
Construct(c) ==
  /\ camera[c] = "none"
  /\ \E ok \in Outcome(InitMayFail /\ g_nCamInitRefCount = 0) :
       /\ camera' = [camera EXCEPT ![c] = IF ok THEN "INITIAL" ELSE "ERROR"]
       /\ g_nCamInitRefCount' = g_nCamInitRefCount + (IF ok THEN 1 ELSE 0)
       /\ library' = (library \/ ok)
       /\ IF ok /\ g_nCamInitRefCount = 0
          THEN inputs' \in Outcome(QueryMayFail)
          ELSE UNCHANGED inputs
       /\ failed' = IF ok THEN failed ELSE failed \union {c}
  /\ UNCHANGED stray

(***************************************************************************)
(* Initialize, as far as the library goes: GetInputsInfo, and a session.   *)
(* A call that fails, or that is refused, leaves the camera INITIAL.       *)
(***************************************************************************)
Initialize(c) ==
  /\ camera[c] # "none"
  /\ \E s \in {"INITIAL"} \union
             (IF camera[c] = "INITIAL" /\ inputs THEN {"READY"} ELSE {}) :
       camera' = [camera EXCEPT ![c] = s]
  /\ UNCHANGED <<shared, failed, stray>>

\* Mutant: QCarCam ends with any camera.
Destroy_EndsAlways(c) ==
  /\ camera[c] # "none"
  /\ camera' = [camera EXCEPT ![c] = "none"]
  /\ g_nCamInitRefCount' = g_nCamInitRefCount - 1
  /\ library' = FALSE
  /\ inputs' = FALSE
  /\ UNCHANGED <<failed, stray>>

(* ~CameraImpl(): the last camera ends QCarCam and frees the descriptions. *)
Destroy(c) ==
  /\ camera[c] # "none"
  /\ camera' = [camera EXCEPT ![c] = "none"]
  /\ IF g_nCamInitRefCount = 0
     THEN UNCHANGED shared
     ELSE /\ g_nCamInitRefCount' = g_nCamInitRefCount - 1
          /\ IF g_nCamInitRefCount = 1
             THEN /\ library' \in { ~ok : ok \in Outcome(QueryMayFail) }
                  /\ inputs' = FALSE
             ELSE UNCHANGED <<library, inputs>>
  /\ failed' = failed \ {c}
  /\ stray' = (stray \/ c \in failed)

Next == \E c \in Cameras : Construct(c) \/ Initialize(c) \/ Destroy(c)

Spec == Init /\ [][Next]_vars

-----------------------------------------------------------------------------
(* The values the shared data can take. *)
TypeOK ==
  /\ camera \in [Cameras -> {"none", "INITIAL", "READY", "ERROR"}]
  /\ g_nCamInitRefCount \in Nat
  /\ library \in BOOLEAN /\ inputs \in BOOLEAN /\ stray \in BOOLEAN
  /\ failed \in SUBSET Cameras

(* The cameras whose constructor succeeded. *)
Counted == { c \in Cameras : camera[c] # "none" } \ failed

(***************************************************************************)
(* QCarCam stays initialized, and its input descriptions stay allocated,   *)
(* for as long as a properly constructed camera has a session: no other    *)
(* camera's end takes them away, until a camera whose constructor failed   *)
(* has been destroyed (its destructor gives back a count it never took).   *)
(***************************************************************************)
LibraryUpWhileUsed ==
  ~stray /\ (\E c \in Counted : camera[c] = "READY") => library /\ inputs

(***************************************************************************)
(* The count is that of the properly constructed cameras, however          *)
(* constructors and destructors interleave, until a camera whose           *)
(* constructor failed has been destroyed.                                  *)
(***************************************************************************)
CountsCameras == ~stray => g_nCamInitRefCount = Cardinality(Counted)
=============================================================================
