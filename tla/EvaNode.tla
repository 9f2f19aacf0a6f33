-------------------------------- MODULE EvaNode --------------------------------
(***************************************************************************)
(* The nodes on the engine for video analytics, optical flow               *)
(* (OpticalFlow.cpp) and depth from stereo (DepthFromStereo.cpp): one      *)
(* session of the engine, one object on it, a map of configuration entries *)
(* and a table of registered buffers.  The calls of a node come from one   *)
(* thread and are atomic here; each may end at any of the calls of the     *)
(* engine it makes.                                                        *)
(***************************************************************************)
EXTENDS Naturals, Sequences, Functions

CONSTANTS
  Configs,     \* the configurations that are considered
  Addresses,   \* where buffers are
  Memory,      \* what memory there can be at an address
  Nothing      \* stands for what is in no table

(***************************************************************************)
(* A configuration of the model.                                           *)
(*   kind       "flow" or "stereo"                                         *)
(*   offers     what the application passes to Initialize: form "static",  *)
(*              "dynamic" or "none", a version, the keys with a value out  *)
(*              of range, the direction, whether confidence is wanted      *)
(*   frames     the frames of the application: an address for each role of *)
(*              a buffer, or Absent                                        *)
(*   fits       the memory with the layout of the images                   *)
(*   mayFail    the calls of the engine that may fail                      *)
(*   mayFailAfter  the numbers of entries after which Set may fail         *)
(*   maxInits   bound on the calls of Initialize                           *)
(***************************************************************************)
IsConfig(c) ==
  /\ c.kind \in {"flow", "stereo"}
  /\ \A o \in c.offers :
       /\ o.form \in {"static", "dynamic", "none"} /\ o.version \in Nat \ {0, 1}
       /\ o.direction \in {"forward", "backward", "both"}
       /\ o.confidence \in BOOLEAN
  /\ c.fits \subseteq Memory
  /\ c.mayFailAfter \subseteq Nat /\ c.maxInits \in Nat

VARIABLES
  config,    \* the configuration of the model, chosen once
  state,     \* m_state
  session,   \* m_session, 0 for a null pointer
  engine,    \* m_Lme, m_stereoDisparity: the session it was created on
  current,   \* m_config of the configuration interface
  settings,  \* m_configMap: the version each entry was set from, 0 if never
  memMap,    \* m_memMap: the memory that was registered, by address
  up,        \* the application has a node that Initialize did not refuse
  inits,     \* calls of Initialize so far
  live,      \* engine: the sessions that exist
  objects,   \* engine: the sessions that have an object on them
  started,   \* engine: the sessions that were started
  regs,      \* engine: registrations, <<session, address, memory>>
  orphans,   \* history: sessions nobody destroyed or whose Destroy failed
  memory     \* application: the memory at each address

node == <<state, session, engine, current, settings, memMap>>
eva  == <<live, objects, started, regs>>
vars == <<config, node, up, inits, eva, orphans, memory>>

Absent  == "absent"
Default == [version |-> 1, outOfRange |-> {}, direction |-> "forward",
            confidence |-> config.kind = "stereo"]
Outcome(call) == IF call \in config.mayFail THEN BOOLEAN ELSE {TRUE}

-----------------------------------------------------------------------------
(* The keys whose range is checked, and those whose values are taken over *)

FlowImageKeys ==
  { "format", "motionMapFormat", "width", "height", "fps", "motionMapUpscale",
    "motionDirection", "motionMapStepSize", "refinementLevel",
    "computationAccuracy", "noiseScaleSrc", "noiseScaleDst", "noiseOffsetSrc",
    "noiseOffsetDst", "motionVarianceTolerance", "occlusionTolerance" }
FlowSearchKeys ==
  { "initialPenalty", "edgePenalty", "smoothnessPenalty", "neighborPenalty",
    "textureMetric", "edgeAlignMetric", "motionVarianceMetric",
    "occlusionMetric", "segmentationThreshold", "imageSharpnessThreshold",
    "mvEdgeThreshold", "refinementThreshold", "textureThreshold",
    "lightingCondition" }
StereoImageKeys ==
  { "format", "disparityFormat", "width", "height", "fps", "processingMode",
    "offsetPrimary", "offsetAux", "modelType", "prevDisparityFactor",
    "disparityMapPrecision", "refinementLevel", "confidenceThreshold",
    "disparityThreshold", "scalePrimary", "scaleAux",
    "rectificationErrTolerance" }
StereoSearchKeys ==
  { "segmentationThreshold", "textureThreshold", "searchDirection",
    "initialPenalty", "edgePenalty", "smoothnessPenalty", "neighbourPenalty",
    "imageSharpnessThreshold", "farAwayDisparityLimit",
    "disparityEdgeThreshold", "matchingCostMetric", "textureMetric",
    "edgeAlignMetric", "disparityVarianceMetric", "occlusionMetric",
    "disparityVarianceTolerance", "occlusionTolerance", "refinementThreshold",
    "maxDisparityRange" }

VerifiedKeys == IF config.kind = "flow" THEN FlowImageKeys \union FlowSearchKeys
                                        ELSE StereoImageKeys \union StereoSearchKeys

(* The noise of the stereo cameras is read under other keys than checked. *)
FlowParsedKeys   == FlowImageKeys \union FlowSearchKeys
StereoParsedKeys ==
  ((StereoImageKeys \union StereoSearchKeys)
     \ {"offsetPrimary", "offsetAux", "scalePrimary", "scaleAux"})
  \union {"noiseOffsetPrimary", "noiseOffsetAux", "noiseScalePrimary", "noiseScaleAux"}
ParsedKeys == IF config.kind = "flow" THEN FlowParsedKeys ELSE StereoParsedKeys

VerifyStaticConfig(o) == o.outOfRange \intersect VerifiedKeys = {}

(* The values ParseStaticConfig takes over from an offer it accepts. *)
ParseStaticConfig(o) ==
  [version |-> o.version, outOfRange |-> o.outOfRange \intersect ParsedKeys,
   direction |-> o.direction, confidence |-> o.confidence]

(* VerifyAndSet leaves configuration c, and whether it succeeds. *)
VerifyAndSet(o, c, ok) ==
  \/ o.form = "static" /\ VerifyStaticConfig(o) /\ ok /\ c = ParseStaticConfig(o)
  \/ o.form = "static" /\ ~VerifyStaticConfig(o) /\ ~ok /\ c = current
  \/ o.form = "dynamic" /\ ok /\ c = current
  \/ o.form = "none" /\ ~ok /\ c = current

-----------------------------------------------------------------------------
(* The entries of the configuration map *)

FlowOutputIconfig ==
  << "AVERAGE_FPS", "SRC_IMAGE_INFO", "DST_IMAGE_INFO", "MOTION_MAP_FORMAT",
     "MOTION_MAP_FRAC_EN", "MOTION_MAP_UPSCALE", "MOTION_MAP_STEP_SIZE" >>
FlowSearchIconfig ==
  << "MOTION_DIRECTION", "CONFIDENCE_OUTPUT_EN", "REFINEMENT_LEVEL",
     "CHROMA_PROC_EN", "MASK_LOW_TEXTURE_EN", "COMPUTATION_ACCURACY" >>
StereoIconfig ==
  << "AVERAGE_FPS", "PRIMARY_IMAGE_INFO", "AUXILIARY_IMAGE_INFO",
     "CONFIDENCE_OUTPUT_EN", "OCCLUSION_OUTPUT_EN", "DISPARITY_STATS_EN",
     "RECTIFICATION_ERROR_STATS_EN", "DISPARITY_MAP_FORMAT", "MODE" >>
FlowToleranceFrameConfig ==
  << "NOISE_TOLERANCES", "MOTION_VARIANCE_TOLERANCE", "OCCLUSION_TOLERANCE",
     "PENALTIES", "TEXTURE_METRIC", "EDGE_ALIGN_METRIC",
     "MOTION_VARIANCE_METRIC", "OCCLUSION_METRIC" >>
FlowThresholdFrameConfig ==
  << "SEGMENTATION_THRESHOLD", "IMAGE_SHARPNESS_THRESHOLD",
     "MV_EDGE_THRESHOLD", "REFINEMENT_THRESHOLD", "TEXTURE_THRESHOLD",
     "LIGHTING_CONDITION", "IS_FIRST_REQUEST", "REQUEST_ID" >>
StereoToleranceFrameConfig ==
  << "MAX_DISPARITY_RANGE", "DISPARITY_MAP_PRECISION", "REFINEMENT_LEVEL",
     "CHROMA_PROC_EN", "NOISE_TOLERANCE_SCALE", "NOISE_TOLERANCE_OFFSET",
     "DISPARITY_VARIANCE_TOLERANCE", "OCCLUSION_TOLERANCE" >>
StereoThresholdFrameConfig ==
  << "PENALTIES", "MATCHING_COST_METRIC", "TEXTURE_METRIC",
     "EDGE_ALIGN_METRIC", "DISPARITY_VARIANCE_METRIC", "OCCLUSION_METRIC",
     "SEGMENTATION_THRESHOLD", "IMAGE_SHARPNESS_THRESHOLD",
     "DISPARITY_EDGE_THRESHOLD", "REFINEMENT_THRESHOLD", "TEXTURE_THRESHOLD",
     "MASK_LOW_TEXTURE_EN", "RECTIFICATION_ERR_TOLERANCE", "SEARCH_DIRECTION",
     "FAR_AWAY_DISPARITY_LIMIT" >>

Iconfig == IF config.kind = "flow" THEN FlowOutputIconfig \o FlowSearchIconfig
                                   ELSE StereoIconfig
FrameConfig ==
  IF config.kind = "flow"
  THEN FlowToleranceFrameConfig \o FlowThresholdFrameConfig
  ELSE StereoToleranceFrameConfig \o StereoThresholdFrameConfig
Entries == Range(Iconfig) \union Range(FrameConfig)

(* The first k entries of ids are set, from configuration c. *)
SetEntries(ids, k, c) ==
  [id \in DOMAIN settings |->
     IF id \in Range(SubSeq(ids, 1, k)) THEN c.version ELSE settings[id]]

(* How many entries are set before Set fails, if it does. *)
Reach(ids) == (config.mayFailAfter \intersect 0 .. Len(ids) - 1) \union {Len(ids)}

Init ==
  /\ config \in Configs
  /\ state = "INITIAL" /\ session = 0 /\ engine = 0
  /\ current = Default
  /\ settings = [id \in Entries |-> 0]
  /\ memMap = [a \in Addresses |-> Nothing]
  /\ up = FALSE /\ inits = 0
  /\ live = {} /\ objects = {} /\ started = {} /\ regs = {} /\ orphans = {}
  /\ memory \in [Addresses -> Memory]

-----------------------------------------------------------------------------
(* Initialize *)

(* VerifyAndSet, NodeBase::Init, ImageInfoQuery or Session::Create fails. *)
Initialize_Refused(o) ==
  \E ok \in BOOLEAN, c \in {current, ParseStaticConfig(o)}, created \in BOOLEAN :
    /\ VerifyAndSet(o, c, ok)
    /\ ok => "Create" \in config.mayFail
    /\ current' = c
    /\ session' = IF ok /\ created THEN 0 ELSE session
    /\ UNCHANGED <<state, engine, settings, memMap, up, eva, orphans>>

(* UpdateIconfig fails: the session stays, and nobody will destroy it. *)
Initialize_BadEntry(o) ==
  \E c \in {current, ParseStaticConfig(o)}, k \in Reach(Iconfig) \ {Len(Iconfig)} :
    /\ VerifyAndSet(o, c, TRUE)
    /\ current' = c
    /\ session' = inits'
    /\ settings' = SetEntries(Iconfig, k, c)
    /\ live' = live \union {inits'}
    /\ orphans' = orphans \union {inits'}
    /\ UNCHANGED <<state, engine, memMap, up, objects, started, regs>>

(* The object is not created: the node is READY without one. *)
Initialize_NoEngine(o) ==
  \E c \in {current, ParseStaticConfig(o)}, destroyed \in Outcome("Destroy") :
    /\ "Create" \in config.mayFail
    /\ VerifyAndSet(o, c, TRUE)
    /\ current' = c
    /\ settings' = SetEntries(Iconfig, Len(Iconfig), c)
    /\ state' = "READY"
    /\ session' = 0 /\ engine' = 0
    /\ live' = IF destroyed THEN live ELSE live \union {inits'}
    /\ orphans' = IF destroyed THEN orphans ELSE orphans \union {inits'}
    /\ UNCHANGED <<memMap, up, objects, started, regs>>

Initialize_Done(o) ==
  \E c \in {current, ParseStaticConfig(o)} :
    /\ VerifyAndSet(o, c, TRUE)
    /\ current' = c
    /\ settings' = SetEntries(Iconfig, Len(Iconfig), c)
    /\ state' = "READY"
    /\ session' = inits' /\ engine' = inits'
    /\ live' = live \union {inits'} /\ objects' = objects \union {inits'}
    /\ up' = TRUE
    /\ UNCHANGED <<memMap, started, regs, orphans>>

Initialize(o) ==
  /\ ~up /\ inits < config.maxInits
  /\ inits' = inits + 1
  /\ \/ Initialize_Refused(o)  \/ Initialize_BadEntry(o)
     \/ Initialize_NoEngine(o) \/ Initialize_Done(o)
  /\ UNCHANGED <<config, memory>>

-----------------------------------------------------------------------------
(* Start, Stop, DeInitialize *)

\* Mutant: the frame entries are left as they are.
SetInitialFrameConfig_Skipped(k) == UNCHANGED settings

SetInitialFrameConfig(k) == settings' = SetEntries(FrameConfig, k, current)

(* A session that was started stays so where an entry cannot be set. *)
Start ==
  /\ up /\ state = "READY"
  /\ \/ /\ "SessionStart" \in config.mayFail
        /\ UNCHANGED <<state, settings, started>>
     \/ \E k \in Reach(FrameConfig) :
          /\ started' = started \union {session}
          /\ SetInitialFrameConfig(k)
          /\ state' = IF k = Len(FrameConfig) THEN "RUNNING" ELSE state
  /\ UNCHANGED <<config, session, engine, current, memMap, up, inits, live,
                 objects, regs, orphans, memory>>

Stop ==
  /\ up /\ state = "RUNNING"
  /\ \E ok \in Outcome("SessionStop") :
       /\ state' = IF ok THEN "READY" ELSE state
       /\ started' = IF ok THEN started \ {session} ELSE started
  /\ UNCHANGED <<config, session, engine, current, settings, memMap, up, inits,
                 live, objects, regs, orphans, memory>>

\* Mutant: the table keeps its entries.
ClearTable_Forgotten == UNCHANGED memMap

(* m_memMap.clear(). *)
ClearTable == memMap' = [a \in Addresses |-> Nothing]

(***************************************************************************)
(* A failure is reported and passed over.  The registrations of a session  *)
(* end with it.  m_state stays READY.                                      *)
(***************************************************************************)
DeInitialize ==
  /\ up /\ state = "READY"
  /\ \E gone \in Outcome("Destroy"), destroyed \in Outcome("Destroy"),
        kept \in SUBSET { r \in regs : r[1] = session } :
       /\ "Deregister" \notin config.mayFail => kept = {}
       /\ objects' = IF gone \/ destroyed THEN objects \ {session} ELSE objects
       /\ live' = IF destroyed THEN live \ {session} ELSE live
       /\ started' = IF destroyed THEN started \ {session} ELSE started
       /\ regs' = { r \in regs : r[1] # session } \union
                    IF destroyed THEN {} ELSE kept
       /\ orphans' = IF destroyed THEN orphans ELSE orphans \union {session}
  /\ ClearTable
  /\ session' = 0
  /\ up' = FALSE
  /\ UNCHANGED <<config, state, engine, current, settings, inits, memory>>

-----------------------------------------------------------------------------
(* ProcessFrameDescriptor *)

Images == IF config.kind = "flow" THEN <<"reference", "current">>
                                  ELSE <<"primary", "auxiliary">>
Ways(d) == IF d = "both" THEN <<"forward", "backward">> ELSE <<d>>

Motion  == [forward |-> "forwardMotion", backward |-> "backwardMotion"]
Quality == [forward |-> "forwardConfidence", backward |-> "backwardConfidence"]

(* A motion map that is absent is passed over. *)
FlowMotionMaps(f) ==
  LET ways == Ways(current.direction)
  IN SelectSeq([i \in DOMAIN ways |-> Motion[ways[i]]], LAMBDA r : f[r] # Absent)

FlowConfidence == { Quality[w] : w \in Range(Ways(current.direction)) }

(* What is registered in order, and the maps of the confidence, of which   *)
(* each is tried whatever became of the other.                             *)
Buffers(f) == Images \o IF config.kind = "flow" THEN FlowMotionMaps(f)
                                                ELSE <<"disparity">>
Confidence == IF ~current.confidence THEN {}
              ELSE IF config.kind = "flow" THEN FlowConfidence ELSE {"confidence"}

ValidateImageDesc(a) == a # Absent /\ memory[a] \in config.fits

(* What is looked at before anything is registered. *)
Accepted(f) ==
  /\ \A r \in Range(Images) : ValidateImageDesc(f[r])
  /\ config.kind = "stereo" => f["disparity"] # Absent

(* Addresses in the table are taken for registered. *)
RegisterMemory(as) ==
  LET new == { a \in as : memMap[a] = Nothing } IN
  /\ regs' = regs \union { <<session, a, memory[a]>> : a \in new }
  /\ memMap' = [a \in Addresses |-> IF a \in new THEN memory[a] ELSE memMap[a]]

(* A buffer cannot be registered that is absent, or if the engine refuses. *)
Unregistered(a, done) ==
  \/ a = Absent
  \/ /\ "Register" \in config.mayFail
     /\ a \in Addresses \ done /\ memMap[a] = Nothing

(* Ends at the k+1st buffer if that cannot be registered. *)
ProcessFrameDescriptor(f) ==
  LET roles == Buffers(f) IN
  /\ up /\ state = "RUNNING"
  /\ Accepted(f)
  /\ \E k \in 0 .. Len(roles) :
     \E quality \in IF k = Len(roles) THEN SUBSET Confidence ELSE {{}} :
       LET done == { f[roles[i]] : i \in 1 .. k } \union { f[r] : r \in quality } IN
       /\ Absent \notin done
       /\ k < Len(roles) => Unregistered(f[roles[k + 1]], done)
       /\ k = Len(roles) => \A r \in Confidence \ quality : Unregistered(f[r], done)
       /\ RegisterMemory(done)
  /\ UNCHANGED <<config, state, session, engine, current, settings, up, inits,
                 live, objects, started, orphans, memory>>

(* Without a node the application puts other memory at an address. *)
Replace(a, m) ==
  /\ ~up
  /\ memory' = [memory EXCEPT ![a] = m]
  /\ UNCHANGED <<config, node, up, inits, eva, orphans>>

Next == \/ \E o \in config.offers : Initialize(o)
        \/ Start \/ Stop \/ DeInitialize
        \/ \E f \in config.frames : ProcessFrameDescriptor(f)
        \/ \E a \in Addresses, m \in Memory : Replace(a, m)

Spec == Init /\ [][Next]_vars

-----------------------------------------------------------------------------
(* Properties *)

(***************************************************************************)
(* A node that runs has a started session with its object on it; every     *)
(* entry the engine reads was set from the configuration in force; what    *)
(* the table gives for an address is registered with this session for the  *)
(* memory that is there; and no session exists besides, except those a     *)
(* failure left.  (Start and RegisterMemory test no more than m_state and  *)
(* the address, after any failure of an earlier call.)                     *)
(***************************************************************************)
RunningNodeHolds ==
  /\ live \subseteq {session} \union orphans
  /\ up /\ state = "RUNNING" =>
       /\ session \in live \intersect objects \intersect started
       /\ engine = session
       /\ \A id \in Entries : settings[id] = current.version
       /\ \A a \in Addresses : memMap[a] # Nothing =>
            <<session, a, memory[a]>> \in regs

(* The table keeps what BufferUse lets a node keep. *)
Use == INSTANCE BufferUse WITH kept <- memMap
LetsGo == Use!Spec
=============================================================================
