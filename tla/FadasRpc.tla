-------------------------------- MODULE FadasRpc --------------------------------
(***************************************************************************)
(* The remote calls of the FastADAS library, from the client on the CPU    *)
(* (FadasIfaceSafe.cpp) to the DSP (FadasIfaceCore.cpp).  Each side makes  *)
(* a list of the arguments and a checksum over it; what does not agree is  *)
(* not executed.  The channel may change one argument of a request, or     *)
(* what comes back, or lose either.  The checksum is the values in their   *)
(* order: where they differ, the checksums differ.                         *)
(***************************************************************************)
EXTENDS Naturals, Sequences, SequencesExt, FiniteSets

CONSTANTS
  Fds,        \* numbers of the descriptors of buffers
  MaxMade,    \* bound on the objects the DSP makes
  MaxFaults   \* bound on the faults of the channel and the failures

VARIABLES
  rpc,      \* the call in progress, or the last one
  dsp,      \* DSP: its objects, what it has mapped and registered
  made,     \* DSP: objects made so far
  handles,  \* client: the objects it was given and has not given back
  faults    \* faults and failures so far

vars == <<rpc, dsp, made, handles, faults>>

(* A value has a kind and a number; Absent is an array that is null or empty. *)
Value(kind) == <<kind, 0>>
Absent      == Value("absent")

-----------------------------------------------------------------------------
(* The arguments each call of the client makes its checksum over *)

FadasVersion_Sent           == << "versionLen" >>
CreateMapFromMap_Sent       == << "camWidth", "camHeight", "mapWidth", "mapHeight", "mapXFd",
                                  "mapYFd", "mapStride", "imgFormat", "borderConst" >>
CreateMapNoUndistortion_Sent == << "camWidth", "camHeight", "mapWidth", "mapHeight",
                                  "imgFormat", "borderConst" >>
DestroyMap_Sent             == << "mapPtr" >>
CreateWorkers_Sent          == << "nThreads", "imgFormat" >>
DestroyWorkers_Sent         == << "worker_ptr" >>
RunMT_Sent                  == << "workerPtrs", "workerPtrsLen", "mapPtrs", "mapPtrsLen",
                                  "srcFds", "srcFdsLen", "offsets", "offsetsLen", "srcProps",
                                  "srcPropsLen", "dstFd", "dstLen", "dstProps", "dstROIs",
                                  "dstROIsLen", "normlz", "normlzLen" >>
mmap_Sent                   == << "bufFd", "bufSize" >>
munmap_Sent                 == << "bufFd", "bufSize" >>
RegBuf_Sent                 == << "bufType", "bufFd", "bufSize", "bufOffset", "batchSize" >>
DeregBuf_Sent               == << "bufFd", "bufSize", "bufOffset", "batchSize" >>
PointPillarCreate_Sent      == << "pPlrSize", "pMinRange", "pMaxRange", "maxNumInPts",
                                  "numInFeatureDim", "maxNumPlrs", "maxNumPtsPerPlr",
                                  "numOutFeatureDim" >>
PointPillarRun_Sent         == << "hPreProc", "numPts", "fdInPts", "inPtsOffset", "inPtsSize",
                                  "fdOutPlrs", "outPlrsOffset", "outPlrsSize", "fdOutFeature",
                                  "outFeatureOffset", "outFeatureSize" >>
PointPillarDestroy_Sent     == << "hPreProc" >>
ExtractBBoxCreate_Sent      == << "maxNumInPts", "numInFeatureDim", "maxNumDetOut", "numClass",
                                  "pGrid", "threshScore", "threshIOU", "minCentreX",
                                  "minCentreY", "minCentreZ", "maxCentreX", "maxCentreY",
                                  "maxCentreZ", "labelSelect", "labelSelectLen",
                                  "maxNumFilter" >>
ExtractBBoxRun_Sent         == << "hPostProc", "numPts", "fds", "fdsLen", "offsets",
                                  "offsetsLen", "sizes", "sizesLen", "bMapPtsToBBox",
                                  "bBBoxFilter" >>
ExtractBBoxDestroy_Sent     == << "hPostProc" >>

Sent == [ FadasInit |-> <<>>, FadasDeInit |-> <<>>, FadasVersion |-> FadasVersion_Sent,
          CreateMapFromMap |-> CreateMapFromMap_Sent,
          CreateMapNoUndistortion |-> CreateMapNoUndistortion_Sent,
          DestroyMap |-> DestroyMap_Sent, CreateWorkers |-> CreateWorkers_Sent,
          DestroyWorkers |-> DestroyWorkers_Sent, RunMT |-> RunMT_Sent,
          mmap |-> mmap_Sent, munmap |-> munmap_Sent,
          RegBuf |-> RegBuf_Sent, DeregBuf |-> DeregBuf_Sent,
          PointPillarCreate |-> PointPillarCreate_Sent,
          PointPillarRun |-> PointPillarRun_Sent,
          PointPillarDestroy |-> PointPillarDestroy_Sent,
          ExtractBBoxCreate |-> ExtractBBoxCreate_Sent,
          ExtractBBoxRun |-> ExtractBBoxRun_Sent,
          ExtractBBoxDestroy |-> ExtractBBoxDestroy_Sent ]
Calls == DOMAIN Sent

-----------------------------------------------------------------------------
(* The arguments the DSP makes its checksum over, call by call *)

FadasVersion_Checked           == << "versionLen" >>
CreateMapFromMap_Checked       == << "camWidth", "camHeight", "mapWidth", "mapHeight", "mapXFd",
                                     "mapYFd", "mapStride", "imgFormat", "borderConst" >>
CreateMapNoUndistortion_Checked == << "camWidth", "camHeight", "mapWidth", "mapHeight",
                                     "imgFormat", "borderConst" >>
DestroyMap_Checked             == << "mapPtr" >>
CreateWorkers_Checked          == << "nThreads", "imgFormat" >>
DestroyWorkers_Checked         == << "worker_ptr" >>

\* Mutant: the parameters of the normalization are not in the list.
RunMT_Checked_NoNormlz         == << "workerPtrs", "workerPtrsLen", "mapPtrs", "mapPtrsLen",
                                     "srcFds", "srcFdsLen", "offsets", "offsetsLen",
                                     "srcProps", "srcPropsLen", "dstFd", "dstLen", "dstProps",
                                     "dstROIs", "dstROIsLen", "normlzLen" >>

RunMT_Checked                  == << "workerPtrs", "workerPtrsLen", "mapPtrs", "mapPtrsLen",
                                     "srcFds", "srcFdsLen", "offsets", "offsetsLen",
                                     "srcProps", "srcPropsLen", "dstFd", "dstLen", "dstProps",
                                     "dstROIs", "dstROIsLen", "normlz", "normlzLen" >>
mmap_Checked                   == << "bufFd", "bufSize" >>
munmap_Checked                 == << "bufFd", "bufSize" >>
RegBuf_Checked                 == << "bufType", "bufFd", "bufSize", "bufOffset", "batchSize" >>
DeregBuf_Checked               == << "bufFd", "bufSize", "bufOffset", "batchSize" >>
PointPillarCreate_Checked      == << "pPlrSize", "pMinRange", "pMaxRange", "maxNumInPts",
                                     "numInFeatureDim", "maxNumPlrs", "maxNumPtsPerPlr",
                                     "numOutFeatureDim" >>
PointPillarRun_Checked         == << "hPreProc", "numPts", "fdInPts", "inPtsOffset",
                                     "inPtsSize", "fdOutPlrs", "outPlrsOffset", "outPlrsSize",
                                     "fdOutFeature", "outFeatureOffset", "outFeatureSize" >>
PointPillarDestroy_Checked     == << "hPreProc" >>
ExtractBBoxCreate_Checked      == << "maxNumInPts", "numInFeatureDim", "maxNumDetOut",
                                     "numClass", "pGrid", "threshScore", "threshIOU",
                                     "minCentreX", "minCentreY", "minCentreZ", "maxCentreX",
                                     "maxCentreY", "maxCentreZ", "labelSelect",
                                     "labelSelectLen", "maxNumFilter" >>
ExtractBBoxRun_Checked         == << "hPostProc", "numPts", "fds", "fdsLen", "offsets",
                                     "offsetsLen", "sizes", "sizesLen", "bMapPtsToBBox",
                                     "bBBoxFilter" >>
ExtractBBoxDestroy_Checked     == << "hPostProc" >>

Checked == [ FadasInit |-> <<>>, FadasDeInit |-> <<>>, FadasVersion |-> FadasVersion_Checked,
             CreateMapFromMap |-> CreateMapFromMap_Checked,
             CreateMapNoUndistortion |-> CreateMapNoUndistortion_Checked,
             DestroyMap |-> DestroyMap_Checked, CreateWorkers |-> CreateWorkers_Checked,
             DestroyWorkers |-> DestroyWorkers_Checked, RunMT |-> RunMT_Checked,
             mmap |-> mmap_Checked, munmap |-> munmap_Checked,
             RegBuf |-> RegBuf_Checked, DeregBuf |-> DeregBuf_Checked,
             PointPillarCreate |-> PointPillarCreate_Checked,
             PointPillarRun |-> PointPillarRun_Checked,
             PointPillarDestroy |-> PointPillarDestroy_Checked,
             ExtractBBoxCreate |-> ExtractBBoxCreate_Checked,
             ExtractBBoxRun |-> ExtractBBoxRun_Checked,
             ExtractBBoxDestroy |-> ExtractBBoxDestroy_Checked ]

(***************************************************************************)
(* The values of the arguments in their order.  An array that is absent is *)
(* in neither list.                                                        *)
(***************************************************************************)
crc32(list, args) ==
  LET listed   == { i \in DOMAIN list : args[list[i]] # Absent }
      Place(i) == Cardinality({ j \in listed : j <= i })
  IN { <<Place(i), args[list[i]]>> : i \in listed }

-----------------------------------------------------------------------------
(***************************************************************************)
(* What the DSP does with a call it accepts, on its state d, with the      *)
(* arguments g: the state afterwards, whether it succeeded, what it gives  *)
(* back.  A call of the library may always fail.                           *)
(***************************************************************************)
Answer(d, ok, out) == [d |-> d, ok |-> ok, out |-> out]
Plain(d)           == Answer(d, TRUE, Value("done"))
Refused(d)         == Answer(d, FALSE, Value("none"))
Create(d, kind)    == LET o == <<kind, made + 1>>
                      IN {Answer([d EXCEPT !.objects = @ \union {o}], TRUE, o), Refused(d)}
Without(d, o)      == [d EXCEPT !.objects = @ \ {o}]
GetBufPtr(d, fd)   == fd \in d.mapped

CreateMapFromMap_Done(d, g)        == Create(d, "map")
CreateMapNoUndistortion_Done(d, g) == Create(d, "map")
DestroyMap_Done(d, g)              == {Plain(Without(d, g.mapPtr))}
CreateWorkers_Done(d, g)           == Create(d, "worker")
DestroyWorkers_Done(d, g)          == {Plain(Without(d, g.worker_ptr))}

RunMT_Done(d, g) ==
  IF GetBufPtr(d, g.dstFd) /\ GetBufPtr(d, g.srcFds) THEN {Plain(d), Refused(d)}
                                                     ELSE {Refused(d)}

mmap_Done(d, g) ==
  IF GetBufPtr(d, g.bufFd) THEN {Refused(d)}
  ELSE {Plain([d EXCEPT !.mapped = @ \union {g.bufFd}]), Refused(d)}

(* The registrations are not looked at. *)
munmap_Done(d, g) ==
  IF GetBufPtr(d, g.bufFd) THEN {Plain([d EXCEPT !.mapped = @ \ {g.bufFd}]), Refused(d)}
                           ELSE {Refused(d)}

(* Of a batch that fails the first parts stay as they are by then. *)
RegBuf_Done(d, g) ==
  IF GetBufPtr(d, g.bufFd)
  THEN LET registered == [d EXCEPT !.regs = @ \union {g.bufFd}]
       IN {Plain(registered), Refused(d), Refused(registered)}
  ELSE {Refused(d)}
DeregBuf_Done(d, g) ==
  IF GetBufPtr(d, g.bufFd)
  THEN LET deregistered == [d EXCEPT !.regs = @ \ {g.bufFd}]
       IN {Plain(deregistered), Refused(d), Refused(deregistered)}
  ELSE {Refused(d)}

PointPillarCreate_Done(d, g) == Create(d, "plr")
PointPillarRun_Done(d, g) ==
  IF \A a \in {"fdInPts", "fdOutPlrs", "fdOutFeature"} : GetBufPtr(d, g[a])
  THEN {Plain(d), Refused(d)} ELSE {Refused(d)}
PointPillarDestroy_Done(d, g) == {Plain(Without(d, g.hPreProc)), Refused(d)}
ExtractBBoxCreate_Done(d, g)  == Create(d, "bbox")
ExtractBBoxRun_Done(d, g) ==
  IF GetBufPtr(d, g.fds) THEN {Plain(d), Refused(d)} ELSE {Refused(d)}
ExtractBBoxDestroy_Done(d, g) == {Plain(Without(d, g.hPostProc)), Refused(d)}

(* The status of FadasInit is a result like any other. *)
Done(fn, d, g) ==
  CASE fn = "CreateMapFromMap"        -> CreateMapFromMap_Done(d, g)
    [] fn = "CreateMapNoUndistortion" -> CreateMapNoUndistortion_Done(d, g)
    [] fn = "DestroyMap"              -> DestroyMap_Done(d, g)
    [] fn = "CreateWorkers"           -> CreateWorkers_Done(d, g)
    [] fn = "DestroyWorkers"          -> DestroyWorkers_Done(d, g)
    [] fn = "RunMT"                   -> RunMT_Done(d, g)
    [] fn = "mmap"                    -> mmap_Done(d, g)
    [] fn = "munmap"                  -> munmap_Done(d, g)
    [] fn = "RegBuf"                  -> RegBuf_Done(d, g)
    [] fn = "DeregBuf"                -> DeregBuf_Done(d, g)
    [] fn = "PointPillarCreate"       -> PointPillarCreate_Done(d, g)
    [] fn = "PointPillarRun"          -> PointPillarRun_Done(d, g)
    [] fn = "PointPillarDestroy"      -> PointPillarDestroy_Done(d, g)
    [] fn = "ExtractBBoxCreate"       -> ExtractBBoxCreate_Done(d, g)
    [] fn = "ExtractBBoxRun"          -> ExtractBBoxRun_Done(d, g)
    [] fn = "ExtractBBoxDestroy"      -> ExtractBBoxDestroy_Done(d, g)
    [] OTHER                          -> {Plain(d)}

(* The calls with a checksum over what the DSP gives back. *)
Creating  == { "CreateMapFromMap", "CreateMapNoUndistortion", "CreateWorkers",
               "PointPillarCreate", "ExtractBBoxCreate" }
Returning == Creating \union { "FadasInit", "FadasVersion", "PointPillarRun", "ExtractBBoxRun" }

-----------------------------------------------------------------------------
(* The arguments of a call that is made *)

KindOf == [ mapPtr |-> "map", mapPtrs |-> "map", worker_ptr |-> "worker",
            workerPtrs |-> "worker", hPreProc |-> "plr", hPostProc |-> "bbox" ]
FdArguments == { "mapXFd", "mapYFd", "srcFds", "dstFd", "bufFd", "fdInPts", "fdOutPlrs",
                 "fdOutFeature", "fds" }

Optional == {"normlz", "labelSelect"}

Arguments(fn) ==
  LET names == ToSet(Sent[fn])
      kinds == { KindOf[a] : a \in names \intersect DOMAIN KindOf }
  IN { [a \in names |-> CASE a \in FdArguments   -> fd[a]
                         [] a \in DOMAIN KindOf -> h[KindOf[a]]
                         [] a \in Optional      -> opt
                         [] OTHER               -> Value("plain")] :
         fd \in [names \intersect FdArguments -> {"fd"} \X Fds],
         h \in { f \in [kinds -> handles] : \A k \in kinds : f[k][1] = k },
         opt \in IF names \intersect Optional = {} THEN {Absent} ELSE {Value("plain"), Absent} }

(* The channel changes at most one argument. *)
Transferred(args) ==
  {args} \union IF faults = MaxFaults THEN {}
                ELSE { [args EXCEPT ![a] = Value("changed")] : a \in DOMAIN args }

Faulty == faults < MaxFaults /\ faults' = faults + 1

NoCall == [phase |-> "idle", fn |-> "FadasInit", args |-> <<>>, got |-> <<>>, crc |-> {},
           given |-> Value("none"), out |-> Value("none"), executed |-> FALSE, ok |-> FALSE, ret |-> "none"]

Init ==
  /\ rpc = NoCall /\ made = 0 /\ faults = 0 /\ handles = {}
  /\ dsp = [objects |-> {}, mapped |-> {}, regs |-> {}]

-----------------------------------------------------------------------------
(***************************************************************************)
(* The client makes the checksum and sends the call.  An object it gives   *)
(* back it does not use again, whatever becomes of the call.               *)
(***************************************************************************)
Call(fn, args) ==
  /\ rpc.phase = "idle"
  /\ fn \in Creating => made < MaxMade
  /\ handles' = IF fn \in {"DestroyMap", "DestroyWorkers", "PointPillarDestroy",
                            "ExtractBBoxDestroy"}
                THEN handles \ { args[a] : a \in DOMAIN args } ELSE handles
  /\ \/ \E got \in Transferred(args) :
          /\ rpc' = [NoCall EXCEPT !.phase = "sent", !.fn = fn, !.args = args, !.got = got,
                                   !.crc = crc32(Sent[fn], args)]
          /\ faults' = IF got = args THEN faults ELSE faults + 1
     \/ /\ Faulty   \* the checksum cannot be made
        /\ rpc' = [NoCall EXCEPT !.phase = "returned", !.fn = fn, !.args = args, !.got = args, !.ret = "EFAILED"]
  /\ UNCHANGED <<dsp, made>>

(* For RegBuf the client does not look at the answer. *)
Reported(ret) == IF rpc.fn = "RegBuf" THEN "SUCCESS" ELSE ret

(* The request is lost. *)
Lost ==
  /\ rpc.phase = "sent" /\ Faulty
  /\ rpc' = [rpc EXCEPT !.phase = "returned", !.ret = Reported("EFAILED")]
  /\ UNCHANGED <<dsp, made, handles>>

(* What the DSP makes of the arguments is what the client made. *)
Accepts == crc32(Checked[rpc.fn], rpc.got) = rpc.crc

Refuse ==
  /\ rpc.phase = "sent" /\ ~Accepts
  /\ rpc' = [rpc EXCEPT !.phase = "answered", !.ret = "EBADPARM"]
  /\ UNCHANGED <<dsp, made, handles, faults>>

(* A failure counts as a fault, but where a buffer is not mapped or mapped *)
(* already.                                                                *)
Execute ==
  /\ rpc.phase = "sent" /\ Accepts
  /\ \E r \in Done(rpc.fn, dsp, rpc.got) :
       /\ IF r.ok \/ \A q \in Done(rpc.fn, dsp, rpc.got) : ~q.ok
          THEN UNCHANGED faults ELSE Faulty
       /\ dsp' = r.d
       /\ made' = IF rpc.fn \in Creating /\ r.ok THEN made + 1 ELSE made
       /\ rpc' = [rpc EXCEPT !.phase = "answered", !.executed = TRUE, !.ok = r.ok,
                             !.given = r.out, !.ret = IF r.ok THEN "SUCCESS" ELSE "EFAILED"]
  /\ UNCHANGED handles

(* The checksum over the result cannot be made: the object stays. *)
NoAnswer ==
  /\ rpc.phase = "answered" /\ rpc.fn \in Returning /\ rpc.ret = "SUCCESS" /\ Faulty
  /\ rpc' = [rpc EXCEPT !.phase = "returned", !.ret = "EFAILED"]
  /\ UNCHANGED <<dsp, made, handles>>

(* The client takes what comes back, if it is what the DSP gave.           *)
Return ==
  /\ rpc.phase = "answered"
  /\ \/ /\ rpc' = [rpc EXCEPT !.phase = "returned", !.out = rpc.given, !.ret = Reported(rpc.ret)]
        /\ handles' = IF rpc.ret = "SUCCESS" /\ rpc.fn \in Creating
                      THEN handles \union {rpc.given} ELSE handles
        /\ UNCHANGED faults
     \/ /\ Faulty   \* the answer is changed, or lost
        /\ rpc.fn \in Returning \/ rpc.ret = "SUCCESS"
        /\ rpc' = [rpc EXCEPT !.phase = "returned", !.ret = Reported("EFAILED")]
        /\ UNCHANGED handles
  /\ UNCHANGED <<dsp, made>>

(* The caller goes on. *)
Leave ==
  /\ rpc.phase = "returned"
  /\ rpc' = NoCall
  /\ UNCHANGED <<dsp, made, handles, faults>>

Next == \/ \E fn \in Calls : \E args \in Arguments(fn) : Call(fn, args)
        \/ Lost \/ Refuse \/ Execute \/ NoAnswer \/ Return \/ Leave

Spec == Init /\ [][Next]_vars

-----------------------------------------------------------------------------
(***************************************************************************)
(* A call is executed with the arguments the client meant or not at all,   *)
(* and is refused only where they were changed on the way; success is      *)
(* reported of what the DSP did, but by RegBuf; the client's objects exist *)
(* on the DSP, and without a fault the DSP has no others.  (The lists of   *)
(* both sides agree, call by call.)                                        *)
(***************************************************************************)
CallsArriveWhole ==
  /\ rpc.executed => rpc.got = rpc.args
  /\ rpc.ret = "EBADPARM" => rpc.got # rpc.args
  /\ rpc.phase = "returned" /\ rpc.ret = "SUCCESS" /\ rpc.fn # "RegBuf" =>
       rpc.executed /\ rpc.ok /\ rpc.out = rpc.given
  /\ handles \subseteq dsp.objects
  /\ rpc.phase = "returned" /\ faults = 0 => handles = dsp.objects
=============================================================================
