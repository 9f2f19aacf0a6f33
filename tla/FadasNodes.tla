------------------------------- MODULE FadasNodes -------------------------------
(***************************************************************************)
(* The nodes on the FastADAS library, remap (RemapImpl.cpp, FadasRemap.cpp)*)
(* and voxelization (VoxelizationImpl.cpp, FadasPlr.cpp), several of them  *)
(* sharing the service of one processor.  Each node is driven by a thread  *)
(* of its own.  A call of a node is a program of steps; the service locks  *)
(* within a step, and the steps of the nodes interleave.                   *)
(***************************************************************************)
EXTENDS FadasSrv, SequencesExt

CONSTANTS
  Configs,   \* the configurations that are considered
  Nodes      \* the nodes of the process

(***************************************************************************)
(* A configuration of the model.                                           *)
(*   processor  "dsp", "gpu" or "cpu"                                      *)
(*   params     of each node its kind, the keys whose value is bad, the    *)
(*              early buffers, whether to deregister when it stops,        *)
(*              whether the map of buffers has the length, its frames      *)
(*              (buffers, inputs first) and                                *)
(*              remap: the format, the normalization, the undistortion and *)
(*                the inputs with format and tables, of which one may be   *)
(*                no tensor                                                *)
(*              voxelization: the mode, whether it works with OpenCL       *)
(*   mayFail    whether calls may fail                                     *)
(*   replaces   whether memory is replaced while no node is up             *)
(*   again      whether Initialize is called on a node that is up          *)
(*   maxInits   bound on the calls of Initialize of a node                 *)
(* The frames of a remap node have a buffer for each input and the output; *)
(* those of a voxelization node an input and two outputs.                  *)
(***************************************************************************)
IsConfig(c) ==
  /\ c.processor \in {"dsp", "gpu", "cpu"} /\ {c.mayFail, c.replaces, c.again} \subseteq BOOLEAN
  /\ \A n \in Nodes :
       LET p == c.params[n] IN
       /\ p.kind \in {"remap", "voxelization"}
       /\ {p.deregister, p.mapFits} \subseteq BOOLEAN
       /\ \A bs \in {p.early} \union p.frames :
            /\ bs \in Seq(ToSet(bs))
            /\ \A b \in ToSet(bs) : b.at \in Addresses /\ b.kind \in {"image", "tensor", "other"}
       /\ p.kind = "remap" =>
            /\ p.inputs \in Seq(ToSet(p.inputs))
            /\ \A f \in p.frames : Len(f) = Len(p.inputs) + 1
            /\ \A i \in DOMAIN p.inputs :
                 LET ts == p.inputs[i].tables
                 IN ts \in Seq(ToSet(ts)) /\ \A t \in ToSet(ts) : t.at \in Addresses
       /\ p.kind = "voxelization" =>
            /\ p.mode \in {"xyzr", "xyzrt"} /\ p.opencl \in BOOLEAN
            /\ \A f \in p.frames : Len(f) = 3

VARIABLES
  config,   \* the configuration of the model, chosen once
  srv,      \* the service of the processor
  state,    \* m_state of each node
  todo,     \* the steps that are left of the call of a node
  table,    \* m_bufferMap: the addresses a voxelization node registered
  ptrs,     \* the objects of the engine a node has pointers to
  inits,    \* calls of Initialize of each node so far
  leftover, \* history: an Initialize left something behind in the service
  memory    \* application: the memory at each address

vars == <<config, srv, state, todo, table, ptrs, inits, leftover, memory>>

Init ==
  /\ config \in Configs
  /\ srv = Down
  /\ state = [n \in Nodes |-> "INITIAL"] /\ todo = [n \in Nodes |-> <<>>]
  /\ table = [n \in Nodes |-> {}] /\ ptrs = [n \in Nodes |-> {}]
  /\ inits = [n \in Nodes |-> 0] /\ leftover = FALSE
  /\ memory \in [Addresses -> Memory]

-----------------------------------------------------------------------------
(* Configurations *)

RemapVerifiedKeys ==
  { "name", "id", "processorType", "bufferIds", "inputs", "coreId", "globalBufferIdMap" }
VoxelizationVerifiedKeys ==
  { "id", "coreId", "maxPointNum", "maxPlrNum", "maxPointNumPerPlr", "inputMode",
    "outputFeatureDimNum", "inputPcdBufferIds", "outputPlrBufferIds",
    "outputFeatureBufferIds", "processorType", "plrPointsBufferId",
    "coordToPlrIdxBufferId", "globalBufferIdMap", "Xsize", "Ysize", "Zsize" }

RemapVerifyStaticConfig(p)        == p.bad \intersect RemapVerifiedKeys = {}
VoxelizationVerifyStaticConfig(p) == p.bad \intersect VoxelizationVerifiedKeys = {}
VerifyAndSet(p) == IF p.kind = "remap" THEN RemapVerifyStaticConfig(p)
                                       ELSE VoxelizationVerifyStaticConfig(p)

RemapGetPipelineCPU ==
  { <<"uyvy", "rgb", TRUE>>, <<"uyvy", "rgb", FALSE>>, <<"rgb", "rgb", FALSE>>,
    <<"nv12", "rgb", FALSE>>, <<"nv12", "rgb", TRUE>>, <<"nv12", "bgr", FALSE>>,
    <<"nv12_ubwc", "bgr", FALSE>> }
RemapGetPipelineDSP ==
  { <<"uyvy", "rgb", TRUE>>, <<"uyvy", "rgb", FALSE>>, <<"rgb", "rgb", FALSE>>,
    <<"uyvy", "bgr", FALSE>>, <<"nv12", "rgb", FALSE>>, <<"nv12", "rgb", TRUE>>,
    <<"nv12", "bgr", FALSE>> }

HasPipeline(p, i) ==
  <<p.inputs[i].format, p.output, p.normalize>> \in
    IF config.processor = "dsp" THEN RemapGetPipelineDSP ELSE RemapGetPipelineCPU

-----------------------------------------------------------------------------
(***************************************************************************)
(* Programs.  A step has a name, an argument, and the program that takes   *)
(* the place of the rest where the step fails.                             *)
(***************************************************************************)
Instr(op, arg, instead) == [op |-> op, arg |-> arg, instead |-> instead]
Do(op, arg, instead) == <<Instr(op, arg, instead)>>
Enter(s) == Do("state", s, <<>>)

(* On the DSP the tables are registered for the call, well or not. *)
CreatRemapTable(p, i) ==
  LET tables  == p.inputs[i].tables
      tries   == [k \in DOMAIN tables |-> Instr("try", [b |-> tables[k], use |-> "in"], <<>>)]
      release == [k \in DOMAIN tables |-> Instr("dereg", tables[k].at, <<>>)]
  IN IF p.undistort /\ config.processor = "dsp"
     THEN tries \o Do("map", i, release) \o release
     ELSE Do("map", i, <<>>)

CreateRemapWorker(i) == Do("worker", i, <<>>)

(***************************************************************************)
(* The loop over the inputs: after its worker the table of an input, and   *)
(* the next one.  Nothing is undone where a step fails.  A table that is   *)
(* no tensor ends the loop, and not the call.                              *)
(***************************************************************************)
NoTensor(p) == { i \in DOMAIN p.inputs :
                   p.undistort /\ \E t \in ToSet(p.inputs[i].tables) : t.kind # "tensor" }
AfterWorker(p, i) ==
  IF i \in NoTensor(p) THEN <<>>
  ELSE CreatRemapTable(p, i) \o IF i < Len(p.inputs) THEN CreateRemapWorker(i + 1) ELSE <<>>
RemapInitialize(p) ==
  LET early == [k \in DOMAIN p.early |-> Instr("reg", [b |-> p.early[k], use |-> "inout"], <<>>)]
  IN Do("init", p, <<>>) \o Do("params", p, <<>>)
       \o (IF p.inputs = <<>> THEN <<>> ELSE CreateRemapWorker(1))
       \o Do("buffermap", p, <<>>) \o early \o Enter("READY")

(* The maps go first, nothing is deregistered. *)
RemapDeInitialize(p) ==
  Do("destroy", "map", <<>>) \o Do("destroy", "worker", <<>>)
    \o Do("deinit", p, <<>>) \o Enter("INITIAL")

(* One run for each input on the CPU and the GPU, one for all on the DSP. *)
RegisterFrame(f, inputs) ==
  [i \in DOMAIN f |->
     Instr("reg", [b |-> f[i], use |-> IF i <= inputs THEN "in" ELSE "out"], <<>>)]
RemapRunCPU(p, f) ==
  RegisterFrame(f, Len(p.inputs))
    \o [i \in DOMAIN p.inputs |->
          Instr("run", [bs |-> {f[i], f[Len(f)]}, on |-> {"map", "worker"}], <<>>)]
RemapRunDSP(p, f) ==
  RegisterFrame(f, Len(p.inputs))
    \o Do("run", [bs |-> ToSet(f), on |-> {"map", "worker"}], <<>>)
RemapRun(p, f) ==
  IF config.processor = "dsp" THEN RemapRunDSP(p, f) ELSE RemapRunCPU(p, f)

(***************************************************************************)
(* A call that fails, or a second one, leaves the node INITIAL and lets go *)
(* of its buffers; only a call that initialized the service ends it.  The  *)
(* preprocessor stays.                                                     *)
(***************************************************************************)
VoxelizationFailed == Enter("INITIAL") \o Do("release", {}, <<>>)

VoxelizationInitialize(p, again) ==
  LET undone == VoxelizationFailed \o Do("deinit", p, <<>>)
      early  == [k \in DOMAIN p.early |-> Instr("keep", [b |-> p.early[k], use |-> "out"], undone)]
  IN IF again \/ (~p.opencl /\ p.mode # "xyzr") THEN VoxelizationFailed
     ELSE Enter("INITIALIZING")
            \o Do("init", p, VoxelizationFailed)
            \o Do("create", "preproc", undone)
            \o Do("buffermap", p, undone) \o early \o Enter("READY")

VoxelizationStop(p, stuck) ==
  (IF p.deregister THEN Do("release", {}, <<>>) ELSE <<>>)
    \o IF p.deregister /\ stuck THEN <<>> ELSE Enter("READY")

VoxelizationDeInitialize(p) ==
  Do("release", {}, <<>>) \o Do("destroy", "preproc", <<>>)
    \o Do("deinit", p, <<>>) \o Enter("INITIAL")

(* The input is entered in the table, the outputs are not. *)
PointPillarRunCPU(f) ==
  RegisterFrame(f, 1) \o Do("run", [bs |-> ToSet(f), on |-> {"preproc"}], <<>>)
PointPillarRunDSP(f) == PointPillarRunCPU(f)
PointPillarRun(f) == IF config.processor = "dsp" THEN PointPillarRunDSP(f) ELSE PointPillarRunCPU(f)

(* With OpenCL the outputs have to be in the table. *)
ProcessCL(f) == Do("kernels", { b.at : b \in ToSet(f) }, <<>>)

VoxelizationProcess(p, f) ==
  Do("keep", [b |-> f[1], use |-> "in"], <<>>)
    \o IF p.opencl THEN ProcessCL(f) ELSE PointPillarRun(f)

-----------------------------------------------------------------------------
(***************************************************************************)
(* Steps.  The outcomes of a step of node n are those of the service, and  *)
(* for the objects of the engine: of one that was created the node has the *)
(* pointer.                                                                *)
(***************************************************************************)
Created(n, kind, i) ==
  LET o == <<n, kind, i, inits[n]>> IN
  {[s |-> [srv EXCEPT !.objects = @ \union {o}], ok |-> TRUE, ptr |-> {o}]}
    \union IF config.mayFail THEN {[s |-> srv, ok |-> FALSE, ptr |-> {}]} ELSE {}
NoPointer(outcomes) == { [s |-> r.s, ok |-> r.ok, ptr |-> {}] : r \in outcomes }

CanMake(n, step) ==
  LET p == config.params[n] IN
  /\ HasPipeline(p, step.arg)
  /\ step.instead # <<>> => \A t \in ToSet(p.inputs[step.arg].tables) : t.at \in srv.mapped
RemapOutcomes(n, step) ==
  CASE step.op = "params" ->
         NoPointer({IF config.params[n].output \in {"rgb", "bgr"} THEN Ok(srv) ELSE Failed(srv)})
    [] step.op \in {"worker", "map"} ->
         IF step.op = "worker" /\ config.processor = "gpu" THEN NoPointer({Ok(srv)})
         ELSE IF CanMake(n, step) THEN Created(n, step.op, step.arg)
         ELSE NoPointer({Failed(srv)})

ServiceOutcomes(n, step) ==
  LET p == config.params[n] IN
  CASE step.op = "init"   -> IF p.kind = "voxelization" /\ p.opencl THEN Either(srv, config.mayFail)
                             ELSE ServiceInit(srv, config.processor, config.mayFail)
    [] step.op = "deinit" -> IF p.kind = "voxelization" /\ p.opencl THEN {Ok(srv)}
                             ELSE ServiceDeinit(srv, config.processor, config.mayFail)
    [] step.op = "buffermap" -> {IF p.mapFits THEN Ok(srv) ELSE Failed(srv)}
    [] step.op = "dereg"  -> DeregBuf(srv, step.arg, config.mayFail)
    [] step.op = "reg"    -> RegBuf(srv, step.arg.b, step.arg.use, memory[step.arg.b.at],
                                    config.processor, config.mayFail)
    [] step.op = "try"    -> { Ok(r.s) : r \in RegBuf(srv, step.arg.b, step.arg.use,
                                 memory[step.arg.b.at], config.processor, config.mayFail) }
    [] step.op \in {"run", "kernels"} -> Either(srv, config.mayFail)

(* RegisterBuffer takes tensors only, and looks at its own table first. *)
RegisterBuffer(n, step) ==
  LET b == step.arg.b IN
  IF b.kind # "tensor" THEN {Failed(srv)}
  ELSE IF b.at \in table[n] THEN {Ok(srv)}
  ELSE IF config.params[n].opencl THEN Either(srv, config.mayFail)
  ELSE RegBuf(srv, b, step.arg.use, memory[b.at], config.processor, config.mayFail)

(* One buffer after the other; the table loses it whatever happens. *)
DeRegisterAllBuffers(n) ==
  LET step == Head(todo[n]) IN
  /\ step.op = "release"
  /\ IF table[n] = {}
     THEN UNCHANGED <<srv, table>> /\ todo' = [todo EXCEPT ![n] = Tail(@)]
     ELSE \E a \in table[n] :
            /\ table' = [table EXCEPT ![n] = @ \ {a}]
            /\ IF config.params[n].opencl THEN UNCHANGED srv
               ELSE \E r \in DeregBuf(srv, a, config.mayFail) : srv' = r.s
            /\ UNCHANGED todo
  /\ UNCHANGED <<state, ptrs, leftover>>

EnterState(n) ==
  LET step == Head(todo[n]) IN
  /\ step.op = "state"
  /\ state' = [state EXCEPT ![n] = step.arg]
  /\ todo' = [todo EXCEPT ![n] = Tail(@)]
  /\ UNCHANGED <<srv, table, ptrs, leftover>>

Register(n) ==
  LET step == Head(todo[n]) IN
  /\ step.op = "keep"
  /\ \E r \in RegisterBuffer(n, step) :
       /\ srv' = r.s
       /\ table' = [table EXCEPT ![n] = IF r.ok THEN @ \union {step.arg.b.at} ELSE @]
       /\ todo' = [todo EXCEPT ![n] = IF r.ok THEN Tail(@) ELSE step.instead]
  /\ UNCHANGED <<state, ptrs, leftover>>

(* DestroyMap, DestroyWorkers and DestroyPreProc keep the pointers; an     *)
(* object that cannot be destroyed is passed over.                         *)
Destroy(n) ==
  LET step == Head(todo[n])
      mine == { o \in ptrs[n] : o[2] = step.arg }
  IN /\ step.op = "destroy"
     /\ \E kept \in {{}} \union (IF config.mayFail THEN {mine} ELSE {}) :
          srv' = [srv EXCEPT !.objects = @ \ (mine \ kept)]
     /\ todo' = [todo EXCEPT ![n] = Tail(@)]
     /\ UNCHANGED <<state, table, ptrs, leftover>>

(* SetRemapParams forgets the pointers, a new preprocessor takes the place *)
(* of the old one.                                                         *)
Forget(n, step) ==
  CASE step.op = "params" -> {}
    [] step.op = "create" -> {}
    [] OTHER -> ptrs[n]

(* What a step that succeeds adds to the program. *)
After(n, step) == IF step.op = "worker" THEN AfterWorker(config.params[n], step.arg) ELSE <<>>

(* The Initialize of a remap node that fails undoes nothing. *)
Call(n) ==
  LET step == Head(todo[n]) IN
  /\ step.op \notin {"release", "state", "keep", "destroy"}
  /\ step.op = "kernels" => step.arg \subseteq table[n]
  /\ \E r \in CASE step.op \in {"params", "worker", "map"} -> RemapOutcomes(n, step)
                [] step.op = "create" -> IF config.params[n].opencl
                                         THEN NoPointer(Either(srv, config.mayFail))
                                         ELSE Created(n, "preproc", 1)
                [] OTHER -> NoPointer(ServiceOutcomes(n, step)) :
       /\ srv' = r.s
       /\ ptrs' = [ptrs EXCEPT ![n] = Forget(n, step) \union r.ptr]
       /\ todo' = [todo EXCEPT ![n] = IF r.ok THEN After(n, step) \o Tail(@) ELSE step.instead]
       /\ leftover' = (leftover \/ (~r.ok /\ config.params[n].kind = "remap" /\ state[n] = "INITIAL"))
  /\ UNCHANGED <<state, table>>

(* A buffer that is not in the table ends the execution with OpenCL. *)
ProcessCLFails(n) ==
  LET step == Head(todo[n]) IN
  /\ step.op = "kernels" /\ ~(step.arg \subseteq table[n])
  /\ todo' = [todo EXCEPT ![n] = <<>>]
  /\ UNCHANGED <<srv, state, table, ptrs, leftover>>

Step(n) ==
  /\ todo[n] # <<>>
  /\ \/ DeRegisterAllBuffers(n) \/ EnterState(n) \/ Register(n) \/ Destroy(n)
     \/ Call(n) \/ ProcessCLFails(n)
  /\ UNCHANGED <<config, inits, memory>>

-----------------------------------------------------------------------------
(* Calls *)

Begin(n, program) ==
  /\ todo[n] = <<>>
  /\ todo' = [todo EXCEPT ![n] = program]

(* Remap refuses a second call, voxelization loses what it has by one. *)
Initialize(n) ==
  LET p == config.params[n] IN
  /\ VerifyAndSet(p)
  /\ inits[n] < config.maxInits
  /\ p.kind = "remap" \/ ~config.again => state[n] = "INITIAL"
  /\ Begin(n, IF p.kind = "remap" THEN RemapInitialize(p)
              ELSE VoxelizationInitialize(p, state[n] # "INITIAL"))
  /\ inits' = [inits EXCEPT ![n] = @ + 1]
  /\ leftover' = (leftover \/ state[n] # "INITIAL")
  /\ UNCHANGED <<config, srv, state, table, ptrs, memory>>

Start(n) ==
  /\ todo[n] = <<>> /\ state[n] = "READY"
  /\ state' = [state EXCEPT ![n] = "RUNNING"]
  /\ UNCHANGED <<config, srv, todo, table, ptrs, inits, leftover, memory>>

RemapStop(n) ==
  /\ config.params[n].kind = "remap"
  /\ todo[n] = <<>> /\ state[n] = "RUNNING"
  /\ state' = [state EXCEPT ![n] = "READY"]
  /\ UNCHANGED <<config, srv, todo, table, ptrs, inits, leftover, memory>>

(* Whether one of the buffers cannot be released with OpenCL. *)
Stuck(n) == IF config.params[n].opencl /\ config.mayFail /\ table[n] # {} THEN BOOLEAN ELSE {FALSE}

VoxelizationStopCall(n) ==
  /\ config.params[n].kind = "voxelization" /\ state[n] = "RUNNING"
  /\ \E stuck \in Stuck(n) : Begin(n, VoxelizationStop(config.params[n], stuck))
  /\ UNCHANGED <<config, srv, state, table, ptrs, inits, leftover, memory>>

DeInitialize(n) ==
  LET p == config.params[n] IN
  /\ state[n] = "READY"
  /\ Begin(n, IF p.kind = "remap" THEN RemapDeInitialize(p)
              ELSE VoxelizationDeInitialize(p))
  /\ UNCHANGED <<config, srv, state, table, ptrs, inits, leftover, memory>>

ProcessFrameDescriptor(n, f) ==
  LET p == config.params[n] IN
  /\ state[n] = "RUNNING"
  /\ Begin(n, IF p.kind = "remap" THEN RemapRun(p, f) ELSE VoxelizationProcess(p, f))
  /\ UNCHANGED <<config, srv, state, table, ptrs, inits, leftover, memory>>

(* While no node is up the application puts other memory at an address;    *)
(* not so after an Initialize that has left something behind.              *)
Replace(a, m) ==
  /\ config.replaces /\ ~leftover
  /\ \A n \in Nodes : state[n] = "INITIAL" /\ todo[n] = <<>>
  /\ memory' = [memory EXCEPT ![a] = m]
  /\ UNCHANGED <<config, srv, state, todo, table, ptrs, inits, leftover>>

Next == \/ \E n \in Nodes : \/ Step(n) \/ Initialize(n) \/ Start(n) \/ RemapStop(n)
                            \/ VoxelizationStopCall(n) \/ DeInitialize(n)
                            \/ \E f \in config.params[n].frames : ProcessFrameDescriptor(n, f)
        \/ \E a \in Addresses, m \in Memory : Replace(a, m)

Spec == Init /\ [][Next]_vars

-----------------------------------------------------------------------------
(* Properties *)

(***************************************************************************)
(* Nodes that do not get in each other's way: a remap node has an input,   *)
(* and on the GPU its tables are tensors; no node deregisters a buffer of  *)
(* the frames or of the table of another.                                  *)
(***************************************************************************)
At(bs) == { b.at : b \in ToSet(bs) }
FrameAddrs(p) == UNION { At(f) : f \in p.frames }
KeepAddrs(p) ==
  IF p.kind = "voxelization" THEN At(p.early) \union { f[1].at : f \in p.frames } ELSE {}
DropsOf(c, p) ==
  IF p.kind = "voxelization" THEN IF p.opencl THEN {} ELSE KeepAddrs(p)
  ELSE IF p.undistort /\ c.processor = "dsp"
       THEN UNION { At(p.inputs[i].tables) : i \in DOMAIN p.inputs } ELSE {}

HasInputs(c, n) ==
  LET p == c.params[n] IN
  p.kind = "remap" => p.inputs # <<>> /\ (c.processor = "gpu" => NoTensor(p) = {})

IsApart(c) ==
  \A n \in Nodes :
    /\ HasInputs(c, n)
    /\ \A m \in Nodes \ {n} :
         DropsOf(c, c.params[m]) \intersect
           (FrameAddrs(c.params[n]) \union KeepAddrs(c.params[n])) = {}

(* The buffers that are in the map, and mapped for the DSP, or registered  *)
(* with more than some images of a failed batch, with the memory that is   *)
(* at their address.                                                       *)
Usable(a) == /\ srv.memMap[a].memory = memory[a]
             /\ config.processor = "dsp" => a \in srv.mapped
             /\ config.processor # "dsp" =>
                  \E r \in srv.regs : r.at = a /\ r.memory = memory[a] /\ r.part # "some"

(* The objects a run of the node is made with. *)
Objects(n, kinds) == { o \in ptrs[n] : o[2] \in kinds }

(***************************************************************************)
(* Whenever a node has the engine work, the library is initialized, the    *)
(* buffers of the frame are usable, and the objects the node created exist *)
(* - whatever the other nodes of the process do in between - in the        *)
(* configurations with IsApart.  (RegBuf and the run are separate steps;   *)
(* the count of the users keeps the library up.)                           *)
(***************************************************************************)
RunsRegistered ==
  \A n \in Nodes :
    todo[n] # <<>> /\ Head(todo[n]).op = "run" =>
      /\ srv.initialized
      /\ \A b \in Head(todo[n]).arg.bs : Usable(b.at)
      /\ Objects(n, Head(todo[n]).arg.on) # {}
      /\ Objects(n, Head(todo[n]).arg.on) \subseteq srv.objects

(* The service keeps what BufferUse lets a node keep. *)
Kept == [a \in Addresses |-> srv.memMap[a].memory]
Use == INSTANCE BufferUse WITH kept <- Kept
LetsGo == Use!Spec

(***************************************************************************)
(* docs/remap.md:67: deRegisterAllBuffersWhenStop is the "Flag to          *)
(* deregister all buffers when stopped".  Of the frames of a node with the *)
(* flag nothing is in the map while it is READY, that is before it has run *)
(* and after it has stopped, but the buffers it registered early.          *)
(***************************************************************************)
StoppedNodeLetsGo ==
  \A n \in Nodes :
    LET p == config.params[n] IN
    state[n] = "READY" /\ todo[n] = <<>> /\ p.deregister =>
      \A f \in p.frames : \A b \in ToSet(f) \ ToSet(p.early) :
        srv.memMap[b.at] = NoEntry
=============================================================================
