-------------------------------- MODULE Services --------------------------------
(***************************************************************************)
(* The libraries and services under the nodes, and the nodes that are      *)
(* models of their own with them.  The parts have nothing in common; a     *)
(* behaviour is one of a single part, the others stay as they are at the   *)
(* beginning.                                                              *)
(***************************************************************************)
EXTENDS CameraLibrary, Integers, Sequences

CONSTANTS
  Parts,          \* the parts that are considered
  EvaConfigs,     \* the configurations of the nodes on the engine for video analytics
  ClConfigs,      \* the configurations of the CL2DFlex node
  Binaries,       \* the context binaries
  MaxInits,       \* bound on the calls of Initialize with a binary
  FadasConfigs,   \* the configurations of the FastADAS nodes
  FadasNodeNames, \* the FastADAS nodes of the process
  Fds,            \* numbers of the descriptors of buffers
  MaxMade,        \* bound on the objects the DSP makes
  MaxFaults,      \* bound on the faults of the channel and the failures
  Addresses,      \* where buffers are
  Memory,         \* what memory there can be at an address
  Nothing,        \* stands for what is in no table
  Used,           \* of each part the addresses at which memory is replaced
  Elsewhere       \* the memory at the other addresses

VARIABLES
  part,                                              \* the part that moves
  config, state, up, inits, memory,                  \* of more than one part
  session, engine, current, settings, memMap,        \* engine for video analytics
  live, objects, started, regs, orphans,
  params, service, pipelines, stops,                 \* OpenCL
  heap, m_graphsInfo, attempts, whole,               \* descriptions of graphs
  srv, todo, table, ptrs, leftover,                  \* FastADAS nodes
  rpc, dsp, made, handles, faults                    \* calls to the DSP

common      == <<config, state, up, inits, memory>>
evaVars     == <<session, engine, current, settings, memMap, live, objects, started, regs, orphans>>
clVars      == <<params, service, pipelines, stops>>
graphVars   == <<heap, m_graphsInfo, attempts, whole>>
fadasVars   == <<srv, todo, table, ptrs, leftover>>
rpcVars     == <<rpc, dsp, made, handles, faults>>
servicesVars == <<part, vars, common, evaVars, clVars, graphVars, fadasVars, rpcVars>>

-----------------------------------------------------------------------------
(* The parts, and what their variables are while another part moves *)

Eva    == INSTANCE EvaNode WITH Configs <- EvaConfigs
Cl     == INSTANCE CL2DFlex WITH Configs <- ClConfigs
Graphs == INSTANCE GraphInfo
Fadas  == INSTANCE FadasNodes WITH Configs <- FadasConfigs, Nodes <- FadasNodeNames
Rpc    == INSTANCE FadasRpc

EvaIdle ==
  /\ session = 0 /\ engine = 0 /\ current = <<>> /\ settings = <<>>
  /\ memMap = [a \in Addresses |-> Nothing]
  /\ live = {} /\ objects = {} /\ started = {} /\ regs = {} /\ orphans = {}

ClIdle == params = <<>> /\ service = Cl!Closed /\ pipelines = <<>> /\ stops = 0

FadasIdle ==
  srv = Fadas!Down /\ todo = <<>> /\ table = <<>> /\ ptrs = <<>> /\ leftover = FALSE

ASSUME Configurations ==
  /\ \A c \in EvaConfigs : Eva!IsConfig(c)
  /\ \A c \in ClConfigs : Cl!IsConfig(c)
  /\ \A b \in Binaries : Graphs!IsBinary(b)
  /\ \A c \in FadasConfigs : Fadas!IsConfig(c)
  /\ IsFiniteSet(FadasNodeNames)
  /\ Elsewhere \in Memory /\ Nothing \notin Memory

(* The FastADAS nodes do not get in each other's way. *)
NodesApart == \A c \in FadasConfigs : Fadas!IsApart(c)

-----------------------------------------------------------------------------
UnusedStay == \A a \in Addresses \ Used[part] : memory[a] = Elsewhere

ServicesInit ==
  /\ part \in Parts
  /\ Init /\ Graphs!Init /\ Rpc!Init
  /\ IF part = "eva" THEN Eva!Init ELSE EvaIdle
  /\ IF part = "cl" THEN Cl!Init ELSE ClIdle
  /\ IF part = "fadas" THEN Fadas!Init /\ up = FALSE ELSE FadasIdle
  /\ part \notin {"eva", "cl", "fadas"} =>
       config = <<>> /\ state = "INITIAL" /\ up = FALSE /\ inits = 0
  /\ part \notin {"eva", "cl"} => memory = [a \in Addresses |-> Elsewhere]
  /\ UnusedStay

ServicesNext ==
  \/ /\ part = "library" /\ Next
     /\ UNCHANGED <<part, common, evaVars, clVars, graphVars, fadasVars, rpcVars>>
  \/ /\ part = "eva" /\ Eva!Next
     /\ UNCHANGED <<part, vars, clVars, graphVars, fadasVars, rpcVars>>
     /\ UnusedStay'
  \/ /\ part = "cl" /\ Cl!Next
     /\ UNCHANGED <<part, vars, evaVars, graphVars, fadasVars, rpcVars>>
     /\ UnusedStay'
  \/ /\ part = "graphs" /\ Graphs!Next
     /\ UNCHANGED <<part, vars, common, evaVars, clVars, fadasVars, rpcVars>>
  \/ /\ part = "fadas" /\ Fadas!Next
     /\ UNCHANGED <<part, vars, up, evaVars, clVars, graphVars, rpcVars>>
     /\ UnusedStay'
  \/ /\ part = "rpc" /\ Rpc!Next
     /\ UNCHANGED <<part, vars, common, evaVars, clVars, graphVars, fadasVars>>

ServicesSpec == ServicesInit /\ [][ServicesNext]_servicesVars

-----------------------------------------------------------------------------
(* The properties of the parts *)

(* EvaNode: a node that runs holds what the engine reads. *)
EvaRunningNodeHolds == part = "eva" => Eva!RunningNodeHolds
(* EvaNode keeps what BufferUse lets a node keep of a buffer. *)
EvaLetsGo == Eva!LetsGo
(* CL2DFlex: a node that runs uses kernels and objects that exist. *)
ClHandlesLive == part = "cl" => Cl!HandlesLive
(* CL2DFlex keeps what BufferUse lets a node keep of a buffer. *)
ClLetsGo == Cl!LetsGo
(* GraphInfo: what is left of the copies of the graphs. *)
GraphsFreed == Graphs!GraphsFreed
(* FadasNodes: the engine works on registered buffers and live objects. *)
FadasRunsRegistered == part = "fadas" => Fadas!RunsRegistered
(* FadasSrv keeps what BufferUse lets the nodes keep of a buffer. *)
FadasLetsGo == Fadas!LetsGo
(* FadasRpc: a call arrives whole or is not executed. *)
CallsArriveWhole == Rpc!CallsArriveWhole
(* FadasNodes: a remap node with deRegisterAllBuffersWhenStop has let go   *)
(* of its buffers when it has stopped (docs/remap.md:67).                  *)
RemapStopLetsGo == part = "fadas" => Fadas!StoppedNodeLetsGo
=============================================================================
