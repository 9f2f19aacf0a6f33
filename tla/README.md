# Verification project for QCNode

QCNode is a C++ library of *nodes* - camera, video encoder and decoder, neural inference, remap,
voxelization, optical flow, depth from stereo, radar, OpenCL image scaling - behind one interface
(`include/QC/Node/Ifs`): `Initialize`, `Start`, `ProcessFrameDescriptor`, `Stop`, `DeInitialize`, an
event callback and a state.  Beside the nodes it has a memory manager that owns the buffers the nodes
exchange, and libraries that wrap the services of the system on chip.

This directory holds TLA+ models of the parts whose correctness depends on the order of things, TLC
configurations that check them on small instances, and proofs for every value of the constants.
`PROJECT.json` names, for each definition, the source lines it stands for.

    tlc -config MemoryConcurrent.cfg MCMemoryManager      # one run
    tlapm MemoryOwnershipProofs.tla                       # one proof module

Contents: [1 inventory](#1-inventory) · [2 plan](#2-plan) · [3 memory manager](#3-memory-manager) ·
[4 camera](#4-camera-node) · [5 camera library](#5-camera-library) · [6 video codec](#6-video-codec-nodes) ·
[7 QNN](#7-qnn-inference-node) · [8 services and the nodes on them](#8-services-and-the-nodes-on-them) ·
[9 what is proved](#9-what-is-proved) · [10 what is not modelled](#10-what-is-not-modelled)

## 1 Inventory

| component | source | state it keeps | operations | how it interacts | what is hard | what makes it correct | here |
|---|---|---|---|---|---|---|---|
| memory manager, pools | `Infras/Memory/ManagerLocal.cpp`, `include/QC/Infras/Memory/Pool.hpp` | registry handle → node entry; per entry the stand-alone buffers and the pools; `m_state` | Initialize, Register, Allocate/FreeBuffer, Create/DestroyPool, Allocate/PutBufferToPool, ReclaimResources, UnRegister, DeInitialize | called by every thread of the application; calls allocators | three kinds of lock, an unprotected state, lookup and commit under different locks, failures in the middle of a release loop | one owner per buffer, no double free, nothing forgotten, no index past the end, calls return | `MemoryManager` + proofs |
| memory allocators | `Infras/Memory/{Heap,DMABUFF,PMEM}Allocator.cpp`, factory | none but their configuration | Allocate, Free | called by manager and pools | half-failed releases | every allocation freed once | environment of `MemoryManager` |
| camera node | `Node/Camera/CameraImpl.cpp` | state, QCarCam handle, frame buffers, queues of free indices, request pattern | the lifecycle, ProcessFrameDescriptor (return of a frame), QCarCam callback | QCarCam thread → application callback; application threads → QCarCam | callback against Stop/DeInitialize, several threads returning frames, partial failures of Initialize | a buffer has one owner, none is lost, calls reach QCarCam in order, the pattern is kept, buffers recirculate | `Camera` + proofs |
| camera library | same file, statics | reference count, input descriptions | constructor, destructor, GetInputsInfo | shared by all cameras of the process | failed constructors | library up while a session needs it | `CameraLibrary` + proofs |
| video encoder, decoder | `Node/Video{En,De}coder`, `Library/VideoCodec` | state, `m_cmdCompleted`, buffer maps with use flags, buffer lists, reconfiguration flag | the lifecycle, ProcessFrameDescriptor, driver callback, output reconfiguration | driver thread answers commands and returns buffers; application threads submit | polling waits with timeouts against late answers, flags reset without the lock, reconfiguration on the callback's thread | no buffer submitted twice, flags tell what the driver has, state follows the session | `VideoCodec` |
| QNN inference | `Node/QNN/QnnImpl.cpp` | state, map of registered buffers; per process: reference counts of mapped buffers; ring of 8 notify parameters | the lifecycle, RegisterTensor, ProcessFrameDescriptor (sync, async), completion callback, perf | QNN thread completes executions; nodes share the mappings of a processor | two locks, a test outside the lock, keys that differ between registration and release, executions in flight at Stop | a mapping lives while a node uses it, every accepted request completes once and frees its parameter | `Qnn`, `GraphInfo` + proofs |
| FastADAS service | `Library/FadasIface/Fadas{Srv,Remap,Plr}.cpp` | per process and processor: handle, use count, map of registered buffers | Init, RegBuf, DeregBuf, Deinit, create/run/destroy | shared by remap and voxelization nodes | no count per buffer: one instance's DeregBuf unmaps another's; registrations that fail half way | library up while in use, runs on registered buffers and live objects, nothing left of replaced memory | `FadasSrv`, `FadasNodes` |
| FastADAS DSP interface | `FadasIfaceSafe.cpp` (client), `src/FadasIfaceCore.cpp` (DSP), generated stubs | DSP: objects, mappings, registrations | one function per call on either side, with checksums over arguments and results | remote procedure calls | argument lists written twice; damaged or lost messages; objects whose handle is lost | a call arrives whole or is not executed | `FadasRpc` |
| remap, voxelization | `Node/Remap`, `Node/Voxelization` | state; table of registered buffers | the lifecycle, ProcessFrameDescriptor | FastADAS, or OpenCL for voxelization on the GPU | failed or repeated calls that leave state and service in disagreement | as for the service | `FadasNodes` |
| optical flow, depth from stereo | `Node/OpticalFlow`, `Node/DepthFromStereo` | state, session and object of the engine for video analytics (EVA), configuration map, table of registered buffers | the lifecycle, ProcessFrameDescriptor | the engine | READY before the object exists; entries by address | a running node holds a started session, current settings, current buffers | `EvaNode` + proofs |
| CL2DFlex | `Node/CL2DFlex`, `pipeline/` | state, configuration, one pipeline per input | the lifecycle, ProcessFrameDescriptor | its OpenCL service | objects that pipelines keep against a release of all | kernels and objects in use exist and are current | `CL2DFlex` + proofs |
| OpenCL service | `Library/OpenclIface` | maps of kernels, buffers, images, planes | registration, kernels, release | one instance per node | entries by address | what is in a table exists | `OpenclSrv` |
| radar | `Node/Radar`, `Library/RadarIface` | state, a device file | the lifecycle, ProcessFrameDescriptor | a driver | - | state matches the file | left out |
| node base, factory, frame descriptors | `Node/Base`, `include/QC/Node/NodeFrameDescriptor*.hpp` | name, id, logger; registry; pool of frame descriptors | create, Get/Set/Clear | nodes hand descriptors to callbacks | reuse of a descriptor that a callback still reads | - | left out |
| data tree | `Node/Base/DataTree.cpp` | a JSON value | Get/Set/Load/Dump | configuration of every node | keys that run through scalars and arrays | typed Get after Set | left out |
| node trace, logger | `Infras/NodeTrace`, `Common/Logger*.cpp` | a file; a default logger | open, write, close | all nodes | initialisation race | one file, whole records | left out |
| shared ring (samples) | `tests/sample/Library/SharedRing` | rings in shared memory, semaphores | publish, subscribe, release | several processes | a crashed subscriber, ring overrun | a slot is reused only when nobody reads it | left out (sample code) |
| simulation node; samples, tests, scripts | - | - | - | - | a test double; tools | - | left out |

The interactions that are not a simple call: **callbacks** (QCarCam, the codec driver and QNN each run
one on a thread of their own, and take no lock of the node's state), **shared statics** (camera
reference count; QNN's and FastADAS' maps of mapped buffers), and **shared buffers** (a frame buffer
belongs to QCarCam, the node's queue, the application or a consumer, and nothing in the types says to
whom).  `m_state` is a plain member in every node: read by callbacks, written by the lifecycle calls.

The hazards these give rise to are listed in `PROJECT.json`, each at its line with the properties that
cover it.

## 2 Plan

Order: what every user depends on first, then the nodes with threads of their own, then the nodes that
share state in the process, then the rest.

1. `MemoryManager` (done) - all methods; its invariants proved.
2. `Camera`, `CameraLibrary` (done) - all safety properties of both proved.
3. `VideoCodec` (done) - encoder, decoder and their driver client; types, answers and state proved.
4. `Qnn`, `GraphInfo` (done) - registration, notify parameters, asynchronous execution, lifecycle, and
   the copies of the graph descriptions; their safety properties proved.
5. `FadasSrv`, `FadasNodes`, `FadasRpc` (done) - the shared service, the two nodes on it, and the calls
   to the DSP.
6. `EvaNode`, `OpenclSrv`, `CL2DFlex` (done) - the other accelerator nodes.
7. `BufferUse` (done) - the abstract specification of what a node may keep of a buffer.  `EvaNode` and
   `CL2DFlex` and `FadasNodes` implement it (proved).
8. `DeviceBuffers`: `FadasSrv` composed with `Qnn`, which map the same buffers on the same processor;
   a buffer ledger (free → owned by one → free) that `MemoryManager` implements through `Owned`; radar.

Theorems: done are every invariant of the memory manager, the library count, `EvaNode` and `CL2DFlex` as
implementations of `BufferUse`, what their running nodes hold, the copies of `GraphInfo`, every safety
property of `Qnn`, `Camera` and `VideoCodec`, that the calls of `FadasRpc` arrive whole, and both
properties of `FadasNodes`.  With that every safety property a passing run checks is stated by a theorem;
liveness stays with TLC.  Runs stay few: one per question, several configurations in one run.

## 3 Memory manager

### Model

`MemoryManager` is `QC::Memory::ManagerLocal` with the `Pool` objects it creates, called by `Threads`.
`th[t]` is the call thread `t` is in: its program point and local variables.  Each method is a lookup
under `m_handle2NodeIdLock` (`AllocateBuffer_Lookup`), which copies the node index out, and a commit
under the lock of that entry (`AllocateBuffer_Commit`); between the two any other thread may do
anything.  `ReclaimResources` (`Reclaim_*`) loops over copies of the node's buffers and pools and calls
the public release methods, which look the handle up again.  `m_state` is unprotected: methods that
read it on entry and store it on exit keep the old value in `th[t].saved`.

| variable | code |
|---|---|
| `handleToNodeId` | `m_handleToNodeIdInVector` |
| `numOfNodes`, `numEntries` | `m_config.numOfNodes`; the size of `m_pools` and `m_allocations`, which differ after a repeated Initialize |
| `allocationSet`, `poolMap`, `freeObjects`, `allocatedObjects`, `poolCount` | per entry: `allocationSet`, `poolMap`, the pools' `m_freeObjects` and `m_allocatedObjects`, `poolSequenceCounter` |
| `live`, `freeFailed`, `lost` | history: what the allocators have out; whose Free failed; what the manager dropped |
| `fault` | undefined behaviour has happened: an index past the end, or the registry changed while DeInitialize iterates over it |

Abstracted: buffers are model values (a descriptor with every field `operator<` compares); sizes,
alignment and allocator kinds are an arbitrary refusal; lists of a pool are sets; a random number of a
handle is a member of `Rnd`.  The pool counter keeps its width as `PoolCounterModulus` (256 in the code).

### Runs

| run | instance | shows |
|---|---|---|
| memory_sequential | 1 thread, 2 nodes, 2 buffers, pools of ≤ 1 element, modulus 2; `FairSpec` | `TypeOK`; `UnregisteredOwnsNothing`; `PoolsReachable`; `ErrorSurvivesCalls`: no step of a method but DeInitialize loses the error state, whatever fails; `CallsReturn`: the release loops end whatever fails |
| memory_concurrent | 2 threads, 1 node, 1 entry, 1 buffer, modulus 3, no rule for the clients | `OwnershipExclusive`, `OwnedIsLive`, `Accounted` with lifecycle calls racing the rest |
| memory_disciplined | 2 threads, 2 nodes, 1 buffer, empty pools; `LifecycleExclusive`, `UnregisterFirst` | `NoUndefinedAccess`, `RegistryInjective` for clients that keep to the interface |

`MaxEntries` bounds how often Initialize can append entries (a second Initialize on top of the first is left to
memory_sequential and to the proofs of the ownership properties); a modulus of 2 lets the pool counter
wrap, which 256 would not within reach of TLC, and with 3 the node is not yet full when a number comes round
to a pool that still exists (`CreatePool_Collide`).  Two nodes are enough for one entry to take a buffer
from another, two threads for every lookup-commit race (a race needs one thread between its two
locks and another that changes the entry).  Fairness: a thread inside a method is scheduled again
(`WF_vars(Continue(t))`), which any operating system gives; nothing makes a client call.

### What the model shows of the code besides

* DeInitialize leaves the handles in the registry (`ManagerLocal.cpp:105`); after the next Initialize
  they name entries again.
* A method that races DeInitialize indexes past the end of `m_allocations` or `m_pools` (:116); the
  properties about ownership hold up to that point, and `NoUndefinedAccess` needs the two rules.
* A refused call of an uninitialised manager stores its old state over another's (:755); a successful
  UnRegister stores READY after it has released the registry (:284), over what another call has stored.
* A failing Free makes the manager's state ERROR only when it fails with QC_STATUS_FAIL (:727).
* CreatePool between the lookup and the commit of an UnRegister leaves a pool no handle reaches (:321);
  `PoolsReachable` is therefore a property of one thread, for which it is proved.
* `Pool::Init` failing with QC_STATUS_FAIL leaks its elements (:393), `~Pool` ignores the result of Free
  (:401), also for a pool whose Init was refused, and DestroyPool destroys pools whose elements are still with the client (:463).  `Accounted` names
  exactly these places: everything else is accounted for.

## 4 Camera node

### Model

`Camera` has the application thread `app` (lifecycle calls), `Workers` (threads that return frames with
`ProcessFrameDescriptor`), the QCarCam thread `cb` and QCarCam itself (`session`, `owned`).  Only
`m_freeBufIdxQueue` is locked in the code; every other access to a member, and every call of QCarCam,
is one step.  A frame buffer is `<<stream, index>>`; it is with QCarCam (`owned`), in the callback
(`cb.frames`), with the application (`held`), in a worker's call, or in a queue of free indices.

Of QCarCam the model assumes: Stop and Close wait for the callback in progress and end all captures;
in release mode Start takes every buffer; a frame is delivered only of a started session and for a
buffer QCarCam owns; Submit and Release on another session fail.  Metadata, timestamps, request ids
and parameter values are abstracted.  A configuration (`config`, chosen in Init) says which calls may
fail and whether the application is `orderly`: it calls in the documented order, and Start and
DeInitialize wait until no frame is held and no worker is in a call.

### Runs

| run | configurations | shows |
|---|---|---|
| camera | request mode with restarts; request pattern; release mode with imported buffers and every failure of Initialize; an application that calls in any order | `OneOwner`, `NoBufferLost`, `NoFreedDescriptor`, `SessionProtocol`, `StateMatchesSession`, `PatternPacing` |
| camera_live | request pattern, nothing fails | `BuffersRecirculate` |
| camera_restart | request pattern, two starts | **violation** of `NoCaptureWhileHeld` |

Two streams with two buffers and one: enough for a stream with a pattern beside its reference, for a
queue longer than one, and for an index that one stream has and the other does not.  Two workers race
for the queues.  `maxStarts` bounds the calls of Start (2 where restarts matter).  Fairness
(camera_live): calls in progress and the callback go on; QCarCam, which captures in the order of the
requests, reaches every buffer again and again (strong fairness per buffer); the application returns
what it holds.  The application need not call anything.

### The finding, and other deviations

*camera_restart.*  Neither Stop nor Start empties `m_freeBufIdxQueue`, but Start submits every buffer
again (`CameraImpl.cpp:1240`).  An index that waited for its pattern before the Stop is submitted a
second time after the restart, while the application still processes its frame; docs/Camera.md:182
promises the opposite.

* `EventCallback` tests the state the wrong way round (:1782): error events reach the application only
  when the camera is *not* running (docs/Camera.md:53).
* In release mode a frame captured between QCarCamStart and `m_state = RUNNING` is dropped (:1758);
  `NoBufferLost` is stated for request mode, where the requests come after.
* DeInitialize closes the session but keeps the handle (:741), and a failed Initialize closes it again
  (:480).  `SessionProtocol` is therefore stated for configurations where Initialize fails only after it
  has opened a session: no refused configuration or Open, and no pattern on every stream, which
  Initialize rejects before Open (:229).
* When unmapping, Release or Close fails, DeInitialize returns the node to READY although the session is
  closed or no longer reserved (:780), and a Start on it is accepted.  The theorems about the session
  assume that these calls succeed (`Closes`).
* A Stop that fails leaves the node RUNNING; frames returned while it was STOPPING are refused and not
  given to QCarCam, so nobody has them.  `BuffersAreNotLost` assumes that Stop succeeds (`StopsInOrder`).
* ImportBuffers goes on after a failure: a failed mapping of one stream is masked by the next (:1357), a
  failed QCarCamGetBuffers makes the next stream index an empty vector (:1381).
* A pattern request whose submission fails is lost with the indices it had popped (:878).
* UnImportBuffers overwrites earlier failures of DeInitialize (:750).

## 5 Camera library

`CameraLibrary` has several camera objects and the statics they share: each constructor and destructor is
one step under `g_camInitMutex`.  It is a part of run services (section 8): three cameras, failing
constructors and queries; `CountsCameras` and `LibraryUpWhileUsed`, both proved as well.  Three cameras
are the first, the last and one in between.  Both are stated up to the destruction of a camera whose
constructor failed (`stray`): its destructor gives back a count it never took (:96), after which nothing
is exact.

## 6 Video codec nodes

### Model

`VideoCodec` is encoder and decoder with `VidcNodeBase` and `VidcDrvClient`: the application thread
`app`, `Workers` that submit frames, the driver (`session`, `started`, `cmds`, `queued`) and its
callback `cb`.  `map` and `used` are the keys of the buffer maps and their `bUsedFlag`; `cmdCompleted` is
`m_cmdCompleted`, which the callback writes and the waiting call polls; `list` holds the buffers Initialize
was given, which Start or the reconfiguration submits.  Each ioctl, each access to `m_state` or
`m_cmdCompleted` and each critical section is one step: `InitCmdCompleted` comes before the ioctl of
each command.  A failed PostInit makes a DeInitialize of its own, and the failed Initialize around it
another one (`app.k` is 1 and 2 in them); each depends on the state it finds, which events may have
changed.  A done message of the driver may be malformed: an output that comes back with another address
is lost to the application, and without an address or a known handle the buffer's flag stays set as well.

Of the driver the model assumes: it executes commands in order and runs one callback at a time;
`device_close` waits for the callback and gives every buffer back; LOAD and the starts are answered
at once, DRAIN and STOP_INPUT when the inputs are back, STOP_OUTPUT when the outputs are, STOP
when all are; it takes frames when the session is loaded and a port started.  A wait gives up only when
nothing can come any more (`timely`), or at any time.  A drain response and the last-flag message are one
answer.  The application submits no frame while it calls Initialize, Start or DeInitialize (its
workers may be in a call during Stop); a failed SetBuffer fails as a whole; static output buffers are
the node's from Start until it has submitted them.

### Runs

| run | configurations | shows |
|---|---|---|
| video | `Encode` (undisciplined application, driver calls fail, malformed done messages), `Late` (late answers, fatal error, failing configuration and open), `Decode` (one reconfiguration after each start, malformed done messages), `Dynamic` (two reconfigurations, dynamic output, late and fatal) | `NoDoubleSubmit`, `SlotsMatchDriver`, `StateMatchesDevice`, `AnswersAreSeen` |
| video_reconfiguration | decoder; one start with two initialisations, one initialisation with two starts | `ReconfigurationEnds` |
| video_stop_race | encoder, nothing fails | **violation** of `ErrorNeedsFailure` |

Bounds: two buffers compete for one dynamic slot (the limit is met at once), two workers for one
buffer; `maxInits`, `maxStarts` ≤ 2 reach a second life; at most two reconfigurations per start and one
fatal event.  `CHECK_DEADLOCK FALSE`: calls are bounded and an application may stop calling.
Fairness (video_reconfiguration): a call in progress, the callback and the workers run (weak); the
driver answers its oldest command and returns each buffer it has although other callbacks come
between (strong, because one callback at a time takes the thread).

### The finding, and other deviations

*video_stop_race.*  The driver callback sets `m_cmdCompleted` and then calls `EventCallback`
(`VidcDrvClient.cpp:1138`).  Stop sees the command completed, stores READY and returns OK
(`VidcNodeBase.cpp:225`); the event then finds a state that is not STOPING and stores ERROR (:757).
Without any failure the encoder is in ERROR after a successful Stop, against docs/VideoEncoder.md:348.

* DeInitialize clears neither lists nor maps: after a second Initialize the lists name each buffer
  twice and Start submits the second entry in vain.
* A dynamic map never shrinks, and flags of buffers the driver had when it was closed, or returned in
  a malformed message, stay set (`stuck`; `SlotsMatchDriver` excludes exactly these).
* START_OUTPUT_DONE stores RUNNING after a Stop as well (`VideoDecoder.cpp:563`); a second
  reconfiguration event is "ignored" (:377) and yet leads to ERROR (:555).
* A reconfiguration in mid-stream resets the flags of all output buffers and submits them again, those
  the application holds included (:391).  `NoDoubleSubmit` and `SlotsMatchDriver` are stated for a
  `SteadyStream`, with at most one reconfiguration.
* StartDriver on the callback's thread resets `m_cmdCompleted` under a waiting Start or Stop, which
  then misses its answer: `crossed` in `AnswersAreSeen` and `StateMatchesDevice`.
* ProcessFrameDescriptor fails after the input was accepted when the output is refused; AllocateBuffer
  tests `buffers[i]` where it uses `buffers[bufferIdx + i]` (`VidcNodeBase.cpp:540`).

## 7 QNN inference node

### Model

`Qnn` is several nodes on one processor.  Each has an application thread; a node with a callback
(`async`) is also called by a notification thread of QNN.  What the nodes share is `refs`
(`s_dmaMemRefMap`, under `s_lock`) and `mapped`, the mappings FastRPC has.  A tensor is a pair of a
buffer and an offset: `registered` has such pairs, `refs` counts buffers.  `handles`, `graphsInfo` and
`powerIds` are the pointers and identifiers a node holds, `livePower` and `executing` what QNN has.  The
lifecycle calls are split where another node or the callback can come between: the steps of a
registration (probe, mapping and count, `memRegister`), those of a release, the submission of a request
and its way back.  `queue` is the ring of `NotifyParamQueue` with its two free-running 16-bit indices;
`modulus` stands for 2^16 and is a multiple of the number of parameters, as 2^16 is of the power of 2
that `QnnImpl.hpp:27` asks for.  `Push` writes the slot and then the index; where `ordered` is FALSE
another thread may see these writes the other way round.  `GraphInfo` (section 8) has the copies of the
graph descriptions.

QNN is assumed to notify one request at a time per node, in any order, and to give no notification of
a request it has refused.  The application starts no second call on a node before the first has returned, and it
stops a node, or switches its profiling off, when it has all its answers.

### Run

Run qnn has one behaviour per configuration:

| configuration | what it is for |
|---|---|
| `Shared` | two nodes come to use the same buffers, one registers early; each registration step may fail |
| `Offsets` | tensors at an offset of a shared buffer |
| `Life` | every failure of Initialize with a power configuration, three times over |
| `Ring` | two parameters, modulus 4, two requests at once, submissions fail: every slot is used up and the indices wrap |
| `Reordered` | four parameters, modulus 8, the writes of `Push` in any order |

| property | what it says |
|---|---|
| `MappedWhileNeeded` | a buffer is mapped while a tensor of any node needs it; exactly as long, and counted exactly, when no tensor has an offset |
| `ParametersPartitioned` | a notify parameter is free, or carried by one request, or lost by a failed submission |
| `ExecutionsHold` | tensors, context and profile handle of a request in execution exist, whatever the other nodes do |
| `NothingRetained` | a node that is INITIAL again has nothing of QNN; the graph information was freed once |
| `ParametersReturn` | a node without a free parameter gets one, unless failed submissions have lost them all |

Bounds: two nodes and two buffers are the least with a shared mapping whose count goes 0, 1, 2, 1, 0 and
another that is registered later; `maxInits` 2 or 3 reach a life after a failure; `maxRefs` 3 stops the
counts that offsets let grow.  `CHECK_DEADLOCK FALSE`: the number of Initialize calls is bounded.
Fairness: a thread that is in a call goes on, and QNN completes and notifies what it has accepted.  No
fairness makes the application call.

### What the model shows of the code besides

* `RemoteRegisterBuf` probes the mapping before it takes `s_lock` (`QnnImpl.cpp:1769`): of two nodes that
  find a buffer unmapped, both set its count to 1, and the first to leave unmaps the buffer under the
  other. The runs are `serial`, no two nodes register or deregister at the same time; docs/QNN.md:525
  advises buffers that nodes do not share at all.
* The parameter popped for a `graphExecuteAsync` that fails is not pushed back (:2137); after eight
  failures the node refuses every request (`lost`).
* `DeRegisterTensors` gives the reference of a tensor at an offset back under another key than the one it
  was taken with (:2424): the mapping stays for good.  Hence `WholeBuffers` in `MappedWhileNeeded`.
* The application's callback comes before the `Push` (:2644): an application that submits from, or right
  after, its last callback may find the ring empty.
* What an unloaded library gave for the graph information is not freed again only as long as the form of
  the model, shared object or binary, does not change between two Initialize calls.

## 8 Services and the nodes on them

The other nodes are driven by one thread each, and what is hard about them is the state that libraries
keep: an engine session, OpenCL objects, the map of one FastADAS service for all nodes.  `Services` puts
these models side by side as *parts*; `MCServices` gives it configurations.  A behaviour moves a single
part and leaves the others as they begin, so the parts do not multiply and one run checks all of them.

| part | module | behaviours | bounds |
|---|---|---|---|
| `library` | `CameraLibrary` | section 5 | three cameras |
| `eva` | `EvaNode` | optical flow (`Flow`) and depth from stereo (`Stereo`); each call of the engine may fail, entry by entry of the configuration; the application replaces memory while it has no node | 2 Initialize calls |
| `cl` | `CL2DFlex` on `OpenclSrv` | two inputs, one compressed, and configurations that are refused early and late (`Frames`); pipelines with tables, an early buffer (`Tabled`); calls of OpenCL may fail | 2 Initialize calls, 1 Stop |
| `graphs` | `GraphInfo` | four binaries: whole ones, one without scales, an unknown version of a graph or of the binary; one `malloc` fails | 2 copies |
| `fadas` | `FadasNodes` on `FadasSrv` | a remap and a voxelization node, whose steps interleave: on the CPU with failures; on the GPU with failures, OpenCL, Initialize on a live node and replaced memory; on the DSP with undistortion tables and replaced memory | 2 Initialize calls per node |
| `rpc` | `FadasRpc` | every remote function; the channel changes one argument or one result, or loses a request or an answer; the DSP fails | 1 descriptor, 2 objects, 1 fault |

Two Initialize calls are the first with something left behind by an earlier life.  An OpenCL object
carries an epoch, so that a released object and its successor for the same address are not the same.  Two
objects on the DSP are enough for an answer about one to be taken for the other, and one fault is enough
for each way in which the argument lists could fail to agree.  In `FadasRpc` the checksum is the set
of the values it runs over, each with its place; that two lists collide is not modelled.  `CHECK_DEADLOCK FALSE`: calls
are bounded everywhere.

### The abstract specification

`BufferUse` says what all these nodes promise about buffers.  A node knows a buffer by its address and
keeps what it has made of it; the application replaces the memory at an address at moments at which the
node is documented to have let go, without asking.  `Replace` of `BufferUse` requires that nothing is
kept.  The refinements map `kept` to the table of the EVA node, to the memory objects of OpenCL, and to
the map of FastADAS.  An implementation whose DeInitialize forgets an entry, or whose Initialize fails
and leaves one, is not a behaviour of `BufferUse` as soon as the application replaces that memory.

### Runs

| run | property | what it says |
|---|---|---|
| services | `EvaRunningNodeHolds` | a running EVA node has a started session and its object, settings of the configuration in force, and registrations of the memory that is there |
| | `EvaLetsGo`, `ClLetsGo`, `FadasLetsGo` | the part implements `BufferUse` |
| | `ClHandlesLive` | a running CL2DFlex node has a kernel and its tables per input, all of which exist |
| | `GraphsFreed` | a copy that was destroyed leaves nothing; a failed one leaves pieces of at most one graph |
| | `FadasRunsRegistered` | when the engine works, the library is up, the frame's buffers are usable and the node's objects exist, whatever the other node does |
| | `CallsArriveWhole` | a remote call is executed with the arguments meant or not at all; success is reported of what was done; the client's objects exist |
| | `LibraryUpWhileUsed`, `CountsCameras` | section 5 |
| remap_stop | `RemapStopLetsGo` | **violation** |

*remap_stop.*  docs/remap.md:67 says of `deRegisterAllBuffersWhenStop` that it is the "Flag to deregister all
buffers when stopped" (also `Remap.hpp:156`).  The flag is parsed (`RemapConfig.cpp:179`) and never read; `Stop`
(`RemapImpl.cpp:31`) only changes the state, and the buffers of the frames stay registered until DeInitialize.

### What the models show of the code besides

* Depth from stereo verifies its noise parameters under the keys `offsetPrimary` ...
  (`DepthFromStereo.cpp:117-129`) and reads them as `noiseOffsetPrimary` ... (:351-352, as in
  docs/DepthFromStereo.md:60): a value out of range passes.
* In optical flow, a failed registration of the forward confidence is masked by a successful one of the
  backward confidence (`OpticalFlow.cpp:1207-1249`).
* `m_state` is READY before the object of the engine exists (:1045): a node whose Initialize failed there
  accepts a Start, with no session.  In the model the application calls a node only when Initialize has
  succeeded (`up`), and calls Initialize only on a node that is not up: `OpticalFlow.cpp:980` would do it
  over a live session.
* CL2DFlex takes the configuration of a second Initialize over (`CL2DFlex.cpp:32`) before it refuses the call
  of a node that is not INITIAL (`CL2DFlexImpl.cpp:82`): the node goes on with settings its pipelines were
  not made for.  The application of the model calls Initialize only when it has no node (`~up`).
* CL2DFlex takes the rest of a configuration over after a bad priority (`CL2DFlexConfig.cpp:158`), and a
  Stop with `deRegisterAllBuffersWhenStop` releases the tables the pipelines still use
  (`CL2DFlexImpl.cpp:49`); hence no tables and the flag in one configuration.
* FastADAS has no count per buffer: DeregBuf of one node takes the buffer of another
  (`FadasSrv.cpp:863`).  The nodes of the runs share no buffer that one of them deregisters.  For a
  buffer of several parts only the first is deregistered; of an NV12 image the second plane's result
  overwrites the first's (:757-762); after a registration that fails the DSP's mapping stays (:481-557), and
  after a batch of images that fails at a later one its first images stay registered, without an entry
  in the map (:620-630; part `"some"`).
* On an SoC 8797, remap and voxelization take HTP2 and HTP3 for the CPU when they make and run their
  objects (`FadasRemap.cpp:228`, :372, :783, `FadasPlr.cpp:151`, :388), but for the DSP when they map and
  register buffers (`FadasSrv.cpp:376`, :563).  A service of the model is for one kind of processor
  throughout; this mix is not modelled.
* A failed Initialize of remap undoes nothing, and Initialize on a live voxelization node resets it
  (`VoxelizationImpl.cpp:368-383`): the count of the service stays above the number of its users, and
  the map keeps its entries.  The history variable `leftover` records that; the application of the
  model replaces memory only while no node is up and nothing was left behind, calls may fail then or not.
* The client discards what RegBuf of the DSP answers (`FadasIfaceSafe.cpp:594`); an object whose handle
  was lost on the way stays on the DSP.

## 9 What is proved

For every value of the constants, under the named assumptions of the modules (`ConstantsAssumption`,
`CameraAssumption`, `LibraryAssumption`, `VideoAssumption`, `QnnAssumption`, `Configurations`), which say what a configuration
is made of and that sets of threads and nodes are finite; TLC evaluates them in every run:

| theorem | states | inductive invariant |
|---|---|---|
| `MemoryManagerProofs!TypeCorrect` | `Spec => []TypeOK` | `TypeOK` itself: its part `CallsOK` bounds the index every call carries from its lookup to its commit |
| `MemoryManagerProofs!RegistryIsInjective` | no two handles name one entry | `RegistryInjective` with `TypeOK`: check and insertion share a critical section |
| `MemoryOwnershipProofs!OwnershipIsExclusive`, `OwnedBuffersAreLive`, `BuffersAreAccounted` | the three ownership properties | `OwnInv` |
| `MemoryManagerProofs!DisciplineSuffices` | `NoUndefinedAccess`, under `LifecycleExclusive` and `UnregisterFirst` | `DisciplineInv` |
| `MemoryOwnershipProofs!UnregisteredNodesOwnNothing`, `PoolsAreReachable` | `UnregisteredOwnsNothing`, `PoolsReachable`, under `OneClient` | `ReleaseInv` |
| `MemoryOwnershipProofs!TheErrorSurvives` | the action property `ErrorSurvivesCalls`, under `OneClient` | `StateInv` with `TypeOK` |
| `CameraProofs!TypesHold` | `Spec => []TypeOK`: a queued index is a buffer of its stream; the loop of ImportBuffers indexes a stream of the node | `TypeInv` |
| `CameraProofs!SessionsAreUsedInOrder` | `SessionProtocol`, under `Closes` | `ControlInv` |
| `CameraProofs!StatesCorrespond`, `DescriptorsOutliveCallbacks` | `StateMatchesSession`, `NoFreedDescriptor`, under `Closes` | `DescriptorInv` |
| `CameraProofs!BuffersHaveOneOwner` | `OneOwner`, under `StartsAfresh` | `OwnInv` |
| `CameraProofs!BuffersAreNotLost` | `NoBufferLost`, under `Closes` and `StopsInOrder` | `LossInv` |
| `CameraProofs!PatternsPaceRequests` | the action property `PatternPacing` | `PaceInv` |
| `VideoCodecProofs!TypesHold` | `Spec => []TypeOK`: a map never exceeds its slots | `TypeInv` |
| `VideoCodecProofs!AnswersComeThrough` | `AnswersAreSeen` | `AnswerInv` with `TypeInv` |
| `VideoCodecProofs!StatesFollowSession` | `StateMatchesDevice` | `ControlInv` with `AnswerInv` and `TypeInv` |
| `VideoCodecProofs!BuffersGoOnce`, `FlagsFollowDriver` | `NoDoubleSubmit`, `SlotsMatchDriver`, under `Steered` | `SubmitInv` with `TypeInv` |
| `ServicesProofs!CountIsExact`, `LibraryStaysUp` | the count; the library outlives the sessions | `LibraryInv` |
| `QnnProofs!TypesHold` | `Spec => []TypeOK`, the indices and the entries of the ring included | `Base` |
| `QnnProofs!NodeRetainsNothing` | `NothingRetained`, for nodes that are given models of one form | `Base`, `Owned` |
| `QnnProofs!BuffersStayMapped` | `MappedWhileNeeded`, for registrations that do not overlap (`serial`) | `Counts` with `Base` |
| `QnnProofs!ExecutionsHoldTheirTensors` | `ExecutionsHold`, for registrations that do not overlap | `Counts`, `Owned`, `Base` |
| `QnnProofs!ParametersCirculate` | `ParametersPartitioned`, where the writes of `Push` are seen in order, or a parameter is to spare and QNN refuses no submission | `RingsFull` with `Base` |
| `ServicesProofs!TableIsCurrent`, `NodeLetsGo` | what an EVA node has of an address is the memory there; `ServicesSpec => EvaLetsGo`, the node implements `BufferUse` | `TableInv` |
| `ServicesProofs!RunningNodesHold` | `EvaRunningNodeHolds` | `EvaPartInv` |
| `ServicesProofs!CopiesAreFreed` | `GraphsFreed` | `HeapInv` |
| `ServicesProofs!RunningPipelinesHold` | `ClHandlesLive`, under `TablesStay` | `ClPartInv` |
| `ServicesProofs!PipelinesLetGo` | `ServicesSpec => ClLetsGo`, CL2DFlex implements `BufferUse` | `ClUseInv` |
| `ServicesProofs!CallsAreWhole` | `CallsArriveWhole` | `RpcInv` |
| `FadasNodesProofs!FadasNodesLetGo` | `ServicesSpec => FadasLetsGo`, the FastADAS service with its nodes implements `BufferUse` | `FadasInv` |
| `FadasNodesProofs!RunsAreRegistered` | `FadasRunsRegistered`, under `NodesApart` | `EquippedInv` with `FadasInv` |

The hypotheses, each with the code that makes it necessary:

| hypothesis | says of the configurations | without it |
|---|---|---|
| `LifecycleExclusive` | no Initialize or DeInitialize runs beside another call | a call may index past the end of the vectors DeInitialize has shortened (`ManagerLocal.cpp:116`) |
| `UnregisterFirst` | no node is registered when DeInitialize is called | DeInitialize leaves the handles, whose entries are gone, in the registry (`ManagerLocal.cpp:105`) |
| `OneClient` | one client thread | a pool made after a concurrent UnRegister has copied the entry is reached by no handle (`ManagerLocal.cpp:321`); a refused call stores READY over another's ERROR (:755) |
| `Steered` | a node is an encoder, or all its buffers are dynamic, or its driver answers in time and, if its output is static, the application submits only buffers it holds | the reconfiguration sets the output buffers and submits them all (`VideoDecoder.cpp:391`), those the application has submitted meanwhile included; the driver in time is needed by the proof only |
| `Closes` | unmapping, Release and Close succeed | a failed DeInitialize leaves the node READY without a session (`CameraImpl.cpp:780`) |
| `StartsAfresh` | one start, or an orderly application without a pattern | a restart submits an index that waits for its pattern (:1240), which run camera_restart shows |
| `StopsInOrder` | where every returned buffer comes back, the application is orderly and Stop succeeds | a frame returned during a Stop that fails is nobody's (:585, :695) |
| `serial` | nodes register and deregister one after the other | both of two nodes that find a buffer unmapped set its count to 1 (`QnnImpl.cpp:1769`) |
| models of one form | the `loads` of a configuration are equal | the graph information is freed again when the form changes |
| ordered, or a parameter to spare | the writes of `Push` are seen in order, or fewer requests than parameters and no refused submission | the reader may see the index before the slot it covers |
| `NodesApart` | a remap node has an input, on the GPU with tensors for its tables; no node deregisters a buffer of the frames or the table of another | a node without inputs makes no object, and a table that is no tensor ends the loop before the map is made, with success (`RemapImpl.cpp:136`); DeregBuf takes a buffer whoever registered it (`FadasSrv.cpp:863`) |
| `TablesStay` | no pipeline with tables has `deRegisterAllBuffersWhenStop` | Stop releases tables Start does not register again (`CL2DFlexImpl.cpp:49`) |

The configurations of the passing runs that check a property satisfy the hypotheses of its theorem
(for `NodesApart` TLC evaluates this, as an assumption of `MCServices`).

*Ownership.*  None of the three properties is inductive alone.  That a buffer the allocator returns is
nobody's needs "owned and lost buffers are live"; that a new pool starts empty needs "a handle outside
`poolMap` has no elements"; that a released buffer leaves no account behind needs exclusive ownership.
`OwnInv` is their conjunction, stated element by element (`OneSet`, `SetNotPool`, `OnePool`, `OneList`,
`SetLive`, `PoolLive`, `LostLive`, `LiveOwned`).  One lemma per *kind* of step (a buffer joins or leaves a set,
a pool appears or goes, entries are dropped, nothing changes hands) is cited by the lemma of each
action.  `TypeOK` enters because commits use indices taken long before.

*Discipline of the clients.*  A call carries an index from its lookup, under the lock of the registry,
to its commit, under the lock of the entry.  `DisciplineInv` says that the index is in range then
(`CallFits`), because those in the registry are (`RegistryFits`) and the vectors shrink only in
DeInitialize.  The hypotheses enter through `Alone`: while a lifecycle call holds `m_multiThreadLock` no
other call is under way, and DeInitialize finds the registry empty.  `m_state` takes part, because
Initialize appends the entries for whoever has stored INITIALIZING (`Sized`), and any refused call may
store back what it has read: none has read that.

*Release.*  `ReleaseInv` follows ReclaimResources through its two copies: as long as no release has
failed, what is left in the entry is what is left of the copy, with the element in hand.  When the
loops are over the entry is empty, and only then UnRegister erases the handle (`CallReleased`).  A call
that is about to put something into an entry knows a handle that names it (`CallNamed`), and entries
out of range are empty, whatever DeInitialize and the next Initialize do to the range.

*The error state.*  With one client the state a call has read at its entry is still `m_state` when it
writes it back (`StateInv`); so the write-back of a refused call stores what is there, and
ReclaimResources, which stores READY for a while, has the ERROR in `th[t].saved` until it is through.

*Library.*  `CountsCameras` compares a number with a cardinality, so each step needs how the set
`Counted` changes; `CountedKeepLibrary` (a positive count keeps the library up) turns the exact count into
`LibraryUpWhileUsed`, and `FailedExist` keeps a destroyed camera out of `failed`.

*Camera.*  `ControlInv` is a table: for each point at which a lifecycle call can stand, the node's state,
the session and what the call owes to a failure.  It refers to no buffer, and the callback appears only
in "a callback is inside a started session"; that is why Stop and Close, which wait for it, are safe.
`DescriptorInv` adds which descriptors Initialize has made by then.  For the buffers, the invariant is
about one buffer at a time: `Single(b)` says that at most one of QCarCam, queue, application, callback
and the workers has it, once, and `Free(b)` that none has.  Every step of the callback, QCarCam and the
workers keeps both (`Moves`), whatever the others do, so a step only has to say where the one buffer it
moves goes; only Start, which submits buffers without asking, needs `Free` beforehand: `OwnInv` carries
it through the loop of the submissions (`b[2] >= app.k`).  `LossInv` is the converse, nothing is `Free`
behind that loop.  `PaceInv` relates the code's counter, which counts down and sticks at zero, to the
number of reference frames since the last request of the stream.  It does not hold before Initialize has
set the counters (`Fresh`), and a failed Initialize returns there.

*Codec.*  `TypeOK` says that a buffer the history variable `stuck` names is flagged; every step that resets
a flag takes the buffer out of `stuck`, which `TypeInv` follows with what each call and the callback have
in hand.  A session that is closed has no commands and no callback (`Closed`), and while Initialize opens
the node nothing is started that would take frames, nor is a command for it under way (`OpeningInv`).  `AnswerInv` follows the command a call waits for: it is the driver's last one, or
is being answered, or was the last to be answered.  Only the reconfiguration, which resets
`m_cmdCompleted` for a command nobody waits for, breaks that, and `crossed` records it when a call is waiting.
`ControlInv` holds up to then, with a driver in time.  It gives for each step of a call the state of the session and of its
ports (`Phase`), for each callback in progress why the state it will store is due (`CbControl`), and of
the commands that all but the awaited one are START_OUT (`CmdControl`): so when a wait succeeds, its
command is executed and nothing else that matters is under way.  RUNNING may be stored after any
START_OUT, even late; it is due because START_OUT is only sent while the input is started, and
commands are answered in order.  These theorems assume nothing of the configurations beyond
`VideoAssumption`: their conditions are in the properties.

What is submitted needs one more invariant, `PlaceInv`: a buffer is free, or with the driver, or with
the callback, or in a call of the application, or in the call of one worker - at most one of these - and
its flag says whether it is in one, unless a closed session left it set.  A worker's step moves one
buffer from one place to the next; test and set of the flag in one critical section are why no second
one joins.  The flags are reset for a whole list at once in two places, and what makes that safe is
control, not data.  *Initialize* sets the lists when the state is not RUNNING and no worker is past
its check of it (`Calm`); for an encoder because only its start stores RUNNING (`EncoderInv`), for a decoder
because in time a command of a call is pending only while that call waits (`CallsInv`), and its event
likewise (`EventsInv`): no event of an earlier life is left to store RUNNING.  The *reconfiguration* sets
the output list: `StaticInv` says that up to the first one of a stream every static output buffer is with the
node, since the output port is started only by it, and START_OUT is pending only after it
(`OrderInv` for the order of Stop).  `DriverInv` has which port is started at each step of the callback.

*QNN.*  `Base` has the types and, for each point of registration, execution and notification, what the
call has in hand.  `Counts` relates the count of each buffer to the tensors registered by all nodes and
those just being registered or released (`Coming`): never less, and equal where no tensor has an offset;
each step adds to or takes from one of these sets.  `Owned` has, for each node, that what its requests
use is registered; a request leaves `executing` before its node stops, as the application waits for its
answers and `Awaited` bounds the requests in execution by those without an answer.  For the ring, the
16-bit indices are the remainders of two unbounded numbers P and Q (`RingAt`): the entries between them
are the free parameters, each once, and at most as many as the ring has slots.  As the modulus is a
multiple of the number of slots, wrapping changes no slot.  Where writes are reordered, the last entry
may be missing although the index covers it; with a parameter to spare (`Spared`) the reader does not get
that far.

*EVA nodes.*  That a step of the node is one of `BufferUse` needs, for `Replace`, that nothing is kept while
the application has no node: `TableInv` says that the table is empty then, and current always.  The
initial states map to initial states, ProcessFrameDescriptor to `Keep`, DeInitialize to `Drop`, and every
other call to a stutter; nothing is assumed of the configurations.  `EvaPartInv` adds that a session
that no failure has orphaned belongs to a node that is up (`SessionInv`), that the entries of such a node are of
its configuration (`EntryInv`), and that what its table has is registered with its session (`RegisteredInv`).

*Copies of graphs.*  The pieces of a graph are named by their paths (`GraphPieces`): copying it allocates
only among these, releasing it frees them all.  `HeapInv` says of every copy made so far that what is
left of it is among the pieces of the list, while it is there; nothing, when it was whole; and pieces of
one graph, when it failed.

*CL2DFlex.*  An object carries the epoch of its making.  `ClPartInv` says of a node past Initialize that
the objects in the tables of its service are live and made of the memory at their addresses, that its
pipelines' kernels and tables are among what the service has, and that a service that is not initialized
has no objects.  `ClUseInv` maps this to `BufferUse` as for the EVA nodes.

*Calls of the DSP.*  The lists the client and the DSP run their checksums over agree for every function
(`ListsAgree`), and the channel changes at most one value (`Arrived`): so the checksums agree exactly when
the arguments are those that were meant (`ChecksumTells`).  `RpcInv` follows a call through its points with
that, and has for each what the DSP's objects are that the client does not know of yet.

*FastADAS nodes.*  A call is a program, so an invariant about the service has to say what every node still
has before it.  `Phase` lists, for remap and voxelization, the shapes of what is left of a program
with the state it goes with; whether a node *uses* the service (its `init` has succeeded and its
`deinit` is still to come) and *serves* follows from that.  The programs have loops over inputs, tables
and buffers of any number, and induction over sequences is out of the prover's reach; what they are
made of is therefore said as a set of steps (`Elems`, `Marks`), and of the order only what `Covered`
says of a run: that the registrations of its buffers come before it.  `FadasProgramsProofs` has the shapes of the
programs and what one step makes of each.  `FadasInv` adds that the count of the service is at least the number of the nodes that use
it, and equal to it until an Initialize has left something behind; so the last Deinit clears the
map, and nothing is kept when the application replaces memory.  An entry is always of the memory that
is there (`Backed`).  `EquippedInv` says of each node by itself that the buffers of its table have
entries, that those of the runs before it have or will get one, and that the objects it points to are its own and exist.
A step of one node leaves that true of the others because the count keeps the library up while
they use it (`TwoUsers`), objects carry the name of their node, and deregistrations are apart.

Only model-checked is liveness (`CallsReturn`, `BuffersRecirculate`, `ReconfigurationEnds`,
`ParametersReturn`), which TLAPS does not support under fairness.

## 10 What is not modelled

The components marked *left out* in section 1: radar is a smaller case of the other accelerator nodes
(a device file, one thread); frame descriptors, data tree, layouts, trace and logger have no protocol;
the shared ring and the simulation node are sample and test code.  The composition of FastADAS with
QNN on one processor is planned.  Besides, the operating system below the allocators, QCarCam, the
codec driver, QNN, FastADAS and OpenCL (assumed as stated above); JSON configuration, metadata, image
and tensor layouts; performance counters, logging and tracing; the simulation node, which is a test
double; samples, tests and build scripts, which were read for how the nodes are used.
