-------------------------------- MODULE FadasSrv --------------------------------
(***************************************************************************)
(* The service of the FastADAS library (FadasSrv.cpp): what the nodes of a *)
(* process share for one processor.  The operators give the outcomes of a  *)
(* call on a service s: the service afterwards, and whether it succeeded.  *)
(***************************************************************************)
EXTENDS Naturals, Sequences, FiniteSets

CONSTANTS
  Addresses,   \* where buffers are
  Memory,      \* what memory there can be at an address
  Nothing      \* stands for what is in no table

(***************************************************************************)
(* Of a service: whether the library of the processor is open              *)
(* (s_handle64, s_libGPUHandle), s_initialized, s_useRef, s_memMaps, and   *)
(* of the engine what the DSP has mapped, which parts of buffers are       *)
(* registered, and its objects.                                            *)
(***************************************************************************)
NoEntry == [memory |-> Nothing, shape |-> 0]
Down == [opened |-> FALSE, initialized |-> FALSE, useRef |-> 0,
         memMap |-> [a \in Addresses |-> NoEntry],
         mapped |-> {}, regs |-> {}, objects |-> {}]

Ok(s)     == [s |-> s, ok |-> TRUE]
Failed(s) == [s |-> s, ok |-> FALSE]
Either(s, mayFail) == {Ok(s)} \union IF mayFail THEN {Failed(s)} ELSE {}

-----------------------------------------------------------------------------
InitCPU(s, mayFail) == Either(s, mayFail)

(* A symbol that is missing closes the library again. *)
InitGPU(s, mayFail) ==
  {Ok([s EXCEPT !.opened = TRUE])} \union IF mayFail THEN {Failed(s)} ELSE {}

(* The session stays open where the engine cannot be initialized in it. *)
InitDSP(s, mayFail) ==
  {Ok([s EXCEPT !.opened = TRUE])}
    \union IF mayFail THEN {Failed(s), Failed([s EXCEPT !.opened = TRUE])} ELSE {}

InitEngine(s, p, mayFail) == CASE p = "dsp" -> InitDSP(s, mayFail)
                               [] p = "gpu" -> InitGPU(s, mayFail)
                               [] p = "cpu" -> InitCPU(s, mayFail)

ServiceInit(s, p, mayFail) ==
  IF p \notin {"dsp", "gpu", "cpu"} THEN {Failed(s)}
  ELSE { IF r.ok THEN Ok([r.s EXCEPT !.initialized = TRUE, !.useRef = @ + 1]) ELSE r :
           r \in IF s.initialized THEN {Ok(s)} ELSE InitEngine(s, p, mayFail) }

(***************************************************************************)
(* The last user: DeregBuf of each entry, the end of the engine, clear().  *)
(* A buffer the DSP does not let go of stays mapped.                       *)
(***************************************************************************)
Closed(s, p, released) ==
  [Down EXCEPT !.opened = s.opened /\ p = "dsp",
               !.mapped = IF released
                          THEN s.mapped \ { a \in Addresses : s.memMap[a] # NoEntry }
                          ELSE s.mapped]

\* Mutant: any user ends the library.
ServiceDeinit_Always(s, p, mayFail) == {Ok(Closed(s, p, TRUE))}

\* Mutant: the entries outlive the library.
ServiceDeinit_KeepsEntries(s, p, mayFail) ==
  IF s.useRef = 1 THEN {Ok([Closed(s, p, TRUE) EXCEPT !.memMap = s.memMap])}
  ELSE {Ok([s EXCEPT !.useRef = @ - 1])}

(* A failure of the engine is not reported. *)
ServiceDeinit(s, p, mayFail) ==
  IF ~s.initialized \/ s.useRef = 0 THEN {Ok(s)}
  ELSE IF s.useRef = 1
  THEN { Ok(Closed(s, p, released)) : released \in IF mayFail THEN BOOLEAN ELSE {TRUE} }
  ELSE {Ok([s EXCEPT !.useRef = @ - 1])}

-----------------------------------------------------------------------------
(***************************************************************************)
(* A buffer b of a node has an address, a kind, a format and a shape.  The *)
(* DSP refuses to map what it has mapped, so a registration that failed    *)
(* after the mapping cannot be repeated.                                   *)
(***************************************************************************)
FadasMemMapDSP(s, a, mayFail) ==
  IF a \in s.mapped THEN {Failed(s)}
  ELSE {Ok([s EXCEPT !.mapped = @ \union {a}])} \union IF mayFail THEN {Failed(s)} ELSE {}

FadasMemMap(s, a, p, mayFail) ==
  IF p = "dsp" THEN FadasMemMapDSP(s, a, mayFail) ELSE {Ok(s)}

(***************************************************************************)
(* The parts of a buffer: the "plane" (an input but for the second plane   *)
(* of NV12, or a tensor), the "second" plane, the "batch" of images of an  *)
(* output; and "some" images of a batch that failed at a later one.        *)
(***************************************************************************)
FirstPart(use) == IF use = "in" THEN "plane" ELSE "batch"
Registered(s, a, part, m) == [s EXCEPT !.regs = @ \union {[at |-> a, part |-> part, memory |-> m]}]
Begun(s, a, part, m) ==
  {s} \union IF part = "batch" THEN {Registered(s, a, "some", m)} ELSE {}

(* The answer of the DSP is lost on the way (FadasIface_FadasRegBuf). *)
FadasRegisterBufDSP(s, a, part, m, mayFail) ==
  {Ok(Registered(s, a, part, m))} \union
    IF mayFail THEN UNION { {Ok(t), Failed(t)} : t \in Begun(s, a, part, m) } ELSE {}
FadasRegisterBufCPU(s, a, part, m, mayFail) ==
  {Ok(Registered(s, a, part, m))} \union
    IF mayFail THEN { Failed(t) : t \in Begun(s, a, part, m) } ELSE {}
FadasRegisterBufGPU(s, a, part, m, mayFail) == FadasRegisterBufCPU(s, a, part, m, mayFail)

FadasRegisterBuf(s, a, part, m, p, mayFail) ==
  CASE p = "dsp" -> FadasRegisterBufDSP(s, a, part, m, mayFail)
    [] p = "gpu" -> FadasRegisterBufGPU(s, a, part, m, mayFail)
    [] p = "cpu" -> FadasRegisterBufCPU(s, a, part, m, mayFail)

(* What was registered is entered, what failed stays mapped. *)
Entered(r, b, m) ==
  IF r.ok THEN Ok([r.s EXCEPT !.memMap[b.at] = [memory |-> m, shape |-> b.shape]]) ELSE r

(* Of the two planes of an NV12 input the result of the second counts. *)
RegisterImage(s, b, use, m, p, mayFail) ==
  IF s.memMap[b.at] # NoEntry
  THEN IF s.memMap[b.at].shape = b.shape THEN {Ok(s)} ELSE {Failed(s)}
  ELSE UNION { IF ~r.ok THEN {r}
               ELSE { Entered(last, b, m) :
                        last \in LET first == FadasRegisterBuf(r.s, b.at, FirstPart(use), m, p, mayFail)
                                 IN IF use = "in" /\ b.format = "nv12"
                                    THEN UNION { FadasRegisterBuf(f.s, b.at, "second", m, p, mayFail) :
                                                   f \in first }
                                    ELSE first } :
               r \in FadasMemMap(s, b.at, p, mayFail) }

(* A tensor that is in the map is not looked at again. *)
RegisterTensor(s, b, m, p, mayFail) ==
  IF s.memMap[b.at] # NoEntry THEN {Ok(s)}
  ELSE UNION { IF ~r.ok THEN {r}
               ELSE { Entered(last, b, m) :
                        last \in FadasRegisterBuf(r.s, b.at, "plane", m, p, mayFail) } :
               r \in FadasMemMap(s, b.at, p, mayFail) }

RegBuf(s, b, use, m, p, mayFail) ==
  CASE b.kind = "image"  -> RegisterImage(s, b, use, m, p, mayFail)
    [] b.kind = "tensor" -> RegisterTensor(s, b, m, p, mayFail)
    [] OTHER             -> {Failed(s)}

(* All but the second plane is deregistered; failures are passed over. *)
DeregBuf(s, a, mayFail) ==
  IF s.memMap[a] = NoEntry THEN {Ok(s)}
  ELSE { Ok([s EXCEPT !.memMap[a] = NoEntry,
                      !.regs = IF released THEN { r \in @ : r.at # a \/ r.part = "second" } ELSE @,
                      !.mapped = IF released THEN @ \ {a} ELSE @]) :
           released \in IF mayFail THEN BOOLEAN ELSE {TRUE} }
=============================================================================
