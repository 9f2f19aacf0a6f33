--------------------------- MODULE FadasProgramsProofs ---------------------------
(***************************************************************************)
(* Lemmas on the nodes on the FastADAS service (FadasNodes, FadasSrv): the *)
(* outcomes of the service's calls, the programs of the nodes' calls and   *)
(* what is left of them after a step, and the phases of a node.            *)
(***************************************************************************)
EXTENDS Services, FiniteSetTheorems, SequenceTheorems, TLAPS

-----------------------------------------------------------------------------
(***************************************************************************)
(* The service.  Its library is open as long as it has users; a service    *)
(* without users has no entries.  An entry is backed when it is of the     *)
(* memory at its address, and that is mapped or registered.                *)
(***************************************************************************)
NoEntry == Fadas!NoEntry

IsSrv(s) ==
  /\ s = [opened |-> s.opened, initialized |-> s.initialized, useRef |-> s.useRef,
          memMap |-> s.memMap, mapped |-> s.mapped, regs |-> s.regs, objects |-> s.objects]
  /\ s.useRef \in Nat /\ s.initialized \in BOOLEAN
  /\ s.initialized <=> s.useRef # 0
  /\ s.memMap = [a \in Addresses |-> s.memMap[a]]
  /\ s.useRef = 0 => s.memMap = [a \in Addresses |-> NoEntry]

Backed(s, mem, processor) ==
  \A a \in Addresses :
    s.memMap[a] # NoEntry =>
      /\ s.memMap[a].memory = mem[a]
      /\ processor = "dsp" => a \in s.mapped
      /\ processor # "dsp" => \E r \in s.regs : r.at = a /\ r.memory = mem[a] /\ r.part # "some"

\* The users and their objects are what they were.
SameUsers(s, t) ==
  t.useRef = s.useRef /\ t.initialized = s.initialized /\ t.objects = s.objects
\* Entries are added for the memory that is there, and none is lost.
Grows(s, t, mem) ==
  \A a \in Addresses :
    \/ t.memMap[a] = s.memMap[a]
    \/ s.memMap[a] = NoEntry /\ t.memMap[a] # NoEntry /\ t.memMap[a].memory = mem[a]
\* Entries of A are lost, and none is added.
Shrinks(s, t, A) ==
  \A a \in Addresses :
    t.memMap[a] = s.memMap[a] \/ (a \in A /\ t.memMap[a] = NoEntry)

LEMMA DownIs == IsSrv(Fadas!Down) /\ \A a \in Addresses : Fadas!Down.memMap[a] = NoEntry
  BY DEF IsSrv, Fadas!Down, NoEntry

\* A part of the buffer at a is registered, or some of it, or that is lost on the way.
Registration(a, k, m) == [at |-> a, part |-> k, memory |-> m]
Adds(s, r, all, few, processor) ==
  /\ r.ok \in BOOLEAN
  /\ \/ r.s = s
     \/ r.s = [s EXCEPT !.regs = @ \union {all}]
     \/ r.s = [s EXCEPT !.regs = @ \union {few}]
  /\ r.ok /\ processor # "dsp" => r.s = [s EXCEPT !.regs = @ \union {all}]

LEMMA RegisterBufIs ==
  ASSUME NEW s, NEW a, NEW k, NEW m, NEW processor \in {"dsp", "gpu", "cpu"}, NEW mayFail,
         NEW r \in Fadas!FadasRegisterBuf(s, a, k, m, processor, mayFail)
  PROVE  Adds(s, r, Registration(a, k, m), Registration(a, "some", m), processor)
<1>1. ASSUME NEW t \in Fadas!Begun(s, a, k, m)
      PROVE  t = s \/ t = [s EXCEPT !.regs = @ \union {Registration(a, "some", m)}]
  BY DEF Fadas!Begun, Fadas!Registered, Registration
<1>2. \/ r = Fadas!Ok(Fadas!Registered(s, a, k, m))
      \/ \E t \in Fadas!Begun(s, a, k, m) :
           r = Fadas!Failed(t) \/ (r = Fadas!Ok(t) /\ processor = "dsp")
  BY DEF Fadas!FadasRegisterBuf, Fadas!FadasRegisterBufDSP, Fadas!FadasRegisterBufGPU,
         Fadas!FadasRegisterBufCPU
<1>3. CASE r = Fadas!Ok(Fadas!Registered(s, a, k, m))
  BY <1>3 DEF Fadas!Ok, Fadas!Registered, Registration, Adds
<1>4. ASSUME NEW t \in Fadas!Begun(s, a, k, m),
             r = Fadas!Failed(t) \/ (r = Fadas!Ok(t) /\ processor = "dsp")
      PROVE  Adds(s, r, Registration(a, k, m), Registration(a, "some", m), processor)
  <2>1. r.s = t /\ r.ok \in BOOLEAN /\ (r.ok => processor = "dsp")
    <3>1. CASE r = Fadas!Failed(t)
      BY <3>1 DEF Fadas!Failed
    <3>2. CASE r = Fadas!Ok(t) /\ processor = "dsp"
      BY <3>2 DEF Fadas!Ok
    <3> QED BY <1>4, <3>1, <3>2
  <2> QED BY <1>1, <2>1 DEF Adds
<1> QED BY <1>2, <1>3, <1>4

\* The mapping, and then one or two parts.
Prepared(s, t, a, processor) ==
  /\ t = [opened |-> s.opened, initialized |-> s.initialized, useRef |-> s.useRef,
          memMap |-> s.memMap, mapped |-> t.mapped, regs |-> t.regs, objects |-> s.objects]
  /\ s.mapped \subseteq t.mapped /\ s.regs \subseteq t.regs
  /\ processor = "dsp" => a \in t.mapped

LEMMA MapIs ==
  ASSUME NEW s, IsSrv(s), NEW a, NEW processor, NEW mayFail,
         NEW r \in Fadas!FadasMemMap(s, a, processor, mayFail)
  PROVE  /\ r.ok \in BOOLEAN
         /\ r.s = s \/ (r.ok /\ Prepared(s, r.s, a, processor))
         /\ r.ok => Prepared(s, r.s, a, processor)
<1>1. \/ r.ok = FALSE /\ r.s = s
      \/ r.ok = TRUE /\ r.s = s /\ processor # "dsp"
      \/ r.ok = TRUE /\ processor = "dsp" /\ r.s = [s EXCEPT !.mapped = @ \union {a}]
  BY DEF Fadas!FadasMemMap, Fadas!FadasMemMapDSP, Fadas!Ok, Fadas!Failed
<1> QED BY <1>1 DEF Prepared, IsSrv

PartMade(s, r, a, m, processor) ==
  /\ r.ok \in BOOLEAN /\ Prepared(s, r.s, a, processor)
  /\ r.ok /\ processor # "dsp" => \E e \in r.s.regs : e.at = a /\ e.memory = m /\ e.part # "some"

\* What a registration adds to a service that is prepared keeps it prepared.
LEMMA AddedIs ==
  ASSUME NEW s, NEW t, NEW a, NEW processor, Prepared(s, t, a, processor), NEW e, NEW u,
         u = [t EXCEPT !.regs = @ \union {e}]
  PROVE  Prepared(s, u, a, processor) /\ e \in u.regs
<1>1. t = [opened |-> s.opened, initialized |-> s.initialized, useRef |-> s.useRef,
           memMap |-> s.memMap, mapped |-> t.mapped, regs |-> t.regs, objects |-> s.objects]
  BY DEF Prepared
<1>2. u = [opened |-> s.opened, initialized |-> s.initialized, useRef |-> s.useRef,
           memMap |-> s.memMap, mapped |-> t.mapped, regs |-> t.regs \union {e},
           objects |-> s.objects]
  BY <1>1
<1> QED BY <1>2 DEF Prepared

LEMMA PartIs ==
  ASSUME NEW s, IsSrv(s), NEW t, NEW a, NEW k, k # "some", NEW m,
         NEW processor \in {"dsp", "gpu", "cpu"}, NEW mayFail,
         Prepared(s, t, a, processor),
         NEW r \in Fadas!FadasRegisterBuf(t, a, k, m, processor, mayFail)
  PROVE  PartMade(s, r, a, m, processor)
<1> DEFINE e == Registration(a, k, m)
           f == Registration(a, "some", m)
<1>0. e.at = a /\ e.memory = m /\ e.part # "some"
  BY DEF Registration
<1> HIDE DEF e, f
<1>1. Adds(t, r, e, f, processor)
  BY RegisterBufIs DEF e, f
<1>2. Prepared(s, r.s, a, processor)
  <2>1. CASE r.s = t
    BY <2>1
  <2>2. CASE r.s = [t EXCEPT !.regs = @ \union {e}]
    BY <2>2, AddedIs
  <2>3. CASE r.s = [t EXCEPT !.regs = @ \union {f}]
    BY <2>3, AddedIs
  <2> QED BY <1>1, <2>1, <2>2, <2>3 DEF Adds
<1>3. r.ok /\ processor # "dsp" => e \in r.s.regs
  BY <1>1, AddedIs DEF Adds
<1> QED BY <1>0, <1>1, <1>2, <1>3 DEF PartMade, Adds

\* RegBuf: what succeeds is entered, and backed.
Took(s, r, a, mem, processor) ==
  /\ IsSrv(r.s) /\ Backed(r.s, mem, processor)
  /\ SameUsers(s, r.s) /\ Grows(s, r.s, mem)
  /\ r.ok \in BOOLEAN
  /\ r.ok => r.s.memMap[a] # NoEntry

LEMMA TookNothing ==
  ASSUME NEW s, IsSrv(s), NEW mem, NEW processor, Backed(s, mem, processor),
         NEW a, NEW r, r.s = s, r.ok \in BOOLEAN, r.ok => s.memMap[a] # NoEntry
  PROVE  Took(s, r, a, mem, processor)
  BY DEF Took, SameUsers, Grows

\* A registration that failed after the mapping.
LEMMA TookMapping ==
  ASSUME NEW s, IsSrv(s), NEW mem, NEW processor, Backed(s, mem, processor),
         NEW a, NEW r, Prepared(s, r.s, a, processor), r.ok = FALSE
  PROVE  Took(s, r, a, mem, processor)
<1>1. /\ r.s.opened = s.opened /\ r.s.initialized = s.initialized /\ r.s.useRef = s.useRef
      /\ r.s.memMap = s.memMap /\ r.s.objects = s.objects
      /\ s.mapped \subseteq r.s.mapped /\ s.regs \subseteq r.s.regs
  BY DEF Prepared
<1>2. IsSrv(r.s)
  BY <1>1 DEF IsSrv, Prepared
<1>3. Backed(r.s, mem, processor)
  BY <1>1 DEF Backed
<1> QED BY <1>1, <1>2, <1>3 DEF Took, SameUsers, Grows

LEMMA ExceptIs ==
  ASSUME NEW A, NEW f, f = [a \in A |-> f[a]], NEW x \in A, NEW v
  PROVE  [f EXCEPT ![x] = v] = [a \in A |-> IF a = x THEN v ELSE f[a]]
  OBVIOUS

LEMMA EntryIs ==
  ASSUME NEW m \in Memory, NEW x, Nothing \notin Memory
  PROVE  LET e == [memory |-> m, shape |-> x] IN e # NoEntry /\ e.memory = m
  BY DEF NoEntry, Fadas!NoEntry

LEMMA TookEntry ==
  ASSUME NEW s, IsSrv(s), s.useRef # 0, NEW mem \in [Addresses -> Memory],
         NEW processor \in {"dsp", "gpu", "cpu"},
         Backed(s, mem, processor), NEW b, b.at \in Addresses, s.memMap[b.at] = NoEntry,
         NEW q, Prepared(s, q.s, b.at, processor), q.ok \in BOOLEAN,
         q.ok /\ processor # "dsp" => \E e \in q.s.regs : e.at = b.at /\ e.memory = mem[b.at] /\ e.part # "some"
  PROVE  Took(s, Fadas!Entered(q, b, mem[b.at]), b.at, mem, processor)
<1>1. CASE ~q.ok
  <2>1. Fadas!Entered(q, b, mem[b.at]) = q /\ q.ok = FALSE
    BY <1>1 DEF Fadas!Entered
  <2> QED BY <2>1, TookMapping
<1>2. CASE q.ok
  <2> DEFINE entry == [memory |-> mem[b.at], shape |-> b.shape]
             r     == Fadas!Entered(q, b, mem[b.at])
  <2>1. entry # NoEntry /\ entry.memory = mem[b.at]
    BY EntryIs, Configurations
  <2>2. r.ok = TRUE /\ r.s = [q.s EXCEPT !.memMap[b.at] = entry]
    BY <1>2 DEF Fadas!Entered, Fadas!Ok
  <2> HIDE DEF entry, r
  <2>3. /\ q.s = [opened |-> s.opened, initialized |-> s.initialized, useRef |-> s.useRef,
                  memMap |-> s.memMap, mapped |-> q.s.mapped, regs |-> q.s.regs,
                  objects |-> s.objects]
        /\ s.mapped \subseteq q.s.mapped /\ s.regs \subseteq q.s.regs
        /\ processor = "dsp" => b.at \in q.s.mapped
    BY DEF Prepared
  <2>4. r.s = [opened |-> s.opened, initialized |-> s.initialized, useRef |-> s.useRef,
               memMap |-> [s.memMap EXCEPT ![b.at] = entry], mapped |-> q.s.mapped,
               regs |-> q.s.regs, objects |-> s.objects]
    BY <2>2, <2>3
  <2>5. /\ r.s.memMap = [a \in Addresses |-> IF a = b.at THEN entry ELSE s.memMap[a]]
        /\ r.s.mapped = q.s.mapped /\ r.s.regs = q.s.regs
        /\ SameUsers(s, r.s)
    <3>1. r.s.memMap = [s.memMap EXCEPT ![b.at] = entry]
      BY <2>4
    <3>2. s.memMap = [a \in Addresses |-> s.memMap[a]]
      BY DEF IsSrv
    <3>3. [s.memMap EXCEPT ![b.at] = entry]
            = [a \in Addresses |-> IF a = b.at THEN entry ELSE s.memMap[a]]
      BY <3>2, ExceptIs, Zenon
    <3>4. SameUsers(s, r.s) /\ r.s.mapped = q.s.mapped /\ r.s.regs = q.s.regs
      BY <2>4 DEF SameUsers
    <3> QED BY <3>1, <3>3, <3>4
  <2>6. IsSrv(r.s)
    BY <2>4, <2>5 DEF IsSrv
  <2>7. Backed(r.s, mem, processor)
    <3> SUFFICES ASSUME NEW a \in Addresses, r.s.memMap[a] # NoEntry
                 PROVE  /\ r.s.memMap[a].memory = mem[a]
                        /\ processor = "dsp" => a \in r.s.mapped
                        /\ processor # "dsp" => \E e \in r.s.regs : e.at = a /\ e.memory = mem[a] /\ e.part # "some"
      BY DEF Backed
    <3>1. CASE a = b.at
      BY <1>2, <2>1, <2>3, <2>5, <3>1
    <3>2. CASE a # b.at
      BY <2>3, <2>5, <3>2 DEF Backed
    <3> QED BY <3>1, <3>2
  <2>8. Grows(s, r.s, mem)
    BY <2>1, <2>5 DEF Grows
  <2> QED BY <2>1, <2>2, <2>5, <2>6, <2>7, <2>8 DEF Took, r
<1> QED BY <1>1, <1>2

LEMMA RegBufTakes ==
  ASSUME NEW s, IsSrv(s), s.useRef # 0, NEW mem \in [Addresses -> Memory],
         NEW processor \in {"dsp", "gpu", "cpu"},
         Backed(s, mem, processor), NEW b, b.at \in Addresses, NEW use, NEW mayFail,
         NEW r \in Fadas!RegBuf(s, b, use, mem[b.at], processor, mayFail)
  PROVE  Took(s, r, b.at, mem, processor)
<1> DEFINE m == mem[b.at]
<1>1. CASE /\ b.kind = "image"
           /\ r \in Fadas!RegisterImage(s, b, use, m, processor, mayFail)
  <2>1. CASE s.memMap[b.at] # NoEntry
    <3>1. r \in {Fadas!Ok(s), Fadas!Failed(s)}
      BY <1>1, <2>1 DEF Fadas!RegisterImage, NoEntry
    <3>2. r.s = s /\ (r.ok = TRUE \/ r.ok = FALSE)
      <4>1. CASE r = Fadas!Ok(s)
        BY <4>1 DEF Fadas!Ok
      <4>2. CASE r = Fadas!Failed(s)
        BY <4>2 DEF Fadas!Failed
      <4> QED BY <3>1, <4>1, <4>2
    <3> QED BY <2>1, <3>2, TookNothing
  <2>2. CASE s.memMap[b.at] = NoEntry
    <3> DEFINE Last(f, q) ==
                 \/ q = f
                 \/ q \in Fadas!FadasRegisterBuf(f.s, b.at, "second", m, processor, mayFail)
    <3>1. PICK g \in Fadas!FadasMemMap(s, b.at, processor, mayFail) :
            \/ ~g.ok /\ r = g
            \/ /\ g.ok
               /\ \E f \in Fadas!FadasRegisterBuf(g.s, b.at, Fadas!FirstPart(use), m, processor, mayFail) :
                    \E q : Last(f, q) /\ r = Fadas!Entered(q, b, m)
      BY <1>1, <2>2 DEF Fadas!RegisterImage, NoEntry
    <3>2. /\ g.ok \in BOOLEAN /\ (g.s = s \/ (g.ok /\ Prepared(s, g.s, b.at, processor)))
          /\ g.ok => Prepared(s, g.s, b.at, processor)
      BY MapIs
    <3>3. CASE ~g.ok /\ r = g
      BY <3>2, <3>3, TookNothing
    <3>4. ASSUME g.ok, NEW f \in Fadas!FadasRegisterBuf(g.s, b.at, Fadas!FirstPart(use), m, processor, mayFail),
                 NEW q, Last(f, q), r = Fadas!Entered(q, b, m)
          PROVE  Took(s, r, b.at, mem, processor)
      <4>1. PartMade(s, f, b.at, m, processor)
        <5>1. Prepared(s, g.s, b.at, processor)
          BY <3>2, <3>4
        <5>2. Fadas!FirstPart(use) # "some"
          BY DEF Fadas!FirstPart
        <5> QED BY <5>1, <5>2, <3>4, PartIs
      <4>2. PartMade(s, q, b.at, m, processor)
        <5>1. CASE q = f
          BY <4>1, <5>1
        <5>2. CASE q \in Fadas!FadasRegisterBuf(f.s, b.at, "second", m, processor, mayFail)
          <6>1. Prepared(s, f.s, b.at, processor)
            BY <4>1 DEF PartMade
          <6> QED BY <5>2, <6>1, PartIs
        <5> QED BY <3>4, <5>1, <5>2
      <4> QED BY <2>2, <3>4, <4>2, TookEntry DEF PartMade
    <3> QED BY <3>1, <3>3, <3>4
  <2> QED BY <2>1, <2>2
<1>2. CASE /\ b.kind = "tensor"
           /\ r \in Fadas!RegisterTensor(s, b, m, processor, mayFail)
  <2>1. CASE s.memMap[b.at] # NoEntry
    <3>1. r.s = s /\ r.ok = TRUE
      BY <1>2, <2>1 DEF Fadas!RegisterTensor, Fadas!Ok, NoEntry
    <3> QED BY <2>1, <3>1, TookNothing
  <2>2. CASE s.memMap[b.at] = NoEntry
    <3>1. PICK g \in Fadas!FadasMemMap(s, b.at, processor, mayFail) :
            \/ ~g.ok /\ r = g
            \/ /\ g.ok
               /\ \E q \in Fadas!FadasRegisterBuf(g.s, b.at, "plane", m, processor, mayFail) :
                    r = Fadas!Entered(q, b, m)
      BY <1>2, <2>2 DEF Fadas!RegisterTensor, NoEntry
    <3>2. /\ g.ok \in BOOLEAN /\ (g.s = s \/ (g.ok /\ Prepared(s, g.s, b.at, processor)))
          /\ g.ok => Prepared(s, g.s, b.at, processor)
      BY MapIs
    <3>3. CASE ~g.ok /\ r = g
      BY <3>2, <3>3, TookNothing
    <3>4. ASSUME g.ok, NEW q \in Fadas!FadasRegisterBuf(g.s, b.at, "plane", m, processor, mayFail),
                 r = Fadas!Entered(q, b, m)
          PROVE  Took(s, r, b.at, mem, processor)
      <4>1. PartMade(s, q, b.at, m, processor)
        <5>1. Prepared(s, g.s, b.at, processor)
          BY <3>2, <3>4
        <5> QED BY <5>1, <3>4, PartIs
      <4> QED BY <2>2, <3>4, <4>1, TookEntry DEF PartMade
    <3> QED BY <3>1, <3>3, <3>4
  <2> QED BY <2>1, <2>2
<1>3. CASE r = Fadas!Failed(s)
  <2>1. r.s = s /\ r.ok = FALSE
    BY <1>3 DEF Fadas!Failed
  <2> QED BY <2>1, TookNothing
<1> QED BY <1>1, <1>2, <1>3 DEF Fadas!RegBuf

\* DeregBuf takes out one entry; what it registered may stay.
LEMMA DeregBufDrops ==
  ASSUME NEW s, IsSrv(s), NEW mem, NEW processor, Backed(s, mem, processor),
         NEW a \in Addresses, NEW mayFail, NEW r \in Fadas!DeregBuf(s, a, mayFail)
  PROVE  /\ r.ok = TRUE /\ IsSrv(r.s) /\ Backed(r.s, mem, processor)
         /\ SameUsers(s, r.s) /\ Shrinks(s, r.s, {a})
<1>1. CASE s.memMap[a] = NoEntry
  <2>1. r.ok = TRUE /\ r.s = s
    BY <1>1 DEF Fadas!DeregBuf, Fadas!Ok, NoEntry
  <2> QED BY <2>1 DEF SameUsers, Shrinks
<1>2. CASE s.memMap[a] # NoEntry
  <2>1. PICK released :
          r = Fadas!Ok([s EXCEPT !.memMap[a] = Fadas!NoEntry,
                !.regs = IF released THEN { e \in @ : e.at # a \/ e.part = "second" } ELSE @,
                !.mapped = IF released THEN @ \ {a} ELSE @])
    BY <1>2, Zenon DEF Fadas!DeregBuf, NoEntry
  <2>2. /\ r.ok = TRUE
        /\ r.s = [opened |-> s.opened, initialized |-> s.initialized, useRef |-> s.useRef,
                  memMap |-> [s.memMap EXCEPT ![a] = NoEntry], mapped |-> r.s.mapped,
                  regs |-> r.s.regs, objects |-> s.objects]
        /\ r.s.regs = IF released THEN { e \in s.regs : e.at # a \/ e.part = "second" } ELSE s.regs
        /\ r.s.mapped = IF released THEN s.mapped \ {a} ELSE s.mapped
    BY <2>1 DEF Fadas!Ok, IsSrv, NoEntry
  <2>3. r.s.memMap = [x \in Addresses |-> IF x = a THEN NoEntry ELSE s.memMap[x]]
    <3>1. r.s.memMap = [s.memMap EXCEPT ![a] = NoEntry]
      BY <2>2
    <3>2. s.memMap = [x \in Addresses |-> s.memMap[x]]
      BY DEF IsSrv
    <3>3. [s.memMap EXCEPT ![a] = NoEntry]
            = [x \in Addresses |-> IF x = a THEN NoEntry ELSE s.memMap[x]]
      BY <3>2, ExceptIs, Zenon
    <3> QED BY <3>1, <3>3
  <2>4. SameUsers(s, r.s) /\ r.s.initialized = s.initialized /\ r.s.useRef = s.useRef
    BY <2>2 DEF SameUsers
  <2>5. IsSrv(r.s)
    <3>1. s.useRef # 0
      BY <1>2 DEF IsSrv
    <3> QED BY <2>2, <2>3, <2>4, <3>1 DEF IsSrv
  <2>6. Backed(r.s, mem, processor)
    <3> SUFFICES ASSUME NEW x \in Addresses, r.s.memMap[x] # NoEntry
                 PROVE  /\ r.s.memMap[x].memory = mem[x]
                        /\ processor = "dsp" => x \in r.s.mapped
                        /\ processor # "dsp" => \E e \in r.s.regs : e.at = x /\ e.memory = mem[x] /\ e.part # "some"
      BY DEF Backed
    <3>1. x # a /\ r.s.memMap[x] = s.memMap[x]
      BY <2>3
    <3>2. /\ x \in s.mapped => x \in r.s.mapped
          /\ \A e \in s.regs : e.at = x => e \in r.s.regs
      BY <2>2, <3>1
    <3> QED BY <3>1, <3>2 DEF Backed
  <2>7. Shrinks(s, r.s, {a})
    BY <2>3 DEF Shrinks
  <2> QED BY <2>2, <2>4, <2>5, <2>6, <2>7
<1> QED BY <1>1, <1>2

\* Entries and what backs them are as they were.
SameEntries(s, t) == t.memMap = s.memMap /\ t.mapped = s.mapped /\ t.regs = s.regs

LEMMA SameBacked ==
  ASSUME NEW s, NEW t, SameEntries(s, t), NEW mem, NEW processor, Backed(s, mem, processor)
  PROVE  Backed(t, mem, processor)
  BY DEF SameEntries, Backed

Opened(s) == [s EXCEPT !.opened = TRUE]

LEMMA EngineIs ==
  ASSUME NEW s, NEW processor \in {"dsp", "gpu", "cpu"}, NEW mayFail,
         NEW r \in Fadas!InitEngine(s, processor, mayFail)
  PROVE  (r.ok = TRUE \/ r.ok = FALSE) /\ (r.s = s \/ r.s = Opened(s))
<1>1. \/ r = Fadas!Ok(s) \/ r = Fadas!Failed(s)
      \/ r = Fadas!Ok(Opened(s))
      \/ r = Fadas!Failed(Opened(s))
  BY DEF Fadas!InitEngine, Fadas!InitDSP, Fadas!InitGPU, Fadas!InitCPU, Fadas!Either, Opened
<1>2. CASE r = Fadas!Ok(s)
  BY <1>2 DEF Fadas!Ok
<1>3. CASE r = Fadas!Failed(s)
  BY <1>3 DEF Fadas!Failed
<1>4. CASE r = Fadas!Ok(Opened(s))
  BY <1>4 DEF Fadas!Ok
<1>5. CASE r = Fadas!Failed(Opened(s))
  BY <1>5 DEF Fadas!Failed
<1> QED BY <1>1, <1>2, <1>3, <1>4, <1>5

\* Init counts a user, or nothing happens.
LEMMA InitCounts ==
  ASSUME NEW s, IsSrv(s), NEW processor \in {"dsp", "gpu", "cpu"}, NEW mayFail,
         NEW r \in Fadas!ServiceInit(s, processor, mayFail)
  PROVE  /\ IsSrv(r.s) /\ SameEntries(s, r.s) /\ r.s.objects = s.objects
         /\ r.ok = TRUE \/ r.ok = FALSE
         /\ r.ok => r.s.useRef = s.useRef + 1
         /\ ~r.ok => r.s.useRef = s.useRef
<1>1. PICK q \in IF s.initialized THEN {Fadas!Ok(s)}
                 ELSE Fadas!InitEngine(s, processor, mayFail) :
        r = IF q.ok THEN Fadas!Ok([q.s EXCEPT !.initialized = TRUE, !.useRef = @ + 1]) ELSE q
  BY Zenon DEF Fadas!ServiceInit
<1>2. (q.ok = TRUE \/ q.ok = FALSE) /\ (q.s = s \/ q.s = Opened(s))
  <2>1. CASE q = Fadas!Ok(s)
    BY <2>1 DEF Fadas!Ok
  <2>2. CASE q \in Fadas!InitEngine(s, processor, mayFail)
    BY <2>2, EngineIs
  <2> QED BY <1>1, <2>1, <2>2
<1>3. PICK o : q.s = [opened |-> o, initialized |-> s.initialized, useRef |-> s.useRef,
             memMap |-> s.memMap, mapped |-> s.mapped, regs |-> s.regs, objects |-> s.objects]
  BY <1>2 DEF IsSrv, Opened
<1>4. CASE ~q.ok
  <2>1. r = q
    BY <1>1, <1>4
  <2> QED BY <1>2, <1>3, <1>4, <2>1 DEF IsSrv, SameEntries
<1>5. CASE q.ok
  <2> DEFINE yes == TRUE
             t   == [q.s EXCEPT !.initialized = yes, !.useRef = q.s.useRef + 1]
  <2>1. r.ok = TRUE /\ r.s = t
    BY <1>1, <1>5 DEF Fadas!Ok
  <2> HIDE DEF yes
  <2>2. q.s.useRef = s.useRef
    BY <1>3
  <2> DEFINE u == [q.s EXCEPT !.initialized = yes]
  <2>3. u = [opened |-> o, initialized |-> yes, useRef |-> s.useRef, memMap |-> s.memMap,
             mapped |-> s.mapped, regs |-> s.regs, objects |-> s.objects]
    BY <1>3
  <2>7. t = [u EXCEPT !.useRef = s.useRef + 1]
    BY <2>2, Zenon
  <2> HIDE DEF u, t
  <2>4. t = [opened |-> o, initialized |-> yes, useRef |-> s.useRef + 1, memMap |-> s.memMap,
             mapped |-> s.mapped, regs |-> s.regs, objects |-> s.objects]
    BY <2>3, <2>7
  <2>5. /\ SameEntries(s, t) /\ t.objects = s.objects /\ t.useRef = s.useRef + 1
        /\ t.initialized = yes
    BY <2>4 DEF SameEntries
  <2>6. IsSrv(t)
    BY <2>4, <2>5 DEF IsSrv, yes
  <2> QED BY <2>1, <2>5, <2>6
<1> QED BY <1>4, <1>5

\* Deinit takes a user away; with the last one the entries and objects go.
Ended(s, r) ==
  /\ r.ok = TRUE /\ IsSrv(r.s) /\ r.s.useRef = s.useRef - 1
  /\ \/ s.useRef = 1 /\ \A a \in Addresses : r.s.memMap[a] = NoEntry
     \/ SameEntries(s, r.s) /\ r.s.objects = s.objects /\ s.useRef > 1

LEMMA DeinitCounts ==
  ASSUME NEW s, IsSrv(s), s.useRef # 0, NEW processor, NEW mayFail,
         NEW r \in Fadas!ServiceDeinit(s, processor, mayFail)
  PROVE  Ended(s, r)
<1>1. s.initialized /\ s.useRef \in Nat
  BY DEF IsSrv
<1>2. CASE s.useRef = 1
  <2>1. PICK released : r = Fadas!Ok(Fadas!Closed(s, processor, released))
    BY <1>1, <1>2 DEF Fadas!ServiceDeinit
  <2>2. r.ok = TRUE /\ r.s = Fadas!Closed(s, processor, released)
    BY <2>1 DEF Fadas!Ok
  <2> DEFINE nothing == [a \in Addresses |-> NoEntry]
             o       == s.opened /\ processor = "dsp"
             mapped  == IF released THEN s.mapped \ { a \in Addresses : s.memMap[a] # NoEntry }
                                    ELSE s.mapped
  <2>0. r.s = [[opened |-> FALSE, initialized |-> FALSE, useRef |-> 0, memMap |-> nothing,
                mapped |-> {}, regs |-> {}, objects |-> {}]
                 EXCEPT !.opened = o, !.mapped = mapped]
    BY <2>2, Zenon DEF Fadas!Closed, Fadas!Down, NoEntry
  <2> HIDE DEF nothing, o, mapped
  <2>3. r.s = [opened |-> o, initialized |-> FALSE, useRef |-> 0, memMap |-> nothing,
               mapped |-> mapped, regs |-> {}, objects |-> {}]
    BY <2>0
  <2>4. /\ r.s.memMap = [a \in Addresses |-> NoEntry] /\ r.s.useRef = 0
        /\ r.s.initialized = FALSE
    BY <2>3 DEF nothing
  <2>5. IsSrv(r.s)
    BY <2>3, <2>4 DEF IsSrv
  <2> QED BY <1>2, <2>2, <2>4, <2>5 DEF Ended
<1>3. CASE s.useRef # 1
  <2>1. r.ok = TRUE /\ r.s = [s EXCEPT !.useRef = @ - 1]
    BY <1>1, <1>3 DEF Fadas!ServiceDeinit, Fadas!Ok
  <2>2. r.s = [opened |-> s.opened, initialized |-> s.initialized, useRef |-> s.useRef - 1,
               memMap |-> s.memMap, mapped |-> s.mapped, regs |-> s.regs, objects |-> s.objects]
    BY <2>1 DEF IsSrv
  <2>3. SameEntries(s, r.s) /\ r.s.objects = s.objects /\ r.s.useRef = s.useRef - 1
    BY <2>2 DEF SameEntries
  <2>4. IsSrv(r.s)
    BY <1>1, <1>3, <2>2, <2>3 DEF IsSrv
  <2> QED BY <1>1, <1>3, <2>1, <2>3, <2>4 DEF Ended
<1> QED BY <1>2, <1>3

-----------------------------------------------------------------------------
(* Programs: what they are made of, and what is left after a step. *)

Nodes == FadasNodeNames
Elems(t) == { t[i] : i \in 1 .. Len(t) }
IsProg(t) == t \in Seq(Elems(t))

LEMMA InSeq == ASSUME NEW S, NEW t \in Seq(S) PROVE IsProg(t)
<1>1. Len(t) \in Nat /\ t = [i \in 1 .. Len(t) |-> t[i]]
  OBVIOUS
<1>2. \A i \in 1 .. Len(t) : t[i] \in Elems(t)
  BY DEF Elems
<1>3. t \in [1 .. Len(t) -> Elems(t)]
  BY <1>1, <1>2
<1> QED BY <1>1, <1>3 DEF IsProg

\* A sequence over a larger set.
LEMMA SeqIs ==
  ASSUME NEW n \in Nat, NEW t, t = [i \in 1 .. n |-> t[i]], NEW S, \A i \in 1 .. n : t[i] \in S
  PROVE  t \in Seq(S) /\ Len(t) = n
<1>1. t \in [1 .. n -> S]
  OBVIOUS
<1>2. t \in Seq(S)
  BY <1>1, SeqDef, Zenon
<1>3. Len(t) = n
  BY <1>1, <1>2
<1> QED BY <1>2, <1>3

LEMMA ProgIs ==
  ASSUME NEW t, IsProg(t)
  PROVE  /\ Len(t) \in Nat /\ t = [i \in 1 .. Len(t) |-> t[i]]
         /\ t = <<>> <=> Len(t) = 0
         /\ t = <<>> <=> Elems(t) = {}
<1>1. t \in Seq(Elems(t))
  BY DEF IsProg
<1>2. Len(t) \in Nat /\ t = [i \in 1 .. Len(t) |-> t[i]]
  BY <1>1
<1>3. t = <<>> <=> Len(t) = 0
  BY ONLY <1>1, EmptySeq, Zenon
<1>4. Elems(t) = {} <=> Len(t) = 0
  <2>1. Len(t) # 0 => t[1] \in Elems(t)
    BY <1>2 DEF Elems
  <2>2. Len(t) = 0 => Elems(t) = {}
    BY <1>2 DEF Elems
  <2> QED BY <2>1, <2>2
<1> QED BY <1>2, <1>3, <1>4

LEMMA NoneIs == IsProg(<<>>) /\ Elems(<<>>) = {} /\ Len(<<>>) = 0
<1>1. <<>> \in Seq({})
  OBVIOUS
<1>2. Len(<<>>) = 0
  OBVIOUS
<1>3. IsProg(<<>>)
  BY <1>1, InSeq
<1>4. Elems(<<>>) = {}
  BY <1>2 DEF Elems
<1> QED BY <1>2, <1>3, <1>4

LEMMA OneIs ==
  ASSUME NEW x
  PROVE  /\ IsProg(<<x>>) /\ Elems(<<x>>) = {x} /\ Len(<<x>>) = 1 /\ <<x>>[1] = x
         /\ Head(<<x>>) = x /\ Tail(<<x>>) = <<>> /\ <<x>> # <<>>
<1>1. <<x>> \in Seq({x}) /\ Len(<<x>>) = 1 /\ <<x>>[1] = x
  OBVIOUS
<1>2. Elems(<<x>>) = {x}
  BY <1>1 DEF Elems
<1>3. Head(<<x>>) = x /\ Tail(<<x>>) = <<>>
  OBVIOUS
<1> QED BY <1>1, <1>2, <1>3, InSeq, EmptySeq

LEMMA CatIs ==
  ASSUME NEW a, IsProg(a), NEW b, IsProg(b)
  PROVE  /\ IsProg(a \o b) /\ Len(a \o b) = Len(a) + Len(b)
         /\ \A i \in 1 .. Len(a) + Len(b) :
              (a \o b)[i] = IF i <= Len(a) THEN a[i] ELSE b[i - Len(a)]
         /\ Elems(a \o b) = Elems(a) \union Elems(b)
<1> DEFINE S == Elems(a) \union Elems(b)
<1>1. a \in Seq(S) /\ b \in Seq(S)
  <2>1. \A i \in 1 .. Len(a) : a[i] \in S
    BY DEF Elems
  <2>2. \A i \in 1 .. Len(b) : b[i] \in S
    BY DEF Elems
  <2> QED BY <2>1, <2>2, ProgIs
<1> HIDE DEF S
<1>2. /\ a \o b \in Seq(S) /\ Len(a \o b) = Len(a) + Len(b)
      /\ \A i \in 1 .. Len(a) + Len(b) :
           (a \o b)[i] = IF i <= Len(a) THEN a[i] ELSE b[i - Len(a)]
  BY <1>1
<1>3. Len(a) \in Nat /\ Len(b) \in Nat
  BY <1>1
<1>4. Elems(a \o b) \subseteq Elems(a) \union Elems(b)
  <2> SUFFICES ASSUME NEW i \in 1 .. Len(a) + Len(b)
               PROVE  (a \o b)[i] \in Elems(a) \union Elems(b)
    BY <1>2 DEF Elems
  <2>1. CASE i <= Len(a)
    BY <1>2, <1>3, <2>1 DEF Elems
  <2>2. CASE ~(i <= Len(a))
    <3>1. i - Len(a) \in 1 .. Len(b)
      BY <1>3, <2>2
    <3> QED BY <1>2, <2>2, <3>1 DEF Elems
  <2> QED BY <2>1, <2>2
<1>5. Elems(a) \subseteq Elems(a \o b)
  <2> SUFFICES ASSUME NEW i \in 1 .. Len(a) PROVE a[i] \in Elems(a \o b)
    BY DEF Elems
  <2>1. i \in 1 .. Len(a) + Len(b) /\ (a \o b)[i] = a[i]
    BY <1>2, <1>3
  <2> QED BY <1>2, <2>1 DEF Elems
<1>6. Elems(b) \subseteq Elems(a \o b)
  <2> SUFFICES ASSUME NEW i \in 1 .. Len(b) PROVE b[i] \in Elems(a \o b)
    BY DEF Elems
  <2>1. i + Len(a) \in 1 .. Len(a) + Len(b) /\ ~(i + Len(a) <= Len(a)) /\ (i + Len(a)) - Len(a) = i
    BY <1>3
  <2>2. (a \o b)[i + Len(a)] = b[i]
    BY <1>2, <2>1
  <2> QED BY <1>2, <2>1, <2>2 DEF Elems
<1> QED BY <1>2, <1>4, <1>5, <1>6, InSeq

LEMMA TailIs ==
  ASSUME NEW t, IsProg(t), t # <<>>
  PROVE  /\ Head(t) = t[1] /\ Len(t) \in Nat \ {0}
         /\ IsProg(Tail(t)) /\ Len(Tail(t)) = Len(t) - 1
         /\ \A i \in 1 .. Len(t) - 1 : Tail(t)[i] = t[i + 1]
         /\ Elems(t) = {Head(t)} \union Elems(Tail(t))
         /\ Tail(t) = <<>> <=> Len(t) = 1
<1>1. t \in Seq(Elems(t)) /\ Len(t) \in Nat \ {0}
  BY ProgIs DEF IsProg
<1>2. /\ Head(t) = t[1] /\ Tail(t) \in Seq(Elems(t)) /\ Len(Tail(t)) = Len(t) - 1
      /\ \A i \in 1 .. Len(t) - 1 : Tail(t)[i] = t[i + 1]
  BY <1>1
<1>3. IsProg(Tail(t))
  BY <1>2, InSeq
<1>4. Tail(t) = <<>> <=> Len(t) = 1
  BY <1>1, <1>2, <1>3, ProgIs
<1>5. Elems(t) \subseteq {Head(t)} \union Elems(Tail(t))
  <2> SUFFICES ASSUME NEW i \in 1 .. Len(t) PROVE t[i] \in {Head(t)} \union Elems(Tail(t))
    BY DEF Elems
  <2>1. CASE i = 1
    BY <1>2, <2>1
  <2>2. CASE i # 1
    <3>1. i - 1 \in 1 .. Len(t) - 1 /\ (i - 1) + 1 = i
      BY <1>1, <2>2
    <3>2. Tail(t)[i - 1] = t[i]
      BY <1>2, <3>1
    <3> QED BY <1>2, <3>1, <3>2 DEF Elems
  <2> QED BY <2>1, <2>2
<1>6. {Head(t)} \union Elems(Tail(t)) \subseteq Elems(t)
  <2>1. Head(t) \in Elems(t)
    BY <1>1, <1>2 DEF Elems
  <2>2. ASSUME NEW i \in 1 .. Len(t) - 1 PROVE Tail(t)[i] \in Elems(t)
    <3>1. i + 1 \in 1 .. Len(t)
      BY <1>1
    <3> QED BY <1>2, <3>1 DEF Elems
  <2> QED BY <1>2, <2>1, <2>2 DEF Elems
<1> QED BY <1>1, <1>2, <1>3, <1>4, <1>5, <1>6

\* A step and a program.
LEMMA ConsIs ==
  ASSUME NEW x, NEW b, IsProg(b)
  PROVE  /\ IsProg(<<x>> \o b) /\ <<x>> \o b # <<>>
         /\ Head(<<x>> \o b) = x /\ Tail(<<x>> \o b) = b
         /\ Elems(<<x>> \o b) = {x} \union Elems(b)
<1> DEFINE t == <<x>> \o b
<1>1. /\ IsProg(t) /\ Len(t) = 1 + Len(b) /\ Elems(t) = {x} \union Elems(b)
      /\ \A i \in 1 .. 1 + Len(b) : t[i] = IF i <= 1 THEN x ELSE b[i - 1]
  BY CatIs, OneIs
<1>2. Len(b) \in Nat
  BY ProgIs
<1> HIDE DEF t
<1>3. t # <<>>
  BY <1>1, <1>2, ProgIs
<1>4. /\ Head(t) = t[1] /\ IsProg(Tail(t)) /\ Len(Tail(t)) = Len(t) - 1
      /\ \A i \in 1 .. Len(t) - 1 : Tail(t)[i] = t[i + 1]
  BY <1>1, <1>3, TailIs
<1>5. Head(t) = x
  BY <1>1, <1>2, <1>4
<1>6. Len(Tail(t)) = Len(b)
  BY <1>1, <1>2, <1>4
<1>7. \A i \in 1 .. Len(b) : Tail(t)[i] = b[i]
  <2> SUFFICES ASSUME NEW i \in 1 .. Len(b) PROVE Tail(t)[i] = b[i]
    OBVIOUS
  <2>1. i + 1 \in 1 .. 1 + Len(b) /\ ~(i + 1 <= 1) /\ (i + 1) - 1 = i /\ i \in 1 .. Len(t) - 1
    BY <1>1, <1>2
  <2> QED BY <1>1, <1>4, <2>1
<1>8. Tail(t) = b
  <2>1. Tail(t) = [i \in 1 .. Len(b) |-> Tail(t)[i]] /\ b = [i \in 1 .. Len(b) |-> b[i]]
    BY <1>4, <1>6, ProgIs
  <2> QED BY <1>7, <2>1
<1> QED BY <1>1, <1>3, <1>5, <1>8 DEF t

LEMMA Associative ==
  ASSUME NEW a, IsProg(a), NEW b, IsProg(b), NEW c, IsProg(c)
  PROVE  (a \o b) \o c = a \o (b \o c)
<1> DEFINE S == Elems(a) \union Elems(b) \union Elems(c)
<1>1. \A i \in 1 .. Len(a) : a[i] \in S
  BY DEF Elems
<1>2. \A i \in 1 .. Len(b) : b[i] \in S
  BY DEF Elems
<1>3. \A i \in 1 .. Len(c) : c[i] \in S
  BY DEF Elems
<1> HIDE DEF S
<1>4. a \in Seq(S)
  BY <1>1, ProgIs, SeqIs
<1>5. b \in Seq(S)
  BY <1>2, ProgIs, SeqIs
<1>6. c \in Seq(S)
  BY <1>3, ProgIs, SeqIs
<1> QED BY <1>4, <1>5, <1>6, ConcatAssociative

\* One step for each member of a sequence.
LEMMA EachIs ==
  ASSUME NEW n \in Nat, NEW f, f = [i \in 1 .. n |-> f[i]]
  PROVE  IsProg(f) /\ Len(f) = n /\ Elems(f) = { f[i] : i \in 1 .. n }
<1>1. f \in Seq({ f[i] : i \in 1 .. n }) /\ Len(f) = n
  BY SeqIs
<1> QED BY <1>1, InSeq DEF Elems

-----------------------------------------------------------------------------
(***************************************************************************)
(* What a program is made of.  The label of a step is its name, and of a   *)
(* change of the state the state.                                          *)
(***************************************************************************)
Label(x) == IF x.op = "state" THEN x.arg ELSE x.op
Marks(t) == { Label(x) : x \in Elems(t) }

LEMMA MarksOf ==
  /\ Marks(<<>>) = {}
  /\ \A x : Marks(<<x>>) = {Label(x)}
  /\ \A x, b : IsProg(b) => Marks(<<x>> \o b) = {Label(x)} \union Marks(b)
  /\ \A a, b : IsProg(a) /\ IsProg(b) => Marks(a \o b) = Marks(a) \union Marks(b)
  /\ \A t : IsProg(t) /\ t # <<>> => Marks(t) = {Label(Head(t))} \union Marks(Tail(t))
<1>1. Marks(<<>>) = {}
  BY NoneIs DEF Marks
<1>2. ASSUME NEW x PROVE Marks(<<x>>) = {Label(x)}
  BY OneIs DEF Marks
<1>3. ASSUME NEW x, NEW b, IsProg(b) PROVE Marks(<<x>> \o b) = {Label(x)} \union Marks(b)
  <2>1. Elems(<<x>> \o b) = {x} \union Elems(b)
    BY <1>3, ConsIs
  <2> QED BY <2>1 DEF Marks
<1>4. ASSUME NEW a, NEW b, IsProg(a), IsProg(b) PROVE Marks(a \o b) = Marks(a) \union Marks(b)
  <2>1. Elems(a \o b) = Elems(a) \union Elems(b)
    BY <1>4, CatIs
  <2> QED BY <2>1 DEF Marks
<1>5. ASSUME NEW t, IsProg(t), t # <<>> PROVE Marks(t) = {Label(Head(t))} \union Marks(Tail(t))
  <2>1. Elems(t) = {Head(t)} \union Elems(Tail(t))
    BY <1>5, TailIs
  <2> QED BY <2>1 DEF Marks
<1> QED BY <1>1, <1>2, <1>3, <1>4, <1>5

\* The steps that change the state, release, destroy and end.
To(s)      == Fadas!Instr("state", s, <<>>)
Release    == Fadas!Instr("release", {}, <<>>)
Destroys(k) == Fadas!Instr("destroy", k, <<>>)
Deinit(p)  == Fadas!Instr("deinit", p, <<>>)

LEMMA StepsAre ==
  /\ \A s : To(s).op = "state" /\ To(s).arg = s /\ Label(To(s)) = s
  /\ Release.op = "release" /\ Label(Release) = "release"
  /\ \A k : Destroys(k).op = "destroy" /\ Label(Destroys(k)) = "destroy"
  /\ \A p : Deinit(p).op = "deinit" /\ Label(Deinit(p)) = "deinit"
  /\ \A op, arg, instead : /\ Fadas!Instr(op, arg, instead).op = op
                           /\ Fadas!Instr(op, arg, instead).arg = arg
                           /\ Fadas!Instr(op, arg, instead).instead = instead
                           /\ op # "state" => Label(Fadas!Instr(op, arg, instead)) = op
  BY DEF To, Release, Destroys, Deinit, Label, Fadas!Instr

OpenCL(p) == p.kind = "voxelization" /\ p.opencl
\* The addresses that a node deregisters.
DropAddrs(p)  == Fadas!DropsOf(config, p)
Kinds(p) == IF p.kind = "voxelization" THEN {"preproc"} ELSE {"map", "worker"}

\* What the steps of the middle of a program are.
Undoes(p, x) == x.op = "dereg" /\ x.instead = <<>> /\ x.arg \in DropAddrs(p)
Undoing(p, t) == IsProg(t) /\ \A x \in Elems(t) : Undoes(p, x)
FrameStep(p, x) ==
  /\ x.instead = <<>>
  /\ \/ x.op = "reg" /\ x.arg.b.at \in Fadas!FrameAddrs(p) /\ ~OpenCL(p)
     \/ x.op = "keep" /\ x.arg.b.at \in Fadas!KeepAddrs(p)
     \/ x.op = "run" /\ { b.at : b \in x.arg.bs } \subseteq Fadas!FrameAddrs(p) /\ x.arg.on = Kinds(p) /\ ~OpenCL(p)
     \/ x.op = "kernels"
RemapStep(p, x) ==
  \/ x.op \in {"buffermap"} /\ x.instead = <<>>
  \/ x.op = "worker" /\ x.instead = <<>> /\ x.arg \in DOMAIN p.inputs
  \/ x.op = "reg" /\ x.instead = <<>> /\ x.arg.b.at \in Addresses
  \/ x.op = "try" /\ x.instead = <<>> /\ x.arg.b.at \in Addresses
  \/ x.op = "map" /\ Undoing(p, x.instead) /\ x.arg \in DOMAIN p.inputs
  \/ Undoes(p, x)
JustDeinit(p)  == <<Deinit(p)>>
UndoBuffers(p) == <<Release>> \o JustDeinit(p)
VoxelUndone(p) == <<To("INITIAL")>> \o UndoBuffers(p)
VoxelStep(p, x) ==
  /\ x.instead = VoxelUndone(p)
  /\ x.op = "buffermap" \/ (x.op = "keep" /\ x.arg.b.at \in Fadas!KeepAddrs(p))

-----------------------------------------------------------------------------
(***************************************************************************)
(* Where a node is in a call: p are its parameters, s its state, t what is *)
(* left of the program, tab its table.                                     *)
(***************************************************************************)
InitOf(p, instead) == Fadas!Instr("init", p, instead)
Params(p)          == Fadas!Instr("params", p, <<>>)
Create(p)          == Fadas!Instr("create", "preproc", VoxelUndone(p))
JustInitial        == <<To("INITIAL")>>
JustReady          == <<To("READY")>>
JustRelease        == <<Release>>
StopBuffers        == <<Release>> \o JustReady
Ending(p)          == <<Deinit(p)>> \o JustInitial
EndWorkers(p)      == <<Destroys("worker")>> \o Ending(p)
EndMaps(p)         == <<Destroys("map")>> \o EndWorkers(p)
EndPreProc(p)      == <<Destroys("preproc")>> \o Ending(p)
EndBuffers(p)      == <<Release>> \o EndPreProc(p)
VoxelFailed        == <<To("INITIAL")>> \o JustRelease
RemapMiddle(p, M)    == IsProg(M) /\ \A x \in Elems(M) : RemapStep(p, x)
VoxelMiddle(p, M)    == IsProg(M) /\ \A x \in Elems(M) : VoxelStep(p, x)
Body(M)              == M \o JustReady
RemapParams(p, M)    == <<Params(p)>> \o Body(M)
RemapProgram(p, M)   == <<InitOf(p, <<>>)>> \o RemapParams(p, M)
VoxelCreate(p, M)    == <<Create(p)>> \o Body(M)
VoxelInit(p, M)      == <<InitOf(p, VoxelFailed)>> \o VoxelCreate(p, M)
VoxelProgram(p, M)   == <<To("INITIALIZING")>> \o VoxelInit(p, M)

Resting(s, t, tab) ==
  t = <<>> /\ (s \in {"READY", "RUNNING"} \/ (s = "INITIAL" /\ tab = {}))
Framing(p, s, t) ==
  s = "RUNNING" /\ IsProg(t) /\ \A x \in Elems(t) : FrameStep(p, x)
Stopping(p, s, t) ==
  /\ p.kind = "voxelization" /\ s = "RUNNING"
  /\ t = StopBuffers \/ t = JustRelease \/ t = JustReady
RemapStarting(p, s, t) ==
  /\ p.kind = "remap" /\ s = "INITIAL"
  /\ \E M : /\ RemapMiddle(p, M)
            /\ t = RemapProgram(p, M) \/ t = RemapParams(p, M) \/ t = Body(M)
RemapFailing(p, s, t) == p.kind = "remap" /\ s = "INITIAL" /\ Undoing(p, t)
RemapEnding(p, s, t) ==
  /\ p.kind = "remap" /\ s = "READY"
  /\ \/ t = EndMaps(p)
     \/ t = EndWorkers(p)
     \/ t = Ending(p) \/ t = JustInitial
VoxelStarting(p, s, t, tab) ==
  /\ p.kind = "voxelization"
  /\ \E M : /\ VoxelMiddle(p, M)
            /\ \/ s = "INITIAL" /\ tab = {} /\ t = VoxelProgram(p, M)
               \/ s = "INITIALIZING" /\ tab = {} /\ (t = VoxelInit(p, M) \/ t = VoxelCreate(p, M))
               \/ s = "INITIALIZING" /\ t = Body(M)
VoxelFailing(p, s, t, tab) ==
  /\ p.kind = "voxelization"
  /\ \/ t = VoxelUndone(p) \/ t = VoxelFailed
     \/ s = "INITIAL" /\ (t = UndoBuffers(p) \/ t = JustRelease)
     \/ s = "INITIAL" /\ tab = {} /\ t = JustDeinit(p)
VoxelEnding(p, s, t, tab) ==
  /\ p.kind = "voxelization" /\ s = "READY"
  /\ \/ t = EndBuffers(p)
     \/ tab = {} /\ \/ t = EndPreProc(p)
                    \/ t = Ending(p) \/ t = JustInitial

Phase(p, s, t, tab) ==
  /\ p.kind \in {"remap", "voxelization"} /\ (p.kind = "remap" => tab = {})
  /\ tab \subseteq Fadas!KeepAddrs(p)
  /\ \/ Resting(s, t, tab) \/ Framing(p, s, t) \/ Stopping(p, s, t)
     \/ RemapStarting(p, s, t) \/ RemapFailing(p, s, t) \/ RemapEnding(p, s, t)
     \/ VoxelStarting(p, s, t, tab) \/ VoxelFailing(p, s, t, tab) \/ VoxelEnding(p, s, t, tab)

\* Whether the node has a part in the count of the users; and whether it
\* goes on to work.
Uses(p, s, t) ==
  /\ ~OpenCL(p)
  /\ \/ "deinit" \in Marks(t)
     \/ "READY" \in Marks(t) /\ "init" \notin Marks(t)
     \/ s \in {"READY", "RUNNING"} /\ "INITIAL" \notin Marks(t)
Serves(p, s, t) ==
  /\ ~OpenCL(p) /\ "deinit" \notin Marks(t)
  /\ "READY" \in Marks(t) \/ (s \in {"READY", "RUNNING"} /\ "INITIAL" \notin Marks(t))

LEMMA SplitIs ==
  ASSUME NEW t, IsProg(t), t # <<>> PROVE t = <<Head(t)>> \o Tail(t)
<1> DEFINE u == <<Head(t)>> \o Tail(t)
<1>1. /\ Head(t) = t[1] /\ Len(t) \in Nat \ {0} /\ IsProg(Tail(t)) /\ Len(Tail(t)) = Len(t) - 1
      /\ \A i \in 1 .. Len(t) - 1 : Tail(t)[i] = t[i + 1]
  BY TailIs
<1>2. /\ IsProg(u) /\ Len(u) = 1 + (Len(t) - 1)
      /\ \A i \in 1 .. 1 + (Len(t) - 1) : u[i] = IF i <= 1 THEN t[1] ELSE Tail(t)[i - 1]
  BY <1>1, OneIs, CatIs
<1> HIDE DEF u
<1>3. Len(u) = Len(t) /\ \A i \in 1 .. Len(t) : u[i] = t[i]
  <2>1. Len(u) = Len(t)
    BY <1>1, <1>2
  <2> SUFFICES ASSUME NEW i \in 1 .. Len(t) PROVE u[i] = t[i]
    BY <2>1
  <2>2. CASE i = 1
    BY <1>1, <1>2, <2>2
  <2>3. CASE i # 1
    <3>1. i - 1 \in 1 .. Len(t) - 1 /\ (i - 1) + 1 = i /\ ~(i <= 1) /\ i \in 1 .. 1 + (Len(t) - 1)
      BY <1>1, <2>3
    <3> QED BY <1>1, <1>2, <3>1
  <2> QED BY <2>2, <2>3
<1>4. u = [i \in 1 .. Len(u) |-> u[i]] /\ t = [i \in 1 .. Len(t) |-> t[i]]
  BY <1>2, ProgIs
<1>5. u = t
  BY <1>3, <1>4
<1> QED BY <1>5 DEF u

\* A step and a program, for instantiation.
LEMMA Cons ==
  /\ \A x : /\ IsProg(<<x>>) /\ <<x>> # <<>> /\ Head(<<x>>) = x /\ Tail(<<x>>) = <<>>
            /\ Marks(<<x>>) = {Label(x)} /\ Elems(<<x>>) = {x}
  /\ \A x, b : IsProg(b) =>
       /\ IsProg(<<x>> \o b) /\ <<x>> \o b # <<>> /\ Head(<<x>> \o b) = x /\ Tail(<<x>> \o b) = b
       /\ Marks(<<x>> \o b) = {Label(x)} \union Marks(b)
       /\ Elems(<<x>> \o b) = {x} \union Elems(b)
<1>1. ASSUME NEW x PROVE Cons!1!(x)
  BY OneIs, MarksOf
<1>2. ASSUME NEW x, NEW b, IsProg(b) PROVE Cons!2!(x, b)!2
  BY <1>2, ConsIs, MarksOf
<1> QED BY <1>1, <1>2

\* The middle of a program, and what follows.
LEMMA BodyIs ==
  ASSUME NEW M, IsProg(M)
  PROVE  /\ IsProg(Body(M)) /\ Body(M) # <<>>
         /\ Marks(Body(M)) = Marks(M) \union {"READY"}
         /\ M = <<>> => Head(Body(M)) = To("READY") /\ Tail(Body(M)) = <<>>
         /\ M # <<>> => /\ Head(Body(M)) = Head(M) /\ Tail(Body(M)) = Body(Tail(M))
                        /\ IsProg(Tail(M)) /\ Elems(M) = {Head(M)} \union Elems(Tail(M))
<1> DEFINE r == JustReady
<1>0. IsProg(r) /\ r # <<>> /\ Head(r) = To("READY") /\ Tail(r) = <<>> /\ Marks(r) = {"READY"}
  <2>1. /\ IsProg(r) /\ r # <<>> /\ Head(r) = To("READY") /\ Tail(r) = <<>>
        /\ Marks(r) = {Label(To("READY"))}
    BY Cons DEF JustReady
  <2>2. Label(To("READY")) = "READY"
    BY StepsAre
  <2> QED BY <2>1, <2>2
<1> HIDE DEF r
<1>1. IsProg(M \o r) /\ Marks(M \o r) = Marks(M) \union {"READY"}
  BY <1>0, CatIs, MarksOf
<1>2. CASE M = <<>>
  <2>1. M \o r = r
    <3>1. r \in Seq(Elems(r))
      BY <1>0 DEF IsProg
    <3> QED BY <1>2, <3>1
  <2> QED BY <1>0, <1>1, <1>2, <2>1 DEF Body, r
<1>3. CASE M # <<>>
  <2> DEFINE h == <<Head(M)>>
             m == Tail(M)
  <2>1. M = h \o m /\ IsProg(m) /\ Elems(M) = {Head(M)} \union Elems(m) /\ IsProg(h)
    BY <1>3, SplitIs, TailIs, Cons
  <2>2. M \o r = h \o (m \o r)
    <3> HIDE DEF h, m
    <3>1. (h \o m) \o r = h \o (m \o r)
      BY <1>0, <2>1, Associative
    <3> QED BY <2>1, <3>1, Zenon
  <2>3. IsProg(m \o r)
    BY <1>0, <2>1, CatIs
  <2>4. Head(M \o r) = Head(M) /\ Tail(M \o r) = m \o r /\ M \o r # <<>>
    BY <2>2, <2>3, Cons
  <2>5. Body(M) = M \o r /\ Body(Tail(M)) = m \o r
    BY DEF Body, r
  <2> HIDE DEF h
  <2>6. Head(Body(M)) = Head(M) /\ Tail(Body(M)) = Body(Tail(M)) /\ Body(M) # <<>>
    BY <2>4, <2>5, Zenon
  <2>7. IsProg(Tail(M)) /\ Elems(M) = {Head(M)} \union Elems(Tail(M))
    BY <2>1
  <2>8. IsProg(Body(M)) /\ Marks(Body(M)) = Marks(M) \union {"READY"}
    BY <1>1, <2>5, Zenon
  <2> QED BY <1>3, <2>6, <2>7, <2>8, Zenon
<1> QED BY <1>2, <1>3

Known(t, x, b, m) == IsProg(t) /\ t # <<>> /\ Head(t) = x /\ Tail(t) = b /\ Marks(t) = m

LEMMA KnownIs ==
  /\ \A x : Known(<<x>>, x, <<>>, {Label(x)})
  /\ \A x, b : IsProg(b) => Known(<<x>> \o b, x, b, {Label(x)} \union Marks(b))
  BY Cons DEF Known

\* The programs that are made of single steps.
LEMMA Singles ==
  /\ Known(JustInitial, To("INITIAL"), <<>>, {"INITIAL"})
  /\ Known(JustReady, To("READY"), <<>>, {"READY"})
  /\ Known(JustRelease, Release, <<>>, {"release"})
  /\ Known(StopBuffers, Release, JustReady, {"release", "READY"})
  /\ Known(VoxelFailed, To("INITIAL"), JustRelease, {"INITIAL", "release"})
<1>1. ASSUME NEW x PROVE Known(<<x>>, x, <<>>, {Label(x)})
  BY KnownIs
<1>2. ASSUME NEW x, NEW t, NEW y, NEW b, NEW m, Known(t, y, b, m)
      PROVE  Known(<<x>> \o t, x, t, {Label(x)} \union m)
  BY <1>2, KnownIs DEF Known
<1>3. Label(To("INITIAL")) = "INITIAL" /\ Label(To("READY")) = "READY" /\ Label(Release) = "release"
  BY StepsAre
<1>4. /\ Known(JustInitial, To("INITIAL"), <<>>, {Label(To("INITIAL"))})
      /\ Known(JustReady, To("READY"), <<>>, {Label(To("READY"))})
      /\ Known(JustRelease, Release, <<>>, {Label(Release)})
  BY <1>1 DEF JustInitial, JustReady, JustRelease
<1>5. /\ Known(StopBuffers, Release, JustReady, {Label(Release)} \union {Label(To("READY"))})
      /\ Known(VoxelFailed, To("INITIAL"), JustRelease,
               {Label(To("INITIAL"))} \union {Label(Release)})
  BY <1>2, <1>4 DEF VoxelFailed, StopBuffers
<1>6. /\ {Label(Release)} \union {Label(To("READY"))} = {"release", "READY"}
      /\ {Label(To("INITIAL"))} \union {Label(Release)} = {"INITIAL", "release"}
  BY <1>3
<1> QED BY <1>3, <1>4, <1>5, <1>6

LEMMA Pieces ==
  ASSUME NEW p
  PROVE  /\ Known(JustDeinit(p), Deinit(p), <<>>, {"deinit"})
         /\ Known(UndoBuffers(p), Release, JustDeinit(p), {"release", "deinit"})
         /\ Known(VoxelUndone(p), To("INITIAL"), UndoBuffers(p), {"INITIAL", "release", "deinit"})
         /\ Known(Ending(p), Deinit(p), JustInitial, {"deinit", "INITIAL"})
         /\ Known(EndWorkers(p), Destroys("worker"), Ending(p), {"destroy", "deinit", "INITIAL"})
         /\ Known(EndMaps(p), Destroys("map"), EndWorkers(p), {"destroy", "deinit", "INITIAL"})
         /\ Known(EndPreProc(p), Destroys("preproc"), Ending(p), {"destroy", "deinit", "INITIAL"})
         /\ Known(EndBuffers(p), Release, EndPreProc(p),
                  {"release", "destroy", "deinit", "INITIAL"})
<1>1. Known(JustDeinit(p), Deinit(p), <<>>, {Label(Deinit(p))})
  BY KnownIs DEF JustDeinit
<1>2. ASSUME NEW x, NEW t, NEW y, NEW b, NEW m, Known(t, y, b, m)
      PROVE  Known(<<x>> \o t, x, t, {Label(x)} \union m)
  BY <1>2, KnownIs DEF Known
<1>3. /\ Label(Deinit(p)) = "deinit" /\ Label(Release) = "release"
      /\ Label(To("INITIAL")) = "INITIAL" /\ \A k : Label(Destroys(k)) = "destroy"
  BY StepsAre
<1>4. Known(UndoBuffers(p), Release, JustDeinit(p), {Label(Release)} \union {Label(Deinit(p))})
  BY <1>1, <1>2 DEF UndoBuffers
<1>5. Known(VoxelUndone(p), To("INITIAL"), UndoBuffers(p),
            {Label(To("INITIAL"))} \union ({Label(Release)} \union {Label(Deinit(p))}))
  BY <1>2, <1>4 DEF VoxelUndone
<1>6. Known(Ending(p), Deinit(p), JustInitial, {Label(Deinit(p))} \union {"INITIAL"})
  BY <1>2, Singles DEF Ending
<1> DEFINE ends(x) == {Label(x)} \union ({Label(Deinit(p))} \union {"INITIAL"})
<1>7. /\ Known(EndWorkers(p), Destroys("worker"), Ending(p), ends(Destroys("worker")))
      /\ Known(EndPreProc(p), Destroys("preproc"), Ending(p), ends(Destroys("preproc")))
  BY <1>2, <1>6 DEF EndWorkers, EndPreProc
<1>8. /\ Known(EndMaps(p), Destroys("map"), EndWorkers(p),
               {Label(Destroys("map"))} \union ends(Destroys("worker")))
      /\ Known(EndBuffers(p), Release, EndPreProc(p),
               {Label(Release)} \union ends(Destroys("preproc")))
  BY <1>2, <1>7 DEF EndMaps, EndBuffers
<1>9. /\ {Label(Deinit(p))} = {"deinit"}
      /\ {Label(Release)} \union {Label(Deinit(p))} = {"release", "deinit"}
      /\ {Label(To("INITIAL"))} \union ({Label(Release)} \union {Label(Deinit(p))})
           = {"INITIAL", "release", "deinit"}
      /\ {Label(Deinit(p))} \union {"INITIAL"} = {"deinit", "INITIAL"}
      /\ ends(Destroys("worker")) = {"destroy", "deinit", "INITIAL"}
      /\ ends(Destroys("preproc")) = {"destroy", "deinit", "INITIAL"}
      /\ {Label(Destroys("map"))} \union ends(Destroys("worker")) = {"destroy", "deinit", "INITIAL"}
      /\ {Label(Release)} \union ends(Destroys("preproc"))
           = {"release", "destroy", "deinit", "INITIAL"}
  BY <1>3
<1> HIDE DEF ends
<1> QED BY <1>1, <1>4, <1>5, <1>6, <1>7, <1>8, <1>9

RemapMarks == {"worker", "map", "buffermap", "reg", "try", "dereg"}
VoxelMarks == {"buffermap", "keep"}

LEMMA MiddleMarks ==
  /\ \A p, M : RemapMiddle(p, M) => Marks(M) \subseteq RemapMarks
  /\ \A p, M : VoxelMiddle(p, M) => Marks(M) \subseteq VoxelMarks
  /\ \A p, s, t : Framing(p, s, t) => Marks(t) \subseteq {"reg", "keep", "run", "kernels"}
  /\ \A p, t : Undoing(p, t) => Marks(t) \subseteq {"dereg"}
<1>1. \A p, x : RemapStep(p, x) => Label(x) \in RemapMarks
  BY DEF RemapStep, RemapMarks, Undoes, Label
<1>2. \A p, x : VoxelStep(p, x) => Label(x) \in VoxelMarks
  BY DEF VoxelStep, VoxelMarks, Label
<1>3. \A p, x : FrameStep(p, x) => Label(x) \in {"reg", "keep", "run", "kernels"}
  BY DEF FrameStep, Label
<1>4. \A p, x : Undoes(p, x) => Label(x) = "dereg"
  BY DEF Undoes, Label
<1> QED BY <1>1, <1>2, <1>3, <1>4 DEF RemapMiddle, VoxelMiddle, Framing, Undoing, Marks

\* The programs of Initialize.
LEMMA RemapPieces ==
  ASSUME NEW p, NEW M, RemapMiddle(p, M)
  PROVE  /\ IsProg(Body(M)) /\ Body(M) # <<>>
         /\ Known(RemapParams(p, M), Params(p), Body(M), {"params"} \union Marks(Body(M)))
         /\ Known(RemapProgram(p, M), InitOf(p, <<>>), RemapParams(p, M),
                  {"init", "params"} \union Marks(Body(M)))
         /\ "READY" \in Marks(Body(M)) /\ Marks(Body(M)) \subseteq RemapMarks \union {"READY"}
         /\ Params(p).op = "params" /\ InitOf(p, <<>>).op = "init"
         /\ Params(p).instead = <<>> /\ InitOf(p, <<>>).instead = <<>>
<1>1. IsProg(M) /\ Marks(M) \subseteq RemapMarks
  BY MiddleMarks DEF RemapMiddle
<1>2. IsProg(Body(M)) /\ Body(M) # <<>> /\ Marks(Body(M)) = Marks(M) \union {"READY"}
  BY <1>1, BodyIs
<1>3. /\ Params(p).op = "params" /\ Label(Params(p)) = "params" /\ Params(p).instead = <<>>
      /\ InitOf(p, <<>>).op = "init" /\ Label(InitOf(p, <<>>)) = "init" /\ InitOf(p, <<>>).instead = <<>>
  BY StepsAre DEF Params, InitOf
<1>4. Known(RemapParams(p, M), Params(p), Body(M), {"params"} \union Marks(Body(M)))
  BY <1>2, <1>3, KnownIs DEF RemapParams
<1>5. Known(RemapProgram(p, M), InitOf(p, <<>>), RemapParams(p, M),
            {"init"} \union Marks(RemapParams(p, M)))
  BY <1>3, <1>4, KnownIs DEF RemapProgram, Known
<1>6. {"init"} \union Marks(RemapParams(p, M)) = {"init", "params"} \union Marks(Body(M))
  BY <1>4 DEF Known
<1> QED BY <1>1, <1>2, <1>3, <1>4, <1>5, <1>6

LEMMA VoxelPieces ==
  ASSUME NEW p, NEW M, VoxelMiddle(p, M)
  PROVE  /\ IsProg(Body(M)) /\ Body(M) # <<>>
         /\ Known(VoxelCreate(p, M), Create(p), Body(M), {"create"} \union Marks(Body(M)))
         /\ Known(VoxelInit(p, M), InitOf(p, VoxelFailed), VoxelCreate(p, M),
                  {"init", "create"} \union Marks(Body(M)))
         /\ Known(VoxelProgram(p, M), To("INITIALIZING"), VoxelInit(p, M),
                  {"INITIALIZING", "init", "create"} \union Marks(Body(M)))
         /\ "READY" \in Marks(Body(M)) /\ Marks(Body(M)) \subseteq VoxelMarks \union {"READY"}
         /\ Create(p).op = "create" /\ InitOf(p, VoxelFailed).op = "init"
         /\ Create(p).instead = VoxelUndone(p) /\ InitOf(p, VoxelFailed).instead = VoxelFailed
<1>1. IsProg(M) /\ Marks(M) \subseteq VoxelMarks
  BY MiddleMarks DEF VoxelMiddle
<1>2. IsProg(Body(M)) /\ Body(M) # <<>> /\ Marks(Body(M)) = Marks(M) \union {"READY"}
  BY <1>1, BodyIs
<1>3. /\ Create(p).op = "create" /\ Label(Create(p)) = "create" /\ Create(p).instead = VoxelUndone(p)
      /\ InitOf(p, VoxelFailed).op = "init" /\ Label(InitOf(p, VoxelFailed)) = "init"
      /\ InitOf(p, VoxelFailed).instead = VoxelFailed
      /\ Label(To("INITIALIZING")) = "INITIALIZING"
  BY StepsAre DEF Create, InitOf
<1>4. Known(VoxelCreate(p, M), Create(p), Body(M), {"create"} \union Marks(Body(M)))
  BY <1>2, <1>3, KnownIs DEF VoxelCreate
<1>5. Known(VoxelInit(p, M), InitOf(p, VoxelFailed), VoxelCreate(p, M),
            {"init", "create"} \union Marks(Body(M)))
  <2>1. Known(VoxelInit(p, M), InitOf(p, VoxelFailed), VoxelCreate(p, M),
              {"init"} \union Marks(VoxelCreate(p, M)))
    BY <1>3, <1>4, KnownIs DEF VoxelInit, Known
  <2>2. {"init"} \union Marks(VoxelCreate(p, M)) = {"init", "create"} \union Marks(Body(M))
    BY <1>4 DEF Known
  <2> QED BY <2>1, <2>2
<1>6. Known(VoxelProgram(p, M), To("INITIALIZING"), VoxelInit(p, M),
            {"INITIALIZING", "init", "create"} \union Marks(Body(M)))
  <2>1. Known(VoxelProgram(p, M), To("INITIALIZING"), VoxelInit(p, M),
              {"INITIALIZING"} \union Marks(VoxelInit(p, M)))
    BY <1>3, <1>5, KnownIs DEF VoxelProgram, Known
  <2>2. {"INITIALIZING"} \union Marks(VoxelInit(p, M))
          = {"INITIALIZING", "init", "create"} \union Marks(Body(M))
    BY <1>5 DEF Known
  <2> QED BY <2>1, <2>2
<1> QED BY <1>1, <1>2, <1>3, <1>4, <1>5, <1>6

-----------------------------------------------------------------------------
(***************************************************************************)
(* From step to step: where a node is after a step it is at, and whether   *)
(* it uses the service and goes on to work then.                           *)
(***************************************************************************)
\* The step before the last, or the last.
LEMMA BodyHead ==
  ASSUME NEW p, NEW M, RemapMiddle(p, M) \/ VoxelMiddle(p, M)
  PROVE  \/ M = <<>> /\ Head(Body(M)) = To("READY") /\ Tail(Body(M)) = <<>>
         \/ /\ M # <<>> /\ Tail(Body(M)) = Body(Tail(M)) /\ Head(Body(M)) = Head(M)
            /\ Head(M).op # "state"
            /\ RemapMiddle(p, M) => RemapStep(p, Head(M)) /\ RemapMiddle(p, Tail(M))
            /\ VoxelMiddle(p, M) => VoxelStep(p, Head(M)) /\ VoxelMiddle(p, Tail(M))
<1>1. IsProg(M)
  BY DEF RemapMiddle, VoxelMiddle
<1>2. CASE M = <<>>
  BY <1>1, <1>2, BodyIs
<1>3. CASE M # <<>>
  <2>1. /\ Head(Body(M)) = Head(M) /\ Tail(Body(M)) = Body(Tail(M))
        /\ IsProg(Tail(M)) /\ Elems(M) = {Head(M)} \union Elems(Tail(M))
    BY <1>1, <1>3, BodyIs
  <2>2. RemapMiddle(p, M) => RemapStep(p, Head(M)) /\ RemapMiddle(p, Tail(M))
    BY <2>1 DEF RemapMiddle
  <2>3. VoxelMiddle(p, M) => VoxelStep(p, Head(M)) /\ VoxelMiddle(p, Tail(M))
    BY <2>1 DEF VoxelMiddle
  <2>4. Head(M).op # "state"
    BY <2>2, <2>3 DEF RemapStep, VoxelStep, Undoes
  <2> QED BY <1>3, <2>1, <2>2, <2>3, <2>4
<1> QED BY <1>2, <1>3

LEMMA BodyReady ==
  ASSUME NEW p, NEW M, RemapMiddle(p, M) \/ VoxelMiddle(p, M), Head(Body(M)).op = "state"
  PROVE  Head(Body(M)).arg = "READY" /\ Tail(Body(M)) = <<>>
<1>1. Head(Body(M)) = To("READY") /\ Tail(Body(M)) = <<>>
  <2>1. M # <<>> => Head(Body(M)) = Head(M) /\ Head(M).op # "state"
    BY BodyHead
  <2>2. M = <<>> => Head(Body(M)) = To("READY") /\ Tail(Body(M)) = <<>>
    BY BodyIs DEF RemapMiddle, VoxelMiddle
  <2> QED BY <2>1, <2>2
<1>2. To("READY").arg = "READY"
  BY StepsAre
<1> QED BY <1>1, <1>2

LEMMA PhaseProg ==
  ASSUME NEW p, NEW s, NEW t, NEW tab, Phase(p, s, t, tab)
  PROVE  IsProg(t)
<1>1. CASE t = <<>>
  BY <1>1, NoneIs
<1>2. CASE Framing(p, s, t) \/ RemapFailing(p, s, t)
  BY <1>2 DEF Framing, RemapFailing, Undoing
<1>3. CASE Stopping(p, s, t)
  BY <1>3, Singles DEF Stopping, Known
<1>6. CASE RemapEnding(p, s, t)
  BY <1>6, Singles, Pieces DEF RemapEnding, Known
<1>7. CASE VoxelEnding(p, s, t, tab)
  BY <1>7, Singles, Pieces DEF VoxelEnding, Known
<1>8. CASE VoxelFailing(p, s, t, tab)
  BY <1>8, Singles, Pieces DEF VoxelFailing, Known
<1>4. CASE RemapStarting(p, s, t)
  BY <1>4, RemapPieces DEF RemapStarting, Known
<1>5. CASE VoxelStarting(p, s, t, tab)
  BY <1>5, VoxelPieces DEF VoxelStarting, Known
<1> QED BY <1>1, <1>2, <1>3, <1>4, <1>5, <1>6, <1>7, <1>8 DEF Phase, Resting

LEMMA StateNext ==
  ASSUME NEW p, NEW s, NEW t, NEW tab, Phase(p, s, t, tab), t # <<>>, Head(t).op = "state",
         NEW a, a = Head(t).arg
  PROVE  /\ a \in {"READY", "INITIAL", "INITIALIZING"}
         /\ Phase(p, a, Tail(t), tab)
         /\ Uses(p, a, Tail(t)) <=> Uses(p, s, t)
         /\ Serves(p, a, Tail(t)) => Serves(p, s, t)
<1>0. Marks(<<>>) = {}
  BY MarksOf
<1>9. /\ To("INITIAL").arg = "INITIAL" /\ To("READY").arg = "READY"
      /\ To("INITIALIZING").arg = "INITIALIZING"
  BY StepsAre
<1>1. CASE Framing(p, s, t)
  <2>1. Head(t) \in Elems(t)
    BY <1>1, TailIs DEF Framing
  <2> QED BY <1>1, <2>1 DEF Framing, FrameStep
<1>2. CASE Stopping(p, s, t)
  <2>1. t = JustReady
    BY <1>2, Singles, Pieces, StepsAre DEF Stopping, Known
  <2>2. a = "READY" /\ Tail(t) = <<>> /\ Marks(t) = {"READY"} /\ s = "RUNNING"
    BY <1>2, <2>1, Singles, Pieces, StepsAre DEF Stopping, Known
  <2> QED BY <1>0, <2>2 DEF Phase, Resting, Uses, Serves
<1>3. CASE RemapStarting(p, s, t)
  <2>1. PICK M : /\ RemapMiddle(p, M)
                 /\ t = RemapProgram(p, M) \/ t = RemapParams(p, M) \/ t = Body(M)
    BY <1>3 DEF RemapStarting
  <2>2. t = Body(M)
    BY <2>1, RemapPieces DEF Known
  <2>3. a = "READY" /\ Tail(t) = <<>>
    BY <2>1, <2>2, BodyReady
  <2>4. "READY" \in Marks(t) /\ Marks(t) \subseteq RemapMarks \union {"READY"}
    BY <2>1, <2>2, RemapPieces
  <2> QED BY <1>0, <1>3, <2>3, <2>4 DEF Phase, Resting, Uses, Serves, RemapStarting, OpenCL, RemapMarks
<1>4. CASE RemapFailing(p, s, t)
  <2>1. Head(t) \in Elems(t)
    BY <1>4, TailIs DEF RemapFailing, Undoing
  <2> QED BY <1>4, <2>1 DEF RemapFailing, Undoing, Undoes
<1>5. CASE RemapEnding(p, s, t) \/ VoxelEnding(p, s, t, tab)
  <2>0. /\ Release.op # "state" /\ Deinit(p).op # "state" /\ Destroys("map").op # "state"
        /\ Destroys("worker").op # "state" /\ Destroys("preproc").op # "state"
    BY StepsAre
  <2>1. t = JustInitial /\ tab = {}
    BY <1>5, <2>0, Pieces DEF RemapEnding, VoxelEnding, Known, Phase
  <2>2. a = "INITIAL" /\ Tail(t) = <<>> /\ Marks(t) = {"INITIAL"}
    BY <2>1, Singles, Pieces, StepsAre DEF Known
  <2> QED BY <1>0, <2>1, <2>2 DEF Phase, Resting, Uses, Serves
<1>6. CASE VoxelStarting(p, s, t, tab)
  <2>1. PICK M : /\ VoxelMiddle(p, M)
                 /\ \/ s = "INITIAL" /\ tab = {} /\ t = VoxelProgram(p, M)
                    \/ s = "INITIALIZING" /\ tab = {} /\ (t = VoxelInit(p, M) \/ t = VoxelCreate(p, M))
                    \/ s = "INITIALIZING" /\ t = Body(M)
    BY <1>6 DEF VoxelStarting
  <2>2. "READY" \in Marks(Body(M)) /\ Marks(Body(M)) \subseteq VoxelMarks \union {"READY"}
    BY <2>1, VoxelPieces
  <2>3. CASE t = Body(M) /\ s = "INITIALIZING"
    <3>1. a = "READY" /\ Tail(t) = <<>>
      BY <2>1, <2>3, BodyReady
    <3> QED BY <1>0, <2>2, <2>3, <3>1 DEF Phase, Resting, Uses, Serves, VoxelMarks
  <2>4. CASE t = VoxelProgram(p, M) /\ tab = {} /\ s = "INITIAL"
    <3>0. Known(VoxelProgram(p, M), To("INITIALIZING"), VoxelInit(p, M),
                {"INITIALIZING", "init", "create"} \union Marks(Body(M)))
          /\ Known(VoxelInit(p, M), InitOf(p, VoxelFailed), VoxelCreate(p, M),
                {"init", "create"} \union Marks(Body(M)))
      BY <2>1, VoxelPieces
    <3>1. /\ a = "INITIALIZING" /\ Tail(t) = VoxelInit(p, M)
          /\ Marks(t) = {"INITIALIZING", "init", "create"} \union Marks(Body(M))
          /\ Marks(Tail(t)) = {"init", "create"} \union Marks(Body(M))
      BY <1>9, <2>4, <3>0 DEF Known
    <3>2. Phase(p, a, Tail(t), tab)
      BY <1>6, <2>1, <2>4, <3>1 DEF Phase, VoxelStarting
    <3> QED BY <2>2, <2>4, <3>1, <3>2 DEF Uses, Serves, VoxelMarks
  <2>5. ~(t = VoxelInit(p, M) \/ t = VoxelCreate(p, M))
    BY <2>1, VoxelPieces DEF Known
  <2> QED BY <2>1, <2>3, <2>4, <2>5
<1>7. CASE VoxelFailing(p, s, t, tab)
  <2>1. t = VoxelUndone(p) \/ t = VoxelFailed
    BY <1>7, Singles, Pieces, StepsAre DEF VoxelFailing, Known
  <2>2. CASE t = VoxelUndone(p)
    <3>1. /\ a = "INITIAL" /\ Tail(t) = UndoBuffers(p)
          /\ Marks(t) = {"INITIAL", "release", "deinit"} /\ Marks(Tail(t)) = {"release", "deinit"}
      BY <1>9, <2>2, Pieces DEF Known
    <3> QED BY <1>7, <3>1 DEF Phase, VoxelFailing, Uses, Serves
  <2>3. CASE t = VoxelFailed
    <3>1. /\ a = "INITIAL" /\ Tail(t) = JustRelease
          /\ Marks(t) = {"INITIAL", "release"} /\ Marks(Tail(t)) = {"release"}
      BY <1>9, <2>3, Singles DEF Known
    <3> QED BY <1>7, <3>1 DEF Phase, VoxelFailing, Uses, Serves
  <2> QED BY <2>1, <2>2, <2>3
<1> QED BY <1>1, <1>2, <1>3, <1>4, <1>5, <1>6, <1>7 DEF Phase, Resting

LEMMA TabShrinks ==
  ASSUME NEW p, NEW s, NEW t, NEW tab, Phase(p, s, t, tab), NEW less, less \subseteq tab
  PROVE  Phase(p, s, t, less)
<1>1. tab = {} => less = {}
  OBVIOUS
<1>2. less \subseteq Fadas!KeepAddrs(p)
  BY DEF Phase
<1>3. Resting(s, t, tab) => Resting(s, t, less)
  BY <1>1 DEF Resting
<1>4. VoxelStarting(p, s, t, tab) => VoxelStarting(p, s, t, less)
  BY <1>1 DEF VoxelStarting
<1>5. VoxelFailing(p, s, t, tab) => VoxelFailing(p, s, t, less)
  BY <1>1 DEF VoxelFailing
<1>6. VoxelEnding(p, s, t, tab) => VoxelEnding(p, s, t, less)
  BY <1>1 DEF VoxelEnding
<1> QED BY <1>1, <1>2, <1>3, <1>4, <1>5, <1>6 DEF Phase

\* What a node in a phase may do next.
LEMMA HeadOps ==
  ASSUME NEW p, NEW s, NEW t, NEW tab, Phase(p, s, t, tab), t # <<>>
  PROVE  /\ ~Resting(s, t, tab)
         /\ Framing(p, s, t) => FrameStep(p, Head(t)) /\ Framing(p, s, Tail(t))
         /\ RemapFailing(p, s, t) => Undoes(p, Head(t)) /\ RemapFailing(p, s, Tail(t))
         /\ Stopping(p, s, t) => Head(t).op \in {"release", "state"}
         /\ RemapStarting(p, s, t) => Head(t).op \in {"init", "params", "state"} \union RemapMarks
         /\ VoxelStarting(p, s, t, tab) =>
              Head(t).op \in {"init", "create", "state"} \union VoxelMarks
         /\ RemapEnding(p, s, t) => Head(t).op \in {"destroy", "deinit", "state"}
         /\ VoxelFailing(p, s, t, tab) => Head(t).op \in {"release", "deinit", "state"}
         /\ VoxelEnding(p, s, t, tab) => Head(t).op \in {"release", "destroy", "deinit", "state"}
<1>0. /\ Release.op = "release" /\ Deinit(p).op = "deinit" /\ \A k : Destroys(k).op = "destroy"
      /\ \A k : To(k).op = "state"
  BY StepsAre
<1>1. Head(t) \in Elems(t) /\ IsProg(Tail(t)) /\ Elems(Tail(t)) \subseteq Elems(t)
  BY PhaseProg, TailIs
<1>2. Framing(p, s, t) => FrameStep(p, Head(t)) /\ Framing(p, s, Tail(t))
  BY <1>1 DEF Framing
<1>3. RemapFailing(p, s, t) => Undoes(p, Head(t)) /\ RemapFailing(p, s, Tail(t))
  BY <1>1 DEF RemapFailing, Undoing
<1>4. Stopping(p, s, t) => Head(t).op \in {"release", "state"}
  BY <1>0, Singles DEF Stopping, Known
<1>5. RemapStarting(p, s, t) => Head(t).op \in {"init", "params", "state"} \union RemapMarks
  <2> SUFFICES ASSUME NEW M, RemapMiddle(p, M),
                      t = RemapProgram(p, M) \/ t = RemapParams(p, M) \/ t = Body(M)
               PROVE  Head(t).op \in {"init", "params", "state"} \union RemapMarks
    BY DEF RemapStarting
  <2>1. CASE t = Body(M)
    <3>1. Head(t) = To("READY") \/ RemapStep(p, Head(t))
      BY <2>1, BodyHead
    <3> QED BY <1>0, <3>1 DEF RemapStep, Undoes, RemapMarks
  <2>2. CASE t = RemapProgram(p, M) \/ t = RemapParams(p, M)
    BY <2>2, RemapPieces DEF Known
  <2> QED BY <2>1, <2>2
<1>6. VoxelStarting(p, s, t, tab) => Head(t).op \in {"init", "create", "state"} \union VoxelMarks
  <2> SUFFICES ASSUME NEW M, VoxelMiddle(p, M),
                      t = VoxelProgram(p, M) \/ t = VoxelInit(p, M) \/ t = VoxelCreate(p, M)
                        \/ t = Body(M)
               PROVE  Head(t).op \in {"init", "create", "state"} \union VoxelMarks
    BY DEF VoxelStarting
  <2>1. CASE t = Body(M)
    <3>1. Head(t) = To("READY") \/ VoxelStep(p, Head(t))
      BY <2>1, BodyHead
    <3> QED BY <1>0, <3>1 DEF VoxelStep, VoxelMarks
  <2>2. CASE t = VoxelInit(p, M) \/ t = VoxelCreate(p, M)
    BY <2>2, VoxelPieces DEF Known
  <2>3. CASE t = VoxelProgram(p, M)
    <3>1. Head(t) = To("INITIALIZING")
      BY <2>3, VoxelPieces DEF Known
    <3> QED BY <1>0, <3>1
  <2> QED BY <2>1, <2>2, <2>3
<1>7. RemapEnding(p, s, t) => Head(t).op \in {"destroy", "deinit", "state"}
  BY <1>0, Singles, Pieces DEF RemapEnding, Known
<1>8. VoxelFailing(p, s, t, tab) => Head(t).op \in {"release", "deinit", "state"}
  BY <1>0, Singles, Pieces DEF VoxelFailing, Known
<1>9. VoxelEnding(p, s, t, tab) => Head(t).op \in {"release", "destroy", "deinit", "state"}
  BY <1>0, Singles, Pieces DEF VoxelEnding, Known
<1> QED BY <1>2, <1>3, <1>4, <1>5, <1>6, <1>7, <1>8, <1>9 DEF Resting

LEMMA ReleaseNext ==
  ASSUME NEW p, NEW s, NEW t, Phase(p, s, t, {}), t # <<>>, Head(t).op = "release"
  PROVE  /\ Phase(p, s, Tail(t), {})
         /\ Uses(p, s, Tail(t)) <=> Uses(p, s, t)
         /\ Serves(p, s, Tail(t)) => Serves(p, s, t)
<1>0. /\ Marks(<<>>) = {}
      /\ \A k : To(k).op # "release" /\ Deinit(p).op # "release" /\ Destroys(k).op # "release"
  BY MarksOf, StepsAre
<1>1. Stopping(p, s, t) \/ VoxelFailing(p, s, t, {}) \/ VoxelEnding(p, s, t, {})
  BY HeadOps DEF Phase, FrameStep, Undoes, RemapMarks, VoxelMarks
<1>2. CASE Stopping(p, s, t)
  <2>1. \/ Tail(t) = JustReady /\ Marks(t) = {"release", "READY"}
        \/ Tail(t) = <<>> /\ Marks(t) = {"release"}
    BY <1>0, <1>2, Singles DEF Stopping, Known
  <2>2. Marks(JustReady) = {"READY"}
    BY Singles DEF Known
  <2> QED BY <1>0, <1>2, <2>1, <2>2 DEF Phase, Stopping, Resting, Uses, Serves
<1>3. CASE VoxelFailing(p, s, t, {})
  <2>0. s = "INITIAL" /\ (t = UndoBuffers(p) \/ t = JustRelease)
    BY <1>0, <1>3, Singles, Pieces DEF VoxelFailing, Known
  <2>1. \/ Tail(t) = JustDeinit(p) /\ Marks(t) = {"release", "deinit"}
        \/ Tail(t) = <<>> /\ Marks(t) = {"release"}
    BY <2>0, Singles, Pieces, SMTT(30) DEF Known
  <2>2. Marks(JustDeinit(p)) = {"deinit"}
    BY Pieces DEF Known
  <2> QED BY <1>0, <1>3, <2>0, <2>1, <2>2 DEF Phase, VoxelFailing, Resting, Uses, Serves
<1>4. CASE VoxelEnding(p, s, t, {})
  <2>0. t = EndBuffers(p)
    BY <1>0, <1>4, Singles, Pieces DEF VoxelEnding, Known
  <2>1. /\ Tail(t) = EndPreProc(p) /\ Marks(t) = {"release", "destroy", "deinit", "INITIAL"}
        /\ Marks(Tail(t)) = {"destroy", "deinit", "INITIAL"}
    BY <2>0, Pieces DEF Known
  <2> QED BY <1>4, <2>1 DEF Phase, VoxelEnding, Uses, Serves
<1> QED BY <1>1, <1>2, <1>3, <1>4

LEMMA DestroyNext ==
  ASSUME NEW p, NEW s, NEW t, NEW tab, Phase(p, s, t, tab), t # <<>>, Head(t).op = "destroy"
  PROVE  /\ Phase(p, s, Tail(t), tab)
         /\ Uses(p, s, Tail(t)) <=> Uses(p, s, t)
         /\ ~Serves(p, s, Tail(t)) /\ ~Serves(p, s, t)
<1>0. \A k : To(k).op # "destroy" /\ Deinit(p).op # "destroy" /\ Release.op # "destroy"
  BY StepsAre
<1>1. RemapEnding(p, s, t) \/ VoxelEnding(p, s, t, tab)
  BY HeadOps DEF Phase, FrameStep, Undoes, RemapMarks, VoxelMarks
<1>2. CASE RemapEnding(p, s, t)
  <2>1. t = EndMaps(p) \/ t = EndWorkers(p)
    BY <1>0, <1>2, Singles, Pieces DEF RemapEnding, Known
  <2>2. /\ Tail(t) = EndWorkers(p) \/ Tail(t) = Ending(p)
        /\ "deinit" \in Marks(t) /\ "deinit" \in Marks(Tail(t))
    BY <2>1, Pieces, ZenonT(30) DEF Known
  <2> QED BY <1>2, <2>2 DEF Phase, RemapEnding, Uses, Serves
<1>3. CASE VoxelEnding(p, s, t, tab)
  <2>1. t = EndPreProc(p) /\ tab = {}
    BY <1>0, <1>3, Singles, Pieces DEF VoxelEnding, Known
  <2>2. Tail(t) = Ending(p) /\ "deinit" \in Marks(t) /\ "deinit" \in Marks(Tail(t))
    BY <2>1, Pieces DEF Known
  <2> QED BY <1>3, <2>1, <2>2 DEF Phase, VoxelEnding, Uses, Serves
<1> QED BY <1>1, <1>2, <1>3

LEMMA DeinitNext ==
  ASSUME NEW p, NEW s, NEW t, NEW tab, Phase(p, s, t, tab), t # <<>>, Head(t).op = "deinit"
  PROVE  /\ Phase(p, s, Tail(t), tab)
         /\ ~OpenCL(p) => Uses(p, s, t)
         /\ ~Uses(p, s, Tail(t)) /\ ~Serves(p, s, Tail(t))
<1>0. /\ \A k : To(k).op # "deinit" /\ Destroys(k).op # "deinit" /\ Release.op # "deinit"
      /\ Marks(<<>>) = {} /\ Marks(JustInitial) = {"INITIAL"}
  BY StepsAre, MarksOf, Singles DEF Known
<1>1. RemapEnding(p, s, t) \/ VoxelEnding(p, s, t, tab) \/ VoxelFailing(p, s, t, tab)
  BY HeadOps DEF Phase, FrameStep, Undoes, RemapMarks, VoxelMarks
<1>2. CASE RemapEnding(p, s, t) \/ VoxelEnding(p, s, t, tab)
  <2>1. t = Ending(p)
    BY <1>0, <1>2, Singles, Pieces DEF RemapEnding, VoxelEnding, Known
  <2>2. Tail(t) = JustInitial /\ Marks(t) = {"deinit", "INITIAL"}
    BY <2>1, Pieces DEF Known
  <2>3. VoxelEnding(p, s, t, tab) => tab = {}
    <3>1. t # EndBuffers(p)
      BY Pieces, <1>0 DEF Known
    <3> QED BY <3>1 DEF VoxelEnding
  <2> QED BY <1>0, <1>2, <2>2, <2>3 DEF Phase, RemapEnding, VoxelEnding, Uses, Serves
<1>3. CASE VoxelFailing(p, s, t, tab)
  <2>1. t = JustDeinit(p) /\ tab = {} /\ s = "INITIAL"
    BY <1>0, <1>3, Singles, Pieces DEF VoxelFailing, Known
  <2>2. Tail(t) = <<>> /\ Marks(t) = {"deinit"}
    BY <2>1, Pieces DEF Known
  <2> QED BY <1>0, <2>1, <2>2 DEF Phase, Resting, Uses, Serves
<1> QED BY <1>1, <1>2, <1>3

LEMMA InitNext ==
  ASSUME NEW p, NEW s, NEW t, NEW tab, Phase(p, s, t, tab), t # <<>>, Head(t).op = "init"
  PROVE  /\ Phase(p, s, Tail(t), tab) /\ Phase(p, s, Head(t).instead, tab)
         /\ ~Uses(p, s, t) /\ (~OpenCL(p) => Uses(p, s, Tail(t)))
         /\ ~Uses(p, s, Head(t).instead) /\ ~Serves(p, s, Head(t).instead)
         /\ Serves(p, s, Tail(t)) => Serves(p, s, t)
         /\ p.kind = "remap" => s = "INITIAL"
         /\ s \in {"INITIAL", "INITIALIZING"} /\ tab = {}
         /\ Marks(t) \intersect {"params", "create"} # {}
<1>0. \A k : To(k).op # "init"
  BY StepsAre
<1>1. RemapStarting(p, s, t) \/ VoxelStarting(p, s, t, tab)
  BY HeadOps DEF Phase, FrameStep, Undoes, RemapMarks, VoxelMarks
<1>2. CASE RemapStarting(p, s, t)
  <2>1. PICK M : /\ RemapMiddle(p, M)
                 /\ t = RemapProgram(p, M) \/ t = RemapParams(p, M) \/ t = Body(M)
    BY <1>2 DEF RemapStarting
  <2>2. t = RemapProgram(p, M)
    <3>1. t # RemapParams(p, M)
      BY <2>1, RemapPieces DEF Known
    <3>2. t # Body(M)
      <4>1. Head(Body(M)) = To("READY") \/ RemapStep(p, Head(Body(M)))
        BY <2>1, BodyHead
      <4> QED BY <1>0, <4>1 DEF RemapStep, Undoes
    <3> QED BY <2>1, <3>1, <3>2
  <2>3. /\ Tail(t) = RemapParams(p, M) /\ Head(t).instead = <<>>
        /\ Marks(t) = {"init", "params"} \union Marks(Body(M))
        /\ Marks(Tail(t)) = {"params"} \union Marks(Body(M))
        /\ "READY" \in Marks(Body(M)) /\ Marks(Body(M)) \subseteq RemapMarks \union {"READY"}
    BY <2>1, <2>2, RemapPieces DEF Known
  <2>4. Phase(p, s, Tail(t), tab)
    BY <1>2, <2>1, <2>3 DEF Phase, RemapStarting
  <2>5. p.kind = "remap" /\ s = "INITIAL" /\ tab = {} /\ ~OpenCL(p) /\ Marks(<<>>) = {}
    BY <1>2, MarksOf DEF RemapStarting, OpenCL, Phase
  <2>6. Phase(p, s, <<>>, tab)
    BY <2>5 DEF Phase, Resting
  <2> QED BY <2>3, <2>4, <2>5, <2>6 DEF Uses, Serves, RemapMarks
<1>3. CASE VoxelStarting(p, s, t, tab)
  <2>1. PICK M : /\ VoxelMiddle(p, M)
                 /\ \/ s = "INITIAL" /\ tab = {} /\ t = VoxelProgram(p, M)
                    \/ s = "INITIALIZING" /\ tab = {} /\ (t = VoxelInit(p, M) \/ t = VoxelCreate(p, M))
                    \/ s = "INITIALIZING" /\ t = Body(M)
    BY <1>3 DEF VoxelStarting
  <2>2. t = VoxelInit(p, M) /\ s = "INITIALIZING" /\ tab = {}
    <3>1. t # VoxelProgram(p, M)
      BY <2>1, <1>0, VoxelPieces DEF Known
    <3>2. t # Body(M)
      <4>1. Head(Body(M)) = To("READY") \/ VoxelStep(p, Head(Body(M)))
        BY <2>1, BodyHead
      <4> QED BY <1>0, <4>1 DEF VoxelStep
    <3>3. t # VoxelCreate(p, M)
      BY <2>1, VoxelPieces DEF Known
    <3> QED BY <2>1, <3>1, <3>2, <3>3
  <2>3. /\ Tail(t) = VoxelCreate(p, M) /\ Head(t).instead = VoxelFailed
        /\ Marks(t) = {"init", "create"} \union Marks(Body(M))
        /\ Marks(Tail(t)) = {"create"} \union Marks(Body(M))
        /\ "READY" \in Marks(Body(M)) /\ Marks(Body(M)) \subseteq VoxelMarks \union {"READY"}
    BY <2>1, <2>2, VoxelPieces, ZenonT(30) DEF Known
  <2>4. Phase(p, s, Tail(t), tab)
    BY <1>3, <2>1, <2>2, <2>3 DEF Phase, VoxelStarting
  <2>5. p.kind = "voxelization" /\ Marks(VoxelFailed) = {"INITIAL", "release"}
    BY <1>3, Singles DEF VoxelStarting, Known
  <2>6. Phase(p, s, VoxelFailed, tab)
    BY <1>3, <2>5 DEF Phase, VoxelFailing
  <2> QED BY <2>2, <2>3, <2>4, <2>5, <2>6 DEF Uses, Serves, VoxelMarks
<1> QED BY <1>1, <1>2, <1>3

LEMMA ParamsNext ==
  ASSUME NEW p, NEW s, NEW t, NEW tab, Phase(p, s, t, tab), t # <<>>, Head(t).op = "params"
  PROVE  /\ p.kind = "remap" /\ s = "INITIAL" /\ Head(t).instead = <<>>
         /\ Phase(p, s, Tail(t), tab) /\ Phase(p, s, <<>>, tab)
         /\ Uses(p, s, t) /\ Uses(p, s, Tail(t)) /\ Serves(p, s, t)
         /\ ~Uses(p, s, <<>>) /\ ~Serves(p, s, <<>>)
         /\ Marks(Tail(t)) \intersect {"params", "create"} = {}
<1>0. \A k : To(k).op # "params"
  BY StepsAre
<1>1. RemapStarting(p, s, t)
  BY HeadOps DEF Phase, FrameStep, Undoes, RemapMarks, VoxelMarks
<1>2. PICK M : /\ RemapMiddle(p, M)
               /\ t = RemapProgram(p, M) \/ t = RemapParams(p, M) \/ t = Body(M)
  BY <1>1 DEF RemapStarting
<1>3. t = RemapParams(p, M)
  <2>1. t # RemapProgram(p, M)
    BY <1>2, RemapPieces DEF Known
  <2>2. t # Body(M)
    <3>1. Head(Body(M)) = To("READY") \/ RemapStep(p, Head(Body(M)))
      BY <1>2, BodyHead
    <3> QED BY <1>0, <3>1 DEF RemapStep, Undoes
  <2> QED BY <1>2, <2>1, <2>2
<1>4. /\ Tail(t) = Body(M) /\ Head(t).instead = <<>>
      /\ Marks(t) = {"params"} \union Marks(Body(M))
      /\ "READY" \in Marks(Body(M)) /\ Marks(Body(M)) \subseteq RemapMarks \union {"READY"}
  BY <1>2, <1>3, RemapPieces DEF Known
<1>5. p.kind = "remap" /\ s = "INITIAL" /\ tab = {} /\ ~OpenCL(p) /\ Marks(<<>>) = {}
  BY <1>1, MarksOf DEF RemapStarting, OpenCL, Phase
<1>6. Phase(p, s, Tail(t), tab)
  BY <1>1, <1>2, <1>4 DEF Phase, RemapStarting
<1>7. Phase(p, s, <<>>, tab)
  BY <1>5 DEF Phase, Resting
<1> QED BY <1>4, <1>5, <1>6, <1>7 DEF Uses, Serves, RemapMarks

LEMMA CreateNext ==
  ASSUME NEW p, NEW s, NEW t, NEW tab, Phase(p, s, t, tab), t # <<>>, Head(t).op = "create"
  PROVE  /\ p.kind = "voxelization" /\ s = "INITIALIZING"
         /\ Phase(p, s, Tail(t), tab) /\ Phase(p, s, Head(t).instead, tab)
         /\ Uses(p, s, Tail(t)) <=> Uses(p, s, t)
         /\ Uses(p, s, Head(t).instead) <=> Uses(p, s, t)
         /\ (~OpenCL(p) => Serves(p, s, t)) /\ ~Serves(p, s, Head(t).instead)
         /\ "deinit" \in Marks(Head(t).instead)
         /\ Marks(Tail(t)) \intersect {"params", "create"} = {}
<1>0. \A k : To(k).op # "create"
  BY StepsAre
<1>1. VoxelStarting(p, s, t, tab)
  BY HeadOps DEF Phase, FrameStep, Undoes, RemapMarks, VoxelMarks
<1>2. PICK M : /\ VoxelMiddle(p, M)
               /\ \/ s = "INITIAL" /\ tab = {} /\ t = VoxelProgram(p, M)
                  \/ s = "INITIALIZING" /\ tab = {} /\ (t = VoxelInit(p, M) \/ t = VoxelCreate(p, M))
                  \/ s = "INITIALIZING" /\ t = Body(M)
  BY <1>1 DEF VoxelStarting
<1>3. t = VoxelCreate(p, M) /\ s = "INITIALIZING"
  <2>1. t # VoxelProgram(p, M)
    BY <1>2, <1>0, VoxelPieces DEF Known
  <2>2. t # Body(M)
    <3>1. Head(Body(M)) = To("READY") \/ VoxelStep(p, Head(Body(M)))
      BY <1>2, BodyHead
    <3> QED BY <1>0, <3>1 DEF VoxelStep
  <2>3. t # VoxelInit(p, M)
    BY <1>2, VoxelPieces DEF Known
  <2> QED BY <1>2, <2>1, <2>2, <2>3
<1>4. /\ Tail(t) = Body(M) /\ Head(t).instead = VoxelUndone(p)
      /\ Marks(t) = {"create"} \union Marks(Body(M))
      /\ "READY" \in Marks(Body(M)) /\ Marks(Body(M)) \subseteq VoxelMarks \union {"READY"}
  BY <1>2, <1>3, VoxelPieces DEF Known
<1>5. p.kind = "voxelization" /\ Marks(VoxelUndone(p)) = {"INITIAL", "release", "deinit"}
  BY <1>1, Pieces DEF VoxelStarting, Known
<1>6. Phase(p, s, Tail(t), tab)
  BY <1>1, <1>2, <1>3, <1>4 DEF Phase, VoxelStarting
<1>7. Phase(p, s, VoxelUndone(p), tab)
  BY <1>5 DEF Phase, VoxelFailing
<1> QED BY <1>3, <1>4, <1>5, <1>6, <1>7 DEF Uses, Serves, VoxelMarks

LEMMA NothingBefore == ASSUME NEW b, IsProg(b) PROVE <<>> \o b = b
  BY DEF IsProg

MiddleOps ==
  {"worker", "map", "buffermap", "reg", "try", "dereg", "keep", "run", "kernels"}

\* The loop over the inputs puts a program A before the rest.
LEMMA MiddleNext ==
  ASSUME NEW p, NEW s, NEW t, NEW tab, Phase(p, s, t, tab), t # <<>>,
         NEW x, x = Head(t), x.op \in MiddleOps,
         NEW A, A = <<>> \/ (x.op = "worker" /\ RemapMiddle(p, A)),
         NEW more, more \subseteq Fadas!KeepAddrs(p), p.kind = "remap" => more = {},
         more = tab \/ x.op = "keep"
  PROVE  /\ \/ Framing(p, s, t) /\ FrameStep(p, x) /\ Tail(t) = A \o Tail(t)
            \/ RemapStarting(p, s, t) /\ RemapStep(p, x)
            \/ RemapFailing(p, s, t) /\ Undoes(p, x)
            \/ VoxelStarting(p, s, t, tab) /\ VoxelStep(p, x)
         /\ IsProg(A \o Tail(t)) /\ Marks(A \o Tail(t)) = Marks(A) \union Marks(Tail(t))
         /\ Phase(p, s, A \o Tail(t), more) /\ Phase(p, s, x.instead, tab)
         /\ Uses(p, s, A \o Tail(t)) <=> Uses(p, s, t)
         /\ Serves(p, s, A \o Tail(t)) => Serves(p, s, t)
         /\ x.op # "dereg" /\ ~OpenCL(p) => Uses(p, s, t)
         /\ IF p.kind = "remap" /\ s = "INITIAL" THEN ~Uses(p, s, x.instead)
                                                 ELSE Uses(p, s, x.instead) <=> Uses(p, s, t)
         /\ s # "RUNNING" => ~Serves(p, s, x.instead)
         /\ s = "RUNNING" => x.instead = <<>>
<1>0. /\ To("READY").op = "state" /\ Marks(<<>>) = {}
      /\ Marks(VoxelUndone(p)) = {"INITIAL", "release", "deinit"}
  BY StepsAre, MarksOf, Pieces DEF Known
<1>1. IsProg(t) /\ IsProg(Tail(t)) /\ Marks(t) = {Label(x)} \union Marks(Tail(t))
  BY PhaseProg, TailIs, MarksOf
<1>2. IsProg(A) /\ (A = <<>> => A \o Tail(t) = Tail(t))
  BY <1>1, NoneIs, NothingBefore DEF RemapMiddle
<1>3. IsProg(A \o Tail(t)) /\ Marks(A \o Tail(t)) = Marks(A) \union Marks(Tail(t))
  BY <1>1, <1>2, CatIs, MarksOf
<1>4. Framing(p, s, t) \/ RemapStarting(p, s, t) \/ RemapFailing(p, s, t)
        \/ VoxelStarting(p, s, t, tab)
  BY HeadOps DEF Phase, MiddleOps
<1>5. CASE Framing(p, s, t)
  <2>1. FrameStep(p, x) /\ Framing(p, s, Tail(t)) /\ s = "RUNNING" /\ x.instead = <<>>
    BY <1>5, HeadOps DEF Framing, FrameStep
  <2>2. A \o Tail(t) = Tail(t) /\ x.op # "dereg" /\ x.op # "worker"
    BY <1>2, <2>1 DEF FrameStep
  <2>3. /\ Marks(t) \subseteq {"reg", "keep", "run", "kernels"}
        /\ Marks(Tail(t)) \subseteq {"reg", "keep", "run", "kernels"}
    BY <1>5, <2>1, MiddleMarks
  <2>4. Phase(p, s, Tail(t), more) /\ Phase(p, s, <<>>, tab)
    BY <2>1 DEF Phase, Resting
  <2> QED BY <1>0, <1>3, <1>5, <2>1, <2>2, <2>3, <2>4 DEF Uses, Serves
<1>6. CASE RemapFailing(p, s, t)
  <2>1. Undoes(p, x) /\ RemapFailing(p, s, Tail(t)) /\ s = "INITIAL" /\ p.kind = "remap"
    BY <1>6, HeadOps DEF RemapFailing
  <2>2. A \o Tail(t) = Tail(t) /\ x.op = "dereg" /\ x.instead = <<>>
    BY <1>2, <2>1 DEF Undoes
  <2>3. Marks(t) \subseteq {"dereg"} /\ Marks(Tail(t)) \subseteq {"dereg"}
    BY <1>6, <2>1, MiddleMarks DEF RemapFailing
  <2>4. Phase(p, s, Tail(t), more) /\ Phase(p, s, <<>>, tab)
    BY <2>1 DEF Phase, Resting
  <2> QED BY <1>0, <1>3, <1>6, <2>1, <2>2, <2>3, <2>4 DEF Uses, Serves
<1>7. CASE RemapStarting(p, s, t)
  <2>0. p.kind = "remap" /\ s = "INITIAL" /\ ~OpenCL(p) /\ tab = {} /\ more = {}
    BY <1>7 DEF RemapStarting, OpenCL, Phase
  <2>1. PICK M : /\ RemapMiddle(p, M)
                 /\ t = RemapProgram(p, M) \/ t = RemapParams(p, M) \/ t = Body(M)
    BY <1>7 DEF RemapStarting
  <2>2. t = Body(M)
    BY <2>1, RemapPieces DEF Known, MiddleOps
  <2>3. /\ RemapStep(p, x) /\ RemapMiddle(p, Tail(M)) /\ Tail(t) = Body(Tail(M))
    BY <1>0, <2>1, <2>2, BodyHead DEF MiddleOps
  <2> DEFINE N == A \o Tail(M)
  <2>4. RemapMiddle(p, N)
    <3>1. IsProg(N) /\ Elems(N) = Elems(A) \union Elems(Tail(M))
      BY <1>2, <2>3, CatIs DEF RemapMiddle
    <3>2. \A y \in Elems(A) : RemapStep(p, y)
      BY NoneIs DEF RemapMiddle
    <3> QED BY <2>3, <3>1, <3>2 DEF RemapMiddle
  <2>5. A \o Tail(t) = Body(N)
    <3>1. IsProg(JustReady) /\ IsProg(Tail(M))
      BY <2>3, Singles DEF Known, RemapMiddle
    <3>2. (A \o Tail(M)) \o JustReady = A \o (Tail(M) \o JustReady)
      <4> DEFINE m == Tail(M)
      <4> SUFFICES (A \o m) \o JustReady = A \o (m \o JustReady)
        OBVIOUS
      <4>1. IsProg(m)
        BY <3>1
      <4> HIDE DEF m
      <4> QED BY <1>2, <3>1, <4>1, Associative
    <3> QED BY <2>3, <3>2 DEF Body
  <2> HIDE DEF N
  <2>6. /\ Phase(p, s, A \o Tail(t), more)
        /\ "READY" \in Marks(A \o Tail(t))
        /\ Marks(A \o Tail(t)) \subseteq RemapMarks \union {"READY"}
    BY <2>0, <2>4, <2>5, RemapPieces DEF Phase, RemapStarting
  <2>7. "READY" \in Marks(t) /\ Marks(t) \subseteq RemapMarks \union {"READY"}
    BY <2>1, <2>2, RemapPieces
  <2>8. /\ Phase(p, s, x.instead, tab)
        /\ Marks(x.instead) \subseteq {"dereg"}
    <3>1. CASE x.instead = <<>>
      BY <1>0, <2>0, <3>1 DEF Phase, Resting
    <3>2. CASE Undoing(p, x.instead)
      BY <2>0, <3>2, MiddleMarks DEF Phase, RemapFailing
    <3> QED BY <2>3, <3>1, <3>2 DEF RemapStep, Undoes
  <2> QED BY <1>3, <1>7, <2>0, <2>3, <2>6, <2>7, <2>8 DEF Uses, Serves, RemapMarks
<1>8. CASE VoxelStarting(p, s, t, tab)
  <2>1. PICK M : /\ VoxelMiddle(p, M)
                 /\ \/ s = "INITIAL" /\ tab = {} /\ t = VoxelProgram(p, M)
                    \/ s = "INITIALIZING" /\ tab = {} /\ (t = VoxelInit(p, M) \/ t = VoxelCreate(p, M))
                    \/ s = "INITIALIZING" /\ t = Body(M)
    BY <1>8 DEF VoxelStarting
  <2>2. t = Body(M) /\ s = "INITIALIZING"
    <3>1. t # VoxelProgram(p, M)
      <4>1. To("INITIALIZING").op = "state"
        BY StepsAre
      <4> QED BY <2>1, <4>1, VoxelPieces DEF Known, MiddleOps
    <3>2. t # VoxelInit(p, M) /\ t # VoxelCreate(p, M)
      BY <2>1, VoxelPieces DEF Known, MiddleOps
    <3> QED BY <2>1, <3>1, <3>2
  <2>3. VoxelStep(p, x) /\ VoxelMiddle(p, Tail(M)) /\ Tail(t) = Body(Tail(M))
    BY <1>0, <2>1, <2>2, BodyHead DEF MiddleOps
  <2>4. A \o Tail(t) = Tail(t) /\ x.op # "dereg"
    BY <1>2, <2>3 DEF VoxelStep
  <2>5. p.kind = "voxelization"
    BY <1>8 DEF VoxelStarting
  <2>6. Phase(p, s, Tail(t), more) /\ Phase(p, s, VoxelUndone(p), tab)
    BY <2>2, <2>3, <2>5 DEF Phase, VoxelStarting, VoxelFailing
  <2>7. /\ "READY" \in Marks(Tail(t)) /\ Marks(Tail(t)) \subseteq VoxelMarks \union {"READY"}
        /\ "READY" \in Marks(t) /\ Marks(t) \subseteq VoxelMarks \union {"READY"}
    BY <2>1, <2>2, <2>3, VoxelPieces
  <2>8. x.instead = VoxelUndone(p)
    BY <2>3 DEF VoxelStep
  <2> QED BY <1>0, <1>3, <1>8, <2>2, <2>3, <2>4, <2>5, <2>6, <2>7, <2>8
          DEF Uses, Serves, VoxelMarks
<1> QED BY <1>4, <1>5, <1>6, <1>7, <1>8

-----------------------------------------------------------------------------
(***************************************************************************)
(* The programs of the calls.                                              *)
(***************************************************************************)
BufferAt(b) == b.at \in Addresses

ParamsOK(p) ==
  /\ p.kind \in {"remap", "voxelization"}
  /\ p.early \in Seq(Fadas!ToSet(p.early)) /\ \A i \in DOMAIN p.early : BufferAt(p.early[i])
  /\ \A f \in p.frames : /\ f \in Seq(Fadas!ToSet(f)) /\ \A i \in DOMAIN f : BufferAt(f[i])
                         /\ p.kind = "remap" => Len(f) = Len(p.inputs) + 1
                         /\ p.kind = "voxelization" => Len(f) = 3
  /\ p.kind = "remap" =>
       /\ p.inputs \in Seq(Fadas!ToSet(p.inputs))
       /\ \A i \in DOMAIN p.inputs :
            /\ p.inputs[i].tables \in Seq(Fadas!ToSet(p.inputs[i].tables))
            /\ \A k \in DOMAIN p.inputs[i].tables : BufferAt(p.inputs[i].tables[k])
  /\ p.kind = "voxelization" => p.opencl \in BOOLEAN

LEMMA ConfigIs ==
  ASSUME NEW c \in FadasConfigs
  PROVE  /\ c.processor \in {"dsp", "gpu", "cpu"}
         /\ \A n \in Nodes : ParamsOK(c.params[n])
<1>1. Fadas!IsConfig(c)
  BY Configurations
<1>2. c.processor \in {"dsp", "gpu", "cpu"}
  BY <1>1 DEF Fadas!IsConfig
<1> SUFFICES ASSUME NEW n \in Nodes PROVE ParamsOK(c.params[n])
  BY <1>2
<1> DEFINE p == c.params[n]
<1>3. /\ p.kind \in {"remap", "voxelization"}
      /\ \A bs \in {p.early} \union p.frames :
           /\ bs \in Seq(Fadas!ToSet(bs))
           /\ \A b \in Fadas!ToSet(bs) : b.at \in Addresses
      /\ p.kind = "remap" =>
           /\ p.inputs \in Seq(Fadas!ToSet(p.inputs))
           /\ \A f \in p.frames : Len(f) = Len(p.inputs) + 1
           /\ \A i \in DOMAIN p.inputs :
                LET ts == p.inputs[i].tables
                IN ts \in Seq(Fadas!ToSet(ts)) /\ \A t \in Fadas!ToSet(ts) : t.at \in Addresses
      /\ p.kind = "voxelization" =>
           p.opencl \in BOOLEAN /\ \A f \in p.frames : Len(f) = 3
  BY <1>1, Zenon DEF Fadas!IsConfig, Nodes
<1> HIDE DEF p
<1>4. \A q, i : i \in DOMAIN q => q[i] \in Fadas!ToSet(q)
  BY DEF Fadas!ToSet
<1>5. p.early \in Seq(Fadas!ToSet(p.early)) /\ \A i \in DOMAIN p.early : BufferAt(p.early[i])
  BY <1>3, <1>4, Zenon DEF BufferAt
<1>6. \A f \in p.frames : /\ f \in Seq(Fadas!ToSet(f)) /\ \A i \in DOMAIN f : BufferAt(f[i])
                          /\ p.kind = "remap" => Len(f) = Len(p.inputs) + 1
                          /\ p.kind = "voxelization" => Len(f) = 3
  BY <1>3, <1>4, Zenon DEF BufferAt
<1>7. p.kind = "remap" =>
       /\ p.inputs \in Seq(Fadas!ToSet(p.inputs))
       /\ \A i \in DOMAIN p.inputs :
            /\ p.inputs[i].tables \in Seq(Fadas!ToSet(p.inputs[i].tables))
            /\ \A k \in DOMAIN p.inputs[i].tables : BufferAt(p.inputs[i].tables[k])
  BY <1>3, <1>4, Zenon DEF BufferAt
<1>8. ParamsOK(p)
  BY <1>3, <1>5, <1>6, <1>7, Zenon DEF ParamsOK
<1> QED BY <1>8 DEF p

\* A step for each member of a sequence.
LEMMA MapsIs ==
  ASSUME NEW S, NEW q \in Seq(S), NEW f, f = [k \in DOMAIN q |-> f[k]]
  PROVE  /\ IsProg(f) /\ Len(f) = Len(q) /\ DOMAIN q = 1 .. Len(q) /\ Len(q) \in Nat
         /\ Elems(f) = { f[k] : k \in DOMAIN q }
<1>1. Len(q) \in Nat /\ DOMAIN q = 1 .. Len(q)
  OBVIOUS
<1> QED BY <1>1, EachIs

LEMMA MiddleCat ==
  ASSUME NEW p, NEW a, NEW b, RemapMiddle(p, a), RemapMiddle(p, b)
  PROVE  RemapMiddle(p, a \o b) /\ Marks(a \o b) = Marks(a) \union Marks(b)
<1>1. IsProg(a) /\ IsProg(b)
  BY DEF RemapMiddle
<1>2. IsProg(a \o b) /\ Elems(a \o b) = Elems(a) \union Elems(b)
  BY <1>1, CatIs
<1>3. Marks(a \o b) = Marks(a) \union Marks(b)
  BY <1>1, MarksOf
<1> QED BY <1>2, <1>3 DEF RemapMiddle

LEMMA MiddleOne ==
  ASSUME NEW p, NEW x, RemapStep(p, x)
  PROVE  RemapMiddle(p, <<x>>) /\ Marks(<<x>>) = {x.op}
<1>1. IsProg(<<x>>) /\ Elems(<<x>>) = {x} /\ Marks(<<x>>) = {Label(x)}
  BY Cons
<1>2. Label(x) = x.op
  BY DEF RemapStep, Undoes, Label
<1> QED BY <1>1, <1>2 DEF RemapMiddle

LEMMA TableMiddle ==
  ASSUME NEW p, ParamsOK(p), p.kind = "remap", NEW i \in DOMAIN p.inputs
  PROVE  RemapMiddle(p, Fadas!CreatRemapTable(p, i)) /\ "map" \in Marks(Fadas!CreatRemapTable(p, i))
<1> DEFINE ts      == p.inputs[i].tables
           tries   == [k \in DOMAIN ts |-> Fadas!Instr("try", [b |-> ts[k], use |-> "in"], <<>>)]
           release == [k \in DOMAIN ts |-> Fadas!Instr("dereg", ts[k].at, <<>>)]
<1>1. ts \in Seq(Fadas!ToSet(ts)) /\ \A k \in DOMAIN ts : ts[k].at \in Addresses
  BY DEF ParamsOK, BufferAt
<1>2. CASE p.undistort /\ config.processor = "dsp"
  <2>1. \A k \in DOMAIN ts : ts[k].at \in DropAddrs(p)
    <3>1. \A k \in DOMAIN ts : ts[k].at \in Fadas!At(ts)
      BY DEF Fadas!At, Fadas!ToSet
    <3>2. DropAddrs(p) = UNION { Fadas!At(p.inputs[j].tables) : j \in DOMAIN p.inputs }
      BY <1>2 DEF DropAddrs, Fadas!DropsOf
    <3> QED BY <3>1, <3>2
  <2>2. Undoing(p, release)
    <3>1. IsProg(release) /\ Elems(release) = { release[k] : k \in DOMAIN ts }
      BY <1>1, MapsIs
    <3>2. \A k \in DOMAIN ts : release[k] = Fadas!Instr("dereg", ts[k].at, <<>>)
      OBVIOUS
    <3>3. \A k \in DOMAIN ts : Undoes(p, Fadas!Instr("dereg", ts[k].at, <<>>))
      BY <2>1, StepsAre DEF Undoes
    <3> HIDE DEF release, ts
    <3> QED BY <3>1, <3>2, <3>3 DEF Undoing
  <2>3. RemapMiddle(p, release)
    BY <2>2 DEF Undoing, RemapMiddle, RemapStep
  <2>4. RemapMiddle(p, tries)
    <3>0. tries = [k \in DOMAIN ts |-> tries[k]]
      BY Zenon
    <3>1. IsProg(tries) /\ Elems(tries) = { tries[k] : k \in DOMAIN ts }
      <4> HIDE DEF tries, ts
      <4> QED BY <1>1, <3>0, MapsIs
    <3>2. \A k \in DOMAIN ts : tries[k] = Fadas!Instr("try", [b |-> ts[k], use |-> "in"], <<>>)
      OBVIOUS
    <3>3. \A k \in DOMAIN ts :
            RemapStep(p, Fadas!Instr("try", [b |-> ts[k], use |-> "in"], <<>>))
      BY <1>1, StepsAre DEF RemapStep
    <3> HIDE DEF tries, ts
    <3> QED BY <3>1, <3>2, <3>3 DEF RemapMiddle
  <2> DEFINE x == Fadas!Instr("map", i, release)
  <2>5. RemapStep(p, x) /\ x.op = "map"
    <3>1. x.op = "map" /\ x.arg = i /\ x.instead = release
      BY Zenon DEF Fadas!Instr
    <3> HIDE DEF x, release
    <3> QED BY <2>2, <3>1 DEF RemapStep
  <2>6. Fadas!CreatRemapTable(p, i) = (tries \o <<x>>) \o release
    BY <1>2, Zenon DEF Fadas!CreatRemapTable, Fadas!Do
  <2> HIDE DEF x, tries, release
  <2>7. RemapMiddle(p, <<x>>) /\ Marks(<<x>>) = {"map"}
    BY <2>5, MiddleOne
  <2>8. RemapMiddle(p, tries \o <<x>>) /\ "map" \in Marks(tries \o <<x>>)
    <3>1. /\ RemapMiddle(p, tries \o <<x>>)
          /\ Marks(tries \o <<x>>) = Marks(tries) \union Marks(<<x>>)
      BY <2>4, <2>7, MiddleCat, ZenonT(30)
    <3> QED BY <2>7, <3>1
  <2>9. /\ RemapMiddle(p, (tries \o <<x>>) \o release)
        /\ "map" \in Marks((tries \o <<x>>) \o release)
    <3>1. /\ RemapMiddle(p, (tries \o <<x>>) \o release)
          /\ Marks((tries \o <<x>>) \o release) = Marks(tries \o <<x>>) \union Marks(release)
      <4>1. RemapMiddle(p, tries \o <<x>>) /\ RemapMiddle(p, release)
        BY <2>3, <2>8
      <4>2. RemapMiddle(p, (tries \o <<x>>) \o release)
        BY ONLY <4>1, MiddleCat, SMT
      <4>3. Marks((tries \o <<x>>) \o release) = Marks(tries \o <<x>>) \union Marks(release)
        BY <4>1, MarksOf DEF RemapMiddle
      <4> QED BY <4>2, <4>3, Zenon
    <3> QED BY <2>8, <3>1
  <2> QED BY <2>6, <2>9, Zenon
<1>3. CASE ~(p.undistort /\ config.processor = "dsp")
  <2> DEFINE x == Fadas!Instr("map", i, <<>>)
  <2>1. RemapStep(p, x) /\ x.op = "map"
    <3>1. Undoing(p, <<>>)
      BY NoneIs DEF Undoing
    <3> QED BY <3>1, StepsAre DEF RemapStep
  <2>2. Fadas!CreatRemapTable(p, i) = <<x>>
    BY <1>3 DEF Fadas!CreatRemapTable, Fadas!Do
  <2> HIDE DEF x
  <2> QED BY <2>1, <2>2, MiddleOne
<1> QED BY <1>2, <1>3

LEMMA WorkerMiddle ==
  ASSUME NEW p, NEW i \in DOMAIN p.inputs
  PROVE  /\ RemapMiddle(p, Fadas!CreateRemapWorker(i))
         /\ Marks(Fadas!CreateRemapWorker(i)) = {"worker"}
<1> DEFINE x == Fadas!Instr("worker", i, <<>>)
<1>1. RemapStep(p, x) /\ x.op = "worker"
  BY StepsAre DEF RemapStep
<1>2. Fadas!CreateRemapWorker(i) = <<x>>
  BY DEF Fadas!CreateRemapWorker, Fadas!Do
<1> HIDE DEF x
<1> QED BY <1>1, <1>2, MiddleOne

LEMMA NoneMiddle == ASSUME NEW p PROVE RemapMiddle(p, <<>>) /\ Marks(<<>>) = {}
  BY NoneIs, MarksOf DEF RemapMiddle

LEMMA AfterMiddle ==
  ASSUME NEW p, ParamsOK(p), p.kind = "remap", NEW i \in DOMAIN p.inputs
  PROVE  /\ RemapMiddle(p, Fadas!AfterWorker(p, i))
         /\ i \notin Fadas!NoTensor(p) => "map" \in Marks(Fadas!AfterWorker(p, i))
<1>1. CASE i \in Fadas!NoTensor(p)
  BY <1>1, NoneMiddle DEF Fadas!AfterWorker
<1>2. CASE i \notin Fadas!NoTensor(p)
  <2> DEFINE next == IF i < Len(p.inputs) THEN Fadas!CreateRemapWorker(i + 1) ELSE <<>>
  <2>1. Fadas!AfterWorker(p, i) = Fadas!CreatRemapTable(p, i) \o next
    BY <1>2 DEF Fadas!AfterWorker
  <2>2. RemapMiddle(p, next)
    <3>1. CASE i < Len(p.inputs)
      <4>1. i + 1 \in DOMAIN p.inputs
        BY <3>1 DEF ParamsOK
      <4> QED BY <3>1, <4>1, WorkerMiddle
    <3> QED BY <3>1, NoneMiddle
  <2> DEFINE own == Fadas!CreatRemapTable(p, i)
  <2>3. RemapMiddle(p, own) /\ "map" \in Marks(own)
    BY TableMiddle
  <2> HIDE DEF next, own
  <2>4. RemapMiddle(p, own \o next) /\ "map" \in Marks(own \o next)
    <3>1. /\ RemapMiddle(p, own \o next)
          /\ Marks(own \o next) = Marks(own) \union Marks(next)
      <4>1. RemapMiddle(p, own) /\ RemapMiddle(p, next)
        BY <2>2, <2>3
      <4>2. RemapMiddle(p, own \o next)
        BY ONLY <4>1, MiddleCat
      <4>3. Marks(own \o next) = Marks(own) \union Marks(next)
        BY <4>1, MarksOf DEF RemapMiddle
      <4> QED BY <4>2, <4>3, Zenon
    <3> QED BY <2>3, <3>1
  <2> QED BY <2>1, <2>4, Zenon DEF own
<1> QED BY <1>1, <1>2

\* Concatenation, for terms that are nested.
Then(a, b) == a \o b

LEMMA ThenIs ==
  /\ \A a, b : IsProg(a) /\ IsProg(b) =>
       IsProg(Then(a, b)) /\ Marks(Then(a, b)) = Marks(a) \union Marks(b)
  /\ \A a, b, c : IsProg(a) /\ IsProg(b) /\ IsProg(c) =>
       Then(Then(a, b), c) = Then(a, Then(b, c))
<1>1. ASSUME NEW a, NEW b, IsProg(a), IsProg(b)
      PROVE  IsProg(Then(a, b)) /\ Marks(Then(a, b)) = Marks(a) \union Marks(b)
  BY <1>1, CatIs, MarksOf DEF Then
<1>2. ASSUME NEW a, NEW b, NEW c, IsProg(a), IsProg(b), IsProg(c)
      PROVE  Then(Then(a, b), c) = Then(a, Then(b, c))
  BY <1>2, Associative DEF Then
<1> QED BY <1>1, <1>2

LEMMA FourSteps ==
  ASSUME NEW a, IsProg(a), NEW b, IsProg(b), NEW c, IsProg(c), NEW d, IsProg(d)
  PROVE  Then(Then(Then(a, b), c), d) = Then(a, Then(b, Then(c, d)))
<1>1. IsProg(Then(b, c))
  BY ThenIs
<1>2. Then(Then(a, b), c) = Then(a, Then(b, c))
  BY ThenIs
<1>3. Then(Then(a, Then(b, c)), d) = Then(a, Then(Then(b, c), d))
  BY <1>1, ThenIs
<1>4. Then(Then(b, c), d) = Then(b, Then(c, d))
  BY ThenIs
<1> QED BY <1>2, <1>3, <1>4

LEMMA SixSteps ==
  ASSUME NEW a, NEW b, NEW c, NEW d, NEW e, NEW f,
         IsProg(a), IsProg(b), IsProg(c), IsProg(d), IsProg(e), IsProg(f)
  PROVE  /\ Then(Then(Then(Then(Then(a, b), c), d), e), f)
              = Then(a, Then(b, Then(Then(Then(c, d), e), f)))
         /\ Then(Then(Then(Then(Then(a, b), c), d), e), f)
              = Then(a, Then(b, Then(c, Then(Then(d, e), f))))
<1> DEFINE g == Then(c, d)
           k == Then(g, e)
           h == Then(d, e)
<1>1. IsProg(g) /\ IsProg(h)
  BY ThenIs
<1>2. IsProg(k)
  BY <1>1, ThenIs
<1>3. Then(Then(Then(a, b), c), d) = Then(a, Then(b, g))
  BY FourSteps
<1> HIDE DEF g, h
<1>4. Then(Then(a, Then(b, g)), e) = Then(a, Then(b, k))
  <2>1. IsProg(Then(b, g))
    BY <1>1, ThenIs
  <2>2. Then(Then(a, Then(b, g)), e) = Then(a, Then(Then(b, g), e))
    BY <2>1, ThenIs
  <2>3. Then(Then(b, g), e) = Then(b, k)
    BY <1>1, ThenIs
  <2> QED BY <2>2, <2>3
<1> HIDE DEF k
<1>5. Then(Then(a, Then(b, k)), f) = Then(a, Then(b, Then(k, f)))
  <2>1. IsProg(Then(b, k))
    BY <1>2, ThenIs
  <2>2. Then(Then(a, Then(b, k)), f) = Then(a, Then(Then(b, k), f))
    BY <2>1, ThenIs
  <2>3. Then(Then(b, k), f) = Then(b, Then(k, f))
    BY <1>2, ThenIs
  <2> QED BY <2>2, <2>3
<1>6. Then(k, f) = Then(c, Then(h, f))
  <2>1. k = Then(c, h)
    BY ThenIs DEF k, g, h
  <2>2. Then(Then(c, h), f) = Then(c, Then(h, f))
    BY <1>1, ThenIs
  <2> QED BY <2>1, <2>2
<1>7. Then(Then(Then(Then(Then(a, b), c), d), e), f) = Then(a, Then(b, Then(k, f)))
  BY <1>3, <1>4, <1>5
<1> QED BY <1>6, <1>7 DEF k, g, h

LEMMA RemapInitializeIs ==
  ASSUME NEW p, ParamsOK(p), p.kind = "remap"
  PROVE  \E M : /\ RemapMiddle(p, M) /\ Fadas!RemapInitialize(p) = RemapProgram(p, M)
                /\ p.inputs # <<>> => "worker" \in Marks(M)
<1> DEFINE early   == [k \in DOMAIN p.early |->
                         Fadas!Instr("reg", [b |-> p.early[k], use |-> "inout"], <<>>)]
           workers == IF p.inputs = <<>> THEN <<>> ELSE Fadas!CreateRemapWorker(1)
           map     == Fadas!Instr("buffermap", p, <<>>)
           M       == (workers \o <<map>>) \o early
<1>1. RemapMiddle(p, workers) /\ (p.inputs # <<>> => "worker" \in Marks(workers))
  <2>1. CASE p.inputs = <<>>
    BY <2>1, NoneMiddle
  <2>2. CASE p.inputs # <<>>
    <3>1. 1 \in DOMAIN p.inputs
      BY <2>2, EmptySeq DEF ParamsOK
    <3> QED BY <2>2, <3>1, WorkerMiddle
  <2> QED BY <2>1, <2>2
<1>2. RemapMiddle(p, early)
  <2>0. p.early \in Seq(Fadas!ToSet(p.early)) /\ \A k \in DOMAIN p.early : p.early[k].at \in Addresses
    BY DEF ParamsOK, BufferAt
  <2>1. early = [k \in DOMAIN p.early |-> early[k]]
    BY Zenon
  <2>2. \A k \in DOMAIN p.early :
          early[k] = Fadas!Instr("reg", [b |-> p.early[k], use |-> "inout"], <<>>)
    OBVIOUS
  <2>3. \A k \in DOMAIN p.early :
          RemapStep(p, Fadas!Instr("reg", [b |-> p.early[k], use |-> "inout"], <<>>))
    BY <2>0, StepsAre DEF RemapStep
  <2> HIDE DEF early
  <2>4. IsProg(early) /\ Elems(early) = { early[k] : k \in DOMAIN p.early }
    BY <2>0, <2>1, MapsIs
  <2> QED BY <2>2, <2>3, <2>4 DEF RemapMiddle
<1>3. RemapMiddle(p, <<map>>)
  <2>1. RemapStep(p, map)
    BY StepsAre DEF RemapStep
  <2> QED BY <2>1, MiddleOne
<1>4. Fadas!RemapInitialize(p)
        = ((((<<InitOf(p, <<>>)>> \o <<Params(p)>>) \o workers) \o <<map>>) \o early) \o JustReady
  BY Zenon DEF Fadas!RemapInitialize, Fadas!Do, Fadas!Enter, InitOf, Params, JustReady, To
<1> HIDE DEF early, workers, map
<1>5. RemapMiddle(p, workers \o <<map>>)
  BY <1>1, <1>3, MiddleCat
<1>6. RemapMiddle(p, M)
  <2>1. ASSUME NEW a, RemapMiddle(p, a) PROVE RemapMiddle(p, a \o early)
    BY <1>2, <2>1, MiddleCat
  <2> QED BY <1>5, <2>1
<1>7. IsProg(workers) /\ IsProg(<<map>>) /\ IsProg(early) /\ IsProg(workers \o <<map>>)
  BY <1>1, <1>2, <1>3, <1>5 DEF RemapMiddle
<1>8. Marks(M) = (Marks(workers) \union Marks(<<map>>)) \union Marks(early)
  <2>1. M = Then(Then(workers, <<map>>), early)
    BY Zenon DEF Then
  <2> HIDE DEF M
  <2> QED BY <1>7, <2>1, ThenIs
<1>9. Fadas!RemapInitialize(p) = RemapProgram(p, M)
  <2>1. IsProg(<<InitOf(p, <<>>)>>) /\ IsProg(<<Params(p)>>) /\ IsProg(JustReady)
    BY Cons DEF JustReady
  <2> DEFINE a == <<InitOf(p, <<>>)>>
             b == <<Params(p)>>
             d == <<map>>
  <2>2. IsProg(a) /\ IsProg(b) /\ IsProg(d)
    BY <1>7, <2>1
  <2>3. Then(Then(Then(Then(Then(a, b), workers), d), early), JustReady)
          = Then(a, Then(b, Then(Then(Then(workers, d), early), JustReady)))
    <3>1. /\ IsProg(a) /\ IsProg(b) /\ IsProg(workers) /\ IsProg(d) /\ IsProg(early)
          /\ IsProg(JustReady)
      BY <1>7, <2>1, <2>2
    <3> HIDE DEF a, b, d
    <3> QED BY ONLY <3>1, SixSteps
  <2> QED BY <1>4, <2>3, Zenon DEF RemapProgram, RemapParams, Body, Then
<1> HIDE DEF M
<1> QED BY <1>1, <1>6, <1>8, <1>9

LEMMA VoxelFailedIs ==
  /\ Fadas!VoxelizationFailed = VoxelFailed
  /\ \A p : Fadas!VoxelizationFailed \o <<Deinit(p)>> = VoxelUndone(p)
<1>1. Fadas!VoxelizationFailed = <<To("INITIAL")>> \o <<Release>>
  BY Zenon DEF Fadas!VoxelizationFailed, Fadas!Do, Fadas!Enter, To, Release
<1>2. ASSUME NEW p
      PROVE (<<To("INITIAL")>> \o <<Release>>) \o <<Deinit(p)>>
              = <<To("INITIAL")>> \o (<<Release>> \o <<Deinit(p)>>)
  <2>1. IsProg(<<To("INITIAL")>>) /\ IsProg(<<Release>>) /\ IsProg(<<Deinit(p)>>)
    BY Cons
  <2> QED BY <2>1, Associative
<1> QED BY <1>1, <1>2, Zenon DEF VoxelFailed, JustRelease, VoxelUndone, UndoBuffers, JustDeinit

LEMMA VoxelizationInitializeIs ==
  ASSUME NEW p, ParamsOK(p), p.kind = "voxelization", NEW again
  PROVE  \/ Fadas!VoxelizationInitialize(p, again) = VoxelFailed
         \/ \E M : VoxelMiddle(p, M) /\ Fadas!VoxelizationInitialize(p, again) = VoxelProgram(p, M)
                   /\ ~again
<1>1. CASE again \/ (~p.opencl /\ p.mode # "xyzr")
  BY <1>1, VoxelFailedIs DEF Fadas!VoxelizationInitialize
<1>2. CASE ~(again \/ (~p.opencl /\ p.mode # "xyzr"))
  <2> DEFINE undone == Fadas!VoxelizationFailed \o Fadas!Do("deinit", p, <<>>)
             early  == [k \in DOMAIN p.early |->
                          Fadas!Instr("keep", [b |-> p.early[k], use |-> "out"], undone)]
             map    == Fadas!Instr("buffermap", p, undone)
             create == Fadas!Instr("create", "preproc", undone)
             init   == Fadas!Instr("init", p, Fadas!VoxelizationFailed)
             M      == <<map>> \o early
  <2>0. undone = VoxelUndone(p)
    <3>1. undone = Fadas!VoxelizationFailed \o <<Deinit(p)>>
      BY Zenon DEF Fadas!Do, Deinit
    <3> QED BY <3>1, VoxelFailedIs
  <2>1. Fadas!VoxelizationInitialize(p, again)
          = ((((<<To("INITIALIZING")>> \o <<init>>) \o <<create>>) \o <<map>>) \o early) \o JustReady
    BY <1>2, Zenon DEF Fadas!VoxelizationInitialize, Fadas!Do, Fadas!Enter, To, JustReady
  <2>2. create = Create(p) /\ init = InitOf(p, VoxelFailed)
    BY <2>0, VoxelFailedIs, Zenon DEF Create, InitOf
  <2> HIDE DEF undone
  <2>3. VoxelMiddle(p, <<map>>)
    <3>1. map.op = "buffermap" /\ map.instead = undone
      BY StepsAre
    <3> HIDE DEF map
    <3>2. VoxelStep(p, map)
      BY <2>0, <3>1 DEF VoxelStep
    <3> QED BY <3>2, Cons DEF VoxelMiddle
  <2>4. VoxelMiddle(p, early)
    <3>0. p.early \in Seq(Fadas!ToSet(p.early))
      BY DEF ParamsOK
    <3>1. early = [k \in DOMAIN p.early |-> early[k]]
      BY Zenon
    <3>2. \A k \in DOMAIN p.early :
            early[k] = Fadas!Instr("keep", [b |-> p.early[k], use |-> "out"], undone)
      OBVIOUS
    <3>3. \A k \in DOMAIN p.early :
            VoxelStep(p, Fadas!Instr("keep", [b |-> p.early[k], use |-> "out"], undone))
      <4>1. \A k \in DOMAIN p.early : p.early[k].at \in Fadas!KeepAddrs(p)
        BY DEF Fadas!KeepAddrs, Fadas!At, Fadas!ToSet
      <4> QED BY <2>0, <4>1, StepsAre DEF VoxelStep
    <3> HIDE DEF early
    <3>4. IsProg(early) /\ Elems(early) = { early[k] : k \in DOMAIN p.early }
      BY <3>0, <3>1, MapsIs
    <3> QED BY <3>2, <3>3, <3>4 DEF VoxelMiddle
  <2> HIDE DEF early, map, create, init
  <2>5. IsProg(<<map>>) /\ IsProg(early)
    BY <2>3, <2>4 DEF VoxelMiddle
  <2>6. VoxelMiddle(p, M)
    <3>1. IsProg(M) /\ Elems(M) = Elems(<<map>>) \union Elems(early)
      BY <2>5, CatIs
    <3> HIDE DEF M
    <3> QED BY <2>3, <2>4, <3>1 DEF VoxelMiddle
  <2>7. Fadas!VoxelizationInitialize(p, again) = VoxelProgram(p, M)
    <3>1. /\ IsProg(<<To("INITIALIZING")>>) /\ IsProg(<<init>>) /\ IsProg(<<create>>)
          /\ IsProg(JustReady)
      BY Cons DEF JustReady
    <3> DEFINE a == <<To("INITIALIZING")>>
               b == <<init>>
               c == <<create>>
               d == <<map>>
    <3>2. IsProg(a) /\ IsProg(b) /\ IsProg(c) /\ IsProg(d)
      BY <2>5, <3>1
    <3>3. Then(Then(Then(Then(Then(a, b), c), d), early), JustReady)
            = Then(a, Then(b, Then(c, Then(Then(d, early), JustReady))))
      <4>1. /\ IsProg(a) /\ IsProg(b) /\ IsProg(c) /\ IsProg(d) /\ IsProg(early)
            /\ IsProg(JustReady)
        BY <2>5, <3>1, <3>2
      <4> HIDE DEF a, b, c, d
      <4> QED BY ONLY <4>1, SixSteps
    <3> QED BY <2>1, <2>2, <3>3, Zenon DEF VoxelProgram, VoxelInit, VoxelCreate, Body, Then
  <2> QED BY <1>2, <2>6, <2>7
<1> QED BY <1>1, <1>2

LEMMA NothingAfter == ASSUME NEW b, IsProg(b) PROVE b \o <<>> = b
  BY DEF IsProg

LEMMA StopIs ==
  ASSUME NEW p, NEW stuck
  PROVE  Fadas!VoxelizationStop(p, stuck) \in {StopBuffers, JustRelease, JustReady}
<1>1. IsProg(JustReady) /\ IsProg(JustRelease)
  BY Singles DEF Known
<1>2. <<>> \o JustReady = JustReady /\ JustRelease \o <<>> = JustRelease
  BY <1>1, NothingBefore, NothingAfter
<1>3. /\ Fadas!Do("release", {}, <<>>) = JustRelease /\ Fadas!Enter("READY") = JustReady
      /\ StopBuffers = JustRelease \o JustReady
  BY Zenon DEF Fadas!Do, Fadas!Enter, JustRelease, JustReady, Release, To, StopBuffers
<1>4. CASE ~p.deregister
  BY <1>2, <1>3, <1>4, Zenon DEF Fadas!VoxelizationStop
<1>5. CASE p.deregister /\ stuck
  BY <1>2, <1>3, <1>5, Zenon DEF Fadas!VoxelizationStop
<1>6. CASE p.deregister /\ ~stuck
  BY <1>3, <1>6, Zenon DEF Fadas!VoxelizationStop
<1> QED BY <1>4, <1>5, <1>6

LEMMA DeInitializeIs ==
  ASSUME NEW p
  PROVE  /\ Fadas!RemapDeInitialize(p) = EndMaps(p)
         /\ Fadas!VoxelizationDeInitialize(p) = EndBuffers(p)
<1>1. \A x : IsProg(<<x>>)
  BY Cons, Zenon
<1>2. ASSUME NEW x, NEW y, NEW z, NEW w
      PROVE  Then(Then(Then(<<x>>, <<y>>), <<z>>), <<w>>) = Then(<<x>>, Then(<<y>>, Then(<<z>>, <<w>>)))
  <2> DEFINE a == <<x>>
             b == <<y>>
             c == <<z>>
             d == <<w>>
  <2>1. IsProg(a) /\ IsProg(b) /\ IsProg(c) /\ IsProg(d)
    BY <1>1
  <2>2. Then(Then(Then(a, b), c), d) = Then(a, Then(b, Then(c, d)))
    <3> HIDE DEF a, b, c, d
    <3> QED BY <2>1, FourSteps
  <2> QED BY <2>2
<1>3. /\ Fadas!RemapDeInitialize(p)
           = ((<<Destroys("map")>> \o <<Destroys("worker")>>) \o <<Deinit(p)>>) \o <<To("INITIAL")>>
      /\ Fadas!VoxelizationDeInitialize(p)
           = ((<<Release>> \o <<Destroys("preproc")>>) \o <<Deinit(p)>>) \o <<To("INITIAL")>>
  BY Zenon DEF Fadas!RemapDeInitialize, Fadas!VoxelizationDeInitialize, Fadas!Do, Fadas!Enter,
               Destroys, Deinit, To, Release
<1>4. Fadas!RemapDeInitialize(p) = EndMaps(p)
  <2>1. Then(Then(Then(<<Destroys("map")>>, <<Destroys("worker")>>), <<Deinit(p)>>), <<To("INITIAL")>>)
          = Then(<<Destroys("map")>>, Then(<<Destroys("worker")>>, Then(<<Deinit(p)>>, <<To("INITIAL")>>)))
    BY <1>2
  <2> QED BY <1>3, <2>1, Zenon DEF Then, EndMaps, EndWorkers, Ending, JustInitial
<1>5. Fadas!VoxelizationDeInitialize(p) = EndBuffers(p)
  <2>1. Then(Then(Then(<<Release>>, <<Destroys("preproc")>>), <<Deinit(p)>>), <<To("INITIAL")>>)
          = Then(<<Release>>, Then(<<Destroys("preproc")>>, Then(<<Deinit(p)>>, <<To("INITIAL")>>)))
    BY <1>2
  <2> QED BY <1>3, <2>1, Zenon DEF Then, EndBuffers, EndPreProc, Ending, JustInitial
<1> QED BY <1>4, <1>5

-----------------------------------------------------------------------------
(***************************************************************************)
(* The programs of a frame: each buffer of a run has an entry by then.     *)
(***************************************************************************)
Enters(x, a) == x.op \in {"reg", "keep"} /\ x.arg.b.at = a

Covered(s, t) ==
  \A i \in 1 .. Len(t) :
    t[i].op = "run" =>
      \A b \in t[i].arg.bs :
        s.memMap[b.at] # NoEntry \/ \E j \in 1 .. i - 1 : Enters(t[j], b.at)

LEMMA NoneCovered == ASSUME NEW s, NEW t, IsProg(t), "run" \notin Marks(t) PROVE Covered(s, t)
<1> SUFFICES ASSUME NEW i \in 1 .. Len(t), t[i].op = "run" PROVE FALSE
  BY DEF Covered
<1>1. t[i] \in Elems(t)
  BY DEF Elems
<1> QED BY <1>1 DEF Marks, Label

LEMMA CoveredCat ==
  ASSUME NEW s, NEW a, NEW b, IsProg(a), IsProg(b),
         \A x \in Elems(a) : x.op # "run",
         \A y \in Elems(b) : y.op = "run" =>
           \A c \in y.arg.bs : \E x \in Elems(a) : Enters(x, c.at)
  PROVE  Covered(s, a \o b)
<1> DEFINE t == a \o b
<1>1. /\ Len(t) = Len(a) + Len(b)
      /\ \A i \in 1 .. Len(a) + Len(b) : t[i] = IF i <= Len(a) THEN a[i] ELSE b[i - Len(a)]
      /\ Len(a) \in Nat /\ Len(b) \in Nat
  BY CatIs, ProgIs
<1> HIDE DEF t
<1> SUFFICES ASSUME NEW i \in 1 .. Len(t), t[i].op = "run", NEW c \in t[i].arg.bs
             PROVE  \E j \in 1 .. i - 1 : Enters(t[j], c.at)
  BY DEF Covered, t
<1>2. ~(i <= Len(a))
  <2>1. \A k \in 1 .. Len(a) : a[k] \in Elems(a)
    BY DEF Elems
  <2> QED BY <1>1, <2>1
<1>3. i - Len(a) \in 1 .. Len(b) /\ t[i] = b[i - Len(a)]
  BY <1>1, <1>2
<1>4. b[i - Len(a)] \in Elems(b)
  BY <1>3 DEF Elems
<1>5. PICK x \in Elems(a) : Enters(x, c.at)
  BY <1>3, <1>4
<1>6. PICK j \in 1 .. Len(a) : x = a[j]
  BY <1>5 DEF Elems
<1>7. j \in 1 .. i - 1 /\ t[j] = a[j]
  BY <1>1, <1>2, <1>6
<1> QED BY <1>5, <1>6, <1>7

\* The rest of a program, where what is left out had its effect.
LEMMA CoveredTail ==
  ASSUME NEW s, NEW t, IsProg(t), t # <<>>, Covered(s, t), NEW r,
         NEW A, \A x \in Elems(t) : x.op = "run" => { b.at : b \in x.arg.bs } \subseteq A,
         \A a \in A : s.memMap[a] # NoEntry => r.memMap[a] # NoEntry,
         \A a \in A : Enters(Head(t), a) => r.memMap[a] # NoEntry
  PROVE  Covered(r, Tail(t))
<1>1. /\ Head(t) = t[1] /\ Len(t) \in Nat \ {0} /\ Len(Tail(t)) = Len(t) - 1
      /\ \A i \in 1 .. Len(t) - 1 : Tail(t)[i] = t[i + 1]
  BY TailIs
<1> SUFFICES ASSUME NEW i \in 1 .. Len(t) - 1, Tail(t)[i].op = "run",
                    NEW b \in Tail(t)[i].arg.bs
             PROVE  r.memMap[b.at] # NoEntry \/ \E j \in 1 .. i - 1 : Enters(Tail(t)[j], b.at)
  BY <1>1 DEF Covered
<1>2. i + 1 \in 1 .. Len(t) /\ t[i + 1] = Tail(t)[i]
  BY <1>1
<1>3. b.at \in A
  <2>1. t[i + 1] \in Elems(t)
    BY <1>2 DEF Elems
  <2> QED BY <1>2, <2>1
<1>4. s.memMap[b.at] # NoEntry \/ \E j \in 1 .. (i + 1) - 1 : Enters(t[j], b.at)
  BY <1>2 DEF Covered
<1>5. CASE s.memMap[b.at] # NoEntry
  BY <1>3, <1>5
<1>6. ASSUME NEW j \in 1 .. (i + 1) - 1, Enters(t[j], b.at)
      PROVE  r.memMap[b.at] # NoEntry \/ \E k \in 1 .. i - 1 : Enters(Tail(t)[k], b.at)
  <2>1. CASE j = 1
    BY <1>1, <1>3, <1>6, <2>1
  <2>2. CASE j # 1
    <3>1. j - 1 \in 1 .. i - 1 /\ j - 1 \in 1 .. Len(t) - 1 /\ (j - 1) + 1 = j
      BY <1>1, <2>2
    <3>2. Tail(t)[j - 1] = t[j]
      BY <1>1, <3>1
    <3> QED BY <1>6, <3>1, <3>2
  <2> QED BY <2>1, <2>2
<1> QED BY <1>4, <1>5, <1>6

\* Entries that persist.
LEMMA CoveredStays ==
  ASSUME NEW s, NEW t, IsProg(t), Covered(s, t), NEW r,
         NEW A, \A x \in Elems(t) : x.op = "run" => { b.at : b \in x.arg.bs } \subseteq A,
         \A a \in A : s.memMap[a] # NoEntry => r.memMap[a] # NoEntry
  PROVE  Covered(r, t)
<1> SUFFICES ASSUME NEW i \in 1 .. Len(t), t[i].op = "run", NEW b \in t[i].arg.bs
             PROVE  r.memMap[b.at] # NoEntry \/ \E j \in 1 .. i - 1 : Enters(t[j], b.at)
  BY DEF Covered
<1>1. t[i] \in Elems(t)
  BY DEF Elems
<1>2. b.at \in A
  BY <1>1
<1> QED BY <1>2 DEF Covered

\* RegisterFrame.
LEMMA RegistersIs ==
  ASSUME NEW p, ParamsOK(p), ~OpenCL(p), NEW f \in p.frames, NEW count
  PROVE  LET R == Fadas!RegisterFrame(f, count) IN
         /\ IsProg(R)
         /\ \A x \in Elems(R) : FrameStep(p, x) /\ x.op = "reg"
         /\ \A i \in DOMAIN f : \E x \in Elems(R) : Enters(x, f[i].at)
<1> DEFINE use(i) == IF i <= count THEN "in" ELSE "out"
           R      == [i \in DOMAIN f |-> Fadas!Instr("reg", [b |-> f[i], use |-> use(i)], <<>>)]
<1>1. Fadas!RegisterFrame(f, count) = R
  BY Zenon DEF Fadas!RegisterFrame
<1>2. f \in Seq(Fadas!ToSet(f))
  BY DEF ParamsOK
<1>3. R = [i \in DOMAIN f |-> R[i]]
  BY Zenon
<1>4. ASSUME NEW i \in DOMAIN f
      PROVE  R[i].op = "reg" /\ R[i].arg.b = f[i] /\ R[i].instead = <<>>
  <2> HIDE DEF use
  <2>1. R[i] = Fadas!Instr("reg", [b |-> f[i], use |-> use(i)], <<>>)
    BY <1>4
  <2> QED BY <2>1, StepsAre
<1> HIDE DEF R
<1>5. IsProg(R) /\ Elems(R) = { R[i] : i \in DOMAIN f }
  BY <1>2, <1>3, MapsIs
<1>6. \A i \in DOMAIN f : f[i].at \in Fadas!FrameAddrs(p)
  <2>1. \A i \in DOMAIN f : f[i].at \in Fadas!At(f)
    BY DEF Fadas!At, Fadas!ToSet
  <2> QED BY <2>1 DEF Fadas!FrameAddrs
<1>7. \A i \in DOMAIN f : FrameStep(p, R[i]) /\ R[i].op = "reg" /\ Enters(R[i], f[i].at)
  BY <1>4, <1>6 DEF FrameStep, Enters
<1>8. /\ \A x \in Elems(R) : FrameStep(p, x) /\ x.op = "reg"
      /\ \A i \in DOMAIN f : \E x \in Elems(R) : Enters(x, f[i].at)
  BY <1>5, <1>7
<1> QED BY <1>1, <1>5, <1>8

LEMMA CoveredCons ==
  ASSUME NEW s, NEW x, x.op # "run", NEW b, IsProg(b), Covered(s, b)
  PROVE  Covered(s, <<x>> \o b)
<1> DEFINE t == <<x>> \o b
<1>0. Len(b) \in Nat
  BY ProgIs
<1>1. /\ Len(t) = 1 + Len(b) /\ Len(b) \in Nat
      /\ \A i \in 1 .. 1 + Len(b) : t[i] = IF i <= 1 THEN x ELSE b[i - 1]
  BY <1>0, CatIs, OneIs
<1> HIDE DEF t
<1> SUFFICES ASSUME NEW i \in 1 .. Len(t), t[i].op = "run", NEW c \in t[i].arg.bs
             PROVE  s.memMap[c.at] # NoEntry \/ \E j \in 1 .. i - 1 : Enters(t[j], c.at)
  BY DEF Covered, t
<1>2. ~(i <= 1)
  BY <1>1
<1>3. i - 1 \in 1 .. Len(b) /\ t[i] = b[i - 1]
  BY <1>1, <1>2
<1>4. s.memMap[c.at] # NoEntry \/ \E j \in 1 .. (i - 1) - 1 : Enters(b[j], c.at)
  BY <1>3 DEF Covered
<1>5. ASSUME NEW j \in 1 .. (i - 1) - 1, Enters(b[j], c.at)
      PROVE  \E k \in 1 .. i - 1 : Enters(t[k], c.at)
  <2>1. j + 1 \in 1 .. i - 1 /\ j + 1 \in 1 .. 1 + Len(b) /\ ~(j + 1 <= 1) /\ (j + 1) - 1 = j
    BY <1>1, <1>3
  <2>2. t[j + 1] = b[j]
    BY <1>1, <2>1
  <2> QED BY <1>5, <2>1, <2>2
<1> QED BY <1>4, <1>5

\* The buffers are registered, and then the engine works on them.
RunsOn(p, f, runs) ==
  /\ IsProg(runs)
  /\ \A x \in Elems(runs) : /\ x.op = "run" /\ x.instead = <<>> /\ x.arg.on = Kinds(p)
                            /\ \A b \in x.arg.bs : \E i \in DOMAIN f : b = f[i]

LEMMA RunsAre ==
  ASSUME NEW p, ParamsOK(p), ~OpenCL(p), NEW f \in p.frames, NEW count,
         NEW runs, RunsOn(p, f, runs), NEW s
  PROVE  /\ IsProg(Fadas!RegisterFrame(f, count) \o runs)
         /\ Framing(p, "RUNNING", Fadas!RegisterFrame(f, count) \o runs)
         /\ Covered(s, Fadas!RegisterFrame(f, count) \o runs)
<1> DEFINE R == Fadas!RegisterFrame(f, count)
<1>1. /\ IsProg(R) /\ \A x \in Elems(R) : FrameStep(p, x) /\ x.op = "reg"
      /\ \A i \in DOMAIN f : \E x \in Elems(R) : Enters(x, f[i].at)
  BY RegistersIs
<1> HIDE DEF R
<1>2. IsProg(R \o runs) /\ Elems(R \o runs) = Elems(R) \union Elems(runs)
  BY <1>1, CatIs DEF RunsOn
<1>3. \A i \in DOMAIN f : f[i].at \in Fadas!FrameAddrs(p)
  <2>1. \A i \in DOMAIN f : f[i].at \in Fadas!At(f)
    BY DEF Fadas!At, Fadas!ToSet
  <2> QED BY <2>1 DEF Fadas!FrameAddrs
<1>4. ASSUME NEW x \in Elems(runs) PROVE FrameStep(p, x)
  <2>1. \A b \in x.arg.bs : b.at \in Fadas!FrameAddrs(p)
    BY <1>3 DEF RunsOn
  <2> QED BY <2>1 DEF RunsOn, FrameStep
<1>5. Framing(p, "RUNNING", R \o runs)
  BY <1>1, <1>2, <1>4 DEF Framing
<1>6. Covered(s, R \o runs)
  <2>1. \A y \in Elems(runs) : y.op = "run" =>
          \A c \in y.arg.bs : \E x \in Elems(R) : Enters(x, c.at)
    BY <1>1 DEF RunsOn
  <2>2. \A x \in Elems(R) : x.op # "run"
    BY <1>1
  <2> QED BY <1>1, <2>1, <2>2, CoveredCat DEF RunsOn
<1> QED BY <1>2, <1>5, <1>6 DEF R

LEMMA OneRun ==
  ASSUME NEW p, NEW f
  PROVE  RunsOn(p, f, Fadas!Do("run", [bs |-> Fadas!ToSet(f), on |-> Kinds(p)], <<>>))
<1> DEFINE arg == [bs |-> Fadas!ToSet(f), on |-> Kinds(p)]
           x   == Fadas!Instr("run", arg, <<>>)
<1>1. Fadas!Do("run", arg, <<>>) = <<x>>
  BY DEF Fadas!Do
<1>2. x.op = "run" /\ x.instead = <<>> /\ x.arg = arg
  BY Zenon DEF Fadas!Instr
<1>3. arg.on = Kinds(p) /\ arg.bs = Fadas!ToSet(f)
  OBVIOUS
<1>4. \A b \in arg.bs : \E i \in DOMAIN f : b = f[i]
  BY <1>3 DEF Fadas!ToSet
<1> HIDE DEF x, arg
<1>5. IsProg(<<x>>) /\ Elems(<<x>>) = {x}
  BY Cons
<1>6. RunsOn(p, f, <<x>>)
  BY <1>2, <1>3, <1>4, <1>5 DEF RunsOn
<1> QED BY <1>1, <1>6 DEF arg

LEMMA RemapRunIs ==
  ASSUME NEW p, ParamsOK(p), p.kind = "remap", NEW f \in p.frames, NEW s
  PROVE  Framing(p, "RUNNING", Fadas!RemapRun(p, f)) /\ Covered(s, Fadas!RemapRun(p, f))
<1>0. ~OpenCL(p) /\ Kinds(p) = {"map", "worker"}
  BY DEF OpenCL, Kinds
<1>1. CASE config.processor = "dsp"
  <2> DEFINE runs == Fadas!Do("run", [bs |-> Fadas!ToSet(f), on |-> Kinds(p)], <<>>)
  <2>1. RunsOn(p, f, runs)
    BY OneRun
  <2>2. Fadas!RemapRun(p, f) = Fadas!RegisterFrame(f, Len(p.inputs)) \o runs
    BY <1>0, <1>1, Zenon DEF Fadas!RemapRun, Fadas!RemapRunDSP
  <2> HIDE DEF runs
  <2>3. /\ Framing(p, "RUNNING", Fadas!RegisterFrame(f, Len(p.inputs)) \o runs)
        /\ Covered(s, Fadas!RegisterFrame(f, Len(p.inputs)) \o runs)
    BY <1>0, <2>1, RunsAre
  <2> QED BY <2>2, <2>3, Zenon
<1>2. CASE config.processor # "dsp"
  <2> DEFINE arg(i) == [bs |-> {f[i], f[Len(f)]}, on |-> {"map", "worker"}]
             runs   == [i \in DOMAIN p.inputs |-> Fadas!Instr("run", arg(i), <<>>)]
  <2>1. Fadas!RemapRun(p, f) = Fadas!RegisterFrame(f, Len(p.inputs)) \o runs
    BY <1>2, Zenon DEF Fadas!RemapRun, Fadas!RemapRunCPU
  <2>2. p.inputs \in Seq(Fadas!ToSet(p.inputs)) /\ f \in Seq(Fadas!ToSet(f)) /\ Len(f) = Len(p.inputs) + 1
    BY DEF ParamsOK
  <2>3. \A i \in DOMAIN p.inputs : i \in DOMAIN f /\ Len(f) \in DOMAIN f
    BY <2>2
  <2>4. ASSUME NEW i
        PROVE  arg(i).on = Kinds(p) /\ arg(i).bs = {f[i], f[Len(f)]}
    BY <1>0
  <2> HIDE DEF arg
  <2>5. ASSUME NEW i \in DOMAIN p.inputs
        PROVE  runs[i].op = "run" /\ runs[i].arg = arg(i) /\ runs[i].instead = <<>>
    <3>1. runs[i] = Fadas!Instr("run", arg(i), <<>>)
      BY <2>5
    <3> QED BY <3>1, StepsAre
  <2>6. runs = [i \in DOMAIN p.inputs |-> runs[i]]
    BY Zenon
  <2> HIDE DEF runs
  <2>7. IsProg(runs) /\ Elems(runs) = { runs[i] : i \in DOMAIN p.inputs }
    BY <2>2, <2>6, MapsIs
  <2>8. RunsOn(p, f, runs)
    <3> SUFFICES ASSUME NEW i \in DOMAIN p.inputs
                 PROVE  /\ runs[i].op = "run" /\ runs[i].instead = <<>> /\ runs[i].arg.on = Kinds(p)
                        /\ \A b \in runs[i].arg.bs : \E k \in DOMAIN f : b = f[k]
      BY <2>7 DEF RunsOn
    <3>1. runs[i].arg.on = Kinds(p) /\ runs[i].arg.bs = {f[i], f[Len(f)]}
      BY <2>4, <2>5
    <3> QED BY <2>3, <2>5, <3>1
  <2>9. /\ Framing(p, "RUNNING", Fadas!RegisterFrame(f, Len(p.inputs)) \o runs)
        /\ Covered(s, Fadas!RegisterFrame(f, Len(p.inputs)) \o runs)
    BY <1>0, <2>8, RunsAre
  <2> QED BY <2>1, <2>9, Zenon
<1> QED BY <1>1, <1>2

LEMMA ProcessIs ==
  ASSUME NEW p, ParamsOK(p), p.kind = "voxelization", NEW f \in p.frames, NEW s
  PROVE  /\ Framing(p, "RUNNING", Fadas!VoxelizationProcess(p, f))
         /\ Covered(s, Fadas!VoxelizationProcess(p, f))
<1> DEFINE keep == Fadas!Instr("keep", [b |-> f[1], use |-> "in"], <<>>)
           rest == IF p.opencl THEN Fadas!ProcessCL(f) ELSE Fadas!PointPillarRun(f)
<1>1. Fadas!VoxelizationProcess(p, f) = <<keep>> \o rest
  BY Zenon DEF Fadas!VoxelizationProcess, Fadas!Do
<1>2. keep.op = "keep" /\ FrameStep(p, keep)
  <2>1. keep.op = "keep" /\ keep.instead = <<>> /\ keep.arg.b = f[1]
    BY StepsAre
  <2>2. f[1].at \in Fadas!KeepAddrs(p)
    BY DEF Fadas!KeepAddrs
  <2> HIDE DEF keep
  <2> QED BY <2>1, <2>2 DEF FrameStep
<1>3. IsProg(rest) /\ Framing(p, "RUNNING", rest) /\ Covered(s, rest)
  <2>1. CASE p.opencl
    <3> DEFINE x == Fadas!Instr("kernels", { b.at : b \in Fadas!ToSet(f) }, <<>>)
    <3>1. rest = <<x>>
      BY <2>1 DEF Fadas!ProcessCL, Fadas!Do
    <3>2. x.op = "kernels" /\ x.instead = <<>>
      BY Zenon DEF Fadas!Instr
    <3> HIDE DEF x
    <3>3. IsProg(<<x>>) /\ Elems(<<x>>) = {x} /\ Marks(<<x>>) = {"kernels"}
      <4>1. IsProg(<<x>>) /\ Elems(<<x>>) = {x} /\ Marks(<<x>>) = {Label(x)}
        BY Cons
      <4> QED BY <3>2, <4>1 DEF Label
    <3>4. Framing(p, "RUNNING", <<x>>)
      BY <3>2, <3>3 DEF Framing, FrameStep
    <3>5. Covered(s, <<x>>)
      BY <3>3, NoneCovered
    <3> QED BY <3>1, <3>3, <3>4, <3>5
  <2>2. CASE ~p.opencl
    <3>1. ~OpenCL(p) /\ Kinds(p) = {"preproc"}
      BY <2>2 DEF OpenCL, Kinds
    <3> DEFINE runs == Fadas!Do("run", [bs |-> Fadas!ToSet(f), on |-> Kinds(p)], <<>>)
    <3>2. RunsOn(p, f, runs)
      BY OneRun
    <3>3. rest = Fadas!RegisterFrame(f, 1) \o runs
      BY <2>2, <3>1, Zenon DEF Fadas!PointPillarRun, Fadas!PointPillarRunDSP, Fadas!PointPillarRunCPU
    <3> HIDE DEF runs
    <3>4. /\ IsProg(Fadas!RegisterFrame(f, 1) \o runs)
          /\ Framing(p, "RUNNING", Fadas!RegisterFrame(f, 1) \o runs)
          /\ Covered(s, Fadas!RegisterFrame(f, 1) \o runs)
      BY <3>1, <3>2, RunsAre
    <3> QED BY <3>3, <3>4, Zenon
  <2> QED BY <2>1, <2>2
<1> HIDE DEF keep, rest
<1>4. IsProg(<<keep>> \o rest) /\ Elems(<<keep>> \o rest) = {keep} \union Elems(rest)
  BY <1>3, Cons
<1>5. Framing(p, "RUNNING", <<keep>> \o rest)
  BY <1>2, <1>3, <1>4 DEF Framing
<1>6. Covered(s, <<keep>> \o rest)
  BY <1>2, <1>3, CoveredCons
<1> QED BY <1>1, <1>5, <1>6
=============================================================================
