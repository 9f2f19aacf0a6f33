------------------------------- MODULE OpenclSrv -------------------------------
(***************************************************************************)
(* The OpenCL service of a node (OpenclIface.cpp), as operators on its     *)
(* state s.  One thread uses it.                                           *)
(*   initialized  m_initialized                                            *)
(*   kernels      m_kernelMap: the names of the kernels                    *)
(*   tables       m_bufferMap, m_imageMap and m_planeMap: their objects    *)
(*   live         OpenCL: the memory objects that exist                    *)
(*   contexts     OpenCL: the contexts that exist                          *)
(*   epoch        counts the times the tables were emptied                 *)
(*                                                                         *)
(* A memory object knows its table, its key there, the memory it was made  *)
(* of, and the epoch, so that an object and its successor differ.          *)
(***************************************************************************)
EXTENDS Naturals, Sequences, SequencesExt

Closed == [initialized |-> FALSE, kernels |-> {}, tables |-> {}, live |-> {},
           contexts |-> 0, epoch |-> 0]

(***************************************************************************)
(* Init may end before or after the context is made; nothing releases that *)
(* one.                                                                    *)
(***************************************************************************)
ServiceInit(s)   == [s EXCEPT !.initialized = TRUE, !.contexts = @ + 1]
ServiceFails(s)  == { s, [s EXCEPT !.contexts = @ + 1] }

(* The calls that look into a table first, with the key of the entry. *)
CreateKernel(name)     == [table |-> "kernel", key |-> name]
RegBufferDesc(a)       == [table |-> "buffer", key |-> <<a>>]
RegImage(a)            == [table |-> "image", key |-> <<a>>]
RegPlane(a, order)     == [table |-> "plane", key |-> <<a, order>>]
Execute                == [table |-> "none", key |-> "execute"]

Objects(s, r) == { o \in s.tables : o.table = r.table /\ o.key = r.key }

(* Nothing is asked of OpenCL where the entry exists. *)
Known(s, r) == \/ r.table = "kernel" /\ r.key \in s.kernels
               \/ r.table \in {"buffer", "image", "plane"} /\ Objects(s, r) # {}

NewObject(s, r, memory) ==
  [table |-> r.table, key |-> r.key, memory |-> memory[r.key[1]], epoch |-> s.epoch]

\* Mutant: the new objects are not put into their tables.
Register_NotKept(s, new) == [s EXCEPT !.live = @ \union new]

Register(s, new) == [s EXCEPT !.live = @ \union new, !.tables = @ \union new]

(* The calls rs, which succeed: whatever their order, a kernel or an object *)
(* is made by the first that asks for it, and found by the others.         *)
DoAll(s, rs, memory) ==
  LET names   == { r.key : r \in { q \in rs : q.table = "kernel" } }
      unknown == { r \in rs : r.table \in {"buffer", "image", "plane"} /\ ~Known(s, r) }
  IN Register([s EXCEPT !.kernels = @ \union names],
              { NewObject(s, r, memory) : r \in unknown })

\* Mutant: the table of buffers keeps its entries.
DeregAllBuffers_KeepsBuffers(s, kept) ==
  [s EXCEPT !.live = (@ \ s.tables) \union kept,
            !.tables = { o \in @ : o.table = "buffer" }, !.epoch = @ + 1]

(* All tables are emptied; the objects kept could not be released. *)
DeregAllBuffers(s, kept) ==
  [s EXCEPT !.live = (@ \ s.tables) \union kept, !.tables = {}, !.epoch = @ + 1]

ServiceDeinit(s, kept) ==
  [DeregAllBuffers(s, kept) EXCEPT !.initialized = FALSE, !.kernels = {},
                                   !.contexts = @ - 1]
=============================================================================
