-------------------------------- MODULE Ring --------------------------------
(***************************************************************************)
(* crates/boa-client/src/audio/ring.rs: a lock-free ring of samples        *)
(* between one producer and one consumer, each on a thread of its own.     *)
(*                                                                         *)
(* A thread's stores become visible to the other later than it makes them  *)
(* and, unless ordering says otherwise, in any order: a relaxed store of a *)
(* sample at any time, a release store of an index only after every store  *)
(* the thread made before it.  An acquire load sees what is visible, and   *)
(* no later access of the thread overtakes it.  A thread sees its own      *)
(* stores at once.                                                         *)
(*                                                                         *)
(* Samples are numbered in the order push accepts them.  The code has only *)
(* indices into the cells; the counters beside them say how many samples   *)
(* an index stands for, which orders the stores of one thread.             *)
(***************************************************************************)
EXTENDS Integers

CONSTANTS
    Size,       \* cells.len(): a power of two
    MaxSamples, \* bound on the samples accepted
    None        \* no store of this cell is under way

ASSUME RingAssumption ==
    /\ Size \in Nat /\ Size >= 2
    /\ MaxSamples \in Nat
    /\ None \notin Nat

VARIABLES
    cells,      \* the samples, as the consumer sees them
    pending,    \* pending[c]: the producer's store to c the consumer cannot see yet
    write,      \* the write index as the consumer sees it,
    published,  \*   and the number of samples before it
    writes,     \* release stores of the write index that it cannot see yet
    read,       \* the read index as the producer sees it,
    freed,      \*   and the number of samples before it
    reads,      \* release stores of the read index that it cannot see yet
    prod,       \* the producer: its own write index, samples accepted so far, and
                \* how many samples its push has taken and stored
    cons,       \* the consumer: its own read index, samples gone so far, what its
                \* call is doing, how many samples it takes and has copied
    promised,   \* what the consumer's last len() returned
    out,        \* the buffer its pop copies to
    delivered   \* what the last finished pop had copied

vars == <<cells, pending, write, published, writes, read, freed, reads, prod,
          cons, promised, out, delivered>>

Cells == 0 .. (Size - 1)
Capacity == Size - 1

\* index & mask, for an index that went round at most once.
Wrap(i) == IF i < Size THEN i ELSE i - Size
\* Mistake: the difference does not wrap.
Saturating(w, r) == IF w >= r THEN w - r ELSE 0

\* w.wrapping_sub(r) & mask
Dist(w, r) == IF w >= r THEN w - r ELSE w - r + Size

AtMost(a, b) == IF a <= b THEN a ELSE b

Free(w, r) == Capacity - Dist(w, r)

----------------------------------------------------------------------------
(* push: load both indices, store the samples that fit, then the index.    *)

PushStart(n) ==
    LET taken == AtMost(n, Free(prod.index, read)) IN
    /\ prod.at = "idle"
    /\ prod.count + taken <= MaxSamples
    /\ prod' = [prod EXCEPT !.at = "store", !.taken = taken, !.stored = 0]
    /\ UNCHANGED <<cells, pending, write, published, writes, read, freed, reads,
                   cons, promised, out, delivered>>

Store ==
    /\ prod.at = "store" /\ prod.stored < prod.taken
    /\ pending' = [pending EXCEPT ![Wrap(prod.index + prod.stored)] =
                                        prod.count + prod.stored]
    /\ prod' = [prod EXCEPT !.stored = @ + 1]
    /\ UNCHANGED <<cells, write, published, writes, read, freed, reads, cons,
                   promised, out, delivered>>

Publish ==
    LET index == Wrap(prod.index + prod.taken)
        count == prod.count + prod.taken IN
    /\ prod.at = "store" /\ prod.stored = prod.taken
    /\ writes' = writes \cup {[index |-> index, count |-> count]}
    /\ prod' = [at |-> "idle", index |-> index, count |-> count,
                taken |-> 0, stored |-> 0]
    /\ UNCHANGED <<cells, pending, write, published, read, freed, reads, cons,
                   promised, out, delivered>>

----------------------------------------------------------------------------
(* pop, clear and len, all the consumer's.                                 *)

PopStart(n) ==
    /\ cons.at = "idle"
    /\ cons' = [cons EXCEPT !.at = "copy", !.copied = 0,
                            !.taken = AtMost(n, Dist(write, cons.index))]
    /\ promised' = 0
    /\ out' = [j \in 1 .. AtMost(n, Dist(write, cons.index)) |-> None]
    /\ UNCHANGED <<cells, pending, write, published, writes, read, freed, reads,
                   prod, delivered>>

Copy ==
    /\ cons.at = "copy" /\ cons.copied < cons.taken
    /\ cons' = [cons EXCEPT !.copied = @ + 1]
    /\ out' = [out EXCEPT ![cons.copied + 1] =
                    cells[Wrap(cons.index + cons.copied)]]
    /\ UNCHANGED <<cells, pending, write, published, writes, read, freed, reads,
                   prod, promised, delivered>>

\* clear: the read index is about to be set to the write index just loaded.
ClearStart ==
    /\ cons.at = "idle"
    /\ cons' = [cons EXCEPT !.at = "skip", !.copied = 0,
                            !.taken = Dist(write, cons.index)]
    /\ promised' = 0
    /\ UNCHANGED <<cells, pending, write, published, writes, read, freed, reads,
                   prod, out, delivered>>

\* The release store of the read index that ends a pop or a clear.
Release ==
    LET index == Wrap(cons.index + cons.taken)
        count == cons.count + cons.taken IN
    /\ \/ cons.at = "copy" /\ cons.copied = cons.taken /\ delivered' = out
       \/ cons.at = "skip" /\ UNCHANGED delivered
    /\ reads' = reads \cup {[index |-> index, count |-> count]}
    /\ cons' = [at |-> "idle", index |-> index, count |-> count,
                taken |-> 0, copied |-> 0]
    /\ UNCHANGED <<cells, pending, write, published, writes, read, freed, prod,
                   out, promised>>

CheckLen ==
    /\ cons.at = "idle"
    /\ promised' = Dist(write, cons.index)
    /\ UNCHANGED <<cells, pending, write, published, writes, read, freed, reads,
                   prod, cons, out, delivered>>

----------------------------------------------------------------------------
(* Stores become visible.                                                  *)

ShowCell(c) ==
    /\ pending[c] # None
    /\ cells' = [cells EXCEPT ![c] = pending[c]]
    /\ pending' = [pending EXCEPT ![c] = None]
    /\ UNCHANGED <<write, published, writes, read, freed, reads, prod, cons,
                   promised, out, delivered>>

First(r, stores) == r \in stores /\ \A s \in stores : r.count <= s.count

\* Mistake: the write index is stored with relaxed ordering.
Relaxed(r) == TRUE

\* The samples stored before the index was.
Ordered(r) == \A c \in Cells : pending[c] # None => pending[c] >= r.count

ShowWrite(r) ==
    /\ First(r, writes) /\ Ordered(r)
    /\ write' = r.index /\ published' = r.count
    /\ writes' = writes \ {r}
    /\ UNCHANGED <<cells, pending, read, freed, reads, prod, cons, promised,
                   out, delivered>>

ShowRead(r) ==
    /\ First(r, reads)
    /\ read' = r.index /\ freed' = r.count
    /\ reads' = reads \ {r}
    /\ UNCHANGED <<cells, pending, write, published, writes, prod, cons,
                   promised, out, delivered>>

----------------------------------------------------------------------------

Init ==
    /\ cells = [c \in Cells |-> 0] /\ pending = [c \in Cells |-> None]
    /\ write = 0 /\ published = 0 /\ writes = {}
    /\ read = 0 /\ freed = 0 /\ reads = {}
    /\ prod = [at |-> "idle", index |-> 0, count |-> 0, taken |-> 0, stored |-> 0]
    /\ cons = [at |-> "idle", index |-> 0, count |-> 0, taken |-> 0, copied |-> 0]
    /\ promised = 0 /\ out = <<>> /\ delivered = <<>>

Producer == (\E n \in 0 .. Size : PushStart(n)) \/ Store \/ Publish
Consumer ==
    \/ \E n \in 0 .. Size : PopStart(n)
    \/ Copy \/ ClearStart \/ Release \/ CheckLen
Memory ==
    \/ \E c \in Cells : ShowCell(c)
    \/ \E r \in writes : ShowWrite(r)
    \/ \E r \in reads : ShowRead(r)

Next == Producer \/ Consumer \/ Memory

Spec == Init /\ [][Next]_vars

----------------------------------------------------------------------------
(* What the ring promises.                                                 *)

(* It is a queue: samples come out in order, each once, none that was      *)
(* overwritten or never stored, whatever order stores become visible in.   *)
Q == INSTANCE Queue WITH Room <- Capacity, entered <- published,
                         left <- cons.count, delivered <- delivered
Queueing == Q!QueueSpec

(* Once the consumer has looked how much is waiting, a pop of no more than *)
(* that is never short: the partial frame that run_tx fills with silence   *)
(* (pipeline.rs:601-606) does not happen.                                  *)
FramesWhole ==
    [][\A n \in 0 .. Size :
        PopStart(n) => cons'.taken >= AtMost(n, promised)]_vars

(* Why: every index stands for the number of samples its thread has got    *)
(* to, those numbers are in order and at most Capacity apart, and each     *)
(* sample between the ends is in its cell or on its way there -- arrived,  *)
(* if the consumer may read it.  A cell has one store under way at most.   *)
Types ==
    /\ cells \in [Cells -> Nat] /\ pending \in [Cells -> Nat \cup {None}]
    /\ write \in Cells /\ published \in Nat
    /\ read \in Cells /\ freed \in Nat
    /\ writes \subseteq [index : Cells, count : Nat]
    /\ reads \subseteq [index : Cells, count : Nat]
    /\ prod \in [at : {"idle", "store"}, index : Cells, count : Nat,
                 taken : 0 .. Capacity, stored : 0 .. Capacity]
    /\ cons \in [at : {"idle", "copy", "skip"}, index : Cells, count : Nat,
                 taken : 0 .. Capacity, copied : 0 .. Capacity]
    /\ promised \in 0 .. Capacity

Order ==
    /\ freed <= cons.count
    /\ cons.count + cons.taken <= published
    /\ published <= prod.count
    /\ prod.count + prod.taken <= freed + Capacity
    /\ prod.stored <= prod.taken /\ cons.copied <= cons.taken
    /\ prod.at = "idle" => prod.taken = 0

\* The cell of sample k, and the index that stands for k samples.
Position(k) == Wrap(read + (k - freed))

Indices ==
    /\ write = Position(published)
    /\ prod.index = Position(prod.count) /\ cons.index = Position(cons.count)
    /\ \A r \in writes : /\ published <= r.count /\ r.count <= prod.count
                         /\ r.index = Position(r.count)
    /\ \A r \in reads : /\ freed <= r.count /\ r.count <= cons.count
                        /\ r.index = Position(r.count)

\* Samples stored so far, those of the push under way included.
Stored == prod.count + prod.stored

Kept(k) ==
    IF pending[Position(k)] = None
    THEN cells[Position(k)] = k
    ELSE pending[Position(k)] = k /\ published <= k

Settled(k) == pending[Position(k)] = None

Contents ==
    /\ \A k \in freed .. (Stored - 1) : Kept(k)
    /\ \A k \in Stored .. (freed + Capacity) : Settled(k)

Copying ==
    cons.at = "copy" =>
        /\ DOMAIN out = 1 .. cons.taken
        /\ out = [j \in 1 .. cons.taken |-> out[j]]
        /\ \A j \in 1 .. cons.copied : out[j] = cons.count + j - 1

Promise ==
    /\ cons.count + promised <= published \/ promised = 0
    /\ cons.at # "idle" => promised = 0

RingInv == Types /\ Order /\ Indices /\ Contents /\ Copying /\ Promise

============================================================================
