-------------------------------- MODULE Heap --------------------------------
(***************************************************************************)
(* The storage allocator of the C library, gen/MALLOC.C, over the break    *)
(* pointer of gen/SBRK.AS.                                                 *)
(*                                                                         *)
(* Memory is counted in units of struct store (a pointer and a flag byte,  *)
(* three bytes on the Z80).  A unit is read as a header (next, busy) or    *)
(* as client data; `cell' says which of the two was last written there.    *)
(* One step of the model is one iteration of a loop of malloc(), or the    *)
(* straight-line code before, between or after the loops, so the scan that *)
(* coalesces free blocks as it walks is visible step by step.              *)
(***************************************************************************)
EXTENDS Integers, FiniteSets

CONSTANTS
  HeapBase,   \* __Hbss in units: the break before the first sbrk()
  MaxAddr,    \* last unit of the modelled memory
  Limits,     \* values of (stack pointer - 1 KB) that sbrk() may meet
  BLOCK,      \* growth quantum in units (85 in the code)
  HugeNw,     \* 65535 - BLOCK - sizeof(struct store), in units
  Sizes,      \* request sizes the clients use, in units
  Foreign     \* amounts the rest of the program asks of sbrk() directly

Addr   == 0..MaxAddr
NULL   == -1
HEADER == -1  \* the unit was last written as a header
RAW    == 0   \* the unit was never written, or with nothing we track

ASSUME HeapAssumption ==
  /\ HeapBase \in Nat /\ MaxAddr \in Nat
  /\ HeapBase > 2 /\ HeapBase <= MaxAddr
  /\ Limits \subseteq 0..MaxAddr
  /\ BLOCK \in Nat \ {0} /\ HugeNw \in Nat
  /\ Sizes \subseteq Nat
  /\ Foreign \subseteq Nat

VARIABLES
  next, busy, cell,        \* memory: header pointer, header flag, last use
  memtop,                  \* the break
  allocp, alloct, allocx,  \* search pointer, arena top, saved unit
  pc, p, temp,             \* where malloc() is, and its locals
  nw,                      \* units wanted, header included
  op,                      \* the call in progress
  ret,                     \* what it returns (0 for NULL)
  live,                    \* history: blocks the clients own
  nodes,                   \* history: headers on the circular list
  taken,                   \* history: units others got from sbrk()
  stale                    \* history: malloc() failed, nothing freed since

memory == <<next, busy, cell>>
arena  == <<allocp, alloct, allocx>>
locals == <<p, temp, nw, op, ret>>
ghosts == <<live, nodes, taken, stale>>
vars   == <<memory, memtop, arena, pc, locals, ghosts>>

(* The first two units are allocs[0] and allocs[1]; the break is at the    *)
(* end of the program's own variables.                                     *)
NoCall == [kind |-> "malloc", len |-> 0, xp |-> 0, ons |-> 0, kept |-> 0]

Init ==
  /\ next = [a \in Addr |-> NULL]
  /\ busy = [a \in Addr |-> FALSE]
  /\ cell = [a \in Addr |-> RAW]
  /\ memtop = HeapBase
  /\ allocp = NULL /\ alloct = NULL
  /\ allocx = [next |-> NULL, busy |-> FALSE, cell |-> RAW]
  /\ pc = "idle" /\ p = 0 /\ temp = 0 /\ nw = 0 /\ ret = 0
  /\ op = NoCall
  /\ live = {} /\ nodes = {} /\ taken = {} /\ stale = FALSE
-----------------------------------------------------------------------------
(***************************************************************************)
(* malloc()                                                                *)
(***************************************************************************)

(* A request for len units of data takes one more for its header: the byte *)
(* arithmetic of line 55 rounds up to whole units.  Sizes whose sum passes *)
(* 65535 are left out.                                                     *)
Rounded(len) == len + 1

(* Entry with the list already built: the scan starts at allocp. *)
MallocCall(len) ==
  /\ pc = "idle"
  /\ next[0] # NULL
  /\ op' = [NoCall EXCEPT !.len = len]
  /\ nw' = Rounded(len)
  /\ p' = allocp
  /\ temp' = 0
  /\ pc' = "scan"
  /\ UNCHANGED <<memory, memtop, arena, ret, ghosts>>

(* Entry for the first time: two busy sentinels in a ring. *)
MallocFirst(len) ==
  /\ pc = "idle"
  /\ next[0] = NULL
  /\ next' = [next EXCEPT ![0] = 1, ![1] = 0]
  /\ busy' = [busy EXCEPT ![0] = TRUE, ![1] = TRUE]
  /\ cell' = [cell EXCEPT ![0] = HEADER, ![1] = HEADER]
  /\ alloct' = 1
  /\ allocp' = 0
  /\ nodes' = {0, 1}
  /\ op' = [NoCall EXCEPT !.len = len]
  /\ nw' = Rounded(len)
  /\ p' = 0
  /\ temp' = 0
  /\ pc' = "scan"
  /\ UNCHANGED <<memtop, allocx, ret, live, taken, stale>>

(* p, and the header after p when p is free, are really headers. *)
Readable == cell[p] = HEADER /\ (busy[p] \/ cell[next[p]] = HEADER)

(* Lines 61-64: one iteration of the loop that merges p with the free      *)
(* block after it.                                                         *)
Coalesce ==
  /\ pc = "scan" /\ Readable
  /\ ~busy[p] /\ ~busy[next[p]]
  /\ next' = [next EXCEPT ![p] = next[next[p]]]
  /\ nodes' = nodes \ {next[p]}
  /\ UNCHANGED <<busy, cell, memtop, arena, pc, locals, live, taken, stale>>

Settled == ~busy[p] => busy[next[p]]

FitsBusy == next[p] >= p + nw
Fits     == ~busy[p] /\ next[p] >= p + nw

RemainsAlways == next[p] >= p + nw
Remains       == next[p] > p + nw

(* Lines 105-115: take the front of the block, leave the rest as a new     *)
(* free block whose header overwrites one unit; allocx keeps that unit for *)
(* realloc().                                                              *)
Found ==
  /\ pc = "scan" /\ Readable /\ Settled /\ Fits
  /\ LET rest == p + nw
     IN /\ allocp' = rest
        /\ IF Remains
             THEN /\ allocx' = [next |-> next[rest], busy |-> busy[rest], cell |-> cell[rest]]
                  /\ next' = [next EXCEPT ![rest] = next[p], ![p] = rest]
                  /\ busy' = [busy EXCEPT ![rest] = FALSE, ![p] = TRUE]
                  /\ cell' = [cell EXCEPT ![rest] = HEADER]
                  /\ nodes' = nodes \cup {rest}
             ELSE /\ next' = [next EXCEPT ![p] = rest]
                  /\ busy' = [busy EXCEPT ![p] = TRUE]
                  /\ UNCHANGED <<allocx, cell, nodes>>
  /\ ret' = p + 1
  /\ pc' = IF op.kind = "realloc" THEN "copy" ELSE "done"
  /\ UNCHANGED <<memtop, alloct, p, temp, nw, op, live, taken, stale>>

(* malloc() gives up: realloc() passes the NULL on. *)
Fail ==
  /\ ret' = 0
  /\ stale' = TRUE
  /\ pc' = "done"

RoundsOverEarly(t) == t > 0
RoundsOver(t)      == t > 1

(* Lines 72-85: p does not serve, go on to the next header.  The second    *)
(* time the ring closes the arena has to grow; a ring that closes anywhere *)
(* else is corrupt and malloc() answers NULL.                              *)
Advance ==
  /\ pc = "scan" /\ Readable /\ Settled /\ ~Fits
  /\ p' = next[p]
  /\ IF p < next[p]
       THEN UNCHANGED <<pc, temp, ret, stale>>
       ELSE IF p = alloct /\ next[p] = 0
              THEN /\ temp' = temp + 1
                   /\ pc' = IF RoundsOver(temp') THEN "grow" ELSE "scan"
                   /\ UNCHANGED <<ret, stale>>
              ELSE Fail /\ UNCHANGED temp
  /\ UNCHANGED <<memory, memtop, arena, nw, op, live, nodes, taken>>
-----------------------------------------------------------------------------
(***************************************************************************)
(* Growing the arena: lines 86-103, and sbrk() itself.                     *)
(***************************************************************************)

(* The break moves only while 1 KB is left below the stack pointer. *)
SbrkUnchecked(incr, limit) == TRUE
SbrkOk(incr, limit) == memtop + incr <= limit

GrowBy == IF nw >= HugeNw THEN nw ELSE ((nw \div BLOCK) + 1) * BLOCK

ContinuesAlways(q) == TRUE
Continues(q)       == q = alloct + 1

(* sbrk() succeeded: link the new region in.  The old top becomes an       *)
(* ordinary free block when the region continues the arena, and a busy one *)
(* covering the gap when somebody else moved the break in between.         *)
Grow ==
  /\ pc = "grow"
  /\ \E limit \in Limits : SbrkOk(GrowBy, limit)
  /\ memtop' = memtop + GrowBy
  /\ LET q == memtop
         top == memtop + GrowBy - 1
     IN /\ next' = [next EXCEPT ![alloct] = q, ![q] = top, ![top] = 0]
        /\ busy' = [busy EXCEPT ![alloct] = ~Continues(q),
                                ![q] = FALSE, ![top] = TRUE]
        /\ cell' = [cell EXCEPT ![q] = HEADER, ![top] = HEADER]
        /\ alloct' = top
        /\ nodes' = nodes \cup {q, top}
  /\ temp' = 0
  /\ pc' = "scan"
  /\ UNCHANGED <<allocp, allocx, p, nw, op, ret, live, taken, stale>>

GrowFails ==
  /\ pc = "grow"
  /\ \E limit \in Limits : ~SbrkOk(GrowBy, limit)
  /\ Fail
  /\ UNCHANGED <<memory, memtop, arena, p, temp, nw, op, live, nodes, taken>>

(* getenv(), the argument expansion and the stdio buffers take memory from *)
(* sbrk() behind malloc()'s back.                                          *)
ForeignSbrk(incr) ==
  /\ pc = "idle"
  /\ \E limit \in Limits : SbrkOk(incr, limit)
  /\ memtop' = memtop + incr
  /\ taken' = taken \cup memtop..(memtop + incr - 1)
  /\ UNCHANGED <<memory, arena, pc, locals, live, nodes, stale>>
-----------------------------------------------------------------------------
(***************************************************************************)
(* free() and realloc()                                                    *)
(***************************************************************************)

SearchFromSame(b) == allocp
SearchFrom(b)     == b.base - 1

Free(b) ==
  /\ pc = "idle"
  /\ b \in live
  /\ cell[b.base - 1] = HEADER
  /\ allocp' = SearchFrom(b)
  /\ busy' = [busy EXCEPT ![b.base - 1] = FALSE]
  /\ live' = live \ {b}
  /\ stale' = FALSE
  /\ UNCHANGED <<next, cell, memtop, alloct, allocx, pc, locals, nodes, taken>>

(* realloc() frees the block first and then calls malloc(), whose scan     *)
(* therefore starts at the block itself.                                   *)
ReallocCall(b, len) ==
  /\ pc = "idle"
  /\ b \in live
  /\ cell[b.base - 1] = HEADER
  /\ op' = [kind |-> "realloc", len |-> len, xp |-> b.base,
            ons |-> next[b.base - 1] - b.base, kept |-> b.len]
  /\ busy' = [busy EXCEPT ![b.base - 1] = FALSE]
  /\ allocp' = b.base - 1
  /\ p' = b.base - 1
  /\ nw' = Rounded(len)
  /\ temp' = 0
  /\ pc' = "scan"
  /\ live' = live \ {b}
  /\ stale' = FALSE
  /\ UNCHANGED <<next, cell, memtop, alloct, allocx, ret, nodes, taken>>

Least(i, j) == IF i <= j THEN i ELSE j
Odd(a) == a % 2 = 1
AsData(c) == IF c = HEADER THEN RAW ELSE c  \* a header copied into a block

(* gen/MEMCPY.C over n units.  From eight bytes up (three units), when     *)
(* both addresses are odd, it copies one byte by hand, then takes the      *)
(* destination for the source and copies it onto itself.  (A unit number   *)
(* has the parity of its byte address: three bytes a unit, even base.)     *)
Memcpy(m, dst, src, n) ==
  IF n >= 3 /\ Odd(dst) /\ Odd(src)
    THEN [m EXCEPT ![dst] = RAW]
    ELSE [a \in Addr |-> IF a \in dst..(dst + n - 1) THEN AsData(m[src + (a - dst)]) ELSE m[a]]

CopyLength(ns) == Least(op.ons, ns)

(* The unit that the split overwrote lies inside the old data when the new *)
(* block ends beyond the start of the old one.                             *)
PatchNever(m, q, ns) == m
Patch(m, q, ns) ==
  IF q < op.xp /\ q + ns > op.xp
    THEN [m EXCEPT ![q + (q + ns - op.xp)] = AsData(allocx.cell)]
    ELSE m

ReallocCopy ==
  /\ pc = "copy"
  /\ LET ns == next[ret - 1] - ret
     IN cell' = IF ret = op.xp
                  THEN cell
                  ELSE Patch(Memcpy(cell, ret, op.xp, CopyLength(ns)), ret, ns)
  /\ pc' = "done"
  /\ UNCHANGED <<next, busy, memtop, arena, locals, ghosts>>

(* The caller has its answer, and writes the whole of its block: unit i    *)
(* gets the value i + 1.                                                   *)
Filled(base, len) ==
  [a \in Addr |-> IF a \in base..(base + len - 1) THEN a - base + 1 ELSE cell[a]]

Return ==
  /\ pc = "done"
  /\ pc' = "idle"
  /\ IF ret = 0
       THEN UNCHANGED <<live, cell>>
       ELSE /\ live' = live \cup {[base |-> ret, len |-> op.len]}
            /\ cell' = Filled(ret, op.len)
  /\ op' = NoCall
  /\ p' = 0 /\ temp' = 0 /\ nw' = 0 /\ ret' = 0
  /\ UNCHANGED <<next, busy, memtop, arena, nodes, taken, stale>>

(* The allocator takes client data, or a unit nobody wrote, for a header:  *)
(* nothing is known about what happens next.                               *)
WildRead ==
  /\ \/ pc = "scan" /\ ~Readable
     \/ pc = "idle" /\ \E b \in live : cell[b.base - 1] # HEADER
  /\ pc' = "wild"
  /\ UNCHANGED <<memory, memtop, arena, locals, ghosts>>
-----------------------------------------------------------------------------
(***************************************************************************)
(* The next-state relations.  A cautious client is one that, told by a     *)
(* NULL that memory is short, frees something before it asks malloc()      *)
(* again; realloc() frees by itself.                                       *)
(***************************************************************************)

(* One step of the call in progress. *)
Step == \/ Coalesce \/ Found \/ Advance
        \/ Grow \/ GrowFails
        \/ ReallocCopy \/ Return

Release(b) == Free(b) \/ \E len \in Sizes : ReallocCall(b, len)

Ask == \E len \in Sizes : MallocCall(len) \/ MallocFirst(len)

Others == \/ \E b \in live : Release(b)
          \/ \E incr \in Foreign : ForeignSbrk(incr)

CautiousNext == Step \/ Others \/ (~stale /\ Ask)
AnyNext      == Step \/ Others \/ Ask \/ WildRead

(* Any client at all. *)
Spec == Init /\ [][AnyNext]_vars

(* Cautious clients; a call in progress runs to its end, for nothing else  *)
(* runs in the meantime.                                                   *)
CautiousSpec == Init /\ [][CautiousNext]_vars
FairSpec     == CautiousSpec /\ WF_vars(Step)
-----------------------------------------------------------------------------
(***************************************************************************)
(* Properties                                                              *)
(***************************************************************************)

Unit == [next : Addr \cup {NULL}, busy : BOOLEAN, cell : Int]

Block == [base : Nat, len : Nat]

Call == [kind : {"malloc", "realloc"}, len : Nat, xp : Nat, ons : Int, kept : Nat]

(* The type invariant: every variable holds a value of its kind. *)
TypeOK ==
  /\ next \in [Addr -> Addr \cup {NULL}]
  /\ busy \in [Addr -> BOOLEAN]
  /\ cell \in [Addr -> Int]
  /\ memtop \in Addr
  /\ allocp \in Int /\ alloct \in Addr \cup {NULL} /\ allocx \in Unit
  /\ pc \in {"idle", "scan", "grow", "copy", "done", "wild"}
  /\ p \in Int /\ temp \in Nat /\ nw \in Nat /\ ret \in Nat
  /\ op \in Call
  /\ live \subseteq Block
  /\ nodes \subseteq Addr /\ taken \subseteq Addr
  /\ stale \in BOOLEAN

Span(b) == b.base..(b.base + b.len - 1)

(* No two blocks in the hands of clients share a unit, none reaches beyond *)
(* the break, and none has a unit that somebody else got from sbrk(): what *)
(* malloc() hands out is the caller's alone.                               *)
NoOverlap ==
  \A b \in live :
    /\ Span(b) \subseteq (HeapBase..(memtop - 1)) \ taken
    /\ \A c \in live : c = b \/ Span(b) \cap Span(c) = {}

(* What a client wrote into its block stays there until it frees the block *)
(* or gives it to realloc(): no header, split or copy lands in it.         *)
ContentsKept ==
  \A b \in live : \A i \in 0..(b.len - 1) : cell[b.base + i] = i + 1

(* The ring of headers: addresses ascend from allocs[0] to the arena top   *)
(* and return to allocs[0], with no header skipped over.  It is what the   *)
(* ASSERTs of lines 62, 79, 81 and 131 say of the list.                    *)
RingOK ==
  nodes # {} =>
    /\ {0, 1, alloct} \subseteq nodes
    /\ next[alloct] = 0 /\ busy[alloct] /\ busy[0] /\ busy[1]
    /\ \A n \in nodes :
         /\ n = 0 \/ n = 1 \/ n >= HeapBase
         /\ n <= alloct
         /\ cell[n] = HEADER
         /\ n # alloct => /\ next[n] \in nodes /\ n < next[n]
                          /\ \A m \in nodes : m <= n \/ next[n] <= m

(* Between calls the search pointer is the address of a header on the      *)
(* ring, unless malloc() has just failed: coalescing on the way round may  *)
(* have swallowed the block it points to.                                  *)
SearchPtrOnRing ==
  pc = "idle" /\ ~stale /\ nodes # {} => allocp \in nodes

(* malloc() and realloc() answer NULL only when every two adjacent free    *)
(* blocks have been merged and still none of them is large enough.         *)
NullMeansNoRoom ==
  pc = "done" /\ ret = 0 =>
    \A n \in nodes : ~busy[n] => busy[next[n]] /\ next[n] - n < nw

(* The old block's defined units are at the front of what realloc()        *)
(* returns, as many of them as fit.                                        *)
Moved == \A i \in 0..(Least(op.kept, op.len) - 1) : cell[ret + i] = i + 1

Answered == pc = "done" /\ op.kind = "realloc" /\ ret # 0

(* realloc() "copies the contents of the block" (Z80DOC, REALLOC).         *)
ReallocKeepsContents == Answered => Moved

(* The same, except where the code is known to fail: the new block ends    *)
(* exactly where the old data starts, or memcpy() takes its word copy      *)
(* from an odd address.                                                    *)
EndsAtOld   == ret + (next[ret - 1] - ret) = op.xp
OddWordCopy == Odd(ret) /\ Odd(op.xp) /\ CopyLength(next[ret - 1] - ret) >= 3

ReallocKeepsContentsElsewhere ==
  Answered => ret = op.xp \/ EndsAtOld \/ OddWordCopy \/ Moved

(* A call always comes to its end: two rounds of the ring, one growth, and *)
(* the request fits or the answer is NULL.                                 *)
CallEnds == pc # "idle" ~> pc = "idle"

(* To a cautious client the allocator is an abstract one: every grant is a *)
(* piece of memory that no block in use touches, and every block that      *)
(* goes away was given back by its owner.                                  *)
A == INSTANCE Allocator WITH Place <- HeapBase..MaxAddr, Length <- Sizes, blocks <- live

ImplementsAllocator == A!Spec
=============================================================================
