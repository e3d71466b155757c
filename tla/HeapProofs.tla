---------------------------- MODULE HeapProofs ------------------------------
(***************************************************************************)
(* For any memory size, growth quantum, request sizes and stack positions: *)
(* a cautious client of malloc(), free() and realloc() never gets memory   *)
(* that somebody else is using, is refused only when there is no room, and *)
(* finds its old data in what realloc() returns.                           *)
(***************************************************************************)
EXTENDS Heap, TLAPS

(***************************************************************************)
(* The inductive invariant.  NoOverlap alone is not inductive: that a new  *)
(* block is nobody's follows from where its header stands on the ring, so  *)
(* the invariant ties every block to the header before it (Owned), every   *)
(* free block to memory that came from malloc()'s own calls of sbrk()      *)
(* (Untaken), and the block on its way to a caller to both (Pending).      *)
(***************************************************************************)
Fresh == next[0] = NULL <=> nodes = {}

TopOK ==
  /\ HeapBase <= memtop
  /\ nodes # {} => alloct < memtop

HeaderOf(h, len) ==
  /\ h \in nodes /\ h >= HeapBase /\ h # alloct
  /\ busy[h]
  /\ h + 1 + len <= next[h]

Owned ==
  \A b \in live : /\ HeaderOf(b.base - 1, b.len)
                  /\ b.len \in Sizes
                  /\ \A c \in live : b.base = c.base => b = c

Handed == pc \in {"copy", "done"} /\ ret # 0

Pending ==
  /\ Handed => /\ HeaderOf(ret - 1, op.len)
               /\ \A b \in live : b.base # ret
  /\ pc \in {"scan", "grow", "copy", "done"} => op.len \in Sizes
  /\ pc = "copy" => ret # 0

Usable(n) == \/ ~busy[n]
             \/ \E b \in live : b.base = n + 1
             \/ Handed /\ ret = n + 1

Untaken ==
  /\ taken \subseteq HeapBase..(memtop - 1)
  /\ taken \cap nodes = {}
  /\ \A n \in nodes : n # alloct /\ Usable(n) => \A t \in taken : t < n \/ next[n] <= t

Scanning ==
  /\ pc \in {"scan", "grow"} => p \in nodes /\ nw = op.len + 1 /\ ~stale
  /\ pc \in {"idle", "copy", "done"} /\ ~stale /\ nodes # {} => allocp \in nodes
  /\ pc # "idle" => nodes # {}
  /\ pc # "wild"

OldBlock == op.ons >= 0 /\ op.xp + op.ons \in Addr

IInv == /\ TypeOK /\ Fresh /\ TopOK /\ RingOK /\ Owned /\ Pending
        /\ Untaken /\ Scanning /\ OldBlock /\ ContentsKept
-----------------------------------------------------------------------------
LEMMA NoCallType ==
  /\ NoCall \in Call
  /\ \A len \in Nat : [NoCall EXCEPT !.len = len] \in Call
  BY DEF NoCall, Call

LEMMA InitInv == Init => IInv
<1> SUFFICES ASSUME Init PROVE IInv
  OBVIOUS
<1> USE HeapAssumption DEF Init
<1>1. TypeOK
  <2>1. allocx \in Unit
    BY DEF Unit, NULL, RAW
  <2>2. memtop \in Addr /\ alloct \in Addr \cup {NULL} /\ allocp \in Int
    BY DEF Addr, NULL
  <2>3. next \in [Addr -> Addr \cup {NULL}] /\ busy \in [Addr -> BOOLEAN] /\ cell \in [Addr -> Int]
    BY DEF RAW
  <2>4. op \in Call
    BY NoCallType
  <2>5. /\ pc = "idle" /\ p \in Int /\ temp \in Nat /\ nw \in Nat /\ ret \in Nat
        /\ live \subseteq Block /\ nodes \subseteq Addr /\ taken \subseteq Addr
    OBVIOUS
  <2>6. stale \in BOOLEAN
    OBVIOUS
  <2> QED
    BY ONLY <2>1, <2>2, <2>3, <2>4, <2>5, <2>6 DEF TypeOK
<1>2. Fresh /\ TopOK /\ RingOK /\ Owned /\ ContentsKept
  BY DEF Fresh, TopOK, RingOK, Owned, ContentsKept, Addr, NULL
<1>3. Pending /\ Untaken /\ Scanning /\ OldBlock
  BY DEF Pending, Handed, Untaken, Scanning, OldBlock, NoCall, Addr
<1> QED
  BY <1>1, <1>2, <1>3 DEF IInv

(***************************************************************************)
(* The amount malloc() asks of sbrk() is never zero.                       *)
(***************************************************************************)
LEMMA GrowByPositive ==
  ASSUME TypeOK, pc = "grow", nw >= 1
  PROVE  GrowBy \in Nat /\ GrowBy >= 1
<1>1. CASE nw >= HugeNw
  BY <1>1 DEF GrowBy, TypeOK
<1>2. CASE ~(nw >= HugeNw)
  <2> DEFINE k == nw \div BLOCK
  <2>1. k \in Nat /\ BLOCK \in Nat /\ BLOCK >= 1
    BY HeapAssumption DEF TypeOK
  <2>2. GrowBy = (k + 1) * BLOCK
    BY <1>2 DEF GrowBy
  <2> HIDE DEF k
  <2>3. (k + 1) * BLOCK = k * BLOCK + BLOCK /\ k * BLOCK \in Nat
    BY <2>1
  <2> QED
    BY <2>1, <2>2, <2>3
<1> QED
  BY <1>1, <1>2, HeapAssumption DEF TypeOK

-----------------------------------------------------------------------------
(***************************************************************************)
(* A header below the arena top, the block it heads, and a free block.     *)
(***************************************************************************)
LEMMA RingStep ==
  ASSUME TypeOK, RingOK, NEW n \in nodes, n # alloct
  PROVE  /\ n \in Int /\ n \in Addr /\ next[n] \in nodes /\ next[n] \in Int /\ next[n] \in Addr
         /\ n < next[n] /\ next[n] <= alloct /\ alloct \in Int /\ alloct \in Addr
         /\ \A m \in nodes : m \in Int /\ (m <= n \/ next[n] <= m)
<1>1. \A m \in nodes : m \in Addr /\ m \in Int
  BY DEF TypeOK, Addr
<1>2. alloct \in nodes /\ next[n] \in nodes /\ n < next[n] /\ next[n] <= alloct
  BY DEF RingOK
<1>3. \A m \in nodes : m <= n \/ next[n] <= m
  BY DEF RingOK
<1> QED
  BY <1>1, <1>2, <1>3

LEMMA FreeHeader ==
  ASSUME TypeOK, RingOK, Owned, NEW n \in nodes, ~busy[n]
  PROVE  /\ n # alloct /\ n # 0 /\ n # 1 /\ n >= HeapBase
         /\ \A b \in live : b.base - 1 # n
  BY DEF RingOK, Owned, HeaderOf

(***************************************************************************)
(* One lemma for each action: it preserves the invariant.                  *)
(***************************************************************************)
LEMMA MallocCallInv ==
  ASSUME IInv, ~stale, NEW len \in Sizes, MallocCall(len)
  PROVE  IInv'
<1> USE HeapAssumption DEF IInv, MallocCall, memory, arena, ghosts
<1>1. TypeOK'
  BY NoCallType DEF TypeOK, Rounded
<1>2. (Fresh /\ TopOK /\ RingOK /\ ContentsKept)'
  BY DEF Fresh, TopOK, RingOK, ContentsKept
<1>3. (Owned /\ OldBlock)'
  BY DEF Owned, HeaderOf, OldBlock, NoCall, Addr
<1>4. (Pending /\ Untaken)'
  BY DEF Pending, Handed, Untaken, Usable, NoCall, Fresh, Owned, HeaderOf
<1>5. Scanning'
  BY DEF Scanning, Fresh, Rounded, NoCall
<1> QED
  BY <1>1, <1>2, <1>3, <1>4, <1>5

LEMMA MallocFirstInv ==
  ASSUME IInv, ~stale, NEW len \in Sizes, MallocFirst(len)
  PROVE  IInv'
<1> USE HeapAssumption DEF IInv, MallocFirst
<1>0. nodes = {} /\ live = {}
  BY DEF Fresh, Owned, HeaderOf
<1>1. TypeOK'
  <2>1. 0 \in Addr /\ 1 \in Addr
    BY DEF Addr
  <2>2. (next \in [Addr -> Addr \cup {NULL}])'
    BY <2>1 DEF TypeOK
  <2>3. (busy \in [Addr -> BOOLEAN])'
    BY <2>1 DEF TypeOK
  <2>4. (cell \in [Addr -> Int])'
    BY <2>1 DEF TypeOK, HEADER
  <2>5. (op \in Call)'
    BY NoCallType
  <2>6. (/\ memtop \in Addr /\ allocp \in Int /\ alloct \in Addr \cup {NULL} /\ allocx \in Unit
         /\ nodes \subseteq Addr /\ taken \subseteq Addr)'
    BY <2>1 DEF TypeOK
  <2>7. (/\ pc \in {"idle", "scan", "grow", "copy", "done", "wild"}
         /\ p \in Int /\ temp \in Nat /\ nw \in Nat /\ ret \in Nat
         /\ live \subseteq Block /\ stale \in BOOLEAN)'
    BY DEF TypeOK, Rounded
  <2> QED
    BY ONLY <2>1, <2>2, <2>3, <2>4, <2>5, <2>6, <2>7 DEF TypeOK
<1>2. (Fresh /\ TopOK)'
  BY DEF Fresh, TopOK, NULL, TypeOK, Addr
<1>3. RingOK'
  BY DEF RingOK, TypeOK, Addr
<1>4. (Owned /\ OldBlock /\ ContentsKept)'
  BY <1>0 DEF Owned, OldBlock, NoCall, ContentsKept, Addr
<1>5. Pending'
  BY DEF Pending, Handed, NoCall
<1>6. Untaken'
  <2>1. \A t \in taken : t > 2
    BY DEF Untaken, TypeOK, Addr
  <2>2. (taken \subseteq HeapBase..(memtop - 1))' /\ taken' = taken
    BY DEF Untaken
  <2>3. nodes' = {0, 1} /\ next'[0] = 1 /\ alloct' = 1
    BY <1>0 DEF TypeOK, Addr
  <2>4. \A t \in taken : t \in Int /\ t \notin {0, 1} /\ 1 <= t
    BY <2>1 DEF TypeOK, Addr
  <2> QED
    BY ONLY <2>2, <2>3, <2>4 DEF Untaken
<1>7. Scanning'
  BY DEF Scanning, Rounded, NoCall
<1> QED
  BY <1>1, <1>2, <1>3, <1>4, <1>5, <1>6, <1>7
LEMMA CoalesceInv ==
  ASSUME IInv, Coalesce
  PROVE  IInv'
<1> DEFINE m == next[p]
<1> USE DEF IInv, Coalesce, arena, locals
<1>1. p \in nodes /\ p # alloct /\ m \in nodes /\ m # alloct /\ m # 0 /\ m # 1
  BY FreeHeader, RingStep DEF Scanning
<1>2. /\ p \in Int /\ m \in Int /\ next[m] \in Int /\ p < m /\ m < next[m]
      /\ p \in Addr /\ m \in Addr /\ next[m] \in Addr /\ next[m] \in nodes
      /\ \A n \in nodes : n \in Int /\ (n <= p \/ m <= n) /\ (n <= m \/ next[m] <= n)
  BY <1>1, RingStep
<1>3. /\ next' = [next EXCEPT ![p] = next[m]]
      /\ nodes' = nodes \ {m}
      /\ next'[p] = next[m]
      /\ \A n \in nodes : n # p => next'[n] = next[n]
  BY <1>1, <1>2 DEF TypeOK
<1> HIDE DEF m
<1>4. TypeOK'
  BY <1>2, <1>3 DEF TypeOK
<1>5. RingOK'
  <2>1. ({0, 1, alloct} \subseteq nodes /\ next[alloct] = 0 /\ busy[alloct] /\ busy[0] /\ busy[1])'
    BY <1>1, <1>3, RingStep DEF RingOK, m
  <2>2. ASSUME NEW n \in nodes'
        PROVE (/\ n = 0 \/ n = 1 \/ n >= HeapBase
               /\ n <= alloct
               /\ cell[n] = HEADER)'
    BY <1>3, <2>2 DEF RingOK
  <2>3. ASSUME NEW n \in nodes', n # alloct'
        PROVE (next[n] \in nodes /\ n < next[n] /\ \A k \in nodes : k <= n \/ next[n] <= k)'
    <3>1. CASE n = p
      BY <1>2, <1>3, <2>3, <3>1
    <3>2. CASE n # p
      <4>1. n \in nodes /\ next'[n] = next[n] /\ n \in Int /\ n # m
        BY <1>2, <1>3, <2>3, <3>2
      <4>2. next[n] \in nodes /\ n < next[n] /\ \A k \in nodes : k <= n \/ next[n] <= k
        BY <2>3, <4>1, RingStep
      <4>3. next[n] # m
        BY <1>1, <1>2, <3>2, <4>1, <4>2
      <4> QED
        BY <1>3, <4>1, <4>2, <4>3
    <3> QED
      BY <3>1, <3>2
  <2> QED
    BY <2>1, <2>2, <2>3 DEF RingOK
<1>6. \A b \in live : b.base - 1 # p /\ b.base - 1 # m
  BY <1>1, FreeHeader DEF m
<1>7. Owned'
  BY <1>3, <1>6 DEF Owned, HeaderOf
<1>8. (Fresh /\ TopOK)'
  BY <1>1, <1>2, <1>3 DEF Fresh, TopOK, RingOK, TypeOK, NULL, Addr
<1>9. (Pending /\ OldBlock /\ Scanning /\ ContentsKept)'
  BY <1>1, <1>2, <1>3 DEF Pending, Handed, OldBlock, Scanning, ContentsKept
<1>10. Untaken'
  <2>1. (taken \subseteq HeapBase..(memtop - 1) /\ taken \cap nodes = {})'
    BY <1>3 DEF Untaken
  <2>2. ASSUME NEW n \in nodes', n # alloct', Usable(n)', NEW t \in taken'
        PROVE t < n \/ next'[n] <= t
    <3>1. n \in nodes /\ n # alloct /\ t \in taken /\ t \in Int /\ Usable(n)
      BY <1>3, <2>2 DEF Usable, Handed, TypeOK, Addr
    <3>2. CASE n = p
      <4>1. (t < p \/ m <= t) /\ (t < m \/ next[m] <= t)
        BY <1>1, <3>1 DEF Untaken, Usable, m
      <4> QED
        BY <1>2, <1>3, <3>1, <3>2, <4>1
    <3>3. CASE n # p
      BY <1>3, <3>1, <3>3 DEF Untaken
    <3> QED
      BY <3>2, <3>3
  <2> QED
    BY <2>1, <2>2 DEF Untaken
<1> QED
  BY <1>4, <1>5, <1>7, <1>8, <1>9, <1>10
(***************************************************************************)
(* Found, with the rest of the block split off or without.                 *)
(***************************************************************************)
LEMMA FoundInv ==
  ASSUME IInv, Found
  PROVE  IInv'
<1> DEFINE rest == p + nw
<1> USE HeapAssumption DEF IInv, Found
<1>1. p \in nodes /\ p # alloct /\ p # 0 /\ p # 1 /\ p >= HeapBase /\ ~busy[p]
  BY FreeHeader DEF Scanning, Fits
<1>2. /\ p \in Int /\ p \in Addr /\ next[p] \in Int /\ next[p] \in Addr
      /\ next[p] \in nodes /\ p < next[p] /\ next[p] <= alloct
      /\ \A n \in nodes : n \in Int /\ (n <= p \/ next[p] <= n)
  BY <1>1, RingStep
<1>3. /\ nw = op.len + 1 /\ op.len \in Nat /\ nodes # {}
      /\ ~stale /\ op.len \in Sizes
  BY <1>1 DEF Scanning, Pending, TypeOK
<1>4. rest \in Int /\ p < rest /\ rest <= next[p] /\ rest \in Addr
  BY <1>1, <1>2, <1>3 DEF Fits, Addr
<1>5. \A b \in live : b.base - 1 # p
  BY <1>1, FreeHeader
<1>6. /\ next'[p] = rest /\ busy'[p]
      /\ rest \in nodes' /\ nodes' = nodes \cup {rest}
      /\ rest # next[p] => next'[rest] = next[p] /\ ~busy'[rest] /\ cell'[rest] = HEADER
      /\ \A a \in Addr : a # p /\ (a # rest \/ rest = next[p]) =>
                           next'[a] = next[a] /\ busy'[a] = busy[a] /\ cell'[a] = cell[a]
      /\ cell'[p] = cell[p]
  <2>1. CASE Remains
    BY <1>2, <1>4, <2>1 DEF TypeOK, Remains
  <2>2. CASE ~Remains
    BY <1>2, <1>3, <1>4, <2>2 DEF TypeOK, Remains
  <2> QED
    BY <2>1, <2>2
<1>7. TypeOK'
  <2>1. CASE Remains
    <3>1. next[rest] \in Addr \cup {NULL} /\ cell[rest] \in Int /\ busy[rest] \in BOOLEAN
      BY <1>4 DEF TypeOK
    <3>2. (allocx \in Unit)'
      BY <2>1, <3>1 DEF Unit
    <3>3. (next \in [Addr -> Addr \cup {NULL}] /\ busy \in [Addr -> BOOLEAN])'
      <4>1. next \in [Addr -> Addr \cup {NULL}] /\ busy \in [Addr -> BOOLEAN]
        BY DEF TypeOK
      <4>2. /\ next' = [next EXCEPT ![rest] = next[p], ![p] = rest]
            /\ busy' = [busy EXCEPT ![rest] = FALSE, ![p] = TRUE]
        BY <2>1
      <4> HIDE DEF IInv, Found
      <4> QED
        BY <1>2, <1>4, <4>1, <4>2
    <3>4. (cell \in [Addr -> Int])'
      BY <1>4, <2>1 DEF TypeOK, HEADER
    <3>5. (nodes \subseteq Addr)'
      BY <1>4, <1>6 DEF TypeOK
    <3>6. (allocp \in Int /\ ret \in Nat)'
      BY <1>1, <1>4 DEF TypeOK
    <3> QED
      BY <3>2, <3>3, <3>4, <3>5, <3>6 DEF TypeOK
  <2>2. CASE ~Remains
    <3>1. (next \in [Addr -> Addr \cup {NULL}] /\ busy \in [Addr -> BOOLEAN])'
      BY <1>2, <1>4, <2>2 DEF TypeOK
    <3>2. (allocp \in Int /\ ret \in Nat)'
      BY <1>1, <1>4 DEF TypeOK
    <3> QED
      BY <2>2, <3>1, <3>2 DEF TypeOK
  <2> QED
    BY <2>1, <2>2
<1> HIDE DEF rest
<1>8. RingOK'
  <2>1. ({0, 1, alloct} \subseteq nodes /\ next[alloct] = 0 /\ busy[alloct] /\ busy[0] /\ busy[1])'
    <3>1. /\ {0, 1, alloct} \subseteq nodes /\ next[alloct] = 0
          /\ busy[alloct] /\ busy[0] /\ busy[1]
          /\ {0, 1, alloct} \subseteq Addr
      BY <1>3 DEF RingOK, TypeOK
    <3>2. rest \notin {0, 1} /\ (rest = alloct => rest = next[p])
      BY <1>1, <1>2, <1>4, HeapAssumption DEF TypeOK
    <3> QED
      BY <1>1, <1>6, <3>1, <3>2
  <2>2. ASSUME NEW n \in nodes'
        PROVE (/\ n = 0 \/ n = 1 \/ n >= HeapBase
               /\ n <= alloct
               /\ cell[n] = HEADER)'
    <3>1. CASE n = p \/ (n = rest /\ rest # next[p])
      BY <1>1, <1>2, <1>3, <1>4, <1>6, <3>1 DEF RingOK, TypeOK, Addr
    <3>2. CASE n # p /\ (n # rest \/ rest = next[p])
      <4>1. n \in nodes /\ n \in Addr
        BY <1>2, <1>6, <3>2 DEF TypeOK
      <4> QED
        BY <1>6, <3>2, <4>1 DEF RingOK
    <3> QED
      BY <3>1, <3>2
  <2>3. ASSUME NEW n \in nodes', n # alloct'
        PROVE (next[n] \in nodes /\ n < next[n] /\ \A k \in nodes : k <= n \/ next[n] <= k)'
    <3>1. CASE n = p
      BY <1>2, <1>4, <1>6, <3>1
    <3>2. CASE n = rest /\ rest # next[p]
      BY <1>2, <1>4, <1>6, <3>2
    <3>3. CASE n # p /\ (n # rest \/ rest = next[p])
      <4>1. n \in nodes /\ n \in Addr /\ n \in Int /\ next'[n] = next[n]
        BY <1>2, <1>6, <3>3 DEF TypeOK
      <4>2. next[n] \in nodes /\ next[n] \in Int /\ n < next[n]
            /\ \A k \in nodes : k <= n \/ next[n] <= k
        BY <2>3, <4>1, RingStep
      <4>3. rest <= n \/ next[n] <= rest
        BY <1>1, <1>2, <1>4, <3>3, <4>1, <4>2
      <4> QED
        BY <1>6, <4>1, <4>2, <4>3
    <3> QED
      BY <3>1, <3>2, <3>3
  <2> QED
    BY <2>1, <2>2, <2>3 DEF RingOK
<1>9. \A b \in live : /\ b.base - 1 \in nodes /\ b.base - 1 \in Addr /\ b.base - 1 # p
                      /\ (b.base - 1 # rest \/ rest = next[p])
  <2> SUFFICES ASSUME NEW b \in live
               PROVE  /\ b.base - 1 \in nodes /\ b.base - 1 \in Addr /\ b.base - 1 # p
                      /\ (b.base - 1 # rest \/ rest = next[p])
    OBVIOUS
  <2>1. b.base - 1 \in nodes /\ b.base - 1 \in Addr
    BY DEF Owned, HeaderOf, TypeOK
  <2>2. b.base - 1 # p /\ (b.base - 1 <= p \/ next[p] <= b.base - 1) /\ b.base - 1 \in Int
    BY <1>2, <1>5, <2>1
  <2> QED
    BY <1>2, <1>4, <2>1, <2>2
<1>10. Owned'
  BY <1>6, <1>9 DEF Owned, HeaderOf
<1>11. Pending'
  <2>1. ret' = p + 1
    OBVIOUS
  <2>2. \A b \in live' : b.base # ret'
    BY <1>5, <1>2, <2>1 DEF TypeOK, Block
  <2>3. HeaderOf(p, op.len)'
    BY <1>1, <1>2, <1>3, <1>4, <1>6 DEF HeaderOf, rest
  <2>4. ret' - 1 = p /\ ret' # 0 /\ op' = op
    BY <1>1, <1>2, <2>1
  <2> QED
    BY <1>3, <2>2, <2>3, <2>4 DEF Pending, Handed
<1>12. (TopOK /\ Fresh /\ OldBlock)'
  <2>1. next'[0] = next[0] /\ nodes' # {}
    BY <1>1, <1>2, <1>4, <1>6 DEF TypeOK, Addr
  <2> QED
    BY <1>3, <2>1 DEF TopOK, Fresh, OldBlock
<1>13. Scanning'
  BY <1>6 DEF Scanning, rest
<1>14. ContentsKept'
  <2>1. ASSUME NEW b \in live', NEW i \in 0..(b.len - 1)
        PROVE  cell'[b.base + i] = i + 1
    <3>1. /\ b \in live /\ b.base - 1 \in nodes /\ b.base - 1 # alloct /\ b.base - 1 # p
          /\ b.base + b.len <= next[b.base - 1] /\ b.base \in Nat /\ b.len \in Nat
      BY <1>5 DEF Owned, HeaderOf, TypeOK, Block
    <3>2. /\ next[b.base - 1] \in Addr /\ next[b.base - 1] \in Int
          /\ p <= b.base - 1 \/ next[b.base - 1] <= p
          /\ b.base - 1 <= p \/ next[p] <= b.base - 1
      BY <1>1, <1>2, <3>1, RingStep
    <3>3. b.base + i \in Addr /\ (b.base + i < p \/ b.base + i > next[p])
      BY <1>2, <3>1, <3>2 DEF Addr
    <3>4. cell'[b.base + i] = cell[b.base + i]
      BY <1>2, <1>4, <1>6, <3>3
    <3> QED
      BY <3>1, <3>4 DEF ContentsKept
  <2> QED
    BY <2>1 DEF ContentsKept
<1>15. Untaken'
  <2>1. \A t \in taken : t \in Int /\ (t < p \/ next[p] <= t) /\ t \notin nodes
    BY <1>1 DEF Untaken, Usable, TypeOK, Addr
  <2>2. (taken \subseteq HeapBase..(memtop - 1) /\ taken \cap nodes = {})'
    BY <1>2, <1>4, <1>6, <2>1 DEF Untaken
  <2>3. ASSUME NEW n \in nodes', n # alloct', Usable(n)', NEW t \in taken'
        PROVE t < n \/ next'[n] <= t
    <3>1. CASE n = p \/ (n = rest /\ rest # next[p])
      BY <1>2, <1>4, <1>6, <2>1, <3>1
    <3>2. CASE n # p /\ (n # rest \/ rest = next[p])
      <4>1. n \in nodes /\ n \in Addr /\ n \in Int
        BY <1>2, <1>6, <3>2 DEF TypeOK
      <4>2. next'[n] = next[n] /\ busy'[n] = busy[n]
        BY <1>6, <3>2, <4>1
      <4>3. Usable(n)
        BY <1>2, <2>3, <3>2, <4>1, <4>2 DEF Usable, Handed
      <4> QED
        BY <2>3, <4>1, <4>2, <4>3 DEF Untaken
    <3> QED
      BY <3>1, <3>2
  <2> QED
    BY <2>2, <2>3 DEF Untaken
<1> QED
  BY <1>7, <1>8, <1>10, <1>11, <1>12, <1>13, <1>14, <1>15
LEMMA AdvanceInv ==
  ASSUME IInv, Advance
  PROVE  IInv'
<1> USE DEF IInv, Advance, memory, arena, Fail
<1>1. p \in nodes /\ pc = "scan" /\ ~stale /\ nw = op.len + 1 /\ op.len \in Sizes
  BY DEF Scanning, Pending
<1>2. p' \in nodes /\ p' \in Int
  <2>1. CASE p = alloct
    BY <1>1, <2>1 DEF RingOK
  <2>2. CASE p # alloct
    BY <1>1, <2>2, RingStep
  <2> QED
    BY <2>1, <2>2
<1>3. \/ pc' \in {"scan", "grow"} /\ stale' = stale /\ ret' = ret
      \/ pc' = "done" /\ ret' = 0 /\ stale'
  BY <1>1
<1>4. temp' \in Nat
  BY DEF TypeOK
<1>5. TypeOK'
  <2>1. pc' \in {"scan", "grow", "done"} /\ ret' \in Nat
    BY <1>3 DEF TypeOK
  <2>2. stale' \in BOOLEAN
    BY <1>3 DEF TypeOK
  <2> QED
    BY <1>2, <1>4, <2>1, <2>2 DEF TypeOK
<1>6. (Fresh /\ TopOK /\ RingOK /\ Owned /\ OldBlock /\ ContentsKept)'
  BY DEF Fresh, TopOK, RingOK, Owned, HeaderOf, OldBlock, ContentsKept
<1>7. (Pending /\ Untaken)'
  <2>1. ~Handed /\ ~Handed'
    BY <1>1, <1>3 DEF Handed
  <2> QED
    BY <1>1, <1>3, <2>1 DEF Pending, Untaken, Usable
<1>8. Scanning'
  BY <1>1, <1>2, <1>3 DEF Scanning
<1> QED
  BY <1>5, <1>6, <1>7, <1>8

LEMMA GrowFailsInv ==
  ASSUME IInv, GrowFails
  PROVE  IInv'
<1> USE DEF IInv, GrowFails, memory, arena, Fail
<1>1. op.len \in Sizes /\ nodes # {}
  BY DEF Scanning, Pending
<1>2. TypeOK'
  BY DEF TypeOK
<1>3. (Fresh /\ TopOK /\ RingOK /\ Owned /\ OldBlock /\ ContentsKept)'
  BY DEF Fresh, TopOK, RingOK, Owned, HeaderOf, OldBlock, ContentsKept
<1>4. (Pending /\ Untaken)'
  BY <1>1 DEF Pending, Handed, Untaken, Usable
<1>5. Scanning'
  BY <1>1 DEF Scanning
<1> QED
  BY <1>2, <1>3, <1>4, <1>5

LEMMA ForeignSbrkInv ==
  ASSUME IInv, NEW incr \in Foreign, ForeignSbrk(incr)
  PROVE  IInv'
<1> USE HeapAssumption DEF IInv, ForeignSbrk, memory, arena, locals
<1>1. incr \in Nat /\ memtop \in Nat /\ memtop' = memtop + incr /\ memtop' \in Addr
  BY DEF SbrkOk, TypeOK, Addr
<1>2. TypeOK'
  BY <1>1 DEF TypeOK, Addr
<1>3. (Fresh /\ TopOK /\ RingOK /\ Owned /\ OldBlock /\ ContentsKept)'
  BY <1>1 DEF Fresh, TopOK, RingOK, Owned, HeaderOf, OldBlock, ContentsKept, TypeOK, Addr
<1>4. (Pending /\ Scanning)'
  BY DEF Pending, Handed, Scanning, HeaderOf
<1>5. Untaken'
  <2>1. (taken \subseteq HeapBase..(memtop - 1))'
    BY <1>1 DEF Untaken, TopOK
  <2>2. \A n \in nodes : n \in Int /\ n <= alloct /\ alloct < memtop /\ alloct \in nodes /\ alloct \in Int
    BY DEF RingOK, TopOK, TypeOK, Addr
  <2>3. (taken \cap nodes = {})'
    BY <1>1, <2>2 DEF Untaken
  <2>4. ASSUME NEW n \in nodes', n # alloct', Usable(n)', NEW t \in taken'
        PROVE t < n \/ next'[n] <= t
    <3>1. next[n] <= alloct /\ next[n] \in Int
      BY <2>4, RingStep
    <3>2. CASE t \in taken
      BY <2>4, <3>2 DEF Untaken, Usable, Handed
    <3>3. CASE t \notin taken
      BY <1>1, <2>2, <2>4, <3>1, <3>3
    <3> QED
      BY <3>2, <3>3
  <2> QED
    BY <2>1, <2>3, <2>4 DEF Untaken
<1> QED
  BY <1>2, <1>3, <1>4, <1>5

(***************************************************************************)
(* A client's block becomes free: what free() and the first part of        *)
(* realloc() do to the ring and to the blocks.                             *)
(***************************************************************************)
LEMMA GiveBack ==
  ASSUME IInv, NEW b \in live,
         busy' = [busy EXCEPT ![b.base - 1] = FALSE],
         live' = live \ {b},
         UNCHANGED <<next, cell, memtop, alloct, nodes, taken>>,
         pc = "idle", ~Handed'
  PROVE  /\ (Fresh /\ TopOK /\ RingOK /\ Owned /\ ContentsKept /\ Untaken)'
         /\ b.base - 1 \in nodes
         /\ busy' \in [Addr -> BOOLEAN] /\ live' \subseteq Block
<1> USE DEF IInv
<1>1. /\ b.base - 1 \in nodes /\ b.base - 1 >= HeapBase /\ b.base - 1 # alloct
      /\ b.base - 1 \in Addr /\ nodes # {}
      /\ \A c \in live' : c \in live /\ c.base - 1 # b.base - 1 /\ c.base # b.base
  BY DEF Owned, HeaderOf, TypeOK, Block
<1>2. /\ busy' \in [Addr -> BOOLEAN] /\ live' \subseteq Block
      /\ ~busy'[b.base - 1]
      /\ \A a \in Addr : a # b.base - 1 => busy'[a] = busy[a]
  BY <1>1 DEF TypeOK
<1>3. (Fresh /\ TopOK /\ ContentsKept)'
  BY <1>1 DEF Fresh, TopOK, ContentsKept
<1>4. b.base - 1 # 0 /\ b.base - 1 # 1 /\ {0, 1, alloct} \subseteq Addr /\ nodes \subseteq Addr
  BY <1>1, HeapAssumption DEF RingOK, TypeOK
<1>5. RingOK'
  BY <1>1, <1>2, <1>4 DEF RingOK
<1>6. Owned'
  BY <1>1, <1>2, <1>4 DEF Owned, HeaderOf
<1>7. Untaken'
  <2>1. ASSUME NEW n \in nodes, Usable(n)'
        PROVE Usable(n)
    <3>1. CASE n = b.base - 1
      BY <1>1, <3>1 DEF Usable, TypeOK, Block
    <3>2. CASE n # b.base - 1
      BY <1>1, <1>2, <1>4, <2>1, <3>2 DEF Usable
    <3> QED
      BY <3>1, <3>2
  <2> QED
    BY <2>1 DEF Untaken
<1> QED
  BY <1>1, <1>2, <1>3, <1>5, <1>6, <1>7

LEMMA FreeInv ==
  ASSUME IInv, NEW b \in live, Free(b)
  PROVE  IInv'
<1> USE DEF IInv, Free, locals
<1>1. /\ (Fresh /\ TopOK /\ RingOK /\ Owned /\ ContentsKept /\ Untaken)'
      /\ b.base - 1 \in nodes
      /\ busy' \in [Addr -> BOOLEAN] /\ live' \subseteq Block
  BY GiveBack DEF Handed
<1>2. allocp' = b.base - 1 /\ allocp' \in Int
  BY <1>1 DEF SearchFrom, TypeOK, Addr
<1>3. TypeOK'
  BY <1>1, <1>2 DEF TypeOK
<1>4. (Pending /\ OldBlock)'
  BY DEF Pending, OldBlock, Handed
<1>5. Scanning'
  BY <1>1, <1>2 DEF Scanning
<1> QED
  BY <1>1, <1>3, <1>4, <1>5

LEMMA ReallocCallInv ==
  ASSUME IInv, NEW b \in live, NEW len \in Sizes, ReallocCall(b, len)
  PROVE  IInv'
<1> USE HeapAssumption DEF IInv, ReallocCall
<1>1. /\ (Fresh /\ TopOK /\ RingOK /\ Owned /\ ContentsKept /\ Untaken)'
      /\ b.base - 1 \in nodes
      /\ busy' \in [Addr -> BOOLEAN] /\ live' \subseteq Block
  BY GiveBack DEF Handed
<1>2. b.base \in Nat /\ b.len \in Nat /\ len \in Nat
  BY DEF TypeOK, Block
<1>3. /\ b.base - 1 \in Int /\ next[b.base - 1] \in Addr
      /\ b.base <= next[b.base - 1]
  BY <1>1, <1>2, RingStep DEF Owned, HeaderOf
<1>4. OldBlock'
  BY <1>2, <1>3 DEF OldBlock, Addr
<1>5. (op \in Call)' /\ op'.len = len
  <2>1. next[b.base - 1] - b.base \in Int
    BY <1>2, <1>3 DEF Addr
  <2> QED
    BY <1>2, <2>1 DEF Call
<1>6. TypeOK'
  <2>1. (allocp \in Int /\ p \in Int /\ nw \in Nat /\ temp \in Nat /\ pc = "scan")'
    BY <1>2, <1>3 DEF Rounded
  <2>2. stale' \in BOOLEAN
    OBVIOUS
  <2> QED
    BY <1>1, <1>5, <2>1, <2>2 DEF TypeOK
<1>7. (Pending /\ Scanning)'
  BY <1>1, <1>5 DEF Pending, Scanning, Handed, Rounded
<1> QED
  BY <1>1, <1>4, <1>6, <1>7
LEMMA ReallocCopyInv ==
  ASSUME IInv, ReallocCopy
  PROVE  IInv'
<1> DEFINE ns == next[ret - 1] - ret
           h == ret - 1
           copied == Memcpy(cell, ret, op.xp, CopyLength(ns))
<1> USE HeapAssumption DEF IInv, ReallocCopy, arena, locals, ghosts
<1>1. /\ Handed /\ nodes # {} /\ ret \in Nat /\ h \in Int
      /\ h \in nodes /\ h # alloct /\ op.len \in Nat
      /\ ret + op.len <= next[h] /\ \A b \in live : b.base # ret
  BY DEF Pending, Handed, HeaderOf, TypeOK, Call, Scanning
<1>2. /\ next[h] \in Addr /\ next[h] \in Int
      /\ h < next[h] /\ \A n \in nodes : n \in Int /\ n \in Addr /\ (n <= h \/ next[h] <= n)
  BY <1>1, RingStep DEF TypeOK
<1>3. ns \in Nat /\ ret + ns = next[h] /\ op.xp \in Nat /\ op.ons \in Int
  BY <1>1, <1>2 DEF TypeOK, Call
<1>4. op.ons >= 0 /\ op.xp + op.ons \in Addr
  BY DEF OldBlock
<1>5. CopyLength(ns) \in Nat /\ CopyLength(ns) <= ns /\ CopyLength(ns) <= op.ons
  BY <1>3, <1>4 DEF CopyLength, Least
<1> HIDE DEF ns, h
<1>6. /\ copied \in [Addr -> Int]
      /\ \A a \in Addr : a < ret \/ a >= ret + ns => copied[a] = cell[a]
  <2>1. CASE CopyLength(ns) >= 3 /\ Odd(ret) /\ Odd(op.xp)
    <3>1. copied = [cell EXCEPT ![ret] = RAW]
      BY <2>1 DEF Memcpy
    <3>2. ns >= 3
      BY <1>3, <1>5, <2>1
    <3> HIDE DEF copied
    <3>3. \A a \in Addr : a < ret \/ a >= ret + ns => a # ret
      BY <1>1, <1>3, <3>2 DEF Addr
    <3>4. cell \in [Addr -> Int] /\ RAW \in Int
      BY DEF TypeOK, RAW
    <3> QED
      BY ONLY <3>1, <3>3, <3>4
  <2>2. CASE ~(CopyLength(ns) >= 3 /\ Odd(ret) /\ Odd(op.xp))
    <3>1. copied = [a \in Addr |-> IF a \in ret..(ret + CopyLength(ns) - 1)
                                     THEN AsData(cell[op.xp + (a - ret)]) ELSE cell[a]]
      BY <2>2 DEF Memcpy
    <3> HIDE DEF copied
    <3>2. \A a \in Addr : a \in ret..(ret + CopyLength(ns) - 1) => op.xp + (a - ret) \in Addr
      BY <1>1, <1>3, <1>4, <1>5 DEF Addr
    <3>3. \A a \in Addr : cell[a] \in Int /\ AsData(cell[a]) \in Int
      BY DEF TypeOK, AsData, RAW
    <3>4. \A a \in Addr : copied[a] \in Int
      BY <3>1, <3>2, <3>3
    <3>5. \A a \in Addr : a < ret \/ a >= ret + ns => a \notin ret..(ret + CopyLength(ns) - 1)
      BY <1>1, <1>3, <1>5 DEF Addr
    <3> QED
      BY <3>1, <3>4, <3>5
  <2> QED
    BY <2>1, <2>2
<1> HIDE DEF copied
<1>7. /\ Patch(copied, ret, ns) \in [Addr -> Int]
      /\ \A a \in Addr : a < ret \/ a >= ret + ns => Patch(copied, ret, ns)[a] = cell[a]
  <2>1. CASE ret < op.xp /\ ret + ns > op.xp
    <3> DEFINE at == ret + (ret + ns - op.xp)
    <3>1. at \in Int /\ ret <= at /\ at < ret + ns
      BY <1>1, <1>3, <2>1
    <3>2. AsData(allocx.cell) \in Int
      BY DEF TypeOK, Unit, AsData, RAW
    <3>3. Patch(copied, ret, ns) = [copied EXCEPT ![at] = AsData(allocx.cell)]
      BY <2>1 DEF Patch
    <3> HIDE DEF at
    <3>4. \A a \in Addr : a < ret \/ a >= ret + ns => a # at
      BY <1>1, <1>3, <3>1 DEF Addr
    <3> QED
      BY ONLY <1>6, <3>2, <3>3, <3>4
  <2>2. CASE ~(ret < op.xp /\ ret + ns > op.xp)
    BY <1>6, <2>2 DEF Patch
  <2> QED
    BY <2>1, <2>2
<1>8. /\ cell' \in [Addr -> Int]
      /\ \A a \in Addr : a <= h \/ a >= next[h] => cell'[a] = cell[a]
  <2>1. CASE ret = op.xp
    BY <2>1 DEF TypeOK
  <2>2. CASE ret # op.xp
    <3>1. cell' = Patch(copied, ret, ns)
      BY <2>2 DEF ns, copied
    <3>2. \A a \in Addr : a <= h \/ a >= next[h] => a < ret \/ a >= ret + ns
      BY <1>1, <1>2, <1>3 DEF h, Addr
    <3> QED
      BY <1>7, <3>1, <3>2
  <2> QED
    BY <2>1, <2>2
<1>9. TypeOK'
  BY <1>8 DEF TypeOK
<1>10. \A n \in nodes : cell'[n] = cell[n]
  BY <1>2, <1>8
<1>11. RingOK'
  BY <1>10 DEF RingOK
<1>12. (Fresh /\ TopOK /\ Owned /\ OldBlock)'
  BY DEF Fresh, TopOK, Owned, HeaderOf, OldBlock
<1>13. (Pending /\ Untaken /\ Scanning)'
  <2>1. Handed' /\ pc = "copy" /\ pc' = "done"
    BY <1>1 DEF Handed
  <2> QED
    BY <1>1, <2>1 DEF Pending, Untaken, Usable, Scanning, HeaderOf
<1>14. ContentsKept'
  <2>1. ASSUME NEW b \in live', NEW i \in 0..(b.len - 1)
        PROVE  cell'[b.base + i] = i + 1
    <3>1. /\ b \in live /\ b.base - 1 \in nodes /\ b.base - 1 # alloct /\ b.base - 1 # h
          /\ b.base + b.len <= next[b.base - 1] /\ b.base \in Nat /\ b.len \in Nat
      BY <1>1 DEF Owned, HeaderOf, TypeOK, Block, h
    <3>2. /\ next[b.base - 1] \in Addr /\ next[b.base - 1] \in Int
          /\ h <= b.base - 1 \/ next[b.base - 1] <= h
          /\ b.base - 1 <= h \/ next[h] <= b.base - 1
      BY <1>1, <1>2, <3>1, RingStep
    <3>3. b.base + i \in Addr /\ (b.base + i <= h \/ b.base + i >= next[h])
      BY <1>1, <1>2, <3>1, <3>2 DEF Addr
    <3> QED
      BY <1>8, <3>1, <3>3 DEF ContentsKept
  <2> QED
    BY <2>1 DEF ContentsKept
<1> QED
  BY <1>9, <1>11, <1>12, <1>13, <1>14

LEMMA ReturnInv ==
  ASSUME IInv, Return
  PROVE  IInv'
<1> USE HeapAssumption DEF IInv, Return, arena
<1>1. CASE ret = 0
  <2>1. live' = live /\ cell' = cell /\ ~Handed /\ ~Handed'
    BY <1>1 DEF Handed
  <2>2. TypeOK'
    BY <2>1, NoCallType DEF TypeOK
  <2>3. (Fresh /\ TopOK /\ RingOK /\ Owned /\ ContentsKept)'
    BY <2>1 DEF Fresh, TopOK, RingOK, Owned, HeaderOf, ContentsKept
  <2>4. (Pending /\ Untaken /\ Scanning /\ OldBlock)'
    BY <2>1 DEF Pending, Untaken, Usable, Scanning, OldBlock, NoCall, Addr
  <2> QED
    BY <2>2, <2>3, <2>4
<1>2. CASE ret # 0
  <2> DEFINE new == [base |-> ret, len |-> op.len]
             h == ret - 1
  <2>1. /\ Handed /\ ~Handed' /\ nodes # {} /\ ret \in Nat /\ op.len \in Nat /\ op.len \in Sizes
        /\ h \in Int /\ h \in nodes /\ h # alloct /\ h >= HeapBase /\ busy[h]
        /\ ret + op.len <= next[h] /\ \A b \in live : b.base # ret
    BY <1>2 DEF Pending, Handed, HeaderOf, TypeOK, Call, Scanning
  <2>2. /\ next[h] \in Addr /\ next[h] \in Int
        /\ h < next[h] /\ \A n \in nodes : n \in Int /\ n \in Addr /\ (n <= h \/ next[h] <= n)
    BY <2>1, RingStep DEF TypeOK
  <2>3. live' = live \cup {new} /\ new \in Block
    BY <1>2, <2>1 DEF Block
  <2>4. /\ cell' \in [Addr -> Int]
        /\ \A a \in Addr : a <= h \/ a >= next[h] => cell'[a] = cell[a]
        /\ \A i \in 0..(op.len - 1) : ret + i \in Addr /\ cell'[ret + i] = i + 1
    <3>1. cell' = [a \in Addr |-> IF a \in ret..(ret + op.len - 1) THEN a - ret + 1 ELSE cell[a]]
      BY <1>2 DEF Filled
    <3>2. \A a \in Addr : a \in Int /\ cell[a] \in Int
      BY DEF TypeOK, Addr
    <3>3. cell' \in [Addr -> Int]
      BY <2>1, <3>1, <3>2
    <3>4. \A a \in Addr : a <= h \/ a >= next[h] => cell'[a] = cell[a]
      BY <2>1, <2>2, <3>1, <3>2
    <3>5. \A i \in 0..(op.len - 1) : ret + i \in Addr
      BY <2>1, <2>2 DEF Addr
    <3>6. \A i \in 0..(op.len - 1) : cell'[ret + i] = i + 1
      BY <2>1, <3>1, <3>5
    <3> QED
      BY <3>3, <3>4, <3>5, <3>6
  <2>5. TypeOK'
    BY <2>3, <2>4, NoCallType DEF TypeOK
  <2>6. new.base = ret /\ new.len = op.len
    OBVIOUS
  <2> HIDE DEF new
  <2>7. (Fresh /\ TopOK /\ RingOK)'
    BY <2>2, <2>4 DEF Fresh, TopOK, RingOK
  <2>8. Owned'
    BY <2>1, <2>3, <2>6 DEF Owned, HeaderOf
  <2>9. (Pending /\ Scanning /\ OldBlock)'
    BY <2>1 DEF Pending, Scanning, OldBlock, NoCall, Addr
  <2>10. Untaken'
    <3>1. ASSUME NEW n \in nodes, Usable(n)' PROVE Usable(n)
      BY <2>1, <2>2, <2>3, <2>6, <3>1 DEF Usable
    <3> QED
      BY <3>1 DEF Untaken
  <2>11. ContentsKept'
    <3>1. ASSUME NEW b \in live', NEW i \in 0..(b.len - 1)
          PROVE  cell'[b.base + i] = i + 1
      <4>1. CASE b = new
        BY <2>4, <2>6, <3>1, <4>1
      <4>2. CASE b # new
        <5>1. /\ b \in live /\ b.base - 1 \in nodes /\ b.base - 1 # alloct /\ b.base - 1 # h
              /\ b.base + b.len <= next[b.base - 1] /\ b.base \in Nat /\ b.len \in Nat
          BY <2>1, <2>3, <4>2 DEF Owned, HeaderOf, TypeOK, Block
        <5>2. /\ next[b.base - 1] \in Addr /\ next[b.base - 1] \in Int
              /\ h <= b.base - 1 \/ next[b.base - 1] <= h
              /\ b.base - 1 <= h \/ next[h] <= b.base - 1
          BY <2>1, <2>2, <5>1, RingStep
        <5>3. b.base + i \in Addr /\ (b.base + i <= h \/ b.base + i >= next[h])
          BY <2>1, <2>2, <5>1, <5>2 DEF Addr
        <5> QED
          BY <2>4, <5>1, <5>3 DEF ContentsKept
      <4> QED
        BY <4>1, <4>2
    <3> QED
      BY <3>1 DEF ContentsKept
  <2> QED
    BY <2>5, <2>7, <2>8, <2>9, <2>10, <2>11
<1> QED
  BY <1>1, <1>2
(***************************************************************************)
(* Growing: the old top is followed directly by the new region and becomes *)
(* a free block, or stays busy over the units somebody else took.          *)
(***************************************************************************)
LEMMA GrowInv ==
  ASSUME IInv, Grow
  PROVE  IInv'
<1> DEFINE q == memtop
           top == memtop + GrowBy - 1
<1> USE HeapAssumption DEF IInv, Grow
<1>1. /\ p \in nodes /\ nodes # {} /\ ~stale /\ nw = op.len + 1 /\ op.len \in Nat
      /\ op.len \in Sizes
  BY DEF Scanning, Pending, TypeOK, Call
<1>2. GrowBy \in Nat /\ GrowBy >= 1
  BY <1>1, GrowByPositive
<1>3. memtop' \in Addr /\ memtop' = memtop + GrowBy /\ memtop \in Nat
  BY <1>2 DEF SbrkOk, TypeOK, Addr
<1>4. /\ alloct \in nodes /\ alloct \in Addr /\ alloct \in Int /\ alloct < q
      /\ alloct = 1 \/ alloct >= HeapBase
      /\ {0, 1} \subseteq nodes /\ nodes \subseteq Addr
      /\ \A n \in nodes : n \in Int /\ n <= alloct
  BY <1>1 DEF RingOK, TopOK, TypeOK, Addr
<1>5. /\ q \in Int /\ top \in Int /\ q \in Addr /\ top \in Addr
      /\ q <= top /\ HeapBase <= q /\ q \notin nodes /\ top \notin nodes
  BY <1>2, <1>3, <1>4 DEF TopOK, TypeOK, Addr
<1> HIDE DEF q, top
<1>6. /\ next' = [next EXCEPT ![alloct] = q, ![q] = top, ![top] = 0]
      /\ busy' = [busy EXCEPT ![alloct] = ~Continues(q), ![q] = FALSE, ![top] = TRUE]
      /\ cell' = [cell EXCEPT ![q] = HEADER, ![top] = HEADER]
      /\ alloct' = top /\ nodes' = nodes \cup {q, top}
      /\ memtop' = top + 1
  BY <1>2, <1>3 DEF q, top
<1>7. /\ next' \in [Addr -> Addr \cup {NULL}] /\ cell' \in [Addr -> Int]
      /\ next'[alloct] = q /\ (q # top => next'[q] = top) /\ next'[top] = 0
      /\ cell'[q] = HEADER /\ cell'[top] = HEADER
      /\ \A a \in Addr : a \notin {alloct, q, top} => next'[a] = next[a]
      /\ \A a \in Addr : a \notin {q, top} => cell'[a] = cell[a]
  <2>1. 0 \in Addr
    BY DEF Addr
  <2> QED
    BY <1>4, <1>5, <1>6, <2>1 DEF TypeOK, HEADER
<1>8. /\ busy' \in [Addr -> BOOLEAN] /\ busy'[top]
      /\ q # alloct + 1 => busy'[alloct]
      /\ \A a \in Addr : a \notin {alloct, q, top} => busy'[a] = busy[a]
  BY <1>4, <1>5, <1>6 DEF TypeOK, Continues
<1>9. TypeOK'
  <2>1. alloct' \in Addr \cup {NULL} /\ nodes' \subseteq Addr /\ memtop' \in Addr
    BY <1>3, <1>4, <1>5, <1>6
  <2> QED
    BY <1>7, <1>8, <2>1 DEF TypeOK
<1>10. RingOK'
  <2>1. ({0, 1, alloct} \subseteq nodes /\ next[alloct] = 0 /\ busy[alloct] /\ busy[0] /\ busy[1])'
    <3>1. busy[0] /\ busy[1] /\ busy[alloct]
      BY <1>1 DEF RingOK
    <3>2. 0 \in Addr /\ 1 \in Addr /\ 0 \notin {q, top} /\ 1 \notin {q, top}
      BY <1>4, <1>5
    <3>3. busy'[0]
      <4>1. 0 \notin {alloct, q, top}
        BY <1>4, <3>2
      <4> QED
        BY ONLY <1>8, <3>1, <3>2, <4>1
    <3>4. busy'[1]
      <4>1. CASE alloct = 1
        <5>1. q # alloct + 1
          BY <1>5, <4>1
        <5> QED
          BY ONLY <1>8, <4>1, <5>1
      <4>2. CASE alloct # 1
        <5>1. 1 \notin {alloct, q, top}
          BY <3>2, <4>2
        <5> QED
          BY ONLY <1>8, <3>1, <3>2, <5>1
      <4> QED
        BY <4>1, <4>2
    <3> QED
      BY <1>4, <1>6, <1>7, <1>8, <3>3, <3>4
  <2>2. ASSUME NEW n \in nodes'
        PROVE (/\ n = 0 \/ n = 1 \/ n >= HeapBase
               /\ n <= alloct
               /\ cell[n] = HEADER)'
    <3>1. CASE n \in {q, top}
      BY <1>5, <1>6, <1>7, <3>1
    <3>2. CASE n \notin {q, top}
      BY <1>4, <1>5, <1>6, <1>7, <2>2, <3>2 DEF RingOK
    <3> QED
      BY <3>1, <3>2
  <2>3. ASSUME NEW n \in nodes', n # alloct'
        PROVE (next[n] \in nodes /\ n < next[n] /\ \A k \in nodes : k <= n \/ next[n] <= k)'
    <3>1. CASE n = q
      BY <1>4, <1>5, <1>6, <1>7, <2>3, <3>1
    <3>2. CASE n = alloct
      BY <1>4, <1>5, <1>6, <1>7, <3>2
    <3>3. CASE n # q /\ n # alloct
      <4>1. n \in nodes /\ n \in Addr /\ next'[n] = next[n]
        BY <1>4, <1>5, <1>6, <1>7, <2>3, <3>3
      <4>2. next[n] \in nodes /\ n < next[n] /\ next[n] <= alloct /\ next[n] \in Int
            /\ \A k \in nodes : k <= n \/ next[n] <= k
        BY <3>3, <4>1, RingStep
      <4>3. \A k \in nodes' : k <= n \/ next[n] <= k
        <5>1. next[n] <= q /\ next[n] <= top
          BY <1>4, <1>5, <4>2
        <5> QED
          BY ONLY <1>6, <4>2, <5>1
      <4>4. next'[n] \in nodes' /\ n < next'[n]
        BY ONLY <1>6, <4>1, <4>2
      <4> QED
        BY ONLY <4>1, <4>3, <4>4
    <3> QED
      BY <3>1, <3>2, <3>3
  <2> QED
    BY <2>1, <2>2, <2>3 DEF RingOK
<1>11. \A b \in live : /\ b.base - 1 \in nodes /\ b.base - 1 \in Addr
                       /\ b.base - 1 \notin {alloct, q, top} /\ b.base \in Nat
  BY <1>4, <1>5 DEF Owned, HeaderOf, TypeOK, Block
<1>12. Owned'
  BY <1>6, <1>7, <1>8, <1>11 DEF Owned, HeaderOf
<1>13. (TopOK /\ OldBlock)'
  BY <1>2, <1>3, <1>5, <1>6 DEF TopOK, OldBlock
<1>14. Fresh'
  <2>1. 0 \in Addr /\ 0 \in nodes /\ alloct # 0 /\ 0 \notin {q, top}
    BY <1>4, <1>5
  <2> QED
    BY <1>6, <1>7, <2>1 DEF Fresh
<1>15. (Pending /\ Scanning)'
  BY <1>1, <1>6 DEF Pending, Scanning, Handed
<1>16. ContentsKept'
  <2>1. ASSUME NEW b \in live', NEW i \in 0..(b.len - 1)
        PROVE  cell'[b.base + i] = i + 1
    <3>1. /\ b \in live /\ b.base - 1 \in nodes /\ b.base - 1 # alloct
          /\ b.base + b.len <= next[b.base - 1] /\ b.base \in Nat /\ b.len \in Nat
      BY DEF Owned, HeaderOf, TypeOK, Block
    <3>2. next[b.base - 1] \in Int /\ next[b.base - 1] <= alloct
      BY <3>1, RingStep
    <3>3. b.base + i \in Addr /\ b.base + i \notin {q, top}
      BY <1>4, <1>5, <3>1, <3>2 DEF Addr
    <3> QED
      BY <1>7, <3>1, <3>3 DEF ContentsKept
  <2> QED
    BY <2>1 DEF ContentsKept
<1>17. Untaken'
  <2>1. \A t \in taken : t \in Int /\ t < q /\ t \notin nodes
    BY <1>3 DEF Untaken, TypeOK, Addr, q
  <2>2. (taken \subseteq HeapBase..(memtop - 1) /\ taken \cap nodes = {})'
    BY <1>2, <1>3, <1>5, <1>6, <2>1 DEF Untaken
  <2>3. ASSUME NEW n \in nodes', n # alloct', Usable(n)', NEW t \in taken'
        PROVE t < n \/ next'[n] <= t
    <3>1. CASE n = q
      BY <2>1, <2>3, <3>1
    <3>2. CASE n = alloct
      <4>1. ~busy'[n]
        <5>1. ~Handed' /\ live' = live
          BY DEF Handed
        <5>2. \A b \in live : b.base # n + 1
          BY <1>4, <1>11, <3>2
        <5> QED
          BY <2>3, <5>1, <5>2 DEF Usable
      <4>2. q = alloct + 1
        BY <1>8, <3>2, <4>1
      <4> QED
        BY <1>4, <1>5, <2>1, <2>3, <3>2, <4>2
    <3>3. CASE n # q /\ n # alloct
      <4>1. n \in nodes /\ n \in Addr /\ n # top
        BY <1>4, <1>5, <1>6, <2>3, <3>3
      <4>2. next'[n] = next[n] /\ busy'[n] = busy[n]
        BY <1>7, <1>8, <3>3, <4>1
      <4>3. Usable(n)
        BY <2>3, <4>2 DEF Usable, Handed
      <4> QED
        BY <2>3, <3>3, <4>1, <4>2, <4>3 DEF Untaken
    <3> QED
      BY <3>1, <3>2, <3>3
  <2> QED
    BY <2>2, <2>3 DEF Untaken
<1> QED
  BY <1>9, <1>10, <1>12, <1>13, <1>14, <1>15, <1>16, <1>17
-----------------------------------------------------------------------------
(***************************************************************************)
(* The invariant holds in every state a cautious client can reach.         *)
(***************************************************************************)
LEMMA StepInv ==
  ASSUME IInv, [CautiousNext]_vars
  PROVE  IInv'
<1>1. CASE UNCHANGED vars
  BY <1>1 DEF IInv, vars, memory, arena, locals, ghosts, TypeOK, Fresh, TopOK, RingOK, Owned,
              HeaderOf, Pending, Handed, Untaken, Usable, Scanning, OldBlock, ContentsKept
<1>2. CASE Step
  BY <1>2, CoalesceInv, FoundInv, AdvanceInv, GrowInv, GrowFailsInv, ReallocCopyInv, ReturnInv
     DEF Step
<1>3. CASE Others
  BY <1>3, FreeInv, ReallocCallInv, ForeignSbrkInv DEF Others, Release
<1>4. CASE ~stale /\ Ask
  BY <1>4, MallocCallInv, MallocFirstInv DEF Ask
<1> QED
  BY <1>1, <1>2, <1>3, <1>4 DEF CautiousNext

THEOREM Invariance == CautiousSpec => []IInv
<1>1. Init => IInv
  BY InitInv
<1>2. IInv /\ [CautiousNext]_vars => IInv'
  BY StepInv
<1> QED
  BY <1>1, <1>2, PTL DEF CautiousSpec

(* Every variable of the allocator always holds a value of its kind: no    *)
(* break, header or list pointer of gen/MALLOC.C leaves the memory.        *)
THEOREM TypeCorrect == CautiousSpec => []TypeOK
<1>1. IInv => TypeOK
  BY DEF IInv
<1> QED
  BY <1>1, Invariance, PTL

(* The list of headers stays a ring of ascending addresses through every   *)
(* step of every scan, split, merge and growth.                            *)
THEOREM RingCorrect == CautiousSpec => []RingOK
<1>1. IInv => RingOK
  BY DEF IInv
<1> QED
  BY <1>1, Invariance, PTL

LEMMA InvNoOverlap == IInv => NoOverlap
<1> SUFFICES ASSUME IInv, NEW b \in live
             PROVE  /\ Span(b) \subseteq (HeapBase..(memtop - 1)) \ taken
                    /\ \A c \in live : c = b \/ Span(b) \cap Span(c) = {}
  BY DEF NoOverlap
<1> USE HeapAssumption DEF IInv
<1>1. \A c \in live : /\ c.base - 1 \in nodes /\ c.base - 1 >= HeapBase
                      /\ c.base - 1 # alloct
                      /\ c.base + c.len <= next[c.base - 1]
                      /\ c.base \in Nat /\ c.len \in Nat
  BY DEF Owned, HeaderOf, TypeOK, Block
<1>2. \A c \in live : /\ next[c.base - 1] \in Int /\ next[c.base - 1] <= alloct
                      /\ alloct \in Int
                      /\ \A m \in nodes : m \in Int /\ (m <= c.base - 1 \/ next[c.base - 1] <= m)
  BY <1>1, RingStep
<1>3. alloct < memtop /\ memtop \in Int
  BY <1>1 DEF TopOK, TypeOK, Addr
<1>4. Span(b) \subseteq HeapBase..(memtop - 1)
  BY <1>1, <1>2, <1>3 DEF Span
<1>5. \A t \in taken : t \in Int /\ (t < b.base - 1 \/ next[b.base - 1] <= t)
  <2>1. Usable(b.base - 1)
    BY <1>1 DEF Usable
  <2> QED
    BY <1>1, <2>1 DEF Untaken, TypeOK, Addr
<1>6. Span(b) \cap taken = {}
  BY <1>1, <1>2, <1>5 DEF Span
<1>7. ASSUME NEW c \in live, c # b
      PROVE  Span(b) \cap Span(c) = {}
  <2>1. b.base # c.base
    BY <1>7 DEF Owned
  <2>2. next[b.base - 1] <= c.base - 1 \/ next[c.base - 1] <= b.base - 1
    BY <1>1, <1>2, <2>1
  <2> QED
    BY <1>1, <1>2, <2>2 DEF Span
<1> QED
  BY <1>4, <1>6, <1>7

(* No two clients of malloc() and realloc() hold the same memory, and none *)
(* holds memory that somebody got from sbrk(), whatever the sizes.         *)
THEOREM NoOverlapCorrect == CautiousSpec => []NoOverlap
  BY InvNoOverlap, Invariance, PTL

(* What a client wrote into its block is there until it gives it back.     *)
THEOREM ContentsCorrect == CautiousSpec => []ContentsKept
<1>1. IInv => ContentsKept
  BY DEF IInv
<1> QED
  BY <1>1, Invariance, PTL

(* Between calls the search pointer is on the ring, except after a failed  *)
(* malloc().                                                               *)
THEOREM SearchPtrCorrect == CautiousSpec => []SearchPtrOnRing
<1>1. IInv => SearchPtrOnRing
  BY DEF IInv, Scanning, SearchPtrOnRing
<1> QED
  BY <1>1, Invariance, PTL
-----------------------------------------------------------------------------
(***************************************************************************)
(* A refusal.  Once the search pointer has passed the arena top, every     *)
(* header behind it was found too small with a busy one after it.          *)
(***************************************************************************)
NoRoomAt(n) == ~busy[n] => busy[next[n]] /\ next[n] - n < nw

SearchInv ==
  /\ pc = "scan" => temp \in {0, 1} /\ (temp = 1 => \A n \in nodes : n < p => NoRoomAt(n))
  /\ pc = "grow" => \A n \in nodes : NoRoomAt(n)
  /\ NullMeansNoRoom

LEMMA AdvanceSearched ==
  ASSUME IInv, SearchInv, Advance
  PROVE  SearchInv'
<1>1. /\ p \in nodes /\ pc = "scan" /\ temp \in {0, 1} /\ nw \in Int
      /\ TypeOK /\ RingOK /\ nodes # {} /\ p \in Int
      /\ UNCHANGED <<next, busy, nodes, alloct, nw>> /\ p' = next[p]
  BY DEF IInv, Scanning, SearchInv, Advance, memory, arena, TypeOK
<1>2. CASE p # alloct
  <2>1. p < next[p] /\ next[p] \in Int /\ \A n \in nodes : n \in Int /\ (n <= p \/ next[p] <= n)
    BY <1>1, <1>2, RingStep
  <2>2. pc' = "scan" /\ temp' = temp
    BY <1>1, <2>1 DEF Advance
  <2>3. NoRoomAt(p)
    BY <1>1, <2>1 DEF Advance, Settled, Fits, NoRoomAt
  <2>4. ASSUME NEW n \in nodes, temp = 1, n < next[p] PROVE NoRoomAt(n)
    <3>1. n < p \/ n = p
      BY <1>1, <2>1, <2>4
    <3> QED
      BY <1>1, <2>3, <2>4, <3>1 DEF SearchInv
  <2> QED
    BY <1>1, <2>2, <2>4 DEF SearchInv, NoRoomAt, NullMeansNoRoom
<1>3. CASE p = alloct
  <2>1. next[p] = 0 /\ 1 <= p /\ busy[p] /\ \A n \in nodes : n \in Int /\ n >= 0 /\ (n < p \/ n = p)
    BY <1>1, <1>3 DEF RingOK, TypeOK, Addr
  <2>2. temp' = temp + 1 /\ pc' = IF temp' > 1 THEN "grow" ELSE "scan"
    BY <1>1, <1>3, <2>1 DEF Advance, RoundsOver
  <2>3. CASE temp = 0
    BY <1>1, <2>1, <2>2, <2>3 DEF SearchInv, NullMeansNoRoom
  <2>4. CASE temp = 1
    <3>1. \A n \in nodes : NoRoomAt(n)
      BY <1>1, <2>1, <2>4 DEF SearchInv, NoRoomAt
    <3>2. pc' = "grow"
      BY <2>2, <2>4
    <3> QED
      BY <1>1, <3>1, <3>2 DEF SearchInv, NoRoomAt, NullMeansNoRoom
  <2> QED
    BY <1>1, <2>3, <2>4
<1> QED
  BY <1>2, <1>3

LEMMA CoalesceSearched ==
  ASSUME IInv, SearchInv, Coalesce
  PROVE  SearchInv'
<1>1. /\ pc = "scan" /\ pc' = pc /\ temp' = temp /\ p' = p /\ nw' = nw /\ busy' = busy
      /\ nodes' \subseteq nodes /\ p \in nodes /\ next' = [next EXCEPT ![p] = next[next[p]]]
  BY DEF IInv, Scanning, Coalesce, locals
<1>2. \A n \in nodes : n \in Int /\ n \in Addr
  BY DEF IInv, TypeOK, Addr
<1>3. \A n \in nodes : n < p => next'[n] = next[n]
  BY <1>1, <1>2 DEF IInv, TypeOK
<1>4. \A n \in nodes : n < p /\ NoRoomAt(n) => NoRoomAt(n)'
  BY <1>1, <1>3 DEF NoRoomAt
<1> QED
  BY <1>1, <1>4 DEF SearchInv, NullMeansNoRoom

LEMMA SearchStep ==
  ASSUME IInv, SearchInv, [CautiousNext]_vars
  PROVE  SearchInv'
<1>1. CASE UNCHANGED vars
  BY <1>1 DEF SearchInv, NoRoomAt, NullMeansNoRoom, vars, memory, locals, ghosts
<1>2. CASE GrowFails
  BY <1>2 DEF SearchInv, NoRoomAt, NullMeansNoRoom, GrowFails, Fail, memory
<1>3. CASE Found
  <2>1. p \in nodes /\ nodes \subseteq Addr
    BY <1>3 DEF Found, IInv, Scanning, TypeOK
  <2>2. ret' # 0 /\ pc' \in {"copy", "done"}
    BY <1>3, <2>1 DEF Found, Addr
  <2> QED
    BY <2>2 DEF SearchInv, NullMeansNoRoom
<1>4. CASE ReallocCopy
  <2>1. ret' # 0 /\ pc' = "done"
    BY <1>4 DEF ReallocCopy, locals, IInv, Pending
  <2> QED
    BY <2>1 DEF SearchInv, NullMeansNoRoom
<1>5. CASE Grow
  BY <1>5 DEF Grow, SearchInv, NullMeansNoRoom
<1>6. CASE Return \/ Others \/ Ask
  <2>1. pc' = "idle" \/ (pc' = "scan" /\ temp' = 0)
    BY <1>6 DEF Return, Others, Release, Free, ReallocCall, ForeignSbrk, Ask, MallocCall, MallocFirst, locals
  <2> QED
    BY <2>1 DEF SearchInv, NullMeansNoRoom
<1> QED
  BY <1>1, <1>2, <1>3, <1>4, <1>5, <1>6, AdvanceSearched, CoalesceSearched DEF CautiousNext, Step

(* malloc() and realloc() refuse only when all neighbouring free blocks    *)
(* are merged and none of them is large enough (gen/MALLOC.C, the two      *)
(* rounds of the ring before sbrk()).                                      *)
THEOREM RefusalCorrect == CautiousSpec => []NullMeansNoRoom
<1>1. Init => IInv /\ SearchInv
  BY InitInv DEF Init, SearchInv, NullMeansNoRoom
<1>2. IInv /\ SearchInv /\ [CautiousNext]_vars => SearchInv'
  BY SearchStep
<1>3. SearchInv => NullMeansNoRoom
  BY DEF SearchInv
<1> QED
  BY <1>1, <1>2, <1>3, Invariance, PTL DEF CautiousSpec
-----------------------------------------------------------------------------
(***************************************************************************)
(* What realloc() keeps.  While it searches, the old data is inside one    *)
(* free block; when it has found room, the only unit of it that a header   *)
(* may have overwritten is the one behind the new block, and allocx has    *)
(* that one.                                                               *)
(***************************************************************************)
OldThere ==
  op.kind = "realloc" /\ pc \in {"scan", "grow"} =>
    /\ op.kept <= op.ons
    /\ \A i \in 0..(op.kept - 1) : cell[op.xp + i] = i + 1
    /\ \E h \in nodes : ~busy[h] /\ h < op.xp /\ op.xp + op.ons <= next[h]

OldSplit ==
  pc = "copy" =>
    /\ op.kept <= op.ons /\ next[ret - 1] = ret + op.len
    /\ ret <= op.xp \/ op.xp + op.ons <= ret
    /\ \A i \in 0..(op.kept - 1) :
         IF op.xp + i = ret + op.len THEN allocx.cell = i + 1 ELSE cell[op.xp + i] = i + 1

MoveInv == OldThere /\ OldSplit /\ ReallocKeepsContentsElsewhere

LEMMA ReallocCallKeeps ==
  ASSUME IInv, NEW b \in live, NEW len \in Sizes, ReallocCall(b, len)
  PROVE  MoveInv'
<1> DEFINE h == b.base - 1
<1>1. /\ b \in Block /\ h \in nodes /\ h # alloct /\ b.base + b.len <= next[h]
  <2>1. b \in Block
    BY DEF IInv, TypeOK
  <2>2. HeaderOf(h, b.len)
    BY DEF IInv, Owned
  <2> HIDE DEF h
  <2>3. h + 1 + b.len <= next[h] /\ h \in nodes /\ h # alloct
    BY <2>2 DEF HeaderOf
  <2>4. h + 1 + b.len = b.base + b.len
    BY <2>1 DEF h, Block
  <2> QED
    BY <2>1, <2>3, <2>4
<1>2. b.base \in Nat /\ b.len \in Nat /\ next[h] \in Int /\ h \in Addr
  BY <1>1, RingStep DEF IInv, Block, TypeOK
<1>3. /\ pc' = "scan" /\ op'.xp = b.base /\ op'.kept = b.len /\ op'.ons = next[h] - b.base
      /\ next' = next /\ cell' = cell /\ nodes' = nodes /\ busy' = [busy EXCEPT ![h] = FALSE]
  BY DEF ReallocCall
<1>4. ~busy'[h] /\ h < b.base
  BY <1>2, <1>3 DEF IInv, TypeOK
<1>5. \A i \in 0..(b.len - 1) : cell[b.base + i] = i + 1
  BY DEF IInv, ContentsKept
<1> HIDE DEF h
<1>6. op'.kept <= op'.ons /\ op'.xp + op'.ons <= next'[h]
  BY <1>1, <1>2, <1>3
<1>7. OldThere'
  BY <1>1, <1>3, <1>4, <1>5, <1>6 DEF OldThere
<1> QED
  BY <1>3, <1>7 DEF MoveInv, OldSplit, ReallocKeepsContentsElsewhere, Answered

LEMMA CoalesceKeeps ==
  ASSUME IInv, MoveInv, Coalesce
  PROVE  MoveInv'
<1>1. /\ pc = "scan" /\ pc' = pc /\ op' = op /\ cell' = cell /\ busy' = busy /\ p \in nodes /\ ~busy[p]
      /\ ~busy[next[p]] /\ nodes' = nodes \ {next[p]} /\ next' = [next EXCEPT ![p] = next[next[p]]]
  BY DEF IInv, Scanning, Coalesce, locals
<1>2. /\ p \in Addr /\ p \in Int /\ next[p] \in nodes /\ next[p] \in Int /\ p < next[p]
      /\ \A n \in nodes : n \in Int /\ n \in Addr
      /\ next[next[p]] \in Int /\ next[p] < next[next[p]]
  <2>1. p # alloct
    BY <1>1 DEF IInv, RingOK
  <2>2. next[p] \in nodes /\ p < next[p] /\ next[p] \in Int /\ p \in Addr /\ p \in Int
    BY <1>1, <2>1, RingStep DEF IInv
  <2>3. next[p] # alloct
    BY <1>1 DEF IInv, RingOK
  <2>4. next[next[p]] \in Int /\ next[p] < next[next[p]]
    BY <2>2, <2>3, RingStep DEF IInv
  <2> QED
    BY <2>2, <2>4 DEF IInv, TypeOK, Addr
<1>3. /\ next'[p] = next[next[p]]
      /\ \A n \in nodes : n # p => next'[n] = next[n]
  BY <1>1, <1>2 DEF IInv, TypeOK
<1>4. ASSUME NEW h \in nodes, ~busy[h], h < op.xp, op.xp + op.ons <= next[h]
      PROVE  \E g \in nodes' : ~busy[g] /\ g < op.xp /\ op.xp + op.ons <= next'[g]
  <2>1. op.xp \in Int /\ op.xp + op.ons \in Int
    BY DEF IInv, TypeOK, Call
  <2>2. CASE h = next[p] \/ h = p
    <3>1. p \in nodes' /\ p < op.xp /\ op.xp + op.ons <= next'[p]
      BY <1>1, <1>2, <1>3, <1>4, <2>1, <2>2
    <3> QED
      BY <1>1, <3>1
  <2>3. CASE h # next[p] /\ h # p
    BY <1>1, <1>3, <1>4, <2>3
  <2> QED
    BY <2>2, <2>3
<1>5. OldThere'
  BY <1>1, <1>4 DEF MoveInv, OldThere
<1> QED
  BY <1>1, <1>5 DEF MoveInv, OldSplit, ReallocKeepsContentsElsewhere, Answered

LEMMA GrowKeeps ==
  ASSUME IInv, MoveInv, Grow
  PROVE  MoveInv'
<1> DEFINE q == memtop
           top == memtop + GrowBy - 1
<1>1. /\ pc = "grow" /\ pc' = "scan" /\ op' = op /\ nodes' = nodes \cup {q, top}
      /\ next' = [next EXCEPT ![alloct] = q, ![q] = top, ![top] = 0]
      /\ busy' = [busy EXCEPT ![alloct] = ~Continues(q), ![q] = FALSE, ![top] = TRUE]
      /\ cell' = [cell EXCEPT ![q] = HEADER, ![top] = HEADER]
  BY DEF Grow
<1>2. q \in Int /\ top \in Int /\ q <= top
  <2>1. nw >= 1
    BY <1>1 DEF IInv, Scanning, TypeOK, Call
  <2>2. GrowBy \in Nat /\ GrowBy >= 1
    BY <1>1, <2>1, GrowByPositive DEF IInv
  <2> QED
    BY <2>2 DEF IInv, TypeOK, Addr
<1>3. /\ TypeOK /\ RingOK /\ alloct \in Addr /\ alloct < q /\ nodes # {}
      /\ \A n \in nodes : n \in Addr /\ n \in Int /\ n <= alloct
  BY <1>1 DEF IInv, Scanning, TopOK, RingOK, TypeOK, Addr
<1>4. /\ \A n \in nodes : n # alloct => next'[n] = next[n] /\ busy'[n] = busy[n]
      /\ \A a \in Addr : a < q => cell'[a] = cell[a]
  <2>1. \A n \in nodes : n < q /\ n < top
    BY <1>2, <1>3 DEF Addr
  <2>2. \A a \in Addr : a < q => a # q /\ a # top
    BY <1>2 DEF Addr
  <2> HIDE DEF q, top
  <2> QED
    BY <1>1, <1>3, <2>1, <2>2 DEF TypeOK
<1>5. ASSUME NEW h \in nodes, ~busy[h], h < op.xp, op.xp + op.ons <= next[h], op.kept <= op.ons,
             \A i \in 0..(op.kept - 1) : cell[op.xp + i] = i + 1
      PROVE  /\ h \in nodes' /\ ~busy'[h] /\ op.xp + op.ons <= next'[h]
             /\ \A i \in 0..(op.kept - 1) : cell'[op.xp + i] = i + 1
  <2>1. h # alloct /\ next[h] \in Int /\ next[h] <= alloct
    BY <1>3, <1>5, RingStep DEF RingOK
  <2>2. op.xp \in Nat /\ op.ons \in Int /\ op.kept \in Nat
    BY <1>3 DEF TypeOK, Call
  <2>3. \A i \in 0..(op.kept - 1) : op.xp + i \in Addr /\ op.xp + i < q
    BY <1>2, <1>3, <1>5, <2>1, <2>2, HeapAssumption DEF Addr
  <2> QED
    BY <1>1, <1>4, <1>5, <2>1, <2>3
<1>6. OldThere'
  BY <1>1, <1>5 DEF MoveInv, OldThere
<1> QED
  BY <1>1, <1>6 DEF MoveInv, OldSplit, ReallocKeepsContentsElsewhere, Answered

LEMMA FoundKeeps ==
  ASSUME IInv, MoveInv, Found
  PROVE  MoveInv'
<1> DEFINE rest == p + nw
<1>1. /\ pc = "scan" /\ p \in nodes /\ ~busy[p] /\ p # alloct /\ nw = op.len + 1 /\ op.len \in Nat
      /\ rest <= next[p] /\ ret' = p + 1 /\ op' = op
      /\ pc' = IF op.kind = "realloc" THEN "copy" ELSE "done"
  BY FreeHeader DEF IInv, Scanning, Found, Fits, TypeOK, Call
<1>2. /\ p \in Int /\ p \in Addr /\ next[p] \in nodes /\ next[p] \in Int /\ p < next[p] /\ next[p] \in Addr
      /\ \A n \in nodes : n \in Int /\ (n <= p \/ next[p] <= n)
  BY <1>1, RingStep DEF IInv
<1>3. rest \in Int /\ p < rest /\ rest = ret' + op.len /\ rest \in Addr
  BY <1>1, <1>2, HeapAssumption DEF Addr
<1>4. next'[p] = rest
  BY <1>2, <1>3 DEF Found, IInv, TypeOK
<1>5. /\ \A a \in Addr : a # rest => cell'[a] = cell[a]
      /\ allocx'.cell = cell[rest] \/ rest = next[p]
  <2>1. CASE Remains
    BY <1>3, <2>1 DEF Found, IInv, TypeOK
  <2>2. CASE ~Remains
    BY <1>1, <1>2, <1>3, <2>2 DEF Found, Remains
  <2> QED
    BY <2>1, <2>2
<1> HIDE DEF rest
<1>6. CASE op.kind = "realloc"
  <2>1. PICK h \in nodes : ~busy[h] /\ h < op.xp /\ op.xp + op.ons <= next[h]
    BY <1>1, <1>6 DEF MoveInv, OldThere
  <2>2. /\ op.kept <= op.ons /\ \A i \in 0..(op.kept - 1) : cell[op.xp + i] = i + 1
        /\ op.xp \in Nat /\ op.ons \in Int /\ op.kept \in Nat
    BY <1>1, <1>6 DEF MoveInv, OldThere, IInv, TypeOK, Call
  <2>3. h # alloct /\ next[h] \in Int /\ next[h] \in Addr /\ (p <= h \/ next[h] <= p) /\ h \in Int
    BY <1>1, <2>1, RingStep DEF IInv, RingOK
  <2>4. p + 1 <= op.xp \/ op.xp + op.ons <= p + 1
    BY <1>2, <2>1, <2>2, <2>3
  <2>5. \A i \in 0..(op.kept - 1) : op.xp + i \in Addr
    BY <2>1, <2>2, <2>3, HeapAssumption DEF Addr
  <2>6. \A i \in 0..(op.kept - 1) :
          IF op.xp + i = ret' + op.len THEN allocx'.cell = i + 1 ELSE cell'[op.xp + i] = i + 1
    <3>1. rest = next[p] => rest <= h \/ next[h] <= rest
      BY <1>2, <2>1, <2>3, RingStep DEF IInv
    <3>2. ASSUME NEW i \in 0..(op.kept - 1) PROVE h < op.xp + i /\ op.xp + i < next[h]
      BY <2>1, <2>2, <2>3
    <3>3. ASSUME NEW i \in 0..(op.kept - 1), op.xp + i = rest PROVE allocx'.cell = i + 1
      <4>1. rest # next[p]
        BY <1>3, <2>3, <3>1, <3>2, <3>3
      <4> QED
        BY <1>5, <2>2, <3>3, <4>1
    <3>4. ASSUME NEW i \in 0..(op.kept - 1), op.xp + i # rest PROVE cell'[op.xp + i] = i + 1
      BY <1>5, <2>2, <2>5, <3>4
    <3> QED
      BY <1>3, <3>3, <3>4
  <2>7. next'[ret' - 1] = ret' + op.len
    BY <1>1, <1>2, <1>3, <1>4
  <2>8. OldSplit'
    BY <1>1, <2>2, <2>4, <2>6, <2>7 DEF OldSplit
  <2> QED
    BY <1>1, <1>6, <2>8 DEF MoveInv, OldThere, ReallocKeepsContentsElsewhere, Answered
<1>7. CASE op.kind # "realloc"
  BY <1>1, <1>7 DEF MoveInv, OldThere, OldSplit, ReallocKeepsContentsElsewhere, Answered
<1> QED
  BY <1>6, <1>7

LEMMA ReallocCopyKeeps ==
  ASSUME IInv, MoveInv, ReallocCopy
  PROVE  MoveInv'
<1> DEFINE n == CopyLength(op.len)
           at == ret + (ret + op.len - op.xp)
           copied == Memcpy(cell, ret, op.xp, n)
<1>1. /\ pc = "copy" /\ pc' = "done" /\ op' = op /\ ret' = ret /\ next' = next /\ ret # 0
      /\ next[ret - 1] = ret + op.len /\ op.kept <= op.ons
      /\ ret <= op.xp \/ op.xp + op.ons <= ret
      /\ \A i \in 0..(op.kept - 1) :
           IF op.xp + i = ret + op.len THEN allocx.cell = i + 1 ELSE cell[op.xp + i] = i + 1
  BY DEF ReallocCopy, locals, IInv, Pending, MoveInv, OldSplit
<1>2. /\ ret \in Nat /\ op.len \in Nat /\ op.xp \in Nat /\ op.ons \in Int /\ op.kept \in Nat
      /\ op.xp + op.ons \in Addr
  BY DEF IInv, TypeOK, Call, OldBlock
<1>3. n = Least(op.ons, op.len) /\ n \in Int /\ n <= op.len /\ Least(op.kept, op.len) <= n
      /\ Least(op.kept, op.len) <= op.kept /\ Least(op.kept, op.len) \in Int
  BY <1>1, <1>2 DEF CopyLength, Least
<1>4. ret + op.len \in Addr
  <2>1. ret - 1 \in nodes /\ ret - 1 # alloct
    BY <1>1 DEF IInv, Pending, Handed, HeaderOf
  <2> QED
    BY <1>1, <2>1, RingStep DEF IInv
<1>5. (ret + op.len) - ret = op.len
  BY <1>2
<1>6. SUFFICES ASSUME ret # op.xp, ret + op.len # op.xp, ~(Odd(ret) /\ Odd(op.xp) /\ n >= 3)
               PROVE  Moved'
  BY <1>1, <1>5 DEF MoveInv, OldThere, OldSplit, ReallocKeepsContentsElsewhere, Answered,
                    EndsAtOld, OddWordCopy, CopyLength
<1>7. cell' = Patch(copied, ret, op.len)
  BY <1>1, <1>5, <1>6 DEF ReallocCopy
<1>8. copied = [a \in Addr |-> IF a \in ret..(ret + n - 1) THEN AsData(cell[op.xp + (a - ret)]) ELSE cell[a]]
  BY <1>6 DEF Memcpy
<1> HIDE DEF n, copied
<1>9. ASSUME NEW i \in 0..(Least(op.kept, op.len) - 1)
      PROVE  cell'[ret + i] = i + 1
  <2>1. i \in Nat /\ i < op.kept /\ i < op.len /\ i < n /\ i \in 0..(op.kept - 1)
    BY <1>2, <1>3, <1>9
  <2>2. ret + i \in Addr /\ ret + i \in ret..(ret + n - 1) /\ op.xp + ((ret + i) - ret) = op.xp + i
    BY <1>2, <1>3, <1>4, <2>1, HeapAssumption DEF Addr
  <2>3. copied[ret + i] = AsData(cell[op.xp + i])
    BY <1>8, <2>2
  <2>4. AsData(i + 1) = i + 1
    BY <2>1 DEF AsData, HEADER
  <2>5. CASE op.xp + i = ret + op.len
    <3>1. ret < op.xp /\ ret + op.len > op.xp /\ at = ret + i /\ allocx.cell = i + 1
      BY <1>1, <1>2, <1>6, <2>1, <2>5
    <3>2. cell' = [copied EXCEPT ![ret + i] = AsData(i + 1)]
      BY <1>7, <2>5, <3>1 DEF Patch
    <3> QED
      BY <1>8, <2>2, <2>4, <3>2
  <2>6. CASE op.xp + i # ret + op.len
    <3>1. at # ret + i
      BY <1>2, <2>1, <2>6
    <3>2. copied[ret + i] = i + 1
      BY <1>1, <2>1, <2>3, <2>4, <2>6
    <3>3. cell' = copied \/ cell' = [copied EXCEPT ![at] = AsData(allocx.cell)]
      BY <1>7 DEF Patch
    <3> HIDE DEF at
    <3> QED
      BY <3>1, <3>2, <3>3, <1>8, <2>2
  <2> QED
    BY <2>5, <2>6
<1> QED
  BY <1>1, <1>9 DEF Moved

LEMMA MoveStep ==
  ASSUME IInv, MoveInv, [CautiousNext]_vars
  PROVE  MoveInv'
<1> USE DEF MoveInv, OldThere, OldSplit, ReallocKeepsContentsElsewhere, Answered
<1>1. CASE UNCHANGED vars
  BY <1>1 DEF vars, memory, arena, locals, ghosts, EndsAtOld, OddWordCopy, CopyLength, Moved
<1>2. CASE Advance
  <2>1. \/ pc' \in {"scan", "grow"}
        \/ pc' = "done" /\ ret' = 0
    BY <1>2 DEF Advance, Fail
  <2>2. pc = "scan" /\ UNCHANGED <<next, busy, cell, nodes, op>>
    BY <1>2 DEF Advance, memory
  <2> QED
    BY <2>1, <2>2
<1>3. CASE GrowFails \/ Return
  BY <1>3 DEF GrowFails, Fail, Return
<1>4. ASSUME NEW b \in live, Free(b) PROVE MoveInv'
  BY <1>4 DEF Free
<1>5. ASSUME NEW incr \in Foreign, ForeignSbrk(incr) PROVE MoveInv'
  BY <1>5 DEF ForeignSbrk
<1>6. ASSUME NEW len \in Sizes, MallocCall(len) \/ MallocFirst(len) PROVE MoveInv'
  BY <1>6 DEF MallocCall, MallocFirst, NoCall
<1> QED
  BY <1>1, <1>2, <1>3, <1>4, <1>5, <1>6, ReallocCallKeeps, CoalesceKeeps, FoundKeeps, GrowKeeps,
     ReallocCopyKeeps DEF CautiousNext, Step, Others, Release, Ask

(* The old data is at the front of what realloc() returns, but for the two *)
(* cases the code gets wrong: a new block that ends where the old data     *)
(* starts, and a word copy from an odd address (gen/MALLOC.C realloc(),    *)
(* gen/MEMCPY.C).                                                          *)
THEOREM ReallocCorrect == CautiousSpec => []ReallocKeepsContentsElsewhere
<1>1. Init => IInv /\ MoveInv
  BY InitInv DEF Init, MoveInv, OldThere, OldSplit, ReallocKeepsContentsElsewhere, Answered
<1>2. IInv /\ MoveInv /\ [CautiousNext]_vars => MoveInv'
  BY MoveStep
<1>3. MoveInv => ReallocKeepsContentsElsewhere
  BY DEF MoveInv
<1> QED
  BY <1>1, <1>2, <1>3, Invariance, PTL DEF CautiousSpec
-----------------------------------------------------------------------------
(***************************************************************************)
(* Refinement.  The blocks in clients' hands change in two ways only: one  *)
(* is given back, or the block being returned joins them.                  *)
(***************************************************************************)
LEMMA LiveStep ==
  ASSUME IInv, [CautiousNext]_vars
  PROVE  \/ live' = live
         \/ \E b \in live : live' = live \ {b}
         \/ /\ Handed
            /\ live' = live \cup {[base |-> ret, len |-> op.len]}
<1>1. CASE UNCHANGED vars
  BY <1>1 DEF vars, ghosts
<1>2. CASE Step
  BY <1>2 DEF Step, Coalesce, Found, Advance, Grow, GrowFails, ReallocCopy, Return, Handed, ghosts
<1>3. CASE Others
  BY <1>3 DEF Others, Release, Free, ReallocCall, ForeignSbrk
<1>4. CASE ~stale /\ Ask
  BY <1>4 DEF Ask, MallocCall, MallocFirst, ghosts
<1> QED
  BY <1>1, <1>2, <1>3, <1>4 DEF CautiousNext

LEMMA GrantStep ==
  ASSUME IInv, NoOverlap', Handed,
         NEW b, b = [base |-> ret, len |-> op.len], live' = live \cup {b}
  PROVE  A!Grant
<1> USE HeapAssumption
<1>1. /\ ret - 1 \in nodes /\ ret - 1 >= HeapBase /\ ret - 1 # alloct
      /\ ret + op.len <= next[ret - 1] /\ op.len \in Nat /\ ret \in Nat
      /\ op.len \in Sizes
      /\ \A c \in live : c.base # ret
  BY DEF IInv, Handed, Pending, HeaderOf, TypeOK, Call
<1>2. ret \in HeapBase..MaxAddr
  <2>1. next[ret - 1] \in Addr
    BY <1>1, RingStep DEF IInv
  <2> QED
    BY <1>1, <2>1 DEF Addr
<1>3. ASSUME NEW c \in live PROVE c.base # ret /\ A!Units(b) \cap A!Units(c) = {}
  <2>1. b \in live' /\ c \in live' /\ b # c
    BY <1>1
  <2>2. A!Units(b) \cap A!Units(c) = {}
    BY <2>1 DEF NoOverlap, Span, A!Units
  <2> QED
    BY <1>1, <2>2
<1> QED
  BY <1>1, <1>2, <1>3 DEF A!Grant

(* For a cautious client gen/MALLOC.C implements the abstract allocator:   *)
(* it only ever hands out memory that no block in use touches.             *)
THEOREM Refinement == CautiousSpec => ImplementsAllocator
<1>1. Init => A!Init
  BY DEF Init, A!Init
<1>2. IInv /\ NoOverlap' /\ [CautiousNext]_vars => [A!Next]_live
  <2> SUFFICES ASSUME IInv, NoOverlap', [CautiousNext]_vars PROVE [A!Next]_live
    OBVIOUS
  <2>1. CASE live' = live
    BY <2>1
  <2>2. CASE \E b \in live : live' = live \ {b}
    BY <2>2 DEF A!Next, A!Revoke
  <2>3. CASE Handed /\ live' = live \cup {[base |-> ret, len |-> op.len]}
    <3>1. PICK b : b = [base |-> ret, len |-> op.len]
      OBVIOUS
    <3> QED
      BY <2>3, <3>1, GrantStep DEF A!Next
  <2> QED
    BY <2>1, <2>2, <2>3, LiveStep
<1> QED
  BY <1>1, <1>2, Invariance, NoOverlapCorrect, PTL DEF CautiousSpec, ImplementsAllocator, A!Spec
=============================================================================
