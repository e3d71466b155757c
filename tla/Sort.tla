-------------------------------- MODULE Sort --------------------------------
(***************************************************************************)
(* gen/QSORT.C: quicksort with a stack of its own for the parts still to   *)
(* be sorted.  An array is a function from 0..nel-1.  Indices are numbers  *)
(* without end here: in the code i + j is a word, and the middle of a part *)
(* is right for arrays of up to 16384 elements.  The copy of the middle    *)
(* element is exact, which that of gen/MEMCPY.C is not for eight bytes and *)
(* more from an odd address to an odd one (see Heap).                      *)
(***************************************************************************)
EXTENDS Loops, Sequences, SequencesExt, FiniteSets

Size(a) == Cardinality(DOMAIN a)

(* Where the loops over compar() stop: at the first element from i up not   *)
(* less than x, from j down not greater; outside the array if there is none.*)
Up(a, i, x) == CHOOSE k \in i..Size(a) : /\ \A m \in i..(k - 1) : a[m] < x
                                         /\ k \in DOMAIN a => ~(a[k] < x)
Down(a, j, x) == CHOOSE k \in -1..j : /\ \A m \in (k + 1)..j : x < a[m]
                                      /\ k \in DOMAIN a => ~(x < a[k])

(* One turn of the loop while i <= j; wild is a comparison outside.         *)
Exchange(p) ==
  LET i == Up(p.a, p.i, p.x)
      j == Down(p.a, p.j, p.x) IN
  IF p.i > p.j \/ p.wild THEN p
  ELSE IF {i, j} \cap {-1, Size(p.a)} # {} THEN [p EXCEPT !.wild = TRUE]
  ELSE IF i <= j THEN [p EXCEPT !.a = [@ EXCEPT ![i] = p.a[j], ![j] = p.a[i]], !.i = i + 1, !.j = j - 1]
  ELSE [p EXCEPT !.i = i, !.j = j]
Partition(a, l, r) ==
  Iterate(Exchange, Size(a), [a |-> a, i |-> l, j |-> r, x |-> a[(l + r) \div 2], wild |-> FALSE])

(* The smaller part is next, the other one waits if there is anything to    *)
(* sort in it.                                                              *)
Pushed(stack, part) == IF part[1] < part[2] THEN Append(stack, part) ELSE stack
Turn(s) ==
  LET l == s.part[1]
      r == s.part[2]
      p == Partition(s.a, l, r)
      leftFirst == p.j - l < r - p.i
      next == IF leftFirst THEN <<l, p.j>> ELSE <<p.i, r>>
      stack == Pushed(s.stack, IF leftFirst THEN <<p.i, r>> ELSE <<l, p.j>>)
      t == [s EXCEPT !.a = p.a, !.wild = p.wild, !.deepest = IF Len(stack) > @ THEN Len(stack) ELSE @] IN
  IF s.done \/ s.wild THEN s
  ELSE IF next[1] < next[2] THEN [t EXCEPT !.part = next, !.stack = stack]
  ELSE IF stack # <<>> THEN [t EXCEPT !.part = Last(stack), !.stack = Front(stack)]
  ELSE [t EXCEPT !.done = TRUE, !.stack = stack]
qsort(a) == Iterate(Turn, Size(a), [a |-> a, part |-> <<0, Size(a) - 1>>, stack |-> <<>>,
                                    deepest |-> 0, wild |-> FALSE, done |-> FALSE])

-----------------------------------------------------------------------------
(* Sorted, the same elements, never a look outside, and a stack that grows  *)
(* by a place only where the array doubles: the code has 16.                *)
Count(a, v) == Cardinality({k \in DOMAIN a : a[k] = v})
SortRight(s, a) ==
  /\ s.done /\ ~s.wild
  /\ \A k \in DOMAIN a : Count(s.a, a[k]) = Count(a, a[k])
  /\ \A k \in 1..(Size(a) - 1) : s.a[k - 1] <= s.a[k]
  /\ 2 ^ s.deepest <= Size(a)
=============================================================================
