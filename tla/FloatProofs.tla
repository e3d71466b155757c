----------------------------- MODULE FloatProofs ----------------------------
(***************************************************************************)
(* Floating point for every operand, mantissas of any length the code's    *)
(* proportions allow and any exponent from the code's length up: what is   *)
(* left of a product, a quotient or a sum and how far it is from the exact *)
(* one; numbers that are integers behave as integers.                      *)
(*                                                                         *)
(* Most proofs follow a number through the steps of the code: a mantissa   *)
(* is brought to its place (up, down, or a bit at a time with the divisor),*)
(* the bit that falls off rounds it, the exponent is looked at last.       *)
(***************************************************************************)
EXTENDS LibraryProofs

(* The widths of a number and of its parts.                                 *)
LEMMA FloatWidths ==
  /\ BYTE \in Nat /\ BYTE >= 4 /\ MAN = 3 * BYTE /\ LONG = 4 * BYTE /\ WORD = 2 * BYTE
  /\ BIAS \in Nat /\ BIAS > LONG /\ 2 ^ EXP = 2 * BIAS
  /\ Top \in Nat \ {0} /\ 2 ^ MAN = 2 * Top
  /\ EXP \in Nat /\ 2 ^ (EXP + 1) = 4 * BIAS
<1>1. WORD \in Nat /\ BYTE \in Nat /\ WORD = 2 * BYTE /\ LONG = 4 * BYTE /\ BYTE >= 4 /\ MAN = 3 * BYTE
  BY WidthFacts, ExpAssumption DEF MAN
<1>2. EXP - 1 \in Nat /\ EXP = (EXP - 1) + 1 /\ EXP \in Nat
  BY ExpAssumption
<1>3. 2 ^ EXP = 2 * BIAS /\ BIAS \in Nat \ {0}
  BY <1>2, PowerNext, PowerType DEF BIAS
<1>4. 2 ^ (EXP + 1) = 2 * 2 ^ EXP
  BY <1>2, PowerNext
<1>5. BIAS > LONG
  BY <1>1, ExpAssumption DEF BIAS
<1>6. MAN \in Nat /\ MAN >= 1
  BY <1>1
<1>7. Top \in Nat \ {0} /\ 2 ^ MAN = 2 * Top
  BY <1>6, TopBit DEF Top
<1> QED
  BY <1>1, <1>2, <1>3, <1>4, <1>5, <1>7

Num(n, e, m) == [neg |-> n, exp |-> e, man |-> m]
Pair(m, k) == [man |-> m, k |-> k]

LEMMA NumFields ==
  ASSUME NEW n, NEW e, NEW m
  PROVE  Num(n, e, m).neg = n /\ Num(n, e, m).exp = e /\ Num(n, e, m).man = m
BY DEF Num

LEMMA NumChanged ==
  ASSUME NEW n, NEW e, NEW m, NEW a
  PROVE  /\ [Num(n, e, m) EXCEPT !.man = a] = Num(n, e, a)
         /\ [Num(n, e, m) EXCEPT !.exp = a] = Num(n, a, m)
         /\ [Num(n, e, m) EXCEPT !.neg = a] = Num(a, e, m)
<1>1. [Num(n, e, m) EXCEPT !.man = a] = Num(n, e, a)
  BY DEF Num
<1>2. [Num(n, e, m) EXCEPT !.exp = a] = Num(n, a, m)
  BY DEF Num
<1>3. [Num(n, e, m) EXCEPT !.neg = a] = Num(a, e, m)
  BY DEF Num
<1> QED
  BY <1>1, <1>2, <1>3

(* A mantissa goes up until its top bit is set.                             *)
LEMMA Normalized ==
  ASSUME NEW m \in 1..(2 ^ MAN - 1)
  PROVE  \E k \in 0..(MAN - 1) : /\ m * 2 ^ k \in Top..(2 ^ MAN - 1)
                                /\ Iterate(ShiftUp, MAN, Pair(m, 0)) = Pair(m * 2 ^ k, k)
<1> DEFINE S == [man : Nat, k : Nat]
           F == [v \in S |-> ShiftUp(v)]
           s0 == Pair(m, 0)
           turns == CHOOSE turn : turn = [j \in 0..MAN |-> IF j = 0 THEN s0 ELSE ShiftUp(turn[j - 1])]
<1>1. MAN \in Nat /\ Top \in Nat \ {0} /\ 2 ^ MAN = 2 * Top /\ m \in 1..(2 * Top - 1)
  BY FloatWidths
<1>2. Iterate(ShiftUp, MAN, s0) = turns[MAN]
  BY DEF Iterate
<1>3. \A v \in S : ShiftUp(v) \in S
  <2> SUFFICES ASSUME NEW v \in S PROVE ShiftUp(v) \in S
    OBVIOUS
  <2>1. v.man \in Nat /\ v.k \in Nat
    OBVIOUS
  <2> QED
    BY <2>1 DEF ShiftUp
<1>4. \A a, j \in Nat : ShiftUp(Pair(a, j)) = IF a >= Top THEN Pair(a, j) ELSE Pair(2 * a, j + 1)
  BY DEF ShiftUp, Pair
<1>5. s0 \in S
  BY <1>1 DEF Pair
<1> HIDE DEF S, s0
<1>6. turns[0] = s0 /\ \A j \in 0..(MAN - 1) : turns[j + 1] = ShiftUp(turns[j])
  <2>1. F \in [S -> S] /\ \A v \in S : F[v] = ShiftUp(v)
    BY <1>3
  <2> HIDE DEF F
  <2>2. PICK turn : Turns(turn, S, F, s0, MAN)
    BY <1>1, <1>5, <2>1, TurnsExist
  <2>3. turn \in [0..MAN -> S] /\ turn[0] = s0 /\ \A j \in 1..MAN : turn[j] = F[turn[j - 1]]
    BY <2>2 DEF Turns
  <2>4. ASSUME NEW j \in 1..MAN PROVE turn[j] = ShiftUp(turn[j - 1])
    <3>1. j - 1 \in 0..MAN
      BY <1>1
    <3> QED
      BY <2>1, <2>3, <3>1, Zenon
  <2>5. turn = [j \in 0..MAN |-> IF j = 0 THEN s0 ELSE ShiftUp(turn[j - 1])]
    BY <1>1, <2>3, <2>4
  <2>6. turns = [j \in 0..MAN |-> IF j = 0 THEN s0 ELSE ShiftUp(turns[j - 1])]
    BY <2>5
  <2> HIDE DEF turns
  <2> QED
    BY <1>1, <2>6
<1> HIDE DEF turns
<1> DEFINE Up2(s, j) == \E k \in 0..j : /\ s = Pair(m * 2 ^ k, k) /\ m * 2 ^ k < 2 * Top
                                        /\ (m * 2 ^ k >= Top \/ k = j)
           T == {j \in 0..MAN : Up2(turns[j], j)}
<1>7. 0 \in T
  <2>1. m * 2 ^ 0 = m
    BY <1>1, PowerZero
  <2>2. turns[0] = Pair(m * 2 ^ 0, 0) /\ m * 2 ^ 0 < 2 * Top
    BY <1>1, <1>6, <2>1 DEF s0
  <2>3. 0 \in 0..0 /\ 0 \in 0..MAN
    BY <1>1
  <2>4. Up2(turns[0], 0)
    BY <2>2, <2>3, Zenon
  <2> QED
    BY <2>3, <2>4
<1>8. ASSUME NEW j \in 0..(MAN - 1), j \in T PROVE j + 1 \in T
  <2>1. PICK k \in 0..j : /\ turns[j] = Pair(m * 2 ^ k, k) /\ m * 2 ^ k < 2 * Top
                          /\ (m * 2 ^ k >= Top \/ k = j)
    BY <1>8
  <2> DEFINE a == m * 2 ^ k
  <2>2. k \in Nat /\ a \in Nat /\ m * 2 ^ (k + 1) = 2 * a
    <3>1. k \in Nat /\ m \in Nat
      BY <1>1
    <3>2. 2 ^ k \in Nat /\ 2 ^ (k + 1) = 2 * 2 ^ k
      BY <3>1, PowerType, PowerNext
    <3> DEFINE p == 2 ^ k
    <3> HIDE DEF p
    <3>3. m * p \in Nat /\ m * (2 * p) = 2 * (m * p)
      BY <3>1, <3>2 DEF p
    <3> QED
      BY <3>1, <3>2, <3>3 DEF p
  <2>3. turns[j] = Pair(a, k) /\ a < 2 * Top /\ (a >= Top \/ k = j)
    BY <2>1
  <2> HIDE DEF a
  <2>4. turns[j + 1] = IF a >= Top THEN Pair(a, k) ELSE Pair(2 * a, k + 1)
    BY <1>4, <1>6, <2>2, <2>3
  <2>5. CASE a >= Top
    <3>1. Up2(turns[j + 1], j + 1)
      <4>1. turns[j + 1] = Pair(m * 2 ^ k, k) /\ m * 2 ^ k < 2 * Top /\ m * 2 ^ k >= Top
        BY <2>3, <2>4, <2>5 DEF a
      <4>2. k \in 0..(j + 1)
        BY <1>1
      <4> QED
        BY <4>1, <4>2
    <3> QED
      BY <1>1, <3>1
  <2>6. CASE ~(a >= Top)
    <3>1. Up2(turns[j + 1], j + 1)
      <4>1. turns[j + 1] = Pair(m * 2 ^ (k + 1), k + 1) /\ m * 2 ^ (k + 1) < 2 * Top /\ k + 1 = j + 1
        BY <1>1, <2>2, <2>3, <2>4, <2>6
      <4>2. k + 1 \in 0..(j + 1)
        BY <1>1
      <4> QED
        BY <4>1, <4>2, Zenon
    <3> QED
      BY <1>1, <3>1
  <2> QED
    BY <2>5, <2>6
<1>9. \A j \in 0..MAN : j \in T
  <2> HIDE DEF T
  <2> QED
    BY <1>1, <1>7, <1>8, UpTo
<1>10. Up2(turns[MAN], MAN)
  <2>1. MAN \in T
    BY <1>1, <1>9
  <2> QED
    BY <2>1
<1>11. PICK k \in 0..MAN : /\ turns[MAN] = Pair(m * 2 ^ k, k) /\ m * 2 ^ k < 2 * Top
                          /\ (m * 2 ^ k >= Top \/ k = MAN)
  BY <1>10
<1>12. m * 2 ^ k \in Nat
  BY <1>1, PowerType
<1>13. k # MAN
  <2> SUFFICES ASSUME k = MAN PROVE FALSE
    OBVIOUS
  <2>1. m * (2 * Top) < 2 * Top
    BY <1>1, <1>11
  <2> QED
    BY <1>1, <2>1
<1>14. k \in 0..(MAN - 1) /\ m * 2 ^ k >= Top
  BY <1>1, <1>11, <1>13
<1>15. m * 2 ^ k \in Top..(2 ^ MAN - 1) /\ Iterate(ShiftUp, MAN, Pair(m, 0)) = Pair(m * 2 ^ k, k)
  <2>1. Iterate(ShiftUp, MAN, Pair(m, 0)) = Pair(m * 2 ^ k, k)
    BY <1>2, <1>11 DEF s0
  <2>2. 2 ^ MAN = 2 * Top
    BY <1>1
  <2> QED
    BY <1>1, <1>11, <1>12, <1>14, <2>1, <2>2
<1> QED
  BY <1>14, <1>15

LEMMA NormIs ==
  ASSUME NEW n \in BOOLEAN, NEW e \in Int, NEW m \in 0..(2 ^ MAN - 1)
  PROVE  /\ m = 0 => Norm(Num(n, e, m)) = Zero
         /\ m # 0 => \E k \in 0..(MAN - 1) :
              /\ m * 2 ^ k \in Top..(2 ^ MAN - 1)
              /\ Norm(Num(n, e, m)) = IF e < k THEN Zero ELSE Num(n, e - k, m * 2 ^ k)
<1> DEFINE x == Num(n, e, m)
<1>1. x.neg = n /\ x.exp = e /\ x.man = m
  BY DEF Num
<1>2. Norm(x) = LET s == Iterate(ShiftUp, MAN, Pair(m, 0))
                IN IF m = 0 \/ e < s.k THEN Zero ELSE [x EXCEPT !.man = s.man, !.exp = e - s.k]
  BY <1>1 DEF Norm, Pair
<1>3. ASSUME m # 0
      PROVE  \E k \in 0..(MAN - 1) :
              /\ m * 2 ^ k \in Top..(2 ^ MAN - 1)
              /\ Norm(x) = IF e < k THEN Zero ELSE Num(n, e - k, m * 2 ^ k)
  <2>1. m \in 1..(2 ^ MAN - 1)
    BY <1>3, FloatWidths
  <2>2. PICK k \in 0..(MAN - 1) : /\ m * 2 ^ k \in Top..(2 ^ MAN - 1)
                                  /\ Iterate(ShiftUp, MAN, Pair(m, 0)) = Pair(m * 2 ^ k, k)
    BY <2>1, Normalized
  <2> DEFINE a == m * 2 ^ k
             s == Iterate(ShiftUp, MAN, Pair(m, 0))
  <2>3. s.man = a /\ s.k = k
    BY <2>2 DEF Pair
  <2>4. [x EXCEPT !.man = a, !.exp = e - k] = Num(n, e - k, a)
    <3> DEFINE b == e - k
    <3> HIDE DEF a, b
    <3>1. [x EXCEPT !.man = a, !.exp = b] = [[x EXCEPT !.man = a] EXCEPT !.exp = b]
      <4> HIDE DEF x
      <4> QED
        OBVIOUS
    <3>2. [x EXCEPT !.man = a] = Num(n, e, a) /\ [Num(n, e, a) EXCEPT !.exp = b] = Num(n, b, a)
      BY DEF Num
    <3> QED
      BY <3>1, <3>2 DEF b
  <2>5. Norm(x) = IF e < k THEN Zero ELSE Num(n, e - k, a)
    <3> HIDE DEF a, s, x
    <3> QED
      BY <1>2, <1>3, <2>3, <2>4 DEF s
  <2> QED
    BY <2>2, <2>5
<1>4. m = 0 => Norm(x) = Zero
  BY <1>2
<1> QED
  BY <1>3, <1>4

-----------------------------------------------------------------------------
(* A mantissa, how many places it came down, and the bit that fell off      *)
(* last.                                                                    *)
Tri(m, k, o) == [man |-> m, k |-> k, out |-> o]
LastOut(p, k) == IF k > 0 THEN (p \div 2 ^ (k - 1)) % 2 = 1 ELSE FALSE

(* A product or a quotient goes down until it is a mantissa.                *)
LEMMA ReducedIs ==
  ASSUME NEW p \in Nat, NEW K \in 0..MAN, K = 0 \/ Top * 2 ^ K <= p, p < (2 * Top) * 2 ^ K
  PROVE  /\ Reduced(p) = Tri(p \div 2 ^ K, K, LastOut(p, K))
         /\ p \div 2 ^ K \in 0..(2 * Top - 1) /\ (K # 0 => p \div 2 ^ K >= Top)
<1> DEFINE S == [man : Nat, k : Nat, out : BOOLEAN]
           F == [v \in S |-> ShiftDown(v)]
           s0 == Tri(p, 0, FALSE)
           turns == CHOOSE turn : turn = [j \in 0..MAN |-> IF j = 0 THEN s0 ELSE ShiftDown(turn[j - 1])]
<1>1. MAN \in Nat /\ Top \in Nat \ {0} /\ 2 ^ MAN = 2 * Top
  BY FloatWidths
<1>2. Reduced(p) = turns[MAN]
  BY DEF Reduced, Iterate, Tri
<1>3. \A v \in S : ShiftDown(v) \in S
  <2> SUFFICES ASSUME NEW v \in S PROVE ShiftDown(v) \in S
    OBVIOUS
  <2>1. v.man \in Nat /\ v.k \in Nat /\ v.man \div 2 \in Nat
    OBVIOUS
  <2> QED
    BY <2>1 DEF ShiftDown
<1>4. \A a, j, o : ShiftDown(Tri(a, j, o)) = IF a < 2 * Top THEN Tri(a, j, o) ELSE Tri(a \div 2, j + 1, a % 2 = 1)
  BY <1>1 DEF ShiftDown, Tri
<1>5. s0 \in S
  BY <1>1 DEF Tri
<1> HIDE DEF S, s0
<1>6. turns[0] = s0 /\ \A j \in 0..(MAN - 1) : turns[j + 1] = ShiftDown(turns[j])
  <2>1. F \in [S -> S] /\ \A v \in S : F[v] = ShiftDown(v)
    BY <1>3
  <2> HIDE DEF F
  <2>2. PICK turn : Turns(turn, S, F, s0, MAN)
    BY <1>1, <1>5, <2>1, TurnsExist
  <2>3. turn \in [0..MAN -> S] /\ turn[0] = s0 /\ \A j \in 1..MAN : turn[j] = F[turn[j - 1]]
    BY <2>2 DEF Turns
  <2>4. ASSUME NEW j \in 1..MAN PROVE turn[j] = ShiftDown(turn[j - 1])
    <3>1. j - 1 \in 0..MAN
      BY <1>1
    <3> QED
      BY <2>1, <2>3, <3>1, Zenon
  <2>5. turn = [j \in 0..MAN |-> IF j = 0 THEN s0 ELSE ShiftDown(turn[j - 1])]
    BY <1>1, <2>3, <2>4
  <2>6. turns = [j \in 0..MAN |-> IF j = 0 THEN s0 ELSE ShiftDown(turns[j - 1])]
    BY <2>5
  <2> HIDE DEF turns
  <2> QED
    BY <1>1, <2>6
<1> HIDE DEF turns
<1>7. p \div 2 ^ K \in 0..(2 * Top - 1) /\ (K # 0 => p \div 2 ^ K >= Top)
  <2> DEFINE d == 2 ^ K
             q == p \div d
             r == p % d
  <2>1. d \in Nat \ {0}
    BY PowerType
  <2>2. p < (2 * Top) * d /\ (K = 0 \/ Top * d <= p)
    OBVIOUS
  <2> HIDE DEF d
  <2>3. p = q * d + r /\ q \in Int /\ r \in 0..(d - 1)
    BY <2>1, DivMod
  <2> HIDE DEF q, r
  <2>4. q < 2 * Top
    <3> SUFFICES ASSUME q >= 2 * Top PROVE FALSE
      BY <1>1, <2>3
    <3>1. q * d >= (2 * Top) * d
      BY <1>1, <2>1, <2>3
    <3> QED
      BY <1>1, <2>1, <2>2, <2>3, <3>1
  <2>5. q >= 0
    <3> SUFFICES ASSUME q <= -1 PROVE FALSE
      BY <2>3
    <3>1. q * d <= (-1) * d
      BY <2>1, <2>3
    <3> QED
      BY <2>1, <2>3, <3>1
  <2>6. ASSUME K # 0 PROVE q >= Top
    <3> SUFFICES ASSUME q + 1 <= Top PROVE FALSE
      BY <1>1, <2>3
    <3>1. (q + 1) * d <= Top * d
      BY <1>1, <2>1, <2>3
    <3>2. (q + 1) * d = q * d + d
      BY <2>1, <2>3
    <3> QED
      BY <1>1, <2>1, <2>2, <2>3, <2>6, <3>1, <3>2
  <2> QED
    BY <1>1, <2>3, <2>4, <2>5, <2>6 DEF q, d
<1> DEFINE At2(j) == IF j <= K THEN Tri(p \div 2 ^ j, j, LastOut(p, j)) ELSE Tri(p \div 2 ^ K, K, LastOut(p, K))
           T == {j \in 0..MAN : turns[j] = At2(j)}
<1>8. 0 \in T
  <2>1. p \div 2 ^ 0 = p /\ LastOut(p, 0) = FALSE /\ 0 <= K
    BY PowerZero, DivByOne DEF LastOut
  <2>2. At2(0) = Tri(p, 0, FALSE)
    BY <2>1
  <2> HIDE DEF At2
  <2>3. turns[0] = At2(0)
    BY <1>6, <2>2 DEF s0
  <2> QED
    BY <1>1, <2>3
<1>9. ASSUME NEW j \in 0..(MAN - 1), j \in T PROVE j + 1 \in T
  <2>1. turns[j + 1] = ShiftDown(turns[j]) /\ turns[j] = At2(j) /\ j \in Nat
    BY <1>1, <1>6, <1>9
  <2>2. CASE j < K
    <3> DEFINE d == 2 ^ j
               a == p \div d
    <3>1. d \in Nat \ {0} /\ 2 ^ (j + 1) = 2 * d
      BY <2>1, PowerType, PowerNext
    <3>2. a >= 2 * Top /\ a \in Nat
      <4>1. j + 1 \in Nat /\ K \in Nat /\ j + 1 <= K
        BY <2>1, <2>2
      <4>2. 2 ^ (j + 1) <= 2 ^ K /\ 2 ^ K \in Nat
        BY <4>1, PowerGrows, PowerType, Zenon
      <4>3. Top * 2 ^ K <= p
        BY <2>1, <2>2
      <4> DEFINE c == 2 ^ K
                 q == p \div d
                 r == p % d
      <4> HIDE DEF c, d
      <4>4. 2 * d <= c /\ Top * c <= p /\ c \in Nat
        BY <3>1, <4>2, <4>3 DEF c
      <4>5. p = q * d + r /\ q \in Int /\ r \in 0..(d - 1)
        BY <3>1, DivMod
      <4> HIDE DEF q, r
      <4>6. Top * (2 * d) <= Top * c
        BY <1>1, <3>1, <4>4
      <4>7. q >= 2 * Top
        <5> SUFFICES ASSUME q + 1 <= 2 * Top PROVE FALSE
          BY <1>1, <4>5
        <5>1. (q + 1) * d <= (2 * Top) * d
          BY <1>1, <3>1, <4>5
        <5>2. (q + 1) * d = q * d + d /\ (2 * Top) * d = Top * (2 * d) /\ Top * (2 * d) \in Int /\ Top * c \in Int
          BY <1>1, <3>1, <4>4, <4>5
        <5> QED
          BY <3>1, <4>4, <4>5, <4>6, <5>1, <5>2
      <4> QED
        BY <1>1, <4>5, <4>7 DEF q
    <3>3. ShiftDown(Tri(a, j, LastOut(p, j))) = Tri(a \div 2, j + 1, a % 2 = 1)
      <4>1. ~(a < 2 * Top)
        BY <1>1, <3>2
      <4> HIDE DEF a
      <4> QED
        BY <1>4, <4>1
    <3>4. a \div 2 = p \div 2 ^ (j + 1) /\ (a % 2 = 1 <=> LastOut(p, j + 1))
      <4>1. (p \div d) \div 2 = p \div (2 * d)
        <5> HIDE DEF d, At2, T
        <5>1. p \in Int /\ d \in Nat \ {0}
          BY <3>1
        <5> QED
          BY <5>1, HalvedQuotient, Zenon
      <4>2. (j + 1) - 1 = j /\ j + 1 > 0
        BY <2>1
      <4>3. LastOut(p, j + 1) <=> (p \div 2 ^ j) % 2 = 1
        <5>1. LastOut(p, j + 1) <=> j + 1 > 0 /\ (p \div 2 ^ ((j + 1) - 1)) % 2 = 1
          BY DEF LastOut
        <5>2. 2 ^ ((j + 1) - 1) = 2 ^ j
          BY <4>2
        <5> QED
          BY <4>2, <5>1, <5>2
      <4> QED
        BY <3>1, <4>1, <4>3
    <3>5. At2(j) = Tri(a, j, LastOut(p, j)) /\ At2(j + 1) = Tri(p \div 2 ^ (j + 1), j + 1, LastOut(p, j + 1))
      BY <2>1, <2>2
    <3>6. turns[j + 1] = Tri(a \div 2, j + 1, a % 2 = 1)
      BY <2>1, <3>3, <3>5
    <3>7. (a % 2 = 1) = LastOut(p, j + 1)
      BY <3>4 DEF LastOut
    <3>8. turns[j + 1] = At2(j + 1)
      BY <3>4, <3>5, <3>6, <3>7
    <3> QED
      BY <1>1, <3>8
  <2>3. CASE j >= K
    <3>1. At2(j) = Tri(p \div 2 ^ K, K, LastOut(p, K)) /\ At2(j + 1) = Tri(p \div 2 ^ K, K, LastOut(p, K))
      BY <2>1, <2>3
    <3>2. ShiftDown(Tri(p \div 2 ^ K, K, LastOut(p, K))) = Tri(p \div 2 ^ K, K, LastOut(p, K))
      <4>1. p \div 2 ^ K < 2 * Top
        BY <1>1, <1>7
      <4> QED
        BY <1>4, <4>1
    <3>3. turns[j + 1] = At2(j + 1)
      BY <2>1, <3>1, <3>2
    <3> QED
      BY <1>1, <3>3
  <2> QED
    BY <2>1, <2>2, <2>3
<1>10. \A j \in 0..MAN : j \in T
  <2> HIDE DEF T
  <2> QED
    BY <1>1, <1>8, <1>9, UpTo
<1>11. turns[MAN] = Tri(p \div 2 ^ K, K, LastOut(p, K))
  <2>1. MAN \in T /\ K \in Nat /\ K <= MAN
    BY <1>1, <1>10
  <2>2. turns[MAN] = At2(MAN)
    BY <2>1
  <2>3. CASE MAN <= K
    <3>1. MAN = K
      BY <1>1, <2>1, <2>3
    <3> QED
      BY <2>2, <3>1
  <2>4. CASE ~(MAN <= K)
    BY <2>2, <2>4
  <2> QED
    BY <2>3, <2>4
<1> QED
  BY <1>2, <1>7, <1>11

-----------------------------------------------------------------------------
(* The numbers a program can have.                                          *)
FLOATs == {Zero} \cup [neg : BOOLEAN, exp : 0..(2 * BIAS - 1), man : Top..(2 * Top - 1)]

LEMMA FloatForm ==
  ASSUME NEW x \in FLOATs
  PROVE  /\ x = Num(x.neg, x.exp, x.man) /\ x.neg \in BOOLEAN /\ x.exp \in 0..(2 * BIAS - 1)
         /\ x.man \in 0..(2 * Top - 1) /\ (x.man = 0 => x = Zero) /\ (x.man # 0 => x.man >= Top)
         /\ x.exp \in Nat /\ x.man \in Nat
         /\ x = Zero => ~x.neg /\ x.exp = 0 /\ x.man = 0
<1>1. BIAS \in Nat \ {0} /\ Top \in Nat \ {0}
  BY FloatWidths
<1>2. CASE x = Zero
  BY <1>1, <1>2 DEF Zero, Num
<1>3. CASE x \in [neg : BOOLEAN, exp : 0..(2 * BIAS - 1), man : Top..(2 * Top - 1)]
  <2>1. x.neg \in BOOLEAN /\ x.exp \in 0..(2 * BIAS - 1) /\ x.man \in Top..(2 * Top - 1)
    BY <1>3
  <2>2. x = Num(x.neg, x.exp, x.man)
    BY <1>3 DEF Num
  <2>3. x # Zero
    BY <1>1, <2>1 DEF Zero
  <2> QED
    BY <1>1, <2>1, <2>2, <2>3
<1> QED
  BY <1>2, <1>3 DEF FLOATs

LEMMA FloatMade ==
  ASSUME NEW n \in BOOLEAN, NEW e \in 0..(2 * BIAS - 1), NEW m \in Top..(2 * Top - 1)
  PROVE  Num(n, e, m) \in FLOATs
BY DEF FLOATs, Num

LEMMA SampleFloats == Floats \subseteq FLOATs
<1> SUFFICES ASSUME NEW x \in Floats PROVE x \in FLOATs
  OBVIOUS
<1>1. Mantissas \subseteq Top..(2 * Top - 1) /\ Exponents \subseteq 0..(2 * BIAS - 1)
  BY FloatWidths, SamplesAssumption
<1>2. CASE x = Zero
  BY <1>2 DEF FLOATs
<1>3. CASE x \in [neg : BOOLEAN, exp : Exponents, man : Mantissas]
  <2>1. x.neg \in BOOLEAN /\ x.exp \in Exponents /\ x.man \in Mantissas /\ x = [neg |-> x.neg, exp |-> x.exp, man |-> x.man]
    BY <1>3
  <2>2. x.exp \in 0..(2 * BIAS - 1) /\ x.man \in Top..(2 * Top - 1)
    BY <1>1, <2>1
  <2> QED
    BY <2>1, <2>2 DEF FLOATs
<1> QED
  BY <1>2, <1>3 DEF Floats

-----------------------------------------------------------------------------
(* Exponent and mantissa together are one number, in the order of both.     *)
LEMMA MagnifiedOrder ==
  ASSUME NEW p \in Nat, NEW a \in Nat, NEW b \in Nat, NEW c \in 0..(p - 1), NEW d \in 0..(p - 1)
  PROVE  /\ a * p + c < b * p + d <=> a < b \/ (a = b /\ c < d)
         /\ a * p + c = b * p + d <=> a = b /\ c = d
<1>1. a * p \in Nat /\ b * p \in Nat
  OBVIOUS
<1>2. CASE a = b
  BY <1>1, <1>2
<1>3. CASE a < b
  <2>1. (b - a) * p >= p /\ b * p = a * p + (b - a) * p
    BY <1>3
  <2> QED
    BY <1>1, <1>3, <2>1
<1>4. CASE b < a
  <2>1. (a - b) * p >= p /\ a * p = b * p + (a - b) * p
    BY <1>4
  <2> QED
    BY <1>1, <1>4, <2>1
<1> QED
  BY <1>2, <1>3, <1>4

LEMMA FRelopIsRight ==
  ASSUME NEW x \in FLOATs, NEW y \in FLOATs
  PROVE  FRelop(x, y).z = (x = y) /\ FRelop(x, y).s = Greater(y, x)
<1> DEFINE a == x.exp
           b == y.exp
           c == x.man
           d == y.man
           m == Magnified(x)
           k == Magnified(y)
<1>1. /\ x = Num(x.neg, a, c) /\ x.neg \in BOOLEAN /\ a \in Nat /\ c \in 0..(2 * Top - 1)
      /\ c # 0 => c >= Top
      /\ y = Num(y.neg, b, d) /\ y.neg \in BOOLEAN /\ b \in Nat /\ d \in 0..(2 * Top - 1)
      /\ d # 0 => d >= Top
      /\ c = 0 => ~x.neg /\ a = 0
      /\ d = 0 => ~y.neg /\ b = 0
  BY FloatForm, Zenon
<1>2. Top \in Nat \ {0} /\ m = a * (2 * Top) + c /\ k = b * (2 * Top) + d
  BY FloatWidths DEF Magnified
<1> HIDE DEF m, k
<1>3. (m < k <=> a < b \/ (a = b /\ c < d)) /\ (m = k <=> a = b /\ c = d) /\ m \in Nat /\ k \in Nat
  <2> DEFINE p == 2 * Top
  <2>1. p \in Nat /\ c \in 0..(p - 1) /\ d \in 0..(p - 1) /\ m = a * p + c /\ k = b * p + d
    BY <1>1, <1>2
  <2> HIDE DEF p, a, b, c, d
  <2>2. a \in Nat /\ b \in Nat
    BY <1>1 DEF a, b
  <2>3. /\ a * p + c < b * p + d <=> a < b \/ (a = b /\ c < d)
        /\ a * p + c = b * p + d <=> a = b /\ c = d
    BY <2>1, <2>2, MagnifiedOrder
  <2> QED
    BY <2>1, <2>2, <2>3
<1>4. x = y <=> x.neg = y.neg /\ a = b /\ c = d
  BY <1>1 DEF Num
<1>5. FRelop(x, y).z = (x = y)
  <2>1. CASE x.neg # y.neg
    BY <1>4, <2>1 DEF FRelop
  <2>2. CASE x.neg = y.neg
    <3>1. FRelop(x, y).z = (m = k)
      BY <2>2 DEF FRelop, m, k
    <3> QED
      BY <1>3, <1>4, <2>2, <3>1
  <2> QED
    BY <2>1, <2>2
<1>6. FRelop(x, y).s = Greater(y, x)
  <2>1. CASE x.neg # y.neg
    BY <1>1, <2>1 DEF FRelop, Greater
  <2>2. CASE x.neg = y.neg /\ x.neg
    <3>1. FRelop(x, y).s <=> (m # k /\ ~(m < k))
      BY <1>1, <2>2 DEF FRelop, m, k
    <3>2. Greater(y, x) <=> b < a \/ (b = a /\ d < c)
      BY <2>2 DEF Greater
    <3>3. FRelop(x, y).s \in BOOLEAN /\ Greater(y, x) \in BOOLEAN
      BY <1>1, <2>2 DEF FRelop, Greater
    <3>4. (m # k /\ ~(m < k)) <=> (b < a \/ (b = a /\ d < c))
      <4> HIDE DEF a, b, c, d
      <4>1. a \in Nat /\ b \in Nat /\ c \in Nat /\ d \in Nat
        BY <1>1, <1>2 DEF a, b, c, d
      <4> QED
        BY <1>3, <4>1
    <3> QED
      BY <3>1, <3>2, <3>3, <3>4
  <2>3. CASE x.neg = y.neg /\ ~x.neg
    <3>1. FRelop(x, y).s <=> m < k
      <4>1. x.neg = FALSE
        BY <1>1, <2>3
      <4>2. FRelop(x, y).s = (m # k /\ (FALSE # (m < k)))
        BY <2>3, <4>1 DEF FRelop, m, k
      <4>3. CASE m < k
        <5>1. (m < k) = TRUE /\ m # k
          BY <1>3, <4>3
        <5> QED
          BY <4>2, <4>3, <5>1
      <4>4. CASE ~(m < k)
        <5>1. (m < k) = FALSE
          BY <4>4
        <5> QED
          BY <4>2, <4>4, <5>1
      <4> QED
        BY <4>3, <4>4
    <3>2. Greater(y, x) <=> d # 0 /\ (c = 0 \/ b > a \/ (b = a /\ d > c))
      BY <1>1, <2>3 DEF Greater
    <3>3. FRelop(x, y).s \in BOOLEAN /\ Greater(y, x) \in BOOLEAN
      BY <1>1, <2>3 DEF FRelop, Greater
    <3>4. m < k <=> (d # 0 /\ (c = 0 \/ b > a \/ (b = a /\ d > c)))
      <4>1. /\ a \in Nat /\ b \in Nat /\ c \in Nat /\ d \in Nat
            /\ (c = 0 => a = 0) /\ (d = 0 => b = 0)
        BY <1>1, <1>2
      <4> HIDE DEF a, b, c, d
      <4> QED
        BY <1>3, <4>1
    <3> QED
      BY <3>1, <3>2, <3>3, <3>4
  <2> QED
    BY <1>1, <2>1, <2>2, <2>3
<1> QED
  BY <1>5, <1>6

(* Taken apart and put together again.                                      *)
LEMMA PartsComeBack ==
  ASSUME NEW x \in FLOATs
  PROVE  LdExp(FrExp(x).fraction, FrExp(x).expon) = x
<1> DEFINE n == x.neg
           e == x.exp
           m == x.man
<1>1. x = Num(n, e, m) /\ e \in 0..(2 * BIAS - 1) /\ 2 ^ EXP = 2 * BIAS /\ BIAS \in Nat
  BY FloatForm, FloatWidths
<1>2. FrExp(x).fraction = Num(n, BIAS, m)
  <2>1. [Num(n, e, m) EXCEPT !.exp = BIAS] = Num(n, BIAS, m)
    <3> HIDE DEF n, e, m
    <3> QED
      BY DEF Num
  <2>2. FrExp(x).fraction = [x EXCEPT !.exp = BIAS]
    BY DEF FrExp
  <2> HIDE DEF n, e, m
  <2> QED
    BY <1>1, <2>1, <2>2
<1>3. FrExp(x).expon = e - BIAS
  BY DEF FrExp
<1>4. (BIAS + (e - BIAS)) % 2 ^ EXP = e
  <2> HIDE DEF e
  <2>1. BIAS + (e - BIAS) = e /\ e \in Nat /\ 2 * BIAS \in Nat \ {0} /\ e < 2 * BIAS
    BY <1>1
  <2>2. e % (2 * BIAS) = e
    BY <2>1, DivInRange
  <2> QED
    BY <1>1, <2>1, <2>2
<1>5. LdExp(Num(n, BIAS, m), e - BIAS) = Num(n, e, m)
  <2>1. Num(n, BIAS, m).exp = BIAS
    BY DEF Num
  <2>2. LdExp(Num(n, BIAS, m), e - BIAS) = [Num(n, BIAS, m) EXCEPT !.exp = e]
    BY <1>4, <2>1 DEF LdExp
  <2>3. [Num(n, BIAS, m) EXCEPT !.exp = e] = Num(n, e, m)
    <3> HIDE DEF n, e, m
    <3> QED
      BY DEF Num
  <2> QED
    BY <2>2, <2>3
<1> QED
  BY <1>1, <1>2, <1>3, <1>5

-----------------------------------------------------------------------------
(* The byte of sign and exponent, and a number with its parts exchanged.    *)
LEMMA WithByteIs ==
  ASSUME NEW n \in BOOLEAN, NEW e \in Int, NEW m
  PROVE  /\ WithByte(n, e, m) = Num(n \/ e >= 2 * BIAS, e % (2 * BIAS), m)
         /\ e % (2 * BIAS) \in 0..(2 * BIAS - 1)
         /\ e \in 0..(2 * BIAS - 1) => WithByte(n, e, m) = Num(n, e, m)
<1>1. 2 ^ EXP = 2 * BIAS /\ BIAS \in Nat \ {0}
  BY FloatWidths
<1>2. WithByte(n, e, m) = Num(n \/ e >= 2 * BIAS, e % (2 * BIAS), m)
  <2>1. WithByte(n, e, m) = Num(n \/ e >= 2 ^ EXP, e % (2 ^ EXP), m)
    BY Zenon DEF WithByte, Num
  <2> QED
    BY <1>1, <2>1, Zenon
<1>3. e % (2 * BIAS) \in 0..(2 * BIAS - 1)
  <2> DEFINE d == 2 * BIAS
  <2>1. d \in Nat \ {0}
    BY <1>1
  <2> HIDE DEF d
  <2>2. e % d \in 0..(d - 1)
    BY <2>1, DivMod
  <2> QED
    BY <2>2 DEF d
<1>4. ASSUME e \in 0..(2 * BIAS - 1) PROVE WithByte(n, e, m) = Num(n, e, m)
  <2>1. e \in Nat /\ 2 * BIAS \in Nat \ {0} /\ e < 2 * BIAS
    BY <1>1, <1>4
  <2>2. e % (2 * BIAS) = e
    BY <2>1, DivInRange
  <2>3. (n \/ e >= 2 * BIAS) = n
    BY <2>1
  <2> QED
    BY <1>2, <2>2, <2>3
<1> QED
  BY <1>2, <1>3, <1>4

(* One more in the last place; past the top, the exponent goes up.          *)
LEMMA RoundIs ==
  ASSUME NEW n \in BOOLEAN, NEW e \in Int, NEW m \in 0..(2 * Top - 1)
  PROVE  Round(Num(n, e, m)) = IF m + 1 < 2 * Top THEN Num(n, e, m + 1) ELSE WithByte(n, e + 1, Top)
<1> DEFINE x == Num(n, e, m)
<1>1. x.neg = n /\ x.exp = e /\ x.man = m
  BY DEF Num
<1>2. 2 ^ MAN = 2 * Top
  BY FloatWidths
<1>3. [x EXCEPT !.man = m + 1] = Num(n, e, m + 1)
  BY DEF Num
<1> HIDE DEF x
<1>4. Round(x) = IF m + 1 < 2 * Top THEN [x EXCEPT !.man = m + 1] ELSE WithByte(n, e + 1, Top)
  BY <1>1, <1>2 DEF Round
<1> QED
  BY <1>3, <1>4 DEF x

(* The mantissa of a rounded number, whatever becomes of its exponent.      *)
LEMMA RoundNormal ==
  ASSUME NEW n \in BOOLEAN, NEW e \in Int, NEW m \in 0..(2 * Top - 1)
  PROVE  \E k \in BOOLEAN, f \in Int, v \in 1..(2 * Top - 1) :
            Round(Num(n, e, m)) = Num(k, f, v) /\ (m >= Top => v >= Top)
<1>1. Top \in Nat \ {0} /\ BIAS \in Nat
  BY FloatWidths
<1>2. CASE m + 1 < 2 * Top
  <2>1. Round(Num(n, e, m)) = Num(n, e, m + 1)
    BY <1>2, RoundIs
  <2>2. m + 1 \in 1..(2 * Top - 1) /\ (m >= Top => m + 1 >= Top)
    BY <1>1, <1>2
  <2> QED
    BY <2>1, <2>2
<1>3. CASE ~(m + 1 < 2 * Top)
  <2> DEFINE k == n \/ e + 1 >= 2 * BIAS
             f == (e + 1) % (2 * BIAS)
  <2>1. e + 1 \in Int /\ Round(Num(n, e, m)) = WithByte(n, e + 1, Top)
    BY <1>3, RoundIs
  <2>2. WithByte(n, e + 1, Top) = Num(k, f, Top) /\ f \in Int
    BY <2>1, WithByteIs
  <2>3. k \in BOOLEAN /\ Top \in 1..(2 * Top - 1)
    BY <1>1
  <2> HIDE DEF k, f
  <2> QED
    BY <1>1, <2>1, <2>2, <2>3
<1> QED
  BY <1>2, <1>3

LEMMA NormNormal ==
  ASSUME NEW n \in BOOLEAN, NEW e \in Int, NEW m \in 0..(2 * Top - 1)
  PROVE  Normal(Norm(Num(n, e, m)))
<1>1. 2 ^ MAN = 2 * Top /\ Top \in Nat \ {0} /\ m \in 0..(2 ^ MAN - 1)
  BY FloatWidths
<1>2. CASE m = 0
  BY <1>1, <1>2, NormIs DEF Normal
<1>3. CASE m # 0
  <2>1. PICK k \in 0..(MAN - 1) :
              /\ m * 2 ^ k \in Top..(2 ^ MAN - 1)
              /\ Norm(Num(n, e, m)) = IF e < k THEN Zero ELSE Num(n, e - k, m * 2 ^ k)
    BY <1>1, <1>3, NormIs
  <2> QED
    BY <2>1 DEF Normal, Num
<1> QED
  BY <1>2, <1>3

(* What is normalized stays as it is.                                       *)
LEMMA NormStays ==
  ASSUME NEW n \in BOOLEAN, NEW e \in Nat, NEW m \in Top..(2 * Top - 1)
  PROVE  Norm(Num(n, e, m)) = Num(n, e, m)
<1>1. 2 ^ MAN = 2 * Top /\ Top \in Nat \ {0} /\ m \in 0..(2 ^ MAN - 1) /\ m # 0 /\ MAN \in Nat
  BY FloatWidths
<1>2. PICK k \in 0..(MAN - 1) :
              /\ m * 2 ^ k \in Top..(2 ^ MAN - 1)
              /\ Norm(Num(n, e, m)) = IF e < k THEN Zero ELSE Num(n, e - k, m * 2 ^ k)
  BY <1>1, NormIs
<1>3. k = 0
  <2> SUFFICES ASSUME k # 0 PROVE FALSE
    OBVIOUS
  <2>1. k - 1 \in Nat /\ k = (k - 1) + 1
    BY <1>1
  <2>2. 2 ^ k = 2 * 2 ^ (k - 1) /\ 2 ^ (k - 1) \in Nat \ {0}
    BY <2>1, PowerNext, PowerType
  <2> DEFINE p == 2 ^ (k - 1)
  <2> HIDE DEF p
  <2>3. p >= 1 /\ p \in Nat /\ m * (2 * p) < 2 * Top
    BY <1>1, <1>2, <2>2 DEF p
  <2>4. m * (2 * p) >= 2 * Top
    <3>1. m * (2 * p) = (m * p) * 2 /\ m * p >= m * 1
      BY <1>1, <2>3
    <3> QED
      BY <1>1, <2>3, <3>1
  <2> QED
    BY <1>1, <2>3, <2>4
<1>4. m * 2 ^ k = m /\ e - k = e /\ ~(e < k)
  BY <1>1, <1>3, PowerZero
<1> QED
  BY <1>2, <1>4

-----------------------------------------------------------------------------
(* The product, bit after bit of the multiplier, its low bits dropped.      *)
LEMMA BitSplit ==
  ASSUME NEW y \in Nat, NEW j \in Nat
  PROVE  Bit(y, j) \in {0, 1} /\ y % 2 ^ (j + 1) = (y % 2 ^ j) + Bit(y, j) * 2 ^ j
<1> DEFINE p == 2 ^ j
           q == y \div p
           r == y % p
           h == q \div 2
           b == q % 2
<1>1. p \in Nat \ {0} /\ 2 ^ (j + 1) = 2 * p
  BY PowerType, PowerNext
<1>2. Bit(y, j) = b
  BY DEF Bit
<1> HIDE DEF p
<1>3. y = q * p + r /\ q \in Int /\ r \in 0..(p - 1)
  BY <1>1, DivMod
<1> HIDE DEF q, r
<1>4. q = h * 2 + b /\ h \in Int /\ b \in {0, 1}
  BY <1>3
<1> HIDE DEF h, b
<1>5. y = h * (2 * p) + (r + b * p) /\ r + b * p \in 0..(2 * p - 1)
  <2>1. q * p = (h * 2) * p + b * p
    BY <1>1, <1>3, <1>4
  <2>2. (h * 2) * p = h * (2 * p) /\ h * (2 * p) \in Int
    BY <1>1, <1>4
  <2>3. b * p \in 0..p /\ (b = 0 => b * p = 0) /\ (b = 1 => b * p = p)
    BY <1>1, <1>4
  <2> QED
    BY <1>1, <1>3, <1>4, <2>1, <2>2, <2>3
<1>6. y % (2 * p) = r + b * p
  <2> DEFINE z == r + b * p
             d == 2 * p
  <2>1. y \in Int /\ d \in Nat \ {0} /\ h \in Int /\ z \in 0..(d - 1) /\ y = h * d + z
    BY <1>1, <1>4, <1>5
  <2> HIDE DEF z, d
  <2>2. y % d = z
    BY <2>1, DivModUnique
  <2> QED
    BY <2>2 DEF z, d
<1> QED
  BY <1>1, <1>2, <1>4, <1>6 DEF p, r

LEMMA ProductIs ==
  ASSUME NEW x \in Nat, NEW y \in 0..(2 * Top - 1)
  PROVE  Product(x, y) = (x * y) \div 2 ^ (MAN - 1 - (BYTE - 2))
<1> DEFINE B == BYTE - 2
           D == B..(MAN - 1)
           shifted == x * 2 ^ B
           first == (y % 2 ^ B) * x + Bit(y, B) * shifted
           G(j) == ((y % 2 ^ (j + 1)) * x) \div 2 ^ (j - B)
           Is(f) == f = [j \in D |-> IF j = B THEN first ELSE f[j - 1] \div 2 + Bit(y, j) * shifted]
           p == CHOOSE f : Is(f)
<1>1. B \in Nat /\ MAN - 1 \in Nat /\ B < MAN - 1 /\ y \in Nat
  BY FloatWidths
<1>2. Product(x, y) = p[MAN - 1]
  BY DEF Product
<1> HIDE DEF B
<1>3. G(B) = first
  <2> DEFINE a == y % 2 ^ B
             b == Bit(y, B)
             c == 2 ^ B
  <2>1. c \in Nat /\ a \in Nat /\ b \in {0, 1} /\ y % 2 ^ (B + 1) = a + b * c
    <3>1. c \in Nat \ {0}
      BY <1>1, PowerType
    <3>2. a \in Nat
      BY <1>1, <3>1, DivMod
    <3> QED
      BY <1>1, <3>1, <3>2, BitSplit
  <2>2. B - B = 0
    BY <1>1
  <2>3. first = a * x + b * (x * c)
    OBVIOUS
  <2> HIDE DEF a, b, c, first
  <2>4. (a + b * c) * x = a * x + b * (x * c) /\ (a + b * c) * x \in Int
    <3>1. b = 0 \/ b = 1
      BY <2>1
    <3> QED
      BY <2>1, <3>1
  <2>5. G(B) = ((a + b * c) * x) \div 1
    BY <2>1, <2>2, PowerZero
  <2> HIDE DEF G
  <2> QED
    BY <2>3, <2>4, <2>5, DivByOne
<1>4. ASSUME NEW j \in (B + 1)..(MAN - 1) PROVE G(j) = G(j - 1) \div 2 + Bit(y, j) * shifted
  <2> DEFINE a == y % 2 ^ j
             b == Bit(y, j)
             d == 2 ^ (j - 1 - B)
             e == 2 ^ B
             P == 2 ^ j
  <2>1. j \in Nat /\ j - 1 - B \in Nat /\ j - B = (j - 1 - B) + 1 /\ j = (j - B) + B /\ j - B \in Nat /\ (j - 1) + 1 = j
    BY <1>1
  <2>2. d \in Nat \ {0} /\ e \in Nat \ {0} /\ P \in Nat \ {0} /\ 2 ^ (j - B) = 2 * d /\ P = (2 * d) * e
    <3>1. d \in Nat \ {0} /\ e \in Nat \ {0} /\ P \in Nat \ {0}
      BY <1>1, <2>1, PowerType
    <3>2. 2 ^ (j - B) = 2 * d
      BY <2>1, PowerNext
    <3>3. P = 2 ^ (j - B) * e
      BY <1>1, <2>1, PowerSum
    <3> QED
      BY <3>1, <3>2, <3>3
  <2>3. a \in Nat /\ b \in {0, 1} /\ y % 2 ^ (j + 1) = a + b * P
    <3>1. a \in Nat
      BY <1>1, <2>2, DivMod
    <3> QED
      BY <1>1, <2>1, <3>1, BitSplit
  <2>4. G(j - 1) = (a * x) \div d /\ G(j) = ((a + b * P) * x) \div (2 * d) /\ shifted = x * e
    <3>1. (j - 1) - B = j - 1 - B
      BY <1>1, <2>1
    <3> QED
      BY <2>1, <2>2, <2>3, <3>1
  <2> HIDE DEF G, a, b, d, e, P, shifted
  <2> DEFINE c == b * (x * e)
             u == a * x
  <2>5. c \in Int /\ u \in Int /\ (a + b * P) * x = u + c * (2 * d)
    <3>1. b = 0 \/ b = 1
      BY <2>3
    <3>2. ((2 * d) * e) * x = (x * e) * (2 * d) /\ x * e \in Int /\ a * x \in Int
      BY <2>2, <2>3
    <3>3. CASE b = 0
      <4>1. c = 0 /\ (a + b * P) * x = a * x /\ c * (2 * d) = 0
        BY <2>2, <2>3, <3>2, <3>3
      <4> QED
        BY <3>2, <4>1
    <3>4. CASE b = 1
      <4>1. c = x * e /\ (a + b * P) * x = a * x + P * x
        BY <2>2, <2>3, <3>2, <3>4
      <4> QED
        BY <2>2, <3>2, <4>1
    <3> QED
      BY <3>1, <3>3, <3>4
  <2> HIDE DEF c, u
  <2>6. (u + c * (2 * d)) \div (2 * d) = (u \div (2 * d)) + c
    <3>1. 2 * d \in Nat \ {0}
      BY <2>2
    <3> QED
      BY <2>5, <3>1, DivAdd, Zenon
  <2>7. (u \div d) \div 2 = u \div (2 * d)
    BY <2>2, <2>5, HalvedQuotient, Zenon
  <2>8. G(j) = (G(j - 1) \div 2) + c
    BY <2>4, <2>5, <2>6, <2>7 DEF u
  <2>9. c = b * shifted
    BY <2>4 DEF c
  <2> QED
    BY <2>8, <2>9, Zenon DEF b
<1> HIDE DEF G, first, shifted
<1>5. Is([j \in D |-> G(j)])
  <2> DEFINE f == [j \in D |-> G(j)]
  <2>1. ASSUME NEW j \in D PROVE f[j] = IF j = B THEN first ELSE f[j - 1] \div 2 + Bit(y, j) * shifted
    <3>1. CASE j = B
      BY <1>3, <3>1
    <3>2. CASE j # B
      <4>1. j \in (B + 1)..(MAN - 1) /\ j - 1 \in D
        BY <1>1, <3>2
      <4>2. f[j] = G(j) /\ f[j - 1] = G(j - 1)
        BY <4>1
      <4> QED
        BY <1>4, <3>2, <4>1, <4>2
    <3> QED
      BY <3>1, <3>2
  <2> DEFINE H(j) == IF j = B THEN first ELSE f[j - 1] \div 2 + Bit(y, j) * shifted
  <2>2. \A j \in D : G(j) = H(j)
    BY <2>1
  <2> HIDE DEF G, H, D
  <2>3. [j \in D |-> G(j)] = [j \in D |-> H(j)]
    BY <2>2, Zenon
  <2> QED
    BY <2>3, Zenon DEF H
<1>6. Is(p)
  <2> HIDE DEF Is
  <2> QED
    BY <1>5
<1> HIDE DEF p
<1>7. p[B] = first /\ \A j \in (B + 1)..(MAN - 1) : p[j] = p[j - 1] \div 2 + Bit(y, j) * shifted
  BY <1>1, <1>6
<1> DEFINE T == {j \in 0..(MAN - 1 - B) : p[B + j] = G(B + j)}
<1>8. 0 \in T
  BY <1>1, <1>3, <1>7
<1>9. ASSUME NEW j \in 0..(MAN - 1 - B - 1), j \in T PROVE j + 1 \in T
  <2> DEFINE i == B + (j + 1)
  <2>1. i \in (B + 1)..(MAN - 1) /\ i - 1 = B + j /\ j + 1 \in 0..(MAN - 1 - B)
    BY <1>1
  <2>2. p[B + j] = G(B + j)
    BY <1>9
  <2> HIDE DEF i
  <2>3. p[i] = G(i)
    BY <1>4, <1>7, <2>1, <2>2
  <2> QED
    BY <2>1, <2>3 DEF i
<1>10. \A j \in 0..(MAN - 1 - B) : j \in T
  <2> HIDE DEF T
  <2>1. MAN - 1 - B \in Nat
    BY <1>1
  <2> QED
    BY <1>8, <1>9, <2>1, UpTo
<1>11. p[MAN - 1] = G(MAN - 1)
  <2>1. MAN - 1 - B \in 0..(MAN - 1 - B) /\ B + (MAN - 1 - B) = MAN - 1
    BY <1>1
  <2>2. MAN - 1 - B \in T
    BY <1>10, <2>1
  <2>3. p[B + (MAN - 1 - B)] = G(B + (MAN - 1 - B))
    BY <2>2
  <2> QED
    BY <2>1, <2>3
<1>12. G(MAN - 1) = (x * y) \div 2 ^ (MAN - 1 - B)
  <2>1. (MAN - 1) + 1 = MAN /\ 2 ^ MAN = 2 * Top /\ Top \in Nat \ {0}
    BY <1>1, FloatWidths
  <2>2. y % (2 * Top) = y
    <3>1. y < 2 * Top /\ 2 * Top \in Nat \ {0}
      BY <2>1
    <3> QED
      BY <1>1, <3>1, DivInRange
  <2>3. y % 2 ^ ((MAN - 1) + 1) = y
    BY <2>1, <2>2
  <2>4. y * x = x * y
    BY <1>1
  <2> QED
    BY <2>3, <2>4 DEF G
<1> QED
  BY <1>2, <1>11, <1>12 DEF B

-----------------------------------------------------------------------------
(* One more in the last place, when the exponent has room for it.           *)
LEMMA RoundedNear ==
  ASSUME NEW n \in BOOLEAN, NEW e \in 0..(2 * BIAS - 2), NEW m \in Top..(2 * Top - 1), NEW o \in BOOLEAN,
         NEW r, r = IF o THEN Round(Num(n, e, m)) ELSE Num(n, e, m)
  PROVE  /\ r.neg = n /\ r.exp \in e..(e + 1) /\ r.man \in Top..(2 * Top - 1)
         /\ r.man * 2 ^ (r.exp - e) = m + (IF o THEN 1 ELSE 0)
         /\ r = Num(n, r.exp, r.man) /\ r \in FLOATs
<1>1. Top \in Nat \ {0} /\ BIAS \in Nat \ {0} /\ e \in Int /\ m \in 0..(2 * Top - 1) /\ e - e = 0
  BY FloatWidths
<1>2. CASE ~o
  <2>1. r.neg = n /\ r.exp = e /\ r.man = m
    BY <1>2, NumFields
  <2>2. m * 2 ^ (e - e) = m
    BY <1>1, PowerZero
  <2>3. e \in 0..(2 * BIAS - 1)
    BY <1>1
  <2>4. Num(n, e, m) \in FLOATs
    BY <2>3, FloatMade
  <2>5. r.man * 2 ^ (r.exp - e) = m /\ r.exp \in e..(e + 1)
    <3>1. e \in e..(e + 1)
      BY <1>1
    <3> QED
      BY <2>1, <2>2, <3>1, Zenon
  <2>6. r = Num(n, r.exp, r.man)
    BY <1>2, <2>1
  <2>7. m + (IF o THEN 1 ELSE 0) = m
    BY <1>1, <1>2
  <2> QED
    BY <1>2, <2>1, <2>4, <2>5, <2>6, <2>7, Zenon
<1>3. CASE o /\ m + 1 < 2 * Top
  <2>1. r = Num(n, e, m + 1)
    BY <1>1, <1>3, RoundIs
  <2>2. r.neg = n /\ r.exp = e /\ r.man = m + 1
    BY <2>1, NumFields
  <2>3. (m + 1) * 2 ^ (e - e) = m + 1
    BY <1>1, PowerZero
  <2>4. e \in 0..(2 * BIAS - 1) /\ m + 1 \in Top..(2 * Top - 1)
    BY <1>1, <1>3
  <2>5. Num(n, e, m + 1) \in FLOATs
    BY <2>4, FloatMade
  <2>6. r.man * 2 ^ (r.exp - e) = m + 1 /\ r.exp \in e..(e + 1)
    <3>1. e \in e..(e + 1)
      BY <1>1
    <3> QED
      BY <2>2, <2>3, <3>1, Zenon
  <2>7. r = Num(n, r.exp, r.man)
    BY <2>1, <2>2
  <2> QED
    BY <1>3, <2>1, <2>2, <2>4, <2>5, <2>6, <2>7, Zenon
<1>4. CASE o /\ ~(m + 1 < 2 * Top)
  <2>1. e + 1 \in 0..(2 * BIAS - 1) /\ e + 1 \in Int /\ Top \in Top..(2 * Top - 1) /\ m = 2 * Top - 1
    BY <1>1, <1>4
  <2>2. r = Num(n, e + 1, Top)
    <3>1. r = WithByte(n, e + 1, Top)
      BY <1>1, <1>4, RoundIs
    <3>2. WithByte(n, e + 1, Top) = Num(n, e + 1, Top)
      BY <2>1, WithByteIs
    <3> QED
      BY <3>1, <3>2
  <2>3. r.neg = n /\ r.exp = e + 1 /\ r.man = Top
    BY <2>2, NumFields
  <2>4. Top * 2 ^ ((e + 1) - e) = m + 1
    <3>1. (e + 1) - e = 1 /\ 2 ^ 1 = 2
      BY <1>1, PowerZero
    <3> QED
      BY <1>1, <2>1, <3>1
  <2>5. Num(n, e + 1, Top) \in FLOATs
    BY <2>1, FloatMade
  <2>6. r.man * 2 ^ (r.exp - e) = m + 1
    BY <2>3, <2>4
  <2>7. r.exp \in e..(e + 1) /\ r.man \in Top..(2 * Top - 1)
    BY <1>1, <2>1, <2>3
  <2> QED
    BY <1>4, <2>2, <2>3, <2>5, <2>6, <2>7
<1> QED
  BY <1>2, <1>3, <1>4

LEMMA FloatsNormal ==
  ASSUME NEW x \in FLOATs
  PROVE  Normal(x)
BY FloatForm, FloatWidths DEF Normal

LEMMA RoundIsNormal ==
  ASSUME NEW n \in BOOLEAN, NEW e \in Int, NEW m \in Top..(2 * Top - 1)
  PROVE  Normal(Round(Num(n, e, m))) /\ Normal(Num(n, e, m))
<1>1. Top \in Nat \ {0} /\ m \in 0..(2 * Top - 1) /\ 2 ^ MAN = 2 * Top
  BY FloatWidths
<1>2. PICK k \in BOOLEAN, f \in Int, v \in 1..(2 * Top - 1) :
            Round(Num(n, e, m)) = Num(k, f, v) /\ (m >= Top => v >= Top)
  BY <1>1, RoundNormal
<1>3. v \in Top..(2 ^ MAN - 1) /\ m \in Top..(2 ^ MAN - 1)
  BY <1>1, <1>2
<1> QED
  BY <1>2, <1>3, NumFields DEF Normal

(* Divided by a power, a number is in the range it was in times the power.  *)
LEMMA QuotientRange ==
  ASSUME NEW p \in Nat, NEW d \in Nat \ {0}, NEW lo \in Nat, NEW hi \in Nat, lo * d <= p, p < hi * d
  PROVE  p \div d \in lo..(hi - 1)
<1> DEFINE q == p \div d
           r == p % d
<1>1. p = q * d + r /\ q \in Int /\ r \in 0..(d - 1)
  BY DivMod
<1> HIDE DEF q, r
<1>2. q >= lo
  <2> SUFFICES ASSUME q <= lo - 1 PROVE FALSE
    BY <1>1
  <2>1. (lo - 1 - q) * d >= 0
    BY <1>1
  <2>2. (lo - 1 - q) * d = lo * d - d - q * d
    BY <1>1
  <2>3. lo * d \in Nat /\ q * d \in Int
    BY <1>1
  <2> QED
    BY <1>1, <2>1, <2>2, <2>3
<1>3. q < hi
  <2> SUFFICES ASSUME q >= hi PROVE FALSE
    BY <1>1
  <2>1. (q - hi) * d >= 0
    BY <1>1
  <2>2. (q - hi) * d = q * d - hi * d
    BY <1>1
  <2>3. hi * d \in Nat /\ q * d \in Int
    BY <1>1
  <2> QED
    BY <1>1, <2>1, <2>2, <2>3
<1>4. q \in lo..(hi - 1)
  BY <1>1, <1>2, <1>3
<1> QED
  BY <1>4 DEF q


-----------------------------------------------------------------------------
(* The product of two mantissas, in the place its top bit takes.            *)
LEMMA ProductReduced ==
  ASSUME NEW a \in Top..(2 * Top - 1), NEW b \in Top..(2 * Top - 1),
         NEW k, k = IF a * b >= 2 ^ (2 * MAN - 1) THEN MAN ELSE MAN - 1
  PROVE  \E o \in BOOLEAN :
           /\ Reduced(Product(a, b)) = Tri((a * b) \div 2 ^ k, k - MAN + BYTE - 1, o)
           /\ (a * b) \div 2 ^ k \in Top..(2 * Top - 1)
           /\ o <=> ((a * b) \div 2 ^ (k - 1)) % 2 = 1
<1> DEFINE p == a * b
           J == MAN - 1 - (BYTE - 2)
           K == k - J
           d == 2 ^ J
           c == 2 ^ K
           w == p \div d
<1>1. /\ Top \in Nat \ {0} /\ 2 ^ MAN = 2 * Top /\ MAN \in Nat /\ BYTE \in Nat /\ BYTE >= 4 /\ MAN = 3 * BYTE
      /\ MAN - 1 \in Nat /\ 2 ^ (MAN - 1) = Top
  BY FloatWidths DEF Top
<1>2. 2 ^ (2 * MAN - 1) = (2 * Top) * Top
  <2>1. MAN + (MAN - 1) = 2 * MAN - 1
    BY <1>1
  <2>2. 2 ^ (MAN + (MAN - 1)) = 2 ^ MAN * 2 ^ (MAN - 1)
    BY <1>1, PowerSum, Zenon
  <2> QED
    BY <1>1, <2>1, <2>2
<1>3. p \in Nat /\ Top * Top <= p /\ p < (2 * Top) * (2 * Top)
  <2>1. a \in Nat /\ b \in Nat
    BY <1>1
  <2>2. Top * Top <= a * Top /\ a * Top <= a * b
    <3>1. (a - Top) * Top >= 0 /\ a * (b - Top) >= 0
      BY <1>1, <2>1
    <3>2. (a - Top) * Top = a * Top - Top * Top /\ a * (b - Top) = a * b - a * Top
      BY <1>1, <2>1
    <3>3. a * Top \in Int /\ Top * Top \in Int /\ a * b \in Int
      BY <1>1, <2>1
    <3> QED
      BY <3>1, <3>2, <3>3
  <2>3. a * b <= a * (2 * Top) /\ a * (2 * Top) < (2 * Top) * (2 * Top)
    <3>1. a * (2 * Top - b) >= 0 /\ (2 * Top - 1 - a) * (2 * Top) >= 0
      BY <1>1, <2>1
    <3>2. a * (2 * Top - b) = a * (2 * Top) - a * b /\ (2 * Top - 1 - a) * (2 * Top) = (2 * Top) * (2 * Top) - 2 * Top - a * (2 * Top)
      BY <1>1, <2>1
    <3>3. a * (2 * Top) \in Int /\ (2 * Top) * (2 * Top) \in Int /\ a * b \in Int
      BY <1>1, <2>1
    <3> QED
      BY <1>1, <3>1, <3>2, <3>3
  <2> QED
    BY <1>1, <2>1, <2>2, <2>3
<1>4. J \in Nat /\ K \in {BYTE - 2, BYTE - 1} /\ k \in Nat /\ k = K + J /\ K \in 0..MAN /\ K \in Nat /\ K # 0
      /\ K = k - MAN + BYTE - 1
  BY <1>1
<1>5. Top * 2 ^ k <= p /\ p < (2 * Top) * 2 ^ k
  <2>1. p >= 2 ^ (2 * MAN - 1) <=> p >= (2 * Top) * Top
    BY <1>2
  <2> HIDE DEF p
  <2>2. (2 * Top) * Top = Top * (2 * Top) /\ Top * Top \in Nat /\ (2 * Top) * Top \in Nat
    BY <1>1
  <2>3. CASE p >= (2 * Top) * Top
    <3>1. k = MAN
      BY <2>1, <2>3 DEF p
    <3> QED
      BY <1>1, <1>3, <2>2, <2>3, <3>1
  <2>4. CASE ~(p >= (2 * Top) * Top)
    <3>1. k = MAN - 1
      BY <2>1, <2>4 DEF p
    <3> QED
      BY <1>1, <1>3, <2>2, <2>4, <3>1
  <2> QED
    BY <2>3, <2>4
<1>6. d \in Nat \ {0} /\ c \in Nat \ {0} /\ 2 ^ k = c * d
  BY <1>4, PowerType, PowerSum
<1>7. Product(a, b) = w
  <2>1. a \in Nat /\ b \in 0..(2 * Top - 1)
    BY <1>1
  <2> QED
    BY <2>1, ProductIs
<1> HIDE DEF p, J, K, d, c
<1>8. w \in (Top * c)..((2 * Top) * c - 1) /\ w \in Nat
  <2> DEFINE lo == Top * c
             hi == (2 * Top) * c
  <2>1. lo \in Nat /\ hi \in Nat /\ lo * d = Top * (c * d) /\ hi * d = (2 * Top) * (c * d)
    BY <1>1, <1>6
  <2>2. lo * d <= p /\ p < hi * d
    BY <1>5, <1>6, <2>1
  <2> HIDE DEF lo, hi, w
  <2>3. p \div d \in lo..(hi - 1)
    BY <1>3, <1>6, <2>1, <2>2, QuotientRange
  <2> QED
    BY <2>1, <2>3 DEF lo, hi, w
<1>9. w \div c = p \div 2 ^ k
  <2>1. p \in Int
    BY <1>3
  <2>2. (p \div d) \div c = p \div (d * c)
    BY <1>6, <2>1, DivTwice, Zenon
  <2>3. d * c = c * d
    BY <1>6
  <2> QED
    BY <1>6, <2>2, <2>3
<1> HIDE DEF w
<1>10. /\ Reduced(w) = Tri(w \div 2 ^ K, K, LastOut(w, K))
       /\ w \div 2 ^ K \in 0..(2 * Top - 1) /\ (K # 0 => w \div 2 ^ K >= Top)
  <2>1. Top * 2 ^ K <= w /\ w < (2 * Top) * 2 ^ K
    <3>1. Top * c \in Int /\ (2 * Top) * c \in Int
      BY <1>1, <1>6
    <3> QED
      BY <1>8, <3>1 DEF c
  <2> QED
    BY <1>4, <1>8, <2>1, ReducedIs
<1>11. p \div 2 ^ k \in Top..(2 * Top - 1) /\ Reduced(w) = Tri(p \div 2 ^ k, K, LastOut(w, K))
  <2>1. w \div 2 ^ K = p \div 2 ^ k
    BY <1>9 DEF c
  <2> HIDE DEF w
  <2> QED
    BY <1>1, <1>4, <1>10, <2>1
<1>12. LastOut(w, K) \in BOOLEAN
  BY DEF LastOut
<1>13. LastOut(w, K) <=> (p \div 2 ^ (k - 1)) % 2 = 1
  <2> DEFINE f == 2 ^ (K - 1)
  <2>1. K - 1 \in Nat /\ k - 1 = J + (K - 1) /\ K > 0
    BY <1>1, <1>4
  <2>2. f \in Nat \ {0} /\ 2 ^ (k - 1) = d * f
    <3> DEFINE I == K - 1
    <3>1. I \in Nat /\ k - 1 = J + I
      BY <2>1
    <3> HIDE DEF I
    <3>2. 2 ^ (J + I) = 2 ^ J * 2 ^ I /\ 2 ^ I \in Nat \ {0}
      BY <1>4, <3>1, PowerSum, PowerType
    <3> QED
      BY <3>1, <3>2 DEF I, d
  <2> HIDE DEF f
  <2>3. (p \div d) \div f = p \div (d * f)
    <3>1. p \in Int
      BY <1>3
    <3> QED
      BY <1>6, <2>2, <3>1, DivTwice, Zenon
  <2>4. w \div f = p \div 2 ^ (k - 1)
    BY <2>2, <2>3 DEF w
  <2> QED
    BY <2>1, <2>4 DEF LastOut, f
<1> QED
  BY <1>4, <1>7, <1>11, <1>12, <1>13 DEF p

-----------------------------------------------------------------------------
(* Products are within one unit of their last place.                        *)
LEMMA ZeroNormal == Normal(Zero)
BY DEF Normal

(* The exponent of a product or of a quotient, in the register that holds it.*)
LEMMA ExponentInRegister ==
  ASSUME NEW e \in (-2 * BIAS)..(4 * BIAS - 1)
  PROVE  /\ e % 2 ^ (EXP + 1) \in 0..(4 * BIAS - 1)
         /\ e \in 0..(2 * BIAS - 1) => e % 2 ^ (EXP + 1) = e
         /\ ~(e \in 0..(2 * BIAS - 1)) => e % 2 ^ (EXP + 1) >= 2 * BIAS
<1> DEFINE d == 4 * BIAS
<1>1. BIAS \in Nat \ {0} /\ 2 ^ (EXP + 1) = d /\ d \in Nat \ {0} /\ e \in Int
  BY FloatWidths
<1>2. e % d \in 0..(d - 1)
  <2> HIDE DEF d
  <2> QED
    BY <1>1, DivMod
<1>3. ASSUME e >= 0 PROVE e % d = e
  <2>1. e \in Nat /\ e < d
    BY <1>1, <1>3
  <2> HIDE DEF d
  <2> QED
    BY <1>1, <2>1, DivInRange
<1>4. ASSUME e < 0 PROVE e % d = e + d
  <2>1. (e + d) \in Nat /\ e + d < d
    BY <1>1, <1>4
  <2> HIDE DEF d
  <2>2. (e + d) % d = e + d
    BY <1>1, <2>1, DivInRange
  <2>3. (e + 1 * d) % d = e % d
    <3>1. 1 \in Int
      OBVIOUS
    <3> HIDE DEF d
    <3> QED
      BY <1>1, <3>1, ModPlusMultiple
  <2>4. e + 1 * d = e + d
    BY <1>1
  <2> QED
    BY <2>2, <2>3, <2>4
<1>5. ~(e \in 0..(2 * BIAS - 1)) => e % d >= 2 * BIAS
  <2>1. CASE e < 0
    BY <1>1, <1>4, <2>1
  <2>2. CASE e >= 0
    BY <1>1, <1>3, <2>2
  <2> QED
    BY <1>1, <2>1, <2>2
<1>6. e \in 0..(2 * BIAS - 1) => e % d = e
  BY <1>1, <1>3
<1> QED
  BY <1>1, <1>2, <1>5, <1>6

LEMMA NoProduct ==
  ASSUME NEW x \in FLOATs, NEW y \in FLOATs, x.man = 0 \/ y.man = 0
  PROVE  FlMul(x, y) = Zero
<1>1. x.man \in 0..(2 * Top - 1) /\ y.man \in 0..(2 * Top - 1) /\ x.man \in Nat /\ y.man \in Nat
  BY FloatForm, Zenon
<1> DEFINE a == x.man
           b == y.man
<1>2. a * b = 0
  <2> HIDE DEF a, b
  <2>1. a \in Nat /\ b \in Nat /\ (a = 0 \/ b = 0)
    BY <1>1 DEF a, b
  <2> QED
    BY <2>1
<1>3. Product(a, b) = 0
  <2>1. Product(a, b) = (a * b) \div 2 ^ (MAN - 1 - (BYTE - 2))
    BY <1>1, ProductIs
  <2>2. 2 ^ (MAN - 1 - (BYTE - 2)) \in Nat \ {0}
    <3>1. MAN - 1 - (BYTE - 2) \in Nat
      BY FloatWidths
    <3> QED
      BY <3>1, PowerType
  <2>3. \A d \in Nat \ {0} : 0 \div d = 0
    OBVIOUS
  <2> HIDE DEF a, b
  <2> QED
    BY <1>2, <2>1, <2>2, <2>3
<1>4. Reduced(0).man < Top
  <2>1. 0 \in Nat /\ 0 \in 0..MAN /\ 0 < (2 * Top) * 2 ^ 0 /\ Top \in Nat \ {0}
    <3>1. Top \in Nat \ {0} /\ MAN \in Nat /\ 2 ^ 0 = 1
      BY FloatWidths, PowerZero
    <3> QED
      BY <3>1
  <2>2. Reduced(0) = Tri(0 \div 2 ^ 0, 0, LastOut(0, 0))
    BY <2>1, ReducedIs
  <2>3. 0 \div 2 ^ 0 = 0
    BY PowerZero
  <2> QED
    BY <2>1, <2>2, <2>3 DEF Tri
<1> QED
  BY <1>3, <1>4 DEF FlMul

(* A product that is not 0, before its exponent is looked at.               *)
Dropped(p) == IF p >= 2 ^ (2 * MAN - 1) THEN MAN ELSE MAN - 1
ProductExp(x, y) == x.exp + y.exp - BIAS + Dropped(x.man * y.man) - MAN
ProductMan(x, y) == (x.man * y.man) \div 2 ^ Dropped(x.man * y.man)

LEMMA ProductMade ==
  ASSUME NEW x \in FLOATs, NEW y \in FLOATs, x.man # 0, y.man # 0
  PROVE  /\ ProductExp(x, y) \in Int /\ ProductMan(x, y) \in Top..(2 * Top - 1)
         /\ \E o \in BOOLEAN :
              /\ o <=> ((x.man * y.man) \div 2 ^ (Dropped(x.man * y.man) - 1)) % 2 = 1
              /\ FlMul(x, y) =
                   IF ProductExp(x, y) \in 0..(2 * BIAS - 1)
                   THEN IF (x.neg # y.neg) /\ o THEN Round(Num(x.neg # y.neg, ProductExp(x, y), ProductMan(x, y)))
                        ELSE Num(x.neg # y.neg, ProductExp(x, y), ProductMan(x, y))
                   ELSE Zero
<1> DEFINE a == x.man
           b == y.man
           p == a * b
           k == IF p >= 2 ^ (2 * MAN - 1) THEN MAN ELSE MAN - 1
           e == x.exp + y.exp - BIAS + k - MAN
           m == p \div 2 ^ k
           n == x.neg # y.neg
           r == FlMul(x, y)
<1>1. /\ x.neg \in BOOLEAN /\ x.exp \in 0..(2 * BIAS - 1) /\ x.exp \in Nat
      /\ a \in 0..(2 * Top - 1) /\ (a # 0 => a >= Top)
      /\ y.neg \in BOOLEAN /\ y.exp \in 0..(2 * BIAS - 1) /\ y.exp \in Nat
      /\ b \in 0..(2 * Top - 1) /\ (b # 0 => b >= Top)
  BY FloatForm, Zenon
<1>2. Top \in Nat \ {0} /\ BIAS \in Nat /\ BIAS > 2 /\ 2 ^ EXP = 2 * BIAS /\ MAN \in Nat /\ BYTE \in Nat
  BY FloatWidths
<1>3. a \in Top..(2 * Top - 1) /\ b \in Top..(2 * Top - 1)
  BY <1>1, <1>2
<1>4. k \in {MAN, MAN - 1} /\ k \in Int
  BY <1>2
<1>5. Dropped(x.man * y.man) = k /\ ProductExp(x, y) = e /\ ProductMan(x, y) = m
  BY DEF Dropped, ProductExp, ProductMan
<1>6. PICK o \in BOOLEAN :
         /\ Reduced(Product(a, b)) = Tri(m, k - MAN + BYTE - 1, o)
         /\ m \in Top..(2 * Top - 1) /\ (o <=> (p \div 2 ^ (k - 1)) % 2 = 1)
  <2> HIDE DEF a, b
  <2> QED
    BY <1>3, ProductReduced
<1> DEFINE s == Reduced(Product(a, b))
           f == (x.exp - (BIAS + 1) + s.k - (BYTE - 2) + y.exp) % 2 ^ (EXP + 1)
           q == Num(n, f, m)
<1>7. s.man = m /\ s.k = k - MAN + BYTE - 1 /\ s.out = o
  BY <1>6 DEF Tri
<1>8. r = IF s.man < Top \/ f >= 2 ^ EXP THEN Zero
          ELSE IF [neg |-> n, exp |-> f, man |-> s.man].neg /\ s.out THEN Round([neg |-> n, exp |-> f, man |-> s.man])
          ELSE [neg |-> n, exp |-> f, man |-> s.man]
  BY DEF FlMul
<1> HIDE DEF r, s
<1>9. r = IF f >= 2 * BIAS THEN Zero ELSE IF n /\ o THEN Round(Num(n, f, m)) ELSE Num(n, f, m)
  <2>1. ~(m < Top)
    BY <1>2, <1>6
  <2> HIDE DEF f, m, n
  <2>2. r = IF m < Top \/ f >= 2 ^ EXP THEN Zero
            ELSE IF Num(n, f, m).neg /\ o THEN Round(Num(n, f, m)) ELSE Num(n, f, m)
    BY <1>7, <1>8, Zenon DEF Num
  <2>3. Num(n, f, m).neg = n /\ 2 ^ EXP = 2 * BIAS
    BY <1>2, NumFields
  <2> QED
    BY <2>1, <2>2, <2>3
<1>10. e \in (-2 * BIAS)..(4 * BIAS - 1) /\ f = e % 2 ^ (EXP + 1) /\ e \in Int
  <2> HIDE DEF k, s, m
  <2>1. e \in (-2 * BIAS)..(4 * BIAS - 1)
    BY <1>1, <1>2, <1>4
  <2>2. x.exp - (BIAS + 1) + s.k - (BYTE - 2) + y.exp = e
    BY <1>1, <1>2, <1>4, <1>7
  <2> QED
    BY <1>2, <2>1, <2>2
<1> HIDE DEF f, e
<1>11. /\ f \in 0..(4 * BIAS - 1)
       /\ e \in 0..(2 * BIAS - 1) => f = e
       /\ ~(e \in 0..(2 * BIAS - 1)) => f >= 2 * BIAS
  BY <1>10, ExponentInRegister, Zenon
<1> HIDE DEF m, n, k
<1>12. r = IF e \in 0..(2 * BIAS - 1) THEN IF n /\ o THEN Round(Num(n, e, m)) ELSE Num(n, e, m) ELSE Zero
  <2>1. CASE e \in 0..(2 * BIAS - 1)
    <3>1. ~(f >= 2 * BIAS) /\ f = e
      BY <1>2, <1>11, <2>1
    <3> QED
      BY <1>9, <2>1, <3>1
  <2>2. CASE ~(e \in 0..(2 * BIAS - 1))
    BY <1>9, <1>11, <2>2
  <2> QED
    BY <2>1, <2>2
<1>13. /\ ProductExp(x, y) \in Int /\ ProductMan(x, y) \in Top..(2 * Top - 1)
       /\ o <=> ((x.man * y.man) \div 2 ^ (Dropped(x.man * y.man) - 1)) % 2 = 1
  BY <1>5, <1>6, <1>10
<1>14. FlMul(x, y) = IF ProductExp(x, y) \in 0..(2 * BIAS - 1)
                     THEN IF (x.neg # y.neg) /\ o THEN Round(Num(x.neg # y.neg, ProductExp(x, y), ProductMan(x, y)))
                          ELSE Num(x.neg # y.neg, ProductExp(x, y), ProductMan(x, y))
                     ELSE Zero
  BY <1>5, <1>12, Zenon DEF r, n
<1> QED
  BY <1>13, <1>14, Zenon

LEMMA ProductsRight ==
  ASSUME NEW x \in FLOATs, NEW y \in FLOATs
  PROVE  Normal(FlMul(x, y)) /\ ProductRight(FlMul(x, y), x, y)
<1> DEFINE e == ProductExp(x, y)
           m == ProductMan(x, y)
           n == x.neg # y.neg
           r == FlMul(x, y)
<1>1. Top \in Nat \ {0} /\ BIAS \in Nat /\ BIAS > 2 /\ 2 ^ EXP = 2 * BIAS
  BY FloatWidths
<1>2. CASE x.man = 0 \/ y.man = 0
  <2>1. r = Zero
    BY <1>2, NoProduct
  <2> QED
    BY <1>2, <2>1, ZeroNormal DEF ProductRight
<1>3. CASE ~(x.man = 0 \/ y.man = 0)
  <2>1. PICK o \in BOOLEAN :
           r = IF e \in 0..(2 * BIAS - 1) THEN IF n /\ o THEN Round(Num(n, e, m)) ELSE Num(n, e, m) ELSE Zero
    BY <1>3, ProductMade, Zenon
  <2>2. e \in Int /\ m \in Top..(2 * Top - 1)
    BY <1>3, ProductMade, Zenon
  <2>3. ProductRight(r, x, y) = IF e < 0 \/ e >= 2 ^ EXP THEN r = Zero
          ELSE e < 2 ^ EXP - 1 => r.neg = n /\ Magnitude(r.man * 2 ^ (r.exp - e) - m) <= 1
    BY <1>3, Zenon DEF ProductRight, ProductExp, ProductMan, Dropped
  <2> HIDE DEF r, e, m, n
  <2>4. CASE ~(e \in 0..(2 * BIAS - 1))
    <3>1. r = Zero /\ (e < 0 \/ e >= 2 ^ EXP)
      BY <1>1, <2>1, <2>2, <2>4
    <3> QED
      BY <2>3, <3>1, ZeroNormal, Zenon DEF r
  <2>5. CASE e \in 0..(2 * BIAS - 1)
    <3>1. ~(e < 0 \/ e >= 2 ^ EXP)
      BY <1>1, <2>5
    <3>2. n \in BOOLEAN /\ (n /\ o) \in BOOLEAN
      BY DEF n
    <3>3. r = IF n /\ o THEN Round(Num(n, e, m)) ELSE Num(n, e, m)
      BY <2>1, <2>5
    <3>4. Normal(r)
      BY <2>2, <3>2, <3>3, RoundIsNormal
    <3>5. ASSUME e < 2 ^ EXP - 1 PROVE r.neg = n /\ Magnitude(r.man * 2 ^ (r.exp - e) - m) <= 1
      <4>1. e \in 0..(2 * BIAS - 2)
        BY <1>1, <2>5, <3>5
      <4>2. r.neg = n /\ r.man * 2 ^ (r.exp - e) = m + (IF n /\ o THEN 1 ELSE 0)
        <5> DEFINE u == n /\ o
        <5>1. u \in BOOLEAN /\ r = IF u THEN Round(Num(n, e, m)) ELSE Num(n, e, m)
          BY <3>2, <3>3
        <5> HIDE DEF u
        <5>2. r.neg = n /\ r.man * 2 ^ (r.exp - e) = m + (IF u THEN 1 ELSE 0)
          BY <2>2, <3>2, <4>1, <5>1, RoundedNear
        <5> QED
          BY <5>2 DEF u
      <4> DEFINE v == r.man * 2 ^ (r.exp - e)
      <4>3. m \in Int
        BY <1>1, <2>2
      <4>4. v = m \/ v = m + 1
        BY <4>2, <4>3
      <4> HIDE DEF v
      <4>5. Magnitude(v - m) <= 1
        BY <4>3, <4>4 DEF Magnitude
      <4> QED
        BY <4>2, <4>5 DEF v
    <3> QED
      BY <2>3, <3>1, <3>4, <3>5, Zenon DEF r
  <2> QED
    BY <2>4, <2>5
<1> QED
  BY <1>2, <1>3

-----------------------------------------------------------------------------
(* The division, bit by bit: what is left, the divisor, the quotient so     *)
(* far.                                                                     *)
Turned(n, d, q) == [n |-> n, d |-> d, q |-> q]
QuotientOf(a, d, N) == Iterate(QuotientBit, N, Turned(a, d, 0)).q

(* A number of turns of the division, whatever it is.                       *)
LEMMA QuotientTurns ==
  ASSUME NEW a \in Nat, NEW d \in Nat, NEW N \in Nat, d # 0 => a < 2 * d
  PROVE  \E n \in Nat, q \in Nat :
           /\ QuotientOf(a, d, N) = q
           /\ d = 0 => q = 2 ^ N - 1
           /\ d # 0 => n < 2 * d /\ a * 2 ^ N = q * (2 * d) + n
<1> DEFINE S == [n : Nat, d : Nat, q : Nat]
           F == [v \in S |-> QuotientBit(v)]
           s0 == Turned(a, d, 0)
           turns == CHOOSE turn : turn = [j \in 0..N |-> IF j = 0 THEN s0 ELSE QuotientBit(turn[j - 1])]
<1>2. Iterate(QuotientBit, N, s0) = turns[N]
  BY DEF Iterate
<1>3. \A v \in S : QuotientBit(v) \in S
  <2> SUFFICES ASSUME NEW v \in S PROVE QuotientBit(v) \in S
    OBVIOUS
  <2>1. v.n \in Nat /\ v.d \in Nat /\ v.q \in Nat
    OBVIOUS
  <2>2. CASE v.n >= v.d
    <3>1. 2 * (v.n - v.d) \in Nat /\ 2 * v.q + 1 \in Nat
      BY <2>1, <2>2
    <3> QED
      BY <2>1, <2>2, <3>1 DEF QuotientBit
  <2>3. CASE ~(v.n >= v.d)
    <3>1. 2 * v.n \in Nat /\ 2 * v.q \in Nat
      BY <2>1
    <3> QED
      BY <2>1, <2>3, <3>1 DEF QuotientBit
  <2> QED
    BY <2>2, <2>3
<1>4. \A n, q : QuotientBit(Turned(n, d, q)) = IF n >= d THEN Turned(2 * (n - d), d, 2 * q + 1) ELSE Turned(2 * n, d, 2 * q)
  <2> SUFFICES ASSUME NEW n, NEW q
               PROVE  QuotientBit(Turned(n, d, q)) = IF n >= d THEN Turned(2 * (n - d), d, 2 * q + 1) ELSE Turned(2 * n, d, 2 * q)
    OBVIOUS
  <2> DEFINE s == Turned(n, d, q)
  <2>1. s.n = n /\ s.d = d /\ s.q = q
    BY DEF Turned
  <2>2. ASSUME NEW u, NEW v PROVE [s EXCEPT !.n = u, !.q = v] = Turned(u, d, v)
    <3>1. [s EXCEPT !.n = u, !.q = v] = [[s EXCEPT !.n = u] EXCEPT !.q = v]
      <4> HIDE DEF s
      <4> QED
        OBVIOUS
    <3>2. [s EXCEPT !.n = u] = Turned(u, d, q) /\ [Turned(u, d, q) EXCEPT !.q = v] = Turned(u, d, v)
      BY DEF Turned
    <3> QED
      BY <3>1, <3>2
  <2> HIDE DEF s
  <2>3. QuotientBit(s) = IF n >= d THEN [s EXCEPT !.n = 2 * (n - d), !.q = 2 * q + 1] ELSE [s EXCEPT !.n = 2 * n, !.q = 2 * q]
    BY <2>1 DEF QuotientBit
  <2> QED
    BY <2>2, <2>3 DEF s
<1>5. s0 \in S
  BY DEF Turned
<1> HIDE DEF S, s0
<1>6. turns[0] = s0 /\ \A j \in 0..(N - 1) : turns[j + 1] = QuotientBit(turns[j])
  <2>1. F \in [S -> S] /\ \A v \in S : F[v] = QuotientBit(v)
    BY <1>3
  <2> HIDE DEF F
  <2>2. PICK turn : Turns(turn, S, F, s0, N)
    BY <1>5, <2>1, TurnsExist
  <2>3. turn \in [0..N -> S] /\ turn[0] = s0 /\ \A j \in 1..N : turn[j] = F[turn[j - 1]]
    BY <2>2 DEF Turns
  <2>4. ASSUME NEW j \in 1..N PROVE turn[j] = QuotientBit(turn[j - 1])
    <3>1. j - 1 \in 0..N
      OBVIOUS
    <3> QED
      BY <2>1, <2>3, <3>1, Zenon
  <2>5. turn = [j \in 0..N |-> IF j = 0 THEN s0 ELSE QuotientBit(turn[j - 1])]
    BY <2>3, <2>4
  <2>6. turns = [j \in 0..N |-> IF j = 0 THEN s0 ELSE QuotientBit(turns[j - 1])]
    BY <2>5
  <2> HIDE DEF turns
  <2> QED
    BY <2>6
<1> HIDE DEF turns
<1> DEFINE Fits(s, j) == \E n \in Nat, q \in Nat :
                           /\ s = Turned(n, d, q)
                           /\ d = 0 => q = 2 ^ j - 1
                           /\ d # 0 => n < 2 * d /\ a * 2 ^ j = q * (2 * d) + n
           T == {j \in 0..N : Fits(turns[j], j)}
<1>7. 0 \in T
  <2>1. turns[0] = Turned(a, d, 0)
    BY <1>6 DEF s0
  <2>2. 0 = 2 ^ 0 - 1 /\ a * 2 ^ 0 = 0 * (2 * d) + a /\ 0 \in Nat /\ 0 \in 0..N
    BY PowerZero
  <2>3. Fits(turns[0], 0)
    BY <2>1, <2>2, Zenon
  <2> QED
    BY <2>2, <2>3
<1>8. ASSUME NEW j \in 0..(N - 1), j \in T PROVE j + 1 \in T
  <2>1. PICK n \in Nat, q \in Nat :
                           /\ turns[j] = Turned(n, d, q)
                           /\ d = 0 => q = 2 ^ j - 1
                           /\ d # 0 => n < 2 * d /\ a * 2 ^ j = q * (2 * d) + n
    BY <1>8
  <2> DEFINE p == 2 ^ j
             z == 2 ^ (j + 1)
  <2>2. p \in Nat \ {0} /\ z = 2 * p /\ j + 1 \in 0..N
    BY PowerType, PowerNext
  <2>3. turns[j + 1] = IF n >= d THEN Turned(2 * (n - d), d, 2 * q + 1) ELSE Turned(2 * n, d, 2 * q)
    BY <1>4, <1>6, <2>1
  <2>4. (d = 0 => q = p - 1) /\ (d # 0 => n < 2 * d /\ a * p = q * (2 * d) + n)
    BY <2>1
  <2> HIDE DEF p, z
  <2>5. a * z = 2 * (a * p) /\ q * (2 * d) = 2 * (q * d) /\ a * p \in Nat /\ q * d \in Nat
    BY <2>2
  <2>6. (2 * q + 1) * (2 * d) = 4 * (q * d) + 2 * d /\ (2 * q) * (2 * d) = 4 * (q * d)
    OBVIOUS
  <2>7. CASE n >= d
    <3> DEFINE u == 2 * (n - d)
               v == 2 * q + 1
    <3>1. u \in Nat /\ v \in Nat /\ turns[j + 1] = Turned(u, d, v)
      BY <2>3, <2>7
    <3>2. (d = 0 => v = z - 1) /\ (d # 0 => u < 2 * d /\ a * z = v * (2 * d) + u)
      <4>1. d = 0 => v = z - 1
        BY <2>2, <2>4
      <4>2. ASSUME d # 0 PROVE u < 2 * d /\ a * z = v * (2 * d) + u
        BY <2>4, <2>5, <2>6, <2>7, <4>2
      <4> QED
        BY <4>1, <4>2
    <3> HIDE DEF u, v
    <3>3. Fits(turns[j + 1], j + 1)
      BY <3>1, <3>2 DEF z
    <3> QED
      BY <2>2, <3>3
  <2>8. CASE ~(n >= d)
    <3> DEFINE u == 2 * n
               v == 2 * q
    <3>1. u \in Nat /\ v \in Nat /\ turns[j + 1] = Turned(u, d, v)
      BY <2>3, <2>8
    <3>2. (d = 0 => v = z - 1) /\ (d # 0 => u < 2 * d /\ a * z = v * (2 * d) + u)
      <4>1. d # 0
        BY <2>8
      <4>2. u < 2 * d
        BY <2>8
      <4>3. a * z = v * (2 * d) + u
        BY <2>4, <2>5, <2>6, <4>1
      <4> QED
        BY <4>1, <4>2, <4>3
    <3> HIDE DEF u, v
    <3>3. Fits(turns[j + 1], j + 1)
      BY <3>1, <3>2 DEF z
    <3> QED
      BY <2>2, <3>3
  <2> QED
    BY <2>7, <2>8
<1>9. \A j \in 0..N : j \in T
  <2> HIDE DEF T
  <2> QED
    BY <1>7, <1>8, UpTo
<1>10. PICK n \in Nat, q \in Nat :
                           /\ turns[N] = Turned(n, d, q)
                           /\ d = 0 => q = 2 ^ N - 1
                           /\ d # 0 => n < 2 * d /\ a * 2 ^ N = q * (2 * d) + n
  <2>1. N \in T
    BY <1>9
  <2> QED
    BY <2>1
<1>11. QuotientOf(a, d, N) = q
  BY <1>2, <1>10 DEF s0, Turned, QuotientOf
<1> QED
  BY <1>10, <1>11

-----------------------------------------------------------------------------
(* The quotient of two mantissas is a mantissa, one place down or none.     *)
Scale(a, b) == IF a >= b THEN MAN - 1 ELSE MAN
Unit(o) == IF o THEN 1 ELSE 0
Divides(a, b, m, o) == \E rest \in 0..(b - 1) : 2 * (a * 2 ^ Scale(a, b)) = (2 * m + Unit(o)) * b + rest

(* A quotient with room for one bit more than a mantissa.                   *)
LEMMA QuotientReduced ==
  ASSUME NEW a \in Top..(2 * Top - 1), NEW b \in Top..(2 * Top - 1),
         NEW q \in Nat, NEW n \in Nat, n < 2 * b, a * 2 ^ (MAN + BYTE - 2) = q * (2 * b) + n
  PROVE  \E m \in Top..(2 * Top - 1), o \in BOOLEAN :
           Reduced(q) = Tri(m, MAN + BYTE - 3 - Scale(a, b), o) /\ Divides(a, b, m, o)
<1> DEFINE k == Scale(a, b)
           K == MAN + BYTE - 3 - k
           A == a * 2 ^ k
           c == 2 ^ (K - 1)
           m == q \div 2 ^ K
           h == q \div c
           o == h % 2 = 1
           i == h % 2
           x == A * (2 * c)
           s == n \div 2
<1>1. /\ Top \in Nat \ {0} /\ 2 ^ MAN = 2 * Top /\ MAN \in Nat /\ BYTE \in Nat /\ BYTE >= 4 /\ MAN = 3 * BYTE
      /\ MAN - 1 \in Nat /\ 2 ^ (MAN - 1) = Top
  BY FloatWidths DEF Top
<1>16. k = IF a >= b THEN MAN - 1 ELSE MAN
  BY DEF Scale
<1> HIDE DEF k
<1>2. /\ k \in Nat /\ K \in 0..MAN /\ K - 1 \in Nat /\ K \in Nat /\ K # 0 /\ (K - 1) + 1 = K
      /\ MAN + BYTE - 2 = (k + K) + 1 /\ k + K \in Nat
  BY <1>1, <1>16
<1>3. 2 ^ K = 2 * c /\ c \in Nat \ {0} /\ 2 ^ (MAN + BYTE - 2) = 2 * (2 ^ k * (2 * c)) /\ 2 ^ k \in Nat \ {0}
  <2>1. 2 ^ K = 2 * c /\ c \in Nat \ {0}
    <3>1. 2 ^ ((K - 1) + 1) = 2 * 2 ^ (K - 1) /\ 2 ^ (K - 1) \in Nat \ {0}
      BY <1>2, PowerNext, PowerType
    <3> QED
      BY <1>2, <3>1
  <2>2. 2 ^ ((k + K) + 1) = 2 * 2 ^ (k + K) /\ 2 ^ (k + K) = 2 ^ k * 2 ^ K /\ 2 ^ k \in Nat \ {0}
    <3> HIDE DEF K
    <3> QED
      BY <1>2, PowerNext, PowerSum, PowerType
  <2> HIDE DEF K, c
  <2> QED
    BY <1>2, <2>1, <2>2
<1>4. A \in Nat /\ Top * b <= A /\ A < (2 * Top) * b
  <2>1. CASE a >= b
    <3>1. A = a * Top
      BY <1>1, <1>16, <2>1
    <3>2. (a - b) * Top >= 0 /\ (2 * b - a) * Top > 0
      <4>1. a - b >= 0 /\ 2 * b - a > 0 /\ a - b \in Int /\ 2 * b - a \in Int
        BY <1>1, <2>1
      <4> DEFINE u == a - b
                 v == 2 * b - a
      <4> HIDE DEF u, v
      <4>2. u * Top >= 0 /\ v * Top > 0
        BY <1>1, <4>1 DEF u, v
      <4> QED
        BY <4>2 DEF u, v
    <3>3. (a - b) * Top = a * Top - b * Top /\ (2 * b - a) * Top = 2 * (b * Top) - a * Top /\ Top * b = b * Top /\ (2 * Top) * b = 2 * (b * Top)
      BY <1>1
    <3>4. a * Top \in Nat /\ b * Top \in Nat
      BY <1>1
    <3> HIDE DEF A
    <3> QED
      BY <3>1, <3>2, <3>3, <3>4
  <2>2. CASE ~(a >= b)
    <3>1. A = a * (2 * Top)
      BY <1>1, <1>16, <2>2
    <3>2. (b - a) * Top > 0 /\ (2 * a - b) * Top >= 0
      <4>1. b - a > 0 /\ 2 * a - b >= 0 /\ b - a \in Int /\ 2 * a - b \in Int
        BY <1>1, <2>2
      <4> DEFINE u == b - a
                 v == 2 * a - b
      <4> HIDE DEF u, v
      <4>2. u * Top > 0 /\ v * Top >= 0
        BY <1>1, <4>1 DEF u, v
      <4> QED
        BY <4>2 DEF u, v
    <3>3. (b - a) * Top = b * Top - a * Top /\ (2 * a - b) * Top = 2 * (a * Top) - b * Top /\ Top * b = b * Top
          /\ (2 * Top) * b = 2 * (b * Top) /\ a * (2 * Top) = 2 * (a * Top)
      BY <1>1
    <3>4. a * Top \in Nat /\ b * Top \in Nat
      BY <1>1
    <3> HIDE DEF A
    <3> QED
      BY <3>1, <3>2, <3>3, <3>4
  <2> QED
    BY <2>1, <2>2
<1>5. a \in Nat /\ b \in Nat \ {0}
  BY <1>1
<1>6. 2 * x = q * (2 * b) + n
  <2> DEFINE p == 2 ^ k
  <2>1. p \in Nat /\ a * (2 * (p * (2 * c))) = 2 * ((a * p) * (2 * c))
    <3> HIDE DEF p, c
    <3> QED
      BY <1>3, <1>5 DEF p
  <2> HIDE DEF c, p
  <2>2. A = a * p
    BY DEF p
  <2> QED
    BY <1>3, <2>1, <2>2 DEF p
<1> HIDE DEF c, A, K
<1>7. x = q * b + s /\ s \in 0..(b - 1) /\ x \in Nat
  <2>1. x \in Nat /\ q * (2 * b) = 2 * (q * b) /\ q * b \in Nat
    BY <1>3, <1>4, <1>5
  <2> HIDE DEF x
  <2> QED
    BY <1>5, <1>6, <2>1
<1> HIDE DEF x, s
<1>8. q = x \div b
  BY <1>5, <1>7, DivModUnique
<1>9. q \in (Top * (2 * c))..((2 * Top) * (2 * c) - 1)
  <2> DEFINE lo == Top * (2 * c)
             hi == (2 * Top) * (2 * c)
  <2>1. lo * b = (Top * b) * (2 * c) /\ hi * b = ((2 * Top) * b) * (2 * c) /\ lo \in Nat /\ hi \in Nat
    BY <1>1, <1>3, <1>5
  <2>2. (Top * b) * (2 * c) <= x /\ x < ((2 * Top) * b) * (2 * c)
    <3> DEFINE u == Top * b
               v == (2 * Top) * b
               d == 2 * c
    <3>1. u \in Nat /\ v \in Nat /\ u <= A /\ A < v /\ A \in Nat /\ d \in Nat \ {0} /\ x = A * d
      BY <1>1, <1>3, <1>4, <1>5 DEF x
    <3> HIDE DEF u, v, d
    <3>2. (A - u) * d >= 0 /\ (v - A) * d > 0
      <4> DEFINE f == A - u
                 g == v - A
      <4>1. f \in Nat /\ g \in Nat \ {0}
        BY <3>1
      <4> HIDE DEF f, g
      <4>2. f * d >= 0 /\ g * d > 0
        BY <3>1, <4>1
      <4> QED
        BY <4>2 DEF f, g
    <3>3. (A - u) * d = A * d - u * d /\ (v - A) * d = v * d - A * d /\ A * d \in Nat /\ u * d \in Nat /\ v * d \in Nat
      BY <3>1
    <3>4. u * d <= x /\ x < v * d
      BY <3>1, <3>2, <3>3
    <3> QED
      BY <3>4 DEF u, v, d
  <2> HIDE DEF lo, hi
  <2>3. x \div b \in lo..(hi - 1)
    BY <1>5, <1>7, <2>1, <2>2, QuotientRange
  <2> QED
    BY <1>8, <2>3 DEF lo, hi
<1>10. Reduced(q) = Tri(m, K, o) /\ m \in Top..(2 * Top - 1)
  <2>1. Top * 2 ^ K <= q /\ q < (2 * Top) * 2 ^ K
    <3>1. Top * (2 * c) \in Int /\ (2 * Top) * (2 * c) \in Int
      BY <1>1, <1>3
    <3> QED
      BY <1>3, <1>9, <3>1
  <2>2. /\ Reduced(q) = Tri(q \div 2 ^ K, K, LastOut(q, K))
        /\ q \div 2 ^ K \in 0..(2 * Top - 1) /\ (K # 0 => q \div 2 ^ K >= Top)
    BY <1>2, <2>1, ReducedIs
  <2>3. LastOut(q, K) = o
    <3>1. K > 0
      BY <1>2
    <3> QED
      BY <3>1 DEF LastOut, c
  <2> HIDE DEF o
  <2>4. m \in Top..(2 * Top - 1)
    BY <1>1, <1>2, <2>2
  <2> QED
    BY <2>2, <2>3, <2>4
<1>11. h = 2 * m + i /\ i \in {0, 1} /\ h \in Int
  <2>1. (q \div c) \div 2 = q \div (2 * c)
    BY <1>3, HalvedQuotient
  <2>2. h \div 2 = m
    BY <1>3, <2>1
  <2>3. h \in Int
    BY <1>3, DivMod
  <2> HIDE DEF m, h
  <2>4. h = (h \div 2) * 2 + (h % 2) /\ h % 2 \in 0..(2 - 1) /\ h \div 2 \in Int
    <3>1. 2 \in Nat \ {0}
      OBVIOUS
    <3> QED
      BY <2>3, <3>1, DivMod, Zenon
  <2> HIDE DEF i
  <2>5. i \in 0..(2 - 1) /\ h = m * 2 + i /\ m \in Int
    BY <2>2, <2>4 DEF i
  <2> QED
    BY <2>3, <2>5
<1> DEFINE rest == 2 * A - h * b
<1>12. rest \in 0..(b - 1)
  <2> DEFINE r == q % c
  <2>1. q = h * c + r /\ r \in 0..(c - 1)
    <3>1. q \in Int
      OBVIOUS
    <3> QED
      BY <1>3, <3>1, DivMod, Zenon
  <2> HIDE DEF h, r
  <2>2. (2 * A - h * b) * c = r * b + s
    <3>1. x = 2 * (A * c) /\ q * b = (h * b) * c + r * b /\ (2 * A - h * b) * c = 2 * (A * c) - (h * b) * c
      <4>1. x = 2 * (A * c)
        BY <1>3, <1>4 DEF x
      <4>2. q * b = (h * b) * c + r * b
        BY <1>3, <1>5, <1>11, <2>1
      <4>3. (2 * A - h * b) * c = 2 * (A * c) - (h * b) * c
        BY <1>3, <1>4, <1>5, <1>11
      <4> QED
        BY <4>1, <4>2, <4>3
    <3>2. A * c \in Int /\ (h * b) * c \in Int /\ r * b \in Int /\ s \in Int
      BY <1>3, <1>4, <1>5, <1>7, <1>11, <2>1
    <3> DEFINE t == (2 * A - h * b) * c
               u == A * c
               v == (h * b) * c
               w == r * b
    <3>3. t = 2 * u - v /\ x = 2 * u /\ x = (v + w) + s
      BY <1>7, <3>1
    <3> HIDE DEF t, u, v, w
    <3>4. t = w + s
      BY <3>2, <3>3 DEF u, v, w
    <3> QED
      BY <3>4 DEF t, w
  <2> DEFINE z == 2 * A - h * b
  <2>3. z \in Int
    BY <1>4, <1>5, <1>11
  <2> HIDE DEF z
  <2>4. 0 <= r * b + s /\ r * b + s < c * b
    <3>1. (c - 1 - r) * b >= 0 /\ (c - 1 - r) * b = c * b - b - r * b /\ r * b >= 0
      <4> DEFINE g == c - 1 - r
      <4>1. g \in Nat
        BY <1>3, <2>1
      <4>2. r \in Nat
        BY <1>3, <2>1
      <4>3. g * b = c * b - b - r * b
        BY <1>3, <1>5, <4>2
      <4> HIDE DEF g
      <4>4. g * b >= 0 /\ r * b >= 0
        BY <1>5, <4>1, <4>2
      <4> QED
        BY <4>3, <4>4 DEF g
    <3>2. c * b \in Int /\ r * b \in Int
      BY <1>3, <1>5, <2>1
    <3> QED
      BY <1>5, <1>7, <3>1, <3>2
  <2>5. z * c = r * b + s
    BY <2>2 DEF z
  <2>6. z >= 0
    <3> SUFFICES ASSUME z <= -1 PROVE FALSE
      BY <2>3
    <3>1. (-1 - z) * c >= 0 /\ (-1 - z) * c = -c - z * c
      <4> DEFINE g == -1 - z
      <4>1. g \in Nat
        BY <2>3
      <4>2. g * c = -c - z * c
        BY <1>3, <2>3
      <4> HIDE DEF g
      <4>3. g * c >= 0
        BY <1>3, <4>1
      <4> QED
        BY <4>2, <4>3 DEF g
    <3>2. z * c \in Int
      BY <1>3, <2>3
    <3> QED
      BY <1>3, <2>4, <2>5, <3>1, <3>2
  <2>7. z < b
    <3> SUFFICES ASSUME z >= b PROVE FALSE
      BY <1>5, <2>3
    <3>1. (z - b) * c >= 0 /\ (z - b) * c = z * c - c * b
      <4> DEFINE g == z - b
      <4>1. g \in Nat
        BY <1>5, <2>3
      <4>2. g * c = z * c - c * b
        BY <1>3, <1>5, <2>3
      <4> HIDE DEF g
      <4>3. g * c >= 0
        BY <1>3, <4>1
      <4> QED
        BY <4>2, <4>3 DEF g
    <3>2. z * c \in Int /\ c * b \in Int
      BY <1>3, <1>5, <2>3
    <3> QED
      BY <2>4, <2>5, <3>1, <3>2
  <2>8. z \in 0..(b - 1)
    BY <1>5, <2>3, <2>6, <2>7
  <2> QED
    BY <2>8 DEF z
<1>13. 2 * A = h * b + rest
  BY <1>4, <1>5, <1>11
<1>14. i = IF o THEN 1 ELSE 0
  BY <1>11
<1> HIDE DEF rest, h, m, i
<1>15. 2 * A = (2 * m + (IF o THEN 1 ELSE 0)) * b + rest
  BY <1>11, <1>13, <1>14
<1>17. Divides(a, b, m, o)
  BY <1>12, <1>15 DEF Divides, Unit, A, k
<1>18. o \in BOOLEAN
  OBVIOUS
<1> HIDE DEF o
<1> QED
  BY <1>10, <1>18, <1>17, Zenon DEF K, k

-----------------------------------------------------------------------------
(* Quotients are within half a unit of their last place.                    *)
LEMMA NormRounded ==
  ASSUME NEW n \in BOOLEAN, NEW e \in Int, NEW m \in 0..(2 * Top - 1), NEW o \in BOOLEAN
  PROVE  Normal(Norm(IF o THEN Round(Num(n, e, m)) ELSE Num(n, e, m)))
<1>1. CASE o
  <2>1. PICK k \in BOOLEAN, f \in Int, v \in 1..(2 * Top - 1) :
            Round(Num(n, e, m)) = Num(k, f, v) /\ (m >= Top => v >= Top)
    BY RoundNormal
  <2>2. v \in 0..(2 * Top - 1)
    BY FloatWidths
  <2> QED
    BY <1>1, <2>1, <2>2, NormNormal
<1>2. CASE ~o
  BY <1>2, NormNormal
<1> QED
  BY <1>1, <1>2

LEMMA DivisionByZero ==
  ASSUME NEW q, q = 2 ^ (MAN + BYTE - 2) - 1
  PROVE  \E m \in 0..(2 * Top - 1), o \in BOOLEAN, k \in 0..MAN : Reduced(q) = Tri(m, k, o)
<1> DEFINE K == BYTE - 2
           c == 2 ^ K
<1>1. Top \in Nat \ {0} /\ 2 ^ MAN = 2 * Top /\ MAN \in Nat /\ BYTE \in Nat /\ BYTE >= 4 /\ MAN = 3 * BYTE
  BY FloatWidths
<1>2. K \in 0..MAN /\ MAN + BYTE - 2 = MAN + K /\ K \in Nat
  BY <1>1
<1>3. 2 ^ (MAN + K) = (2 * Top) * c /\ c \in Nat \ {0}
  <2> HIDE DEF K
  <2> QED
    BY <1>1, <1>2, PowerSum, PowerType
<1> HIDE DEF K, c
<1>4. q \in Nat /\ Top * c <= q /\ q < (2 * Top) * c
  <2>1. Top * c \in Nat \ {0} /\ (2 * Top) * c = 2 * (Top * c)
    BY <1>1, <1>3
  <2> QED
    BY <1>2, <1>3, <2>1
<1>5. /\ Reduced(q) = Tri(q \div 2 ^ K, K, LastOut(q, K))
      /\ q \div 2 ^ K \in 0..(2 * Top - 1)
  BY <1>2, <1>4, ReducedIs DEF c
<1>6. LastOut(q, K) \in BOOLEAN
  BY DEF LastOut
<1> QED
  BY <1>2, <1>5, <1>6

LEMMA DivisionOfZero == Reduced(0) = Tri(0, 0, FALSE)
<1>1. Top \in Nat \ {0} /\ MAN \in Nat /\ 2 ^ 0 = 1
  BY FloatWidths, PowerZero
<1>2. 0 \in Nat /\ 0 \in 0..MAN /\ 0 < (2 * Top) * 2 ^ 0
  BY <1>1
<1>3. Reduced(0) = Tri(0 \div 2 ^ 0, 0, LastOut(0, 0))
  BY <1>2, ReducedIs
<1>4. 0 \div 2 ^ 0 = 0 /\ LastOut(0, 0) = FALSE
  BY <1>1 DEF LastOut
<1> QED
  BY <1>3, <1>4

(* What the division leaves: its mantissa, the places, and the bit after it.*)
LEMMA QuotientParts ==
  ASSUME NEW a \in 0..(2 * Top - 1), NEW b \in 0..(2 * Top - 1), a # 0 => a >= Top, b # 0 => b >= Top
  PROVE  \E m \in 0..(2 * Top - 1), o \in BOOLEAN, K \in 0..MAN :
           /\ Reduced(QuotientOf(a, b, MAN + BYTE - 2)) = Tri(m, K, o)
           /\ b # 0 /\ a = 0 => m = 0 /\ K = 0 /\ ~o
           /\ b # 0 /\ a # 0 => m >= Top /\ K = MAN + BYTE - 3 - Scale(a, b) /\ Divides(a, b, m, o)
<1> DEFINE N == MAN + BYTE - 2
           q == QuotientOf(a, b, N)
<1>1. /\ Top \in Nat \ {0} /\ MAN \in Nat /\ BYTE \in Nat /\ BYTE >= 4 /\ MAN = 3 * BYTE /\ N \in Nat
      /\ a \in Nat /\ b \in Nat /\ Scale(a, b) \in {MAN - 1, MAN}
  BY FloatWidths DEF Scale
<1>2. b # 0 => a < 2 * b
  BY <1>1
<1>3. PICK n \in Nat, p \in Nat :
           /\ QuotientOf(a, b, N) = p
           /\ b = 0 => p = 2 ^ N - 1
           /\ b # 0 => n < 2 * b /\ a * 2 ^ N = p * (2 * b) + n
  <2> HIDE DEF N
  <2>1. a \in Nat /\ b \in Nat /\ N \in Nat
    BY <1>1
  <2> QED
    BY <1>2, <2>1, QuotientTurns, Zenon
<1>4. q \in Nat /\ (b = 0 => q = 2 ^ N - 1) /\ (b # 0 => n < 2 * b /\ a * 2 ^ N = q * (2 * b) + n)
  BY <1>3
<1>5. CASE b = 0
  <2>1. q = 2 ^ (MAN + BYTE - 2) - 1
    BY <1>4, <1>5
  <2> HIDE DEF q
  <2>2. \E m \in 0..(2 * Top - 1), o \in BOOLEAN, k \in 0..MAN : Reduced(q) = Tri(m, k, o)
    BY <2>1, DivisionByZero, Zenon
  <2> QED
    BY <1>5, <2>2 DEF q
<1>6. CASE b # 0 /\ a = 0
  <2>1. q = 0
    <3>1. 2 ^ N \in Nat
      BY <1>1, PowerType
    <3> DEFINE z == 2 ^ N
    <3>2. z \in Nat /\ a * z = q * (2 * b) + n
      BY <1>4, <1>6, <3>1
    <3> HIDE DEF z, N, q
    <3>3. a * z = 0
      BY <1>6, <3>2
    <3>4. q * (2 * b) >= 0 /\ (q # 0 => q * (2 * b) > 0)
      BY <1>1, <1>4, <1>6
    <3>5. q * (2 * b) \in Nat
      BY <1>1, <1>4
    <3> QED
      BY <3>2, <3>3, <3>4, <3>5
  <2>2. 0 \in 0..(2 * Top - 1) /\ FALSE \in BOOLEAN /\ 0 \in 0..MAN
    BY <1>1
  <2>3. Reduced(q) = Tri(0, 0, FALSE)
    BY <2>1, DivisionOfZero, Zenon
  <2> HIDE DEF q
  <2> QED
    BY <1>6, <2>2, <2>3 DEF q
<1>7. CASE b # 0 /\ a # 0
  <2>1. a \in Top..(2 * Top - 1)
    BY <1>1, <1>7
  <2>2. b \in Top..(2 * Top - 1)
    BY <1>1, <1>7
  <2>3. a * 2 ^ (MAN + BYTE - 2) = q * (2 * b) + n
    BY <1>4, <1>7
  <2>4. n < 2 * b
    BY <1>4, <1>7
  <2>5. q \in Nat
    BY <1>4
  <2> HIDE DEF q, N
  <2>6. PICK m \in Top..(2 * Top - 1), o \in BOOLEAN :
           Reduced(q) = Tri(m, MAN + BYTE - 3 - Scale(a, b), o) /\ Divides(a, b, m, o)
    BY <2>1, <2>2, <2>3, <2>4, <2>5, QuotientReduced, Zenon
  <2> DEFINE K == MAN + BYTE - 3 - Scale(a, b)
  <2>7. m \in 0..(2 * Top - 1) /\ m >= Top /\ K \in 0..MAN
    BY <1>1
  <2> HIDE DEF K
  <2> QED
    BY <1>7, <2>6, <2>7, Zenon DEF K, q, N
<1> QED
  BY <1>5, <1>6, <1>7

LEMMA QuotientsRight ==
  ASSUME NEW x \in FLOATs, NEW y \in FLOATs
  PROVE  Normal(FlDiv(x, y)) /\ QuotientRight(FlDiv(x, y), x, y)
<1> DEFINE a == x.man
           b == y.man
           k == Scale(a, b)
           e == x.exp - y.exp + BIAS + MAN - k
           n == x.neg # y.neg
           r == FlDiv(x, y)
           q == QuotientOf(a, b, MAN + BYTE - 2)
<1>1. /\ x.neg \in BOOLEAN /\ x.exp \in 0..(2 * BIAS - 1) /\ x.exp \in Nat
      /\ a \in 0..(2 * Top - 1) /\ (a # 0 => a >= Top) /\ a \in Nat
      /\ y.neg \in BOOLEAN /\ y.exp \in 0..(2 * BIAS - 1) /\ y.exp \in Nat
      /\ b \in 0..(2 * Top - 1) /\ (b # 0 => b >= Top) /\ b \in Nat
  BY FloatForm, Zenon
<1>2. /\ Top \in Nat \ {0} /\ BIAS \in Nat /\ BIAS > 2 /\ 2 ^ EXP = 2 * BIAS /\ MAN \in Nat /\ BYTE \in Nat
      /\ n \in BOOLEAN /\ k \in {MAN - 1, MAN} /\ MAN - 1 \in Nat
  BY FloatWidths DEF Scale
<1>3. PICK m \in 0..(2 * Top - 1), o \in BOOLEAN, K \in 0..MAN :
           /\ Reduced(q) = Tri(m, K, o)
           /\ b # 0 /\ a = 0 => m = 0 /\ K = 0 /\ ~o
           /\ b # 0 /\ a # 0 => m >= Top /\ K = MAN + BYTE - 3 - Scale(a, b) /\ Divides(a, b, m, o)
  <2> HIDE DEF a, b
  <2>1. a # 0 => a >= Top
    BY <1>1, Zenon
  <2>2. b # 0 => b >= Top
    BY <1>1, Zenon
  <2>3. a \in 0..(2 * Top - 1) /\ b \in 0..(2 * Top - 1)
    BY <1>1, Zenon
  <2> QED
    BY <2>1, <2>2, <2>3, QuotientParts, Zenon
<1> DEFINE s == Reduced(q)
           f == (x.exp - y.exp + BIAS + 1 - (BYTE - 2) + s.k) % 2 ^ (EXP + 1)
           w == WithByte(n, f, m)
<1>4. s.man = m /\ s.k = K /\ s.out = o
  BY <1>3 DEF Tri
<1>5. r = Norm(IF o THEN Round(w) ELSE w)
  <2>1. r = Norm(IF s.out THEN Round(WithByte(n, f, s.man)) ELSE WithByte(n, f, s.man))
    BY DEF FlDiv, Turned, QuotientOf
  <2> HIDE DEF r, s, n, f
  <2> QED
    BY <1>4, <2>1, Zenon
<1> HIDE DEF q, r, s
<1>6. f \in Int
  <2> DEFINE u == x.exp - y.exp + BIAS + 1 - (BYTE - 2) + s.k
             d == 2 ^ (EXP + 1)
  <2>1. u \in Int /\ d \in Nat \ {0}
    <3>1. d = 4 * BIAS
      BY FloatWidths
    <3> QED
      BY <1>1, <1>2, <1>4, <3>1
  <2> HIDE DEF u, d
  <2>2. u % d \in Int
    BY <2>1, DivMod
  <2> QED
    BY <2>2 DEF u, d
<1>7. PICK n2 \in BOOLEAN, e2 \in Int : w = Num(n2, e2, m)
  <2> DEFINE n2 == n \/ f >= 2 * BIAS
             e2 == f % (2 * BIAS)
  <2> HIDE DEF f
  <2>1. w = Num(n2, e2, m) /\ e2 \in Int
    <3>1. WithByte(n, f, m) = Num(n \/ f >= 2 * BIAS, f % (2 * BIAS), m) /\ f % (2 * BIAS) \in 0..(2 * BIAS - 1)
      BY <1>2, <1>6, WithByteIs, Zenon
    <3>2. \A i \in 0..(2 * BIAS - 1) : i \in Int
      OBVIOUS
    <3> QED
      BY <3>1, <3>2, Zenon
  <2> HIDE DEF e2, w
  <2> QED
    BY <1>2, <2>1
<1>8. Normal(r)
  <2> HIDE DEF w
  <2>1. Normal(Norm(IF o THEN Round(Num(n2, e2, m)) ELSE Num(n2, e2, m)))
    BY <1>3, <1>7, NormRounded
  <2> QED
    BY <1>5, <1>7, <2>1, Zenon
<1>9. ASSUME y.man # 0, e \in 0..(2 * BIAS - 2), x.man = 0 PROVE r = Zero
  <2> HIDE DEF w, f, k, e
  <2>1. m = 0 /\ ~o
    BY <1>3, <1>9
  <2>2. 0 \in 0..(2 ^ MAN - 1)
    BY FloatWidths
  <2>3. Norm(Num(n2, e2, 0)) = Zero
    BY <1>7, <2>2, NormIs
  <2> QED
    BY <1>5, <1>7, <2>1, <2>3
<1>10. ASSUME y.man # 0, e \in 0..(2 * BIAS - 2), x.man # 0
       PROVE  r.neg = n /\ 2 * Magnitude(r.man * y.man * 2 ^ (r.exp - e) - x.man * 2 ^ k) <= y.man
  <2> HIDE DEF w
  <2>1. m \in Top..(2 * Top - 1) /\ K = MAN + BYTE - 3 - k
    BY <1>2, <1>3, <1>10
  <2>2. PICK rest \in 0..(b - 1) : 2 * (a * 2 ^ k) = (2 * m + (IF o THEN 1 ELSE 0)) * b + rest
    BY <1>3, <1>10 DEF Divides, Unit
  <2>3. f = e
    <3>1. k \in Int /\ K \in Int /\ e \in Int
      BY <1>1, <1>2
    <3> HIDE DEF k, e
    <3>2. x.exp - y.exp + BIAS + 1 - (BYTE - 2) + s.k = e
      <4> HIDE DEF a, b
      <4> QED
        BY <1>1, <1>2, <1>4, <2>1, <3>1 DEF e
    <3>3. e \in (-2 * BIAS)..(4 * BIAS - 1) /\ e \in 0..(2 * BIAS - 1)
      BY <1>2, <1>10
    <3>4. e % 2 ^ (EXP + 1) = e
      BY <3>3, ExponentInRegister
    <3> QED
      BY <3>2, <3>4
  <2>4. w = Num(n, e, m)
    <3>1. e \in 0..(2 * BIAS - 1) /\ e \in Int
      BY <1>2, <1>10
    <3> HIDE DEF e, f, n
    <3> QED
      BY <1>2, <2>3, <3>1, WithByteIs DEF w
  <2> DEFINE v == IF o THEN Round(Num(n, e, m)) ELSE Num(n, e, m)
  <2> HIDE DEF e, n, k, f
  <2>5. /\ v.neg = n /\ v.exp \in e..(e + 1) /\ v.man \in Top..(2 * Top - 1)
        /\ v.man * 2 ^ (v.exp - e) = m + (IF o THEN 1 ELSE 0)
        /\ v = Num(n, v.exp, v.man)
    <3>1. v = IF o THEN Round(Num(n, e, m)) ELSE Num(n, e, m)
      OBVIOUS
    <3> HIDE DEF v
    <3> QED
      BY <1>2, <1>10, <2>1, <3>1, RoundedNear
  <2> HIDE DEF v
  <2>6. r = v
    <3>1. r = Norm(v)
      BY <1>5, <2>4 DEF v
    <3>2. v.exp \in Nat
      BY <1>2, <1>10, <2>5
    <3>3. Norm(Num(n, v.exp, v.man)) = Num(n, v.exp, v.man)
      BY <1>2, <2>5, <3>2, NormStays
    <3> QED
      BY <2>5, <3>1, <3>3
  <2> DEFINE i == IF o THEN 1 ELSE 0
             A == a * 2 ^ k
             p == 2 ^ (r.exp - e)
             c == r.man
  <2>7. i \in {0, 1} /\ m \in Nat /\ b \in Nat \ {0}
    BY <1>1, <1>2, <1>10, <2>1
  <2>8. 2 * A = (2 * m + i) * b + rest /\ c * p = m + i
    BY <2>2, <2>5, <2>6
  <2>9. A \in Nat /\ p \in Nat /\ c \in Nat
    <3>1. k \in Nat
      BY <1>2
    <3>2. 2 ^ k \in Nat
      BY <3>1, PowerType
    <3>3. r.exp - e \in Nat /\ c \in Nat
      BY <1>2, <1>10, <2>5, <2>6
    <3>4. p \in Nat
      BY <3>3, PowerType
    <3> QED
      BY <1>1, <3>2, <3>3, <3>4
  <2> HIDE DEF i, A, p, c, a, b
  <2>10. (c * b) * p = (m + i) * b
    BY <2>7, <2>8, <2>9
  <2>11. 2 * Magnitude((m + i) * b - A) <= b
    <3>1. (2 * m + i) * b = 2 * (m * b) + i * b /\ (m + i) * b = m * b + i * b
      BY <2>7
    <3>2. i * b \in {0, b} /\ m * b \in Nat
      BY <2>7
    <3> DEFINE u == i * b
               g == m * b
    <3> HIDE DEF u, g
    <3>3. 2 * A = (2 * g + u) + rest /\ (m + i) * b = g + u
      BY <2>8, <3>1 DEF u, g
    <3>4. u \in {0, b} /\ g \in Nat
      BY <3>2 DEF u, g
    <3> DEFINE t == (m + i) * b
    <3> HIDE DEF t
    <3>5. t = g + u
      BY <3>3 DEF t
    <3>6. 2 * Magnitude(t - A) <= b
      BY <2>7, <2>9, <3>3, <3>4, <3>5 DEF Magnitude
    <3> QED
      BY <3>6 DEF t
  <2>12. r.neg = n
    BY <2>5, <2>6
  <2> QED
    BY <2>10, <2>11, <2>12 DEF A, p, c, a, b
<1>11. QuotientRight(r, x, y) = ((y.man # 0 /\ e \in 0..(2 ^ EXP - 2)) =>
          IF x.man = 0 THEN r = Zero
          ELSE r.neg = n /\ 2 * Magnitude(r.man * y.man * 2 ^ (r.exp - e) - x.man * 2 ^ k) <= y.man)
  BY Zenon DEF QuotientRight, Scale
<1>12. QuotientRight(r, x, y)
  <2> HIDE DEF e, k, n, w, f
  <2>1. 2 ^ EXP - 2 = 2 * BIAS - 2
    BY <1>2
  <2> QED
    BY <1>9, <1>10, <1>11, <2>1, Zenon
<1> QED
  BY <1>8, <1>12, Zenon DEF r

-----------------------------------------------------------------------------
(* Rounded or not, the value is the mantissa and the bit.                   *)
LEMMA RoundedValue ==
  ASSUME NEW n \in BOOLEAN, NEW e \in 0..(2 * BIAS - 2), NEW m \in 0..(2 * Top - 1), NEW o \in BOOLEAN
  PROVE  \E f \in e..(e + 1), c \in 0..(2 * Top - 1) :
            /\ (IF o THEN Round(Num(n, e, m)) ELSE Num(n, e, m)) = Num(n, f, c)
            /\ c * 2 ^ (f - e) = m + Unit(o)
<1>1. Top \in Nat \ {0} /\ BIAS \in Nat \ {0} /\ e \in Int /\ m \in Nat /\ e - e = 0 /\ e \in e..(e + 1) /\ e + 1 \in e..(e + 1)
  BY FloatWidths
<1>2. CASE ~o
  <2>1. m * 2 ^ (e - e) = m + Unit(o)
    BY <1>1, <1>2, PowerZero DEF Unit
  <2> QED
    BY <1>1, <1>2, <2>1, Zenon
<1>3. CASE o /\ m + 1 < 2 * Top
  <2>1. Round(Num(n, e, m)) = Num(n, e, m + 1)
    BY <1>1, <1>3, RoundIs
  <2>2. (m + 1) * 2 ^ (e - e) = m + Unit(o) /\ m + 1 \in 0..(2 * Top - 1)
    BY <1>1, <1>3, PowerZero DEF Unit
  <2> QED
    BY <1>1, <1>3, <2>1, <2>2, Zenon
<1>4. CASE o /\ ~(m + 1 < 2 * Top)
  <2>1. e + 1 \in 0..(2 * BIAS - 1) /\ e + 1 \in Int /\ Top \in 0..(2 * Top - 1) /\ m = 2 * Top - 1
    BY <1>1, <1>4
  <2>2. Round(Num(n, e, m)) = Num(n, e + 1, Top)
    <3>1. Round(Num(n, e, m)) = WithByte(n, e + 1, Top)
      BY <1>1, <1>4, RoundIs
    <3>2. WithByte(n, e + 1, Top) = Num(n, e + 1, Top)
      BY <2>1, WithByteIs
    <3> QED
      BY <3>1, <3>2
  <2>3. Top * 2 ^ ((e + 1) - e) = m + Unit(o)
    <3>1. (e + 1) - e = 1 /\ 2 ^ 1 = 2
      BY <1>1, PowerZero
    <3> QED
      BY <1>1, <1>4, <2>1, <3>1 DEF Unit
  <2> QED
    BY <1>1, <1>4, <2>1, <2>2, <2>3, Zenon
<1> QED
  BY <1>2, <1>3, <1>4

-----------------------------------------------------------------------------
(* The sum of two mantissas, half of it, and what becomes of it.            *)
Halved(s, E) == WithByte(s \div 2 < 0, E + 1, 0)
Lifted(s, E) == [Halved(s, E) EXCEPT !.man = (IF Halved(s, E).neg THEN -(s \div 2) ELSE s \div 2) % 2 ^ MAN]
Summed(s, E) == Norm(IF s % 2 = 1 THEN Round(Lifted(s, E)) ELSE Lifted(s, E))

LEMMA LiftedIs ==
  ASSUME NEW s \in Int, NEW E \in Nat
  PROVE  /\ \E n \in BOOLEAN, f \in Int, m \in 0..(2 * Top - 1) : Lifted(s, E) = Num(n, f, m)
         /\ E + 1 < 2 * BIAS /\ Magnitude(s \div 2) < 2 * Top =>
              Lifted(s, E) = Num(s \div 2 < 0, E + 1, Magnitude(s \div 2))
<1> DEFINE h == s \div 2
           n == h < 0
           n2 == n \/ E + 1 >= 2 * BIAS
           e2 == (E + 1) % (2 * BIAS)
           v == IF n2 THEN -h ELSE h
           m == v % (2 * Top)
<1>1. Top \in Nat \ {0} /\ 2 ^ MAN = 2 * Top /\ h \in Int /\ BIAS \in Nat \ {0} /\ n \in BOOLEAN /\ E + 1 \in Int
  BY FloatWidths
<1> HIDE DEF h
<1>2. Halved(s, E) = Num(n2, e2, 0) /\ e2 \in Int
  <2>1. Halved(s, E) = WithByte(n, E + 1, 0)
    BY DEF Halved, h
  <2> HIDE DEF n
  <2>2. WithByte(n, E + 1, 0) = Num(n \/ E + 1 >= 2 * BIAS, (E + 1) % (2 * BIAS), 0) /\ (E + 1) % (2 * BIAS) \in 0..(2 * BIAS - 1)
    BY <1>1, WithByteIs, Zenon
  <2>3. \A i \in 0..(2 * BIAS - 1) : i \in Int
    OBVIOUS
  <2> QED
    BY <2>1, <2>2, <2>3, Zenon
<1> HIDE DEF n2, e2
<1>3. Lifted(s, E) = Num(n2, e2, m)
  <2> DEFINE w == Num(n2, e2, 0)
  <2>1. w.neg = n2
    BY DEF Num
  <2>2. [Num(n2, e2, 0) EXCEPT !.man = m] = Num(n2, e2, m)
    <3> HIDE DEF m
    <3> QED
      BY DEF Num
  <2> HIDE DEF w
  <2>3. Lifted(s, E) = [w EXCEPT !.man = m]
    BY <1>1, <1>2, <2>1 DEF Lifted, w, h
  <2> QED
    BY <2>2, <2>3 DEF w
<1>4. v \in Int /\ n2 \in BOOLEAN
  BY <1>1 DEF n2
<1> HIDE DEF v
<1>5. m \in 0..(2 * Top - 1)
  <2> DEFINE d == 2 * Top
  <2>1. d \in Nat \ {0}
    BY <1>1
  <2> HIDE DEF d
  <2>2. v % d \in 0..(d - 1)
    BY <1>4, <2>1, DivMod
  <2> QED
    BY <2>2 DEF d
<1>6. ASSUME E + 1 < 2 * BIAS, Magnitude(s \div 2) < 2 * Top
      PROVE  Lifted(s, E) = Num(s \div 2 < 0, E + 1, Magnitude(s \div 2))
  <2>1. n2 = n
    BY <1>1, <1>6 DEF n2
  <2>2. e2 = E + 1
    <3>1. E + 1 \in Nat /\ 2 * BIAS \in Nat \ {0} /\ E + 1 < 2 * BIAS
      BY <1>1, <1>6
    <3> QED
      BY <3>1, DivInRange DEF e2
  <2>3. v = Magnitude(h) /\ Magnitude(h) \in Nat
    <3>1. CASE h < 0
      <4>1. n2
        BY <2>1, <3>1
      <4> QED
        BY <1>1, <3>1, <4>1 DEF Magnitude, v
    <3>2. CASE ~(h < 0)
      <4>1. ~n2
        BY <2>1, <3>2
      <4> QED
        BY <1>1, <3>2, <4>1 DEF Magnitude, v
    <3> QED
      BY <3>1, <3>2
  <2>4. m = Magnitude(h)
    <3>1. Magnitude(h) < 2 * Top /\ 2 * Top \in Nat \ {0}
      BY <1>1, <1>6 DEF h
    <3> QED
      BY <2>3, <3>1, DivInRange
  <2> HIDE DEF m
  <2>5. Lifted(s, E) = Num(n, E + 1, Magnitude(h))
    BY <1>3, <2>1, <2>2, <2>4, Zenon
  <2> QED
    BY <2>5, Zenon DEF h
<1> HIDE DEF m
<1> QED
  BY <1>2, <1>3, <1>4, <1>5, <1>6

LEMMA SummedNormal ==
  ASSUME NEW s \in Int, NEW E \in Nat
  PROVE  Normal(Summed(s, E))
<1>1. PICK n \in BOOLEAN, f \in Int, m \in 0..(2 * Top - 1) : Lifted(s, E) = Num(n, f, m)
  BY LiftedIs
<1> DEFINE o == s % 2 = 1
<1>2. o \in BOOLEAN
  OBVIOUS
<1>3. Summed(s, E) = Norm(IF o THEN Round(Lifted(s, E)) ELSE Lifted(s, E))
  BY DEF Summed
<1> HIDE DEF o
<1>4. Normal(Norm(IF o THEN Round(Num(n, f, m)) ELSE Num(n, f, m)))
  BY <1>2, NormRounded
<1> QED
  BY <1>1, <1>3, <1>4

(* Half a sum, with the bit that falls off rounded away from 0: twice that   *)
(* is the sum, or one more, or three less when the sum is negative.         *)
Doubling(s) == IF s \div 2 < 0 THEN -(2 * (Magnitude(s \div 2) + (s % 2))) ELSE 2 * (Magnitude(s \div 2) + (s % 2))

LEMMA DoublingIs ==
  ASSUME NEW s \in Int
  PROVE  /\ Doubling(s) \in Int
         /\ s >= 0 => Doubling(s) \in {s, s + 1}
         /\ s < 0 => Doubling(s) \in {s, s - 3}
         /\ s % 2 = 0 => Doubling(s) = s
<1> DEFINE h == s \div 2
           i == s % 2
<1>1. s = h * 2 + i /\ h \in Int /\ i \in {0, 1}
  OBVIOUS
<1> HIDE DEF h, i
<1> QED
  BY <1>1 DEF Doubling, Magnitude, h, i

LEMMA SummedIs ==
  ASSUME NEW s \in Int, NEW E \in 0..(2 * BIAS - 3), Magnitude(s) <= 2 * (2 * Top - 1)
  PROVE  /\ Summed(s, E).man = 0 => Summed(s, E) = Zero /\ (s = 0 \/ E < MAN)
         /\ Summed(s, E).man # 0 =>
              /\ Summed(s, E).exp \in Nat /\ Summed(s, E).man \in Top..(2 * Top - 1)
              /\ Summed(s, E) = Num(s < 0, Summed(s, E).exp, Summed(s, E).man)
              /\ \A e \in Nat : e <= E /\ e <= Summed(s, E).exp =>
                   Signed(Summed(s, E), Summed(s, E).man * 2 ^ (Summed(s, E).exp - e)) = Doubling(s) * 2 ^ (E - e)
<1> DEFINE h == s \div 2
           i == s % 2
           n == h < 0
           o == i = 1
           g == Magnitude(h)
           r == Summed(s, E)
<1>1. s = h * 2 + i /\ h \in Int /\ i \in {0, 1} /\ Top \in Nat \ {0} /\ BIAS \in Nat \ {0} /\ 2 ^ MAN = 2 * Top /\ MAN \in Nat
  BY FloatWidths
<1> HIDE DEF h, i
<1>2. g \in 0..(2 * Top - 1) /\ g < 2 * Top /\ E \in Nat /\ E + 1 < 2 * BIAS /\ E + 1 \in 0..(2 * BIAS - 2)
      /\ (h < 0 <=> s < 0) /\ (g + i = 0 => s = 0)
  BY <1>1 DEF Magnitude
<1>3. Lifted(s, E) = Num(n, E + 1, g)
  BY <1>2, LiftedIs DEF h
<1>4. r = Norm(IF o THEN Round(Num(n, E + 1, g)) ELSE Num(n, E + 1, g))
  BY <1>3 DEF Summed, i
<1>5. n \in BOOLEAN /\ o \in BOOLEAN /\ Unit(o) = i /\ (n <=> s < 0)
  BY <1>1, <1>2 DEF Unit
<1>6. Doubling(s) = (IF n THEN -(2 * (g + i)) ELSE 2 * (g + i))
  BY DEF Doubling, h, i
<1> HIDE DEF n, o, g, r
<1>7. PICK f \in (E + 1)..((E + 1) + 1), c \in 0..(2 * Top - 1) :
            /\ (IF o THEN Round(Num(n, E + 1, g)) ELSE Num(n, E + 1, g)) = Num(n, f, c)
            /\ c * 2 ^ (f - (E + 1)) = g + Unit(o)
  BY <1>2, <1>5, RoundedValue
<1>8. r = Norm(Num(n, f, c)) /\ f \in Nat /\ c * 2 ^ (f - (E + 1)) = g + i
  BY <1>2, <1>4, <1>5, <1>7
<1>9. c \in 0..(2 ^ MAN - 1)
  BY <1>1
<1>10. CASE c = 0
  <2>1. r = Zero
    BY <1>5, <1>8, <1>9, <1>10, NormIs
  <2>2. g + i = 0
    <3>1. 2 ^ (f - (E + 1)) \in Nat
      <4>1. f - (E + 1) \in Nat
        BY <1>2
      <4> QED
        BY <4>1, PowerType
    <3> QED
      BY <1>8, <1>10, <3>1
  <2>3. s = 0 /\ Zero.man = 0
    BY <1>2, <2>2 DEF Zero
  <2> QED
    BY <2>1, <2>3 DEF r
<1>11. CASE c # 0
  <2>1. PICK k \in 0..(MAN - 1) :
              /\ c * 2 ^ k \in Top..(2 ^ MAN - 1)
              /\ Norm(Num(n, f, c)) = IF f < k THEN Zero ELSE Num(n, f - k, c * 2 ^ k)
    BY <1>5, <1>8, <1>9, <1>11, NormIs
  <2>2. CASE f < k
    <3>1. r = Zero /\ E < MAN /\ Zero.man = 0
      BY <1>1, <1>2, <1>8, <2>1, <2>2 DEF Zero
    <3> QED
      BY <3>1 DEF r
  <2>3. CASE ~(f < k)
    <3>1. r = Num(n, f - k, c * 2 ^ k)
      BY <1>8, <2>1, <2>3
    <3>2. r.neg = n /\ r.exp = f - k /\ r.man = c * 2 ^ k
      BY <3>1, NumFields
    <3>3. f - k \in Nat /\ k \in Nat
      BY <1>1, <1>8, <2>3
    <3>4. r.man \in Top..(2 * Top - 1) /\ r.exp \in Nat /\ r = Num(n, r.exp, r.man) /\ r.man # 0
      <4>1. r.man \in Top..(2 * Top - 1)
        BY <1>1, <2>1, <3>2
      <4>2. r.exp \in Nat
        BY <3>2, <3>3
      <4>3. r.man # 0
        BY <1>1, <4>1
      <4> QED
        BY <3>1, <3>2, <4>1, <4>2, <4>3, Zenon
    <3>5. n = (s < 0)
      BY <1>5
    <3>6. ASSUME NEW e \in Nat, e <= E, e <= r.exp
          PROVE  Signed(r, r.man * 2 ^ (r.exp - e)) = Doubling(s) * 2 ^ (E - e)
      <4> DEFINE a == 2 ^ k
                 b == 2 ^ (f - k - e)
                 u == 2 ^ (f - (E + 1))
                 v == 2 ^ (E - e)
      <4>1. f - k - e \in Nat /\ f - (E + 1) \in Nat /\ E - e \in Nat /\ E + 1 - e = (E - e) + 1
        BY <1>2, <3>2, <3>3, <3>6
      <4>2. a \in Nat /\ b \in Nat /\ u \in Nat /\ v \in Nat /\ 2 ^ (E + 1 - e) = 2 * v
        BY <3>3, <4>1, PowerType, PowerNext
      <4>3. a * b = 2 ^ (f - e)
        <5>1. k + (f - k - e) = f - e
          BY <1>8, <3>3, <3>6
        <5>2. 2 ^ (k + (f - k - e)) = a * b
          BY <3>3, <4>1, PowerSum, Zenon
        <5> QED
          BY <5>1, <5>2
      <4>4. 2 ^ (f - e) = u * (2 * v)
        <5>1. (f - (E + 1)) + (E + 1 - e) = f - e /\ E + 1 - e \in Nat
          BY <1>2, <1>8, <3>6, <4>1
        <5>2. 2 ^ ((f - (E + 1)) + (E + 1 - e)) = u * 2 ^ (E + 1 - e)
          BY <4>1, <5>1, PowerSum, Zenon
        <5> QED
          BY <4>2, <5>1, <5>2
      <4>5. r.man * 2 ^ (r.exp - e) = (c * a) * b
        BY <3>2
      <4> HIDE DEF a, b, u, v
      <4>6. (c * a) * b = (g + i) * (2 * v)
        <5>1. (c * a) * b = c * (u * (2 * v))
          <6>1. (c * a) * b = c * (a * b)
            BY <4>2
          <6> QED
            BY <4>3, <4>4, <6>1
        <5>2. c * (u * (2 * v)) = (c * u) * (2 * v) /\ c \in Nat
          BY <4>2
        <5>3. c * u = g + i
          BY <1>8 DEF u
        <5> QED
          BY <5>1, <5>2, <5>3
      <4>7. Signed(r, (g + i) * (2 * v)) = (IF n THEN -((g + i) * (2 * v)) ELSE (g + i) * (2 * v))
        BY <3>2 DEF Signed
      <4>8. (g + i) * (2 * v) = (2 * (g + i)) * v /\ -((g + i) * (2 * v)) = (-(2 * (g + i))) * v
        BY <1>1, <1>2, <4>2
      <4> QED
        BY <1>6, <4>5, <4>6, <4>7, <4>8 DEF v
    <3> QED
      BY <3>4, <3>5, <3>6 DEF r
  <2> QED
    BY <2>2, <2>3
<1> QED
  BY <1>10, <1>11

-----------------------------------------------------------------------------
(* The sum of two mantissas, the smaller brought down to the place of the   *)
(* larger.                                                                  *)
LEMMA SignedIs ==
  ASSUME NEW x, NEW a \in Int, NEW b \in Int
  PROVE  /\ Signed(x, a) \in {a, -a} /\ Signed(x, a) \in Int
         /\ Signed(x, a * b) = Signed(x, a) * b
         /\ Signed(x, a + b) = Signed(x, a) + Signed(x, b)
<1>1. CASE x.neg
  <2>1. Signed(x, a) = -a /\ Signed(x, b) = -b /\ Signed(x, a * b) = -(a * b) /\ Signed(x, a + b) = -(a + b)
    BY <1>1 DEF Signed
  <2>2. (-a) * b = -(a * b)
    OBVIOUS
  <2> QED
    BY <2>1, <2>2
<1>2. CASE ~x.neg
  <2>1. Signed(x, a) = a /\ Signed(x, b) = b /\ Signed(x, a * b) = a * b /\ Signed(x, a + b) = a + b
    BY <1>2 DEF Signed
  <2> QED
    BY <2>1
<1> QED
  BY <1>1, <1>2

LEMMA SumOfIs ==
  ASSUME NEW t \in FLOATs, NEW l \in FLOATs, t.exp <= l.exp, l.exp - t.exp < MAN
  PROVE  /\ SumOf(t, l) = Summed(Signed(l, l.man) + Signed(t, t.man \div 2 ^ (l.exp - t.exp)), l.exp)
         /\ t.man \div 2 ^ (l.exp - t.exp) \in Nat
<1> DEFINE d == l.exp - t.exp
           s == Signed(l, l.man) + Signed(t, t.man \div 2 ^ d)
<1>1. MAN \in Nat /\ t.man \in Nat /\ d \in Nat /\ d <= MAN
  BY FloatForm, FloatWidths
<1>2. Shlr(t.man, d, MAN) = t.man \div 2 ^ d
  <2>1. Limited(d, MAN) = d
    BY <1>1 DEF Limited
  <2>2. Shlr(t.man, d, MAN) = t.man \div 2 ^ Limited(d, MAN)
    BY <1>1, ShlrIs
  <2> QED
    BY <2>1, <2>2
<1>3. SumOf(t, l) = Summed(Signed(l, l.man) + Signed(t, Shlr(t.man, d, MAN)), l.exp)
  BY DEF SumOf, Summed, Lifted, Halved
<1>4. t.man \div 2 ^ d \in Nat
  <2>1. 2 ^ d \in Nat \ {0}
    BY <1>1, PowerType
  <2> QED
    BY <1>1, <2>1, DivInRange
<1> QED
  BY <1>2, <1>3, <1>4

Exact(l, t, e) == At(l, e) + At(t, e)
PlaceOf(r, t) == IF r.man = 0 THEN t.exp ELSE LowerOf(r.exp, t.exp)
Near(r, l, t) ==
  LET e == PlaceOf(r, t) IN
  IF r.man = 0 THEN Magnitude(Exact(l, t, e)) <= 2 ^ (l.exp - e) \/ l.exp <= MAN
  ELSE Magnitude(At(r, e) - Exact(l, t, e)) < (IF Exact(l, t, e) < 0 THEN 4 ELSE 2) * 2 ^ (l.exp - e)

(* The exact sum: that of the mantissas, and less than a unit lost.         *)
LEMMA ExactParts ==
  ASSUME NEW t \in FLOATs, NEW l \in FLOATs, t.man # 0, l.man # 0, t.exp <= l.exp, l.exp - t.exp < MAN,
         NEW e \in Nat, e <= t.exp
  PROVE  \E lost \in Int :
           /\ 2 ^ (l.exp - e) \in Nat \ {0} /\ Magnitude(lost) < 2 ^ (l.exp - e)
           /\ Exact(l, t, e) = (Signed(l, l.man) + Signed(t, t.man \div 2 ^ (l.exp - t.exp))) * 2 ^ (l.exp - e) + lost
           /\ l.exp = t.exp => lost = 0
<1> DEFINE d == l.exp - t.exp
           p == 2 ^ d
           c == 2 ^ (t.exp - e)
           w == 2 ^ (l.exp - e)
           D == t.man \div p
           q == t.man % p
           lost == Signed(t, q) * c
<1>1. MAN \in Nat /\ t.man \in Nat /\ l.man \in Nat /\ t.exp \in Nat /\ l.exp \in Nat /\ d \in Nat /\ t.exp - e \in Nat /\ l.exp - e \in Nat
  BY FloatForm, FloatWidths
<1>2. p \in Nat \ {0} /\ c \in Nat \ {0} /\ w \in Nat \ {0} /\ w = p * c
  <2>1. d + (t.exp - e) = l.exp - e
    BY <1>1
  <2>2. 2 ^ (d + (t.exp - e)) = p * c
    <3> HIDE DEF d
    <3> QED
      BY <1>1, PowerSum, Zenon
  <2> QED
    BY <1>1, <2>1, <2>2, PowerType
<1>3. l.exp = t.exp => p = 1
  <2> SUFFICES ASSUME l.exp = t.exp PROVE p = 1
    OBVIOUS
  <2>1. d = 0
    BY <1>1
  <2> HIDE DEF d
  <2> QED
    BY <2>1, PowerZero
<1> HIDE DEF p, c, w
<1>4. t.man = D * p + q /\ D \in Int /\ q \in 0..(p - 1)
  <2>1. t.man \in Int
    BY <1>1
  <2> QED
    BY <1>2, <2>1, DivMod, Zenon
<1> HIDE DEF D, q
<1>5. At(l, e) = Signed(l, l.man) * w /\ At(t, e) = (Signed(t, D) * p) * c + Signed(t, q) * c /\ Signed(t, q) \in {q, -q}
  <2>1. At(l, e) = Signed(l, l.man * w) /\ At(t, e) = Signed(t, t.man * c)
    BY DEF At, w, c
  <2>2. Signed(l, l.man * w) = Signed(l, l.man) * w
    <3>1. l.man \in Int /\ w \in Int
      BY <1>1, <1>2
    <3> QED
      BY <3>1, SignedIs
  <2>3. Signed(t, t.man * c) = Signed(t, t.man) * c
    <3>1. t.man \in Int /\ c \in Int
      BY <1>1, <1>2
    <3> QED
      BY <3>1, SignedIs
  <2>4. Signed(t, t.man) = Signed(t, D) * p + Signed(t, q) /\ Signed(t, D) \in Int /\ Signed(t, q) \in {q, -q} /\ Signed(t, q) \in Int
    <3>1. D \in Int /\ p \in Int /\ q \in Int /\ D * p \in Int
      BY <1>2, <1>4
    <3>2. Signed(t, D * p + q) = Signed(t, D * p) + Signed(t, q)
      BY <3>1, SignedIs
    <3>3. Signed(t, D * p) = Signed(t, D) * p /\ Signed(t, D) \in Int
      BY <3>1, SignedIs
    <3>4. Signed(t, q) \in {q, -q} /\ Signed(t, q) \in Int
      BY <3>1, SignedIs
    <3> QED
      BY <1>4, <3>2, <3>3, <3>4
  <2> DEFINE u == Signed(t, D)
             v == Signed(t, q)
  <2> HIDE DEF u, v
  <2>5. (u * p + v) * c = (u * p) * c + v * c
    <3>1. u \in Int /\ v \in Int
      BY <2>4 DEF u, v
    <3> QED
      BY <1>2, <3>1
  <2> QED
    BY <2>1, <2>2, <2>3, <2>4, <2>5 DEF u, v
<1>6. Magnitude(lost) < w /\ lost \in Int /\ (l.exp = t.exp => lost = 0)
  <2> DEFINE v == Signed(t, q)
  <2>1. v \in Int /\ Magnitude(v) <= p - 1
    BY <1>2, <1>4, <1>5 DEF Magnitude
  <2> HIDE DEF v
  <2>2. Magnitude(v * c) = Magnitude(v) * c
    <3>1. CASE v < 0
      <4>1. v * c < 0 /\ -(v * c) = (-v) * c
        BY <1>2, <2>1, <3>1
      <4>2. Magnitude(v * c) = -(v * c) /\ Magnitude(v) = -v
        BY <3>1, <4>1 DEF Magnitude
      <4> QED
        BY <4>1, <4>2
    <3>2. CASE v >= 0
      <4>1. v * c >= 0 /\ v * c \in Int
        BY <1>2, <2>1, <3>2
      <4>2. Magnitude(v * c) = v * c /\ Magnitude(v) = v
        BY <2>1, <3>2, <4>1 DEF Magnitude
      <4> QED
        BY <4>2
    <3> QED
      BY <2>1, <3>1, <3>2
  <2> DEFINE g == Magnitude(v)
  <2>3. g \in Nat /\ g <= p - 1
    BY <2>1 DEF Magnitude
  <2> HIDE DEF g
  <2>4. g * c < p * c
    <3>1. p - g >= 1 /\ p - g \in Nat
      BY <1>2, <2>3
    <3> DEFINE f == p - g
    <3>2. f * c = p * c - g * c
      BY <1>2, <2>3
    <3> HIDE DEF f
    <3>3. f * c > 0
      BY <1>2, <3>1 DEF f
    <3>4. p * c \in Int /\ g * c \in Int
      BY <1>2, <2>3
    <3> QED
      BY <3>2, <3>3, <3>4
  <2>5. v * c \in Int
    BY <1>2, <2>1
  <2>6. l.exp = t.exp => v * c = 0
    <3> SUFFICES ASSUME l.exp = t.exp PROVE v * c = 0
      OBVIOUS
    <3>1. g = 0
      BY <1>3, <2>3
    <3>2. v = 0
      BY <2>1, <3>1 DEF g, Magnitude
    <3> QED
      BY <1>2, <3>2
  <2> QED
    BY <1>2, <2>2, <2>4, <2>5, <2>6 DEF g, v
<1>7. Exact(l, t, e) = (Signed(l, l.man) + Signed(t, D)) * w + lost
  <2> DEFINE a == Signed(l, l.man)
             u == Signed(t, D)
             v == Signed(t, q)
  <2>1. a \in Int /\ u \in Int
    <3>1. l.man \in Int /\ D \in Int
      BY <1>1, <1>4
    <3> QED
      BY <3>1, SignedIs
  <2>2. Exact(l, t, e) = a * w + ((u * p) * c + v * c)
    BY <1>5 DEF Exact
  <2> HIDE DEF a, u
  <2>3. (u * p) * c = u * w /\ (a + u) * w = a * w + u * w /\ a * w \in Int /\ u * w \in Int
    BY <1>2, <2>1
  <2>4. v * c \in Int
    BY <1>6
  <2> HIDE DEF v
  <2> QED
    BY <2>2, <2>3, <2>4 DEF a, u, v
<1> QED
  BY <1>2, <1>6, <1>7 DEF w, D, p

-----------------------------------------------------------------------------
(* The mantissas' sum fits a mantissa and a bit.                            *)
LEMMA MantissaSum ==
  ASSUME NEW t \in FLOATs, NEW l \in FLOATs, t.exp <= l.exp, l.exp - t.exp < MAN,
         NEW s, s = Signed(l, l.man) + Signed(t, t.man \div 2 ^ (l.exp - t.exp))
  PROVE  s \in Int /\ Magnitude(s) <= 2 * (2 * Top - 1)
<1> DEFINE p == 2 ^ (l.exp - t.exp)
           D == t.man \div p
           a == Signed(l, l.man)
           u == Signed(t, D)
<1>1. MAN \in Nat /\ Top \in Nat \ {0} /\ t.man \in 0..(2 * Top - 1) /\ l.man \in 0..(2 * Top - 1) /\ l.exp - t.exp \in Nat
  BY FloatForm, FloatWidths
<1>2. p \in Nat \ {0}
  BY <1>1, PowerType
<1> HIDE DEF p
<1>3. D \in 0..(2 * Top - 1)
  <2>1. D \in Nat /\ t.man = D * p + (t.man % p) /\ t.man % p \in 0..(p - 1) /\ t.man \in Int /\ t.man \in Nat
    <3>1. t.man \in Nat /\ t.man \in Int
      BY <1>1
    <3>2. t.man = D * p + (t.man % p) /\ t.man % p \in 0..(p - 1)
      BY <1>2, <3>1, DivMod, Zenon
    <3>3. D \in Nat
      BY <1>2, <3>1, DivInRange, Zenon
    <3> QED
      BY <3>1, <3>2, <3>3
  <2> HIDE DEF D
  <2> DEFINE q == t.man % p
             m == t.man
  <2> HIDE DEF q, m
  <2>2. D \in Nat /\ m = D * p + q /\ q \in 0..(p - 1) /\ m \in 0..(2 * Top - 1)
    BY <1>1, <2>1 DEF q, m
  <2>3. D * p >= D
    BY <1>2, <2>2
  <2>4. D * p \in Nat
    BY <1>2, <2>2
  <2> QED
    BY <1>1, <2>2, <2>3, <2>4
<1> HIDE DEF D
<1>4. a \in Int /\ a \in {l.man, -l.man} /\ u \in Int /\ u \in {D, -D}
  <2>1. l.man \in Int /\ D \in Int
    BY <1>1, <1>3
  <2> QED
    BY <2>1, SignedIs
<1>5. s = a + u
  BY DEF D, p
<1> HIDE DEF a, u
<1> QED
  BY <1>1, <1>3, <1>4, <1>5 DEF Magnitude

LEMMA SumsNear ==
  ASSUME NEW t \in FLOATs, NEW l \in FLOATs, t.man # 0, l.man # 0, t.exp <= l.exp, l.exp - t.exp < MAN,
         l.exp <= 2 * BIAS - 3
  PROVE  Near(SumOf(t, l), l, t) /\ PlaceOf(SumOf(t, l), t) \in 0..t.exp
<1> DEFINE r == SumOf(t, l)
           E == l.exp
           e == PlaceOf(r, t)
           w == 2 ^ (E - e)
           s == Signed(l, l.man) + Signed(t, t.man \div 2 ^ (l.exp - t.exp))
           x == Exact(l, t, e)
           g == Doubling(s)
<1>1. MAN \in Nat /\ BIAS \in Nat /\ t.exp \in Nat /\ E \in Nat /\ E \in 0..(2 * BIAS - 3) /\ BIAS > 2
  BY FloatForm, FloatWidths
<1>2. s \in Int /\ Magnitude(s) <= 2 * (2 * Top - 1) /\ r = Summed(s, E)
  BY MantissaSum, SumOfIs
<1> HIDE DEF s, E
<1>3. /\ r.man = 0 => r = Zero /\ (s = 0 \/ E < MAN)
      /\ r.man # 0 =>
              /\ r.exp \in Nat /\ r.man \in Top..(2 * Top - 1)
              /\ r = Num(s < 0, r.exp, r.man)
              /\ \A z \in Nat : z <= E /\ z <= r.exp =>
                   Signed(r, r.man * 2 ^ (r.exp - z)) = g * 2 ^ (E - z)
  <2> HIDE DEF r, g
  <2>1. /\ Summed(s, E).man = 0 => Summed(s, E) = Zero /\ (s = 0 \/ E < MAN)
        /\ Summed(s, E).man # 0 =>
              /\ Summed(s, E).exp \in Nat /\ Summed(s, E).man \in Top..(2 * Top - 1)
              /\ Summed(s, E) = Num(s < 0, Summed(s, E).exp, Summed(s, E).man)
              /\ \A z \in Nat : z <= E /\ z <= Summed(s, E).exp =>
                   Signed(Summed(s, E), Summed(s, E).man * 2 ^ (Summed(s, E).exp - z)) = Doubling(s) * 2 ^ (E - z)
    BY <1>1, <1>2, SummedIs
  <2> QED
    BY <1>2, <2>1, Zenon DEF g
<1> HIDE DEF r
<1>4. e \in Nat /\ e <= t.exp /\ e <= E /\ (r.man # 0 => e <= r.exp)
  BY <1>1, <1>3 DEF PlaceOf, LowerOf, E
<1>11. PlaceOf(SumOf(t, l), t) \in 0..t.exp
  BY <1>1, <1>4 DEF r
<1> HIDE DEF e
<1>5. PICK lost \in Int :
           /\ 2 ^ (l.exp - e) \in Nat \ {0} /\ Magnitude(lost) < 2 ^ (l.exp - e)
           /\ Exact(l, t, e) = (Signed(l, l.man) + Signed(t, t.man \div 2 ^ (l.exp - t.exp))) * 2 ^ (l.exp - e) + lost
           /\ l.exp = t.exp => lost = 0
  BY <1>4, ExactParts
<1>6. w \in Nat \ {0} /\ Magnitude(lost) < w /\ x = s * w + lost
  BY <1>5 DEF s, E
<1>7. /\ g \in Int
      /\ s >= 0 => g \in {s, s + 1}
      /\ s < 0 => g \in {s, s - 3}
  BY <1>2, DoublingIs
<1>8. Near(r, l, t) = (IF r.man = 0 THEN Magnitude(x) <= w \/ E <= MAN
                       ELSE Magnitude(At(r, e) - x) < (IF x < 0 THEN 4 ELSE 2) * w)
  BY DEF Near, e, E
<1> HIDE DEF w, x, g
<1>9. CASE r.man = 0
  <2>1. CASE s = 0
    <3>1. s * w = 0
      BY <1>6, <2>1
    <3>2. x = lost /\ Magnitude(x) <= w
      <4>1. x = lost
        BY <1>6, <3>1
      <4>2. Magnitude(lost) \in Int
        BY DEF Magnitude
      <4> QED
        BY <1>6, <4>1, <4>2
    <3> QED
      BY <1>11, <1>8, <1>9, <3>2 DEF r
  <2>2. CASE E < MAN
    <3>1. E <= MAN
      BY <1>1, <2>2
    <3> QED
      BY <1>11, <1>8, <1>9, <3>1 DEF r
  <2> QED
    BY <1>3, <1>9, <2>1, <2>2
<1>10. CASE r.man # 0
  <2>1. At(r, e) = g * w
    <3>1. At(r, e) = Signed(r, r.man * 2 ^ (r.exp - e))
      BY <1>10 DEF At
    <3>2. Signed(r, r.man * 2 ^ (r.exp - e)) = g * 2 ^ (E - e)
      BY <1>3, <1>4, <1>10
    <3> QED
      BY <3>1, <3>2 DEF w
  <2> DEFINE v == g * w
             u == s * w
  <2>2. u \in Int /\ v \in Int /\ x = u + lost /\ -w < lost /\ lost < w
    BY <1>2, <1>6, <1>7 DEF Magnitude
  <2>3. /\ s >= 0 => v \in {u, u + w}
        /\ s < 0 => v \in {u, u - 3 * w} /\ u <= -w
    <3>1. (s + 1) * w = u + w /\ (s - 3) * w = u - 3 * w
      BY <1>2, <1>6
    <3>2. s < 0 => u <= -w
      <4> SUFFICES ASSUME s < 0 PROVE u <= -w
        OBVIOUS
      <4> DEFINE f == -1 - s
      <4>1. f \in Nat
        BY <1>2
      <4>2. f * w = -w - u
        BY <1>2, <1>6
      <4> HIDE DEF f, u
      <4>3. f * w >= 0
        BY <1>6, <4>1
      <4> QED
        BY <1>6, <2>2, <4>2, <4>3
    <3>3. (g = s => v = u) /\ (g = s + 1 => v = u + w) /\ (g = s - 3 => v = u - 3 * w)
      BY <3>1
    <3> HIDE DEF u, v
    <3> QED
      BY <1>7, <3>2, <3>3
  <2> HIDE DEF u, v
  <2>4. Magnitude(v - x) < (IF x < 0 THEN 4 ELSE 2) * w
    <3>1. CASE s >= 0
      <4>1. Magnitude(v - x) < 2 * w
        BY <1>6, <2>2, <2>3, <3>1 DEF Magnitude
      <4> QED
        BY <1>6, <2>2, <4>1 DEF Magnitude
    <3>2. CASE s < 0
      <4>1. x < 0
        BY <1>6, <2>2, <2>3, <3>2
      <4>2. Magnitude(v - x) < 4 * w
        BY <1>6, <2>2, <2>3, <3>2 DEF Magnitude
      <4> QED
        BY <4>1, <4>2
    <3> QED
      BY <1>2, <3>1, <3>2
  <2> QED
    BY <1>11, <1>8, <1>10, <2>1, <2>4 DEF v, r
<1> QED
  BY <1>9, <1>10, <1>11

(* When the smaller is too far below, the larger stands for the sum.        *)
LEMMA LargeNear ==
  ASSUME NEW t \in FLOATs, NEW l \in FLOATs, t.man # 0, l.man # 0, l.exp - t.exp = MAN
  PROVE  Near(l, l, t) /\ PlaceOf(l, t) \in 0..t.exp
<1>1. /\ MAN \in Nat /\ t.exp \in Nat /\ l.exp \in Nat /\ t.man \in 0..(2 * Top - 1) /\ l.man \in Nat /\ t.man \in Nat
      /\ Top \in Nat \ {0} /\ 2 ^ MAN = 2 * Top
  BY FloatForm, FloatWidths
<1> DEFINE e == t.exp
           w == 2 ^ MAN
           a == At(l, e)
           b == At(t, e)
<1>2. PlaceOf(l, t) = e
  BY <1>1 DEF PlaceOf, LowerOf
<1>3. a \in Int
  <2>1. l.man * 2 ^ (l.exp - e) \in Int
    <3>1. l.exp - e \in Nat
      BY <1>1
    <3>2. 2 ^ (l.exp - e) \in Nat
      BY <3>1, PowerType
    <3> QED
      BY <1>1, <3>2
  <2> QED
    BY <2>1, SignedIs DEF At
<1>4. b \in {t.man, -t.man}
  <2>1. t.man * 2 ^ (e - e) = t.man
    <3>1. e - e = 0
      BY <1>1
    <3>2. 2 ^ (e - e) = 1
      BY <3>1, PowerZero
    <3> HIDE DEF e
    <3> QED
      BY <1>1, <3>2
  <2>2. t.man \in Int
    BY <1>1
  <2>3. b = Signed(t, t.man)
    BY <2>1 DEF At
  <2>4. Signed(t, t.man) \in {t.man, -t.man}
    BY DEF Signed
  <2> HIDE DEF b
  <2> QED
    BY <2>3, <2>4
<1>5. Near(l, l, t) = (Magnitude(a - (a + b)) < (IF a + b < 0 THEN 4 ELSE 2) * w)
  BY <1>2, <1>1 DEF Near, Exact
<1> HIDE DEF a, b, w
<1>6. Magnitude(a - (a + b)) < w /\ w \in Nat
  BY <1>1, <1>3, <1>4 DEF Magnitude, w
<1>7. Magnitude(a - (a + b)) \in Int
  BY <1>1, <1>3, <1>4 DEF Magnitude
<1>8. Magnitude(a - (a + b)) < (IF a + b < 0 THEN 4 ELSE 2) * w
  BY <1>6, <1>7
<1>9. PlaceOf(l, t) \in 0..t.exp
  BY <1>1, <1>2
<1> QED
  BY <1>5, <1>8, <1>9

-----------------------------------------------------------------------------
(* Sums and differences are near enough to the exact ones.                  *)
LEMMA NearIsRight ==
  ASSUME NEW r, NEW t \in FLOATs, NEW l \in FLOATs, t.exp <= l.exp, PlaceOf(r, t) \in 0..t.exp, Near(r, l, t)
  PROVE  SumRight(r, l, t) /\ SumRight(r, t, l)
<1> DEFINE e == PlaceOf(r, t)
           a == At(l, e)
           b == At(t, e)
           w == 2 ^ (l.exp - e)
           R == IF r.man = 0 THEN Magnitude(a + b) <= w \/ l.exp <= MAN
                ELSE Magnitude(At(r, e) - (a + b)) < (IF a + b < 0 THEN 4 ELSE 2) * w
<1>1. t.exp \in Nat /\ l.exp \in Nat
  BY FloatForm
<1>2. LowerOf(l.exp, t.exp) = t.exp /\ LowerOf(t.exp, l.exp) = t.exp /\ HigherOf(l.exp, t.exp) = l.exp /\ HigherOf(t.exp, l.exp) = l.exp
  BY <1>1 DEF LowerOf, HigherOf
<1>3. R
  BY DEF Near, Exact
<1>4. e = IF r.man = 0 THEN t.exp ELSE LowerOf(r.exp, t.exp)
  BY DEF PlaceOf
<1>5. SumRight(r, l, t)
  <2> DEFINE z == IF r.man = 0 THEN t.exp ELSE LowerOf(r.exp, t.exp)
  <2>1. SumRight(r, l, t) = ((l.man # 0 /\ t.man # 0 /\ Apart(l, t) <= MAN /\ l.exp < 2 ^ EXP - 2) =>
           (IF r.man = 0 THEN Magnitude(At(l, z) + At(t, z)) <= 2 ^ (l.exp - z) \/ l.exp <= MAN
            ELSE Magnitude(At(r, z) - (At(l, z) + At(t, z))) < (IF At(l, z) + At(t, z) < 0 THEN 4 ELSE 2) * 2 ^ (l.exp - z)))
    BY <1>2, Zenon DEF SumRight
  <2>2. z = e
    BY <1>4
  <2> HIDE DEF z, e
  <2> QED
    BY <1>3, <2>1, <2>2, Zenon
<1>6. SumRight(r, t, l)
  <2> DEFINE z == IF r.man = 0 THEN t.exp ELSE LowerOf(r.exp, t.exp)
  <2>1. SumRight(r, t, l) = ((t.man # 0 /\ l.man # 0 /\ Apart(t, l) <= MAN /\ l.exp < 2 ^ EXP - 2) =>
           (IF r.man = 0 THEN Magnitude(At(t, z) + At(l, z)) <= 2 ^ (l.exp - z) \/ l.exp <= MAN
            ELSE Magnitude(At(r, z) - (At(t, z) + At(l, z))) < (IF At(t, z) + At(l, z) < 0 THEN 4 ELSE 2) * 2 ^ (l.exp - z)))
    BY <1>2, Zenon DEF SumRight
  <2>2. z = e
    BY <1>4
  <2> HIDE DEF z
  <2>3. At(t, e) + At(l, e) = a + b
    <3>1. At(t, e) \in Int /\ At(l, e) \in Int
      <4>1. ASSUME NEW x \in FLOATs, x.exp - e \in Nat PROVE At(x, e) \in Int
        <5> DEFINE p == 2 ^ (x.exp - e)
        <5>1. x.man \in Nat /\ p \in Nat
          BY <4>1, FloatForm, PowerType
        <5> HIDE DEF p
        <5>2. x.man * p \in Int
          BY <5>1
        <5>3. At(x, e) = IF x.man = 0 THEN 0 ELSE Signed(x, x.man * p)
          BY DEF At, p
        <5> QED
          BY <5>2, <5>3 DEF Signed
      <4>2. t.exp - e \in Nat /\ l.exp - e \in Nat
        BY <1>1
      <4> HIDE DEF e
      <4> QED
        BY <4>1, <4>2
    <3> QED
      BY <3>1
  <2> HIDE DEF e
  <2> QED
    BY <1>3, <2>1, <2>2, <2>3, Zenon
<1> QED
  BY <1>5, <1>6

LEMMA NotFarApart ==
  ASSUME NEW r, NEW x \in FLOATs, NEW y \in FLOATs, x.man = 0 \/ y.man = 0 \/ Apart(x, y) > MAN \/ HigherOf(x.exp, y.exp) > 2 * BIAS - 3
  PROVE  SumRight(r, x, y)
<1>1. MAN \in Nat /\ BIAS \in Nat /\ x.exp \in Nat /\ y.exp \in Nat /\ 2 ^ EXP = 2 * BIAS
  BY FloatForm, FloatWidths
<1>2. ~(x.man # 0 /\ y.man # 0 /\ Apart(x, y) <= MAN /\ HigherOf(x.exp, y.exp) < 2 ^ EXP - 2)
  BY <1>1 DEF Apart, HigherOf
<1> QED
  BY <1>2, Zenon DEF SumRight

(* Either is added to the other.                                            *)
LEMMA OneAdded ==
  ASSUME NEW t \in FLOATs, NEW l \in FLOATs, t.exp <= l.exp, t.man # 0, l.man # 0,
         NEW r, r = IF l.exp - t.exp >= MAN THEN l ELSE SumOf(t, l)
  PROVE  Normal(r) /\ SumRight(r, l, t) /\ SumRight(r, t, l)
<1>1. MAN \in Nat /\ t.exp \in Nat /\ l.exp \in Nat /\ BIAS \in Nat
  BY FloatForm, FloatWidths
<1>2. Normal(r)
  <2>1. CASE l.exp - t.exp >= MAN
    BY <2>1, FloatsNormal
  <2>2. CASE ~(l.exp - t.exp >= MAN)
    <3> DEFINE s == Signed(l, l.man) + Signed(t, t.man \div 2 ^ (l.exp - t.exp))
    <3>1. l.exp - t.exp < MAN
      BY <1>1, <2>2
    <3>2. SumOf(t, l) = Summed(s, l.exp) /\ s \in Int
      BY <3>1, SumOfIs, MantissaSum
    <3> HIDE DEF s
    <3> QED
      BY <1>1, <2>2, <3>2, SummedNormal
  <2> QED
    BY <2>1, <2>2
<1>3. CASE l.exp - t.exp > MAN \/ l.exp > 2 * BIAS - 3
  <2>1. Apart(l, t) = l.exp - t.exp /\ Apart(t, l) = l.exp - t.exp /\ HigherOf(l.exp, t.exp) = l.exp /\ HigherOf(t.exp, l.exp) = l.exp
    BY <1>1 DEF Apart, HigherOf
  <2> QED
    BY <1>2, <1>3, <2>1, NotFarApart
<1>4. CASE l.exp - t.exp = MAN
  <2>1. r = l
    BY <1>1, <1>4
  <2>2. Near(l, l, t) /\ PlaceOf(l, t) \in 0..t.exp
    BY <1>4, LargeNear
  <2> QED
    BY <1>2, <2>1, <2>2, NearIsRight
<1>5. CASE l.exp - t.exp < MAN /\ l.exp <= 2 * BIAS - 3
  <2>1. r = SumOf(t, l)
    BY <1>1, <1>5
  <2>2. Near(SumOf(t, l), l, t) /\ PlaceOf(SumOf(t, l), t) \in 0..t.exp
    BY <1>5, SumsNear
  <2> QED
    BY <1>2, <2>1, <2>2, NearIsRight
<1> QED
  BY <1>1, <1>3, <1>4, <1>5

LEMMA SameSum ==
  ASSUME NEW x \in FLOATs, NEW y \in FLOATs, x.exp = y.exp
  PROVE  SumOf(x, y) = SumOf(y, x)
<1> DEFINE d == y.exp - x.exp
           a == Signed(x, x.man)
           b == Signed(y, y.man)
<1>1. MAN \in Nat /\ MAN >= 1 /\ x.man \in Nat /\ y.man \in Nat /\ x.exp \in Nat /\ y.exp - x.exp = 0 /\ x.exp - y.exp = 0
      /\ x.exp <= y.exp /\ y.exp <= x.exp
  BY FloatForm, FloatWidths
<1>2. x.man \div 2 ^ (y.exp - x.exp) = x.man /\ y.man \div 2 ^ (x.exp - y.exp) = y.man
  <2>1. 2 ^ (y.exp - x.exp) = 1 /\ 2 ^ (x.exp - y.exp) = 1
    BY <1>1, PowerZero
  <2>2. x.man \div 1 = x.man /\ y.man \div 1 = y.man
    BY <1>1
  <2> QED
    BY <2>1, <2>2
<1>3. SumOf(x, y) = Summed(b + a, y.exp) /\ SumOf(y, x) = Summed(a + b, x.exp)
  <2>1. y.exp - x.exp < MAN /\ x.exp - y.exp < MAN
    BY <1>1
  <2> QED
    BY <1>1, <1>2, <2>1, SumOfIs
<1>4. b + a = a + b
  <2>1. a \in Int /\ b \in Int
    BY <1>1 DEF Signed
  <2> HIDE DEF a, b
  <2> QED
    BY <2>1
<1> QED
  BY <1>3, <1>4

LEMMA SumsRight ==
  ASSUME NEW x \in FLOATs, NEW y \in FLOATs
  PROVE  Normal(FlAdd(x, y)) /\ SumRight(FlAdd(x, y), x, y) /\ FlAdd(x, y) = FlAdd(y, x)
<1>1. /\ MAN \in Nat /\ MAN >= 1 /\ x.exp \in Nat /\ y.exp \in Nat
      /\ (x.man = 0 => x = Zero) /\ (y.man = 0 => y = Zero)
  BY FloatForm, FloatWidths
<1>2. CASE x.man = 0
  <2>1. FlAdd(x, y) = y /\ FlAdd(y, x) = y
    BY <1>1, <1>2 DEF FlAdd
  <2> QED
    BY <1>2, <2>1, FloatsNormal, NotFarApart
<1>3. CASE x.man # 0 /\ y.man = 0
  <2>1. FlAdd(x, y) = x /\ FlAdd(y, x) = x
    BY <1>3 DEF FlAdd
  <2> QED
    BY <1>3, <2>1, FloatsNormal, NotFarApart
<1>4. CASE x.man # 0 /\ y.man # 0 /\ y.exp > x.exp
  <2>1. FlAdd(x, y) = IF y.exp - x.exp >= MAN THEN y ELSE SumOf(x, y)
    BY <1>1, <1>4 DEF FlAdd
  <2>2. FlAdd(y, x) = IF y.exp - x.exp >= MAN THEN y ELSE SumOf(x, y)
    BY <1>1, <1>4 DEF FlAdd
  <2>3. x.exp <= y.exp
    BY <1>1, <1>4
  <2> QED
    BY <1>4, <2>1, <2>2, <2>3, OneAdded
<1>5. CASE x.man # 0 /\ y.man # 0 /\ y.exp < x.exp
  <2>1. FlAdd(x, y) = IF x.exp - y.exp >= MAN THEN x ELSE SumOf(y, x)
    BY <1>1, <1>5 DEF FlAdd
  <2>2. FlAdd(y, x) = IF x.exp - y.exp >= MAN THEN x ELSE SumOf(y, x)
    BY <1>1, <1>5 DEF FlAdd
  <2>3. y.exp <= x.exp
    BY <1>1, <1>5
  <2> QED
    BY <1>5, <2>1, <2>2, <2>3, OneAdded
<1>6. CASE x.man # 0 /\ y.man # 0 /\ y.exp = x.exp
  <2>1. FlAdd(x, y) = IF y.exp - x.exp >= MAN THEN y ELSE SumOf(x, y)
    BY <1>1, <1>6 DEF FlAdd
  <2>2. FlAdd(y, x) = SumOf(y, x) /\ FlAdd(x, y) = SumOf(x, y)
    BY <1>1, <1>6 DEF FlAdd
  <2>3. x.exp <= y.exp
    BY <1>1, <1>6
  <2> QED
    BY <1>6, <2>1, <2>2, <2>3, OneAdded, SameSum
<1> QED
  BY <1>1, <1>2, <1>3, <1>4, <1>5, <1>6

LEMMA DifferencesRight ==
  ASSUME NEW x \in FLOATs, NEW y \in FLOATs, x.man # 0
  PROVE  Normal(FlSub(x, y)) /\ SumRight(FlSub(x, y), x, Toggled(y))
<1>1. Toggled(y).man = y.man /\ Toggled(y).exp = y.exp
  <2>1. y = Num(y.neg, y.exp, y.man)
    BY FloatForm
  <2> DEFINE n == y.neg
             e == y.exp
             m == y.man
  <2>2. Toggled(Num(n, e, m)) = Num(~n, e, m)
    <3>1. Num(n, e, m).neg = n
      BY NumFields
    <3> HIDE DEF n, e, m
    <3>2. [Num(n, e, m) EXCEPT !.neg = ~n] = Num(~n, e, m)
      BY DEF Num
    <3> QED
      BY <3>1, <3>2 DEF Toggled
  <2> QED
    BY <2>1, <2>2, NumFields
<1>2. CASE y.man = 0
  <2>1. FlSub(x, y) = x
    BY <1>1, <1>2 DEF FlSub, FlAdd
  <2>2. SumRight(x, x, Toggled(y))
    BY <1>1, <1>2 DEF SumRight
  <2> QED
    BY <2>1, <2>2, FloatsNormal
<1>3. CASE y.man # 0
  <2>1. Toggled(y) \in FLOATs
    <3>1. y \in [neg : BOOLEAN, exp : 0..(2 * BIAS - 1), man : Top..(2 * Top - 1)]
      BY <1>3 DEF FLOATs, Zero
    <3> QED
      BY <3>1 DEF FLOATs, Toggled
  <2> QED
    BY <2>1, SumsRight DEF FlSub
<1> QED
  BY <1>2, <1>3

-----------------------------------------------------------------------------
(* A number in two's complement and back.                                   *)
LEMMA ValueBack ==
  ASSUME NEW n \in Nat, n >= 1
  PROVE  /\ \A v \in (-(2 ^ (n - 1)))..(2 ^ (n - 1) - 1) : v % 2 ^ n \in 0..(2 ^ n - 1) /\ Value(v % 2 ^ n, n) = v
         /\ \A a \in 0..(2 ^ n - 1) : Value(a, n) % 2 ^ n = a /\ Value(a, n) \in (-(2 ^ (n - 1)))..(2 ^ (n - 1) - 1)
<1> DEFINE h == 2 ^ (n - 1)
           m == 2 ^ n
<1>1. h \in Nat \ {0} /\ m = 2 * h
  BY TopBit
<1>2. \A a : Value(a, n) = IF a >= h THEN a - m ELSE a
  BY DEF Value, Sign
<1> HIDE DEF h, m
<1>3. ASSUME NEW v \in Int, v >= 0, v < m PROVE v % m = v
  BY <1>1, <1>3, DivInRange
<1>4. ASSUME NEW v \in Int, v < 0, v >= -m PROVE v % m = v + m
  <2>1. v + m \in Nat /\ v + m < m /\ 1 \in Int /\ m \in Nat \ {0}
    BY <1>1, <1>4
  <2>2. (v + m) % m = v + m
    BY <1>3, <2>1
  <2>3. (v + 1 * m) % m = v % m
    BY <2>1, ModPlusMultiple
  <2>4. v + 1 * m = v + m
    BY <2>1
  <2> QED
    BY <2>2, <2>3, <2>4
<1>5. ASSUME NEW v \in (-h)..(h - 1) PROVE v % m \in 0..(m - 1) /\ Value(v % m, n) = v
  <2>1. CASE v >= 0
    <3>1. v % m = v
      BY <1>1, <1>3, <2>1
    <3> QED
      BY <1>1, <1>2, <2>1, <3>1
  <2>2. CASE v < 0
    <3>1. v % m = v + m
      BY <1>1, <1>4, <2>2
    <3> QED
      BY <1>1, <1>2, <2>2, <3>1
  <2> QED
    BY <1>1, <2>1, <2>2
<1>6. ASSUME NEW a \in 0..(m - 1) PROVE Value(a, n) % m = a /\ Value(a, n) \in (-h)..(h - 1)
  <2>1. CASE a >= h
    <3>1. Value(a, n) = a - m
      BY <1>2, <2>1
    <3>2. (a - m) % m = (a - m) + m
      BY <1>1, <1>4, <2>1
    <3> QED
      BY <1>1, <2>1, <3>1, <3>2
  <2>2. CASE ~(a >= h)
    <3>1. Value(a, n) = a
      BY <1>2, <2>2
    <3>2. a % m = a
      BY <1>1, <1>3
    <3> QED
      BY <1>1, <2>2, <3>1, <3>2
  <2> QED
    BY <2>1, <2>2
<1> QED
  BY <1>5, <1>6 DEF h, m

Sgn(n, a) == IF n THEN -a ELSE a

LEMMA SgnIs ==
  ASSUME NEW n \in BOOLEAN, NEW a \in Nat, NEW e
  PROVE  /\ Sgn(n, a) \in Int /\ Sgn(n, a) \in {a, -a} /\ Magnitude(Sgn(n, a)) = a
         /\ \A m : Signed(Num(n, e, m), a) = Sgn(n, a)
         /\ \A b \in Int : Sgn(n, a * b) = Sgn(n, a) * b
<1>1. \A m : Num(n, e, m).neg = n
  BY NumFields
<1>2. \A m : Signed(Num(n, e, m), a) = Sgn(n, a)
  BY <1>1 DEF Signed, Sgn
<1>3. \A b \in Int : Sgn(n, a * b) = Sgn(n, a) * b
  <2> TAKE b \in Int
  <2>1. (-a) * b = -(a * b)
    OBVIOUS
  <2> QED
    BY <2>1 DEF Sgn
<1> QED
  BY <1>2, <1>3 DEF Sgn, Magnitude

(* Lengths of a long and of a mantissa.                                     *)
LEMMA LongWidths ==
  /\ LONG \in Nat /\ LONG >= 1 /\ LONG = MAN + BYTE /\ LONG > MAN + 1 /\ LONG - 1 \in Nat
  /\ 2 * Top <= 2 ^ (LONG - 1) /\ 2 * (2 * Top) <= 2 ^ (LONG - 1) /\ 2 ^ LONG = 2 * 2 ^ (LONG - 1)
  /\ 2 ^ LONG = (2 * Top) * 2 ^ BYTE /\ 2 ^ (LONG - 1) \in Nat \ {0} /\ 2 ^ BYTE \in Nat \ {0}
<1>1. BYTE \in Nat /\ BYTE >= 4 /\ MAN = 3 * BYTE /\ LONG = 4 * BYTE /\ 2 ^ MAN = 2 * Top /\ Top \in Nat \ {0}
  BY FloatWidths
<1>2. LONG \in Nat /\ LONG >= 1 /\ LONG = MAN + BYTE /\ LONG > MAN + 1 /\ LONG - 1 \in Nat /\ MAN + 1 <= LONG - 1 /\ MAN + 1 \in Nat /\ MAN \in Nat
  BY <1>1
<1>3. 2 ^ (MAN + 1) = 2 * (2 * Top) /\ 2 ^ (MAN + 1) <= 2 ^ (LONG - 1)
  BY <1>1, <1>2, PowerNext, PowerGrows
<1>4. 2 ^ LONG = 2 * 2 ^ (LONG - 1) /\ 2 ^ (LONG - 1) \in Nat \ {0}
  BY <1>2, TopBit
<1>5. 2 ^ (MAN + BYTE) = 2 ^ MAN * 2 ^ BYTE /\ 2 ^ BYTE \in Nat \ {0}
  BY <1>1, <1>2, PowerSum, PowerType
<1>6. 2 ^ LONG = (2 * Top) * 2 ^ BYTE
  BY <1>1, <1>2, <1>5
<1>7. 2 * Top <= 2 ^ (LONG - 1)
  BY <1>1, <1>3, <1>4
<1> QED
  BY <1>2, <1>3, <1>4, <1>5, <1>6, <1>7

LEMMA MantissaLong ==
  ASSUME NEW n \in BOOLEAN, NEW m \in 0..(2 * Top - 1)
  PROVE  /\ Sgn(n, m) \in Int /\ Sgn(n, m) \in (-(2 * Top - 1))..(2 * Top - 1)
         /\ Sgn(n, m) % 2 ^ LONG \in 0..(2 ^ LONG - 1) /\ Value(Sgn(n, m) % 2 ^ LONG, LONG) = Sgn(n, m)
<1>1. Top \in Nat \ {0} /\ m \in Nat /\ Sgn(n, m) \in {m, -m} /\ 2 * Top <= 2 ^ (LONG - 1) /\ LONG \in Nat /\ LONG >= 1
      /\ 2 ^ (LONG - 1) \in Nat
  BY FloatWidths, LongWidths, SgnIs
<1>2. Sgn(n, m) \in (-(2 * Top - 1))..(2 * Top - 1) /\ Sgn(n, m) \in (-(2 ^ (LONG - 1)))..(2 ^ (LONG - 1) - 1)
  BY <1>1
<1> QED
  BY <1>1, <1>2, ValueBack

-----------------------------------------------------------------------------
(* From a number that is a multiple of a unit.                              *)
LEMMA FToLUp ==
  ASSUME NEW n \in BOOLEAN, NEW m \in 0..(2 * Top - 1), NEW k \in 0..LONG
  PROVE  FToL(Num(n, BIAS + MAN + k, m)) = (Sgn(n, m) * 2 ^ k) % 2 ^ LONG
<1> DEFINE e == BIAS + MAN + k
           S == Sgn(n, m)
           v == S % 2 ^ LONG
           L == 2 ^ LONG
           p == 2 ^ k
<1>1. BIAS \in Nat /\ MAN \in Nat /\ LONG \in Nat /\ m \in Nat
  BY FloatWidths, LongWidths
<1>2. e - (BIAS + MAN) = k /\ k \in Nat
  BY <1>1
<1>3. FToL(Num(n, e, m)) = Shll(v, k, LONG)
  <2>1. Signed(Num(n, e, m), m) = S /\ Num(n, e, m).man = m /\ Num(n, e, m).exp = e
    BY <1>1, SgnIs, NumFields
  <2> DEFINE x == Num(n, e, m)
  <2>2. Signed(x, x.man) = S /\ x.exp - (BIAS + MAN) = k /\ k >= 0
    BY <1>2, <2>1
  <2> HIDE DEF x, S, e
  <2>3. FToL(x) = Shll(v, k, LONG)
    BY <2>2 DEF FToL
  <2> QED
    BY <2>3 DEF x
<1>4. v \in 0..(2 ^ LONG - 1) /\ S \in Int
  BY MantissaLong
<1>5. Shll(v, k, LONG) = (v * p) % L
  <2>1. Limited(k, LONG) = k
    BY <1>1 DEF Limited
  <2> HIDE DEF v
  <2> QED
    BY <1>1, <1>2, <1>4, <2>1, ShllIs
<1>6. (v * p) % L = (S * p) % L
  <2>1. L \in Nat \ {0} /\ p \in Int
    BY <1>1, <1>2, PowerType
  <2> HIDE DEF L, p, S
  <2>2. (p * (S % L)) % L = (p * S) % L
    BY <1>4, <2>1, ModOfTimes
  <2>3. S % L \in Int
    BY <1>4, <2>1, DivMod
  <2>4. p * (S % L) = (S % L) * p /\ p * S = S * p
    BY <1>4, <2>1, <2>3
  <2> QED
    BY <2>2, <2>4 DEF L
<1> QED
  BY <1>3, <1>5, <1>6

(* From any other, to the nearest integer.                                  *)
Rounded(v, P) == IF P > MAN + 1 THEN 0 ELSE (2 * v + 2 ^ P) \div 2 ^ (P + 1)

LEMMA FToLDown ==
  ASSUME NEW n \in BOOLEAN, NEW m \in 0..(2 * Top - 1), NEW P \in Nat \ {0}
  PROVE  /\ FToL(Num(n, BIAS + MAN - P, m)) \in 0..(2 ^ LONG - 1)
         /\ Value(FToL(Num(n, BIAS + MAN - P, m)), LONG) = Rounded(Sgn(n, m), P)
<1> DEFINE e == BIAS + MAN - P
           S == Sgn(n, m)
           v == S % 2 ^ LONG
           c == P - 1
           w == Shar(v, c, LONG)
           l == Limited(c, LONG)
           q == S \div 2 ^ l
           u == (w + 1) % 2 ^ LONG
           H == 2 ^ (LONG - 1)
<1>1. BIAS \in Nat /\ MAN \in Nat /\ m \in Nat /\ c \in Nat /\ Top \in Nat \ {0} /\ 2 ^ MAN = 2 * Top
  BY FloatWidths
<1>2. LONG \in Nat /\ LONG >= 1 /\ LONG > MAN + 1 /\ 2 ^ LONG = 2 * H /\ H \in Nat \ {0} /\ 2 * (2 * Top) <= H /\ LONG - 1 \in Nat
  BY LongWidths
<1>3. FToL(Num(n, e, m)) = Half(u, LONG)
  <2>1. Signed(Num(n, e, m), m) = S /\ Num(n, e, m).man = m /\ Num(n, e, m).exp = e
    BY <1>1, SgnIs, NumFields
  <2> DEFINE x == Num(n, e, m)
             z == x.exp - (BIAS + MAN)
  <2>2. Signed(x, x.man) = S /\ ~(z >= 0) /\ -z - 1 = c
    BY <1>1, <2>1
  <2>3. FToL(x) = IF z >= 0 THEN Shll(Signed(x, x.man) % 2 ^ LONG, z, LONG)
                  ELSE Half((Shar(Signed(x, x.man) % 2 ^ LONG, -z - 1, LONG) + 1) % 2 ^ LONG, LONG)
    BY DEF FToL
  <2> HIDE DEF x, z, c, S, e
  <2>4. FToL(x) = Half((Shar(S % 2 ^ LONG, c, LONG) + 1) % 2 ^ LONG, LONG)
    BY <2>2, <2>3, Zenon
  <2> QED
    BY <2>4 DEF x
<1>4. v \in 0..(2 ^ LONG - 1) /\ S \in Int /\ Value(v, LONG) = S /\ S \in (-(2 * Top - 1))..(2 * Top - 1)
  BY MantissaLong
<1> HIDE DEF S, v, e
<1>5. w \in 0..(2 ^ LONG - 1) /\ Value(w, LONG) = q
  <2> HIDE DEF c
  <2> QED
    BY <1>1, <1>2, <1>4, SharIs
<1>6. l \in Nat /\ 2 ^ l \in Nat \ {0}
  <2>1. l \in Nat
    BY <1>1, <1>2 DEF Limited
  <2> HIDE DEF l
  <2> QED
    BY <2>1, PowerType
<1> HIDE DEF w, c
<1>7. q \in (-(2 * Top - 1))..(2 * Top - 1)
  <2> DEFINE d == 2 ^ l
             r == S % d
  <2> HIDE DEF d
  <2>1. S = q * d + r /\ q \in Int /\ r \in 0..(d - 1)
    BY <1>4, <1>6, DivMod DEF d
  <2>2. d \in Nat \ {0}
    BY <1>6 DEF d
  <2> HIDE DEF q, r
  <2>3. q <= 2 * Top - 1
    <3> SUFFICES ASSUME q >= 2 * Top PROVE FALSE
      BY <1>1, <2>1
    <3>1. q * d >= q
      BY <1>1, <2>1, <2>2
    <3>2. q * d \in Int
      BY <2>1, <2>2
    <3> QED
      BY <1>1, <1>4, <2>1, <3>1, <3>2
  <2>4. q >= -(2 * Top - 1)
    <3> SUFFICES ASSUME q + 1 <= -(2 * Top - 1) PROVE FALSE
      BY <1>1, <2>1
    <3> DEFINE f == -(q + 1)
    <3>1. f \in Nat \ {0} /\ f >= 2 * Top - 1
      BY <1>1, <2>1
    <3>2. f * d = -(q * d) - d
      BY <2>1, <2>2
    <3> HIDE DEF f
    <3>3. f * d >= f /\ f * d \in Int /\ q * d \in Int
      BY <2>1, <2>2, <3>1
    <3> QED
      BY <1>1, <1>4, <2>1, <2>2, <3>1, <3>2, <3>3
  <2>5. q \in (-(2 * Top - 1))..(2 * Top - 1)
    BY <2>1, <2>3, <2>4
  <2> QED
    BY <2>5
<1>8. u = (q + 1) % 2 ^ LONG
  <2> DEFINE L == 2 ^ LONG
  <2>1. L \in Nat \ {0} /\ q \in Int
    BY <1>2, <1>7
  <2>2. q % L = w
    BY <1>2, <1>5, ValueBack
  <2> HIDE DEF L, q
  <2>3. 1 \in Int
    OBVIOUS
  <2>4. ((q % L) + 1) % L = (q + 1) % L
    BY <2>1, <2>3, ModOfSum
  <2> QED
    BY <2>2, <2>4 DEF L
<1>9. u \in 0..(2 ^ LONG - 1) /\ Value(u, LONG) = q + 1
  <2>1. q + 1 \in (-H)..(H - 1)
    BY <1>1, <1>2, <1>7
  <2> HIDE DEF u, q
  <2> QED
    BY <1>2, <1>8, <2>1, ValueBack
<1>10. Half(u, LONG) \in 0..(2 ^ LONG - 1) /\ Value(Half(u, LONG), LONG) = (q + 1) \div 2
  <2> HIDE DEF u, q
  <2> QED
    BY <1>2, <1>9, HalfIs
<1>11. (q + 1) \div 2 = Rounded(S, P)
  <2>1. CASE P > MAN + 1
    <3>1. l >= MAN + 1 /\ l \in Nat
      BY <1>1, <1>2, <2>1 DEF Limited, c
    <3>2. 2 ^ MAN <= 2 ^ l
      <4>1. MAN <= l
        BY <1>1, <3>1
      <4> HIDE DEF l
      <4> QED
        BY <1>1, <3>1, <4>1, PowerGrows
    <3>3. q \in {0, -1}
      <4> DEFINE d == 2 ^ l
      <4>1. d \in Nat \ {0} /\ 2 * Top <= d
        BY <1>1, <1>6, <3>2
      <4> HIDE DEF d
      <4>2. S \in (-d)..(d - 1)
        BY <1>1, <1>4, <4>1
      <4>3. CASE S >= 0
        <5>1. S = 0 * d + S /\ S \in 0..(d - 1) /\ 0 \in Int
          BY <4>1, <4>2, <4>3
        <5> QED
          BY <1>4, <4>1, <5>1, DivModUnique DEF d
      <4>4. CASE S < 0
        <5>1. S = (-1) * d + (S + d) /\ S + d \in 0..(d - 1) /\ -1 \in Int
          BY <4>1, <4>2, <4>4
        <5>2. S \div d = -1
          BY <1>4, <4>1, <5>1, DivModUnique
        <5> QED
          BY <5>2 DEF d
      <4> QED
        BY <1>4, <4>3, <4>4
    <3>4. (q + 1) \div 2 = 0
      <4> HIDE DEF q
      <4> QED
        BY <3>3
    <3> QED
      BY <2>1, <3>4 DEF Rounded
  <2>2. CASE ~(P > MAN + 1)
    <3> DEFINE p == 2 ^ c
    <3>1. l = c /\ P = c + 1 /\ c \in Nat
      BY <1>1, <1>2, <2>2 DEF Limited, c
    <3>2. p \in Nat \ {0} /\ 2 ^ P = 2 * p /\ 2 ^ (P + 1) = 2 * (2 * p)
      <4>1. 2 ^ (P + 1) = 2 * 2 ^ P /\ 2 ^ (c + 1) = 2 * 2 ^ c /\ 2 ^ c \in Nat \ {0}
        BY <3>1, PowerNext, PowerType
      <4> QED
        BY <3>1, <4>1
    <3>3. q = S \div p
      BY <3>1
    <3> HIDE DEF p, q
    <3>4. q + 1 = (S + p) \div p
      <4>1. (S + 1 * p) \div p = (S \div p) + 1
        <5>1. 1 \in Int
          OBVIOUS
        <5> QED
          BY <1>4, <3>2, <5>1, DivAdd
      <4>2. S + 1 * p = S + p
        BY <1>4, <3>2
      <4> QED
        BY <3>3, <4>1, <4>2
    <3>5. (q + 1) \div 2 = (S + p) \div (2 * p)
      <4>1. S + p \in Int
        BY <1>4, <3>2
      <4>2. ((S + p) \div p) \div 2 = (S + p) \div (2 * p)
        BY <3>2, <4>1, HalvedQuotient
      <4> QED
        BY <3>4, <4>2
    <3>6. (2 * S + 2 ^ P) \div 2 ^ (P + 1) = (S + p) \div (2 * p)
      <4> DEFINE y == S + p
                 d == 2 * p
      <4>1. y \in Int /\ d \in Nat \ {0} /\ 2 * S + 2 ^ P = 2 * y /\ 2 ^ (P + 1) = 2 * d
        BY <1>4, <3>2
      <4> HIDE DEF y, d
      <4>2. (2 * y) \div 2 = y
        BY <4>1
      <4>3. 2 * y \in Int /\ 2 \in Nat \ {0}
        BY <4>1
      <4>4. ((2 * y) \div 2) \div d = (2 * y) \div (2 * d)
        BY <4>1, <4>3, DivTwice, Zenon
      <4> QED
        BY <4>1, <4>2, <4>4 DEF y, d
    <3> QED
      BY <2>2, <3>5, <3>6 DEF Rounded
  <2> QED
    BY <2>1, <2>2
<1> QED
  BY <1>3, <1>10, <1>11 DEF S, e

-----------------------------------------------------------------------------
(* The number with the value of an integer.                                 *)
FloatOf(v) == IF v < 0 THEN Toggled(LIToF(-v)) ELSE LIToF(v)
Form(v, k) == Num(v < 0, BIAS + MAN - k, Magnitude(v) * 2 ^ k)

LEMMA ToggledIs ==
  \A n, e, m : /\ Toggled(Num(FALSE, e, m)) = Num(TRUE, e, m)
               /\ Toggled(Num(TRUE, e, m)) = Num(FALSE, e, m)
<1> TAKE n, e, m
<1>1. ASSUME NEW b \in BOOLEAN PROVE Toggled(Num(b, e, m)) = Num(~b, e, m)
  <2> DEFINE c == ~b
  <2>1. Num(b, e, m).neg = b
    BY NumFields
  <2>2. [Num(b, e, m) EXCEPT !.neg = c] = Num(c, e, m)
    BY NumChanged
  <2> QED
    BY <2>1, <2>2 DEF Toggled
<1>2. Num(~FALSE, e, m) = Num(TRUE, e, m) /\ Num(~TRUE, e, m) = Num(FALSE, e, m)
  OBVIOUS
<1> QED
  BY <1>1, <1>2

LEMMA OnePlace ==
  ASSUME NEW m \in Nat \ {0}, NEW j \in Nat, NEW k \in Nat,
         m * 2 ^ j \in Top..(2 * Top - 1), m * 2 ^ k \in Top..(2 * Top - 1)
  PROVE  j = k
<1>1. ASSUME NEW a \in Nat, NEW b \in Nat, a < b, m * 2 ^ a >= Top, m * 2 ^ b < 2 * Top PROVE FALSE
  <2> DEFINE p == 2 ^ a
             q == 2 ^ b
  <2>1. p \in Nat \ {0} /\ q \in Nat \ {0}
    BY <1>1, PowerType
  <2>2. 2 * p <= q
    <3>1. 2 ^ (a + 1) <= 2 ^ b
      BY <1>1, PowerGrows
    <3>2. 2 ^ (a + 1) = 2 * 2 ^ a
      BY <1>1, PowerNext
    <3> QED
      BY <3>1, <3>2
  <2>3. m * p >= Top /\ m * q < 2 * Top
    BY <1>1
  <2> HIDE DEF p, q
  <2> DEFINE d == q - 2 * p
  <2>4. d \in Nat /\ q = 2 * p + d
    BY <2>1, <2>2
  <2> HIDE DEF d
  <2>5. m * q = 2 * (m * p) + m * d /\ m * d \in Nat /\ m * p \in Nat
    BY <2>1, <2>4
  <2>6. Top \in Nat
    BY FloatWidths
  <2> QED
    BY <2>3, <2>5, <2>6
<1>2. Top \in Nat /\ m * 2 ^ j >= Top /\ m * 2 ^ k >= Top /\ m * 2 ^ j < 2 * Top /\ m * 2 ^ k < 2 * Top
  <2>1. Top \in Nat
    BY FloatWidths
  <2> DEFINE x == m * 2 ^ j
             y == m * 2 ^ k
  <2>2. x \in Top..(2 * Top - 1) /\ y \in Top..(2 * Top - 1)
    OBVIOUS
  <2> HIDE DEF x, y
  <2>3. x >= Top /\ y >= Top /\ x < 2 * Top /\ y < 2 * Top
    BY <2>1, <2>2
  <2> QED
    BY <2>1, <2>3 DEF x, y
<1>3. ~(j < k)
  BY <1>1, <1>2
<1>4. ~(k < j)
  BY <1>1, <1>2
<1> QED
  BY <1>3, <1>4

LEMMA LIToFIs ==
  /\ LIToF(0) = Zero
  /\ \A m \in 1..(2 * Top - 1) : \E k \in 0..(MAN - 1) :
       m * 2 ^ k \in Top..(2 * Top - 1) /\ LIToF(m) = Num(FALSE, BIAS + MAN - k, m * 2 ^ k)
<1> DEFINE e == BIAS + MAN
<1>1. BIAS \in Nat /\ MAN \in Nat /\ 2 ^ MAN = 2 * Top /\ Top \in Nat \ {0} /\ e \in Int
  BY FloatWidths
<1>2. \A m : LIToF(m) = Norm(Num(FALSE, e, m))
  BY DEF LIToF, Num
<1> HIDE DEF e
<1>3. LIToF(0) = Zero
  <2>1. 0 \in 0..(2 ^ MAN - 1)
    BY <1>1
  <2> QED
    BY <1>1, <1>2, <2>1, NormIs
<1>4. ASSUME NEW m \in 1..(2 * Top - 1)
      PROVE  \E k \in 0..(MAN - 1) : m * 2 ^ k \in Top..(2 * Top - 1) /\ LIToF(m) = Num(FALSE, BIAS + MAN - k, m * 2 ^ k)
  <2>1. m \in 0..(2 ^ MAN - 1) /\ m # 0 /\ FALSE \in BOOLEAN
    BY <1>1
  <2>2. PICK k \in 0..(MAN - 1) : m * 2 ^ k \in Top..(2 ^ MAN - 1)
                                  /\ Norm(Num(FALSE, e, m)) = IF e < k THEN Zero ELSE Num(FALSE, e - k, m * 2 ^ k)
    BY <1>1, <2>1, NormIs
  <2>3. ~(e < k)
    BY <1>1 DEF e
  <2>4. LIToF(m) = Num(FALSE, e - k, m * 2 ^ k)
    BY <1>2, <2>2, <2>3
  <2>5. e - k = BIAS + MAN - k
    BY <1>1 DEF e
  <2> QED
    BY <1>1, <2>2, <2>4, <2>5
<1>5. \A m \in 1..(2 * Top - 1) : \E k \in 0..(MAN - 1) : m * 2 ^ k \in Top..(2 * Top - 1) /\ LIToF(m) = Num(FALSE, BIAS + MAN - k, m * 2 ^ k)
  BY <1>4, Zenon
<1> QED
  BY <1>3, <1>5, Zenon

LEMMA FloatOfIs ==
  /\ FloatOf(0) = Zero
  /\ \A v \in Int : v # 0 /\ Magnitude(v) <= 2 * Top - 1 =>
       \E k \in 0..(MAN - 1) : Magnitude(v) * 2 ^ k \in Top..(2 * Top - 1) /\ FloatOf(v) = Form(v, k)
<1>1. Top \in Nat \ {0}
  BY FloatWidths
<1>2. FloatOf(0) = Zero
  BY LIToFIs DEF FloatOf
<1>3. ASSUME NEW v \in Int, v # 0, Magnitude(v) <= 2 * Top - 1
      PROVE  \E k \in 0..(MAN - 1) : Magnitude(v) * 2 ^ k \in Top..(2 * Top - 1) /\ FloatOf(v) = Form(v, k)
  <2> DEFINE m == Magnitude(v)
  <2>1. m \in 1..(2 * Top - 1) /\ (v < 0 => m = -v) /\ (~(v < 0) => m = v)
    BY <1>1, <1>3 DEF Magnitude
  <2> HIDE DEF m
  <2>2. PICK k \in 0..(MAN - 1) : m * 2 ^ k \in Top..(2 * Top - 1) /\ LIToF(m) = Num(FALSE, BIAS + MAN - k, m * 2 ^ k)
    BY <2>1, LIToFIs
  <2> DEFINE e == BIAS + MAN - k
             c == m * 2 ^ k
  <2>3. LIToF(m) = Num(FALSE, e, c)
    BY <2>2
  <2>4. Form(v, k) = Num(v < 0, e, c)
    BY DEF Form, m
  <2>5. c \in Top..(2 * Top - 1)
    BY <2>2
  <2> HIDE DEF e, c
  <2>6. FloatOf(v) = Num(v < 0, e, c)
    <3>1. CASE v < 0
      <4>1. FloatOf(v) = Toggled(Num(FALSE, e, c))
        BY <2>1, <2>3, <3>1 DEF FloatOf
      <4>3. Toggled(Num(FALSE, e, c)) = Num(TRUE, e, c)
        BY ToggledIs, Zenon
      <4>4. (v < 0) = TRUE
        BY <3>1
      <4> QED
        BY <4>1, <4>3, <4>4
    <3>2. CASE ~(v < 0)
      <4>1. FloatOf(v) = Num(FALSE, e, c)
        BY <2>1, <2>3, <3>2 DEF FloatOf
      <4>2. (v < 0) = FALSE
        BY <3>2
      <4> QED
        BY <4>1, <4>2
    <3> QED
      BY <3>1, <3>2
  <2>7. FloatOf(v) = Form(v, k)
    BY <2>4, <2>6
  <2> QED
    BY <2>5, <2>7 DEF c, m
<1> QED
  BY <1>2, <1>3

(* Any number with the value of an integer is that one.                     *)
LEMMA FormIsFloatOf ==
  ASSUME NEW v \in Int, v # 0, NEW k \in Nat, Magnitude(v) * 2 ^ k \in Top..(2 * Top - 1)
  PROVE  FloatOf(v) = Form(v, k) /\ Magnitude(v) <= 2 * Top - 1 /\ k \in 0..(MAN - 1)
<1> DEFINE m == Magnitude(v)
<1>1. Top \in Nat \ {0} /\ m \in Nat \ {0}
  BY FloatWidths DEF Magnitude
<1>2. m <= 2 * Top - 1
  <2> DEFINE p == 2 ^ k
  <2>1. p \in Nat \ {0} /\ m * p \in Top..(2 * Top - 1)
    BY PowerType
  <2> HIDE DEF p, m
  <2>2. m * p >= m /\ m * p \in Nat
    BY <1>1, <2>1
  <2> QED
    BY <1>1, <2>1, <2>2
<1>3. PICK j \in 0..(MAN - 1) : m * 2 ^ j \in Top..(2 * Top - 1) /\ FloatOf(v) = Form(v, j)
  BY <1>2, FloatOfIs
<1>4. j \in Nat
  BY FloatWidths
<1>5. j = k
  <2>1. m * 2 ^ j \in Top..(2 * Top - 1) /\ m * 2 ^ k \in Top..(2 * Top - 1)
    BY <1>3
  <2> HIDE DEF m
  <2> QED
    BY <1>1, <1>4, <2>1, OnePlace, Zenon
<1> QED
  BY <1>2, <1>3, <1>5

-----------------------------------------------------------------------------
(* ftol() takes a number to the nearest integer.                            *)
LEMMA NearestIsRounded ==
  ASSUME NEW x \in FLOATs, Units(x)
  PROVE  /\ Places(x) \in Nat /\ x = Num(x.neg, BIAS + MAN - Places(x), x.man)
         /\ Nearest(x) = Rounded(Sgn(x.neg, x.man), Places(x))
<1> DEFINE P == Places(x)
<1>1. BIAS \in Nat /\ MAN \in Nat
  BY FloatWidths
<1>2. x = Num(x.neg, x.exp, x.man) /\ x.exp \in Nat /\ x.man \in Nat /\ x.neg \in BOOLEAN
  BY FloatForm
<1>3. P \in Nat /\ BIAS + MAN - P = x.exp
  BY <1>1, <1>2 DEF Places, Units
<1>4. Signed(x, x.man) = Sgn(x.neg, x.man)
  BY DEF Signed, Sgn
<1>5. Nearest(x) = IF P > MAN + 1 THEN 0 ELSE (2 * Sgn(x.neg, x.man) + 2 ^ P) \div 2 ^ (P + 1)
  BY <1>4 DEF Nearest
<1> HIDE DEF P
<1>6. Nearest(x) = Rounded(Sgn(x.neg, x.man), P)
  BY <1>5 DEF Rounded
<1> QED
  BY <1>2, <1>3, <1>6 DEF P

LEMMA RoundedWhole ==
  \A S \in Int : Rounded(S, 0) = S
<1> TAKE S \in Int
<1>1. MAN \in Nat
  BY FloatWidths
<1>2. 2 ^ 0 = 1 /\ 2 ^ (0 + 1) = 2
  BY PowerZero
<1>3. (2 * S + 1) \div 2 = S
  OBVIOUS
<1>4. ~(0 > MAN + 1)
  BY <1>1
<1> QED
  BY <1>2, <1>3, <1>4 DEF Rounded

LEMMA FToLIs ==
  ASSUME NEW n \in BOOLEAN, NEW m \in 0..(2 * Top - 1), NEW P \in Nat
  PROVE  /\ FToL(Num(n, BIAS + MAN - P, m)) \in 0..(2 ^ LONG - 1)
         /\ Value(FToL(Num(n, BIAS + MAN - P, m)), LONG) = Rounded(Sgn(n, m), P)
<1>1. CASE P = 0
  <2>1. BIAS \in Nat /\ MAN \in Nat /\ m \in Nat /\ LONG \in Nat
    BY FloatWidths, LongWidths
  <2>2. BIAS + MAN - P = BIAS + MAN + 0 /\ 0 \in 0..LONG
    BY <1>1, <2>1
  <2>3. FToL(Num(n, BIAS + MAN + 0, m)) = (Sgn(n, m) * 2 ^ 0) % 2 ^ LONG
    BY <2>2, FToLUp
  <2>4. Sgn(n, m) \in Int /\ Sgn(n, m) % 2 ^ LONG \in 0..(2 ^ LONG - 1) /\ Value(Sgn(n, m) % 2 ^ LONG, LONG) = Sgn(n, m)
    BY MantissaLong
  <2>5. Sgn(n, m) * 2 ^ 0 = Sgn(n, m)
    BY <2>4, PowerZero
  <2>6. Rounded(Sgn(n, m), P) = Sgn(n, m)
    BY <1>1, <2>4, RoundedWhole
  <2> QED
    BY <2>2, <2>3, <2>4, <2>5, <2>6
<1>2. CASE P # 0
  BY <1>2, FToLDown
<1> QED
  BY <1>1, <1>2

LEMMA FToLRight ==
  ASSUME NEW x \in FLOATs, Units(x)
  PROVE  FToL(x) \in 0..(2 ^ LONG - 1) /\ Value(FToL(x), LONG) = Nearest(x)
<1>1. Places(x) \in Nat /\ x = Num(x.neg, BIAS + MAN - Places(x), x.man)
      /\ Nearest(x) = Rounded(Sgn(x.neg, x.man), Places(x))
  BY NearestIsRounded
<1>2. x.neg \in BOOLEAN /\ x.man \in 0..(2 * Top - 1)
  BY FloatForm
<1> DEFINE n == x.neg
           m == x.man
           P == Places(x)
           z == Num(n, BIAS + MAN - P, m)
<1>3. FToL(z) \in 0..(2 ^ LONG - 1) /\ Value(FToL(z), LONG) = Rounded(Sgn(n, m), P)
  BY <1>1, <1>2, FToLIs
<1>4. x = z
  BY <1>1
<1> QED
  BY <1>1, <1>3, <1>4

LEMMA FToLOfZero == FToL(Zero) = 0
<1>1. BIAS \in Nat /\ MAN \in Nat /\ Top \in Nat \ {0} /\ BIAS > LONG /\ LONG \in Nat /\ LONG >= 1 /\ LONG = MAN + BYTE /\ BYTE >= 4 /\ BYTE \in Nat
  BY FloatWidths, LongWidths
<1> DEFINE P == BIAS + MAN
<1>2. P \in Nat /\ BIAS + MAN - P = 0 /\ P > MAN + 1 /\ 0 \in 0..(2 * Top - 1)
  BY <1>1
<1>3. Num(FALSE, 0, 0) = Zero
  BY DEF Num, Zero
<1> HIDE DEF P
<1>4. FToL(Num(FALSE, BIAS + MAN - P, 0)) \in 0..(2 ^ LONG - 1)
      /\ Value(FToL(Num(FALSE, BIAS + MAN - P, 0)), LONG) = Rounded(Sgn(FALSE, 0), P)
  BY <1>2, FToLIs
<1>5. Rounded(Sgn(FALSE, 0), P) = 0
  BY <1>2 DEF Rounded
<1>6. FToL(Zero) \in 0..(2 ^ LONG - 1) /\ Value(FToL(Zero), LONG) = 0
  BY <1>2, <1>3, <1>4, <1>5
<1>7. 0 % 2 ^ LONG = FToL(Zero)
  BY <1>1, <1>6, ValueBack
<1>8. 2 ^ LONG \in Nat \ {0}
  BY <1>1, PowerType
<1> QED
  BY <1>7, <1>8

(* From the number of an integer, back to it.                               *)
LEMMA RoundedMultiple ==
  ASSUME NEW S \in Int, NEW k \in 0..(MAN - 1)
  PROVE  Rounded(S * 2 ^ k, k) = S
<1> DEFINE p == 2 ^ k
<1>1. MAN \in Nat /\ k \in Nat
  BY FloatWidths
<1>2. p \in Nat \ {0} /\ 2 ^ (k + 1) = 2 * p
  BY <1>1, PowerType, PowerNext
<1>3. ~(k > MAN + 1)
  BY <1>1
<1>4. Rounded(S * 2 ^ k, k) = (2 * (S * p) + p) \div (2 * p)
  BY <1>2, <1>3 DEF Rounded
<1> HIDE DEF p
<1>5. 2 * (S * p) + p = S * (2 * p) + p /\ p \in 0..(2 * p - 1) /\ 2 * p \in Nat \ {0} /\ 2 * (S * p) + p \in Int
  BY <1>2
<1> DEFINE a == 2 * (S * p) + p
           d == 2 * p
<1> HIDE DEF a, d
<1>6. a \in Int /\ d \in Nat \ {0} /\ p \in 0..(d - 1) /\ a = S * d + p
  BY <1>5 DEF a, d
<1>7. a \div d = S
  BY <1>6, DivModUnique
<1> QED
  BY <1>4, <1>7 DEF a, d

LEMMA FToLOfSmall ==
  ASSUME NEW n \in BOOLEAN, NEW g \in 1..(2 * Top - 1), NEW k \in 0..(MAN - 1), g * 2 ^ k \in Top..(2 * Top - 1)
  PROVE  FToL(Num(n, BIAS + MAN - k, g * 2 ^ k)) = Sgn(n, g) % 2 ^ LONG
<1> DEFINE m == g * 2 ^ k
           r == FToL(Num(n, BIAS + MAN - k, m))
<1>1. Top \in Nat \ {0} /\ MAN \in Nat /\ k \in Nat /\ g \in Nat /\ LONG \in Nat /\ LONG >= 1
  BY FloatWidths, LongWidths
<1>2. m \in 0..(2 * Top - 1)
  <2> HIDE DEF m
  <2>1. m \in Top..(2 * Top - 1)
    BY DEF m
  <2> QED
    BY <1>1, <2>1
<1>3. 2 ^ k \in Int
  BY <1>1, PowerType
<1>4. Sgn(n, m) = Sgn(n, g) * 2 ^ k /\ Sgn(n, g) \in Int
  BY <1>1, <1>3, SgnIs
<1>5. Rounded(Sgn(n, m), k) = Sgn(n, g)
  <2>1. Rounded(Sgn(n, g) * 2 ^ k, k) = Sgn(n, g)
    BY <1>4, RoundedMultiple
  <2> QED
    BY <1>4, <2>1
<1> HIDE DEF m
<1>6. r \in 0..(2 ^ LONG - 1) /\ Value(r, LONG) = Rounded(Sgn(n, m), k)
  BY <1>1, <1>2, FToLIs
<1> HIDE DEF r
<1>7. Value(r, LONG) % 2 ^ LONG = r
  BY <1>1, <1>6, ValueBack
<1> QED
  BY <1>5, <1>6, <1>7 DEF r, m

-----------------------------------------------------------------------------
(* A long of more bits than a mantissa, less its low byte.                  *)
LEMMA LargeNormalized ==
  ASSUME NEW g \in (2 * Top)..(2 ^ LONG - 1)
  PROVE  \E k \in 0..BYTE, h \in 1..(2 * Top - 1) :
           /\ h = g \div 2 ^ BYTE /\ h * 2 ^ k \in Top..(2 * Top - 1)
           /\ LLToF(g) = Num(FALSE, BIAS + MAN + (BYTE - k), h * 2 ^ k)
<1> DEFINE b == 2 ^ BYTE
           h == g \div b
           e == BIAS + MAN + BYTE
<1>1. /\ BIAS \in Nat /\ MAN \in Nat /\ BYTE \in Nat /\ BYTE >= 4 /\ MAN = 3 * BYTE /\ Top \in Nat \ {0}
      /\ 2 ^ MAN = 2 * Top /\ 2 ^ LONG = (2 * Top) * b /\ b \in Nat \ {0}
  BY FloatWidths, LongWidths
<1>2. b <= 2 * Top
  <2>1. BYTE <= MAN
    BY <1>1
  <2> QED
    BY <1>1, <2>1, PowerGrows
<1>3. g \in Nat /\ g >= 2 * Top /\ g < (2 * Top) * b
  <2> DEFINE L == 2 ^ LONG
  <2>1. L \in Nat /\ L = (2 * Top) * b /\ g \in (2 * Top)..(L - 1)
    BY <1>1
  <2> HIDE DEF L, b
  <2> QED
    BY <1>1, <2>1
<1>4. LLToF(g) = Norm(Num(FALSE, e, h))
  <2>1. ~(g < 2 ^ MAN)
    BY <1>1, <1>3
  <2> QED
    BY <2>1 DEF LLToF, Num
<1> HIDE DEF b
<1>5. h \in 1..(2 * Top - 1)
  <2>1. 1 * b <= g
    BY <1>1, <1>2, <1>3
  <2>2. 1 \in Nat /\ 2 * Top \in Nat
    BY <1>1
  <2> QED
    BY <1>1, <1>3, <2>1, <2>2, QuotientRange
<1>6. g = h * b + (g % b) /\ g % b \in 0..(b - 1)
  <2>1. g \in Int /\ b \in Nat \ {0}
    BY <1>1, <1>3
  <2> QED
    BY <2>1, DivMod, Zenon
<1> DEFINE r == g % b
<1>7. h \in 0..(2 ^ MAN - 1) /\ h # 0 /\ e \in Int /\ h \in Nat \ {0}
  BY <1>1, <1>5
<1> HIDE DEF h, r, e
<1>8. PICK k \in 0..(MAN - 1) : h * 2 ^ k \in Top..(2 ^ MAN - 1)
        /\ Norm(Num(FALSE, e, h)) = IF e < k THEN Zero ELSE Num(FALSE, e - k, h * 2 ^ k)
  BY <1>7, NormIs
<1> DEFINE c == h * 2 ^ k
<1>9. c \in Top..(2 * Top - 1)
  BY <1>1, <1>8
<1>10. k \in 0..BYTE
  <2> SUFFICES ASSUME k >= BYTE + 1 PROVE FALSE
    BY <1>1
  <2> DEFINE p == 2 ^ k
  <2>1. p \in Nat \ {0} /\ 2 * b <= p
    <3>1. k \in Nat /\ 2 ^ (BYTE + 1) <= 2 ^ k /\ 2 ^ (BYTE + 1) = 2 * 2 ^ BYTE /\ 2 ^ k \in Nat \ {0}
      BY <1>1, PowerGrows, PowerNext, PowerType
    <3> QED
      BY <3>1 DEF b
  <2>2. h * p < 2 * Top /\ h * p \in Nat
    <3> HIDE DEF p
    <3>1. h * p \in Nat
      BY <1>7, <2>1
    <3>2. h * p = c
      BY DEF p
    <3> HIDE DEF c
    <3> QED
      BY <1>1, <1>9, <3>1, <3>2
  <2> HIDE DEF p, c
  <2> DEFINE d == p - 2 * b
             a == h * b
             f == (h - 1) * b
  <2>3. d \in Nat /\ p = 2 * b + d /\ f \in Nat
    BY <1>1, <1>7, <2>1
  <2> HIDE DEF d
  <2>4. h * p = 2 * a + h * d /\ h * d \in Nat /\ a \in Nat /\ a = f + b
    BY <1>1, <1>7, <2>3
  <2> HIDE DEF a, f
  <2>5. g = a + r /\ r < b /\ r \in Nat
    BY <1>1, <1>6 DEF a, r
  <2> QED
    BY <1>1, <1>3, <2>2, <2>3, <2>4, <2>5
<1>11. ~(e < k) /\ e - k = BIAS + MAN + (BYTE - k)
  BY <1>1, <1>10 DEF e
<1>12. LLToF(g) = Num(FALSE, BIAS + MAN + (BYTE - k), h * 2 ^ k)
  BY <1>4, <1>8, <1>11
<1> QED
  BY <1>1, <1>5, <1>8, <1>10, <1>12 DEF h, b

LEMMA FToLOfLarge ==
  ASSUME NEW n \in BOOLEAN, NEW h \in 1..(2 * Top - 1), NEW k \in 0..BYTE, h * 2 ^ k \in Top..(2 * Top - 1)
  PROVE  FToL(Num(n, BIAS + MAN + (BYTE - k), h * 2 ^ k)) = Sgn(n, h * 2 ^ BYTE) % 2 ^ LONG
<1> DEFINE m == h * 2 ^ k
           j == BYTE - k
<1>1. Top \in Nat \ {0} /\ BYTE \in Nat /\ k \in Nat /\ h \in Nat /\ LONG \in Nat /\ j \in 0..LONG /\ j \in Nat /\ k + j = BYTE
  BY FloatWidths, LongWidths
<1>2. m \in 0..(2 * Top - 1) /\ m \in Nat
  <2>1. m \in Top..(2 * Top - 1)
    OBVIOUS
  <2> HIDE DEF m
  <2> QED
    BY <1>1, <2>1
<1>3. 2 ^ BYTE = 2 ^ k * 2 ^ j /\ 2 ^ k \in Nat /\ 2 ^ j \in Nat
  <2> HIDE DEF j
  <2>1. 2 ^ (k + j) = 2 ^ k * 2 ^ j
    BY <1>1, PowerSum
  <2> QED
    BY <1>1, <2>1, PowerType
<1>4. m * 2 ^ j = h * 2 ^ BYTE
  <2> DEFINE p == 2 ^ k
             q == 2 ^ j
             w == 2 ^ BYTE
  <2>1. p \in Nat /\ q \in Nat /\ w = p * q /\ m = h * p
    BY <1>3
  <2> HIDE DEF p, q, w, m
  <2>2. m * q = h * w
    BY <1>1, <2>1
  <2> QED
    BY <2>2 DEF q, w
<1> HIDE DEF m, j
<1>5. FToL(Num(n, BIAS + MAN + j, m)) = (Sgn(n, m) * 2 ^ j) % 2 ^ LONG
  BY <1>1, <1>2, FToLUp
<1>6. Sgn(n, m * 2 ^ j) = Sgn(n, m) * 2 ^ j
  <2>1. 2 ^ j \in Int
    BY <1>3
  <2> QED
    BY <1>2, <2>1, SgnIs
<1> QED
  BY <1>4, <1>5, <1>6 DEF m, j

LEMMA LongFloat ==
  ASSUME NEW g \in 1..(2 ^ LONG - 1)
  PROVE  \E e \in 0..(2 * BIAS - 1), m \in Top..(2 * Top - 1) :
           LLToF(g) = Num(FALSE, e, m) /\ \A n \in BOOLEAN : FToL(Num(n, e, m)) = Sgn(n, Kept(g)) % 2 ^ LONG
<1>1. /\ BIAS \in Nat /\ MAN \in Nat /\ BYTE \in Nat /\ LONG \in Nat /\ LONG = MAN + BYTE /\ BIAS > LONG
      /\ Top \in Nat \ {0} /\ 2 ^ MAN = 2 * Top
  BY FloatWidths, LongWidths
<1>2. CASE g < 2 * Top
  <2>1. g \in 1..(2 * Top - 1) /\ g < 2 ^ MAN
    BY <1>1, <1>2
  <2>2. PICK k \in 0..(MAN - 1) : g * 2 ^ k \in Top..(2 * Top - 1) /\ LIToF(g) = Num(FALSE, BIAS + MAN - k, g * 2 ^ k)
    BY <2>1, LIToFIs
  <2>3. LLToF(g) = LIToF(g) /\ Kept(g) = g
    BY <2>1 DEF LLToF, LIToF, Kept
  <2>4. \A n \in BOOLEAN : FToL(Num(n, BIAS + MAN - k, g * 2 ^ k)) = Sgn(n, Kept(g)) % 2 ^ LONG
    BY <2>1, <2>2, <2>3, FToLOfSmall
  <2>5. BIAS + MAN - k \in 0..(2 * BIAS - 1)
    BY <1>1
  <2> QED
    BY <2>2, <2>3, <2>4, <2>5
<1>3. CASE ~(g < 2 * Top)
  <2>1. g \in (2 * Top)..(2 ^ LONG - 1) /\ ~(g < 2 ^ MAN) /\ g \in Nat
    <3> DEFINE L == 2 ^ LONG
    <3>1. L \in Nat /\ g \in 1..(L - 1)
      BY <1>1, PowerType
    <3> HIDE DEF L
    <3>2. g \in (2 * Top)..(L - 1) /\ ~(g < 2 ^ MAN) /\ g \in Nat
      BY <1>1, <1>3, <3>1
    <3> QED
      BY <3>2 DEF L
  <2>2. PICK k \in 0..BYTE, h \in 1..(2 * Top - 1) :
           /\ h = g \div 2 ^ BYTE /\ h * 2 ^ k \in Top..(2 * Top - 1)
           /\ LLToF(g) = Num(FALSE, BIAS + MAN + (BYTE - k), h * 2 ^ k)
    BY <2>1, LargeNormalized
  <2>3. Kept(g) = h * 2 ^ BYTE
    <3> DEFINE b == 2 ^ BYTE
    <3>1. b \in Nat \ {0} /\ h = g \div b
      BY <1>1, <2>2, PowerType
    <3>2. Kept(g) = g - (g % b)
      BY <2>1 DEF Kept
    <3> HIDE DEF b
    <3>3. g = (g \div b) * b + (g % b) /\ g % b \in 0..(b - 1)
      BY <2>1, <3>1, DivMod
    <3> DEFINE r == g % b
               a == h * b
    <3>4. g = a + r /\ r \in Int /\ a \in Int
      BY <1>1, <3>1, <3>3
    <3> HIDE DEF a, r
    <3>5. g - r = a
      BY <3>4
    <3> QED
      BY <3>2, <3>5 DEF a, r, b
  <2>4. \A n \in BOOLEAN : FToL(Num(n, BIAS + MAN + (BYTE - k), h * 2 ^ k)) = Sgn(n, Kept(g)) % 2 ^ LONG
    BY <2>2, <2>3, FToLOfLarge
  <2>5. BIAS + MAN + (BYTE - k) \in 0..(2 * BIAS - 1)
    BY <1>1
  <2> QED
    BY <2>2, <2>4, <2>5
<1> QED
  BY <1>2, <1>3

-----------------------------------------------------------------------------
(* A word is less than a mantissa by three bits.                            *)
LEMMA WordInMantissa ==
  /\ WORD \in Nat /\ WORD >= 1 /\ 2 ^ WORD \in Nat \ {0} /\ 8 * 2 ^ WORD <= Top /\ Top \in Nat \ {0}
  /\ 2 ^ WORD <= 2 ^ LONG - 1 /\ 2 ^ WORD <= 2 ^ (LONG - 1) - 1 /\ 2 ^ LONG \in Nat /\ 2 ^ MAN = 2 * Top
<1>1. BYTE \in Nat /\ BYTE >= 4 /\ MAN = 3 * BYTE /\ WORD = 2 * BYTE /\ 2 ^ MAN = 2 * Top /\ Top \in Nat \ {0}
  BY FloatWidths
<1>2. WORD \in Nat /\ WORD + 3 \in Nat /\ WORD + 3 <= MAN - 1 /\ MAN - 1 \in Nat /\ WORD + 2 \in Nat /\ WORD + 1 \in Nat /\ WORD >= 1
  BY <1>1
<1>3. 2 ^ (WORD + 3) = 2 * 2 ^ (WORD + 2)
  <2>1. 2 ^ ((WORD + 2) + 1) = 2 * 2 ^ (WORD + 2)
    BY <1>2, PowerNext
  <2>2. (WORD + 2) + 1 = WORD + 3
    BY <1>2
  <2> QED
    BY <2>1, <2>2
<1>4. 2 ^ (WORD + 2) = 2 * 2 ^ (WORD + 1)
  <2>1. 2 ^ ((WORD + 1) + 1) = 2 * 2 ^ (WORD + 1)
    BY <1>2, PowerNext
  <2>2. (WORD + 1) + 1 = WORD + 2
    BY <1>2
  <2> QED
    BY <2>1, <2>2
<1>5. 2 ^ (WORD + 1) = 2 * 2 ^ WORD /\ 2 ^ WORD \in Nat \ {0}
  BY <1>2, PowerNext, PowerType
<1>6. 2 ^ (WORD + 3) <= Top
  BY <1>2, PowerGrows DEF Top
<1>7. 2 * Top <= 2 ^ (LONG - 1) /\ 2 ^ LONG = 2 * 2 ^ (LONG - 1) /\ 2 ^ (LONG - 1) \in Nat \ {0}
  BY LongWidths
<1>8. 8 * 2 ^ WORD <= Top
  BY <1>3, <1>4, <1>5, <1>6
<1> QED
  BY <1>1, <1>2, <1>5, <1>7, <1>8

LEMMA NumResigned ==
  \A e, m : \A s \in BOOLEAN :
    [Num(FALSE, e, m) EXCEPT !.neg = s] = Num(s, e, m) /\ [Num(FALSE, e, m) EXCEPT !.neg = FALSE] = Num(FALSE, e, m)
<1> TAKE e, m
<1> TAKE s \in BOOLEAN
<1> DEFINE n == FALSE
<1>1. n = FALSE
  OBVIOUS
<1> HIDE DEF n
<1>2. [Num(n, e, m) EXCEPT !.neg = s] = Num(s, e, m) /\ [Num(n, e, m) EXCEPT !.neg = n] = Num(n, e, m)
  BY NumChanged
<1> QED
  BY <1>1, <1>2

(* A number made of a long, with the sign of another.                       *)
LEMMA SignPut ==
  ASSUME NEW s \in BOOLEAN, NEW g \in 1..(2 ^ LONG - 1)
  PROVE  /\ Normal([LLToF(g) EXCEPT !.neg = s])
         /\ FToL([LLToF(g) EXCEPT !.neg = s]) = Sgn(s, Kept(g)) % 2 ^ LONG
         /\ [LLToF(g) EXCEPT !.neg = FALSE] = LLToF(g)
<1>1. PICK e \in 0..(2 * BIAS - 1), m \in Top..(2 * Top - 1) :
           LLToF(g) = Num(FALSE, e, m) /\ \A n \in BOOLEAN : FToL(Num(n, e, m)) = Sgn(n, Kept(g)) % 2 ^ LONG
  BY LongFloat
<1>2. [LLToF(g) EXCEPT !.neg = s] = Num(s, e, m) /\ [LLToF(g) EXCEPT !.neg = FALSE] = LLToF(g)
  <2>1. [Num(FALSE, e, m) EXCEPT !.neg = s] = Num(s, e, m) /\ [Num(FALSE, e, m) EXCEPT !.neg = FALSE] = Num(FALSE, e, m)
    BY NumResigned
  <2> QED
    BY <1>1, <2>1, Zenon
<1>3. Num(s, e, m) \in FLOATs
  BY FloatMade
<1>4. Normal(Num(s, e, m))
  BY <1>3, FloatsNormal
<1> QED
  BY <1>1, <1>2, <1>4

LEMMA ZeroSigned == [Zero EXCEPT !.neg = FALSE] = Zero
<1>1. Zero = Num(FALSE, 0, 0)
  BY DEF Zero, Num
<1>2. [Num(FALSE, 0, 0) EXCEPT !.neg = FALSE] = Num(FALSE, 0, 0)
  BY NumResigned
<1> QED
  BY <1>1, <1>2

LEMMA KeptRange ==
  ASSUME NEW x \in 0..(2 ^ LONG - 1)
  PROVE  Kept(x) \in 0..(2 ^ LONG - 1) /\ Kept(0) = 0 /\ (x # 0 => x \in 1..(2 ^ LONG - 1)) /\ LLToF(0) = Zero
<1> DEFINE L == 2 ^ LONG
           b == 2 ^ BYTE
<1>1. L \in Nat \ {0} /\ b \in Nat \ {0} /\ 2 ^ MAN \in Nat \ {0}
  BY LongWidths, FloatWidths, PowerType
<1>2. Kept(x) = IF x < 2 ^ MAN THEN x ELSE x - (x % b)
  BY DEF Kept
<1>3. x \in 0..(L - 1)
  OBVIOUS
<1> HIDE DEF L, b
<1>4. x % b \in 0..x
  BY <1>1, <1>3, QuotientInRange
<1>5. Kept(x) \in 0..(L - 1) /\ (x # 0 => x \in 1..(L - 1))
  <2> DEFINE r == x % b
  <2>1. r \in 0..x
    BY <1>4
  <2> HIDE DEF r
  <2> QED
    BY <1>1, <1>2, <1>3, <2>1 DEF r
<1>6. Kept(0) = 0 /\ LLToF(0) = LIToF(0)
  BY <1>1 DEF Kept, LLToF, LIToF
<1> QED
  BY <1>5, <1>6, LIToFIs DEF L

LEMMA LLToFRight ==
  ASSUME NEW x \in LONGs
  PROVE  Normal(LLToF(x)) /\ FToL(LLToF(x)) = Kept(x)
<1>1. x \in 0..(2 ^ LONG - 1)
  BY DEF LONGs
<1>2. Kept(x) \in 0..(2 ^ LONG - 1) /\ Kept(0) = 0 /\ (x # 0 => x \in 1..(2 ^ LONG - 1)) /\ LLToF(0) = Zero
  BY <1>1, KeptRange
<1>3. CASE x = 0
  BY <1>2, <1>3, FToLOfZero, ZeroNormal
<1>4. CASE x # 0
  <2>1. x \in 1..(2 ^ LONG - 1) /\ FALSE \in BOOLEAN
    BY <1>2, <1>4
  <2>2. Normal(LLToF(x)) /\ FToL(LLToF(x)) = Sgn(FALSE, Kept(x)) % 2 ^ LONG
    BY <2>1, SignPut
  <2>3. Sgn(FALSE, Kept(x)) % 2 ^ LONG = Kept(x)
    <3>1. 2 ^ LONG \in Nat \ {0}
      BY LongWidths, PowerType
    <3> DEFINE L == 2 ^ LONG
               k == Kept(x)
    <3>2. L \in Nat \ {0} /\ k \in 0..(L - 1) /\ Sgn(FALSE, k) = k
      BY <1>2, <3>1 DEF Sgn
    <3> HIDE DEF L, k
    <3>3. k % L = k
      BY <3>2, DivInRange
    <3> QED
      BY <3>2, <3>3 DEF L, k
  <2> QED
    BY <2>2, <2>3
<1> QED
  BY <1>3, <1>4

LEMMA LIToFRight ==
  ASSUME NEW w \in WORDs
  PROVE  Normal(LIToF(w)) /\ FToL(LIToF(w)) = w
<1> DEFINE W == 2 ^ WORD
           L == 2 ^ LONG
<1>1. w \in 0..(W - 1) /\ W \in Nat /\ L \in Nat /\ 8 * W <= Top /\ Top \in Nat /\ 2 ^ MAN = 2 * Top /\ W <= L - 1
  BY WordInMantissa DEF WORDs
<1> HIDE DEF W, L
<1>2. w \in 0..(L - 1) /\ w < 2 ^ MAN
  BY <1>1
<1>3. LLToF(w) = LIToF(w) /\ Kept(w) = w
  BY <1>2 DEF LLToF, LIToF, Kept
<1>4. w \in LONGs
  BY <1>2 DEF LONGs, L
<1> QED
  BY <1>3, <1>4, LLToFRight

LEMMA ALToFRight ==
  ASSUME NEW x \in LONGs
  PROVE  /\ Normal(ALToF(x))
         /\ FToL(ALToF(x)) = IF Sign(x, LONG) THEN Negat(Kept(Negat(x, LONG)), LONG) ELSE Kept(x)
<1> DEFINE g == NegIf(x, LONG)
<1>1. x \in 0..(2 ^ LONG - 1) /\ LONG \in Nat /\ LONG >= 1
  BY LongWidths DEF LONGs
<1>2. g \in 0..(2 ^ LONG - 1) /\ (Sign(x, LONG) <=> Value(x, LONG) < 0) /\ (x = 0 <=> g = 0)
  BY <1>1, NegIfIs
<1>3. g \in 0..(2 ^ LONG - 1) => Kept(g) \in 0..(2 ^ LONG - 1) /\ (g # 0 => g \in 1..(2 ^ LONG - 1)) /\ LLToF(0) = Zero
  <2> HIDE DEF g
  <2> QED
    BY KeptRange
<1>4. ALToF(x) = [LLToF(g) EXCEPT !.neg = Sign(x, LONG)]
  BY DEF ALToF
<1>5. CASE Sign(x, LONG)
  <2>1. g = Negat(x, LONG) /\ Sign(x, LONG) = TRUE /\ x # 0 /\ TRUE \in BOOLEAN
    <3>1. ~Sign(0, LONG)
      BY LongWidths DEF Sign
    <3> QED
      BY <1>5, <3>1 DEF NegIf, Sign
  <2>2. g \in 1..(2 ^ LONG - 1)
    BY <1>2, <1>3, <2>1
  <2>3. ALToF(x) = [LLToF(g) EXCEPT !.neg = TRUE]
    BY <1>4, <2>1
  <2> HIDE DEF g
  <2>4. Normal(ALToF(x)) /\ FToL(ALToF(x)) = Sgn(TRUE, Kept(g)) % 2 ^ LONG
    BY <2>1, <2>2, <2>3, SignPut
  <2>5. Negat(Kept(g), LONG) = (-Kept(g)) % 2 ^ LONG
    BY <1>1, <1>2, <1>3, Negated
  <2>6. Sgn(TRUE, Kept(g)) = -Kept(g)
    BY DEF Sgn
  <2> QED
    BY <1>5, <2>1, <2>4, <2>5, <2>6
<1>6. CASE ~Sign(x, LONG)
  <2>1. g = x /\ Sign(x, LONG) = FALSE
    BY <1>6 DEF NegIf, Sign
  <2>2. ALToF(x) = LLToF(x)
    <3>1. CASE x = 0
      BY <1>2, <1>3, <1>4, <2>1, <3>1, ZeroSigned
    <3>2. CASE x # 0
      <4>1. x \in 1..(2 ^ LONG - 1) /\ FALSE \in BOOLEAN
        BY <1>2, <1>3, <2>1, <3>2
      <4> QED
        BY <1>4, <2>1, <4>1, SignPut
    <3> QED
      BY <3>1, <3>2
  <2> QED
    BY <1>6, <2>2, LLToFRight
<1> QED
  BY <1>5, <1>6

-----------------------------------------------------------------------------
(* An integer's number is the one a conversion makes of it.                 *)
LEMMA FloatOfMade ==
  ASSUME NEW v \in Int, Magnitude(v) <= 2 * Top - 1
  PROVE  /\ FloatOf(v) \in FLOATs
         /\ FToL(FloatOf(v)) = v % 2 ^ LONG /\ Value(v % 2 ^ LONG, LONG) = v
         /\ [LIToF(Magnitude(v)) EXCEPT !.neg = v < 0] = FloatOf(v)
<1>1. /\ Top \in Nat \ {0} /\ BIAS \in Nat /\ MAN \in Nat /\ BIAS > LONG /\ LONG \in Nat /\ LONG >= 1 /\ LONG > MAN + 1
      /\ 2 * Top <= 2 ^ (LONG - 1) /\ 2 ^ (LONG - 1) \in Nat \ {0} /\ 2 ^ LONG \in Nat \ {0}
  BY FloatWidths, LongWidths, PowerType
<1>2. Value(v % 2 ^ LONG, LONG) = v
  <2>1. v \in (-(2 ^ (LONG - 1)))..(2 ^ (LONG - 1) - 1)
    <3> DEFINE H == 2 ^ (LONG - 1)
    <3>1. H \in Nat /\ 2 * Top <= H
      BY <1>1
    <3> HIDE DEF H
    <3>2. v \in (-H)..(H - 1)
      BY <1>1, <3>1 DEF Magnitude
    <3> QED
      BY <3>2 DEF H
  <2> QED
    BY <1>1, <2>1, ValueBack
<1>3. CASE v = 0
  <2>1. FloatOf(v) = Zero /\ (v < 0) = FALSE /\ Magnitude(v) = 0 /\ LIToF(0) = Zero
    BY <1>3, FloatOfIs, LIToFIs DEF Magnitude
  <2>2. v % 2 ^ LONG = 0
    BY <1>1, <1>3
  <2>3. Zero \in FLOATs
    BY DEF FLOATs
  <2>4. [Zero EXCEPT !.neg = FALSE] = Zero
    BY ZeroSigned
  <2>5. [LIToF(Magnitude(v)) EXCEPT !.neg = v < 0] = FloatOf(v)
    BY <2>1, <2>4
  <2> QED
    BY <1>2, <2>1, <2>2, <2>3, <2>5, FToLOfZero
<1>4. CASE v # 0
  <2> DEFINE g == Magnitude(v)
  <2>1. g \in 1..(2 * Top - 1) /\ (v < 0 => g = -v) /\ (~(v < 0) => g = v)
    BY <1>1, <1>4 DEF Magnitude
  <2>2. PICK k \in 0..(MAN - 1) : g * 2 ^ k \in Top..(2 * Top - 1) /\ FloatOf(v) = Form(v, k)
    BY <1>4, FloatOfIs
  <2> DEFINE n == v < 0
             e == BIAS + MAN - k
             c == g * 2 ^ k
  <2>3. FloatOf(v) = Num(n, e, c)
    BY <2>2 DEF Form
  <2>4. n \in BOOLEAN /\ e \in 0..(2 * BIAS - 1) /\ c \in Top..(2 * Top - 1)
    BY <1>1, <2>2
  <2>5. Sgn(n, g) = v
    BY <2>1 DEF Sgn
  <2>6. FToL(FloatOf(v)) = v % 2 ^ LONG
    <3> HIDE DEF n, g
    <3>1. FToL(Num(n, BIAS + MAN - k, g * 2 ^ k)) = Sgn(n, g) % 2 ^ LONG
      BY <2>1, <2>2, <2>4, FToLOfSmall
    <3> QED
      BY <2>3, <2>5, <3>1
  <2>7. FloatOf(v) \in FLOATs
    <3> HIDE DEF n, e, c
    <3> QED
      BY <2>3, <2>4, FloatMade
  <2>8. [LIToF(g) EXCEPT !.neg = n] = FloatOf(v)
    <3>1. PICK j \in 0..(MAN - 1) : LIToF(g) = Num(FALSE, BIAS + MAN - j, g * 2 ^ j)
      BY <2>1, LIToFIs
    <3> DEFINE f == BIAS + MAN - j
               d == g * 2 ^ j
    <3>2. LIToF(g) = Num(FALSE, f, d)
      BY <3>1
    <3> HIDE DEF f, d, n, g
    <3>3. [LIToF(g) EXCEPT !.neg = n] = Num(n, f, d)
      BY <2>4, <3>2, NumResigned
    <3>4. CASE v < 0
      <4>1. FloatOf(v) = Toggled(LIToF(g)) /\ n = TRUE
        BY <2>1, <3>4 DEF FloatOf, n
      <4>2. Toggled(Num(FALSE, f, d)) = Num(TRUE, f, d)
        BY ToggledIs, Zenon
      <4> QED
        BY <3>2, <3>3, <4>1, <4>2
    <3>5. CASE ~(v < 0)
      <4>1. FloatOf(v) = LIToF(g) /\ n = FALSE
        BY <2>1, <3>5 DEF FloatOf, n
      <4> QED
        BY <3>2, <3>3, <4>1
    <3> QED
      BY <3>4, <3>5
  <2> QED
    BY <1>2, <2>6, <2>7, <2>8
<1> QED
  BY <1>3, <1>4

LEMMA WordFloat ==
  ASSUME NEW x \in WORDs
  PROVE  /\ Value(x, WORD) \in Int /\ Magnitude(Value(x, WORD)) <= 2 ^ WORD
         /\ AIToF(x) = FloatOf(Value(x, WORD))
<1> DEFINE v == Value(x, WORD)
           W == 2 ^ WORD
<1>1. x \in 0..(W - 1) /\ WORD \in Nat /\ WORD >= 1 /\ W \in Nat /\ 8 * W <= Top /\ Top \in Nat
  BY WordInMantissa DEF WORDs
<1>2. NegIf(x, WORD) = Magnitude(v) /\ NegIf(x, WORD) \in 0..(W - 1) /\ v \in Int /\ (Sign(x, WORD) <=> v < 0)
  BY <1>1, NegIfIs
<1>3. Magnitude(v) <= W /\ Magnitude(v) <= 2 * Top - 1
  <2> HIDE DEF v, W
  <2> QED
    BY <1>1, <1>2
<1>4. Sign(x, WORD) = (v < 0)
  BY <1>2 DEF Sign
<1>5. AIToF(x) = [LIToF(Magnitude(v)) EXCEPT !.neg = v < 0]
  BY <1>2, <1>4 DEF AIToF
<1> HIDE DEF v
<1> QED
  BY <1>2, <1>3, <1>5, FloatOfMade DEF v

LEMMA AIToFRight ==
  ASSUME NEW x \in WORDs
  PROVE  Normal(AIToF(x)) /\ Value(FToL(AIToF(x)), LONG) = Value(x, WORD)
<1> DEFINE v == Value(x, WORD)
<1>1. v \in Int /\ Magnitude(v) <= 2 ^ WORD /\ AIToF(x) = FloatOf(v)
  BY WordFloat
<1> HIDE DEF v
<1>2. Magnitude(v) <= 2 * Top - 1
  <2>1. Magnitude(v) \in Int
    BY <1>1 DEF Magnitude
  <2> QED
    BY <1>1, <2>1, WordInMantissa
<1>3. FloatOf(v) \in FLOATs /\ FToL(FloatOf(v)) = v % 2 ^ LONG /\ Value(v % 2 ^ LONG, LONG) = v
  BY <1>1, <1>2, FloatOfMade
<1> QED
  BY <1>1, <1>3, FloatsNormal DEF v

(* frndint() makes the number of the nearest integer.                       *)
LEMMA NearestRange ==
  ASSUME NEW x \in FLOATs, Units(x)
  PROVE  Nearest(x) \in Int /\ Magnitude(Nearest(x)) <= 2 * Top - 1
<1> DEFINE S == Sgn(x.neg, x.man)
           P == Places(x)
<1>1. P \in Nat /\ Nearest(x) = Rounded(S, P)
  BY NearestIsRounded
<1>2. S \in Int /\ S \in (-(2 * Top - 1))..(2 * Top - 1)
  <2>1. x.neg \in BOOLEAN /\ x.man \in 0..(2 * Top - 1)
    BY FloatForm
  <2> DEFINE n == x.neg
             m == x.man
  <2>2. n \in BOOLEAN /\ m \in 0..(2 * Top - 1)
    BY <2>1
  <2> HIDE DEF n, m
  <2>3. Sgn(n, m) \in Int /\ Sgn(n, m) \in (-(2 * Top - 1))..(2 * Top - 1)
    BY <2>2, MantissaLong
  <2> QED
    BY <2>3 DEF n, m
<1>3. Top \in Nat \ {0} /\ MAN \in Nat
  BY FloatWidths
<1> HIDE DEF S, P
<1>4. CASE P > MAN + 1
  <2>1. Nearest(x) = 0
    BY <1>1, <1>4 DEF Rounded
  <2> QED
    BY <1>3, <2>1 DEF Magnitude
<1>5. CASE ~(P > MAN + 1)
  <2> DEFINE p == 2 ^ P
             N == Nearest(x)
  <2>1. p \in Nat \ {0} /\ 2 ^ (P + 1) = 2 * p
    BY <1>1, PowerType, PowerNext
  <2>2. N = (2 * S + p) \div (2 * p)
    BY <1>1, <1>5, <2>1 DEF Rounded
  <2> HIDE DEF p, N
  <2> DEFINE a == 2 * S + p
             d == 2 * p
             r == a % d
  <2>3. a \in Int /\ d \in Nat \ {0} /\ N = a \div d /\ a = 2 * S + p /\ d = 2 * p
    BY <1>2, <2>1, <2>2
  <2> HIDE DEF a, d
  <2>4. a = N * d + r /\ N \in Int /\ r \in 0..(d - 1)
    BY <2>3, DivMod
  <2> HIDE DEF r
  <2>5. 2 * (N * p) = 2 * S + p - r /\ N * p \in Int
    BY <1>2, <2>1, <2>3, <2>4
  <2>6. N <= 2 * Top - 1
    <3> SUFFICES ASSUME N >= 2 * Top PROVE FALSE
      BY <1>3, <2>4
    <3> DEFINE f == N - 2 * Top
               t == (2 * Top - 1) * (p - 1)
    <3>1. f \in Nat /\ N = f + 2 * Top /\ f * p \in Nat /\ t \in Nat
      BY <1>3, <2>1, <2>4
    <3> HIDE DEF f
    <3>2. N * p = f * p + (2 * Top) * p
      BY <1>3, <2>1, <3>1
    <3>3. (2 * Top) * p = t + p + (2 * Top - 1)
      BY <1>3, <2>1
    <3> HIDE DEF t
    <3> QED
      BY <1>2, <1>3, <2>1, <2>3, <2>4, <2>5, <3>1, <3>2, <3>3
  <2>7. N >= -(2 * Top - 1)
    <3> SUFFICES ASSUME N <= -(2 * Top) PROVE FALSE
      BY <1>3, <2>4
    <3> DEFINE f == -N - 2 * Top
               t == (2 * Top - 1) * (p - 1)
    <3>1. f \in Nat /\ N = -(f + 2 * Top) /\ f * p \in Nat /\ t \in Nat
      BY <1>3, <2>1, <2>4
    <3> HIDE DEF f
    <3>2. N * p = -(f * p + (2 * Top) * p)
      BY <1>3, <2>1, <3>1
    <3>3. (2 * Top) * p = t + p + (2 * Top - 1)
      BY <1>3, <2>1
    <3> HIDE DEF t
    <3> QED
      BY <1>2, <1>3, <2>1, <2>3, <2>4, <2>5, <3>1, <3>2, <3>3
  <2> QED
    BY <1>3, <2>4, <2>6, <2>7 DEF N, Magnitude
<1> QED
  BY <1>4, <1>5

LEMMA RoundedFloat ==
  ASSUME NEW x \in FLOATs, Units(x)
  PROVE  FRndInt(x) = FloatOf(Nearest(x))
<1> DEFINE w == FToL(x)
           v == Nearest(x)
<1>1. w \in 0..(2 ^ LONG - 1) /\ Value(w, LONG) = v /\ LONG \in Nat /\ LONG >= 1
  BY FToLRight, LongWidths
<1>2. v \in Int /\ Magnitude(v) <= 2 * Top - 1
  BY NearestRange
<1> HIDE DEF w, v
<1>3. NegIf(w, LONG) = Magnitude(v) /\ (Sign(w, LONG) <=> v < 0)
  BY <1>1, NegIfIs
<1>4. LLToF(Magnitude(v)) = LIToF(Magnitude(v))
  <2>1. Magnitude(v) < 2 ^ MAN
    <3>1. 2 ^ MAN = 2 * Top /\ Top \in Nat
      BY FloatWidths
    <3> QED
      BY <1>2, <3>1 DEF Magnitude
  <2> QED
    BY <2>1 DEF LLToF, LIToF
<1>5. Sign(w, LONG) = (v < 0)
  BY <1>3 DEF Sign
<1>6. ALToF(w) = [LIToF(Magnitude(v)) EXCEPT !.neg = v < 0]
  BY <1>3, <1>4, <1>5 DEF ALToF
<1>7. ALToF(w) = FloatOf(v)
  BY <1>2, <1>6, FloatOfMade
<1> QED
  BY <1>7 DEF FRndInt, w, v

-----------------------------------------------------------------------------
(* A sum of integers in units that leave a bit to spare is exact.           *)
LEMMA ScaledSign ==
  ASSUME NEW v \in Int, NEW p \in Nat \ {0}
  PROVE  /\ Magnitude(v * p) = Magnitude(v) * p /\ (v * p < 0 <=> v < 0) /\ (v * p = 0 <=> v = 0)
         /\ v * p \in Int /\ Magnitude(v) \in Nat
<1>1. CASE v < 0
  <2> DEFINE w == -v
  <2>1. w \in Nat \ {0} /\ v = -w
    BY <1>1
  <2> HIDE DEF w
  <2>2. w * p \in Nat \ {0} /\ v * p = -(w * p)
    BY <2>1
  <2> QED
    BY <1>1, <2>1, <2>2 DEF Magnitude
<1>2. CASE v >= 0
  <2>1. v * p \in Nat /\ (v * p = 0 <=> v = 0)
    BY <1>2
  <2> QED
    BY <1>2, <2>1 DEF Magnitude
<1> QED
  BY <1>1, <1>2

LEMMA SummedFloat ==
  ASSUME NEW v \in Int, NEW j \in 1..(MAN - 1), Magnitude(v * 2 ^ j) <= 2 * (2 * Top - 1)
  PROVE  Summed(v * 2 ^ j, BIAS + MAN - j) = FloatOf(v)
<1> DEFINE p == 2 ^ j
           s == v * p
           E == BIAS + MAN - j
           r == Summed(s, E)
           g == Magnitude(v)
<1>1. BIAS \in Nat /\ MAN \in Nat /\ Top \in Nat \ {0} /\ BIAS > LONG /\ LONG \in Nat /\ LONG > MAN + 1 /\ j \in Nat /\ j >= 1 /\ j - 1 \in Nat
  BY FloatWidths, LongWidths
<1>2. E \in 0..(2 * BIAS - 3) /\ E \in Nat /\ ~(E < MAN)
  BY <1>1
<1>3. p \in Nat \ {0} /\ p = 2 * 2 ^ (j - 1) /\ 2 ^ (j - 1) \in Nat \ {0}
  <2>1. 2 ^ ((j - 1) + 1) = 2 * 2 ^ (j - 1) /\ (j - 1) + 1 = j
    BY <1>1, PowerNext
  <2> QED
    BY <1>1, <2>1, PowerType
<1> DEFINE h == 2 ^ (j - 1)
<1>4. p \in Nat \ {0} /\ p = 2 * h /\ h \in Nat \ {0}
  BY <1>3
<1> HIDE DEF p, h
<1>5. Magnitude(s) = g * p /\ (s < 0 <=> v < 0) /\ (s = 0 <=> v = 0) /\ s \in Int /\ g \in Nat
  <2>1. p \in Nat \ {0}
    BY <1>4
  <2>2. /\ Magnitude(v * p) = Magnitude(v) * p /\ (v * p < 0 <=> v < 0) /\ (v * p = 0 <=> v = 0)
        /\ v * p \in Int /\ Magnitude(v) \in Nat
    BY <2>1, ScaledSign, Zenon
  <2> QED
    BY <2>2, Zenon
<1>6. Magnitude(s) <= 2 * (2 * Top - 1)
  BY DEF p
<1>7. s % 2 = 0
  <2>1. s = 2 * (v * h) /\ v * h \in Int
    BY <1>4
  <2> DEFINE y == v * h
  <2> HIDE DEF y, s
  <2>2. y \in Int /\ s = 2 * y
    BY <2>1 DEF y
  <2> QED
    BY <2>2
<1> HIDE DEF s, E, g
<1>8. Doubling(s) = s
  BY <1>5, <1>7, DoublingIs
<1>9. /\ r.man = 0 => r = Zero /\ (s = 0 \/ E < MAN)
      /\ r.man # 0 => /\ r.exp \in Nat /\ r.man \in Top..(2 * Top - 1) /\ r = Num(s < 0, r.exp, r.man)
                      /\ \A e \in Nat : e <= E /\ e <= r.exp =>
                           Signed(r, r.man * 2 ^ (r.exp - e)) = Doubling(s) * 2 ^ (E - e)
  BY <1>2, <1>5, <1>6, SummedIs
<1> HIDE DEF r
<1>10. CASE r.man = 0
  <2>1. r = Zero /\ v = 0
    BY <1>2, <1>5, <1>9, <1>10
  <2>2. FloatOf(v) = Zero
    BY <2>1, FloatOfIs
  <2> QED
    BY <2>1, <2>2 DEF r, s, E, p
<1>11. CASE r.man # 0
  <2> DEFINE f == r.exp
             m == r.man
             i == BIAS + MAN - f
  <2>1. f \in Nat /\ m \in Top..(2 * Top - 1) /\ r = Num(s < 0, f, m) /\ m \in Nat \ {0}
    BY <1>1, <1>9, <1>11
  <2>2. \A e \in Nat : e <= E /\ e <= f => m * 2 ^ (f - e) = (g * p) * 2 ^ (E - e)
    <3> TAKE e \in Nat
    <3> HAVE e <= E /\ e <= f
    <3> DEFINE a == 2 ^ (f - e)
               b == 2 ^ (E - e)
    <3>1. a \in Nat \ {0} /\ b \in Nat \ {0}
      <4>1. f - e \in Nat /\ E - e \in Nat
        BY <1>2, <2>1
      <4> QED
        BY <4>1, PowerType
    <3>2. Signed(r, m * a) = s * b
      BY <1>8, <1>9, <1>11
    <3>3. Signed(r, m * a) \in {m * a, -(m * a)}
      BY DEF Signed
    <3>4. Magnitude(s * b) = Magnitude(s) * b
      <4> HIDE DEF a, b
      <4> QED
        BY <1>5, <3>1, ScaledSign
    <3> HIDE DEF a, b, f, m
    <3>5. m * a \in Nat
      BY <2>1, <3>1
    <3>6. Magnitude(s * b) = m * a
      BY <3>2, <3>3, <3>5 DEF Magnitude
    <3>7. m * a = (g * p) * b
      BY <1>5, <3>4, <3>6
    <3> QED
      BY <3>7 DEF a, b, f, m
  <2> HIDE DEF f, m
  <2>3. i \in Nat /\ g * 2 ^ i = m /\ v # 0
    <3>1. CASE f <= E
      <4>1. m * 2 ^ (f - f) = (g * p) * 2 ^ (E - f)
        <5>1. f <= E /\ f <= f
          BY <2>1, <3>1
        <5> QED
          BY <2>1, <2>2, <5>1, Zenon
      <4>2. f - f = 0 /\ E - f \in Nat /\ i = j + (E - f) /\ i \in Nat
        BY <1>1, <1>2, <2>1, <3>1 DEF E
      <4>3. 2 ^ i = 2 ^ j * 2 ^ (E - f)
        <5> DEFINE t == E - f
        <5>1. t \in Nat /\ i = j + t
          BY <4>2
        <5> HIDE DEF t, i
        <5>2. 2 ^ (j + t) = 2 ^ j * 2 ^ t
          BY <1>1, <5>1, PowerSum
        <5> QED
          BY <5>1, <5>2 DEF t
      <4> DEFINE q == 2 ^ (E - f)
                 u == 2 ^ i
      <4>4. m = (g * p) * q
        <5>1. m * 2 ^ 0 = m
          BY <2>1, PowerZero
        <5> QED
          BY <4>1, <4>2, <5>1
      <4>5. q \in Nat \ {0}
        BY <4>2, PowerType
      <4>6. u = p * q
        BY <4>3 DEF p
      <4> HIDE DEF q, u, i
      <4>7. g * u = m
        BY <1>4, <1>5, <4>4, <4>5, <4>6
      <4>8. v # 0
        <5>1. g # 0
          BY <1>4, <2>1, <4>4, <4>5
        <5> QED
          BY <5>1 DEF g, Magnitude
      <4> QED
        BY <4>2, <4>7, <4>8 DEF u
    <3>2. CASE ~(f <= E)
      <4>1. m * 2 ^ (f - E) = (g * p) * 2 ^ (E - E)
        <5>1. E <= E /\ E <= f
          BY <1>2, <2>1, <3>2
        <5> QED
          BY <1>2, <2>2, <5>1, Zenon
      <4>2. E - E = 0 /\ f - E \in Nat \ {0} /\ 2 ^ 0 = 1
        BY <1>2, <2>1, <3>2, PowerZero
      <4> DEFINE c == g * p
                 q == 2 ^ (f - E)
      <4>3. c \in Nat /\ c <= 2 * (2 * Top - 1) /\ q \in Nat \ {0}
        BY <1>1, <1>4, <1>5, <1>6, <4>2, PowerType
      <4>4. m * q = c
        <5>1. 2 ^ (E - E) = 1
          BY <4>2
        <5>2. m * q = c * 1
          BY <4>1, <5>1
        <5> QED
          BY <4>3, <5>2
      <4>5. f - E = 1
        <5> SUFFICES ASSUME f - E >= 2 PROVE FALSE
          BY <4>2
        <5>1. q >= 4
          <6>1. 2 ^ 2 <= 2 ^ (f - E)
            BY <4>2, PowerGrows
          <6>2. 2 ^ 2 = 2 * 2 ^ 1
            <7>1. 2 ^ (1 + 1) = 2 * 2 ^ 1
              BY PowerNext
            <7> QED
              BY <7>1
          <6> QED
            BY <4>3, <6>1, <6>2, PowerZero
        <5> HIDE DEF q, c
        <5> DEFINE d == q - 4
        <5>2. d \in Nat /\ q = 4 + d
          BY <4>3, <5>1
        <5> HIDE DEF d
        <5>3. m * q = 4 * m + m * d /\ m * d \in Nat
          BY <2>1, <5>2
        <5> QED
          BY <1>1, <2>1, <4>3, <4>4, <5>3
      <4>6. q = 2
        BY <4>5, PowerZero
      <4> HIDE DEF c
      <4>7. c = 2 * m
        BY <2>1, <4>4, <4>6
      <4>8. c = 2 * (g * h) /\ g * h \in Nat
        BY <1>4, <1>5 DEF c
      <4>9. m = g * h
        BY <2>1, <4>7, <4>8
      <4>10. i = j - 1 /\ i \in Nat
        BY <1>1, <1>2, <2>1, <4>5 DEF E
      <4>11. v # 0
        <5>1. g # 0
          BY <1>4, <2>1, <4>9
        <5> QED
          BY <5>1 DEF g, Magnitude
      <4> QED
        BY <4>9, <4>10, <4>11 DEF h
    <3> QED
      BY <3>1, <3>2
  <2>4. FloatOf(v) = Form(v, i)
    <3>1. g * 2 ^ i \in Top..(2 * Top - 1)
      BY <2>1, <2>3
    <3> HIDE DEF i
    <3> QED
      BY <2>3, <3>1, FormIsFloatOf DEF g
  <2>5. Form(v, i) = Num(v < 0, f, m)
    <3>1. BIAS + MAN - i = f
      BY <1>1, <2>1
    <3> HIDE DEF i
    <3> QED
      BY <2>3, <3>1 DEF Form, g
  <2>6. (s < 0) = (v < 0)
    BY <1>5
  <2>7. r = Num(v < 0, f, m)
    <3>1. CASE v < 0
      <4>1. (s < 0) = TRUE /\ (v < 0) = TRUE
        BY <1>5, <3>1
      <4> QED
        BY <2>1, <4>1
    <3>2. CASE ~(v < 0)
      <4>1. (s < 0) = FALSE /\ (v < 0) = FALSE
        BY <1>5, <3>2
      <4> QED
        BY <2>1, <4>1
    <3> QED
      BY <3>1, <3>2
  <2> QED
    BY <2>4, <2>5, <2>7 DEF r, s, E, p
<1> QED
  BY <1>10, <1>11

-----------------------------------------------------------------------------
(* Sums of integers.                                                        *)
LEMMA FormFields ==
  ASSUME NEW v \in Int, NEW k \in 0..(MAN - 1), Magnitude(v) * 2 ^ k \in Top..(2 * Top - 1)
  PROVE  /\ Form(v, k) \in FLOATs /\ Form(v, k).exp = BIAS + MAN - k /\ Form(v, k).man = Magnitude(v) * 2 ^ k
         /\ Form(v, k).man # 0 /\ (Form(v, k).neg <=> v < 0)
         /\ \A p \in Int : Signed(Form(v, k), Magnitude(v) * p) = v * p
<1> DEFINE e == BIAS + MAN - k
           m == Magnitude(v) * 2 ^ k
           n == v < 0
<1>1. BIAS \in Nat /\ MAN \in Nat /\ BIAS > LONG /\ LONG \in Nat /\ LONG > MAN + 1 /\ Top \in Nat \ {0}
  BY FloatWidths, LongWidths
<1>2. e \in 0..(2 * BIAS - 1) /\ m \in Top..(2 * Top - 1) /\ n \in BOOLEAN
  BY <1>1
<1>3. Form(v, k) = Num(n, e, m)
  BY DEF Form
<1> HIDE DEF e, m, n
<1>4. Num(n, e, m) \in FLOATs /\ Num(n, e, m).neg = n /\ Num(n, e, m).exp = e /\ Num(n, e, m).man = m /\ m # 0
  BY <1>1, <1>2, FloatMade, NumFields
<1>5. \A p \in Int : Signed(Num(n, e, m), Magnitude(v) * p) = v * p
  <2> TAKE p \in Int
  <2>1. Signed(Num(n, e, m), Magnitude(v) * p) = IF n THEN -(Magnitude(v) * p) ELSE Magnitude(v) * p
    BY <1>4 DEF Signed
  <2>2. CASE v < 0
    <3> DEFINE w == -v
    <3>1. Magnitude(v) = w /\ n /\ w \in Int /\ v = -w
      BY <2>2 DEF Magnitude, n
    <3>2. -(w * p) = (-w) * p
      BY <3>1
    <3> HIDE DEF w
    <3> QED
      BY <2>1, <3>1, <3>2
  <2>3. CASE ~(v < 0)
    <3>1. Magnitude(v) = v /\ ~n
      BY <2>3 DEF Magnitude, n
    <3> QED
      BY <2>1, <3>1
  <2> QED
    BY <2>2, <2>3
<1> QED
  BY <1>3, <1>4, <1>5 DEF e, m, n

LEMMA ExactSumOf ==
  ASSUME NEW a \in Int, NEW b \in Int, Magnitude(a) <= Top - 1,
         NEW j \in 0..(MAN - 1), NEW k \in 0..(MAN - 1), j <= k,
         Magnitude(a) * 2 ^ j \in Top..(2 * Top - 1), Magnitude(b) * 2 ^ k \in Top..(2 * Top - 1)
  PROVE  SumOf(Form(b, k), Form(a, j)) = FloatOf(a + b)
<1> DEFINE t == Form(b, k)
           l == Form(a, j)
           p == 2 ^ j
           d == k - j
           g == Magnitude(b)
           s == Signed(l, l.man) + Signed(t, t.man \div 2 ^ (l.exp - t.exp))
<1>1. BIAS \in Nat /\ MAN \in Nat /\ BIAS > LONG /\ LONG \in Nat /\ LONG > MAN + 1 /\ Top \in Nat \ {0}
      /\ j \in Nat /\ k \in Nat /\ d \in Nat /\ k = j + d
  BY FloatWidths, LongWidths
<1>2. l \in FLOATs /\ l.exp = BIAS + MAN - j /\ l.man = Magnitude(a) * 2 ^ j /\ l.man # 0
      /\ \A q \in Int : Signed(l, Magnitude(a) * q) = a * q
  BY FormFields
<1>3. t \in FLOATs /\ t.exp = BIAS + MAN - k /\ t.man = Magnitude(b) * 2 ^ k /\ t.man # 0
      /\ \A q \in Int : Signed(t, Magnitude(b) * q) = b * q
  BY FormFields
<1> HIDE DEF t, l
<1>4. l.exp - t.exp = d /\ t.exp <= l.exp /\ d < MAN
  BY <1>1, <1>2, <1>3
<1>5. p \in Nat \ {0} /\ 2 ^ d \in Nat \ {0} /\ 2 ^ k = p * 2 ^ d
  <2> HIDE DEF d
  <2>1. 2 ^ (j + d) = 2 ^ j * 2 ^ d
    BY <1>1, PowerSum
  <2> QED
    BY <1>1, <2>1, PowerType
<1>6. j >= 1
  <2> SUFFICES ASSUME j = 0 PROVE FALSE
    BY <1>1
  <2>1. Magnitude(a) * 2 ^ j = Magnitude(a) /\ Magnitude(a) \in Nat
    BY PowerZero DEF Magnitude
  <2>2. Magnitude(a) \in Top..(2 * Top - 1)
    BY <2>1
  <2> QED
    BY <1>1, <2>1, <2>2
<1>7. t.man \div 2 ^ (l.exp - t.exp) = g * p
  <2> DEFINE q == 2 ^ d
  <2>1. q \in Nat \ {0} /\ t.man = (g * p) * q /\ g \in Nat
    <3>1. g \in Nat
      BY DEF Magnitude
    <3> DEFINE w == 2 ^ k
    <3>2. t.man = g * w /\ w = p * q
      BY <1>3, <1>5
    <3> HIDE DEF g, p, q, w
    <3>3. p \in Nat /\ q \in Nat
      BY <1>5 DEF p, q
    <3> QED
      BY <1>5, <3>1, <3>2, <3>3 DEF q
  <2> HIDE DEF q, g, p
  <2> DEFINE c == g * p
  <2>2. c \in Int /\ t.man = c * q + 0 /\ 0 \in 0..(q - 1) /\ t.man \in Int
    BY <1>5, <2>1
  <2> HIDE DEF c
  <2>3. t.man \div q = c
    BY <2>1, <2>2, DivModUnique
  <2> QED
    BY <1>4, <2>3 DEF c, q
<1>8. s = (a + b) * p
  <2>1. Signed(l, l.man) = a * p
    BY <1>2, <1>5
  <2>2. Signed(t, g * p) = b * p
    BY <1>3, <1>5
  <2> HIDE DEF p, g
  <2>3. s = a * p + b * p
    BY <1>7, <2>1, <2>2
  <2>4. (a + b) * p = a * p + b * p
    BY <1>5
  <2> QED
    BY <2>3, <2>4
<1>9. s \in Int /\ Magnitude(s) <= 2 * (2 * Top - 1)
  <2>1. s = Signed(l, l.man) + Signed(t, t.man \div 2 ^ (l.exp - t.exp)) /\ l.exp - t.exp < MAN
    BY <1>4
  <2> HIDE DEF s
  <2> QED
    BY <1>2, <1>3, <1>4, <2>1, MantissaSum
<1>10. SumOf(t, l) = Summed(s, l.exp)
  <2>1. l.exp - t.exp < MAN
    BY <1>4
  <2> QED
    BY <1>2, <1>3, <1>4, <2>1, SumOfIs
<1> HIDE DEF s
<1> DEFINE v == a + b
<1>11. v \in Int /\ j \in 1..(MAN - 1) /\ Magnitude(v * 2 ^ j) <= 2 * (2 * Top - 1)
  BY <1>1, <1>6, <1>8, <1>9
<1> HIDE DEF v
<1>12. Summed(v * 2 ^ j, BIAS + MAN - j) = FloatOf(v)
  BY <1>11, SummedFloat
<1> QED
  BY <1>2, <1>8, <1>10, <1>12 DEF v, t, l

LEMMA ExactSum ==
  ASSUME NEW a \in Int, NEW b \in Int, Magnitude(a) <= Top - 1, Magnitude(b) <= Top - 1
  PROVE  FlAdd(FloatOf(a), FloatOf(b)) = FloatOf(a + b)
<1>1. Top \in Nat \ {0} /\ MAN \in Nat /\ BIAS \in Nat
  BY FloatWidths
<1>2. \A v \in Int : Magnitude(v) \in Nat
  BY DEF Magnitude
<1>3. Magnitude(a) <= 2 * Top - 1 /\ Magnitude(b) <= 2 * Top - 1
  BY <1>1, <1>2
<1>4. FloatOf(0) = Zero /\ Zero.man = 0
  BY FloatOfIs DEF Zero
<1>5. CASE a = 0
  <2>1. FlAdd(Zero, FloatOf(b)) = FloatOf(b) /\ a + b = b
    BY <1>4, <1>5 DEF FlAdd
  <2> QED
    BY <1>4, <1>5, <2>1
<1>6. CASE b = 0
  <2>1. FlAdd(FloatOf(a), Zero) = FloatOf(a) /\ a + b = a
    <3>1. FloatOf(a) \in FLOATs
      BY <1>3, FloatOfMade
    <3> DEFINE x == FloatOf(a)
    <3>2. x.man = 0 => x = Zero
      BY <3>1, FloatForm
    <3> HIDE DEF x
    <3>3. FlAdd(x, Zero) = x
      BY <1>4, <3>2 DEF FlAdd
    <3> QED
      BY <1>6, <3>3 DEF x
  <2> QED
    BY <1>4, <1>6, <2>1
<1>7. CASE a # 0 /\ b # 0
  <2>1. PICK j \in 0..(MAN - 1) : Magnitude(a) * 2 ^ j \in Top..(2 * Top - 1) /\ FloatOf(a) = Form(a, j)
    BY <1>3, <1>7, FloatOfIs
  <2>2. PICK k \in 0..(MAN - 1) : Magnitude(b) * 2 ^ k \in Top..(2 * Top - 1) /\ FloatOf(b) = Form(b, k)
    BY <1>3, <1>7, FloatOfIs
  <2> DEFINE x == Form(a, j)
             y == Form(b, k)
  <2>3. x \in FLOATs /\ x.exp = BIAS + MAN - j /\ x.man # 0 /\ y \in FLOATs /\ y.exp = BIAS + MAN - k /\ y.man # 0
    BY <2>1, <2>2, FormFields
  <2>4. j <= k => SumOf(y, x) = FloatOf(a + b)
    BY <2>1, <2>2, ExactSumOf
  <2>5. k <= j => SumOf(x, y) = FloatOf(a + b)
    <3>1. k <= j => SumOf(x, y) = FloatOf(b + a)
      BY <2>1, <2>2, ExactSumOf
    <3>2. b + a = a + b
      OBVIOUS
    <3> QED
      BY <3>1, <3>2
  <2> HIDE DEF x, y
  <2>6. CASE y.exp >= x.exp
    <3>1. k <= j /\ ~(y.exp - x.exp >= MAN)
      BY <1>1, <2>3, <2>6
    <3>2. FlAdd(x, y) = SumOf(x, y)
      BY <2>3, <2>6, <3>1 DEF FlAdd
    <3> QED
      BY <2>1, <2>2, <2>5, <3>1, <3>2 DEF x, y
  <2>7. CASE ~(y.exp >= x.exp)
    <3>1. j <= k /\ ~(x.exp - y.exp >= MAN)
      BY <1>1, <2>3, <2>7
    <3>2. FlAdd(x, y) = SumOf(y, x)
      BY <2>3, <2>7, <3>1 DEF FlAdd
    <3> QED
      BY <2>1, <2>2, <2>4, <3>1, <3>2 DEF x, y
  <2> QED
    BY <2>6, <2>7
<1> QED
  BY <1>5, <1>6, <1>7

-----------------------------------------------------------------------------
(* Differences of integers.                                                 *)
LEMMA ToggledFloat ==
  ASSUME NEW v \in Int, v # 0, Magnitude(v) <= 2 * Top - 1
  PROVE  Toggled(FloatOf(v)) = FloatOf(-v)
<1> DEFINE w == -v
<1>1. w \in Int /\ w # 0 /\ Magnitude(w) = Magnitude(v) /\ (w < 0 <=> ~(v < 0))
  BY DEF Magnitude
<1>2. PICK k \in 0..(MAN - 1) : Magnitude(v) * 2 ^ k \in Top..(2 * Top - 1) /\ FloatOf(v) = Form(v, k)
  BY FloatOfIs
<1>3. FloatOf(w) = Form(w, k)
  <2>1. k \in Nat /\ Magnitude(w) * 2 ^ k \in Top..(2 * Top - 1)
    BY <1>1, <1>2, FloatWidths
  <2> HIDE DEF w
  <2> QED
    BY <1>1, <2>1, FormIsFloatOf
<1> DEFINE e == BIAS + MAN - k
           m == Magnitude(v) * 2 ^ k
<1>4. Form(v, k) = Num(v < 0, e, m) /\ Form(w, k) = Num(w < 0, e, m)
  BY <1>1 DEF Form
<1> HIDE DEF e, m, w
<1>5. CASE v < 0
  <2>1. (v < 0) = TRUE /\ (w < 0) = FALSE
    BY <1>1, <1>5
  <2>2. Form(v, k) = Num(TRUE, e, m) /\ Form(w, k) = Num(FALSE, e, m)
    BY <1>4, <2>1
  <2> QED
    BY <1>2, <1>3, <2>2, ToggledIs DEF w
<1>6. CASE ~(v < 0)
  <2>1. (v < 0) = FALSE /\ (w < 0) = TRUE
    BY <1>1, <1>6
  <2>2. Form(v, k) = Num(FALSE, e, m) /\ Form(w, k) = Num(TRUE, e, m)
    BY <1>4, <2>1
  <2> QED
    BY <1>2, <1>3, <2>2, ToggledIs DEF w
<1> QED
  BY <1>5, <1>6

LEMMA ExactDifference ==
  ASSUME NEW a \in Int, NEW b \in Int, a # 0, Magnitude(a) <= Top - 1, Magnitude(b) <= Top - 1
  PROVE  FlSub(FloatOf(a), FloatOf(b)) = FloatOf(a - b)
<1>1. Top \in Nat \ {0} /\ Magnitude(a) \in Nat /\ Magnitude(b) \in Nat
  BY FloatWidths DEF Magnitude
<1>2. CASE b = 0
  <2> DEFINE x == FloatOf(a)
  <2>1. PICK k \in 0..(MAN - 1) : Magnitude(a) * 2 ^ k \in Top..(2 * Top - 1) /\ x = Form(a, k)
    BY <1>1, FloatOfIs
  <2>2. x.man # 0
    BY <2>1, FormFields
  <2>3. FloatOf(b) = Zero /\ a - b = a
    BY <1>2, FloatOfIs
  <2>4. Toggled(Zero).man = 0
    BY DEF Toggled, Zero
  <2> HIDE DEF x
  <2>5. FlSub(x, Zero) = x
    BY <2>2, <2>4 DEF FlSub, FlAdd
  <2> QED
    BY <2>3, <2>5 DEF x
<1>3. CASE b # 0
  <2> DEFINE c == -b
  <2>1. c \in Int /\ Magnitude(c) <= Top - 1 /\ a - b = a + c
    BY DEF Magnitude
  <2>2. Magnitude(b) <= 2 * Top - 1
    BY <1>1
  <2>3. Toggled(FloatOf(b)) = FloatOf(c)
    BY <1>3, <2>2, ToggledFloat
  <2>4. FlSub(FloatOf(a), FloatOf(b)) = FlAdd(FloatOf(a), FloatOf(c))
    BY <2>3 DEF FlSub
  <2> HIDE DEF c
  <2>5. FlAdd(FloatOf(a), FloatOf(c)) = FloatOf(a + c)
    BY <2>1, ExactSum
  <2> QED
    BY <2>1, <2>4, <2>5
<1> QED
  BY <1>2, <1>3

LEMMA SignOfProduct ==
  ASSUME NEW a \in Int, NEW b \in Int, a # 0, b # 0
  PROVE  /\ Magnitude(a * b) = Magnitude(a) * Magnitude(b) /\ a * b \in Int /\ a * b # 0
         /\ (a * b < 0) <=> ((a < 0) # (b < 0))
<1>1. CASE b > 0
  <2>1. b \in Nat \ {0} /\ Magnitude(b) = b /\ ~(b < 0)
    BY <1>1 DEF Magnitude
  <2>2. /\ Magnitude(a * b) = Magnitude(a) * b /\ (a * b < 0 <=> a < 0) /\ (a * b = 0 <=> a = 0)
        /\ a * b \in Int /\ Magnitude(a) \in Nat
    BY <2>1, ScaledSign, Zenon
  <2> QED
    BY <2>1, <2>2
<1>2. CASE ~(b > 0)
  <2> DEFINE c == -b
  <2>1. c \in Nat \ {0} /\ Magnitude(b) = c /\ b < 0 /\ b = -c
    BY <1>2 DEF Magnitude
  <2> HIDE DEF c
  <2>2. /\ Magnitude(a * c) = Magnitude(a) * c /\ (a * c < 0 <=> a < 0) /\ (a * c = 0 <=> a = 0)
        /\ a * c \in Int /\ Magnitude(a) \in Nat
    BY <2>1, ScaledSign, Zenon
  <2> DEFINE u == a * c
  <2>3. a * b = -u
    BY <2>1
  <2>4. u \in Int /\ (u < 0 <=> a < 0) /\ u # 0 /\ Magnitude(u) = Magnitude(a) * c
    BY <2>2
  <2> HIDE DEF u
  <2>5. Magnitude(-u) = Magnitude(u) /\ (-u < 0 <=> ~(u < 0)) /\ -u \in Int /\ -u # 0
    BY <2>4 DEF Magnitude
  <2> QED
    BY <2>1, <2>3, <2>4, <2>5
<1> QED
  BY <1>1, <1>2

-----------------------------------------------------------------------------
(* A product of integers that a mantissa holds is exact.                    *)
LEMMA ProductPlace ==
  ASSUME NEW w \in 1..(2 * Top - 1), NEW i \in Nat, NEW K \in Nat \ {0}, NEW P, P = w * 2 ^ i,
         P \div 2 ^ K \in Top..(2 * Top - 1)
  PROVE  /\ i - K \in Nat /\ P \div 2 ^ K = w * 2 ^ (i - K)
         /\ (P \div 2 ^ (K - 1)) % 2 = 0
<1> DEFINE c == 2 ^ K
           q == 2 ^ i
           m == P \div c
           r == P % c
<1>1. Top \in Nat \ {0} /\ w \in Nat \ {0} /\ c \in Nat \ {0} /\ q \in Nat \ {0} /\ K - 1 \in Nat
  BY FloatWidths, PowerType
<1>2. P = w * q /\ m \in Top..(2 * Top - 1) /\ P \in Nat /\ P \in Int
  BY <1>1
<1> HIDE DEF c, q
<1>3. P = m * c + r /\ r \in 0..(c - 1)
  BY <1>1, <1>2, DivMod
<1> HIDE DEF m, r
<1>4. i >= K
  <2> SUFFICES ASSUME i + 1 <= K PROVE FALSE
    OBVIOUS
  <2>1. 2 * q <= c
    <3>1. i + 1 \in Nat /\ 2 ^ (i + 1) <= 2 ^ K /\ 2 ^ (i + 1) = 2 * 2 ^ i
      BY PowerGrows, PowerNext
    <3> QED
      BY <3>1 DEF c, q
  <2> DEFINE d == c - 2 * q
             f == m - Top
             h == 2 * Top - 1 - w
  <2>2. d \in Nat /\ c = 2 * q + d /\ f \in Nat /\ m = Top + f /\ h \in Nat /\ w = 2 * Top - 1 - h
    BY <1>1, <1>2, <2>1
  <2> HIDE DEF d, f, h
  <2>3. m * c = Top * c + f * c /\ f * c \in Nat
    BY <1>1, <2>2
  <2>4. Top * c = 2 * (Top * q) + Top * d /\ Top * d \in Nat /\ Top * q \in Nat
    BY <1>1, <2>2
  <2>5. w * q = 2 * (Top * q) - q - h * q /\ h * q \in Nat
    BY <1>1, <2>2
  <2> QED
    BY <1>1, <1>2, <1>3, <2>3, <2>4, <2>5
<1> DEFINE t == i - K
           p == 2 ^ t
           h == 2 ^ (K - 1)
<1>5. t \in Nat /\ p \in Nat \ {0} /\ q = p * c /\ h \in Nat \ {0} /\ c = 2 * h
  <2>1. t \in Nat /\ i = t + K
    BY <1>4
  <2> HIDE DEF t
  <2>2. 2 ^ (t + K) = 2 ^ t * 2 ^ K /\ 2 ^ t \in Nat \ {0}
    BY <2>1, PowerSum, PowerType
  <2>3. 2 ^ ((K - 1) + 1) = 2 * 2 ^ (K - 1) /\ (K - 1) + 1 = K /\ 2 ^ (K - 1) \in Nat \ {0}
    BY <1>1, PowerNext, PowerType
  <2> QED
    BY <2>1, <2>2, <2>3 DEF c, q
<1> HIDE DEF p, h
<1> DEFINE u == w * p
<1>6. u \in Nat /\ P = u * c /\ P = (2 * u) * h
  BY <1>1, <1>2, <1>5
<1> HIDE DEF u
<1>7. P \div c = u
  <2>1. P = u * c + 0 /\ 0 \in 0..(c - 1) /\ u \in Int
    BY <1>1, <1>6
  <2> QED
    BY <1>1, <1>2, <2>1, DivModUnique
<1>8. P \div h = 2 * u
  <2> DEFINE v == 2 * u
  <2>1. P = v * h + 0 /\ 0 \in 0..(h - 1) /\ v \in Int
    BY <1>5, <1>6
  <2> HIDE DEF v
  <2>2. P \div h = v
    BY <1>2, <1>5, <2>1, DivModUnique
  <2> QED
    BY <2>2 DEF v
<1>9. (2 * u) % 2 = 0
  BY <1>6
<1> QED
  BY <1>5, <1>7, <1>8, <1>9 DEF c, h, u, p

LEMMA ExactProduct ==
  ASSUME NEW a \in Int, NEW b \in Int, Magnitude(a) <= 2 * Top - 1, Magnitude(b) <= 2 * Top - 1, Magnitude(a * b) < 2 ^ MAN
  PROVE  FlMul(FloatOf(a), FloatOf(b)) = FloatOf(a * b)
<1>1. Top \in Nat \ {0} /\ MAN \in Nat /\ BIAS \in Nat /\ 2 ^ MAN = 2 * Top /\ MAN >= 12 /\ BIAS > LONG /\ LONG \in Nat /\ LONG > MAN + 1
  BY FloatWidths, LongWidths
<1>2. FloatOf(0) = Zero /\ Zero.man = 0
  BY FloatOfIs DEF Zero
<1>3. FloatOf(a) \in FLOATs /\ FloatOf(b) \in FLOATs
  BY FloatOfMade
<1>4. CASE a = 0 \/ b = 0
  <2>1. a * b = 0
    BY <1>4
  <2>2. FlMul(FloatOf(a), FloatOf(b)) = Zero
    BY <1>2, <1>3, <1>4, NoProduct
  <2> QED
    BY <1>2, <2>1, <2>2
<1>5. CASE a # 0 /\ b # 0
  <2>1. PICK j \in 0..(MAN - 1) : Magnitude(a) * 2 ^ j \in Top..(2 * Top - 1) /\ FloatOf(a) = Form(a, j)
    BY <1>5, FloatOfIs
  <2>2. PICK k \in 0..(MAN - 1) : Magnitude(b) * 2 ^ k \in Top..(2 * Top - 1) /\ FloatOf(b) = Form(b, k)
    BY <1>5, FloatOfIs
  <2> DEFINE x == Form(a, j)
             y == Form(b, k)
             P == x.man * y.man
             K == Dropped(P)
             i == j + k
             v == a * b
             w == Magnitude(v)
             e == ProductExp(x, y)
             m == ProductMan(x, y)
             n == x.neg # y.neg
  <2>3. /\ x \in FLOATs /\ x.exp = BIAS + MAN - j /\ x.man = Magnitude(a) * 2 ^ j /\ x.man # 0 /\ (x.neg <=> a < 0)
        /\ y \in FLOATs /\ y.exp = BIAS + MAN - k /\ y.man = Magnitude(b) * 2 ^ k /\ y.man # 0 /\ (y.neg <=> b < 0)
    BY <2>1, <2>2, FormFields
  <2>4. w = Magnitude(a) * Magnitude(b) /\ v \in Int /\ v # 0 /\ (v < 0 <=> ((a < 0) # (b < 0)))
    BY <1>5, SignOfProduct, Zenon
  <2>5. w \in 1..(2 * Top - 1)
    <3> HIDE DEF v
    <3> QED
      BY <1>1, <2>4 DEF v, Magnitude
  <2>6. i \in Nat /\ P = w * 2 ^ i
    <3> DEFINE p == 2 ^ j
               q == 2 ^ k
               f == Magnitude(a)
               g == Magnitude(b)
    <3>1. j \in Nat /\ k \in Nat /\ p \in Nat /\ q \in Nat /\ 2 ^ i = p * q /\ f \in Nat /\ g \in Nat
      <4>1. j \in Nat /\ k \in Nat
        BY <1>1
      <4> QED
        BY <4>1, PowerSum, PowerType DEF Magnitude
    <3>2. P = (f * p) * (g * q) /\ w = f * g
      BY <2>3, <2>4
    <3> DEFINE u == 2 ^ i
    <3>3. u = p * q
      BY <3>1
    <3> HIDE DEF p, q, f, g, P, w, u
    <3>4. (f * p) * (g * q) = (f * g) * (p * q)
      BY <3>1
    <3>5. P = w * u
      BY <3>2, <3>3, <3>4
    <3> QED
      BY <3>1, <3>5 DEF u
  <2>7. PICK o \in BOOLEAN :
          /\ o <=> (P \div 2 ^ (K - 1)) % 2 = 1
          /\ FlMul(x, y) = IF e \in 0..(2 * BIAS - 1)
                           THEN IF n /\ o THEN Round(Num(n, e, m)) ELSE Num(n, e, m) ELSE Zero
    <3> HIDE DEF x, y
    <3> QED
      BY <2>3, ProductMade, Zenon
  <2>8. m \in Top..(2 * Top - 1) /\ m = P \div 2 ^ K /\ e = x.exp + y.exp - BIAS + K - MAN
    <3> HIDE DEF x, y
    <3>1. m \in Top..(2 * Top - 1)
      BY <2>3, ProductMade, Zenon
    <3> QED
      BY <3>1 DEF ProductMan, ProductExp
  <2>9. K \in Nat \ {0} /\ K \in {MAN, MAN - 1}
    <3> HIDE DEF P
    <3> QED
      BY <1>1 DEF Dropped
  <2> HIDE DEF x, y, P, K, w, v, e, m, n
  <2>10. i - K \in Nat /\ P \div 2 ^ K = w * 2 ^ (i - K) /\ (P \div 2 ^ (K - 1)) % 2 = 0
    <3>1. P \div 2 ^ K \in Top..(2 * Top - 1)
      BY <2>8
    <3> HIDE DEF i
    <3> QED
      BY <2>5, <2>6, <2>9, <3>1, ProductPlace
  <2> DEFINE t == i - K
  <2>11. t \in Nat /\ m = w * 2 ^ t /\ ~o
    BY <2>7, <2>8, <2>10
  <2>12. FloatOf(v) = Form(v, t) /\ t \in 0..(MAN - 1)
    <3>1. Magnitude(v) * 2 ^ t \in Top..(2 * Top - 1)
      BY <2>8, <2>11 DEF w
    <3> HIDE DEF t
    <3> QED
      BY <2>4, <2>11, <3>1, FormIsFloatOf
  <2>13. e = BIAS + MAN - t
    BY <1>1, <2>3, <2>8, <2>9
  <2>14. e \in 0..(2 * BIAS - 1)
    <3> HIDE DEF t
    <3> QED
      BY <1>1, <2>12, <2>13
  <2>15. FlMul(x, y) = Num(n, e, m)
    BY <2>7, <2>11, <2>14
  <2>16. Form(v, t) = Num(v < 0, e, m)
    <3> HIDE DEF t
    <3> QED
      BY <2>11, <2>13 DEF Form, w
  <2>17. Num(n, e, m) = Num(v < 0, e, m)
    <3>1. CASE v < 0
      <4>1. n = TRUE /\ (v < 0) = TRUE
        BY <2>3, <2>4, <3>1 DEF n
      <4> QED
        BY <4>1
    <3>2. CASE ~(v < 0)
      <4>1. ~n
        <5>1. x.neg \in BOOLEAN /\ y.neg \in BOOLEAN
          BY <2>3, FloatForm
        <5> QED
          BY <2>3, <2>4, <3>2, <5>1 DEF n
      <4>2. n = FALSE /\ (v < 0) = FALSE
        BY <3>2, <4>1 DEF n
      <4> QED
        BY <4>2
    <3> QED
      BY <3>1, <3>2
  <2> QED
    BY <2>1, <2>2, <2>12, <2>15, <2>16, <2>17 DEF x, y, v
<1> QED
  BY <1>4, <1>5

-----------------------------------------------------------------------------
(* Greater compares the values of two numbers.                              *)
LEMMA MagnitudesOrder ==
  ASSUME NEW u \in FLOATs, NEW w \in FLOATs, u.man # 0, w.man # 0,
         NEW e \in Nat, e <= u.exp, e <= w.exp
  PROVE  /\ u.man * 2 ^ (u.exp - e) \in Nat \ {0} /\ w.man * 2 ^ (w.exp - e) \in Nat \ {0}
         /\ u.man * 2 ^ (u.exp - e) < w.man * 2 ^ (w.exp - e) <=>
              u.exp < w.exp \/ (u.exp = w.exp /\ u.man < w.man)
<1>1. ASSUME NEW a \in FLOATs, NEW b \in FLOATs, a.man # 0, b.man # 0, e <= a.exp, e <= b.exp
      PROVE  /\ a.exp < b.exp => a.man * 2 ^ (a.exp - e) < b.man * 2 ^ (b.exp - e)
             /\ a.exp = b.exp => (a.man * 2 ^ (a.exp - e) < b.man * 2 ^ (b.exp - e) <=> a.man < b.man)
             /\ a.man * 2 ^ (a.exp - e) \in Nat \ {0} /\ b.man * 2 ^ (b.exp - e) \in Nat \ {0}
             /\ a.exp \in Nat /\ b.exp \in Nat
  <2> DEFINE i == a.exp - e
             j == b.exp - e
             p == 2 ^ i
             q == 2 ^ j
             m == a.man
             n == b.man
  <2>1. /\ Top \in Nat \ {0} /\ a.exp \in Nat /\ b.exp \in Nat /\ i \in Nat /\ j \in Nat
        /\ m \in 0..(2 * Top - 1) /\ m >= Top /\ n \in 0..(2 * Top - 1) /\ n >= Top /\ m \in Nat /\ n \in Nat
    <3>1. Top \in Nat \ {0}
      BY FloatWidths
    <3>2. /\ a.exp \in Nat /\ m \in 0..(2 * Top - 1) /\ (m # 0 => m >= Top) /\ m \in Nat
          /\ b.exp \in Nat /\ n \in 0..(2 * Top - 1) /\ (n # 0 => n >= Top) /\ n \in Nat
      BY FloatForm, Zenon
    <3> QED
      BY <1>1, <3>1, <3>2
  <2>2. p \in Nat \ {0} /\ q \in Nat \ {0}
    <3> HIDE DEF i, j
    <3> QED
      BY <2>1, PowerType
  <2>3. m * p \in Nat \ {0} /\ n * q \in Nat \ {0}
    <3> HIDE DEF p, q, m, n
    <3> QED
      BY <2>1, <2>2
  <2>4. ASSUME a.exp < b.exp PROVE m * p < n * q
    <3>1. 2 * p <= q
      <4>1. i + 1 \in Nat /\ i + 1 <= j
        BY <1>1, <2>1, <2>4
      <4> HIDE DEF i, j
      <4>2. 2 ^ (i + 1) <= 2 ^ j /\ 2 ^ (i + 1) = 2 * 2 ^ i
        BY <2>1, <4>1, PowerGrows, PowerNext
      <4> QED
        BY <4>2
    <3> HIDE DEF p, q, m, n
    <3> DEFINE d == q - 2 * p
               f == n - Top
               h == 2 * Top - 1 - m
    <3>2. d \in Nat /\ q = 2 * p + d /\ f \in Nat /\ n = Top + f /\ h \in Nat /\ m = 2 * Top - 1 - h
      BY <2>1, <2>2, <3>1
    <3> HIDE DEF d, f, h
    <3>3. n * q = Top * q + f * q /\ f * q \in Nat
      BY <2>1, <2>2, <3>2
    <3>4. Top * q = 2 * (Top * p) + Top * d /\ Top * d \in Nat /\ Top * p \in Nat
      BY <2>1, <2>2, <3>2
    <3>5. m * p = 2 * (Top * p) - p - h * p /\ h * p \in Nat
      BY <2>1, <2>2, <3>2
    <3> QED
      BY <2>2, <3>3, <3>4, <3>5
  <2>5. ASSUME a.exp = b.exp PROVE m * p < n * q <=> m < n
    <3>1. q = p
      BY <2>5
    <3> HIDE DEF p, q, m, n
    <3>2. CASE m < n
      <4> DEFINE d == n - m
      <4>1. d \in Nat \ {0} /\ n = m + d
        BY <2>1, <3>2
      <4> HIDE DEF d
      <4>2. n * p = m * p + d * p /\ d * p \in Nat \ {0} /\ m * p \in Nat
        BY <2>1, <2>2, <4>1
      <4> QED
        BY <3>1, <3>2, <4>2
    <3>3. CASE ~(m < n)
      <4> DEFINE d == m - n
      <4>1. d \in Nat /\ m = n + d
        BY <2>1, <3>3
      <4> HIDE DEF d
      <4>2. m * p = n * p + d * p /\ d * p \in Nat /\ n * p \in Nat
        BY <2>1, <2>2, <4>1
      <4> QED
        BY <3>1, <3>3, <4>2
    <3> QED
      BY <3>2, <3>3
  <2> QED
    BY <2>1, <2>3, <2>4, <2>5
<1> DEFINE A == u.man * 2 ^ (u.exp - e)
           B == w.man * 2 ^ (w.exp - e)
<1>2. /\ u.exp < w.exp => A < B
      /\ u.exp = w.exp => (A < B <=> u.man < w.man)
      /\ A \in Nat \ {0} /\ B \in Nat \ {0} /\ u.exp \in Nat /\ w.exp \in Nat
  BY <1>1, Zenon
<1>3. w.exp < u.exp => B < A
  BY <1>1, Zenon
<1> HIDE DEF A, B
<1>4. A < B <=> u.exp < w.exp \/ (u.exp = w.exp /\ u.man < w.man)
  <2>1. CASE u.exp < w.exp
    BY <1>2, <2>1
  <2>2. CASE u.exp = w.exp
    BY <1>2, <2>2
  <2>3. CASE w.exp < u.exp
    BY <1>2, <1>3, <2>3
  <2> QED
    BY <1>2, <2>1, <2>2, <2>3
<1> QED
  BY <1>2, <1>4 DEF A, B

LEMMA GreaterIs ==
  ASSUME NEW u \in FLOATs, NEW w \in FLOATs, NEW e \in Nat, u.man = 0 \/ e <= u.exp, w.man = 0 \/ e <= w.exp
  PROVE  Greater(w, u) <=> At(u, e) < At(w, e)
<1> DEFINE A == u.man * 2 ^ (u.exp - e)
           B == w.man * 2 ^ (w.exp - e)
<1>1. /\ u.neg \in BOOLEAN /\ (u.man = 0 => ~u.neg) /\ w.neg \in BOOLEAN /\ (w.man = 0 => ~w.neg)
      /\ u.man \in Nat /\ w.man \in Nat
  <2>1. u.neg \in BOOLEAN /\ (u.man = 0 => u = Zero) /\ (u = Zero => ~u.neg) /\ u.man \in Nat
    BY FloatForm, Zenon
  <2>2. w.neg \in BOOLEAN /\ (w.man = 0 => w = Zero) /\ (w = Zero => ~w.neg) /\ w.man \in Nat
    BY FloatForm, Zenon
  <2> QED
    BY <2>1, <2>2
<1>2. /\ At(u, e) = IF u.man = 0 THEN 0 ELSE IF u.neg THEN -A ELSE A
      /\ At(w, e) = IF w.man = 0 THEN 0 ELSE IF w.neg THEN -B ELSE B
  BY DEF At, Signed
<1> HIDE DEF A, B
<1>3. u.man # 0 => A \in Nat \ {0}
  <2>1. u.man # 0 => e <= u.exp
    OBVIOUS
  <2> QED
    BY <2>1, MagnitudesOrder DEF A
<1>4. w.man # 0 => B \in Nat \ {0}
  <2>1. w.man # 0 => e <= w.exp
    OBVIOUS
  <2> QED
    BY <2>1, MagnitudesOrder DEF B
<1>5. u.man # 0 /\ w.man # 0 =>
        /\ A < B <=> u.exp < w.exp \/ (u.exp = w.exp /\ u.man < w.man)
        /\ B < A <=> w.exp < u.exp \/ (w.exp = u.exp /\ w.man < u.man)
  <2> SUFFICES ASSUME u.man # 0, w.man # 0
               PROVE  /\ A < B <=> u.exp < w.exp \/ (u.exp = w.exp /\ u.man < w.man)
                      /\ B < A <=> w.exp < u.exp \/ (w.exp = u.exp /\ w.man < u.man)
    OBVIOUS
  <2>1. e <= u.exp /\ e <= w.exp
    OBVIOUS
  <2> QED
    BY <2>1, MagnitudesOrder, Zenon DEF A, B
<1>6. Greater(w, u) <=>
        CASE w.neg # u.neg -> u.neg
          [] w.neg /\ u.neg -> w.exp < u.exp \/ (w.exp = u.exp /\ w.man < u.man)
          [] OTHER -> w.man # 0 /\ (u.man = 0 \/ w.exp > u.exp \/ (w.exp = u.exp /\ w.man > u.man))
  BY DEF Greater
<1>7. CASE u.neg /\ ~w.neg
  <2>1. Greater(w, u)
    BY <1>1, <1>6, <1>7
  <2> QED
    BY <1>1, <1>2, <1>3, <1>4, <1>7, <2>1
<1>8. CASE ~u.neg /\ w.neg
  <2>1. ~Greater(w, u)
    BY <1>1, <1>6, <1>8
  <2> QED
    BY <1>1, <1>2, <1>3, <1>4, <1>8, <2>1
<1>9. CASE u.neg /\ w.neg
  <2>1. Greater(w, u) <=> w.exp < u.exp \/ (w.exp = u.exp /\ w.man < u.man)
    BY <1>1, <1>6, <1>9
  <2>2. u.man # 0 /\ w.man # 0
    BY <1>1, <1>9
  <2>3. At(u, e) = -A /\ At(w, e) = -B /\ A \in Nat /\ B \in Nat
    BY <1>2, <1>3, <1>4, <1>9, <2>2
  <2>4. At(u, e) < At(w, e) <=> B < A
    BY <2>3
  <2> QED
    BY <1>5, <2>1, <2>2, <2>4, Zenon
<1>10. CASE ~u.neg /\ ~w.neg
  <2>1. Greater(w, u) <=> w.man # 0 /\ (u.man = 0 \/ w.exp > u.exp \/ (w.exp = u.exp /\ w.man > u.man))
    BY <1>1, <1>6, <1>10
  <2>2. CASE w.man = 0
    <3>1. ~Greater(w, u) /\ At(w, e) = 0
      BY <1>2, <2>1, <2>2
    <3>2. At(u, e) \in Nat
      BY <1>2, <1>3, <1>10
    <3>3. ~(At(u, e) < At(w, e))
      BY <3>1, <3>2
    <3> QED
      BY <3>1, <3>3
  <2>3. CASE w.man # 0 /\ u.man = 0
    <3>1. Greater(w, u) /\ At(u, e) = 0 /\ At(w, e) = B
      BY <1>2, <1>10, <2>1, <2>3
    <3> QED
      BY <1>4, <2>3, <3>1
  <2>4. CASE w.man # 0 /\ u.man # 0
    <3>1. Greater(w, u) <=> u.exp < w.exp \/ (u.exp = w.exp /\ u.man < w.man)
      <4>1. u.exp \in Nat /\ w.exp \in Nat
        BY FloatForm, Zenon
      <4> QED
        BY <1>1, <2>1, <2>4, <4>1
    <3>2. At(u, e) = A /\ At(w, e) = B
      BY <1>2, <1>10, <2>4
    <3> QED
      BY <1>5, <2>4, <3>1, <3>2, Zenon
  <2> QED
    BY <2>2, <2>3, <2>4
<1> QED
  BY <1>1, <1>7, <1>8, <1>9, <1>10

-----------------------------------------------------------------------------
(* A number with a whole part against an integer.                           *)
Scaled(x) == Sgn(x.neg, x.man)

LEMMA IntegerAt ==
  ASSUME NEW v \in Int, Magnitude(v) <= 2 * Top - 1
  PROVE  /\ At(FloatOf(v), BIAS) = v * 2 ^ MAN
         /\ FloatOf(v).man = 0 \/ BIAS <= FloatOf(v).exp
<1>1. BIAS \in Nat /\ MAN \in Nat /\ 2 ^ MAN \in Nat \ {0}
  BY FloatWidths, PowerType
<1>2. CASE v = 0
  <2>1. FloatOf(v) = Zero /\ Zero.man = 0
    BY <1>2, FloatOfIs DEF Zero
  <2>2. At(Zero, BIAS) = 0
    BY <2>1 DEF At
  <2> QED
    BY <1>1, <1>2, <2>1, <2>2
<1>3. CASE v # 0
  <2>1. PICK k \in 0..(MAN - 1) : Magnitude(v) * 2 ^ k \in Top..(2 * Top - 1) /\ FloatOf(v) = Form(v, k)
    BY <1>3, FloatOfIs
  <2> DEFINE x == Form(v, k)
             g == Magnitude(v)
             j == MAN - k
  <2>2. /\ x.exp = BIAS + MAN - k /\ x.man = g * 2 ^ k /\ x.man # 0
        /\ \A p \in Int : Signed(x, g * p) = v * p
    BY <2>1, FormFields
  <2> HIDE DEF x
  <2>3. x.exp - BIAS = j /\ j \in Nat /\ BIAS <= x.exp /\ k + j = MAN /\ k \in Nat
    BY <1>1, <2>2
  <2>4. 2 ^ MAN = 2 ^ k * 2 ^ j /\ 2 ^ k \in Nat /\ 2 ^ j \in Nat /\ g \in Nat
    <3> HIDE DEF j
    <3>1. 2 ^ (k + j) = 2 ^ k * 2 ^ j /\ 2 ^ k \in Nat /\ 2 ^ j \in Nat
      BY <2>3, PowerSum, PowerType
    <3> QED
      BY <2>3, <3>1 DEF Magnitude
  <2>5. At(x, BIAS) = Signed(x, x.man * 2 ^ j)
    BY <2>2, <2>3 DEF At
  <2>6. x.man * 2 ^ j = g * 2 ^ MAN
    <3> DEFINE p == 2 ^ k
               q == 2 ^ j
               w == 2 ^ MAN
    <3>1. w = p * q /\ p \in Nat /\ q \in Nat /\ x.man = g * p
      BY <2>2, <2>4
    <3> HIDE DEF p, q, w, g
    <3>2. (g * p) * q = g * (p * q)
      BY <2>4, <3>1
    <3> QED
      BY <3>1, <3>2 DEF q, w
  <2>7. At(x, BIAS) = v * 2 ^ MAN
    BY <1>1, <2>2, <2>5, <2>6
  <2> QED
    BY <2>1, <2>3, <2>7 DEF x
<1> QED
  BY <1>2, <1>3

LEMMA NumberAt ==
  ASSUME NEW x \in FLOATs, Places(x) \in 0..MAN
  PROVE  /\ Scaled(x) \in Int /\ Magnitude(Scaled(x)) = x.man
         /\ At(x, BIAS) = Scaled(x) * 2 ^ (MAN - Places(x)) /\ BIAS <= x.exp
<1> DEFINE n == x.neg
           m == x.man
           j == MAN - Places(x)
<1>1. n \in BOOLEAN /\ m \in Nat /\ x.exp \in Nat /\ BIAS \in Nat /\ MAN \in Nat
  BY FloatForm, FloatWidths
<1>2. j = x.exp - BIAS /\ BIAS <= x.exp /\ j \in Nat
  BY <1>1 DEF Places
<1>3. 2 ^ j \in Nat
  <2> HIDE DEF j
  <2> QED
    BY <1>2, PowerType
<1>4. At(x, BIAS) = IF m = 0 THEN 0 ELSE IF n THEN -(m * 2 ^ j) ELSE m * 2 ^ j
  BY <1>2 DEF At, Signed
<1>5. Scaled(x) = IF n THEN -m ELSE m
  BY DEF Scaled, Sgn
<1> DEFINE p == 2 ^ j
<1> HIDE DEF j, p
<1>6. At(x, BIAS) = IF m = 0 THEN 0 ELSE IF n THEN -(m * p) ELSE m * p
  BY <1>4 DEF p
<1>7. p \in Nat
  BY <1>3 DEF p
<1> HIDE DEF m, n
<1>8. -(m * p) = (-m) * p /\ (m = 0 => m * p = 0 /\ (-m) * p = 0)
  BY <1>1, <1>7
<1>9. At(x, BIAS) = Scaled(x) * p
  BY <1>5, <1>6, <1>8
<1> QED
  BY <1>1, <1>2, <1>5, <1>9 DEF p, j, m, n, Magnitude

LEMMA TimesOrder ==
  ASSUME NEW a \in Int, NEW b \in Int, NEW c \in Nat \ {0}
  PROVE  a * c < b * c <=> a < b
<1>1. CASE a < b
  <2> DEFINE d == b - a
  <2>1. d \in Nat \ {0} /\ b = a + d
    BY <1>1
  <2> HIDE DEF d
  <2>2. b * c = a * c + d * c /\ d * c \in Nat \ {0} /\ a * c \in Int
    BY <2>1
  <2> QED
    BY <1>1, <2>2
<1>2. CASE ~(a < b)
  <2> DEFINE d == a - b
  <2>1. d \in Nat /\ a = b + d
    BY <1>2
  <2> HIDE DEF d
  <2>2. a * c = b * c + d * c /\ d * c \in Nat /\ b * c \in Int
    BY <2>1
  <2> QED
    BY <1>2, <2>2
<1> QED
  BY <1>1, <1>2

LEMMA Compared ==
  ASSUME NEW x \in FLOATs, Places(x) \in 0..MAN, NEW v \in Int, Magnitude(v) <= 2 * Top - 1
  PROVE  /\ FLess(x, FloatOf(v)) <=> Scaled(x) < v * 2 ^ Places(x)
         /\ FLess(FloatOf(v), x) <=> v * 2 ^ Places(x) < Scaled(x)
<1> DEFINE y == FloatOf(v)
           P == Places(x)
           S == Scaled(x)
           p == 2 ^ P
           c == 2 ^ (MAN - P)
<1>1. y \in FLOATs /\ BIAS \in Nat /\ MAN \in Nat
  BY FloatOfMade, FloatWidths
<1>2. At(y, BIAS) = v * 2 ^ MAN /\ (y.man = 0 \/ BIAS <= y.exp)
  BY IntegerAt
<1>3. S \in Int /\ At(x, BIAS) = S * c /\ BIAS <= x.exp
  BY NumberAt
<1>4. p \in Nat \ {0} /\ c \in Nat \ {0} /\ 2 ^ MAN = p * c
  <2> DEFINE j == MAN - P
  <2>1. P \in Nat /\ j \in Nat /\ P + j = MAN
    BY <1>1
  <2> HIDE DEF j, P
  <2>2. 2 ^ (P + j) = 2 ^ P * 2 ^ j /\ 2 ^ P \in Nat \ {0} /\ 2 ^ j \in Nat \ {0}
    BY <2>1, PowerSum, PowerType
  <2> QED
    BY <2>1, <2>2 DEF j
<1> HIDE DEF y, S, p, c
<1>5. At(y, BIAS) = (v * p) * c /\ v * p \in Int
  <2> DEFINE w == 2 ^ MAN
  <2>1. w = p * c /\ At(y, BIAS) = v * w
    BY <1>2, <1>4
  <2> HIDE DEF w
  <2>2. v * (p * c) = (v * p) * c
    BY <1>4
  <2> QED
    BY <1>4, <2>1, <2>2
<1>6. FLess(x, y) <=> S < v * p
  <2>1. FLess(x, y) <=> Greater(y, x)
    BY <1>1, FRelopIsRight DEF FLess
  <2>2. Greater(y, x) <=> At(x, BIAS) < At(y, BIAS)
    BY <1>1, <1>2, <1>3, GreaterIs
  <2> DEFINE a == v * p
  <2>3. a \in Int /\ At(y, BIAS) = a * c
    BY <1>5
  <2> HIDE DEF a
  <2>4. S * c < a * c <=> S < a
    BY <1>3, <1>4, <2>3, TimesOrder
  <2> QED
    BY <1>3, <2>1, <2>2, <2>3, <2>4 DEF a
<1>7. FLess(y, x) <=> v * p < S
  <2>1. FLess(y, x) <=> Greater(x, y)
    BY <1>1, FRelopIsRight DEF FLess
  <2>2. Greater(x, y) <=> At(y, BIAS) < At(x, BIAS)
    BY <1>1, <1>2, <1>3, GreaterIs
  <2> DEFINE a == v * p
  <2>3. a \in Int /\ At(y, BIAS) = a * c
    BY <1>5
  <2> HIDE DEF a
  <2>4. a * c < S * c <=> a < S
    BY <1>3, <1>4, <2>3, TimesOrder
  <2> QED
    BY <1>3, <2>1, <2>2, <2>3, <2>4 DEF a
<1> QED
  BY <1>6, <1>7 DEF y, S, p

-----------------------------------------------------------------------------
(* The integers next to a number, in its units.                             *)
Below(S, p, v) == v * p <= S /\ S < v * p + p
Above(S, p, v) == S <= v * p /\ v * p - p < S
FloorOf(x) == IF ~x.neg THEN IntPart(x) ELSE IF Fraction(x) THEN -IntPart(x) - 1 ELSE -IntPart(x)
CeilOf(x) == IF x.neg THEN -IntPart(x) ELSE IF Fraction(x) THEN IntPart(x) + 1 ELSE IntPart(x)

LEMMA OneNext ==
  ASSUME NEW S \in Int, NEW p \in Nat \ {0}, NEW v \in Int, NEW w \in Int
  PROVE  /\ Below(S, p, v) /\ Below(S, p, w) => v = w
         /\ Above(S, p, v) /\ Above(S, p, w) => v = w
<1>1. ASSUME NEW a \in Int, NEW b \in Int, a < b PROVE a * p + p <= b * p /\ a * p \in Int /\ b * p \in Int
  <2> DEFINE d == b - a - 1
  <2>1. d \in Nat /\ b = a + 1 + d
    BY <1>1
  <2> HIDE DEF d
  <2>2. b * p = a * p + p + d * p /\ d * p \in Nat /\ a * p \in Int
    BY <2>1
  <2> QED
    BY <2>2
<1>2. CASE v < w
  <2>1. v * p + p <= w * p /\ v * p \in Int /\ w * p \in Int
    BY <1>1, <1>2
  <2> DEFINE a == v * p
             b == w * p
  <2>2. a + p <= b /\ a \in Int /\ b \in Int
    BY <2>1
  <2>3. /\ (Below(S, p, v) => a <= S /\ S < a + p) /\ (Below(S, p, w) => b <= S /\ S < b + p)
        /\ (Above(S, p, v) => S <= a /\ a - p < S) /\ (Above(S, p, w) => S <= b /\ b - p < S)
    BY DEF Below, Above
  <2> HIDE DEF a, b
  <2> QED
    BY <2>2, <2>3
<1>3. CASE w < v
  <2>1. w * p + p <= v * p /\ v * p \in Int /\ w * p \in Int
    BY <1>1, <1>3
  <2> DEFINE a == v * p
             b == w * p
  <2>2. b + p <= a /\ a \in Int /\ b \in Int
    BY <2>1
  <2>3. /\ (Below(S, p, v) => a <= S /\ S < a + p) /\ (Below(S, p, w) => b <= S /\ S < b + p)
        /\ (Above(S, p, v) => S <= a /\ a - p < S) /\ (Above(S, p, w) => S <= b /\ b - p < S)
    BY DEF Below, Above
  <2> HIDE DEF a, b
  <2> QED
    BY <2>2, <2>3
<1>4. v < w \/ w < v \/ v = w
  OBVIOUS
<1> QED
  BY <1>2, <1>3, <1>4

LEMMA WholeParts ==
  ASSUME NEW x \in FLOATs, Places(x) \in 0..MAN
  PROVE  /\ FloorOf(x) \in Int /\ Below(Scaled(x), 2 ^ Places(x), FloorOf(x))
         /\ CeilOf(x) \in Int /\ Above(Scaled(x), 2 ^ Places(x), CeilOf(x))
         /\ Fraction(x) <=> x.man % 2 ^ Places(x) # 0
<1> DEFINE m == x.man
           p == 2 ^ Places(x)
           I == m \div p
           r == m % p
           q == I * p
<1>1. m \in Nat /\ x.neg \in BOOLEAN /\ MAN \in Nat /\ Places(x) \in Nat /\ ~(Places(x) > MAN)
  <2>1. MAN \in Nat
    BY FloatWidths
  <2>2. m \in Nat /\ x.neg \in BOOLEAN
    BY FloatForm, Zenon
  <2> QED
    BY <2>1, <2>2
<1>2. p \in Nat \ {0}
  BY <1>1, PowerType
<1>3. IntPart(x) = I /\ (Fraction(x) <=> m # 0 /\ r # 0)
  BY <1>1 DEF IntPart, Fraction
<1>4. Scaled(x) = IF x.neg THEN -m ELSE m
  BY DEF Scaled, Sgn
<1> HIDE DEF m, p
<1>5. m = I * p + r /\ I \in Int /\ r \in 0..(p - 1)
  BY <1>1, <1>2, DivMod
<1>6. m = 0 => r = 0
  <2>1. r \in 0..m
    BY <1>1, <1>2, QuotientInRange
  <2> HIDE DEF r
  <2> QED
    BY <2>1
<1> HIDE DEF I, r
<1>7. q \in Int /\ m = q + r /\ (-I) * p = -q /\ (-I - 1) * p = -q - p /\ (I + 1) * p = q + p
  BY <1>2, <1>5
<1>8. Fraction(x) <=> r # 0
  BY <1>3, <1>6
<1> DEFINE F == FloorOf(x)
           C == CeilOf(x)
           S == Scaled(x)
<1>9. F = (IF ~x.neg THEN I ELSE IF r # 0 THEN -I - 1 ELSE -I) /\ C = (IF x.neg THEN -I ELSE IF r # 0 THEN I + 1 ELSE I)
  BY <1>3, <1>8 DEF FloorOf, CeilOf
<1>10. F \in Int /\ C \in Int
  BY <1>1, <1>5, <1>9
<1>11. Below(S, p, F) = (F * p <= S /\ S < F * p + p) /\ Above(S, p, C) = (S <= C * p /\ C * p - p < S)
  BY DEF Below, Above
<1>12. I * p = q
  OBVIOUS
<1> HIDE DEF F, C, S, q
<1>13. Below(S, p, F) /\ Above(S, p, C)
  <2>1. CASE ~x.neg
    <3>1. S = m /\ F * p = q /\ C * p = IF r # 0 THEN q + p ELSE q
      BY <1>4, <1>7, <1>9, <1>12, <2>1 DEF S
    <3> DEFINE a == F * p
               b == C * p
    <3> HIDE DEF a, b
    <3>2. a = q /\ b = (IF r # 0 THEN q + p ELSE q) /\ a <= S /\ S < a + p /\ S <= b /\ b - p < S
      BY <1>2, <1>5, <1>7, <3>1 DEF a, b
    <3> QED
      BY <1>11, <3>2 DEF a, b
  <2>2. CASE x.neg
    <3>1. S = -m /\ C * p = -q /\ F * p = IF r # 0 THEN -q - p ELSE -q
      BY <1>4, <1>7, <1>9, <1>12, <2>2 DEF S
    <3> DEFINE a == F * p
               b == C * p
    <3> HIDE DEF a, b
    <3>2. b = -q /\ a = (IF r # 0 THEN -q - p ELSE -q) /\ a <= S /\ S < a + p /\ S <= b /\ b - p < S
      BY <1>2, <1>5, <1>7, <3>1 DEF a, b
    <3> QED
      BY <1>11, <3>2 DEF a, b
  <2> QED
    BY <2>1, <2>2
<1> QED
  BY <1>8, <1>10, <1>13 DEF F, C, S, p, r, m

(* How near the nearest integer is.                                         *)
LEMMA NearestBounds ==
  ASSUME NEW x \in FLOATs, Places(x) \in 0..MAN
  PROVE  /\ Nearest(x) \in Int /\ 2 ^ Places(x) \in Nat \ {0} /\ Scaled(x) \in Int
         /\ Nearest(x) * 2 ^ Places(x) \in Int
         /\ 2 * (Nearest(x) * 2 ^ Places(x)) - 2 ^ Places(x) <= 2 * Scaled(x)
         /\ 2 * Scaled(x) < 2 * (Nearest(x) * 2 ^ Places(x)) + 2 ^ Places(x)
<1> DEFINE P == Places(x)
           p == 2 ^ P
           S == Scaled(x)
           N == Nearest(x)
<1>1. MAN \in Nat /\ P \in Nat /\ ~(P > MAN + 1)
  BY FloatWidths
<1>2. S \in Int
  BY NumberAt
<1>3. p \in Nat \ {0} /\ 2 ^ (P + 1) = 2 * p
  <2> HIDE DEF P
  <2> QED
    BY <1>1, PowerType, PowerNext
<1>4. N = (2 * S + p) \div (2 * p)
  <2>1. Signed(x, x.man) = S
    BY DEF Signed, Scaled, Sgn
  <2>2. N = IF P > MAN + 1 THEN 0 ELSE (2 * Signed(x, x.man) + p) \div 2 ^ (P + 1)
    BY DEF Nearest
  <2> QED
    BY <1>1, <1>3, <2>1, <2>2
<1> HIDE DEF S, N, p, P
<1> DEFINE a == 2 * S + p
           d == 2 * p
           r == a % d
<1>5. a \in Int /\ d \in Nat \ {0} /\ N = a \div d /\ a = 2 * S + p /\ d = 2 * p
  BY <1>2, <1>3, <1>4
<1> HIDE DEF a, d
<1>6. a = N * d + r /\ N \in Int /\ r \in 0..(d - 1)
  BY <1>5, DivMod
<1> HIDE DEF r
<1>7. N * d = 2 * (N * p) /\ N * p \in Int
  BY <1>3, <1>5, <1>6
<1> DEFINE q == N * p
<1>8. q \in Int /\ a = 2 * q + r
  BY <1>6, <1>7
<1> HIDE DEF q
<1>9. 2 * q - p <= 2 * S /\ 2 * S < 2 * q + p
  BY <1>2, <1>3, <1>5, <1>6, <1>8
<1> QED
  BY <1>2, <1>3, <1>6, <1>8, <1>9 DEF S, N, p, P, q

-----------------------------------------------------------------------------
(* floor() and ceil().                                                      *)
LEMMA OneIs ==
  /\ One = FloatOf(1) /\ Magnitude(1) = 1 /\ Magnitude(0) = 0 /\ Top \in Nat \ {0} /\ Top >= 8 /\ FloatOf(0) = Zero
  /\ FlSub(Zero, One) = FloatOf(-1)
<1>1. One = FloatOf(1)
  <2>1. ~(1 < 0)
    OBVIOUS
  <2> QED
    BY <2>1 DEF One, FloatOf
<1>2. Magnitude(1) = 1 /\ Magnitude(0) = 0
  BY DEF Magnitude
<1>3. Top \in Nat \ {0} /\ Top >= 8
  BY WordInMantissa
<1>4. Toggled(FloatOf(1)) = FloatOf(-1)
  <2>1. 1 \in Int /\ 1 # 0 /\ Magnitude(1) <= 2 * Top - 1
    BY <1>2, <1>3
  <2> QED
    BY <2>1, ToggledFloat
<1>5. FlSub(Zero, One) = Toggled(One)
  <2>1. Zero.man = 0
    BY DEF Zero
  <2> QED
    BY <2>1 DEF FlSub, FlAdd
<1> QED
  BY <1>1, <1>2, <1>3, <1>4, <1>5, FloatOfIs

LEMMA NearestInside ==
  ASSUME NEW x \in FLOATs, Places(x) \in 0..MAN, Scaled(x) # Nearest(x) * 2 ^ Places(x)
  PROVE  /\ Nearest(x) >= -(Top - 1) /\ Nearest(x) <= Top
         /\ Nearest(x) * 2 ^ Places(x) < Scaled(x) => Nearest(x) <= Top - 1
<1> DEFINE S == Scaled(x)
           N == Nearest(x)
           p == 2 ^ Places(x)
           q == N * p
<1>1. N \in Int /\ p \in Nat \ {0} /\ S \in Int /\ q \in Int /\ 2 * q - p <= 2 * S /\ 2 * S < 2 * q + p /\ S # q
  BY NearestBounds
<1>2. Top \in Nat \ {0} /\ Magnitude(S) <= 2 * Top - 1
  <2>1. x.man \in 0..(2 * Top - 1)
    BY FloatForm, Zenon
  <2>2. Magnitude(S) = x.man
    BY NumberAt
  <2> QED
    BY <2>1, <2>2, FloatWidths
<1>3. S <= 2 * Top - 1 /\ S >= -(2 * Top - 1)
  <2> HIDE DEF S
  <2> QED
    BY <1>1, <1>2 DEF Magnitude
<1>4. q = N * p
  OBVIOUS
<1> HIDE DEF S, N, p, q
<1>5. p >= 2
  <2> SUFFICES ASSUME p = 1 PROVE FALSE
    BY <1>1
  <2>1. S = q
    BY <1>1
  <2> QED
    BY <1>1, <2>1
<1> DEFINE d == p - 2
<1>6. d \in Nat /\ p = 2 + d
  BY <1>1, <1>5
<1> HIDE DEF d
<1>7. N >= -(Top - 1)
  <2> SUFFICES ASSUME N <= -Top PROVE FALSE
    BY <1>1, <1>2
  <2> DEFINE f == -N - Top
  <2>1. f \in Nat /\ N = -(Top + f)
    BY <1>1, <1>2
  <2> HIDE DEF f
  <2>2. q = -(Top * p + f * p) /\ f * p \in Nat
    BY <1>1, <1>2, <1>4, <2>1
  <2>3. Top * p = 2 * Top + Top * d /\ Top * d \in Nat /\ Top * d >= d
    <3> DEFINE t == Top - 1
    <3>1. t \in Nat /\ Top = t + 1
      BY <1>2
    <3> HIDE DEF t
    <3>2. Top * d = t * d + d /\ t * d \in Nat
      BY <1>6, <3>1
    <3>3. Top * p = 2 * Top + Top * d
      BY <1>2, <1>6
    <3> QED
      BY <1>6, <3>2, <3>3
  <2> QED
    BY <1>1, <1>2, <1>3, <1>6, <2>2, <2>3
<1>8. N <= Top
  <2> SUFFICES ASSUME N >= Top + 1 PROVE FALSE
    BY <1>1, <1>2
  <2> DEFINE f == N - Top - 1
  <2>1. f \in Nat /\ N = Top + 1 + f
    BY <1>1, <1>2
  <2> HIDE DEF f
  <2>2. q = Top * p + p + f * p /\ f * p \in Nat
    BY <1>1, <1>2, <1>4, <2>1
  <2>3. Top * p = 2 * Top + Top * d /\ Top * d \in Nat
    BY <1>2, <1>6
  <2> QED
    BY <1>1, <1>2, <1>3, <1>6, <2>2, <2>3
<1>9. ASSUME q < S PROVE N <= Top - 1
  <2> SUFFICES ASSUME N >= Top PROVE FALSE
    BY <1>1, <1>2
  <2> DEFINE f == N - Top
  <2>1. f \in Nat /\ N = Top + f
    BY <1>1, <1>2
  <2> HIDE DEF f
  <2>2. q = Top * p + f * p /\ f * p \in Nat
    BY <1>1, <1>2, <1>4, <2>1
  <2>3. Top * p = 2 * Top + Top * d /\ Top * d \in Nat
    BY <1>2, <1>6
  <2> QED
    BY <1>1, <1>2, <1>3, <1>6, <1>9, <2>2, <2>3
<1> QED
  BY <1>7, <1>8, <1>9 DEF S, N, p, q

(* A number that is less than a half, or 0.                                 *)
LEMMA NoPlaces ==
  ASSUME NEW x \in FLOATs, x.exp < BIAS
  PROVE  /\ IntPart(x) = 0 /\ (x.man = 0 => ~x.neg /\ ~Fraction(x))
         /\ Floor(x) = Zero /\ Ceil(x) = Zero
<1>1. x.exp \in Nat /\ BIAS \in Nat /\ MAN \in Nat /\ (x.man = 0 => x = Zero) /\ (x = Zero => ~x.neg)
  BY FloatForm, FloatWidths
<1>2. Places(x) > MAN
  BY <1>1 DEF Places
<1> QED
  BY <1>1, <1>2 DEF IntPart, Fraction, Floor, Ceil

LEMMA SomePlaces ==
  ASSUME NEW x \in FLOATs, Units(x), ~(x.exp < BIAS)
  PROVE  /\ Places(x) \in 0..MAN /\ ~Whole(x)
         /\ FRndInt(x) = FloatOf(Nearest(x))
         /\ Nearest(x) \in Int /\ Magnitude(Nearest(x)) <= 2 * Top - 1
<1>1. x.exp \in Nat /\ BIAS \in Nat /\ MAN \in Nat /\ BYTE \in Nat /\ LONG \in Nat /\ LONG = MAN + BYTE
  BY FloatForm, FloatWidths, LongWidths
<1>2. Places(x) \in 0..MAN
  BY <1>1 DEF Places, Units
<1>3. BYTE \div 2 \in 0..BYTE
  BY <1>1
<1>4. ~Whole(x)
  <2> DEFINE h == BYTE \div 2
  <2>1. h \in 0..BYTE
    BY <1>3
  <2>2. Whole(x) <=> x.exp - BIAS > LONG - h
    BY DEF Whole
  <2> HIDE DEF h
  <2>3. x.exp - BIAS <= MAN
    BY <1>1 DEF Units, Places
  <2> QED
    BY <1>1, <2>1, <2>2, <2>3
<1> QED
  BY <1>2, <1>4, RoundedFloat, NearestRange

-----------------------------------------------------------------------------
(* The number of the integer below, and of the one above.                   *)
LEMMA FloorRight ==
  ASSUME NEW x \in FLOATs, Units(x), ~(Small(x) /\ x.neg), Fraction(x) => Nearest(x) # Top
  PROVE  Floor(x) = FloatOf(FloorOf(x))
<1>1. CASE x.exp < BIAS
  <2>1. IntPart(x) = 0 /\ (x.man = 0 => ~x.neg /\ ~Fraction(x)) /\ Floor(x) = Zero
    BY <1>1, NoPlaces
  <2>2. ~x.neg
    BY <1>1, <2>1 DEF Small
  <2>3. FloorOf(x) = 0
    BY <2>1, <2>2 DEF FloorOf
  <2> QED
    BY <2>1, <2>3, OneIs
<1>2. CASE ~(x.exp < BIAS)
  <2> DEFINE N == Nearest(x)
             i == FRndInt(x)
             S == Scaled(x)
             p == 2 ^ Places(x)
             q == N * p
             F == FloorOf(x)
  <2>1. Places(x) \in 0..MAN /\ ~Whole(x) /\ i = FloatOf(N) /\ N \in Int /\ Magnitude(N) <= 2 * Top - 1
    BY <1>2, SomePlaces
  <2>2. Floor(x) = IF FLess(x, i) THEN FlSub(i, One) ELSE i
    BY <1>2, <2>1 DEF Floor
  <2>3. F \in Int /\ Below(S, p, F) /\ (Fraction(x) <=> x.man % p # 0)
    BY <2>1, WholeParts
  <2>4. p \in Nat \ {0} /\ S \in Int /\ q \in Int /\ 2 * q - p <= 2 * S /\ 2 * S < 2 * q + p
    BY <2>1, NearestBounds
  <2>5. FLess(x, FloatOf(N)) <=> S < N * p
    <3> HIDE DEF N, S, p
    <3>1. FLess(x, FloatOf(N)) <=> Scaled(x) < N * 2 ^ Places(x)
      BY <2>1, Compared
    <3> QED
      BY <3>1 DEF S, p
  <2>6. CASE S < q
    <3>1. Floor(x) = FlSub(FloatOf(N), One)
      BY <2>1, <2>2, <2>5, <2>6
    <3>2. Below(S, p, N - 1)
      <4>1. (N - 1) * p = q - p
        BY <2>1, <2>4
      <4> DEFINE v == N - 1
      <4>2. v * p = q - p
        BY <4>1
      <4> HIDE DEF v, q, S, p
      <4> QED
        BY <2>4, <2>6, <4>2 DEF Below, v
    <3>3. F = N - 1
      <4> DEFINE v == N - 1
      <4>1. v \in Int /\ Below(S, p, v)
        BY <2>1, <3>2
      <4> HIDE DEF v, S, p, F
      <4>2. F = v
        BY <2>3, <2>4, <4>1, OneNext
      <4> QED
        BY <4>2 DEF v
    <3>4. Fraction(x)
      <4> SUFFICES ASSUME x.man % p = 0 PROVE FALSE
        BY <2>3
      <4> DEFINE m == x.man
                 c == m \div p
      <4>1. m \in Int /\ S \in {m, -m}
        <5>1. x.man \in Nat
          BY FloatForm, Zenon
        <5> QED
          BY <5>1 DEF Scaled, Sgn
      <4> HIDE DEF m, S, p, q, N
      <4>2. m = c * p + (m % p) /\ c \in Int
        BY <2>4, <4>1, DivMod
      <4>3. m = c * p
        BY <2>4, <4>2 DEF m
      <4> HIDE DEF c
      <4>4. PICK z \in Int : S = z * p
        <5>1. CASE S = m
          BY <4>2, <4>3, <5>1
        <5>2. CASE S = -m
          <6>1. S = (-c) * p
            BY <2>4, <4>2, <4>3, <5>2
          <6>2. -c \in Int
            BY <4>2
          <6> QED
            BY <6>1, <6>2
        <5> QED
          BY <4>1, <5>1, <5>2
      <4>5. q = N * p
        BY DEF q
      <4>6. z < N
        <5>1. z * p < N * p
          BY <2>6, <4>4, <4>5
        <5> QED
          BY <2>1, <2>4, <5>1, TimesOrder
      <4> DEFINE f == N - z - 1
      <4>7. f \in Nat /\ N = z + 1 + f
        BY <2>1, <4>6
      <4> HIDE DEF f
      <4>8. N * p = z * p + p + f * p /\ f * p \in Nat
        BY <2>4, <4>7
      <4> QED
        BY <2>4, <4>4, <4>5, <4>8
    <3>5. N >= -(Top - 1) /\ N <= Top /\ N # Top
      <4>1. Scaled(x) # Nearest(x) * 2 ^ Places(x)
        BY <2>4, <2>6
      <4> QED
        BY <2>1, <3>4, <4>1, NearestInside
    <3>6. FlSub(FloatOf(N), One) = FloatOf(N - 1)
      <4>1. CASE N = 0
        BY <4>1, OneIs
      <4>2. CASE N # 0
        <5>1. Magnitude(N) <= Top - 1 /\ Magnitude(1) <= Top - 1 /\ One = FloatOf(1) /\ 1 \in Int
          <6> HIDE DEF N
          <6>1. Top \in Nat /\ Top >= 8 /\ Magnitude(1) = 1 /\ One = FloatOf(1)
            BY OneIs
          <6> QED
            BY <2>1, <3>5, <6>1 DEF Magnitude
        <5> HIDE DEF N
        <5>2. FlSub(FloatOf(N), FloatOf(1)) = FloatOf(N - 1)
          BY <2>1, <4>2, <5>1, ExactDifference
        <5> QED
          BY <5>1, <5>2
      <4> QED
        BY <4>1, <4>2
    <3> QED
      BY <3>1, <3>3, <3>6
  <2>7. CASE ~(S < q)
    <3>1. Floor(x) = FloatOf(N)
      BY <2>1, <2>2, <2>5, <2>7
    <3>2. Below(S, p, N)
      <4> DEFINE a == N * p
      <4>1. a = q
        OBVIOUS
      <4> HIDE DEF a, q, S
      <4>2. a <= S /\ S < a + p
        BY <2>4, <2>7, <4>1
      <4> QED
        BY <4>2 DEF Below, a
    <3>3. F = N
      <4> HIDE DEF N, S, p, F
      <4> QED
        BY <2>1, <2>3, <2>4, <3>2, OneNext
    <3> QED
      BY <3>1, <3>3
  <2> QED
    BY <2>6, <2>7
<1> QED
  BY <1>1, <1>2

LEMMA CeilRight ==
  ASSUME NEW x \in FLOATs, Units(x), ~(Small(x) /\ ~x.neg)
  PROVE  Ceil(x) = FloatOf(CeilOf(x))
<1>1. CASE x.exp < BIAS
  <2>1. IntPart(x) = 0 /\ (x.man = 0 => ~x.neg /\ ~Fraction(x)) /\ Ceil(x) = Zero
    BY <1>1, NoPlaces
  <2>2. x.neg \/ ~Fraction(x)
    BY <1>1, <2>1 DEF Small
  <2>3. CeilOf(x) = 0
    <3>1. CASE x.neg
      <4>1. CeilOf(x) = -IntPart(x)
        BY <3>1 DEF CeilOf
      <4>2. \A n \in Int : 0 - n = -n
        OBVIOUS
      <4>3. IntPart(x) \in Int /\ 0 - IntPart(x) = 0
        BY <2>1
      <4> QED
        BY <4>1, <4>2, <4>3, Zenon
    <3>2. CASE ~x.neg
      <4>1. CeilOf(x) = IntPart(x)
        BY <2>2, <3>2 DEF CeilOf
      <4> QED
        BY <2>1, <4>1
    <3> QED
      BY <3>1, <3>2
  <2> QED
    BY <2>1, <2>3, OneIs
<1>2. CASE ~(x.exp < BIAS)
  <2> DEFINE N == Nearest(x)
             i == FRndInt(x)
             S == Scaled(x)
             p == 2 ^ Places(x)
             q == N * p
             C == CeilOf(x)
  <2>1. Places(x) \in 0..MAN /\ ~Whole(x) /\ i = FloatOf(N) /\ N \in Int /\ Magnitude(N) <= 2 * Top - 1
    BY <1>2, SomePlaces
  <2>2. Ceil(x) = IF FLess(i, x) THEN FlAdd(i, One) ELSE i
    BY <1>2, <2>1 DEF Ceil
  <2>3. C \in Int /\ Above(S, p, C)
    BY <2>1, WholeParts
  <2>4. p \in Nat \ {0} /\ S \in Int /\ q \in Int /\ 2 * q - p <= 2 * S /\ 2 * S < 2 * q + p
    BY <2>1, NearestBounds
  <2>5. FLess(FloatOf(N), x) <=> N * p < S
    <3> HIDE DEF N, S, p
    <3>1. FLess(FloatOf(N), x) <=> N * 2 ^ Places(x) < Scaled(x)
      BY <2>1, Compared
    <3> QED
      BY <3>1 DEF S, p
  <2>6. CASE q < S
    <3>1. Ceil(x) = FlAdd(FloatOf(N), One)
      BY <2>1, <2>2, <2>5, <2>6
    <3>2. Above(S, p, N + 1)
      <4> DEFINE v == N + 1
      <4>1. v * p = q + p
        BY <2>1, <2>4
      <4> HIDE DEF v, q, S, p
      <4> QED
        BY <2>4, <2>6, <4>1 DEF Above, v
    <3>3. C = N + 1
      <4> DEFINE v == N + 1
      <4>1. v \in Int /\ Above(S, p, v)
        BY <2>1, <3>2
      <4> HIDE DEF v, S, p, C
      <4>2. C = v
        BY <2>3, <2>4, <4>1, OneNext
      <4> QED
        BY <4>2 DEF v
    <3>4. N >= -(Top - 1) /\ N <= Top - 1
      <4>1. Scaled(x) # Nearest(x) * 2 ^ Places(x) /\ Nearest(x) * 2 ^ Places(x) < Scaled(x)
        BY <2>4, <2>6
      <4> QED
        BY <2>1, <4>1, NearestInside
    <3>5. FlAdd(FloatOf(N), One) = FloatOf(N + 1)
      <4>1. Magnitude(N) <= Top - 1 /\ Magnitude(1) <= Top - 1 /\ One = FloatOf(1) /\ 1 \in Int
        <5> HIDE DEF N
        <5>1. Top \in Nat /\ Top >= 8 /\ Magnitude(1) = 1 /\ One = FloatOf(1)
          BY OneIs
        <5> QED
          BY <2>1, <3>4, <5>1 DEF Magnitude
      <4> HIDE DEF N
      <4>2. FlAdd(FloatOf(N), FloatOf(1)) = FloatOf(N + 1)
        BY <2>1, <4>1, ExactSum
      <4> QED
        BY <4>1, <4>2
    <3> QED
      BY <3>1, <3>3, <3>5
  <2>7. CASE ~(q < S)
    <3>1. Ceil(x) = FloatOf(N)
      BY <2>1, <2>2, <2>5, <2>7
    <3>2. Above(S, p, N)
      <4> DEFINE a == N * p
      <4>1. a = q
        OBVIOUS
      <4> HIDE DEF a, q, S
      <4>2. S <= a /\ a - p < S
        BY <2>4, <2>7, <4>1
      <4> QED
        BY <4>2 DEF Above, a
    <3>3. C = N
      <4> HIDE DEF N, S, p, C
      <4> QED
        BY <2>1, <2>3, <2>4, <3>2, OneNext
    <3> QED
      BY <3>1, <3>3
  <2> QED
    BY <2>6, <2>7
<1> QED
  BY <1>1, <1>2

-----------------------------------------------------------------------------
(* What FloatsRight says of each call.                                      *)
FloatOps == {"fladd", "flsub", "flmul", "fldiv", "frelop", "ldexp", "ftol", "floor", "ceil",
             "aitof", "litof", "altof", "lltof", "exact"}

LEMMA SumAnswered ==
  ASSUME NEW x, NEW y, NEW r, Answered("fladd", x, y, r), Normal(r), SumRight(r, x, y), r = FlAdd(y, x)
  PROVE  FloatsRight'
BY DEF Answered, FloatsRight

LEMMA DifferenceAnswered ==
  ASSUME NEW x, NEW y, NEW r, Answered("flsub", x, y, r), x.man # 0 => Normal(r) /\ SumRight(r, x, Toggled(y))
  PROVE  FloatsRight'
BY DEF Answered, FloatsRight

LEMMA ProductAnswered ==
  ASSUME NEW x, NEW y, NEW r, Answered("flmul", x, y, r), Normal(r), ProductRight(r, x, y)
  PROVE  FloatsRight'
BY DEF Answered, FloatsRight

LEMMA QuotientAnswered ==
  ASSUME NEW x, NEW y, NEW r, Answered("fldiv", x, y, r), Normal(r), QuotientRight(r, x, y)
  PROVE  FloatsRight'
BY DEF Answered, FloatsRight

LEMMA OrderAnswered ==
  ASSUME NEW x, NEW y, NEW r, Answered("frelop", x, y, r), r.z = (x = y), r.s = Greater(y, x)
  PROVE  FloatsRight'
BY DEF Answered, FloatsRight

LEMMA PartsAnswered ==
  ASSUME NEW x, NEW y, NEW r, Answered("ldexp", x, y, r), r = x
  PROVE  FloatsRight'
BY DEF Answered, FloatsRight

LEMMA NearestAnswered ==
  ASSUME NEW x, NEW y, NEW r, Answered("ftol", x, y, r), Units(x) => Value(r, LONG) = Nearest(x)
  PROVE  FloatsRight'
BY DEF Answered, FloatsRight

LEMMA FloorAnswered ==
  ASSUME NEW x, NEW y, NEW r, Answered("floor", x, y, r),
         (Units(x) /\ ~(Small(x) /\ x.neg) /\ (Fraction(x) => Nearest(x) # Top)) => Integer(r, FloorOf(x))
  PROVE  FloatsRight'
BY DEF Answered, FloatsRight, FloorOf

LEMMA CeilAnswered ==
  ASSUME NEW x, NEW y, NEW r, Answered("ceil", x, y, r),
         (Units(x) /\ ~(Small(x) /\ ~x.neg)) => Integer(r, CeilOf(x))
  PROVE  FloatsRight'
BY DEF Answered, FloatsRight, CeilOf

LEMMA ConversionAnswered ==
  ASSUME NEW op, NEW x, NEW y, NEW r, Answered(op, x, y, r), Normal(r),
         \/ op = "aitof" /\ Value(FToL(r), LONG) = Value(x, WORD)
         \/ op = "litof" /\ FToL(r) = x
         \/ op = "altof" /\ FToL(r) = (IF Sign(x, LONG) THEN Negat(Kept(Negat(x, LONG)), LONG) ELSE Kept(x))
         \/ op = "lltof" /\ FToL(r) = Kept(x)
  PROVE  FloatsRight'
BY DEF Answered, FloatsRight

ExactRight(r, a, b) ==
  /\ Integer(r.sum, a + b)
  /\ a # 0 => Integer(r.difference, a - b)
  /\ Magnitude(a * b) < 2 ^ MAN => Integer(r.product, a * b)

LEMMA ExactAnswered ==
  ASSUME NEW x, NEW y, NEW r, Answered("exact", x, y, r), ExactRight(r, Value(x, WORD), Value(y, WORD))
  PROVE  FloatsRight'
BY DEF Answered, FloatsRight, ExactRight

LEMMA NoFloat ==
  ASSUME NEW op, op \notin FloatOps, call'.op = op
  PROVE  FloatsRight'
BY DEF FloatOps, FloatsRight

LEMMA NoFloatCall ==
  ASSUME NEW op, Made(op), op \notin FloatOps
  PROVE  FloatsRight'
<1>1. PICK x, y, r : Called(op, x, y, r)
  BY DEF Made
<1>2. call'.op = op
  BY <1>1 DEF Called
<1> QED
  BY <1>2, NoFloat

LEMMA IntegerIs == \A r, v : r = FloatOf(v) => Integer(r, v)
BY DEF FloatOf, Integer

(* One lemma for each call of the library of floating point.                *)
LEMMA FloatCallRight == FloatCall => FloatsRight'
<1> SUFFICES ASSUME FloatCall PROVE FloatsRight'
  OBVIOUS
<1>1. PICK x \in Floats, y \in Floats :
        \/ Called("fladd", x, y, FlAdd(x, y))
        \/ Called("flsub", x, y, FlSub(x, y))
        \/ Called("flmul", x, y, FlMul(x, y))
        \/ Called("fldiv", x, y, FlDiv(x, y))
        \/ Called("frelop", x, y, FRelop(x, y))
  BY Zenon DEF FloatCall
<1>2. x \in FLOATs /\ y \in FLOATs
  BY SampleFloats
<1>3. CASE Called("fladd", x, y, FlAdd(x, y))
  <2>1. Answered("fladd", x, y, FlAdd(x, y))
    BY <1>3, Operation, Zenon
  <2>2. Normal(FlAdd(x, y)) /\ SumRight(FlAdd(x, y), x, y) /\ FlAdd(x, y) = FlAdd(y, x)
    BY <1>2, SumsRight, Zenon
  <2> QED
    BY <2>1, <2>2, SumAnswered, Zenon
<1>4. CASE Called("flsub", x, y, FlSub(x, y))
  <2>1. Answered("flsub", x, y, FlSub(x, y))
    BY <1>4, Operation, Zenon
  <2>2. x.man # 0 => Normal(FlSub(x, y)) /\ SumRight(FlSub(x, y), x, Toggled(y))
    BY <1>2, DifferencesRight, Zenon
  <2> QED
    BY <2>1, <2>2, DifferenceAnswered, Zenon
<1>5. CASE Called("flmul", x, y, FlMul(x, y))
  <2>1. Answered("flmul", x, y, FlMul(x, y))
    BY <1>5, Operation, Zenon
  <2>2. Normal(FlMul(x, y)) /\ ProductRight(FlMul(x, y), x, y)
    BY <1>2, ProductsRight, Zenon
  <2> QED
    BY <2>1, <2>2, ProductAnswered, Zenon
<1>6. CASE Called("fldiv", x, y, FlDiv(x, y))
  <2>1. Answered("fldiv", x, y, FlDiv(x, y))
    BY <1>6, Operation, Zenon
  <2>2. Normal(FlDiv(x, y)) /\ QuotientRight(FlDiv(x, y), x, y)
    BY <1>2, QuotientsRight, Zenon
  <2> QED
    BY <2>1, <2>2, QuotientAnswered, Zenon
<1>7. CASE Called("frelop", x, y, FRelop(x, y))
  <2>1. Answered("frelop", x, y, FRelop(x, y))
    BY <1>7, Operation, Zenon
  <2>2. FRelop(x, y).z = (x = y) /\ FRelop(x, y).s = Greater(y, x)
    BY <1>2, FRelopIsRight, Zenon
  <2> QED
    BY <2>1, <2>2, OrderAnswered, Zenon
<1> QED
  BY <1>1, <1>3, <1>4, <1>5, <1>6, <1>7, Zenon

LEMMA PartsCallRight == PartsCall => FloatsRight'
<1> SUFFICES ASSUME PartsCall PROVE FloatsRight'
  OBVIOUS
<1>1. PICK x \in Floats :
        \/ Called("ftol", x, x, FToL(x))
        \/ Called("ldexp", x, x, LdExp(FrExp(x).fraction, FrExp(x).expon))
        \/ Called("floor", x, x, Floor(x))
        \/ Called("ceil", x, x, Ceil(x))
  BY Zenon DEF PartsCall
<1>2. x \in FLOATs
  BY SampleFloats
<1>3. CASE Called("ftol", x, x, FToL(x))
  <2>1. Answered("ftol", x, x, FToL(x))
    BY <1>3, Operation, Zenon
  <2>2. Units(x) => Value(FToL(x), LONG) = Nearest(x)
    BY <1>2, FToLRight, Zenon
  <2> QED
    BY <2>1, <2>2, NearestAnswered, Zenon
<1>4. CASE Called("ldexp", x, x, LdExp(FrExp(x).fraction, FrExp(x).expon))
  <2>1. Answered("ldexp", x, x, LdExp(FrExp(x).fraction, FrExp(x).expon))
    BY <1>4, Operation, Zenon
  <2>2. LdExp(FrExp(x).fraction, FrExp(x).expon) = x
    BY <1>2, PartsComeBack, Zenon
  <2> QED
    BY <2>1, <2>2, PartsAnswered, Zenon
<1>5. CASE Called("floor", x, x, Floor(x))
  <2>1. Answered("floor", x, x, Floor(x))
    BY <1>5, Operation, Zenon
  <2>2. (Units(x) /\ ~(Small(x) /\ x.neg) /\ (Fraction(x) => Nearest(x) # Top)) => Integer(Floor(x), FloorOf(x))
    BY <1>2, FloorRight, IntegerIs, Zenon
  <2> QED
    BY <2>1, <2>2, FloorAnswered, Zenon
<1>6. CASE Called("ceil", x, x, Ceil(x))
  <2>1. Answered("ceil", x, x, Ceil(x))
    BY <1>6, Operation, Zenon
  <2>2. (Units(x) /\ ~(Small(x) /\ ~x.neg)) => Integer(Ceil(x), CeilOf(x))
    BY <1>2, CeilRight, IntegerIs, Zenon
  <2> QED
    BY <2>1, <2>2, CeilAnswered, Zenon
<1> QED
  BY <1>1, <1>3, <1>4, <1>5, <1>6, Zenon

LEMMA ToFloatCallRight == ToFloatCall => FloatsRight'
<1> SUFFICES ASSUME ToFloatCall PROVE FloatsRight'
  OBVIOUS
<1>1. CASE \E w \in Words : Called("aitof", w, w, AIToF(w)) \/ Called("litof", w, w, LIToF(w))
  <2>1. PICK w \in Words : Called("aitof", w, w, AIToF(w)) \/ Called("litof", w, w, LIToF(w))
    BY <1>1, Zenon
  <2>2. w \in WORDs
    BY SampleTypes
  <2>3. CASE Called("aitof", w, w, AIToF(w))
    <3>1. Answered("aitof", w, w, AIToF(w))
      BY <2>3, Operation, Zenon
    <3>2. Normal(AIToF(w)) /\ Value(FToL(AIToF(w)), LONG) = Value(w, WORD)
      BY <2>2, AIToFRight, Zenon
    <3> QED
      BY <3>1, <3>2, ConversionAnswered, Zenon
  <2>4. CASE Called("litof", w, w, LIToF(w))
    <3>1. Answered("litof", w, w, LIToF(w))
      BY <2>4, Operation, Zenon
    <3>2. Normal(LIToF(w)) /\ FToL(LIToF(w)) = w
      BY <2>2, LIToFRight, Zenon
    <3> QED
      BY <3>1, <3>2, ConversionAnswered, Zenon
  <2> QED
    BY <2>1, <2>3, <2>4, Zenon
<1>2. CASE \E l \in Longs : Called("altof", l, l, ALToF(l)) \/ Called("lltof", l, l, LLToF(l))
  <2>1. PICK l \in Longs : Called("altof", l, l, ALToF(l)) \/ Called("lltof", l, l, LLToF(l))
    BY <1>2, Zenon
  <2>2. l \in LONGs
    BY SampleTypes
  <2>3. CASE Called("altof", l, l, ALToF(l))
    <3>1. Answered("altof", l, l, ALToF(l))
      BY <2>3, Operation, Zenon
    <3>2. /\ Normal(ALToF(l))
          /\ FToL(ALToF(l)) = IF Sign(l, LONG) THEN Negat(Kept(Negat(l, LONG)), LONG) ELSE Kept(l)
      BY <2>2, ALToFRight, Zenon
    <3> QED
      BY <3>1, <3>2, ConversionAnswered, Zenon
  <2>4. CASE Called("lltof", l, l, LLToF(l))
    <3>1. Answered("lltof", l, l, LLToF(l))
      BY <2>4, Operation, Zenon
    <3>2. Normal(LLToF(l)) /\ FToL(LLToF(l)) = Kept(l)
      BY <2>2, LLToFRight, Zenon
    <3> QED
      BY <3>1, <3>2, ConversionAnswered, Zenon
  <2> QED
    BY <2>1, <2>3, <2>4, Zenon
<1> QED
  BY <1>1, <1>2, Zenon DEF ToFloatCall

(* The sum, the difference and the product of two words are those of their  *)
(* values while the mantissa holds them.                                    *)
LEMMA ExactCallRight == ExactCall => FloatsRight'
<1> SUFFICES ASSUME ExactCall PROVE FloatsRight'
  OBVIOUS
<1>1. PICK x \in Words, y \in Words :
        Called("exact", x, y, [sum |-> FlAdd(AIToF(x), AIToF(y)), difference |-> FlSub(AIToF(x), AIToF(y)),
                               product |-> FlMul(AIToF(x), AIToF(y))])
  BY Zenon DEF ExactCall
<1> DEFINE r == [sum |-> FlAdd(AIToF(x), AIToF(y)), difference |-> FlSub(AIToF(x), AIToF(y)),
                 product |-> FlMul(AIToF(x), AIToF(y))]
           a == Value(x, WORD)
           b == Value(y, WORD)
<1>2. x \in WORDs /\ y \in WORDs
  BY SampleTypes
<1>3. r.sum = FlAdd(AIToF(x), AIToF(y)) /\ r.difference = FlSub(AIToF(x), AIToF(y))
      /\ r.product = FlMul(AIToF(x), AIToF(y))
  OBVIOUS
<1>4. Called("exact", x, y, r)
  BY <1>1
<1>5. /\ a \in Int /\ Magnitude(a) <= 2 ^ WORD /\ AIToF(x) = FloatOf(a)
      /\ b \in Int /\ Magnitude(b) <= 2 ^ WORD /\ AIToF(y) = FloatOf(b)
  BY <1>2, WordFloat, Zenon
<1> HIDE DEF r, a, b
<1>6. /\ Magnitude(a) <= Top - 1 /\ Magnitude(b) <= Top - 1
      /\ Magnitude(a) <= 2 * Top - 1 /\ Magnitude(b) <= 2 * Top - 1
  <2>1. Magnitude(a) \in Int /\ Magnitude(b) \in Int
    BY <1>5 DEF Magnitude
  <2>2. 2 ^ WORD \in Nat \ {0} /\ 8 * 2 ^ WORD <= Top /\ Top \in Nat
    BY WordInMantissa
  <2> QED
    BY <1>5, <2>1, <2>2
<1>7. r.sum = FloatOf(a + b)
  BY <1>3, <1>5, <1>6, ExactSum, Zenon
<1>8. a # 0 => r.difference = FloatOf(a - b)
  BY <1>3, <1>5, <1>6, ExactDifference, Zenon
<1>9. Magnitude(a * b) < 2 ^ MAN => r.product = FloatOf(a * b)
  BY <1>3, <1>5, <1>6, ExactProduct, Zenon
<1>10. ExactRight(r, a, b)
  BY <1>7, <1>8, <1>9, IntegerIs, Zenon DEF ExactRight
<1>11. Answered("exact", x, y, r)
  BY <1>4, Operation, Zenon
<1> QED
  BY <1>10, <1>11, ExactAnswered, Zenon DEF a, b

(* Floating point is right for every operand: sums, differences, products   *)
(* and quotients to their last place, comparison, conversions, parts, the   *)
(* integers next to a number, and exact arithmetic on words (float/FLOAT.AS,*)
(* LTOF.AS, FTOL.AS, FREXP.AS, FRNDINT.AS, FLOOR.C, CEIL.C, gen/FRELOP.AS). *)
THEOREM FloatsAreRight == Spec => []FloatsRight
<1>1. Init => FloatsRight
  BY DEF Init, Idle, FloatsRight
<1>2. FloatsRight /\ [Next]_vars => FloatsRight'
  <2> SUFFICES ASSUME FloatsRight, [Next]_vars PROVE FloatsRight'
    OBVIOUS
  <2>1. CASE FloatCall
    BY <2>1, FloatCallRight
  <2>2. CASE PartsCall
    BY <2>2, PartsCallRight
  <2>3. CASE ToFloatCall
    BY <2>3, ToFloatCallRight
  <2>4. CASE ExactCall
    BY <2>4, ExactCallRight
  <2>5. CASE WordCall \/ LongCall \/ ShiftCall \/ BitFieldCall
    BY <2>5, MadeCalls, NoFloatCall DEF FloatOps
  <2>6. CASE NumeralCall \/ SortCall \/ FormatCall \/ LinesCall \/ PutwCall \/ LineCall
    BY <2>6, MadeCalls, NoFloatCall DEF FloatOps
  <2>7. CASE ClockCall \/ CpmClockCall
    <3>1. ClockCall => Made("localtime") \/ Made("ctime")
      BY Zenon DEF ClockCall, Made
    <3>2. CpmClockCall => Made("convtime")
      <4> SUFFICES ASSUME CpmClockCall PROVE Made("convtime")
        OBVIOUS
      <4>1. \E x, y, r : Called("convtime", x, y, r)
        BY SMT DEF CpmClockCall
      <4> QED
        BY <4>1 DEF Made
    <3> QED
      BY <2>7, <3>1, <3>2, NoFloatCall DEF FloatOps
  <2>8. CASE Return
    <3>1. call'.op = "idle"
      BY <2>8 DEF Return, Idle
    <3> QED
      BY <3>1, NoFloat DEF FloatOps
  <2>9. CASE UNCHANGED vars
    BY <2>9 DEF vars, FloatsRight
  <2> QED
    BY <2>1, <2>2, <2>3, <2>4, <2>5, <2>6, <2>7, <2>8, <2>9 DEF Next
<1> QED
  BY <1>1, <1>2, PTL DEF Spec
=============================================================================
