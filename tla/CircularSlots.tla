---------------------------- MODULE CircularSlots ----------------------------
(***************************************************************************)
(* Arithmetic of memory that is used round and round in pieces of equal    *)
(* length: the slots of the map queue and the chains of a BD ring.         *)
(***************************************************************************)
EXTENDS Integers, TLAPS

LEMMA DivMod ==
    ASSUME NEW K \in Int, K > 0, NEW a \in Int
    PROVE  a % K \in 0 .. K - 1 /\ a \div K \in Int /\ a = K * (a \div K) + (a % K)
<1>1. a % K \in 0 .. K - 1
  OBVIOUS
<1>2. a \div K \in Int
  OBVIOUS
<1>3. a = K * (a \div K) + (a % K)
  OBVIOUS
<1>4. QED BY <1>1, <1>2, <1>3

LEMMA Multiples ==
    ASSUME NEW K \in Int, K > 0, NEW p \in Int, NEW q \in Int, p < q
    PROVE  K * q >= K * p + K
<1>1. PICK d \in Int : q = p + d /\ d >= 1
  <2>1. q = p + (q - p)  OBVIOUS
  <2> QED BY <2>1
<1>2. K * d >= K
  BY <1>1
<1>3. K * (p + d) = K * p + K * d
  BY <1>1
<1>4. K * d \in Int /\ K * p \in Int
  BY <1>1
<1>5. QED BY <1>1, <1>2, <1>3, <1>4

\* Rotations less than a queue apart have different slots.
LEMMA SlotsDiffer ==
    ASSUME NEW K \in Int, K > 0, NEW a \in Int, NEW b \in Int, a < b, b < a + K
    PROVE  a % K /= b % K
<1> SUFFICES ASSUME a % K = b % K PROVE FALSE
  OBVIOUS
<1> DEFINE p == a \div K
           q == b \div K
           r == a % K
<1>1. p \in Int /\ q \in Int /\ r \in Int /\ a = K * p + r /\ b = K * q + r
  BY DivMod
<1> HIDE DEF p, q, r
<1>2. K * p \in Int /\ K * q \in Int
  BY <1>1
<1>3. CASE p < q
  <2>1. K * q >= K * p + K
    BY <1>1, <1>3, Multiples
  <2>2. QED BY <1>1, <1>2, <2>1
<1>4. CASE q < p
  <2>1. K * p >= K * q + K
    BY <1>1, <1>4, Multiples
  <2>2. QED BY <1>1, <1>2, <2>1
<1>5. CASE p = q
  BY <1>1, <1>5
<1>6. QED BY <1>1, <1>3, <1>4, <1>5

\* Rotations a queue apart share one.
LEMMA SlotsRepeat ==
    ASSUME NEW K \in Int, K > 0, NEW b \in Int
    PROVE  (b - K) % K = b % K
<1> DEFINE a == b - K
           p == a \div K
           q == b \div K
           r == a % K
           s == b % K
<1>1. /\ p \in Int /\ q \in Int /\ r \in 0 .. K - 1 /\ s \in 0 .. K - 1
      /\ a = K * p + r /\ b = K * q + s /\ a \in Int
  BY DivMod
<1>2. K * p \in Int /\ K * q \in Int /\ K * (p + 1) = K * p + K
  BY <1>1
<1>3. K * q - K * (p + 1) = r - s
  BY <1>1, <1>2
<1> HIDE DEF p, q, r, s
<1>4. CASE p + 1 < q
  <2>1. K * q >= K * (p + 1) + K
    BY <1>1, <1>4, Multiples
  <2>2. QED  BY <2>1, <1>1, <1>2, <1>3
<1>5. CASE q < p + 1
  <2>1. K * (p + 1) >= K * q + K
    BY <1>1, <1>5, Multiples
  <2>2. QED  BY <2>1, <1>1, <1>2, <1>3
<1>6. CASE q = p + 1
  BY <1>1, <1>2, <1>3, <1>6
<1>7. r = s
  BY <1>1, <1>4, <1>5, <1>6
<1>8. QED
  BY <1>7 DEF r, s

\* A number is what a division leaves, and a multiple, in one way only.
LEMMA Division ==
    ASSUME NEW K \in Int, K > 0, NEW s \in 0 .. K - 1, NEW q \in Int
    PROVE  (K * q + s) \div K = q /\ (K * q + s) % K = s
<1> DEFINE a == K * q + s
           p == a \div K
           r == a % K
<1>1. K * q \in Int /\ a \in Int
  OBVIOUS
<1>2. p \in Int /\ r \in 0 .. K - 1 /\ a = K * p + r /\ K * p \in Int
  BY <1>1, DivMod
<1>3. K * q + s = K * p + r
  BY <1>2
<1> HIDE DEF p, r
<1>4. CASE p < q
  <2>1. K * q >= K * p + K
    BY <1>2, <1>4, Multiples
  <2>2. QED  BY <2>1, <1>1, <1>2, <1>3
<1>5. CASE q < p
  <2>1. K * p >= K * q + K
    BY <1>2, <1>5, Multiples
  <2>2. QED  BY <2>1, <1>1, <1>2, <1>3
<1>6. CASE p = q
  BY <1>1, <1>2, <1>3, <1>6 DEF p, r
<1>7. QED  BY <1>2, <1>4, <1>5, <1>6

LEMMA Remainder ==
    ASSUME NEW K \in Int, K > 0, NEW s \in 0 .. K - 1, NEW q \in Int
    PROVE  (K * q + s) % K = s
  BY Division

LEMMA InFirstRound ==
    ASSUME NEW K \in Int, K > 0, NEW s \in 0 .. K - 1
    PROVE  s % K = s
<1>1. K * 0 + s = s
  OBVIOUS
<1>2. QED  BY <1>1, 0 \in Int, Remainder

\* Going on by one goes round like the number itself.
LEMMA NextRound ==
    ASSUME NEW K \in Int, K > 0, NEW x \in Int
    PROVE  ((x % K) + 1) % K = (x + 1) % K
<1> DEFINE q == x \div K
           r == x % K
<1>1. q \in Int /\ r \in 0 .. K - 1 /\ x = K * q + r
  BY DivMod
<1> HIDE DEF q, r
<1>2. CASE r + 1 < K
  <2>1. r + 1 \in 0 .. K - 1 /\ x + 1 = K * q + (r + 1)
    BY <1>1, <1>2
  <2>2. (x + 1) % K = r + 1
    BY <1>1, <2>1, Remainder
  <2>3. (r + 1) % K = r + 1
    BY <2>1, InFirstRound
  <2>4. QED  BY <2>2, <2>3 DEF r
<1>3. CASE r + 1 = K
  <2>1. q + 1 \in Int /\ 0 \in 0 .. K - 1 /\ 1 \in Int
    BY <1>1
  <2>2. x + 1 = K * (q + 1) + 0 /\ r + 1 = K * 1 + 0
    BY <1>1, <1>3
  <2>3. (K * (q + 1) + 0) % K = 0
    BY <2>1, Remainder
  <2>4. (K * 1 + 0) % K = 0
    BY <2>1, Remainder
  <2>5. QED  BY <2>2, <2>3, <2>4 DEF r
<1>4. QED  BY <1>1, <1>2, <1>3

\* A ring of S pieces of P: the place in the piece, and the piece.
LEMMA Pieces ==
    ASSUME NEW P \in Int, P > 0, NEW S \in Int, S > 0, NEW x \in Int
    PROVE  /\ (x % (S * P)) % P = x % P
           /\ (x % (S * P)) \div P = (x \div P) % S
<1> DEFINE M == S * P
           q == x \div M
           r == x % M
           u == r \div P
           v == r % P
<1>1. M \in Int /\ M > 0 /\ M = P * S
  <2>1. P * S \in Int /\ S * P = P * S
    OBVIOUS
  <2>2. P * S >= P * 0 + P /\ P * 0 = 0
    BY 0 \in Int, Multiples
  <2>3. QED  BY <2>1, <2>2
<1>2. q \in Int /\ r \in 0 .. M - 1 /\ x = M * q + r
  <2> HIDE DEF M
  <2>1. QED  BY <1>1, DivMod
<1>3. u \in Int /\ v \in 0 .. P - 1 /\ r = P * u + v
  <2>1. r \in Int
    BY <1>1, <1>2
  <2> HIDE DEF r
  <2>2. QED  BY <2>1, DivMod
<1> HIDE DEF M, q, r
<1>4. u \in 0 .. S - 1
  <2> HIDE DEF u, v
  <2>1. P * u \in Int /\ P * u <= r /\ P * u > r - P
    BY <1>1, <1>2, <1>3
  <2>2. ~(u < 0)
    <3>1. SUFFICES ASSUME u < 0 PROVE FALSE
      OBVIOUS
    <3>2. P * 0 >= P * u + P
      BY <1>3, <3>1, 0 \in Int, Multiples
    <3>3. P * 0 = 0
      OBVIOUS
    <3>4. QED  BY <1>1, <1>2, <2>1, <3>2, <3>3
  <2>3. ~(S <= u)
    <3>1. SUFFICES ASSUME S <= u PROVE FALSE
      OBVIOUS
    <3>2. P * u >= P * S
      <4>1. CASE S = u  BY <4>1, <2>1
      <4>2. CASE S < u
        <5>1. P * u >= P * S + P
          BY <1>3, <4>2, Multiples
        <5>2. QED  BY <1>1, <2>1, <5>1
      <4>3. QED  BY <1>3, <3>1, <4>1, <4>2
    <3>3. QED  BY <1>1, <1>2, <2>1, <3>2
  <2>4. QED  BY <1>3, <2>2, <2>3
<1> HIDE DEF u, v
<1>5. S * q + u \in Int /\ x = P * (S * q + u) + v
  <2>1. P * (S * q + u) = (P * S) * q + P * u
    BY <1>2, <1>3
  <2>2. QED  BY <1>1, <1>2, <1>3, <2>1
<1>6. x \div P = S * q + u /\ x % P = v
  <2> DEFINE w == S * q + u
  <2>1. w \in Int /\ x = P * w + v
    BY <1>5
  <2> HIDE DEF w
  <2>2. x \div P = w /\ x % P = v
    BY <1>3, <2>1, Division
  <2>3. QED  BY <2>2 DEF w
<1>7. (S * q + u) % S = u
  BY <1>2, <1>4, Remainder
<1>8. QED
  BY <1>6, <1>7 DEF u, v, r, M
=============================================================================
