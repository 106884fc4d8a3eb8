--------------------------- MODULE HitFile_proofs ---------------------------
(***************************************************************************)
(* For every size of slices, turns and scenarios within ScenarioAssumption: *)
(* a computation of the designer that ends leaves the echoes of its hits   *)
(* in the file, at the place of their slice and time, and nothing else     *)
(* that was not there before.                                              *)
(***************************************************************************)
EXTENDS HitFile, CircularSlots

-----------------------------------------------------------------------------
(* Offsets.                                                                *)

LEMMA Sizes ==
    /\ N \in Nat /\ N > 0 /\ SliceBytes \in Nat /\ SliceBytes > 0
    /\ ByteBits \in Nat /\ ByteBits > 0 /\ Impulse \in Nat /\ Impulse > 0
    /\ Header \in Nat /\ Spread \in Nat /\ MaxSignalTime \in Nat /\ MaxInt \in Nat
    /\ Reserved \in Nat /\ PositionBytes \in 0 .. Reserved
    /\ MaxSignalTime < SliceBytes * ByteBits
    /\ Durations \subseteq Nat \ {0} /\ Times \subseteq 0 .. MaxSignalTime
    /\ Spread <= N
  BY HitFileAssumption, ScenarioAssumption

LEMMA AsIntSmall ==
    ASSUME NEW y \in Int, -(MaxInt + 1) <= y, y <= MaxInt
    PROVE  AsInt(y) = y
<1> USE Sizes
<1>1. PICK K, s \in Int : K = 2 * (MaxInt + 1) /\ s = y + MaxInt + 1
  OBVIOUS
<1>2. K > 0 /\ s \in 0 .. K - 1
  BY <1>1
<1>3. s % K = s
  BY <1>1, <1>2, InFirstRound
<1>4. QED  BY <1>1, <1>3 DEF AsInt

LEMMA AsIntBig ==
    ASSUME NEW y \in Int, MaxInt < y, y < 2 * (MaxInt + 1)
    PROVE  AsInt(y) = y - 2 * (MaxInt + 1)
<1> USE Sizes
<1>1. PICK K, s \in Int : K = 2 * (MaxInt + 1) /\ s = y + MaxInt + 1 - K
  OBVIOUS
<1>2. K > 0 /\ s \in 0 .. K - 1 /\ 1 \in Int
  BY <1>1
<1>3. (K * 1 + s) % K = s
  BY <1>1, <1>2, Remainder
<1>4. K * 1 + s = y + MaxInt + 1
  BY <1>1
<1>5. (y + MaxInt + 1) % K = s
  BY <1>3, <1>4
<1>6. QED  BY <1>1, <1>5 DEF AsInt

\* The byte and bit of a time in its slice.
LEMMA TimeBits ==
    ASSUME NEW t \in 0 .. MaxSignalTime
    PROVE  /\ t \div ByteBits \in 0 .. SliceBytes - 1 /\ t % ByteBits \in 0 .. ByteBits - 1
           /\ ByteBits * (t \div ByteBits) + (t % ByteBits) = t
           /\ t \div ByteBits >= Reserved <=> t >= Reserved * ByteBits
<1> USE Sizes
<1>1. PICK q \in Int, r \in 0 .. ByteBits - 1 :
          q = t \div ByteBits /\ r = t % ByteBits /\ t = ByteBits * q + r
  BY DivMod
<1>2. ByteBits * q \in Int
  BY <1>1
<1>3. ~(q < 0)
  <2>1. SUFFICES ASSUME q < 0 PROVE FALSE
    OBVIOUS
  <2>2. ByteBits * 0 >= ByteBits * q + ByteBits /\ ByteBits * 0 = 0
    BY <1>1, <2>1, 0 \in Int, Multiples
  <2>3. QED  BY <1>1, <1>2, <2>2
<1>4. ~(SliceBytes <= q)
  <2>1. SUFFICES ASSUME SliceBytes <= q PROVE FALSE
    OBVIOUS
  <2>2. ByteBits * q >= ByteBits * SliceBytes
    <3>1. CASE SliceBytes = q
      BY <1>2, <3>1
    <3>2. CASE SliceBytes < q
      <4>1. ByteBits * q >= ByteBits * SliceBytes + ByteBits
        BY <1>1, <3>2, Multiples
      <4>2. ByteBits * SliceBytes \in Int
        OBVIOUS
      <4>3. QED  BY <1>2, <4>1, <4>2
    <3>3. QED  BY <1>1, <2>1, <3>1, <3>2
  <2>3. ByteBits * SliceBytes = SliceBytes * ByteBits /\ SliceBytes * ByteBits \in Int
    OBVIOUS
  <2>4. QED  BY <1>1, <1>2, <2>2, <2>3
<1>5. PICK m \in Int : m = Reserved * ByteBits /\ m = ByteBits * Reserved
  OBVIOUS
<1>6. q >= Reserved <=> t >= m
  <2>1. CASE q = Reserved
    BY <1>1, <1>5, <2>1
  <2>2. CASE q < Reserved
    <3>1. ByteBits * Reserved >= ByteBits * q + ByteBits
      BY <1>1, <2>2, Multiples
    <3>2. QED  BY <1>1, <1>2, <1>5, <2>2, <3>1
  <2>3. CASE Reserved < q
    <3>1. ByteBits * q >= ByteBits * Reserved + ByteBits
      BY <1>1, <2>3, Multiples
    <3>2. QED  BY <1>1, <1>2, <1>5, <2>3, <3>1
  <2>4. QED  BY <1>1, <2>1, <2>2, <2>3
<1>7. QED  BY <1>1, <1>3, <1>4, <1>5, <1>6

\* An offset that 32 bits hold is right, or negative.
LEMMA Place ==
    ASSUME NEW a \in Nat, NEW t \in 0 .. MaxSignalTime,
           Header + (a + 1) * SliceBytes <= 2 * (MaxInt + 1)
    PROVE  \E x \in Nat : /\ x = Header + a * SliceBytes + t \div ByteBits
                          /\ x <= MaxInt => FilePos(a, t) = x
                          /\ x > MaxInt => FilePos(a, t) < 0
                          /\ FilePos(a, t) \in Int
<1> USE Sizes
<1>1. PICK q \in 0 .. SliceBytes - 1 : q = t \div ByteBits
  BY TimeBits
<1>2. PICK y \in Nat : y = a * SliceBytes /\ (a + 1) * SliceBytes = y + SliceBytes
  OBVIOUS
<1>3. FilePos(a, t) = AsInt(Header + AsInt(y) + q)
  BY <1>1, <1>2 DEF FilePos
<1>4. PICK x \in Nat : x = Header + y + q
  BY <1>1, <1>2
<1>5. x < 2 * (MaxInt + 1)
  BY <1>1, <1>2, <1>4
<1>6. CASE y <= MaxInt
  <2>1. AsInt(y) = y
    BY <1>2, <1>6, AsIntSmall
  <2>2. FilePos(a, t) = AsInt(x)
    BY <1>3, <1>4, <2>1
  <2>3. x <= MaxInt => AsInt(x) = x
    BY <1>4, AsIntSmall
  <2>4. x > MaxInt => AsInt(x) = x - 2 * (MaxInt + 1)
    BY <1>4, <1>5, AsIntBig
  <2>5. QED  BY <1>1, <1>2, <1>4, <1>5, <2>2, <2>3, <2>4
<1>7. CASE y > MaxInt
  <2>1. AsInt(y) = y - 2 * (MaxInt + 1)
    <3>1. y < 2 * (MaxInt + 1)
      BY <1>1, <1>2, <1>4, <1>5
    <3>2. QED  BY <1>2, <1>7, <3>1, AsIntBig
  <2>2. PICK z \in Int : z = x - 2 * (MaxInt + 1)
    BY <1>4
  <2>3. FilePos(a, t) = AsInt(z)
    BY <1>1, <1>2, <1>3, <1>4, <2>1, <2>2
  <2>4. -(MaxInt + 1) <= z /\ z < 0 /\ x > MaxInt
    BY <1>1, <1>2, <1>4, <1>5, <1>7, <2>2
  <2>5. AsInt(z) = z
    BY <2>2, <2>4, AsIntSmall
  <2>6. QED  BY <1>1, <1>2, <1>4, <2>3, <2>4, <2>5
<1>8. QED  BY <1>2, <1>6, <1>7

\* A file has a whole rotation at least, and after it room for the slices that
\* a beam or a rounded azimuth reaches.
LEMMA Room ==
    ASSUME kind \in {"clutter", "targets"}, NEW d \in Nat \ {0}
    PROVE  \E r \in Nat, z \in Nat :
              /\ r = Rotations(d) /\ r >= 1 /\ (kind = "clutter" => r = 1)
              /\ z = FileSize(d) /\ z = Header + (r * N) * SliceBytes
              /\ z + SliceBytes <= MaxInt /\ z + Spread * SliceBytes <= MaxInt
              /\ r <= d
<1> USE Sizes
<1>1. PICK B \in Nat : B = N * SliceBytes /\ B > 0
  <2>1. N * SliceBytes >= N * 0 + N /\ N * 0 = 0 /\ N * SliceBytes \in Nat
    BY 0 \in Int, Multiples
  <2>2. QED  BY <2>1
<1>2. PICK fit \in Int, slack \in 0 .. B - 1 :
          /\ fit = (MaxInt - Header) \div B /\ slack = (MaxInt - Header) % B
          /\ MaxInt - Header = B * fit + slack
  <2>1. MaxInt - Header \in Int /\ B \in Int
    BY <1>1
  <2>2. QED  BY <1>1, <2>1, DivMod
<1>3. Header + B <= MaxInt /\ SliceBytes <= slack /\ Spread * SliceBytes <= slack
  BY <1>1, <1>2, ScenarioAssumption
<1>4. PICK m \in Int : m = B * fit
  BY <1>2
<1>5. ~(fit < 1)
  <2>1. SUFFICES ASSUME fit < 1 PROVE FALSE
    OBVIOUS
  <2>2. B * 1 >= B * fit + B /\ B * 1 = B
    BY <1>1, <1>2, <2>1, 1 \in Int, Multiples
  <2>3. QED  BY <1>1, <1>2, <1>3, <1>4, <2>2
<1>6. PICK r \in Nat : /\ r = Rotations(d) /\ r >= 1 /\ r <= fit /\ r <= d
                       /\ kind = "clutter" => r = 1
  <2>1. (MaxInt - Header) \div RotationBytes = fit
    BY <1>1, <1>2 DEF RotationBytes
  <2>2. Rotations(d) = IF kind = "clutter" THEN 1 ELSE IF d < fit THEN d ELSE fit
    BY <2>1 DEF Rotations
  <2>3. d \in Nat /\ d >= 1
    OBVIOUS
  <2>4. QED  BY <1>2, <1>5, <2>2, <2>3
<1>7. PICK k \in Int : k = B * r
  BY <1>1
<1>8. k <= m
  <2>1. CASE r = fit
    BY <1>4, <1>7, <2>1
  <2>2. CASE r < fit
    <3>1. B * fit >= B * r + B
      BY <1>1, <1>2, <1>6, <2>2, Multiples
    <3>2. QED  BY <1>1, <1>4, <1>7, <3>1
  <2>3. QED  BY <1>2, <1>6, <2>1, <2>2
<1>9. r * RotationBytes = k /\ (r * N) * SliceBytes = k
  <2>1. (r * N) * SliceBytes = (N * SliceBytes) * r /\ r * (N * SliceBytes) = (N * SliceBytes) * r
    OBVIOUS
  <2>2. QED  BY <1>1, <1>7, <2>1 DEF RotationBytes
<1>10. PICK w \in Int : w = Spread * SliceBytes
  OBVIOUS
<1>11. FileSize(d) = Header + k
  BY <1>6, <1>9 DEF FileSize
<1>12. k >= 0
  <2>1. B * r >= B * 0 + B /\ B * 0 = 0
    BY <1>1, <1>6, 0 \in Int, Multiples
  <2>2. QED  BY <1>1, <1>7, <2>1
<1>13. Header + k \in Nat
  BY <1>7, <1>12
<1>14. Header + k + SliceBytes <= MaxInt /\ Header + k + w <= MaxInt
  BY <1>1, <1>2, <1>3, <1>4, <1>7, <1>8, <1>10
<1>15. QED
  BY <1>6, <1>9, <1>10, <1>11, <1>13, <1>14

\* What writeHit does with an offset that 32 bits hold.
LEMMA Lands ==
    ASSUME NEW a \in Nat, NEW t \in 0 .. MaxSignalTime, NEW c \in Nat,
           Header + (a + 1) * SliceBytes <= 2 * (MaxInt + 1),
           size = Header + c * SliceBytes, size <= MaxInt
    PROVE  /\ Written(a, t) = IF a < c /\ t >= Reserved * ByteBits THEN {BitOf(a, t)} ELSE {}
           /\ Header + (a + 1) * SliceBytes <= MaxInt + 1 => ~Throws(a, t)
           /\ Throws(a, t) => Header + a * SliceBytes + t \div ByteBits > MaxInt
<1> USE Sizes
<1>1. PICK q \in 0 .. SliceBytes - 1 : /\ q = t \div ByteBits
                                       /\ q >= Reserved <=> t >= Reserved * ByteBits
  BY TimeBits
<1>2. PICK x \in Nat : /\ x = Header + a * SliceBytes + q
                       /\ x <= MaxInt => FilePos(a, t) = x
                       /\ x > MaxInt => FilePos(a, t) < 0
                       /\ FilePos(a, t) \in Int
  BY <1>1, Place
<1>3. PICK y, z \in Int : /\ y = a * SliceBytes /\ (a + 1) * SliceBytes = y + SliceBytes
                          /\ y = SliceBytes * a /\ z = SliceBytes * c /\ z = c * SliceBytes
  OBVIOUS
<1>4. a < c <=> x < size
  <2>1. CASE a < c
    <3>1. SliceBytes * c >= SliceBytes * a + SliceBytes
      BY <2>1, Multiples
    <3>2. QED  BY <1>1, <1>2, <1>3, <2>1, <3>1
  <2>2. CASE a = c
    BY <1>1, <1>2, <1>3, <2>2
  <2>3. CASE c < a
    <3>1. SliceBytes * a >= SliceBytes * c + SliceBytes
      BY <2>3, Multiples
    <3>2. QED  BY <1>1, <1>2, <1>3, <2>3, <3>1
  <2>4. QED  BY <2>1, <2>2, <2>3
<1>5. size \in Nat
  <2>1. SliceBytes * c >= 0
    <3>1. CASE c = 0
      BY <3>1
    <3>2. CASE 0 < c
      <4>1. SliceBytes * c >= SliceBytes * 0 + SliceBytes /\ SliceBytes * 0 = 0
        BY <3>2, 0 \in Int, Multiples
      <4>2. QED  BY <1>3, <4>1
    <3>3. QED  BY <3>1, <3>2
  <2>2. QED  BY <1>3, <2>1
<1>6. BitOf(a, t) = <<x, t % ByteBits>>
  BY <1>1, <1>2 DEF BitOf
<1>7. Ignored(a, t) <=> q < Reserved \/ (x <= MaxInt /\ x >= size)
  BY <1>1, <1>2, <1>5 DEF Ignored
<1>8. Throws(a, t) <=> q >= Reserved /\ x > MaxInt
  BY <1>1, <1>2, <1>5, <1>7 DEF Throws
<1>9. Written(a, t) = IF a < c /\ t >= Reserved * ByteBits THEN {BitOf(a, t)} ELSE {}
  <2>1. CASE a < c /\ t >= Reserved * ByteBits
    <3>1. x < size /\ q >= Reserved /\ x <= MaxInt
      BY <1>1, <1>2, <1>4, <1>5, <2>1
    <3>2. ~Ignored(a, t) /\ ~Throws(a, t) /\ FilePos(a, t) = x
      BY <1>1, <1>2, <1>5, <1>7, <1>8, <3>1
    <3>3. QED  BY <1>6, <2>1, <3>2 DEF Written
  <2>2. CASE ~(a < c /\ t >= Reserved * ByteBits)
    <3>1. x >= size \/ q < Reserved
      BY <1>1, <1>2, <1>4, <1>5, <2>2
    <3>2. Ignored(a, t) \/ Throws(a, t)
      BY <1>1, <1>2, <1>5, <1>7, <1>8, <3>1
    <3>3. QED  BY <2>2, <3>2 DEF Written
  <2>3. QED  BY <2>1, <2>2
<1>10. Header + (a + 1) * SliceBytes <= MaxInt + 1 => x <= MaxInt
  BY <1>1, <1>2, <1>3
<1>11. Throws(a, t) => Header + a * SliceBytes + t \div ByteBits > MaxInt
  BY <1>1, <1>2, <1>8
<1>12. QED
  BY <1>8, <1>9, <1>10, <1>11

-----------------------------------------------------------------------------
(* The invariant.                                                          *)

Slices == Rotations(duration) * N

\* A hit that writeHit puts into the buffer, the bit it sets there, and what
\* lies within the beam and the impulse of it.
InFile(h) == NormAcpIdx(h[1]) < Slices /\ h[2] >= Reserved * ByteBits
HitBit(h) == BitOf(NormAcpIdx(h[1]), h[2])
Near(h, slice, time) ==
    /\ NormAcpIdx(h[1]) - Spread <= slice /\ slice <= NormAcpIdx(h[1]) + Spread
    /\ h[2] <= time /\ time < h[2] + Impulse

\* Offsets of hits need no more than 32 bits.
HTypes ==
    /\ kind \in {"clutter", "targets"}
    /\ pc \in {"idle", "hits", "spread", "done", "failed"}
    /\ pc /= "idle" => duration \in Durations /\ size = FileSize(duration)
    /\ \A h \in hits : /\ NormAcpIdx(h[1]) \in Nat /\ h[2] \in 0 .. MaxSignalTime
                       /\ Header + (NormAcpIdx(h[1]) + 1) * SliceBytes <= 2 * (MaxInt + 1)

\* Neither the header nor a position field is ever hit, so that writing them
\* destroys nothing.
Clean ==
    \A bit \in file : /\ bit[1] \in Int /\ bit[1] >= Header
                      /\ (bit[1] - Header) % SliceBytes >= Reserved

\* The buffer has the hits that lie in the file.
Buffer == pc \in {"hits", "spread"} =>
    \A bit \in raw : \E h \in hits : InFile(h) /\ bit = HitBit(h)

Collecting == pc = "hits" =>
    /\ file \subseteq before
    /\ \A h \in hits : InFile(h) => HitBit(h) \in raw

\* What has left the buffer has all its echoes in the file.
Spreading == pc \in {"spread", "done"} =>
    /\ announced = IF kind = "clutter" THEN 1 ELSE duration
    /\ file \ Echoes \subseteq before
    /\ \A h \in hits : InFile(h) /\ HitBit(h) \notin raw =>
           \A slice \in 0 .. Slices - 1, time \in 0 .. MaxSignalTime :
               Near(h, slice, time) => BitOf(slice, time) \in file

HInv ==
    /\ HTypes /\ Clean /\ Buffer /\ Collecting /\ Spreading
    /\ pc = "done" => raw = {}
    /\ FailsOnlyBeyondInt

-----------------------------------------------------------------------------
(* Bits and echoes.                                                        *)

\* spreadHits reads slice and time of a hit back from its bit.
LEMMA ReadBack ==
    ASSUME NEW a \in Nat, NEW t \in 0 .. MaxSignalTime
    PROVE  /\ Response(BitOf(a, t)) = (FromAcpIdx(a) .. a + Spread) \X (t .. ToRspTime(t))
           /\ BitOf(a, t)[1] \in Int /\ BitOf(a, t)[1] >= Header
           /\ (BitOf(a, t)[1] - Header) % SliceBytes = t \div ByteBits
<1> USE Sizes
<1>1. PICK q \in 0 .. SliceBytes - 1, r \in Int :
          q = t \div ByteBits /\ r = t % ByteBits /\ ByteBits * q + r = t
  BY TimeBits
<1>2. PICK y \in Nat : y = a * SliceBytes /\ y = SliceBytes * a
  OBVIOUS
<1>3. BitOf(a, t) = <<Header + y + q, r>>
  BY <1>1, <1>2 DEF BitOf
<1>4. /\ BitOf(a, t)[1] - Header = SliceBytes * a + q
      /\ BitOf(a, t)[1] \in Int /\ BitOf(a, t)[1] >= Header
  <2>1. BitOf(a, t)[1] = Header + y + q
    BY <1>3
  <2>2. QED  BY <1>1, <1>2, <2>1
<1>5. (SliceBytes * a + q) \div SliceBytes = a /\ (SliceBytes * a + q) % SliceBytes = q
  BY <1>1, Division
<1>6. (BitOf(a, t)[1] - Header) \div SliceBytes = a
  BY <1>4, <1>5
<1>7. (BitOf(a, t)[1] - Header) % SliceBytes = q
  BY <1>4, <1>5
<1>8. ByteBits * ((BitOf(a, t)[1] - Header) % SliceBytes) + BitOf(a, t)[2] = t
  BY <1>1, <1>3, <1>7
<1>9. QED  BY <1>1, <1>4, <1>6, <1>7, <1>8 DEF Response

\* Hits of one bit are one hit.
LEMMA SameBit ==
    ASSUME NEW a \in Nat, NEW b \in Nat, NEW t \in 0 .. MaxSignalTime,
           NEW u \in 0 .. MaxSignalTime, BitOf(a, u) = BitOf(b, t)
    PROVE  a = b /\ u = t
<1> USE Sizes
<1>1. PICK q \in 0 .. SliceBytes - 1, r \in Int :
          q = t \div ByteBits /\ r = t % ByteBits /\ ByteBits * q + r = t
  BY TimeBits
<1>2. PICK p \in 0 .. SliceBytes - 1, s \in Int :
          p = u \div ByteBits /\ s = u % ByteBits /\ ByteBits * p + s = u
  BY TimeBits
<1>3. PICK x, y \in Int : x = SliceBytes * a + p /\ y = SliceBytes * b + q
  BY <1>1, <1>2
<1>4. x = y /\ r = s
  <2>1. PICK k, l \in Int : /\ k = a * SliceBytes /\ l = b * SliceBytes
                            /\ k = SliceBytes * a /\ l = SliceBytes * b
    OBVIOUS
  <2>2. PICK m, n \in Int : m = Header + k + p /\ n = Header + l + q
    BY <1>1, <1>2, <2>1
  <2>3. BitOf(a, u) = <<m, s>>
    BY <1>2, <2>1, <2>2 DEF BitOf
  <2>4. BitOf(b, t) = <<n, r>>
    BY <1>1, <2>1, <2>2 DEF BitOf
  <2>5. <<m, s>> = <<n, r>>
    BY <2>3, <2>4
  <2>6. m = n /\ s = r
    BY <2>5
  <2>7. QED  BY <1>1, <1>2, <1>3, <2>1, <2>2, <2>6
<1>5. (SliceBytes * a + p) \div SliceBytes = a /\ (SliceBytes * a + p) % SliceBytes = p
  BY <1>2, Division
<1>6. (SliceBytes * b + q) \div SliceBytes = b /\ (SliceBytes * b + q) % SliceBytes = q
  BY <1>1, Division
<1>7. QED  BY <1>1, <1>2, <1>3, <1>4, <1>5, <1>6

\* The file of a computation under way.
LEMMA FileEnds ==
    ASSUME HTypes, pc /= "idle"
    PROVE  /\ Slices \in Nat /\ Slices >= N
           /\ size = Header + Slices * SliceBytes
           /\ size \in Nat /\ size + SliceBytes <= MaxInt /\ size + Spread * SliceBytes <= MaxInt
           /\ kind = "clutter" => Slices = N
<1> USE Sizes
<1>1. kind \in {"clutter", "targets"} /\ duration \in Durations /\ size = FileSize(duration)
  BY DEF HTypes
<1>2. PICK r \in Nat, z \in Nat :
          /\ r = Rotations(duration) /\ r >= 1 /\ (kind = "clutter" => r = 1)
          /\ z = FileSize(duration) /\ z = Header + (r * N) * SliceBytes
          /\ z + SliceBytes <= MaxInt /\ z + Spread * SliceBytes <= MaxInt
  BY <1>1, Room
<1>3. Slices = r * N /\ Slices = N * r
  BY <1>2 DEF Slices
<1>4. N * r >= N * 0 + N /\ N * 0 = 0
  BY <1>2, 0 \in Int, Multiples
<1>5. r * N \in Nat /\ r * N >= N
  BY <1>3, <1>4
<1>6. size = z
  BY <1>1, <1>2
<1>7. QED  BY <1>2, <1>3, <1>5, <1>6

LEMMA EchoOf ==
    ASSUME NEW h \in hits, InFile(h), NEW slice \in 0 .. Slices - 1,
           NEW time \in 0 .. MaxSignalTime, Near(h, slice, time)
    PROVE  BitOf(slice, time) \in Echoes
<1>1. Echo(slice, time)
  BY DEF Echo, InFile, Near, Slices
<1>2. <<slice, time>> \in {q \in (0 .. Rotations(duration) * N - 1) \X (0 .. MaxSignalTime) :
                              Echo(q[1], q[2])}
  BY <1>1 DEF Slices
<1>3. QED  BY <1>2 DEF Echoes

LEMMA OfEcho ==
    ASSUME NEW bit \in Echoes
    PROVE  \E slice \in 0 .. Slices - 1, time \in 0 .. MaxSignalTime, h \in hits :
              InFile(h) /\ Near(h, slice, time) /\ bit = BitOf(slice, time)
<1>1. PICK p \in {q \in (0 .. Rotations(duration) * N - 1) \X (0 .. MaxSignalTime) :
                     Echo(q[1], q[2])} : bit = BitOf(p[1], p[2])
  BY DEF Echoes
<1>2. p[1] \in 0 .. Slices - 1 /\ p[2] \in 0 .. MaxSignalTime /\ Echo(p[1], p[2])
  BY <1>1 DEF Slices
<1>3. PICK h \in hits : InFile(h) /\ Near(h, p[1], p[2])
  BY <1>2 DEF Echo, InFile, Near, Slices
<1>4. QED  BY <1>1, <1>2, <1>3

\* A response stays within the beam, the impulse and the largest offset, so
\* that writing it cannot fail; it sets the bits that lie in the file.
LEMMA Responds ==
    ASSUME HTypes, pc /= "idle", NEW h \in hits, InFile(h), NEW w \in Response(HitBit(h))
    PROVE  /\ w[1] \in Nat /\ w[2] \in h[2] .. MaxSignalTime
           /\ Near(h, w[1], w[2]) /\ ~Throws(w[1], w[2])
           /\ Written(w[1], w[2]) = IF w[1] < Slices THEN {BitOf(w[1], w[2])} ELSE {}
<1> USE Sizes
<1>1. PICK a \in Nat, t \in 0 .. MaxSignalTime : a = NormAcpIdx(h[1]) /\ t = h[2]
  BY DEF HTypes
<1>2. a < Slices /\ t >= Reserved * ByteBits
  BY <1>1 DEF InFile
<1>3. Response(HitBit(h)) = (FromAcpIdx(a) .. a + Spread) \X (t .. ToRspTime(t))
  BY <1>1, ReadBack DEF HitBit
<1>4. w[1] \in FromAcpIdx(a) .. a + Spread /\ w[2] \in t .. ToRspTime(t)
  BY <1>3
<1>5. FromAcpIdx(a) >= 0 /\ FromAcpIdx(a) >= a - Spread /\ FromAcpIdx(a) \in Int
  BY <1>1 DEF FromAcpIdx
<1>6. ToRspTime(t) \in Int /\ ToRspTime(t) <= MaxSignalTime /\ ToRspTime(t) < t + Impulse
  BY <1>1 DEF ToRspTime
<1>7. PICK s \in Nat, u \in t .. MaxSignalTime :
          /\ s = w[1] /\ u = w[2]
          /\ a - Spread <= s /\ s <= a + Spread /\ u < t + Impulse
  BY <1>1, <1>4, <1>5, <1>6
<1>8. Near(h, w[1], w[2])
  BY <1>1, <1>7 DEF Near
<1>9. /\ Slices \in Nat /\ size = Header + Slices * SliceBytes
      /\ size \in Nat /\ size + Spread * SliceBytes <= MaxInt
  BY FileEnds
<1>10. Header + (s + 1) * SliceBytes <= MaxInt
  <2>1. s + 1 <= Slices + Spread
    BY <1>1, <1>2, <1>7, <1>9
  <2>2. SliceBytes * (s + 1) <= SliceBytes * (Slices + Spread)
    <3>1. CASE s + 1 = Slices + Spread
      <4>1. SliceBytes * (s + 1) = SliceBytes * (Slices + Spread) /\ SliceBytes * (s + 1) \in Int
        BY <1>7, <3>1
      <4>2. QED  BY <4>1
    <3>2. CASE s + 1 < Slices + Spread
      <4>1. s + 1 \in Int /\ Slices + Spread \in Int
        BY <1>7, <1>9
      <4>2. SliceBytes * (Slices + Spread) >= SliceBytes * (s + 1) + SliceBytes
        BY <3>2, <4>1, Multiples
      <4>3. SliceBytes * (Slices + Spread) \in Int /\ SliceBytes * (s + 1) \in Int
        BY <1>7, <1>9
      <4>4. QED  BY <4>2, <4>3
    <3>3. QED  BY <1>7, <1>9, <2>1, <3>1, <3>2
  <2>3. PICK k, l, m \in Int :
            /\ k = (s + 1) * SliceBytes /\ l = Slices * SliceBytes /\ m = Spread * SliceBytes
            /\ SliceBytes * (s + 1) = k /\ SliceBytes * (Slices + Spread) = l + m
    BY <1>7, <1>9
  <2>4. QED  BY <1>9, <2>2, <2>3
<1>11. Header + (s + 1) * SliceBytes <= MaxInt + 1
       /\ Header + (s + 1) * SliceBytes <= 2 * (MaxInt + 1)
  <2>1. PICK k \in Int : k = (s + 1) * SliceBytes
    BY <1>7
  <2>2. QED  BY <1>10, <2>1
<1>12. u \in 0 .. MaxSignalTime /\ u >= t
  BY <1>1, <1>7
<1>13. size <= MaxInt
  <2>1. PICK m \in Int : m = Spread * SliceBytes
    OBVIOUS
  <2>2. m >= 0
    <3>1. CASE Spread = 0
      BY <2>1, <3>1
    <3>2. CASE 0 < Spread
      <4>1. SliceBytes * Spread >= SliceBytes * 0 + SliceBytes /\ SliceBytes * 0 = 0
        BY <3>2, 0 \in Int, Multiples
      <4>2. QED  BY <2>1, <4>1
    <3>3. QED  BY <3>1, <3>2
  <2>3. QED  BY <1>9, <2>1, <2>2
<1>14. /\ Written(s, u) = IF s < Slices /\ u >= Reserved * ByteBits THEN {BitOf(s, u)} ELSE {}
       /\ ~Throws(s, u)
  BY <1>7, <1>9, <1>11, <1>12, <1>13, Lands
<1>15. u >= Reserved * ByteBits
  <2>1. PICK k \in Int : k = Reserved * ByteBits
    OBVIOUS
  <2>2. QED  BY <1>2, <1>12, <2>1
<1>16. QED  BY <1>1, <1>7, <1>8, <1>14, <1>15

-----------------------------------------------------------------------------
(* The steps.                                                              *)

\* While no computation begins, hits keep their place.
LEMMA SameFile ==
    ASSUME UNCHANGED <<kind, duration>>
    PROVE  /\ Slices' = Slices
           /\ \A d : FileSize(d)' = FileSize(d)
           /\ \A h : InFile(h)' <=> InFile(h)
           /\ \A h : HitBit(h)' = HitBit(h)
           /\ \A h : NormAcpIdx(h[1])' = NormAcpIdx(h[1])
           /\ \A h, slice, time : Near(h, slice, time)' <=> Near(h, slice, time)
           /\ UNCHANGED hits => Echoes' = Echoes
<1>1. Slices' = Slices
  BY DEF Slices, Rotations
<1>2. \A d : FileSize(d)' = FileSize(d)
  BY DEF FileSize, Rotations
<1>3. \A x : NormAcpIdx(x)' = NormAcpIdx(x)
  BY DEF NormAcpIdx
<1>4. \A h : (InFile(h)' <=> InFile(h)) /\ HitBit(h)' = HitBit(h)
  BY <1>1, <1>3 DEF InFile, HitBit, BitOf
<1>5. \A h, slice, time : Near(h, slice, time)' <=> Near(h, slice, time)
  BY <1>3 DEF Near
<1>6. UNCHANGED hits => Echoes' = Echoes
  BY DEF Echoes, Echo, BitOf, NormAcpIdx, Rotations
<1>7. QED  BY <1>1, <1>2, <1>3, <1>4, <1>5, <1>6

LEMMA ComputeStep == ASSUME HInv, Compute PROVE HInv'
<1> USE Sizes
<1>1. /\ pc' = "hits" /\ duration' \in Durations /\ kind' = kind
      /\ hits' = {} /\ raw' = {} /\ before' = file
  BY DEF Compute
<1>2. PICK answer \in Answers : SetLength(Kept(answer), FileSize(duration'))
  BY DEF Compute
<1>3. size' = FileSize(duration') /\ file' \subseteq file
  BY <1>2 DEF SetLength, Kept
<1>4. FileSize(duration)' = FileSize(duration')
  BY <1>1 DEF FileSize, Rotations
<1>5. HTypes'
  BY <1>1, <1>3, <1>4 DEF HInv, HTypes
<1>6. Clean'
  BY <1>3 DEF HInv, Clean
<1>7. Buffer' /\ Collecting' /\ Spreading' /\ FailsOnlyBeyondInt'
  BY <1>1, <1>3 DEF Buffer, Collecting, Spreading, FailsOnlyBeyondInt
<1>8. QED  BY <1>1, <1>5, <1>6, <1>7 DEF HInv

\* The largest acpIdx: that of the slice after the last one.
LEMMA HitPlace ==
    ASSUME HTypes, pc /= "idle",
           NEW acpIdx \in 0 .. LastAcpIdx
    PROVE  /\ NormAcpIdx(acpIdx) \in Nat
           /\ Header + (NormAcpIdx(acpIdx) + 1) * SliceBytes <= 2 * (MaxInt + 1)
           /\ (kind = "clutter" \/ duration + 1 <= Rotations(duration + 1)) =>
                  Header + (NormAcpIdx(acpIdx) + 1) * SliceBytes <= MaxInt + 1
<1> USE Sizes
<1>1. kind \in {"clutter", "targets"} /\ duration \in Durations /\ duration \in Nat
  BY DEF HTypes
<1>2. /\ Slices \in Nat /\ Slices >= N /\ size = Header + Slices * SliceBytes
      /\ size \in Nat /\ size + SliceBytes <= MaxInt
      /\ kind = "clutter" => Slices = N
  BY <1>1, FileEnds
<1>3. PICK a \in Nat : /\ a = NormAcpIdx(acpIdx)
                       /\ kind = "clutter" => a <= Slices
                       /\ kind = "targets" => a <= N * (duration + 1)
  <2>1. CASE kind = "clutter"
    <3>1. acpIdx \in Int /\ acpIdx % N \in 0 .. N - 1
      <4>1. acpIdx \in Int
        BY <2>1 DEF LastAcpIdx
      <4>2. QED  BY <4>1, DivMod
    <3>2. QED  BY <1>2, <2>1, <3>1 DEF NormAcpIdx
  <2>2. CASE kind = "targets"
    <3>1. N * (duration + 1) \in Nat /\ acpIdx \in 0 .. N * (duration + 1)
      BY <1>1, <2>2 DEF LastAcpIdx
    <3>2. QED  BY <2>2, <3>1 DEF NormAcpIdx
  <2>3. QED  BY <1>1, <2>1, <2>2
<1>4. ASSUME NEW c \in Nat, a <= c
      PROVE  (a + 1) * SliceBytes <= c * SliceBytes + SliceBytes
  <2>1. SliceBytes * a <= SliceBytes * c
    <3>1. CASE a = c
      <4>1. SliceBytes * a \in Int
        OBVIOUS
      <4>2. QED  BY <3>1, <4>1
    <3>2. CASE a < c
      <4>1. SliceBytes * c >= SliceBytes * a + SliceBytes
        BY <3>2, Multiples
      <4>2. SliceBytes * a \in Int /\ SliceBytes * c \in Int
        OBVIOUS
      <4>3. QED  BY <4>1, <4>2
    <3>3. QED  BY <1>4, <3>1, <3>2
  <2>2. PICK k, l \in Int : /\ k = SliceBytes * a /\ l = SliceBytes * c
                            /\ (a + 1) * SliceBytes = k + SliceBytes /\ c * SliceBytes = l
    OBVIOUS
  <2>3. QED  BY <2>1, <2>2
<1>5. PICK k \in Int : k = (a + 1) * SliceBytes
  OBVIOUS
<1>6. a <= Slices => Header + k <= MaxInt + 1
  <2>1. PICK l \in Int : l = Slices * SliceBytes
    BY <1>2
  <2>2. QED  BY <1>2, <1>4, <1>5, <2>1
<1>7. Header + k <= 2 * (MaxInt + 1)
  <2>1. CASE kind = "clutter"
    BY <1>3, <1>5, <1>6, <2>1
  <2>2. CASE kind = "targets"
    <3>1. Header + ((duration + 1) * N + 1) * SliceBytes <= 2 * (MaxInt + 1)
      BY <1>1, ScenarioAssumption
    <3>2. PICK c \in Nat : c = (duration + 1) * N /\ c = N * (duration + 1)
      BY <1>1
    <3>3. PICK l \in Int : l = c * SliceBytes /\ (c + 1) * SliceBytes = l + SliceBytes
      OBVIOUS
    <3>4. QED  BY <1>3, <1>4, <1>5, <2>2, <3>1, <3>2, <3>3
  <2>3. QED  BY <1>1, <2>1, <2>2
<1>8. (kind = "clutter" \/ duration + 1 <= Rotations(duration + 1)) =>
          Header + k <= MaxInt + 1
  <2>1. CASE kind = "clutter"
    BY <1>3, <1>6, <2>1
  <2>2. CASE kind = "targets" /\ duration + 1 <= Rotations(duration + 1)
    <3>1. duration + 1 \in Nat \ {0}
      BY <1>1
    <3>2. PICK r \in Nat, z \in Nat :
              /\ r = Rotations(duration + 1) /\ z = Header + (r * N) * SliceBytes
              /\ z + SliceBytes <= MaxInt /\ r <= duration + 1
      BY <1>1, <3>1, Room
    <3>3. r = duration + 1
      BY <1>1, <2>2, <3>2
    <3>4. PICK c \in Nat : c = r * N /\ c = N * (duration + 1)
      BY <1>1, <3>3
    <3>5. PICK l \in Int : l = c * SliceBytes
      OBVIOUS
    <3>6. z = Header + l
      BY <3>2, <3>4, <3>5
    <3>7. a <= c
      BY <1>3, <2>2, <3>4
    <3>8. k <= l + SliceBytes
      BY <1>4, <1>5, <3>5, <3>7
    <3>9. QED  BY <1>5, <3>2, <3>5, <3>6, <3>8
  <2>3. QED  BY <1>1, <2>1, <2>2
<1>9. QED  BY <1>3, <1>5, <1>7, <1>8

LEMMA HitStep ==
    ASSUME HInv, NEW acpIdx \in 0 .. LastAcpIdx,
           NEW time \in Times, Hit(acpIdx, time)
    PROVE  HInv'
<1> USE Sizes
<1> DEFINE h == <<acpIdx, time>>
           a == NormAcpIdx(acpIdx)
<1>1. /\ pc = "hits" /\ hits' = hits \cup {h} /\ raw' = raw \cup Written(a, time)
      /\ pc' = IF Throws(a, time) THEN "failed" ELSE "hits"
      /\ UNCHANGED <<kind, duration, file, size, announced, before, computes>>
  BY DEF Hit
<1>2. HTypes
  BY DEF HInv
<1>3. /\ a \in Nat /\ time \in 0 .. MaxSignalTime
      /\ Header + (a + 1) * SliceBytes <= 2 * (MaxInt + 1)
      /\ (kind = "clutter" \/ duration + 1 <= Rotations(duration + 1)) =>
             Header + (a + 1) * SliceBytes <= MaxInt + 1
  BY <1>1, <1>2, HitPlace
<1>4. h[1] = acpIdx /\ h[2] = time
  OBVIOUS
<1> HIDE DEF a
<1>5. NormAcpIdx(h[1]) = a
  BY <1>4 DEF a
<1> HIDE DEF h
<1>6. /\ Slices \in Nat /\ size = Header + Slices * SliceBytes /\ size <= MaxInt
  <2>1. size \in Nat /\ size + SliceBytes <= MaxInt
    BY <1>1, <1>2, FileEnds
  <2>2. QED  BY <1>1, <1>2, <2>1, FileEnds
<1>7. /\ Written(a, time) = IF a < Slices /\ time >= Reserved * ByteBits
                            THEN {BitOf(a, time)} ELSE {}
      /\ Header + (a + 1) * SliceBytes <= MaxInt + 1 => ~Throws(a, time)
      /\ Throws(a, time) => Header + a * SliceBytes + time \div ByteBits > MaxInt
  BY <1>3, <1>6, Lands
<1>8. Written(a, time) = IF InFile(h) THEN {HitBit(h)} ELSE {}
  BY <1>4, <1>5, <1>7 DEF InFile, HitBit
<1>9. /\ \A g : InFile(g)' <=> InFile(g)
      /\ \A g : HitBit(g)' = HitBit(g)
      /\ \A g : NormAcpIdx(g[1])' = NormAcpIdx(g[1])
      /\ FileSize(duration)' = FileSize(duration)
  BY <1>1, SameFile
<1>10. HTypes'
  <2>1. /\ kind' \in {"clutter", "targets"}
        /\ pc' \in {"idle", "hits", "spread", "done", "failed"}
        /\ duration' \in Durations /\ size' = FileSize(duration)'
    BY <1>1, <1>2, <1>9 DEF HTypes
  <2>2. \A g \in hits' : /\ NormAcpIdx(g[1]) \in Nat /\ g[2] \in 0 .. MaxSignalTime
                         /\ Header + (NormAcpIdx(g[1]) + 1) * SliceBytes <= 2 * (MaxInt + 1)
    BY <1>1, <1>2, <1>3, <1>4, <1>5 DEF HTypes
  <2>3. QED  BY <2>1, <2>2, <1>9 DEF HTypes
<1>11. Clean'
  BY <1>1 DEF HInv, Clean
<1>12. Buffer' /\ Collecting' /\ Spreading'
  <2>1. \A bit \in raw' : \E g \in hits' : InFile(g) /\ bit = HitBit(g)
    BY <1>1, <1>8 DEF HInv, Buffer
  <2>2. \A g \in hits' : InFile(g) => HitBit(g) \in raw'
    BY <1>1, <1>8 DEF HInv, Collecting
  <2>3. file' \subseteq before'
    BY <1>1 DEF HInv, Collecting
  <2>4. pc' \in {"hits", "failed"}
    BY <1>1
  <2>5. QED  BY <1>9, <2>1, <2>2, <2>3, <2>4 DEF Buffer, Collecting, Spreading
<1>13. FailsOnlyBeyondInt'
  <2>1. SUFFICES ASSUME pc' = "failed"
                 PROVE  /\ kind = "targets" /\ duration + 1 > Rotations(duration + 1)
                        /\ Overflows(h)
    BY <1>1 DEF FailsOnlyBeyondInt, Rotations, Overflows
  <2>2. Throws(a, time)
    BY <1>1, <2>1
  <2>3. ~(kind = "clutter" \/ duration + 1 <= Rotations(duration + 1))
    BY <1>3, <1>7, <2>2
  <2>4. duration + 1 \in Nat \ {0} /\ kind \in {"clutter", "targets"}
    <3>1. duration \in Durations /\ kind \in {"clutter", "targets"}
      BY <1>1, <1>2 DEF HTypes
    <3>2. duration \in Nat
      BY <3>1
    <3>3. QED  BY <3>1, <3>2
  <2>5. PICK r \in Nat : r = Rotations(duration + 1)
    BY <2>4, Room
  <2>6. kind = "targets" /\ duration + 1 > Rotations(duration + 1)
    BY <2>3, <2>4, <2>5
  <2>7. a = acpIdx
    BY <2>6 DEF a, NormAcpIdx
  <2>8. Overflows(h)
    BY <1>4, <1>7, <2>2, <2>7 DEF Overflows
  <2>9. QED  BY <2>6, <2>8
<1>14. QED  BY <1>1, <1>10, <1>11, <1>12, <1>13 DEF HInv

LEMMA WriteHeaderStep == ASSUME HInv, WriteHeader PROVE HInv'
<1>1. /\ pc = "hits" /\ pc' = "spread"
      /\ announced' = IF kind = "clutter" THEN 1 ELSE duration
      /\ file' = {bit \in file : bit[1] >= Header}
      /\ UNCHANGED <<kind, duration, hits, raw, size, before, computes>>
  BY DEF WriteHeader
<1>2. file' = file
  BY <1>1 DEF HInv, Clean
<1>3. /\ \A g : InFile(g)' <=> InFile(g)
      /\ \A g : HitBit(g)' = HitBit(g)
      /\ \A g : NormAcpIdx(g[1])' = NormAcpIdx(g[1])
      /\ FileSize(duration)' = FileSize(duration)
  BY <1>1, SameFile
<1>4. HTypes'
  BY <1>1, <1>3 DEF HInv, HTypes
<1>5. Clean'
  BY <1>2 DEF HInv, Clean
<1>6. Buffer' /\ Collecting' /\ FailsOnlyBeyondInt'
  BY <1>1, <1>3 DEF HInv, Buffer, Collecting, FailsOnlyBeyondInt
<1>7. Spreading'
  BY <1>1, <1>2, <1>3 DEF HInv, Collecting, Spreading
<1>8. QED  BY <1>1, <1>4, <1>5, <1>6, <1>7 DEF HInv

LEMMA AddIndexStep == ASSUME HInv, AddIndex PROVE HInv'
<1> USE Sizes
<1>1. /\ pc = "spread" /\ raw = {} /\ pc' = "done"
      /\ file' = {bit \in file : \/ bit[1] < Header
                                 \/ (bit[1] - Header) % SliceBytes >= PositionBytes}
      /\ UNCHANGED <<kind, duration, hits, raw, size, announced, before, computes>>
  BY DEF AddIndex
<1>2. file' = file
  <2>1. \A bit \in file : (bit[1] - Header) % SliceBytes >= PositionBytes
    <3>1. SUFFICES ASSUME NEW bit \in file PROVE (bit[1] - Header) % SliceBytes >= PositionBytes
      OBVIOUS
    <3>2. PICK x \in Int : x = bit[1] - Header /\ x % SliceBytes >= Reserved
      <4>1. bit[1] \in Int /\ (bit[1] - Header) % SliceBytes >= Reserved
        BY DEF HInv, Clean
      <4>2. bit[1] - Header \in Int
        BY <4>1
      <4>3. QED  BY <4>1, <4>2
    <3>3. x % SliceBytes \in Int
      BY DivMod
    <3>4. x % SliceBytes >= PositionBytes
      BY <3>2, <3>3
    <3>5. QED  BY <3>2, <3>4
  <2>2. QED  BY <1>1, <2>1
<1>3. /\ Slices' = Slices
      /\ \A g : InFile(g)' <=> InFile(g)
      /\ \A g : HitBit(g)' = HitBit(g)
      /\ \A g : NormAcpIdx(g[1])' = NormAcpIdx(g[1])
      /\ \A g, slice, time : Near(g, slice, time)' <=> Near(g, slice, time)
      /\ FileSize(duration)' = FileSize(duration) /\ Echoes' = Echoes
  BY <1>1, SameFile
<1>4. HTypes'
  BY <1>1, <1>3 DEF HInv, HTypes
<1>5. Clean'
  BY <1>2 DEF HInv, Clean
<1>6. Buffer' /\ Collecting' /\ FailsOnlyBeyondInt'
  BY <1>1 DEF Buffer, Collecting, FailsOnlyBeyondInt
<1>7. Spreading'
  <2>1. Spreading
    BY DEF HInv
  <2>2. QED  BY <1>1, <1>2, <1>3, <2>1 DEF Spreading, BitOf
<1>8. QED  BY <1>1, <1>4, <1>5, <1>6, <1>7 DEF HInv

\* One bit of the buffer: its response is written as a whole.
LEMMA SpreadStep == ASSUME HInv, SpreadHit PROVE HInv'
<1> USE Sizes
<1>1. PICK bit \in raw :
          /\ raw' = raw \ {bit}
          /\ LET thrown == {w \in Response(bit) : Throws(w[1], w[2])}
                 reached == {w \in Response(bit) : \A v \in thrown : Precedes(w, v)}
             IN  /\ file' = file \cup UNION {Written(w[1], w[2]) : w \in reached}
                 /\ pc' = IF thrown = {} THEN "spread" ELSE "failed"
  BY DEF SpreadHit
<1>2. /\ pc = "spread"
      /\ UNCHANGED <<kind, duration, hits, size, announced, before, computes>>
  BY DEF SpreadHit
<1>3. HTypes /\ Clean /\ Buffer /\ Spreading
  BY DEF HInv
<1>4. PICK h \in hits : InFile(h) /\ bit = HitBit(h)
  BY <1>2, <1>3 DEF Buffer
<1>5. \A w \in Response(bit) :
          /\ w[1] \in Nat /\ w[2] \in h[2] .. MaxSignalTime
          /\ Near(h, w[1], w[2]) /\ ~Throws(w[1], w[2])
          /\ Written(w[1], w[2]) = IF w[1] < Slices THEN {BitOf(w[1], w[2])} ELSE {}
  BY <1>2, <1>3, <1>4, Responds
<1>6. /\ file' = file \cup UNION {Written(w[1], w[2]) : w \in Response(bit)}
      /\ pc' = "spread"
  <2>1. {w \in Response(bit) : Throws(w[1], w[2])} = {}
    BY <1>5
  <2>2. {w \in Response(bit) : \A v \in {u \in Response(bit) : Throws(u[1], u[2])} :
             Precedes(w, v)} = Response(bit)
    BY <2>1
  <2>3. QED  BY <1>1, <2>1, <2>2
<1>7. /\ Slices' = Slices
      /\ \A g : InFile(g)' <=> InFile(g)
      /\ \A g : HitBit(g)' = HitBit(g)
      /\ \A g : NormAcpIdx(g[1])' = NormAcpIdx(g[1])
      /\ \A g, slice, time : Near(g, slice, time)' <=> Near(g, slice, time)
      /\ FileSize(duration)' = FileSize(duration) /\ Echoes' = Echoes
  BY <1>2, SameFile
<1>8. PICK t \in 0 .. MaxSignalTime : t = h[2] /\ t >= Reserved * ByteBits
  BY <1>3, <1>4 DEF HTypes, InFile
<1>9. Slices \in Nat
  BY <1>2, <1>3, FileEnds
<1>10. \A new \in file' : new \in file \/
           \E slice \in 0 .. Slices - 1, time \in t .. MaxSignalTime :
               Near(h, slice, time) /\ new = BitOf(slice, time)
  <2>1. SUFFICES ASSUME NEW new \in file', new \notin file
                 PROVE  \E slice \in 0 .. Slices - 1, time \in t .. MaxSignalTime :
                            Near(h, slice, time) /\ new = BitOf(slice, time)
    OBVIOUS
  <2>2. PICK w \in Response(bit) : new \in Written(w[1], w[2])
    BY <1>6, <2>1
  <2>3. w[1] < Slices /\ new = BitOf(w[1], w[2])
    <3>1. Written(w[1], w[2]) = IF w[1] < Slices THEN {BitOf(w[1], w[2])} ELSE {}
      BY <1>5
    <3>2. CASE w[1] < Slices
      BY <2>2, <3>1, <3>2
    <3>3. CASE ~(w[1] < Slices)
      <4>1. Written(w[1], w[2]) = {}
        BY <3>1, <3>3
      <4>2. QED  BY <2>2, <4>1
    <3>4. QED  BY <3>2, <3>3
  <2>4. w[1] \in Nat /\ w[2] \in t .. MaxSignalTime /\ Near(h, w[1], w[2])
    BY <1>5, <1>8
  <2>5. w[1] \in 0 .. Slices - 1
    BY <1>9, <2>3, <2>4
  <2>6. QED  BY <2>3, <2>4, <2>5
<1>11. \A slice \in 0 .. Slices - 1, time \in 0 .. MaxSignalTime :
           Near(h, slice, time) => BitOf(slice, time) \in file'
  <2>1. SUFFICES ASSUME NEW slice \in 0 .. Slices - 1, NEW time \in 0 .. MaxSignalTime,
                        Near(h, slice, time)
                 PROVE  BitOf(slice, time) \in file'
    OBVIOUS
  <2>2. PICK a \in Nat : a = NormAcpIdx(h[1])
    BY <1>3 DEF HTypes
  <2>3. Response(bit) = (FromAcpIdx(a) .. a + Spread) \X (t .. ToRspTime(t))
    BY <1>4, <1>8, <2>2, ReadBack DEF HitBit
  <2>4. /\ a - Spread <= slice /\ slice <= a + Spread
        /\ t <= time /\ time < t + Impulse
    BY <1>8, <2>1, <2>2 DEF Near
  <2>5. slice \in FromAcpIdx(a) .. a + Spread
    BY <1>9, <2>1, <2>2, <2>4 DEF FromAcpIdx
  <2>6. time \in t .. ToRspTime(t)
    BY <1>8, <2>1, <2>4 DEF ToRspTime
  <2>7. <<slice, time>> \in Response(bit)
    BY <2>3, <2>5, <2>6
  <2>8. slice < Slices
    BY <1>9, <2>1
  <2>9. Written(slice, time) = {BitOf(slice, time)}
    BY <1>5, <2>7, <2>8
  <2>10. Written(slice, time) \in {Written(w[1], w[2]) : w \in Response(bit)}
    BY <2>7
  <2>11. QED  BY <1>6, <2>9, <2>10
<1>12. HTypes'
  BY <1>2, <1>3, <1>6, <1>7 DEF HTypes
<1>13. Clean'
  <2>1. SUFFICES ASSUME NEW new \in file', new \notin file
                 PROVE  /\ new[1] \in Int /\ new[1] >= Header
                        /\ (new[1] - Header) % SliceBytes >= Reserved
    BY <1>3 DEF Clean
  <2>2. PICK slice \in 0 .. Slices - 1, time \in t .. MaxSignalTime : new = BitOf(slice, time)
    BY <1>10, <2>1
  <2>3. slice \in Nat /\ time \in 0 .. MaxSignalTime
    BY <1>8, <1>9
  <2>4. time >= Reserved * ByteBits
    <3>1. PICK k \in Int : k = Reserved * ByteBits
      OBVIOUS
    <3>2. QED  BY <1>8, <2>3, <3>1
  <2>5. QED  BY <2>2, <2>3, <2>4, ReadBack, TimeBits
<1>14. Buffer' /\ Collecting' /\ FailsOnlyBeyondInt'
  BY <1>1, <1>2, <1>3, <1>6, <1>7 DEF Buffer, Collecting, FailsOnlyBeyondInt
<1>15. Spreading'
  <2>1. announced' = IF kind' = "clutter" THEN 1 ELSE duration'
    BY <1>2, <1>3 DEF Spreading
  <2>2. file' \ Echoes \subseteq before
    <3>1. \A new \in file' : new \in file \/ new \in Echoes
      <4>1. SUFFICES ASSUME NEW new \in file', new \notin file PROVE new \in Echoes
        OBVIOUS
      <4>2. PICK slice \in 0 .. Slices - 1, time \in t .. MaxSignalTime :
                Near(h, slice, time) /\ new = BitOf(slice, time)
        BY <1>10, <4>1
      <4>3. time \in 0 .. MaxSignalTime
        BY <1>8
      <4>4. QED  BY <1>4, <4>2, <4>3, EchoOf
    <3>2. file \ Echoes \subseteq before
      BY <1>2, <1>3 DEF Spreading
    <3>3. QED  BY <3>1, <3>2
  <2>3. \A g \in hits : InFile(g) /\ HitBit(g) \notin raw' =>
            \A slice \in 0 .. Slices - 1, time \in 0 .. MaxSignalTime :
                Near(g, slice, time) => BitOf(slice, time) \in file'
    <3>1. SUFFICES ASSUME NEW g \in hits, InFile(g), HitBit(g) \notin raw',
                          NEW slice \in 0 .. Slices - 1, NEW time \in 0 .. MaxSignalTime,
                          Near(g, slice, time)
                   PROVE  BitOf(slice, time) \in file'
      OBVIOUS
    <3>2. CASE HitBit(g) \notin raw
      <4>1. BitOf(slice, time) \in file
        BY <1>2, <1>3, <3>1, <3>2 DEF Spreading
      <4>2. QED  BY <1>6, <4>1
    <3>3. CASE HitBit(g) = bit
      <4>1. NormAcpIdx(g[1]) = NormAcpIdx(h[1]) /\ g[2] = h[2]
        <5>1. PICK a, b \in Nat, u \in 0 .. MaxSignalTime :
                  a = NormAcpIdx(g[1]) /\ b = NormAcpIdx(h[1]) /\ u = g[2]
          BY <1>3 DEF HTypes
        <5>2. BitOf(a, u) = BitOf(b, t)
          BY <1>4, <1>8, <3>3, <5>1 DEF HitBit
        <5>3. a = b /\ u = t
          BY <1>8, <5>1, <5>2, SameBit
        <5>4. QED  BY <1>8, <5>1, <5>3
      <4>2. Near(h, slice, time)
        BY <3>1, <4>1 DEF Near
      <4>3. QED  BY <1>11, <4>2
    <3>4. QED  BY <1>1, <3>1, <3>2, <3>3
  <2>4. QED  BY <1>2, <1>7, <2>1, <2>2, <2>3 DEF Spreading, BitOf
<1>16. QED  BY <1>6, <1>12, <1>13, <1>14, <1>15 DEF HInv

\* A new designer finds the file as a failed computation left it.
LEMMA RestartStep == ASSUME HInv, Restart PROVE HInv'
<1>1. /\ pc = "failed" /\ pc' = "idle"
      /\ UNCHANGED <<kind, duration, hits, raw, file, size, announced, before, computes>>
  BY DEF Restart
<1>2. \A g : NormAcpIdx(g[1])' = NormAcpIdx(g[1])
  BY <1>1, SameFile
<1>3. HTypes'
  BY <1>1, <1>2 DEF HInv, HTypes
<1>4. Clean'
  BY <1>1 DEF HInv, Clean
<1>5. Buffer' /\ Collecting' /\ Spreading' /\ FailsOnlyBeyondInt'
  BY <1>1 DEF Buffer, Collecting, Spreading, FailsOnlyBeyondInt
<1>6. QED  BY <1>1, <1>3, <1>4, <1>5 DEF HInv

LEMMA HStutter == ASSUME HInv, UNCHANGED vars PROVE HInv'
<1>1. UNCHANGED <<kind, duration, hits, raw, file, size, announced, before, computes, pc>>
  BY DEF vars
<1>2. /\ \A g : InFile(g)' <=> InFile(g)
      /\ \A g : HitBit(g)' = HitBit(g)
      /\ \A g : NormAcpIdx(g[1])' = NormAcpIdx(g[1])
      /\ \A g, slice, time : Near(g, slice, time)' <=> Near(g, slice, time)
      /\ Slices' = Slices /\ FileSize(duration)' = FileSize(duration) /\ Echoes' = Echoes
  BY <1>1, SameFile
<1>3. HTypes'
  BY <1>1, <1>2 DEF HInv, HTypes
<1>4. Clean'
  BY <1>1 DEF HInv, Clean
<1>5. Buffer' /\ Collecting'
  BY <1>1, <1>2 DEF HInv, Buffer, Collecting
<1>6. Spreading'
  <2>1. Spreading
    BY DEF HInv
  <2>2. QED  BY <1>1, <1>2, <2>1 DEF Spreading, BitOf
<1>7. FailsOnlyBeyondInt'
  BY <1>1 DEF HInv, FailsOnlyBeyondInt, Rotations
<1>8. QED  BY <1>1, <1>3, <1>4, <1>5, <1>6, <1>7 DEF HInv

LEMMA HStart == Init => HInv
<1>1. SUFFICES ASSUME Init PROVE HInv
  OBVIOUS
<1>2. HTypes /\ Clean
  BY <1>1 DEF Init, HTypes, Clean
<1>3. Buffer /\ Collecting /\ Spreading /\ FailsOnlyBeyondInt
  BY <1>1 DEF Init, Buffer, Collecting, Spreading, FailsOnlyBeyondInt
<1>4. QED  BY <1>1, <1>2, <1>3 DEF Init, HInv

\* What a finished computation left: every bit near a hit that lies in the
\* file, and beyond those nothing new.
LEMMA Finished == ASSUME HInv PROVE HoldsTheScenario
<1>1. SUFFICES ASSUME pc = "done"
               PROVE  /\ Echoes \subseteq file /\ file \ Echoes \subseteq before
                      /\ \A bit \in file : /\ bit[1] >= Header
                                           /\ (bit[1] - Header) % SliceBytes >= Reserved
  BY DEF HoldsTheScenario
<1>2. raw = {} /\ Spreading /\ Clean
  BY <1>1 DEF HInv
<1>3. file \ Echoes \subseteq before
  BY <1>1, <1>2 DEF Spreading
<1>4. Echoes \subseteq file
  <2>1. SUFFICES ASSUME NEW bit \in Echoes PROVE bit \in file
    OBVIOUS
  <2>2. PICK slice \in 0 .. Slices - 1, time \in 0 .. MaxSignalTime, h \in hits :
            InFile(h) /\ Near(h, slice, time) /\ bit = BitOf(slice, time)
    BY OfEcho
  <2>3. QED  BY <1>1, <1>2, <2>2 DEF Spreading
<1>5. QED  BY <1>2, <1>3, <1>4 DEF Clean

LEMMA Served == ASSUME HInv PROVE FileServes
<1>1. SUFFICES ASSUME pc = "done"
               PROVE  \E blocks \in 1 .. announced : size = Header + blocks * RotationBytes
  BY DEF FileServes
<1>2. /\ HTypes /\ kind \in {"clutter", "targets"}
      /\ announced = IF kind = "clutter" THEN 1 ELSE duration
      /\ duration \in Durations /\ size = FileSize(duration)
  BY <1>1 DEF HInv, HTypes, Spreading
<1>3. duration \in Nat
  BY <1>2, Sizes
<1>4. PICK r \in Nat : /\ r = Rotations(duration) /\ r >= 1 /\ r <= duration
                       /\ kind = "clutter" => r = 1
  BY <1>2, Sizes, Room
<1>5. size = Header + r * RotationBytes
  BY <1>2, <1>4 DEF FileSize
<1>6. r \in 1 .. announced
  BY <1>2, <1>3, <1>4
<1>7. QED  BY <1>5, <1>6

-----------------------------------------------------------------------------
(* Theorems.                                                               *)

\* HInv is inductive: while the hits are collected the buffer holds exactly
\* those that lie in the file (writeHit), and each one that spreadHits has
\* taken out has its whole response written.
THEOREM HInvariant == Spec => []HInv
<1>1. Init => HInv
  BY HStart
<1>2. HInv /\ [Next]_vars => HInv'
  <2>1. SUFFICES ASSUME HInv, [Next]_vars PROVE HInv'
    OBVIOUS
  <2>2. CASE Compute
    BY <2>1, <2>2, ComputeStep
  <2>3. CASE \E acpIdx \in 0 .. LastAcpIdx, time \in Times : Hit(acpIdx, time)
    BY <2>1, <2>3, HitStep
  <2>4. CASE WriteHeader
    BY <2>1, <2>4, WriteHeaderStep
  <2>5. CASE SpreadHit
    BY <2>1, <2>5, SpreadStep
  <2>6. CASE AddIndex
    BY <2>1, <2>6, AddIndexStep
  <2>7. CASE Restart
    BY <2>1, <2>7, RestartStep
  <2>8. CASE UNCHANGED vars
    BY <2>1, <2>8, HStutter
  <2>9. QED  BY <2>1, <2>2, <2>3, <2>4, <2>5, <2>6, <2>7, <2>8 DEF Next
<1>3. QED  BY <1>1, <1>2, PTL DEF Spec

\* However long a scenario is and however its hits fall, computeScenario ends
\* with each echo at the bit the radar reads for its slice and time, and sets
\* no bit beside them; no header and no position field is overwritten.
THEOREM ScenarioHeld == Spec => []HoldsTheScenario
<1>1. HInv => HoldsTheScenario
  BY Finished
<1>2. QED  BY <1>1, HInvariant, PTL

\* The length set with setLength is that of whole rotations, at least one, and
\* never of more than writeHeader announces, so that every block the server
\* asks for up to the length lies in the file.
THEOREM FileServed == Spec => []FileServes
<1>1. HInv => FileServes
  BY Served
<1>2. QED  BY <1>1, HInvariant, PTL

\* writeHit throws only for a hit whose offset is beyond Integer.MAX_VALUE: not for
\* clutter, not while a beam or an impulse is written, and for no targets whose
\* rotations fit together with the one begun at their end.
THEOREM FailureMeansOverflow == Spec => []FailsOnlyBeyondInt
<1>1. HInv => FailsOnlyBeyondInt
  BY DEF HInv
<1>2. QED  BY <1>1, HInvariant, PTL
=============================================================================
