------------------------------ MODULE HitFile -------------------------------
(***************************************************************************)
(* A hit file as DesignerController.computeScenario writes it and the      *)
(* server reads it: a header, then one block for each rotation of N slices *)
(* of SliceBytes, each with one bit for each microsecond and, over the bits *)
(* of the first ones, its position (in Reserved bytes).  The hits of the   *)
(* scenario are collected in memory (writeHit), then spread over the width *)
(* of the beam and the length of the impulse into the mapped file.         *)
(*                                                                         *)
(* Which hits a scenario has is geometry, and left open: any acpIdx of the *)
(* scenario with any signal time.  Offsets are Int: see AsInt.             *)
(***************************************************************************)
EXTENDS Integers, FiniteSets

CONSTANTS
    N, SliceBytes, ByteBits,  \* azimuthChangePulseCount, acpByteCnt, 8
    Header,                   \* FILE_HEADER_BYTE_CNT = 20
    PositionBytes, Reserved,  \* at the beginning of a slice: 2, of 4
    Spread, Impulse,          \* acpIdxSpread, impulseSignalUs
    MaxSignalTime,            \* maxSignalTimeUs
    MaxInt,                   \* Integer.MAX_VALUE
    Answers,                  \* to "Are you sure you want to overwrite ...?"
    Durations,                \* whole rotations a scenario may last, and one begun
    Times,                    \* signal times of its hits
    MaxHits, MaxComputes      \* bounds: hits of a scenario, computations

ASSUME HitFileAssumption ==
    /\ {N, SliceBytes, ByteBits, Impulse} \subseteq Nat \ {0}
    /\ {Header, Spread, MaxSignalTime, MaxInt} \subseteq Nat
    /\ Reserved \in Nat /\ PositionBytes \in 0 .. Reserved
    /\ MaxSignalTime < SliceBytes * ByteBits
    /\ Answers \subseteq {"yes", "no"}
    /\ Durations \subseteq Nat /\ Times \subseteq 0 .. MaxSignalTime

\* The sizes at which the designer is used: a scenario lasts a turn at least,
\* and one turn fits; the beam is no wider than a turn; beyond the largest file
\* there is room in an Int for the slices a beam or a rounded azimuth reaches;
\* and no offset of a hit needs more than the 32 bits of an Int.
ASSUME ScenarioAssumption ==
    /\ 0 \notin Durations /\ Header + N * SliceBytes <= MaxInt /\ Spread <= N
    /\ SliceBytes <= (MaxInt - Header) % (N * SliceBytes)
    /\ Spread * SliceBytes <= (MaxInt - Header) % (N * SliceBytes)
    /\ \A d \in Durations : Header + ((d + 1) * N + 1) * SliceBytes <= 2 * (MaxInt + 1)

VARIABLES
    kind,       \* "clutter" (one rotation, repeating) or "targets"
    duration,   \* whole rotations of the scenario being computed
    hits,       \* history: its hits
    raw,        \* the hits in memory that are still to be spread
    file,       \* the hits in the file, each <<byte, bit>>
    size,       \* bytes of the file, 0 if there is none
    announced,  \* rotations in its header
    before,     \* history: what the file held when the computation began
    computes,   \* computations so far
    pc          \* "idle", "hits", "spread", "done", "failed"

vars == <<kind, duration, hits, raw, file, size, announced, before, computes, pc>>

-----------------------------------------------------------------------------
\* 32-bit two's complement.
AsInt(x) == ((x + MaxInt + 1) % (2 * (MaxInt + 1))) - (MaxInt + 1)

RotationBytes == N * SliceBytes

\* Rotations the file has room for: computed as Long, one for clutter.
Rotations(rotations) ==
    LET fit == (MaxInt - Header) \div RotationBytes
    IN  IF kind = "clutter" THEN 1
        ELSE IF rotations < fit THEN rotations ELSE fit

FileSize(rotations) == Header + Rotations(rotations) * RotationBytes

\* Clutter "maps are repeating": its hits are wrapped around north.
NormAcpIdx(acpIdx) == IF kind = "clutter" THEN acpIdx % N ELSE acpIdx

FilePos(acpIdx, time) ==
    AsInt(Header + AsInt(acpIdx * SliceBytes) + time \div ByteBits)

\* Mutant of Ignored: the end of the file is not looked at.
IgnoredReserved(acpIdx, time) == time \div ByteBits < Reserved

\* writeHit returns without a hit, or get() throws IndexOutOfBoundsException.
Ignored(acpIdx, time) ==
    time \div ByteBits < Reserved \/ FilePos(acpIdx, time) >= size
Throws(acpIdx, time) ==
    ~Ignored(acpIdx, time) /\ FilePos(acpIdx, time) \notin 0 .. size - 1

\* The bit writeHit sets, if it sets one.
Written(acpIdx, time) ==
    IF Ignored(acpIdx, time) \/ Throws(acpIdx, time) THEN {}
    ELSE {<<FilePos(acpIdx, time), time % ByteBits>>}

\* Mutant of FromAcpIdx: the beam is not cut off at the first slice.
FromAcpIdxUncut(acpIdx) == acpIdx - Spread

FromAcpIdx(acpIdx) == IF acpIdx > Spread THEN acpIdx - Spread ELSE 0

ToRspTime(time) ==
    IF time + Impulse - 1 < MaxSignalTime THEN time + Impulse - 1 ELSE MaxSignalTime

\* What spreadHits writes for one bit of the buffer, in this order.
Response(bit) ==
    LET acpIdx == (bit[1] - Header) \div SliceBytes
        time == ByteBits * ((bit[1] - Header) % SliceBytes) + bit[2]
    IN  (FromAcpIdx(acpIdx) .. acpIdx + Spread) \X (time .. ToRspTime(time))

Precedes(a, b) == a[1] < b[1] \/ (a[1] = b[1] /\ a[2] < b[2])

-----------------------------------------------------------------------------
Init ==
    /\ kind \in {"clutter", "targets"}
    /\ duration = 0 /\ hits = {} /\ raw = {}
    /\ file = {} /\ size = 0 /\ announced = 0 /\ before = {}
    /\ computes = 0 /\ pc = "idle"

\* Mutant of SetLength: a file is only made longer.
SetLengthGrows(kept, bytes) ==
    /\ size' = IF size > bytes THEN size ELSE bytes
    /\ file' = kept

\* setLength cuts off what is beyond, and fills up with zeroes.
SetLength(kept, bytes) ==
    /\ size' = bytes
    /\ file' = {bit \in kept : bit[1] < bytes}

\* Whatever the answer, the computation goes on; "yes" deletes the files first.
Kept(answer) == IF answer = "yes" THEN {} ELSE file

\* The header is written between the collection of the hits and the spreading;
\* that of the targets announces the whole duration.
Compute ==
    /\ pc \in {"idle", "done"} /\ computes < MaxComputes
    /\ duration' \in Durations
    /\ \E answer \in Answers : SetLength(Kept(answer), FileSize(duration'))
    /\ before' = file
    /\ hits' = {} /\ raw' = {}
    /\ computes' = computes + 1
    /\ pc' = "hits"
    /\ UNCHANGED <<kind, announced>>

\* One writeHit into the buffer in memory, which is as long as the file.
Hit(acpIdx, time) ==
    /\ pc = "hits" /\ Cardinality(hits) < MaxHits
    /\ hits' = hits \cup {<<acpIdx, time>>}
    /\ raw' = raw \cup Written(NormAcpIdx(acpIdx), time)
    /\ pc' = IF Throws(NormAcpIdx(acpIdx), time) THEN "failed" ELSE "hits"
    /\ UNCHANGED <<kind, duration, file, size, announced, before, computes>>

WriteHeader ==
    /\ pc = "hits" /\ pc' = "spread"
    /\ announced' = IF kind = "clutter" THEN 1 ELSE duration
    /\ file' = {bit \in file : bit[1] >= Header}
    /\ UNCHANGED <<kind, duration, hits, raw, size, before, computes>>

\* The next bit of the buffer: its response is written up to the first
\* exception, which ends the computation.
SpreadHit ==
    /\ pc = "spread"
    /\ \E bit \in raw :
        /\ \A other \in raw \ {bit} : Precedes(bit, other)
        /\ raw' = raw \ {bit}
        /\ LET thrown == {w \in Response(bit) : Throws(w[1], w[2])}
               reached == {w \in Response(bit) : \A v \in thrown : Precedes(w, v)}
           IN  /\ file' = file \cup UNION {Written(w[1], w[2]) : w \in reached}
               /\ pc' = IF thrown = {} THEN "spread" ELSE "failed"
    /\ UNCHANGED <<kind, duration, hits, size, announced, before, computes>>

\* putShort writes the position over the first bytes of each slice; then the
\* file is uploaded and the button enabled again.
AddIndex ==
    /\ pc = "spread" /\ raw = {} /\ pc' = "done"
    /\ file' = {bit \in file : \/ bit[1] < Header
                              \/ (bit[1] - Header) % SliceBytes >= PositionBytes}
    /\ UNCHANGED <<kind, duration, hits, raw, size, announced, before, computes>>

\* After an exception nothing resets calculatingHits: only a new designer can
\* compute again, and finds the file as it was left.
Restart ==
    /\ pc = "failed" /\ pc' = "idle"
    /\ UNCHANGED <<kind, duration, hits, raw, file, size, announced, before, computes>>

\* The seconds of a scenario are seldom whole rotations: its hits are computed as
\* long as the time lasts, so in the begun last rotation too, anywhere in it; and
\* azimuths are rounded, so that a hit may fall on the slice after the last one.
LastAcpIdx == IF kind = "clutter" THEN N ELSE N * (duration + 1)

Next ==
    \/ Compute
    \/ \E acpIdx \in 0 .. LastAcpIdx, time \in Times : Hit(acpIdx, time)
    \/ WriteHeader \/ SpreadHit \/ AddIndex \/ Restart

Spec == Init /\ [][Next]_vars

-----------------------------------------------------------------------------
Bits(bytes) == bytes \X (0 .. ByteBits - 1)

\* The slices and times of the file at which the scenario has an echo: within
\* the beam and the impulse of a hit that lies in the file and is not hidden
\* by the position field.
Echo(slice, time) ==
    \E h \in hits :
        LET acpIdx == NormAcpIdx(h[1])
        IN  /\ acpIdx < Rotations(duration) * N /\ h[2] >= Reserved * ByteBits
            /\ acpIdx - Spread <= slice /\ slice <= acpIdx + Spread
            /\ h[2] <= time /\ time < h[2] + Impulse
BitOf(slice, time) ==
    <<Header + slice * SliceBytes + time \div ByteBits, time % ByteBits>>
Echoes ==
    {BitOf(p[1], p[2]) : p \in {q \in (0 .. Rotations(duration) * N - 1) \X (0 .. MaxSignalTime) :
                                   Echo(q[1], q[2])}}

\* A finished file holds the echoes of the scenario at the place of their
\* slice and time, and no other hit that was not in the file before; none is
\* in the header or in a position field.
HoldsTheScenario ==
    pc = "done" =>
        /\ Echoes \subseteq file /\ file \ Echoes \subseteq before
        /\ \A bit \in file : /\ bit[1] >= Header
                             /\ (bit[1] - Header) % SliceBytes >= Reserved

\* The file has whole rotations, and not more of them than its header says:
\* what the server's block positions (BlockFilePos of MapQueue) rest on.
FileServes ==
    pc = "done" =>
        \E blocks \in 1 .. announced : size = Header + blocks * RotationBytes

\* The offset of a hit in a file without end is beyond the largest Int.
Overflows(hit) == Header + hit[1] * SliceBytes + hit[2] \div ByteBits > MaxInt

\* "Ensure number of rotations is decreased so the total file size bytes is not
\* greater than Integer.MAX_VALUE": the file is, the hits beyond its end are not.
\* They are left out as long as their offset is an Int (writeHit), and only one
\* whose offset is not fails the computation: never a beam or an impulse that
\* leaves the file, never clutter, and no scenario whose begun rotation would fit
\* too.  One whose whole rotations just fit can fail by those of the begun one.
FailsOnlyBeyondInt ==
    pc = "failed" =>
        /\ kind = "targets" /\ duration + 1 > Rotations(duration + 1)
        /\ \E hit \in hits : Overflows(hit)

\* "Are you sure you want to overwrite the generated simulation files?": a
\* computation overwrites them or leaves them alone.
Overwritten == pc = "done" => file = Echoes \/ file = before
=============================================================================
