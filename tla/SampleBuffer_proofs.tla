------------------------ MODULE SampleBuffer_proofs -------------------------
(***************************************************************************)
(* Theorems about SampleBuffer, for every length of a track, every pair of *)
(* rates and up to seven channels.                                         *)
(***************************************************************************)
EXTENDS SampleBuffer, TLAPS

\* The phase tells how many frames have been read and written: k input frames
\* are left, r output frames are written.
Ledger(k, r) == /\ left = track.channels * k
                /\ written = track.channels * r
                /\ phase = outRate * (1 - (track.frames - k)) + track.rate * r

LoopInv == /\ track \in Buffers
           /\ outRate \in Nat
           /\ phase \in Nat
           /\ phase < outRate + track.rate
           /\ \E k \in 0 .. track.frames, r \in Nat :
                 Ledger(k, r) /\ (k = 0 /\ track.frames > 0 => phase < track.rate)

\* Rounding to the nearest loses at most half a sample; the padding is 8.
LEMMA AllocatedBound ==
    ASSUME NEW a \in Nat, NEW b \in Nat \ {0}, NEW w \in Nat,
           b * w < a + 7 * b + 1
    PROVE  w < (2 * a + b) \div (2 * b) + 8
<1> DEFINE q == (2 * a + b) \div (2 * b)
<1>1. q \in Nat /\ 2 * a + b < (2 * b) * (q + 1)
    OBVIOUS
<1>2. SUFFICES ASSUME w >= q + 8 PROVE FALSE
    BY <1>1
<1>3. b * w >= b * (q + 8)
    BY <1>1, <1>2
<1>4. b * (q + 8) = b * (q + 1) + 7 * b
    BY <1>1
<1>5. (2 * b) * (q + 1) = 2 * (b * (q + 1))
    BY <1>1
<1>6. b * (q + 1) \in Nat /\ b * w \in Nat
    BY <1>1
<1> HIDE DEF q
<1> QED BY <1>1, <1>3, <1>4, <1>5, <1>6

LEMMA TrackType ==
    ASSUME track \in Buffers
    PROVE  /\ track.frames \in Nat /\ track.channels \in 1 .. 7
           /\ track.rate \in Nat \ {0} /\ NumSamples \in Nat
<1>1. track.frames \in 0 .. MaxFrames /\ track.channels \in ChannelCounts /\ track.rate \in Rates
    BY DEF Buffers
<1>2. track.frames \in Nat /\ track.channels \in 1 .. 7 /\ track.rate \in Nat \ {0}
  <2>1. track.frames \in Nat
      BY <1>1, SampleBufferAssumption
  <2>2. track.channels \in 1 .. 7 /\ track.rate \in Nat \ {0}
      BY <1>1, SampleBufferAssumption, Zenon
  <2> QED BY <2>1, <2>2
<1>3. track.frames * track.channels \in Nat
    BY <1>2
<1> QED BY <1>2, <1>3 DEF NumSamples

\* One step more or less of a product.
LEMMA OneMore ==
    ASSUME NEW a \in Int, NEW b \in Int
    PROVE  a * (b + 1) = a * b + a /\ a * (b - 1) = a * b - a
OBVIOUS

\* The invariant leaves room in the output for every frame that is written.
LEMMA Room == LoopInv => written < Allocated
<1> SUFFICES ASSUME LoopInv PROVE written < Allocated
    OBVIOUS
<1> PICK k \in 0 .. track.frames, r \in Nat : Ledger(k, r)
    BY DEF LoopInv
<1> DEFINE c == track.channels  F == track.frames  b == track.rate  o == outRate
<1>1. c \in 1 .. 7 /\ F \in Nat /\ b \in Nat \ {0} /\ o \in Nat /\ phase \in Nat /\ phase < o + b
    BY TrackType DEF LoopInv
<1>2. k \in Nat /\ k <= F
    BY <1>1
<1>3. phase = o * (1 - (F - k)) + b * r /\ written = c * r
    BY DEF Ledger
<1>4. NumSamples = F * c
    BY DEF NumSamples
<1> HIDE DEF c, F, b, o
<1>5. o * (1 - (F - k)) = o - o * F + o * k /\ o * k >= 0 /\ o * F \in Nat /\ b * r \in Nat
    BY <1>1, <1>2
<1>6. b * r < o * F + b
    BY <1>1, <1>3, <1>5
<1>7. c * (b * r) < c * (o * F + b)
    BY <1>1, <1>5, <1>6
<1>8. c * (b * r) = b * written /\ c * (o * F + b) = (F * c) * o + c * b
    BY <1>1, <1>3
<1>9. c * b <= 7 * b
    BY <1>1
<1>10. (F * c) * o \in Nat /\ written \in Nat
    BY <1>1, <1>3
<1>11. b * written < (F * c) * o + 7 * b + 1
    <2>1. c * b \in Nat /\ b * written \in Nat /\ 7 * b \in Nat
        BY <1>1, <1>10
    <2> QED BY <1>7, <1>8, <1>9, <1>10, <2>1
<1>12. written < (2 * ((F * c) * o) + b) \div (2 * b) + 8
    BY <1>1, <1>10, <1>11, AllocatedBound
<1>13. 2 * ((F * c) * o) = 2 * (F * c) * o
    BY <1>1
<1> QED BY <1>4, <1>12, <1>13 DEF Allocated, RoundedLength, F, c, b, o

LEMMA InvInit == Init => LoopInv
<1> SUFFICES ASSUME Init PROVE LoopInv
    OBVIOUS
<1>1. /\ track.frames \in Nat /\ track.channels \in 1 .. 7 /\ track.rate \in Nat \ {0}
      /\ outRate \in Nat /\ phase = outRate
    BY TrackType, SampleBufferAssumption DEF Init
<1>2. Ledger(track.frames, 0)
    BY <1>1 DEF Init, Ledger, NumSamples
<1>3. track.frames \in 0 .. track.frames /\ 0 \in Nat
    BY <1>1
<1>4. track \in Buffers
    BY DEF Init
<1> QED BY <1>1, <1>2, <1>3, <1>4 DEF LoopInv

LEMMA InvWrite == LoopInv /\ WriteNextFrame => LoopInv'
<1> SUFFICES ASSUME LoopInv, WriteNextFrame PROVE LoopInv'
    OBVIOUS
<1> PICK k \in 0 .. track.frames, r \in Nat : Ledger(k, r)
    BY DEF LoopInv
<1>1. /\ track.channels \in 1 .. 7 /\ track.frames \in Nat /\ track.rate \in Nat \ {0}
      /\ outRate \in Nat /\ phase \in Nat /\ phase < outRate + track.rate
      /\ k \in Nat /\ k <= track.frames
    BY TrackType DEF LoopInv
<1>2. left > 0 /\ phase >= outRate /\ UNCHANGED <<track, outRate, written>>
    BY DEF WriteNextFrame, Looping, IsWriteNeeded
<1>3. k > 0
    BY <1>1, <1>2 DEF Ledger
<1>4. phase' = phase - outRate
    BY DEF WriteNextFrame
<1>5. left' = track.channels * (k - 1)
  <2>1. left = track.channels * k /\ left' = left - track.channels
      BY DEF WriteNextFrame, Ledger
  <2> QED BY <1>1, <2>1
<1>6. phase' = outRate * (1 - (track.frames - (k - 1))) + track.rate * r
  <2>1. phase = outRate * (1 - (track.frames - k)) + track.rate * r
      BY DEF Ledger
  <2>2. 1 - (track.frames - (k - 1)) = (1 - (track.frames - k)) - 1
      BY <1>1
  <2>3. outRate * ((1 - (track.frames - k)) - 1) = outRate * (1 - (track.frames - k)) - outRate
      BY <1>1, OneMore
  <2>4. outRate * (1 - (track.frames - k)) \in Int /\ track.rate * r \in Int
      BY <1>1
  <2> QED BY <1>1, <1>4, <2>1, <2>2, <2>3, <2>4
<1>7. Ledger(k - 1, r)'
    BY <1>2, <1>5, <1>6 DEF Ledger
<1>8. phase' \in Nat /\ phase' < track.rate
    BY <1>1, <1>2, <1>4
<1>9. k - 1 \in 0 .. track'.frames
    BY <1>1, <1>2, <1>3
<1> QED BY <1>1, <1>2, <1>7, <1>8, <1>9 DEF LoopInv

LEMMA InvRead == LoopInv /\ ReadNextFrame => LoopInv'
<1> SUFFICES ASSUME LoopInv, ReadNextFrame PROVE LoopInv'
    OBVIOUS
<1> PICK k \in 0 .. track.frames, r \in Nat : Ledger(k, r)
    BY DEF LoopInv
<1>1. /\ track.channels \in 1 .. 7 /\ track.frames \in Nat /\ track.rate \in Nat \ {0}
      /\ outRate \in Nat /\ phase \in Nat /\ k \in Nat
    BY TrackType DEF LoopInv
<1>2. left > 0 /\ phase < outRate /\ UNCHANGED <<track, outRate, left>>
    BY <1>1 DEF ReadNextFrame, Looping, IsWriteNeeded
<1>3. k > 0
    BY <1>1, <1>2 DEF Ledger
<1>4. phase' = phase + track.rate
    BY DEF ReadNextFrame
<1>5. written' = track.channels * (r + 1)
  <2>1. written = track.channels * r /\ written' = written + track.channels
      BY DEF ReadNextFrame, Ledger
  <2> QED BY <1>1, <2>1
<1>6. phase' = outRate * (1 - (track.frames - k)) + track.rate * (r + 1)
  <2>1. phase = outRate * (1 - (track.frames - k)) + track.rate * r
      BY DEF Ledger
  <2>2. track.rate * (r + 1) = track.rate * r + track.rate
    <3>1. track.rate \in Int /\ r \in Int
        BY <1>1
    <3> QED BY <3>1, OneMore, Zenon
  <2>3. outRate * (1 - (track.frames - k)) \in Int /\ track.rate * r \in Int
      BY <1>1
  <2> QED BY <1>1, <1>4, <2>1, <2>2, <2>3
<1>7. Ledger(k, r + 1)'
    BY <1>2, <1>5, <1>6 DEF Ledger
<1>8. phase' \in Nat /\ phase' < outRate + track.rate
    BY <1>1, <1>2, <1>4
<1> QED BY <1>1, <1>2, <1>3, <1>7, <1>8 DEF LoopInv

\* The ledger of the loop of resampleData(): see LoopInv.
THEOREM LoopInvariant == Spec => []LoopInv
<1>1. LoopInv /\ UNCHANGED vars => LoopInv'
    BY DEF LoopInv, Ledger, vars
<1> QED BY <1>1, InvInit, InvWrite, InvRead, PTL DEF Spec, Next

\* resampleData() never writes past the buffer it allocated: the 8 samples of
\* padding cover the rounding and one frame of up to seven channels.
THEOREM NeverPastBuffer == Spec => []InsideBuffer
<1>1. LoopInv => InsideBuffer
  <2> SUFFICES ASSUME LoopInv PROVE InsideBuffer
      OBVIOUS
  <2>1. written < Allocated
      BY Room
  <2>2. Allocated \in Int /\ written \in Int
    <3>1. track.rate \in Nat \ {0} /\ NumSamples \in Nat /\ outRate \in Nat
        BY TrackType DEF LoopInv
    <3>2. RoundedLength(NumSamples) \in Int
        BY <3>1 DEF RoundedLength
    <3>3. written \in Int
        BY TrackType DEF LoopInv, Ledger
    <3> QED BY <3>2, <3>3 DEF Allocated
  <2> QED BY <2>1, <2>2 DEF InsideBuffer
<1> QED BY <1>1, LoopInvariant, PTL

\* The loop ends only when the whole input is read: its second guard never
\* cuts a track short.
THEOREM NoTrackCutShort == Spec => []WholeInputRead
<1>1. LoopInv => WholeInputRead
  <2> SUFFICES ASSUME LoopInv, ~Looping PROVE left = 0
      BY DEF WholeInputRead
  <2>1. ~(left > 0)
      BY Room DEF Looping
  <2> PICK k \in 0 .. track.frames, r \in Nat : Ledger(k, r)
      BY DEF LoopInv
  <2>2. left = track.channels * k /\ track.channels \in 1 .. 7 /\ k \in Nat
      BY TrackType DEF Ledger, LoopInv
  <2> QED BY <2>1, <2>2
<1> QED BY <1>1, LoopInvariant, PTL

\* A track's resampled length depends on its frames and the two rates only.
THEOREM ResampledLength == Spec => []LengthKept
<1>1. LoopInv => LengthKept
  <2> SUFFICES ASSUME LoopInv, ~Looping, track.frames > 0 PROVE LengthKept
      BY DEF LengthKept
  <2> DEFINE c == track.channels  F == track.frames  b == track.rate
  <2> PICK k \in 0 .. track.frames, r \in Nat :
         Ledger(k, r) /\ (k = 0 /\ track.frames > 0 => phase < track.rate)
      BY DEF LoopInv
  <2>1. /\ c \in 1 .. 7 /\ F \in Nat /\ b \in Nat \ {0} /\ outRate \in Nat /\ phase \in Nat
        /\ k \in Nat
      BY TrackType DEF LoopInv
  <2>2. k = 0
    <3>1. ~(c * k > 0)
        BY Room DEF Looping, Ledger
    <3> QED BY <2>1, <3>1
  <2>3. phase = outRate * (1 - F) + b * r /\ written = c * r /\ phase < b
      BY <2>1, <2>2 DEF Ledger
  <2>4. written \div c = r
      BY <2>1, <2>3
  <2>5. outRate * (1 - F) = 0 - (F - 1) * outRate /\ b * r = r * b
      BY <2>1
  <2>6. (F - 1) * outRate <= r * b /\ r * b < (F - 1) * outRate + b
      BY <2>1, <2>3, <2>5
  <2>7. written = r * c
      BY <2>1, <2>3
  <2> QED BY <2>4, <2>6, <2>7 DEF LengthKept
<1> QED BY <1>1, LoopInvariant, PTL

=============================================================================
