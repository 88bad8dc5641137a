------------------------- MODULE PlaybackSync_proofs -------------------------
(***************************************************************************)
(* That the tracks of a song stay together until the loop of a handler     *)
(* meets a callback, and are brought together again, for any number of     *)
(* tracks, any lengths, and whatever SoundTouch takes and gives at a       *)
(* setting; and how far the tracks come apart when a loop meets callbacks. *)
(***************************************************************************)
EXTENDS Playback_proofs

\* A callback asks for no more than the reserve, and feeds at least a frame at any
\* tempo.
SmallBursts == Burst <= Reserve /\ \A t \in Tempos : Unit <= 2 * Burst * t

\* Only the last track, a click, may be mono: the reference of a pitch adjustment is
\* halved for it and stays halved.
OneMono == \A i \in Tracks : i # Last => Channels[i] = 2

(***************************************************************************)
(* One track as a record, and mixAudio() as a function of it               *)
(***************************************************************************)

Deck == [cursor : Nat, playing : BOOLEAN, inside : Nat, ready : Nat]
On(i) == [cursor |-> cursor[i], playing |-> playing[i], inside |-> inside[i], ready |-> ready[i]]

\* The frames left, and those fed, for a track of so many channels and samples, at
\* tempo t.
LeftOf(ch, samples, d) == (samples - d.cursor) \div ch
Fed(frames, t, queued) ==
    Lesser((2 * Lesser(Burst, frames) * t + Unit) \div (2 * Unit)
             + (IF queued < Reserve /\ Reserve - queued < frames THEN Reserve - queued ELSE 0),
           frames)

\* SoundTouch at setting s, fed so many frames and asked for so many.
PipeOf(s, d, fed, write) ==
    LET batches == Batches(s, d.inside + fed)
        got == d.ready + batches * Gives[s]
    IN [inside |-> (d.inside + fed) - batches * Takes[s], ready |-> got - Received(got, write)]

MixWith(ch, samples, t, s, d) ==
    LET frames == LeftOf(ch, samples, d)
        fed == Fed(frames, t, d.ready)
        pipe == PipeOf(s, d, fed, Lesser(Burst, frames))
    IN IF frames <= 0 \/ ~d.playing THEN d
       ELSE [cursor |-> d.cursor + fed * ch, playing |-> d.cursor + fed * ch < samples,
             inside |-> pipe.inside, ready |-> pipe.ready]

MixOf(i, d) == MixWith(Channels[i], NumSamples(i), tempo[i], Setting(i), d)

LEMMA OnType == ASSUME TypeOK, NEW i \in Tracks PROVE On(i) \in Deck
BY DEF On, Deck, TypeOK

\* MixAudio() is this function, with the count of the track itself.
LEMMA MixIsFunction ==
    ASSUME TypeOK, NEW i \in Tracks, MixAudio(i, NumSamples(i) - cursor[i])
    PROVE  /\ On(i)' = MixOf(i, On(i))
           /\ \A j \in Tracks : j # i => On(j)' = On(j)
<1> DEFINE left == NumSamples(i) - cursor[i]
           d == On(i)
           ch == Channels[i]
           samples == NumSamples(i)
           frames == FramesLeft(i, left)
           write == Lesser(Burst, frames)
           adjusted == AdjustedWriteFrames(i, frames)
           s == Setting(i)
           batches == Batches(s, inside[i] + adjusted)
           got == ready[i] + batches * Gives[s]
           step == cursor[i] + adjusted * ch
<1>1. left \in Int /\ samples \in Nat /\ ch \in {1, 2} /\ Burst \in Nat \ {0}
    BY Samples, Constants DEF TypeOK
<1>2. /\ frames \in Int
      /\ frames = 0 => LeftOf(ch, samples, d) <= 0
      /\ frames > 0 => LeftOf(ch, samples, d) = frames
  <2>1. LeftOf(ch, samples, d) = left \div ch
      BY DEF LeftOf, On
  <2>2. frames = IF left < 0 THEN 0 - ((0 - left) \div ch) ELSE left \div ch
      BY DEF FramesLeft
  <2> HIDE DEF left, samples, d, frames, ch
  <2>3. CASE ch = 1
      BY <1>1, <2>1, <2>2, <2>3
  <2>4. CASE ch = 2
      BY <1>1, <2>1, <2>2, <2>4
  <2> QED BY <1>1, <2>3, <2>4
<1>3. write > 0 => frames > 0 /\ write = Lesser(Burst, LeftOf(ch, samples, d))
                   /\ adjusted = Fed(LeftOf(ch, samples, d), tempo[i], d.ready)
  <2>1. d.ready = ready[i]
      BY DEF On
  <2>2. write > 0 => frames > 0
      BY <1>1, <1>2 DEF Lesser
  <2> QED BY <1>2, <2>1, <2>2 DEF AdjustedWriteFrames, AdjustedUncapped, AtTempo, TopsUp, Fed
<1>4. CASE UNCHANGED tracks /\ (write = 0 \/ ~playing[i])
  <2>1. d.playing = playing[i]
      BY DEF On
  <2>2. write = 0 => frames = 0
      BY <1>1, <1>2 DEF Lesser
  <2> HIDE DEF write, frames, d, ch, samples
  <2>3. MixOf(i, d) = d
      BY <1>2, <1>4, <2>1, <2>2 DEF MixOf, MixWith, ch, samples
  <2> QED BY <1>4, <2>3 DEF tracks, On, d
<1>5. CASE /\ write > 0 /\ playing[i]
           /\ inside' = [inside EXCEPT ![i] = (inside[i] + adjusted) - batches * Takes[s]]
           /\ ready' = [ready EXCEPT ![i] = got - Received(got, write)]
           /\ cursor' = [cursor EXCEPT ![i] = step]
           /\ playing' = [playing EXCEPT ![i] = step < samples]
  <2> DEFINE pipe == PipeOf(s, d, adjusted, write)
             e == [cursor |-> step, playing |-> step < samples,
                   inside |-> pipe.inside, ready |-> pipe.ready]
  <2>1. /\ pipe.inside = (inside[i] + adjusted) - batches * Takes[s]
        /\ pipe.ready = got - Received(got, write)
      BY DEF PipeOf, On
  <2>2. MixOf(i, d) = e
    <3>1. d.cursor = cursor[i] /\ d.playing = playing[i]
        BY DEF On
    <3>2. LeftOf(ch, samples, d) = frames /\ ~(frames <= 0)
        BY <1>2, <1>3, <1>5
    <3> HIDE DEF d, ch, samples, frames, adjusted, s, pipe, write
    <3> QED BY <1>3, <1>5, <3>1, <3>2
            DEF MixOf, MixWith, e, step, d, ch, samples, adjusted, s, pipe, frames
  <2> HIDE DEF batches, got, step, frames, adjusted, write
  <2>3. /\ cursor'[i] = step /\ playing'[i] = (step < samples)
        /\ inside'[i] = (inside[i] + adjusted) - batches * Takes[s]
        /\ ready'[i] = got - Received(got, write)
      BY <1>5 DEF TypeOK
  <2>4. \A j \in Tracks : j # i => On(j)' = On(j)
      BY <1>5 DEF On, TypeOK
  <2> QED BY <2>1, <2>2, <2>3, <2>4 DEF On
<1> QED BY <1>4, <1>5 DEF MixAudio

LEMMA DecksKept ==
    ASSUME UNCHANGED tracks
    PROVE  \A i \in Tracks : On(i)' = On(i)
BY DEF tracks, On

\* A mix done at a tempo and a pitch is the same at the same tempo and pitch.
LEMMA MixKept ==
    ASSUME UNCHANGED <<tempo, applied>>, NEW i \in Tracks, NEW j \in Tracks
    PROVE  MixOf(i, On(j))' = MixOf(i, On(j)')
BY DEF MixOf, Setting, NumSamples

(***************************************************************************)
(* The invariant                                                           *)
(***************************************************************************)

Frame(i, d) == d.cursor \div Channels[i]
Mid(i, d) == Frame(i, d) + Reserve < Frames[i]

\* Track i as d and track j as e are together, as SameTime has it; tracks of one size
\* are at the same sample.
Agree(i, d, j, e) ==
    d.playing /\ e.playing =>
        /\ Twins(i, j) => d.cursor = e.cursor
        /\ Twins(i, j) \/ (Mid(i, d) /\ Mid(j, e)) =>
               Frame(i, d) = Frame(j, e) /\ d.inside = e.inside /\ d.ready = e.ready

\* The tracks before k have been mixed, the others have not.
Between(k) ==
    \A i, j \in Tracks : applied[i] = applied[j] =>
        /\ (i < k <=> j < k) => Agree(i, On(i), j, On(j))
        /\ i < k /\ ~(j < k) => Agree(i, On(i), j, MixOf(j, On(j)))

\* Where setCurrentSampleIndex() and setPlayMode() put a track.
Within(i, index) == IF index < 0 THEN 0 ELSE Lesser(index, NumSamples(i) - 1)
Put(i, index, d) == d.cursor = Within(i, ForChannels(i, index)) /\ d.inside = 0 /\ d.ready = 0
Begun(i, index, d) == d.cursor = ForChannels(i, index) /\ d.inside = 0 /\ d.ready = 0

\* A pitch adjustment has put the tracks before its own at one sample.
Adjusted ==
    \E r \in Int :
        /\ cb.at = "note" \/ cb.track # Last => cb.ref = r
        /\ \A i \in Tracks : i < cb.track \/ (i = cb.track /\ cb.at = "apply") => Put(i, r, On(i))

\* So has the loop of a seek or a play; the others do not disturb what is together.
Looped ==
    /\ op.at = "play" => \A i \in Tracks : i < op.track => Begun(i, op.arg, On(i))
    /\ op.at = "seek" => \A i \in Tracks : i < op.track => Put(i, op.arg, On(i))
    /\ op.at \in {"stop", "tempo"} => Between(0)

\* A tempo reaches the tracks one by one.
OneTempo == \A i \in Tracks :
                tempo[i] = IF op.at = "tempo" /\ i < op.track THEN op.arg ELSE tempo[Last]

\* What holds at any time, and what holds until a loop meets a callback: what there
\* is between two tracks of a callback, of a pitch adjustment and of a loop.
Base == /\ TypeInv /\ OneTempo
        /\ cb.at = "idle" => cb.track = 0
        /\ op.at = "none" => op.track = 0
Whole == /\ Looping => cb.at = "idle" /\ Looped
         /\ cb.at = "mix" => cb.left = NumSamples(cb.track) - cursor[cb.track]
         /\ ~Looping /\ Adjusting => Adjusted
         /\ ~Looping /\ ~Adjusting => Between(cb.track)

\* Strengthening that makes SameTime inductive.
SyncInv == Base /\ (~apart => Whole)

(***************************************************************************)
(* Two tracks through a callback                                           *)
(***************************************************************************)

\* The frames a burst takes at tempo t, and what is missing from the reserve.
FullFeed(t, queued) == (2 * Burst * t + Unit) \div (2 * Unit)
                         + (IF queued < Reserve THEN Reserve - queued ELSE 0)

\* What is fed at tempo t, above all to a track with more than the reserve left.
LEMMA FedMidway ==
    ASSUME SmallBursts, NEW t \in Tempos, NEW queued \in Nat, NEW frames \in Nat
    PROVE  /\ Fed(frames, t, queued) \in 0 .. frames
           /\ Reserve <= frames => Fed(frames, t, queued) >= 1 /\ Lesser(Burst, frames) = Burst
           /\ Reserve < frames =>
                Fed(frames, t, queued) = Lesser(FullFeed(t, queued), frames)
<1> DEFINE least == Lesser(Burst, frames)
           n == 2 * least * t
           at == (n + Unit) \div (2 * Unit)
           more == IF queued < Reserve /\ Reserve - queued < frames THEN Reserve - queued ELSE 0
           top == IF queued < Reserve THEN Reserve - queued ELSE 0
<1>1. /\ Burst \in Nat \ {0} /\ Reserve \in Nat /\ Unit \in Nat \ {0} /\ t \in Nat
      /\ Burst <= Reserve
    BY Constants DEF SmallBursts
<1>2. least \in Nat /\ (Reserve <= frames => least = Burst)
    BY <1>1 DEF Lesser
<1>3. n \in Nat /\ (least = Burst => Unit <= n)
    BY <1>1, <1>2 DEF SmallBursts
<1>4. at \in Nat /\ (least = Burst => at >= 1)
  <2> HIDE DEF n, least
  <2> QED BY <1>1, <1>3
<1>5. more \in Nat /\ (Reserve < frames => more = top)
    BY <1>1
<1>6. Fed(frames, t, queued) = Lesser(at + more, frames)
    BY DEF Fed
<1> HIDE DEF n, more, at, least
<1>7. Lesser(at + more, frames) \in 0 .. frames
    BY <1>4, <1>5 DEF Lesser
<1>8. Reserve <= frames => Lesser(at + more, frames) >= 1
    BY <1>1, <1>2, <1>4, <1>5 DEF Lesser
<1>9. ASSUME Reserve < frames
      PROVE  at = (2 * Burst * t + Unit) \div (2 * Unit) /\ more = top
  <2>1. least = Burst
      BY <1>1, <1>2, <1>9
  <2> QED BY <1>5, <1>9, <2>1 DEF at, n
<1>10. FullFeed(t, queued) = (2 * Burst * t + Unit) \div (2 * Unit) + top
    BY DEF FullFeed
<1> HIDE DEF top
<1> QED BY <1>2, <1>6, <1>7, <1>8, <1>9, <1>10 DEF least

\* A track that is still midway after a mix was so before, and has been fed in full.
LEMMA OneMix ==
    ASSUME SmallBursts, TypeOK, NEW i \in Tracks, NEW d \in Deck,
           MixOf(i, d).playing, Mid(i, MixOf(i, d))
    PROVE  /\ d.playing /\ Mid(i, d)
           /\ Frame(i, MixOf(i, d)) = Frame(i, d) + FullFeed(tempo[i], d.ready)
           /\ MixOf(i, d).inside = PipeOf(Setting(i), d, FullFeed(tempo[i], d.ready), Burst).inside
           /\ MixOf(i, d).ready = PipeOf(Setting(i), d, FullFeed(tempo[i], d.ready), Burst).ready
<1> DEFINE F == Frames[i]
           ch == Channels[i]
           samples == NumSamples(i)
           t == tempo[i]
           s == Setting(i)
           d1 == MixOf(i, d)
           frames == LeftOf(ch, samples, d)
           fed == Fed(frames, t, d.ready)
           full == FullFeed(t, d.ready)
           c == d.cursor
           a == Frame(i, d)
<1>1. /\ F \in Nat /\ ch \in {1, 2} /\ t \in Tempos
      /\ (ch = 1 => samples = F) /\ (ch = 2 => samples = 2 * F)
      /\ Reserve \in Nat /\ Burst \in Nat \ {0} /\ Burst <= Reserve
      /\ c \in Nat /\ d.ready \in Nat
    BY Samples, Constants DEF TypeOK, Deck, SmallBursts
<1>2. frames = (samples - c) \div ch /\ a = c \div ch
    BY DEF LeftOf, Frame
<1>3. d1 = IF frames <= 0 \/ ~d.playing THEN d
           ELSE [cursor |-> c + fed * ch, playing |-> c + fed * ch < samples,
                 inside |-> PipeOf(s, d, fed, Lesser(Burst, frames)).inside,
                 ready |-> PipeOf(s, d, fed, Lesser(Burst, frames)).ready]
    BY DEF MixOf, MixWith
<1>4. d1.cursor \div ch + Reserve < F /\ d1.playing
    BY DEF Mid, Frame
<1> HIDE DEF F, ch, samples, t, s, d1, frames, fed, full, c, a
<1>5. frames \in Int /\ a \in Nat /\ frames >= F - a - 1 /\ frames <= F - a
  <2>1. CASE ch = 1
      BY <1>1, <1>2, <2>1
  <2>2. CASE ch = 2
      BY <1>1, <1>2, <2>2
  <2> QED BY <1>1, <2>1, <2>2
<1>6. d.playing
    BY <1>3, <1>4
<1>7. frames > 0
  <2> SUFFICES ASSUME frames <= 0 PROVE FALSE
      BY <1>5
  <2>1. d1.cursor = c
      BY <1>3 DEF c
  <2>2. a + Reserve < F
      BY <1>2, <1>4, <2>1
  <2> QED BY <1>1, <1>5, <2>2
<1>8. /\ fed \in Nat /\ fed <= frames
      /\ Reserve <= frames => fed >= 1 /\ Lesser(Burst, frames) = Burst
      /\ Reserve < frames => fed = Lesser(full, frames)
  <2>1. frames \in Nat
      BY <1>5, <1>7
  <2>2. /\ Fed(frames, t, d.ready) \in 0 .. frames
        /\ Reserve <= frames => Fed(frames, t, d.ready) >= 1 /\ Lesser(Burst, frames) = Burst
        /\ Reserve < frames => Fed(frames, t, d.ready) = Lesser(FullFeed(t, d.ready), frames)
      BY <1>1, <2>1, FedMidway
  <2> QED BY <2>1, <2>2 DEF fed, full
<1>9. d1.cursor \div ch = a + fed
  <2>1. d1.cursor = c + fed * ch
      BY <1>3, <1>5, <1>6, <1>7
  <2>2. CASE ch = 1
      BY <1>1, <1>2, <1>8, <2>1, <2>2
  <2>3. CASE ch = 2
      BY <1>1, <1>2, <1>8, <2>1, <2>3
  <2> QED BY <1>1, <2>2, <2>3
<1>10. a + fed + Reserve < F
    BY <1>4, <1>9
<1>11. fed >= 1 /\ Lesser(Burst, frames) = Burst
    BY <1>1, <1>5, <1>8, <1>10
<1>12. fed = full
  <2>1. Reserve < frames /\ fed < frames
      BY <1>1, <1>5, <1>8, <1>10, <1>11
  <2>2. fed = Lesser(full, frames)
      BY <1>8, <2>1
  <2> QED BY <1>5, <1>8, <2>1, <2>2 DEF Lesser
<1>13. d1.inside = PipeOf(s, d, full, Burst).inside /\ d1.ready = PipeOf(s, d, full, Burst).ready
    BY <1>3, <1>5, <1>6, <1>7, <1>11, <1>12
<1>14. a + Reserve < F
    BY <1>1, <1>5, <1>8, <1>10
<1> QED BY <1>6, <1>9, <1>12, <1>13, <1>14 DEF Mid, Frame, d1, full, a, ch, F, s, t

\* Two tracks at one tempo and one pitch that are together are so after a mix of both:
\* each is fed and asked for as much as the other.
LEMMA MixAgree ==
    ASSUME SmallBursts, TypeOK, NEW i \in Tracks, NEW j \in Tracks, NEW d \in Deck, NEW e \in Deck,
           tempo[i] = tempo[j], applied[i] = applied[j], Agree(i, d, j, e)
    PROVE  Agree(i, MixOf(i, d), j, MixOf(j, e))
<1> DEFINE d1 == MixOf(i, d)
           e1 == MixOf(j, e)
<1> SUFFICES ASSUME d1.playing, e1.playing
             PROVE  /\ Twins(i, j) => d1.cursor = e1.cursor
                    /\ Twins(i, j) \/ (Mid(i, d1) /\ Mid(j, e1)) =>
                          Frame(i, d1) = Frame(j, e1) /\ d1.inside = e1.inside /\ d1.ready = e1.ready
    BY DEF Agree
<1>1. Setting(i) = Setting(j)
    BY DEF Setting
<1>2. d.playing /\ e.playing
    BY DEF MixOf, MixWith
<1>3. CASE Twins(i, j)
  <2>1. d.cursor = e.cursor /\ d.inside = e.inside /\ d.ready = e.ready
      BY <1>2, <1>3 DEF Agree
  <2>2. d.playing = TRUE /\ e.playing = TRUE
      BY <1>2 DEF Deck
  <2>3. d = e
      BY <2>1, <2>2 DEF Deck
  <2>4. d1 = e1
      BY <1>1, <1>3, <2>3 DEF MixOf, Twins, NumSamples
  <2> QED BY <1>3, <2>4 DEF Frame, Twins
<1>4. CASE ~Twins(i, j) /\ Mid(i, d1) /\ Mid(j, e1)
  <2> DEFINE full == FullFeed(tempo[i], d.ready)
             s == Setting(i)
  <2>1. /\ Mid(i, d) /\ Frame(i, d1) = Frame(i, d) + full
        /\ d1.inside = PipeOf(s, d, full, Burst).inside
        /\ d1.ready = PipeOf(s, d, full, Burst).ready
      BY <1>4, OneMix
  <2>2. /\ Mid(j, e) /\ Frame(j, e1) = Frame(j, e) + FullFeed(tempo[j], e.ready)
        /\ e1.inside = PipeOf(Setting(j), e, FullFeed(tempo[j], e.ready), Burst).inside
        /\ e1.ready = PipeOf(Setting(j), e, FullFeed(tempo[j], e.ready), Burst).ready
      BY <1>4, OneMix
  <2>3. Frame(i, d) = Frame(j, e) /\ d.inside = e.inside /\ d.ready = e.ready
      BY <1>2, <2>1, <2>2 DEF Agree
  <2>4. FullFeed(tempo[j], e.ready) = full
      BY <2>3
  <2>5. PipeOf(s, d, full, Burst) = PipeOf(s, e, full, Burst)
      BY <2>3 DEF PipeOf
  <2> HIDE DEF full, s, d1, e1
  <2>6. Frame(i, d1) = Frame(j, e1) /\ d1.inside = e1.inside /\ d1.ready = e1.ready
      BY <1>1, <2>1, <2>2, <2>3, <2>4, <2>5 DEF s
  <2> QED BY <1>4, <2>6
<1> QED BY <1>3, <1>4

LEMMA AgreeSwaps ==
    ASSUME NEW i, NEW j, NEW d, NEW e, Agree(i, d, j, e)
    PROVE  Agree(j, e, i, d)
BY DEF Agree, Twins

LEMMA AgreeItself ==
    ASSUME NEW i, NEW d
    PROVE  Agree(i, d, i, d)
BY DEF Agree

LEMMA BetweenKept ==
    ASSUME UNCHANGED <<tempo, applied>>, UNCHANGED tracks, NEW k \in Tracks, Between(k)
    PROVE  Between(k)'
<1>1. \A i \in Tracks : On(i)' = On(i)
    BY DecksKept
<1>2. \A i, j \in Tracks : MixOf(i, On(j))' = MixOf(i, On(j))
    BY <1>1, MixKept
<1> SUFFICES ASSUME NEW i \in Tracks, NEW j \in Tracks, applied[i] = applied[j]
             PROVE  /\ (i < k <=> j < k) => Agree(i, On(i)', j, On(j)')
                    /\ i < k /\ ~(j < k) => Agree(i, On(i)', j, MixOf(j, On(j))')
    BY DEF Between, Agree, Frame, Mid, Twins
<1> QED BY <1>1, <1>2 DEF Between

\* The callback goes on from track k, mixed, to track n.
LEMMA BetweenAfterMix ==
    ASSUME SmallBursts, TypeOK, \A i, j \in Tracks : tempo[i] = tempo[j],
           UNCHANGED <<tempo, applied>>, NEW k \in Tracks, Between(k),
           On(k)' = MixOf(k, On(k)), \A i \in Tracks : i # k => On(i)' = On(i),
           NEW n, n = IF k = Last THEN 0 ELSE k + 1
    PROVE  Between(n)'
<1>1. /\ Tracks \subseteq Nat /\ Last \in Nat /\ \A i \in Tracks : i <= Last /\ ~(i < 0)
  <2>1. NumTracks \in Nat \ {0}
      BY PlaybackAssumption
  <2> QED BY <2>1 DEF Tracks, Last
<1> SUFFICES ASSUME NEW i \in Tracks, NEW j \in Tracks, applied[i] = applied[j]
             PROVE  /\ (i < n <=> j < n) => Agree(i, On(i)', j, On(j)')
                    /\ i < n /\ ~(j < n) => Agree(i, On(i)', j, MixOf(j, On(j)'))
  <2>1. \A j \in Tracks : MixOf(j, On(j))' = MixOf(j, On(j)')
      BY MixKept
  <2> QED BY <2>1 DEF Between, Agree, Frame, Mid, Twins
<1>2. On(i) \in Deck /\ On(j) \in Deck /\ On(k) \in Deck
    BY OnType
<1>3. /\ (i < k <=> j < k) => Agree(i, On(i), j, On(j))
      /\ i < k /\ ~(j < k) => Agree(i, On(i), j, MixOf(j, On(j)))
      /\ j < k /\ ~(i < k) => Agree(j, On(j), i, MixOf(i, On(i)))
    BY DEF Between
<1>4. i \in Nat /\ j \in Nat /\ k \in Nat
    BY <1>1
\* Each pair of tracks that are both mixed, or both not.
<1>5. ASSUME (i < k \/ i = k) <=> (j < k \/ j = k)
      PROVE  Agree(i, On(i)', j, On(j)')
  <2>1. CASE i # k /\ j # k
      BY <1>3, <1>5, <2>1
  <2>2. CASE i = k /\ j = k
      BY <2>2, AgreeItself
  <2>3. CASE i = k /\ j # k
    <3>1. Agree(j, On(j), i, MixOf(i, On(i)))
        BY <1>3, <1>4, <1>5, <2>3
    <3>2. Agree(i, MixOf(i, On(i)), j, On(j))
        BY <3>1, AgreeSwaps
    <3> QED BY <2>3, <3>2
  <2>4. CASE i # k /\ j = k
    <3>1. Agree(i, On(i), j, MixOf(j, On(j)))
        BY <1>3, <1>4, <1>5, <2>4
    <3> QED BY <2>4, <3>1
  <2> QED BY <2>1, <2>2, <2>3, <2>4
\* And each pair of which one is.
<1>6. ASSUME i < k \/ i = k, ~(j < k), j # k
      PROVE  Agree(i, On(i)', j, MixOf(j, On(j)'))
  <2>1. CASE i # k
      BY <1>3, <1>6, <2>1
  <2>2. CASE i = k
    <3>1. Agree(i, On(i), j, On(j))
        BY <1>3, <1>4, <1>6, <2>2
    <3>2. Agree(i, MixOf(i, On(i)), j, MixOf(j, On(j)))
        BY <1>2, <3>1, MixAgree
    <3> QED BY <1>6, <2>2, <3>2
  <2> QED BY <2>1, <2>2
<1>7. CASE k # Last
  <2>1. \A m \in Nat : m < n <=> m < k \/ m = k
      BY <1>1, <1>4, <1>7
  <2>2. /\ i < n <=> i < k \/ i = k
        /\ j < n <=> j < k \/ j = k
      BY <1>4, <2>1
  <2> QED BY <1>5, <1>6, <2>2
<1>8. CASE k = Last
  <2>1. n = 0 /\ (i < k \/ i = k) /\ (j < k \/ j = k)
      BY <1>1, <1>4, <1>8
  <2> QED BY <1>1, <1>5, <2>1
<1> QED BY <1>7, <1>8

(***************************************************************************)
(* Two tracks through a pitch adjustment and through the loop of a handler *)
(***************************************************************************)

LEMMA ZeroMeans ==
    ASSUME Between(0), NEW i \in Tracks, NEW j \in Tracks, applied[i] = applied[j]
    PROVE  Agree(i, On(i), j, On(j))
<1>1. ~(i < 0) /\ ~(j < 0)
    BY DEF Tracks
<1> QED BY <1>1 DEF Between

LEMMA MadeTogether ==
    ASSUME \A i, j \in Tracks : applied'[i] = applied'[j] => Agree(i, On(i)', j, On(j)')
    PROVE  Between(0)'
<1>1. \A i \in Tracks : ~(i < 0)
    BY DEF Tracks
<1> QED BY <1>1 DEF Between, Agree, Frame, Mid, Twins

\* A step that moves no track, or only stops one.
LEMMA ZeroKept ==
    ASSUME Between(0), UNCHANGED applied,
           \A i \in Tracks : On(i)' = On(i) \/ ~On(i)'.playing
    PROVE  Between(0)'
<1> SUFFICES ASSUME NEW i \in Tracks, NEW j \in Tracks, applied'[i] = applied'[j]
             PROVE  Agree(i, On(i)', j, On(j)')
    BY MadeTogether
<1>1. Agree(i, On(i), j, On(j))
    BY ZeroMeans
<1>2. CASE On(i)' = On(i) /\ On(j)' = On(j)
    BY <1>1, <1>2
<1>3. CASE ~On(i)'.playing \/ ~On(j)'.playing
    BY <1>3 DEF Agree
<1> QED BY <1>2, <1>3

\* The clamp of setCurrentSampleIndex() does not tell apart tracks of one size, nor
\* tracks that are midway.
LEMMA PutAgree ==
    ASSUME Reserve >= 1, NEW r \in Int, NEW i \in Tracks, NEW j \in Tracks, NEW d, NEW e,
           Put(i, r, d), Put(j, r, e)
    PROVE  Agree(i, d, j, e)
<1>1. /\ d.cursor = Within(i, ForChannels(i, r)) /\ d.inside = 0 /\ d.ready = 0
      /\ e.cursor = Within(j, ForChannels(j, r)) /\ e.inside = 0 /\ e.ready = 0
    BY DEF Put
<1>2. Twins(i, j) => d.cursor = e.cursor /\ Frame(i, d) = Frame(j, e)
    BY <1>1 DEF Twins, Within, ForChannels, NumSamples, Frame
<1>3. ASSUME NEW k \in Tracks, NEW x \in Int, x = Within(k, ForChannels(k, r)),
             x \div Channels[k] + Reserve < Frames[k]
      PROVE  x \div Channels[k] = IF r < 0 THEN 0 ELSE r \div 2
  <2> DEFINE F == Frames[k]
             ch == Channels[k]
             samples == NumSamples(k)
             index == ForChannels(k, r)
  <2>1. /\ F \in Nat \ {0} /\ Reserve \in Nat /\ ch \in {1, 2}
        /\ (ch = 1 => samples = F) /\ (ch = 2 => samples = 2 * F)
      BY Samples, Constants
  <2>2. /\ x = IF index < 0 THEN 0 ELSE Lesser(index, samples - 1)
        /\ index = IF ch = 1 THEN r \div 2 ELSE r
      BY <1>3 DEF Within, ForChannels
  <2>3. x \div ch + Reserve < F
      BY <1>3
  <2> SUFFICES x \div ch = IF r < 0 THEN 0 ELSE r \div 2
      OBVIOUS
  <2> HIDE DEF F, ch, samples, index
  <2>4. CASE ch = 1
    <3>1. x = IF r \div 2 < 0 THEN 0 ELSE Lesser(r \div 2, F - 1)
        BY <2>1, <2>2, <2>4
    <3>2. x \div ch = x
        BY <2>4
    <3> QED BY <2>1, <2>3, <3>1, <3>2 DEF Lesser
  <2>5. CASE ch = 2
    <3>1. x = IF r < 0 THEN 0 ELSE Lesser(r, 2 * F - 1)
        BY <2>1, <2>2, <2>5
    <3> QED BY <2>1, <2>3, <2>5, <3>1 DEF Lesser
  <2> QED BY <2>1, <2>4, <2>5
<1>4. d.cursor \in Int /\ e.cursor \in Int
  <2>1. ASSUME NEW k \in Tracks PROVE Within(k, ForChannels(k, r)) \in Int
    <3>1. NumSamples(k) \in Nat /\ ForChannels(k, r) \in Int
        BY Samples DEF ForChannels
    <3> QED BY <3>1 DEF Within, Lesser
  <2> QED BY <1>1, <2>1
<1>5. Mid(i, d) => Frame(i, d) = IF r < 0 THEN 0 ELSE r \div 2
    BY <1>1, <1>3, <1>4 DEF Mid, Frame
<1>6. Mid(j, e) => Frame(j, e) = IF r < 0 THEN 0 ELSE r \div 2
    BY <1>1, <1>3, <1>4 DEF Mid, Frame
<1> QED BY <1>1, <1>2, <1>5, <1>6 DEF Agree

\* setPlayMode() does not clamp.
LEMMA BegunAgree ==
    ASSUME NEW arg \in Nat, NEW i \in Tracks, NEW j \in Tracks, NEW d, NEW e,
           Begun(i, arg, d), Begun(j, arg, e)
    PROVE  Agree(i, d, j, e)
<1>1. ASSUME NEW k \in Tracks PROVE ForChannels(k, arg) \div Channels[k] = arg \div 2
  <2>1. Channels[k] \in {1, 2}
      BY Constants
  <2>2. CASE Channels[k] = 1
      BY <2>2 DEF ForChannels
  <2>3. CASE Channels[k] = 2
      BY <2>3 DEF ForChannels
  <2> QED BY <2>1, <2>2, <2>3
<1>2. Frame(i, d) = arg \div 2 /\ Frame(j, e) = arg \div 2
    BY <1>1 DEF Begun, Frame
<1>3. Twins(i, j) => d.cursor = e.cursor
    BY DEF Twins, Begun, ForChannels
<1> QED BY <1>2, <1>3 DEF Agree, Begun

(***************************************************************************)
(* What holds at any time                                                  *)
(***************************************************************************)

LEMMA TrackFacts ==
    /\ Last \in Tracks /\ Last \in Nat /\ Tracks \subseteq Nat /\ 0 \in Tracks
    /\ \A i \in Tracks : i <= Last /\ ~(i < 0)
<1>1. NumTracks \in Nat \ {0}
    BY PlaybackAssumption
<1> QED BY <1>1 DEF Tracks, Last

LEMMA BaseTypes ==
    ASSUME Base
    PROVE  /\ TypeInv /\ TypeOK /\ cb \in Callbacks /\ op \in Handlers
           /\ cb.track \in Tracks /\ op.track \in Tracks /\ op.arg \in Nat
           /\ cb.at \in Places /\ cb.ref \in Int
           /\ Looping <=> op.track # 0
<1>1. TypeInv /\ TypeOK /\ cb \in Callbacks /\ op \in Handlers
    BY TypesOfRecords DEF Base, TypeInv
<1>2. op.track \in Nat /\ op.track \in Tracks
    BY <1>1, TrackFacts DEF Handlers
<1> QED BY <1>1, <1>2 DEF Callbacks, Handlers, Looping

LEMMA BaseCallback == ASSUME Base, CallbackStep PROVE Base'
<1>1. /\ cb \in Callbacks /\ op \in Handlers
    BY BaseTypes
<1>2. TypeInv'
    BY TypeStep DEF Base, Next
<1>3. cb'.at = "idle" => cb'.track = 0
  <2>1. CASE CallbackStart
      BY <1>1, <2>1 DEF CallbackStart, Callbacks
  <2>2. CASE NotePitch
      BY <1>1, <2>2 DEF NotePitch, Callbacks
  <2>3. CASE ApplyPitch
      BY <1>1, <2>3 DEF ApplyPitch, Callbacks
  <2>4. CASE ReadCursor
      BY <1>1, <2>4 DEF ReadCursor, NextTrack, Callbacks
  <2>5. CASE MixTrack
      BY <1>1, <2>5 DEF MixTrack, NextTrack, Callbacks
  <2> QED BY <2>1, <2>2, <2>3, <2>4, <2>5 DEF CallbackStep
<1>4. tempo' = tempo /\ op'.at = op.at /\ op'.track = op.track /\ op'.arg = op.arg
    BY <1>1 DEF CallbackStep, CallbackStart, NotePitch, ApplyPitch, ReadCursor, MixTrack, Handlers
<1> QED BY <1>2, <1>3, <1>4 DEF Base, OneTempo

LEMMA BaseHandler == ASSUME Base, HandlerStep PROVE Base'
<1> DEFINE k == op.track
<1>1. /\ cb \in Callbacks /\ op \in Handlers /\ TypeOK /\ k \in Tracks
    BY BaseTypes
<1>2. TypeInv'
    BY TypeStep DEF Base, Next
<1>3. cb' = cb
    BY DEF HandlerStep
<1>4. op.at # "tempo" => tempo' = tempo
    BY DEF HandlerStep
<1>5. op.at = "tempo" => \A i \in Tracks : tempo'[i] = IF i = k THEN op.arg ELSE tempo[i]
    BY <1>1 DEF HandlerStep, TypeOK
<1>6. CASE k = Last
  <2>1. op'.at = "none" /\ op'.track = 0
      BY <1>6 DEF HandlerStep
  <2>2. OneTempo'
    <3>1. CASE op.at = "tempo"
      <4>1. \A i \in Tracks : tempo'[i] = op.arg
          BY TrackFacts, <1>5, <1>6, <3>1 DEF Base, OneTempo
      <4> QED BY TrackFacts, <2>1, <4>1 DEF OneTempo
    <3>2. CASE op.at # "tempo"
        BY <1>4, <2>1, <3>2 DEF Base, OneTempo
    <3> QED BY <3>1, <3>2
  <2> QED BY <1>2, <1>3, <2>1, <2>2 DEF Base
<1>7. CASE k # Last
  <2>1. op'.at = op.at /\ op'.arg = op.arg /\ op'.track = k + 1 /\ op.at # "none"
      BY <1>1, <1>7 DEF HandlerStep, Handlers
  <2>2. OneTempo'
    <3>1. CASE op.at = "tempo"
      <4> SUFFICES ASSUME NEW i \in Tracks
                   PROVE  tempo'[i] = IF i < k + 1 THEN op.arg ELSE tempo'[Last]
          BY <2>1, <3>1 DEF OneTempo
      <4> i \in Nat /\ k \in Nat /\ Last \in Nat
          BY <1>1, TrackFacts
      <4>1. tempo'[Last] = tempo[Last]
          BY TrackFacts, <1>5, <1>7, <3>1
      <4>2. tempo[i] = IF i < k THEN op.arg ELSE tempo[Last]
          BY <3>1 DEF Base, OneTempo
      <4>3. tempo'[i] = IF i = k THEN op.arg ELSE tempo[i]
          BY <1>5, <3>1
      <4> QED BY <4>1, <4>2, <4>3
    <3>2. CASE op.at # "tempo"
        BY <1>4, <2>1, <3>2 DEF Base, OneTempo
    <3> QED BY <3>1, <3>2
  <2> QED BY <1>2, <1>3, <2>1, <2>2 DEF Base
<1> QED BY <1>6, <1>7

\* A press moves no track, and its loop has not begun.
LEMMA PressFacts ==
    ASSUME Base, Press
    PROVE  /\ UNCHANGED <<tracks, applied, tempo, apart>>
           /\ cb'.at = cb.at /\ cb'.track = cb.track /\ cb'.ref = cb.ref /\ cb'.left = cb.left
           /\ op'.track = op.track
           /\ \/ op' = op
              \/ op.at = "none" /\ op'.at # "none"
<1>1. op \in Handlers /\ cb \in Callbacks
    BY BaseTypes
<1>2. ASSUME NEW what \in {"play", "stop", "seek", "tempo"}, NEW arg, Begin(what, arg)
      PROVE  /\ UNCHANGED <<tracks, applied, tempo, apart, cb>> /\ op'.track = op.track
             /\ op.at = "none" /\ op'.at # "none"
    BY <1>1, <1>2 DEF Begin, pitches, histories, Handlers
<1>3. CASE PlayPause
  <2>1. Begin("stop", 0) \/ Begin("play", cursor[0])
      BY <1>3 DEF PlayPause
  <2> QED BY <1>2, <2>1
<1>4. CASE \E point \in SeekPoints : Seek(point)
    BY <1>2, <1>4 DEF Seek
<1>5. CASE \E t \in Tempos : PressTempo(t)
    BY <1>2, <1>5 DEF PressTempo
<1>6. CASE \E p \in Pitches : PressPitch(p)
  <2>1. /\ UNCHANGED <<tracks, applied, tempo, op, apart>>
        /\ \E b : cb' = [cb EXCEPT !.pressed = b]
      BY <1>6, Zenon DEF PressPitch, histories
  <2> QED BY <1>1, <2>1 DEF Callbacks
<1> QED BY <1>3, <1>4, <1>5, <1>6 DEF Press

LEMMA BasePress == ASSUME Base, Press PROVE Base'
<1>1. TypeInv'
    BY TypeStep DEF Base, Next, Press
<1>2. /\ tempo' = tempo /\ cb'.at = cb.at /\ cb'.track = cb.track /\ op'.track = op.track
      /\ op' = op \/ (op.at = "none" /\ op'.at # "none")
    BY PressFacts
<1>3. OneTempo'
  <2>1. CASE op' = op
      BY <1>2, <2>1 DEF Base, OneTempo
  <2>2. CASE op.at = "none" /\ op'.at # "none"
    <3>1. op'.track = 0 /\ \A i \in Tracks : tempo'[i] = tempo'[Last]
        BY <1>2, <2>2 DEF Base, OneTempo
    <3> QED BY <3>1, TrackFacts DEF OneTempo
  <2> QED BY <1>2, <2>1, <2>2
<1> QED BY <1>1, <1>2, <1>3 DEF Base

(***************************************************************************)
(* What holds until a loop meets a callback                                *)
(***************************************************************************)

\* A callback that starts outside a loop: the tracks are together, or an adjustment
\* begins, which will bring them together.
LEMMA WholeStart ==
    ASSUME Base, CallbackStart, ~apart => Whole, ~apart'
    PROVE  Whole'
<1>1. /\ cb \in Callbacks /\ cb.at = "idle" /\ cb.track = 0 /\ UNCHANGED <<tracks, applied>>
      /\ op \in Handlers /\ cb.ref \in Int
    BY BaseTypes DEF CallbackStart, Base, pitches
<1>2. ~Looping /\ ~Looping' /\ (apart => PitchChanged)
    BY <1>1, Zenon DEF CallbackStart, Looping
<1>3. cb'.track = 0 /\ cb'.at = IF PitchChanged THEN "note" ELSE "read"
    BY <1>1 DEF CallbackStart, Callbacks
<1>4. CASE PitchChanged
  <2>1. cb'.ref \in Int
    <3>1. TypeInv'
        BY TypeStep DEF Base, Next, CallbackStep
    <3> QED BY <3>1 DEF TypeInv, TypeOK
  <2>2. \A i \in Tracks : ~(i < cb'.track)
      BY <1>3, TrackFacts
  <2>3. Adjusted'
      BY <1>3, <1>4, <2>1, <2>2 DEF Adjusted
  <2> QED BY <1>2, <1>3, <1>4, <2>3 DEF Whole, Adjusting
<1>5. CASE ~PitchChanged
  <2>1. Between(0)
      BY <1>1, <1>2, <1>5 DEF Whole, Adjusting
  <2>2. Between(0)'
      BY <1>1, <2>1, DecksKept, ZeroKept
  <2>3. Between(cb.track)'
      BY <1>3, <2>2
  <2> QED BY <1>2, <1>3, <1>5, <2>3 DEF Whole, Adjusting
<1> QED BY <1>4, <1>5

\* The loops do not meet: the other steps of a callback.
LEMMA OutsideLoops ==
    ASSUME Base, ~apart => Whole, ~apart', NotePitch \/ ApplyPitch \/ ReadCursor \/ MixTrack
    PROVE  /\ Whole /\ ~Looping /\ op' = op /\ ~Looping'
           /\ cb.at # "idle"
<1>1. apart' = apart /\ op' = op /\ cb.at # "idle"
    BY DEF NotePitch, ApplyPitch, ReadCursor, MixTrack, histories
<1>2. ~apart
    BY <1>1, Zenon
<1>3. Whole /\ ~Looping
    BY <1>1, <1>2 DEF Whole
<1> QED BY <1>1, <1>3 DEF Looping

\* The adjustment puts one track after the other at the position of track 0.
LEMMA WholeNote ==
    ASSUME OneMono, Base, NotePitch, ~apart => Whole, ~apart'
    PROVE  Whole'
<1> DEFINE k == cb.track
<1>1. /\ cb \in Callbacks /\ k \in Tracks /\ TypeOK
      /\ Whole /\ ~Looping /\ ~Looping' /\ cb.at = "note"
    BY BaseTypes, OutsideLoops DEF NotePitch
<1>2. PICK r \in Int :
        /\ cb.at = "note" \/ cb.track # Last => cb.ref = r
        /\ \A i \in Tracks : i < cb.track \/ (i = cb.track /\ cb.at = "apply") => Put(i, r, On(i))
    BY <1>1 DEF Whole, Adjusting, Adjusted
<1>3. cb'.at = "apply" /\ cb'.track = k /\ cb'.ref = ForChannels(k, r)
    BY <1>1, <1>2 DEF NotePitch, Callbacks
<1>4. k # Last => cb'.ref = r
    BY <1>1, <1>3 DEF ForChannels, OneMono
<1>5. \A i \in Tracks : /\ cursor'[i] = IF i = k THEN Within(k, ForChannels(k, r)) ELSE cursor[i]
                        /\ inside'[i] = IF i = k THEN 0 ELSE inside[i]
                        /\ ready'[i] = IF i = k THEN 0 ELSE ready[i]
  <2>1. SetCurrentSampleIndex(k, ForChannels(k, r))
      BY <1>1, <1>2 DEF NotePitch
  <2>2. cursor' = [cursor EXCEPT ![k] = Within(k, ForChannels(k, r))]
      BY <2>1 DEF SetCurrentSampleIndex, Within
  <2>3. inside' = [inside EXCEPT ![k] = 0] /\ ready' = [ready EXCEPT ![k] = 0]
      BY <2>1 DEF SetCurrentSampleIndex, ClearPipe
  <2> QED BY <1>1, <2>2, <2>3 DEF TypeOK
<1>6. \A i \in Tracks : i < k \/ i = k => Put(i, r, On(i)')
  <2> SUFFICES ASSUME NEW i \in Tracks, i < k \/ i = k PROVE Put(i, r, On(i)')
      OBVIOUS
  <2>1. CASE i = k
      BY <1>5, <2>1 DEF Put, On
  <2>2. CASE i # k
    <3>1. Put(i, r, On(i))
        BY <1>2, <2>2
    <3> QED BY <1>5, <2>2, <3>1 DEF Put, On
  <2> QED BY <2>1, <2>2
<1>7. Adjusted'
    BY <1>3, <1>4, <1>6 DEF Adjusted, Put, Within, NumSamples, ForChannels
<1> QED BY <1>1, <1>3, <1>7 DEF Whole, Adjusting

\* After the last track it is done, and all are together.
LEMMA WholeApply ==
    ASSUME SmallBursts, Base, ApplyPitch, ~apart => Whole, ~apart'
    PROVE  Whole'
<1> DEFINE k == cb.track
<1>1. /\ cb \in Callbacks /\ k \in Tracks
      /\ Whole /\ ~Looping /\ ~Looping' /\ cb.at = "apply" /\ UNCHANGED tracks
    BY BaseTypes, OutsideLoops DEF ApplyPitch
<1>2. PICK r \in Int :
        /\ cb.at = "note" \/ cb.track # Last => cb.ref = r
        /\ \A i \in Tracks : i < cb.track \/ (i = cb.track /\ cb.at = "apply") => Put(i, r, On(i))
    BY <1>1 DEF Whole, Adjusting, Adjusted
<1>3. \A i \in Tracks : On(i)' = On(i)
    BY <1>1, DecksKept
<1>4. CASE k = Last
  <2>1. \A i \in Tracks : i < k \/ i = k
      BY <1>4, TrackFacts
  <2>2. \A i \in Tracks : Put(i, r, On(i)')
      BY <1>1, <1>2, <1>3, <2>1
  <2>3. Reserve >= 1
      BY Constants DEF SmallBursts
  <2>4. Between(0)'
      BY <2>2, <2>3, PutAgree, MadeTogether
  <2>5. cb'.track = 0 /\ cb'.at = "read"
      BY <1>1, <1>4 DEF ApplyPitch, Callbacks
  <2>6. Between(cb.track)'
      BY <2>4, <2>5
  <2> QED BY <1>1, <2>5, <2>6 DEF Whole, Adjusting
<1>5. CASE k # Last
  <2>1. cb'.track = k + 1 /\ cb'.at = "note" /\ cb'.ref = r
      BY <1>1, <1>2, <1>5 DEF ApplyPitch, Callbacks
  <2>2. \A i \in Tracks : i < k + 1 => Put(i, r, On(i)')
    <3> SUFFICES ASSUME NEW i \in Tracks, i < k + 1 PROVE Put(i, r, On(i))
        BY <1>3
    <3> i \in Nat /\ k \in Nat
        BY <1>1, TrackFacts
    <3>1. i < k \/ i = k
        OBVIOUS
    <3> QED BY <1>1, <1>2, <3>1
  <2>3. Adjusted'
    <3>1. \A i \in Tracks : i < cb'.track \/ (i = cb'.track /\ cb'.at = "apply")
                              => Put(i, r, On(i))'
        BY <2>1, <2>2 DEF Put, Within, NumSamples, ForChannels
    <3> QED BY <2>1, <3>1 DEF Adjusted
  <2> QED BY <1>1, <2>1, <2>3 DEF Whole, Adjusting
<1> QED BY <1>4, <1>5

\* A track is mixed, or passed over, or about to be mixed.
LEMMA WholeMix ==
    ASSUME SmallBursts, Base, ReadCursor \/ MixTrack, ~apart => Whole, ~apart'
    PROVE  Whole'
<1>1. /\ cb \in Callbacks /\ cb.track \in Tracks /\ TypeOK /\ op \in Handlers
      /\ Whole /\ ~Looping /\ ~Looping' /\ UNCHANGED <<tempo, applied>> /\ ~Adjusting
    BY BaseTypes, OutsideLoops DEF ReadCursor, MixTrack, pitches, Adjusting
<1>2. \A i, j \in Tracks : tempo[i] = tempo[j]
  <2>1. op.track = 0
      BY <1>1, BaseTypes
  <2>2. \A i \in Tracks : tempo[i] = tempo[Last]
      BY <2>1, TrackFacts DEF Base, OneTempo
  <2> QED BY <2>2
<1>3. PICK k \in Tracks : k = cb.track
    BY <1>1
<1>4. Between(k)
    BY <1>1, <1>3 DEF Whole
<1>5. PICK n : n = IF k = Last THEN 0 ELSE k + 1
    OBVIOUS
<1>6. ASSUME On(k)' = MixOf(k, On(k)), \A i \in Tracks : i # k => On(i)' = On(i),
             cb'.track = n, cb'.at \in {"idle", "read"}
      PROVE  Whole'
  <2>1. Between(n)'
      BY <1>1, <1>2, <1>4, <1>5, <1>6, BetweenAfterMix
  <2>2. Between(cb.track)'
      BY <1>6, <2>1
  <2> QED BY <1>1, <1>6, <2>2 DEF Whole, Adjusting
<1>7. CASE ReadCursor /\ playing[cb.track]
  <2>1. /\ UNCHANGED tracks /\ cb'.track = k /\ cb'.at = "mix"
        /\ cb'.left = NumSamples(k) - cursor[k]
      BY <1>1, <1>3, <1>7 DEF ReadCursor, Callbacks
  <2>2. Between(k)'
      BY <1>1, <1>4, <2>1, BetweenKept
  <2>3. Between(cb.track)'
      BY <2>1, <2>2
  <2>4. cb'.left = NumSamples(cb'.track) - cursor'[cb'.track]
      BY <2>1 DEF tracks
  <2> QED BY <1>1, <2>1, <2>3, <2>4 DEF Whole, Adjusting, NumSamples
<1>8. CASE ReadCursor /\ ~playing[cb.track]
  <2>1. UNCHANGED tracks /\ cb'.track = n /\ cb'.at \in {"idle", "read"}
      BY <1>1, <1>3, <1>5, <1>8 DEF ReadCursor, NextTrack, Callbacks
  <2>2. MixOf(k, On(k)) = On(k)
      BY <1>3, <1>8 DEF MixOf, MixWith, On
  <2>3. \A i \in Tracks : On(i)' = On(i)
      BY <2>1, DecksKept
  <2> QED BY <1>6, <2>1, <2>2, <2>3
<1>9. CASE MixTrack
  <2>1. cb.left = NumSamples(k) - cursor[k] /\ MixAudio(k, cb.left)
      BY <1>1, <1>3, <1>9 DEF MixTrack, Whole
  <2>2. /\ On(k)' = MixOf(k, On(k))
        /\ \A j \in Tracks : j # k => On(j)' = On(j)
      BY <1>1, <2>1, MixIsFunction
  <2>3. cb'.track = n /\ cb'.at \in {"idle", "read"}
      BY <1>1, <1>3, <1>5, <1>9 DEF MixTrack, NextTrack, Callbacks
  <2> QED BY <1>6, <2>2, <2>3
<1> QED BY <1>1, <1>7, <1>8, <1>9

\* A track of the loop of a handler.
LEMMA WholeHandler ==
    ASSUME SmallBursts, Base, HandlerStep, ~apart => Whole, ~apart'
    PROVE  Whole'
<1> DEFINE k == op.track
<1>1. /\ op \in Handlers /\ cb \in Callbacks /\ TypeOK /\ k \in Tracks /\ op.arg \in Nat
      /\ cb' = cb
    BY BaseTypes DEF HandlerStep
<1>2. /\ cb.at = "idle" /\ cb.track = 0
      /\ (k = 0 /\ op.at \in {"play", "seek"}) \/ ~apart
  <2>1. ~(cb.at # "idle" \/ (apart /\ ~(op.track = 0 /\ op.at \in {"play", "seek"})))
      BY Zenon DEF HandlerStep
  <2> QED BY <2>1 DEF Base
<1>3. PICK arg \in Nat : arg = op.arg
    BY <1>1
<1>4. ~Adjusting' /\ cb'.at = "idle" /\ cb'.track = 0
    BY <1>1, <1>2 DEF Adjusting
\* The tracks that the loop has done.
<1>5. op.at = "play" => \A i \in Tracks : i < k \/ i = k => Begun(i, arg, On(i)')
  <2> SUFFICES ASSUME op.at = "play", NEW i \in Tracks, i < k \/ i = k PROVE Begun(i, arg, On(i)')
      OBVIOUS
  <2>1. SetPlayMode(k, arg)
      BY <1>3 DEF HandlerStep
  <2>2. CASE i = k
      BY <1>1, <2>1, <2>2 DEF SetPlayMode, ClearPipe, TypeOK, Begun, On
  <2>3. CASE i # k
    <3>1. k # 0 /\ Looping
        BY <1>1, <2>3, TrackFacts, BaseTypes
    <3>2. Begun(i, arg, On(i))
        BY <1>2, <1>3, <2>3, <3>1 DEF Whole, Looped
    <3>3. On(i)'.cursor = cursor[i] /\ On(i)'.inside = inside[i] /\ On(i)'.ready = ready[i]
        BY <1>1, <2>1, <2>3 DEF SetPlayMode, ClearPipe, TypeOK, On
    <3> QED BY <3>2, <3>3 DEF Begun, On
  <2> QED BY <2>2, <2>3
<1>6. op.at = "seek" => \A i \in Tracks : i < k \/ i = k => Put(i, arg, On(i)')
  <2> SUFFICES ASSUME op.at = "seek", NEW i \in Tracks, i < k \/ i = k PROVE Put(i, arg, On(i)')
      OBVIOUS
  <2>1. SetCurrentSampleIndex(k, ForChannels(k, arg))
      BY <1>3 DEF HandlerStep
  <2>2. cursor' = [cursor EXCEPT ![k] = Within(k, ForChannels(k, arg))]
      BY <2>1 DEF SetCurrentSampleIndex, Within
  <2>3. inside' = [inside EXCEPT ![k] = 0] /\ ready' = [ready EXCEPT ![k] = 0]
      BY <2>1 DEF SetCurrentSampleIndex, ClearPipe
  <2>4. CASE i = k
      BY <1>1, <2>2, <2>3, <2>4 DEF TypeOK, Put, On
  <2>5. CASE i # k
    <3>1. k # 0 /\ Looping
        BY <1>1, <2>5, TrackFacts, BaseTypes
    <3>2. Put(i, arg, On(i))
        BY <1>2, <1>3, <2>5, <3>1 DEF Whole, Looped
    <3>3. On(i)'.cursor = cursor[i] /\ On(i)'.inside = inside[i] /\ On(i)'.ready = ready[i]
        BY <1>1, <2>2, <2>3, <2>5 DEF TypeOK, On
    <3> QED BY <3>2, <3>3 DEF Put, On
  <2> QED BY <2>4, <2>5
<1>7. op.at \in {"stop", "tempo"} => Between(0)'
  <2> SUFFICES ASSUME op.at \in {"stop", "tempo"} PROVE Between(0)'
      OBVIOUS
  <2>1. Between(0)
    <3>1. Whole /\ ~Adjusting
        BY <1>2 DEF Adjusting
    <3> QED BY <1>2, <3>1 DEF Whole, Looped
  <2>2. \A i \in Tracks : On(i)' = On(i) \/ ~On(i)'.playing
    <3>1. CASE op.at = "tempo"
      <4>1. UNCHANGED tracks
          BY <3>1 DEF HandlerStep
      <4> QED BY <4>1, DecksKept
    <3>2. CASE op.at = "stop"
      <4>1. SetStopMode(k)
          BY <3>2 DEF HandlerStep
      <4> QED BY <1>1, <4>1 DEF SetStopMode, ClearPipe, TypeOK, On
    <3> QED BY <3>1, <3>2
  <2>3. UNCHANGED applied
      BY DEF HandlerStep, pitches
  <2> QED BY <2>1, <2>2, <2>3, ZeroKept
<1>8. op.at \in {"play", "stop", "seek", "tempo"}
    BY DEF HandlerStep
<1>9. CASE k = Last
  <2>1. op'.at = "none" /\ op'.track = 0
      BY <1>9 DEF HandlerStep
  <2>2. \A i \in Tracks : i < k \/ i = k
      BY <1>9, TrackFacts
  <2>3. Reserve >= 1
      BY Constants DEF SmallBursts
  <2>4. Between(0)'
    <3>1. CASE op.at = "play"
        BY <1>5, <2>2, <3>1, BegunAgree, MadeTogether
    <3>2. CASE op.at = "seek"
        BY <1>6, <2>2, <2>3, <3>2, PutAgree, MadeTogether
    <3> QED BY <1>7, <1>8, <3>1, <3>2
  <2>5. Between(cb.track)'
      BY <1>4, <2>4
  <2> QED BY <1>4, <2>1, <2>5 DEF Whole, Looping
<1>10. CASE k # Last
  <2>1. op'.at = op.at /\ op'.arg = arg /\ op'.track = k + 1
      BY <1>1, <1>3, <1>10 DEF HandlerStep, Handlers
  <2> k \in Nat
      BY <1>1, TrackFacts
  <2>2. Looping'
    <3>1. k + 1 > 0
        OBVIOUS
    <3> QED BY <2>1, <3>1 DEF Looping
  <2>3. \A i \in Tracks : i < k + 1 => i < k \/ i = k
    <3>1. \A i \in Nat : i < k + 1 => i < k \/ i = k
        OBVIOUS
    <3> QED BY <3>1, TrackFacts
  <2>4. Looped'
    <3>1. (op.at = "play" => \A i \in Tracks : i < op.track => Begun(i, op.arg, On(i)))'
        BY <1>5, <2>1, <2>3 DEF Begun, ForChannels
    <3>2. (op.at = "seek" => \A i \in Tracks : i < op.track => Put(i, op.arg, On(i)))'
        BY <1>6, <2>1, <2>3 DEF Put, ForChannels, Within, NumSamples
    <3> QED BY <1>7, <2>1, <3>1, <3>2 DEF Looped
  <2> QED BY <1>4, <2>2, <2>4 DEF Whole
<1> QED BY <1>9, <1>10

\* A step that moves neither a track nor the loops.
LEMMA WholeKept ==
    ASSUME Base, Whole, UNCHANGED <<tracks, applied, tempo>>,
           cb'.at = cb.at, cb'.track = cb.track, cb'.ref = cb.ref, cb'.left = cb.left,
           op'.track = op.track, op' = op \/ op.at = "none"
    PROVE  Whole'
<1>1. (Looping' <=> Looping) /\ (Adjusting' <=> Adjusting)
    BY DEF Looping, Adjusting
<1>2. \A i \in Tracks : On(i)' = On(i)
    BY DecksKept
<1>3. ASSUME Looping PROVE Looped'
  <2>1. op' = op
      BY <1>3, BaseTypes DEF Base
  <2>2. Looped
      BY <1>3 DEF Whole
  <2>3. (op.at \in {"stop", "tempo"} => Between(0))'
      BY <1>2, <2>1, <2>2, ZeroKept DEF Looped
  <2>4. (op.at = "play" => \A i \in Tracks : i < op.track => Begun(i, op.arg, On(i)))'
      BY <1>2, <2>1, <2>2 DEF Looped, Begun, ForChannels
  <2>5. (op.at = "seek" => \A i \in Tracks : i < op.track => Put(i, op.arg, On(i)))'
      BY <1>2, <2>1, <2>2 DEF Looped, Put, ForChannels, Within, NumSamples
  <2> QED BY <2>3, <2>4, <2>5 DEF Looped
<1>4. Adjusted => Adjusted'
    BY <1>2 DEF Adjusted, Put, ForChannels, Within, NumSamples
<1>5. Between(cb.track) => Between(cb.track)'
  <2>1. PICK k \in Tracks : k = cb.track
      BY BaseTypes
  <2>2. Between(k) => Between(k)'
      BY BetweenKept
  <2> QED BY <2>1, <2>2
<1>6. cb.at = "mix" => cb'.left = NumSamples(cb'.track) - cursor'[cb'.track]
    BY DEF Whole, tracks
<1> QED BY <1>1, <1>3, <1>4, <1>5, <1>6 DEF Whole, NumSamples

LEMMA SyncInit == ASSUME Init PROVE SyncInv
<1>1. /\ cb = [at |-> "idle", track |-> 0, ref |-> 0, left |-> 0, pressed |-> FALSE]
      /\ op = [at |-> "none", track |-> 0, arg |-> 0, met |-> 0]
    BY DEF Init
<1>2. Base
  <2>1. TypeInv
      BY <1>1, TypeInit DEF TypeInv
  <2>2. OneTempo
    <3>1. \A i \in Tracks : tempo[i] = Unit
        BY DEF Init
    <3> QED BY <1>1, <3>1, TrackFacts DEF OneTempo
  <2> QED BY <1>1, <2>1, <2>2 DEF Base
<1>3. Between(0)
  <2>1. \A i, j \in Tracks : ~On(i).playing /\ ~(i < 0)
      BY TrackFacts DEF Init, On
  <2> QED BY <2>1 DEF Between, Agree
<1>4. Whole
    BY <1>1, <1>3 DEF Whole, Looping, Adjusting
<1> QED BY <1>2, <1>4 DEF SyncInv

LEMMA SyncStep ==
    ASSUME OneMono, SmallBursts, SyncInv, [Next]_vars
    PROVE  SyncInv'
<1> USE DEF SyncInv
<1>1. CASE CallbackStep
  <2>1. Base'
      BY <1>1, BaseCallback
  <2>2. ASSUME ~apart' PROVE Whole'
      BY <1>1, <2>2, WholeStart, WholeNote, WholeApply, WholeMix DEF CallbackStep
  <2> QED BY <2>1, <2>2
<1>2. CASE HandlerStep
    BY <1>2, BaseHandler, WholeHandler
<1>3. CASE Press
  <2>1. Base'
      BY <1>3, BasePress
  <2>2. ASSUME ~apart' PROVE Whole'
    <3>1. /\ UNCHANGED <<tracks, applied, tempo, apart>>
          /\ cb'.at = cb.at /\ cb'.track = cb.track /\ cb'.ref = cb.ref /\ cb'.left = cb.left
          /\ op'.track = op.track /\ (op' = op \/ op.at = "none")
        BY <1>3, PressFacts
    <3> QED BY <2>2, <3>1, WholeKept
  <2> QED BY <2>1, <2>2
<1>4. CASE UNCHANGED vars
  <2>1. UNCHANGED <<tracks, applied, tempo, apart, cb, op>>
      BY <1>4 DEF vars, pitches, histories
  <2>2. Base'
      BY <1>4, <2>1, TypeStep DEF Base, OneTempo
  <2>3. ASSUME ~apart' PROVE Whole'
      BY <2>1, <2>3, WholeKept
  <2> QED BY <2>2, <2>3
<1> QED BY <1>1, <1>2, <1>3, <1>4 DEF Next, Press

\* With callbacks that run at any time, also during the loop of a handler, tracks of
\* any lengths and any of them ignoring the pitch: from a seek, a play or a pitch
\* adjustment that no other loop meets, and until one does, the tracks that play at
\* one pitch are at one frame with the same frames on their way through SoundTouch;
\* the stems up to their very end, the click for as long as both are midway, after
\* any pause, tempo and pitch, whatever SoundTouch does.
THEOREM SameTimeKept ==
    ASSUME OneMono, SmallBursts
    PROVE  Spec => []SameTime
<1>1. Init => SyncInv
    BY SyncInit
<1>2. SyncInv /\ [Next]_vars => SyncInv'
    BY SyncStep
<1>3. SyncInv => SameTime
  <2> SUFFICES ASSUME SyncInv, Settled, ~apart, NEW i \in Tracks, NEW j \in Tracks,
                      playing[i], playing[j], applied[i] = applied[j],
                      Twins(i, j) \/ (Midway(i) /\ Midway(j))
               PROVE  /\ FramesOf(i) = FramesOf(j)
                      /\ inside[i] = inside[j] /\ ready[i] = ready[j]
      BY Zenon DEF SameTime
  <2>1. Between(0)
    <3>1. cb.track = 0 /\ ~Looping /\ ~Adjusting
        BY DEF SyncInv, Base, Settled, Looping, Adjusting
    <3> QED BY <3>1 DEF SyncInv, Whole
  <2>2. Agree(i, On(i), j, On(j))
      BY <2>1, ZeroMeans
  <2> QED BY <2>2 DEF Agree, On, Frame, Mid, FramesOf, Midway
<1> QED BY <1>1, <1>2, <1>3, PTL DEF Spec

(***************************************************************************)
(* Handlers that meet callbacks                                            *)
(***************************************************************************)

\* At one tempo SoundTouch gives out what it takes in; it takes in no more than the
\* reserve at once, and a callback asks for no more.
Steady ==
    /\ OneMono /\ Tempos = {Unit} /\ Burst <= Reserve
    /\ \A s \in Pitches \X Tempos : Gives[s] = Takes[s] /\ Takes[s] <= Reserve + 1

\* The frames that SoundTouch will still hold back from a track with a full reserve
\* before it gives a burst for each callback.
Owed(i) == LET short == Need[Setting(i)] - (Reserve + 1 + inside[i])
           IN IF short > 0 THEN short ELSE 0

\* A number of frames at tempo 1.0.
LEMMA AtUnit ==
    ASSUME NEW n \in Nat, NEW u \in Nat \ {0}
    PROVE  (2 * n * u + u) \div (2 * u) = n
<1> DEFINE m == 2 * u
           x == n * m + u
           q == x \div m
<1>1. m \in Nat \ {0} /\ u < m /\ 2 * n * u = n * m
    OBVIOUS
<1>2. n * m \in Nat
    BY <1>1
<1> HIDE DEF m
<1>3. x \in Nat
    BY <1>2
<1>4. q \in Nat /\ m * q <= x /\ x < m * q + m
  <2> HIDE DEF x
  <2> QED BY <1>1, <1>3
<1> HIDE DEF q
<1>5. ~(q > n)
  <2> SUFFICES ASSUME q >= n + 1 PROVE FALSE
      BY <1>4
  <2>1. PICK e \in Nat : q = n + 1 + e
    <3>1. q - (n + 1) \in Nat
        BY <1>4
    <3>2. q = n + 1 + (q - (n + 1))
        BY <1>4
    <3> QED BY <3>1, <3>2
  <2>2. m * q = n * m + m + m * e /\ m * e \in Nat
      BY <1>1, <2>1
  <2> QED BY <1>1, <1>2, <1>4, <2>2
<1>6. ~(q < n)
  <2> SUFFICES ASSUME q + 1 <= n PROVE FALSE
      BY <1>4
  <2>1. PICK e \in Nat : n = q + 1 + e
    <3>1. n - (q + 1) \in Nat
        BY <1>4
    <3>2. n = q + 1 + (n - (q + 1))
        BY <1>4
    <3> QED BY <3>1, <3>2
  <2>2. n * m = m * q + m + m * e /\ m * e \in Nat /\ m * q \in Nat
      BY <1>1, <1>4, <2>1
  <2> QED BY <1>1, <1>2, <1>4, <2>2
<1>7. q = n
    BY <1>4, <1>5, <1>6
<1> QED BY <1>1, <1>7 DEF q, m

\* Whole batches leave less than the next one waits for.
LEMMA BatchesDone ==
    ASSUME NEW s \in Pitches \X Tempos, NEW n \in Nat
    PROVE  /\ n < Need[s] => Batches(s, n) * Takes[s] = 0
           /\ n >= Need[s] => /\ n - Batches(s, n) * Takes[s] < Need[s]
                              /\ n - Batches(s, n) * Takes[s] >= Need[s] - Takes[s]
<1> DEFINE k == Takes[s]
           d == Need[s]
           q == (n - d) \div k
<1>1. k \in Nat \ {0} /\ d \in Nat \ {0}
  <2>1. PICK p \in Pitches, t \in Tempos : s = <<p, t>>
      OBVIOUS
  <2> QED BY <2>1, PlaybackAssumption
<1>2. Batches(s, n) = IF n < d THEN 0 ELSE q + 1
    BY DEF Batches
<1> HIDE DEF k, d
<1>3. CASE n < d
    BY <1>1, <1>2, <1>3 DEF k, d
<1>4. CASE n >= d
  <2>1. q \in Nat /\ k * q <= n - d /\ n - d < k * q + k
      BY <1>1, <1>4
  <2> HIDE DEF q
  <2>2. (q + 1) * k = k * q + k /\ k * q \in Nat
      BY <1>1, <2>1
  <2>3. n - (q + 1) * k < d /\ n - (q + 1) * k >= d - k
      BY <1>1, <2>1, <2>2
  <2> QED BY <1>1, <1>2, <1>4, <2>3 DEF k, d
<1> QED BY <1>1, <1>3, <1>4

LEMMA HeardTypes ==
    ASSUME TypeOK, NEW i \in Tracks
    PROVE  /\ FramesOf(i) \in Nat /\ Heard(i) \in Int /\ Owed(i) \in Nat
           /\ inside[i] \in Nat /\ ready[i] \in Nat /\ cursor[i] \in Nat
           /\ Setting(i) \in Pitches \X Tempos /\ Need[Setting(i)] \in Nat \ {0}
           /\ Takes[Setting(i)] \in Nat \ {0}
<1>1. inside[i] \in Nat /\ ready[i] \in Nat /\ cursor[i] \in Nat /\ Channels[i] \in {1, 2}
    BY Constants DEF TypeOK
<1>2. FramesOf(i) \in Nat
    BY <1>1 DEF FramesOf
<1>3. Setting(i) \in Pitches \X Tempos
    BY DEF Setting, TypeOK
<1>4. Need[Setting(i)] \in Nat \ {0} /\ Takes[Setting(i)] \in Nat \ {0}
  <2>1. PICK p \in Pitches, t \in Tempos : Setting(i) = <<p, t>>
      BY <1>3
  <2> QED BY <2>1, PlaybackAssumption
<1>5. Owed(i) \in Nat
    BY <1>1, <1>4, Constants DEF Owed
<1> QED BY <1>1, <1>2, <1>3, <1>4, <1>5 DEF Heard

\* What one mixAudio() does to what is heard of its track, with samplesLeft out of date
\* or not.
LEMMA MixHeard ==
    ASSUME Steady, TypeOK, UNCHANGED <<applied, tempo>>,
           NEW i \in Tracks, NEW left \in Int, MixAudio(i, left), playing'[i], Midway(i)'
    PROVE  /\ playing[i] /\ Midway(i)
           /\ Heard(i) <= Heard(i)' /\ Heard(i)' <= Heard(i) + Burst
           /\ left = NumSamples(i) - cursor[i]
                => Heard(i) + Burst - Owed(i) <= Heard(i)' - Owed(i)'
<1> Lack \in Nat
    BY Constants
<1> DEFINE ch == Channels[i]
           F == Frames[i]
           a == FramesOf(i)
           s == Setting(i)
           frames == FramesLeft(i, left)
           write == Lesser(Burst, frames)
           adjusted == AdjustedWriteFrames(i, frames)
           fed == inside[i] + adjusted
           batches == Batches(s, fed)
           taken == batches * Takes[s]
           got == ready[i] + taken
           step == cursor[i] + adjusted * ch
<1>1. /\ ch \in {1, 2} /\ F \in Nat \ {0} /\ Burst \in Nat \ {0} /\ Reserve \in Nat
      /\ Burst <= Reserve /\ NumSamples(i) = F * ch
    BY Constants DEF Steady, NumSamples
<1>2. /\ a \in Nat /\ Heard(i) \in Int /\ Owed(i) \in Nat
      /\ inside[i] \in Nat /\ ready[i] \in Nat /\ cursor[i] \in Nat
      /\ s \in Pitches \X Tempos /\ Need[s] \in Nat \ {0} /\ Takes[s] \in Nat \ {0}
      /\ Gives[s] = Takes[s] /\ Takes[s] <= Reserve + 1
      /\ a = cursor[i] \div ch /\ Heard(i) = a - inside[i] - ready[i]
    BY HeardTypes DEF Steady, Heard, FramesOf
<1>3. /\ left >= 0 => frames \in Nat
      /\ left < 0 => frames \in Int /\ frames <= 0
      /\ left = F * ch - cursor[i] /\ a + Reserve < F => frames >= F - a - 1
    BY <1>1, <1>2 DEF FramesLeft
<1>4. CASE UNCHANGED tracks /\ (write = 0 \/ ~playing[i])
  <2>1. UNCHANGED <<cursor, playing, inside, ready>>
      BY <1>4 DEF tracks
  <2>2. playing[i] /\ Midway(i) /\ Heard(i)' = Heard(i)
      BY <2>1 DEF Midway, Heard, FramesOf
  <2>3. left # NumSamples(i) - cursor[i]
    <3> SUFFICES ASSUME left = NumSamples(i) - cursor[i] PROVE FALSE
        OBVIOUS
    <3>1. a + Reserve < F
        BY <2>2 DEF Midway
    <3>2. frames >= F - a - 1
        BY <1>1, <1>3, <3>1
    <3>3. frames \in Int
        BY <1>3
    <3>4. write # 0
        BY <1>1, <1>2, <3>1, <3>2, <3>3 DEF Lesser
    <3> QED BY <1>4, <2>2, <3>4
  <2> QED BY <1>1, <1>2, <2>2, <2>3
<1>5. CASE /\ write > 0 /\ playing[i]
           /\ inside' = [inside EXCEPT ![i] = fed - batches * Takes[s]]
           /\ ready' = [ready EXCEPT ![i] = (ready[i] + batches * Gives[s])
                                              - Received(ready[i] + batches * Gives[s], write)]
           /\ cursor' = [cursor EXCEPT ![i] = step]
           /\ playing' = [playing EXCEPT ![i] = step < NumSamples(i)]
  <2>1. frames \in Nat /\ frames >= 1
      BY <1>1, <1>3, <1>5 DEF Lesser
  <2>2. adjusted \in 0 .. frames
      BY <2>1, FedInside
  <2>3. fed \in Nat /\ adjusted \in Nat
      BY <1>2, <2>1, <2>2
  <2>4. batches \in Nat /\ taken \in Nat /\ taken <= fed
      BY <1>2, <2>3, BatchesFit
  <2>5. /\ fed < Need[s] => taken = 0
        /\ fed >= Need[s] => fed - taken < Need[s] /\ fed - taken >= Need[s] - Takes[s]
      BY <1>2, <2>3, BatchesDone
  <2>6. /\ inside'[i] = fed - taken
        /\ ready'[i] = got - Lesser(write, got)
        /\ cursor'[i] = step
    <3>1. ready[i] + batches * Gives[s] = got
        BY <1>2
    <3>2. batches * Takes[s] = taken
        OBVIOUS
    <3> HIDE DEF batches, taken, got, fed, step, s, write
    <3> QED BY <1>5, <3>1, <3>2 DEF TypeOK, Received
  <2>7. write \in Nat /\ write <= Burst /\ write >= 1
      BY <1>1, <2>1 DEF Lesser
  <2>8. AtTempo(i, Lesser(Burst, frames)) = Lesser(Burst, frames)
    <3>1. tempo[i] = Unit /\ Unit \in Nat \ {0}
        BY Constants DEF TypeOK, Steady
    <3>2. Lesser(Burst, frames) \in Nat
        BY <2>7
    <3> QED BY <3>1, <3>2, AtUnit DEF AtTempo
  <2>9. adjusted = Lesser(Lesser(Burst, frames) + (IF TopsUp(i, frames) THEN Reserve - ready[i] ELSE 0),
                          frames)
      BY <2>8 DEF AdjustedWriteFrames, AdjustedUncapped
  <2> HIDE DEF ch, F, a, s, frames, write, adjusted, fed, batches, taken
  <2>10. got \in Nat
      BY <1>2, <2>4
  <2>11. FramesOf(i)' = a + adjusted
    <3>1. step \div ch = a + adjusted
      <4>1. CASE ch = 1
          BY <1>1, <1>2, <2>3, <4>1
      <4>2. CASE ch = 2
        <5>1. a = cursor[i] \div 2 /\ step = cursor[i] + adjusted * 2
            BY <1>2, <4>2
        <5>2. (cursor[i] + adjusted * 2) \div 2 = cursor[i] \div 2 + adjusted
            BY <1>2, <2>3
        <5> QED BY <4>2, <5>1, <5>2
      <4> QED BY <1>1, <4>1, <4>2
    <3> QED BY <2>6, <3>1 DEF FramesOf, ch
  <2>12. a + adjusted + Reserve < F
      BY <2>11 DEF Midway, F
  <2>13. Midway(i)
      BY <1>1, <1>2, <2>3, <2>12 DEF Midway, a, F
  <2>14. Heard(i)' = Heard(i) + Lesser(write, got)
    <3>1. Heard(i)' = (a + adjusted) - (fed - taken) - (got - Lesser(write, got))
        BY <2>6, <2>11 DEF Heard
    <3>2. Lesser(write, got) \in Nat
        BY <2>7, <2>10 DEF Lesser
    <3> HIDE DEF got
    <3>3. fed = inside[i] + adjusted /\ got = ready[i] + taken
        BY DEF fed, got
    <3> QED BY <1>2, <2>3, <2>4, <2>10, <3>1, <3>2, <3>3
  <2>15. Lesser(write, got) \in Nat /\ Lesser(write, got) <= Burst
      BY <1>1, <2>7, <2>10 DEF Lesser
  <2>16. ASSUME left = NumSamples(i) - cursor[i]
         PROVE  Burst - Owed(i) <= Lesser(write, got) - Owed(i)'
    <3>1. frames >= F - a - 1
        BY <1>1, <1>2, <1>3, <2>3, <2>12, <2>16
    <3>2. write = Burst
      <4>1. frames >= Reserve
          BY <1>1, <1>2, <2>1, <2>3, <2>12, <3>1
      <4>2. Burst <= frames
          BY <1>1, <2>1, <4>1
      <4> QED BY <1>1, <2>1, <4>2 DEF write, Lesser
    <3> DEFINE more == IF TopsUp(i, frames) THEN Reserve - ready[i] ELSE 0
    <3>3. adjusted = Lesser(Burst + more, frames) /\ more \in Nat
        BY <1>1, <1>2, <2>9, <3>2 DEF write, TopsUp
    <3>4. adjusted + Reserve <= frames
        BY <1>1, <1>2, <2>1, <2>3, <2>12, <3>1
    <3> HIDE DEF more
    <3>9. adjusted = Burst + more /\ frames > Reserve
        BY <1>1, <2>1, <2>3, <3>3, <3>4 DEF Lesser
    <3>10. more = IF ready[i] < Reserve THEN Reserve - ready[i] ELSE 0
        BY <1>1, <1>2, <2>1, <3>9 DEF more, TopsUp
    <3>5. /\ Owed(i) = IF Need[s] - (Reserve + 1 + inside[i]) > 0
                        THEN Need[s] - (Reserve + 1 + inside[i]) ELSE 0
          /\ Owed(i)' = IF Need[s] - (Reserve + 1 + inside'[i]) > 0
                         THEN Need[s] - (Reserve + 1 + inside'[i]) ELSE 0
        BY DEF Owed, s, Setting
    <3>6. inside'[i] \in Nat /\ inside'[i] = (inside[i] + adjusted) - taken
        BY <2>3, <2>4, <2>6 DEF fed
    <3>7. Owed(i)' \in Nat
        BY <1>1, <1>2, <3>5, <3>6
    <3>8. /\ inside[i] + adjusted < Need[s] => taken = 0
          /\ inside[i] + adjusted >= Need[s] =>
                inside'[i] < Need[s] /\ inside'[i] >= Need[s] - Takes[s]
        BY <2>5, <2>6 DEF fed
    <3>11. /\ inside[i] \in Nat /\ ready[i] \in Nat /\ taken \in Nat /\ adjusted \in Nat
           /\ Need[s] \in Nat /\ Takes[s] \in Nat /\ Owed(i) \in Nat
           /\ adjusted = Burst + (IF ready[i] < Reserve THEN Reserve - ready[i] ELSE 0)
        BY <1>2, <2>3, <2>4, <3>9, <3>10
    <3>12. Burst - Owed(i) <= Lesser(Burst, got) - Owed(i)'
      <4> DEFINE in == inside[i]
                 in2 == inside'[i]
                 N == Need[s]
                 T == Takes[s]
                 owed == Owed(i)
                 owed2 == Owed(i)'
                 queued == ready[i]
      <4>1. /\ in \in Nat /\ in2 \in Nat /\ N \in Nat /\ T \in Nat /\ owed \in Nat /\ owed2 \in Nat
            /\ queued \in Nat /\ taken \in Nat /\ got = queued + taken /\ T <= Reserve + 1
          BY <1>2, <3>6, <3>7, <3>11
      <4>2. /\ owed = IF N - (Reserve + 1 + in) > 0 THEN N - (Reserve + 1 + in) ELSE 0
            /\ owed2 = IF N - (Reserve + 1 + in2) > 0 THEN N - (Reserve + 1 + in2) ELSE 0
            /\ in2 = (in + adjusted) - taken
            /\ adjusted = Burst + (IF queued < Reserve THEN Reserve - queued ELSE 0)
          BY <3>5, <3>6, <3>11
      <4>3. /\ in + adjusted < N => taken = 0
            /\ in + adjusted >= N => in2 < N /\ in2 >= N - T
          BY <3>8
      <4> HIDE DEF in, in2, N, T, owed, owed2, queued, got
      <4>4. Burst - owed <= Lesser(Burst, got) - owed2
        <5>1. CASE in + adjusted < N
            BY <1>1, <3>11, <4>1, <4>2, <4>3, <5>1 DEF Lesser
        <5>2. CASE in + adjusted >= N
          <6>1. owed2 = 0
              BY <1>1, <3>11, <4>1, <4>2, <4>3, <5>2
          <6>2. got >= Burst - owed
              BY <1>1, <3>11, <4>1, <4>2, <4>3, <5>2
          <6> QED BY <1>1, <4>1, <6>1, <6>2 DEF Lesser
        <5> QED BY <3>11, <4>1, <5>1, <5>2
      <4> QED BY <4>4 DEF owed, owed2
    <3> QED BY <3>2, <3>12
  <2>17. Owed(i)' \in Nat
      BY <1>1, <1>2, <2>3, <2>4, <2>6 DEF Owed, s, Setting, fed
  <2> HIDE DEF got
  <2> QED BY <1>1, <1>2, <1>5, <2>13, <2>14, <2>15, <2>16, <2>17
<1> QED BY <1>4, <1>5 DEF MixAudio

\* The frame at which a handler or a pitch adjustment puts a track that it does not put
\* near its end.
FrameAt(index) == IF index < 0 THEN 0 ELSE index \div 2

\* The callback under way will still mix track i; what has been heard of it then.
Pending(i) == Adjusting \/ (cb.at \in {"read", "mix"} /\ cb.track <= i)
Due(i) == IF Pending(i) THEN Heard(i) + Burst ELSE Heard(i)

\* The tracks whose skew is bounded.
Counts(i) == playing[i] /\ Midway(i)

\* A handler has moved the track whose cursor the callback has read.
Stale(i) == cb.at = "mix" /\ i = cb.track /\ cb.left # NumSamples(i) - cursor[i]

\* The tracks lie within the bound, above frame low.
SpreadFrom(low) ==
    \A i \in Tracks : Counts(i) =>
        /\ low - Lack <= Due(i) - Owed(i)
        /\ Due(i) <= low + (Meets + 1) * Burst
        /\ Stale(i) => low <= Heard(i)
Spread == \E low \in Int : SpreadFrom(low)

\* While a handler moves tracks, those it has moved lie between its position and
\* the bursts of the callbacks that its loop has met.
Moving == Looping /\ op.at \in {"play", "seek"}
Moved == \A i \in Tracks : i < op.track /\ Counts(i) =>
            /\ FrameAt(op.arg) <= Heard(i)
            /\ Due(i) <= FrameAt(op.arg) + (op.met + 1) * Burst

\* Those that a pitch adjustment has moved lie at one frame.
Level == \E r \in Int :
            /\ cb.at = "note" \/ cb.track # Last => cb.ref = r
            /\ \A i \in Tracks :
                  (i < cb.track \/ (i = cb.track /\ cb.at = "apply")) /\ Counts(i)
                    => Heard(i) = FrameAt(r)

\* Strengthening that makes SkewBounded inductive.
SkewInv ==
    /\ TypeInv
    /\ cb.at = "idle" => cb.track = 0
    /\ op.at = "none" => op.track = 0
    /\ \/ torn
       \/ /\ Moving /\ ~Adjusting => Moved
          /\ ~Moving /\ ~Adjusting => Spread
          /\ Adjusting /\ Looping => cb.at = "note"
          /\ Adjusting /\ ~Looping => Level

LEMMA SkewTypes ==
    ASSUME TypeOK, NEW i \in Tracks
    PROVE  /\ Heard(i) \in Int /\ Due(i) \in Int /\ Owed(i) \in Nat
           /\ Heard(i) <= Due(i) /\ Due(i) <= Heard(i) + Burst
           /\ Owed(i) <= Lack
<1>1. /\ Heard(i) \in Int /\ Owed(i) \in Nat /\ Burst \in Nat /\ Reserve \in Nat
      /\ Setting(i) \in Pitches \X Tempos /\ Need[Setting(i)] \in Nat /\ inside[i] \in Nat
    BY HeardTypes, Constants
<1>2. Due(i) \in Int /\ Heard(i) <= Due(i) /\ Due(i) <= Heard(i) + Burst
    BY <1>1 DEF Due
<1>3. Owed(i) <= Lack
  <2>1. Need[Setting(i)] <= Reserve + 1 + Lack
    <3>1. PICK p \in Pitches, t \in Tempos : Setting(i) = <<p, t>>
        BY <1>1
    <3> QED BY <3>1, PlaybackAssumption
  <2> QED BY <1>1, <2>1, Constants DEF Owed
<1> QED BY <1>1, <1>2, <1>3

LEMMA SkewTypesNext ==
    ASSUME Steady, TypeOK'
    PROVE  \A i \in Tracks :
              /\ Heard(i)' \in Int /\ Due(i)' \in Int /\ Owed(i)' \in Nat
              /\ Heard(i)' <= Due(i)' /\ Due(i)' <= Heard(i)' + Burst
              /\ Owed(i)' <= Lack
<1> Lack \in Nat
    BY Constants
<1> SUFFICES ASSUME NEW i \in Tracks
             PROVE  /\ Heard(i)' \in Int /\ Due(i)' \in Int /\ Owed(i)' \in Nat
                    /\ Heard(i)' <= Due(i)' /\ Due(i)' <= Heard(i)' + Burst
                    /\ Owed(i)' <= Lack
    OBVIOUS
<1> DEFINE s == Setting(i)
<1>1. inside'[i] \in Nat /\ ready'[i] \in Nat /\ cursor'[i] \in Nat /\ Channels[i] \in {1, 2}
    BY Constants DEF TypeOK
<1>2. FramesOf(i)' \in Nat
    BY <1>1 DEF FramesOf
<1>3. s' \in Pitches \X Tempos
    BY DEF Setting, TypeOK
<1>4. Need[s'] \in Nat \ {0} /\ Need[s'] <= Reserve + 1 + Lack
  <2>1. PICK p \in Pitches, t \in Tempos : s' = <<p, t>>
      BY <1>3
  <2> QED BY <1>3, <2>1, PlaybackAssumption DEF Steady
<1>5. Owed(i)' = IF Need[s'] - (Reserve + 1 + inside'[i]) > 0
                 THEN Need[s'] - (Reserve + 1 + inside'[i]) ELSE 0
    BY DEF Owed
<1>6. Burst \in Nat /\ Reserve \in Nat
    BY Constants
<1>7. Heard(i)' = FramesOf(i)' - inside'[i] - ready'[i]
    BY DEF Heard
<1>8. Due(i)' = IF Pending(i)' THEN Heard(i)' + Burst ELSE Heard(i)'
    BY DEF Due
<1> HIDE DEF s
<1> QED BY <1>1, <1>2, <1>4, <1>5, <1>6, <1>7, <1>8

\* A track that a step leaves alone.
LEMMA TrackKept ==
    ASSUME NEW i \in Tracks, cursor'[i] = cursor[i], playing'[i] = playing[i],
           inside'[i] = inside[i], ready'[i] = ready[i]
    PROVE  /\ Heard(i)' = Heard(i) /\ (Counts(i)' <=> Counts(i))
           /\ applied'[i] = applied[i] /\ tempo'[i] = tempo[i] => Owed(i)' = Owed(i)
BY DEF Heard, FramesOf, Counts, Midway, Owed, Setting

\* A step that leaves the tracks, and the places of the callback and the handler, alone.
LEMMA SkewKept ==
    ASSUME SkewInv, TypeInv',
           UNCHANGED <<cursor, playing, inside, ready, applied, tempo, torn>>,
           cb'.at = cb.at, cb'.track = cb.track, cb'.ref = cb.ref, cb'.left = cb.left,
           op'.track = op.track, op.track > 0 => op' = op,
           op'.at = "none" => op.at = "none"
    PROVE  SkewInv'
<1> Lack \in Nat
    BY Constants
<1>1. \A i \in Tracks : /\ Heard(i)' = Heard(i) /\ (Counts(i)' <=> Counts(i))
                        /\ Owed(i)' = Owed(i)
    BY TrackKept
<1>2. /\ Adjusting' <=> Adjusting
      /\ Looping' <=> Looping
      /\ Moving' <=> Moving
    BY DEF Adjusting, Looping, Moving
<1>3. \A i \in Tracks : Due(i)' = Due(i) /\ (Stale(i)' <=> Stale(i))
    BY <1>1, <1>2 DEF Due, Pending, Stale, NumSamples
<1>4. Moving /\ Moved => Moved'
    BY <1>1, <1>3 DEF Moving, Moved, Looping
<1>5. \A low \in Int : SpreadFrom(low) => SpreadFrom(low)'
    BY <1>1, <1>3 DEF SpreadFrom
<1>6. Spread => Spread'
    BY <1>5 DEF Spread
<1>7. Level => Level'
    BY <1>1 DEF Level
<1> QED BY <1>2, <1>4, <1>6, <1>7 DEF SkewInv

\* The room for one more callback.
LEMMA Room ==
    ASSUME NEW m \in 0 .. Meets
    PROVE  /\ (m + 1) * Burst \in Nat /\ (Meets + 1) * Burst \in Nat
           /\ (m + 1) * Burst <= (Meets + 1) * Burst
           /\ Burst <= (m + 1) * Burst
           /\ (m + 1 + 1) * Burst = (m + 1) * Burst + Burst
<1>1. Meets \in Nat /\ Burst \in Nat /\ m \in Nat
    BY Constants
<1>2. PICK e \in Nat : Meets = m + e
  <2>1. Meets - m \in Nat /\ Meets = m + (Meets - m)
      BY <1>1
  <2> QED BY <2>1
<1>3. m * Burst \in Nat /\ e * Burst \in Nat
    BY <1>1, <1>2
<1>4. /\ (m + 1) * Burst = m * Burst + Burst
      /\ (m + 1 + 1) * Burst = m * Burst + Burst + Burst
      /\ (Meets + 1) * Burst = m * Burst + e * Burst + Burst
    BY <1>1, <1>2
<1> QED BY <1>1, <1>3, <1>4

\* A callback begins: it will move all tracks by a burst, or level them.
LEMMA SkewStart ==
    ASSUME Steady, SkewInv, CallbackStart
    PROVE  SkewInv'
<1> Lack \in Nat
    BY Constants
<1>1. /\ TypeOK /\ cb \in Callbacks /\ op \in Handlers /\ cb.at = "idle" /\ cb.track = 0
      /\ op.met \in 0 .. Meets /\ op.track \in Nat /\ Burst \in Nat
    BY TypesOfRecords, Constants DEF SkewInv, TypeInv, CallbackStart, Handlers, Tracks
<1>2. TypeInv'
    BY TypeStep DEF SkewInv, Next, CallbackStep
<1>3. UNCHANGED <<cursor, playing, inside, ready, applied, tempo, torn>>
    BY DEF CallbackStart, tracks, pitches
<1>4. \A i \in Tracks : /\ Heard(i)' = Heard(i) /\ (Counts(i)' <=> Counts(i))
                        /\ Owed(i)' = Owed(i)
    BY <1>3, TrackKept
<1>5. /\ cb'.track = 0 /\ cb'.at \in {"note", "read"}
      /\ op'.track = op.track /\ op'.at = op.at /\ op'.arg = op.arg
      /\ Looping => op'.met = op.met + 1
    BY <1>1 DEF CallbackStart, Callbacks, Handlers
<1>6. ~Adjusting /\ (Looping' <=> Looping) /\ (Moving' <=> Moving)
    BY <1>1, <1>5 DEF Adjusting, Looping, Moving
<1>7. CASE cb'.at = "note"
  <2>1. \A i \in Tracks : ~(i < cb'.track \/ (i = cb'.track /\ cb'.at = "apply"))
      BY <1>5, <1>7 DEF Tracks
  <2>2. cb'.ref \in Int
      BY <1>2 DEF TypeInv, TypeOK
  <2>3. Level'
      BY <2>1, <2>2 DEF Level
  <2> QED BY <1>2, <1>3, <1>5, <1>7, <2>3 DEF SkewInv, Adjusting
<1>8. CASE cb'.at = "read"
  <2>1. \A i \in Tracks : Due(i) = Heard(i) /\ Due(i)' = Heard(i) + Burst /\ ~Stale(i)'
      BY <1>1, <1>4, <1>5, <1>6, <1>8 DEF Due, Pending, Stale, Adjusting, Tracks
  <2>2. \A i \in Tracks : Heard(i) \in Int /\ Owed(i) \in Nat
      BY <1>1, SkewTypes
  <2>3. Moving /\ Moved => Moved'
    <3> SUFFICES ASSUME Moving, Moved, NEW i \in Tracks, i < op'.track, Counts(i)'
                 PROVE  /\ FrameAt(op'.arg) <= Heard(i)'
                        /\ Due(i)' <= FrameAt(op'.arg) + (op'.met + 1) * Burst
        BY DEF Moved, Base
    <3>1. /\ FrameAt(op.arg) <= Heard(i)
          /\ Heard(i) <= FrameAt(op.arg) + (op.met + 1) * Burst
        BY <1>4, <1>5, <2>1 DEF Moved
    <3>2. op'.met + 1 = op.met + 1 + 1
        BY <1>5 DEF Moving
    <3>3. FrameAt(op.arg) \in Int
        BY <1>1 DEF FrameAt, Handlers
    <3>4. Heard(i) + Burst <= FrameAt(op.arg) + (op'.met + 1) * Burst
        BY <1>1, <2>2, <3>1, <3>2, <3>3, Room
    <3> QED BY <1>4, <1>5, <2>1, <3>1, <3>4
  <2>4. ASSUME NEW low \in Int, SpreadFrom(low) PROVE SpreadFrom(low + Burst)'
    <3> SUFFICES ASSUME NEW i \in Tracks, Counts(i)'
                 PROVE  /\ (low + Burst) - Lack <= Due(i)' - Owed(i)'
                        /\ Due(i)' <= (low + Burst) + (Meets + 1) * Burst
        BY <2>1 DEF SpreadFrom
    <3>1. /\ low - Lack <= Heard(i) - Owed(i)
          /\ Heard(i) <= low + (Meets + 1) * Burst
        BY <1>4, <2>1, <2>4 DEF SpreadFrom
    <3>2. (Meets + 1) * Burst \in Nat
        BY <1>1, Room
    <3> QED BY <1>1, <1>4, <2>1, <2>2, <3>1, <3>2
  <2>5. Spread => Spread'
    <3> SUFFICES ASSUME NEW low \in Int, SpreadFrom(low) PROVE Spread'
        BY DEF Spread
    <3>1. low + Burst \in Int
        BY <1>1
    <3> QED BY <2>4, <3>1 DEF Spread
  <2>6. ~Adjusting'
      BY <1>8 DEF Adjusting
  <2> QED BY <1>2, <1>3, <1>5, <1>6, <1>8, <2>3, <2>5, <2>6 DEF SkewInv
<1> QED BY <1>5, <1>7, <1>8

\* While it reads and mixes, a callback changes neither the handler nor the pitch.
LEMMA MixFacts ==
    ASSUME SkewInv, ReadCursor \/ MixTrack
    PROVE  /\ TypeOK /\ cb \in Callbacks /\ cb.track \in Tracks /\ cb.at \in {"read", "mix"}
           /\ TypeInv' /\ UNCHANGED <<applied, tempo, op, torn>>
           /\ cb'.at \in {"idle", "read", "mix"} /\ (cb'.at = "idle" => cb'.track = 0)
           /\ ~Adjusting /\ ~Adjusting'
           /\ (Looping' <=> Looping) /\ (Moving' <=> Moving)
<1> Lack \in Nat
    BY Constants
<1>1. TypeOK /\ cb \in Callbacks /\ cb.track \in Tracks /\ cb.at \in {"read", "mix"}
    BY TypesOfRecords DEF SkewInv, TypeInv, Callbacks, ReadCursor, MixTrack
<1>2. TypeInv' /\ UNCHANGED <<applied, tempo, op, torn>>
    BY TypeStep DEF SkewInv, Next, CallbackStep, ReadCursor, MixTrack, pitches, histories
<1>3. cb'.at \in {"idle", "read", "mix"} /\ (cb'.at = "idle" => cb'.track = 0)
  <2>1. CASE ReadCursor
      BY <1>1, <2>1 DEF ReadCursor, NextTrack, Callbacks
  <2>2. CASE MixTrack
      BY <1>1, <2>2 DEF MixTrack, NextTrack, Callbacks
  <2> QED BY <2>1, <2>2
<1> QED BY <1>1, <1>2, <1>3 DEF Adjusting, Looping, Moving

\* A cursor is read, or a track that does not play is passed over.
LEMMA SkewRead ==
    ASSUME Steady, SkewInv, ReadCursor
    PROVE  SkewInv'
<1> Lack \in Nat
    BY Constants
<1> DEFINE k == cb.track
<1>1. /\ TypeOK /\ cb \in Callbacks /\ k \in Tracks /\ cb.at = "read"
      /\ TypeInv' /\ UNCHANGED <<applied, tempo, op, torn>>
      /\ cb'.at \in {"idle", "read", "mix"} /\ (cb'.at = "idle" => cb'.track = 0)
      /\ ~Adjusting /\ ~Adjusting'
      /\ (Looping' <=> Looping) /\ (Moving' <=> Moving)
    BY MixFacts DEF ReadCursor
<1>2. UNCHANGED <<cursor, playing, inside, ready>>
    BY DEF ReadCursor, tracks
<1>3. \A i \in Tracks : /\ Heard(i)' = Heard(i) /\ (Counts(i)' <=> Counts(i))
                        /\ Owed(i)' = Owed(i)
    BY <1>1, <1>2, TrackKept
<1>4. ASSUME NEW i \in Tracks, Counts(i) PROVE Due(i)' = Due(i) /\ ~Stale(i)'
  <2>1. CASE playing[k]
    <3>1. cb'.at = "mix" /\ cb'.track = k /\ cb'.left = NumSamples(k) - cursor[k]
        BY <1>1, <2>1 DEF ReadCursor, Callbacks
    <3>2. Pending(i)' <=> Pending(i)
        BY <1>1, <3>1 DEF Pending
    <3> QED BY <1>2, <1>3, <3>1, <3>2 DEF Due, Stale, NumSamples
  <2>2. CASE ~playing[k]
    <3>1. i # k
        BY <1>4, <2>2 DEF Counts
    <3>2. /\ cb'.at = IF k = Last THEN "idle" ELSE "read"
          /\ cb'.track = IF k = Last THEN 0 ELSE k + 1
        BY <1>1, <2>2 DEF ReadCursor, NextTrack, Callbacks
    <3>3. i \in Nat /\ k \in Nat /\ Last \in Nat /\ i <= Last
      <4>1. NumTracks \in Nat \ {0}
          BY PlaybackAssumption
      <4> QED BY <1>1, <4>1 DEF Tracks, Last
    <3>4. Pending(i)' <=> Pending(i)
        BY <1>1, <3>1, <3>2, <3>3 DEF Pending
    <3> QED BY <1>3, <3>2, <3>4 DEF Due, Stale
  <2> QED BY <2>1, <2>2
<1>5. Moved => Moved'
    BY <1>1, <1>3, <1>4 DEF Moved, Base
<1>6. \A low \in Int : SpreadFrom(low) => SpreadFrom(low)'
    BY <1>3, <1>4 DEF SpreadFrom
<1>7. Spread => Spread'
    BY <1>6 DEF Spread
<1> QED BY <1>1, <1>5, <1>7 DEF SkewInv

\* A track is mixed, perhaps with a count that is out of date.
LEMMA SkewMix ==
    ASSUME Steady, SkewInv, MixTrack
    PROVE  SkewInv'
<1> Lack \in Nat
    BY Constants
<1>0. TypeOK /\ cb \in Callbacks /\ cb.track \in Tracks /\ cb.left \in Int
    BY MixFacts DEF Callbacks
<1>. PICK k \in Tracks, left \in Int : k = cb.track /\ left = cb.left
    BY <1>0
<1>1. /\ cb.at = "mix"
      /\ TypeInv' /\ TypeOK' /\ UNCHANGED <<applied, tempo, op, torn>>
      /\ cb'.at \in {"idle", "read", "mix"} /\ (cb'.at = "idle" => cb'.track = 0)
      /\ ~Adjusting /\ ~Adjusting'
      /\ (Looping' <=> Looping) /\ (Moving' <=> Moving)
    BY MixFacts DEF MixTrack, TypeInv
<1>2. /\ cb'.at = IF k = Last THEN "idle" ELSE "read"
      /\ cb'.track = IF k = Last THEN 0 ELSE k + 1
    BY <1>0, <1>1 DEF MixTrack, NextTrack, Callbacks
<1>3. /\ \A i \in Tracks : i \in Nat /\ i <= Last
      /\ k \in Nat /\ Last \in Nat
  <2>1. NumTracks \in Nat \ {0}
      BY PlaybackAssumption
  <2> QED BY <2>1 DEF Tracks, Last
<1>4. MixAudio(k, left)
    BY DEF MixTrack
<1>5. ASSUME NEW i \in Tracks, i # k
      PROVE  /\ Heard(i)' = Heard(i) /\ (Counts(i)' <=> Counts(i)) /\ Owed(i)' = Owed(i)
             /\ Due(i)' = Due(i) /\ ~Stale(i)'
  <2>1. /\ cursor'[i] = cursor[i] /\ playing'[i] = playing[i]
        /\ inside'[i] = inside[i] /\ ready'[i] = ready[i]
      BY <1>0, <1>4, <1>5 DEF MixAudio, tracks, TypeOK
  <2>2. Pending(i)' <=> Pending(i)
      BY <1>1, <1>2, <1>3, <1>5 DEF Pending
  <2>3. ~Stale(i)'
      BY <1>2 DEF Stale
  <2> QED BY <1>1, <2>1, <2>2, <2>3, TrackKept DEF Due
<1>6. /\ \A i \in Tracks : /\ Heard(i) \in Int /\ Due(i) \in Int /\ Owed(i) \in Nat
                           /\ Heard(i)' \in Int /\ Due(i)' \in Int /\ Owed(i)' \in Nat
                           /\ Owed(i)' <= Lack
    BY <1>0, <1>1, SkewTypes, SkewTypesNext
<1>7. ASSUME Counts(k)'
      PROVE  /\ Counts(k) /\ Heard(k) <= Heard(k)' /\ Due(k)' = Heard(k)' /\ ~Stale(k)'
             /\ Due(k)' <= Due(k) /\ Due(k) = Heard(k) + Burst
             /\ ~Stale(k) => Due(k) - Owed(k) <= Due(k)' - Owed(k)'
  <2>1. playing'[k] /\ Midway(k)'
      BY <1>7 DEF Counts
  <2>2. /\ playing[k] /\ Midway(k)
        /\ Heard(k) <= Heard(k)' /\ Heard(k)' <= Heard(k) + Burst
        /\ left = NumSamples(k) - cursor[k]
             => Heard(k) + Burst - Owed(k) <= Heard(k)' - Owed(k)'
      BY <1>0, <1>1, <1>4, <2>1, MixHeard
  <2>3. Pending(k) /\ ~Pending(k)' /\ ~Stale(k)'
      BY <1>1, <1>2, <1>3 DEF Pending, Stale
  <2>4. Due(k) = Heard(k) + Burst /\ Due(k)' = Heard(k)'
      BY <2>3 DEF Due
  <2>5. ~Stale(k) => left = NumSamples(k) - cursor[k]
      BY <1>1 DEF Stale
  <2> QED BY <1>6, <2>2, <2>3, <2>4, <2>5, Constants DEF Counts
<1>8. Moved => Moved'
  <2> SUFFICES ASSUME Moved, NEW i \in Tracks, i < op.track, Counts(i)'
               PROVE  /\ FrameAt(op.arg) <= Heard(i)'
                      /\ Due(i)' <= FrameAt(op.arg) + (op.met + 1) * Burst
      BY <1>1 DEF Moved, Base
  <2>1. Counts(i) /\ Heard(i) <= Heard(i)' /\ Due(i)' <= Due(i)
      BY <1>5, <1>7, <1>6
  <2>2. /\ FrameAt(op.arg) <= Heard(i)
        /\ Due(i) <= FrameAt(op.arg) + (op.met + 1) * Burst
      BY <2>1 DEF Moved
  <2>3. op.met \in 0 .. Meets /\ FrameAt(op.arg) \in Int
      BY <1>0 DEF FrameAt, TypeOK
  <2>4. (op.met + 1) * Burst \in Nat
      BY <2>3, Room
  <2> QED BY <1>6, <2>1, <2>2, <2>3, <2>4
<1>9. ASSUME NEW low \in Int, SpreadFrom(low) PROVE SpreadFrom(low)'
  <2> SUFFICES ASSUME NEW i \in Tracks, Counts(i)'
               PROVE  /\ low - Lack <= Due(i)' - Owed(i)'
                      /\ Due(i)' <= low + (Meets + 1) * Burst
                      /\ Stale(i)' => low <= Heard(i)'
      BY DEF SpreadFrom
  <2>1. Counts(i) /\ Due(i)' <= Due(i) /\ ~Stale(i)'
      BY <1>5, <1>7, <1>6
  <2>2. /\ low - Lack <= Due(i) - Owed(i)
        /\ Due(i) <= low + (Meets + 1) * Burst
        /\ Stale(i) => low <= Heard(i)
      BY <1>9, <2>1 DEF SpreadFrom
  <2>3. Meets \in 0 .. Meets
      BY Constants
  <2>4. (Meets + 1) * Burst \in Nat
      BY <2>3, Room
  <2>5. Due(i)' <= low + (Meets + 1) * Burst
      BY <1>6, <2>1, <2>2, <2>4
  <2>6. low - Lack <= Due(i)' - Owed(i)'
    <3>1. CASE i # k
        BY <1>5, <2>2, <3>1
    <3>2. CASE i = k /\ ~Stale(k)
        BY <1>7, <1>6, <2>2, <3>2
    <3>3. CASE i = k /\ Stale(k)
      <4>1. low <= Due(i)'
          BY <1>7, <1>6, <2>2, <3>3
      <4> QED BY <1>6, <4>1
    <3> QED BY <3>1, <3>2, <3>3
  <2> QED BY <2>1, <2>5, <2>6
<1>10. Spread => Spread'
    BY <1>9 DEF Spread
<1> QED BY <1>1, <1>8, <1>10 DEF SkewInv

\* A track that is put midway is heard from the frame it is put at.
LEMMA PutHeard ==
    ASSUME Steady, NEW k \in Tracks, NEW index \in Int,
           \/ cursor'[k] = Within(k, ForChannels(k, index))
           \/ cursor'[k] = ForChannels(k, index) /\ index >= 0,
           inside'[k] = 0, ready'[k] = 0, Midway(k)'
    PROVE  Heard(k)' = FrameAt(index)
<1> Lack \in Nat
    BY Constants
<1> DEFINE c == cursor'[k]
           ch == Channels[k]
           F == Frames[k]
<1>1. /\ ch \in {1, 2} /\ F \in Nat \ {0} /\ Reserve \in Nat /\ Reserve >= 1
      /\ NumSamples(k) = F * ch
    BY Constants DEF Steady, NumSamples
<1>2. (c \div ch) + Reserve < F
    BY DEF Midway, FramesOf
<1>3. \/ c = IF ForChannels(k, index) < 0 THEN 0
             ELSE Lesser(ForChannels(k, index), F * ch - 1)
      \/ c = ForChannels(k, index) /\ index >= 0
    BY <1>1 DEF Within
<1>4. c \div ch = FrameAt(index)
  <2> HIDE DEF c, F
  <2>1. CASE ch = 1
    <3>1. ForChannels(k, index) = index \div 2
        BY <2>1 DEF ForChannels
    <3> QED BY <1>1, <1>2, <1>3, <2>1, <3>1 DEF FrameAt, Lesser
  <2>2. CASE ch = 2
    <3>1. ForChannels(k, index) = index
        BY <2>2 DEF ForChannels
    <3>2. F * ch = 2 * F
        BY <1>1, <2>2
    <3> QED BY <1>1, <1>2, <1>3, <2>2, <3>1, <3>2 DEF FrameAt, Lesser
  <2> QED BY <1>1, <2>1, <2>2
<1>5. Heard(k)' = (c \div ch) - 0 - 0
    BY DEF Heard, FramesOf
<1>6. FrameAt(index) \in Int
    BY DEF FrameAt
<1> QED BY <1>4, <1>5, <1>6

\* A pitch adjustment puts a track at the frame of the tracks before it.
LEMMA SkewNote ==
    ASSUME Steady, SkewInv, NotePitch
    PROVE  SkewInv'
<1> Lack \in Nat
    BY Constants
<1>0. /\ TypeOK /\ cb \in Callbacks /\ cb.track \in Tracks /\ cb.ref \in Int /\ cb.at = "note"
    BY TypesOfRecords DEF SkewInv, TypeInv, NotePitch, Callbacks
<1>. PICK k \in Tracks, index \in Int : k = cb.track /\ index = cb.ref
    BY <1>0
<1>1. /\ cb'.at = "apply" /\ cb'.track = k /\ cb'.ref = ForChannels(k, index)
      /\ op' = op /\ torn' = (torn \/ Looping) /\ playing' = playing
    BY <1>0 DEF NotePitch, Callbacks
<1>2. TypeInv'
    BY TypeStep DEF SkewInv, Next, CallbackStep
<1>3. Adjusting /\ Adjusting' /\ (Looping' <=> Looping)
    BY <1>0, <1>1 DEF Adjusting, Looping
<1>4. SetCurrentSampleIndex(k, ForChannels(k, index))
    BY DEF NotePitch
<1>5. /\ cursor' = [cursor EXCEPT ![k] = Within(k, ForChannels(k, index))]
      /\ inside' = [inside EXCEPT ![k] = 0] /\ ready' = [ready EXCEPT ![k] = 0]
    BY <1>4 DEF SetCurrentSampleIndex, ClearPipe, Within
<1>6. CASE torn'
    BY <1>1, <1>2, <1>6 DEF SkewInv
<1>7. CASE ~torn'
  <2>1. ~torn /\ ~Looping /\ Level
      BY <1>1, <1>3, <1>7 DEF SkewInv
  <2>2. \A i \in Tracks : i < k /\ Counts(i) => Heard(i) = FrameAt(index)
      BY <1>0, <2>1 DEF Level
  <2>3. ASSUME NEW i \in Tracks, i < k \/ i = k, Counts(i)' PROVE Heard(i)' = FrameAt(index)
    <3>1. CASE i = k
      <4>1. /\ cursor'[k] = Within(k, ForChannels(k, index))
            /\ inside'[k] = 0 /\ ready'[k] = 0
          BY <1>0, <1>5 DEF TypeOK
      <4>2. Midway(k)'
          BY <2>3, <3>1 DEF Counts
      <4> QED BY <3>1, <4>1, <4>2, PutHeard
    <3>2. CASE i # k /\ i < k
      <4>1. /\ cursor'[i] = cursor[i] /\ playing'[i] = playing[i]
            /\ inside'[i] = inside[i] /\ ready'[i] = ready[i]
          BY <1>0, <1>1, <1>5, <3>2 DEF TypeOK
      <4> QED BY <2>2, <2>3, <3>2, <4>1, TrackKept
    <3> QED BY <2>3, <3>1, <3>2
  <2>4. k # Last => cb'.ref = index
      BY <1>1 DEF Steady, OneMono, ForChannels
  <2>5. Level'
      BY <1>1, <2>3, <2>4 DEF Level, Base
  <2> QED BY <1>1, <1>2, <1>3, <2>1, <2>5 DEF SkewInv
<1> QED BY <1>6, <1>7

\* Past the last track the adjustment leaves all tracks level.
LEMMA SkewApply ==
    ASSUME Steady, SkewInv, ApplyPitch
    PROVE  SkewInv'
<1> Lack \in Nat
    BY Constants
<1>0. /\ TypeOK /\ cb \in Callbacks /\ cb.track \in Tracks /\ cb.at = "apply"
    BY TypesOfRecords DEF SkewInv, TypeInv, ApplyPitch, Callbacks
<1>. PICK k \in Tracks : k = cb.track
    BY <1>0
<1>1. /\ cb'.at = IF k = Last THEN "read" ELSE "note"
      /\ cb'.track = IF k = Last THEN 0 ELSE k + 1
      /\ k # Last => cb'.ref = cb.ref
      /\ UNCHANGED <<cursor, playing, inside, ready, op, torn>>
    BY <1>0 DEF ApplyPitch, Callbacks, tracks, histories
<1>2. TypeInv' /\ TypeOK'
    BY TypeStep DEF SkewInv, Next, CallbackStep, TypeInv
<1>3. Adjusting /\ (Looping' <=> Looping) /\ (Adjusting' <=> k # Last)
    BY <1>0, <1>1 DEF Adjusting, Looping
<1>4. \A i \in Tracks : Heard(i)' = Heard(i) /\ (Counts(i)' <=> Counts(i))
    BY <1>1, TrackKept
<1>5. \A i \in Tracks : i \in Nat /\ i <= Last /\ 0 <= i
  <2>1. NumTracks \in Nat \ {0}
      BY PlaybackAssumption
  <2> QED BY <2>1 DEF Tracks, Last
<1>6. CASE torn
    BY <1>1, <1>2, <1>6 DEF SkewInv
<1>7. CASE ~torn
  <2>1. ~Looping /\ Level
      BY <1>0, <1>3, <1>7 DEF SkewInv
  <2>2. PICK r \in Int : /\ k # Last => cb.ref = r
                         /\ \A i \in Tracks : i <= k /\ Counts(i) => Heard(i) = FrameAt(r)
      BY <1>0, <1>5, <2>1 DEF Level
  <2>3. CASE k # Last
    <3>1. Level'
        BY <1>1, <1>4, <1>5, <2>2, <2>3 DEF Level, Base
    <3> QED BY <1>1, <1>2, <1>3, <2>1, <2>3, <3>1 DEF SkewInv
  <2>4. CASE k = Last
    <3>1. ASSUME NEW i \in Tracks, Counts(i)'
          PROVE  /\ (FrameAt(r) + Burst) - Lack <= Due(i)' - Owed(i)'
                 /\ Due(i)' <= (FrameAt(r) + Burst) + (Meets + 1) * Burst
                 /\ ~Stale(i)'
      <4>1. Heard(i)' = FrameAt(r)
          BY <1>4, <1>5, <2>2, <2>4, <3>1
      <4>2. Pending(i)'
          BY <1>1, <1>5, <2>4 DEF Pending
      <4>3. Due(i)' = FrameAt(r) + Burst
          BY <4>1, <4>2 DEF Due
      <4>4. Owed(i)' \in Nat /\ Owed(i)' <= Lack
          BY <1>2, SkewTypesNext
      <4>5. Meets \in 0 .. Meets /\ Burst \in Nat
          BY Constants
      <4>6. (Meets + 1) * Burst \in Nat /\ FrameAt(r) \in Int
          BY <4>5, Room DEF FrameAt
      <4>7. ~Stale(i)'
          BY <1>1, <2>4 DEF Stale
      <4> QED BY <4>3, <4>4, <4>5, <4>6, <4>7
    <3>2. FrameAt(r) + Burst \in Int
        BY Constants DEF FrameAt
    <3>3. Spread'
        BY <3>1, <3>2 DEF Spread, SpreadFrom
    <3>4. ~Moving'
        BY <1>3, <2>1 DEF Moving
    <3> QED BY <1>1, <1>2, <1>3, <2>4, <3>3, <3>4 DEF SkewInv
  <2> QED BY <2>3, <2>4
<1> QED BY <1>6, <1>7

\* A handler moves a track, or stops it, or changes no tempo.
LEMMA SkewHandler ==
    ASSUME Steady, SkewInv, HandlerStep
    PROVE  SkewInv'
<1> Lack \in Nat
    BY Constants
<1>0. /\ TypeOK /\ op \in Handlers /\ op.track \in Tracks /\ op.arg \in Nat
      /\ op.met \in 0 .. Meets /\ op.at # "none" /\ (op.at = "tempo" => op.arg \in Tempos)
    BY TypesOfRecords DEF SkewInv, TypeInv, HandlerStep, Handlers
<1>. PICK k \in Tracks, arg \in Nat, met \in 0 .. Meets :
         k = op.track /\ arg = op.arg /\ met = op.met
    BY <1>0
<1>1. /\ k = Last => op'.at = "none" /\ op'.track = 0
      /\ k # Last => op'.at = op.at /\ op'.track = k + 1 /\ op'.arg = arg /\ op'.met = met
      /\ torn' = (torn \/ Adjusting) /\ UNCHANGED <<pitch, noted, applied, cb>>
    BY <1>0 DEF HandlerStep, Handlers, pitches
<1>2. TypeInv' /\ TypeOK'
    BY TypeStep DEF SkewInv, Next, TypeInv
<1>3. \A i \in Tracks : i \in Nat /\ i <= Last /\ 0 <= i
  <2>1. NumTracks \in Nat \ {0}
      BY PlaybackAssumption
  <2> QED BY <2>1 DEF Tracks, Last
<1>4. /\ Adjusting' <=> Adjusting
      /\ Looping' <=> k # Last
      /\ Looping <=> k > 0
    BY <1>1, <1>3 DEF Adjusting, Looping
<1>5. ASSUME NEW i \in Tracks, cursor'[i] = cursor[i], playing'[i] = playing[i],
             inside'[i] = inside[i], ready'[i] = ready[i]
      PROVE  /\ Heard(i)' = Heard(i) /\ (Counts(i)' <=> Counts(i))
             /\ Due(i)' = Due(i) /\ (Stale(i)' <=> Stale(i))
  <2>1. Heard(i)' = Heard(i) /\ (Counts(i)' <=> Counts(i))
      BY <1>5, TrackKept
  <2>2. Pending(i)' <=> Pending(i)
      BY <1>1, <1>4 DEF Pending
  <2>3. Stale(i)' <=> Stale(i)
      BY <1>1, <1>5 DEF Stale, NumSamples
  <2> QED BY <2>1, <2>2, <2>3 DEF Due
<1>6. \A i \in Tracks : /\ Heard(i)' \in Int /\ Due(i)' \in Int /\ Owed(i)' \in Nat
                        /\ Heard(i)' <= Due(i)' /\ Due(i)' <= Heard(i)' + Burst
                        /\ Owed(i)' <= Lack
    BY <1>2, SkewTypesNext
<1>7. CASE torn'
    BY <1>0, <1>1, <1>2, <1>7 DEF SkewInv
<1>8. CASE ~torn' /\ op.at \in {"stop", "tempo"}
  <2>1. ~torn /\ ~Adjusting /\ Spread /\ ~Moving'
      BY <1>1, <1>4, <1>8 DEF SkewInv, Moving
  <2>2. tempo' = tempo
    <3>1. CASE op.at = "stop"
        BY <3>1 DEF HandlerStep
    <3>2. CASE op.at = "tempo"
      <4>1. tempo' = [tempo EXCEPT ![k] = arg]
          BY <3>2 DEF HandlerStep
      <4>2. arg = Unit /\ tempo[k] = Unit /\ tempo \in [Tracks -> Tempos]
          BY <1>0, <3>2 DEF Steady, TypeOK
      <4> QED BY <4>1, <4>2
    <3> QED BY <1>8, <3>1, <3>2
  <2>3. ASSUME NEW i \in Tracks, Counts(i)'
        PROVE  /\ cursor'[i] = cursor[i] /\ playing'[i] = playing[i]
               /\ inside'[i] = inside[i] /\ ready'[i] = ready[i]
    <3>1. CASE op.at = "stop"
      <4>1. SetStopMode(k)
          BY <3>1 DEF HandlerStep
      <4>2. i # k
          BY <1>0, <2>3, <4>1 DEF SetStopMode, Counts, TypeOK
      <4> QED BY <1>0, <4>1, <4>2 DEF SetStopMode, ClearPipe, TypeOK
    <3>2. CASE op.at = "tempo"
        BY <3>2 DEF HandlerStep, tracks
    <3> QED BY <1>8, <3>1, <3>2
  <2>4. ASSUME NEW i \in Tracks, Counts(i)'
        PROVE  Counts(i) /\ Due(i)' = Due(i) /\ Owed(i)' = Owed(i) /\ Heard(i)' = Heard(i)
               /\ (Stale(i)' <=> Stale(i))
      BY <1>1, <1>5, <2>2, <2>3, <2>4, TrackKept
  <2>5. \A low \in Int : SpreadFrom(low) => SpreadFrom(low)'
      BY <2>4 DEF SpreadFrom
  <2>6. Spread'
      BY <2>1, <2>5 DEF Spread
  <2> QED BY <1>0, <1>1, <1>2, <1>4, <2>1, <2>6 DEF SkewInv
<1>9. CASE ~torn' /\ op.at \in {"play", "seek"}
  <2>1. ~torn /\ ~Adjusting
      BY <1>1, <1>9
  <2>2. k > 0 => Moved
      BY <1>4, <1>9, <2>1 DEF SkewInv, Moving
  <2>3. /\ (met + 1) * Burst \in Nat /\ (Meets + 1) * Burst \in Nat
        /\ (met + 1) * Burst <= (Meets + 1) * Burst
        /\ Burst <= (met + 1) * Burst /\ Burst \in Nat /\ FrameAt(arg) \in Int
      BY Room, Constants DEF FrameAt
  <2>4. ASSUME NEW i \in Tracks, i # k
        PROVE  /\ cursor'[i] = cursor[i] /\ playing'[i] = playing[i]
               /\ inside'[i] = inside[i] /\ ready'[i] = ready[i]
      BY <1>0, <1>9, <2>4 DEF HandlerStep, SetPlayMode, SetCurrentSampleIndex, ClearPipe, TypeOK
  <2>5. ASSUME NEW i \in Tracks, i <= k, Counts(i)'
        PROVE  FrameAt(arg) <= Heard(i)' /\ Due(i)' <= FrameAt(arg) + (met + 1) * Burst
    <3>1. CASE i = k
      <4>1. /\ \/ cursor'[k] = Within(k, ForChannels(k, arg))
               \/ cursor'[k] = ForChannels(k, arg) /\ arg >= 0
            /\ inside'[k] = 0 /\ ready'[k] = 0
          BY <1>0, <1>9 DEF HandlerStep, SetPlayMode, SetCurrentSampleIndex, ClearPipe, Within, TypeOK
      <4>2. Midway(k)'
          BY <2>5, <3>1 DEF Counts
      <4>3. Heard(k)' = FrameAt(arg)
          BY <4>1, <4>2, PutHeard
      <4> QED BY <1>6, <2>3, <3>1, <4>3
    <3>2. CASE i # k
      <4>1. i < k /\ Counts(i) /\ Heard(i)' = Heard(i) /\ Due(i)' = Due(i)
          BY <1>3, <1>5, <2>4, <2>5, <3>2
      <4>2. Moved
          BY <1>3, <2>2, <4>1
      <4> QED BY <4>1, <4>2 DEF Moved
    <3> QED BY <3>1, <3>2
  <2>6. CASE k # Last
    <3>1. Moved'
        BY <1>1, <1>3, <2>5, <2>6 DEF Moved, Base
    <3>2. Moving'
        BY <1>1, <1>4, <1>9, <2>6 DEF Moving
    <3> QED BY <1>0, <1>1, <1>2, <1>4, <2>1, <3>1, <3>2 DEF SkewInv
  <2>7. CASE k = Last
    <3>1. SpreadFrom(FrameAt(arg))'
      <4> SUFFICES ASSUME NEW i \in Tracks, Counts(i)'
                   PROVE  /\ FrameAt(arg) - Lack <= Due(i)' - Owed(i)'
                          /\ Due(i)' <= FrameAt(arg) + (Meets + 1) * Burst
                          /\ Stale(i)' => FrameAt(arg) <= Heard(i)'
          BY DEF SpreadFrom, Base
      <4>1. FrameAt(arg) <= Heard(i)' /\ Due(i)' <= FrameAt(arg) + (met + 1) * Burst
          BY <1>3, <2>5, <2>7
      <4>2. FrameAt(arg) <= Due(i)'
          BY <1>6, <2>3, <4>1
      <4> QED BY <1>6, <2>3, <4>1, <4>2
    <3>2. Spread'
        BY <2>3, <3>1 DEF Spread
    <3>3. ~Moving' /\ op'.track = 0
        BY <1>1, <1>4, <2>7 DEF Moving
    <3> QED BY <1>0, <1>1, <1>2, <1>4, <2>1, <3>2, <3>3 DEF SkewInv
  <2> QED BY <2>6, <2>7
<1> QED BY <1>0, <1>7, <1>8, <1>9 DEF Handlers

\* Nothing plays at first.
LEMMA SkewInit == ASSUME Init PROVE SkewInv
<1>1. TypeOK /\ op.at = "none" /\ op.track = 0 /\ cb.at = "idle" /\ cb.track = 0 /\ ~torn
    BY TypeInit DEF Init
<1>2. \A i \in Tracks : ~playing[i]
    BY DEF Init
<1>3. SpreadFrom(0)
    BY <1>2 DEF SpreadFrom, Counts
<1>4. Spread
    BY <1>3 DEF Spread
<1> QED BY <1>1, <1>4 DEF SkewInv, TypeInv, Moving, Adjusting, Looping

\* A button is pressed.
LEMMA SkewPress ==
    ASSUME Steady, SkewInv, Press
    PROVE  SkewInv'
<1> Lack \in Nat
    BY Constants
<1>1. cb \in Callbacks /\ op \in Handlers /\ (op.at = "none" => op.track = 0)
    BY TypesOfRecords DEF SkewInv, TypeInv
<1>2. TypeInv'
    BY TypePress DEF SkewInv
<1>3. ASSUME NEW what \in {"play", "stop", "seek", "tempo"}, NEW arg, Begin(what, arg)
      PROVE  SkewInv'
  <2>1. /\ UNCHANGED <<cursor, playing, inside, ready, applied, tempo, torn, cb>>
        /\ op.at = "none" /\ op.track = 0 /\ op' = [op EXCEPT !.at = what, !.arg = arg]
      BY <1>1, <1>3 DEF Begin, tracks, pitches, histories
  <2>2. op'.track = op.track
      BY <1>1, <2>1 DEF Handlers
  <2> QED BY <1>2, <2>1, <2>2, SkewKept
<1>4. CASE PlayPause
    BY <1>3, <1>4 DEF PlayPause
<1>5. CASE \E point \in SeekPoints : Seek(point)
    BY <1>3, <1>5 DEF Seek
<1>6. CASE \E t \in Tempos : PressTempo(t)
    BY <1>3, <1>6 DEF PressTempo
<1>7. CASE \E p \in Pitches : PressPitch(p)
  <2>1. /\ UNCHANGED <<cursor, playing, inside, ready, applied, tempo, torn, op>>
        /\ cb' = [cb EXCEPT !.pressed = cb.at # "idle"]
      BY <1>7 DEF PressPitch, tracks, histories
  <2>2. cb'.at = cb.at /\ cb'.track = cb.track /\ cb'.ref = cb.ref /\ cb'.left = cb.left
      BY <1>1, <2>1 DEF Callbacks
  <2> QED BY <1>2, <2>1, <2>2, SkewKept
<1> QED BY <1>4, <1>5, <1>6, <1>7 DEF Press

LEMMA SkewStep ==
    ASSUME Steady, SkewInv, [Next]_vars
    PROVE  SkewInv'
<1> Lack \in Nat
    BY Constants
<1>1. CASE CallbackStep
    BY <1>1, SkewStart, SkewNote, SkewApply, SkewRead, SkewMix DEF CallbackStep
<1>2. CASE HandlerStep
    BY <1>2, SkewHandler
<1>3. CASE Press
    BY <1>3, SkewPress
<1>4. CASE UNCHANGED vars
  <2>1. UNCHANGED <<cursor, playing, inside, ready, applied, tempo, torn, cb, op>>
      BY <1>4 DEF vars, tracks, pitches, histories
  <2>2. TypeInv'
      BY TypeStep DEF SkewInv
  <2> QED BY <2>1, <2>2, SkewKept
<1> QED BY <1>1, <1>2, <1>3, <1>4 DEF Next, Press

LEMMA SkewMeans ==
    ASSUME Steady, SkewInv
    PROVE  SkewBounded
<1> Lack \in Nat
    BY Constants
<1> SUFFICES ASSUME Settled, ~torn, NEW i \in Tracks, NEW j \in Tracks, Counts(i), Counts(j)
             PROVE  Heard(i) - Heard(j) <= (Meets + 1) * Burst + Lack
    BY Zenon DEF SkewBounded, Counts
<1>1. ~Moving /\ ~Adjusting /\ TypeOK
    BY DEF Settled, Moving, Looping, Adjusting, SkewInv, TypeInv
<1>2. PICK low \in Int : SpreadFrom(low)
    BY <1>1 DEF SkewInv, Spread
<1>3. \A k \in Tracks : Due(k) = Heard(k)
    BY <1>1 DEF Due, Pending, Settled
<1>4. \A k \in Tracks : Heard(k) \in Int /\ Owed(k) \in Nat
    BY <1>1, SkewTypes
<1>5. Heard(i) <= low + (Meets + 1) * Burst /\ low - Lack <= Heard(j) - Owed(j)
    BY <1>2, <1>3 DEF SpreadFrom
<1>6. Meets \in 0 .. Meets
    BY Constants
<1>7. (Meets + 1) * Burst \in Nat
    BY <1>6, Room
<1> QED BY <1>4, <1>5, <1>7

\* Whatever SoundTouch waits for at a pitch, within the reserve and so many frames beyond
\* it, however a seek or a play meets callbacks, and whichever tracks ignore the pitch,
\* no two tracks that play, midway, are heard further apart than a burst for each
\* callback that a loop can meet and those frames (onAudioReady() and
\* setCurrentTimeInSeconds(), which take no lock in common).
THEOREM SkewStaysBounded ==
    ASSUME Steady
    PROVE  Spec => []SkewBounded
<1>1. Init => SkewInv
    BY SkewInit
<1>2. SkewInv /\ [Next]_vars => SkewInv'
    BY SkewStep
<1>3. SkewInv => SkewBounded
    BY SkewMeans
<1> QED BY <1>1, <1>2, <1>3, PTL DEF Spec

=============================================================================
