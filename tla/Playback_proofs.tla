--------------------------- MODULE Playback_proofs ---------------------------
(***************************************************************************)
(* Theorems about Playback, for any number of tracks, any lengths, reserve *)
(* and burst, and whatever SoundTouch takes and gives at a setting.        *)
(***************************************************************************)
EXTENDS Playback, TLAPS

Places == {"idle", "note", "apply", "read", "mix"}
Callbacks == [at : Places, track : Tracks, ref : Int, left : Int, pressed : BOOLEAN]
Handlers == [at : {"none", "play", "stop", "seek", "tempo"}, track : Tracks,
             arg : Nat, met : 0 .. Meets]

LEMMA Constants ==
    /\ 0 \in Tracks /\ Last \in Tracks
    /\ \A i \in Tracks : i # Last => i + 1 \in Tracks
    /\ Burst \in Nat \ {0} /\ Reserve \in Nat /\ Unit \in Nat \ {0} /\ Meets \in Nat
    /\ Lack \in Nat /\ Tempos \subseteq Nat \ {0} /\ Unit \in Tempos /\ 0 \in Pitches /\ 0 \in 0 .. Meets
    /\ \A i \in Tracks : Channels[i] \in {1, 2} /\ Frames[i] \in Nat \ {0}
    /\ Channels[0] = 2 /\ SeekPoints \subseteq Nat
<1>1. /\ 0 \in Tracks /\ Last \in Tracks
      /\ \A i \in Tracks : i # Last => i + 1 \in Tracks
  <2>1. NumTracks \in Nat \ {0}
      BY PlaybackAssumption
  <2> QED BY <2>1 DEF Tracks, Last
<1>2. /\ Burst \in Nat \ {0} /\ Reserve \in Nat /\ Unit \in Nat \ {0} /\ Meets \in Nat
      /\ Lack \in Nat /\ Tempos \subseteq Nat \ {0} /\ Unit \in Tempos /\ 0 \in Pitches
      /\ Channels[0] = 2 /\ SeekPoints \subseteq Nat
    BY PlaybackAssumption
<1>3. \A i \in Tracks : Channels[i] \in {1, 2} /\ Frames[i] \in Nat \ {0}
    BY PlaybackAssumption
<1> QED BY <1>1, <1>2, <1>3

LEMMA Samples ==
    ASSUME NEW i \in Tracks
    PROVE  /\ NumSamples(i) \in Nat \ {0}
           /\ Channels[i] = 1 => NumSamples(i) = Frames[i]
           /\ Channels[i] = 2 => NumSamples(i) = 2 * Frames[i]
<1>1. Channels[i] \in {1, 2} /\ Frames[i] \in Nat \ {0}
    BY Constants
<1>2. CASE Channels[i] = 1
    BY <1>1, <1>2 DEF NumSamples
<1>3. CASE Channels[i] = 2
    BY <1>1, <1>3 DEF NumSamples
<1> QED BY <1>1, <1>2, <1>3

\* What the arithmetic of mixAudio() keeps, for a setting of SoundTouch.
LEMMA BatchesFit ==
    ASSUME NEW s \in Pitches \X Tempos, NEW n \in Nat
    PROVE  /\ Batches(s, n) \in Nat
           /\ Batches(s, n) * Takes[s] \in Nat /\ Batches(s, n) * Takes[s] <= n
           /\ Batches(s, n) * Gives[s] \in Nat
<1> DEFINE k == Takes[s]
           d == Need[s]
           g == Gives[s]
<1>1. k \in Nat \ {0} /\ d \in Nat \ {0} /\ g \in Nat /\ k <= d
  <2>1. PICK p \in Pitches, t \in Tempos : s = <<p, t>>
      OBVIOUS
  <2>2. Takes[s] <= Need[s]
      BY <2>1, PlaybackAssumption
  <2> QED BY <2>2, PlaybackAssumption
<1>2. Batches(s, n) = IF n < d THEN 0 ELSE (n - d) \div k + 1
    BY DEF Batches
<1> HIDE DEF k, d, g
<1>3. CASE n < d
  <2>1. Batches(s, n) = 0
      BY <1>2, <1>3
  <2> QED BY <1>1, <2>1 DEF k, g
<1>4. CASE n >= d
  <2> DEFINE q == (n - d) \div k
  <2>1. q \in Nat /\ k * q <= n - d
      BY <1>1, <1>4
  <2>2. Batches(s, n) = q + 1
      BY <1>1, <1>2, <1>4
  <2> HIDE DEF q
  <2>3. (q + 1) * k = k * q + k
      BY <1>1, <2>1
  <2>4. (q + 1) * k \in Nat /\ (q + 1) * k <= n /\ (q + 1) * g \in Nat
      BY <1>1, <2>1, <2>3
  <2> QED BY <2>1, <2>2, <2>4 DEF k, g
<1> QED BY <1>1, <1>3, <1>4

LEMMA TempoPositive ==
    ASSUME TypeOK, NEW i \in Tracks, NEW n \in Nat
    PROVE  AtTempo(i, n) \in Nat
<1>1. tempo[i] \in Nat /\ Unit \in Nat \ {0}
    BY Constants DEF TypeOK
<1> DEFINE a == 2 * n * tempo[i] + Unit
           b == 2 * Unit
<1>2. a \in Nat /\ b \in Nat \ {0}
    BY <1>1
<1>3. AtTempo(i, n) = a \div b
    BY DEF AtTempo
<1> HIDE DEF a, b
<1> QED BY <1>2, <1>3

\* What is fed to SoundTouch is never more than the frames that are left.
LEMMA FedInside ==
    ASSUME TypeOK, NEW i \in Tracks, NEW n \in Nat
    PROVE  AdjustedWriteFrames(i, n) \in 0 .. n
<1>1. Lesser(Burst, n) \in Nat
    BY Constants DEF Lesser
<1> DEFINE a == AtTempo(i, Lesser(Burst, n))
           b == IF TopsUp(i, n) THEN Reserve - ready[i] ELSE 0
<1>2. a \in Nat
    BY <1>1, TempoPositive
<1>3. b \in Nat
    BY Constants DEF TopsUp, TypeOK
<1>4. AdjustedWriteFrames(i, n) = Lesser(a + b, n)
    BY DEF AdjustedWriteFrames, AdjustedUncapped
<1> HIDE DEF a, b
<1> QED BY <1>2, <1>3, <1>4 DEF Lesser

\* Its pipe after one mixAudio().
LEMMA MixTypes ==
    ASSUME TypeOK, NEW i \in Tracks, NEW left \in Int, MixAudio(i, left)
    PROVE  /\ cursor' \in [Tracks -> Nat] /\ playing' \in [Tracks -> BOOLEAN]
           /\ inside' \in [Tracks -> Nat] /\ ready' \in [Tracks -> Nat]
           /\ \A j \in Tracks : j # i => cursor'[j] = cursor[j]
           /\ left = NumSamples(i) - cursor[i] /\ cursor[i] <= NumSamples(i)
                => cursor'[i] <= NumSamples(i)
<1> DEFINE frames == FramesLeft(i, left)
           write == Lesser(Burst, frames)
           adjusted == AdjustedWriteFrames(i, frames)
           fed == inside[i] + adjusted
           s == Setting(i)
           batches == Batches(s, fed)
           got == ready[i] + batches * Gives[s]
           step == cursor[i] + adjusted * Channels[i]
<1>1. CASE UNCHANGED tracks
    BY <1>1 DEF tracks, TypeOK
<1>2. CASE /\ write > 0 /\ playing[i]
           /\ inside' = [inside EXCEPT ![i] = fed - batches * Takes[s]]
           /\ ready' = [ready EXCEPT ![i] = got - Received(got, write)]
           /\ cursor' = [cursor EXCEPT ![i] = step]
           /\ playing' = [playing EXCEPT ![i] = step < NumSamples(i)]
  <2>1. Channels[i] \in {1, 2} /\ Burst \in Nat
      BY Constants
  <2>2. frames \in Int
      BY <2>1 DEF FramesLeft
  <2>3. frames \in Nat
      BY <1>2, <2>1, <2>2 DEF Lesser
  <2>4. adjusted \in 0 .. frames
      BY <2>3, FedInside
  <2>5. inside[i] \in Nat /\ ready[i] \in Nat /\ cursor[i] \in Nat
      BY DEF TypeOK
  <2>6. fed \in Nat
      BY <2>4, <2>5
  <2>7. s \in Pitches \X Tempos
      BY DEF Setting, TypeOK
  <2>8. batches \in Nat /\ batches * Takes[s] \in Nat /\ batches * Takes[s] <= fed
        /\ batches * Gives[s] \in Nat
      BY <2>6, <2>7, BatchesFit
  <2>9. write \in Nat
      BY <2>1, <2>3 DEF Lesser
  <2>10. left >= 0 => frames * Channels[i] <= left
    <3>1. CASE Channels[i] = 1
        BY <3>1 DEF FramesLeft
    <3>2. CASE Channels[i] = 2
        BY <3>2 DEF FramesLeft
    <3> QED BY <2>1, <3>1, <3>2
  <2>11. adjusted * Channels[i] \in Nat /\ adjusted * Channels[i] <= frames * Channels[i]
    <3>1. CASE Channels[i] = 1
        BY <2>3, <2>4, <3>1
    <3>2. CASE Channels[i] = 2
        BY <2>3, <2>4, <3>2
    <3> QED BY <2>1, <3>1, <3>2
  <2>12. NumSamples(i) \in Nat
      BY Samples
  <2> HIDE DEF frames, write, adjusted, s, batches, fed
  <2>13. got \in Nat
      BY <2>5, <2>8
  <2> HIDE DEF got
  <2>14. got - Received(got, write) \in Nat
      BY <2>9, <2>13 DEF Received, Lesser
  <2>15. fed - batches * Takes[s] \in Nat
      BY <2>6, <2>8
  <2>16. step \in Nat
      BY <2>5, <2>11
  <2>17. left = NumSamples(i) - cursor[i] /\ cursor[i] <= NumSamples(i)
           => step <= NumSamples(i)
    <3> SUFFICES ASSUME left = NumSamples(i) - cursor[i], cursor[i] <= NumSamples(i)
                 PROVE  step <= NumSamples(i)
        OBVIOUS
    <3>1. left \in Nat /\ adjusted * Channels[i] <= left
      <4>1. left \in Nat
          BY <2>5, <2>12
      <4>2. frames * Channels[i] \in Int
          BY <2>1, <2>3
      <4> QED BY <4>1, <4>2, <2>10, <2>11
    <3> QED BY <3>1, <2>5, <2>11, <2>12
  <2> HIDE DEF step
  <2> QED BY <1>2, <2>14, <2>15, <2>16, <2>17 DEF TypeOK
<1> QED BY <1>1, <1>2 DEF MixAudio

LEMMA TypeInit == Init => TypeOK
<1> SUFFICES ASSUME Init PROVE TypeOK
    OBVIOUS
<1>1. /\ cb = [at |-> "idle", track |-> 0, ref |-> 0, left |-> 0, pressed |-> FALSE]
      /\ op = [at |-> "none", track |-> 0, arg |-> 0, met |-> 0]
    BY DEF Init
<1>2. cb \in Callbacks /\ op \in Handlers
    BY <1>1, Constants DEF Callbacks, Handlers, Places
<1> QED BY <1>2, Constants DEF Init, TypeOK, Callbacks, Handlers, Places

LEMMA TypesOfRecords ==
    ASSUME TypeOK
    PROVE  /\ cb \in Callbacks /\ op \in Handlers
           /\ NextTrack("idle") \in Callbacks
           /\ cb.at = "read" => NextTrack("read") \in Callbacks
<1>1. cb \in Callbacks /\ op \in Handlers
    BY DEF TypeOK, Callbacks, Handlers, Places
<1>2. cb.track # Last => cb.track + 1 \in Tracks
    BY <1>1, Constants DEF Callbacks
<1> QED BY <1>1, <1>2, Constants DEF NextTrack, Callbacks, Places

LEMMA ForChannelsType ==
    ASSUME NEW i \in Tracks, NEW index \in Int
    PROVE  /\ ForChannels(i, index) \in Int
           /\ index \in Nat => ForChannels(i, index) \in Nat
BY DEF ForChannels

LEMMA SetIndexTypes ==
    ASSUME TypeOK, NEW i \in Tracks, NEW index \in Int, SetCurrentSampleIndex(i, index)
    PROVE  /\ cursor' \in [Tracks -> Nat]
           /\ inside' \in [Tracks -> Nat] /\ ready' \in [Tracks -> Nat]
           /\ \A j \in Tracks : j # i => cursor'[j] = cursor[j]
           /\ cursor'[i] <= NumSamples(i)
<1> DEFINE new == IF index < 0 THEN 0 ELSE Lesser(index, NumSamples(i) - 1)
<1>1. new \in Nat /\ new <= NumSamples(i)
    BY Samples DEF Lesser
<1>2. cursor' = [cursor EXCEPT ![i] = new]
    BY DEF SetCurrentSampleIndex
<1> HIDE DEF new
<1> QED BY <1>1, <1>2 DEF SetCurrentSampleIndex, ClearPipe, TypeOK

\* The steps of the callback keep the types.
LEMMA TypeCallback == TypeOK /\ CallbackStep => TypeOK'
<1> SUFFICES ASSUME TypeOK, CallbackStep PROVE TypeOK'
    OBVIOUS
<1>1. cb \in Callbacks /\ op \in Handlers /\ NextTrack("idle") \in Callbacks
    BY TypesOfRecords
<1>2. cb.track \in Tracks /\ cb.ref \in Int /\ cb.left \in Int
    BY <1>1 DEF Callbacks
<1>3. CASE CallbackStart
  <2>1. UNCHANGED <<cursor, playing, inside, ready, pitch, noted, applied, tempo, torn, outdated>>
      BY <1>3 DEF CallbackStart, tracks, pitches
  <2>2. cb' \in Callbacks
    <3>1. cursor[0] - 2 * ready[0] \in Int
        BY Constants DEF TypeOK
    <3> QED BY <1>1, <1>3, <3>1 DEF CallbackStart, Callbacks, Places
  <2>3. op' \in Handlers
    <3>1. CASE Looping
      <4>1. op.met \in 0 .. Meets /\ op.met < Meets /\ op.track \in Tracks
          BY <1>1, <1>3, <3>1 DEF CallbackStart, MayCallBack, Looping, Handlers, Tracks
      <4>2. op.met + 1 \in 0 .. Meets
          BY <4>1, Constants
      <4> QED BY <1>1, <1>3, <3>1, <4>2 DEF CallbackStart, Handlers
    <3>2. CASE ~Looping
        BY <1>1, <1>3, <3>2 DEF CallbackStart
    <3> QED BY <3>1, <3>2
  <2>4. apart' \in BOOLEAN
      BY <1>3, Zenon DEF CallbackStart, TypeOK, Looping, PitchChanged
  <2> QED BY <2>1, <2>2, <2>3, <2>4 DEF TypeOK, Callbacks, Handlers, Places
<1>4. CASE NotePitch
  <2> DEFINE ref == ForChannels(cb.track, cb.ref)
  <2>1. ref \in Int
      BY <1>2, ForChannelsType
  <2>2. SetCurrentSampleIndex(cb.track, ref)
      BY <1>4 DEF NotePitch
  <2>3. /\ cursor' \in [Tracks -> Nat]
        /\ inside' \in [Tracks -> Nat] /\ ready' \in [Tracks -> Nat]
      BY <1>2, <2>1, <2>2, SetIndexTypes
  <2>4. cb' = [cb EXCEPT !.at = "apply", !.ref = ref]
      BY <1>4 DEF NotePitch
  <2>5. noted' \in [Tracks -> Pitches]
      BY <1>4 DEF NotePitch, TypeOK
  <2>6. torn' \in BOOLEAN
      BY <1>4, Zenon DEF NotePitch, TypeOK, Looping
  <2> HIDE DEF ref
  <2>7. cb' \in Callbacks
      BY <1>1, <2>1, <2>4 DEF Callbacks, Places
  <2> QED BY <1>4, <2>3, <2>5, <2>6, <2>7 DEF NotePitch, TypeOK, Callbacks, Places
<1>5. CASE ApplyPitch
  <2>1. cb' \in Callbacks
    <3>1. CASE cb.track = Last
      <4> DEFINE zero == 0
      <4>1. cb' = [cb EXCEPT !.at = "read", !.track = zero, !.ref = zero]
          BY <1>5, <3>1 DEF ApplyPitch
      <4>2. zero \in Tracks /\ zero \in Int
          BY Constants
      <4> HIDE DEF zero
      <4> QED BY <1>1, <4>1, <4>2 DEF Callbacks, Places
    <3>2. CASE cb.track # Last
      <4>1. cb.track + 1 \in Tracks
          BY <1>2, <3>2, Constants
      <4> QED BY <1>1, <1>5, <3>2, <4>1 DEF ApplyPitch, Callbacks, Places
    <3> QED BY <3>1, <3>2
  <2>2. applied' \in [Tracks -> Pitches]
      BY <1>5, Constants DEF ApplyPitch, TypeOK
  <2> QED BY <1>5, <2>1, <2>2 DEF ApplyPitch, tracks, histories, TypeOK, Callbacks, Places
<1>6. CASE ReadCursor
  <2>1. NumSamples(cb.track) - cursor[cb.track] \in Int
      BY <1>2, Samples DEF TypeOK
  <2>2. cb' \in Callbacks
      BY <1>1, <1>6, <2>1 DEF ReadCursor, Callbacks, Places
  <2> QED BY <1>6, <2>2 DEF ReadCursor, tracks, pitches, histories, TypeOK, Callbacks, Places
<1>7. CASE MixTrack
  <2>1. /\ cursor' \in [Tracks -> Nat] /\ playing' \in [Tracks -> BOOLEAN]
        /\ inside' \in [Tracks -> Nat] /\ ready' \in [Tracks -> Nat]
      BY <1>2, <1>7, MixTypes DEF MixTrack
  <2>2. cb' \in Callbacks
    <3> DEFINE base == NextTrack("idle")
               place == IF cb.track = Last THEN "idle" ELSE "read"
               zero == 0
    <3>1. cb' = [base EXCEPT !.at = place, !.left = zero]
        BY <1>7 DEF MixTrack
    <3>2. base \in Callbacks /\ place \in Places /\ zero \in Int
        BY <1>1 DEF Places
    <3> HIDE DEF base, place, zero
    <3> QED BY <3>1, <3>2 DEF Callbacks
  <2>3. outdated' \in BOOLEAN
      BY <1>7, Zenon DEF MixTrack, TypeOK
  <2> QED BY <1>7, <2>1, <2>2, <2>3 DEF MixTrack, pitches, TypeOK, Callbacks, Places
<1> QED BY <1>3, <1>4, <1>5, <1>6, <1>7 DEF CallbackStep

\* Strengthening that makes the types inductive: a tempo handler passes a tempo.
TypeInv == TypeOK /\ (op.at = "tempo" => op.arg \in Tempos)

Press == \/ PlayPause
         \/ \E point \in SeekPoints : Seek(point)
         \/ \E t \in Tempos : PressTempo(t)
         \/ \E p \in Pitches : PressPitch(p)

\* The presses keep the types.
LEMMA TypePress == TypeInv /\ Press => TypeInv'
<1> SUFFICES ASSUME TypeInv, Press PROVE TypeInv'
    OBVIOUS
<1>1. cb \in Callbacks /\ op \in Handlers /\ TypeOK
    BY TypesOfRecords DEF TypeInv
<1>2. ASSUME NEW what \in {"play", "stop", "seek", "tempo"}, NEW arg \in Nat, Begin(what, arg),
             what = "tempo" => arg \in Tempos
      PROVE  TypeInv'
  <2>1. op' = [op EXCEPT !.at = what, !.arg = arg]
      BY <1>2 DEF Begin
  <2>2. op' \in Handlers
      BY <1>1, <2>1 DEF Handlers
  <2>3. op'.at = what /\ op'.arg = arg
      BY <1>1, <2>1 DEF Handlers
  <2>4. TypeOK'
      BY <1>1, <1>2, <2>2 DEF Begin, tracks, pitches, histories, TypeOK, Handlers
  <2> QED BY <1>2, <2>3, <2>4 DEF TypeInv
<1>3. CASE PlayPause
  <2>1. cursor[0] \in Nat
      BY <1>1, Constants DEF TypeOK
  <2>2. Begin("play", cursor[0]) \/ Begin("stop", 0)
      BY <1>3 DEF PlayPause
  <2> QED BY <1>2, <2>1, <2>2
<1>4. ASSUME NEW point \in SeekPoints, Seek(point) PROVE TypeInv'
  <2>1. point \in Nat
      BY Constants
  <2> QED BY <1>2, <1>4, <2>1 DEF Seek
<1>5. ASSUME NEW t \in Tempos, PressTempo(t) PROVE TypeInv'
  <2>1. t \in Nat
      BY Constants
  <2> QED BY <1>2, <1>5, <2>1 DEF PressTempo
<1>6. ASSUME NEW p \in Pitches, PressPitch(p) PROVE TypeInv'
  <2>1. cb' \in Callbacks
      BY <1>1, <1>6 DEF PressPitch, Callbacks, Places
  <2>2. UNCHANGED <<cursor, playing, inside, ready, noted, applied, tempo, op>>
        /\ UNCHANGED <<torn, apart, outdated>> /\ pitch' = p
      BY <1>6 DEF PressPitch, tracks, histories
  <2> QED BY <1>1, <2>1, <2>2 DEF TypeInv, TypeOK, Callbacks, Places
<1> QED BY <1>3, <1>4, <1>5, <1>6 DEF Press

\* One track of a handler's loop.
LEMMA HandlerTracks ==
    ASSUME TypeInv, HandlerStep
    PROVE  /\ cursor' \in [Tracks -> Nat] /\ playing' \in [Tracks -> BOOLEAN]
           /\ inside' \in [Tracks -> Nat] /\ ready' \in [Tracks -> Nat]
           /\ tempo' \in [Tracks -> Tempos]
           /\ \A j \in Tracks : j # op.track => cursor'[j] = cursor[j]
           /\ \/ cursor'[op.track] = cursor[op.track]
              \/ cursor'[op.track] <= NumSamples(op.track)
              \/ op.at = "play" /\ cursor'[op.track] = ForChannels(op.track, op.arg)
<1>1. op.track \in Tracks /\ op.arg \in Nat
    BY TypesOfRecords DEF Handlers, TypeInv
<1> TypeOK
    BY DEF TypeInv
<1>2. ForChannels(op.track, op.arg) \in Nat
    BY <1>1, ForChannelsType
<1>3. CASE op.at = "play" /\ SetPlayMode(op.track, op.arg) /\ UNCHANGED tempo
    BY <1>1, <1>2, <1>3 DEF SetPlayMode, ClearPipe, TypeOK
<1>4. CASE op.at = "stop" /\ SetStopMode(op.track) /\ UNCHANGED tempo
    BY <1>1, <1>4 DEF SetStopMode, ClearPipe, TypeOK
<1>5. CASE /\ op.at = "seek"
           /\ SetCurrentSampleIndex(op.track, ForChannels(op.track, op.arg))
           /\ UNCHANGED <<playing, tempo>>
    BY <1>1, <1>2, <1>5, SetIndexTypes DEF TypeOK
<1>6. CASE /\ op.at = "tempo"
           /\ tempo' = [tempo EXCEPT ![op.track] = op.arg]
           /\ UNCHANGED tracks
    BY <1>6 DEF tracks, TypeOK, TypeInv
<1> QED BY <1>3, <1>4, <1>5, <1>6 DEF HandlerStep

\* A handler's step keeps the types.
LEMMA TypeHandler == TypeInv /\ HandlerStep => TypeInv'
<1> SUFFICES ASSUME TypeInv, HandlerStep PROVE TypeInv'
    OBVIOUS
<1>1. op \in Handlers /\ op.track \in Tracks
    BY TypesOfRecords DEF TypeInv, Handlers
<1>2. op' \in Handlers /\ (op'.at = "tempo" => op'.arg \in Tempos)
  <2>1. CASE op.track = Last
    <3> DEFINE none == [at |-> "none", track |-> 0, arg |-> 0, met |-> 0]
    <3>1. op' = none
        BY <2>1 DEF HandlerStep
    <3>2. none \in Handlers /\ none.at = "none"
        BY Constants DEF Handlers
    <3> QED BY <3>1, <3>2
  <2>2. CASE op.track # Last
    <3> DEFINE next == op.track + 1
    <3>1. next \in Tracks
        BY <1>1, <2>2, Constants
    <3>2. op' = [op EXCEPT !.track = next]
        BY <2>2 DEF HandlerStep
    <3> HIDE DEF next
    <3> QED BY <1>1, <3>1, <3>2 DEF Handlers, TypeInv
  <2> QED BY <2>1, <2>2
<1>3. torn' \in BOOLEAN /\ apart' \in BOOLEAN
    BY Zenon DEF HandlerStep, Adjusting, TypeInv, TypeOK
<1>4. UNCHANGED <<pitch, noted, applied, cb, outdated>>
    BY DEF HandlerStep, pitches
<1> QED BY <1>2, <1>3, <1>4, HandlerTracks DEF TypeInv, TypeOK, Handlers

\* TypeInv is an inductive invariant.
LEMMA TypeStep == TypeInv /\ [Next]_vars => TypeInv'
<1> SUFFICES ASSUME TypeInv, [Next]_vars PROVE TypeInv'
    OBVIOUS
<1>1. CASE CallbackStep
  <2>1. TypeOK'
      BY <1>1, TypeCallback DEF TypeInv
  <2>2. op'.at = op.at /\ op'.arg = op.arg
    <3>1. op \in Handlers
        BY TypesOfRecords DEF TypeInv
    <3> QED BY <1>1, <3>1 DEF CallbackStep, CallbackStart, NotePitch, ApplyPitch, ReadCursor,
                              MixTrack, Handlers
  <2> QED BY <2>1, <2>2 DEF TypeInv
<1>2. CASE HandlerStep
    BY <1>2, TypeHandler
<1>3. CASE Press
    BY <1>3, TypePress
<1>4. CASE UNCHANGED vars
    BY <1>4 DEF vars, tracks, pitches, histories, TypeInv, TypeOK
<1> QED BY <1>1, <1>2, <1>3, <1>4 DEF Next, Press

\* The types hold whatever the handlers and the callback do at the same time.
THEOREM TypesKept == Spec => []TypeOK
<1>1. Init => TypeInv
  <2>1. Init => op.at = "none"
      BY DEF Init
  <2> QED BY <2>1, TypeInit DEF TypeInv
<1>2. TypeInv => TypeOK
    BY DEF TypeInv
<1> QED BY <1>1, <1>2, TypeStep, PTL DEF Spec

(***************************************************************************)
(* The cursors                                                             *)
(***************************************************************************)

\* Track i is no shorter than track 0.
LongEnough(i) == Frames[0] <= Frames[i]

\* Strengthening that makes InsideBuffer inductive: a play starts inside track 0.
EndInv == /\ TypeInv
          /\ InsideBuffer
          /\ cb.at # "mix" => cb.left = 0
          /\ ~outdated /\ op.at = "play" => op.arg <= NumSamples(0)

LEMMA EndInit == Init => EndInv
<1> SUFFICES ASSUME Init PROVE EndInv
    OBVIOUS
<1>1. TypeInv
  <2>1. op.at = "none"
      BY DEF Init
  <2> QED BY <2>1, TypeInit DEF TypeInv
<1>2. \A i \in Tracks : cursor[i] <= NumSamples(i)
  <2>1. \A i \in Tracks : cursor[i] = 0 /\ NumSamples(i) \in Nat
      BY Samples DEF Init
  <2> QED BY <2>1
<1>3. cb.left = 0 /\ op.at = "none"
    BY DEF Init
<1> QED BY <1>1, <1>2, <1>3 DEF EndInv, InsideBuffer

\* A step of the callback keeps the cursors inside: a track that is mixed with a
\* count that is not out of date is fed no more than it has left.
LEMMA EndCallback == EndInv /\ CallbackStep => EndInv'
<1> SUFFICES ASSUME EndInv, CallbackStep PROVE EndInv'
    OBVIOUS
<1>1. TypeOK /\ cb \in Callbacks /\ op \in Handlers
    BY TypesOfRecords DEF EndInv, TypeInv
<1>2. TypeInv'
    BY TypeStep DEF EndInv, Next
<1>3. op'.at = op.at /\ op'.arg = op.arg
    BY <1>1 DEF CallbackStep, CallbackStart, NotePitch, ApplyPitch, ReadCursor,
                MixTrack, Handlers
<1>3a. outdated => outdated'
    BY Zenon DEF CallbackStep, CallbackStart, NotePitch, ApplyPitch, ReadCursor, MixTrack, histories
<1>4. /\ ~outdated' => \A i \in Tracks : LongEnough(i) => cursor[i] <= NumSamples(i)
      /\ ~outdated' /\ LongEnough(cb.track) => cb.left >= 0
      /\ cb.at # "mix" => cb.left = 0
      /\ cb.track \in Tracks /\ cb.ref \in Int /\ cb.left \in Int
    BY <1>1, <1>3a DEF EndInv, InsideBuffer, LongEnough, Callbacks
<1>5. ASSUME ~outdated' => \A i \in Tracks : LongEnough(i) => cursor'[i] <= NumSamples(i),
             ~outdated' /\ LongEnough(cb'.track) => cb'.left >= 0,
             cb'.at # "mix" => cb'.left = 0
      PROVE  EndInv'
    BY <1>2, <1>3, <1>5, <1>3a DEF EndInv, InsideBuffer, LongEnough, NumSamples
<1>6. CASE CallbackStart
  <2>1. cb'.left = cb.left /\ cb.at = "idle" /\ cursor' = cursor
      BY <1>1, <1>6 DEF CallbackStart, Callbacks, tracks
  <2> QED BY <1>4, <1>5, <2>1
<1>7. CASE NotePitch
  <2> DEFINE ref == ForChannels(cb.track, cb.ref)
  <2>1. ref \in Int
      BY <1>4, ForChannelsType
  <2>2. SetCurrentSampleIndex(cb.track, ref)
      BY <1>7 DEF NotePitch
  <2>3. cb' = [cb EXCEPT !.at = "apply", !.ref = ref]
      BY <1>7 DEF NotePitch
  <2> HIDE DEF ref
  <2>4. cb'.left = cb.left /\ cb.at = "note"
      BY <1>1, <1>7, <2>3 DEF NotePitch, Callbacks
  <2>5. ~outdated' => \A i \in Tracks : LongEnough(i) => cursor'[i] <= NumSamples(i)
      BY <1>1, <1>4, <2>1, <2>2, SetIndexTypes
  <2> QED BY <1>4, <1>5, <2>4, <2>5
<1>8. CASE ApplyPitch \/ ReadCursor
  <2>1. cursor' = cursor
      BY <1>8 DEF ApplyPitch, ReadCursor, tracks
  <2>2. CASE ReadCursor /\ playing[cb.track]
    <3> DEFINE rest == NumSamples(cb.track) - cursor[cb.track]
    <3>1. cb' = [cb EXCEPT !.at = "mix", !.left = rest]
        BY <2>2 DEF ReadCursor
    <3>2. ~outdated' /\ LongEnough(cb.track) => rest >= 0
      <4>1. NumSamples(cb.track) \in Nat /\ cursor[cb.track] \in Nat
          BY <1>1, <1>4, Samples DEF TypeOK
      <4> QED BY <1>4, <4>1
    <3>3. cb'.left = rest /\ cb'.track = cb.track /\ cb'.at = "mix"
        BY <1>1, <3>1 DEF Callbacks
    <3> QED BY <1>4, <1>5, <2>1, <3>2, <3>3
  <2>3. CASE ApplyPitch \/ (ReadCursor /\ ~playing[cb.track])
    <3>1. cb'.left = cb.left
        BY <1>1, <2>3 DEF ApplyPitch, ReadCursor, NextTrack, Callbacks
    <3>2. cb.left = 0
        BY <1>4, <2>3 DEF ApplyPitch, ReadCursor
    <3> QED BY <1>4, <1>5, <2>1, <3>1, <3>2
  <2> QED BY <1>8, <2>2, <2>3
<1>9. CASE MixTrack
  <2>1. ~outdated' => cb.left = NumSamples(cb.track) - cursor[cb.track]
      BY <1>9, Zenon DEF MixTrack
  <2>2. ~outdated' => \A i \in Tracks : LongEnough(i) => cursor'[i] <= NumSamples(i)
    <3>1. MixAudio(cb.track, cb.left)
        BY <1>9 DEF MixTrack
    <3> QED BY <1>1, <1>4, <2>1, <3>1, MixTypes
  <2>3. cb'.left = 0
    <3> DEFINE base == NextTrack("idle")
               place == IF cb.track = Last THEN "idle" ELSE "read"
    <3>1. cb' = [base EXCEPT !.at = place, !.left = 0]
        BY <1>9 DEF MixTrack
    <3>2. base \in Callbacks
        BY <1>1, TypesOfRecords
    <3> HIDE DEF base, place
    <3> QED BY <3>1, <3>2 DEF Callbacks
  <2> QED BY <1>5, <2>2, <2>3
<1> QED BY <1>6, <1>7, <1>8, <1>9 DEF CallbackStep

\* A play gives no track a position beyond its end but one that is shorter than
\* track 0.
LEMMA PlayFits ==
    ASSUME NEW i \in Tracks, LongEnough(i), NEW index \in Nat, index <= NumSamples(0)
    PROVE  ForChannels(i, index) <= NumSamples(i)
<1>1. /\ NumSamples(0) = 2 * Frames[0] /\ Frames[0] \in Nat /\ Frames[i] \in Nat
      /\ Frames[0] <= Frames[i] /\ Channels[i] \in {1, 2}
  <2>1. 0 \in Tracks /\ Channels[0] = 2
      BY Constants
  <2>2. NumSamples(0) = 2 * Frames[0]
      BY <2>1, Samples
  <2> QED BY <2>1, <2>2, Constants DEF LongEnough
<1>2. CASE Channels[i] = 1
  <2>1. NumSamples(i) = Frames[i]
      BY <1>2, Samples
  <2>2. ForChannels(i, index) = index \div 2
      BY <1>2 DEF ForChannels
  <2> QED BY <1>1, <2>1, <2>2
<1>3. CASE Channels[i] = 2
  <2>1. NumSamples(i) = 2 * Frames[i]
      BY <1>3, Samples
  <2>2. ForChannels(i, index) = index
      BY <1>3 DEF ForChannels
  <2> QED BY <1>1, <2>1, <2>2
<1> QED BY <1>1, <1>2, <1>3

\* A track of a handler's loop, whatever the callback is about to do.
LEMMA EndHandler == EndInv /\ HandlerStep => EndInv'
<1> SUFFICES ASSUME EndInv, HandlerStep PROVE EndInv'
    OBVIOUS
<1>1. TypeInv /\ TypeOK /\ cb \in Callbacks /\ op \in Handlers
    BY TypesOfRecords DEF EndInv, TypeInv
<1>2. TypeInv'
    BY TypeStep DEF EndInv, Next
<1>3. cb' = cb /\ outdated' = outdated
    BY DEF HandlerStep
<1>4. op.track \in Tracks /\ op.arg \in Nat
    BY <1>1 DEF Handlers
<1>5. ~outdated /\ op'.at = "play" => op'.arg <= NumSamples(0)
  <2>1. op'.at = "play" => op.at = "play" /\ op'.arg = op.arg
      BY <1>1 DEF HandlerStep, Handlers
  <2> QED BY <2>1 DEF EndInv
<1>6. ASSUME ~outdated, NEW i \in Tracks, LongEnough(i) PROVE cursor'[i] <= NumSamples(i)
  <2>1. cursor[i] <= NumSamples(i)
      BY <1>6 DEF EndInv, InsideBuffer, LongEnough
  <2>2. i = op.track /\ op.at = "play" => ForChannels(i, op.arg) <= NumSamples(i)
      BY <1>4, <1>6, PlayFits DEF EndInv
  <2> QED BY <1>1, <2>1, <2>2, HandlerTracks
<1> QED BY <1>2, <1>3, <1>5, <1>6 DEF EndInv, InsideBuffer, LongEnough, NumSamples

\* A press moves nothing, and a play starts where track 0 is.
LEMMA EndPress == EndInv /\ Press => EndInv'
<1> SUFFICES ASSUME EndInv, Press PROVE EndInv'
    OBVIOUS
<1>1. TypeOK /\ cb \in Callbacks /\ op \in Handlers
    BY TypesOfRecords DEF EndInv, TypeInv
<1>2. TypeInv' /\ cursor' = cursor /\ outdated' = outdated
    BY TypePress DEF EndInv, Press, PlayPause, Seek, PressTempo, PressPitch, Begin, tracks, histories
<1>3. cb'.left = cb.left /\ cb'.track = cb.track /\ cb'.at = cb.at
    BY <1>1 DEF Press, PlayPause, Seek, PressTempo, PressPitch, Begin, Callbacks
<1>4. ~outdated /\ op'.at = "play" => op'.arg <= NumSamples(0)
  <2>1. ~outdated => cursor[0] <= NumSamples(0)
      BY Constants DEF EndInv, InsideBuffer
  <2>2. CASE PlayPause
    <3>1. op'.at = "play" => op'.arg = cursor[0]
        BY <1>1, <2>2 DEF PlayPause, Begin, Handlers
    <3> QED BY <2>1, <3>1
  <2>3. CASE \E point \in SeekPoints : Seek(point)
      BY <1>1, <2>3 DEF Seek, Begin, Handlers
  <2>4. CASE \E t \in Tempos : PressTempo(t)
      BY <1>1, <2>4 DEF PressTempo, Begin, Handlers
  <2>5. CASE \E p \in Pitches : PressPitch(p)
      BY <2>5 DEF PressPitch, EndInv
  <2> QED BY <2>2, <2>3, <2>4, <2>5 DEF Press
<1> QED BY <1>2, <1>3, <1>4 DEF EndInv, InsideBuffer, NumSamples

\* Whatever is sought or pressed, at any moment of a callback, and whatever SoundTouch
\* does: a cursor leaves its buffer only by a handler that moves a track between the
\* callback's read of its cursor and its +=, or by a play on a track that is shorter
\* than track 0.  The second limit of mixAudio() holds back the top-up, and no
\* position that is handed from track to track is beyond the end.
THEOREM StaysInsideBuffer == Spec => []InsideBuffer
<1>1. EndInv /\ [Next]_vars => EndInv'
  <2> SUFFICES ASSUME EndInv, [Next]_vars PROVE EndInv'
      OBVIOUS
  <2>1. CASE CallbackStep
      BY <2>1, EndCallback
  <2>2. CASE HandlerStep
      BY <2>2, EndHandler
  <2>3. CASE Press
      BY <2>3, EndPress
  <2>4. CASE UNCHANGED vars
    <3>1. TypeInv'
        BY TypeStep DEF EndInv
    <3>2. UNCHANGED <<cursor, cb, op, outdated>>
        BY <2>4 DEF vars, tracks, pitches, histories
    <3> QED BY <3>1, <3>2 DEF EndInv, InsideBuffer, NumSamples
  <2> QED BY <2>1, <2>2, <2>3, <2>4 DEF Next, Press
<1>2. EndInv => InsideBuffer
    BY DEF EndInv
<1> QED BY <1>1, <1>2, EndInit, PTL DEF Spec

(***************************************************************************)
(* The pitch                                                               *)
(***************************************************************************)

Wanted(i, p) == IF i \in Ignored THEN 0 ELSE p

\* While the callback adjusts the pitch, the tracks behind it are at the pitch of the
\* player and track 0 has noted it; or a button has been pressed since, it will not be
\* pressed again before the next callback, and track 0 will notice then.
Noticed == cb.pressed /\ noted[0] # pitch
AdjustedSoFar ==
    /\ \A i \in Tracks : i < cb.track => applied[i] = Wanted(i, pitch)
    /\ 0 < cb.track \/ cb.at = "apply" => noted[0] = pitch
PitchInv ==
    /\ cb.at = "idle" => cb.track = 0
    /\ Adjusting => AdjustedSoFar \/ Noticed
    /\ ~Adjusting => \/ \A i \in Tracks : applied[i] = Wanted(i, noted[0])
                     \/ Noticed

LEMMA PitchInit == Init => PitchInv
<1> SUFFICES ASSUME Init PROVE PitchInv
    OBVIOUS
<1>1. /\ cb.at = "idle" /\ cb.track = 0
      /\ \A i \in Tracks : applied[i] = 0 /\ noted[i] = 0
    BY DEF Init
<1> QED BY <1>1, Constants DEF PitchInv, Adjusting, Wanted

LEMMA PitchNote ==
    ASSUME TypeOK, PitchInv, NotePitch
    PROVE  PitchInv'
<1>1. cb \in Callbacks /\ cb.track \in Tracks /\ cb.at = "note"
    BY TypesOfRecords DEF NotePitch, Callbacks
<1>2. /\ cb'.at = "apply" /\ cb'.track = cb.track /\ cb'.pressed = cb.pressed
      /\ pitch' = pitch /\ applied' = applied
    BY <1>1 DEF NotePitch, Callbacks
<1>3. noted'[0] = IF cb.track = 0 THEN pitch ELSE noted[0]
    BY <1>1, Constants DEF NotePitch, TypeOK
<1>4. AdjustedSoFar \/ Noticed
    BY <1>1 DEF PitchInv, Adjusting
<1>5. \A i \in Tracks : i \in Nat
    BY DEF Tracks
<1>6. AdjustedSoFar' \/ Noticed'
  <2>1. CASE cb.track = 0
      BY <1>2, <1>3, <1>5, <2>1 DEF AdjustedSoFar
  <2>2. CASE cb.track # 0
      BY <1>1, <1>2, <1>3, <1>4, <1>5, <2>2 DEF AdjustedSoFar, Noticed, Wanted
  <2> QED BY <2>1, <2>2
<1> QED BY <1>2, <1>6 DEF PitchInv, Adjusting

LEMMA PitchApply ==
    ASSUME TypeOK, PitchInv, ApplyPitch
    PROVE  PitchInv'
<1>1. cb \in Callbacks /\ cb.track \in Tracks /\ cb.at = "apply"
    BY TypesOfRecords DEF ApplyPitch, Callbacks
<1>2. /\ cb'.at = IF cb.track = Last THEN "read" ELSE "note"
      /\ cb'.track = IF cb.track = Last THEN 0 ELSE cb.track + 1
      /\ cb'.pressed = cb.pressed /\ pitch' = pitch /\ noted' = noted
    BY <1>1 DEF ApplyPitch, Callbacks
<1>3. \A i \in Tracks : applied'[i] = IF i = cb.track THEN Wanted(i, pitch) ELSE applied[i]
    BY <1>1 DEF ApplyPitch, TypeOK, Wanted
<1>4. AdjustedSoFar \/ Noticed
    BY <1>1 DEF PitchInv, Adjusting
<1>5. Noticed => Noticed'
    BY <1>2 DEF Noticed
<1>6. \A i \in Tracks : i \in Nat /\ i <= Last
  <2>1. NumTracks \in Nat \ {0}
      BY PlaybackAssumption
  <2> QED BY <2>1 DEF Tracks, Last
<1>7. CASE AdjustedSoFar
  <2>1. \A i \in Tracks : i <= cb.track => applied'[i] = Wanted(i, pitch)
      BY <1>1, <1>3, <1>6, <1>7 DEF AdjustedSoFar
  <2>2. noted'[0] = pitch
      BY <1>1, <1>2, <1>7 DEF AdjustedSoFar
  <2>3. CASE cb.track = Last
    <3>1. \A i \in Tracks : applied'[i] = Wanted(i, noted'[0])
        BY <1>6, <2>1, <2>2, <2>3
    <3> QED BY <1>2, <2>3, <3>1 DEF PitchInv, Adjusting, Wanted
  <2>4. CASE cb.track # Last
    <3>1. AdjustedSoFar'
        BY <1>1, <1>2, <1>6, <2>1, <2>2, <2>4 DEF AdjustedSoFar, Wanted
    <3> QED BY <1>2, <2>4, <3>1 DEF PitchInv, Adjusting
  <2> QED BY <2>3, <2>4
<1>8. CASE Noticed
    BY <1>2, <1>5, <1>8 DEF PitchInv, Adjusting
<1> QED BY <1>4, <1>7, <1>8

LEMMA PitchStart ==
    ASSUME TypeOK, PitchInv, CallbackStart
    PROVE  PitchInv'
<1>1. cb \in Callbacks /\ cb.at = "idle" /\ cb.track = 0
    BY TypesOfRecords DEF CallbackStart, PitchInv
<1>2. /\ cb'.at = IF PitchChanged THEN "note" ELSE "read"
      /\ cb'.track = 0 /\ UNCHANGED <<pitch, noted, applied>>
    BY <1>1 DEF CallbackStart, Callbacks, pitches
<1>3. CASE PitchChanged
  <2>1. AdjustedSoFar'
      BY <1>2, <1>3 DEF AdjustedSoFar, Tracks
  <2> QED BY <1>2, <1>3, <2>1 DEF PitchInv, Adjusting
<1>4. CASE ~PitchChanged
  <2>1. \A i \in Tracks : applied[i] = Wanted(i, noted[0])
      BY <1>1, <1>4 DEF PitchInv, Adjusting, Noticed, PitchChanged
  <2> QED BY <1>2, <1>4, <2>1 DEF PitchInv, Adjusting, Wanted
<1> QED BY <1>3, <1>4

\* The steps that leave the pitches alone.
LEMMA PitchUntouched ==
    ASSUME PitchInv, UNCHANGED <<pitch, noted, applied>>, cb'.pressed = cb.pressed,
           \/ cb' = cb
           \/ ~Adjusting /\ ~Adjusting' /\ (cb'.at = "idle" => cb'.track = 0)
    PROVE  PitchInv'
BY DEF PitchInv, Adjusting, AdjustedSoFar, Noticed, Wanted

LEMMA PitchPressed ==
    ASSUME TypeOK, PitchInv, NEW p \in Pitches, PressPitch(p)
    PROVE  PitchInv'
<1>1. cb \in Callbacks
    BY TypesOfRecords
<1>2. /\ cb'.at = cb.at /\ cb'.track = cb.track /\ (cb'.pressed <=> cb.at # "idle")
      /\ ~cb.pressed /\ pitch' = p /\ p # pitch /\ UNCHANGED <<noted, applied>>
    BY <1>1 DEF PressPitch, Callbacks
<1>3. CASE Adjusting
  <2>1. AdjustedSoFar
      BY <1>2, <1>3 DEF PitchInv, Noticed
  <2>2. CASE 0 < cb.track \/ cb.at = "apply"
    <3>1. Noticed'
        BY <1>2, <1>3, <2>1, <2>2 DEF AdjustedSoFar, Noticed, Adjusting
    <3> QED BY <1>2, <1>3, <3>1 DEF PitchInv, Adjusting
  <2>3. CASE ~(0 < cb.track \/ cb.at = "apply")
    <3>1. AdjustedSoFar'
        BY <1>1, <1>2, <2>3 DEF AdjustedSoFar, Callbacks, Tracks
    <3> QED BY <1>2, <1>3, <3>1 DEF PitchInv, Adjusting
  <2> QED BY <2>2, <2>3
<1>4. CASE ~Adjusting
  <2>1. \A i \in Tracks : applied[i] = Wanted(i, noted[0])
      BY <1>2, <1>4 DEF PitchInv, Noticed
  <2> QED BY <1>2, <1>4, <2>1 DEF PitchInv, Adjusting, Wanted
<1> QED BY <1>3, <1>4

LEMMA PitchStep == TypeOK /\ PitchInv /\ [Next]_vars => PitchInv'
<1> SUFFICES ASSUME TypeOK, PitchInv, [Next]_vars PROVE PitchInv'
    OBVIOUS
<1>1. cb \in Callbacks
    BY TypesOfRecords
<1>2. CASE ReadCursor \/ MixTrack
  <2>1. UNCHANGED <<pitch, noted, applied>>
      BY <1>2 DEF ReadCursor, MixTrack, pitches
  <2>2. /\ cb'.pressed = cb.pressed /\ cb'.at \in {"idle", "read", "mix"}
        /\ cb'.at = "idle" => cb'.track = 0
    <3>1. CASE ReadCursor
        BY <1>1, <3>1 DEF ReadCursor, NextTrack, Callbacks
    <3>2. CASE MixTrack
        BY <1>1, <3>2 DEF MixTrack, NextTrack, Callbacks
    <3> QED BY <1>2, <3>1, <3>2
  <2>3. ~Adjusting /\ ~Adjusting'
      BY <1>2, <2>2 DEF Adjusting, ReadCursor, MixTrack
  <2> QED BY <2>1, <2>2, <2>3, PitchUntouched
<1>3. CASE HandlerStep
    BY <1>3, PitchUntouched DEF HandlerStep, pitches
<1>4. ASSUME NEW what, NEW arg, Begin(what, arg) PROVE PitchInv'
    BY <1>4, PitchUntouched DEF Begin, pitches
<1>5. CASE PlayPause
    BY <1>4, <1>5 DEF PlayPause
<1>6. CASE \E point \in SeekPoints : Seek(point)
    BY <1>4, <1>6 DEF Seek
<1>7. CASE \E t \in Tempos : PressTempo(t)
    BY <1>4, <1>7 DEF PressTempo
<1>8. CASE UNCHANGED vars
    BY <1>8, PitchUntouched DEF vars, pitches
<1> QED BY <1>2, <1>3, <1>5, <1>6, <1>7, <1>8, PitchStart, PitchNote, PitchApply, PitchPressed
        DEF Next, CallbackStep

\* No pitch is missed: onAudioReady() compares the pitch with what track 0 has noted
\* only, and reads it again for every track, but a press in the middle of the adjustment
\* always leaves track 0 with another pitch than the player's.
THEOREM NoPitchMissed == Spec => []PitchNotMissed
<1>1. PitchInv => PitchNotMissed
    BY DEF PitchInv, PitchNotMissed, Noticed, Wanted, PitchChanged
<1> QED BY <1>1, PitchInit, PitchStep, TypesKept, PTL DEF Spec

=============================================================================
