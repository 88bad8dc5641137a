------------------------------ MODULE Playback ------------------------------
(***************************************************************************)
(* Where the tracks of a song are: the cursors of the sources, the frames  *)
(* on their way through SoundTouch, and the three parties that move them,  *)
(* the audio callback, the handlers of seek, play, pause and tempo, which  *)
(* loop over the tracks, and the pitch buttons.  Gains, fades and what     *)
(* SoundTouch does to the sound are left out.                              *)
(*                                                                         *)
(* The callback reads a track's cursor in one step and mixes in the next;  *)
(* a handler does one track per step.                                      *)
(***************************************************************************)
EXTENDS Integers

CONSTANTS NumTracks,   \* mNumSampleBuffers
          Channels,    \* channels of each track
          Frames,      \* Frames[i]: length of track i
          Burst,       \* numFrames of a callback
          Reserve,     \* desiredSoundTouchBuffer, 4000 in the code
          Pitches,     \* pitches the buttons reach, 0 the initial one
          Ignored,     \* mIgnorePitchIndexes
          Tempos,      \* tempos the buttons reach, in units of 1 / Unit
          Unit,        \* tempo 1.0, the initial one
          Need,        \* Need[p, t]: input frames SoundTouch waits for at pitch p, tempo t
          Takes,       \* Takes[p, t]: frames it then takes in
          Gives,       \* Gives[p, t]: frames it then gives out
          Lack,        \* frames it may wait for beyond the reserve, 11 at 44.1 kHz
          SeekPoints,  \* seek targets, in samples of a stereo track
          Presses,     \* TRUE: play and pause are pressed
          Overlap,     \* TRUE: handlers run during the callback too
          Meets        \* then: callbacks that may start during one loop of a handler

Tracks == 0 .. NumTracks - 1
Last == NumTracks - 1

ASSUME PlaybackAssumption ==
    /\ NumTracks \in Nat \ {0}
    /\ Channels \in [Tracks -> {1, 2}] /\ Channels[0] = 2
    /\ Frames \in [Tracks -> Nat \ {0}] /\ Burst \in Nat \ {0} /\ Reserve \in Nat
    /\ Pitches \subseteq Nat /\ 0 \in Pitches /\ Ignored \subseteq Nat
    /\ Unit \in Nat \ {0} /\ Tempos \subseteq Nat \ {0} /\ Unit \in Tempos
    /\ Need \in [Pitches \X Tempos -> Nat \ {0}]
    /\ Takes \in [Pitches \X Tempos -> Nat \ {0}]
    /\ Gives \in [Pitches \X Tempos -> Nat]
    /\ Lack \in Nat
    /\ \A p \in Pitches, t \in Tempos :
          Takes[p, t] <= Need[p, t] /\ Need[p, t] <= Reserve + 1 + Lack
    /\ SeekPoints \subseteq Nat /\ Meets \in Nat
    /\ Presses \in BOOLEAN /\ Overlap \in BOOLEAN

VARIABLES
    cursor,    \* cursor[i]: mCurSampleIndex, in samples
    playing,   \* playing[i]: mIsPlaying
    inside,    \* inside[i]: frames SoundTouch has taken but not processed
    ready,     \* ready[i]: mSoundTouch.numSamples(), frames it can give
    pitch,     \* mCurrentPitch
    noted,     \* noted[i]: currentPitch of source i
    applied,   \* applied[i]: the pitch its SoundTouch was set to
    tempo,     \* tempo[i]: the tempo its SoundTouch was set to
    cb,        \* the callback: where it stands, its track, its locals
    op,        \* the handler: what it does, its track, its argument, and the
               \* callbacks that have started since its first track
    torn,      \* history: a pitch adjustment and a handler's loop have met
    apart,     \* history: since the tracks were last set to one position, a
               \* callback and a handler's loop have met
    outdated   \* history: a track has been mixed with a count that a handler had
               \* made out of date

tracks == <<cursor, playing, inside, ready>>
pitches == <<pitch, noted, applied>>
histories == <<torn, apart, outdated>>
vars == <<tracks, pitches, tempo, cb, op, histories>>

NumSamples(i) == Frames[i] * Channels[i]
Lesser(a, b) == IF a < b THEN a ELSE b

Init == /\ cursor = [i \in Tracks |-> 0]
        /\ playing = [i \in Tracks |-> FALSE]
        /\ inside = [i \in Tracks |-> 0]
        /\ ready = [i \in Tracks |-> 0]
        /\ pitch = 0
        /\ noted = [i \in Tracks |-> 0]
        /\ applied = [i \in Tracks |-> 0]
        /\ tempo = [i \in Tracks |-> Unit]
        /\ cb = [at |-> "idle", track |-> 0, ref |-> 0, left |-> 0, pressed |-> FALSE]
        /\ op = [at |-> "none", track |-> 0, arg |-> 0, met |-> 0]
        /\ torn = FALSE /\ apart = FALSE /\ outdated = FALSE

\* Without Overlap the callback and the loop of a handler exclude each other;
\* callbacks still run between a press and the start of its loop.
MayHandle == Overlap \/ cb.at = "idle"
MayCallBack == op.track = 0 \/ (Overlap /\ op.met < Meets)

\* The callback adjusts the pitch; a handler is in its loop.
Adjusting == cb.at \in {"note", "apply"}
Looping == op.track > 0

(***************************************************************************)
(* One track                                                               *)
(***************************************************************************)

\* mSoundTouch.clear()
ClearPipe(i) == /\ inside' = [inside EXCEPT ![i] = 0]
                /\ ready' = [ready EXCEPT ![i] = 0]

\* A handler's index, meant for a stereo track, for track i.
ForChannelsUnadjusted(i, index) == index
ForChannels(i, index) == IF Channels[i] = 1 THEN index \div 2 ELSE index

SetCurrentSampleIndexUncleared(i, index) ==
    /\ cursor' = [cursor EXCEPT ![i] = IF index < 0 THEN 0
                                       ELSE Lesser(index, NumSamples(i) - 1)]
    /\ UNCHANGED <<inside, ready>>
\* setCurrentSampleIndex(): clamped to the samples of the track.
SetCurrentSampleIndex(i, index) ==
    /\ cursor' = [cursor EXCEPT ![i] = IF index < 0 THEN 0
                                       ELSE Lesser(index, NumSamples(i) - 1)]
    /\ ClearPipe(i)

\* setPlayMode(): not clamped.
SetPlayMode(i, index) ==
    /\ cursor' = [cursor EXCEPT ![i] = ForChannels(i, index)]
    /\ playing' = [playing EXCEPT ![i] = TRUE]
    /\ ClearPipe(i)

SetStopMode(i) ==
    /\ playing' = [playing EXCEPT ![i] = FALSE]
    /\ ClearPipe(i)
    /\ UNCHANGED cursor

\* The batches SoundTouch processes with n frames inside at setting s, a pair of
\* pitch and tempo.
Setting(i) == <<applied[i], tempo[i]>>
Batches(s, n) == IF n < Need[s] THEN 0 ELSE (n - Need[s]) \div Takes[s] + 1

\* mixAudio() with samplesLeft as the callback has read it; frames left is
\* rounded towards zero.  With a negative number of frames to write
\* there is no step: see Dead.
FramesLeft(i, left) == IF left < 0 THEN 0 - ((0 - left) \div Channels[i])
                       ELSE left \div Channels[i]

\* The frames to feed: those that become the frames to write at the tempo of
\* the track, rounded, and what is missing from the reserve if the track has
\* more than that left.
AtTempo(i, frames) == (2 * frames * tempo[i] + Unit) \div (2 * Unit)
TopsUp(i, frames) == ready[i] < Reserve /\ Reserve - ready[i] < frames
AdjustedUncapped(i, frames) ==
    AtTempo(i, Lesser(Burst, frames)) + IF TopsUp(i, frames) THEN Reserve - ready[i] ELSE 0
AdjustedWriteFrames(i, frames) == Lesser(AdjustedUncapped(i, frames), frames)

\* receiveSamples(): no more than there are.
ReceivedUnchecked(available, wanted) == wanted
Received(available, wanted) == Lesser(wanted, available)

MixAudio(i, left) ==
    LET frames == FramesLeft(i, left)
        write == Lesser(Burst, frames)
        adjusted == AdjustedWriteFrames(i, frames)
        fed == inside[i] + adjusted
        batches == Batches(Setting(i), fed)
        got == ready[i] + batches * Gives[Setting(i)]
        next == cursor[i] + adjusted * Channels[i]
    IN \/ /\ write = 0 \/ ~playing[i]
          /\ UNCHANGED tracks
       \/ /\ write > 0 /\ playing[i]
          /\ inside' = [inside EXCEPT ![i] = fed - batches * Takes[Setting(i)]]
          /\ ready' = [ready EXCEPT ![i] = got - Received(got, write)]
          /\ cursor' = [cursor EXCEPT ![i] = next]
          /\ playing' = [playing EXCEPT ![i] = next < NumSamples(i)]

(***************************************************************************)
(* The audio callback: onAudioReady()                                      *)
(***************************************************************************)

\* Go on with the next track, or with step after at track 0.
NextTrack(after) == IF cb.track = Last THEN [cb EXCEPT !.at = after, !.track = 0]
                    ELSE [cb EXCEPT !.track = @ + 1]

PitchChangedAtLast == pitch # noted[Last]
PitchChanged == pitch # noted[0]

CallbackStart ==
    /\ cb.at = "idle" /\ MayCallBack
    /\ cb' = IF PitchChanged
               THEN [cb EXCEPT !.at = "note", !.ref = cursor[0] - 2 * ready[0],
                               !.pressed = FALSE]
               ELSE [cb EXCEPT !.at = "read", !.pressed = FALSE]
    /\ op' = IF Looping THEN [op EXCEPT !.met = @ + 1] ELSE op
    /\ apart' = (Looping \/ (apart /\ ~PitchChanged))
    /\ UNCHANGED <<tracks, pitches, tempo, torn, outdated>>

\* The first half of the pitch adjustment of a track: the reference is halved
\* for a mono track and stays halved.
NotePitch ==
    LET i == cb.track
        ref == ForChannels(i, cb.ref)
    IN /\ cb.at = "note"
       /\ noted' = [noted EXCEPT ![i] = pitch]
       /\ SetCurrentSampleIndex(i, ref)
       /\ cb' = [cb EXCEPT !.at = "apply", !.ref = ref]
       /\ torn' = (torn \/ Looping)
       /\ UNCHANGED <<playing, pitch, applied, tempo, op, apart, outdated>>

\* The second half reads mCurrentPitch again.
ApplyPitch ==
    /\ cb.at = "apply"
    /\ applied' = [applied EXCEPT ![cb.track] = IF cb.track \in Ignored THEN 0 ELSE pitch]
    /\ cb' = IF cb.track = Last THEN [cb EXCEPT !.at = "read", !.track = 0, !.ref = 0]
             ELSE [cb EXCEPT !.at = "note", !.track = @ + 1]
    /\ UNCHANGED <<tracks, pitch, noted, tempo, op, histories>>

ReadCursor ==
    /\ cb.at = "read"
    /\ cb' = IF playing[cb.track]
               THEN [cb EXCEPT !.at = "mix",
                               !.left = NumSamples(cb.track) - cursor[cb.track]]
               ELSE NextTrack("idle")
    /\ UNCHANGED <<tracks, pitches, tempo, op, histories>>

MixTrack ==
    /\ cb.at = "mix"
    /\ MixAudio(cb.track, cb.left)
    /\ cb' = [NextTrack("idle") EXCEPT !.at = IF cb.track = Last THEN "idle" ELSE "read",
                                       !.left = 0]
    /\ outdated' = (outdated \/ cb.left # NumSamples(cb.track) - cursor[cb.track])
    /\ UNCHANGED <<pitches, tempo, op, torn, apart>>

CallbackStep == CallbackStart \/ NotePitch \/ ApplyPitch \/ ReadCursor \/ MixTrack

(***************************************************************************)
(* Handlers                                                                *)
(***************************************************************************)

\* A handler is called; its loop over the tracks begins with track 0.
Begin(what, arg) ==
    /\ MayHandle
    /\ op.at = "none"
    /\ op' = [op EXCEPT !.at = what, !.arg = arg]
    /\ UNCHANGED <<tracks, pitches, tempo, cb, histories>>

\* Play/Pause: track 0 decides, and gives the position to play from.
PlayPause == /\ Presses
             /\ \/ playing[0] /\ Begin("stop", 0)
                \/ ~playing[0] /\ Begin("play", cursor[0])

\* setCurrentTimeInSeconds(): the time, as a sample of a stereo track.
Seek(point) == Begin("seek", point)

\* A tempo button.
PressTempo(t) == t # tempo[0] /\ Begin("tempo", t)

HandlerStep ==
    /\ op.at # "none" /\ MayHandle
    /\ \/ op.at = "play" /\ SetPlayMode(op.track, op.arg) /\ UNCHANGED tempo
       \/ op.at = "stop" /\ SetStopMode(op.track) /\ UNCHANGED tempo
       \/ /\ op.at = "seek"
          /\ SetCurrentSampleIndex(op.track, ForChannels(op.track, op.arg))
          /\ UNCHANGED <<playing, tempo>>
       \/ /\ op.at = "tempo"
          /\ tempo' = [tempo EXCEPT ![op.track] = op.arg]
          /\ UNCHANGED tracks
    /\ op' = IF op.track = Last THEN [at |-> "none", track |-> 0, arg |-> 0, met |-> 0]
             ELSE [op EXCEPT !.track = @ + 1]
    /\ torn' = (torn \/ Adjusting)
    /\ apart' = (cb.at # "idle" \/ (apart /\ ~(op.track = 0 /\ op.at \in {"play", "seek"})))
    /\ UNCHANGED <<pitches, cb, outdated>>

\* A pitch button: the callback will apply it.  The user is not fast enough to
\* press twice during one callback.
PressPitch(p) ==
    /\ MayHandle
    /\ p # pitch
    /\ ~cb.pressed
    /\ pitch' = p
    /\ cb' = [cb EXCEPT !.pressed = cb.at # "idle"]
    /\ UNCHANGED <<tracks, noted, applied, tempo, op, histories>>

Next == \/ CallbackStep
        \/ HandlerStep
        \/ PlayPause
        \/ \E point \in SeekPoints : Seek(point)
        \/ \E t \in Tempos : PressTempo(t)
        \/ \E p \in Pitches : PressPitch(p)

Spec == Init /\ [][Next]_vars

\* The device keeps asking for audio and a handler's loop runs to its end; the
\* user need not press anything.
FairSpec == Spec /\ WF_vars(CallbackStep) /\ SF_vars(HandlerStep)

(***************************************************************************)
(* Properties                                                              *)
(***************************************************************************)

Settled == cb.at = "idle" /\ op.track = 0

\* Types of the shared members and of the locals of the callback.
TypeOK == /\ cursor \in [Tracks -> Nat]
          /\ playing \in [Tracks -> BOOLEAN]
          /\ inside \in [Tracks -> Nat]
          /\ ready \in [Tracks -> Nat]
          /\ pitch \in Pitches
          /\ noted \in [Tracks -> Pitches]
          /\ applied \in [Tracks -> Pitches]
          /\ cb \in [at : {"idle", "note", "apply", "read", "mix"}, track : Tracks,
                     ref : Int, left : Int, pressed : BOOLEAN]
          /\ tempo \in [Tracks -> Tempos]
          /\ op \in [at : {"none", "play", "stop", "seek", "tempo"}, track : Tracks,
                     arg : Nat, met : 0 .. Meets]
          /\ torn \in BOOLEAN /\ apart \in BOOLEAN /\ outdated \in BOOLEAN

\* No cursor leaves its buffer, so mixAudio() never feeds SoundTouch from
\* beyond the end and never computes a negative number of frames, until a
\* handler moves a track between the callback's read of its cursor and its +=.
\* A track that is shorter than track 0, whose position setPlayMode() gives to all
\* of them, is excepted.
InsideBuffer ==
    ~outdated => /\ \A i \in Tracks : Frames[0] <= Frames[i] => cursor[i] <= NumSamples(i)
                 /\ Frames[0] <= Frames[cb.track] => cb.left >= 0

FramesOf(i) == cursor[i] \div Channels[i]

\* Track i has more than the reserve left: nearer its end it is no longer topped
\* up with the others.
Midway(i) == FramesOf(i) + Reserve < Frames[i]

\* Tracks of one size, as the stems of a song.
Twins(i, j) == Channels[i] = Channels[j] /\ Frames[i] = Frames[j]

\* A seek, a play or a pitch adjustment that no other loop meets brings all
\* tracks to one frame with nothing on its way, whatever was before, and then all
\* that play at the same pitch stay together, at any tempo, until a handler's loop
\* meets a callback: stems of one length up to the end, others as long as both
\* are midway.
SameTime ==
    Settled /\ ~apart =>
        \A i, j \in {k \in Tracks : playing[k]} :
            applied[i] = applied[j] /\ (Twins(i, j) \/ (Midway(i) /\ Midway(j))) =>
                /\ FramesOf(i) = FramesOf(j)
                /\ inside[i] = inside[j] /\ ready[i] = ready[j]

\* The frame of track i that is heard: what it was fed but for what is on its way.
Heard(i) == FramesOf(i) - inside[i] - ready[i]

\* A seek or a play whose loop meets callbacks leaves the tracks apart, by no
\* more than a burst for each callback that it meets, the one it begins in and
\* the ones that start during it, and the frames that SoundTouch waits for beyond
\* the reserve; also when it hits a callback between reading a cursor and moving
\* it, and whether a track follows the pitch or ignores it.  Only a pitch adjustment that meets a handler's loop
\* tears them further apart, and near its end a track falls behind.  (At one
\* tempo.)
SkewBounded ==
    Settled /\ ~torn =>
        \A i, j \in {k \in Tracks : playing[k] /\ Midway(k)} :
            Heard(i) - Heard(j) <= (Meets + 1) * Burst + Lack

\* The callback is about to make a vector of a negative size, and dies.
Dead == cb.at = "mix" /\ playing[cb.track] /\ FramesLeft(cb.track, cb.left) < 0

\* When the callback notices no change of pitch, there is none to be made: every
\* track that does not ignore pitch is at the pitch of the player, whatever was
\* pressed while the pitch was adjusted.
PitchNotMissed ==
    ~Adjusting /\ ~PitchChanged =>
        \A i \in Tracks : applied[i] = IF i \in Ignored THEN 0 ELSE pitch

\* A pitch that is pressed reaches every track that does not ignore pitch,
\* unless another is pressed, also when it is pressed in the middle of the
\* callback that applies an earlier one.
PitchReachesAll ==
    \A p \in Pitches :
        pitch = p ~> \/ pitch # p \/ Dead
                     \/ \A i \in Tracks : applied[i] = IF i \in Ignored THEN 0 ELSE p

\* "play through ONCE when triggered" (OneShotSampleSource): a track that plays
\* stops some time.
PlaysThroughOnce == \A i \in Tracks : playing[i] ~> ~playing[i]

\* "play through ONCE when triggered": when a track has been played to its end,
\* no processed frame is left unheard in SoundTouch.
NothingUnheard ==
    \A i \in Tracks :
        cursor[i] >= NumSamples(i) /\ ~playing[i] => ready[i] = 0

=============================================================================
