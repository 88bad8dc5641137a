----------------------------- MODULE Transport ------------------------------
(***************************************************************************)
(* The play/pause transport of SimpleMultiPlayer: triggerDown() and        *)
(* triggerUp() each start a detached thread, each of which starts a        *)
(* detached fade thread, and none of them is ever joined, cancelled or     *)
(* locked out by another.  They share the gains and playing flags of the   *)
(* tracks and the vector mInitialGains.                                    *)
(*                                                                         *)
(* One step of a thread is one access to a shared variable; handlers that  *)
(* run on the UI thread are one step.  The tracks are loaded and the       *)
(* stream runs.  The write-only flags mFading and mFadeDurationMs are left *)
(* out.  A fade step that multiplies by step / Steps rounds down, so gains *)
(* are integers 0 .. Unity.                                                *)
(***************************************************************************)
EXTENDS Integers, Sequences

CONSTANTS NumTracks,   \* number of loaded tracks, mNumSampleBuffers
          Steps,       \* steps of a fade (300 in the code)
          Unity,       \* gain 1.0f: initial gain, slider maximum, fallback
          Volumes,     \* slider positions the user chooses from
          Threads,     \* slots for detached threads: bounds the presses whose
                       \* threads are alive at once
          Patient      \* TRUE: the user presses Play/Pause only when the
                       \* threads of the last press have ended, and leaves
                       \* the sliders alone during a fade-in

ASSUME TransportAssumption ==
    /\ NumTracks \in Nat \ {0}
    /\ Steps \in Nat \ {0}
    /\ Unity \in Nat
    /\ Volumes \subseteq 0 .. Unity
    /\ Patient \in BOOLEAN

Tracks == 0 .. NumTracks - 1
Gains == 0 .. Unity

VARIABLES
    volume,    \* volume[i]: playerNVolume of the view model, what slider i shows
    gain,      \* gain[i]: mGain of source i, what the callback mixes with
    playing,   \* playing[i]: mIsPlaying of source i
    stored,    \* mInitialGains
    pc,        \* pc[t]: where trigger thread t stands
    track,     \* track[t]: its loop variable
    fade,      \* fade[t]: where the fade thread started by t stands
    ftrack,    \* ftrack[t]: its inner loop variable
    step,      \* step[t]: its outer loop variable; the closing loop that sets
               \* the target is step = Steps
    from,      \* from[t]: initialGains, local to fadeGain()'s thread
    seen       \* seen[t]: newGain, local to fadeGainToStored()'s thread

vars == <<volume, gain, playing, stored, pc, track, fade, ftrack, step, from, seen>>

TriggerPCs == {"free", "play", "wait20", "clear", "push", "wait200", "stop"}
FadePCs == {"none", "capture", "fadeOut", "inRead", "inWrite", "inClear"}
FadingIn == {"inRead", "inWrite", "inClear"}

Busy(t) == pc[t] # "free" \/ fade[t] # "none"
Quiescent == \A t \in Threads : ~Busy(t)
SomeFadeIn == \E t \in Threads : fade[t] \in FadingIn

MayPress == Patient => Quiescent
MaySlide == Patient => ~SomeFadeIn

Init == /\ volume = [i \in Tracks |-> Unity]
        /\ gain = [i \in Tracks |-> Unity]
        /\ playing = [i \in Tracks |-> FALSE]
        /\ stored = <<>>
        /\ pc = [t \in Threads |-> "free"]
        /\ track = [t \in Threads |-> 0]
        /\ fade = [t \in Threads |-> "none"]
        /\ ftrack = [t \in Threads |-> 0]
        /\ step = [t \in Threads |-> 0]
        /\ from = [t \in Threads |-> [i \in Tracks |-> 0]]
        /\ seen = [t \in Threads |-> 0]

(***************************************************************************)
(* UI thread                                                               *)
(***************************************************************************)

\* The Play/Pause button: track 0 decides which trigger is called; the
\* trigger only starts its thread.
PlayPause(t) ==
    /\ MayPress
    /\ ~Busy(t)
    /\ pc' = [pc EXCEPT ![t] = IF playing[0] THEN "clear" ELSE "play"]
    /\ track' = [track EXCEPT ![t] = 0]
    /\ UNCHANGED <<volume, gain, playing, stored, fade, ftrack, step, from, seen>>

\* setGain(): the gain changes at once, the remembered gain if there is one.
SetGain(i, g) ==
    /\ gain' = [gain EXCEPT ![i] = g]
    /\ stored' = IF i < Len(stored) THEN [stored EXCEPT ![i + 1] = g] ELSE stored

\* A volume slider.
Slide(i, v) ==
    /\ MaySlide
    /\ volume' = [volume EXCEPT ![i] = v]
    /\ SetGain(i, v)
    /\ UNCHANGED <<playing, pc, track, fade, ftrack, step, from, seen>>

(***************************************************************************)
(* Audio callback: a track that has been played to its end stops itself.   *)
(***************************************************************************)
EndOfTrack(i) ==
    /\ playing[i]
    /\ playing' = [playing EXCEPT ![i] = FALSE]
    /\ UNCHANGED <<volume, gain, stored, pc, track, fade, ftrack, step, from, seen>>

(***************************************************************************)
(* Trigger threads                                                         *)
(***************************************************************************)

\* for (i = 0; i < mNumSampleBuffers; ++i) ...: the next iteration, or the
\* statement after the loop.
Iterate(t, after) ==
    IF track[t] < NumTracks - 1
      THEN /\ track' = [track EXCEPT ![t] = @ + 1]
           /\ UNCHANGED pc
      ELSE /\ track' = [track EXCEPT ![t] = 0]
           /\ pc' = [pc EXCEPT ![t] = after]

SetPlayMode(t) ==
    /\ pc[t] = "play"
    /\ playing' = [playing EXCEPT ![track[t]] = TRUE]
    /\ Iterate(t, "wait20")
    /\ UNCHANGED <<volume, gain, stored, fade, ftrack, step, from, seen>>

\* The 20 ms sleep ends; fadeGainToStored() starts the fade-in thread.
StartFadeIn(t) ==
    /\ pc[t] = "wait20"
    /\ pc' = [pc EXCEPT ![t] = "free"]
    /\ fade' = [fade EXCEPT ![t] = "inRead"]
    /\ ftrack' = [ftrack EXCEPT ![t] = 0]
    /\ step' = [step EXCEPT ![t] = 0]
    /\ UNCHANGED <<volume, gain, playing, stored, track, from, seen>>

\* mInitialGains.clear()
ForgetNothing == UNCHANGED stored
Forget == stored' = <<>>

\* fadeGain(0.0f): forget the remembered gains, remember the current ones ...
ClearStored(t) ==
    /\ pc[t] = "clear"
    /\ Forget
    /\ pc' = [pc EXCEPT ![t] = "push"]
    /\ UNCHANGED <<volume, gain, playing, track, fade, ftrack, step, from, seen>>

\* ... and after the last one start the fade-out thread.
PushGain(t) ==
    /\ pc[t] = "push"
    /\ stored' = Append(stored, gain[track[t]])
    /\ Iterate(t, "wait200")
    /\ IF track[t] = NumTracks - 1
         THEN /\ fade' = [fade EXCEPT ![t] = "capture"]
              /\ ftrack' = [ftrack EXCEPT ![t] = 0]
              /\ step' = [step EXCEPT ![t] = 0]
         ELSE UNCHANGED <<fade, ftrack, step>>
    /\ UNCHANGED <<volume, gain, playing, from, seen>>

\* The 200 ms sleep ends, whatever the fade-out thread has done by then.
Wake(t, next) ==
    /\ pc[t] = "wait200"
    /\ pc' = [pc EXCEPT ![t] = next]
    /\ UNCHANGED <<volume, gain, playing, stored, track, fade, ftrack, step, from, seen>>

WakeAfterStop(t) == Wake(t, "free")
WakeToStop(t) == Wake(t, "stop")

SetStopMode(t) ==
    /\ pc[t] = "stop"
    /\ playing' = [playing EXCEPT ![track[t]] = FALSE]
    /\ Iterate(t, "free")
    /\ UNCHANGED <<volume, gain, stored, fade, ftrack, step, from, seen>>

(***************************************************************************)
(* Fade threads                                                            *)
(***************************************************************************)

\* setGainFromFade(): the remembered gain stays.
SetGainFromFade(i, g) ==
    /\ gain' = [gain EXCEPT ![i] = g]
    /\ UNCHANGED stored

\* The nested loops over the steps and the tracks, entered again at pc head
\* and left at pc after; the closing loop that sets the target is the step
\* numbered Steps.
IterateFadeTo(t, head, after, closing) ==
    \/ /\ ftrack[t] < NumTracks - 1
       /\ ftrack' = [ftrack EXCEPT ![t] = @ + 1]
       /\ fade' = [fade EXCEPT ![t] = head]
       /\ UNCHANGED step
    \/ /\ ftrack[t] = NumTracks - 1
       /\ step[t] < closing
       /\ ftrack' = [ftrack EXCEPT ![t] = 0]
       /\ step' = [step EXCEPT ![t] = @ + 1]
       /\ fade' = [fade EXCEPT ![t] = head]
    \/ /\ ftrack[t] = NumTracks - 1
       /\ step[t] = closing
       /\ fade' = [fade EXCEPT ![t] = after]
       /\ UNCHANGED <<ftrack, step>>

IterateFadeNoClosing(t, head, after) == IterateFadeTo(t, head, after, Steps - 1)
IterateFade(t, head, after) == IterateFadeTo(t, head, after, Steps)

CaptureGain(t) ==
    /\ fade[t] = "capture"
    /\ from' = [from EXCEPT ![t][ftrack[t]] = gain[ftrack[t]]]
    /\ IF ftrack[t] < NumTracks - 1
         THEN /\ ftrack' = [ftrack EXCEPT ![t] = @ + 1]
              /\ UNCHANGED fade
         ELSE /\ ftrack' = [ftrack EXCEPT ![t] = 0]
              /\ fade' = [fade EXCEPT ![t] = "fadeOut"]
    /\ UNCHANGED <<volume, gain, playing, stored, pc, track, step, seen>>

FadedOutReversed(g, s) == (g * (s - Steps)) \div Steps
FadedOut(g, s) == (g * (Steps - s)) \div Steps
FadedIn(g, s) == (g * s) \div Steps

FadeOutStep(t) ==
    /\ fade[t] = "fadeOut"
    /\ SetGainFromFade(ftrack[t], FadedOut(from[t][ftrack[t]], step[t]))
    /\ IterateFade(t, "fadeOut", "none")
    /\ UNCHANGED <<volume, playing, pc, track, from, seen>>

\* The remembered gain of track i, or 1.0f if there is none.
StoredGain(i) == IF i < Len(stored) THEN stored[i + 1] ELSE Unity

FadeInRead(t) ==
    /\ fade[t] = "inRead"
    /\ seen' = [seen EXCEPT ![t] = FadedIn(StoredGain(ftrack[t]), step[t])]
    /\ fade' = [fade EXCEPT ![t] = "inWrite"]
    /\ UNCHANGED <<volume, gain, playing, stored, pc, track, ftrack, step, from>>

FadeInWrite(t) ==
    /\ fade[t] = "inWrite"
    /\ SetGainFromFade(ftrack[t], seen[t])
    /\ IterateFade(t, "inRead", "inClear")
    /\ UNCHANGED <<volume, playing, pc, track, from, seen>>

FadeInEnd(t) ==
    /\ fade[t] = "inClear"
    /\ Forget
    /\ fade' = [fade EXCEPT ![t] = "none"]
    /\ UNCHANGED <<volume, gain, playing, pc, track, ftrack, step, from, seen>>

TriggerStep(t) == \/ SetPlayMode(t)
                  \/ StartFadeIn(t)
                  \/ ClearStored(t)
                  \/ PushGain(t)
                  \/ WakeToStop(t)
                  \/ SetStopMode(t)

FadeStep(t) == \/ CaptureGain(t)
               \/ FadeOutStep(t)
               \/ FadeInRead(t)
               \/ FadeInWrite(t)
               \/ FadeInEnd(t)

Next == \/ \E t \in Threads : PlayPause(t) \/ TriggerStep(t) \/ FadeStep(t)
        \/ \E i \in Tracks, v \in Volumes : Slide(i, v)
        \/ \E i \in Tracks : EndOfTrack(i)

Spec == Init /\ [][Next]_vars

\* The system schedules every detached thread and every sleep ends; nothing
\* obliges the user to press anything or a track to end.
Fairness == \A t \in Threads : WF_vars(TriggerStep(t)) /\ WF_vars(FadeStep(t))

FairSpec == Spec /\ Fairness

(***************************************************************************)
(* Properties                                                              *)
(***************************************************************************)

\* Types: gains stay between silence and unity through every fade, and the
\* remembered gains are gains, whichever threads of triggerDown() and
\* triggerUp() overlap.
TypeOK == /\ volume \in [Tracks -> Gains]
          /\ gain \in [Tracks -> Gains]
          /\ playing \in [Tracks -> BOOLEAN]
          /\ stored \in Seq(Gains)
          /\ pc \in [Threads -> TriggerPCs]
          /\ track \in [Threads -> Tracks]
          /\ fade \in [Threads -> FadePCs]
          /\ ftrack \in [Threads -> Tracks]
          /\ step \in [Threads -> 0 .. Steps]
          /\ from \in [Threads -> [Tracks -> Gains]]
          /\ seen \in [Threads -> Gains]

\* When all threads of fadeGain() and fadeGainToStored() have ended, the gains
\* are remembered for all tracks or for none, and for all only while no track
\* plays: the next setGain(), triggerDown() or triggerUp() finds no leftover
\* of an earlier pause.  (Needs Patient.)
Settled == Quiescent => \/ stored = <<>>
                        \/ Len(stored) = NumTracks /\ \A i \in Tracks : ~playing[i]

\* What carries Settled and ImplementsDesk through every step when the user is
\* patient: only one press is under way, and at each point of its two threads
\* stored, gain and playing are what the point has made of them.
OneAtATime == \A t, u \in Threads : Busy(t) /\ Busy(u) => t = u

AllOrNone == stored = <<>> \/ Len(stored) = NumTracks

PausePoint(t) ==
    /\ pc[t] \in {"clear", "wait200"} => track[t] = 0
    /\ pc[t] = "clear" => fade[t] = "none" /\ stored = <<>>
    /\ pc[t] = "push" => /\ fade[t] = "none"
                         /\ Len(stored) = track[t]
                         /\ \A i \in Tracks : i < track[t] => stored[i + 1] = gain[i]
    /\ pc[t] \in {"wait200", "stop"} => /\ fade[t] \in {"none", "capture", "fadeOut"}
                                       /\ Len(stored) = NumTracks
    /\ pc[t] = "stop" => \A i \in Tracks : i < track[t] => ~playing[i]
    /\ fade[t] \in {"capture", "fadeOut"} =>
           /\ Len(stored) = NumTracks
           /\ pc[t] \in {"wait200", "stop", "free"}
           /\ pc[t] = "free" => \A i \in Tracks : ~playing[i]

PlayPoint(t) ==
    /\ pc[t] \in {"play", "wait20"} => fade[t] = "none" /\ AllOrNone
    /\ fade[t] \in FadingIn => pc[t] = "free" /\ AllOrNone
    /\ fade[t] = "inWrite" => seen[t] = FadedIn(StoredGain(ftrack[t]), step[t])
    /\ fade[t] \in {"inRead", "inWrite"} /\ step[t] = Steps =>
           \A i \in Tracks : i < ftrack[t] => gain[i] = StoredGain(i)
    /\ fade[t] = "inClear" => \A i \in Tracks : gain[i] = StoredGain(i)

PatientInv == /\ OneAtATime
              /\ Settled
              /\ \A t \in Threads : PausePoint(t) /\ PlayPoint(t)

\* The volume track i has or will return to: what fadeGain() has remembered
\* of it; the 1.0f a fade-in without remembered gains is heading for; or the
\* gain itself.
Level(i) == IF i < Len(stored) THEN stored[i + 1]
            ELSE IF SomeFadeIn THEN Unity
            ELSE gain[i]

Desk == INSTANCE VolumeDesk WITH level <- [i \in Tracks |-> Level(i)],
                                 held <- Len(stored) = NumTracks

\* Pausing and resuming never change a volume: every step of every thread is
\* a step of VolumeDesk or none at all, so only a slider, or a start with
\* nothing remembered, moves a level.  (Needs Patient.)
ImplementsDesk == Desk!Spec

\* A pause (triggerUp()) ends, in whichever order its stop loop and its
\* fade-out finish, with every track stopped and every gain remembered.
\* (Needs Patient.)
PauseEnds ==
    \A t \in Threads :
        pc[t] = "clear" ~> /\ Quiescent
                          /\ Len(stored) = NumTracks
                          /\ \A i \in Tracks : ~playing[i]

\* A resume (triggerDown()) that finds gains g remembered when its fade-in
\* starts ends with exactly these gains, whatever the rounding of the steps,
\* and with nothing remembered any more.  (Needs Patient.)
PlayRestores ==
    \A t \in Threads, g \in [Tracks -> Gains] :
        /\ fade[t] = "inRead"
        /\ Len(stored) = NumTracks
        /\ \A i \in Tracks : stored[i + 1] = g[i]
        ~> Quiescent /\ gain = g /\ stored = <<>>

\* "Store initial gains before fading to 0.0f" (fadeGain()): while every slider
\* is left where it was when the tracks were loaded, what is remembered is
\* what the sliders show.  (Checked with Volumes = {Unity}.)
RemembersGainsBeforeFading ==
    \A i \in Tracks : i < Len(stored) => stored[i + 1] = volume[i]

=============================================================================
