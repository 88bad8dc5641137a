-------------------------- MODULE Transport_proofs --------------------------
(***************************************************************************)
(* Theorems about Transport, for every number of tracks, fade steps,       *)
(* gains and threads.                                                      *)
(***************************************************************************)
EXTENDS Transport, TLAPS

(***************************************************************************)
(* Arithmetic of a fade step, and updating one element of mInitialGains.   *)
(***************************************************************************)

\* A fade-out step of fadeGain() is a gain again.
LEMMA FadedOutType ==
    ASSUME NEW g \in Gains, NEW s \in 0 .. Steps
    PROVE  FadedOut(g, s) \in Gains
BY TransportAssumption DEF FadedOut, Gains

\* A fade-in step of fadeGainToStored() is a gain again.
LEMMA FadedInType ==
    ASSUME NEW g \in Gains, NEW s \in 0 .. Steps
    PROVE  FadedIn(g, s) \in Gains
BY TransportAssumption DEF FadedIn, Gains

\* The closing loop of fadeGainToStored() sets the target exactly.
LEMMA FadedInEnd ==
    ASSUME NEW g \in Gains
    PROVE  FadedIn(g, Steps) = g
BY TransportAssumption DEF FadedIn, Gains

\* Replacing one element of a sequence keeps the others and the length.
LEMMA ExceptSeq ==
    ASSUME NEW S, NEW s \in Seq(S), NEW i \in 1 .. Len(s), NEW v \in S
    PROVE  /\ [s EXCEPT ![i] = v] \in Seq(S)
           /\ Len([s EXCEPT ![i] = v]) = Len(s)
           /\ \A j \in 1 .. Len(s) : [s EXCEPT ![i] = v][j] = IF j = i THEN v ELSE s[j]
OBVIOUS

\* What a fade-in is heading for is a gain.
LEMMA StoredGainType ==
    ASSUME TypeOK, NEW i \in Tracks
    PROVE  StoredGain(i) \in Gains
BY TransportAssumption DEF TypeOK, StoredGain, Tracks, Gains

\* setGain() replaces the gain and, if there is one, the remembered gain.
LEMMA SetGainEffect ==
    ASSUME TypeOK, NEW i \in Tracks, NEW v \in Volumes, SetGain(i, v)
    PROVE  /\ gain' \in [Tracks -> Gains] /\ stored' \in Seq(Gains)
           /\ Len(stored') = Len(stored)
           /\ stored = <<>> => stored' = <<>>
           /\ gain' = [gain EXCEPT ![i] = v]
           /\ \A j \in Tracks :
                 j < Len(stored) => stored'[j + 1] = IF j = i THEN v ELSE stored[j + 1]
           /\ \A j \in Tracks :
                 j < Len(stored) /\ stored[j + 1] = gain[j] => stored'[j + 1] = gain'[j]
<1>1. v \in Gains /\ stored \in Seq(Gains) /\ gain \in [Tracks -> Gains]
    BY TransportAssumption DEF Gains, TypeOK
<1>2. gain' = [gain EXCEPT ![i] = v]
    BY DEF SetGain
<1>3. CASE i < Len(stored)
  <2>1. i + 1 \in 1 .. Len(stored)
      BY <1>1, <1>3 DEF Tracks
  <2>2. stored' = [stored EXCEPT ![i + 1] = v]
      BY <1>3 DEF SetGain
  <2>3. \A j \in 1 .. Len(stored) : stored'[j] = IF j = i + 1 THEN v ELSE stored[j]
      BY <1>1, <2>1, <2>2, ExceptSeq
  <2>4. Len(stored') = Len(stored) /\ stored' \in Seq(Gains)
      BY <1>1, <2>1, <2>2, ExceptSeq
  <2>5. \A j \in Tracks :
           j < Len(stored) => stored'[j + 1] = IF j = i THEN v ELSE stored[j + 1]
      BY <1>1, <2>3 DEF Tracks
  <2> QED BY <1>1, <1>2, <1>3, <2>4, <2>5
<1>4. CASE ~(i < Len(stored))
  <2>1. stored' = stored
      BY <1>4 DEF SetGain
  <2> QED BY <1>1, <1>2, <1>4, <2>1
<1> QED BY <1>3, <1>4

(***************************************************************************)
(* Types                                                                   *)
(***************************************************************************)

\* A loop over the tracks stays among the tracks.
LEMMA TracksLoop ==
    /\ 0 \in Tracks
    /\ \A k \in Tracks : k < NumTracks - 1 => k + 1 \in Tracks
BY TransportAssumption DEF Tracks

LEMMA IterateType ==
    ASSUME TypeOK, NEW t \in Threads, NEW after \in TriggerPCs, Iterate(t, after)
    PROVE  /\ pc' \in [Threads -> TriggerPCs]
           /\ track' \in [Threads -> Tracks]
<1>1. track[t] \in Tracks
    BY DEF TypeOK
<1>2. CASE track[t] < NumTracks - 1
    BY <1>1, <1>2, TracksLoop DEF TypeOK, Iterate
<1>3. CASE ~(track[t] < NumTracks - 1)
    BY <1>3, TracksLoop DEF TypeOK, Iterate
<1> QED BY <1>2, <1>3

LEMMA IterateFadeType ==
    ASSUME TypeOK, NEW t \in Threads, NEW head \in FadePCs, NEW after \in FadePCs,
           IterateFade(t, head, after)
    PROVE  /\ fade' \in [Threads -> FadePCs]
           /\ ftrack' \in [Threads -> Tracks]
           /\ step' \in [Threads -> 0 .. Steps]
<1>1. ftrack[t] \in Tracks /\ step[t] \in 0 .. Steps
    BY DEF TypeOK
<1>2. fade' \in [Threads -> FadePCs]
    BY DEF TypeOK, IterateFade, IterateFadeTo
<1>3. ftrack' \in [Threads -> Tracks]
    BY <1>1, TracksLoop DEF TypeOK, IterateFade, IterateFadeTo
<1>4. step' \in [Threads -> 0 .. Steps]
  <2>1. step[t] < Steps => step[t] + 1 \in 0 .. Steps
      BY <1>1, TransportAssumption
  <2> QED BY <2>1 DEF TypeOK, IterateFade, IterateFadeTo
<1> QED BY <1>2, <1>3, <1>4

LEMMA TypeInit == Init => TypeOK
BY TransportAssumption DEF Init, TypeOK, Tracks, Gains, TriggerPCs, FadePCs

LEMMA TypeStep == TypeOK /\ [Next]_vars => TypeOK'
<1> SUFFICES ASSUME TypeOK, [Next]_vars PROVE TypeOK'
    OBVIOUS
<1> USE TransportAssumption
<1>a. 0 \in Tracks /\ 0 \in Gains /\ Unity \in Gains /\ 0 \in 0 .. Steps
    BY DEF Tracks, Gains
<1>1. ASSUME NEW t \in Threads, PlayPause(t) PROVE TypeOK'
    BY <1>1, <1>a DEF PlayPause, TypeOK, TriggerPCs
<1>2. ASSUME NEW i \in Tracks, NEW v \in Volumes, Slide(i, v) PROVE TypeOK'
  <2>1. v \in Gains
      BY DEF Gains
  <2> QED BY <1>2, <2>1, SetGainEffect DEF Slide, TypeOK
<1>3. ASSUME NEW i \in Tracks, EndOfTrack(i) PROVE TypeOK'
    BY <1>3 DEF EndOfTrack, TypeOK
<1>4. ASSUME NEW t \in Threads, SetPlayMode(t) PROVE TypeOK'
    BY <1>4, IterateType DEF SetPlayMode, TypeOK, TriggerPCs
<1>5. ASSUME NEW t \in Threads, StartFadeIn(t) PROVE TypeOK'
    BY <1>5, <1>a DEF StartFadeIn, TypeOK, TriggerPCs, FadePCs
<1>6. ASSUME NEW t \in Threads, ClearStored(t) PROVE TypeOK'
    BY <1>6 DEF ClearStored, Forget, TypeOK, TriggerPCs
<1>7. ASSUME NEW t \in Threads, PushGain(t) PROVE TypeOK'
  <2>1. stored' \in Seq(Gains)
      BY <1>7 DEF PushGain, TypeOK
  <2>2. pc' \in [Threads -> TriggerPCs] /\ track' \in [Threads -> Tracks]
      BY <1>7, IterateType DEF PushGain, TypeOK, TriggerPCs
  <2>3. /\ fade' \in [Threads -> FadePCs] /\ ftrack' \in [Threads -> Tracks]
        /\ step' \in [Threads -> 0 .. Steps]
    <3>1. CASE track[t] = NumTracks - 1
        BY <1>7, <1>a, <3>1 DEF PushGain, TypeOK, FadePCs
    <3>2. CASE track[t] # NumTracks - 1
        BY <1>7, <3>2 DEF PushGain, TypeOK
    <3> QED BY <3>1, <3>2
  <2> QED BY <1>7, <2>1, <2>2, <2>3 DEF PushGain, TypeOK
<1>8. ASSUME NEW t \in Threads, WakeToStop(t) PROVE TypeOK'
    BY <1>8 DEF WakeToStop, Wake, TypeOK, TriggerPCs
<1>9. ASSUME NEW t \in Threads, SetStopMode(t) PROVE TypeOK'
    BY <1>9, IterateType DEF SetStopMode, TypeOK, TriggerPCs
<1>10. ASSUME NEW t \in Threads, CaptureGain(t) PROVE TypeOK'
  <2>1. ftrack[t] \in Tracks
      BY DEF TypeOK
  <2>2. from' \in [Threads -> [Tracks -> Gains]]
      BY <1>10, <2>1 DEF CaptureGain, TypeOK
  <2>3. ftrack' \in [Threads -> Tracks] /\ fade' \in [Threads -> FadePCs]
      BY <1>10, <2>1, TracksLoop DEF CaptureGain, TypeOK, FadePCs
  <2> QED BY <1>10, <2>2, <2>3 DEF CaptureGain, TypeOK
<1>11. ASSUME NEW t \in Threads, FadeOutStep(t) PROVE TypeOK'
  <2>1. FadedOut(from[t][ftrack[t]], step[t]) \in Gains
      BY FadedOutType DEF TypeOK
  <2> QED BY <1>11, <2>1, IterateFadeType DEF FadeOutStep, SetGainFromFade, TypeOK, FadePCs
<1>12. ASSUME NEW t \in Threads, FadeInRead(t) PROVE TypeOK'
  <2>1. FadedIn(StoredGain(ftrack[t]), step[t]) \in Gains
      BY StoredGainType, FadedInType DEF TypeOK
  <2> QED BY <1>12, <2>1 DEF FadeInRead, TypeOK, FadePCs
<1>13. ASSUME NEW t \in Threads, FadeInWrite(t) PROVE TypeOK'
    BY <1>13, IterateFadeType DEF FadeInWrite, SetGainFromFade, TypeOK, FadePCs
<1>14. ASSUME NEW t \in Threads, FadeInEnd(t) PROVE TypeOK'
    BY <1>14 DEF FadeInEnd, Forget, TypeOK, FadePCs
<1>15. CASE UNCHANGED vars
    BY <1>15 DEF vars, TypeOK
<1> QED
    BY <1>1, <1>2, <1>3, <1>4, <1>5, <1>6, <1>7, <1>8, <1>9, <1>10, <1>11, <1>12, <1>13,
       <1>14, <1>15 DEF Next, TriggerStep, FadeStep

\* Gains stay between silence and unity and mInitialGains holds gains only,
\* whatever presses, slider moves and threads overlap.
THEOREM TypeCorrect == Spec => []TypeOK
BY TypeInit, TypeStep, PTL DEF Spec

(***************************************************************************)
(* A patient user: at most one press is under way                          *)
(***************************************************************************)

\* While thread slot t is busy every other slot is idle.
LEMMA OthersIdle ==
    ASSUME TypeOK, OneAtATime, NEW t \in Threads, Busy(t)
    PROVE  \A u \in Threads : u # t => pc[u] = "free" /\ fade[u] = "none"
BY DEF OneAtATime, Busy

\* A step of slot t needs to re-establish the invariant for t only.
LEMMA OneThread ==
    ASSUME NEW t \in Threads,
           \A u \in Threads : u # t => (pc[u] = "free" /\ fade[u] = "none")',
           PausePoint(t)', PlayPoint(t)',
           (pc[t] = "free" /\ fade[t] = "none" =>
              \/ stored = <<>>
              \/ Len(stored) = NumTracks /\ \A i \in Tracks : ~playing[i])'
    PROVE  PatientInv'
<1>1. OneAtATime'
    BY DEF OneAtATime, Busy
<1>2. Settled'
    BY DEF Settled, Quiescent, Busy
<1>3. ASSUME NEW u \in Threads PROVE (PausePoint(u) /\ PlayPoint(u))'
  <2>1. CASE u = t
      BY <2>1
  <2>2. CASE u # t
      BY <2>2 DEF PausePoint, PlayPoint, FadingIn
  <2> QED BY <2>1, <2>2
<1> QED BY <1>1, <1>2, <1>3 DEF PatientInv

LEMMA PatientInit == Init => PatientInv
BY TransportAssumption
   DEF Init, PatientInv, OneAtATime, Busy, Settled, PausePoint, PlayPoint, FadingIn

LEMMA PatientPlayPause ==
    ASSUME Patient, TypeOK, TypeOK', PatientInv, NEW t \in Threads, PlayPause(t)
    PROVE  PatientInv'
<1>1. Quiescent /\ \A u \in Threads : pc[u] = "free" /\ fade[u] = "none"
    BY DEF PlayPause, MayPress, Quiescent, Busy
<1>2. \A u \in Threads : u # t => (pc[u] = "free" /\ fade[u] = "none")'
    BY <1>1 DEF PlayPause, TypeOK
<1>3. /\ pc'[t] \in {"clear", "play"} /\ track'[t] = 0 /\ fade'[t] = "none"
      /\ stored' = stored
    BY <1>1 DEF PlayPause, TypeOK
<1>4. pc'[t] = "clear" => stored = <<>>
  <2>1. pc'[t] = "clear" => playing[0]
      BY DEF PlayPause, TypeOK
  <2>2. 0 \in Tracks
      BY TracksLoop
  <2> QED BY <1>1, <2>1, <2>2 DEF PatientInv, Settled
<1>5. AllOrNone
    BY <1>1 DEF PatientInv, Settled, AllOrNone
<1>6. PausePoint(t)' /\ PlayPoint(t)'
    BY <1>3, <1>4, <1>5 DEF PausePoint, PlayPoint, AllOrNone, FadingIn
<1> QED BY <1>2, <1>3, <1>6, OneThread

LEMMA PatientSlide ==
    ASSUME Patient, TypeOK, TypeOK', PatientInv, NEW i \in Tracks, NEW v \in Volumes, Slide(i, v)
    PROVE  PatientInv'
<1>1. \A t \in Threads : fade[t] \notin FadingIn
    BY DEF Slide, MaySlide, SomeFadeIn
<1>2. UNCHANGED <<playing, pc, track, fade>>
    BY DEF Slide
<1>3. /\ Len(stored') = Len(stored)
      /\ stored = <<>> => stored' = <<>>
      /\ \A j \in Tracks : j < Len(stored) /\ stored[j + 1] = gain[j] => stored'[j + 1] = gain'[j]
    BY SetGainEffect DEF Slide
<1>4. OneAtATime'
    BY <1>2 DEF PatientInv, OneAtATime, Busy
<1>5. Settled'
    BY <1>2, <1>3 DEF PatientInv, Settled, Quiescent, Busy
<1>6. ASSUME NEW t \in Threads PROVE PausePoint(t)' /\ PlayPoint(t)'
  <2>1. PausePoint(t) /\ PlayPoint(t)
      BY DEF PatientInv
  <2>2. PausePoint(t)'
      BY <1>2, <1>3, <2>1 DEF PausePoint
  <2>3. PlayPoint(t)'
      BY <1>1, <1>2, <1>3, <2>1 DEF PlayPoint, AllOrNone, FadingIn
  <2> QED BY <2>2, <2>3
<1> QED BY <1>4, <1>5, <1>6 DEF PatientInv

LEMMA PatientEndOfTrack ==
    ASSUME TypeOK, TypeOK', PatientInv, NEW i \in Tracks, EndOfTrack(i)
    PROVE  PatientInv'
<1>1. \A j \in Tracks : ~playing[j] => ~playing'[j]
    BY DEF EndOfTrack, TypeOK
<1>2. UNCHANGED <<gain, stored, pc, track, fade, ftrack, step, seen>>
    BY DEF EndOfTrack
<1>3. OneAtATime'
    BY <1>2 DEF PatientInv, OneAtATime, Busy
<1>4. Settled'
    BY <1>1, <1>2 DEF PatientInv, Settled, Quiescent, Busy
<1>5. ASSUME NEW t \in Threads PROVE PausePoint(t)' /\ PlayPoint(t)'
  <2>1. PausePoint(t) /\ PlayPoint(t)
      BY DEF PatientInv
  <2>2. PausePoint(t)'
      BY <1>1, <1>2, <2>1 DEF PausePoint
  <2>3. PlayPoint(t)'
      BY <1>2, <2>1 DEF PlayPoint, AllOrNone, StoredGain
  <2> QED BY <2>2, <2>3
<1> QED BY <1>3, <1>4, <1>5 DEF PatientInv

LEMMA PatientSetPlayMode ==
    ASSUME TypeOK, TypeOK', PatientInv, NEW t \in Threads, SetPlayMode(t)
    PROVE  PatientInv'
<1>1. PausePoint(t) /\ PlayPoint(t) /\ OneAtATime /\ Busy(t)
    BY DEF PatientInv, SetPlayMode, Busy
<1>2. \A u \in Threads : u # t => (pc[u] = "free" /\ fade[u] = "none")'
    BY <1>1, OthersIdle DEF SetPlayMode, Iterate, TypeOK
<1>3. /\ pc'[t] \in {"play", "wait20"} /\ fade'[t] = "none"
      /\ stored' = stored /\ AllOrNone
    BY <1>1 DEF SetPlayMode, Iterate, TypeOK, PlayPoint
<1>4. PausePoint(t)' /\ PlayPoint(t)'
    BY <1>3 DEF PausePoint, PlayPoint, AllOrNone, FadingIn
<1> QED BY <1>2, <1>3, <1>4, OneThread

LEMMA PatientStartFadeIn ==
    ASSUME TypeOK, TypeOK', PatientInv, NEW t \in Threads, StartFadeIn(t)
    PROVE  PatientInv'
<1>1. PausePoint(t) /\ PlayPoint(t) /\ OneAtATime /\ Busy(t)
    BY DEF PatientInv, StartFadeIn, Busy
<1>2. \A u \in Threads : u # t => (pc[u] = "free" /\ fade[u] = "none")'
    BY <1>1, OthersIdle DEF StartFadeIn, TypeOK
<1>3. /\ pc'[t] = "free" /\ fade'[t] = "inRead" /\ ftrack'[t] = 0
      /\ stored' = stored /\ AllOrNone
    BY <1>1 DEF StartFadeIn, TypeOK, PlayPoint
<1>4. PausePoint(t)' /\ PlayPoint(t)'
    BY <1>3 DEF PausePoint, PlayPoint, AllOrNone, FadingIn, Tracks
<1> QED BY <1>2, <1>3, <1>4, OneThread

LEMMA PatientClearStored ==
    ASSUME TypeOK, TypeOK', PatientInv, NEW t \in Threads, ClearStored(t)
    PROVE  PatientInv'
<1>1. PausePoint(t) /\ PlayPoint(t) /\ OneAtATime /\ Busy(t)
    BY DEF PatientInv, ClearStored, Forget, Busy
<1>2. \A u \in Threads : u # t => (pc[u] = "free" /\ fade[u] = "none")'
    BY <1>1, OthersIdle DEF ClearStored, Forget, TypeOK
<1>3. track[t] = 0
    BY <1>1 DEF ClearStored, Forget, PausePoint
<1>4. /\ pc'[t] = "push" /\ fade'[t] = "none" /\ stored' = <<>> /\ track'[t] = 0
    BY <1>1, <1>3 DEF ClearStored, Forget, TypeOK, PausePoint
<1>5. PausePoint(t)' /\ PlayPoint(t)'
    BY <1>4 DEF PausePoint, PlayPoint, FadingIn, Tracks
<1> QED BY <1>2, <1>4, <1>5, OneThread

LEMMA PatientPushGain ==
    ASSUME TypeOK, TypeOK', PatientInv, NEW t \in Threads, PushGain(t)
    PROVE  PatientInv'
<1>1. PausePoint(t) /\ PlayPoint(t) /\ OneAtATime /\ Busy(t) /\ pc[t] = "push"
    BY DEF PatientInv, PushGain, Busy
<1>2. \A u \in Threads : u # t => (pc[u] = "free" /\ fade[u] = "none")'
  <2>1. \A u \in Threads : u # t => pc[u] = "free" /\ fade[u] = "none"
      BY <1>1, OthersIdle
  <2>2. \A u \in Threads : u # t => pc'[u] = pc[u]
      BY DEF PushGain, Iterate, TypeOK
  <2>3. \A u \in Threads : u # t => fade'[u] = fade[u]
      BY DEF PushGain, TypeOK
  <2> QED BY <2>1, <2>2, <2>3
<1>3. /\ Len(stored) = track[t] /\ fade[t] = "none" /\ track[t] \in Tracks
      /\ \A i \in Tracks : i < track[t] => stored[i + 1] = gain[i]
    BY <1>1 DEF PausePoint, TypeOK
<1>4. /\ Len(stored') = track[t] + 1 /\ gain' = gain
      /\ \A i \in Tracks : i < track[t] + 1 => stored'[i + 1] = gain[i]
  <2>1. stored \in Seq(Gains) /\ gain[track[t]] \in Gains
      BY <1>3 DEF TypeOK
  <2>2. stored' = Append(stored, gain[track[t]]) /\ gain' = gain
      BY DEF PushGain
  <2> QED BY <1>3, <2>1, <2>2 DEF Tracks
<1>5. CASE track[t] < NumTracks - 1
  <2>1. pc'[t] = "push" /\ track'[t] = track[t] + 1 /\ fade'[t] = "none"
      BY <1>1, <1>3, <1>5, TransportAssumption DEF PushGain, Iterate, TypeOK
  <2>2. PausePoint(t)' /\ PlayPoint(t)'
      BY <1>4, <2>1 DEF PausePoint, PlayPoint, FadingIn
  <2> QED BY <1>2, <2>1, <2>2, OneThread
<1>6. CASE ~(track[t] < NumTracks - 1)
  <2>1. track[t] = NumTracks - 1
      BY <1>3, <1>6, TransportAssumption DEF Tracks
  <2>2. pc'[t] = "wait200" /\ track'[t] = 0 /\ fade'[t] = "capture"
      BY <1>6, <2>1 DEF PushGain, Iterate, TypeOK
  <2>3. Len(stored') = NumTracks
      BY <1>4, <2>1, TransportAssumption
  <2>4. PausePoint(t)' /\ PlayPoint(t)'
      BY <2>2, <2>3 DEF PausePoint, PlayPoint, FadingIn
  <2> QED BY <1>2, <2>2, <2>4, OneThread
<1> QED BY <1>5, <1>6

LEMMA PatientWakeToStop ==
    ASSUME TypeOK, TypeOK', PatientInv, NEW t \in Threads, WakeToStop(t)
    PROVE  PatientInv'
<1>1. PausePoint(t) /\ PlayPoint(t) /\ OneAtATime /\ Busy(t) /\ pc[t] = "wait200"
    BY DEF PatientInv, WakeToStop, Wake, Busy
<1>2. \A u \in Threads : u # t => (pc[u] = "free" /\ fade[u] = "none")'
    BY <1>1, OthersIdle DEF WakeToStop, Wake, TypeOK
<1>3. /\ pc'[t] = "stop" /\ fade'[t] \in {"none", "capture", "fadeOut"}
      /\ Len(stored') = NumTracks /\ track'[t] = 0
    BY <1>1 DEF WakeToStop, Wake, TypeOK, PausePoint
<1>4. PausePoint(t)' /\ PlayPoint(t)'
    BY <1>3 DEF PausePoint, PlayPoint, FadingIn, Tracks
<1> QED BY <1>2, <1>3, <1>4, OneThread

LEMMA PatientSetStopMode ==
    ASSUME TypeOK, TypeOK', PatientInv, NEW t \in Threads, SetStopMode(t)
    PROVE  PatientInv'
<1>1. /\ PausePoint(t) /\ PlayPoint(t) /\ OneAtATime /\ Busy(t) /\ pc[t] = "stop"
      /\ track[t] \in Tracks
    BY DEF PatientInv, SetStopMode, Busy, TypeOK
<1>2. \A u \in Threads : u # t => (pc[u] = "free" /\ fade[u] = "none")'
    BY <1>1, OthersIdle DEF SetStopMode, Iterate, TypeOK
<1>3. /\ fade'[t] \in {"none", "capture", "fadeOut"} /\ Len(stored') = NumTracks
    BY <1>1 DEF SetStopMode, PausePoint
<1>4. \A i \in Tracks : i < track[t] + 1 => ~playing'[i]
    BY <1>1 DEF SetStopMode, TypeOK, PausePoint, Tracks
<1>5. CASE track[t] < NumTracks - 1
  <2>1. pc'[t] = "stop" /\ track'[t] = track[t] + 1
      BY <1>1, <1>5 DEF SetStopMode, Iterate, TypeOK
  <2>2. PausePoint(t)' /\ PlayPoint(t)'
      BY <1>3, <1>4, <2>1 DEF PausePoint, PlayPoint, FadingIn
  <2> QED BY <1>2, <2>1, <2>2, OneThread
<1>6. CASE ~(track[t] < NumTracks - 1)
  <2>1. \A i \in Tracks : ~playing'[i]
      BY <1>1, <1>4, <1>6, TransportAssumption DEF Tracks
  <2>2. pc'[t] = "free"
      BY <1>6 DEF SetStopMode, Iterate, TypeOK
  <2>3. PausePoint(t)' /\ PlayPoint(t)'
      BY <1>3, <2>1, <2>2 DEF PausePoint, PlayPoint, FadingIn
  <2> QED BY <1>2, <1>3, <2>1, <2>3, OneThread
<1> QED BY <1>5, <1>6

LEMMA PatientCaptureGain ==
    ASSUME TypeOK, TypeOK', PatientInv, NEW t \in Threads, CaptureGain(t)
    PROVE  PatientInv'
<1>1. PausePoint(t) /\ OneAtATime /\ Busy(t)
    BY DEF PatientInv, CaptureGain, Busy
<1>2. \A u \in Threads : u # t => (pc[u] = "free" /\ fade[u] = "none")'
    BY <1>1, OthersIdle DEF CaptureGain, TypeOK
<1>3. /\ fade'[t] \in {"capture", "fadeOut"}
      /\ UNCHANGED <<stored, pc, playing, track>>
    BY DEF CaptureGain, TypeOK
<1>4. PausePoint(t)' /\ PlayPoint(t)'
    BY <1>1, <1>3 DEF CaptureGain, PausePoint, PlayPoint, FadingIn
<1> QED BY <1>2, <1>3, <1>4, OneThread

LEMMA PatientFadeOutStep ==
    ASSUME TypeOK, TypeOK', PatientInv, NEW t \in Threads, FadeOutStep(t)
    PROVE  PatientInv'
<1>1. PausePoint(t) /\ OneAtATime /\ Busy(t) /\ fade[t] = "fadeOut"
    BY DEF PatientInv, FadeOutStep, SetGainFromFade, Busy
<1>2. \A u \in Threads : u # t => (pc[u] = "free" /\ fade[u] = "none")'
    BY <1>1, OthersIdle DEF FadeOutStep, SetGainFromFade, IterateFade, IterateFadeTo, TypeOK
<1>3. fade'[t] \in {"fadeOut", "none"} /\ UNCHANGED <<stored, pc, playing, track>>
    BY DEF FadeOutStep, SetGainFromFade, IterateFade, IterateFadeTo, TypeOK
<1>4. /\ Len(stored) = NumTracks /\ pc[t] \in {"wait200", "stop", "free"}
      /\ pc[t] = "free" => \A i \in Tracks : ~playing[i]
    BY <1>1 DEF PausePoint
<1>5. PausePoint(t)' /\ PlayPoint(t)'
    BY <1>1, <1>3, <1>4 DEF PausePoint, PlayPoint, FadingIn
<1> QED BY <1>2, <1>3, <1>4, <1>5, OneThread

LEMMA PatientFadeInRead ==
    ASSUME TypeOK, TypeOK', PatientInv, NEW t \in Threads, FadeInRead(t)
    PROVE  PatientInv'
<1>1. PlayPoint(t) /\ OneAtATime /\ Busy(t) /\ fade[t] = "inRead"
    BY DEF PatientInv, FadeInRead, Busy
<1>2. \A u \in Threads : u # t => (pc[u] = "free" /\ fade[u] = "none")'
    BY <1>1, OthersIdle DEF FadeInRead, TypeOK
<1>3. /\ fade'[t] = "inWrite"
      /\ seen'[t] = FadedIn(StoredGain(ftrack[t]), step[t])
      /\ UNCHANGED <<gain, stored, pc, ftrack, step>>
    BY DEF FadeInRead, TypeOK
<1>4. pc[t] = "free" /\ AllOrNone
    BY <1>1 DEF PlayPoint, FadingIn
<1>5. StoredGain(ftrack[t])' = StoredGain(ftrack[t])
    BY <1>3 DEF StoredGain
<1>6. PlayPoint(t)'
  <2>1. seen'[t] = FadedIn(StoredGain(ftrack[t]), step[t])'
      BY <1>3, <1>5 DEF FadedIn
  <2>2. step'[t] = Steps => \A i \in Tracks : i < ftrack'[t] => gain'[i] = StoredGain(i)'
      BY <1>1, <1>3 DEF PlayPoint, StoredGain
  <2> QED BY <1>3, <1>4, <2>1, <2>2 DEF PlayPoint, AllOrNone, FadingIn
<1>7. PausePoint(t)'
    BY <1>3, <1>4 DEF PausePoint
<1> QED BY <1>2, <1>3, <1>6, <1>7, OneThread

LEMMA PatientFadeInWrite ==
    ASSUME TypeOK, TypeOK', PatientInv, NEW t \in Threads, FadeInWrite(t)
    PROVE  PatientInv'
<1>1. /\ PlayPoint(t) /\ OneAtATime /\ Busy(t) /\ fade[t] = "inWrite"
      /\ ftrack[t] \in Tracks /\ step[t] \in 0 .. Steps
    BY DEF PatientInv, FadeInWrite, SetGainFromFade, Busy, TypeOK
<1>2. \A u \in Threads : u # t => (pc[u] = "free" /\ fade[u] = "none")'
    BY <1>1, OthersIdle DEF FadeInWrite, SetGainFromFade, IterateFade, IterateFadeTo, TypeOK
<1>3. pc'[t] = "free" /\ AllOrNone /\ UNCHANGED <<stored, pc>>
    BY <1>1 DEF FadeInWrite, SetGainFromFade, PlayPoint, FadingIn
<1>4. \A i \in Tracks : StoredGain(i)' = StoredGain(i)
    BY <1>3 DEF StoredGain
<1>5. step[t] = Steps => \A i \in Tracks : i < ftrack[t] + 1 => gain'[i] = StoredGain(i)'
  <2> SUFFICES ASSUME step[t] = Steps, NEW i \in Tracks, i < ftrack[t] + 1
               PROVE  gain'[i] = StoredGain(i)
      BY <1>4
  <2>1. CASE i = ftrack[t]
    <3>1. gain'[i] = FadedIn(StoredGain(i), Steps)
        BY <1>1, <2>1 DEF FadeInWrite, SetGainFromFade, TypeOK, PlayPoint
    <3> QED BY <3>1, StoredGainType, FadedInEnd
  <2>2. CASE i < ftrack[t]
    <3>1. gain'[i] = gain[i]
        BY <1>1, <2>2 DEF FadeInWrite, SetGainFromFade, TypeOK, Tracks
    <3>2. gain[i] = StoredGain(i)
        BY <1>1, <2>2 DEF PlayPoint
    <3> QED BY <3>1, <3>2
  <2> QED BY <1>1, <2>1, <2>2 DEF Tracks
<1>6. PausePoint(t)'
  <2>1. fade'[t] \in {"inRead", "inClear"}
      BY DEF FadeInWrite, SetGainFromFade, IterateFade, IterateFadeTo, TypeOK
  <2> QED BY <1>3, <2>1 DEF PausePoint
<1>7. CASE ftrack[t] < NumTracks - 1
  <2>1. fade'[t] = "inRead" /\ ftrack'[t] = ftrack[t] + 1 /\ step'[t] = step[t]
      BY <1>1, <1>7, TransportAssumption DEF FadeInWrite, SetGainFromFade, IterateFade, IterateFadeTo, TypeOK
  <2>2. PlayPoint(t)'
      BY <1>3, <1>5, <2>1 DEF PlayPoint, AllOrNone, FadingIn
  <2> QED BY <1>2, <1>6, <2>1, <2>2, OneThread
<1>8. CASE ftrack[t] = NumTracks - 1 /\ step[t] < Steps
  <2>1. fade'[t] = "inRead" /\ ftrack'[t] = 0
      BY <1>1, <1>8, TransportAssumption DEF FadeInWrite, SetGainFromFade, IterateFade, IterateFadeTo, TypeOK
  <2>2. PlayPoint(t)'
      BY <1>3, <2>1 DEF PlayPoint, AllOrNone, FadingIn, Tracks
  <2> QED BY <1>2, <1>6, <2>1, <2>2, OneThread
<1>9. CASE ftrack[t] = NumTracks - 1 /\ step[t] = Steps
  <2>1. fade'[t] = "inClear"
      BY <1>1, <1>9, TransportAssumption DEF FadeInWrite, SetGainFromFade, IterateFade, IterateFadeTo, TypeOK
  <2>2. \A i \in Tracks : gain'[i] = StoredGain(i)'
      BY <1>5, <1>9, TransportAssumption DEF Tracks
  <2>3. PlayPoint(t)'
      BY <1>3, <2>1, <2>2 DEF PlayPoint, AllOrNone, FadingIn
  <2> QED BY <1>2, <1>6, <2>1, <2>3, OneThread
<1> QED BY <1>7, <1>8, <1>9 DEF FadeInWrite, SetGainFromFade, IterateFade, IterateFadeTo

LEMMA PatientFadeInEnd ==
    ASSUME TypeOK, TypeOK', PatientInv, NEW t \in Threads, FadeInEnd(t)
    PROVE  PatientInv'
<1>1. PlayPoint(t) /\ OneAtATime /\ Busy(t) /\ fade[t] = "inClear"
    BY DEF PatientInv, FadeInEnd, Forget, Busy
<1>2. \A u \in Threads : u # t => (pc[u] = "free" /\ fade[u] = "none")'
    BY <1>1, OthersIdle DEF FadeInEnd, Forget, TypeOK
<1>3. pc'[t] = "free" /\ fade'[t] = "none" /\ stored' = <<>>
    BY <1>1 DEF FadeInEnd, Forget, TypeOK, PlayPoint, FadingIn
<1>4. PausePoint(t)' /\ PlayPoint(t)'
    BY <1>3 DEF PausePoint, PlayPoint, FadingIn
<1> QED BY <1>2, <1>3, <1>4, OneThread

LEMMA PatientStep ==
    ASSUME Patient, TypeOK, TypeOK', PatientInv, [Next]_vars
    PROVE  PatientInv'
<1>1. CASE UNCHANGED vars
    BY <1>1 DEF vars, PatientInv, OneAtATime, Busy, Settled, Quiescent, PausePoint, PlayPoint,
               AllOrNone, StoredGain
<1> QED
    BY <1>1, PatientPlayPause, PatientSlide, PatientEndOfTrack, PatientSetPlayMode,
       PatientStartFadeIn, PatientClearStored, PatientPushGain, PatientWakeToStop,
       PatientSetStopMode, PatientCaptureGain, PatientFadeOutStep, PatientFadeInRead,
       PatientFadeInWrite, PatientFadeInEnd
    DEF Next, TriggerStep, FadeStep

\* With a patient user one press is under way at a time, and at each place of its
\* threads the gains, the memory and the playing flags are what PatientInv says.
THEOREM PatientInvariant == ASSUME Patient PROVE Spec => []PatientInv
<1>1. TypeOK /\ TypeOK' /\ PatientInv /\ [Next]_vars => PatientInv'
    BY PatientStep
<1> QED BY <1>1, PatientInit, TypeCorrect, PTL DEF Spec

\* Between presses a patient user finds the gains of all tracks remembered and
\* all tracks stopped, or no gain remembered: no pause leaves half a memory.
THEOREM SettledBetweenPresses == ASSUME Patient PROVE Spec => []Settled
<1>1. PatientInv => Settled
    BY DEF PatientInv
<1> QED BY <1>1, PatientInvariant, PTL

(***************************************************************************)
(* Pausing and resuming keep every volume: Transport implements VolumeDesk *)
(***************************************************************************)

Held == Len(stored) = NumTracks
Levels == [i \in Tracks |-> Level(i)]

\* A step that leaves the levels and Held alone is no step of the desk.
LEMMA DeskStutter ==
    ASSUME \A i \in Tracks : Level(i)' = Level(i), Held' = Held
    PROVE  [Desk!Next]_<<Levels, Held>>
BY DEF Levels

\* A step that touches neither the remembered gains, nor the gains, nor the
\* fade-ins that are under way is one of these.
LEMMA DeskUntouched ==
    ASSUME stored' = stored, SomeFadeIn' = SomeFadeIn,
           Len(stored) = NumTracks \/ SomeFadeIn \/ gain' = gain
    PROVE  [Desk!Next]_<<Levels, Held>>
<1>1. \A i \in Tracks : Level(i)' = Level(i)
    BY TransportAssumption DEF Level, Tracks
<1>2. Held' = Held
    BY DEF Held
<1> QED BY <1>1, <1>2, DeskStutter

LEMMA NoFadeInElsewhere ==
    ASSUME TypeOK, OneAtATime, NEW t \in Threads, Busy(t)
    PROVE  SomeFadeIn <=> fade[t] \in FadingIn
BY OthersIdle DEF SomeFadeIn, FadingIn

LEMMA DeskInit == Init => Desk!Init
<1> SUFFICES ASSUME Init PROVE Desk!Init
    OBVIOUS
<1>1. ~SomeFadeIn
    BY DEF Init, SomeFadeIn, FadingIn
<1>2. \A i \in Tracks : Level(i) = Unity
    BY <1>1 DEF Init, Level, Tracks
<1>3. Len(stored) # NumTracks
    BY TransportAssumption DEF Init
<1> QED BY <1>2, <1>3 DEF Desk!Init, Desk!Tracks, Tracks

LEMMA DeskSlide ==
    ASSUME Patient, TypeOK, PatientInv, NEW i \in Tracks, NEW v \in Volumes, Slide(i, v)
    PROVE  [Desk!Next]_<<Levels, Held>>
<1>1. ~SomeFadeIn /\ ~SomeFadeIn'
    BY DEF Slide, MaySlide, SomeFadeIn
<1>2. /\ Len(stored') = Len(stored)
      /\ gain' = [gain EXCEPT ![i] = v]
      /\ \A j \in Tracks :
            j < Len(stored) => stored'[j + 1] = IF j = i THEN v ELSE stored[j + 1]
    BY SetGainEffect DEF Slide
<1>3. \A j \in Tracks : Level(j)' = IF j = i THEN v ELSE Level(j)
    BY <1>1, <1>2 DEF Level, TypeOK
<1>4. Levels' = [Levels EXCEPT ![i] = v]
    BY <1>3 DEF Levels
<1>5. Desk!Move(i, v)
    BY <1>2, <1>4 DEF Desk!Move, Levels
<1> QED BY <1>5 DEF Desk!Next, Desk!Tracks, Tracks

LEMMA DeskStartFadeIn ==
    ASSUME TypeOK, PatientInv, NEW t \in Threads, StartFadeIn(t)
    PROVE  [Desk!Next]_<<Levels, Held>>
<1>1. AllOrNone /\ stored' = stored
    BY DEF PatientInv, PlayPoint, StartFadeIn
<1>2. SomeFadeIn'
    BY DEF StartFadeIn, TypeOK, SomeFadeIn, FadingIn
<1>3. CASE Len(stored) = NumTracks
  <2>1. \A i \in Tracks : Level(i)' = Level(i)
      BY <1>1, <1>3 DEF Level, Tracks
  <2> QED BY <1>1, <2>1, DeskStutter DEF Held
<1>4. CASE stored = <<>>
  <2>1. \A i \in Tracks : Level(i)' = Unity
      BY <1>1, <1>2, <1>4 DEF Level, Tracks
  <2>2. ~Held /\ Held' = Held
      BY <1>1, <1>4, TransportAssumption DEF Held
  <2>3. Desk!StartFresh
      BY <2>1, <2>2 DEF Desk!StartFresh, Desk!Tracks, Tracks, Held
  <2> QED BY <2>3 DEF Desk!Next
<1> QED BY <1>1, <1>3, <1>4 DEF AllOrNone

LEMMA DeskPushGain ==
    ASSUME TypeOK, PatientInv, NEW t \in Threads, PushGain(t)
    PROVE  [Desk!Next]_<<Levels, Held>>
<1>1. /\ pc[t] = "push" /\ fade[t] = "none" /\ Busy(t) /\ OneAtATime
      /\ Len(stored) = track[t] /\ track[t] \in Tracks
    BY DEF PatientInv, PausePoint, PushGain, Busy, TypeOK
<1>2. ~SomeFadeIn
    BY <1>1, NoFadeInElsewhere DEF FadingIn
<1>3. ~SomeFadeIn'
  <2>1. \A u \in Threads : fade'[u] = fade[u] \/ fade'[u] = "capture"
      BY DEF PushGain, TypeOK
  <2> QED BY <1>2, <2>1 DEF SomeFadeIn, FadingIn
<1>4. /\ Len(stored') = track[t] + 1 /\ gain' = gain
      /\ \A i \in Tracks : i < track[t] => stored'[i + 1] = stored[i + 1]
      /\ stored'[track[t] + 1] = gain[track[t]]
  <2>1. stored \in Seq(Gains) /\ gain[track[t]] \in Gains
      BY <1>1 DEF TypeOK
  <2>2. stored' = Append(stored, gain[track[t]]) /\ gain' = gain
      BY DEF PushGain
  <2> QED BY <1>1, <2>1, <2>2 DEF Tracks
<1>5. \A i \in Tracks : Level(i)' = Level(i)
    BY <1>1, <1>2, <1>3, <1>4 DEF Level, Tracks
<1>6. ~Held
    BY <1>1, TransportAssumption DEF Held, Tracks
<1>7. CASE Held'
  <2>1. Desk!Hold
      BY <1>5, <1>6, <1>7 DEF Desk!Hold, Held
  <2> QED BY <2>1 DEF Desk!Next
<1>8. CASE ~Held'
  <2>1. Held' = Held
      BY <1>6, <1>8 DEF Held
  <2> QED BY <1>5, <2>1, DeskStutter
<1> QED BY <1>7, <1>8

LEMMA DeskFadeInEnd ==
    ASSUME TypeOK, PatientInv, NEW t \in Threads, FadeInEnd(t)
    PROVE  [Desk!Next]_<<Levels, Held>>
<1>1. /\ fade[t] = "inClear" /\ Busy(t) /\ OneAtATime /\ AllOrNone
      /\ \A i \in Tracks : gain[i] = StoredGain(i)
    BY DEF PatientInv, PlayPoint, FadeInEnd, Forget, Busy, FadingIn
<1>2. SomeFadeIn
    BY <1>1 DEF SomeFadeIn, FadingIn
<1>3. ~SomeFadeIn'
    BY <1>1, OthersIdle DEF SomeFadeIn, FadingIn, FadeInEnd, Forget, TypeOK
<1>4. stored' = <<>> /\ gain' = gain
    BY DEF FadeInEnd, Forget
<1>5. \A i \in Tracks : Level(i)' = gain[i]
    BY <1>3, <1>4 DEF Level, Tracks
<1>6. \A i \in Tracks : Level(i) = gain[i]
    BY <1>1, <1>2 DEF Level, StoredGain
<1>7. ~Held'
    BY <1>4, TransportAssumption DEF Held
<1>8. CASE Held
  <2>1. Desk!Release
      BY <1>5, <1>6, <1>7, <1>8 DEF Desk!Release, Held
  <2> QED BY <2>1 DEF Desk!Next
<1>9. CASE ~Held
  <2>1. Held' = Held
      BY <1>7, <1>9 DEF Held
  <2> QED BY <1>5, <1>6, <2>1, DeskStutter
<1> QED BY <1>8, <1>9

\* The other steps of the trigger and fade threads move no level.
LEMMA DeskOtherSteps ==
    ASSUME TypeOK, PatientInv, NEW t \in Threads,
           \/ SetPlayMode(t) \/ ClearStored(t) \/ WakeToStop(t) \/ SetStopMode(t)
           \/ CaptureGain(t) \/ FadeOutStep(t) \/ FadeInRead(t) \/ FadeInWrite(t)
    PROVE  [Desk!Next]_<<Levels, Held>>
<1>1. CASE SetPlayMode(t) \/ WakeToStop(t) \/ SetStopMode(t)
    BY <1>1, DeskUntouched DEF SetPlayMode, WakeToStop, Wake, SetStopMode, SomeFadeIn
<1>2. CASE ClearStored(t)
  <2>1. stored = <<>>
      BY <1>2 DEF PatientInv, PausePoint, ClearStored, Forget
  <2> QED BY <1>2, <2>1, DeskUntouched DEF ClearStored, Forget, SomeFadeIn
<1>3. CASE CaptureGain(t)
  <2>1. \A u \in Threads : fade'[u] \in FadingIn <=> fade[u] \in FadingIn
      BY <1>3 DEF CaptureGain, TypeOK, FadingIn
  <2> QED BY <1>3, <2>1, DeskUntouched DEF CaptureGain, SomeFadeIn
<1>4. CASE FadeOutStep(t)
  <2>1. \A u \in Threads : fade'[u] \in FadingIn <=> fade[u] \in FadingIn
      BY <1>4 DEF FadeOutStep, SetGainFromFade, IterateFade, IterateFadeTo, TypeOK, FadingIn
  <2>2. Len(stored) = NumTracks
      BY <1>4 DEF PatientInv, PausePoint, FadeOutStep, SetGainFromFade
  <2> QED BY <1>4, <2>1, <2>2, DeskUntouched DEF FadeOutStep, SetGainFromFade, SomeFadeIn
<1>5. CASE FadeInRead(t) \/ FadeInWrite(t)
  <2>1. fade[t] \in FadingIn /\ fade'[t] \in FadingIn /\ stored' = stored
      BY <1>5 DEF FadeInRead, FadeInWrite, SetGainFromFade, IterateFade, IterateFadeTo, TypeOK, FadingIn
  <2>2. SomeFadeIn /\ SomeFadeIn'
      BY <2>1 DEF SomeFadeIn
  <2> QED BY <2>1, <2>2, DeskUntouched
<1> QED BY <1>1, <1>2, <1>3, <1>4, <1>5

LEMMA DeskStep ==
    ASSUME Patient, TypeOK, PatientInv, [Next]_vars
    PROVE  [Desk!Next]_<<Levels, Held>>
<1>1. CASE \E t \in Threads : PlayPause(t)
  <2> PICK t \in Threads : PlayPause(t)
      BY <1>1
  <2> QED BY DeskUntouched DEF PlayPause, SomeFadeIn
<1>2. CASE \E i \in Tracks : EndOfTrack(i)
  <2> PICK i \in Tracks : EndOfTrack(i)
      BY <1>2
  <2> QED BY DeskUntouched DEF EndOfTrack, SomeFadeIn
<1>3. CASE UNCHANGED vars
    BY <1>3, DeskUntouched DEF vars, SomeFadeIn
<1>4. CASE \E t \in Threads : TriggerStep(t) \/ FadeStep(t)
    BY <1>4, DeskStartFadeIn, DeskPushGain, DeskFadeInEnd, DeskOtherSteps
    DEF TriggerStep, FadeStep
<1> QED BY <1>1, <1>2, <1>3, <1>4, DeskSlide DEF Next

\* With a patient user every step of the trigger and fade threads keeps the
\* volumes: only a slider, or a start with nothing remembered, moves one.
THEOREM TransportImplementsDesk == ASSUME Patient PROVE Spec => ImplementsDesk
<1>1. Init => Desk!Init
    BY DeskInit
<1>2. TypeOK /\ PatientInv /\ [Next]_vars => [Desk!Next]_<<Levels, Held>>
    BY DeskStep
<1>3. [Desk!Next]_<<Levels, Held>>
          => [Desk!Next]_<<[i \in Tracks |-> Level(i)], Len(stored) = NumTracks>>
    BY DEF Levels, Held
<1> QED
    BY <1>1, <1>2, <1>3, TypeCorrect, PatientInvariant, PTL
    DEF Spec, ImplementsDesk, Desk!Spec

(***************************************************************************)
(* What a pause remembers                                                  *)
(***************************************************************************)

\* No slider is touched, so every volume is, or returns to, unity.
AtUnity == \A i \in Tracks : Level(i) = Unity /\ volume[i] = Unity

LEMMA AtUnityStep ==
    ASSUME Volumes = {Unity}, TypeOK, AtUnity, [Next]_vars, [Desk!Next]_<<Levels, Held>>
    PROVE  AtUnity'
<1>1. \A i \in Tracks : volume'[i] = Unity
  <2>1. CASE \E i \in Tracks, v \in Volumes : Slide(i, v)
      BY <2>1 DEF AtUnity, TypeOK, Slide
  <2>2. CASE UNCHANGED volume
      BY <2>2 DEF AtUnity
  <2>3. \/ \E i \in Tracks, v \in Volumes : Slide(i, v)
        \/ UNCHANGED volume
    <3>1. CASE \E t \in Threads : PlayPause(t) \/ TriggerStep(t)
        BY <3>1 DEF PlayPause, TriggerStep, SetPlayMode, StartFadeIn, ClearStored, PushGain,
                    WakeToStop, Wake, SetStopMode
    <3>2. CASE \E t \in Threads : FadeStep(t)
        BY <3>2 DEF FadeStep, CaptureGain, FadeOutStep, FadeInRead, FadeInWrite, FadeInEnd
    <3> QED BY <3>1, <3>2 DEF Next, EndOfTrack, vars
  <2> QED BY <2>1, <2>2, <2>3
<1>2. \A i \in Tracks : Levels[i] = Unity
    BY DEF AtUnity, Levels
<1>3. \A i \in Tracks : Levels'[i] = Unity
  <2>1. CASE \E i \in Desk!Tracks, v \in Volumes : Desk!Move(i, v)
      BY <1>2, <2>1 DEF Desk!Move, Levels
  <2>2. CASE Desk!StartFresh
      BY <2>2 DEF Desk!StartFresh, Desk!Tracks, Tracks, Levels
  <2>3. CASE Levels' = Levels
      BY <1>2, <2>3
  <2> QED BY <2>1, <2>2, <2>3 DEF Desk!Next, Desk!Hold, Desk!Release, Levels
<1>4. \A i \in Tracks : Level(i)' = Unity
    BY <1>3 DEF Levels
<1> QED BY <1>1, <1>4 DEF AtUnity

\* A user who waits for the threads of one press before the next finds remembered what
\* the sliders show, though fadeGain() has no lock: it is only the second press that
\* makes a pause remember a gain that a fade has lowered.  (For sliders left where they
\* are when the tracks are loaded.)
THEOREM PatientUserLosesNoVolume ==
    ASSUME Patient, Volumes = {Unity}
    PROVE  Spec => []RemembersGainsBeforeFading
<1>1. Init => AtUnity
  <2> SUFFICES ASSUME Init PROVE AtUnity
      OBVIOUS
  <2>1. Desk!Init
      BY DeskInit
  <2>2. \A i \in Tracks : Level(i) = Unity
      BY <2>1 DEF Desk!Init, Desk!Tracks, Tracks
  <2> QED BY <2>2 DEF AtUnity, Init
<1>2. TypeOK /\ PatientInv /\ AtUnity /\ [Next]_vars => AtUnity'
    BY DeskStep, AtUnityStep
<1>3. AtUnity => RemembersGainsBeforeFading
    BY DEF AtUnity, RemembersGainsBeforeFading, Level
<1> QED BY <1>1, <1>2, <1>3, TypeCorrect, PatientInvariant, PTL DEF Spec

=============================================================================
