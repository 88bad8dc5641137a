----------------------------- MODULE VolumeDesk -----------------------------
(***************************************************************************)
(* What pausing and resuming promise about the volumes of the tracks,      *)
(* whatever threads and fades bring it about: every track has a level, only*)
(* its slider moves it, a pause remembers the levels and a resume brings   *)
(* them back.  A start with nothing remembered puts every track at unity,  *)
(* the 1.0f that fadeGainToStored() falls back to.                         *)
(***************************************************************************)
EXTENDS Integers

CONSTANTS NumTracks,   \* number of loaded tracks
          Unity,       \* gain 1.0f, the top of every volume slider
          Volumes      \* slider positions the user chooses from

Tracks == 0 .. NumTracks - 1

VARIABLES level,   \* level[i]: the volume track i has, or returns to
          held     \* TRUE when a pause has remembered the levels

Init == /\ level = [i \in Tracks |-> Unity]
        /\ held = FALSE

Move(i, v) == /\ level' = [level EXCEPT ![i] = v]
              /\ UNCHANGED held

Hold == /\ ~held
        /\ held' = TRUE
        /\ UNCHANGED level

Release == /\ held
           /\ held' = FALSE
           /\ UNCHANGED level

StartFresh == /\ ~held
              /\ level' = [i \in Tracks |-> Unity]
              /\ UNCHANGED held

Next == \/ \E i \in Tracks, v \in Volumes : Move(i, v)
        \/ Hold
        \/ Release
        \/ StartFresh

Spec == Init /\ [][Next]_<<level, held>>

=============================================================================
