----------------------------- MODULE MCPlayback -----------------------------
(***************************************************************************)
(* Values of the constants of Playback for TLC: two stems and a mono click *)
(* track, and a SoundTouch that works in small batches.                    *)
(***************************************************************************)
EXTENDS Playback

StereoStereoMono == [i \in 0 .. 2 |-> IF i = 2 THEN 1 ELSE 2]
StereoMono == [i \in 0 .. 1 |-> IF i = 1 THEN 1 ELSE 2]

\* The click track goes on longer than the stems; or all end together, soon or
\* after a while.
ClickLonger == [i \in 0 .. 2 |-> IF i = 2 THEN 12 ELSE 9]
SixEach == [i \in 0 .. 1 |-> 6]
TenEach == [i \in 0 .. 1 |-> 10]

\* At another pitch the batches have other sizes; in units of 1/2, tempo 3 is one
\* and a half times the speed.
NeedOf == [s \in Pitches \X Tempos |-> (IF s[1] = 0 THEN 3 ELSE 4) + (s[2] - Unit)]
TakesOf == [s \in Pitches \X Tempos |-> IF s[1] = 0 THEN s[2] ELSE s[2] + 1]
GivesOf == [s \in Pitches \X Tempos |-> IF s[1] = 0 THEN 2 ELSE 3]

=============================================================================
