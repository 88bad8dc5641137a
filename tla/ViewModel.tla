----------------------------- MODULE ViewModel -----------------------------
(***************************************************************************)
(* The view model while its song is loaded: playing and pausing, the seek  *)
(* bar, the A/B loop, and the coroutine that polls the position of track 0 *)
(* on an IO thread and acts on it later, on the main thread.  On top of    *)
(* Session, with which it begins and ends.                                 *)
(*                                                                         *)
(* Track 0, which is stereo, stands for all tracks; Playback shows how     *)
(* they move.  A time in seconds is the sample it was computed from: the   *)
(* sample that the way there and back loses as a float is not seen.  The   *)
(* buttons of pitch and tempo are left out, and the frames SoundTouch      *)
(* holds are those of tempo 1.0: all of the reserve or none.               *)
(*                                                                         *)
(* Handlers that read the player before its sources are there, or a poll   *)
(* that reads it while they go, find no valid memory: what they read is    *)
(* dropped, or the process dies, which Kill does at any time.              *)
(***************************************************************************)
EXTENDS Session

CONSTANTS Frames,      \* length of track 0
          Burst,       \* numFrames of a callback
          Reserve,     \* desiredSoundTouchBuffer, 4000 in the code
          SeekPoints,  \* where the seek bar is dropped, in samples
          Delay,       \* callbacks there can be during delay(50)
          Dispatch     \* callbacks there can be from a read to the main thread

ASSUME ViewModelAssumption ==
    /\ Frames \in Nat \ {0} /\ Burst \in Nat \ {0} /\ Reserve \in Nat \ {0}
    /\ SeekPoints \subseteq 0 .. 2 * Frames
    /\ Delay \in Nat /\ Dispatch \in Nat

VARIABLES
    position,  \* mCurSampleIndex of track 0
    playing,   \* mIsPlaying of track 0
    full,      \* its SoundTouch holds the reserve
    starting,  \* where the thread of triggerDown() will play from, or NoStart
    stopping,  \* a thread of triggerUp() is under way
    loop,      \* loopState, loopIn, loopOut
    poll,      \* the job: where it stands, timeInSeconds, its age in callbacks
    undisturbed, \* history: no seek and no jump since the poll has read
    late       \* history: callbacks beyond the end of the active loop

deck == <<position, playing, full, starting, stopping>>
history == <<undisturbed, late>>
allVars == <<vars, deck, loop, poll, history>>

NumSamples == 2 * Frames
NoStart == NumSamples + 1
NoLoop == [state |-> "inactive", in |-> 0, out |-> 0]
NoPoll == [at |-> "none", time |-> 0, age |-> 0]

InitAll == /\ Init
           /\ position = 0 /\ playing = FALSE /\ full = FALSE
           /\ starting = NoStart /\ stopping = FALSE
           /\ loop = NoLoop
           /\ poll = NoPoll
           /\ undisturbed = FALSE /\ late = 0

(***************************************************************************)
(* The callback: mixAudio() of track 0                                     *)
(***************************************************************************)

Lesser(a, b) == IF a < b THEN a ELSE b
FramesLeft == (NumSamples - position) \div 2
TopsUp == ~full /\ Reserve < FramesLeft
Fed == Lesser(Lesser(Burst, FramesLeft) + (IF TopsUp THEN Reserve ELSE 0), FramesLeft)

BeyondLoop == loop.state = "active" /\ position >= loop.out

\* The poll is on time: no more callbacks pass than its delay, or its way to the
\* main thread, can take.
PollOnTime == \/ poll.at = "none"
              \/ poll.at = "delay" /\ poll.age < Delay
              \/ poll.at = "post" /\ poll.age < Dispatch

\* With no frame left there is nothing to write, and playing stays as it is.
Callback ==
    /\ playing /\ FramesLeft > 0 /\ PollOnTime
    /\ position' = position + 2 * Fed
    /\ full' = (full \/ TopsUp)
    /\ playing' = (position' < NumSamples)
    /\ poll' = [poll EXCEPT !.age = @ + 1]
    /\ late' = IF BeyondLoop THEN late + 1 ELSE 0
    /\ UNCHANGED <<vars, starting, stopping, loop, undisturbed>>

(***************************************************************************)
(* The main thread, and the threads of triggerDown() and triggerUp()       *)
(***************************************************************************)

Running == vm = "running"

\* A press starts a thread, which plays from the position of the press.  The
\* user presses again when the thread has done it.
Play == /\ Running /\ ~playing /\ starting = NoStart
        /\ starting' = position
        /\ UNCHANGED <<vars, position, playing, full, stopping, loop, poll, history>>

SetPlayMode == /\ starting # NoStart
               /\ position' = starting
               /\ playing' = TRUE
               /\ full' = FALSE
               /\ starting' = NoStart
               /\ late' = 0
               /\ UNCHANGED <<vars, stopping, loop, poll, undisturbed>>

\* Likewise for a pause, whose thread fades before it stops.
Pause == /\ Running /\ playing /\ ~stopping
         /\ stopping' = TRUE
         /\ UNCHANGED <<vars, position, playing, full, starting, loop, poll, history>>

SetStopMode == /\ stopping
               /\ stopping' = FALSE
               /\ playing' = FALSE
               /\ full' = FALSE
               /\ late' = 0
               /\ UNCHANGED <<vars, position, starting, loop, poll, undisturbed>>

\* setCurrentTimeInSeconds(): never beyond the last sample.
SetPlaybackTime(t) == /\ position' = Lesser(t, NumSamples - 1)
                      /\ full' = FALSE
                      /\ late' = 0
                      /\ undisturbed' = FALSE

OnSeekEnd(t) == /\ Running
                /\ SetPlaybackTime(t)
                /\ UNCHANGED <<vars, playing, starting, stopping, loop, poll>>

\* loopIn and loopOut are set before they are read; here an inactive loop has
\* none.
LoopIn == /\ loop.state = "inactive"
          /\ loop' = [loop EXCEPT !.state = "pending", !.in = position]
LoopOut == /\ loop.state = "pending"
           /\ loop' = [loop EXCEPT !.state = "active", !.out = position]
LoopOff == /\ loop.state = "active"
           /\ loop' = NoLoop

LoopButton == /\ Running
              /\ LoopIn \/ LoopOut \/ LoopOff
              /\ late' = 0
              /\ UNCHANGED <<vars, deck, poll, undisturbed>>

(***************************************************************************)
(* The polling coroutine                                                   *)
(***************************************************************************)

\* After the delay, on an IO thread; a track that stands still is not read.
GoPoll(at, time) == poll' = [at |-> at, time |-> time, age |-> 0]

PollReadsEnding == /\ poll.at = "delay"
                   /\ GoPoll(IF playing THEN "post" ELSE "none", position)
                   /\ undisturbed' = TRUE
                   /\ UNCHANGED <<vars, deck, loop, late>>
PollReads == /\ poll.at = "delay"
             /\ IF playing THEN GoPoll("post", position) ELSE GoPoll("delay", 0)
             /\ undisturbed' = playing
             /\ UNCHANGED <<vars, deck, loop, late>>

\* On the main thread, with the time it has read.
PastLoopIn(time) == loop.state = "active" /\ time >= loop.in
PastLoopStrictly(time) == loop.state = "active" /\ time > loop.out
PastLoop(time) == loop.state = "active" /\ time >= loop.out
PollActs == /\ poll.at = "post"
            /\ GoPoll("delay", 0)
            /\ IF PastLoop(poll.time)
                 THEN SetPlaybackTime(loop.in)
                 ELSE UNCHANGED <<position, full, history>>
            /\ UNCHANGED <<vars, playing, starting, stopping, loop>>

Poll == PollReads \/ PollActs

(***************************************************************************)
(* With the session                                                        *)
(***************************************************************************)

\* startSampleIndexLogging()
LoadCompletesAndPolls == /\ LoadCompletes
                         /\ GoPoll("delay", 0)
                         /\ UNCHANGED <<deck, loop, history>>

\* Threads of triggerDown() and triggerUp() find no track any more.
DeckEnds == /\ Clear \/ Kill
            /\ position' = 0 /\ playing' = FALSE /\ full' = FALSE
            /\ starting' = NoStart /\ stopping' = FALSE
            /\ loop' = NoLoop
            /\ undisturbed' = FALSE /\ late' = 0

\* The job is cancelled and takes what it has read with it.
EndsPolling == DeckEnds /\ UNCHANGED poll
Ends == DeckEnds /\ poll' = NoPoll

SessionStep == /\ \/ Launch \/ OpenFile \/ CopyFile
                  \/ DownloadFails \/ DownloadCompletes \/ LoadFile
               /\ UNCHANGED <<deck, loop, poll, history>>

NextAll == \/ SessionStep \/ LoadCompletesAndPolls \/ Ends
           \/ Callback \/ Play \/ SetPlayMode \/ Pause \/ SetStopMode \/ LoopButton
           \/ \E t \in SeekPoints : OnSeekEnd(t)
           \/ Poll

SpecAll == InitAll /\ [][NextAll]_allVars

\* The job runs, and a thread that has been started ends.
FairSpecAll == SpecAll /\ WF_allVars(Poll)
                       /\ WF_allVars(SetPlayMode) /\ WF_allVars(SetStopMode)

(***************************************************************************)
(* Properties                                                              *)
(***************************************************************************)

\* Types; the position never leaves the song, and only a running view model has
\* a job.
DeckOK == /\ {position, loop.in, loop.out, poll.time} \subseteq 0 .. NumSamples
          /\ {playing, full, stopping, undisturbed} \subseteq BOOLEAN
          /\ starting \in 0 .. NoStart
          /\ loop.state \in {"inactive", "pending", "active"}
          /\ poll.at \in {"none", "delay", "post"} /\ poll.age \in Nat
          /\ (poll.at # "none" <=> Running)
          /\ late \in Nat

\* An active loop jumps on time, wherever it was set, whatever is seeked and
\* paused in between: the song plays on beyond its end for one delay and two
\* ways to the main thread at most, the first being that of a read that came too
\* early.
LoopOnTime == late <= Delay + 2 * Dispatch

\* The poll acts on a position that may be out of date.  Unless something was
\* seeked in between, a jump is due all the same: also when the loop was left
\* and set anew, the song has passed the end that the loop has now.
JumpIsDue ==
    [][poll.at = "post" /\ poll'.at = "delay" /\ position' # position /\ undisturbed
            => position >= loop.out]_<<poll, position>>

\* As long as it plays and nobody leaves the loop, a song that is beyond the end
\* of its loop comes back.
LoopComesBack ==
    BeyondLoop /\ playing /\ loop.in < loop.out ~> ~BeyondLoop \/ ~playing

=============================================================================
