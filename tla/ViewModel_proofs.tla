-------------------------- MODULE ViewModel_proofs --------------------------
(***************************************************************************)
(* Theorems about ViewModel, for every length of a song, every delay of    *)
(* the poll and every way to the main thread.                              *)
(***************************************************************************)
EXTENDS ViewModel, TLAPS

States == {"inactive", "pending", "active"}
Places == {"none", "delay", "post"}

\* Only a running view model plays, or is about to, and never both.
DeckInv == /\ position \in 0 .. NumSamples
           /\ {playing, full, stopping, undisturbed} \subseteq BOOLEAN
           /\ starting \in 0 .. NoStart
           /\ loop \in [state : States, in : 0 .. NumSamples, out : 0 .. NumSamples]
           /\ poll \in [at : Places, time : 0 .. NumSamples, age : Nat]
           /\ poll.at # "none" <=> Running
           /\ playing \/ starting # NoStart => Running
           /\ starting # NoStart => ~playing
           /\ late \in Nat

\* How late the song can be, by where the poll stands: while it sleeps, the last
\* read was too early by one way to the main thread; on its way it has read
\* in time, or brings the jump with it.
LateInv ==
    /\ late <= Delay + 2 * Dispatch
    /\ late > 0 => BeyondLoop
    /\ poll.at = "delay" =>
         poll.age <= Delay /\ (playing => late <= Dispatch + poll.age)
    /\ poll.at = "post" =>
         /\ poll.age <= Dispatch
         /\ playing => \/ late <= poll.age
                       \/ poll.time >= loop.out /\ late <= Delay + Dispatch + poll.age

\* What the poll has read is behind the song until somebody seeks.
ReadInv == undisturbed /\ poll.at = "post" =>
             /\ position >= poll.time
             /\ starting # NoStart => starting >= poll.time

LEMMA Numbers ==
    /\ Frames \in Nat \ {0} /\ Burst \in Nat \ {0} /\ Reserve \in Nat \ {0}
    /\ Delay \in Nat /\ Dispatch \in Nat
    /\ NumSamples = 2 * Frames /\ NumSamples \in Nat /\ 0 \in 0 .. NumSamples
    /\ NoStart \in 0 .. NoStart
    /\ \A k \in 0 .. NoStart : k # NoStart => k \in 0 .. NumSamples
    /\ \A k \in 0 .. NumSamples : k \in 0 .. NoStart
BY ViewModelAssumption DEF NumSamples, NoStart

LEMMA InitInv == InitAll => DeckInv /\ LateInv /\ ReadInv
<1> SUFFICES ASSUME InitAll PROVE DeckInv /\ LateInv /\ ReadInv
    OBVIOUS
<1> USE DEF InitAll, Init, NoLoop, NoPoll
<1>1. DeckInv
    BY Numbers DEF DeckInv, States, Places, Running
<1>2. LateInv /\ ReadInv
    BY Numbers DEF LateInv, ReadInv
<1> QED BY <1>1, <1>2

\* mixAudio() feeds at least nothing and at most what is left.
LEMMA FedInside ==
    ASSUME position \in 0 .. NumSamples
    PROVE  Fed \in Nat /\ position + 2 * Fed \in position .. NumSamples
<1> DEFINE left == FramesLeft
           topUp == IF TopsUp THEN Reserve ELSE 0
<1>1. left \in Nat /\ 2 * left <= NumSamples - position
    BY Numbers DEF FramesLeft
<1>2. topUp \in Nat
    BY Numbers
<1>3. Fed = Lesser(Lesser(Burst, left) + topUp, left)
    BY DEF Fed
<1> HIDE DEF left, topUp
<1>4. Fed \in Nat /\ Fed <= left
    BY <1>1, <1>2, <1>3, Numbers DEF Lesser
<1> QED BY <1>1, <1>4, Numbers

LEMMA CallbackInv ==
    DeckInv /\ LateInv /\ ReadInv /\ Callback => DeckInv' /\ LateInv' /\ ReadInv'
<1> SUFFICES ASSUME DeckInv, LateInv, ReadInv, Callback
             PROVE  DeckInv' /\ LateInv' /\ ReadInv'
    OBVIOUS
<1>1. /\ position \in Nat /\ position' \in Nat
      /\ position <= position' /\ position' <= NumSamples
    BY FedInside, Numbers DEF Callback, DeckInv
<1>2. /\ playing /\ UNCHANGED <<vm, starting, stopping, loop, undisturbed>>
      /\ playing' \in BOOLEAN /\ starting = NoStart
      /\ poll.at # "none"
    BY DEF Callback, DeckInv, vars, Running
<1>3. /\ poll' \in [at : Places, time : 0 .. NumSamples, age : Nat]
      /\ poll'.at = poll.at /\ poll'.time = poll.time /\ poll'.age = poll.age + 1
      /\ poll.age \in Nat /\ poll.time \in 0 .. NumSamples
    BY DEF Callback, DeckInv
<1>4. late \in Nat /\ late' = IF BeyondLoop THEN late + 1 ELSE 0
    BY DEF Callback, DeckInv
<1>5. DeckInv'
  <2>1. full' \in BOOLEAN
      BY Zenon DEF Callback, DeckInv, TopsUp
  <2> QED BY <1>1, <1>2, <1>3, <1>4, <2>1, Numbers DEF DeckInv, Running
<1>6. LateInv'
  <2>1. loop.out \in Nat /\ poll.at \in Places
      BY Numbers DEF DeckInv
  <2>2. late' > 0 => BeyondLoop'
      BY <1>1, <1>2, <1>4, <2>1 DEF BeyondLoop
  <2>3. CASE poll.at = "delay"
    <3>1. poll.age < Delay /\ late <= Dispatch + poll.age
        BY <1>2, <2>3 DEF Callback, PollOnTime, LateInv
    <3>2. late' <= Dispatch + poll'.age /\ poll'.age <= Delay
        BY <1>3, <1>4, <3>1, Numbers
    <3> QED BY <1>3, <1>4, <2>2, <2>3, <3>2, Numbers DEF LateInv
  <2>4. CASE poll.at = "post"
    <3>1. /\ poll.age < Dispatch
          /\ \/ late <= poll.age
             \/ poll.time >= loop.out /\ late <= Delay + Dispatch + poll.age
        BY <1>2, <2>4 DEF Callback, PollOnTime, LateInv
    <3>2. /\ poll'.age <= Dispatch
          /\ \/ late' <= poll'.age
             \/ poll'.time >= loop'.out /\ late' <= Delay + Dispatch + poll'.age
        BY <1>2, <1>3, <1>4, <3>1, Numbers
    <3> QED BY <1>3, <1>4, <2>2, <2>4, <3>2, Numbers DEF LateInv
  <2> QED BY <1>2, <2>1, <2>3, <2>4 DEF Places
<1>7. ReadInv'
    BY <1>1, <1>2, <1>3, Numbers DEF ReadInv
<1> QED BY <1>5, <1>6, <1>7

LEMMA PlayInv == DeckInv /\ LateInv /\ ReadInv /\ (Play \/ Pause)
                 => DeckInv' /\ LateInv' /\ ReadInv'
<1> SUFFICES ASSUME DeckInv, LateInv, ReadInv, Play \/ Pause
             PROVE  DeckInv' /\ LateInv' /\ ReadInv'
    OBVIOUS
<1>1. UNCHANGED <<vm, position, playing, full, loop, poll, undisturbed, late>>
    BY DEF Play, Pause, vars, history
<1>2. CASE Play
  <2>1. starting' = position /\ UNCHANGED stopping /\ Running /\ ~playing
      BY <1>2 DEF Play
  <2> QED BY <1>1, <2>1, Numbers DEF DeckInv, LateInv, ReadInv, Running, BeyondLoop
<1>3. CASE Pause
  <2>1. stopping' = TRUE /\ UNCHANGED starting
      BY <1>3 DEF Pause
  <2> QED BY <1>1, <2>1 DEF DeckInv, LateInv, ReadInv, Running, BeyondLoop
<1> QED BY <1>2, <1>3

\* Threads of play and pause, and the loop button: the count starts anew.
LEMMA AnewLate ==
    ASSUME DeckInv, LateInv, late' = 0, poll' = poll
    PROVE  LateInv'
<1>1. poll.age \in Nat
    BY DEF DeckInv
<1> QED BY <1>1, Numbers DEF LateInv

LEMMA ThreadInv == DeckInv /\ LateInv /\ ReadInv /\ (SetPlayMode \/ SetStopMode)
                   => DeckInv' /\ LateInv' /\ ReadInv'
<1> SUFFICES ASSUME DeckInv, LateInv, ReadInv, SetPlayMode \/ SetStopMode
             PROVE  DeckInv' /\ LateInv' /\ ReadInv'
    OBVIOUS
<1>1. /\ UNCHANGED <<vm, loop, poll, undisturbed>>
      /\ full' = FALSE /\ late' = 0
    BY DEF SetPlayMode, SetStopMode, vars
<1>2. LateInv'
    BY <1>1, AnewLate
<1>3. CASE SetPlayMode
  <2>1. /\ starting # NoStart /\ position' = starting /\ playing' = TRUE
        /\ starting' = NoStart /\ UNCHANGED stopping
      BY <1>3 DEF SetPlayMode
  <2> QED BY <1>1, <1>2, <2>1, Numbers DEF DeckInv, ReadInv, Running
<1>4. CASE SetStopMode
  <2>1. playing' = FALSE /\ stopping' = FALSE /\ UNCHANGED <<position, starting>>
      BY <1>4 DEF SetStopMode
  <2> QED BY <1>1, <1>2, <2>1 DEF DeckInv, ReadInv, Running
<1> QED BY <1>3, <1>4

LEMMA ButtonInv == DeckInv /\ LateInv /\ ReadInv /\ LoopButton
                   => DeckInv' /\ LateInv' /\ ReadInv'
<1> SUFFICES ASSUME DeckInv, LateInv, ReadInv, LoopButton
             PROVE  DeckInv' /\ LateInv' /\ ReadInv'
    OBVIOUS
<1>1. /\ UNCHANGED <<vm, position, playing, full, starting, stopping, poll, undisturbed>>
      /\ late' = 0
    BY DEF LoopButton, vars, deck
<1>2. loop' \in [state : States, in : 0 .. NumSamples, out : 0 .. NumSamples]
  <2>1. CASE LoopIn \/ LoopOut
      BY <2>1 DEF LoopIn, LoopOut, DeckInv, States
  <2>2. CASE LoopOff
      BY <2>2, Numbers DEF LoopOff, NoLoop, States
  <2> QED BY <2>1, <2>2 DEF LoopButton
<1> QED BY <1>1, <1>2, AnewLate DEF DeckInv, ReadInv, Running

LEMMA SetPlaybackTimeInside ==
    ASSUME NEW t \in 0 .. NumSamples, SetPlaybackTime(t)
    PROVE  /\ position' \in 0 .. NumSamples
           /\ full' = FALSE /\ late' = 0 /\ undisturbed' = FALSE
BY Numbers DEF SetPlaybackTime, Lesser

LEMMA SeekInv ==
    ASSUME DeckInv, LateInv, ReadInv, NEW t \in SeekPoints, OnSeekEnd(t)
    PROVE  DeckInv' /\ LateInv' /\ ReadInv'
<1>1. t \in 0 .. NumSamples
    BY ViewModelAssumption DEF NumSamples
<1>2. UNCHANGED <<vm, playing, starting, stopping, loop, poll>> /\ SetPlaybackTime(t)
    BY DEF OnSeekEnd, vars
<1>3. /\ position' \in 0 .. NumSamples
      /\ full' = FALSE /\ late' = 0 /\ undisturbed' = FALSE
    BY <1>1, <1>2, SetPlaybackTimeInside
<1> QED BY <1>2, <1>3, AnewLate DEF DeckInv, ReadInv, Running

LEMMA PollReadsInv == DeckInv /\ LateInv /\ ReadInv /\ PollReads
                      => DeckInv' /\ LateInv' /\ ReadInv'
<1> SUFFICES ASSUME DeckInv, LateInv, ReadInv, PollReads
             PROVE  DeckInv' /\ LateInv' /\ ReadInv'
    OBVIOUS
<1>1. /\ poll.at = "delay" /\ playing \in BOOLEAN /\ undisturbed' = playing
      /\ UNCHANGED <<vm, position, playing, full, starting, stopping, loop, late>>
      /\ late \in Nat /\ position \in Nat /\ loop.out \in Nat
    BY Numbers DEF PollReads, vars, deck, DeckInv
<1>2. CASE playing
  <2>1. poll' = [at |-> "post", time |-> position, age |-> 0] /\ starting = NoStart
      BY <1>2 DEF PollReads, GoPoll, DeckInv
  <2>2. DeckInv' /\ ReadInv'
      BY <1>1, <1>2, <2>1 DEF DeckInv, ReadInv, Places, Running
  <2>3. late <= Delay + Dispatch /\ (late > 0 => position >= loop.out)
      BY <1>1, <1>2, Numbers DEF LateInv, BeyondLoop, DeckInv
  <2>4. LateInv'
      BY <1>1, <2>1, <2>3, Numbers DEF LateInv, BeyondLoop
  <2> QED BY <2>2, <2>4
<1>3. CASE ~playing
  <2>1. poll' = [at |-> "delay", time |-> 0, age |-> 0]
      BY <1>3 DEF PollReads, GoPoll
  <2>2. DeckInv' /\ ReadInv'
      BY <1>1, <1>3, <2>1, Numbers DEF DeckInv, ReadInv, Places, Running
  <2>3. LateInv'
      BY <1>1, <1>3, <2>1, Numbers DEF LateInv, BeyondLoop
  <2> QED BY <2>2, <2>3
<1> QED BY <1>1, <1>2, <1>3

LEMMA PollActsInv == DeckInv /\ LateInv /\ ReadInv /\ PollActs
                     => DeckInv' /\ LateInv' /\ ReadInv'
<1> SUFFICES ASSUME DeckInv, LateInv, ReadInv, PollActs
             PROVE  DeckInv' /\ LateInv' /\ ReadInv'
    OBVIOUS
<1>1. /\ poll.at = "post" /\ poll' = [at |-> "delay", time |-> 0, age |-> 0]
      /\ UNCHANGED <<vm, playing, starting, stopping, loop>>
    BY DEF PollActs, GoPoll, vars
<1>2. CASE PastLoop(poll.time)
  <2>1. SetPlaybackTime(loop.in) /\ loop.in \in 0 .. NumSamples
      BY <1>2 DEF PollActs, DeckInv
  <2>2. /\ position' \in 0 .. NumSamples
        /\ full' = FALSE /\ late' = 0 /\ undisturbed' = FALSE
      BY <2>1, SetPlaybackTimeInside
  <2>3. DeckInv' /\ ReadInv'
      BY <1>1, <2>2, Numbers DEF DeckInv, ReadInv, Places, Running
  <2>4. LateInv'
      BY <1>1, <2>2, Numbers DEF LateInv
  <2> QED BY <2>3, <2>4
<1>3. CASE ~PastLoop(poll.time)
  <2>1. UNCHANGED <<position, full, undisturbed, late>>
      BY <1>3 DEF PollActs, history
  <2>2. DeckInv' /\ ReadInv'
      BY <1>1, <2>1, Numbers DEF DeckInv, ReadInv, Places, Running
  <2>3. late \in Nat /\ poll.age \in Nat
      BY DEF DeckInv
  <2>4. playing => late <= Dispatch
      BY <1>1, <1>3, <2>3, Numbers DEF LateInv, PastLoop, BeyondLoop
  <2>5. LateInv'
      BY <1>1, <2>1, <2>3, <2>4, Numbers DEF LateInv, BeyondLoop
  <2> QED BY <2>2, <2>5
<1> QED BY <1>2, <1>3

LEMMA SessionInv == DeckInv /\ LateInv /\ ReadInv /\ (SessionStep \/ LoadCompletesAndPolls)
                    => DeckInv' /\ LateInv' /\ ReadInv'
<1> SUFFICES ASSUME DeckInv, LateInv, ReadInv, SessionStep \/ LoadCompletesAndPolls
             PROVE  DeckInv' /\ LateInv' /\ ReadInv'
    OBVIOUS
<1>1. UNCHANGED <<position, playing, full, starting, stopping, loop, undisturbed, late>>
    BY DEF SessionStep, LoadCompletesAndPolls, deck, history
<1>2. CASE SessionStep
  <2>1. (vm' = "running" <=> vm = "running") /\ UNCHANGED poll
    <3>1. UNCHANGED poll
        BY <1>2 DEF SessionStep
    <3>2. CASE Launch
        BY <3>1, <3>2 DEF Launch, Begin
    <3>3. CASE OpenFile \/ CopyFile \/ LoadFile
        BY <3>1, <3>3 DEF OpenFile, CopyFile, LoadFile
    <3>4. CASE DownloadFails \/ DownloadCompletes
        BY <3>1, <3>4 DEF DownloadFails, DownloadCompletes, Begin
    <3> QED BY <1>2, <3>1, <3>2, <3>3, <3>4 DEF SessionStep
  <2> QED BY <1>1, <2>1 DEF DeckInv, LateInv, ReadInv, Running, BeyondLoop
<1>3. CASE LoadCompletesAndPolls
  <2>1. /\ vm # "running" /\ vm' = "running"
        /\ poll' = [at |-> "delay", time |-> 0, age |-> 0]
      BY <1>3 DEF LoadCompletesAndPolls, LoadCompletes, GoPoll
  <2>2. ~playing
      BY <2>1 DEF DeckInv, Running
  <2> QED BY <1>1, <2>1, <2>2, Numbers DEF DeckInv, LateInv, ReadInv, Running, BeyondLoop, Places
<1> QED BY <1>2, <1>3

LEMMA EndsInv == DeckInv /\ Ends => DeckInv' /\ LateInv' /\ ReadInv'
<1> SUFFICES ASSUME DeckInv, Ends PROVE DeckInv' /\ LateInv' /\ ReadInv'
    OBVIOUS
<1>1. /\ vm' = "none" /\ position' = 0 /\ playing' = FALSE /\ full' = FALSE
      /\ starting' = NoStart /\ stopping' = FALSE
      /\ loop' = [state |-> "inactive", in |-> 0, out |-> 0]
      /\ poll' = [at |-> "none", time |-> 0, age |-> 0]
      /\ undisturbed' = FALSE /\ late' = 0
    BY DEF Ends, DeckEnds, Clear, Kill, NoLoop, NoPoll
<1>2. DeckInv'
  <2>1. /\ {playing', full', stopping', undisturbed'} \subseteq BOOLEAN
        /\ poll'.at = "none" /\ starting' \in 0 .. NoStart
      BY <1>1, Numbers
  <2> QED BY <1>1, <2>1, Numbers DEF DeckInv, Running, States, Places
<1>3. LateInv' /\ ReadInv'
    BY <1>1, Numbers DEF LateInv, ReadInv
<1> QED BY <1>2, <1>3

LEMMA Stutter == DeckInv /\ LateInv /\ ReadInv /\ UNCHANGED allVars
                 => DeckInv' /\ LateInv' /\ ReadInv'
BY DEF allVars, vars, deck, history, DeckInv, LateInv, ReadInv, Running, BeyondLoop

LEMMA Inductive == DeckInv /\ LateInv /\ ReadInv /\ [NextAll]_allVars
                   => DeckInv' /\ LateInv' /\ ReadInv'
BY SessionInv, EndsInv, CallbackInv, PlayInv, ThreadInv, ButtonInv, SeekInv,
   PollReadsInv, PollActsInv, Stutter DEF NextAll, Poll

\* The deck, how late the song is, and what the poll has read stay in step: see
\* DeckInv, LateInv and ReadInv.
THEOREM ViewModelInvariant == SpecAll => [](DeckInv /\ LateInv /\ ReadInv)
BY InitInv, Inductive, PTL DEF SpecAll

\* Types of the deck; only a running view model has a job.
THEOREM DeckCorrect == SpecAll => []DeckOK
<1>1. DeckInv => DeckOK
    BY DEF DeckInv, DeckOK, States, Places
<1> QED BY <1>1, ViewModelInvariant, PTL

\* However the song is seeked, paused and looped, it plays on beyond the end of
\* an active loop for one delay and two ways to the main thread at most.
THEOREM LoopJumpsOnTime == SpecAll => []LoopOnTime
<1>1. LateInv => LoopOnTime
    BY DEF LateInv, LoopOnTime
<1> QED BY <1>1, ViewModelInvariant, PTL

\* The poll jumps on a position that is out of date; unless something was seeked
\* since it was read, the song has passed the end the loop has now.
THEOREM JumpsWhenDue == SpecAll => JumpIsDue
<1> DEFINE Due == poll.at = "post" /\ poll'.at = "delay" /\ position' # position
                  /\ undisturbed => position >= loop.out
<1>1. DeckInv /\ ReadInv /\ [NextAll]_allVars => [Due]_<<poll, position>>
  <2> SUFFICES ASSUME DeckInv, ReadInv, [NextAll]_allVars,
                      poll.at = "post", poll'.at = "delay", position' # position, undisturbed
               PROVE  position >= loop.out
      OBVIOUS
  <2>1. PollActs
    <3>1. ~PollReads /\ ~LoadCompletesAndPolls /\ ~Ends
        BY DEF PollReads, LoadCompletesAndPolls, LoadCompletes, Ends, NoPoll, DeckInv, Running
    <3>2. ~UNCHANGED poll
        OBVIOUS
    <3>3. ~Callback
        BY DEF Callback, DeckInv
    <3> QED BY <3>1, <3>2, <3>3 DEF NextAll, SessionStep, Play, SetPlayMode, Pause,
               SetStopMode, LoopButton, OnSeekEnd, Poll, allVars
  <2>2. PastLoop(poll.time)
      BY <2>1 DEF PollActs
  <2> QED BY <2>2, Numbers DEF PastLoop, ReadInv, DeckInv
<1>2. SpecAll => [][Due]_<<poll, position>>
    BY <1>1, ViewModelInvariant, PTL DEF SpecAll
<1> QED BY <1>2 DEF JumpIsDue

=============================================================================
