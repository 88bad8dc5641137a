------------------------------- MODULE Stream -------------------------------
(***************************************************************************)
(* The life of the oboe stream of SimpleMultiPlayer: setup, start with its *)
(* three tries, the restart oboe's error thread makes after a disconnect,  *)
(* and teardown.  The main thread and one error thread per stream share    *)
(* mAudioStream without a lock.  What the streams play is left out, and so *)
(* is a teardown that meets a restart under way.                           *)
(***************************************************************************)
EXTENDS Integers

CONSTANTS NumStreams,   \* streams there can be at a time (bound)
          Rates         \* sample rates of the devices

ASSUME StreamAssumption ==
    /\ NumStreams \in Nat \ {0}
    /\ Rates \subseteq Nat \ {0} /\ Rates # {}

Streams == 1 .. NumStreams
NoStream == 0
Main == 0                    \* the main thread; thread i is stream i's error thread
Threads == {Main} \cup Streams
Tries == 3

VARIABLES
    state,        \* state[i]: of stream i; a closed one may be opened as a new one
    rate,         \* rate[i]: its sample rate
    current,      \* mAudioStream
    tuner,        \* the stream mLatencyTuner refers to
    sampleRate,   \* mSampleRate
    loadedRate,   \* the rate the sources have been resampled to
    playing,      \* some source is playing
    outputReset,  \* mOutputReset
    thread        \* thread[t]: where t stands and tryCount of startStream()

streams == <<state, rate>>
player == <<current, tuner, sampleRate>>
rest == <<loadedRate, playing, outputReset>>
vars == <<streams, player, rest, thread>>

Live == {"open", "started", "disconnected"}

Init == /\ state = [i \in Streams |-> "closed"]
        /\ rate = [i \in Streams |-> 0]
        /\ current = NoStream
        /\ tuner = NoStream
        /\ sampleRate = 0
        /\ loadedRate = 0
        /\ playing = FALSE
        /\ outputReset = FALSE
        /\ thread = [t \in Threads |->
                        [at |-> IF t = Main THEN "down" ELSE "idle", tries |-> 0]]

At(t, step) == thread[t].at = step
GoTo(t, step) == thread' = [thread EXCEPT ![t].at = step]

(***************************************************************************)
(* openStream() and startStream(), in thread t                             *)
(***************************************************************************)

\* startStream() returns.
Returned(t, started) == [at |-> IF t = Main THEN "running"
                                ELSE IF started THEN "report" ELSE "idle",
                         tries |-> 0]

\* The next turn of the loop of startStream().
MoreTriesForever(tries) == TRUE
MoreTries(tries) == tries < Tries
NextTryUncounted(t) == [at |-> "open", tries |-> 1]
NextTry(t) == IF MoreTries(thread[t].tries + 1)
                THEN [at |-> "open", tries |-> thread[t].tries + 1]
                ELSE Returned(t, FALSE)

\* Where openStream() leaves thread t: setupAudioStream() ignores the result,
\* onErrorAfterClose() starts only a stream that opened, startStream() tries
\* again.
Opened(t) == [thread[t] EXCEPT !.at = IF t = Main /\ thread[t].tries = 0
                                        THEN "load" ELSE "start"]
NotOpenedStarting(t) == Opened(t)
NotOpened(t) == IF thread[t].tries > 0 THEN NextTry(t)
                ELSE [thread[t] EXCEPT !.at = IF t = Main THEN "load" ELSE "idle"]

\* builder.openStream() drops the shared pointer first.
DropCurrent(t) ==
    /\ At(t, "open")
    /\ current' = NoStream
    /\ GoTo(t, "opening")
    /\ UNCHANGED <<streams, tuner, sampleRate, rest>>

OpenNew(t) ==
    /\ At(t, "opening")
    /\ \E i \in Streams, r \in Rates :
          /\ state[i] = "closed" /\ At(i, "idle")
          /\ state' = [state EXCEPT ![i] = "open"]
          /\ rate' = [rate EXCEPT ![i] = r]
          /\ current' = i
    /\ GoTo(t, "measure")
    /\ UNCHANGED <<tuner, sampleRate, rest>>

OpenFails(t) ==
    /\ At(t, "opening")
    /\ thread' = [thread EXCEPT ![t] = NotOpened(t)]
    /\ UNCHANGED <<streams, player, rest>>

\* The rest of openStream() reads mAudioStream again.
MeasureKeepingTuner(t) ==
    /\ At(t, "measure") /\ current # NoStream
    /\ sampleRate' = rate[current]
    /\ thread' = [thread EXCEPT ![t] = Opened(t)]
    /\ UNCHANGED <<streams, current, tuner, rest>>
Measure(t) ==
    /\ At(t, "measure") /\ current # NoStream
    /\ sampleRate' = rate[current]
    /\ tuner' = current
    /\ thread' = [thread EXCEPT ![t] = Opened(t)]
    /\ UNCHANGED <<streams, current, rest>>

RequestStart(t) ==
    /\ At(t, "start") /\ current # NoStream
    /\ state[current] = "open"
    /\ state' = [state EXCEPT ![current] = "started"]
    /\ thread' = [thread EXCEPT ![t] = Returned(t, TRUE)]
    /\ UNCHANGED <<rate, player, rest>>

StartFailsUnclosed(t) ==
    /\ At(t, "start") /\ current # NoStream
    /\ current' = NoStream
    /\ thread' = [thread EXCEPT ![t] = NextTry(t)]
    /\ UNCHANGED <<streams, tuner, sampleRate, rest>>

\* The failed stream is closed and dropped.
StartFails(t) ==
    /\ At(t, "start") /\ current # NoStream
    /\ state' = [state EXCEPT ![current] = "closed"]
    /\ current' = NoStream
    /\ thread' = [thread EXCEPT ![t] = NextTry(t)]
    /\ UNCHANGED <<rate, tuner, sampleRate, rest>>

(***************************************************************************)
(* The main thread                                                         *)
(***************************************************************************)

Setup == /\ At(Main, "down")
         /\ GoTo(Main, "open")
         /\ UNCHANGED <<streams, player, rest>>

\* addSampleSource() resamples to mSampleRate.
Load == /\ At(Main, "load")
        /\ loadedRate' = sampleRate
        /\ GoTo(Main, "start")
        /\ UNCHANGED <<streams, player, playing, outputReset>>

PlayPause == /\ At(Main, "running")
             /\ playing' = ~playing
             /\ UNCHANGED <<streams, player, loadedRate, outputReset, thread>>

\* No disconnect is being handled, or about to be.
Quiet == \A i \in Streams : At(i, "idle") /\ state[i] # "disconnected"

\* onCleared(): the sources are stopped and unloaded, then mAudioStream is
\* closed if it is there.  Without Quiet the restart could open a stream that
\* the teardown does not see.
Teardown == /\ At(Main, "running")
            /\ Quiet
            /\ playing' = FALSE
            /\ GoTo(Main, IF current = NoStream THEN "down" ELSE "closing")
            /\ UNCHANGED <<streams, player, loadedRate, outputReset>>

CloseCurrent == /\ At(Main, "closing") /\ current # NoStream
                /\ state' = [state EXCEPT ![current] = "closed"]
                /\ GoTo(Main, "resetting")
                /\ UNCHANGED <<rate, player, rest>>

ResetCurrent == /\ At(Main, "resetting")
                /\ current' = NoStream
                /\ GoTo(Main, "down")
                /\ UNCHANGED <<streams, tuner, sampleRate, rest>>

(***************************************************************************)
(* The device, and oboe's error thread of stream i                         *)
(***************************************************************************)

\* Only a started stream has a callback that can report the disconnect; stop()
\* ends it.
Disconnect(i) ==
    /\ state[i] \in {"open", "started"} /\ At(i, "idle")
    /\ ~At(Main, "closing")
    /\ state' = [state EXCEPT ![i] = "disconnected"]
    /\ IF state[i] = "started" THEN GoTo(i, "stop") ELSE UNCHANGED thread
    /\ UNCHANGED <<rate, player, rest>>

ErrorClose(i) == /\ At(i, "stop")
                 /\ state' = [state EXCEPT ![i] = "closed"]
                 /\ GoTo(i, "closed")
                 /\ UNCHANGED <<rate, player, rest>>

\* onErrorAfterClose(): resetAll(), then openStream() and startStream().
Restart(i) == /\ At(i, "closed")
              /\ playing' = FALSE
              /\ GoTo(i, "open")
              /\ UNCHANGED <<streams, player, loadedRate, outputReset>>

Report(i) == /\ At(i, "report")
             /\ outputReset' = TRUE
             /\ GoTo(i, "idle")
             /\ UNCHANGED <<streams, player, loadedRate, playing>>

ThreadStep(t) == DropCurrent(t) \/ OpenNew(t) \/ OpenFails(t) \/ Measure(t)
                 \/ RequestStart(t) \/ StartFails(t)
MainStep == Setup \/ Load \/ CloseCurrent \/ ResetCurrent \/ ThreadStep(Main)
ErrorStep(i) == ErrorClose(i) \/ Restart(i) \/ Report(i) \/ ThreadStep(i)

Next == \/ MainStep \/ PlayPause \/ Teardown
        \/ \E i \in Streams : ErrorStep(i) \/ Disconnect(i)

Spec == Init /\ [][Next]_vars

\* Threads run; the user need not press anything and nothing need break.
FairSpec == Spec /\ WF_vars(MainStep) /\ \A i \in Streams : WF_vars(ErrorStep(i))

(***************************************************************************)
(* Properties                                                              *)
(***************************************************************************)

Steps == {"idle", "down", "open", "opening", "measure", "load", "start", "running",
          "closing", "resetting", "stop", "closed", "report"}

\* Types of the members and of the locals; tryCount stays below three.
TypeOK == /\ state \in [Streams -> {"closed"} \cup Live]
          /\ rate \in [Streams -> Rates \cup {0}]
          /\ current \in Streams \cup {NoStream}
          /\ tuner \in Streams \cup {NoStream}
          /\ sampleRate \in Rates \cup {0}
          /\ loadedRate \in Rates \cup {0}
          /\ playing \in BOOLEAN /\ outputReset \in BOOLEAN
          /\ thread \in [Threads -> [at : Steps, tries : 0 .. Tries - 1]]

\* A stream that is not closed is the one mAudioStream refers to, so at most
\* one stream runs and teardown can close it; restarts by error threads, even
\* of a stream that breaks while its restart is under way, lose none.
NoStreamLost == \A i \in Streams : state[i] \in Live => current = i

\* A running stream is the one the latency tuner tunes in the callback, and
\* mSampleRate is its rate.
TunedStreamRuns ==
    \A i \in Streams : state[i] = "started" => tuner = i /\ sampleRate = rate[i]

\* "Assume that openStream() was called successfully before startStream()": a
\* thread that measures or starts mAudioStream finds it there, whatever has
\* failed before and whatever other restarts are under way.  Only the first start
\* after a setup that failed to open does not.
StartsOpened ==
    \A t \in Threads :
        At(t, "measure") \/ (At(t, "start") /\ (t # Main \/ thread[t].tries > 0))
            => current # NoStream

\* A stream that is disconnected is closed in the end, by its error thread or
\* by the startStream() that cannot start it.
DisconnectedIsClosed ==
    \A i \in Streams : state[i] = "disconnected" ~> state[i] = "closed"

\* Every restart ends: with a stream that was started and reported, or after
\* three tries.
RestartEnds == \A i \in Streams : ~At(i, "idle") ~> At(i, "idle")

\* "we will resample source data to device rate": when onErrorAfterClose() has
\* restarted after a disconnect, the loaded sources have the rate of the stream
\* that runs, on whatever device it was opened.
SourcesAtDeviceRate ==
    \A i, j \in Streams : At(i, "report") /\ state[j] = "started" => loadedRate = rate[j]

=============================================================================
