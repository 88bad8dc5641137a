---------------------------- MODULE Stream_proofs ----------------------------
(***************************************************************************)
(* Theorems about Stream, for any number of streams and any rates: that no *)
(* stream is lost although no lock protects mAudioStream.                  *)
(***************************************************************************)
EXTENDS Stream, TLAPS

Place == [at : Steps, tries : 0 .. Tries - 1]

MainOnly == {"down", "load", "running", "closing", "resetting"}
ErrorOnly == {"idle", "stop", "closed", "report"}
OwnPlaces == /\ thread[Main].at \notin ErrorOnly
             /\ \A i \in Streams : thread[i].at \notin MainOnly

\* Threads that may change mAudioStream exclude each other.
Busy(t) == thread[t].at \notin {"running", "idle", "report"}
OneBusy == \A t, u \in Threads : Busy(t) /\ Busy(u) => t = u

\* A stream is started last, and runs alone until it breaks or is closed.
StartedAlone ==
    \A i \in Streams : state[i] = "started" =>
        /\ tuner = i /\ sampleRate = rate[i]
        /\ \A t \in Threads : Busy(t) => At(t, "closing")

\* Whoever is about to open a stream finds all streams closed.
Empty == {"down", "closed", "open", "opening", "resetting"}
ClosedBefore == \A t \in Threads :
                    thread[t].at \in Empty => \A i \in Streams : state[i] = "closed"

Dropped == \A t \in Threads : At(t, "opening") => current = NoStream

LoadsOnce == \A t \in Threads : At(t, "load") => thread[t].tries = 0

StopsBroken == \A i \in Streams : At(i, "stop") => state[i] = "disconnected"

\* Whoever is about to start a stream has measured it.
Measured == \A t \in Threads :
                thread[t].at \in {"load", "start"} /\ current # NoStream =>
                    tuner = current /\ sampleRate = rate[current]

Exclusion == OwnPlaces /\ OneBusy /\ StartedAlone /\ ClosedBefore /\ StopsBroken
             /\ Dropped /\ LoadsOnce /\ Measured /\ StartsOpened

StreamInv == TypeOK /\ NoStreamLost /\ Exclusion

LEMMA Names == /\ NoStream \notin Streams /\ Main \notin Streams /\ Main \in Threads
               /\ Streams \subseteq Threads
               /\ \A t \in Threads : t = Main \/ t \in Streams
BY StreamAssumption DEF NoStream, Streams, Main, Threads

\* A thread moves and the others stay.
LEMMA Move ==
    ASSUME TypeOK, NEW t \in Threads, NEW p \in Place,
           thread' = [thread EXCEPT ![t] = p]
    PROVE  /\ thread' \in [Threads -> Place] /\ thread'[t] = p
           /\ \A u \in Threads : u # t => thread'[u] = thread[u]
BY DEF TypeOK, Place

LEMMA GoesTo ==
    ASSUME TypeOK, NEW t \in Threads, NEW s \in Steps, GoTo(t, s)
    PROVE  /\ thread' \in [Threads -> Place]
           /\ thread'[t].at = s /\ thread'[t].tries = thread[t].tries
           /\ \A u \in Threads : u # t => thread'[u] = thread[u]
BY DEF TypeOK, Place, GoTo

LEMMA StreamInit == Init => StreamInv
<1> SUFFICES ASSUME Init PROVE StreamInv
    OBVIOUS
<1>1. /\ \A i \in Streams : state[i] = "closed" /\ thread[i].at = "idle"
      /\ thread[Main].at = "down" /\ current = NoStream
    BY Names DEF Init
<1>2. \A t \in Threads : thread[t] \in Place
    BY DEF Init, Place, Steps, Tries
<1>3. thread \in [Threads -> Place]
    BY <1>2 DEF Init
<1>4. TypeOK
    BY <1>3 DEF Init, TypeOK, Place, Live
<1>5. NoStreamLost /\ Exclusion
    BY <1>1, Names DEF NoStreamLost, Exclusion, OwnPlaces, OneBusy, StartedAlone, ClosedBefore,
       StopsBroken, Dropped, LoadsOnce, Measured, StartsOpened, MainOnly, ErrorOnly, Busy, At, Live, Empty
<1> QED BY <1>4, <1>5 DEF StreamInv

LEMMA DropCurrentInv ==
    ASSUME StreamInv, NEW t \in Threads, DropCurrent(t)
    PROVE  StreamInv'
<1>1. /\ thread[t].at = "open" /\ current' = NoStream
      /\ UNCHANGED <<state, rate, tuner, sampleRate, loadedRate, playing, outputReset>>
    BY DEF DropCurrent, streams, rest, At
<1>2. /\ thread' \in [Threads -> Place]
      /\ thread'[t].at = "opening" /\ thread'[t].tries = thread[t].tries
      /\ \A u \in Threads : u # t => thread'[u] = thread[u]
    BY GoesTo DEF StreamInv, DropCurrent, Steps
<1>3. /\ \A i \in Streams : state[i] = "closed"
      /\ \A u \in Threads : u # t => ~Busy(u)
    BY <1>1 DEF StreamInv, Exclusion, ClosedBefore, OneBusy, Busy, Empty
<1>4. TypeOK' /\ NoStreamLost'
    BY <1>1, <1>2, <1>3 DEF StreamInv, TypeOK, NoStreamLost, Place, Live
<1>5. Exclusion'
    BY <1>1, <1>2, <1>3, Names DEF StreamInv, Exclusion, OwnPlaces, OneBusy, StartedAlone,
       ClosedBefore, StopsBroken, Dropped, LoadsOnce, Measured, StartsOpened, MainOnly, ErrorOnly,
       Busy, At, Empty
<1> QED BY <1>4, <1>5 DEF StreamInv


\* Where openStream() and startStream() leave a thread.
LEMMA AfterTry ==
    ASSUME StreamInv, NEW t \in Threads
    PROVE  /\ Returned(t, TRUE) \in Place /\ Returned(t, FALSE) \in Place
           /\ Opened(t) \in Place /\ NextTry(t) \in Place /\ NotOpened(t) \in Place
           /\ Returned(t, TRUE).at = IF t = Main THEN "running" ELSE "report"
           /\ Opened(t).at \in {"load", "start"} /\ (t # Main => Opened(t).at = "start")
           /\ NextTry(t).at \in {"open", IF t = Main THEN "running" ELSE "idle"}
           /\ NotOpened(t).at \in {"open", "load", IF t = Main THEN "running" ELSE "idle"}
           /\ NotOpened(t).at = "load" => t = Main /\ NotOpened(t).tries = 0
           /\ Opened(t).at = "load" => Opened(t).tries = 0
<1>1. thread[t] \in Place /\ thread[t].tries \in 0 .. 2
    BY DEF StreamInv, TypeOK, Place, Tries
<1>2. /\ Returned(t, TRUE) \in Place /\ Returned(t, FALSE) \in Place
      /\ Returned(t, TRUE).at = IF t = Main THEN "running" ELSE "report"
      /\ Returned(t, FALSE).at = IF t = Main THEN "running" ELSE "idle"
    BY DEF Returned, Place, Steps, Tries
<1>3. /\ Opened(t) \in Place
      /\ Opened(t).at \in {"load", "start"} /\ (t # Main => Opened(t).at = "start")
      /\ Opened(t).at = "load" => Opened(t).tries = 0
    BY <1>1 DEF Opened, Place, Steps
<1>4. NextTry(t) \in Place /\ NextTry(t).at \in {"open", IF t = Main THEN "running" ELSE "idle"}
  <2>1. CASE MoreTries(thread[t].tries + 1)
    <3>1. thread[t].tries + 1 \in 0 .. 2
        BY <1>1, <2>1 DEF MoreTries, Tries
    <3> QED BY <2>1, <3>1 DEF NextTry, Place, Steps, Tries
  <2>2. CASE ~MoreTries(thread[t].tries + 1)
      BY <1>2, <2>2 DEF NextTry
  <2> QED BY <2>1, <2>2
<1>5. /\ NotOpened(t) \in Place
      /\ NotOpened(t).at \in {"open", "load", IF t = Main THEN "running" ELSE "idle"}
      /\ NotOpened(t).at = "load" => t = Main /\ NotOpened(t).tries = 0
    BY <1>1, <1>4 DEF NotOpened, Place, Steps
<1> QED BY <1>2, <1>3, <1>4, <1>5

LEMMA OpenNewInv ==
    ASSUME StreamInv, NEW t \in Threads, OpenNew(t)
    PROVE  StreamInv'
<1>1. PICK i \in Streams, r \in Rates :
          /\ state' = [state EXCEPT ![i] = "open"]
          /\ rate' = [rate EXCEPT ![i] = r]
          /\ current' = i
    BY DEF OpenNew
<1>2. /\ thread[t].at = "opening"
      /\ UNCHANGED <<tuner, sampleRate, loadedRate, playing, outputReset>>
    BY DEF OpenNew, rest, At
<1>3. /\ thread' \in [Threads -> Place]
      /\ thread'[t].at = "measure" /\ thread'[t].tries = thread[t].tries
      /\ \A u \in Threads : u # t => thread'[u] = thread[u]
    BY GoesTo DEF StreamInv, OpenNew, Steps
<1>4. /\ \A k \in Streams : state[k] = "closed"
      /\ \A u \in Threads : u # t => ~Busy(u)
    BY <1>2 DEF StreamInv, Exclusion, ClosedBefore, OneBusy, Busy, Empty
<1>5. /\ state' \in [Streams -> {"closed"} \cup Live] /\ rate' \in [Streams -> Rates \cup {0}]
      /\ \A k \in Streams : state'[k] = IF k = i THEN "open" ELSE "closed"
    BY <1>1, <1>4 DEF StreamInv, TypeOK, Live
<1>6. TypeOK' /\ NoStreamLost'
    BY <1>1, <1>2, <1>3, <1>5 DEF StreamInv, TypeOK, NoStreamLost, Place, Live
<1>7. Exclusion'
    BY <1>1, <1>2, <1>3, <1>4, <1>5, Names DEF StreamInv, Exclusion, OwnPlaces, OneBusy, StartedAlone,
       ClosedBefore, StopsBroken, Dropped, LoadsOnce, Measured, StartsOpened, MainOnly, ErrorOnly,
       Busy, At, Empty
<1> QED BY <1>6, <1>7 DEF StreamInv

LEMMA OpenFailsInv ==
    ASSUME StreamInv, NEW t \in Threads, OpenFails(t)
    PROVE  StreamInv'
<1>1. /\ thread[t].at = "opening"
      /\ UNCHANGED <<state, rate, current, tuner, sampleRate, loadedRate, playing, outputReset>>
    BY DEF OpenFails, streams, player, rest, At
<1>2. /\ thread' \in [Threads -> Place] /\ thread'[t] = NotOpened(t)
      /\ \A u \in Threads : u # t => thread'[u] = thread[u]
    BY Move, AfterTry DEF StreamInv, OpenFails
<1>3. /\ \A k \in Streams : state[k] = "closed"
      /\ \A u \in Threads : u # t => ~Busy(u)
    BY <1>1 DEF StreamInv, Exclusion, ClosedBefore, OneBusy, Busy, Empty
<1>4. TypeOK' /\ NoStreamLost'
    BY <1>1, <1>2 DEF StreamInv, TypeOK, NoStreamLost, Place, Live
<1>5. /\ thread'[t].at \in {"open", "load", IF t = Main THEN "running" ELSE "idle"}
      /\ thread'[t].at = "load" => t = Main /\ thread'[t].tries = 0
      /\ current = NoStream
    BY <1>1, <1>2, AfterTry DEF StreamInv, Exclusion, Dropped, At
<1>6. Exclusion'
    BY <1>1, <1>2, <1>3, <1>5, Names DEF StreamInv, Exclusion, OwnPlaces, OneBusy, StartedAlone,
       ClosedBefore, StopsBroken, Dropped, LoadsOnce, Measured, StartsOpened, MainOnly, ErrorOnly,
       Busy, At, Empty
<1> QED BY <1>4, <1>6 DEF StreamInv

LEMMA MeasureInv ==
    ASSUME StreamInv, NEW t \in Threads, Measure(t)
    PROVE  StreamInv'
<1>1. /\ thread[t].at = "measure" /\ current # NoStream
      /\ sampleRate' = rate[current] /\ tuner' = current
      /\ UNCHANGED <<state, rate, current, loadedRate, playing, outputReset>>
    BY DEF Measure, streams, rest, At
<1>2. /\ thread' \in [Threads -> Place] /\ thread'[t] = Opened(t)
      /\ \A u \in Threads : u # t => thread'[u] = thread[u]
    BY Move, AfterTry DEF StreamInv, Measure
<1>3. /\ thread'[t].at \in {"load", "start"} /\ (t # Main => thread'[t].at = "start")
      /\ thread'[t].at = "load" => thread'[t].tries = 0
      /\ \A u \in Threads : u # t => ~Busy(u)
      /\ \A i \in Streams : state[i] # "started"
    BY <1>1, <1>2, AfterTry DEF StreamInv, Exclusion, OneBusy, StartedAlone, Busy, At
<1>4. TypeOK' /\ NoStreamLost'
    BY <1>1, <1>2, Names DEF StreamInv, TypeOK, NoStreamLost, Place
<1>5. Exclusion'
    BY <1>1, <1>2, <1>3, Names DEF StreamInv, Exclusion, OwnPlaces, OneBusy, StartedAlone,
       ClosedBefore, StopsBroken, Dropped, LoadsOnce, Measured, StartsOpened, MainOnly, ErrorOnly,
       Busy, At, Empty
<1> QED BY <1>4, <1>5 DEF StreamInv

LEMMA RequestStartInv ==
    ASSUME StreamInv, NEW t \in Threads, RequestStart(t)
    PROVE  StreamInv'
<1>1. /\ thread[t].at = "start" /\ current # NoStream /\ state[current] = "open"
      /\ state' = [state EXCEPT ![current] = "started"]
      /\ UNCHANGED <<rate, current, tuner, sampleRate, loadedRate, playing, outputReset>>
    BY DEF RequestStart, player, rest, At
<1>2. /\ thread' \in [Threads -> Place] /\ thread'[t] = Returned(t, TRUE)
      /\ \A u \in Threads : u # t => thread'[u] = thread[u]
    BY Move, AfterTry DEF StreamInv, RequestStart
<1>3. /\ current \in Streams /\ state' \in [Streams -> {"closed"} \cup Live]
      /\ state'[current] = "started"
      /\ \A i \in Streams : i # current => state'[i] = state[i] /\ state[i] = "closed"
    BY <1>1 DEF StreamInv, TypeOK, NoStreamLost, Live
<1>4. /\ \A u \in Threads : u # t => ~Busy(u)
      /\ thread'[t].at = IF t = Main THEN "running" ELSE "report"
      /\ tuner = current /\ sampleRate = rate[current]
    BY <1>1, <1>2, AfterTry DEF StreamInv, Exclusion, OneBusy, Measured, Busy
<1>5. TypeOK' /\ NoStreamLost'
    BY <1>1, <1>2, <1>3 DEF StreamInv, TypeOK, NoStreamLost, Place, Live
<1>6. OwnPlaces' /\ OneBusy' /\ StartedAlone'
    BY <1>1, <1>2, <1>3, <1>4, Names DEF StreamInv, Exclusion, OwnPlaces, OneBusy, StartedAlone,
       MainOnly, ErrorOnly, Busy, At
<1>7. ClosedBefore' /\ StopsBroken' /\ Dropped' /\ LoadsOnce' /\ Measured' /\ StartsOpened'
    BY <1>1, <1>2, <1>3, <1>4, Names DEF StreamInv, Exclusion, OneBusy, ClosedBefore, StopsBroken,
       Dropped, LoadsOnce, Measured, StartsOpened, Busy, At, Empty
<1> QED BY <1>5, <1>6, <1>7 DEF StreamInv, Exclusion

LEMMA StartFailsInv ==
    ASSUME StreamInv, NEW t \in Threads, StartFails(t)
    PROVE  StreamInv'
<1>1. /\ thread[t].at = "start" /\ current # NoStream
      /\ state' = [state EXCEPT ![current] = "closed"] /\ current' = NoStream
      /\ UNCHANGED <<rate, tuner, sampleRate, loadedRate, playing, outputReset>>
    BY DEF StartFails, rest, At
<1>2. /\ thread' \in [Threads -> Place] /\ thread'[t] = NextTry(t)
      /\ \A u \in Threads : u # t => thread'[u] = thread[u]
    BY Move, AfterTry DEF StreamInv, StartFails
<1>3. /\ state' \in [Streams -> {"closed"} \cup Live]
      /\ \A i \in Streams : state'[i] = "closed"
    BY <1>1 DEF StreamInv, TypeOK, NoStreamLost, Live
<1>4. /\ \A u \in Threads : u # t => ~Busy(u)
      /\ thread'[t].at \in {"open", IF t = Main THEN "running" ELSE "idle"}
    BY <1>1, <1>2, AfterTry DEF StreamInv, Exclusion, OneBusy, Busy
<1>5. TypeOK' /\ NoStreamLost'
    BY <1>1, <1>2, <1>3 DEF StreamInv, TypeOK, NoStreamLost, Place, Live
<1>6. Exclusion'
    BY <1>1, <1>2, <1>3, <1>4, Names DEF StreamInv, Exclusion, OwnPlaces, OneBusy, StartedAlone,
       ClosedBefore, StopsBroken, Dropped, LoadsOnce, Measured, StartsOpened, MainOnly, ErrorOnly,
       Busy, At, Empty
<1> QED BY <1>5, <1>6 DEF StreamInv

\* The calls of the main thread.
LEMMA MainInv ==
    ASSUME StreamInv, Setup \/ Load \/ Teardown \/ ResetCurrent
    PROVE  StreamInv'
<1>1. UNCHANGED <<state, rate, tuner, sampleRate, outputReset>>
    BY DEF Setup, Load, Teardown, ResetCurrent, streams, player, rest
<1>2. CASE Setup
  <2>1. thread[Main].at = "down" /\ UNCHANGED <<current, loadedRate, playing>>
      BY <1>2 DEF Setup, At, player, rest
  <2>2. /\ thread' \in [Threads -> Place] /\ thread'[Main].at = "open"
        /\ \A u \in Threads : u # Main => thread'[u] = thread[u]
      BY <1>2, GoesTo, Names DEF StreamInv, Setup, Steps
  <2>3. TypeOK' /\ NoStreamLost'
      BY <1>1, <2>1, <2>2 DEF StreamInv, TypeOK, NoStreamLost, Place
  <2>4. Exclusion'
      BY <1>1, <2>1, <2>2, Names DEF StreamInv, Exclusion, OwnPlaces, OneBusy, StartedAlone,
       ClosedBefore, StopsBroken, Dropped, LoadsOnce, Measured, StartsOpened, MainOnly, ErrorOnly,
       Busy, At, Empty
  <2> QED BY <2>3, <2>4 DEF StreamInv
<1>3. CASE Load
  <2>1. thread[Main].at = "load" /\ loadedRate' = sampleRate /\ UNCHANGED <<current, playing>>
      BY <1>3 DEF Load, At, player
  <2>2. /\ thread' \in [Threads -> Place] /\ thread'[Main].at = "start"
        /\ thread'[Main].tries = thread[Main].tries
        /\ \A u \in Threads : u # Main => thread'[u] = thread[u]
      BY <1>3, GoesTo, Names DEF StreamInv, Load, Steps
  <2>3. TypeOK' /\ NoStreamLost'
      BY <1>1, <2>1, <2>2 DEF StreamInv, TypeOK, NoStreamLost, Place
  <2>4. Exclusion'
      BY <1>1, <2>1, <2>2, Names DEF StreamInv, Exclusion, OwnPlaces, OneBusy, StartedAlone,
       ClosedBefore, StopsBroken, Dropped, LoadsOnce, Measured, StartsOpened, MainOnly, ErrorOnly,
       Busy, At, Empty
  <2> QED BY <2>3, <2>4 DEF StreamInv
<1>4. CASE Teardown
  <2>1. /\ thread[Main].at = "running" /\ playing' = FALSE /\ UNCHANGED <<current, loadedRate>>
        /\ \A i \in Streams : thread[i].at = "idle"
      BY <1>4 DEF Teardown, Quiet, At, player
  <2>2. /\ thread' \in [Threads -> Place]
        /\ thread'[Main].at = IF current = NoStream THEN "down" ELSE "closing"
        /\ \A u \in Threads : u # Main => thread'[u] = thread[u]
      BY <1>4, GoesTo, Names DEF StreamInv, Teardown, Steps
  <2>3. TypeOK' /\ NoStreamLost'
      BY <1>1, <2>1, <2>2 DEF StreamInv, TypeOK, NoStreamLost, Place
  <2>4. current = NoStream => \A i \in Streams : state[i] = "closed"
      BY Names DEF StreamInv, TypeOK, NoStreamLost
  <2>5. Exclusion'
      BY <1>1, <2>1, <2>2, <2>4, Names DEF StreamInv, Exclusion, OwnPlaces, OneBusy, StartedAlone,
       ClosedBefore, StopsBroken, Dropped, LoadsOnce, Measured, StartsOpened, MainOnly, ErrorOnly,
       Busy, At, Empty
  <2> QED BY <2>3, <2>5 DEF StreamInv
<1>5. CASE ResetCurrent
  <2>1. /\ thread[Main].at = "resetting" /\ current' = NoStream
        /\ UNCHANGED <<loadedRate, playing>>
      BY <1>5 DEF ResetCurrent, At, rest
  <2>2. /\ thread' \in [Threads -> Place] /\ thread'[Main].at = "down"
        /\ \A u \in Threads : u # Main => thread'[u] = thread[u]
      BY <1>5, GoesTo, Names DEF StreamInv, ResetCurrent, Steps
  <2>3. \A i \in Streams : state[i] = "closed"
      BY <2>1, Names DEF StreamInv, Exclusion, ClosedBefore, Empty
  <2>4. TypeOK' /\ NoStreamLost'
      BY <1>1, <2>1, <2>2, <2>3 DEF StreamInv, TypeOK, NoStreamLost, Place, Live
  <2>5. Exclusion'
      BY <1>1, <2>1, <2>2, <2>3, Names DEF StreamInv, Exclusion, OwnPlaces, OneBusy, StartedAlone,
       ClosedBefore, StopsBroken, Dropped, LoadsOnce, Measured, StartsOpened, MainOnly, ErrorOnly,
       Busy, At, Empty
  <2> QED BY <2>4, <2>5 DEF StreamInv
<1> QED BY <1>2, <1>3, <1>4, <1>5

LEMMA CloseCurrentInv ==
    ASSUME StreamInv, CloseCurrent
    PROVE  StreamInv'
<1>1. /\ thread[Main].at = "closing" /\ current # NoStream
      /\ state' = [state EXCEPT ![current] = "closed"]
      /\ UNCHANGED <<rate, current, tuner, sampleRate, loadedRate, playing, outputReset>>
    BY DEF CloseCurrent, player, rest, At
<1>2. /\ thread' \in [Threads -> Place] /\ thread'[Main].at = "resetting"
      /\ \A u \in Threads : u # Main => thread'[u] = thread[u]
    BY GoesTo, Names DEF StreamInv, CloseCurrent, Steps
<1>3. /\ state' \in [Streams -> {"closed"} \cup Live]
      /\ \A i \in Streams : state'[i] = "closed"
    BY <1>1 DEF StreamInv, TypeOK, NoStreamLost, Live
<1>4. TypeOK' /\ NoStreamLost'
    BY <1>1, <1>2, <1>3 DEF StreamInv, TypeOK, NoStreamLost, Place, Live
<1>5. Exclusion'
    BY <1>1, <1>2, <1>3, Names DEF StreamInv, Exclusion, OwnPlaces, OneBusy, StartedAlone,
       ClosedBefore, StopsBroken, Dropped, LoadsOnce, Measured, StartsOpened, MainOnly, ErrorOnly,
       Busy, At, Empty
<1> QED BY <1>4, <1>5 DEF StreamInv

LEMMA DisconnectInv ==
    ASSUME StreamInv, NEW i \in Streams, Disconnect(i)
    PROVE  StreamInv'
<1>1. /\ thread[i].at = "idle" /\ thread[Main].at # "closing"
      /\ state[i] \in {"open", "started"}
      /\ state' = [state EXCEPT ![i] = "disconnected"]
      /\ UNCHANGED <<rate, current, tuner, sampleRate, loadedRate, playing, outputReset>>
    BY DEF Disconnect, player, rest, At
<1>2. /\ state' \in [Streams -> {"closed"} \cup Live] /\ state'[i] = "disconnected"
      /\ \A k \in Streams : k # i => state'[k] = state[k]
    BY <1>1 DEF StreamInv, TypeOK, Live
<1>3. ~\E t \in Threads : thread[t].at \in Empty
    BY <1>1 DEF StreamInv, Exclusion, ClosedBefore
<1>4. CASE state[i] = "started"
  <2>1. \A t \in Threads : ~Busy(t)
      BY <1>1, <1>4, Names DEF StreamInv, Exclusion, StartedAlone, OwnPlaces, MainOnly, At
  <2>2. /\ thread' \in [Threads -> Place] /\ thread'[i].at = "stop"
        /\ \A u \in Threads : u # i => thread'[u] = thread[u]
      BY <1>4, GoesTo, Names DEF StreamInv, Disconnect, Steps
  <2>3. TypeOK' /\ NoStreamLost'
      BY <1>1, <1>2, <2>2 DEF StreamInv, TypeOK, NoStreamLost, Place, Live
  <2>4. \A k \in Streams : k # i => state[k] # "started"
      BY <1>1 DEF StreamInv, NoStreamLost, Live
  <2>5. Exclusion'
      BY <1>1, <1>2, <2>1, <2>2, <2>4, Names DEF StreamInv, Exclusion, OwnPlaces, OneBusy, StartedAlone,
       ClosedBefore, StopsBroken, Dropped, LoadsOnce, Measured, StartsOpened, MainOnly, ErrorOnly,
       Busy, At, Empty
  <2> QED BY <2>3, <2>5 DEF StreamInv
<1>5. CASE state[i] # "started"
  <2>1. UNCHANGED thread
      BY <1>5 DEF Disconnect
  <2>2. TypeOK' /\ NoStreamLost'
      BY <1>1, <1>2, <2>1 DEF StreamInv, TypeOK, NoStreamLost, Live
  <2>3. Exclusion'
      BY <1>1, <1>2, <1>3, <2>1 DEF StreamInv, Exclusion, OwnPlaces, OneBusy, StartedAlone,
       ClosedBefore, StopsBroken, Dropped, LoadsOnce, Measured, StartsOpened, MainOnly, ErrorOnly,
       Busy, At, Empty
  <2> QED BY <2>2, <2>3 DEF StreamInv
<1> QED BY <1>4, <1>5

LEMMA ErrorCloseInv ==
    ASSUME StreamInv, NEW i \in Streams, ErrorClose(i)
    PROVE  StreamInv'
<1>1. /\ thread[i].at = "stop" /\ state' = [state EXCEPT ![i] = "closed"]
      /\ UNCHANGED <<rate, current, tuner, sampleRate, loadedRate, playing, outputReset>>
    BY DEF ErrorClose, player, rest, At
<1>2. /\ thread' \in [Threads -> Place] /\ thread'[i].at = "closed"
      /\ \A u \in Threads : u # i => thread'[u] = thread[u]
    BY GoesTo, Names DEF StreamInv, ErrorClose, Steps
<1>3. /\ state' \in [Streams -> {"closed"} \cup Live]
      /\ \A k \in Streams : state'[k] = "closed"
  <2>1. current = i
      BY <1>1 DEF StreamInv, Exclusion, StopsBroken, NoStreamLost, At, Live
  <2> QED BY <1>1, <2>1 DEF StreamInv, TypeOK, NoStreamLost, Live
<1>4. TypeOK' /\ NoStreamLost'
    BY <1>1, <1>2, <1>3 DEF StreamInv, TypeOK, NoStreamLost, Place, Live
<1>5. Exclusion'
    BY <1>1, <1>2, <1>3, Names DEF StreamInv, Exclusion, OwnPlaces, OneBusy, StartedAlone,
       ClosedBefore, StopsBroken, Dropped, LoadsOnce, Measured, StartsOpened, MainOnly, ErrorOnly,
       Busy, At, Empty
<1> QED BY <1>4, <1>5 DEF StreamInv

LEMMA RestartInv ==
    ASSUME StreamInv, NEW i \in Streams, Restart(i) \/ Report(i)
    PROVE  StreamInv'
<1>1. UNCHANGED <<state, rate, current, tuner, sampleRate, loadedRate>>
    BY DEF Restart, Report, streams, player
<1>2. CASE Restart(i)
  <2>1. thread[i].at = "closed" /\ playing' = FALSE /\ UNCHANGED outputReset
      BY <1>2 DEF Restart, At
  <2>2. /\ thread' \in [Threads -> Place] /\ thread'[i].at = "open"
        /\ \A u \in Threads : u # i => thread'[u] = thread[u]
      BY <1>2, GoesTo, Names DEF StreamInv, Restart, Steps
  <2>3. TypeOK' /\ NoStreamLost'
      BY <1>1, <2>1, <2>2 DEF StreamInv, TypeOK, NoStreamLost, Place
  <2>4. Exclusion'
      BY <1>1, <2>1, <2>2, Names DEF StreamInv, Exclusion, OwnPlaces, OneBusy, StartedAlone,
       ClosedBefore, StopsBroken, Dropped, LoadsOnce, Measured, StartsOpened, MainOnly, ErrorOnly,
       Busy, At, Empty
  <2> QED BY <2>3, <2>4 DEF StreamInv
<1>3. CASE Report(i)
  <2>1. thread[i].at = "report" /\ outputReset' = TRUE /\ UNCHANGED playing
      BY <1>3 DEF Report, At
  <2>2. /\ thread' \in [Threads -> Place] /\ thread'[i].at = "idle"
        /\ \A u \in Threads : u # i => thread'[u] = thread[u]
      BY <1>3, GoesTo, Names DEF StreamInv, Report, Steps
  <2>3. TypeOK' /\ NoStreamLost'
      BY <1>1, <2>1, <2>2 DEF StreamInv, TypeOK, NoStreamLost, Place
  <2>4. Exclusion'
      BY <1>1, <2>1, <2>2, Names DEF StreamInv, Exclusion, OwnPlaces, OneBusy, StartedAlone,
       ClosedBefore, StopsBroken, Dropped, LoadsOnce, Measured, StartsOpened, MainOnly, ErrorOnly,
       Busy, At, Empty
  <2> QED BY <2>3, <2>4 DEF StreamInv
<1> QED BY <1>2, <1>3

LEMMA StillInv ==
    ASSUME StreamInv, PlayPause \/ UNCHANGED vars
    PROVE  StreamInv'
<1>1. /\ UNCHANGED <<state, rate, current, tuner, sampleRate, loadedRate, outputReset, thread>>
      /\ playing' \in BOOLEAN
    BY DEF PlayPause, vars, streams, player, rest, StreamInv, TypeOK
<1>2. TypeOK' /\ NoStreamLost'
    BY <1>1 DEF StreamInv, TypeOK, NoStreamLost
<1>3. Exclusion'
    BY <1>1 DEF StreamInv, Exclusion, OwnPlaces, OneBusy, StartedAlone,
       ClosedBefore, StopsBroken, Dropped, LoadsOnce, Measured, StartsOpened, MainOnly, ErrorOnly,
       Busy, At, Empty
<1> QED BY <1>2, <1>3 DEF StreamInv

LEMMA StreamStep == StreamInv /\ [Next]_vars => StreamInv'
<1> SUFFICES ASSUME StreamInv, [Next]_vars PROVE StreamInv'
    OBVIOUS
<1>1. ASSUME NEW t \in Threads, ThreadStep(t) PROVE StreamInv'
    BY <1>1, DropCurrentInv, OpenNewInv, OpenFailsInv, MeasureInv, RequestStartInv, StartFailsInv
       DEF ThreadStep
<1>2. CASE MainStep
    BY <1>1, <1>2, MainInv, CloseCurrentInv, Names DEF MainStep
<1>3. ASSUME NEW i \in Streams, ErrorStep(i) \/ Disconnect(i) PROVE StreamInv'
    BY <1>1, <1>3, ErrorCloseInv, RestartInv, DisconnectInv, Names DEF ErrorStep
<1> QED BY <1>2, <1>3, MainInv, StillInv DEF Next

\* The members and the places of the threads stay in step: see StreamInv.
THEOREM StreamInvariant == Spec => []StreamInv
BY StreamInit, StreamStep, PTL DEF Spec

\* Types of the members and of the locals: startStream() counts to three.
THEOREM StreamTypes == Spec => []TypeOK
<1>1. StreamInv => TypeOK
    BY DEF StreamInv
<1> QED BY <1>1, StreamInvariant, PTL

\* However opens and starts fail and streams break, also while their restart is
\* under way, a stream that is not closed is the one mAudioStream refers to.
THEOREM NoStreamIsLost == Spec => []NoStreamLost
<1>1. StreamInv => NoStreamLost
    BY DEF StreamInv
<1> QED BY <1>1, StreamInvariant, PTL

\* The latency tuner and mSampleRate belong to the stream that runs.
THEOREM TunerFollows == Spec => []TunedStreamRuns
<1>1. StreamInv => TunedStreamRuns
    BY DEF StreamInv, Exclusion, StartedAlone, TunedStreamRuns
<1> QED BY <1>1, StreamInvariant, PTL

\* What a restart or a retry starts is there: only the first start after a setup
\* that failed to open dereferences an empty mAudioStream.
THEOREM RestartsFindTheirStream == Spec => []StartsOpened
<1>1. StreamInv => StartsOpened
    BY DEF StreamInv, Exclusion
<1> QED BY <1>1, StreamInvariant, PTL

(***************************************************************************)
(* The rate of the sources                                                 *)
(***************************************************************************)

\* The main thread has started a stream, or was about to, so it has loaded the sources
\* when there was one.
Started == thread[Main].at \in {"running", "closing", "resetting"} \/ thread[Main].tries > 0
RateInv ==
    /\ current # NoStream => rate[current] # 0
    /\ Started => loadedRate # 0
    /\ At(Main, "start") /\ current # NoStream => loadedRate # 0

LEMMA RateInit == Init => RateInv
BY Names DEF Init, RateInv, Started, At

\* A step of an error thread, or of the device.
LEMMA RateElsewhere ==
    ASSUME StreamInv, RateInv, thread'[Main] = thread[Main], loadedRate' = loadedRate,
           At(Main, "start") => current' \in {current, NoStream},
           current' # NoStream => rate'[current'] # 0
    PROVE  RateInv'
BY DEF RateInv, Started, At

\* Opening and starting, by the main thread or by an error thread.
LEMMA RateThread ==
    ASSUME StreamInv, RateInv, NEW t \in Threads, ThreadStep(t)
    PROVE  RateInv'
<1>1. /\ TypeOK /\ OneBusy /\ LoadsOnce /\ Measured /\ thread[t] \in Place
      /\ thread[Main] \in Place /\ loadedRate' = loadedRate /\ Main \in Threads
    BY Names DEF StreamInv, Exclusion, TypeOK, Place, ThreadStep, DropCurrent, OpenNew, OpenFails,
                 Measure, RequestStart, StartFails, rest
<1>2. Busy(t) /\ \A u \in Threads : u # t => thread'[u] = thread[u]
    BY <1>1 DEF ThreadStep, DropCurrent, OpenNew, OpenFails, Measure, RequestStart, StartFails,
                GoTo, At, Busy, TypeOK
<1>3. current' # NoStream => rate'[current'] # 0
  <2>1. CASE OpenNew(t)
      BY <1>1, <2>1, StreamAssumption DEF OpenNew, TypeOK
  <2>2. CASE DropCurrent(t) \/ StartFails(t)
      BY <2>2 DEF DropCurrent, StartFails
  <2>3. CASE OpenFails(t) \/ Measure(t) \/ RequestStart(t)
      BY <2>3 DEF OpenFails, Measure, RequestStart, RateInv, streams, player
  <2> QED BY <2>1, <2>2, <2>3 DEF ThreadStep
<1>4. CASE t # Main
  <2>1. ~At(Main, "start")
      BY <1>1, <1>2, <1>4 DEF OneBusy, Busy, At
  <2> QED BY <1>1, <1>2, <1>3, <1>4, <2>1, RateElsewhere
<1>5. CASE t = Main
  <2>1. CASE DropCurrent(t) \/ OpenNew(t)
    <3>1. thread'[Main].at \in {"opening", "measure"} /\ thread'[Main].tries = thread[Main].tries
        BY <1>1, <1>5, <2>1 DEF DropCurrent, OpenNew, GoTo, TypeOK, Place
    <3> QED BY <1>1, <1>3, <3>1 DEF RateInv, Started, At
  <2>2. CASE OpenFails(t)
    <3>1. thread'[Main] = NotOpened(Main)
        BY <1>1, <1>5, <2>2 DEF OpenFails, TypeOK
    <3>2. thread[Main].tries = 0 => thread'[Main].at = "load" /\ thread'[Main].tries = 0
        BY <1>1, <3>1 DEF NotOpened, Place
    <3>3. thread[Main].tries > 0 => loadedRate # 0
        BY DEF RateInv, Started
    <3> QED BY <1>1, <1>3, <3>2, <3>3 DEF RateInv, Started, At, Place
  <2>3. CASE Measure(t)
    <3>1. thread'[Main] = Opened(Main)
        BY <1>1, <1>5, <2>3 DEF Measure, TypeOK
    <3>2. /\ thread'[Main].tries = thread[Main].tries
          /\ thread[Main].tries = 0 => thread'[Main].at = "load"
        BY <1>1, <3>1 DEF Opened, Place
    <3>3. thread[Main].tries > 0 => loadedRate # 0
        BY DEF RateInv, Started
    <3> QED BY <1>1, <1>3, <3>2, <3>3 DEF RateInv, Started, At, Place
  <2>4. CASE RequestStart(t) \/ StartFails(t)
    <3>1. loadedRate # 0
        BY <1>5, <2>4 DEF RequestStart, StartFails, RateInv
    <3> QED BY <1>1, <1>3, <3>1 DEF RateInv
  <2> QED BY <2>1, <2>2, <2>3, <2>4 DEF ThreadStep
<1> QED BY <1>4, <1>5

LEMMA RateStep == StreamInv /\ RateInv /\ [Next]_vars => RateInv'
<1> SUFFICES ASSUME StreamInv, RateInv, [Next]_vars PROVE RateInv'
    OBVIOUS
<1>1. /\ TypeOK /\ Measured /\ LoadsOnce /\ Main \in Threads /\ Main \notin Streams
      /\ Streams \subseteq Threads /\ thread[Main] \in Place
    BY Names DEF StreamInv, Exclusion, TypeOK, Place
<1>2. ASSUME NEW t \in Threads, ThreadStep(t) PROVE RateInv'
    BY <1>2, RateThread
<1>3. CASE Load
  <2>1. /\ At(Main, "load") /\ loadedRate' = sampleRate
        /\ UNCHANGED <<current, rate, sampleRate>>
        /\ thread'[Main].at = "start" /\ thread'[Main].tries = 0
      BY <1>1, <1>3 DEF Load, GoTo, At, TypeOK, streams, player, LoadsOnce
  <2>2. current # NoStream => loadedRate' # 0
      BY <1>1, <2>1 DEF Measured, At, RateInv
  <2> QED BY <2>1, <2>2 DEF RateInv, Started
<1>4. CASE Setup \/ Teardown \/ CloseCurrent \/ ResetCurrent
  <2>1. /\ loadedRate' = loadedRate /\ rate' = rate /\ current' \in {current, NoStream}
        /\ thread'[Main].at # "start" /\ thread'[Main].tries = thread[Main].tries
        /\ thread'[Main].at \in {"running", "closing", "resetting"} =>
              thread[Main].at \in {"running", "closing", "resetting"}
      BY <1>1, <1>4 DEF Setup, Teardown, CloseCurrent, ResetCurrent, GoTo, At, TypeOK, streams,
                        player, rest
  <2> QED BY <2>1 DEF RateInv, Started, At
<1>5. CASE PlayPause \/ UNCHANGED vars
    BY <1>5, RateElsewhere DEF PlayPause, vars, streams, player, rest, RateInv
<1>6. ASSUME NEW i \in Streams, ErrorClose(i) \/ Restart(i) \/ Report(i) \/ Disconnect(i)
      PROVE  RateInv'
  <2>1. UNCHANGED <<current, rate, loadedRate>>
      BY <1>6 DEF ErrorClose, Restart, Report, Disconnect, streams, player, rest
  <2>2. thread'[Main] = thread[Main]
      BY <1>1, <1>6 DEF ErrorClose, Restart, Report, Disconnect, GoTo, TypeOK
  <2> QED BY <2>1, <2>2, RateElsewhere DEF RateInv
<1> QED BY <1>1, <1>2, <1>3, <1>4, <1>5, <1>6 DEF Next, MainStep, ErrorStep

\* Whatever stream runs, the loaded sources have its rate.
RunsAtLoadedRate == \A i \in Streams : state[i] = "started" => loadedRate = rate[i]

\* Where all devices have one rate, the sources have the rate of whatever stream runs,
\* through failed opens, retries, restarts and new view models, and so after each
\* restart: it is only a device of another rate that openStream()'s "we will resample"
\* forgets.
THEOREM OneRateIsKept ==
    ASSUME NEW r, Rates = {r}
    PROVE  Spec => [](RunsAtLoadedRate /\ SourcesAtDeviceRate)
<1>1. StreamInv /\ RateInv => RunsAtLoadedRate
  <2> SUFFICES ASSUME StreamInv, RateInv, NEW i \in Streams, state[i] = "started"
               PROVE  loadedRate = rate[i]
      BY DEF RunsAtLoadedRate
  <2>1. current = i /\ current # NoStream
      BY Names DEF StreamInv, NoStreamLost, Live
  <2>2. Started
    <3>1. Busy(Main) => At(Main, "closing")
        BY Names DEF StreamInv, Exclusion, StartedAlone
    <3>2. thread[Main].at \notin {"idle", "report"}
        BY DEF StreamInv, Exclusion, OwnPlaces, ErrorOnly
    <3> QED BY <3>1, <3>2 DEF Started, Busy, At
  <2>3. rate[i] # 0 /\ loadedRate # 0
      BY <2>1, <2>2 DEF RateInv
  <2> QED BY <2>3 DEF StreamInv, TypeOK
<1>2. RunsAtLoadedRate => SourcesAtDeviceRate
    BY DEF RunsAtLoadedRate, SourcesAtDeviceRate
<1> QED BY <1>1, <1>2, RateInit, RateStep, StreamInvariant, PTL DEF Spec

=============================================================================
