# A verification project for multitrackplayer

multitrackplayer is an Android app that plays the stems of a song (bass, drums,
other, vocals, click) in sync, with a volume slider per stem, tempo and pitch
buttons, a seek bar and an A/B loop.  This directory holds TLA+ models of its
own code, the TLC configurations that check them on small instances, and TLAPS
proofs of what matters most for every instance.

Paths below are relative to the repository; `SMP` stands for
`iolib/src/main/cpp/player/SimpleMultiPlayer.cpp`.

## Inventory

| Component | State it keeps | Operations | Who calls it |
|---|---|---|---|
| View model (`app/.../PlayerViewModel.kt`) | five volumes, tempo, pitch, seek position, loop state and its two times, the polling job, the downloaded files | check directory, download, load, play/pause, slider, tempo, pitch, seek, loop, `onCleared` | Compose UI (main thread), IO coroutines |
| JNI layer (`app/src/main/cpp/DrumPlayerJNI.cpp`) | one static `SimpleMultiPlayer`, which outlives every view model | one function per operation; decodes MP3 and WAV | view model |
| Player (`SMP`) | sources and buffers, count, tempo, pitch, remembered gains, the oboe stream, its callbacks and latency tuner | open, start, tear down, error restart, add and unload sources, trigger down/up, fades, gains, seek, tempo, pitch | JNI, detached threads, the audio callback, oboe's error thread |
| Source (`SampleSource.h`, `OneShotSampleSource.cpp`) | cursor, playing flag, gain and pan, pitch, a SoundTouch pipe | play mode, stop mode, seek, `mixAudio` | player |
| Buffer (`SampleBuffer.cpp`) | samples, their number, rate and channels | load, resample to the stream's rate, unload | JNI, player |
| WAV reader (`parselib`) | stream position, chunk headers | parse, position to audio, read as float | buffer |
| oboe stream (vendored) | stream state, error-callback flag, callback objects | open, start, stop, close, error thread | player |
| SoundTouch (vendored) | sample FIFOs, tempo and pitch | put, receive, clear | source, player |
| minimp3 (vendored) | decoder | decode a file | JNI |
| `shared/` | nothing | helper headers no target of the app uses | nobody |

How they interact: the UI thread calls the player through JNI; `triggerDown()`
and `triggerUp()` start detached threads which start further detached threads;
oboe calls `onAudioReady()` on its real-time thread and `onErrorAfterClose()`
on a thread it makes for the purpose; IO coroutines download and load; a
polling coroutine reads the position every 50 ms and makes the loop jump.
There is no lock in the app's own code: all of these share the player's
plain members.

What is hard: threads of two presses overlapping; a stop, a seek, a pitch
change or a teardown between two steps of the audio callback; the error restart
racing a teardown; files that a failed or interrupted download leaves behind;
boundary positions (the end of a song, odd sample indexes of a stereo track,
rounding in the resampler and in the fades, a WAV file that is cut off).
`PROJECT.json` lists each hazard at its line, with the properties that watch
it or the reason why none does.

What makes each correct:

* transport: pausing and resuming keep every volume; a pause ends stopped, a
  resume ends at the volumes; the memory of a pause is complete or empty;
* playback: all tracks stay at the same time; a cursor stays inside its buffer
  and on a frame; a song that is played reaches its end and stops; a pitch or
  seek reaches every track;
* stream: at most one live stream, the one the player refers to; a disconnected
  one is closed and every restart ends;
* resampling: never past the end of the buffer it allocated, and a length that
  is the input's scaled by the ratio of the rates;
* WAV reading: parsing terminates inside the file, samples come from the data
  chunk and fill exactly what was allocated;
* session: what is loaded is what was downloaded, at the index of its slider,
  however often a download fails or the process dies;
* view model: an active loop jumps on time and only when it is due, though the
  poll acts on a position that is out of date, and the song always comes back.

## The modules

| Module | Models | State | Actions |
|---|---|---|---|
| `Transport` | `triggerDown`, `triggerUp`, `fadeGain`, `fadeGainToStored`, `setGain` of `SMP` with their detached threads; `playPause` and the sliders of the view model | gains, playing flags, `mInitialGains`, slider positions; per thread its place, loop variables and locals | one per access of a thread to a shared member; one per handler of the UI thread |
| `VolumeDesk` | what the transport promises: levels that only a slider moves, held during a pause | levels, held | move, hold, release, start fresh |
| `SampleBuffer` | the loop of `resampleData()` with the integer phase of oboe's resampler | phase, samples left, samples written | write a frame, read a frame |
| `Playback`, `MCPlayback` | `onAudioReady()` and `mixAudio()` track by track, seek, play, pause, tempo, pitch, over tracks of lengths of their own | per track: cursor, playing, frames inside and ready in its SoundTouch, noted and applied pitch, tempo; locals of callback and handler; the histories `torn`, `apart` and `outdated` of what a handler's loop has met | `CallbackStart`, `NotePitch`, `ApplyPitch`, `ReadCursor`, `MixTrack`; `PlayPause`, `Seek`, `PressTempo`, `PressPitch`, `HandlerStep` |
| `Stream` | `openStream`, `startStream`, `setupAudioStream`, `teardownAudioStream`, `onErrorAfterClose` and oboe's error thread | streams and their rates, `mAudioStream`, `mLatencyTuner`, `mSampleRate`, the rate of the sources, one place per thread | one per access to `mAudioStream` |
| `WavReader`, `MCWavReader` | `WavStreamReader` over a `MemInputStream`, `loadSampleData()` | position, chunks found, buffer, samples written, frames said to be read | one per chunk, one per block of a reader |
| `Session` | launch, download, load, clear, and the death of the process | files of the directory, view model, its coroutine, `mSampleSources` | one per file opened, copied or loaded; `Kill` |
| `ViewModel`, extends `Session` | the view model while its song is loaded: play/pause, the seek bar, `loop()`, the polling coroutine, over one track of the player | cursor, playing flag and pipe of track 0, threads of play and pause, loop state and its times, where the job stands and what it has read; histories `undisturbed` and `late` | `Callback`; `Play`, `SetPlayMode`, `Pause`, `SetStopMode`, `OnSeekEnd`, `LoopButton`; `PollReads`, `PollActs`; `LoadCompletesAndPolls`, `Ends` |

`Transport_proofs`, `SampleBuffer_proofs`, `Playback_proofs` and
`PlaybackSync_proofs` on top of it, `Stream_proofs`, `WavReader_proofs`,
`Session_proofs` and `ViewModel_proofs` hold the theorems.

### What the models abstract

* `Transport`: gains are integers and a fade step rounds down; 300 steps become
  `Steps`.  The write-only members `mFading` and `mFadeDurationMs` are left out.
  Sleeps are steps that may take any time, so the 20 ms and 200 ms order nothing.
* `SampleBuffer`: the values of samples; the reduction of the two rates by their
  common factors, which changes no comparison of the phase.
* `Playback`: gains and sound.  SoundTouch is a pipe that, at pitch `p` and tempo
  `t`, waits for `Need[p, t]` input frames and then takes in `Takes[p, t]` and
  gives out `Gives[p, t]`; tempos are fractions of `Unit` and positive.  In the
  library the first batch after a `clear()` is shorter, and at a pitch or tempo
  other than 1.0 the sizes of the batches vary by a frame.
  `resetAll()` does to the tracks what the loop of a pause does.  Two handlers
  never run at once, and a pitch button is pressed at most once during one
  callback.  `Overlap` decides whether a handler moves tracks during a callback;
  then at most `Meets` callbacks start during one loop of a handler, so that the
  distance it leaves between the tracks has a bound to be compared with.  Every
  run and theorem about `Playback` lets handlers overlap the callback but the two
  runs that end at a finding.  What a meeting of the two breaks is said by three
  history variables, each the exception of one property: `apart`, that since the
  tracks were last set to one position (by a seek, a play or a pitch adjustment
  that no other loop met) a callback and a handler's loop have met (`SameTime`);
  `torn`, that a pitch adjustment has met a handler's loop (`SkewBounded`);
  `outdated`, that a track has been mixed with a count of samples that a handler
  had changed (`InsideBuffer`).  `SameTime` compares tracks at one pitch: stems of
  one size up to the end of the song, tracks of different sizes while both have
  more than the reserve left, for `mixAudio()` tops up by what a track has left;
  `SkewBounded` leaves a track near its end out.  The app ignores the pitch for
  drums and click (`PlayerViewModel.kt:313`), so they are compared with the others
  at the initial pitch only.
  `InsideBuffer` leaves out a track that is shorter than track 0.
* `Stream`: what is played.  A teardown begins only when no restart is under way:
  nothing in the code sees to that, and without it the restart may open a stream
  that the teardown does not see (a hazard without a property).
* `WavReader`: the bytes of a header are a choice when it is read, which is sound
  because no header is read twice; values of samples.  The parser is therefore
  checked on any bytes, but not that it finds the data chunk of a given file.
* `Session`: the coroutines of a view model end before it is cleared.  The code
  does not cancel them; this too is a hazard without a property.
* `ViewModel`: track 0 stands for all tracks, and a callback is one step; how it
  interleaves with handlers is the matter of `Playback`.  Time is counted in
  callbacks: at most `Delay` pass while the job sleeps, at most `Dispatch` between
  its read and its turn on the main thread.  The user presses play or pause
  again only when the thread of the last such press has done its work.  Times in seconds are the
  samples they were computed from.

## The runs

| Run | Instance | Distinct states | What it shows |
|---|---|---|---|
| `transport_patient` | 2 tracks, 2 steps, gains 0..3, sliders at 0 and 3, one press at a time | 12,976 | `Settled`, `PatientInv`; `ImplementsDesk`: every step is a step of `VolumeDesk` or none; `PauseEnds`, `PlayRestores` under fairness |
| `transport_impatient` | 2 presses at once | stops at the violation | `RemembersGainsBeforeFading` fails: see the findings |
| `samplebuffer` | up to 7 frames, 1 or 2 channels, rates 2, 3, 5, 8, and 0 | 1,910 | never past the buffer, the whole input read, tracks of equal length stay so |
| `playback_sync` | two stereo stems of 9 frames and a mono click of 12, bursts of 2, a reserve of 3, two tempos, seeks to the start, to a frame, between two frames and beyond the end, handlers during the callback | 3,583,777 | `InsideBuffer`, `SameTime` |
| `playback_pitch` | one stem and one mono track that ignores the pitch, 10 frames each, bursts of 1, a reserve of 2 and one frame that SoundTouch waits for beyond it, two pitches, a seek between two frames near the end, handlers during the callback | 1,064,543 | `SameTime`, `SkewBounded`, `PitchNotMissed`, `PitchReachesAll` |
| `playback_once`, `playback_unheard` | one stereo and one mono track | stop at the violation | see the findings |
| `stream_life` | 3 streams, 2 rates, any open or start may fail, any stream may break | 34,667 | `NoStreamLost`, `TunedStreamRuns`, `StartsOpened`, `DisconnectedIsClosed`, `RestartEnds` |
| `stream_rate` | 2 streams, 2 rates | stops at the violation | see the findings |
| `wav` | files of 41 and 46 bytes, chunk sizes -20, 0, 5, 12, 8 to 32 bits, 1 or 2 channels | 7,718 | `ParseEnds`, `InsideBuffer`, `AudioOnly`, `NothingUnset` |
| `wav_unread` | one 24-bit file that is cut off | stops at the violation | see the findings |
| `session` | 4 stems and a click track; 7 frames, seeks between two frames and beyond the end, 2 callbacks per delay and 1 to the main thread | 552,231 | `LastStemVouches`, `TracksInPlace` of `Session`; `LoopOnTime`, `JumpIsDue`, `LoopComesBack` of `ViewModel` |

Why these bounds are enough:

* Two tracks are the first number at which a loop over tracks can be caught
  halfway, and track 0 differs from the others only as the reference of
  play/pause.  Two steps give a fade a first, a middle and a closing value, and a
  gain of 3 rounds in the middle.  The theorems about `Transport` hold for any
  numbers; only the two liveness properties rest on these.
* The rates of `samplebuffer` are coprime and on both sides of one another, so
  that both guards of the loop and every rounding occur; the theorems are for
  any rates, lengths and up to seven channels.
* 9 frames of a song at bursts of 2 and a reserve of 3 give each track a
  top-up, a full reserve, a short last burst and an end at different fill levels
  of the pipe; a click of 12 frames lies behind the end of the stems.  In
  `playback_pitch` ten frames leave both tracks midway for several callbacks,
  the tracks come to within one frame of the bound of `SkewBounded`, and a pitch may be pressed in the middle
  of the adjustment to the other.  In both, one callback may start during a
  handler's loop besides the one it begins in.
* A third stream lets a restarted stream break while the error thread that
  opened it has not returned, and start a restart of its own.
* 46 bytes hold a format chunk, a data header and all of a 12-byte chunk, 41
  bytes cut it off inside a frame; blocks of 2 frames give full and short ones.
* `session` has as many files as the song of the app.  Its 7 frames leave more
  callbacks behind a loop than `LoopOnTime` allows, and the bound is reached; the
  seek to frame 1.5 and the clamped seek beyond the end give positions that never
  reach the end of the song.

`CHECK_DEADLOCK FALSE` stands where the system really stops: the resampling loop
and the WAV reader end, and in `Stream` and `WavReader` the program dies where the
code dereferences an empty pointer.

### Fairness

* `Transport`: weak fairness of each detached thread: the system schedules them
  and every sleep ends.  The user and the ends of tracks are not fair.
* `Playback`: weak fairness of the callback, which the device asks for as long
  as the stream runs, and strong fairness of a handler's loop, which is kept out
  during a callback where `Overlap` is FALSE and would otherwise run on.
* `Stream`: weak fairness of the main thread's calls and of each error thread.
  Nothing obliges a stream to break or an open to succeed.
* `WavReader`: one thread runs it to its end.
* `ViewModel`: weak fairness of the poll, which `delay()` wakes as long as the job
  is not cancelled, and of the threads of play and pause.  The device need not
  ask for audio and the user need not press anything.
* `Session` and `SampleBuffer` state no liveness.

## The theorems

For every value of the constants that satisfies the module's named assumption:

* `TypeCorrect`: `Transport!Spec => []TypeOK`.  The only assumption of weight is
  that slider positions are at most `Unity`.
* `SettledBetweenPresses`: with a patient user, `[]Settled`.  `Settled` speaks of
  quiescent states only, so it says nothing of how they are reached;
  `PatientInv` adds that one press is under way (`OneAtATime`) and, for each
  place its trigger thread and its fade thread can be at, what `stored`, `gain`
  and `playing` are there (`PausePoint`, `PlayPoint`).  It is proved inductive
  action by action in `PatientInvariant`.
* `TransportImplementsDesk`: with a patient user, `Transport` implements
  `VolumeDesk` under the mapping `Level`, which is the remembered gain if there
  is one, 1.0 in a fade-in that has none, and the gain otherwise.  The steps that
  need `PatientInv` are those where the mapping changes its case: the last push
  of a pause, the start and the end of a fade-in.
* `NeverPastBuffer`, `NoTrackCutShort`, `ResampledLength`: the three invariants
  of `SampleBuffer`, from `LoopInv`.  It keeps a ledger: with `k` frames unread
  and `r` frames written, the phase is what `r` reads and the writes so far have
  made of it, and stays below the sum of the rates.  From it a lemma about
  rounding (`AllocatedBound`) shows that the eight samples of padding leave room
  for one more frame of up to seven channels, so that it is always the input
  that ends the loop.
* `TypesKept` and `StaysInsideBuffer`: `TypeOK` and `InsideBuffer` of `Playback`,
  with handlers that run at any point of the callback, for any lengths.
  `InsideBuffer` names the two things that do push a cursor out, and the theorem
  says that there is no third: a mix with a count that a handler has made out of
  date, and a play that starts a short track beyond its end.  `MixTypes` carries
  the arithmetic: `FedInside`, that the second limit in `mixAudio()` holds back
  the top-up, and `BatchesFit`, that whole batches leave nothing negative in
  SoundTouch, for any `Need`, `Takes` and `Gives`.  `EndInv` adds to `InsideBuffer`
  that the callback carries a count only while it mixes, and that the position a
  play hands out lies in track 0.
* `SameTimeKept` (`SameTime`): handlers may run at any point of the callback, the
  tracks may be any number, of any lengths, any of them may ignore the pitch, and
  `Need`, `Takes` and `Gives` are arbitrary.  Until a loop meets a callback, and
  again from the next seek, play or pitch adjustment that none meets, the tracks
  that play at one pitch are at one frame with the same frames on their way.  Two
  assumptions are left, and the app meets both: only the last track is mono
  (`OneMono`; the reference of a pitch adjustment is halved for a mono track and
  stays halved), and a burst is no larger than the reserve and takes at least a
  frame at any tempo (`SmallBursts`).  The idea is that `mixAudio()` is a function
  of one track (`MixIsFunction`), so tracks that are equal stay equal, and tracks
  of different sizes are fed alike while they have more than the reserve left
  (`OneMix`, `MixAgree`).  `Whole` says where they agree between two steps: halfway
  through a callback those behind it are one mix ahead (`Between`), halfway through
  a pitch adjustment or the loop of a seek or a play those behind it are at its
  position (`Adjusted`, `Looped`).  `SyncInv` is `Whole` until `apart`, and what
  holds in any case: a tempo that is spreading has reached the tracks behind its
  loop (`OneTempo`).
* `SkewStaysBounded` (`SkewBounded`): what is left of this when a loop does meet
  callbacks, for any number of tracks, also ones that ignore the pitch, and any
  number `Meets` of callbacks per loop.
  `SkewInv` counts what will have been heard of a track when the callback under way
  has passed it (`Due`).  Between handlers all tracks lie in one window (`Spread`);
  while a handler moves them, those it has moved lie between its position and a
  burst for each callback met so far (`Moved`), and a pitch adjustment that meets no
  loop leaves them at one frame (`Level`).  A callback that mixes with a count that
  is out of date (`Stale`) gives between nothing and a burst.  The hypothesis
  `Steady`: one tempo, at which SoundTouch gives out what it takes in; only the
  last track is mono; bursts are no larger than the reserve, and SoundTouch takes in
  at most `Reserve + 1` frames at once.  At 44.1 kHz and tempo 1.0 it takes in 2867
  and waits for 4012, with a reserve of 4000: the constant `Lack`, what it waits for
  beyond the reserve, is 11 (367 at 48 kHz), and the bound grows by just that, for
  until a track has got these frames it still owes them (`Owed`).  A tempo change
  that meets the callback has no bound, and a track near its end falls behind, so
  both are left out.
* `NoPitchMissed` (`PitchNotMissed`): the callback compares the pitch with what track 0
  has noted and reads it again for each track.  `PitchInv` says that after a
  press in the middle of an adjustment track 0 has noted another pitch than the
  player's, so the next callback notices.  It rests on `cb.pressed`: a second press,
  back to the old pitch, before the next callback would go unnoticed.
* `PatientUserLosesNoVolume` (`RemembersGainsBeforeFading`) and `OneRateIsKept`
  (`SourcesAtDeviceRate`): the two findings about `Transport` and `Stream` turned
  round.  With a patient user and untouched sliders every pause remembers what the
  sliders show, which follows from the refinement of `VolumeDesk`; and where all
  devices have one rate, the sources have the rate of whatever stream runs
  (`RunsAtLoadedRate`, of which `SourcesAtDeviceRate` is the part that the finding
  is about; `RateInv`: the main thread has loaded sources when it starts a stream).
* `NoStreamIsLost`, `TunerFollows`, `RestartsFindTheirStream`, `StreamTypes`:
  the safety invariants of `Stream`, for any number of streams and rates.
  `mAudioStream` has no lock, so `StreamInv` has to say what keeps its writers
  apart: of the threads that may change it one at a time is under way (`OneBusy`),
  for a stream runs alone (`StartedAlone`), only a running one can break, and an
  error thread opens nothing before the broken stream is closed (`ClosedBefore`,
  `Dropped`).  What is started has been measured (`Measured`).  All of it rests on
  the guard under which `Stream` lets a teardown begin, when no restart is under
  way; a teardown that meets one is not covered.
* `StreamStaysInside`, `ReadersStayInside`, `ReadersReadAudio`, `ReadersSetAll`:
  the safety invariants of `WavReader`, for files of any length, chunks that
  declare any sizes, samples of any width and any block.  None is inductive:
  `BetweenBlocks` adds that between two blocks the samples converted are those of
  the frames read and the stream stands at the byte of the next, so that a
  sample's place in the buffer tells its place in the file; `ReadIsWritten`, that
  what is said to be read has been converted, is what the reader of 24 bits
  breaks, and why `ReadersSetAll` leaves it out.
* `NamesVouch`, `StemsInPlace`, `SourcesBounded`: `LastStemVouches`,
  `TracksInPlace` and `TypeOK` of `Session`, for any number of stems and files.
  None is inductive: `DownloadInv` adds that a download has made whole what it
  has passed and was begun only while the last stem was missing, `LoadInv` that
  loading finds the stems before the last whole, so that none is left out.
  `ViewModelRunsSession` shows that every step of `ViewModel` is a step of
  `Session` or none, and carries them over.
* `DeckCorrect`, `LoopJumpsOnTime`, `JumpsWhenDue`: `DeckOK`, `LoopOnTime` and
  `JumpIsDue`, for songs of any length and any `Delay` and `Dispatch`.  `LateInv`
  says how late the song can be by where the poll stands: while it sleeps, the
  last read was too early by at most one way to the main thread; on that way,
  it carries a position beyond the end of the loop, or nothing was late when it
  read.  `ReadInv` says that what was read stays behind the song, and behind the
  position a pressed play will start from, until somebody seeks.  Both rest on
  the guard `PollOnTime`, which is the assumption that the coroutine is scheduled.

Model-checked only: the liveness properties (`PauseEnds`, `PlayRestores`,
`PitchReachesAll`, `DisconnectedIsClosed`, `RestartEnds`, `ParseEnds`,
`LoopComesBack`), which need fairness and are out of the prover's reach.  Every
invariant and action property of the passing runs is a theorem.

## What the runs found

* A second press before the threads of the first have ended stores gains that a
  fade has already lowered, though `fadeGain()` says "Store initial gains before
  fading to 0.0f": the volumes come back lower (`transport_impatient`).
* A stereo track whose cursor stands between two frames, as after a seek to an
  odd sample or one beyond the end, comes to a last sample that is not a frame:
  it has nothing left to write and never stops, though the source is to "play
  through ONCE when triggered" (`playback_once`).
* A track stops when its last frame has been fed to SoundTouch; the frames that
  are still inside are never heard (`playback_unheard`).
* When `onErrorAfterClose()` restarts after a disconnect, on a device of another
  rate, the sources keep the rate of the first, though `openStream()` says they will
  be resampled (`stream_rate`).  The retries of `startStream()` open streams in the
  same way and resample as little; the property is about the restart.
* The 24-bit WAV reader reports every frame as read, so that "Zero out any unread
  frames" zeroes none of a file that is cut off (`wav_unread`).

## Not modelled

The Compose UI, the theme and the JNI functions that only pass arguments on; the
vendored libraries beyond what the modules above take from them; `shared/`, which no
target includes; tests, which are the generated templates; the file stream of
`parselib`, `setPan`, `getOutputReset` and `restartStream`, which nothing calls.

Of the source lines in the repository more than nine in ten are vendored (nuklear,
glad, stb_image, minimp3 with its player, SoundTouch, oboe with its samples) or
tables; what is modelled is the program's own code, and the few functions of
those libraries on which it relies.

Left out of modelled components, because nothing in the repository says what
should happen, or because the outcome is undefined: a teardown that meets a
restart, coroutines that outlive their view model, a play before anything is
loaded (the process dies or nothing happens), SoundTouch's own races, a tempo
of zero, and the float arithmetic of times in seconds, whose outcome, odd
sample positions, is among the inputs of `Playback` and `ViewModel`.

## Plan

Done, in this order: `Transport` and `VolumeDesk` with proofs, `SampleBuffer` with
proofs, `Playback`, `Stream`, `WavReader`, `Session`, tempo and lengths in
`Playback`, `ViewModel` on top of `Session`, proofs for `Session`, `ViewModel`,
`Stream`, `Playback` and `WavReader`, and `SameTime` and `SkewBounded` for any number
of tracks, with handlers that overlap the callback.  Next:

1. proof: that track 0 of `Playback` moves as the one track of `ViewModel` does;
2. `Session` and `Stream` composed: unloading against the callback.
