--------------------------- MODULE Session_proofs ---------------------------
(***************************************************************************)
(* Theorems about Session, for any number of stems and files, and about    *)
(* the view model on top of it, which takes the steps of Session only.     *)
(***************************************************************************)
EXTENDS ViewModel, TLAPS

WholeBelow(n) == \A f \in Files : f < n => disk[f] = "whole"
InPlaceBelow(n) ==
    \A k \in 1 .. NumStems - 1 :
        k < n => k <= Len(sources) /\ sources[k] = [file |-> k, whole |-> TRUE]

\* A download has made whole what it has passed, and it was begun only because
\* the last stem, like the one that was missing, is not there yet.
DownloadInv ==
    /\ vm = "downloading" => /\ WholeBelow(next)
                             /\ next < NumStems => disk[NumStems] = "absent"
    /\ copying => vm = "downloading" /\ next \in Files

\* Loading finds the stems before the last whole, so each takes its place.
LoadInv ==
    /\ vm \in {"none", "downloading", "failed"} => sources = <<>>
    /\ vm = "loading" => /\ WholeBelow(NumStems)
                         /\ InPlaceBelow(next)
                         /\ Len(sources) < next
                         /\ next <= NumStems => Len(sources) = next - 1

SessionInv == TypeOK /\ LastStemVouches /\ DownloadInv /\ LoadInv /\ TracksInPlace

LEMMA StemsAreFiles ==
    /\ NumStems \in Files
    /\ \A k \in 1 .. NumStems - 1 : k \in Files /\ k < NumStems
    /\ \A f \in Files : f \in Nat
BY SessionAssumption DEF Files

LEMMA SessionInit == Init => SessionInv
<1> SUFFICES ASSUME Init PROVE SessionInv
    OBVIOUS
<1>1. sources \in Seq([file : Files, whole : BOOLEAN]) /\ Len(sources) = 0
    BY DEF Init
<1>2. TypeOK
  <2>1. disk \in [Files -> {"absent", "partial", "whole"}]
      BY DEF Init
  <2>2. next \in 1 .. NumFiles + 1 /\ 0 <= NumFiles
      BY SessionAssumption DEF Init
  <2> QED BY <1>1, <2>1, <2>2 DEF Init, TypeOK
<1>3. LastStemVouches /\ DownloadInv /\ LoadInv /\ TracksInPlace
    BY StemsAreFiles DEF Init, LastStemVouches, DownloadInv, LoadInv, TracksInPlace
<1> QED BY <1>2, <1>3 DEF SessionInv

LEMMA LaunchInv == SessionInv /\ Launch => SessionInv'
<1> SUFFICES ASSUME SessionInv, Launch PROVE SessionInv'
    OBVIOUS
<1> USE DEF SessionInv, Launch, Begin
<1>1. next' = 1 /\ UNCHANGED <<disk, copying, sources>> /\ vm = "none" /\ sources = <<>>
    BY DEF LoadInv
<1>2. TypeOK' /\ LastStemVouches' /\ TracksInPlace'
    BY <1>1, SessionAssumption DEF TypeOK, LastStemVouches, TracksInPlace, Files, ContainsAllDesiredFiles
<1>3. DownloadInv'
  <2>1. WholeBelow(1)'
      BY <1>1, StemsAreFiles DEF WholeBelow, Files
  <2>2. vm' = "downloading" => disk[NumStems] = "absent"
      BY SessionAssumption DEF ContainsAllDesiredFiles, LastStemVouches, Stems
  <2> QED BY <1>1, <2>1, <2>2 DEF DownloadInv
<1>4. LoadInv'
  <2>1. vm' = "loading" => WholeBelow(NumStems)'
    <3>1. vm' = "loading" => disk[NumStems] # "absent"
        BY SessionAssumption DEF ContainsAllDesiredFiles, Stems
    <3> QED BY <1>1, <3>1, SessionAssumption DEF WholeBelow, LastStemVouches, Files
  <2>2. InPlaceBelow(1)' /\ Len(sources) = 0
      BY <1>1, SessionAssumption DEF InPlaceBelow
  <2> QED BY <1>1, <2>1, <2>2 DEF LoadInv
<1> QED BY <1>2, <1>3, <1>4

LEMMA OpenFileInv == SessionInv /\ OpenFile => SessionInv'
<1> SUFFICES ASSUME SessionInv, OpenFile PROVE SessionInv'
    OBVIOUS
<1> USE DEF SessionInv
<1>1. /\ vm = "downloading" /\ next \in Files /\ UNCHANGED <<vm, next, sources>>
      /\ copying' = TRUE
      /\ disk' = [disk EXCEPT ![next] = "partial"]
      /\ disk \in [Files -> {"absent", "partial", "whole"}]
    BY DEF OpenFile, TypeOK
<1>2. TypeOK' /\ TracksInPlace'
    BY <1>1 DEF TypeOK, TracksInPlace
<1>3. \A f \in Files : f # next => disk'[f] = disk[f]
    BY <1>1
<1>4. WholeBelow(next)'
    BY <1>1, <1>3, StemsAreFiles DEF DownloadInv, WholeBelow
<1>5. DownloadInv'
    BY <1>1, <1>3, <1>4, StemsAreFiles DEF DownloadInv
<1>6. LastStemVouches'
  <2>1. CASE next < NumStems
      BY <2>1, <1>1, <1>3, StemsAreFiles DEF DownloadInv, LastStemVouches
  <2>2. CASE next >= NumStems
      BY <2>2, <1>1, <1>4, StemsAreFiles DEF LastStemVouches, WholeBelow
  <2> QED BY <2>1, <2>2, <1>1, SessionAssumption DEF Files
<1>7. LoadInv'
    BY <1>1 DEF LoadInv
<1> QED BY <1>2, <1>5, <1>6, <1>7

LEMMA CopyFileInv == SessionInv /\ CopyFile => SessionInv'
<1> SUFFICES ASSUME SessionInv, CopyFile PROVE SessionInv'
    OBVIOUS
<1> USE DEF SessionInv
<1>1. /\ vm = "downloading" /\ next \in Files /\ UNCHANGED <<vm, sources>>
      /\ copying' = FALSE /\ next' = next + 1
      /\ disk' = [disk EXCEPT ![next] = "whole"]
      /\ disk \in [Files -> {"absent", "partial", "whole"}]
    BY DEF CopyFile, TypeOK, DownloadInv
<1>2. next \in 1 .. NumFiles /\ NumFiles \in Nat
    BY <1>1, SessionAssumption DEF Files
<1>3. TypeOK' /\ TracksInPlace'
  <2>1. next' \in 1 .. NumFiles + 1 /\ disk' \in [Files -> {"absent", "partial", "whole"}]
      BY <1>1, <1>2
  <2> QED BY <1>1, <2>1 DEF TypeOK, TracksInPlace
<1>4. disk'[next] = "whole" /\ \A f \in Files : f # next => disk'[f] = disk[f]
    BY <1>1
<1>5. WholeBelow(next)'
  <2> SUFFICES ASSUME NEW f \in Files, f < next + 1 PROVE disk'[f] = "whole"
      BY <1>1 DEF WholeBelow
  <2>1. f \in Nat /\ (f < next \/ f = next)
      BY <1>2, StemsAreFiles
  <2> QED BY <1>1, <1>4, <2>1 DEF DownloadInv, WholeBelow
<1>6. DownloadInv'
  <2>1. NumStems \in Nat /\ NumStems \in Files
      BY SessionAssumption, StemsAreFiles
  <2>2. next + 1 < NumStems => next < NumStems /\ NumStems # next
      BY <1>2, <2>1
  <2>3. next' < NumStems => disk'[NumStems] = "absent"
      BY <1>1, <1>4, <2>1, <2>2 DEF DownloadInv
  <2> QED BY <1>1, <1>5, <2>3 DEF DownloadInv
<1>7. LastStemVouches'
  <2>1. CASE next < NumStems
      BY <2>1, <1>1, <1>4, StemsAreFiles DEF DownloadInv, LastStemVouches
  <2>2. CASE next >= NumStems
      BY <2>2, <1>1, <1>2, <1>5, StemsAreFiles, SessionAssumption DEF LastStemVouches, WholeBelow
  <2> QED BY <2>1, <2>2, <1>2, SessionAssumption
<1>8. LoadInv'
    BY <1>1 DEF LoadInv
<1> QED BY <1>3, <1>6, <1>7, <1>8

LEMMA DownloadCompletesInv == SessionInv /\ DownloadCompletes => SessionInv'
<1> SUFFICES ASSUME SessionInv, DownloadCompletes PROVE SessionInv'
    OBVIOUS
<1> USE DEF SessionInv
<1>1. /\ vm = "downloading" /\ next = NumFiles + 1 /\ vm' = "loading" /\ next' = 1
      /\ UNCHANGED <<disk, copying, sources>> /\ sources = <<>>
    BY SessionAssumption DEF DownloadCompletes, Begin, TypeOK, LoadInv, Files
<1>2. TypeOK' /\ LastStemVouches' /\ TracksInPlace'
    BY <1>1, SessionAssumption DEF TypeOK, LastStemVouches, TracksInPlace
<1>3. DownloadInv'
    BY <1>1, SessionAssumption DEF DownloadInv, Files
<1>4. WholeBelow(NumStems)'
    BY <1>1, SessionAssumption DEF DownloadInv, WholeBelow, Files
<1>5. InPlaceBelow(1)' /\ Len(sources) = 0
    BY <1>1, SessionAssumption DEF InPlaceBelow
<1>6. LoadInv'
    BY <1>1, <1>4, <1>5 DEF LoadInv
<1> QED BY <1>2, <1>3, <1>6

LEMMA LoadFileInv == SessionInv /\ LoadFile => SessionInv'
<1> SUFFICES ASSUME SessionInv, LoadFile PROVE SessionInv'
    OBVIOUS
<1> USE DEF SessionInv
<1> DEFINE new == [file |-> next, whole |-> disk[next] = "whole"]
           Sources == [file : Files, whole : BOOLEAN]
<1>1. /\ vm = "loading" /\ next \in 1 .. NumFiles /\ next' = next + 1
      /\ UNCHANGED <<disk, vm, copying>>
      /\ NumFiles \in Nat /\ NumStems \in Nat \ {0}
    BY SessionAssumption DEF LoadFile, Files
<1>2. /\ sources \in Seq(Sources) /\ new \in Sources
      /\ Len(sources) < next /\ (next <= NumStems => Len(sources) = next - 1)
      /\ WholeBelow(NumStems) /\ InPlaceBelow(next)
    BY <1>1 DEF TypeOK, LoadInv, Files
<1>3. WholeBelow(NumStems)' /\ DownloadInv' /\ LastStemVouches' /\ TracksInPlace'
    BY <1>1, <1>2 DEF WholeBelow, DownloadInv, LastStemVouches, TracksInPlace, Files
<1>4. \/ UNCHANGED sources /\ disk[next] # "whole"
      \/ sources' = Append(sources, new)
    BY DEF LoadFile, SkipFile, AddSource
<1>5. next < NumStems => disk[next] = "whole" /\ new = [file |-> next, whole |-> TRUE]
    BY <1>1, <1>2 DEF WholeBelow, Files
<1> HIDE DEF new, Sources
<1>6. CASE UNCHANGED sources /\ disk[next] # "whole"
  <2>1. next >= NumStems
      BY <1>1, <1>5, <1>6
  <2>2. InPlaceBelow(next)'
      BY <1>1, <1>2, <1>6, <2>1 DEF InPlaceBelow
  <2>3. LoadInv'
      BY <1>1, <1>2, <1>3, <1>6, <2>1, <2>2 DEF LoadInv, InPlaceBelow
  <2>4. TypeOK'
      BY <1>1, <1>6 DEF TypeOK
  <2> QED BY <1>3, <2>3, <2>4
<1>7. CASE sources' = Append(sources, new)
  <2>1. /\ sources' \in Seq(Sources) /\ Len(sources') = Len(sources) + 1
        /\ \A k \in 1 .. Len(sources) : sources'[k] = sources[k]
        /\ sources'[Len(sources) + 1] = new /\ Len(sources) \in Nat
      BY <1>2, <1>7
  <2>2. InPlaceBelow(next)'
    <3> SUFFICES ASSUME NEW k \in 1 .. NumStems - 1, k < next + 1
                 PROVE  k <= Len(sources') /\ sources'[k] = [file |-> k, whole |-> TRUE]
        BY <1>1 DEF InPlaceBelow
    <3>1. CASE k < next
        BY <3>1, <1>1, <1>2, <2>1 DEF InPlaceBelow
    <3>2. CASE k = next
      <4>1. next \in Nat /\ next < NumStems
          BY <3>2, <1>1
      <4>2. Len(sources) + 1 = next
          BY <4>1, <1>1, <1>2, <2>1
      <4>3. new = [file |-> k, whole |-> TRUE]
          BY <3>2, <4>1, <1>5
      <4>4. sources'[k] = new /\ k <= Len(sources')
          BY <3>2, <4>1, <4>2, <2>1
      <4> QED BY <4>3, <4>4
    <3> QED BY <3>1, <3>2, <1>1
  <2>3. LoadInv'
      BY <1>1, <1>2, <1>3, <2>1, <2>2 DEF LoadInv, InPlaceBelow
  <2>4. TypeOK'
      BY <1>1, <1>2, <2>1 DEF TypeOK, Sources
  <2> QED BY <1>3, <2>3, <2>4
<1> QED BY <1>4, <1>6, <1>7

LEMMA LoadCompletesInv == SessionInv /\ LoadCompletes => SessionInv'
<1> SUFFICES ASSUME SessionInv, LoadCompletes PROVE SessionInv'
    OBVIOUS
<1> USE DEF SessionInv, LoadCompletes
<1>1. vm = "loading" /\ next = NumFiles + 1 /\ vm' = "running" /\ UNCHANGED sources
    BY SessionAssumption DEF TypeOK, Files
<1>2. TracksInPlace'
  <2>1. InPlaceBelow(NumFiles + 1)
      BY <1>1 DEF LoadInv
  <2>2. \A k \in 1 .. NumStems - 1 : k < NumFiles + 1
      BY SessionAssumption
  <2> QED BY <1>1, <2>1, <2>2 DEF InPlaceBelow, TracksInPlace
<1>3. TypeOK' /\ LastStemVouches' /\ DownloadInv' /\ LoadInv'
    BY <1>1 DEF TypeOK, LastStemVouches, DownloadInv, LoadInv
<1> QED BY <1>2, <1>3

LEMMA EndInv == SessionInv /\ (DownloadFails \/ Clear \/ Kill) => SessionInv'
<1> SUFFICES ASSUME SessionInv, DownloadFails \/ Clear \/ Kill PROVE SessionInv'
    OBVIOUS
<1> USE DEF SessionInv
<1>1. /\ vm' \in {"none", "failed"} /\ sources' = <<>> /\ UNCHANGED <<disk, next>>
      /\ ~copying'
    BY DEF DownloadFails, Clear, Kill, LoadInv, DownloadInv, TypeOK
<1>2. sources' \in Seq([file : Files, whole : BOOLEAN]) /\ Len(sources') = 0
    BY <1>1
<1>3. TypeOK'
  <2>1. copying' \in BOOLEAN
      BY Zenon DEF DownloadFails, Clear, Kill, TypeOK
  <2>2. 0 <= NumFiles
      BY SessionAssumption
  <2> QED BY <1>1, <1>2, <2>1, <2>2 DEF TypeOK
<1>4. LastStemVouches' /\ DownloadInv' /\ LoadInv' /\ TracksInPlace'
    BY <1>1 DEF LastStemVouches, DownloadInv, LoadInv, TracksInPlace
<1> QED BY <1>3, <1>4

LEMMA SessionStutter == SessionInv /\ UNCHANGED vars => SessionInv'
BY DEF SessionInv, vars, TypeOK, LastStemVouches, DownloadInv, LoadInv, TracksInPlace,
       WholeBelow, InPlaceBelow

LEMMA SessionInductive == SessionInv /\ [Next]_vars => SessionInv'
BY LaunchInv, OpenFileInv, CopyFileInv, DownloadCompletesInv, LoadFileInv, LoadCompletesInv,
   EndInv, SessionStutter DEF Next

\* Downloads, loads and deaths of the process keep SessionInv.
THEOREM SessionInvariant == Spec => []SessionInv
BY SessionInit, SessionInductive, PTL DEF Spec

\* The session takes its own steps also under a view model that plays, seeks
\* and polls: what is proved of it holds of the whole.
THEOREM ViewModelRunsSession == SpecAll => Spec
<1>1. InitAll => Init
    BY DEF InitAll
<1>2. [NextAll]_allVars => [Next]_vars
    BY DEF NextAll, SessionStep, LoadCompletesAndPolls, Ends, DeckEnds, Callback, Play,
           SetPlayMode, Pause, SetStopMode, LoopButton, OnSeekEnd, Poll, PollReads, PollActs,
           Next, allVars
<1> QED BY <1>1, <1>2, PTL DEF SpecAll, Spec

\* However often downloads fail and the process dies, the last stem is in the
\* directory only if the stems before it are whole: the names a launch looks at
\* vouch for the contents.
THEOREM NamesVouch == SpecAll => []LastStemVouches
<1>1. SessionInv => LastStemVouches
    BY DEF SessionInv
<1> QED BY <1>1, SessionInvariant, ViewModelRunsSession, PTL

\* When the player runs, every stem but the last is whole and at the index that
\* its slider and the pitch rules have for it.
THEOREM StemsInPlace == SpecAll => []TracksInPlace
<1>1. SessionInv => TracksInPlace
    BY DEF SessionInv
<1> QED BY <1>1, SessionInvariant, ViewModelRunsSession, PTL

\* The static player never holds more sources than a song has files.
THEOREM SourcesBounded == SpecAll => []TypeOK
<1>1. SessionInv => TypeOK
    BY DEF SessionInv
<1> QED BY <1>1, SessionInvariant, ViewModelRunsSession, PTL

=============================================================================
