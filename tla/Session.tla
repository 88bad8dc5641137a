------------------------------ MODULE Session ------------------------------
(***************************************************************************)
(* From the files of a song to its tracks: what a launch finds in the      *)
(* directory, the download, the loading into the player, clearing the view *)
(* model, and the death of the process at any moment, after which only the *)
(* files are left.  The player is static; here it is its list of sources.  *)
(*                                                                         *)
(* The coroutines of a view model end before it is cleared: the code does  *)
(* not cancel them, and one that outlives its view model would load into   *)
(* the player of the next.                                                 *)
(***************************************************************************)
EXTENDS Naturals, Sequences

CONSTANTS NumStems,   \* desiredFiles: bass, drums, other, vocals
          NumFiles    \* with the click track, which a launch does not ask for

ASSUME SessionAssumption == /\ NumStems \in Nat \ {0}
                            /\ NumFiles \in Nat /\ NumStems <= NumFiles

Files == 1 .. NumFiles      \* in the order of downloading and loading
Stems == 1 .. NumStems

VARIABLES
    disk,      \* disk[f]: what is in the directory under the name of f
    vm,        \* what the view model is doing; "none" if there is none
    next,      \* the file its coroutine is at
    copying,   \* the coroutine has opened that file and is copying to it
    sources    \* mSampleSources: the files they come from, and whether whole

vars == <<disk, vm, next, copying, sources>>

Init == /\ disk = [f \in Files |-> "absent"]
        /\ vm = "none"
        /\ next = 1
        /\ copying = FALSE
        /\ sources = <<>>

(***************************************************************************)
(* Launch and download                                                     *)
(***************************************************************************)

\* checkIfDirectoryExists() looks at names only.
ContainsAnyDesiredFile == \E f \in Stems : disk[f] # "absent"
ContainsAllDesiredFiles == \A f \in Stems : disk[f] # "absent"

Begin(what) == vm' = what /\ next' = 1

Launch == /\ vm = "none"
          /\ Begin(IF ContainsAllDesiredFiles THEN "loading" ELSE "downloading")
          /\ UNCHANGED <<disk, copying, sources>>

\* The response is there and the file is opened, which empties it.
OpenFile == /\ vm = "downloading" /\ ~copying /\ next \in Files
            /\ disk' = [disk EXCEPT ![next] = "partial"]
            /\ copying' = TRUE
            /\ UNCHANGED <<vm, next, sources>>

CopyFile == /\ copying
            /\ disk' = [disk EXCEPT ![next] = "whole"]
            /\ next' = next + 1
            /\ copying' = FALSE
            /\ UNCHANGED <<vm, sources>>

\* An exception, before the file is opened or while it is copied.
DownloadFailsGoingOn == /\ vm = "downloading" /\ next \in Files
                        /\ next' = next + 1
                        /\ copying' = FALSE
                        /\ UNCHANGED <<disk, vm, sources>>
DownloadFails == /\ vm = "downloading" /\ next \in Files
                 /\ vm' = "failed"
                 /\ copying' = FALSE
                 /\ UNCHANGED <<disk, next, sources>>

DownloadCompletes == /\ vm = "downloading" /\ next \notin Files
                     /\ Begin("loading")
                     /\ UNCHANGED <<disk, copying, sources>>

(***************************************************************************)
(* Loading                                                                 *)
(***************************************************************************)

\* loadMp3AssetNative(): what does not decode is left out without a word, and
\* that may be any file but a whole one.  A file that is cut off may as well
\* decode, to a shorter track; cut off before its first frame, it divides by
\* no channels, which gives an empty track on ARM and death (Kill) on x86.
SkipFile == disk[next] # "whole" /\ UNCHANGED sources
AddSource == /\ disk[next] # "absent"
             /\ sources' = Append(sources, [file |-> next, whole |-> disk[next] = "whole"])
LoadFile == /\ vm = "loading" /\ next \in Files
            /\ SkipFile \/ AddSource
            /\ next' = next + 1
            /\ UNCHANGED <<disk, vm, copying>>

\* The stream is started.
LoadCompletes == /\ vm = "loading" /\ next \notin Files
                 /\ vm' = "running"
                 /\ UNCHANGED <<disk, next, copying, sources>>

(***************************************************************************)
(* Ends                                                                    *)
(***************************************************************************)

ClearKeepingSources == /\ vm \in {"failed", "running"}
                       /\ vm' = "none"
                       /\ UNCHANGED <<disk, next, copying, sources>>

\* onCleared(): unloadSampleData() empties the static player.
Clear == /\ vm \in {"failed", "running"}
         /\ vm' = "none"
         /\ sources' = <<>>
         /\ UNCHANGED <<disk, next, copying>>

Kill == /\ vm # "none"
        /\ vm' = "none"
        /\ sources' = <<>>
        /\ copying' = FALSE
        /\ UNCHANGED <<disk, next>>

Next == \/ Launch \/ OpenFile \/ CopyFile \/ DownloadFails \/ DownloadCompletes
        \/ LoadFile \/ LoadCompletes
        \/ Clear \/ Kill

Spec == Init /\ [][Next]_vars

(***************************************************************************)
(* Properties                                                              *)
(***************************************************************************)

\* Types; the static player never holds more sources than a song has files.
TypeOK == /\ disk \in [Files -> {"absent", "partial", "whole"}]
          /\ vm \in {"none", "downloading", "failed", "loading", "running"}
          /\ next \in 1 .. NumFiles + 1
          /\ copying \in BOOLEAN
          /\ sources \in Seq([file : Files, whole : BOOLEAN])
          /\ Len(sources) <= NumFiles

\* The launch trusts names, and this is what makes that nearly safe: however
\* often a download fails or the process dies, the last stem is in the
\* directory only if the stems before it are whole.
LastStemVouches ==
    disk[NumStems] # "absent" => \A f \in 1 .. NumStems - 1 : disk[f] = "whole"

\* The sliders, and the tracks that ignore pitch, go by index: when the player
\* runs, every stem but the last, which alone may be cut off, is whole and at
\* the index the view model has for it.
TracksInPlace ==
    vm = "running" =>
        \A k \in 1 .. NumStems - 1 :
            k <= Len(sources) /\ sources[k] = [file |-> k, whole |-> TRUE]

=============================================================================
