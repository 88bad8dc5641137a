---------------------------- MODULE MCWavReader -----------------------------
(***************************************************************************)
(* Sizes of chunks for TLC: one that would take the parser back to before  *)
(* the chunk, none, and two that may end inside a frame or beyond the      *)
(* file.                                                                   *)
(***************************************************************************)
EXTENDS WavReader

DeclaredSizes == {-20, 0, 5, 12}

=============================================================================
