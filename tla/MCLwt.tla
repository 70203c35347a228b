-------------------------------- MODULE MCLwt --------------------------------
(***************************************************************************)
(* Small instances of Lwt for TLC.  The blocks of memory and the messages  *)
(* are interchangeable; the main thread is not.                            *)
(***************************************************************************)
EXTENDS LwtProps

Symmetry ==
  Permutations(Threads \ {MainThread}) \cup Permutations(Chans)
    \cup Permutations(Data) \cup Permutations(Groups)
=============================================================================
