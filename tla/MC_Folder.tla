----------------------------- MODULE MC_Folder -----------------------------
(***************************************************************************)
(* Instances of Folder for TLC.  The goroutines are interchangeable: each  *)
(* set of them may be the one that takes the mailbox lock.                 *)
(***************************************************************************)
EXTENDS Folder, TLC

CallerSymmetry == Permutations(Callers)
=============================================================================
