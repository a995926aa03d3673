---------------------------- MODULE MC_Databases ----------------------------
(***************************************************************************)
(* Instances of Databases for TLC.  The processes are interchangeable, and *)
(* so are the passphrases, the user names and the seeds.                   *)
(***************************************************************************)
EXTENDS Databases, TLC

Symmetry ==
    Permutations(Procs) \cup Permutations(Pass) \cup Permutations(Names)
        \cup Permutations(Seeds)
=============================================================================
