------------------------------- MODULE MC_Pow -------------------------------
(***************************************************************************)
(* Instances of Pow for TLC.  Four orders let two workers run at once,     *)
(* each with an order queued behind the one it works on, which is what the *)
(* second dequeue of work needs to throw one away.                         *)
(***************************************************************************)
EXTENDS Pow
=============================================================================
