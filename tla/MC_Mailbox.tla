----------------------------- MODULE MC_Mailbox -----------------------------
(* Instances of Mailbox for TLC.                                           *)
EXTENDS Mailbox, TLC

CONSTANTS t1, t2, t3

(* Two IMAP connections and the stream of incoming messages.               *)
MixedCalls ==
    (t1 :> {"Save", "Read", "MessageSetBySequenceNumber"}) @@
    (t2 :> {"DeleteFlaggedMessages"}) @@ (t3 :> {"addNew"})

(* A FETCH by sequence numbers while a message comes in.                   *)
FetchCalls == (t1 :> {"MessageSetBySequenceNumber"}) @@ (t2 :> {"addNew"})

MCFlags == {{"Recent"}, {"Seen", "Deleted"}}
=============================================================================
