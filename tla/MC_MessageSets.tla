--------------------------- MODULE MC_MessageSets ---------------------------
(***************************************************************************)
(* Mailboxes of some of the first messages and of messages with widening   *)
(* gaps between them, and sets of one or two ranges around them.           *)
(***************************************************************************)
EXTENDS MessageSets

CONSTANTS
    MaxUID,     \* the largest uid of a mailbox without wide gaps
    MaxLen      \* the most messages of a mailbox with wide gaps

Choose(all) ==
    {SelectSeq(all, LAMBDA x : x \in S) : S \in SUBSET {all[i] : i \in DOMAIN all}}

MCLists == Choose([i \in 1..MaxUID |-> i]) \cup Choose([i \in 1..MaxLen |-> i * i])

Numbers == 0..(MaxUID + 1)

MCRanges ==
    [min : Numbers \cup {TooBig}, max : Numbers \cup {Last, NoMax, TooBig}] \cup
    [min : {Last}, max : {NoMax}]

(* What may follow the first range of a set.                               *)
Second == {<<>>, <<[min |-> Last, max |-> NoMax]>>, <<[min |-> 2, max |-> Last]>>}

(* Single uids reach over the wide gaps.                                   *)
Single == [min : 0..(MaxLen * MaxLen + 1), max : {NoMax}]

MCQueries ==
    {[kind |-> k, set |-> <<r>> \o s] : k \in SetKinds, r \in MCRanges, s \in Second} \cup
    {[kind |-> k, set |-> <<r>>] :
        k \in {"MessageByUID", "MessageBySequenceNumber"}, r \in Single} \cup
    {[kind |-> "LastUID", set |-> <<>>]}
=============================================================================
