---------------------------- MODULE MC_Outgoing ----------------------------
(***************************************************************************)
(* Instances of Outgoing for TLC.                                          *)
(***************************************************************************)
EXTENDS Outgoing, TLC

CONSTANTS m1, m2, a1

OneMail == {m1}
TwoMails == {m1, m2}

(* One e-mail to a recipient.                                              *)
OneRecipient == {[m \in OneMail |-> a1]}

(* Two e-mails to the same recipient, whose key requests overlap; or one   *)
(* to a recipient and a broadcast.                                         *)
SameOrMixed ==
    {[m \in TwoMails |-> a1]} \cup
    {[m \in TwoMails |-> IF m = b THEN Broadcast ELSE a1] : b \in TwoMails}

(* The set of routes does not tell the e-mails apart.                      *)
MailSymmetry == Permutations(TwoMails)
=============================================================================
