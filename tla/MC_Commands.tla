---------------------------- MODULE MC_Commands ----------------------------
(***************************************************************************)
(* A caller that may ask for anything, and others that create or list      *)
(* addresses meanwhile.                                                    *)
(***************************************************************************)
EXTENDS Commands

CONSTANTS c1, c2, c3

Texts ==
    {[name |-> n, params |-> p] :
        n \in {"help", "newaddress", "listaddresses", "getmessages", "nonsense"},
        p \in {<<>>, <<"false">>, <<"help", "subscribe">>}}

NoSubject == [name |-> Nil, params |-> <<>>]

(* The sender is the identity of the start or one that may come to exist.  *)
Mails ==
    {[by |-> "email", from |-> 0, text |-> t] : t \in Texts \cup {NoSubject}} \cup
    {[by |-> "email", from |-> 2, text |-> [name |-> "help", params |-> <<>>]]}

(* A request for a new address, and what it becomes with a field changed.  *)
Plain ==
    [is |-> "newaddress", addressversion |-> Nil, stream |-> 1, ack |-> Nil,
     nonceTrials |-> Nil, extraBytes |-> Nil]

NewAddresses ==
    {Plain, [Plain EXCEPT !.addressversion = 3], [Plain EXCEPT !.stream = 2],
     [Plain EXCEPT !.ack = FALSE], [Plain EXCEPT !.extraBytes = 1],
     [Plain EXCEPT !.nonceTrials = 1, !.extraBytes = 1], [Plain EXCEPT !.nonceTrials = 1]}

RPCs ==
    {[version |-> 1, request |-> r] :
        r \in NewAddresses \cup
              [is : {"help"}, version : {Nil, 1}, requests : {{"help"}, {"nonsense"}}] \cup
              [is : {"listaddresses", "none"}]} \cup
    {[version |-> Nil, request |-> [is |-> "listaddresses"]]}

AnyRequest ==
    Mails \cup {[by |-> "client", text |-> t] : t \in Texts} \cup
    {[by |-> "rpc", request |-> r] : r \in RPCs}

FewMails ==
    {[by |-> "email", from |-> 0, text |-> [name |-> n, params |-> <<>>]] :
        n \in {"newaddress", "listaddresses"}}

(* By the client or another one: a new address, a list, and an error.      *)
FewRPCs ==
    {[by |-> "client", text |-> [name |-> n, params |-> <<>>]] :
        n \in {"newaddress", "listaddresses"}} \cup
    {[by |-> "rpc", request |-> [version |-> 1, request |-> [is |-> "none"]]]}

MCAsks ==
    [c \in {c1, c2, c3} |->
        CASE c = c1 -> AnyRequest [] c = c2 -> FewRPCs [] c = c3 -> FewMails]

(* The identity that was created with the databases.                       *)
MCInitial == [a \in {0} |-> TRUE]
=============================================================================
