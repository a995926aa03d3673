----------------------------- MODULE MC_Server -----------------------------
(***************************************************************************)
(* An instance of Server for TLC.                                          *)
(***************************************************************************)
EXTENDS Server, TLC

None == [s \in Streams |-> <<>>]

(* A message without and one with an ack; a broadcast of the first         *)
(* subscription before one of another; a request for a key of somebody     *)
(* else before one for a key of the user.                                  *)
MCObjects ==
    {("msg" :> <<"quiet", "mine">>) @@ None,
     ("broadcast" :> <<"mine", "second">>) @@ None,
     ("getpubkey" :> <<"foreign", "mine">>) @@ None}
=============================================================================
