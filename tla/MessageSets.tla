---------------------------- MODULE MessageSets ----------------------------
(***************************************************************************)
(* The lookups of a mailbox, user/mailbox.go: an IMAP client asks for one  *)
(* message or for a set of ranges, by uid or by sequence number, and the   *)
(* mailbox answers from its list of uids, with GetSequenceNumber (module   *)
(* UidSearch), and from the folder on disk, whose messages are those of    *)
(* the list (module Mailbox).  The read lock is held throughout, so the    *)
(* list does not change.                                                   *)
(***************************************************************************)
EXTENDS UidSearch

CONSTANTS
    Queries,    \* what the client may ask
    Last,       \* "*", the last message
    NoMax,      \* a range that is a single number
    TooBig,     \* a number that does not fit 32 bits, for which Value fails
    NoMessage   \* a nil *Bmail

SetKinds == {"MessageSetByUID", "MessageSetBySequenceNumber"}

Kinds == SetKinds \cup {"MessageByUID", "MessageBySequenceNumber", "LastUID"}

(* An element of a types.SequenceSet.  When Min is "*", there is no Max.   *)
MsgRange ==
    [min : Nat \cup {TooBig}, max : Nat \cup {Last, NoMax, TooBig}] \cup
    [min : {Last}, max : {NoMax}]

ASSUME MessageSetsAssumption ==
    /\ Queries \subseteq [kind : Kinds, set : Seq(MsgRange)]
    /\ \A q \in Queries : q.kind \in {"MessageByUID", "MessageBySequenceNumber"} =>
         /\ Len(q.set) = 1
         /\ q.set[1].min \in Nat
    /\ Last \notin Nat /\ NoMax \notin Nat /\ TooBig \notin Nat
    /\ Last # NoMax /\ Last # TooBig /\ NoMax # TooBig
    /\ NoMessage \notin [uid : Nat, seq : Nat]
    /\ \A s \in Lists : \A i \in DOMAIN s : s[i] >= i

VARIABLES
    query,      \* the call
    at,         \* the next step of the call
    rest,       \* the ranges of the set that are not done
    msgs,       \* the messages found in the ranges that are done
    batch,      \* getRange: the messages found so far
    startSeq,   \* bitmessagesByUIDRange: startSequence
    cursor,     \* ForEachMessage: the position of the cursor
    highID,     \* ForEachMessage: where to stop, 0 for nowhere
    seqno       \* getRange: startSequence + i

folderVars == <<batch, cursor, highID, seqno>>
lookupVars == <<query, at, rest, msgs, startSeq, folderVars>>
vars == <<searchVars, lookupVars>>

Init ==
    /\ SearchInit
    /\ query \in Queries
    /\ at = "call"
    /\ rest = query.set
    /\ msgs = <<>> /\ batch = <<>>
    /\ startSeq = 0 /\ cursor = 0 /\ highID = 0 /\ seqno = 0

Goto(step) == at' = step

(* A range is done and has given these messages.                           *)
Give(new) ==
    /\ msgs' = msgs \o new
    /\ rest' = Tail(rest)
    /\ Goto("range")
    /\ UNCHANGED <<query, startSeq>>

(* A search is called; the step after it is given.                         *)
Find(u, step) ==
    /\ GetSequenceNumber(u)
    /\ Goto(step)

(* A step of the search.                                                   *)
search ==
    /\ Search
    /\ UNCHANGED lookupVars

Returned == pc = "return"

(* getRange asks the folder for the messages from lowID to high.  An       *)
(* interval that ends before it begins gives an error and no messages; 0   *)
(* is no end.  The cursor is put on the first message that is not below    *)
(* lowID.                                                                  *)
getRange(lowID, high, startSequence) ==
    /\ \/ /\ high # 0 /\ lowID > high
          /\ Give(<<>>)
          /\ UNCHANGED folderVars
       \/ /\ high = 0 \/ lowID <= high
          /\ \E c \in 1..(Len(uids) + 1) :
                /\ \A i \in DOMAIN uids : uids[i] < lowID <=> i < c
                /\ cursor' = c
          /\ highID' = high
          /\ seqno' = startSequence
          /\ batch' = <<>>
          /\ Goto("each")
          /\ UNCHANGED <<query, rest, msgs, startSeq>>
    /\ UNCHANGED searchVars

(* Mistake: the interval ends before its last uid.                         *)
InInterval_open == cursor <= Len(uids) /\ (highID = 0 \/ uids[cursor] < highID)

(* The cursor is on a message of the interval.                             *)
InInterval == cursor <= Len(uids) /\ (highID = 0 \/ uids[cursor] <= highID)

(* Mistake: i is not incremented.                                          *)
each_sameNumber ==
    /\ at = "each" /\ InInterval
    /\ batch' = Append(batch, [uid |-> uids[cursor], seq |-> seqno])
    /\ cursor' = cursor + 1
    /\ UNCHANGED <<searchVars, query, at, rest, msgs, startSeq, highID, seqno>>

(* The function of getRange is called for the message at the cursor.       *)
each ==
    /\ at = "each" /\ InInterval
    /\ batch' = Append(batch, [uid |-> uids[cursor], seq |-> seqno])
    /\ cursor' = cursor + 1
    /\ seqno' = seqno + 1
    /\ UNCHANGED <<searchVars, query, at, rest, msgs, startSeq, highID>>

eachEnds ==
    /\ at = "each" /\ ~InInterval
    /\ Give(batch)
    /\ UNCHANGED <<searchVars, folderVars>>
-----------------------------------------------------------------------------
(* Mistake: the sequence number indexes the list without the minus one.    *)
ByUID_offByOne ==
    IF result >= Len(uids) \/ uids[result + 1] # uid
    THEN NoMessage
    ELSE [uid |-> uid, seq |-> result]

(* What bmsgByUID makes of the sequence number of the uid.                 *)
ByUID ==
    IF result > Len(uids) \/ uids[result] # uid
    THEN NoMessage
    ELSE [uid |-> uid, seq |-> result]

bmsgByUID ==
    /\ at = "one" /\ Returned
    /\ Give(<<ByUID>>)
    /\ UNCHANGED <<searchVars, folderVars>>

(* The last uid of the list.                                               *)
LastElement == uids[Len(uids)]

(* A call for a set begins.  An empty mailbox answers at once.             *)
beginSet ==
    /\ at = "call" /\ query.kind \in SetKinds
    /\ Goto(IF uids = <<>> THEN "finish" ELSE "range")
    /\ UNCHANGED <<searchVars, query, rest, msgs, startSeq, folderVars>>

(* Calls for a single message, and LastUID, which indexes an empty list.   *)
MessageByUID ==
    /\ at = "call" /\ query.kind = "MessageByUID"
    /\ Find(rest[1].min, "one")
    /\ UNCHANGED <<query, rest, msgs, startSeq, folderVars>>

bitmessageBySequenceNumber(n) ==
    \/ /\ n \in DOMAIN uids
       /\ Find(uids[n], "one")
       /\ UNCHANGED <<query, rest, msgs, startSeq, folderVars>>
    \/ /\ n \notin DOMAIN uids
       /\ Give(<<NoMessage>>)
       /\ UNCHANGED <<searchVars, folderVars>>

MessageBySequenceNumber ==
    /\ at = "call" /\ query.kind = "MessageBySequenceNumber"
    /\ bitmessageBySequenceNumber(rest[1].min)

LastUID ==
    /\ at = "call" /\ query.kind = "LastUID"
    /\ Goto(IF uids = <<>> THEN "panic" ELSE "done")
    /\ UNCHANGED <<searchVars, query, rest, msgs, startSeq, folderVars>>

(* A step of the loop over the ranges of a set.                            *)
OnRange(kind) == at = "range" /\ rest # <<>> /\ query.kind = kind

(* "*" alone is the last message.                                          *)
lastBitmessage ==
    /\ \E kind \in SetKinds : OnRange(kind)
    /\ Head(rest).min = Last
    /\ Find(LastElement, "one")
    /\ UNCHANGED <<query, rest, msgs, startSeq, folderVars>>

(* A number that cannot be read ends the loop.                             *)
giveUp ==
    /\ \E kind \in SetKinds : OnRange(kind)
    /\ LET r == Head(rest)
       IN \/ r.min = TooBig
          \/ /\ query.kind = "MessageSetBySequenceNumber"
             /\ r.min \in Nat \ DOMAIN uids
          \/ r.min \in Nat /\ r.max = TooBig
    /\ Goto("finish")
    /\ UNCHANGED <<searchVars, query, rest, msgs, startSeq, folderVars>>

(* A range of uids: a single one, or one that is looked up by its bounds.  *)
uidRange ==
    /\ OnRange("MessageSetByUID")
    /\ Head(rest).min \in Nat /\ Head(rest).max # TooBig
    /\ Find(Head(rest).min, IF Head(rest).max = NoMax THEN "one" ELSE "start")
    /\ UNCHANGED <<query, rest, msgs, startSeq, folderVars>>

(* bitmessagesSinceUID and getSince, once the first number is known.       *)
bitmessagesSinceUID ==
    /\ at = "start" /\ Returned
    /\ Head(rest).max = Last
    /\ getRange(Head(rest).min, LastElement, result)

(* bitmessagesByUIDRange goes on to search for the other bound.            *)
findEnd ==
    /\ at = "start" /\ Returned
    /\ Head(rest).max # Last
    /\ startSeq' = result
    /\ Find(Head(rest).max, "end")
    /\ UNCHANGED <<query, rest, msgs, folderVars>>

bitmessagesByUIDRange ==
    /\ at = "end" /\ Returned
    /\ \/ /\ startSeq > result
          /\ Give(<<>>)
          /\ UNCHANGED <<searchVars, folderVars>>
       \/ /\ startSeq <= result
          /\ getRange(Head(rest).min, Head(rest).max, startSeq)

(* Mistake: the range ends before its last message.                        *)
seqRange_short ==
    /\ OnRange("MessageSetBySequenceNumber")
    /\ Head(rest).min \in DOMAIN uids
    /\ LET start == uids[Head(rest).min]
           end == Head(rest).max
       IN \/ /\ end = NoMax
             /\ bitmessageBySequenceNumber(start)
          \/ /\ end = Last /\ start \in DOMAIN uids
             /\ getRange(uids[start], LastElement, start)
          \/ /\ end \in DOMAIN uids /\ start \in DOMAIN uids /\ start < end
             /\ getRange(uids[start], uids[end - 1], start)
          \/ /\ end \in Nat \/ end = Last
             /\ start \notin DOMAIN uids \/ end \in Nat \ (start + 1)..Len(uids)
             /\ Give(<<>>)
             /\ UNCHANGED <<searchVars, folderVars>>

(* A range of sequence numbers.  The first number is replaced by the uid   *)
(* at its position, which is then used as a sequence number.               *)
seqRange ==
    /\ OnRange("MessageSetBySequenceNumber")
    /\ Head(rest).min \in DOMAIN uids
    /\ LET start == uids[Head(rest).min]
           end == Head(rest).max
       IN \/ /\ end = NoMax
             /\ bitmessageBySequenceNumber(start)
          \/ /\ end = Last /\ start \in DOMAIN uids
             /\ getRange(uids[start], LastElement, start)
          \/ /\ end \in DOMAIN uids /\ start \in DOMAIN uids /\ start <= end
             /\ getRange(uids[start], uids[end], start)
          \/ /\ end \in Nat \/ end = Last
             /\ start \notin DOMAIN uids \/ end \in Nat \ start..Len(uids)
             /\ Give(<<>>)
             /\ UNCHANGED <<searchVars, folderVars>>

rangesEnd ==
    /\ at = "range" /\ rest = <<>>
    /\ Goto("finish")
    /\ UNCHANGED <<searchVars, query, rest, msgs, startSeq, folderVars>>

(* The messages become e-mails.  In a set, a nil message is a panic.       *)
finish ==
    /\ at = "finish"
    /\ Goto(IF query.kind \in SetKinds /\ \E i \in DOMAIN msgs : msgs[i] = NoMessage
            THEN "panic" ELSE "done")
    /\ UNCHANGED <<searchVars, query, rest, msgs, startSeq, folderVars>>

Next ==
    \/ search
    \/ beginSet \/ MessageByUID \/ MessageBySequenceNumber \/ LastUID
    \/ lastBitmessage \/ giveUp \/ uidRange \/ seqRange \/ rangesEnd
    \/ bmsgByUID \/ bitmessagesSinceUID \/ findEnd \/ bitmessagesByUIDRange
    \/ each \/ eachEnds \/ finish

Spec == Init /\ [][Next]_vars

(* A lookup runs in the goroutine of its IMAP connection.                  *)
FairSpec == Spec /\ WF_vars(Next)
-----------------------------------------------------------------------------
Message == [uid : Nat, seq : Nat]

(* The types of the lookup's variables.                                    *)
TypeOK ==
    /\ query \in Queries
    /\ at \in {"call", "range", "one", "start", "end", "each", "finish", "done", "panic"}
    /\ rest \in Seq(MsgRange)
    /\ msgs \in Seq(Message \cup {NoMessage})
    /\ batch \in Seq(Message)
    /\ startSeq \in Nat /\ cursor \in Nat /\ highID \in Nat /\ seqno \in Nat

(* Every message of an answer is one of the mailbox and carries the        *)
(* sequence number under which the client knows it, although getRange only *)
(* counts from the number it is given (mailbox.go 350-377).                *)
NumberedRight ==
    \A i \in DOMAIN (msgs \o batch) :
        LET m == (msgs \o batch)[i]
        IN m # NoMessage => m.seq \in DOMAIN uids /\ uids[m.seq] = m.uid

(* The messages of the mailbox under their sequence numbers.               *)
Numbered == {m \in Message : m.seq \in DOMAIN uids /\ uids[m.seq] = m.uid}

(* These are the messages with these sequence numbers, each once and in    *)
(* their order.                                                            *)
AreMessages(s, wanted) ==
    /\ s \in Seq(Numbered)
    /\ {s[i].seq : i \in DOMAIN s} = wanted
    /\ \A i, j \in DOMAIN s : i < j => s[i].seq < s[j].seq

(* The sequence numbers of the messages in a range of uids.  A range that  *)
(* ends in 0 has no end if it begins at the first message or before it.    *)
UidWanted(r) ==
    {n \in DOMAIN uids :
        IF r.min = Last THEN n = Len(uids)
        ELSE IF r.max = NoMax THEN uids[n] = r.min
        ELSE IF r.max = Last THEN r.min <= uids[n]
        ELSE IF r.max = 0 THEN r.min <= uids[1]
        ELSE r.min <= uids[n] /\ uids[n] <= r.max}

(* The sequence numbers in a range of them.  A range that reaches past the *)
(* last message has none.                                                  *)
SequenceWanted(r) ==
    {n \in DOMAIN uids :
        IF r.min = Last THEN n = Len(uids)
        ELSE IF r.max = NoMax THEN n = r.min
        ELSE IF r.max = Last THEN r.min <= n
        ELSE r.max <= Len(uids) /\ r.min <= n /\ n <= r.max}

(* The messages before the position that is the uid of the first of the    *)
(* range: as many of the range as there are uids missing below it.         *)
Missed(r) == {n \in DOMAIN uids : r.min # Last /\ n < uids[r.min]}

(* What a range of sequence numbers gives.                                 *)
SequenceGot(r) ==
    IF r.max # NoMax THEN SequenceWanted(r) \ Missed(r)
    ELSE {n \in DOMAIN uids : IF r.min = Last THEN n = Len(uids) ELSE n = uids[r.min]}

(* A step completes a range of such a query, and what it adds.             *)
RangeDone(kind) == query.kind = kind /\ rest # <<>> /\ rest' = Tail(rest)
Given == SubSeq(msgs', Len(msgs) + 1, Len(msgs'))

(* mailbox.go 425: a set of uid ranges gives exactly the messages whose    *)
(* uids are in the ranges, also across gaps and past the last uid, and a   *)
(* nil message for a single uid that is not there.                         *)
UidRangesExact ==
    [][RangeDone("MessageSetByUID") =>
        /\ msgs' = msgs \o Given
        /\ IF Head(rest).max = NoMax /\ UidWanted(Head(rest)) = {}
           THEN Given = <<NoMessage>>
           ELSE AreMessages(Given, UidWanted(Head(rest)))]_vars

(* mailbox.go 476-527, also after deletions: a range of sequence numbers   *)
(* gives the messages of the range but for its first k, where k uids are   *)
(* missing below its first message (line 502 takes the uid for a sequence  *)
(* number), and nothing outside of it; a single number gives the message   *)
(* that is k places further on, or nil.  Only for k = 0 is this what lines *)
(* 476-477 say.                                                            *)
SequenceRangesShifted ==
    [][RangeDone("MessageSetBySequenceNumber") =>
        /\ msgs' = msgs \o Given
        /\ IF Head(rest).max = NoMax /\ SequenceGot(Head(rest)) = {}
           THEN Given = <<NoMessage>>
           ELSE AreMessages(Given, SequenceGot(Head(rest)))]_vars

(* A range of the set that has the given form.                             *)
SomeRange(Test(_)) == \E i \in DOMAIN query.set : Test(query.set[i])

(* A reason why a nil message may be found.                                *)
Explained ==
    \/ /\ query.kind = "MessageSetByUID"
       /\ SomeRange(LAMBDA r : r.max = NoMax /\ r.min # Last /\
                               \A i \in DOMAIN uids : uids[i] # r.min)
    \/ /\ query.kind = "MessageSetBySequenceNumber"
       /\ SomeRange(LAMBDA r : r.max = NoMax /\ r.min \in DOMAIN uids /\
                               uids[r.min] > Len(uids))

(* The only lookups of messages that panic: a set with a single uid that   *)
(* is not there; a set with a single sequence number whose message has a   *)
(* uid that is no sequence number, after a deletion.  (LastUID panics on   *)
(* an empty mailbox, against its comment at lines 221-222.)                *)
PanicsExplained == at = "panic" /\ query.kind # "LastUID" => Explained

(* A lookup comes to an end: neither the interpolation nor the walk over   *)
(* the folder goes on forever.                                             *)
Answered == <>(at \in {"done", "panic"})
-----------------------------------------------------------------------------
(* The parts of the inductive invariant.                                   *)

(* What has been found, and what a nil message among it means.             *)
FoundRight ==
    /\ msgs \in Seq(Numbered \cup {NoMessage})
    /\ batch \in Seq(Numbered)
    /\ query.kind \in SetKinds /\ (\E i \in DOMAIN msgs : msgs[i] = NoMessage) => Explained

(* What is left to do, and when there is something.                        *)
RestRight ==
    /\ \A i \in DOMAIN rest : \E j \in DOMAIN query.set : rest[i] = query.set[j]
    /\ at = "call" => rest = query.set
    /\ at \in {"one", "start", "end", "each"} => rest # <<>>
    /\ at \in {"range", "one", "start", "end", "each"} /\ query.kind \in SetKinds => uids # <<>>

(* Number n is that of the first message that is not below u.              *)
FirstFrom(n, u) ==
    /\ n \in 1..(Len(uids) + 1)
    /\ \A i \in DOMAIN uids : uids[i] < u <=> i < n

(* What is searched for and counted at each step.                          *)
StepRight ==
    /\ at = "one" /\ query.kind = "MessageSetByUID" =>
         /\ Head(rest).max = NoMax
         /\ uid = Head(rest).min \/ (Head(rest).min = Last /\ uid = LastElement)
    /\ at = "one" /\ query.kind = "MessageSetBySequenceNumber" =>
         \E n \in DOMAIN uids : uid = uids[n]
    /\ at = "start" => /\ Head(rest).min \in Nat /\ uid = Head(rest).min
                       /\ Head(rest).max \in Nat \cup {Last} /\ uids # <<>>
    /\ at = "end" => /\ Head(rest).min \in Nat /\ Head(rest).max \in Nat
                     /\ FirstFrom(startSeq, Head(rest).min)
    /\ at = "each" => seqno = cursor /\ cursor > 0

IndInv ==
    /\ SearchInv /\ TypeOK
    /\ FoundRight /\ RestRight /\ StepRight
    /\ PanicsExplained

(* The messages from a number on whose uids do not exceed a bound, if any. *)
Stretch(first, high) ==
    {n \in DOMAIN uids : first <= n /\ (high = 0 \/ uids[n] <= high)}

(* The messages that getRange was asked for, of which the first has the    *)
(* given number.                                                           *)
Interval(first) == Stretch(first, highID)

(* The walk has taken the messages from the first one to the cursor, and   *)
(* the messages it was asked for are those the range wants.                *)
WalkRight ==
    at = "each" =>
        LET first == cursor - Len(batch)
        IN /\ first > 0
           /\ \A i \in DOMAIN batch :
                /\ first + i - 1 \in Interval(first)
                /\ batch[i] = [uid |-> uids[first + i - 1], seq |-> first + i - 1]
           /\ Head(rest).max # NoMax
           /\ query.kind = "MessageSetByUID" => UidWanted(Head(rest)) = Interval(first)
           /\ query.kind = "MessageSetBySequenceNumber" =>
                SequenceGot(Head(rest)) = Interval(first)

(* A search for one message by its sequence number is for the uid at that  *)
(* position's uid; only ranges of uids are searched by their bounds.       *)
OneRight ==
    /\ at \in {"start", "end"} => query.kind = "MessageSetByUID"
    /\ at = "end" => uid = Head(rest).max
    /\ at = "one" /\ query.kind = "MessageSetBySequenceNumber" =>
         /\ Head(rest).max = NoMax
         /\ \/ Head(rest).min = Last /\ uid = LastElement
            \/ /\ Head(rest).min \in DOMAIN uids
               /\ uids[Head(rest).min] \in DOMAIN uids
               /\ uid = uids[uids[Head(rest).min]]

ExactInv == IndInv /\ WalkRight /\ OneRight
=============================================================================
