----------------------------- MODULE UidSearch -----------------------------
(***************************************************************************)
(* GetSequenceNumber of user/mailbox.go: an interpolation search for a uid *)
(* in the sorted uids of a mailbox.  It computes the index to look at in   *)
(* floating point; indices count from 0, sequence numbers from 1.  Module  *)
(* MessageSets calls it.                                                   *)
(***************************************************************************)
EXTENDS Integers, Sequences

CONSTANT
    Lists       \* the uids a mailbox may have

Increasing(s) == \A i, j \in DOMAIN s : i < j => s[i] < s[j]

ASSUME UidSearchAssumption ==
    /\ Lists \subseteq Seq(Nat)
    /\ \A s \in Lists : Increasing(s)

VARIABLES
    uids,       \* the list
    uid,        \* the uid searched for
    pc,         \* "idle", "call", "loop" or "return"
    minIndex,   \* the local variables of the loop
    maxIndex,
    minUID,
    maxUID,
    result      \* the sequence number returned

bounds == <<minIndex, maxIndex, minUID, maxUID>>
searchVars == <<uids, uid, pc, bounds, result>>

(* Element i of the list, counted from 0.                                  *)
At(i) == uids[i + 1]

SearchInit ==
    /\ uids \in Lists
    /\ uid = 0
    /\ pc = "idle"
    /\ minIndex = 0 /\ maxIndex = 0 /\ minUID = 0 /\ maxUID = 0
    /\ result = 0

(* GetSequenceNumber is called.                                            *)
GetSequenceNumber(u) ==
    /\ uid' = u
    /\ pc' = "call"
    /\ UNCHANGED <<uids, bounds, result>>

Return(n) ==
    /\ pc' = "return"
    /\ result' = n
    /\ UNCHANGED <<uids, uid>>

(* The uid is at or below the first, or above the last element, or the     *)
(* list has one element, or none.                                          *)
returnEarly ==
    /\ pc = "call"
    /\ \/ uids = <<>> /\ Return(1)
       \/ uids # <<>> /\ uid < At(0) /\ Return(1)
       \/ uids # <<>> /\ uid > At(Len(uids) - 1) /\ Return(Len(uids) + 1)
       \/ Len(uids) = 1 /\ uid = At(0) /\ Return(1)
    /\ UNCHANGED bounds

enterLoop ==
    /\ pc = "call"
    /\ Len(uids) > 1
    /\ At(0) <= uid /\ uid <= At(Len(uids) - 1)
    /\ pc' = "loop"
    /\ minIndex' = 0
    /\ maxIndex' = Len(uids) - 1
    /\ minUID' = At(0)
    /\ maxUID' = At(Len(uids) - 1)
    /\ UNCHANGED <<uids, uid, result>>

(* Numerator and denominator of the position between the bounds.           *)
Part == (uid - minUID) * (maxIndex - minIndex)
Whole == maxUID - minUID

(* The index the loop looks at.  In exact arithmetic it is the floor of    *)
(* the interpolated position.  When that position is a whole number, the   *)
(* rounding of the ratio may put the result just below it, except that the *)
(* ratios 0 and 1 are exact.                                               *)
CheckIndices ==
    {minIndex + Part \div Whole} \cup
    {i \in {minIndex + Part \div Whole - 1} :
        Part % Whole = 0 /\ minUID < uid /\ uid < maxUID}

found(checkIndex) ==
    /\ At(checkIndex) = uid
    /\ Return(checkIndex + 1)
    /\ UNCHANGED bounds

(* Mistake: the upper bound moves below the element looked at.             *)
above_minusOne(checkIndex) ==
    /\ At(checkIndex) > uid
    /\ maxIndex' = checkIndex - 1
    /\ maxUID' = At(checkIndex - 1)
    /\ UNCHANGED <<uids, uid, pc, minIndex, minUID, result>>

above(checkIndex) ==
    /\ At(checkIndex) > uid
    /\ maxIndex' = checkIndex
    /\ maxUID' = At(checkIndex)
    /\ UNCHANGED <<uids, uid, pc, minIndex, minUID, result>>

(* Mistake: the lower bound stays at the element looked at.                *)
below_stays(checkIndex) ==
    /\ At(checkIndex) < uid
    /\ minIndex' = checkIndex
    /\ minUID' = At(checkIndex)
    /\ UNCHANGED <<uids, uid, pc, maxIndex, maxUID, result>>

(* Mistake: the number of the element below is returned.                   *)
below_short(checkIndex) ==
    /\ At(checkIndex) < uid
    /\ minIndex' = checkIndex + 1
    /\ minUID' = At(checkIndex + 1)
    /\ \/ At(checkIndex + 1) > uid /\ Return(checkIndex + 1)
       \/ At(checkIndex + 1) <= uid /\ UNCHANGED <<uids, uid, pc, result>>
    /\ UNCHANGED <<maxIndex, maxUID>>

below(checkIndex) ==
    /\ At(checkIndex) < uid
    /\ minIndex' = checkIndex + 1
    /\ minUID' = At(checkIndex + 1)
    /\ \/ At(checkIndex + 1) > uid /\ Return(checkIndex + 2)
       \/ At(checkIndex + 1) <= uid /\ UNCHANGED <<uids, uid, pc, result>>
    /\ UNCHANGED <<maxIndex, maxUID>>

loop ==
    /\ pc = "loop"
    /\ \E checkIndex \in CheckIndices :
        found(checkIndex) \/ above(checkIndex) \/ below(checkIndex)

Search == returnEarly \/ enterLoop \/ loop
-----------------------------------------------------------------------------
(* Indices and uids are natural numbers, in particular never negative.     *)
SearchTypeOK ==
    /\ uids \in Lists
    /\ uid \in Nat
    /\ pc \in {"idle", "call", "loop", "return"}
    /\ minIndex \in Nat /\ maxIndex \in Nat
    /\ minUID \in Nat /\ maxUID \in Nat
    /\ result \in Nat

(* Every index looked at is inside the list and the ratio is never that of *)
(* zero and zero: user/mailbox.go 59, "Ratio should be between zero and    *)
(* one inclusive."                                                         *)
LoopIsSafe ==
    pc = "loop" =>
        /\ minUID <= uid /\ uid <= maxUID /\ minUID < maxUID
        /\ \A i \in CheckIndices :
            /\ i \in minIndex..maxIndex /\ maxIndex < Len(uids)
            /\ At(i) < uid => i + 1 <= maxIndex

(* user/mailbox.go 28-29: "GetSequenceNumber gets the lowest sequence      *)
(* number containing a value higher than or equal to the given uid", and   *)
(* the number after the last when there is none.                           *)
ResultIsLowest ==
    pc = "return" =>
        /\ result \in 1..(Len(uids) + 1)
        /\ \A i \in DOMAIN uids : uids[i] < uid <=> i < result

(* What the loop keeps: the bounds are the elements at their indices and   *)
(* the uid is between them.                                                *)
SearchInv ==
    /\ SearchTypeOK
    /\ ResultIsLowest
    /\ pc = "loop" =>
        /\ minIndex < maxIndex /\ maxIndex < Len(uids)
        /\ minUID = At(minIndex) /\ maxUID = At(maxIndex)
        /\ minUID <= uid /\ uid <= maxUID
=============================================================================
