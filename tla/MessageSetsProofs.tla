------------------------- MODULE MessageSetsProofs -------------------------
(***************************************************************************)
(* Proofs about modules UidSearch and MessageSets, for mailboxes of any    *)
(* size, with any gaps, and for any set of ranges.                         *)
(***************************************************************************)
EXTENDS MessageSets, TLAPS

(* A proper fraction of a length, rounded down, is shorter than it.        *)
LEMMA FractionBound ==
    ASSUME NEW a \in Nat, NEW b \in Nat, NEW d \in Nat, a < b, 0 < d
    PROVE  (a * d) \div b \in 0..(d - 1)
  <1>1. a * d \in Nat /\ a * d <= (b - 1) * d
      OBVIOUS
  <1>2. QED
      BY <1>1

(* A whole multiple that is not zero is at least one.                      *)
LEMMA WholePositive ==
    ASSUME NEW p \in Nat, NEW b \in Nat, 0 < p, 0 < b, p % b = 0
    PROVE  p \div b >= 1
  OBVIOUS

(* The whole of a length is the length.                                    *)
LEMMA WholeLength ==
    ASSUME NEW b \in Nat, NEW d \in Nat, 0 < b
    PROVE  (b * d) \div b = d
  OBVIOUS

(* The elements of the list are uids.                                      *)
LEMMA AtType ==
    ASSUME uids \in Seq(Nat), NEW i \in Nat, i < Len(uids)
    PROVE  At(i) \in Nat
  <1>1. i + 1 \in 1..Len(uids)
      OBVIOUS
  <1>2. QED
      BY <1>1 DEF At

(* Elements at larger indices are larger.                                  *)
LEMMA AtIncreases ==
    ASSUME SearchTypeOK, NEW i \in Nat, NEW j \in Nat, i < j, j < Len(uids)
    PROVE  At(i) \in Nat /\ At(j) \in Nat /\ At(i) < At(j)
  <1>1. uids \in Seq(Nat) /\ Increasing(uids)
      BY UidSearchAssumption DEF SearchTypeOK
  <1>2. i + 1 \in 1..Len(uids) /\ j + 1 \in 1..Len(uids) /\ i + 1 < j + 1
      BY <1>1
  <1>3. QED
      BY <1>1, <1>2 DEF At, Increasing

(* The bounds of the loop differ.                                          *)
LEMMA BoundsDiffer ==
    ASSUME SearchInv, pc = "loop"
    PROVE  minUID < maxUID
  <1>1. minIndex \in Nat /\ maxIndex \in Nat /\ minIndex < maxIndex /\ maxIndex < Len(uids)
      BY DEF SearchInv, SearchTypeOK
  <1>2. At(minIndex) < At(maxIndex)
      BY <1>1, AtIncreases DEF SearchInv
  <1>3. QED
      BY <1>2 DEF SearchInv

(* The interpolated index, rounded either way, is between the bounds, and  *)
(* below the upper one unless the uid is the upper element.                *)
LEMMA CheckInRange ==
    ASSUME SearchInv, pc = "loop", NEW i \in CheckIndices
    PROVE  /\ i \in minIndex..maxIndex
           /\ uid < maxUID => i < maxIndex
           /\ uid = maxUID => i = maxIndex
  <1> DEFINE a == uid - minUID
             b == maxUID - minUID
             d == maxIndex - minIndex
  <1>1. /\ minIndex \in Nat /\ maxIndex \in Nat /\ minUID \in Nat /\ maxUID \in Nat
        /\ uid \in Nat /\ minIndex < maxIndex /\ minUID <= uid /\ uid <= maxUID
      BY UidSearchAssumption DEF SearchInv, SearchTypeOK
  <1>2. minUID < maxUID
      BY BoundsDiffer
  <1>3. a \in Nat /\ b \in Nat /\ d \in Nat /\ 0 < b /\ 0 < d /\ a <= b
      BY <1>1, <1>2
  <1>4. \/ i = minIndex + (a * d) \div b
        \/ /\ i = minIndex + (a * d) \div b - 1
           /\ (a * d) % b = 0 /\ minUID < uid /\ uid < maxUID
      BY DEF CheckIndices, Part, Whole
  <1> HIDE DEF a, b, d
  <1>5. CASE uid < maxUID
    <2>1. a < b
        BY <1>1, <1>5 DEF a, b
    <2>2. (a * d) \div b \in 0..(d - 1)
        BY <1>3, <2>1, FractionBound
    <2>3. CASE i = minIndex + (a * d) \div b
        BY <1>1, <1>3, <1>5, <2>2, <2>3 DEF d
    <2>4. CASE i = minIndex + (a * d) \div b - 1 /\ (a * d) % b = 0 /\ minUID < uid
      <3>1. 0 < a
          BY <1>1, <2>4 DEF a
      <3>2. a * d \in Nat /\ 0 < a * d
          BY <1>3, <3>1
      <3>3. (a * d) \div b >= 1
          BY <1>3, <2>4, <3>2, WholePositive
      <3>4. QED
          BY <1>1, <1>3, <1>5, <2>2, <2>4, <3>3 DEF d
    <2>5. QED
        BY <1>4, <2>3, <2>4
  <1>6. CASE uid = maxUID
    <2>1. a = b
        BY <1>6 DEF a, b
    <2>2. (a * d) \div b = d
        BY <1>3, <2>1, WholeLength
    <2>3. i = minIndex + d
        BY <1>1, <1>4, <1>6, <2>2
    <2>4. QED
        BY <1>1, <1>6, <2>3 DEF d
  <1>7. QED
      BY <1>1, <1>5, <1>6

(* No step of the loop reads outside the list or divides zero by zero.     *)
LEMMA SearchInvIsSafe ==
    ASSUME SearchInv
    PROVE  LoopIsSafe
  <1> SUFFICES ASSUME pc = "loop"
               PROVE  /\ minUID <= uid /\ uid <= maxUID /\ minUID < maxUID
                      /\ \A i \in CheckIndices :
                           /\ i \in minIndex..maxIndex /\ maxIndex < Len(uids)
                           /\ At(i) < uid => i + 1 <= maxIndex
      BY DEF LoopIsSafe
  <1>1. minUID <= uid /\ uid <= maxUID /\ minUID < maxUID /\ maxIndex < Len(uids)
      BY BoundsDiffer DEF SearchInv
  <1>2. ASSUME NEW i \in CheckIndices, At(i) < uid
        PROVE  i + 1 <= maxIndex
    <2>1. minIndex \in Nat /\ maxIndex \in Nat /\ uid \in Nat /\ maxUID \in Nat
        BY UidSearchAssumption DEF SearchInv, SearchTypeOK
    <2>2. maxUID = At(maxIndex)
        BY DEF SearchInv
    <2>3. i # maxIndex
        BY <1>1, <1>2, <2>1, <2>2
    <2>4. QED
        BY <2>1, <2>3, CheckInRange
  <1>3. QED
      BY <1>1, <1>2, CheckInRange

(* An index that separates the smaller uids from the others gives the      *)
(* lowest sequence number.                                                 *)
LEMMA Separates ==
    ASSUME SearchTypeOK, NEW k \in Nat, k <= Len(uids),
           k > 0 => At(k - 1) < uid,
           k < Len(uids) => At(k) >= uid
    PROVE  /\ k + 1 \in 1..(Len(uids) + 1)
           /\ \A i \in DOMAIN uids : uids[i] < uid <=> i < k + 1
  <1>1. uids \in Seq(Nat) /\ Len(uids) \in Nat /\ DOMAIN uids = 1..Len(uids) /\ uid \in Nat
      BY UidSearchAssumption DEF SearchTypeOK
  <1>2. ASSUME NEW i \in DOMAIN uids PROVE uids[i] < uid <=> i < k + 1
    <2>1. i \in 1..Len(uids) /\ uids[i] = At(i - 1) /\ uids[i] \in Nat
        BY <1>1 DEF At
    <2>2. CASE i < k
      <3>1. i - 1 \in Nat /\ k - 1 \in Nat /\ i - 1 < k - 1 /\ k - 1 < Len(uids) /\ k > 0
          BY <1>1, <2>1, <2>2
      <3>2. At(i - 1) < At(k - 1) /\ At(k - 1) \in Nat
          BY <3>1, AtIncreases
      <3>3. QED
          BY <1>1, <2>1, <2>2, <3>1, <3>2
    <2>3. CASE i = k
        BY <1>1, <2>1, <2>3
    <2>4. CASE i = k + 1
        BY <1>1, <2>1, <2>4
    <2>5. CASE i > k + 1
      <3>1. i - 1 \in Nat /\ k < i - 1 /\ i - 1 < Len(uids)
          BY <1>1, <2>1, <2>5
      <3>2. At(k) < At(i - 1) /\ At(k) \in Nat /\ k < Len(uids)
          BY <1>1, <3>1, AtIncreases
      <3>3. QED
          BY <1>1, <2>1, <2>5, <3>2
    <2>6. QED
        BY <2>1, <2>2, <2>3, <2>4, <2>5
  <1>3. QED
      BY <1>1, <1>2

(* Before the first call there is no answer.                               *)
LEMMA SearchInvInit == SearchInit => SearchInv
  BY DEF SearchInit, SearchInv, SearchTypeOK, ResultIsLowest

(* A call begins with no answer.                                           *)
LEMMA CallStep ==
    ASSUME SearchInv, NEW u \in Nat, GetSequenceNumber(u)
    PROVE  SearchInv'
  BY DEF SearchInv, SearchTypeOK, ResultIsLowest, GetSequenceNumber, bounds

(* The answers given before the loop.                                      *)
LEMMA EarlyStep ==
    ASSUME SearchInv, returnEarly
    PROVE  SearchInv'
  <1> USE DEF SearchInv
  <1>1. uids \in Seq(Nat) /\ Len(uids) \in Nat /\ uid \in Nat
      BY UidSearchAssumption DEF SearchTypeOK
  <1>2. UNCHANGED <<uids, uid, bounds>> /\ pc' = "return"
      BY DEF returnEarly, Return
  <1>3. \E k \in Nat : /\ k <= Len(uids) /\ result' = k + 1
                       /\ k > 0 => At(k - 1) < uid
                       /\ k < Len(uids) => At(k) >= uid
    <2>1. CASE uids = <<>> /\ Return(1)
        BY <2>1 DEF Return
    <2>2. CASE uids # <<>> /\ uid < At(0) /\ Return(1)
      <3>1. At(0) \in Nat
          BY <1>1, <2>2 DEF At
      <3>2. QED
          BY <1>1, <2>2, <3>1 DEF Return
    <2>3. CASE uids # <<>> /\ uid > At(Len(uids) - 1) /\ Return(Len(uids) + 1)
      <3>1. Len(uids) \in Nat /\ Len(uids) > 0 /\ At(Len(uids) - 1) \in Nat
          BY <1>1, <2>3 DEF At
      <3>2. QED
          BY <1>1, <2>3, <3>1 DEF Return
    <2>4. CASE Len(uids) = 1 /\ uid = At(0) /\ Return(1)
        BY <1>1, <2>4 DEF Return
    <2>5. QED
        BY <2>1, <2>2, <2>3, <2>4 DEF returnEarly
  <1>4. PICK k \in Nat : /\ k <= Len(uids) /\ result' = k + 1
                         /\ k > 0 => At(k - 1) < uid
                         /\ k < Len(uids) => At(k) >= uid
      BY <1>3
  <1>5. /\ result' \in 1..(Len(uids) + 1)
        /\ \A i \in DOMAIN uids : uids[i] < uid <=> i < result'
      BY <1>4, Separates
  <1>6. SearchTypeOK'
      BY <1>2, <1>4 DEF SearchTypeOK, bounds
  <1>7. QED
      BY <1>2, <1>5, <1>6 DEF ResultIsLowest

(* The loop begins with the first and the last element.                    *)
LEMMA EnterStep ==
    ASSUME SearchInv, enterLoop
    PROVE  SearchInv'
  <1> USE DEF SearchInv, enterLoop
  <1>1. uids \in Seq(Nat) /\ Len(uids) \in Nat /\ Len(uids) > 1
      BY UidSearchAssumption DEF SearchTypeOK
  <1>2. At(0) \in Nat /\ At(Len(uids) - 1) \in Nat
      BY <1>1 DEF At
  <1>3. SearchTypeOK'
      BY <1>1, <1>2 DEF SearchTypeOK
  <1>4. QED
      BY <1>1, <1>3 DEF ResultIsLowest, At

(* A round of the loop keeps the uid between the bounds, or ends with the  *)
(* index that separates the smaller uids from the others.                  *)
LEMMA LoopStep ==
    ASSUME SearchInv, loop
    PROVE  SearchInv'
  <1> USE DEF SearchInv
  <1>1. pc = "loop"
      BY DEF loop
  <1>2. PICK i \in CheckIndices : found(i) \/ above(i) \/ below(i)
      BY DEF loop
  <1>3. /\ uids \in Seq(Nat) /\ Len(uids) \in Nat /\ uid \in Nat
        /\ minIndex \in Nat /\ maxIndex \in Nat /\ minUID \in Nat /\ maxUID \in Nat
        /\ minIndex < maxIndex /\ maxIndex < Len(uids)
        /\ minUID = At(minIndex) /\ maxUID = At(maxIndex)
        /\ minUID <= uid /\ uid <= maxUID
      BY <1>1, UidSearchAssumption DEF SearchTypeOK
  <1>4. /\ i \in minIndex..maxIndex /\ i \in Nat /\ i < Len(uids)
        /\ uid < maxUID => i < maxIndex
        /\ uid = maxUID => i = maxIndex
    <2>1. /\ i \in minIndex..maxIndex
          /\ uid < maxUID => i < maxIndex
          /\ uid = maxUID => i = maxIndex
        BY <1>1, CheckInRange
    <2>2. QED
        BY <1>3, <2>1
  <1>5. At(i) \in Nat
      BY <1>3, <1>4, AtType
  <1>6. CASE found(i)
    <2>1. UNCHANGED <<uids, uid, bounds>> /\ pc' = "return" /\ result' = i + 1 /\ At(i) = uid
        BY <1>6 DEF found, Return
    <2>2. i > 0 => At(i - 1) < uid
      <3>1. CASE i > 0
        <4>1. i - 1 \in Nat /\ i - 1 < i
            BY <1>4, <3>1
        <4>2. At(i - 1) < At(i)
            BY <1>4, <4>1, AtIncreases
        <4>3. QED
            BY <2>1, <4>2
      <3>2. QED
          BY <3>1
    <2>3. /\ result' \in 1..(Len(uids) + 1)
          /\ \A j \in DOMAIN uids : uids[j] < uid <=> j < result'
        BY <1>3, <1>4, <2>1, <2>2, Separates
    <2>4. SearchTypeOK'
        BY <1>4, <2>1 DEF SearchTypeOK, bounds
    <2>5. QED
        BY <2>1, <2>3, <2>4 DEF ResultIsLowest
  <1>7. CASE above(i)
    <2> USE <1>7 DEF above
    <2>1. i # minIndex
        BY <1>3, <1>5
    <2>2. minIndex < i
        BY <1>3, <1>4, <2>1
    <2>3. SearchTypeOK'
        BY <1>4, <1>5 DEF SearchTypeOK
    <2>4. QED
        BY <1>1, <1>3, <1>4, <1>5, <2>2, <2>3 DEF ResultIsLowest, At
  <1>8. CASE below(i)
    <2> USE <1>8 DEF below
    <2>1. i # maxIndex /\ uid < maxUID
      <3>1. At(i) < uid
          OBVIOUS
      <3>2. ~(At(maxIndex) < uid)
          BY <1>3
      <3>3. i # maxIndex
          BY ONLY <3>1, <3>2
      <3>4. QED
          BY <1>3, <1>4, <3>3
    <2>2. i + 1 \in Nat /\ i + 1 <= maxIndex /\ i + 1 < Len(uids) /\ At(i + 1) \in Nat
      <3>1. i + 1 \in Nat /\ i + 1 <= maxIndex /\ i + 1 < Len(uids)
          BY <1>3, <1>4, <2>1
      <3>2. QED
          BY <1>3, <3>1, AtType
    <2>3. CASE At(i + 1) > uid /\ Return(i + 2)
      <3>1. UNCHANGED <<uids, uid, maxIndex, maxUID>> /\ pc' = "return" /\ result' = i + 2
          BY <2>3 DEF Return
      <3>2. /\ (i + 1) + 1 \in 1..(Len(uids) + 1)
            /\ \A j \in DOMAIN uids : uids[j] < uid <=> j < (i + 1) + 1
        <4>1. (i + 1) - 1 = i /\ i + 1 <= Len(uids)
            BY <1>3, <1>4, <2>2
        <4>2. At((i + 1) - 1) < uid /\ At(i + 1) >= uid
            BY <1>3, <2>2, <2>3, <4>1
        <4>3. QED
            BY <2>2, <4>1, <4>2, Separates
      <3>3. (i + 1) + 1 = i + 2
          BY <1>4
      <3>4. SearchTypeOK'
          BY <1>4, <2>2, <3>1 DEF SearchTypeOK
      <3>5. QED
          BY <3>1, <3>2, <3>3, <3>4 DEF ResultIsLowest
    <2>4. CASE At(i + 1) <= uid /\ UNCHANGED <<uids, uid, pc, result>>
      <3>1. i + 1 # maxIndex
          BY <1>3, <2>1, <2>2, <2>4
      <3>2. SearchTypeOK'
          BY <2>2, <2>4 DEF SearchTypeOK
      <3>3. QED
          BY <1>1, <1>3, <2>2, <2>4, <3>1, <3>2 DEF ResultIsLowest, At
    <2>5. QED
        BY <2>3, <2>4
  <1>9. QED
      BY <1>2, <1>6, <1>7, <1>8

(* A step of the search keeps its invariant, and so does a step of its     *)
(* caller that leaves it alone.                                            *)
LEMMA SearchStep ==
    ASSUME SearchInv, Search
    PROVE  SearchInv'
  BY EarlyStep, EnterStep, LoopStep DEF Search

LEMMA SearchStutters ==
    ASSUME SearchInv, UNCHANGED searchVars
    PROVE  SearchInv'
  BY DEF searchVars, bounds, SearchInv, SearchTypeOK, ResultIsLowest, At
-----------------------------------------------------------------------------
(* The ranges of message numbers and uids that a client asks for.          *)

(* What is known of the list of uids.                                      *)
LEMMA ListFacts ==
    ASSUME SearchInv
    PROVE  /\ uids \in Seq(Nat) /\ Len(uids) \in Nat /\ DOMAIN uids = 1..Len(uids)
           /\ \A i \in DOMAIN uids : uids[i] \in Nat /\ uids[i] > 0 /\ uids[i] >= i
           /\ \A i, j \in DOMAIN uids : i < j => uids[i] < uids[j]
           /\ uids # <<>> => Len(uids) \in DOMAIN uids /\ LastElement \in Nat
           /\ uid \in Nat /\ result \in Nat
  <1>1. uids \in Lists /\ uid \in Nat /\ result \in Nat
      BY DEF SearchInv, SearchTypeOK
  <1>2. uids \in Seq(Nat) /\ Increasing(uids)
      BY <1>1, UidSearchAssumption
  <1>3. \A i \in DOMAIN uids : uids[i] >= i
      BY <1>1, MessageSetsAssumption
  <1>4. QED
      BY <1>1, <1>2, <1>3 DEF Increasing, LastElement

(* The first message from a uid on has only one number.                    *)
LEMMA FirstUnique ==
    ASSUME SearchInv, NEW u \in Nat, NEW n, NEW k, FirstFrom(n, u), FirstFrom(k, u)
    PROVE  n = k
  <1>1. /\ n \in 1..(Len(uids) + 1) /\ k \in 1..(Len(uids) + 1)
        /\ Len(uids) \in Nat /\ DOMAIN uids = 1..Len(uids)
        /\ \A i \in 1..Len(uids) : i < n <=> i < k
      BY ListFacts DEF FirstFrom
  <1>2. CASE n < k
    <2>1. n \in 1..Len(uids)
        BY <1>1, <1>2
    <2>2. QED
        BY <1>1, <1>2, <2>1
  <1>3. CASE k < n
    <2>1. k \in 1..Len(uids)
        BY <1>1, <1>3
    <2>2. QED
        BY <1>1, <1>3, <2>1
  <1>4. QED
      BY <1>1, <1>2, <1>3

(* From the uid at a position on, that position is the first.              *)
LEMMA FirstAt ==
    ASSUME SearchInv, NEW n \in DOMAIN uids
    PROVE  FirstFrom(n, uids[n])
  <1>1. /\ Len(uids) \in Nat /\ DOMAIN uids = 1..Len(uids)
        /\ \A i \in DOMAIN uids : uids[i] \in Nat
        /\ \A i, j \in DOMAIN uids : i < j => uids[i] < uids[j]
      BY ListFacts
  <1>2. ASSUME NEW i \in DOMAIN uids PROVE uids[i] < uids[n] <=> i < n
    <2>1. CASE i < n
        BY <1>1, <2>1
    <2>2. CASE i = n
        BY <1>1, <2>2
    <2>3. CASE n < i
        BY <1>1, <2>3
    <2>4. QED
        BY <1>1, <2>1, <2>2, <2>3
  <1>3. QED
      BY <1>1, <1>2 DEF FirstFrom

(* An element of a concatenation is one of a part.                         *)
LEMMA InConcat ==
    ASSUME NEW S, NEW s \in Seq(S), NEW t \in Seq(S), NEW i \in DOMAIN (s \o t)
    PROVE  \/ \E j \in DOMAIN s : (s \o t)[i] = s[j]
           \/ \E j \in DOMAIN t : (s \o t)[i] = t[j]
  <1>1. CASE i \in DOMAIN s
      BY <1>1
  <1>2. CASE i \notin DOMAIN s
    <2>1. i - Len(s) \in DOMAIN t /\ (s \o t)[i] = t[i - Len(s)]
        BY <1>2
    <2>2. QED
        BY <2>1
  <1>3. QED
      BY <1>1, <1>2

(* The ranges left after the first are ranges of the set.                  *)
LEMMA TailRight ==
    ASSUME rest \in Seq(MsgRange), rest # <<>>,
           \A i \in DOMAIN rest : \E j \in DOMAIN query.set : rest[i] = query.set[j]
    PROVE  /\ Tail(rest) \in Seq(MsgRange)
           /\ \A i \in DOMAIN Tail(rest) :
                \E j \in DOMAIN query.set : Tail(rest)[i] = query.set[j]
           /\ Head(rest) \in MsgRange
           /\ \E j \in DOMAIN query.set : Head(rest) = query.set[j]
  <1>1. Tail(rest) \in Seq(MsgRange) /\ Head(rest) \in MsgRange /\ 1 \in DOMAIN rest
        /\ Head(rest) = rest[1]
      OBVIOUS
  <1>2. ASSUME NEW i \in DOMAIN Tail(rest)
        PROVE  i + 1 \in DOMAIN rest /\ Tail(rest)[i] = rest[i + 1]
      OBVIOUS
  <1>3. QED
      BY <1>1, <1>2

(* A range whose first bound is a number.                                  *)
LEMMA NumberRange ==
    ASSUME NEW r \in MsgRange, r.min \in Nat
    PROVE  r.max \in Nat \cup {Last, NoMax, TooBig}
  BY MessageSetsAssumption DEF MsgRange

(* Whether a nil message is explained depends on the call alone.           *)
LEMMA ExplainedKept ==
    ASSUME UNCHANGED <<query, uids>>
    PROVE  Explained' <=> Explained
  BY DEF Explained, SomeRange

(* A range that gives messages of the mailbox keeps the invariant.         *)
LEMMA GiveStep ==
    ASSUME IndInv, rest # <<>>,
           query.kind \in SetKinds => uids # <<>>,
           NEW new \in Seq(Numbered \cup {NoMessage}),
           query.kind \in SetKinds /\ (\E i \in DOMAIN new : new[i] = NoMessage) => Explained,
           Give(new), UNCHANGED <<searchVars, folderVars>>
    PROVE  IndInv'
  <1> USE DEF Give, Goto
  <1>1. SearchInv' /\ UNCHANGED <<query, uids, startSeq, batch, cursor, highID, seqno>>
      BY SearchStutters DEF IndInv, searchVars, folderVars
  <1>2. msgs \in Seq(Numbered \cup {NoMessage}) /\ batch \in Seq(Numbered) /\ rest \in Seq(MsgRange)
      BY DEF IndInv, FoundRight, TypeOK
  <1>3. msgs \o new \in Seq(Numbered \cup {NoMessage})
      BY <1>2
  <1>4. Numbered' = Numbered /\ Numbered \subseteq Message
      BY <1>1 DEF Numbered
  <1>5. TypeOK'
    <2>1. Tail(rest) \in Seq(MsgRange)
        BY <1>2, TailRight DEF IndInv, RestRight
    <2>2. msgs \o new \in Seq(Message \cup {NoMessage})
      <3>1. Numbered \cup {NoMessage} \subseteq Message \cup {NoMessage}
          BY <1>4
      <3>2. QED
          BY <1>3, <3>1
    <2>3. QED
        BY <1>1, <2>1, <2>2 DEF IndInv, TypeOK
  <1>6. FoundRight'
    <2>1. query.kind \in SetKinds /\ (\E i \in DOMAIN (msgs \o new) : (msgs \o new)[i] = NoMessage)
          => Explained
        BY <1>2, InConcat DEF IndInv, FoundRight
    <2>2. QED
        BY <1>1, <1>2, <1>3, <1>4, <2>1, ExplainedKept DEF FoundRight
  <1>7. RestRight'
      BY <1>1, <1>2, TailRight DEF IndInv, RestRight
  <1>8. StepRight' /\ PanicsExplained'
      BY DEF StepRight, PanicsExplained
  <1>9. QED
      BY <1>1, <1>5, <1>6, <1>7, <1>8 DEF IndInv

LEMMA NothingStep ==
    ASSUME IndInv, rest # <<>>, query.kind \in SetKinds => uids # <<>>,
           Give(<<>>), UNCHANGED <<searchVars, folderVars>>
    PROVE  IndInv'
  <1> DEFINE none == <<>>
  <1>1. none \in Seq(Numbered \cup {NoMessage}) /\ DOMAIN none = {}
      OBVIOUS
  <1>2. Give(none)
      OBVIOUS
  <1> HIDE DEF none
  <1>3. QED
      BY <1>1, <1>2, GiveStep

(* A search that begins keeps what does not depend on the step.            *)
LEMMA FindStep ==
    ASSUME IndInv, NEW u \in Nat, NEW step \in {"one", "start", "end"}, Find(u, step),
           startSeq' \in Nat, rest # <<>>,
           query.kind \in SetKinds => uids # <<>>,
           UNCHANGED <<query, rest, msgs, folderVars>>, StepRight'
    PROVE  IndInv'
  <1>1. SearchInv' /\ uids' = uids /\ at' = step
      BY CallStep DEF IndInv, Find, GetSequenceNumber, Goto
  <1>2. TypeOK'
      BY <1>1 DEF IndInv, TypeOK, folderVars
  <1>3. FoundRight'
    <2>1. Numbered' = Numbered /\ (Explained' <=> Explained)
        BY <1>1, ExplainedKept DEF Numbered
    <2>2. QED
        BY <2>1 DEF IndInv, FoundRight, folderVars
  <1>4. RestRight'
      BY <1>1 DEF IndInv, RestRight
  <1>5. PanicsExplained'
      BY <1>1 DEF PanicsExplained
  <1>6. QED
      BY <1>1, <1>2, <1>3, <1>4, <1>5 DEF IndInv

(* A step to the end or to the loop over the ranges keeps the rest.        *)
LEMMA GotoStep ==
    ASSUME IndInv, NEW step \in {"range", "finish", "done", "panic"}, Goto(step),
           step = "range" /\ query.kind \in SetKinds => uids # <<>>,
           step = "panic" /\ query.kind # "LastUID" => Explained,
           UNCHANGED <<searchVars, query, rest, msgs, startSeq, folderVars>>
    PROVE  IndInv'
  <1>1. SearchInv' /\ uids' = uids /\ at' = step
      BY SearchStutters DEF IndInv, searchVars, Goto
  <1>2. TypeOK'
      BY <1>1 DEF IndInv, TypeOK, folderVars
  <1>3. Numbered' = Numbered /\ (Explained' <=> Explained)
      BY <1>1, ExplainedKept DEF Numbered
  <1>4. FoundRight'
      BY <1>3 DEF IndInv, FoundRight, folderVars
  <1>5. RestRight' /\ StepRight' /\ PanicsExplained'
      BY <1>1, <1>3 DEF IndInv, RestRight, StepRight, PanicsExplained
  <1>6. QED
      BY <1>1, <1>2, <1>4, <1>5 DEF IndInv

(* getRange called with the number of its first message counts right.      *)
LEMMA RangeStep ==
    ASSUME IndInv, rest # <<>>, query.kind \in SetKinds => uids # <<>>,
           NEW low \in Nat, NEW high \in Nat, NEW n, FirstFrom(n, low),
           getRange(low, high, n)
    PROVE  IndInv'
  <1> USE DEF getRange
  <1>1. CASE Give(<<>>) /\ UNCHANGED folderVars
      BY <1>1, NothingStep
  <1>2. CASE /\ high = 0 \/ low <= high
             /\ \E c \in 1..(Len(uids) + 1) :
                  /\ \A i \in DOMAIN uids : uids[i] < low <=> i < c
                  /\ cursor' = c
             /\ highID' = high /\ seqno' = n /\ batch' = <<>>
             /\ Goto("each")
             /\ UNCHANGED <<query, rest, msgs, startSeq>>
    <2>1. SearchInv' /\ uids' = uids /\ at' = "each"
        BY <1>2, SearchStutters DEF IndInv, searchVars, Goto
    <2>2. PICK c \in 1..(Len(uids) + 1) : FirstFrom(c, low) /\ cursor' = c
        BY <1>2 DEF FirstFrom
    <2>3. c = n /\ cursor' = c /\ c \in Nat /\ c > 0
        BY <2>2, FirstUnique, ListFacts DEF IndInv
    <2>4. TypeOK'
        BY <1>2, <2>1, <2>3 DEF IndInv, TypeOK
    <2>5. Numbered' = Numbered /\ (Explained' <=> Explained)
        BY <1>2, <2>1, ExplainedKept DEF Numbered
    <2>6. FoundRight'
        BY <1>2, <2>5 DEF IndInv, FoundRight
    <2>7. RestRight' /\ PanicsExplained'
        BY <1>2, <2>1 DEF IndInv, RestRight, PanicsExplained
    <2>8. StepRight'
        BY <1>2, <2>1, <2>3 DEF StepRight
    <2>9. QED
        BY <2>1, <2>4, <2>6, <2>7, <2>8 DEF IndInv
  <1>3. QED
      BY <1>1, <1>2

(* A search answers with the first message from its uid on.                *)
LEMMA ResultFirst ==
    ASSUME IndInv, Returned
    PROVE  FirstFrom(result, uid)
  BY DEF IndInv, SearchInv, ResultIsLowest, Returned, FirstFrom

(* What bmsgByUID answers is nil exactly when the uid is not there.        *)
LEMMA ByUIDRight ==
    ASSUME IndInv, Returned
    PROVE  /\ ByUID \in Numbered \cup {NoMessage}
           /\ ByUID = NoMessage => \A i \in DOMAIN uids : uids[i] # uid
  <1>1. /\ Len(uids) \in Nat /\ DOMAIN uids = 1..Len(uids) /\ uid \in Nat
        /\ \A i \in DOMAIN uids : uids[i] \in Nat
      BY ListFacts DEF IndInv
  <1>2. FirstFrom(result, uid)
      BY ResultFirst
  <1>3. CASE result > Len(uids) \/ uids[result] # uid
    <2>1. ByUID = NoMessage
        BY <1>3 DEF ByUID
    <2>2. ASSUME NEW i \in DOMAIN uids, uids[i] = uid PROVE FALSE
      <3>1. FirstFrom(i, uid)
          BY <2>2, FirstAt DEF IndInv
      <3>2. i = result
          BY <1>1, <1>2, <3>1, FirstUnique DEF IndInv
      <3>3. QED
          BY <1>1, <1>3, <2>2, <3>2
    <2>3. QED
        BY <2>1, <2>2
  <1>4. CASE ~(result > Len(uids) \/ uids[result] # uid)
    <2>1. result \in DOMAIN uids /\ uids[result] = uid /\ result \in Nat
        BY <1>1, <1>2, <1>4 DEF FirstFrom
    <2>2. ByUID = [uid |-> uid, seq |-> result] /\ ByUID \in Message
        BY <1>1, <1>4, <2>1 DEF ByUID, Message
    <2>3. ByUID \in Numbered
        BY <2>1, <2>2 DEF Numbered
    <2>4. ByUID # NoMessage
        BY <2>2, MessageSetsAssumption DEF Message
    <2>5. QED
        BY <2>3, <2>4
  <1>5. QED
      BY <1>3, <1>4

(* A single message is given.                                              *)
LEMMA OneStep ==
    ASSUME IndInv, bmsgByUID
    PROVE  IndInv'
  <1> USE DEF bmsgByUID
  <1>1. ByUID \in Numbered \cup {NoMessage} /\ (ByUID = NoMessage => \A i \in DOMAIN uids : uids[i] # uid)
      BY ByUIDRight
  <1>2. rest # <<>> /\ (query.kind \in SetKinds => uids # <<>>)
      BY DEF IndInv, RestRight
  <1>3. ASSUME query.kind \in SetKinds, ByUID = NoMessage PROVE Explained
    <2>1. \A i \in DOMAIN uids : uids[i] # uid
        BY <1>1, <1>3
    <2>2. query.kind = "MessageSetByUID"
        BY <1>3, <2>1 DEF SetKinds, IndInv, StepRight
    <2>3. uid # LastElement
        BY <1>2, <1>3, <2>1, ListFacts DEF IndInv, LastElement
    <2>4. Head(rest).max = NoMax /\ uid = Head(rest).min /\ uid \in Nat
        BY <2>2, <2>3, ListFacts DEF IndInv, StepRight
    <2>5. Head(rest).min # Last
        BY <2>4, MessageSetsAssumption
    <2>6. \E j \in DOMAIN query.set : Head(rest) = query.set[j]
        BY <1>2, TailRight DEF IndInv, RestRight, TypeOK
    <2>7. QED
        BY <2>1, <2>2, <2>4, <2>5, <2>6 DEF Explained, SomeRange
  <1> DEFINE new == <<ByUID>>
  <1>4. new \in Seq(Numbered \cup {NoMessage}) /\ DOMAIN new = {1} /\ new[1] = ByUID
      BY <1>1
  <1>5. Give(new)
      OBVIOUS
  <1> HIDE DEF new
  <1>6. QED
      BY <1>2, <1>3, <1>4, <1>5, GiveStep

(* The function called for a message of the folder numbers it right.       *)
LEMMA EachStep ==
    ASSUME IndInv, each
    PROVE  IndInv'
  <1> USE DEF each
  <1>1. SearchInv' /\ UNCHANGED <<uids, query, rest, msgs, startSeq, highID>> /\ at' = "each"
      BY SearchStutters DEF IndInv, searchVars
  <1>2. seqno = cursor /\ cursor \in Nat /\ cursor \in DOMAIN uids /\ uids[cursor] \in Nat
      BY ListFacts DEF IndInv, TypeOK, StepRight, InInterval
  <1>3. [uid |-> uids[cursor], seq |-> seqno] \in Numbered
      BY <1>2 DEF Numbered, Message
  <1>4. Numbered' = Numbered /\ (Explained' <=> Explained) /\ Numbered \subseteq Message
      BY <1>1, ExplainedKept DEF Numbered
  <1>5. batch' \in Seq(Numbered)
      BY <1>3 DEF IndInv, FoundRight
  <1>6. batch' \in Seq(Message)
      BY <1>4, <1>5
  <1>7. TypeOK'
      BY <1>1, <1>2, <1>6 DEF IndInv, TypeOK
  <1>8. FoundRight'
      BY <1>1, <1>4, <1>5 DEF IndInv, FoundRight
  <1>9. RestRight' /\ StepRight' /\ PanicsExplained'
      BY <1>1, <1>2 DEF IndInv, RestRight, StepRight, PanicsExplained
  <1>10. QED
      BY <1>1, <1>7, <1>8, <1>9 DEF IndInv

(* The messages of a range are given.                                      *)
LEMMA EachEndsStep ==
    ASSUME IndInv, eachEnds
    PROVE  IndInv'
  <1> USE DEF eachEnds
  <1>1. rest # <<>> /\ (query.kind \in SetKinds => uids # <<>>)
      BY DEF IndInv, RestRight
  <1>2. batch \in Seq(Numbered) /\ Numbered \subseteq Message
      BY DEF IndInv, FoundRight, Numbered
  <1>3. batch \in Seq(Numbered \cup {NoMessage})
      BY <1>2
  <1>4. ASSUME NEW i \in DOMAIN batch PROVE batch[i] # NoMessage
    <2>1. batch[i] \in Message
        BY <1>2
    <2>2. QED
        BY <2>1, MessageSetsAssumption DEF Message
  <1>5. QED
      BY <1>1, <1>3, <1>4, GiveStep

(* A single call begins.                                                   *)
LEMMA SingleCall ==
    ASSUME IndInv, at = "call", query.kind \in {"MessageByUID", "MessageBySequenceNumber"}
    PROVE  /\ rest # <<>> /\ rest[1].min \in Nat
           /\ query.kind \notin SetKinds
  <1>1. rest = query.set /\ query \in Queries
      BY DEF IndInv, RestRight, TypeOK
  <1>2. Len(rest) = 1 /\ rest[1].min \in Nat
      BY <1>1, MessageSetsAssumption
  <1>3. QED
      BY <1>2 DEF SetKinds

LEMMA CallByUIDStep ==
    ASSUME IndInv, MessageByUID
    PROVE  IndInv'
  <1> USE DEF MessageByUID
  <1>1. rest # <<>> /\ rest[1].min \in Nat /\ query.kind \notin SetKinds
      BY SingleCall
  <1>2. at' = "one" /\ query' = query
      BY DEF Find, Goto
  <1>3. StepRight'
      BY <1>2 DEF StepRight
  <1>4. startSeq' \in Nat
      BY DEF IndInv, TypeOK
  <1>5. QED
      BY <1>1, <1>3, <1>4, FindStep

(* A message by its number: searched by its uid, or nil.                   *)
LEMMA BySequenceStep ==
    ASSUME IndInv, NEW n \in Nat, bitmessageBySequenceNumber(n), rest # <<>>,
           query.kind # "MessageSetByUID",
           query.kind \in SetKinds => uids # <<>>,
           query.kind \in SetKinds /\ n \notin DOMAIN uids => Explained
    PROVE  IndInv'
  <1> USE DEF bitmessageBySequenceNumber
  <1>1. CASE n \in DOMAIN uids
    <2>1. Find(uids[n], "one") /\ UNCHANGED <<query, rest, msgs, startSeq, folderVars>>
        BY <1>1
    <2>2. uids[n] \in Nat
        BY <1>1, ListFacts DEF IndInv
    <2>3. at' = "one" /\ uid' = uids[n] /\ uids' = uids /\ query' = query
        BY <2>1 DEF Find, Goto, GetSequenceNumber
    <2>4. StepRight'
        BY <1>1, <2>3 DEF StepRight
    <2>5. startSeq' \in Nat
        BY <2>1 DEF IndInv, TypeOK
    <2>6. QED
        BY <2>1, <2>2, <2>4, <2>5, FindStep
  <1>2. CASE n \notin DOMAIN uids
    <2>1. Give(<<NoMessage>>) /\ UNCHANGED <<searchVars, folderVars>>
        BY <1>2
    <2> DEFINE new == <<NoMessage>>
    <2>2. new \in Seq(Numbered \cup {NoMessage})
        OBVIOUS
    <2>3. Give(new)
        BY <2>1
    <2> HIDE DEF new
    <2>4. QED
        BY <1>2, <2>1, <2>2, <2>3, GiveStep
  <1>3. QED
      BY <1>1, <1>2

LEMMA CallBySequenceStep ==
    ASSUME IndInv, MessageBySequenceNumber
    PROVE  IndInv'
  <1> USE DEF MessageBySequenceNumber
  <1>1. rest # <<>> /\ rest[1].min \in Nat /\ query.kind \notin SetKinds
      BY SingleCall
  <1>2. QED
      BY <1>1, BySequenceStep DEF SetKinds

(* What is known at a range of a set.                                      *)
LEMMA AtRange ==
    ASSUME IndInv, NEW kind \in SetKinds, OnRange(kind)
    PROVE  /\ rest # <<>> /\ uids # <<>> /\ query.kind = kind
           /\ Head(rest) \in MsgRange
           /\ \E j \in DOMAIN query.set : Head(rest) = query.set[j]
           /\ Len(uids) \in DOMAIN uids /\ LastElement \in Nat
  <1>1. rest # <<>> /\ uids # <<>> /\ query.kind = kind
      BY DEF OnRange, IndInv, RestRight
  <1>2. Len(uids) \in DOMAIN uids /\ LastElement \in Nat
      BY <1>1, ListFacts DEF IndInv
  <1>3. QED
      BY <1>1, <1>2, TailRight DEF IndInv, RestRight, TypeOK

LEMMA LastStep ==
    ASSUME IndInv, lastBitmessage
    PROVE  IndInv'
  <1> USE DEF lastBitmessage
  <1>1. PICK kind \in SetKinds : OnRange(kind)
      OBVIOUS
  <1>2. /\ rest # <<>> /\ uids # <<>> /\ query.kind = kind /\ Head(rest) \in MsgRange
        /\ Len(uids) \in DOMAIN uids /\ LastElement \in Nat
      BY <1>1, AtRange
  <1>3. /\ at' = "one" /\ uid' = LastElement
        /\ UNCHANGED <<uids, query, rest, startSeq>>
      BY DEF Find, Goto, GetSequenceNumber
  <1>4. Head(rest).min = Last /\ Head(rest).max = NoMax
      BY <1>2, MessageSetsAssumption DEF MsgRange
  <1>5. StepRight'
      BY <1>2, <1>3, <1>4 DEF StepRight, LastElement
  <1>6. startSeq' \in Nat
      BY <1>3 DEF IndInv, TypeOK
  <1>7. QED
      BY <1>2, <1>5, <1>6, FindStep

LEMMA UidRangeStep ==
    ASSUME IndInv, uidRange
    PROVE  IndInv'
  <1> USE DEF uidRange
  <1>1. "MessageSetByUID" \in SetKinds
      BY DEF SetKinds
  <1>2. rest # <<>> /\ uids # <<>> /\ query.kind = "MessageSetByUID" /\ Head(rest) \in MsgRange
      BY <1>1, AtRange
  <1> DEFINE step == IF Head(rest).max = NoMax THEN "one" ELSE "start"
  <1>3. step \in {"one", "start", "end"} /\ Find(Head(rest).min, step)
      OBVIOUS
  <1>4. at' = step /\ uid' = Head(rest).min /\ UNCHANGED <<query, rest, startSeq>>
      BY DEF Find, Goto, GetSequenceNumber
  <1>5. Head(rest).max \in Nat \cup {Last, NoMax}
      BY <1>2, NumberRange
  <1>6. StepRight'
    <2>1. uids' = uids
        BY DEF Find, GetSequenceNumber
    <2>2. QED
        BY <1>2, <1>4, <1>5, <2>1, MessageSetsAssumption DEF StepRight
  <1>7. startSeq' \in Nat
      BY <1>4 DEF IndInv, TypeOK
  <1> HIDE DEF step
  <1>8. QED
      BY <1>2, <1>3, <1>6, <1>7, FindStep

LEMMA SinceStep ==
    ASSUME IndInv, bitmessagesSinceUID
    PROVE  IndInv'
  <1> USE DEF bitmessagesSinceUID
  <1>1. /\ rest # <<>> /\ (query.kind \in SetKinds => uids # <<>>)
        /\ Head(rest).min \in Nat /\ uid = Head(rest).min /\ uids # <<>>
      BY DEF IndInv, RestRight, StepRight
  <1>2. FirstFrom(result, Head(rest).min) /\ LastElement \in Nat
      BY <1>1, ResultFirst, ListFacts DEF IndInv
  <1>3. QED
      BY <1>1, <1>2, RangeStep

LEMMA FindEndStep ==
    ASSUME IndInv, findEnd
    PROVE  IndInv'
  <1> USE DEF findEnd
  <1>1. /\ rest # <<>> /\ (query.kind \in SetKinds => uids # <<>>)
        /\ Head(rest).min \in Nat /\ uid = Head(rest).min /\ Head(rest).max \in Nat
      BY DEF IndInv, RestRight, StepRight
  <1>2. FirstFrom(result, Head(rest).min)
      BY <1>1, ResultFirst
  <1>3. at' = "end" /\ UNCHANGED <<uids, query, rest>>
      BY DEF Find, Goto, GetSequenceNumber
  <1>4. StepRight'
      BY <1>1, <1>2, <1>3 DEF StepRight, FirstFrom
  <1>5. startSeq' \in Nat
      BY ListFacts DEF IndInv
  <1>6. QED
      BY <1>1, <1>4, <1>5, FindStep

LEMMA UidRangeEndStep ==
    ASSUME IndInv, bitmessagesByUIDRange
    PROVE  IndInv'
  <1> USE DEF bitmessagesByUIDRange
  <1>1. /\ rest # <<>> /\ (query.kind \in SetKinds => uids # <<>>)
        /\ Head(rest).min \in Nat /\ Head(rest).max \in Nat
        /\ FirstFrom(startSeq, Head(rest).min)
      BY DEF IndInv, RestRight, StepRight
  <1>2. QED
      BY <1>1, NothingStep, RangeStep

(* A range of sequence numbers: a uid that is a position is the first of   *)
(* its own uid on.                                                         *)
LEMMA SeqRangeStep ==
    ASSUME IndInv, seqRange
    PROVE  IndInv'
  <1> DEFINE start == uids[Head(rest).min]
             end == Head(rest).max
  <1>1. "MessageSetBySequenceNumber" \in SetKinds
      BY DEF SetKinds
  <1>2. /\ rest # <<>> /\ uids # <<>> /\ query.kind = "MessageSetBySequenceNumber"
        /\ Head(rest) \in MsgRange /\ Len(uids) \in DOMAIN uids /\ LastElement \in Nat
        /\ \E j \in DOMAIN query.set : Head(rest) = query.set[j]
      BY <1>1, AtRange DEF seqRange
  <1>3. /\ Head(rest).min \in DOMAIN uids /\ start \in Nat /\ start > 0
        /\ Len(uids) \in Nat /\ DOMAIN uids = 1..Len(uids)
        /\ \A i \in DOMAIN uids : uids[i] \in Nat
      BY ListFacts DEF seqRange, IndInv
  <1>4. CASE end = NoMax /\ bitmessageBySequenceNumber(start)
    <2>1. ASSUME start \notin DOMAIN uids PROVE Explained
      <3>1. start > Len(uids)
          BY <1>3, <2>1
      <3>2. QED
          BY <1>2, <1>3, <1>4, <3>1 DEF Explained, SomeRange
    <2>2. QED
        BY <1>2, <1>3, <1>4, <2>1, BySequenceStep
  <1>5. ASSUME start \in DOMAIN uids PROVE FirstFrom(start, uids[start])
      BY <1>5, FirstAt DEF IndInv
  <1>6. CASE start \in DOMAIN uids /\ getRange(uids[start], LastElement, start)
      BY <1>2, <1>3, <1>5, <1>6, RangeStep
  <1>7. CASE /\ end \in DOMAIN uids /\ start \in DOMAIN uids
             /\ getRange(uids[start], uids[end], start)
      BY <1>2, <1>3, <1>5, <1>7, RangeStep
  <1>8. CASE Give(<<>>) /\ UNCHANGED <<searchVars, folderVars>>
      BY <1>2, <1>8, NothingStep
  <1>9. QED
      BY <1>4, <1>6, <1>7, <1>8 DEF seqRange

(* The remaining steps only go on.                                         *)
LEMMA FinishStep ==
    ASSUME IndInv, finish
    PROVE  IndInv'
  <1> DEFINE step == IF query.kind \in SetKinds /\ \E i \in DOMAIN msgs : msgs[i] = NoMessage
                     THEN "panic" ELSE "done"
  <1>1. step \in {"range", "finish", "done", "panic"} /\ Goto(step) /\ step # "range"
      BY DEF finish
  <1>2. step = "panic" => Explained
      BY DEF IndInv, FoundRight
  <1> HIDE DEF step
  <1>3. QED
      BY <1>1, <1>2, GotoStep DEF finish

LEMMA GoOnStep ==
    ASSUME IndInv, beginSet \/ LastUID \/ giveUp \/ rangesEnd
    PROVE  IndInv'
  <1>1. CASE beginSet
      BY <1>1, GotoStep DEF beginSet
  <1>2. CASE LastUID
      BY <1>2, GotoStep DEF LastUID, SetKinds
  <1>3. CASE giveUp
      BY <1>3, GotoStep DEF giveUp
  <1>4. CASE rangesEnd
      BY <1>4, GotoStep DEF rangesEnd
  <1>5. QED
      BY <1>1, <1>2, <1>3, <1>4

(* A step of the search leaves the lookup alone.                           *)
LEMMA InSearchStep ==
    ASSUME IndInv, search
    PROVE  IndInv'
  <1>1. SearchInv'
      BY SearchStep DEF search, IndInv
  <1>2. uids' = uids /\ uid' = uid
      BY DEF search, Search, returnEarly, enterLoop, loop, found, above, below, Return
  <1>3. UNCHANGED <<query, at, rest, msgs, startSeq, batch, cursor, highID, seqno>>
      BY DEF search, lookupVars, folderVars
  <1>4. TypeOK'
      BY <1>3 DEF IndInv, TypeOK
  <1>5. Numbered' = Numbered /\ (Explained' <=> Explained)
      BY <1>2, <1>3, ExplainedKept DEF Numbered
  <1>6. FoundRight' /\ RestRight' /\ PanicsExplained'
      BY <1>2, <1>3, <1>5 DEF IndInv, FoundRight, RestRight, PanicsExplained
  <1>7. StepRight'
      BY <1>2, <1>3 DEF IndInv, StepRight, FirstFrom, LastElement
  <1>8. QED
      BY <1>1, <1>4, <1>6, <1>7 DEF IndInv

LEMMA StutterStep ==
    ASSUME IndInv, UNCHANGED vars
    PROVE  IndInv'
  <1>1. SearchInv' /\ UNCHANGED <<uids, uid>>
      BY SearchStutters DEF vars, searchVars, IndInv
  <1>2. UNCHANGED <<query, at, rest, msgs, startSeq, batch, cursor, highID, seqno>>
      BY DEF vars, lookupVars, folderVars
  <1>3. TypeOK'
      BY <1>2 DEF IndInv, TypeOK
  <1>4. Numbered' = Numbered /\ (Explained' <=> Explained)
      BY <1>1, <1>2, ExplainedKept DEF Numbered
  <1>5. FoundRight' /\ RestRight' /\ PanicsExplained'
      BY <1>1, <1>2, <1>4 DEF IndInv, FoundRight, RestRight, PanicsExplained
  <1>6. StepRight'
      BY <1>1, <1>2 DEF IndInv, StepRight, FirstFrom, LastElement
  <1>7. QED
      BY <1>1, <1>3, <1>5, <1>6 DEF IndInv

(* A lookup starts with nothing found.                                     *)
LEMMA InitStep == Init => IndInv
  <1> SUFFICES ASSUME Init PROVE IndInv
      OBVIOUS
  <1>1. SearchInv
      BY SearchInvInit DEF Init
  <1>2. query \in [kind : Kinds, set : Seq(MsgRange)] /\ rest = query.set
      BY MessageSetsAssumption DEF Init
  <1>3. TypeOK
      BY <1>2 DEF Init, TypeOK
  <1>4. FoundRight /\ RestRight /\ StepRight /\ PanicsExplained
      BY DEF Init, FoundRight, RestRight, StepRight, PanicsExplained
  <1>5. QED
      BY <1>1, <1>3, <1>4 DEF IndInv

(* Every step keeps the inductive invariant.                               *)
LEMMA LookupStep == IndInv /\ [Next]_vars => IndInv'
  BY InSearchStep, GoOnStep, CallByUIDStep, CallBySequenceStep, LastStep, UidRangeStep,
     SeqRangeStep, OneStep, SinceStep, FindEndStep, UidRangeEndStep, EachStep,
     EachEndsStep, FinishStep, StutterStep DEF Next

(* The inductive invariant holds of every lookup.                          *)
THEOREM LookupInvariance == Spec => []IndInv
  BY InitStep, LookupStep, PTL DEF Spec

(* GetSequenceNumber never looks outside the list, mailbox.go 45-78.       *)
THEOREM SearchIsSafe == Spec => []LoopIsSafe
  <1>1. IndInv => LoopIsSafe
      BY SearchInvIsSafe DEF IndInv
  <1>2. QED
      BY LookupInvariance, <1>1, PTL

(* GetSequenceNumber returns what its comment says, mailbox.go 28-29.      *)
THEOREM SearchIsRight == Spec => []ResultIsLowest
  <1>1. IndInv => ResultIsLowest
      BY DEF IndInv, SearchInv
  <1>2. QED
      BY LookupInvariance, <1>1, PTL

(* Every message of an answer carries its own sequence number.             *)
THEOREM AnswersNumberedRight == Spec => []NumberedRight
  <1>1. ASSUME IndInv PROVE NumberedRight
    <2>1. msgs \in Seq(Numbered \cup {NoMessage}) /\ batch \in Seq(Numbered)
        BY <1>1 DEF IndInv, FoundRight
    <2>2. ASSUME NEW i \in DOMAIN (msgs \o batch)
          PROVE  (msgs \o batch)[i] \in Numbered \cup {NoMessage}
      <3>1. batch \in Seq(Numbered \cup {NoMessage})
          BY <2>1
      <3>2. msgs \o batch \in Seq(Numbered \cup {NoMessage})
          BY <2>1, <3>1
      <3>3. QED
          BY <3>2
    <2>3. QED
        BY <2>2 DEF NumberedRight, Numbered
  <1>2. QED
      BY LookupInvariance, <1>1, PTL

(* No lookup panics for another reason than the three known ones.          *)
THEOREM LookupPanicsExplained == Spec => []PanicsExplained
  <1>1. IndInv => PanicsExplained
      BY DEF IndInv
  <1>2. QED
      BY LookupInvariance, <1>1, PTL
-----------------------------------------------------------------------------
(* What a range gives.                                                     *)

(* What a step appends is what it is found to have added.                  *)
LEMMA GivenIsNew ==
    ASSUME NEW S, msgs \in Seq(S), NEW new \in Seq(S), msgs' = msgs \o new
    PROVE  Given = new
  <1>1. Len(msgs) \in Nat /\ Len(new) \in Nat /\ Len(msgs') = Len(msgs) + Len(new)
      OBVIOUS
  <1>2. msgs' \in Seq(S)
      OBVIOUS
  <1>3. Given \in Seq(S) /\ Len(Given) = Len(new)
      BY <1>1, <1>2 DEF Given
  <1>4. ASSUME NEW i \in 1..Len(new) PROVE Given[i] = new[i]
    <2>1. Given[i] = msgs'[Len(msgs) + i]
        BY <1>1, <1>2 DEF Given
    <2>2. QED
        BY <1>1, <2>1
  <1>5. QED
      BY <1>1, <1>3, <1>4

(* A range that is done leaves fewer.                                      *)
LEMMA TailDiffers ==
    ASSUME NEW S, NEW s \in Seq(S), s # <<>>
    PROVE  Tail(s) # s
  <1>1. Len(s) \in Nat /\ Len(s) # 0
      OBVIOUS
  <1>2. Len(Tail(s)) = Len(s) - 1
      BY <1>1
  <1>3. \A n \in Nat : n - 1 # n
      OBVIOUS
  <1>4. QED
      BY <1>1, <1>2, <1>3, Zenon

(* A range without an end wants the messages up to the last.               *)
LEMMA OpenRange ==
    ASSUME IndInv, uids # <<>>, NEW r, r.min \in Nat, r.max = Last,
           NEW n, FirstFrom(n, r.min)
    PROVE  /\ UidWanted(r) = Stretch(n, LastElement)
           /\ r.min > LastElement => UidWanted(r) = {}
  <1>1. /\ Len(uids) \in Nat /\ DOMAIN uids = 1..Len(uids) /\ n \in Nat
        /\ \A i \in DOMAIN uids : uids[i] \in Nat
        /\ \A i, j \in DOMAIN uids : i < j => uids[i] < uids[j]
        /\ Len(uids) \in DOMAIN uids /\ LastElement = uids[Len(uids)]
      BY ListFacts DEF IndInv, LastElement, FirstFrom
  <1>2. r.min # Last /\ r.max # NoMax
      BY MessageSetsAssumption
  <1>3. UidWanted(r) = {k \in DOMAIN uids : r.min <= uids[k]}
      BY <1>2 DEF UidWanted
  <1>4. ASSUME NEW k \in DOMAIN uids
        PROVE  (r.min <= uids[k] <=> n <= k) /\ uids[k] <= LastElement
    <2>1. uids[k] < r.min <=> k < n
        BY DEF FirstFrom
    <2>2. k = Len(uids) \/ k < Len(uids)
        BY <1>1
    <2>3. QED
        BY <1>1, <2>1, <2>2
  <1>5. QED
      BY <1>1, <1>3, <1>4 DEF Stretch

(* A range with two bounds wants the messages from the first to the last   *)
(* of them, and none if the numbers of the bounds are in the wrong order.  *)
LEMMA ClosedRange ==
    ASSUME IndInv, uids # <<>>, NEW r, r.min \in Nat, r.max \in Nat,
           NEW n, FirstFrom(n, r.min), NEW m, FirstFrom(m, r.max)
    PROVE  /\ n <= m => UidWanted(r) = Stretch(n, r.max)
           /\ n > m => UidWanted(r) = {}
           /\ r.max # 0 /\ r.min > r.max => UidWanted(r) = {}
  <1>1. /\ Len(uids) \in Nat /\ DOMAIN uids = 1..Len(uids) /\ n \in Nat /\ m \in Nat
        /\ \A i \in DOMAIN uids : uids[i] \in Nat
        /\ 1 \in DOMAIN uids /\ n > 0 /\ m > 0 /\ n <= Len(uids) + 1 /\ m <= Len(uids) + 1
      BY ListFacts DEF IndInv, FirstFrom
  <1>2. r.min # Last /\ r.max # NoMax /\ r.max # Last
      BY MessageSetsAssumption
  <1>3. \A k \in DOMAIN uids : (uids[k] < r.min <=> k < n) /\ (uids[k] < r.max <=> k < m)
      BY DEF FirstFrom
  <1>4. CASE r.max = 0
    <2>1. UidWanted(r) = {k \in DOMAIN uids : r.min <= uids[1]}
        BY <1>2, <1>4 DEF UidWanted
    <2>2. m = 1 /\ (r.min <= uids[1] <=> n <= 1)
        BY <1>1, <1>3, <1>4
    <2>3. QED
        BY <1>1, <1>4, <2>1, <2>2 DEF Stretch
  <1>5. CASE r.max # 0
    <2>1. UidWanted(r) = {k \in DOMAIN uids : r.min <= uids[k] /\ uids[k] <= r.max}
        BY <1>2, <1>5 DEF UidWanted
    <2>2. \A k \in DOMAIN uids : r.min <= uids[k] <=> n <= k
        BY <1>1, <1>3
    <2>3. n > m => r.min > r.max
      <3>1. SUFFICES ASSUME n > m PROVE r.min > r.max
          OBVIOUS
      <3>2. m \in DOMAIN uids /\ uids[m] < r.min /\ ~(uids[m] < r.max)
          BY <1>1, <1>3, <3>1
      <3>3. QED
          BY <1>1, <3>2
    <2>4. r.min > r.max => UidWanted(r) = {}
        BY <1>1, <2>1
    <2>5. UidWanted(r) = Stretch(n, r.max)
        BY <1>1, <1>5, <2>1, <2>2 DEF Stretch
    <2>6. QED
        BY <2>3, <2>4, <2>5, <1>5
  <1>6. QED
      BY <1>4, <1>5

(* A range of sequence numbers gives the messages from the number that is  *)
(* the uid of its first message up to the one at its end.                  *)
LEMMA NumberStretch ==
    ASSUME IndInv, uids # <<>>, NEW r, r.min \in DOMAIN uids
    PROVE  /\ r.max = Last => SequenceGot(r) = Stretch(uids[r.min], LastElement)
           /\ r.max \in DOMAIN uids => SequenceGot(r) = Stretch(uids[r.min], uids[r.max])
           /\ r.max \in Nat \ uids[r.min]..Len(uids) => SequenceGot(r) = {}
           /\ r.max \in Nat \cup {Last} /\ uids[r.min] \notin DOMAIN uids => SequenceGot(r) = {}
  <1> DEFINE start == uids[r.min]
  <1>1. /\ Len(uids) \in Nat /\ DOMAIN uids = 1..Len(uids)
        /\ \A i \in DOMAIN uids : uids[i] \in Nat /\ uids[i] > 0
        /\ \A i, j \in DOMAIN uids : i < j => uids[i] < uids[j]
        /\ LastElement = uids[Len(uids)] /\ Len(uids) \in DOMAIN uids
        /\ r.min \in Nat /\ r.min # Last /\ start \in Nat /\ r.min <= start /\ start > 0
      BY ListFacts, MessageSetsAssumption DEF IndInv, LastElement
  <1>a. \A k, m \in DOMAIN uids : uids[k] <= uids[m] <=> k <= m
    <2>1. \A k, m \in DOMAIN uids : k \in Nat /\ m \in Nat /\ uids[k] \in Nat /\ uids[m] \in Nat
        BY <1>1
    <2>2. ASSUME NEW k \in DOMAIN uids, NEW m \in DOMAIN uids PROVE uids[k] <= uids[m] <=> k <= m
      <3>1. k < m => uids[k] < uids[m]
          BY <1>1
      <3>2. m < k => uids[m] < uids[k]
          BY <1>1
      <3>3. QED
          BY <2>1, <3>1, <3>2
    <2>3. QED
        BY <2>2
  <1> HIDE DEF start
  <1>2. CASE r.max = Last
    <2>1. r.max # NoMax /\ r.max \notin Nat
        BY <1>2, MessageSetsAssumption
    <2>2. SequenceWanted(r) = {k \in DOMAIN uids : r.min <= k}
        BY <1>1, <1>2, <2>1 DEF SequenceWanted
    <2>3. SequenceGot(r) = {k \in DOMAIN uids : start <= k}
        BY <1>1, <2>1, <2>2 DEF SequenceGot, Missed, start
    <2>4. Stretch(start, LastElement) = {k \in DOMAIN uids : start <= k}
        BY <1>1, <1>a DEF Stretch
    <2>5. start \notin DOMAIN uids => SequenceGot(r) = {}
        BY <1>1, <2>3
    <2>6. r.max \notin DOMAIN uids
        BY <1>1, <2>1
    <2>7. QED
        BY <1>2, <2>1, <2>3, <2>4, <2>5, <2>6 DEF start
  <1>3. CASE r.max \in Nat
    <2>1. r.max # NoMax /\ r.max # Last
        BY <1>3, MessageSetsAssumption
    <2>2. SequenceWanted(r) =
             {k \in DOMAIN uids : r.max <= Len(uids) /\ r.min <= k /\ k <= r.max}
        BY <1>1, <2>1 DEF SequenceWanted
    <2>3. SequenceGot(r) =
             {k \in DOMAIN uids : r.max <= Len(uids) /\ start <= k /\ k <= r.max}
        BY <1>1, <2>1, <2>2 DEF SequenceGot, Missed, start
    <2>4. ASSUME r.max \in DOMAIN uids PROVE SequenceGot(r) = Stretch(start, uids[r.max])
      <3>1. uids[r.max] # 0 /\ r.max <= Len(uids)
          BY <1>1, <2>4
      <3>2. Stretch(start, uids[r.max]) = {k \in DOMAIN uids : start <= k /\ k <= r.max}
          BY <1>a, <2>4, <3>1 DEF Stretch
      <3>3. QED
          BY <2>3, <3>1, <3>2
    <2>5. r.max \in Nat \ start..Len(uids) => SequenceGot(r) = {}
        BY <1>1, <1>3, <2>3
    <2>6. start \notin DOMAIN uids => SequenceGot(r) = {}
        BY <1>1, <1>3, <2>3
    <2>7. QED
        BY <2>1, <2>4, <2>5, <2>6 DEF start
  <1>4. QED
      BY <1>1, <1>2, <1>3

(* A walk that begins has taken nothing, and is asked for what is wanted.  *)
LEMMA WalkBegins ==
    ASSUME IndInv, NEW low \in Nat, NEW high \in Nat, NEW n, FirstFrom(n, low),
           getRange(low, high, n), Head(rest).max # NoMax,
           query.kind = "MessageSetByUID" => UidWanted(Head(rest)) = Stretch(n, high),
           query.kind = "MessageSetBySequenceNumber" =>
               SequenceGot(Head(rest)) = Stretch(n, high)
    PROVE  WalkRight'
  <1>1. SUFFICES ASSUME at' = "each" PROVE WalkRight'
      BY DEF WalkRight
  <1>2. ~Give(<<>>)
      BY <1>1 DEF Give, Goto
  <1>3. /\ \E c \in 1..(Len(uids) + 1) :
             /\ \A i \in DOMAIN uids : uids[i] < low <=> i < c
             /\ cursor' = c
        /\ highID' = high /\ batch' = <<>> /\ UNCHANGED <<query, rest, uids>>
      BY <1>2 DEF getRange, searchVars
  <1>4. PICK c \in 1..(Len(uids) + 1) : FirstFrom(c, low) /\ cursor' = c
      BY <1>3 DEF FirstFrom
  <1>5. cursor' = n /\ n \in Nat /\ n > 0
      BY <1>4, FirstUnique, ListFacts DEF IndInv
  <1>6. Len(batch') = 0 /\ DOMAIN batch' = {} /\ (cursor - Len(batch))' = n
      BY <1>3, <1>5
  <1>7. Interval(n)' = Stretch(n, high)
      BY <1>3, <1>5 DEF Interval, Stretch
  <1>8. (UidWanted(Head(rest)))' = UidWanted(Head(rest))
      BY <1>3 DEF UidWanted
  <1>9. (SequenceGot(Head(rest)))' = SequenceGot(Head(rest))
      BY <1>3 DEF SequenceGot, SequenceWanted, Missed
  <1>10. (Interval(cursor - Len(batch)))' = Stretch(n, high)
      BY <1>6, <1>7 DEF Interval, Stretch
  <1>11. QED
      BY <1>3, <1>5, <1>6, <1>8, <1>9, <1>10 DEF WalkRight

(* The walk takes the message at the cursor.                               *)
LEMMA WalkGoesOn ==
    ASSUME IndInv, WalkRight, each
    PROVE  WalkRight'
  <1> DEFINE first == cursor - Len(batch)
             msg == [uid |-> uids[cursor], seq |-> seqno]
  <1>1. /\ at = "each" /\ InInterval /\ batch' = Append(batch, msg) /\ cursor' = cursor + 1
        /\ UNCHANGED <<uids, query, rest, highID>>
      BY DEF each, searchVars
  <1>2. /\ batch \in Seq(Message) /\ Len(batch) \in Nat /\ DOMAIN batch = 1..Len(batch)
        /\ cursor \in Nat /\ seqno = cursor /\ cursor > 0
        /\ Len(uids) \in Nat /\ DOMAIN uids = 1..Len(uids)
        /\ uids[cursor] \in Nat
      BY <1>1, ListFacts DEF IndInv, TypeOK, StepRight, InInterval
  <1>3. msg \in Message
      BY <1>2 DEF Message
  <1>4. /\ Len(batch') = Len(batch) + 1 /\ DOMAIN batch' = 1..(Len(batch) + 1)
        /\ batch'[Len(batch) + 1] = msg
        /\ \A i \in 1..Len(batch) : batch'[i] = batch[i]
      BY <1>1, <1>2, <1>3
  <1>5. (cursor - Len(batch))' = first /\ first \in Int
      BY <1>1, <1>2, <1>4
  <1>6. /\ first > 0 /\ Head(rest).max # NoMax
        /\ \A i \in DOMAIN batch :
             /\ first + i - 1 \in Interval(first)
             /\ batch[i] = [uid |-> uids[first + i - 1], seq |-> first + i - 1]
        /\ query.kind = "MessageSetByUID" => UidWanted(Head(rest)) = Interval(first)
        /\ query.kind = "MessageSetBySequenceNumber" =>
             SequenceGot(Head(rest)) = Interval(first)
      BY <1>1 DEF WalkRight
  <1>7. cursor \in Interval(first) /\ first + (Len(batch) + 1) - 1 = cursor
      BY <1>1, <1>2 DEF InInterval, Interval, Stretch
  <1> HIDE DEF first
  <1>8. (Interval(cursor - Len(batch)))' = Interval(first)
      BY <1>1, <1>5 DEF Interval, Stretch
  <1>9. /\ (UidWanted(Head(rest)))' = UidWanted(Head(rest))
        /\ (SequenceGot(Head(rest)))' = SequenceGot(Head(rest))
      BY <1>1 DEF UidWanted, SequenceGot, SequenceWanted, Missed
  <1>10. ASSUME NEW i \in DOMAIN batch'
         PROVE  /\ first + i - 1 \in Interval(first)
                /\ batch'[i] = [uid |-> uids[first + i - 1], seq |-> first + i - 1]
    <2>1. CASE i \in 1..Len(batch)
        BY <1>2, <1>4, <1>6, <2>1
    <2>2. CASE i = Len(batch) + 1
        BY <1>2, <1>4, <1>7, <2>2
    <2>3. QED
        BY <1>2, <1>4, <2>1, <2>2
  <1>11. QED
      BY <1>1, <1>5, <1>6, <1>8, <1>9, <1>10 DEF WalkRight

(* A walk that ends has taken exactly the messages it was asked for.       *)
LEMMA WalkEnds ==
    ASSUME IndInv, WalkRight, at = "each", ~InInterval
    PROVE  AreMessages(batch, Interval(cursor - Len(batch)))
  <1> DEFINE first == cursor - Len(batch)
  <1>1. /\ batch \in Seq(Numbered) /\ Len(batch) \in Nat /\ DOMAIN batch = 1..Len(batch)
        /\ cursor \in Nat /\ highID \in Nat /\ first \in Int /\ cursor = first + Len(batch)
        /\ Len(uids) \in Nat /\ DOMAIN uids = 1..Len(uids)
        /\ \A i \in DOMAIN uids : uids[i] \in Nat
        /\ \A i, j \in DOMAIN uids : i < j => uids[i] < uids[j]
      BY ListFacts DEF IndInv, TypeOK, FoundRight
  <1>2. /\ first > 0
        /\ \A i \in DOMAIN batch : /\ first + i - 1 \in Interval(first)
                                   /\ batch[i] = [uid |-> uids[first + i - 1], seq |-> first + i - 1]
      BY DEF WalkRight
  <1> HIDE DEF first
  <1>3. \A i \in DOMAIN batch : batch[i].seq = first + i - 1
      BY <1>2
  <1>4. ASSUME NEW n \in Interval(first) PROVE \E i \in DOMAIN batch : batch[i].seq = n
    <2>1. n \in DOMAIN uids /\ first <= n /\ (highID = 0 \/ uids[n] <= highID)
        BY DEF Interval, Stretch
    <2>2. n < cursor
      <3>1. SUFFICES ASSUME cursor <= n PROVE FALSE
          BY <1>1, <2>1
      <3>2. cursor \in DOMAIN uids /\ (cursor = n \/ cursor < n)
          BY <1>1, <1>2, <2>1, <3>1
      <3>3. uids[cursor] <= uids[n] /\ cursor <= Len(uids)
          BY <1>1, <2>1, <3>2
      <3>4. highID # 0 /\ uids[cursor] > highID
          BY <1>1, <3>2, <3>3 DEF InInterval
      <3>5. QED
          BY <1>1, <2>1, <3>2, <3>3, <3>4
    <2>3. n - first + 1 \in DOMAIN batch /\ first + (n - first + 1) - 1 = n
        BY <1>1, <2>1, <2>2
    <2>4. QED
        BY <1>3, <2>3
  <1>5. {batch[i].seq : i \in DOMAIN batch} = Interval(first)
      BY <1>2, <1>3, <1>4
  <1>6. \A i, j \in DOMAIN batch : i < j => batch[i].seq < batch[j].seq
      BY <1>1, <1>3
  <1>7. QED
      BY <1>1, <1>5, <1>6 DEF AreMessages, first

(* A walk over sequence numbers begins at the uid of the wanted one.       *)
LEMMA NumberWalk ==
    ASSUME IndInv, seqRange
    PROVE  WalkRight'
  <1> DEFINE start == uids[Head(rest).min]
             end == Head(rest).max
  <1>1. "MessageSetBySequenceNumber" \in SetKinds
      BY DEF SetKinds
  <1>2. /\ uids # <<>> /\ query.kind = "MessageSetBySequenceNumber"
        /\ Head(rest).min \in DOMAIN uids /\ LastElement \in Nat
        /\ \A i \in DOMAIN uids : uids[i] \in Nat
        /\ DOMAIN uids \subseteq Nat
      BY <1>1, AtRange, ListFacts DEF seqRange, IndInv
  <1>4. ASSUME at' # "each" PROVE WalkRight'
      BY <1>4 DEF WalkRight
  <1>5. ASSUME start \in DOMAIN uids PROVE FirstFrom(start, uids[start])
      BY <1>5, FirstAt DEF IndInv
  <1>6. CASE end = NoMax /\ bitmessageBySequenceNumber(start)
      BY <1>4, <1>6 DEF bitmessageBySequenceNumber, Find, Give, Goto
  <1>7. CASE end = Last /\ start \in DOMAIN uids /\ getRange(uids[start], LastElement, start)
    <2>1. SequenceGot(Head(rest)) = Stretch(start, LastElement)
        BY <1>2, <1>7, NumberStretch
    <2>2. end # NoMax
        BY <1>7, MessageSetsAssumption
    <2>3. QED
        BY <1>2, <1>5, <1>7, <2>1, <2>2, WalkBegins
  <1>8. CASE /\ end \in DOMAIN uids /\ start \in DOMAIN uids
             /\ getRange(uids[start], uids[end], start)
    <2>1. SequenceGot(Head(rest)) = Stretch(start, uids[end])
        BY <1>2, <1>8, NumberStretch
    <2>2. end # NoMax
        BY <1>2, <1>8, MessageSetsAssumption
    <2>3. QED
        BY <1>2, <1>5, <1>8, <2>1, <2>2, WalkBegins
  <1>9. CASE Give(<<>>)
      BY <1>4, <1>9 DEF Give, Goto
  <1>10. QED
      BY <1>6, <1>7, <1>8, <1>9 DEF seqRange

(* A single message is searched for by the uid of its number.              *)
LEMMA OneBegins ==
    ASSUME IndInv, seqRange
    PROVE  OneRight'
  <1>1. SUFFICES ASSUME at' = "one" PROVE OneRight'
    <2>1. at' \notin {"start", "end"}
        BY DEF seqRange, bitmessageBySequenceNumber, getRange, Give, Goto, Find
    <2>2. QED
        BY <2>1, <1>1 DEF OneRight
  <1> DEFINE min == Head(rest).min
  <1>2. /\ Head(rest).max = NoMax /\ min \in DOMAIN uids
        /\ Find(uids[uids[min]], "one") /\ UNCHANGED rest /\ uids[min] \in DOMAIN uids
      BY <1>1 DEF seqRange, bitmessageBySequenceNumber, getRange, Give, Goto
  <1>3. uids' = uids /\ uid' = uids[uids[min]]
      BY <1>2 DEF Find, GetSequenceNumber
  <1>4. QED
      BY <1>1, <1>2, <1>3 DEF OneRight

(* Every step keeps what is known of the walk and of a single search.      *)
LEMMA ExactStep ==
    ASSUME ExactInv, [Next]_vars
    PROVE  ExactInv'
  <1>1. IndInv /\ WalkRight /\ OneRight
      BY DEF ExactInv
  <1>2. IndInv'
      BY <1>1, LookupStep
  <1>3. ASSUME UNCHANGED <<query, at, rest, uids, uid, batch, cursor, highID>>
        PROVE  WalkRight' /\ OneRight'
    <2>1. WalkRight'
        BY <1>1, <1>3 DEF WalkRight, UidWanted, SequenceGot, SequenceWanted, Missed, Interval, Stretch
    <2>2. OneRight'
        BY <1>1, <1>3 DEF OneRight, LastElement
    <2>3. QED
        BY <2>1, <2>2
  <1>4. CASE search
    <2>1. uids' = uids /\ uid' = uid
        BY <1>4 DEF search, Search, returnEarly, enterLoop, loop, found, above, below, Return
    <2>2. QED
        BY <1>2, <1>3, <1>4, <2>1 DEF search, lookupVars, folderVars, ExactInv
  <1>5. CASE UNCHANGED vars
      BY <1>2, <1>3, <1>5 DEF vars, searchVars, lookupVars, folderVars, ExactInv
  <1>6. ASSUME at' \notin {"each", "one", "start", "end"} PROVE ExactInv'
      BY <1>2, <1>6 DEF WalkRight, OneRight, ExactInv
  <1>7. CASE beginSet \/ LastUID \/ giveUp \/ rangesEnd \/ bmsgByUID \/ eachEnds \/ finish
      BY <1>6, <1>7 DEF beginSet, LastUID, giveUp, rangesEnd, bmsgByUID, eachEnds, finish,
         Give, Goto
  <1>8. ASSUME at' \in {"one", "start", "end"}, OneRight' PROVE ExactInv'
      BY <1>2, <1>8 DEF WalkRight, ExactInv
  <1>9. CASE MessageByUID
      BY <1>8, <1>9 DEF MessageByUID, OneRight, Find, Goto
  <1>10. CASE MessageBySequenceNumber
      BY <1>6, <1>8, <1>10 DEF MessageBySequenceNumber, bitmessageBySequenceNumber, OneRight,
         Find, Give, Goto
  <1>11. CASE lastBitmessage
    <2>1. PICK kind \in SetKinds : OnRange(kind)
        BY <1>11 DEF lastBitmessage
    <2>2. Head(rest) \in MsgRange
        BY <1>1, <2>1, AtRange
    <2>3. Head(rest).min = Last /\ Head(rest).max = NoMax
        BY <1>11, <2>2, MessageSetsAssumption DEF lastBitmessage, MsgRange
    <2>4. at' = "one" /\ uid' = LastElement /\ UNCHANGED <<uids, rest>>
        BY <1>11 DEF lastBitmessage, Find, Goto, GetSequenceNumber
    <2>5. QED
        BY <1>8, <2>3, <2>4 DEF OneRight, LastElement
  <1>12. CASE uidRange
    <2>1. at' \in {"one", "start"} /\ query'.kind = "MessageSetByUID"
        BY <1>12 DEF uidRange, OnRange, Find, Goto
    <2>2. QED
        BY <1>8, <2>1 DEF OneRight
  <1>13. CASE findEnd
      BY <1>1, <1>8, <1>13 DEF findEnd, OneRight, Find, Goto, GetSequenceNumber
  <1>14. ASSUME at' \in {"range", "each"}, WalkRight' PROVE ExactInv'
      BY <1>2, <1>14 DEF OneRight, ExactInv
  <1>15. CASE each
      BY <1>1, <1>14, <1>15, WalkGoesOn DEF each
  <1>16. CASE bitmessagesSinceUID
    <2>1. /\ Head(rest).min \in Nat /\ uid = Head(rest).min /\ uids # <<>>
          /\ query.kind = "MessageSetByUID" /\ Head(rest).max = Last
        BY <1>1, <1>16 DEF bitmessagesSinceUID, IndInv, StepRight, OneRight
    <2>2. FirstFrom(result, Head(rest).min) /\ LastElement \in Nat
        BY <1>1, <1>16, <2>1, ResultFirst, ListFacts DEF IndInv, bitmessagesSinceUID
    <2>3. getRange(Head(rest).min, LastElement, result)
        BY <1>16 DEF bitmessagesSinceUID
    <2>4. UidWanted(Head(rest)) = Stretch(result, LastElement) /\ Head(rest).max # NoMax
        BY <1>1, <2>1, <2>2, OpenRange, MessageSetsAssumption
    <2>5. WalkRight'
        BY <1>1, <2>1, <2>2, <2>3, <2>4, WalkBegins
    <2>6. QED
        BY <1>14, <2>3, <2>5 DEF getRange, Give, Goto
  <1>17. CASE bitmessagesByUIDRange
    <2>1. /\ Head(rest).min \in Nat /\ Head(rest).max \in Nat /\ uids # <<>>
          /\ FirstFrom(startSeq, Head(rest).min) /\ query.kind = "MessageSetByUID"
          /\ uid = Head(rest).max /\ FirstFrom(result, uid)
        BY <1>1, <1>17, ResultFirst
           DEF bitmessagesByUIDRange, IndInv, StepRight, RestRight, OneRight, SetKinds
    <2>2. CASE Give(<<>>)
        BY <1>6, <2>2 DEF Give, Goto
    <2>3. CASE startSeq <= result /\ getRange(Head(rest).min, Head(rest).max, startSeq)
      <3>1. UidWanted(Head(rest)) = Stretch(startSeq, Head(rest).max)
          BY <1>1, <2>1, <2>3, ClosedRange
      <3>2. Head(rest).max # NoMax
          BY <2>1, MessageSetsAssumption
      <3>3. WalkRight'
          BY <1>1, <2>1, <2>3, <3>1, <3>2, WalkBegins
      <3>4. QED
          BY <1>14, <2>3, <3>3 DEF getRange, Give, Goto
    <2>4. QED
        BY <1>17, <2>2, <2>3 DEF bitmessagesByUIDRange
  <1>18. CASE seqRange
    <2>1. OneRight'
        BY <1>1, <1>18, OneBegins
    <2>2. WalkRight'
        BY <1>1, <1>18, NumberWalk
    <2>3. QED
        BY <1>2, <2>1, <2>2 DEF ExactInv
  <1>19. QED
      BY <1>4, <1>5, <1>7, <1>9, <1>10, <1>11, <1>12, <1>13, <1>15, <1>16, <1>17, <1>18 DEF Next

(* A step that completes a range is one of the four that give something.   *)
LEMMA WhoGives ==
    ASSUME IndInv, Next, rest # <<>>, rest' = Tail(rest), query.kind \in SetKinds
    PROVE  bmsgByUID \/ bitmessagesSinceUID \/ bitmessagesByUIDRange \/ eachEnds \/ seqRange
  <1>1. rest' # rest
      BY TailDiffers DEF IndInv, TypeOK
  <1>2. ~search
      BY <1>1 DEF search, lookupVars
  <1>3. ~beginSet /\ ~LastUID /\ ~rangesEnd /\ ~finish
      BY <1>1 DEF beginSet, LastUID, rangesEnd, finish
  <1>4. ~MessageByUID /\ ~MessageBySequenceNumber
      BY DEF MessageByUID, MessageBySequenceNumber, SetKinds
  <1>5. ~lastBitmessage /\ ~giveUp /\ ~uidRange /\ ~findEnd /\ ~each
      BY <1>1 DEF lastBitmessage, giveUp, uidRange, findEnd, each
  <1>6. QED
      BY <1>2, <1>3, <1>4, <1>5 DEF Next

(* getRange completes a range only if its interval is empty.               *)
LEMMA RangeGivesNone ==
    ASSUME IndInv, NEW low, NEW high, NEW n, getRange(low, high, n),
           rest # <<>>, rest' = Tail(rest)
    PROVE  high # 0 /\ low > high /\ Give(<<>>)
  <1>1. rest' # rest
      BY TailDiffers DEF IndInv, TypeOK
  <1>2. QED
      BY <1>1 DEF getRange

(* What Give appends is what is found to be added.                         *)
LEMMA GiveIsGiven ==
    ASSUME IndInv, NEW new \in Seq(Message \cup {NoMessage}), Give(new)
    PROVE  Given = new /\ msgs' = msgs \o Given
  <1>1. msgs \in Seq(Message \cup {NoMessage}) /\ msgs' = msgs \o new
      BY DEF IndInv, TypeOK, Give
  <1>2. QED
      BY <1>1, GivenIsNew

(* Nothing is given, and nothing is wanted.                                *)
LEMMA NoneIsRight ==
    ASSUME IndInv, Give(<<>>)
    PROVE  msgs' = msgs \o Given /\ AreMessages(Given, {})
  <1> DEFINE none == <<>>
  <1>1. none \in Seq(Message \cup {NoMessage}) /\ none \in Seq(Numbered) /\ DOMAIN none = {}
        /\ Give(none)
      OBVIOUS
  <1> HIDE DEF none
  <1>2. Given = none /\ msgs' = msgs \o Given
      BY <1>1, GiveIsGiven
  <1>3. QED
      BY <1>1, <1>2 DEF AreMessages

(* What a walk has taken is given.                                         *)
LEMMA WalkIsRight ==
    ASSUME IndInv, WalkRight, eachEnds
    PROVE  msgs' = msgs \o Given /\ AreMessages(Given, Interval(cursor - Len(batch)))
  <1>1. batch \in Seq(Message) /\ Give(batch)
      BY DEF IndInv, TypeOK, eachEnds
  <1>2. batch \in Seq(Message \cup {NoMessage})
      BY <1>1
  <1>3. Given = batch /\ msgs' = msgs \o Given
      BY <1>1, <1>2, GiveIsGiven
  <1>4. QED
      BY <1>3, WalkEnds DEF eachEnds

(* A single message that is there is given, a nil one if it is not.        *)
LEMMA OneIsRight ==
    ASSUME IndInv, bmsgByUID
    PROVE  /\ msgs' = msgs \o Given
           /\ (\A i \in DOMAIN uids : uids[i] # uid) => Given = <<NoMessage>>
           /\ \A i \in DOMAIN uids : uids[i] = uid => AreMessages(Given, {i})
  <1> DEFINE new == <<ByUID>>
  <1>1. Give(new) /\ Returned
      BY DEF bmsgByUID
  <1>2. ByUID \in Numbered \cup {NoMessage} /\ Numbered \subseteq Message
      BY <1>1, ByUIDRight DEF Numbered
  <1>3. new \in Seq(Message \cup {NoMessage}) /\ DOMAIN new = {1} /\ new[1] = ByUID
      BY <1>2
  <1>4. ASSUME \A i \in DOMAIN uids : uids[i] # uid PROVE ByUID = NoMessage
    <2>1. FirstFrom(result, uid)
        BY <1>1, ResultFirst
    <2>2. result > Len(uids) \/ result \in DOMAIN uids
        BY <2>1, ListFacts DEF FirstFrom, IndInv
    <2>3. QED
        BY <1>4, <2>2 DEF ByUID
  <1>5. ASSUME NEW i \in DOMAIN uids, uids[i] = uid
        PROVE  ByUID \in Numbered /\ ByUID.seq = i
    <2>1. FirstFrom(i, uid) /\ FirstFrom(result, uid) /\ uid \in Nat
        BY <1>1, <1>5, FirstAt, ResultFirst, ListFacts DEF IndInv
    <2>2. result = i
        BY <2>1, FirstUnique DEF IndInv
    <2>3. result <= Len(uids)
        BY <2>2, ListFacts DEF IndInv
    <2>4. ByUID = [uid |-> uid, seq |-> result]
        BY <1>5, <2>2, <2>3, ListFacts DEF ByUID, IndInv
    <2>5. ByUID # NoMessage
        BY <1>1, <1>5, ByUIDRight
    <2>6. QED
        BY <1>2, <2>2, <2>4, <2>5
  <1> HIDE DEF new
  <1>6. Given = new /\ msgs' = msgs \o Given
      BY <1>1, <1>3, GiveIsGiven
  <1>7. ASSUME NEW i \in DOMAIN uids, uids[i] = uid PROVE AreMessages(Given, {i})
    <2>1. new \in Seq(Numbered)
        BY <1>5, <1>7 DEF new
    <2>2. {new[j].seq : j \in DOMAIN new} = {i}
        BY <1>3, <1>5, <1>7
    <2>3. \A j, k \in DOMAIN new : ~(j < k)
        BY <1>3
    <2>4. QED
        BY <1>6, <2>1, <2>2, <2>3 DEF AreMessages
  <1>8. QED
      BY <1>4, <1>6, <1>7 DEF new

(* A range of uids that is done has given what is wanted.                  *)
LEMMA UidStepExact ==
    ASSUME ExactInv, Next, RangeDone("MessageSetByUID")
    PROVE  /\ msgs' = msgs \o Given
           /\ IF Head(rest).max = NoMax /\ UidWanted(Head(rest)) = {}
              THEN Given = <<NoMessage>>
              ELSE AreMessages(Given, UidWanted(Head(rest)))
  <1> DEFINE r == Head(rest)
  <1>1. IndInv /\ WalkRight /\ OneRight
      BY DEF ExactInv
  <1>2. query.kind = "MessageSetByUID" /\ rest # <<>> /\ rest' = Tail(rest)
        /\ query.kind \in SetKinds
      BY DEF RangeDone, SetKinds
  <1>3. ASSUME Give(<<>>), r.max # NoMax, UidWanted(r) = {}
        PROVE  msgs' = msgs \o Given /\ AreMessages(Given, UidWanted(r))
      BY <1>1, <1>3, NoneIsRight
  <1>4. CASE bmsgByUID
    <2>1. /\ r.max = NoMax /\ (uid = r.min \/ (r.min = Last /\ uid = LastElement))
          /\ uids # <<>>
        BY <1>1, <1>2, <1>4 DEF bmsgByUID, IndInv, StepRight, RestRight
    <2>2. /\ uid \in Nat /\ Len(uids) \in DOMAIN uids /\ LastElement = uids[Len(uids)]
          /\ \A i, j \in DOMAIN uids : uids[i] = uids[j] => i = j
      <3>1. /\ uid \in Nat /\ Len(uids) \in DOMAIN uids /\ DOMAIN uids \subseteq Nat
            /\ \A i \in DOMAIN uids : uids[i] \in Nat
            /\ \A i, j \in DOMAIN uids : i < j => uids[i] < uids[j]
          BY <1>1, <2>1, ListFacts DEF IndInv
      <3>2. ASSUME NEW i \in DOMAIN uids, NEW j \in DOMAIN uids, uids[i] = uids[j] PROVE i = j
          BY <3>1, <3>2
      <3>3. QED
          BY <3>1, <3>2 DEF LastElement
    <2>3. UidWanted(r) = {n \in DOMAIN uids : uids[n] = uid}
      <3>1. CASE r.min = Last /\ uid = LastElement
        <4>1. UidWanted(r) = {n \in DOMAIN uids : n = Len(uids)}
            BY <3>1 DEF UidWanted
        <4>2. QED
            BY <2>2, <3>1, <4>1
      <3>2. CASE uid = r.min
        <4>1. r.min # Last
            BY <2>2, <3>2, MessageSetsAssumption
        <4>2. QED
            BY <2>1, <3>2, <4>1 DEF UidWanted
      <3>3. QED
          BY <2>1, <3>1, <3>2
    <2>4. CASE \A i \in DOMAIN uids : uids[i] # uid
        BY <1>1, <1>4, <2>1, <2>3, <2>4, OneIsRight
    <2>5. CASE \E i \in DOMAIN uids : uids[i] = uid
      <3>1. PICK i \in DOMAIN uids : uids[i] = uid
          BY <2>5
      <3>2. UidWanted(r) = {i}
          BY <2>2, <2>3, <3>1
      <3>3. AreMessages(Given, {i}) /\ msgs' = msgs \o Given
          BY <1>1, <1>4, <3>1, OneIsRight
      <3>4. QED
          BY <3>2, <3>3
    <2>6. QED
        BY <2>4, <2>5
  <1>5. CASE eachEnds
      BY <1>1, <1>2, <1>5, WalkIsRight DEF eachEnds, WalkRight
  <1>6. CASE bitmessagesSinceUID
    <2>1. /\ r.min \in Nat /\ uid = r.min /\ uids # <<>> /\ r.max = Last
          /\ getRange(r.min, LastElement, result) /\ FirstFrom(result, r.min)
        BY <1>1, <1>6, ResultFirst DEF bitmessagesSinceUID, IndInv, StepRight
    <2>2. r.min > LastElement /\ Give(<<>>)
        BY <1>1, <1>2, <2>1, RangeGivesNone
    <2>3. UidWanted(r) = {} /\ r.max # NoMax
        BY <1>1, <2>1, <2>2, OpenRange, MessageSetsAssumption
    <2>4. QED
        BY <1>3, <2>2, <2>3
  <1>7. CASE bitmessagesByUIDRange
    <2>1. /\ r.min \in Nat /\ r.max \in Nat /\ uids # <<>>
          /\ FirstFrom(startSeq, r.min) /\ FirstFrom(result, r.max)
        BY <1>1, <1>2, <1>7, ResultFirst
           DEF bitmessagesByUIDRange, IndInv, StepRight, RestRight, OneRight
    <2>2. r.max # NoMax
        BY <2>1, MessageSetsAssumption
    <2>3. CASE startSeq > result /\ Give(<<>>)
      <3>1. UidWanted(r) = {}
          BY <1>1, <2>1, <2>3, ClosedRange
      <3>2. QED
          BY <1>3, <2>2, <2>3, <3>1
    <2>4. CASE getRange(r.min, r.max, startSeq)
      <3>1. r.max # 0 /\ r.min > r.max /\ Give(<<>>)
          BY <1>1, <1>2, <2>4, RangeGivesNone
      <3>2. UidWanted(r) = {}
          BY <1>1, <2>1, <3>1, ClosedRange
      <3>3. QED
          BY <1>3, <2>2, <3>1, <3>2
    <2>5. QED
        BY <1>7, <2>3, <2>4 DEF bitmessagesByUIDRange
  <1>8. ~seqRange
      BY <1>2 DEF seqRange, OnRange
  <1>9. QED
      BY <1>1, <1>2, <1>4, <1>5, <1>6, <1>7, <1>8, WhoGives

(* A range of sequence numbers that is done has given the shifted ones.    *)
LEMMA SequenceStepExact ==
    ASSUME ExactInv, Next, RangeDone("MessageSetBySequenceNumber")
    PROVE  /\ msgs' = msgs \o Given
           /\ IF Head(rest).max = NoMax /\ SequenceGot(Head(rest)) = {}
              THEN Given = <<NoMessage>>
              ELSE AreMessages(Given, SequenceGot(Head(rest)))
  <1> DEFINE r == Head(rest)
             start == uids[r.min]
  <1>1. IndInv /\ WalkRight /\ OneRight
      BY DEF ExactInv
  <1>2. query.kind = "MessageSetBySequenceNumber" /\ rest # <<>> /\ rest' = Tail(rest)
        /\ query.kind \in SetKinds
      BY DEF RangeDone, SetKinds
  <1>3. /\ Len(uids) \in Nat /\ DOMAIN uids = 1..Len(uids) /\ uid \in Nat
        /\ \A i \in DOMAIN uids : uids[i] \in Nat /\ uids[i] > 0
        /\ \A i, j \in DOMAIN uids : i < j => uids[i] < uids[j]
        /\ LastElement = uids[Len(uids)]
      BY <1>1, ListFacts DEF IndInv, LastElement
  <1>4. CASE bmsgByUID
    <2>1. /\ r.max = NoMax /\ uids # <<>>
          /\ \/ r.min = Last /\ uid = LastElement
             \/ r.min \in DOMAIN uids /\ start \in DOMAIN uids /\ uid = uids[start]
        BY <1>1, <1>2, <1>4 DEF bmsgByUID, IndInv, OneRight, RestRight
    <2>2. PICK n \in DOMAIN uids : uid = uids[n] /\ SequenceGot(r) = {n}
      <3>1. CASE r.min = Last /\ uid = LastElement
        <4>1. Len(uids) \in DOMAIN uids
            BY <1>1, <2>1, ListFacts DEF IndInv
        <4>2. SequenceGot(r) = {k \in DOMAIN uids : k = Len(uids)}
            BY <2>1, <3>1 DEF SequenceGot
        <4>3. QED
            BY <1>3, <3>1, <4>1, <4>2
      <3>2. CASE r.min \in DOMAIN uids /\ start \in DOMAIN uids /\ uid = uids[start]
        <4>1. r.min # Last
            BY <1>3, <3>2, MessageSetsAssumption
        <4>2. SequenceGot(r) = {k \in DOMAIN uids : k = start}
            BY <2>1, <4>1 DEF SequenceGot
        <4>3. QED
            BY <3>2, <4>2
      <3>3. QED
          BY <2>1, <3>1, <3>2
    <2>3. QED
        BY <1>1, <1>4, <2>2, OneIsRight
  <1>5. CASE eachEnds
      BY <1>1, <1>2, <1>5, WalkIsRight DEF eachEnds, WalkRight
  <1>6. CASE seqRange
    <2>1. r.min \in DOMAIN uids /\ start \in Nat /\ start > 0 /\ uids # <<>> /\ r.min # Last
        BY <1>1, <1>2, <1>3, <1>6, MessageSetsAssumption
           DEF seqRange, OnRange, IndInv, RestRight
    <2>2. rest' # rest
        BY <1>1, <1>2, TailDiffers DEF IndInv, TypeOK
    <2>3. CASE r.max = NoMax /\ bitmessageBySequenceNumber(start)
      <3>1. start \notin DOMAIN uids /\ Give(<<NoMessage>>)
          BY <2>2, <2>3 DEF bitmessageBySequenceNumber
      <3>2. SequenceGot(r) = {}
          BY <2>1, <2>3, <3>1 DEF SequenceGot
      <3> DEFINE none == <<NoMessage>>
      <3>3. none \in Seq(Message \cup {NoMessage}) /\ Give(none)
          BY <3>1
      <3> HIDE DEF none
      <3>4. Given = none /\ msgs' = msgs \o Given
          BY <1>1, <3>3, GiveIsGiven
      <3>5. QED
          BY <2>3, <3>2, <3>4 DEF none
    <2>4. ASSUME start \in DOMAIN uids, getRange(uids[start], LastElement, start) PROVE FALSE
      <3>1. uids[start] > LastElement
          BY <1>1, <1>2, <2>4, RangeGivesNone
      <3>2. start = Len(uids) \/ start < Len(uids)
          BY <1>3, <2>4
      <3>3. Len(uids) \in DOMAIN uids
          BY <1>3, <2>4
      <3>4. QED
          BY <1>3, <2>4, <3>1, <3>2, <3>3
    <2>5. ASSUME r.max \in DOMAIN uids, start \in DOMAIN uids, start <= r.max,
                 getRange(uids[start], uids[r.max], start)
          PROVE  FALSE
      <3>1. uids[start] > uids[r.max]
          BY <1>1, <1>2, <2>5, RangeGivesNone
      <3>2. start = r.max \/ start < r.max
          BY <1>3, <2>5
      <3>3. QED
          BY <1>3, <2>5, <3>1, <3>2
    <2>6. CASE /\ r.max \in Nat \/ r.max = Last
               /\ start \notin DOMAIN uids \/ r.max \in Nat \ start..Len(uids)
               /\ Give(<<>>)
      <3>1. SequenceGot(r) = {} /\ r.max # NoMax
          BY <1>1, <2>1, <2>6, NumberStretch, MessageSetsAssumption
      <3>2. QED
          BY <1>1, <2>6, <3>1, NoneIsRight
    <2>7. QED
        BY <1>6, <2>3, <2>4, <2>5, <2>6 DEF seqRange
  <1>7. ~bitmessagesSinceUID /\ ~bitmessagesByUIDRange
      BY <1>1, <1>2 DEF bitmessagesSinceUID, bitmessagesByUIDRange, OneRight
  <1>8. QED
      BY <1>1, <1>2, <1>4, <1>5, <1>6, <1>7, WhoGives

(* The stronger invariant holds of every lookup.                           *)
LEMMA ExactInvariance == Spec => []ExactInv
  <1>1. Init => ExactInv
    <2>1. Init => WalkRight /\ OneRight
        BY DEF Init, WalkRight, OneRight
    <2>2. QED
        BY <2>1, InitStep DEF ExactInv
  <1>2. QED
      BY <1>1, ExactStep, PTL DEF Spec

(* A set of uid ranges gives exactly the messages in the ranges, in their  *)
(* order, for every mailbox and every set, mailbox.go 425-474.             *)
THEOREM UidSetsExact == Spec => UidRangesExact
  <1> DEFINE P == RangeDone("MessageSetByUID") =>
        /\ msgs' = msgs \o Given
        /\ IF Head(rest).max = NoMax /\ UidWanted(Head(rest)) = {}
           THEN Given = <<NoMessage>>
           ELSE AreMessages(Given, UidWanted(Head(rest)))
  <1>1. ExactInv /\ [Next]_vars => [P]_vars
      BY UidStepExact
  <1>2. QED
      BY ExactInvariance, <1>1, PTL DEF Spec, UidRangesExact

(* A set of ranges of sequence numbers gives the messages of the ranges    *)
(* shifted by the uids that are missing, for every mailbox and every set,  *)
(* mailbox.go 476-527.                                                     *)
THEOREM SequenceSetsShifted == Spec => SequenceRangesShifted
  <1> DEFINE P == RangeDone("MessageSetBySequenceNumber") =>
        /\ msgs' = msgs \o Given
        /\ IF Head(rest).max = NoMax /\ SequenceGot(Head(rest)) = {}
           THEN Given = <<NoMessage>>
           ELSE AreMessages(Given, SequenceGot(Head(rest)))
  <1>1. ExactInv /\ [Next]_vars => [P]_vars
      BY SequenceStepExact
  <1>2. QED
      BY ExactInvariance, <1>1, PTL DEF Spec, SequenceRangesShifted
=============================================================================
