---------------------------- MODULE BatchProofs ----------------------------
(***************************************************************************)
(* Batch for any number of clients, names, lengths and any Cap: the order  *)
(* of the results, the number of sub-calls at the backend, and what a      *)
(* freeze does to a batch.                                                 *)
(***************************************************************************)
EXTENDS Batch, FiniteSetTheorems, SequenceTheorems, TLAPS

Window == \A c \in Client : Len(sub[c]) - Len(collected[c]) <= Cap

\* Only names are sent to the backend.
NamesSent ==
    \A c \in Client : \A i \in 1 .. Len(sub[c]) : sub[c][i] = "backend" => items[c][i] \in Name

\* What the freeze history says of the sub-calls begun so far.
FreezeSeen ==
    \A c \in Client :
        /\ reply[c] = "pending" => IF isFrozen THEN c \in sawFrozen ELSE c \in sawThawed
        /\ \A i \in 1 .. Len(sub[c]) : sub[c][i] = "frozen" => c \in sawFrozen
        /\ c \notin sawThawed =>
              \A i \in 1 .. Len(sub[c]) : items[c][i] # NotString => sub[c][i] = "frozen"

BatchInv ==
    /\ BatchTypeOK /\ ResultsInOrder /\ Window /\ NamesSent
    /\ FreezeSeen /\ RefusedOnlyIfFrozen /\ FreezeHolds

LEMMA ListsAreSequences == \A l \in Lists : l \in Seq(Name \cup {NotString})
BY BatchAssumption DEF Lists

LEMMA BatchStarts == BatchInit => BatchInv
<1>. SUFFICES ASSUME BatchInit PROVE BatchInv
  OBVIOUS
<1>1. isFrozen \in BOOLEAN /\ \A c \in Client : reply[c] = "none"
  BY DEF BatchInit
<1>. QED
  BY <1>1, BatchAssumption
   DEF BatchInit, BatchInv, BatchTypeOK, ResultsInOrder, Window, NamesSent, FreezeSeen, RefusedOnlyIfFrozen,
       FreezeHolds, Finished, Replies

\* Every step keeps the invariant.
LEMMA BatchStepInv ==
    ASSUME BatchInv, [BatchNext]_batchVars
    PROVE  BatchInv'
<1>. USE BatchAssumption DEF BatchInv, BatchTypeOK, Finished, Replies
<1>1. ASSUME NEW c \in Client, Receive(c)
      PROVE  BatchInv'
  <2>1. PICK l \in Lists :
           /\ items' = [items EXCEPT ![c] = l]
           /\ reply' = [reply EXCEPT ![c] = IF l = <<>> THEN "results" ELSE "pending"]
    BY <1>1 DEF Receive
  <2>2. l \in Seq(Name \cup {NotString})
    BY ListsAreSequences
  <2>3. /\ sub'[c] = <<>> /\ collected'[c] = <<>> /\ items'[c] = l
        /\ IF isFrozen THEN c \in sawFrozen' ELSE c \in sawThawed'
        /\ \A d \in Client \ {c} :
              /\ sub'[d] = sub[d] /\ collected'[d] = collected[d] 
              /\ d \in sawFrozen' <=> d \in sawFrozen
              /\ d \in sawThawed' <=> d \in sawThawed
              /\ reply'[d] = reply[d] /\ items'[d] = items[d]
    BY <1>1, <2>1 DEF Receive
  <2>4. BatchTypeOK'
    BY <1>1, <2>1, <2>2 DEF Receive
  <2>5. ResultsInOrder' /\ Window' /\ NamesSent'
    BY <1>1, <2>3 DEF Receive, ResultsInOrder, Window, NamesSent
  <2>6. FreezeSeen'
    BY <1>1, <2>3 DEF Receive, FreezeSeen
  <2>7. RefusedOnlyIfFrozen'
    BY <1>1, <2>1, <2>3 DEF RefusedOnlyIfFrozen
  <2>8. FreezeHolds'
    BY <1>1, <2>1, <2>3 DEF FreezeHolds
  <2>. QED
    BY <2>4, <2>5, <2>6, <2>7, <2>8
<1>2. ASSUME NEW c \in Client, Pull(c)
      PROVE  BatchInv'
  <2>1. BatchTypeOK'
    BY <1>2 DEF Pull, Begun
  <2>2. ResultsInOrder'
    BY <1>2, SMTT(30) DEF Pull, Begun, ResultsInOrder
  <2>3. Window'
    BY <1>2 DEF Pull, Begun, Window
  <2>4. FreezeSeen'
    <3>1. PICK b : /\ sub' = [sub EXCEPT ![c] = Append(@, b)]
                   /\ b = Begun(items[c][Len(sub[c]) + 1])
      BY <1>2 DEF Pull
    <3>2. b \in Finished \cup {"backend"}
      BY <3>1 DEF Begun
    <3>3. /\ Len(sub'[c]) = Len(sub[c]) + 1
          /\ \A i \in 1 .. Len(sub[c]) : sub'[c][i] = sub[c][i]
          /\ sub'[c][Len(sub[c]) + 1] = b
      BY <3>1, <3>2, AppendProperties
    <3>4. IF isFrozen THEN c \in sawFrozen ELSE c \in sawThawed
      BY <1>2 DEF Pull, FreezeSeen
    <3>5. /\ b = "frozen" => isFrozen
          /\ items[c][Len(sub[c]) + 1] # NotString /\ isFrozen => b = "frozen"
      BY <3>1 DEF Begun
    <3>6. \A d \in Client \ {c} : sub'[d] = sub[d]
      BY <3>1
    <3>. QED
      BY <1>2, <3>3, <3>4, <3>5, <3>6 DEF Pull, FreezeSeen
  <2>5. RefusedOnlyIfFrozen'
    BY <1>2 DEF Pull, Begun, RefusedOnlyIfFrozen, FreezeSeen, ResultsInOrder
  <2>6. FreezeHolds'
    BY <1>2 DEF Pull, Begun, FreezeHolds, FreezeSeen, ResultsInOrder
  <2>7. NamesSent'
    BY <1>2 DEF Pull, Begun, NamesSent
  <2>. QED
    BY <2>1, <2>2, <2>3, <2>4, <2>5, <2>6, <2>7
<1>3. ASSUME NEW c \in Client, NEW i \in 1 .. MaxLen, Answer(c, i)
      PROVE  BatchInv'
  <2>1. PICK v \in {"ok", "error"} : sub' = [sub EXCEPT ![c] = [sub[c] EXCEPT ![i] = v]]
    BY <1>3 DEF Answer
  <2>2. i \in 1 .. Len(sub[c]) /\ sub[c][i] = "backend"
    BY <1>3 DEF Answer
  <2>3. /\ sub'[c] \in Seq(Finished \cup {"backend"})
        /\ Len(sub'[c]) = Len(sub[c])
        /\ \A j \in 1 .. Len(sub[c]) : sub'[c][j] = IF j = i THEN v ELSE sub[c][j]
    BY <2>1, <2>2, ExceptSeq
  <2>4. \A d \in Client \ {c} : sub'[d] = sub[d]
    BY <2>1
  <2>5. /\ cache' \subseteq Name
        /\ UNCHANGED <<isFrozen, items, collected, reply, sawFrozen, sawThawed>>
    <3>1. i \in DOMAIN items[c]
      BY <2>2
    <3>2. items[c][i] \in Name
      BY <2>2 DEF NamesSent
    <3>. QED
      BY <1>3, <3>1, <3>2 DEF Answer
  <2>6. BatchTypeOK'
    BY <2>1, <2>3, <2>4, <2>5
  <2>7. ResultsInOrder'
    <3>1. \A j \in 1 .. Len(collected[c]) : collected[c][j][2] \in Finished
      BY ElementOfSeq
    <3>2. \A j \in 1 .. Len(collected[c]) : j # i
      <4>1. \A j \in 1 .. Len(collected[c]) : collected[c][j][2] = sub[c][j]
        BY DEF ResultsInOrder
      <4>. QED
        BY <2>2, <3>1, <4>1
    <3>3. \A j \in 1 .. Len(collected[c]) : sub'[c][j] = sub[c][j]
      BY <2>3, <3>2
    <3>4. \A d \in Client : \A j \in 1 .. Len(collected[d]) : sub'[d][j] = sub[d][j]
      BY <2>4, <3>3
    <3>. QED
      BY <2>5, <3>4 DEF ResultsInOrder
  <2>8. Window' /\ NamesSent'
    BY <2>3, <2>4, <2>5 DEF Window, NamesSent
  <2>9. FreezeSeen'
    <3>1. items[c][i] \in Name
      BY <2>2 DEF NamesSent
    <3>2. c \in sawThawed
      BY <2>2, <3>1 DEF FreezeSeen
    <3>3. \A j \in 1 .. Len(sub'[c]) : sub'[c][j] = "frozen" => c \in sawFrozen
      BY <2>3 DEF FreezeSeen
    <3>. QED
      BY <2>4, <2>5, <3>2, <3>3 DEF FreezeSeen
  <2>10. RefusedOnlyIfFrozen' /\ FreezeHolds'
    BY <2>5 DEF RefusedOnlyIfFrozen, FreezeHolds
  <2>. QED
    BY <2>6, <2>7, <2>8, <2>9, <2>10
<1>4. ASSUME NEW c \in Client, Collect(c)
      PROVE  BatchInv'
  <2>1. BatchTypeOK'
    BY <1>4 DEF Collect
  <2>2. ResultsInOrder'
    BY <1>4, SMTT(30) DEF Collect, ResultsInOrder
  <2>3. Window'
    BY <1>4 DEF Collect, Window
  <2>4. FreezeSeen'
    BY <1>4 DEF Collect, FreezeSeen
  <2>5. RefusedOnlyIfFrozen'
    BY <1>4 DEF Collect, RefusedOnlyIfFrozen, FreezeSeen, ResultsInOrder
  <2>6. FreezeHolds'
    BY <1>4 DEF Collect, FreezeHolds, FreezeSeen, ResultsInOrder
  <2>7. NamesSent'
    BY <1>4 DEF Collect, NamesSent
  <2>. QED
    BY <2>1, <2>2, <2>3, <2>4, <2>5, <2>6, <2>7
<1>5. ASSUME NEW c \in Client, Reply(c)
      PROVE  BatchInv'
  <2>1. \A i \in 1 .. Len(collected[c]) :
           /\ i \in 1 .. Len(sub[c]) /\ i \in 1 .. Len(items[c])
           /\ collected[c][i][2] = sub[c][i]
    BY DEF ResultsInOrder
  <2>2. \A i \in 1 .. Len(items[c]) : i \in 1 .. Len(collected[c])
    BY <1>5 DEF Reply
  <2>3. Refuses(c) => c \in sawFrozen
    BY <2>1 DEF Refuses, FreezeSeen
  <2>4. ~ Refuses(c) /\ c \notin sawThawed =>
           \A i \in 1 .. Len(items[c]) : items[c][i] = NotString
    BY <2>1, <2>2 DEF Refuses, FreezeSeen
  <2>5. /\ UNCHANGED <<isFrozen, cache, items, sub, collected, sawFrozen, sawThawed>>
        /\ reply' = [reply EXCEPT ![c] = IF Refuses(c) THEN "refused" ELSE "results"]
    BY <1>5 DEF Reply
  <2>6. BatchTypeOK' /\ ResultsInOrder' /\ Window' /\ NamesSent' /\ FreezeSeen'
    BY <2>5 DEF ResultsInOrder, Window, NamesSent, FreezeSeen
  <2>7. RefusedOnlyIfFrozen'
    BY <2>3, <2>5 DEF RefusedOnlyIfFrozen
  <2>8. FreezeHolds'
    BY <2>4, <2>5 DEF FreezeHolds
  <2>. QED
    BY <2>6, <2>7, <2>8
<1>6. CASE FreezeOrThaw
  BY <1>6 DEF FreezeOrThaw, ResultsInOrder, Window, NamesSent, FreezeSeen, RefusedOnlyIfFrozen, FreezeHolds
<1>7. ASSUME NEW n \in Name, Forget(n)
      PROVE  BatchInv'
  BY <1>7 DEF Forget, ResultsInOrder, Window, NamesSent, FreezeSeen, RefusedOnlyIfFrozen, FreezeHolds
<1>8. CASE UNCHANGED batchVars
  BY <1>8 DEF batchVars, ResultsInOrder, Window, NamesSent, FreezeSeen, RefusedOnlyIfFrozen, FreezeHolds
<1>. QED
  BY <1>1, <1>2, <1>3, <1>4, <1>5, <1>6, <1>7, <1>8 DEF BatchNext, BatchStep

\* The inductive invariant of a batch: what is collected, what is under way, and what
\* the calls have seen of the freeze.
THEOREM BatchSafety == BatchSpec => []BatchInv
<1>1. BatchInv /\ [BatchNext]_batchVars => BatchInv'
  BY BatchStepInv
<1>. QED
  BY BatchStarts, <1>1, PTL DEF BatchSpec

\* A batch keeps the order of its names whatever order its sub-calls end in.
THEOREM BatchOrdered == BatchSpec => []ResultsInOrder
<1>1. BatchInv => ResultsInOrder
  BY DEF BatchInv
<1>. QED
  BY <1>1, BatchSafety, PTL

\* A batch is refused as a whole only if the scope was frozen at some moment of it:
\* no other failure of an element fails the batch.
THEOREM BatchRefusals == BatchSpec => []RefusedOnlyIfFrozen
<1>1. BatchInv => RefusedOnlyIfFrozen
  BY DEF BatchInv
<1>. QED
  BY <1>1, BatchSafety, PTL

\* A batch answers no name if the scope was frozen all the time.
THEOREM BatchFrozen == BatchSpec => []FreezeHolds
<1>1. BatchInv => FreezeHolds
  BY DEF BatchInv
<1>. QED
  BY <1>1, BatchSafety, PTL

\* No more than Cap sub-calls of a batch are at the backend: those that are lie
\* between the results collected so far and the end of the window.
THEOREM BatchLimited == BatchSpec => []AtMostCap
<1>1. BatchInv => AtMostCap
  <2>. SUFFICES ASSUME BatchInv, NEW c \in Client
                PROVE  Cardinality({i \in 1 .. Len(sub[c]) : sub[c][i] = "backend"}) <= Cap
    BY DEF AtMostCap
  <2>. DEFINE Sent == {i \in 1 .. Len(sub[c]) : sub[c][i] = "backend"}
              Open == (Len(collected[c]) + 1) .. Len(sub[c])
  <2>1. Len(sub[c]) \in Nat /\ Len(collected[c]) \in Nat /\ Len(collected[c]) <= Len(sub[c])
    BY DEF BatchInv, BatchTypeOK
  <2>2. \A i \in 1 .. Len(collected[c]) : sub[c][i] # "backend"
    <3>1. \A i \in 1 .. Len(collected[c]) : collected[c][i][2] \in Finished
      BY ElementOfSeq DEF BatchInv, BatchTypeOK
    <3>. QED
      BY <3>1 DEF BatchInv, ResultsInOrder, Finished
  <2>3. Sent \subseteq Open
    BY <2>1, <2>2
  <2>4. /\ IsFiniteSet(Open)
        /\ Cardinality(Open) = IF Len(collected[c]) + 1 > Len(sub[c]) THEN 0
                               ELSE Len(sub[c]) - (Len(collected[c]) + 1) + 1
    <3>1. Len(collected[c]) + 1 \in Int /\ Len(sub[c]) \in Int
      BY <2>1
    <3>. QED
      BY <3>1, FS_Interval, Zenon
  <2>5. IsFiniteSet(Sent) /\ Cardinality(Sent) <= Cardinality(Open)
    BY <2>3, <2>4, FS_Subset
  <2>6. Cardinality(Sent) \in Nat /\ Cardinality(Open) \in Nat
    BY <2>4, <2>5, FS_CardinalityType
  <2>7. Len(sub[c]) - Len(collected[c]) <= Cap
    BY DEF BatchInv, Window
  <2>. HIDE DEF Sent, Open
  <2>8. Cardinality(Open) <= Cap
    BY <2>1, <2>4, <2>7, BatchAssumption
  <2>9. Cardinality(Sent) <= Cap
    BY <2>5, <2>6, <2>8, BatchAssumption
  <2>. QED
    BY <2>9 DEF Sent
<1>. QED
  BY <1>1, BatchSafety, PTL

=============================================================================
