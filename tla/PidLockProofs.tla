--------------------------- MODULE PidLockProofs ---------------------------
(***************************************************************************)
(* PidLock for any number of instances and pids.  Until two instances      *)
(* start at a time the one that runs is the one the file names; and a live *)
(* process that the file names is that instance, or one that was given the *)
(* number of a dead one.                                                   *)
(***************************************************************************)
EXTENDS PidLock, TLAPS

LEMMA LockTypeStep ==
    ASSUME TypeOK, [Next]_vars
    PROVE  TypeOK'
<1>. USE PidLockAssumption DEF TypeOK, Alive
<1>1. ASSUME NEW i \in Instance, Start(i)
      PROVE  TypeOK'
  BY <1>1 DEF Start, GivesOut
<1>2. ASSUME NEW i \in Instance, InstanceStep(i) \/ Exit(i) \/ Kill(i)
      PROVE  TypeOK'
  <2>1. CASE Refuse(i) \/ FailWrite(i) \/ Kill(i)
    BY <2>1 DEF Refuse, FailWrite, Kill, Gone
  <2>2. CASE PassCheck(i) \/ Create(i) \/ WritePid(i)
    BY <2>2 DEF PassCheck, Create, WritePid, Becomes
  <2>3. CASE Exit(i)
    BY <2>3 DEF Exit, Gone, Becomes
  <2>. QED
    BY <1>2, <2>1, <2>2, <2>3 DEF InstanceStep
<1>3. CASE OtherStarts
  BY <1>3 DEF OtherStarts, GivesOut
<1>4. CASE OtherEnds
  BY <1>4 DEF OtherEnds
<1>5. CASE DiskChanges
  BY <1>5 DEF DiskChanges
<1>6. CASE UNCHANGED vars
  BY <1>6 DEF vars
<1>. QED
  BY <1>1, <1>2, <1>3, <1>4, <1>5, <1>6 DEF Next

\* A running instance is the one the file names.
OwnsFile == \A i \in Instance : pc[i] = "running" => file = pid[i]

\* One instance at a time is starting, ...
OneStarts == \A i, j \in Instance : Starting(i) /\ Starting(j) => i = j

\* ... and it passes the check only if none is running.
PassedAlone ==
    \A i, j \in Instance : pc[i] \in {"create", "write"} => pc[j] # "running"

Ordered == OwnsFile /\ OneStarts /\ PassedAlone

LockInv == TypeOK /\ (~ raced => Ordered)

LEMMA LockInit == Init => LockInv
BY DEF Init, LockInv, TypeOK, Ordered, OwnsFile, OneStarts, PassedAlone, Starting

\* Every step keeps the order that no race has broken; a start by which nobody is left
\* of those who raced finds it as at the beginning.
LEMMA LockStep ==
    ASSUME LockInv, [Next]_vars
    PROVE  LockInv'
<1>. SUFFICES ASSUME ~ raced' PROVE Ordered'
  BY LockTypeStep DEF LockInv
<1>. USE PidLockAssumption
     DEF LockInv, TypeOK, Ordered, OwnsFile, OneStarts, PassedAlone, Starting, Gone, Becomes
<1>1. ASSUME NEW i \in Instance, Start(i)
      PROVE  Ordered'
  <2>1. \A j \in Instance : ~ Starting(j) /\ ~ (raced /\ pc[j] # "off")
    BY <1>1 DEF Start
  <2>2. pc' = [pc EXCEPT ![i] = "check"] /\ UNCHANGED file /\ pc[i] = "off"
    BY <1>1 DEF Start
  <2>3. \A j \in Instance : j # i => pid'[j] = pid[j] /\ pc'[j] = pc[j]
    BY <1>1 DEF Start
  <2>. QED
    BY <2>1, <2>2, <2>3
<1>2. ASSUME NEW i \in Instance, Refuse(i) \/ FailWrite(i) \/ Kill(i)
      PROVE  Ordered'
  BY <1>2 DEF Refuse, FailWrite, Kill
<1>3. ASSUME NEW i \in Instance, PassCheck(i)
      PROVE  Ordered'
  <2>1. \A j \in Instance : pc[j] # "running"
    BY <1>3 DEF PassCheck, HeldByLiveProcess, Alive
  <2>. QED
    BY <1>3, <2>1 DEF PassCheck
<1>4. ASSUME NEW i \in Instance, Create(i)
      PROVE  Ordered'
  BY <1>4 DEF Create
<1>5. ASSUME NEW i \in Instance, WritePid(i)
      PROVE  Ordered'
  BY <1>5 DEF WritePid
<1>6. ASSUME NEW i \in Instance, Exit(i)
      PROVE  Ordered'
  <2>1. \A j \in Instance \ {i} : pc[j] # "running"
    BY <1>6 DEF Exit
  <2>. QED
    BY <1>6, <2>1 DEF Exit
<1>7. CASE OtherStarts \/ OtherEnds \/ DiskChanges
  BY <1>7 DEF OtherStarts, OtherEnds, DiskChanges
<1>8. CASE UNCHANGED vars
  BY <1>8 DEF vars
<1>. QED
  BY <1>1, <1>2, <1>3, <1>4, <1>5, <1>6, <1>7, <1>8 DEF Next, InstanceStep

\* A live process that the file names is the instance that wrote it, or has been given
\* the number of a dead one.
FileNamesLive ==
    file \in Alive \ {None} =>
        recycled \/ \E j \in Instance : pc[j] = "running" /\ pid[j] = file

LEMMA FileNamesLiveStep ==
    ASSUME TypeOK, FileNamesLive, [Next]_vars
    PROVE  FileNamesLive'
<1>. USE PidLockAssumption DEF TypeOK, FileNamesLive, Alive
<1>1. ASSUME NEW i \in Instance, Start(i)
      PROVE  FileNamesLive'
  <2>1. PICK p \in Pid : GivesOut(p) /\ pid' = [pid EXCEPT ![i] = p]
    BY <1>1 DEF Start
  <2>2. /\ UNCHANGED <<file, others>> /\ pc[i] = "off"
        /\ \A j \in Instance : j # i => pc'[j] = pc[j] /\ pid'[j] = pid[j]
    BY <1>1, <2>1 DEF Start
  <2>3. (recycled => recycled') /\ (file = p => recycled')
    BY <2>1 DEF GivesOut
  <2>4. file \in Alive' => file \in Alive \/ file = p
    BY <2>1, <2>2
  <2>. QED
    BY <2>2, <2>3, <2>4
<1>2. ASSUME NEW i \in Instance, Refuse(i) \/ FailWrite(i) \/ Kill(i)
      PROVE  FileNamesLive'
  <2>1. /\ pc' = [pc EXCEPT ![i] = "off"] /\ pid' = [pid EXCEPT ![i] = None]
        /\ UNCHANGED <<file, others, recycled>>
    BY <1>2 DEF Refuse, FailWrite, Kill, Gone
  <2>2. CASE file \in Alive' \ {None} /\ ~ recycled
    <3>1. PICK j \in Instance : pc[j] = "running" /\ pid[j] = file
      BY <2>1, <2>2
    <3>2. j # i
      BY <2>1, <2>2, <3>1
    <3>. QED
      BY <2>1, <3>1, <3>2
  <2>. QED
    BY <2>1, <2>2
<1>3. ASSUME NEW i \in Instance, PassCheck(i)
      PROVE  FileNamesLive'
  BY <1>3 DEF PassCheck
<1>4. ASSUME NEW i \in Instance, Create(i) \/ Exit(i)
      PROVE  FileNamesLive'
  BY <1>4 DEF Create, Exit, Gone, Becomes
<1>5. ASSUME NEW i \in Instance, WritePid(i)
      PROVE  FileNamesLive'
  BY <1>5 DEF WritePid, Becomes
<1>6. CASE OtherStarts
  <2>1. PICK p \in Pid : GivesOut(p) /\ others' = {p}
    BY <1>6 DEF OtherStarts
  <2>2. (recycled => recycled') /\ (file = p => recycled')
    BY <2>1 DEF GivesOut
  <2>. QED
    BY <1>6, <2>1, <2>2 DEF OtherStarts
<1>7. CASE OtherEnds \/ DiskChanges
  BY <1>7 DEF OtherEnds, DiskChanges
<1>8. CASE UNCHANGED vars
  BY <1>8 DEF vars
<1>. QED
  BY <1>1, <1>2, <1>3, <1>4, <1>5, <1>6, <1>7, <1>8 DEF Next, InstanceStep

\* Who finds the number of a live process in the file, and not one that was given out
\* again, finds a running instance.
LEMMA LiveFileIsRunning ==
    ASSUME FileNamesLive
    PROVE  RefusedOnlyIfRunning
BY DEF FileNamesLive, RefusedOnlyIfRunning, HeldByLiveProcess

=============================================================================
