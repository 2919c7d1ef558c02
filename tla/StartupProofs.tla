--------------------------- MODULE StartupProofs ---------------------------
(***************************************************************************)
(* Startup for any number of processes and pids.  Every step of main() is  *)
(* a step of the lock or none (BootIsLock), so the invariants of the lock  *)
(* (PidLockProofs) hold of the whole life of the processes; what main()    *)
(* adds is how its stages go with those of the lock (BootTypeOK).          *)
(***************************************************************************)
EXTENDS Startup, PidLockProofs

LEMMA BootIsLock == [BootNext]_bootVars => [Next]_vars
BY DEF bootVars, BootNext, BootStep, Launch, Acquire, Load, Connect, List, Bind, Fail, Crash, World,
       Next, InstanceStep, vars, lockVars

LEMMA BootStarts == BootInit => LockInv /\ BootTypeOK /\ FileNamesLive
<1>1. BootInit => LockInv
  BY LockInit DEF BootInit
<1>2. BootInit => BootTypeOK
  BY <1>1, StartupAssumption
     DEF BootInit, Init, LockInv, BootTypeOK, Stages, Starting, Ended
<1>3. BootInit => FileNamesLive
  BY DEF BootInit, Init, FileNamesLive
<1>. QED
  BY <1>1, <1>2, <1>3

\* The stages of main() stay in step with those of the lock, and the port with both.
LEMMA BootTypeStep ==
    ASSUME BootTypeOK, TypeOK', BootNext
    PROVE  BootTypeOK'
<1>. USE StartupAssumption DEF BootTypeOK, Stages, Starting, Ended
<1>1. ASSUME NEW i \in Instance, Launch(i)
      PROVE  BootTypeOK'
  <2>1. CASE guarded
    BY <1>1, <2>1 DEF Launch, Start, worldVars, TypeOK
  <2>2. CASE ~ guarded
    BY <1>1, <2>2 DEF Launch, lockVars, worldVars
  <2>. QED
    BY <2>1, <2>2
<1>2. ASSUME NEW i \in Instance, Acquire(i)
      PROVE  BootTypeOK'
  <2>1. CASE boot[i] = "lock" /\ (PassCheck(i) \/ Create(i)) /\ UNCHANGED boot
    BY <1>2, <2>1 DEF Acquire, PassCheck, Create, worldVars, TypeOK
  <2>2. CASE Turns(i, "lock", "load") /\ WritePid(i)
    BY <1>2, <2>2 DEF Acquire, Turns, WritePid, worldVars, TypeOK
  <2>3. CASE Turns(i, "lock", "off") /\ (Refuse(i) \/ FailWrite(i))
    BY <1>2, <2>3 DEF Acquire, Turns, Refuse, FailWrite, Gone, worldVars, TypeOK
  <2>. QED
    BY <1>2, <2>1, <2>2, <2>3 DEF Acquire
<1>3. ASSUME NEW i \in Instance, Load(i) \/ Connect(i) \/ List(i)
      PROVE  BootTypeOK'
  BY <1>3 DEF Load, Connect, List, Turns, lockVars, worldVars
<1>4. ASSUME NEW i \in Instance, Bind(i)
      PROVE  BootTypeOK'
  BY <1>4 DEF Bind, Turns, lockVars, worldVars
<1>5. ASSUME NEW i \in Instance, Fail(i)
      PROVE  BootTypeOK'
  BY <1>5 DEF Fail, Failing, Exit, Gone, lockVars, worldVars, TypeOK
<1>6. ASSUME NEW i \in Instance, Crash(i)
      PROVE  BootTypeOK'
  BY <1>6 DEF Crash, Kill, Gone, lockVars, worldVars, TypeOK
<1>7. CASE World
  BY <1>7 DEF World, OtherStarts, OtherEnds, DiskChanges, lockVars
<1>. QED
  BY <1>1, <1>2, <1>3, <1>4, <1>5, <1>6, <1>7 DEF BootNext, BootStep

\* Whether starts overlap or not, the stages of main(), of its lock and of the port go
\* together: main.rs serves only with the port, and has the guard until it ends.
THEOREM StartupTypeCorrect == BootSpec => []BootTypeOK
<1>1. BootTypeOK /\ [BootNext]_bootVars => BootTypeOK'
  <2>. SUFFICES ASSUME BootTypeOK, [BootNext]_bootVars
                PROVE  BootTypeOK'
    OBVIOUS
  <2>1. TypeOK'
    BY BootIsLock, LockTypeStep DEF BootTypeOK
  <2>2. CASE BootNext
    BY <2>1, <2>2, BootTypeStep
  <2>3. CASE UNCHANGED bootVars
    BY <2>1, <2>3 DEF BootTypeOK, bootVars, lockVars, worldVars, Starting, Ended
  <2>. QED
    BY <2>2, <2>3
<1>. QED
  BY BootStarts, <1>1, PTL DEF BootSpec

\* A start is refused only while another instance runs, or a live process has been
\* given the number of a stale file: the file itself is no bar to a restart.
THEOREM RestartNotBarred == BootSpec => []RefusedOnlyIfRunning
<1>1. FileNamesLive /\ BootTypeOK /\ [BootNext]_bootVars => FileNamesLive'
  BY BootIsLock, FileNamesLiveStep DEF BootTypeOK
<1>2. FileNamesLive => RefusedOnlyIfRunning
  BY LiveFileIsRunning
<1>. QED
  BY BootStarts, StartupTypeCorrect, <1>1, <1>2, PTL DEF BootSpec

LEMMA BootKeepsLock == BootSpec => []LockInv
<1>1. LockInv /\ [BootNext]_bootVars => LockInv'
  BY BootIsLock, LockStep
<1>. QED
  BY BootStarts, <1>1, PTL DEF BootSpec

\* Unless two have started at a time, whoever is past the lock is the one the PID file
\* names, whatever step of main() fails, whenever processes are killed and whichever
\* pids they get; no refused, failing or killed start of another takes the file away.
THEOREM GuardOwnsFile == BootSpec => []GuardNamesOwner
<1>1. LockInv /\ BootTypeOK => GuardNamesOwner
  <2>. SUFFICES ASSUME LockInv, BootTypeOK, NEW i \in Instance,
                       guarded, ~ raced, ~ Ended(i), boot[i] # "lock"
                PROVE  file = pid[i]
    BY DEF GuardNamesOwner
  <2>1. pc[i] = "running"
    BY DEF BootTypeOK, TypeOK, Starting
  <2>. QED
    BY <2>1 DEF LockInv, Ordered, OwnsFile
<1>. QED
  BY BootKeepsLock, StartupTypeCorrect, <1>1, PTL

\* A PID file loses its owner only by a kill, or a start that cannot write its number.
LEMMA OrphanStep ==
    ASSUME BootTypeOK, BootNext, Orphan'
    PROVE  Orphan \/ \E i \in Instance : Crash(i) \/ FailWrite(i)
<1>. USE PidLockAssumption DEF Orphan, BootTypeOK
<1>1. ASSUME NEW i \in Instance, Launch(i)
      PROVE  Orphan
  BY <1>1 DEF Launch, Start, lockVars, TypeOK
<1>2. ASSUME NEW i \in Instance, Acquire(i), ~ FailWrite(i)
      PROVE  Orphan
  BY <1>2 DEF Acquire, PassCheck, Create, WritePid, Refuse, Gone, Becomes, TypeOK
<1>3. ASSUME NEW i \in Instance, Fail(i)
      PROVE  Orphan
  BY <1>3 DEF Fail, Exit, Gone, Becomes, lockVars
<1>4. ASSUME NEW i \in Instance, Load(i) \/ Connect(i) \/ List(i) \/ Bind(i)
      PROVE  Orphan
  BY <1>4 DEF Load, Connect, List, Bind, lockVars
<1>5. CASE World
  BY <1>5 DEF World, OtherStarts, OtherEnds, DiskChanges, lockVars
<1>. QED
  BY <1>1, <1>2, <1>3, <1>4, <1>5 DEF BootNext, BootStep

\* However far main() gets before it fails, the guard takes the PID file with it; only a
\* kill, or a start that fails before it has a guard, leaves one without an owner.
THEOREM FailuresLeaveNoFile == BootSpec => GuardTakesFile
<1>1. BootTypeOK /\ [BootNext]_bootVars
        => [Orphan' => Orphan \/ \E i \in Instance : Crash(i) \/ FailWrite(i)]_bootVars
  BY OrphanStep
<1>. QED
  BY StartupTypeCorrect, <1>1, PTL DEF BootSpec, GuardTakesFile

=============================================================================
