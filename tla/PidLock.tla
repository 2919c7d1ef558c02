------------------------------ MODULE PidLock ------------------------------
(***************************************************************************)
(* The singleton lock of mcp-cache-ci/src/pidlock.rs: a file with the pid  *)
(* of its owner.  Instances are started and killed at any time, two at a   *)
(* time as well, the file may be impossible to write, and the operating    *)
(* system gives the pid of a dead process to another one.                  *)
(***************************************************************************)
EXTENDS Naturals

CONSTANTS
    Instance,   \* processes of mcp-cache-ci, started again and again
    Pid,        \* process numbers
    None,       \* absence of a value: no file, no pid
    Empty       \* a file with no number in it, or with part of one that is nobody's

ASSUME PidLockAssumption == None \notin Pid /\ Empty \notin Pid

VARIABLES
    file,       \* contents of the PID file
    pc,         \* what each instance is doing
    pid,        \* its process number
    others,     \* pids of other live processes
    disk,       \* external: the PID file can be written
    raced,      \* history: of the instances that live, two have started at a time
    recycled    \* history: the number in the file was given to another process

vars == <<file, pc, pid, others, disk, raced, recycled>>

Alive == {pid[i] : i \in Instance} \cup others
Starting(i) == pc[i] \in {"check", "create", "write"}

Init ==
    /\ file = None
    /\ pc = [i \in Instance |-> "off"]
    /\ pid = [i \in Instance |-> None]
    /\ others = {}
    /\ disk = TRUE
    /\ raced = FALSE /\ recycled = FALSE

\* The system gives out any free number, that of a stale file included.
GivesOut(p) ==
    /\ p \in Pid \ Alive
    /\ recycled' = (recycled \/ file = p)

Start(i) ==
    /\ pc[i] = "off"
    /\ \E p \in Pid : GivesOut(p) /\ pid' = [pid EXCEPT ![i] = p]
    /\ pc' = [pc EXCEPT ![i] = "check"]
    /\ raced' = \E j \in Instance : Starting(j) \/ (raced /\ pc[j] # "off")
    /\ UNCHANGED <<file, others, disk>>

\* Slip: every file counts.
HeldByAnyFile == file # None

\* is_process_alive of the number in the file, whoever has it now.
HeldByLiveProcess == file \in Alive \ {None}

Gone(i) ==
    /\ pc' = [pc EXCEPT ![i] = "off"]
    /\ pid' = [pid EXCEPT ![i] = None]
    /\ UNCHANGED <<others, disk, raced>>

\* The file is written or removed.
Becomes(content) == file' = content /\ recycled' = FALSE

\* Slip: the guard is built before the check, so a refusal drops it.
RefuseDropsGuard(i) ==
    /\ pc[i] = "check"
    /\ HeldByLiveProcess
    /\ Gone(i) /\ Becomes(None)

\* The file is there and its process is alive: the start is refused.
Refuse(i) ==
    /\ pc[i] = "check"
    /\ HeldByLiveProcess
    /\ Gone(i) /\ UNCHANGED <<file, recycled>>

\* No file, no number in it, or the number of a dead process.
PassCheck(i) ==
    /\ pc[i] = "check"
    /\ ~ HeldByLiveProcess
    /\ pc' = [pc EXCEPT ![i] = "create"]
    /\ UNCHANGED <<file, pid, others, disk, raced, recycled>>

\* fs::write creates or truncates the file, ...
Create(i) ==
    /\ pc[i] = "create"
    /\ Becomes(Empty)
    /\ pc' = [pc EXCEPT ![i] = "write"]
    /\ UNCHANGED <<pid, others, disk, raced>>

\* ... then writes the number.
WritePid(i) ==
    /\ pc[i] = "write" /\ disk
    /\ Becomes(pid[i])
    /\ pc' = [pc EXCEPT ![i] = "running"]
    /\ UNCHANGED <<pid, others, disk, raced>>

\* Either half may fail; no guard has been built then, and the file stays as it is.
FailWrite(i) ==
    /\ pc[i] \in {"create", "write"} /\ ~ disk
    /\ Gone(i) /\ UNCHANGED <<file, recycled>>

\* main returns, at the latest when the server stops: the guard's Drop removes
\* the file, whatever is in it.
Exit(i) ==
    /\ pc[i] = "running"
    /\ Gone(i) /\ Becomes(None)

\* A kill runs no Drop.
Kill(i) ==
    /\ pc[i] # "off"
    /\ Gone(i) /\ UNCHANGED <<file, recycled>>

\* Other programs matter by their number only; one at a time stands for them.
OtherStarts ==
    /\ others = {}
    /\ \E p \in Pid : GivesOut(p) /\ others' = {p}
    /\ UNCHANGED <<file, pc, pid, disk, raced>>

OtherEnds ==
    /\ others # {} /\ others' = {}
    /\ UNCHANGED <<file, pc, pid, disk, raced, recycled>>

DiskChanges ==
    /\ disk' = ~ disk
    /\ UNCHANGED <<file, pc, pid, others, raced, recycled>>

InstanceStep(i) == Refuse(i) \/ PassCheck(i) \/ Create(i) \/ WritePid(i) \/ FailWrite(i)

Next ==
    \/ \E i \in Instance : Start(i) \/ InstanceStep(i) \/ Exit(i) \/ Kill(i)
    \/ OtherStarts
    \/ OtherEnds
    \/ DiskChanges

Spec == Init /\ [][Next]_vars

-----------------------------------------------------------------------------

\* Type invariant; a process has a number as long as it lives, of its own.
TypeOK ==
    /\ file \in Pid \cup {None, Empty}
    /\ pc \in [Instance -> {"off", "check", "create", "write", "running"}]
    /\ pid \in [Instance -> Pid \cup {None}]
    /\ others \subseteq Pid
    /\ disk \in BOOLEAN /\ raced \in BOOLEAN /\ recycled \in BOOLEAN
    /\ \A i \in Instance : /\ pid[i] = None <=> pc[i] = "off"
                           /\ pid[i] \notin others
                           /\ \A j \in Instance \ {i} : pid[i] = pid[j] => pid[i] = None

\* The lock is there because "a race may start a second instance" (pidlock.rs:4-5): at
\* most one gets past it.
MutualExclusion ==
    \A i, j \in Instance : pc[i] = "running" /\ pc[j] = "running" => i = j

\* A start is refused only while another instance runs, or a live process has been
\* given the number of a stale file: a file whose owner is dead, or that has no number
\* in it, is itself no bar to a restart (pidlock.rs:24-25).
RefusedOnlyIfRunning ==
    \A i \in Instance : pc[i] = "check" /\ HeldByLiveProcess =>
        recycled \/ \E j \in Instance \ {i} : pc[j] = "running" /\ pid[j] = file

=============================================================================
