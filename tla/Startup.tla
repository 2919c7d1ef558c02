------------------------------ MODULE Startup ------------------------------
(***************************************************************************)
(* The life of mcp-cache-ci processes, main() of mcp-cache-ci/src/main.rs: *)
(* the PID lock if --pid-file is given (module PidLock), configuration and *)
(* policy, the connection to the backend, its list of tools, the port, and *)
(* then axum::serve, which does not return.  Every step before that may    *)
(* fail; main returns then, and the guard's Drop removes the PID file.     *)
(* Processes are killed at any time, which is the only end of one that     *)
(* serves, and a supervisor starts some of them again.  Configuration,     *)
(* backend and the other users of the port are external.                   *)
(***************************************************************************)
EXTENDS PidLock

CONSTANTS
    Supervised, \* instances that are started again when they have ended
    Stranger    \* another program that uses the port

ASSUME StartupAssumption ==
    /\ Supervised \subseteq Instance
    /\ Stranger \notin Instance /\ None \notin Instance /\ Stranger # None

VARIABLES
    guarded,    \* --pid-file is given; in Docker it is not
    boot,       \* how far main() of each instance is, or how its last run has ended
    port,       \* who listens on bind_host:bind_port
    config,     \* external: configuration and policy can be read
    backend     \* external: the backend is up

lockVars  == <<file, pc, pid, others, disk, raced, recycled>>
worldVars == <<guarded, config, backend>>
bootVars  == <<lockVars, worldVars, boot, port>>

Stages == {"off", "killed", "lock", "load", "connect", "list", "bind", "serve"}

BootInit ==
    /\ Init
    /\ guarded \in BOOLEAN
    /\ boot = [i \in Instance |-> "off"]
    /\ port = None
    /\ config = TRUE /\ backend = TRUE

Ended(i) == boot[i] \in {"off", "killed"}

Turns(i, from, to) == boot[i] = from /\ boot' = [boot EXCEPT ![i] = to]

-----------------------------------------------------------------------------
(* main(): PidLock::acquire_optional ...                                     *)

Launch(i) ==
    /\ Ended(i)
    /\ IF guarded THEN boot' = [boot EXCEPT ![i] = "lock"] /\ Start(i)
                  ELSE boot' = [boot EXCEPT ![i] = "load"] /\ UNCHANGED lockVars
    /\ UNCHANGED <<worldVars, port>>

Acquire(i) ==
    /\ \/ boot[i] = "lock" /\ (PassCheck(i) \/ Create(i)) /\ UNCHANGED boot
       \/ Turns(i, "lock", "load") /\ WritePid(i)
       \/ Turns(i, "lock", "off") /\ (Refuse(i) \/ FailWrite(i))
    /\ UNCHANGED <<worldVars, port>>

\* ... then each step that can fail, ...
Load(i)    == Turns(i, "load", "connect") /\ config /\ UNCHANGED <<lockVars, worldVars, port>>
Connect(i) == Turns(i, "connect", "list") /\ backend /\ UNCHANGED <<lockVars, worldVars, port>>
List(i)    == Turns(i, "list", "bind") /\ backend /\ UNCHANGED <<lockVars, worldVars, port>>

\* Slip: the address is shared.
BindShared(i) ==
    /\ Turns(i, "bind", "serve")
    /\ port # Stranger /\ port' = i
    /\ UNCHANGED <<lockVars, worldVars>>

Bind(i) ==
    /\ Turns(i, "bind", "serve")
    /\ port = None /\ port' = i
    /\ UNCHANGED <<lockVars, worldVars>>

Failing(i) ==
    \/ boot[i] = "load" /\ ~ config
    \/ boot[i] \in {"connect", "list"} /\ ~ backend
    \/ boot[i] = "bind" /\ port # None

\* Slip: std::process::exit, which runs no Drop.
FailAtOnce(i) ==
    /\ Failing(i)
    /\ boot' = [boot EXCEPT ![i] = "off"]
    /\ IF guarded THEN Kill(i) ELSE UNCHANGED lockVars
    /\ UNCHANGED <<worldVars, port>>

\* ... in which case main returns and its locals, the guard among them, are dropped.
Fail(i) ==
    /\ Failing(i)
    /\ boot' = [boot EXCEPT ![i] = "off"]
    /\ IF guarded THEN Exit(i) ELSE UNCHANGED lockVars
    /\ UNCHANGED <<worldVars, port>>

BootStep(i) == Acquire(i) \/ Load(i) \/ Connect(i) \/ List(i) \/ Bind(i) \/ Fail(i)

-----------------------------------------------------------------------------
(* What happens to the processes.                                            *)

\* A signal: there is no handler for any, so no Drop runs.
Crash(i) ==
    /\ ~ Ended(i)
    /\ boot' = [boot EXCEPT ![i] = "killed"]
    /\ port' = IF port = i THEN None ELSE port
    /\ IF guarded THEN Kill(i) ELSE UNCHANGED lockVars
    /\ UNCHANGED worldVars

\* The configuration is edited, the backend goes down or comes up, the disk fills
\* or is emptied, another program takes the port or leaves it, processes start and
\* end.
World ==
    /\ \/ config' = ~ config /\ UNCHANGED <<lockVars, backend, port>>
       \/ backend' = ~ backend /\ UNCHANGED <<lockVars, config, port>>
       \/ /\ port \in {None, Stranger} /\ port' \in {None, Stranger} \ {port}
          /\ UNCHANGED <<lockVars, config, backend>>
       \/ (OtherStarts \/ OtherEnds \/ DiskChanges) /\ UNCHANGED <<config, backend, port>>
    /\ UNCHANGED <<guarded, boot>>

BootNext ==
    \/ \E i \in Instance : Launch(i) \/ BootStep(i) \/ Crash(i)
    \/ World

BootSpec == BootInit /\ [][BootNext]_bootVars

\* A process that is starting is scheduled, its requests to the backend end, and
\* the supervisor does its work.
FairBootSpec ==
    /\ BootSpec
    /\ \A i \in Instance : WF_bootVars(BootStep(i))
    /\ \A i \in Supervised : WF_bootVars(Launch(i))

-----------------------------------------------------------------------------

\* Type invariant; how the stages of main() go with those of the lock and with
\* the port.
BootTypeOK ==
    /\ TypeOK
    /\ guarded \in BOOLEAN /\ config \in BOOLEAN /\ backend \in BOOLEAN
    /\ boot \in [Instance -> Stages]
    /\ port \in Instance \cup {None, Stranger}
    /\ \A i \in Instance :
          /\ boot[i] = "serve" <=> port = i
          /\ boot[i] = "lock" <=> Starting(i)
          /\ pc[i] = "off" <=> Ended(i) \/ ~ guarded

\* Unless two have started at a time, whoever is past the lock is the one the PID
\* file names, as the next start needs to find it: no start of another instance that
\* is refused, fails or is killed takes the file away or puts its own number there
\* (pidlock.rs:24-25, 48, 53-57).
GuardNamesOwner ==
    \A i \in Instance :
        guarded /\ ~ raced /\ ~ Ended(i) /\ boot[i] # "lock" => file = pid[i]

\* A process that has the guard takes the PID file with it, however far main() gets
\* before it fails: a file loses its owner only when a process is killed, or by a
\* start that cannot write its number, before there is a guard (main.rs:67,
\* pidlock.rs:48, 53-57).
Orphan == file # None /\ \A i \in Instance : pc[i] \notin {"write", "running"}

GuardTakesFile ==
    [][Orphan' => Orphan \/ \E i \in Instance : Crash(i) \/ FailWrite(i)]_bootVars

\* After any number of kills, races, failed starts, outages and bad configurations the
\* supervised service comes up again and stays: nothing they leave behind (a stale
\* or empty PID file, a port, a half-made start) is in the way for ever.  That no live
\* process keeps the number of a stale file is assumed.
Calm ==
    /\ <>[](config /\ backend /\ disk /\ port # Stranger)
    /\ <>[](recycled => file \notin Alive)
    /\ <>[][\A i \in Instance : ~ Crash(i)]_bootVars

ServiceRecovers == Calm => <>[](port \in Instance)

=============================================================================
