-------------------------------- MODULE Lock --------------------------------
(***************************************************************************)
(* internal/lock/lock.go: the single-instance lock.  Acquire creates the   *)
(* lock file exclusively, writes who it is, and takes over a file whose    *)
(* writer is dead; Release removes the file.  Every system call is a step. *)
(*                                                                         *)
(* A process stands for its pid and start time together, so a reused pid   *)
(* is another process (probeAlive compares the start times).               *)
(***************************************************************************)
EXTENDS Integers

CONSTANTS
    Processes,
    None,               \* no file, no process
    Serial,             \* environment: starts never overlap
    Faulty,             \* processes whose creating, writing and probing may fail;
                        \* where a file can be created it can be removed
    maxTakeoverAttempts

\* The creator None is a file left by a process before these.
LockFiles == [creator : Processes \cup {None}, written : BOOLEAN]

ASSUME LockAssumption ==
    /\ Serial \in BOOLEAN
    /\ Faulty \subseteq Processes
    /\ maxTakeoverAttempts \in Nat \ {0}
    /\ None \notin Processes \cup LockFiles

VARIABLES
    lockFile,           \* None, or who created it and whether it is written
    pc,                 \* process -> where it stands
    attempt,            \* process -> its round in the loop of Acquire
    seen                \* process -> whom it read in the lock file

vars == <<lockFile, pc, attempt, seen>>

Starting == {"create", "write", "read", "probe", "remove"}

Alive == Starting \cup {"holding", "released"}

TypeOK ==
    /\ lockFile \in LockFiles \cup {None}
    /\ pc \in [Processes -> Alive \cup {"off", "refused", "failed", "gone"}]
    /\ attempt \in [Processes -> 0 .. maxTakeoverAttempts]
    /\ seen \in [Processes -> Processes \cup {None}]

\* Nothing, an empty file or the whole file of a process that is no more.
Init ==
    /\ lockFile \in {None} \cup [creator : {None}, written : BOOLEAN]
    /\ pc = [p \in Processes |-> "off"]
    /\ attempt = [p \in Processes |-> 0]
    /\ seen = [p \in Processes |-> None]

Goto(p, place) == pc' = [pc EXCEPT ![p] = place]

Start(p) ==
    /\ pc[p] = "off"
    /\ Serial => \A q \in Processes : pc[q] \notin Starting
    /\ Goto(p, "create")
    /\ UNCHANGED <<lockFile, attempt, seen>>

\* The next round, or the end of the attempts.
Again(p) ==
    /\ attempt' = [attempt EXCEPT ![p] = @ + 1]
    /\ Goto(p, IF attempt[p] + 1 < maxTakeoverAttempts THEN "create" ELSE "failed")

\* O_CREATE|O_EXCL.
Create(p) ==
    /\ pc[p] = "create"
    /\ IF lockFile = None
       THEN /\ lockFile' = [creator |-> p, written |-> FALSE]
            /\ Goto(p, "write")
       ELSE /\ lockFile' = lockFile
            /\ Goto(p, "read")
    /\ UNCHANGED <<attempt, seen>>

CreateFails(p) ==
    /\ p \in Faulty
    /\ pc[p] = "create"
    /\ Goto(p, "failed")
    /\ UNCHANGED <<lockFile, attempt, seen>>

\* The write goes to the file p created, also when somebody has removed it.
Write(p) ==
    /\ pc[p] = "write"
    /\ lockFile' = IF lockFile # None /\ lockFile.creator = p
                   THEN [lockFile EXCEPT !.written = TRUE]
                   ELSE lockFile
    /\ Goto(p, "holding")
    /\ UNCHANGED <<attempt, seen>>

WriteFails(p) ==
    /\ p \in Faulty
    /\ pc[p] = "write"
    /\ lockFile' = None
    /\ Goto(p, "failed")
    /\ UNCHANGED <<attempt, seen>>

\* Gone again: next round.  Not readable as JSON: treated as left behind.
Read(p) ==
    /\ pc[p] = "read"
    /\ IF lockFile = None
       THEN Again(p) /\ seen' = seen
       ELSE /\ Goto(p, IF lockFile.written THEN "probe" ELSE "remove")
            /\ seen' = [seen EXCEPT ![p] = lockFile.creator]
            /\ attempt' = attempt
    /\ lockFile' = lockFile

\* Fault: the writer of the file is never looked up.
NobodyAlive(q) == FALSE

IsAlive(q) == q # None /\ pc[q] \in Alive

Probe(p) ==
    /\ pc[p] = "probe"
    /\ Goto(p, IF IsAlive(seen[p]) THEN "refused" ELSE "remove")
    /\ UNCHANGED <<lockFile, attempt, seen>>

\* A probe that fails counts as a live holder.
ProbeFails(p) ==
    /\ p \in Faulty
    /\ pc[p] = "probe"
    /\ Goto(p, "refused")
    /\ UNCHANGED <<lockFile, attempt, seen>>

\* Fault: the file left behind stays.
RemoveNothing(p) ==
    /\ pc[p] = "remove"
    /\ lockFile' = lockFile
    /\ Again(p)
    /\ seen' = seen

\* os.Remove of the path, whoever's file is there by now.
Remove(p) ==
    /\ pc[p] = "remove"
    /\ lockFile' = None
    /\ Again(p)
    /\ seen' = seen

Release(p) ==
    /\ pc[p] = "holding"
    /\ lockFile' = None
    /\ Goto(p, "released")
    /\ UNCHANGED <<attempt, seen>>

Exit(p) ==
    /\ pc[p] = "released"
    /\ Goto(p, "gone")
    /\ UNCHANGED <<lockFile, attempt, seen>>

Crash(p) ==
    /\ pc[p] \in Alive
    /\ Goto(p, "gone")
    /\ UNCHANGED <<lockFile, attempt, seen>>

\* Every process has come and gone.
Finished ==
    /\ \A p \in Processes : pc[p] \in {"refused", "failed", "gone"}
    /\ UNCHANGED vars

AcquireStep(p) == Create(p) \/ Write(p) \/ Read(p) \/ Probe(p) \/ Remove(p)

Next ==
    \/ \E p \in Processes :
         \/ Start(p) \/ AcquireStep(p) \/ CreateFails(p) \/ WriteFails(p) \/ ProbeFails(p)
         \/ Release(p) \/ Exit(p) \/ Crash(p)
    \/ Finished

\* A process that has begun Acquire goes on with it.
Fairness == \A p \in Processes : WF_vars(AcquireStep(p))

Spec == Init /\ [][Next]_vars

FairSpec == Spec /\ Fairness

-----------------------------------------------------------------------------
Holders == {p \in Processes : pc[p] = "holding"}

\* One configuration file, one process.
OneHolder == \A p, q \in Holders : p = q

\* The file of a live holder stays in place, naming it: later starts are refused.
HolderIsNamed ==
    \A p \in Holders : lockFile = [creator |-> p, written |-> TRUE]

\* A crash never locks a configuration out: a start that meets no live process,
\* only what dead ones have left, gets the lock as long as its own calls work.
Alone(p) == \A q \in Processes \ {p} : pc[q] \notin Alive

StaleIsTakenOver ==
    \A p \in Processes \ Faulty :
        (pc[p] = "create" /\ Alone(p)) ~> (p \in Holders \/ pc[p] = "gone")
=============================================================================
