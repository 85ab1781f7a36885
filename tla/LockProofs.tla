----------------------------- MODULE LockProofs -----------------------------
(***************************************************************************)
(* While starts do not overlap, the lock excludes: for any number of       *)
(* processes, whatever was left in the lock file, with crashes and failing *)
(* system calls.                                                           *)
(***************************************************************************)
EXTENDS Lock, TLAPS

\* What the place of a starting process says about the holders.
OneStarting ==
    \A p, q \in Processes : pc[p] \in Starting /\ pc[q] \in Starting => p = q

WriterIsNamed ==
    \A p \in Processes :
        pc[p] = "write" => lockFile = [creator |-> p, written |-> FALSE]

\* If there is a holder, it is the one the start has read.
ProbedTheHolder ==
    \A p, q \in Processes : pc[p] = "probe" /\ pc[q] = "holding" => seen[p] = q

RemoverMeetsNobody ==
    \A p, q \in Processes : pc[p] = "remove" => pc[q] # "holding"

\* A start is in a round the loop of Acquire still allows.
RoundsLeft ==
    \A p \in Processes : pc[p] \in Starting \cup {"off"} => attempt[p] < maxTakeoverAttempts

LockInv ==
    /\ TypeOK
    /\ RoundsLeft
    /\ OneStarting
    /\ HolderIsNamed
    /\ WriterIsNamed
    /\ ProbedTheHolder
    /\ RemoverMeetsNobody

LEMMA LockInit == Init => LockInv
  BY LockAssumption
  DEF Init, LockInv, TypeOK, OneStarting, HolderIsNamed, Holders, WriterIsNamed,
      ProbedTheHolder, RemoverMeetsNobody, RoundsLeft, Starting, Alive, LockFiles

LEMMA LockNext ==
    ASSUME Serial, LockInv, [Next]_vars
    PROVE  LockInv'
<1> USE LockAssumption
<1> USE DEF LockInv, TypeOK, OneStarting, HolderIsNamed, Holders, WriterIsNamed,
            ProbedTheHolder, RemoverMeetsNobody, RoundsLeft, Starting, Alive,
            LockFiles, Goto
<1>1. ASSUME NEW p \in Processes, Start(p) PROVE LockInv'
  <2>1. TypeOK'
    BY <1>1 DEF Start
  <2>2. OneStarting'
    BY <1>1 DEF Start
  <2>3. HolderIsNamed'
    BY <1>1 DEF Start
  <2>4. WriterIsNamed'
    BY <1>1 DEF Start
  <2>5. ProbedTheHolder'
    BY <1>1 DEF Start
  <2>6. RemoverMeetsNobody'
    BY <1>1 DEF Start
  <2>7. RoundsLeft'
    BY <1>1 DEF Start
  <2> QED
    BY <2>1, <2>2, <2>3, <2>4, <2>5, <2>6, <2>7
<1>2. ASSUME NEW p \in Processes, Create(p) PROVE LockInv'
  <2>1. CASE lockFile = None
    <3>1. pc[p] = "create"
      BY <1>2, <2>1 DEF Create
    <3>2. pc' = [pc EXCEPT ![p] = "write"]
      BY <1>2, <2>1 DEF Create
    <3>3. lockFile' = [creator |-> p, written |-> FALSE]
      BY <1>2, <2>1 DEF Create
    <3>4. lockFile' \in LockFiles
      BY <3>3
    <3>5. UNCHANGED <<attempt, seen>>
      BY <1>2, <2>1 DEF Create
    <3>6. TypeOK'
      BY <2>1, <3>1, <3>2, <3>3, <3>4, <3>5
    <3>7. OneStarting'
      BY <2>1, <3>1, <3>2, <3>3, <3>4, <3>5
    <3>8. HolderIsNamed'
      <4>1. ASSUME NEW q \in Processes PROVE pc[q] # "holding"
        <5>1. [creator |-> q, written |-> TRUE] \in LockFiles
          OBVIOUS
        <5> QED
          BY <2>1, <5>1
      <4> QED
        BY <3>1, <3>2, <4>1
    <3>9. WriterIsNamed'
      BY <2>1, <3>1, <3>2, <3>3, <3>4, <3>5
    <3>10. ProbedTheHolder'
      BY <2>1, <3>1, <3>2, <3>3, <3>4, <3>5
    <3>11. RemoverMeetsNobody'
      BY <2>1, <3>1, <3>2, <3>3, <3>4, <3>5
    <3>12. RoundsLeft'
      BY <2>1, <3>1, <3>2, <3>3, <3>4, <3>5
    <3> QED
      BY <3>6, <3>7, <3>8, <3>9, <3>10, <3>11, <3>12
  <2>2. CASE lockFile # None
    <3>1. pc[p] = "create"
      BY <1>2, <2>2 DEF Create
    <3>2. pc' = [pc EXCEPT ![p] = "read"]
      BY <1>2, <2>2 DEF Create
    <3>3. UNCHANGED <<lockFile, attempt, seen>>
      BY <1>2, <2>2 DEF Create
    <3>4. TypeOK'
      BY <2>2, <3>1, <3>2, <3>3
    <3>5. OneStarting'
      BY <2>2, <3>1, <3>2, <3>3
    <3>6. HolderIsNamed'
      BY <2>2, <3>1, <3>2, <3>3
    <3>7. WriterIsNamed'
      BY <2>2, <3>1, <3>2, <3>3
    <3>8. ProbedTheHolder'
      BY <2>2, <3>1, <3>2, <3>3
    <3>9. RemoverMeetsNobody'
      BY <2>2, <3>1, <3>2, <3>3
    <3>10. RoundsLeft'
      BY <2>2, <3>1, <3>2, <3>3
    <3> QED
      BY <3>4, <3>5, <3>6, <3>7, <3>8, <3>9, <3>10
  <2> QED
    BY <2>1, <2>2
<1>3. ASSUME NEW p \in Processes, Write(p) PROVE LockInv'
  <2>1. TypeOK'
    BY <1>3 DEF Write
  <2>2. OneStarting'
    BY <1>3 DEF Write
  <2>3. HolderIsNamed'
    <3>1. lockFile = [creator |-> p, written |-> FALSE]
      BY <1>3 DEF Write
    <3>2. lockFile # None /\ lockFile.creator = p
      <4>1. lockFile \in LockFiles
        BY <3>1
      <4> QED
        BY <3>1, <4>1
    <3>3. lockFile' = [lockFile EXCEPT !.written = TRUE]
      BY <1>3, <3>2 DEF Write
    <3>4. lockFile' = [creator |-> p, written |-> TRUE]
      BY <3>1, <3>3
    <3>5. \A q \in Processes : pc'[q] = "holding" => q = p
      BY <1>3, <3>1 DEF Write
    <3> QED
      BY <3>4, <3>5
  <2>4. WriterIsNamed'
    BY <1>3 DEF Write
  <2>5. ProbedTheHolder'
    BY <1>3 DEF Write
  <2>6. RemoverMeetsNobody'
    BY <1>3 DEF Write
  <2>7. RoundsLeft'
    BY <1>3 DEF Write
  <2> QED
    BY <2>1, <2>2, <2>3, <2>4, <2>5, <2>6, <2>7
<1>4. ASSUME NEW p \in Processes, WriteFails(p) PROVE LockInv'
  BY <1>4 DEF WriteFails
<1>5. ASSUME NEW p \in Processes, Read(p) PROVE LockInv'
  <2>1. TypeOK'
    BY <1>5 DEF Read, Again
  <2>2. OneStarting'
    BY <1>5 DEF Read, Again
  <2>3. HolderIsNamed'
    BY <1>5 DEF Read, Again
  <2>4. WriterIsNamed'
    BY <1>5 DEF Read, Again
  <2>5. ProbedTheHolder'
    BY <1>5 DEF Read, Again
  <2>6. RemoverMeetsNobody'
    BY <1>5 DEF Read, Again
  <2>7. RoundsLeft'
    BY <1>5 DEF Read, Again
  <2> QED
    BY <2>1, <2>2, <2>3, <2>4, <2>5, <2>6, <2>7
<1>6. ASSUME NEW p \in Processes, Probe(p) PROVE LockInv'
  BY <1>6 DEF Probe, IsAlive
<1>7. ASSUME NEW p \in Processes, ProbeFails(p) PROVE LockInv'
  BY <1>7 DEF ProbeFails
<1>8. ASSUME NEW p \in Processes, Remove(p) PROVE LockInv'
  <2>1. TypeOK'
    BY <1>8 DEF Remove, Again
  <2>2. OneStarting'
    BY <1>8 DEF Remove, Again
  <2>3. HolderIsNamed'
    BY <1>8 DEF Remove, Again
  <2>4. WriterIsNamed'
    BY <1>8 DEF Remove, Again
  <2>5. ProbedTheHolder'
    BY <1>8 DEF Remove, Again
  <2>6. RemoverMeetsNobody'
    BY <1>8 DEF Remove, Again
  <2>7. RoundsLeft'
    BY <1>8 DEF Remove, Again
  <2> QED
    BY <2>1, <2>2, <2>3, <2>4, <2>5, <2>6, <2>7
<1>9. ASSUME NEW p \in Processes, Release(p) PROVE LockInv'
  BY <1>9 DEF Release
<1>10. ASSUME NEW p \in Processes, Exit(p) PROVE LockInv'
  BY <1>10 DEF Exit
<1>11. ASSUME NEW p \in Processes, Crash(p) PROVE LockInv'
  BY <1>11 DEF Crash
<1>12. ASSUME NEW p \in Processes, CreateFails(p) PROVE LockInv'
  BY <1>12 DEF CreateFails
<1>13. CASE UNCHANGED vars
  BY <1>13 DEF vars
<1> QED
  BY <1>1, <1>2, <1>3, <1>4, <1>5, <1>6, <1>7, <1>8, <1>9, <1>10, <1>11, <1>12,
     <1>13
  DEF Next, AcquireStep, Finished

\* Acquire and Release: while starts do not overlap, the lock file names the live
\* holder, whatever crashed before and whatever a start finds.
THEOREM HolderAlwaysNamed == Serial /\ Spec => []HolderIsNamed
<1>1. CASE Serial
  <2>1. Init => LockInv
    BY LockInit
  <2>2. LockInv /\ [Next]_vars => LockInv'
    BY <1>1, LockNext
  <2>3. LockInv => HolderIsNamed
    BY DEF LockInv
  <2> QED
    BY <2>1, <2>2, <2>3, PTL DEF Spec
<1>2. CASE ~Serial
  BY <1>2
<1> QED
  BY <1>1, <1>2

\* One configuration file, one process, under the same condition.
THEOREM AtMostOneHolder == Serial /\ Spec => []OneHolder
<1>1. HolderIsNamed => OneHolder
  BY DEF HolderIsNamed, OneHolder
<1> QED
  BY <1>1, HolderAlwaysNamed, PTL
=============================================================================
