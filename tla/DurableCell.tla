----------------------------- MODULE DurableCell -----------------------------
(***************************************************************************)
(* What persist.CacheWriter promises to its callers: of the contents given *)
(* to it, numbered in order, the medium holds one; it is replaced as a     *)
(* whole, by a newer one, and a new process goes on from what is stored.   *)
(***************************************************************************)
EXTENDS Integers

VARIABLES
    given,              \* the newest content handed over
    stored              \* the content on the medium

Init ==
    /\ given = 0
    /\ stored = 0

Give ==
    /\ given' = given + 1
    /\ stored' = stored

\* Any content given since may come next; those between are skipped.
Store ==
    /\ stored' \in stored + 1 .. given
    /\ given' = given

\* What was given and not stored is lost with the process.
Lose ==
    /\ given' = stored
    /\ stored' = stored

Next == Give \/ Store \/ Lose

Spec == Init /\ [][Next]_<<given, stored>>
=============================================================================
