---------------------------- MODULE MCScheduler ----------------------------
(***************************************************************************)
(* Small instances of Scheduler for TLC: two keys of one platform, one of  *)
(* another, two tokens that can be decrypted and one that cannot.          *)
(***************************************************************************)
EXTENDS Scheduler

CONSTANTS k1, k2, k3, p1, p2, t1, t2, lost, n1, n2, f1

\* k1 and k2 share a platform, k3 has its own.
Platform == [k \in Keys |-> IF k = k3 THEN p2 ELSE p1]

Def(t, e, n) == [token |-> t, enabled |-> e, name |-> n]

\* A configuration of k1 and k2.
Pair(d, e) == [k \in Keys |-> IF k = k1 THEN d ELSE IF k = k2 THEN e ELSE None]

On(t) == Def(t, TRUE, n1)

\* The saves a user makes: add and remove a key, change a token, rename, switch
\* off, and a token that key.bin does not decrypt.
PairConfigs ==
    { Pair(On(t1), None), Pair(On(t1), On(t1)), Pair(On(t2), On(t1)),
      Pair(Def(t1, TRUE, n2), On(t1)), Pair(Def(t1, FALSE, n1), On(t1)),
      Pair(On(lost), On(t1)) }

\* A renamed key, a key moved to another token beside a key of another platform.
FewConfigs ==
    { Pair(On(t1), On(t1)), Pair(Def(t1, TRUE, n2), On(t1)),
      [k \in Keys |-> IF k = k1 THEN On(t2) ELSE IF k = k3 THEN On(t1) ELSE None] }

Answer(status, fault, retry) == [status |-> status, fault |-> fault, retry |-> retry]

Plain(status) == Answer(status, None, None)

\* One answer of each way the scheduler goes on.
OneOfEachClass ==
    { Plain(200), Plain(401), Plain(429), Plain(404), Plain(502) }

\* The other way into each class; a Retry-After in the past.  The body of a
\* refusal does not matter.
ManyAnswers ==
    { Plain(206), Answer(403, f1, None), Answer(429, f1, -1), Answer(200, f1, None),
      Plain(0) }

NoFile == [k \in Keys |-> None]

PairFile == Pair([name |-> n1, data |-> t1, last |-> 0],
                 [name |-> n1, data |-> t1, last |-> 0])

PairFiles == {NoFile, PairFile}

NoFiles == {NoFile}
=============================================================================
