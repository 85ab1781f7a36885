----------------------------- MODULE MCCadence -----------------------------
(***************************************************************************)
(* Instances of Cadence for TLC: one key of platform p2 before three keys  *)
(* of p1 in the list of the configuration.  A second has three units.      *)
(***************************************************************************)
EXTENDS Cadence

CONSTANTS b1, a1, a2, a3, p1, p2

Platform == [k \in Keys |-> IF k = b1 THEN p2 ELSE p1]

Order == [k \in Keys |->
    CASE k = b1 -> 1 [] k = a1 -> 2 [] k = a2 -> 3 [] OTHER -> 4]

Setting(interval, jitter, stagger, latency, outcomes) ==
    [interval |-> interval, jitter |-> jitter, stagger |-> stagger,
     latency |-> latency, outcomes |-> outcomes]

Mixed == {"ok", "platform_error"}

\* The staggers of the keys before and one request fit into the smallest jitter.
Margin == Setting(5, 4 .. 5, 0 .. 1, 0 .. 2, {"ok"})

\* They do not: as with the default 5..25 s jitter, 1..5 s stagger and a handful
\* of keys.
Tight == Setting(5, 0 .. 1, 0 .. 1, 0 .. 2, {"ok"})

\* Every mixture of successes and platform failures.
Failing == Setting(11, {1}, 0 .. 1, 0 .. 1, Mixed)

\* Requests longer than a key's share of the interval.
Slow == Setting(5, 0 .. 1, {0}, {0, 6}, {"ok"})

\* Two seconds for three keys: a key's place is no whole second, and the last
\* key's KeyPeriod ends after the interval.
Crowded ==
    {Setting(2, 5 .. 6, 0 .. 1, 0 .. 1, {"ok"}), Setting(2, 0 .. 1, {0}, 0 .. 1, {"ok"}),
     Setting(2, 0 .. 1, {0}, 0 .. 1, Mixed)}

EverySetting == {Margin, Tight, Failing, Slow} \cup Crowded
=============================================================================
