------------------------------ MODULE Backoff ------------------------------
(***************************************************************************)
(* internal/collector/backoff.go: the back-off record kept once per key    *)
(* and once per platform.  Times are logical seconds; the Go zero time,    *)
(* "may be collected at once", is 0.  The operators are pure: the module   *)
(* that owns the records applies them under the scheduler's mutex.         *)
(***************************************************************************)
EXTENDS Integers

CONSTANT
    None                        \* the nil pointer: here, no Retry-After header

\* A cap below zero, which Validate lets pass, puts the next try into the past.
Backoffs == [fails : Nat, next : Int, stopped : BOOLEAN]

\* &Backoff{}: never failed, eligible at once.  A map miss behaves the same.
ZeroBackoff == [fails |-> 0, next |-> 0, stopped |-> FALSE]

\* base * mult^pow, cut at maxS.  The Go loop leaves as soon as the product
\* reaches the cap, so d stays at the cap from there on.
BackoffDelay(base, mult, maxS, pow) ==
    LET d[i \in 0 .. pow] ==
            IF i = 0 THEN base
            ELSE IF d[i - 1] * mult >= maxS THEN maxS ELSE d[i - 1] * mult
    IN  IF d[pow] \in 0 .. maxS THEN d[pow] ELSE maxS

\* The delay before the next try grows with the failures in a row, up to the cap.
FailureDelay(b, base, mult, maxS) == BackoffDelay(base, mult, maxS, b.fails)

OnFailure(b, now, base, mult, maxS) ==
    [b EXCEPT !.fails = @ + 1,
              !.next = now + FailureDelay(b, base, mult, maxS)]

\* A 429 waits for Retry-After or, without the header, for the delay the last
\* failure set; the failure count stays.
RateLimitDelay(b, retryAfter, base, mult, maxS) ==
    IF retryAfter # None THEN retryAfter
    ELSE BackoffDelay(base, mult, maxS, IF b.fails > 0 THEN b.fails - 1 ELSE 0)

OnRateLimited(b, now, retryAfter, base, mult, maxS) ==
    [b EXCEPT !.next = now + RateLimitDelay(b, retryAfter, base, mult, maxS)]

\* Platform level: the platform recovered, open it at once.
OnSuccess(b) == [b EXCEPT !.fails = 0, !.next = 0]

\* Fault: a success opens the key at once.
OnSuccessNow(b, now, period) == [b EXCEPT !.fails = 0, !.next = 0]

\* Key level: the next request is due one key period later.
OnSuccessAt(b, now, period) == [b EXCEPT !.fails = 0, !.next = now + period]

Stop(b) == [b EXCEPT !.stopped = TRUE]

Eligible(b, now) == ~b.stopped /\ now >= b.next

=============================================================================
