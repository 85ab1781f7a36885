------------------------------- MODULE Login -------------------------------
(***************************************************************************)
(* internal/server: the login limiter (ratelimit.go), the sessions         *)
(* (session.go, crypto/session.go) and the handlers that use them          *)
(* (handleLogin, handleLogout and checkSession of server.go).              *)
(*                                                                         *)
(* Requests run concurrently; every step is one critical section of the    *)
(* limiter's or the sessions' mutex.  Between them lie the comparison of   *)
(* the password, which is slow on purpose, and the check of a signature.   *)
(* A cookie cannot be made without the key and survives a restart; the     *)
(* limiter and the list of logged-out sessions do not.                     *)
(***************************************************************************)
EXTENDS Integers, FiniteSets

CONSTANTS
    Handlers,           \* requests that may be under way together
    Sids,               \* session ids
    None,               \* no request, no cookie, not on the list
    MaxLoginFails,
    LoginLockTime,
    SessionTTL,
    MaxTime             \* bound: the last instant modelled

ASSUME LoginAssumption ==
    /\ IsFiniteSet(Handlers)
    /\ MaxLoginFails \in Nat \ {0}
    /\ LoginLockTime \in Nat \ {0}
    /\ SessionTTL \in Nat \ {0}
    /\ MaxTime \in Nat
    /\ None \notin Nat

\* A login on its way, or a request that brings the cookie of a session.
Request ==
    [phase : {"allowed", "succeeded"}, sid : {None}]
        \cup [phase : {"verified", "admitted"}, sid : Sids]

ASSUME RequestNotNone == None \notin Request

VARIABLES
    fails,              \* l.fails
    lockedUntil,        \* l.lockedUntil; 0 is the zero time
    rejected,           \* s.rejected: sid -> its expiry, or None
    cookies,            \* sid -> the expiry its cookie carries, None if not issued
    req,                \* handler -> its request, or None
    now,                \* the clock, later than the zero time
    loggedOut           \* history: the sessions logged out since the start

vars == <<fails, lockedUntil, rejected, cookies, req, now, loggedOut>>

TypeOK ==
    /\ fails \in Nat
    /\ lockedUntil \in Nat
    /\ rejected \in [Sids -> Nat \cup {None}]
    /\ cookies \in [Sids -> Nat \cup {None}]
    /\ req \in [Handlers -> Request \cup {None}]
    /\ now \in Nat \ {0}
    /\ loggedOut \subseteq Sids

Init ==
    /\ fails = 0
    /\ lockedUntil = 0
    /\ rejected = [s \in Sids |-> None]
    /\ cookies = [s \in Sids |-> None]
    /\ req = [h \in Handlers |-> None]
    /\ now = 1
    /\ loggedOut = {}

Stands(h, phase) == req[h] # None /\ req[h].phase = phase

Goto(h, phase, sid) == req' = [req EXCEPT ![h] = [phase |-> phase, sid |-> sid]]

Answer(h) == req' = [req EXCEPT ![h] = None]

-----------------------------------------------------------------------------
(* handleLogin.  A request that Allow refuses changes nothing.             *)

\* Fault: the count outlives the lock.
AllowKeepingCount ==
    /\ lockedUntil = 0 \/ now >= lockedUntil
    /\ fails' = fails
    /\ lockedUntil' = 0

\* Fault: the lock is not asked for.
AllowAlways == fails' = fails /\ lockedUntil' = lockedUntil

\* A lock that has run out is taken back with its count.
Allow ==
    \/ /\ lockedUntil = 0
       /\ UNCHANGED <<fails, lockedUntil>>
    \/ /\ lockedUntil # 0
       /\ now >= lockedUntil
       /\ fails' = 0
       /\ lockedUntil' = 0

LoginAllowed(h) ==
    /\ req[h] = None
    /\ Allow
    /\ Goto(h, "allowed", None)
    /\ UNCHANGED <<rejected, cookies, now, loggedOut>>

BadBody(h) ==
    /\ Stands(h, "allowed")
    /\ Answer(h)
    /\ UNCHANGED <<fails, lockedUntil, rejected, cookies, now, loggedOut>>

\* Counted, also while the lock is on; from the limit on it locks anew.
Fail ==
    /\ fails' = fails + 1
    /\ lockedUntil' = IF fails' >= MaxLoginFails THEN now + LoginLockTime ELSE lockedUntil

WrongPassword(h) ==
    /\ Stands(h, "allowed")
    /\ Fail
    /\ Answer(h)
    /\ UNCHANGED <<rejected, cookies, now, loggedOut>>

\* Success: count and lock are cleared.
RightPassword(h) ==
    /\ Stands(h, "allowed")
    /\ fails' = 0
    /\ lockedUntil' = 0
    /\ Goto(h, "succeeded", None)
    /\ UNCHANGED <<rejected, cookies, now, loggedOut>>

\* Issue: a fresh id; or there is no randomness for one.
Issue(h) ==
    /\ Stands(h, "succeeded")
    /\ \/ \E s \in Sids :
              /\ cookies[s] = None
              /\ cookies' = [cookies EXCEPT ![s] = now + SessionTTL]
       \/ cookies' = cookies
    /\ Answer(h)
    /\ UNCHANGED <<fails, lockedUntil, rejected, now, loggedOut>>

-----------------------------------------------------------------------------
(* checkSession and handleLogout: first the signature and the expiry, then *)
(* the list.                                                               *)

\* Verify; a cookie it refuses changes nothing.
Verify(h) ==
    /\ req[h] = None
    /\ \E s \in Sids :
         /\ cookies[s] # None
         /\ now < cookies[s]
         /\ Goto(h, "verified", s)
    /\ UNCHANGED <<fails, lockedUntil, rejected, cookies, now, loggedOut>>

\* Revoked: on the list or not.
Check(h) ==
    /\ Stands(h, "verified")
    /\ IF rejected[req[h].sid] = None
       THEN Goto(h, "admitted", req[h].sid)
       ELSE Answer(h)
    /\ UNCHANGED <<fails, lockedUntil, rejected, cookies, now, loggedOut>>

\* The handler behind the check is done.
Done(h) ==
    /\ Stands(h, "admitted")
    /\ Answer(h)
    /\ UNCHANGED <<fails, lockedUntil, rejected, cookies, now, loggedOut>>

\* Fault: a session leaves the list one second before it expires.
PrunedEarly(s) ==
    IF rejected[s] # None /\ rejected[s] <= now + 1 THEN None ELSE rejected[s]

\* A session that no signature check accepts any more leaves the list.
Pruned(s) == IF rejected[s] # None /\ rejected[s] <= now THEN None ELSE rejected[s]

\* Revoke.  The list may hold the session already.
Logout(h) ==
    /\ Stands(h, "verified")
    /\ rejected' = [s \in Sids |-> IF s = req[h].sid THEN cookies[s] ELSE Pruned(s)]
    /\ loggedOut' = loggedOut \cup {req[h].sid}
    /\ Answer(h)
    /\ UNCHANGED <<fails, lockedUntil, cookies, now>>

-----------------------------------------------------------------------------
Advance ==
    /\ now < MaxTime
    /\ now' = now + 1
    /\ UNCHANGED <<fails, lockedUntil, rejected, cookies, req, loggedOut>>

\* NewSessions and NewLimiter: the cookies stay good, what was in memory is gone.
Restart ==
    /\ fails' = 0
    /\ lockedUntil' = 0
    /\ rejected' = [s \in Sids |-> None]
    /\ req' = [h \in Handlers |-> None]
    /\ loggedOut' = {}
    /\ UNCHANGED <<cookies, now>>

Next ==
    \/ \E h \in Handlers :
         \/ LoginAllowed(h) \/ BadBody(h) \/ WrongPassword(h) \/ RightPassword(h) \/ Issue(h)
         \/ Verify(h) \/ Check(h) \/ Done(h) \/ Logout(h)
    \/ Advance \/ Restart

Spec == Init /\ [][Next]_vars

-----------------------------------------------------------------------------
\* The count and the lock move together through concurrent failures, successes and
\* ends of the lock: a count at the limit is never without a lock that the next
\* login meets (Fail, Allow and Success are three critical sections).
LimitMeansLock == fails >= MaxLoginFails => lockedUntil # 0

Allowed == {h \in Handlers : Stands(h, "allowed")}

\* MaxLoginFails is a limit although Allow and Fail are apart and the comparison
\* between them is slow: all wrong passwords counted and all comparisons under
\* way stay within the limit and the requests that were let in before the last one.
AttemptsBounded ==
    fails + Cardinality(Allowed) <= MaxLoginFails - 1 + Cardinality(Handlers)

\* README, "a logout takes effect at once": until the next restart no request is
\* admitted with a session that was logged out, however the signature check, the
\* list and its pruning interleave, except one whose session expired meanwhile.
LogoutSticks ==
    [][\A h \in Handlers :
        Stands(h, "verified") /\ req'[h] # None /\ req'[h].phase = "admitted"
        => req[h].sid \notin loggedOut \/ now >= cookies[req[h].sid]]_vars
=============================================================================
