---------------------------- MODULE LoginProofs ----------------------------
(***************************************************************************)
(* The limiter and the list of logged-out sessions, for any number of      *)
(* concurrent requests and sessions, any limit, lock time and session      *)
(* lifetime, and through restarts.                                         *)
(***************************************************************************)
EXTENDS Login, FiniteSetTheorems, TLAPS

\* The list holds the expiry the cookie carries.
ListAgrees == \A s \in Sids : rejected[s] # None => rejected[s] = cookies[s]

\* A session that was logged out is on the list, or past its expiry.
LoggedOutIsListed ==
    \A s \in loggedOut :
        /\ cookies[s] # None
        /\ rejected[s] # None \/ now >= cookies[s]

\* A request carries a cookie that was issued.
VerifiedWasIssued ==
    \A h \in Handlers :
        Stands(h, "verified") \/ Stands(h, "admitted") => cookies[req[h].sid] # None

SessionInv == ListAgrees /\ LoggedOutIsListed /\ VerifiedWasIssued

LimiterInv == LimitMeansLock /\ AttemptsBounded

-----------------------------------------------------------------------------
(* Types.                                                                  *)

LEMMA LoginInitType == Init => TypeOK
  BY LoginAssumption DEF Init, TypeOK

LEMMA LoginNextType ==
    ASSUME TypeOK, [Next]_vars
    PROVE  TypeOK'
<1> USE LoginAssumption, RequestNotNone
<1> USE DEF TypeOK, Stands, Goto, Answer
<1> DEFINE Login(s, phase) == [phase |-> phase, sid |-> s]
<1>1. /\ Login(None, "allowed") \in Request
      /\ Login(None, "succeeded") \in Request
      /\ \A s \in Sids : Login(s, "verified") \in Request /\ Login(s, "admitted") \in Request
  BY DEF Request
<1>2. ASSUME NEW h \in Handlers, Stands(h, "verified")
      PROVE  req[h].sid \in Sids
  BY <1>2 DEF Request
<1>3. ASSUME NEW h \in Handlers, LoginAllowed(h) PROVE TypeOK'
  BY <1>1, <1>3 DEF LoginAllowed, Allow
<1>4. ASSUME NEW h \in Handlers, BadBody(h) PROVE TypeOK'
  BY <1>4 DEF BadBody
<1>5. ASSUME NEW h \in Handlers, WrongPassword(h) PROVE TypeOK'
  BY <1>5 DEF WrongPassword, Fail
<1>6. ASSUME NEW h \in Handlers, RightPassword(h) PROVE TypeOK'
  BY <1>1, <1>6 DEF RightPassword
<1>7. ASSUME NEW h \in Handlers, Issue(h) PROVE TypeOK'
  BY <1>7 DEF Issue
<1>8. ASSUME NEW h \in Handlers, Verify(h) PROVE TypeOK'
  BY <1>1, <1>8 DEF Verify
<1>9. ASSUME NEW h \in Handlers, Check(h) PROVE TypeOK'
  BY <1>1, <1>2, <1>9 DEF Check
<1>10. ASSUME NEW h \in Handlers, Done(h) PROVE TypeOK'
  BY <1>10 DEF Done
<1>11. ASSUME NEW h \in Handlers, Logout(h) PROVE TypeOK'
  BY <1>2, <1>11 DEF Logout, Pruned
<1>12. CASE Advance
  BY <1>12 DEF Advance
<1>13. CASE Restart
  BY <1>13 DEF Restart
<1>14. CASE UNCHANGED vars
  BY <1>14 DEF vars
<1> QED
  BY <1>3, <1>4, <1>5, <1>6, <1>7, <1>8, <1>9, <1>10, <1>11, <1>12, <1>13, <1>14 DEF Next

-----------------------------------------------------------------------------
(* The limiter: each comparison under way was let in with a count below    *)
(* the limit, and every count it adds takes it off the comparisons.        *)

LEMMA AllowedFinite ==
    /\ IsFiniteSet(Allowed)
    /\ Cardinality(Allowed) \in Nat
    /\ Cardinality(Handlers) \in Nat
    /\ Cardinality(Allowed) <= Cardinality(Handlers)
<1>1. Allowed \in SUBSET Handlers
  BY DEF Allowed
<1> QED
  BY <1>1, LoginAssumption, FS_Subset, FS_CardinalityType

\* A login that ends, or whose password was right, leaves the comparisons.
LEMMA AllowedShrinks ==
    ASSUME TypeOK, NEW h \in Handlers, Stands(h, "allowed"),
           Answer(h) \/ Goto(h, "succeeded", None)
    PROVE  Cardinality(Allowed') = Cardinality(Allowed) - 1
<1>1. h \in Allowed
  BY DEF Allowed
<1>2. Allowed' = Allowed \ {h}
  BY DEF Allowed, Stands, Answer, Goto, TypeOK
<1> QED
  BY <1>1, <1>2, AllowedFinite, FS_RemoveElement

\* A request that is no login does not change them.
LEMMA AllowedSame ==
    ASSUME TypeOK, NEW h \in Handlers, ~Stands(h, "allowed"),
           \/ Answer(h)
           \/ \E s \in Sids : Goto(h, "verified", s) \/ Goto(h, "admitted", s)
    PROVE  Allowed' = Allowed
  BY DEF Allowed, Stands, Answer, Goto, TypeOK

LEMMA LimiterInit == Init => LimiterInv
<1> SUFFICES ASSUME Init PROVE LimiterInv
  OBVIOUS
<1>1. Allowed = {}
  BY DEF Init, Allowed, Stands
<1>2. Cardinality(Allowed) = 0
  BY <1>1, FS_EmptySet
<1> QED
  BY <1>2, LoginAssumption, AllowedFinite
  DEF Init, LimiterInv, LimitMeansLock, AttemptsBounded

LEMMA AddUp ==
    ASSUME NEW f \in Nat, NEW b \in Nat, NEW m \in Nat, NEW n \in Nat, f < m, b <= n
    PROVE  f + b <= m - 1 + n
  OBVIOUS

LEMMA LimiterNext ==
    ASSUME TypeOK, TypeOK', LimiterInv, [Next]_vars
    PROVE  LimiterInv'
<1> DEFINE N == Cardinality(Handlers)
<1> DEFINE A == Cardinality(Allowed)
<1> DEFINE B == Cardinality(Allowed')
<1>0. /\ A \in Nat /\ N \in Nat /\ A <= N
      /\ B \in Nat /\ B <= N
  <2>1. A \in Nat /\ N \in Nat /\ A <= N
    BY AllowedFinite
  <2>2. Allowed' \in SUBSET Handlers
    BY DEF Allowed
  <2>3. B \in Nat /\ B <= N
    BY <2>2, LoginAssumption, FS_Subset, FS_CardinalityType
  <2> QED
    BY <2>1, <2>3
<1> HIDE DEF N, A, B
<1>1. /\ fails >= MaxLoginFails => lockedUntil # 0
      /\ fails + A <= MaxLoginFails - 1 + N
  BY DEF LimiterInv, LimitMeansLock, AttemptsBounded, A, N
<1>2. SUFFICES /\ fails' >= MaxLoginFails => lockedUntil' # 0
               /\ fails' + B <= MaxLoginFails - 1 + N
  BY DEF LimiterInv, LimitMeansLock, AttemptsBounded, B, N
<1>3. /\ fails \in Nat /\ fails' \in Nat /\ now \in Nat \ {0}
      /\ MaxLoginFails \in Nat \ {0} /\ LoginLockTime \in Nat \ {0}
  BY LoginAssumption DEF TypeOK
<1>4. ASSUME UNCHANGED <<fails, lockedUntil>>, B <= A
      PROVE  /\ fails' >= MaxLoginFails => lockedUntil' # 0
             /\ fails' + B <= MaxLoginFails - 1 + N
  BY <1>0, <1>1, <1>3, <1>4
<1>5. ASSUME fails' = 0
      PROVE  /\ fails' >= MaxLoginFails => lockedUntil' # 0
             /\ fails' + B <= MaxLoginFails - 1 + N
  BY <1>0, <1>3, <1>5
<1>6. ASSUME UNCHANGED Allowed PROVE B <= A
  BY <1>0, <1>6 DEF A, B
<1>7. CASE \E h \in Handlers : LoginAllowed(h)
  <2>1. fails' = 0 \/ fails' < MaxLoginFails
    BY <1>1, <1>3, <1>7 DEF LoginAllowed, Allow
  <2>2. CASE fails' < MaxLoginFails
    <3>1. ~(fails' >= MaxLoginFails)
      BY <1>3, <2>2
    <3>2. fails' + B <= MaxLoginFails - 1 + N
      BY <1>0, <1>3, <2>2, AddUp
    <3> QED
      BY <3>1, <3>2
  <2> QED
    BY <1>5, <2>1, <2>2
<1>8. CASE \E h \in Handlers : BadBody(h)
  <2>1. B = A - 1
    BY <1>8, AllowedShrinks DEF BadBody, A, B
  <2> QED
    BY <1>0, <1>4, <1>8, <2>1 DEF BadBody
<1>9. CASE \E h \in Handlers : WrongPassword(h)
  <2>1. B = A - 1
    BY <1>9, AllowedShrinks DEF WrongPassword, A, B
  <2>2. /\ fails' = fails + 1
        /\ fails' >= MaxLoginFails => lockedUntil' = now + LoginLockTime
    BY <1>9 DEF WrongPassword, Fail
  <2> QED
    BY <1>0, <1>1, <1>3, <2>1, <2>2
<1>10. CASE \E h \in Handlers : RightPassword(h)
  BY <1>5, <1>10 DEF RightPassword
<1>11. CASE \E h \in Handlers : Issue(h) \/ Verify(h) \/ Check(h) \/ Done(h) \/ Logout(h)
  <2>1. PICK h \in Handlers : Issue(h) \/ Verify(h) \/ Check(h) \/ Done(h) \/ Logout(h)
    BY <1>11
  <2>2. ~Stands(h, "allowed")
    BY <2>1 DEF Stands, Issue, Verify, Check, Done, Logout
  <2>3. Stands(h, "verified") => req[h].sid \in Sids
    BY DEF Stands, TypeOK, Request
  <2>4. \/ Answer(h)
        \/ \E s \in Sids : Goto(h, "verified", s) \/ Goto(h, "admitted", s)
    BY <2>1, <2>3 DEF Issue, Verify, Check, Done, Logout
  <2>5. UNCHANGED Allowed
    BY <2>2, <2>4, AllowedSame
  <2> QED
    BY <1>4, <1>6, <2>1, <2>5 DEF Issue, Verify, Check, Done, Logout
<1>12. CASE Advance
  BY <1>4, <1>6, <1>12 DEF Advance, Allowed, Stands
<1>13. CASE Restart
  BY <1>5, <1>13 DEF Restart
<1>14. CASE UNCHANGED vars
  BY <1>4, <1>6, <1>14 DEF vars, Allowed, Stands
<1> QED
  BY <1>7, <1>8, <1>9, <1>10, <1>11, <1>12, <1>13, <1>14 DEF Next

-----------------------------------------------------------------------------
(* The list: pruning takes off only what no signature check accepts.       *)

LEMMA SessionInit == Init => SessionInv
  BY DEF Init, SessionInv, ListAgrees, LoggedOutIsListed, VerifiedWasIssued, Stands

LEMMA SessionNext ==
    ASSUME TypeOK, SessionInv, [Next]_vars
    PROVE  SessionInv'
<1> USE LoginAssumption
<1> USE DEF SessionInv, ListAgrees, LoggedOutIsListed, VerifiedWasIssued, TypeOK,
            Stands, Goto, Answer
<1>1. ASSUME NEW h \in Handlers, LoginAllowed(h) PROVE SessionInv'
  BY <1>1 DEF LoginAllowed
<1>2. ASSUME NEW h \in Handlers, BadBody(h) \/ WrongPassword(h) \/ Done(h)
      PROVE  SessionInv'
  BY <1>2 DEF BadBody, WrongPassword, Done
<1>3. ASSUME NEW h \in Handlers, RightPassword(h) PROVE SessionInv'
  BY <1>3 DEF RightPassword
<1>4. ASSUME NEW h \in Handlers, Issue(h) PROVE SessionInv'
  <2>1. ASSUME NEW s \in Sids, cookies[s] # None PROVE cookies'[s] = cookies[s]
    BY <1>4, <2>1 DEF Issue
  <2>2. UNCHANGED <<rejected, now, loggedOut>>
    BY <1>4 DEF Issue
  <2>3. \A s \in Sids : rejected[s] # None => cookies[s] # None
    OBVIOUS
  <2>4. ListAgrees' /\ LoggedOutIsListed'
    BY <2>1, <2>2, <2>3
  <2>5. ASSUME NEW g \in Handlers, Stands(g, "verified")' \/ Stands(g, "admitted")'
        PROVE  req'[g] = req[g] /\ req[g].sid \in Sids
    BY <1>4, <2>5 DEF Issue, Request
  <2>6. VerifiedWasIssued'
    BY <2>1, <2>5
  <2> QED
    BY <2>4, <2>6
<1>5. ASSUME NEW h \in Handlers, Verify(h) PROVE SessionInv'
  BY <1>5 DEF Verify
<1>6. ASSUME NEW h \in Handlers, Check(h) PROVE SessionInv'
  BY <1>6 DEF Check
<1>7. ASSUME NEW h \in Handlers, Logout(h) PROVE SessionInv'
  <2>1. req[h].sid \in Sids /\ cookies[req[h].sid] # None
    BY <1>7 DEF Logout, Request
  <2>2. /\ UNCHANGED <<cookies, now>>
        /\ loggedOut' = loggedOut \cup {req[h].sid}
        /\ req' = [req EXCEPT ![h] = None]
        /\ \A s \in Sids :
             rejected'[s] = IF s = req[h].sid THEN cookies[s] ELSE Pruned(s)
    BY <1>7 DEF Logout
  <2>3. ListAgrees'
    BY <2>2 DEF Pruned
  <2>4. LoggedOutIsListed'
    BY <2>1, <2>2 DEF Pruned
  <2>5. VerifiedWasIssued'
    BY <2>2
  <2> QED
    BY <2>3, <2>4, <2>5
<1>8. CASE Advance
  BY <1>8 DEF Advance
<1>9. CASE Restart
  BY <1>9 DEF Restart
<1>10. CASE UNCHANGED vars
  BY <1>10 DEF vars
<1> QED
  BY <1>1, <1>2, <1>3, <1>4, <1>5, <1>6, <1>7, <1>8, <1>9, <1>10 DEF Next

-----------------------------------------------------------------------------
\* Every reachable state is well typed.
THEOREM LoginTypeCorrect == Spec => []TypeOK
<1>1. Init => TypeOK
  BY LoginInitType
<1>2. TypeOK /\ [Next]_vars => TypeOK'
  BY LoginNextType
<1> QED
  BY <1>1, <1>2, PTL DEF Spec

LEMMA LimiterAlways == Spec => []LimiterInv
<1>1. Init => LimiterInv
  BY LimiterInit
<1>2. TypeOK /\ TypeOK' /\ LimiterInv /\ [Next]_vars => LimiterInv'
  BY LimiterNext
<1> QED
  BY <1>1, <1>2, LoginTypeCorrect, PTL DEF Spec

\* A full count is never without a lock (limiter.Allow, Fail, Success).
THEOREM LimitAlwaysLocks == Spec => []LimitMeansLock
<1>1. LimiterInv => LimitMeansLock
  BY DEF LimiterInv
<1> QED
  BY <1>1, LimiterAlways, PTL

\* Wrong passwords counted and comparisons under way never exceed the limit by
\* more than the requests that were let in together (limiter.Allow and Fail).
THEOREM AttemptsAlwaysBounded == Spec => []AttemptsBounded
<1>1. LimiterInv => AttemptsBounded
  BY DEF LimiterInv
<1> QED
  BY <1>1, LimiterAlways, PTL

LEMMA SessionAlways == Spec => []SessionInv
<1>1. Init => SessionInv
  BY SessionInit
<1>2. TypeOK /\ SessionInv /\ [Next]_vars => SessionInv'
  BY SessionNext
<1> QED
  BY <1>1, <1>2, LoginTypeCorrect, PTL DEF Spec

\* No request is admitted with a session that was logged out, unless it expired
\* since its signature was checked (checkSession, Revoke).
THEOREM LogoutAlwaysSticks == Spec => LogoutSticks
<1> DEFINE Kept ==
      \A h \in Handlers :
        Stands(h, "verified") /\ req'[h] # None /\ req'[h].phase = "admitted"
        => req[h].sid \notin loggedOut \/ now >= cookies[req[h].sid]
<1>1. TypeOK /\ SessionInv /\ [Next]_vars => [Kept]_vars
  <2> SUFFICES ASSUME TypeOK, SessionInv, Next,
                      NEW h \in Handlers,
                      Stands(h, "verified"), req'[h] # None, req'[h].phase = "admitted",
                      req[h].sid \in loggedOut
               PROVE  now >= cookies[req[h].sid]
    BY DEF vars
  <2>1. Check(h)
    BY DEF Next, TypeOK, Stands, Goto, Answer, LoginAllowed, BadBody, WrongPassword,
           RightPassword, Issue, Verify, Check, Done, Logout, Advance, Restart
  <2>2. rejected[req[h].sid] = None
    BY <2>1 DEF Check, Answer, TypeOK
  <2> QED
    BY <2>2 DEF SessionInv, LoggedOutIsListed
<1>2. [][Kept]_vars => LogoutSticks
  BY DEF LogoutSticks
<1> QED
  BY <1>1, <1>2, LoginTypeCorrect, SessionAlways, PTL DEF Spec
=============================================================================
