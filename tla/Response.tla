------------------------------ MODULE Response ------------------------------
(***************************************************************************)
(* internal/collector/client.go and classify.go: how one request ends and  *)
(* what the scheduler makes of it.  An answer is its HTTP status, what its *)
(* body reports, and its Retry-After header; the text of a body is left    *)
(* out, but two failures that a body reports differently stay different.   *)
(***************************************************************************)
EXTENDS Integers

CONSTANTS
    Faults,                     \* messages of bodies that report a failure
    None                        \* no fault, no header, no message

\* Status 0 is a request that got no answer, or lost it while reading the body
\* (the 25 s timeout included).  A body reports a fault if it is a JSON object
\* whose success is there and not true, or that has an error.  Retry-After is in
\* seconds, None if it is missing or cannot be parsed, negative for a date in the
\* past.
Responses == [status : Nat, fault : Faults \cup {None}, retry : Int \cup {None}]

\* ClassifyTransport and ClassifyHTTP.  An answer outside 2xx is judged by its
\* status alone.
Class(a) ==
    CASE a.status = 0 -> "NETWORK"
      [] a.status \in {401, 403} -> "TOKEN_INVALID"
      [] a.status = 429 -> "RATE_LIMITED"
      [] a.status >= 500 -> "SERVER_ERR"
      [] a.status \in 200 .. 299 -> IF a.fault = None THEN "OK" ELSE "BIZ_ERROR"
      [] OTHER -> "CLIENT_ERR"

\* The text shown with the error: fixed for a class, or with the status in it, or
\* the body's own.
Message(a) ==
    CASE Class(a) \in {"SERVER_ERR", "CLIENT_ERR"} -> a.status
      [] Class(a) = "BIZ_ERROR" -> a.fault
      [] OTHER -> None

Messages == Nat \cup Faults \cup {None}

\* ParseRetryAfter
RetryAfter(a) ==
    IF a.retry = None THEN None ELSE IF a.retry < 0 THEN 0 ELSE a.retry

IsPlatformLevel(class) == class \in {"NETWORK", "SERVER_ERR"}

\* The code the page shows for a class that is neither a 401 nor a 429.
ClassCode(class) ==
    CASE class = "SERVER_ERR" -> "SERVER_ERROR"
      [] class = "CLIENT_ERR" -> "CLIENT_ERROR"
      [] class = "BIZ_ERROR" -> "BIZ_ERROR"
      [] OTHER -> "NETWORK_ERROR"
=============================================================================
