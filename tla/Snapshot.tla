------------------------------ MODULE Snapshot ------------------------------
(***************************************************************************)
(* internal/collector/snapshot.go: the state of one key as the page shows  *)
(* it, the published snapshot and the diff that decides whether publishing *)
(* moves the revision.                                                     *)
(*                                                                         *)
(* The list of states is a function on the key ids: a key that is not      *)
(* configured maps to None.  The order of the list, which only moves       *)
(* together with the configuration, is left out.                           *)
(***************************************************************************)
EXTENDS Integers

CONSTANTS
    Keys,                       \* runtime ids, "<platform>.<keyID>"
    Payloads,                   \* what a successful request can return
    Names,                      \* display names
    Messages,                   \* texts shown with an error
    None,                       \* the nil pointer
    RevisionRange               \* number of values of the uint64 revision

Statuses == {"ok", "failed", "token_invalid", "disabled", "cached"}

Codes == {"none", "NOT_COLLECTED_YET", "TOKEN_DECRYPT_FAILED", "TOKEN_INVALID",
          "NETWORK_ERROR", "SERVER_ERROR", "RATE_LIMITED", "CLIENT_ERROR",
          "BIZ_ERROR", "DISABLED"}

\* A message is None where the code determines it.
ErrorInfo == [code : Codes, message : Messages, retry : Int \cup {None}]

ErrorOf(code) == [code |-> code, message |-> None, retry |-> None]

NoError == ErrorOf("none")

ProviderState ==
    [name : Names, status : Statuses, data : Payloads \cup {None},
     last : Nat \cup {None}, err : ErrorInfo]

ProviderStates == [Keys -> ProviderState \cup {None}]

Snapshots == [rev : 0 .. RevisionRange - 1, provs : ProviderStates]

NewStore == [rev |-> 0, provs |-> [k \in Keys |-> None]]

\* Fault: the delay left is not compared.
SameCode(e, f) == e.code = f.code

SameError(e, f) ==
    e.code = f.code /\ e.message = f.message /\ e.retry = f.retry

SnapshotChanged(old, states) ==
    \E k \in Keys :
        \/ (old[k] = None) # (states[k] = None)
        \/ /\ old[k] # None
           /\ states[k] # None
           /\ \/ old[k].name # states[k].name
              \/ old[k].status # states[k].status
              \/ old[k].data # states[k].data
              \/ old[k].last # states[k].last
              \/ ~SameError(old[k].err, states[k].err)

\* Fault: every publication is a new revision.
PublishAlways(snap, states) ==
    [rev |-> (snap.rev + 1) % RevisionRange, provs |-> states]

Publish(snap, states) ==
    IF SnapshotChanged(snap.provs, states)
    THEN [rev |-> (snap.rev + 1) % RevisionRange, provs |-> states]
    ELSE snap

=============================================================================
