------------------------------- MODULE Vault -------------------------------
(***************************************************************************)
(* Tokens on their way between the forms a configuration takes:            *)
(* internal/crypto (cipher.go, mask.go) seals and opens a token with the   *)
(* master key, internal/config builds the runtime view (view.go), the      *)
(* export (export.go) and the configuration to store out of each other,    *)
(* and internal/server (mergeForSave, maskMap) carries masks along.        *)
(*                                                                         *)
(* A cipher is the pair of the master key and the token: it opens under    *)
(* that key and no other (AES-GCM authenticates).  The nonce, by which two *)
(* ciphers of one token differ, is left out.  A mask is the token it       *)
(* hides.                                                                  *)
(***************************************************************************)

CONSTANTS
    Keys,               \* access keys "<platform>.<keyID>"
    Tokens,
    MasterKeys,         \* what EnsureKey may generate
    Blank,              \* no token: left by a migration, or left out in a body
    Lost,               \* a cipher that does not open
    None                \* no such access key

Ciphers == [key : MasterKeys, token : Tokens]

\* The token_cipher of every access key of a stored configuration.
Stored == [Keys -> Ciphers \cup {Blank, None}]

\* The tokens of a runtime view, and those of the body of a PUT.
Runtimes == [Keys -> Tokens \cup {Blank, Lost, None}]

Bodies == [Keys -> Tokens \cup {Blank, None}]

Masks == [Keys -> Tokens \cup {None}]

SealToken(key, token) == [key |-> key, token |-> token]

OpenToken(key, cipher) == IF cipher.key = key THEN cipher.token ELSE Lost

Open(key, entry) == IF entry \in {Blank, None} THEN entry ELSE OpenToken(key, entry)

\* BuildRuntime: a token that does not open marks its key, and nothing else.
BuildRuntime(stored, key) == [k \in Keys |-> Open(key, stored[k])]

\* maskMap: only a token in the open has a mask.
MaskMap(runtime) == [k \in Keys |-> IF runtime[k] \in Tokens THEN runtime[k] ELSE None]

\* Fault: a key whose token does not open is left out of the export.
ExportReadable(stored, key) ==
    [k \in Keys |-> IF Open(key, stored[k]) \in Tokens THEN Open(key, stored[k]) ELSE None]

\* BuildExport: every access key; the token of one that has none, or one that
\* does not open, is left out.  The file is the body of a later PUT.
BuildExport(stored, key) ==
    [k \in Keys |-> IF Open(key, stored[k]) = Lost THEN Blank ELSE Open(key, stored[k])]

\* ValidateNewKeys: a key that is not stored yet brings its token.
NewKeysHaveTokens(body, old) == \A k \in Keys : body[k] = Blank => old[k] # None

\* Fault: the stored token is not carried over.
MergedFromBody(body, old, key) ==
    [k \in Keys |-> IF body[k] \in Tokens THEN SealToken(key, body[k]) ELSE body[k]]

\* mergeForSave: a token in the body is sealed, an empty one keeps the cipher.
Merged(body, old, key) ==
    [k \in Keys |->
        IF body[k] \in Tokens THEN SealToken(key, body[k])
        ELSE IF body[k] = Blank THEN old[k]
        ELSE None]

\* Fault: a kept token loses its mask.
MasksOfBody(body, shown) == [k \in Keys |-> IF body[k] \in Tokens THEN body[k] ELSE None]

\* The mask of a kept token is the one on display.
MergedMasks(body, shown) ==
    [k \in Keys |->
        IF body[k] \in Tokens THEN body[k]
        ELSE IF body[k] = Blank THEN shown[k]
        ELSE None]
=============================================================================
