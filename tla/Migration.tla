----------------------------- MODULE Migration -----------------------------
(***************************************************************************)
(* internal/config/migrate.go, platform.go and validate.go: how the        *)
(* configuration of an older version becomes one of today's, and which     *)
(* configurations a start accepts.  Pure operators; Startup uses them.     *)
(*                                                                         *)
(* A key id is the name a user gave, or k<number>, followed by a number of *)
(* "-2": [stem, number, twos].  An address stands for the base_urls that   *)
(* name one host.  Of the settings, what the migrations fill in, the flags *)
(* override and Validate looks at is kept.  Names, paths and headers are   *)
(* left out: they only reach the log, or follow from the platform.         *)
(***************************************************************************)
EXTENDS Integers, Sequences, FiniteSets, SequencesExt

CONSTANTS
    Stems,              \* what users call their providers; "k" is one of them
    Tokens,
    NoToken             \* no token stored

ASSUME MigrationAssumption ==
    /\ {"", "k"} \cap Stems = {"k"}
    /\ NoToken \notin Tokens

CurrentVersion == 5

MinInterval == 30

MaxPort == 65535

\* listen.host: an IP address, or a name, which is none; auth.mode.
Hosts == {"", "address", "name"}

Modes == {"", "admin", "none", "other"}

\* pacing: jitter, stagger and back-off are within the limits of R5 to R8;
\* balance: its section is not there, or has limits that R13 takes or does not.
Settings ==
    [host : Hosts, port : Int, interval : Int, pacing : BOOLEAN, mode : Modes,
     balance : {"unset", "valid", "invalid"}]

DefaultSettings ==
    [host |-> "address", port |-> 8787, interval |-> 300, pacing |-> TRUE,
     mode |-> "admin", balance |-> "unset"]

Platforms == {"zhipu-glm", "deepseek", "kimi-code", "opencode"}

\* A platform's own address, an old domain of Kimi, the routes of v0.1's local
\* proxy, and anything else.
Addresses == Platforms \cup
    {"moonshot.cn", "proxy/kimi", "proxy/opencode", "proxy/other", "elsewhere"}

Unknown == "unknown"

InferPlatform(address) ==
    CASE address \in Platforms -> address
      [] address = "moonshot.cn" -> "kimi-code"
      [] OTHER -> Unknown

NoId == [stem |-> "", number |-> 0, twos |-> 0]

Ids == {NoId} \cup [stem : Stems, number : Nat, twos : Nat]

Numbered(n) == [stem |-> "k", number |-> n, twos |-> 0]

Suffixed(id) == [id EXCEPT !.twos = @ + 1]

\* What is stored of a key, and of one provider of an older version, where a
\* key was a provider; hasGet: it has a path to GET (all of version 3 do).
AccessKey == [id : Ids, token : Tokens \cup {NoToken}, enabled : BOOLEAN]

LegacyProvider == [id : Ids, address : Addresses, token : Tokens \cup {NoToken},
                   enabled : BOOLEAN, hasGet : BOOLEAN]

\* Older versions than 4 have items, the others providers.
File == [version : Int, settings : Settings, items : Seq(LegacyProvider),
         providers : Seq([platform : Platforms, keys : Seq(AccessKey)])]

\* Fault: ids are taken as they are.
NotDeduped(keys, id) == id

\* One comparison with each key the platform has, in their order.
Deduped(keys, id) ==
    FoldLeft(LAMBDA d, key : IF key.id = d THEN Suffixed(d) ELSE d, id, keys)

NewKey(keys, item) ==
    [id      |-> Deduped(keys, IF item.id = NoId THEN Numbered(Len(keys) + 1)
                                                 ELSE item.id),
     token   |-> item.token,
     enabled |-> item.enabled]

\* Fault: the platform's keys before this one are forgotten.
MergedOver(providers, item) ==
    LET platform == InferPlatform(item.address)
    IN  IF platform = Unknown THEN providers
        ELSE Append(SelectSeq(providers, LAMBDA p : p.platform # platform),
                    [platform |-> platform, keys |-> <<NewKey(<<>>, item)>>])

\* The providers with one more item merged in.
Merged(providers, item) ==
    LET platform == InferPlatform(item.address)
        at == {i \in DOMAIN providers : providers[i].platform = platform}
    IN  CASE platform = Unknown -> providers
          [] platform # Unknown /\ at = {} ->
                Append(providers, [platform |-> platform,
                                   keys |-> <<NewKey(<<>>, item)>>])
          [] OTHER -> [i \in DOMAIN providers |->
                          IF i \in at
                          THEN [providers[i] EXCEPT !.keys = Append(@, NewKey(@, item))]
                          ELSE providers[i]]

groupLegacyProviders(items) == FoldLeft(Merged, <<>>, items)

\* Version 2 pointed at a proxy on the same machine.
SkippedV1(item) == ~item.hasGet \/ item.address = "proxy/other"

\* OpenCode's proxy held a cookie, which is no token.
rewriteV1Provider(item) ==
    CASE item.address = "proxy/kimi" -> [item EXCEPT !.address = "kimi-code"]
      [] item.address = "proxy/opencode" ->
            [item EXCEPT !.address = "opencode", !.token = NoToken]
      [] OTHER -> item

ItemsOfV1(items) ==
    FoldLeft(LAMBDA kept, item : IF SkippedV1(item) THEN kept
                                 ELSE Append(kept, rewriteV1Provider(item)),
             <<>>, items)

NewFile(settings, providers) ==
    [version |-> CurrentVersion, settings |-> settings,
     items |-> <<>>, providers |-> providers]

MigrateV1(f) == NewFile(DefaultSettings, groupLegacyProviders(ItemsOfV1(f.items)))

\* Half a listen section counts as none, and so does a collector without an
\* interval.
SettingsOfV3(s) ==
    LET listen == IF s.host = "" \/ s.port = 0 THEN DefaultSettings ELSE s
        collector == IF s.interval = 0 THEN DefaultSettings ELSE s
    IN  [host |-> listen.host, port |-> listen.port,
         interval |-> collector.interval, pacing |-> collector.pacing,
         mode |-> IF s.mode = "" THEN "admin" ELSE s.mode,
         balance |-> "unset"]

MigrateV3(f) == NewFile(SettingsOfV3(f.settings), groupLegacyProviders(f.items))

NormalizeBalance(s) ==
    [s EXCEPT !.balance = IF @ = "unset" THEN "valid" ELSE @]

MigrateV4(f) ==
    [f EXCEPT !.version = CurrentVersion, !.settings = NormalizeBalance(@)]

Migrate(f) ==
    CASE f.version = 2 -> MigrateV1(f)
      [] f.version = 3 -> MigrateV3(f)
      [] f.version = 4 -> MigrateV4(f)

Template == NewFile(DefaultSettings, <<>>)

KeysValid(keys) ==
    /\ keys # <<>>
    /\ \A i \in DOMAIN keys : keys[i].id # NoId
    /\ \A i, j \in DOMAIN keys : keys[i].id = keys[j].id => i = j

\* A balance that is not set is no error.
SettingsValid(s) ==
    /\ s.port \in 1 .. MaxPort
    /\ s.host = "address"
    /\ s.interval >= MinInterval
    /\ s.pacing
    /\ s.mode \in {"admin", "none"}
    /\ s.balance # "invalid"

Validate(f) ==
    /\ f.version \in 1 .. CurrentVersion
    /\ SettingsValid(f.settings)
    /\ \A i \in DOMAIN f.providers :
          f.providers[i].platform \in Platforms /\ KeysValid(f.providers[i].keys)
    /\ \A i, j \in DOMAIN f.providers :
          f.providers[i].platform = f.providers[j].platform => i = j

-----------------------------------------------------------------------------
(* What a migration owes to the user, said without its loops.              *)

\* An item as the migration reads it, and the places of those it imports for a
\* platform.
AsRead(f, i) == IF f.version = 2 THEN rewriteV1Provider(f.items[i]) ELSE f.items[i]

Importable(f, platform) ==
    {i \in DOMAIN f.items :
        /\ f.version = 2 => ~SkippedV1(f.items[i])
        /\ InferPlatform(AsRead(f, i).address) = platform}

\* The items at these places and no others, in their order, each with its own
\* token and switch.
SameCredentials(f, places, keys) ==
    /\ Len(keys) = Cardinality(places)
    /\ \A i \in places :
          LET key == keys[Cardinality({j \in places : j <= i})] IN
          key.token = AsRead(f, i).token /\ key.enabled = AsRead(f, i).enabled

\* Every importable credential arrives, once, under its platform, and every
\* platform that has one is there once; version 4 grouped them already.
KeepsKeys(old, new) ==
    IF old.version = 4 THEN new.providers = old.providers
    ELSE \A platform \in Platforms :
            LET places == Importable(old, platform)
                own == {n \in DOMAIN new.providers :
                           new.providers[n].platform = platform}
            IN  IF places = {} THEN own = {}
                ELSE \E n \in own : own = {n}
                        /\ SameCredentials(old, places, new.providers[n].keys)

\* One comparison with each key need not tell ids apart: for x-2, x, x the code
\* stores x-2 twice.  It is sure to if the "-2" of an id are no more than the
\* items of its platform that had the same name before.
SameName(id, other) == id.stem = other.stem /\ id.number = other.number

FewSuffixes(f) ==
    \A platform \in Platforms : \A i \in Importable(f, platform) :
        f.items[i].id.twos <=
            Cardinality({j \in Importable(f, platform) :
                            j < i /\ SameName(f.items[j].id, f.items[i].id)})

\* An older file whose migration a start accepts.
Fit(f) ==
    /\ f.version \in {2, 3} => FewSuffixes(f)
    /\ f.version = 3 => SettingsValid(SettingsOfV3(f.settings))
    /\ f.version = 4 => Validate(MigrateV4(f))
=============================================================================
