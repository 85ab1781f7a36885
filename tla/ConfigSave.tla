----------------------------- MODULE ConfigSave -----------------------------
(***************************************************************************)
(* internal/server/server.go, handlePutConfig and handleExportConfig, with *)
(* crypto.EnsureKey: a PUT of the whole configuration, from the load of    *)
(* the old one to the Reload of the scheduler, with the atomic write of    *)
(* config.json in between; the export, which is the body of a later PUT;   *)
(* and key.bin, without which the stored tokens are lost.  No lock is      *)
(* held: handlers of several requests interleave at every step.            *)
(*                                                                         *)
(* A configuration is the token of every key; the rest of it (listen,      *)
(* collector, names) travels with the tokens.  The body has passed         *)
(* ParsePut and Validate.                                                  *)
(***************************************************************************)
EXTENDS Integers

CONSTANTS
    Handlers,           \* requests that may be under way together
    Keys,
    Tokens,
    Blank, Lost,        \* no token, a token that cannot be opened
    SomeBodies,         \* the bodies clients send
    FirstStored,        \* the configurations found at the first start
    Inodes,
    Empty, Torn,        \* contents of a file being written
    Damaged,            \* a key.bin that is not KeyLen bytes long
    None,               \* no key, no file, no request
    MaxKeys,            \* bound: number of master keys generated
    MaxPuts,            \* bound: number of PUTs
    MaxCrashes          \* bound: number of crashes

MasterKeys == 1 .. MaxKeys

INSTANCE Vault

\* A stored configuration and the number of the PUT that made it.
Config == [put : 0 .. MaxPuts, tokens : Stored]

Phases == {"loaded", "merged", "opened", "written", "renamed", "fileStored",
           "cfgStored", "masksStored"}

\* A PUT under way: its body, what it loaded, what it stores, its open file.
Requests ==
    [phase : Phases, put : 0 .. MaxPuts, body : Bodies, old : Stored, new : Stored,
     masks : Masks, fd : Inodes \cup {None}]

ASSUME ConfigSaveAssumption ==
    /\ MaxKeys \in Nat /\ MaxPuts \in Nat /\ MaxCrashes \in Nat
    /\ SomeBodies \subseteq Bodies
    /\ FirstStored \subseteq [Keys -> {Blank, None}]
    /\ Blank \notin Tokens /\ Lost \notin Tokens /\ None \notin Tokens
    /\ Blank # None /\ Lost # None /\ Lost # Blank
    /\ None \notin Inodes
    /\ None \notin MasterKeys /\ Damaged \notin MasterKeys
    /\ {Blank, None} \cap Ciphers = {}
    /\ {Empty, Torn, None} \cap Config = {}
    /\ None \notin Bodies /\ None \notin Runtimes /\ None \notin Requests

INSTANCE AtomicFile WITH Contents <- Config

VARIABLES
    file,               \* s.file: what the next PUT merges into
    cfg,                \* s.cfg: what requests are authorised and tested with
    masks,              \* s.masks
    sched,              \* the configuration of the scheduler
    key,                \* s.key
    fs,                 \* config.json and config.json.tmp
    keyFile,            \* key.bin
    req,                \* handler -> its request, or None
    export,             \* the file an administrator has downloaded, or None
    up,                 \* where main stands; "down", or "refused" for good
    puts,               \* number of PUTs so far
    refused,            \* history: PUTs answered SAVE_FAILED
    answered,           \* history: the last PUT answered 200, or 0
    backup,             \* history: the runtime tokens the export was made from
    made,               \* history: number of master keys generated
    removed,            \* history: the master keys removed with their key.bin
    crashes             \* bound counter

memory == <<file, cfg, masks, sched, key>>

counts == <<puts, refused, answered>>

vars == <<memory, fs, keyFile, req, export, up, counts, backup, made, removed, crashes>>

\* The runtime view of a stored configuration, with the number of its PUT.
Runtime(config, k) == [put |-> config.put, tokens |-> BuildRuntime(config.tokens, k)]

Nothing == [k \in Keys |-> None]

NoConfig == [put |-> 0, tokens |-> Nothing]

\* LoadFile has written the template, or an earlier version was migrated; there
\* is no key.bin yet.
Init ==
    /\ file = NoConfig
    /\ cfg = NoConfig
    /\ masks = Nothing
    /\ sched = NoConfig
    /\ key = None
    /\ \E first \in FirstStored, i \in Fresh({}) :
         fs = [target |-> i, tmp |-> None,
               data |-> [j \in Inodes |->
                   IF j = i THEN [put |-> 0, tokens |-> first] ELSE Empty]]
    /\ keyFile = None
    /\ req = [h \in Handlers |-> None]
    /\ export = None
    /\ up = "down"
    /\ puts = 0
    /\ refused = {}
    /\ answered = 0
    /\ backup = None
    /\ made = 0
    /\ removed = {}
    /\ crashes = 0

-----------------------------------------------------------------------------
(* The start: CleanTmp and LoadFile, then EnsureKey, then BuildRuntime.    *)

\* A config.json that does not parse ends every start.
LoadFile ==
    /\ up = "down"
    /\ fs' = RemoveTmp(fs)
    /\ up' = IF TargetData(fs) \in Config THEN "loaded" ELSE "refused"
    /\ UNCHANGED <<memory, keyFile, req, export, counts, backup, made, removed, crashes>>

Serve(k) ==
    /\ file' = TargetData(fs)
    /\ cfg' = Runtime(TargetData(fs), k)
    /\ masks' = MaskMap(BuildRuntime(TargetData(fs).tokens, k))
    /\ sched' = Runtime(TargetData(fs), k)
    /\ key' = k
    /\ up' = "running"

\* key.bin is read; a damaged one ends the start until somebody deletes it.
ReadKey ==
    /\ up = "loaded"
    /\ keyFile # None
    /\ IF keyFile = Damaged
       THEN up' = "down" /\ UNCHANGED memory
       ELSE Serve(keyFile)
    /\ UNCHANGED <<fs, keyFile, req, export, counts, backup, made, removed, crashes>>

\* os.WriteFile creates the file, then fills it.
CreateKey ==
    /\ up = "loaded"
    /\ keyFile = None
    /\ made < MaxKeys
    /\ made' = made + 1
    /\ keyFile' = Damaged
    /\ up' = "creating"
    /\ UNCHANGED <<memory, fs, req, export, counts, backup, removed, crashes>>

\* Fault: the error of os.WriteFile is not looked at.
KeyErrorIgnored == Serve(made)

\* fatal
KeyRefused == up' = "down" /\ UNCHANGED memory

WriteKey ==
    /\ up = "creating"
    /\ \/ keyFile' = made /\ Serve(made)
       \/ keyFile' = keyFile /\ KeyRefused
    /\ UNCHANGED <<fs, req, export, counts, backup, made, removed, crashes>>

\* External: key.bin is lost, or deleted as the error of EnsureKey says.
RemoveKey ==
    /\ up = "down"
    /\ keyFile # None
    /\ keyFile' = None
    /\ removed' = removed \cup ({keyFile} \cap MasterKeys)
    /\ UNCHANGED <<memory, fs, req, export, up, counts, backup, made, crashes>>

-----------------------------------------------------------------------------
(* GET /api/config/export: one load of s.file.                             *)

\* One export is enough to come back to.
Export ==
    /\ up = "running"
    /\ export = None
    /\ export' = BuildExport(file.tokens, key)
    /\ backup' = BuildRuntime(file.tokens, key)
    /\ UNCHANGED <<memory, fs, keyFile, req, up, counts, made, removed, crashes>>

-----------------------------------------------------------------------------
(* PUT /api/config: the load of the old configuration, and the merge.      *)

Stands(h, phase) == up = "running" /\ req[h] # None /\ req[h].phase = phase

\* The configuration the request of h stores.
NewConfig(h) == [put |-> req[h].put, tokens |-> req[h].new]

\* A body of a client, or the export as it was downloaded.
Sendable == SomeBodies \cup ({export} \ {None})

\* old := s.file.Load(), and the check against it.
LoadOld(h) ==
    /\ up = "running"
    /\ req[h] = None
    /\ puts < MaxPuts
    /\ \E body \in Sendable :
         /\ NewKeysHaveTokens(body, file.tokens)
         /\ req' = [req EXCEPT ![h] =
                [phase |-> "loaded", put |-> puts + 1, body |-> body,
                 old |-> file.tokens, new |-> Nothing, masks |-> Nothing, fd |-> None]]
    /\ puts' = puts + 1
    /\ UNCHANGED <<memory, fs, keyFile, export, up, refused, answered, backup, made,
                   removed, crashes>>

Merge(h) ==
    /\ Stands(h, "loaded")
    /\ req' = [req EXCEPT ![h] =
           [@ EXCEPT !.phase = "merged",
                     !.new = Merged(req[h].body, req[h].old, key),
                     !.masks = MergedMasks(req[h].body, masks)]]
    /\ UNCHANGED <<memory, fs, keyFile, export, up, counts, backup, made, removed, crashes>>

-----------------------------------------------------------------------------
(* SaveConfig.  A step that fails answers SAVE_FAILED.                     *)

\* Fault: the error of SaveConfig is not looked at.
Ignored(h) ==
    /\ req' = [req EXCEPT ![h] = [@ EXCEPT !.phase = "renamed", !.fd = None]]
    /\ refused' = refused

Refuse(h) ==
    /\ req' = [req EXCEPT ![h] = None]
    /\ refused' = refused \cup {req[h].put}

Descriptors == {req[h].fd : h \in {g \in Handlers : req[g] # None}}

OpenFile(h) ==
    /\ Stands(h, "merged")
    /\ \/ \E i \in Fresh(Descriptors \cup {fs.target, fs.tmp}) :
              /\ fs' = OpenTmp(fs, i)
              /\ req' = [req EXCEPT ![h] =
                     [@ EXCEPT !.phase = "opened", !.fd = OpenedInode(fs, i)]]
              /\ refused' = refused
       \/ Refuse(h) /\ fs' = fs
    /\ UNCHANGED <<memory, keyFile, export, up, puts, answered, backup, made, removed,
                   crashes>>

WriteFile(h) ==
    /\ Stands(h, "opened")
    /\ \/ /\ fs' \in Written(fs, req[h].fd, NewConfig(h))
          /\ req' = [req EXCEPT ![h].phase = "written"]
          /\ refused' = refused
       \/ /\ fs' = RemoveTmp(WriteFailed(fs, req[h].fd))
          /\ Refuse(h)
    /\ UNCHANGED <<memory, keyFile, export, up, puts, answered, backup, made, removed,
                   crashes>>

RenameFile(h) ==
    /\ Stands(h, "written")
    /\ \/ /\ fs.tmp # None
          /\ fs' = RenameTmp(fs)
          /\ req' = [req EXCEPT ![h] = [@ EXCEPT !.phase = "renamed", !.fd = None]]
          /\ refused' = refused
       \/ Refuse(h) /\ fs' = fs
    /\ UNCHANGED <<memory, keyFile, export, up, puts, answered, backup, made, removed,
                   crashes>>

-----------------------------------------------------------------------------
(* The swap in memory, one atomic pointer after the other, then Reload.    *)

StoreFile(h) ==
    /\ Stands(h, "renamed")
    /\ file' = NewConfig(h)
    /\ req' = [req EXCEPT ![h].phase = "fileStored"]
    /\ UNCHANGED <<cfg, masks, sched, key, fs, keyFile, export, up, counts, backup, made,
                   removed, crashes>>

StoreCfg(h) ==
    /\ Stands(h, "fileStored")
    /\ cfg' = Runtime(NewConfig(h), key)
    /\ req' = [req EXCEPT ![h].phase = "cfgStored"]
    /\ UNCHANGED <<file, masks, sched, key, fs, keyFile, export, up, counts, backup, made,
                   removed, crashes>>

StoreMasks(h) ==
    /\ Stands(h, "cfgStored")
    /\ masks' = req[h].masks
    /\ req' = [req EXCEPT ![h].phase = "masksStored"]
    /\ UNCHANGED <<file, cfg, sched, key, fs, keyFile, export, up, counts, backup, made,
                   removed, crashes>>

\* onChanged, which is Scheduler.Reload, and the answer 200.
ReloadAndAnswer(h) ==
    /\ Stands(h, "masksStored")
    /\ sched' = Runtime(NewConfig(h), key)
    /\ answered' = req[h].put
    /\ req' = [req EXCEPT ![h] = None]
    /\ UNCHANGED <<file, cfg, masks, key, fs, keyFile, export, up, puts, refused, backup,
                   made, removed, crashes>>

PutStep(h) ==
    \/ LoadOld(h) \/ Merge(h) \/ OpenFile(h) \/ WriteFile(h) \/ RenameFile(h)
    \/ StoreFile(h) \/ StoreCfg(h) \/ StoreMasks(h) \/ ReloadAndAnswer(h)

-----------------------------------------------------------------------------
\* The process dies, while it starts or serves; its memory goes with it.
Crash ==
    /\ up \in {"loaded", "creating", "running"}
    /\ crashes < MaxCrashes
    /\ up' = "down"
    /\ file' = NoConfig
    /\ cfg' = NoConfig
    /\ masks' = Nothing
    /\ sched' = NoConfig
    /\ key' = None
    /\ req' = [h \in Handlers |-> None]
    /\ crashes' = crashes + 1
    /\ UNCHANGED <<fs, keyFile, export, counts, backup, made, removed>>

\* No more PUTs, no more keys, or a configuration that does not load: nothing
\* need happen any more.
Finished ==
    /\ \/ up = "refused"
       \/ up = "loaded" /\ keyFile = None /\ made = MaxKeys
       \/ up = "running" /\ puts = MaxPuts /\ \A h \in Handlers : req[h] = None
    /\ UNCHANGED vars

Next ==
    \/ LoadFile \/ ReadKey \/ CreateKey \/ WriteKey \/ RemoveKey \/ Export
    \/ \E h \in Handlers : PutStep(h)
    \/ Crash \/ Finished

Spec == Init /\ [][Next]_vars

-----------------------------------------------------------------------------
Quiet == up = "running" /\ \A h \in Handlers : req[h] = None

\* config.json always holds a whole configuration: the process can be started
\* again whatever it died in the middle of (AtomicWrite).
DiskLoads == TargetData(fs) \in Config

\* handlePutConfig, "the disk decides": once no PUT is under way, every view in
\* memory, the scheduler's included, is the configuration on disk opened with the
\* process's key, and the page shows a mask for exactly the tokens that open.
MemoryIsDisk ==
    Quiet => /\ file = TargetData(fs)
             /\ cfg = Runtime(file, key)
             /\ sched = cfg
             /\ masks = MaskMap(cfg.tokens)

\* A PUT that was answered SAVE_FAILED left config.json alone (AtomicWrite: the
\* target is not touched when a step fails).
RefusedNotOnDisk == \A p \in refused : ~(TargetData(fs) \in Config /\ TargetData(fs).put = p)

\* A PUT that was answered 200 survives a crash: config.json holds it or a later
\* one.
AnsweredIsDurable ==
    up = "running" /\ answered # 0 => TargetData(fs) \in Config /\ TargetData(fs).put >= answered

\* Where the body of h leaves a token out.
KeptToken(h, k) ==
    req[h].body[k] = Blank /\ TargetData(fs) \in Config
    => NewConfig(h).tokens[k] = TargetData(fs).tokens[k]

RenameKeepsTokens ==
    \A h \in Handlers :
        Stands(h, "written") /\ req'[h] # None /\ req'[h].phase = "renamed"
        => \A k \in Keys : KeptToken(h, k)

\* handlePutConfig, "an empty token keeps the stored one": where the body leaves a
\* token out, the configuration that replaces config.json has the cipher that
\* config.json had up to then.
EmptyTokenKeeps == [][RenameKeepsTokens]_vars

\* EnsureKey: a token on disk can be opened as long as nobody takes key.bin away,
\* whatever start dies or fails between the creation of key.bin and its content:
\* nothing is ever sealed with a key that is not in the file.
SealedCanBeOpened ==
    TargetData(fs) \in Config
    => \A k \in Keys :
           TargetData(fs).tokens[k] \in Ciphers
           => TargetData(fs).tokens[k].key \in {keyFile} \cup removed

\* export.go: importing an export brings back every token that could be read when
\* it was made, on disk and for the scheduler, whatever became of key.bin and of
\* the configuration in between; keys it does not hold are gone.
Imports(h) == Stands(h, "masksStored") /\ req'[h] = None /\ up' = "running"

ImportRestores ==
    [][\A h \in Handlers :
        Imports(h) /\ req[h].body = export
        => \A k \in Keys :
               /\ backup[k] \in Tokens => sched'.tokens[k] = backup[k]
               /\ sched'.tokens[k] = None <=> backup[k] = None]_vars

\* A crash is followed by a start that succeeds, once a damaged key.bin is out of
\* the way.
StartsAgain == up # "refused"
=============================================================================
