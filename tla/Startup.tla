------------------------------ MODULE Startup ------------------------------
(***************************************************************************)
(* cmd/quotaclock/main.go, from CleanTmp to the lock, with LoadFile,       *)
(* BackupConfig and SaveConfig of internal/persist: how starts of the      *)
(* program, several at once and each possibly ending anywhere, read,       *)
(* migrate and rewrite one configuration file before any of them has the   *)
(* lock; and how the one that gets it saves settings.                      *)
(*                                                                         *)
(* Every write has the steps of AtomicFile, so that starts which write the *)
(* same file meet under its temporary name.  The lock is one step (Lock    *)
(* has its own).  ConfigSave has the rest of a PUT.                        *)
(***************************************************************************)
EXTENDS Migration

CONSTANTS
    Processes,
    None,               \* no file, no process
    Inodes,
    Empty, Torn,        \* what a file holds while it is written; neither parses
    Files,              \* what config.json may be before the first start
    Flags,              \* command lines: -interval (0: absent), -addr (""), -port (0),
                        \* and whether -admin-password is given
    Bodies,             \* the settings that settings pages send
    MaxStarts,          \* bound: number of starts
    MaxPuts,            \* bound: number of PUTs
    MaxBackups          \* bound: backups of one version

ASSUME StartupAssumption ==
    /\ None \notin Processes \cup Inodes \cup File
    /\ {Empty, Torn} \cap (File \cup {None}) = {}
    /\ Files \subseteq File \cup {None}
    /\ Flags \subseteq [interval : Int, host : Hosts, port : Int, password : BOOLEAN]
    /\ \A s \in Bodies : s \in Settings /\ SettingsValid(s)
    /\ MaxStarts \in Nat /\ MaxPuts \in Nat /\ MaxBackups \in Nat \ {0}

INSTANCE AtomicFile WITH Contents <- File

\* The backups config.json.v<version>-<n>.bak, and config.json.
Slots == [version : 2 .. CurrentVersion, n : 1 .. MaxBackups]

ConfigPath == [version |-> 0, n |-> 0]

Paths == Slots \cup {ConfigPath}

VARIABLES
    original,           \* config.json before the first start; never changes
    disk,               \* path -> the file and the one under its temporary name
    holder,             \* the process that holds the lock
    pc,                 \* process -> where it stands
    stale,              \* process -> the temporary names it is about to remove
    file,               \* process -> the configuration it has in memory
    saving,             \* process -> the configuration it is about to save
    raw,                \* process -> the content it is about to back up
    slot,               \* process -> the backup it is about to write
    fd,                 \* process -> the file it writes to, or None
    synced,             \* process -> it has written that file and may rename it
    flags,              \* process -> its command line
    clashed,            \* history: paths that two processes have written at once
    starts, puts        \* bound counters

memory == <<file, saving, raw, slot, flags>>

counts == <<clashed, starts, puts>>

vars == <<original, disk, holder, pc, stale, memory, fd, synced, counts>>

config == TargetData(disk[ConfigPath])

Backup(s) == TargetData(disk[s])

Migrating == {"backup", "name", "copy", "save"}

Writing == {"template", "copy", "save", "password"}

FirstSlot(version) == [version |-> version, n |-> 1]

NoFlags == [interval |-> 0, host |-> "", port |-> 0, password |-> FALSE]

\* A file at rest, with nothing under its temporary name.
AtRest(inode, content) ==
    [target |-> inode, tmp |-> None,
     data |-> [i \in Inodes |-> IF i = inode THEN content ELSE Empty]]

Init ==
    /\ original \in Files
    /\ \E i \in Fresh({}) :
          disk = [path \in Paths |->
              IF path = ConfigPath /\ original # None
              THEN AtRest(i, original)
              ELSE AtRest(None, None)]
    /\ holder = None
    /\ pc = [p \in Processes |-> "off"]
    /\ stale = [p \in Processes |-> {}]
    /\ file = [p \in Processes |-> None]
    /\ saving = [p \in Processes |-> None]
    /\ raw = [p \in Processes |-> None]
    /\ slot = [p \in Processes |-> FirstSlot(CurrentVersion)]
    /\ fd = [p \in Processes |-> None]
    /\ synced = [p \in Processes |-> FALSE]
    /\ flags = [p \in Processes |-> NoFlags]
    /\ clashed = {}
    /\ starts = 0
    /\ puts = 0

Goto(p, place) == pc' = [pc EXCEPT ![p] = place]

\* The end of a process: refusal, failure, signal or crash.  What a dead holder
\* leaves is taken over (Lock).
Ended(p) ==
    /\ Goto(p, "off")
    /\ holder' = IF holder = p THEN None ELSE holder
    /\ stale' = [stale EXCEPT ![p] = {}]
    /\ file' = [file EXCEPT ![p] = None]
    /\ saving' = [saving EXCEPT ![p] = None]
    /\ raw' = [raw EXCEPT ![p] = None]
    /\ slot' = [slot EXCEPT ![p] = FirstSlot(CurrentVersion)]
    /\ fd' = [fd EXCEPT ![p] = None]
    /\ synced' = [synced EXCEPT ![p] = FALSE]
    /\ flags' = [flags EXCEPT ![p] = NoFlags]
    /\ UNCHANGED <<original, counts>>

-----------------------------------------------------------------------------
(* CleanTmp: what Glob found is removed, one name after the other.  It is  *)
(* not asked whether somebody is writing there.                            *)

Leftovers == {path \in Paths : disk[path].tmp # None}

Begin(p, f) ==
    /\ pc[p] = "off"
    /\ starts < MaxStarts
    /\ starts' = starts + 1
    /\ Goto(p, "clean")
    /\ stale' = [stale EXCEPT ![p] = Leftovers]
    /\ flags' = [flags EXCEPT ![p] = f]
    /\ UNCHANGED <<original, disk, holder, file, saving, raw, slot, fd, synced, clashed,
                   puts>>

RemoveStale(p) ==
    /\ pc[p] = "clean"
    /\ \E path \in stale[p] :
          /\ disk' = [disk EXCEPT ![path] = RemoveTmp(@)]
          /\ stale' = [stale EXCEPT ![p] = @ \ {path}]
    /\ UNCHANGED <<original, holder, pc, memory, fd, synced, counts>>

\* A name that cannot be removed ends the cleaning, not the start.
Cleaned(p) ==
    /\ pc[p] = "clean"
    /\ stale' = [stale EXCEPT ![p] = {}]
    /\ Goto(p, "load")
    /\ UNCHANGED <<original, disk, holder, memory, fd, synced, counts>>

-----------------------------------------------------------------------------
(* LoadFile, and the migration it asks for: computed from what was read.   *)

LoadMissing(p) ==
    /\ pc[p] = "load" /\ config = None
    /\ Goto(p, "template")
    /\ UNCHANGED <<original, disk, holder, stale, memory, fd, synced, counts>>

Parses(content) == content \notin {None, Empty, Torn}

Loads(content) ==
    /\ Parses(content)
    /\ content.version \in 2 .. CurrentVersion
    /\ content.version = CurrentVersion => Validate(content)

LoadCurrent(p) ==
    /\ pc[p] = "load" /\ Loads(config)
    /\ config.version = CurrentVersion
    /\ file' = [file EXCEPT ![p] = config]
    /\ Goto(p, "flags")
    /\ UNCHANGED <<original, disk, holder, stale, saving, raw, slot, fd, synced, flags,
                   counts>>

LoadOlder(p) ==
    /\ pc[p] = "load" /\ Loads(config)
    /\ config.version < CurrentVersion
    /\ saving' = [saving EXCEPT ![p] = Migrate(config)]
    /\ slot' = [slot EXCEPT ![p] = FirstSlot(config.version)]
    /\ Goto(p, "backup")
    /\ UNCHANGED <<original, disk, holder, stale, file, raw, fd, synced, flags, counts>>

LoadRefused(p) ==
    /\ pc[p] = "load" /\ config # None /\ ~Loads(config)
    /\ Ended(p)
    /\ UNCHANGED disk

-----------------------------------------------------------------------------
(* BackupConfig: read, find a free name, write.  The file is read again    *)
(* here, and may be another by now.                                        *)

BackupRead(p) ==
    /\ pc[p] = "backup"
    /\ raw' = [raw EXCEPT ![p] = config]
    /\ Goto(p, "name")
    /\ UNCHANGED <<original, disk, holder, stale, file, saving, slot, fd, synced, flags,
                   counts>>

\* Fault: no look at what is there.
FirstAlways(s) == s.n = 1

FreeSlot(s) ==
    /\ Backup(s) = None
    /\ \A m \in 1 .. s.n - 1 : Backup([s EXCEPT !.n = m]) # None

BackupName(p) ==
    /\ pc[p] = "name"
    /\ \E s \in Slots :
          /\ s.version = slot[p].version /\ FreeSlot(s)
          /\ slot' = [slot EXCEPT ![p] = s]
    /\ Goto(p, "copy")
    /\ UNCHANGED <<original, disk, holder, stale, file, saving, raw, fd, synced, flags,
                   counts>>

-----------------------------------------------------------------------------
(* AtomicWrite, of a template, a backup, a migrated or sent configuration, *)
(* or a password.                                                          *)

Target(p) == IF pc[p] = "copy" THEN slot[p] ELSE ConfigPath

Content(p) ==
    CASE pc[p] = "template" -> Template
      [] pc[p] = "copy" -> raw[p]
      [] pc[p] = "save" -> saving[p]
      [] OTHER -> file[p]

Writes(p, path) == fd[p] # None /\ Target(p) = path

Writers(path) == {p \in Processes : Writes(p, path)}

OpenFile(p) ==
    LET fs == disk[Target(p)] IN
    /\ pc[p] \in Writing /\ fd[p] = None
    /\ \E i \in Fresh({fs.target, fs.tmp} \cup {fd[q] : q \in Writers(Target(p))}) :
          /\ disk' = [disk EXCEPT ![Target(p)] = OpenTmp(fs, i)]
          /\ fd' = [fd EXCEPT ![p] = OpenedInode(fs, i)]
    /\ clashed' = IF Writers(Target(p)) = {} THEN clashed ELSE clashed \cup {Target(p)}
    /\ UNCHANGED <<original, holder, pc, stale, memory, synced, starts, puts>>

WriteFile(p) ==
    /\ fd[p] # None /\ ~synced[p]
    /\ \E fs \in Written(disk[Target(p)], fd[p], Content(p)) :
          disk' = [disk EXCEPT ![Target(p)] = fs]
    /\ synced' = [synced EXCEPT ![p] = TRUE]
    /\ UNCHANGED <<original, holder, pc, stale, memory, fd, counts>>

\* The rename, after which the writer has nothing open any more.
Closed(p) ==
    /\ fd' = [fd EXCEPT ![p] = None]
    /\ synced' = [synced EXCEPT ![p] = FALSE]

Renamed(p) ==
    /\ synced[p] /\ disk[Target(p)].tmp # None
    /\ disk' = [disk EXCEPT ![Target(p)] = RenameTmp(@)]
    /\ Closed(p)

BackupOver(p) ==
    /\ Goto(p, "save")
    /\ raw' = [raw EXCEPT ![p] = None]
    /\ slot' = [slot EXCEPT ![p] = FirstSlot(CurrentVersion)]
    /\ UNCHANGED <<original, holder, stale, file, saving, flags, counts>>

RenameBackup(p) ==
    /\ pc[p] = "copy"
    /\ Renamed(p)
    /\ BackupOver(p)

\* What a save needed is forgotten when it is over.
SaveOver(p, place) ==
    /\ Goto(p, place)
    /\ saving' = [saving EXCEPT ![p] = None]
    /\ raw' = [raw EXCEPT ![p] = None]
    /\ slot' = [slot EXCEPT ![p] = FirstSlot(CurrentVersion)]
    /\ UNCHANGED <<original, holder, stale, flags, counts>>

\* A PUT is answered; a start goes on to its flags, with a new password to the
\* lock.
Onward(p) ==
    CASE holder = p -> "running"
      [] pc[p] = "password" -> "lock"
      [] OTHER -> "flags"

RenameConfig(p) ==
    /\ pc[p] \in Writing \ {"copy"}
    /\ Renamed(p)
    /\ file' = [file EXCEPT ![p] = Content(p)]
    /\ SaveOver(p, Onward(p))

\* A step that fails: a part may be written, and its temporary name is removed;
\* after a failed rename it stays.
HalfWritten(p) == WriteFailed(disk[Target(p)], fd[p])

Unwritten(p) == fd[p] # None /\ ~synced[p]

Failed(p) ==
    /\ IF Unwritten(p)
       THEN disk' = [disk EXCEPT ![Target(p)] = RemoveTmp(HalfWritten(p))]
       ELSE UNCHANGED disk
    /\ Closed(p)

\* An import goes on without a backup; a PUT is refused.
BackupFails(p) ==
    /\ pc[p] \in {"backup", "name", "copy"} /\ holder = p
    /\ Failed(p)
    /\ BackupOver(p)

SaveFails(p) ==
    /\ pc[p] = "save" /\ holder = p
    /\ Failed(p)
    /\ SaveOver(p, "running")
    /\ UNCHANGED file

\* A start ends with a failed write.  What dies in the middle of one leaves a
\* part under the temporary name.
Exit(p) ==
    /\ pc[p] # "off"
    /\ \/ UNCHANGED disk
       \/ /\ Unwritten(p)
          /\ \E fs \in {HalfWritten(p), RemoveTmp(HalfWritten(p))} :
                disk' = [disk EXCEPT ![Target(p)] = fs]
    /\ Ended(p)

-----------------------------------------------------------------------------
(* Flags, the password and the lock; then settings saved while running.    *)

applyOverrides(p, s) ==
    [s EXCEPT !.interval = IF flags[p].interval > 0 THEN flags[p].interval ELSE @,
              !.host = IF flags[p].host # "" THEN flags[p].host ELSE @,
              !.port = IF flags[p].port > 0 THEN flags[p].port ELSE @]

\* -admin-password saves the configuration as the flags have changed it.
ApplyFlags(p) ==
    /\ pc[p] = "flags"
    /\ file' = [file EXCEPT ![p].settings = applyOverrides(p, @)]
    /\ Goto(p, IF flags[p].password THEN "password" ELSE "lock")
    /\ UNCHANGED <<original, disk, holder, stale, saving, raw, slot, fd, synced, flags,
                   counts>>

Acquire(p) ==
    /\ pc[p] = "lock" /\ holder = None
    /\ holder' = p
    /\ Goto(p, "running")
    /\ UNCHANGED <<original, disk, stale, memory, fd, synced, counts>>

AcquireRefused(p) ==
    /\ pc[p] = "lock" /\ holder # None
    /\ Ended(p)
    /\ UNCHANGED disk

\* A PUT that passed Validate; one with an older version's number (an imported
\* export) has the stored file, by now of the current version, backed up first.
Put(p, settings, older) ==
    /\ pc[p] = "running"
    /\ puts < MaxPuts
    /\ puts' = puts + 1
    /\ saving' = [saving EXCEPT ![p] =
           [file[p] EXCEPT !.settings = applyOverrides(p, NormalizeBalance(settings))]]
    /\ slot' = [slot EXCEPT ![p] = FirstSlot(CurrentVersion)]
    /\ Goto(p, IF older THEN "backup" ELSE "save")
    /\ UNCHANGED <<original, disk, holder, stale, file, raw, fd, synced, flags, clashed,
                   starts>>

Step(p) ==
    \/ \E f \in Flags : Begin(p, f)
    \/ RemoveStale(p) \/ Cleaned(p)
    \/ LoadMissing(p) \/ LoadCurrent(p) \/ LoadOlder(p) \/ LoadRefused(p)
    \/ BackupRead(p) \/ BackupName(p)
    \/ OpenFile(p) \/ WriteFile(p)
    \/ RenameBackup(p) \/ BackupFails(p) \/ RenameConfig(p) \/ SaveFails(p)
    \/ ApplyFlags(p) \/ Acquire(p) \/ AcquireRefused(p)
    \/ \E s \in Bodies, older \in BOOLEAN : Put(p, s, older)
    \/ Exit(p)

\* No more starts: nothing need happen any more.
Finished ==
    /\ starts = MaxStarts /\ \A p \in Processes : pc[p] = "off"
    /\ UNCHANGED vars

Next == (\E p \in Processes : Step(p)) \/ Finished

Spec == Init /\ [][Next]_vars

-----------------------------------------------------------------------------
(* Properties.                                                             *)

\* README.md's promise about upgrades: whatever starts overlap, fail or die, at
\* whatever step of a write, the file of the older version is config.json itself
\* or stands in a backup, byte for byte.  Backups are found free in one step and
\* written in others, so a late start may write over one; never over the last
\* copy.  Only two starts that write the same backup at once can lose it (README.md,
\* section 6).
OldFileSurvives ==
    \/ config = original
    \/ original # None /\ original.version < CurrentVersion =>
           \/ \E s \in Slots : Backup(s) = original
           \/ \E s \in clashed : s.version = original.version

\* Migration imports every credential of a known platform once, in order, with
\* its own token and its switch, whatever ids and addresses are grouped.
MigrationKeepsKeys ==
    \A p \in Processes :
        pc[p] \in Migrating /\ holder # p => KeepsKeys(original, saving[p])

\* The inputs for which every start can promise that the next one loads: older
\* files as Migration asks for, and only flags Validate would take (main.go does
\* not ask).
FitInputs ==
    /\ \A f \in Files : f # None => Fit(f)
    /\ \A c \in Flags :
          /\ c.interval <= 0 \/ c.interval >= MinInterval
          /\ c.host \in {"", "address"}
          /\ c.port <= MaxPort

\* What the program itself has written, after migrations, flags, password resets
\* and settings, is a configuration its next start accepts, unless two processes
\* have written config.json at once.
SavedFileLoads ==
    config # original /\ ConfigPath \notin clashed
    => Loads(config) /\ config.version = CurrentVersion
=============================================================================
