---------------------------- MODULE CacheWriter ----------------------------
(***************************************************************************)
(* internal/persist/cache.go, CacheWriter, with its callers: the scheduler *)
(* hands over whole caches without waiting, one goroutine writes the       *)
(* newest to cache.json, and main closes the writer when it stops.         *)
(*                                                                         *)
(* A cache stands for its number in the order of the Saves.  The scheduler *)
(* calls Save with its mutex held, so one Save runs at a time.             *)
(***************************************************************************)
EXTENDS Integers

CONSTANTS
    Inodes,
    Empty, Torn,        \* contents of a file being written
    None,
    MaxSaves,           \* bound: number of Saves
    MaxCrashes          \* bound: number of crashes

ASSUME CacheWriterAssumption ==
    /\ MaxSaves \in Nat
    /\ MaxCrashes \in Nat
    /\ None \notin Nat
    /\ None \notin Inodes
    /\ Empty \notin Nat
    /\ Torn \notin Nat

Caches == 0 .. MaxSaves

INSTANCE AtomicFile WITH Contents <- Caches

VARIABLES
    pending,            \* w.pending
    wake,               \* w.wake holds a token
    stop,               \* w.stop is closed
    writer,             \* where loop stands
    last,               \* the flush under way is the one before the return
    taken,              \* the cache flush took, or None
    fd,                 \* the inode of its open temporary file, or None
    fs,                 \* cache.json and cache.json.tmp
    saving,             \* a Save has stored its cache and not yet sent
    saves,              \* number of the last Save
    main,               \* main: "serving", "closing", "closed"; "crashed"
    atClose,            \* history: the last Save before Close was called
    failed,             \* history: the newest cache a write failed for, or 0
    crashes             \* bound counter

vars == <<pending, wake, stop, writer, last, taken, fd, fs, saving, saves, main,
          atClose, failed, crashes>>

\* cache.json on disk; no file is the cache before the first Save.
OnDisk == IF fs.target = None THEN 0 ELSE fs.data[fs.target]

TypeOK ==
    /\ pending \in Caches \cup {None}
    /\ wake \in BOOLEAN
    /\ stop \in BOOLEAN
    /\ writer \in {"select", "debounce", "flush", "open", "write", "rename", "done"}
    /\ last \in BOOLEAN
    /\ taken \in Caches \cup {None}
    /\ fd \in Inodes \cup {None}
    /\ fs \in FileSystems
    /\ saving \in BOOLEAN
    /\ saves \in Caches
    /\ main \in {"serving", "closing", "closed", "crashed"}
    /\ atClose \in Caches
    /\ failed \in Caches
    /\ crashes \in 0 .. MaxCrashes

Running == main # "crashed"

Init ==
    /\ pending = None
    /\ wake = FALSE
    /\ stop = FALSE
    /\ writer = "select"
    /\ last = FALSE
    /\ taken = None
    /\ fd = None
    /\ fs = [target |-> None, tmp |-> None, data |-> [i \in Inodes |-> Empty]]
    /\ saving = FALSE
    /\ saves = 0
    /\ main = "serving"
    /\ atClose = 0
    /\ failed = 0
    /\ crashes = 0

-----------------------------------------------------------------------------
(* Save: store under the mutex, then send without blocking.  A handler     *)
(* that outlives the 10 s drain may still save while main closes.          *)

SaveStore ==
    /\ Running
    /\ ~saving
    /\ saves < MaxSaves
    /\ saves' = saves + 1
    /\ pending' = saves + 1
    /\ saving' = TRUE
    /\ UNCHANGED <<wake, stop, writer, last, taken, fd, fs, main, atClose, failed, crashes>>

\* Fault: a channel without a buffer; nobody hears the send unless loop waits.
HeardWaiting == wake \/ writer = "select"

TokenAfterSend == TRUE

SaveSend ==
    /\ Running
    /\ saving
    /\ wake' = TokenAfterSend
    /\ saving' = FALSE
    /\ UNCHANGED <<pending, stop, writer, last, taken, fd, fs, saves, main, atClose,
                   failed, crashes>>

-----------------------------------------------------------------------------
(* loop and flush.                                                         *)

Woken ==
    /\ writer = "select"
    /\ wake
    /\ wake' = FALSE
    /\ writer' = "debounce"
    /\ UNCHANGED <<pending, stop, last, taken, fd, fs, saving, saves, main, atClose,
                   failed, crashes>>

Debounced ==
    /\ writer = "debounce"
    /\ writer' = "flush"
    /\ UNCHANGED <<pending, wake, stop, last, taken, fd, fs, saving, saves, main,
                   atClose, failed, crashes>>

\* Fault: the stop ends loop without a flush.
StoppedAtOnce ==
    /\ writer \in {"select", "debounce"}
    /\ stop
    /\ writer' = "done"
    /\ UNCHANGED <<pending, wake, stop, last, taken, fd, fs, saving, saves, main, atClose,
                   failed, crashes>>

\* The stop wins the select, or ends the debounce.
Stopped ==
    /\ writer \in {"select", "debounce"}
    /\ stop
    /\ writer' = "flush"
    /\ last' = TRUE
    /\ UNCHANGED <<pending, wake, stop, taken, fd, fs, saving, saves, main, atClose,
                   failed, crashes>>

AfterFlush == IF last THEN "done" ELSE "select"

FlushTake ==
    /\ writer = "flush"
    /\ taken' = pending
    /\ pending' = None
    /\ writer' = IF pending = None THEN AfterFlush ELSE "open"
    /\ UNCHANGED <<wake, stop, last, fd, fs, saving, saves, main, atClose, failed, crashes>>

\* A failed write is reported and forgotten: the next Save brings a whole cache.
GiveUp ==
    /\ failed' = taken
    /\ taken' = None
    /\ fd' = None
    /\ writer' = AfterFlush

OpenFile ==
    /\ writer = "open"
    /\ \/ \E i \in Fresh({fs.target, fs.tmp}) :
              /\ fs' = OpenTmp(fs, i)
              /\ fd' = OpenedInode(fs, i)
              /\ writer' = "write"
              /\ UNCHANGED <<taken, failed>>
       \/ GiveUp /\ fs' = fs
    /\ UNCHANGED <<pending, wake, stop, last, saving, saves, main, atClose, crashes>>

WriteFile ==
    /\ writer = "write"
    /\ \/ /\ fs' \in Written(fs, fd, taken)
          /\ writer' = "rename"
          /\ UNCHANGED <<taken, fd, failed>>
       \/ /\ fs' = RemoveTmp(WriteFailed(fs, fd))
          /\ GiveUp
    /\ UNCHANGED <<pending, wake, stop, last, saving, saves, main, atClose, crashes>>

RenameFile ==
    /\ writer = "rename"
    /\ \/ /\ fs' = RenameTmp(fs)
          /\ taken' = None
          /\ fd' = None
          /\ writer' = AfterFlush
          /\ failed' = failed
       \/ GiveUp /\ fs' = fs
    /\ UNCHANGED <<pending, wake, stop, last, saving, saves, main, atClose, crashes>>

WriterStep ==
    /\ Running
    /\ Woken \/ Debounced \/ Stopped \/ FlushTake \/ OpenFile \/ WriteFile \/ RenameFile

-----------------------------------------------------------------------------
(* main: Close after the drain, or after 10 s of it; a crash at any time.  *)

Close ==
    /\ main = "serving"
    /\ stop' = TRUE
    /\ main' = "closing"
    /\ atClose' = IF saving THEN saves - 1 ELSE saves
    /\ UNCHANGED <<pending, wake, writer, last, taken, fd, fs, saving, saves, failed,
                   crashes>>

Closed ==
    /\ main = "closing"
    /\ writer = "done"
    /\ main' = "closed"
    /\ UNCHANGED <<pending, wake, stop, writer, last, taken, fd, fs, saving, saves,
                   atClose, failed, crashes>>

Crash ==
    /\ Running
    /\ crashes < MaxCrashes
    /\ main' = "crashed"
    /\ crashes' = crashes + 1
    /\ UNCHANGED <<pending, wake, stop, writer, last, taken, fd, fs, saving, saves,
                   atClose, failed>>

\* The next process: CleanTmp, then a new writer.  What the old one had not
\* written is gone; its numbers are given out again.
Restart ==
    /\ main \in {"crashed", "closed"}
    /\ fs' = RemoveTmp(fs)
    /\ pending' = None
    /\ wake' = FALSE
    /\ stop' = FALSE
    /\ writer' = "select"
    /\ last' = FALSE
    /\ taken' = None
    /\ fd' = None
    /\ saving' = FALSE
    /\ main' = "serving"
    /\ saves' = OnDisk
    /\ atClose' = 0
    /\ failed' = 0
    /\ UNCHANGED crashes

Next ==
    \/ SaveStore \/ SaveSend \/ WriterStep \/ Close \/ Closed \/ Crash \/ Restart

Spec == Init /\ [][Next]_vars

-----------------------------------------------------------------------------
\* Whatever is under cache.json is a whole cache, through every crash and every
\* failed write (AtomicWrite).
DiskIsWhole == fs.target # None => fs.data[fs.target] \in Caches

\* Of all the caches handed over, cache.json holds a whole one and is replaced
\* only by a newer one, through slow writes, Saves made meanwhile, failed steps,
\* crashes and restarts.
Cell == INSTANCE DurableCell WITH given <- saves, stored <- OnDisk

StoresInOrder == Cell!Spec

\* Close: the last cache is on disk when it returns, unless its write failed.
CloseKeepsLast == main = "closed" => OnDisk >= atClose \/ failed >= atClose

\* A cache reaches the disk, itself or a newer one, unless a write fails, the
\* process dies or the writer has stopped.
SavedReachesDisk ==
    \A c \in Caches \ {0} :
        (Running /\ pending = c)
        ~> (OnDisk >= c \/ failed >= c \/ ~Running \/ writer = "done")
=============================================================================
