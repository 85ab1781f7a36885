--------------------------- MODULE ShutdownProofs ---------------------------
(***************************************************************************)
(* The cache writer implements DurableCell, for any number of Saves,       *)
(* crashes and failing steps: cache.json is always whole and never goes    *)
(* back to an older cache.  The program around the writer is one of the    *)
(* environments it is proved in; and after the stop nothing fetches and    *)
(* nothing that was saved is lost, for any number of keys, handlers and    *)
(* Saves.                                                                  *)
(***************************************************************************)
EXTENDS Shutdown, TLAPS

-----------------------------------------------------------------------------
(* The cache writer.                                                       *)

\* A cache waiting or being written is newer than the one on disk, and a
\* waiting one is newer than the one being written.
Ordered ==
    /\ OnDisk <= saves
    /\ saving => saves > 0
    /\ pending # None => OnDisk < pending /\ pending <= saves
    /\ taken # None => OnDisk < taken /\ taken <= saves
    /\ taken # None /\ pending # None => taken < pending

Writing == writer \in {"open", "write", "rename"}

\* The file descriptor is the temporary file, which is not cache.json.
TmpApart ==
    /\ Writing => taken # None
    /\ fs.tmp # None => fs.tmp # fs.target
    /\ writer \in {"write", "rename"} => fd # None /\ fd = fs.tmp
    /\ writer = "write" => fs.data[fd] = Empty
    /\ writer = "rename" => fs.data[fd] = taken

WriterInv == TypeOK /\ DiskIsWhole /\ Ordered /\ TmpApart

-----------------------------------------------------------------------------
(* The steps of AtomicWrite, on a file system.                             *)

LEMMA OpenTmpEffect ==
    ASSUME NEW f \in FileSystems, NEW i \in Inodes
    PROVE  /\ OpenedInode(f, i) \in Inodes
           /\ OpenTmp(f, i) \in FileSystems
           /\ OpenTmp(f, i).target = f.target
           /\ OpenTmp(f, i).tmp = OpenedInode(f, i)
           /\ OpenTmp(f, i).data = [f.data EXCEPT ![OpenedInode(f, i)] = Empty]
<1>1. OpenedInode(f, i) \in Inodes
  BY CacheWriterAssumption DEF OpenedInode, FileSystems
<1> DEFINE j == OpenedInode(f, i)
<1>3. OpenTmp(f, i) = [target |-> f.target, tmp |-> j, data |-> [f.data EXCEPT ![j] = Empty]]
  BY DEF OpenTmp
<1>4. f.target \in Inodes \cup {None} /\ [f.data EXCEPT ![j] = Empty] \in [Inodes -> Data]
  BY <1>1 DEF FileSystems, Data
<1> HIDE DEF j
<1>5. OpenTmp(f, i) \in FileSystems
  BY <1>1, <1>3, <1>4 DEF FileSystems, j
<1> QED
  BY <1>1, <1>3, <1>5 DEF j

LEMMA DataEffect ==
    ASSUME NEW f \in FileSystems, NEW i \in Inodes, NEW d \in Data
    PROVE  LET g == [f EXCEPT !.data[i] = d] IN
           /\ g \in FileSystems
           /\ g.target = f.target
           /\ g.tmp = f.tmp
           /\ g.data = [f.data EXCEPT ![i] = d]
<1>1. [f EXCEPT !.data[i] = d] =
          [target |-> f.target, tmp |-> f.tmp, data |-> [f.data EXCEPT ![i] = d]]
  BY DEF FileSystems
<1> QED
  BY <1>1 DEF FileSystems

LEMMA TmpEffect ==
    ASSUME NEW f \in FileSystems
    PROVE  /\ RemoveTmp(f) \in FileSystems
           /\ RemoveTmp(f).target = f.target
           /\ RemoveTmp(f).tmp = None
           /\ RemoveTmp(f).data = f.data
           /\ RenameTmp(f) \in FileSystems
           /\ RenameTmp(f).target = f.tmp
           /\ RenameTmp(f).tmp = None
           /\ RenameTmp(f).data = f.data
<1>1. /\ RemoveTmp(f) = [target |-> f.target, tmp |-> None, data |-> f.data]
      /\ RenameTmp(f) = [target |-> f.tmp, tmp |-> None, data |-> f.data]
  BY DEF RemoveTmp, RenameTmp, FileSystems
<1> QED
  BY <1>1 DEF FileSystems

-----------------------------------------------------------------------------
LEMMA WriterInit == Init => WriterInv
<1> SUFFICES ASSUME Init PROVE WriterInv
  OBVIOUS
<1> USE CacheWriterAssumption
<1>1. fs \in FileSystems /\ fs.target = None /\ fs.tmp = None
  <2>1. fs = [target |-> None, tmp |-> None, data |-> [i \in Inodes |-> Empty]]
    BY DEF Init
  <2>2. [i \in Inodes |-> Empty] \in [Inodes -> Data]
    BY DEF Data
  <2> QED
    BY <2>1, <2>2 DEF FileSystems
<1>2. wake \in BOOLEAN /\ stop \in BOOLEAN /\ last \in BOOLEAN /\ saving \in BOOLEAN
  BY Zenon DEF Init
<1>3. /\ pending = None /\ taken = None /\ fd = None /\ writer = "select"
      /\ main = "serving" /\ saves = 0 /\ atClose = 0 /\ failed = 0 /\ crashes = 0
      /\ ~saving
  BY Zenon DEF Init
<1>4. TypeOK
  BY <1>1, <1>2, <1>3 DEF TypeOK, Caches
<1>5. DiskIsWhole /\ Ordered /\ TmpApart
  BY <1>1, <1>3 DEF DiskIsWhole, Ordered, TmpApart, OnDisk, Writing
<1> QED
  BY <1>4, <1>5 DEF WriterInv

LEMMA DiskType ==
    ASSUME WriterInv
    PROVE  OnDisk \in Caches /\ OnDisk \in Nat /\ saves \in Nat
  BY CacheWriterAssumption DEF WriterInv, TypeOK, DiskIsWhole, OnDisk, Caches

\* Steps that leave the files, the descriptor and the number of Saves alone.
LEMMA QuietStep ==
    ASSUME WriterInv, TypeOK',
           UNCHANGED <<fs, fd, saves, pending, taken>>, saving' => saving,
           writer' = writer \/ writer' \notin {"open", "write", "rename"}
    PROVE  WriterInv' /\ OnDisk' = OnDisk
<1>1. OnDisk' = OnDisk /\ DiskIsWhole'
  BY DEF WriterInv, OnDisk, DiskIsWhole
<1>2. Ordered'
  BY <1>1 DEF WriterInv, Ordered
<1>3. TmpApart'
  BY DEF WriterInv, TmpApart, Writing
<1> QED
  BY <1>1, <1>2, <1>3 DEF WriterInv

\* What every step does to the numbers of the abstract cell.
CellStep == [Cell!Next]_<<saves, OnDisk>>

LEMMA SaveStoreStep ==
    ASSUME WriterInv, SaveStore
    PROVE  WriterInv' /\ CellStep
<1> USE CacheWriterAssumption
<1>1. TypeOK'
  BY DEF SaveStore, WriterInv, TypeOK, Caches
<1>2. OnDisk' = OnDisk /\ DiskIsWhole'
  BY DEF SaveStore, WriterInv, OnDisk, DiskIsWhole
<1>3. saves' = saves + 1 /\ pending' = saves + 1 /\ taken' = taken
  BY DEF SaveStore
<1>4. Ordered'
  BY <1>2, <1>3, DiskType DEF WriterInv, TypeOK, Caches, Ordered
<1>5. TmpApart'
  BY DEF SaveStore, WriterInv, TmpApart, Writing
<1>6. CellStep
  BY <1>2, <1>3 DEF CellStep, Cell!Next, Cell!Give
<1> QED
  BY <1>1, <1>2, <1>4, <1>5, <1>6 DEF WriterInv

\* The failing steps of AtomicWrite leave the target alone.
LEMMA GiveUpStep ==
    ASSUME WriterInv, Writing, GiveUp, TypeOK',
           UNCHANGED <<pending, saves, saving>>,
           fs'.target = fs.target,
           fs'.tmp = None \/ fs'.tmp = fs.tmp,
           fs.target # None => fs'.data[fs.target] = fs.data[fs.target]
    PROVE  WriterInv' /\ CellStep
<1>1. OnDisk' = OnDisk /\ DiskIsWhole'
  BY DEF WriterInv, OnDisk, DiskIsWhole
<1>2. Ordered'
  BY <1>1 DEF GiveUp, WriterInv, Ordered
<1>3. TmpApart'
  BY DEF GiveUp, AfterFlush, WriterInv, TmpApart, Writing
<1>4. CellStep
  BY <1>1 DEF CellStep
<1> QED
  BY <1>1, <1>2, <1>3, <1>4 DEF WriterInv

LEMMA OpenStep ==
    ASSUME WriterInv, OpenFile
    PROVE  WriterInv' /\ CellStep
<1>0. fs \in FileSystems /\ Writing
  BY DEF WriterInv, TypeOK, OpenFile, Writing
<1>1. ASSUME NEW i \in Inodes, i # fs.target, i # fs.tmp,
             fs' = OpenTmp(fs, i), fd' = OpenedInode(fs, i), writer' = "write",
             UNCHANGED <<taken, failed>>
      PROVE  WriterInv' /\ CellStep
  <2>1. /\ fs' \in FileSystems /\ fd' \in Inodes
        /\ fs'.target = fs.target /\ fs'.tmp = fd'
        /\ fs'.data = [fs.data EXCEPT ![fd'] = Empty]
    BY <1>0, <1>1, OpenTmpEffect
  <2>2. fd' # fs.target
    BY <1>1 DEF OpenedInode, WriterInv, TmpApart
  <2>3. fd' # None
    BY <2>1, CacheWriterAssumption
  <2>4. TypeOK'
    BY <1>1, <2>1 DEF OpenFile, WriterInv, TypeOK
  <2>5. fs.target # None => fs'.data[fs.target] = fs.data[fs.target]
    BY <1>0, <2>1, <2>2 DEF FileSystems
  <2>6. OnDisk' = OnDisk /\ DiskIsWhole'
    BY <2>1, <2>5 DEF WriterInv, OnDisk, DiskIsWhole
  <2>7. UNCHANGED <<pending, saves, saving>>
    BY DEF OpenFile
  <2>8. Ordered'
    BY <1>1, <2>6, <2>7 DEF WriterInv, Ordered
  <2>9. fs'.data[fd'] = Empty
    BY <1>0, <2>1 DEF FileSystems
  <2>10. TmpApart'
    BY <1>0, <1>1, <2>1, <2>2, <2>3, <2>9 DEF WriterInv, TmpApart, Writing
  <2>11. CellStep
    BY <2>6, <2>7 DEF CellStep
  <2> QED
    BY <2>4, <2>6, <2>8, <2>10, <2>11 DEF WriterInv
<1>2. CASE GiveUp /\ fs' = fs
  <2>1. TypeOK'
    BY <1>2 DEF OpenFile, GiveUp, AfterFlush, WriterInv, TypeOK, TmpApart, Writing
  <2>2. UNCHANGED <<pending, saves, saving>>
    BY DEF OpenFile
  <2> QED
    BY <1>0, <1>2, <2>1, <2>2, GiveUpStep
<1> QED
  BY <1>1, <1>2 DEF OpenFile, Fresh

LEMMA WriteStep ==
    ASSUME WriterInv, WriteFile
    PROVE  WriterInv' /\ CellStep
<1>0. /\ fs \in FileSystems /\ Writing /\ fd \in Inodes /\ fd # None /\ fd = fs.tmp
      /\ fd # fs.target /\ fs.data[fd] = Empty
      /\ taken \in Caches /\ taken \in Data
  BY DEF WriterInv, TypeOK, WriteFile, Writing, TmpApart, Data
<1>1. ASSUME fs' \in Written(fs, fd, taken), writer' = "rename",
             UNCHANGED <<taken, fd, failed>>
      PROVE  WriterInv' /\ CellStep
  <2>1. fs' = [fs EXCEPT !.data[fd] = taken]
    BY <1>0, <1>1 DEF Written
  <2>2. /\ fs' \in FileSystems
        /\ fs'.target = fs.target /\ fs'.tmp = fs.tmp
        /\ fs'.data = [fs.data EXCEPT ![fd] = taken]
    BY <1>0, <2>1, DataEffect
  <2>3. TypeOK'
    BY <1>1, <2>2 DEF WriteFile, WriterInv, TypeOK
  <2>4. fs.target # None => fs'.data[fs.target] = fs.data[fs.target]
    BY <1>0, <2>2 DEF FileSystems
  <2>5. OnDisk' = OnDisk /\ DiskIsWhole'
    BY <2>2, <2>4 DEF WriterInv, OnDisk, DiskIsWhole
  <2>6. UNCHANGED <<pending, saves, saving>>
    BY DEF WriteFile
  <2>7. Ordered'
    BY <1>1, <2>5, <2>6 DEF WriterInv, Ordered
  <2>8. fs'.data[fd] = taken
    BY <1>0, <2>2 DEF FileSystems
  <2>9. TmpApart'
    BY <1>0, <1>1, <2>2, <2>8 DEF WriterInv, TmpApart, Writing
  <2>10. CellStep
    BY <2>5, <2>6 DEF CellStep
  <2> QED
    BY <2>3, <2>5, <2>7, <2>9, <2>10 DEF WriterInv
<1>2. CASE fs' = RemoveTmp(WriteFailed(fs, fd)) /\ GiveUp
  <2> DEFINE torn == WriteFailed(fs, fd)
  <2>1. /\ torn \in FileSystems
        /\ torn.target = fs.target
        /\ torn.data = [fs.data EXCEPT ![fd] = Torn]
    BY <1>0, DataEffect DEF WriteFailed, Data
  <2>2. /\ fs' \in FileSystems
        /\ fs'.target = fs.target /\ fs'.tmp = None /\ fs'.data = torn.data
    <3> HIDE DEF torn
    <3>1. fs' = RemoveTmp(torn)
      BY <1>2 DEF torn
    <3> QED
      BY <2>1, <3>1, TmpEffect
  <2>3. fs.target # None => fs'.data[fs.target] = fs.data[fs.target]
    BY <1>0, <2>1, <2>2 DEF FileSystems
  <2>4. TypeOK'
    BY <1>0, <1>2, <2>2 DEF WriteFile, GiveUp, AfterFlush, WriterInv, TypeOK
  <2>5. UNCHANGED <<pending, saves, saving>>
    BY DEF WriteFile
  <2> QED
    BY <1>0, <1>2, <2>2, <2>3, <2>4, <2>5, GiveUpStep
<1> QED
  BY <1>1, <1>2 DEF WriteFile

LEMMA RenameStep ==
    ASSUME WriterInv, RenameFile
    PROVE  WriterInv' /\ CellStep
<1>0. /\ fs \in FileSystems /\ Writing /\ fd # None /\ fd = fs.tmp
      /\ fs.data[fd] = taken
      /\ taken \in Caches /\ taken \in Nat
  BY CacheWriterAssumption
  DEF WriterInv, TypeOK, RenameFile, Writing, TmpApart, Caches
<1>1. ASSUME fs' = RenameTmp(fs), taken' = None, fd' = None, writer' = AfterFlush,
             failed' = failed
      PROVE  WriterInv' /\ CellStep
  <2>1. /\ fs' \in FileSystems
        /\ fs'.target = fd /\ fs'.tmp = None /\ fs'.data = fs.data
    BY <1>0, <1>1, TmpEffect
  <2>2. TypeOK'
    BY <1>1, <2>1 DEF RenameFile, AfterFlush, WriterInv, TypeOK
  <2>3. OnDisk' = taken /\ DiskIsWhole'
    BY <1>0, <2>1 DEF OnDisk, DiskIsWhole
  <2>4. UNCHANGED <<pending, saves, saving>>
    BY DEF RenameFile
  <2>5. /\ OnDisk < taken /\ taken <= saves /\ (saving => saves > 0)
        /\ pending # None => taken < pending /\ pending <= saves
    BY <1>0 DEF WriterInv, Ordered, TmpApart
  <2>6. Ordered'
    BY <1>1, <2>3, <2>4, <2>5 DEF Ordered
  <2>7. TmpApart'
    BY <1>1, <2>1 DEF TmpApart, Writing, AfterFlush
  <2>8. taken \in OnDisk + 1 .. saves
    BY <1>0, <2>5, DiskType
  <2>9. CellStep
    BY <2>3, <2>4, <2>8 DEF CellStep, Cell!Next, Cell!Store
  <2> QED
    BY <2>2, <2>3, <2>6, <2>7, <2>9 DEF WriterInv
<1>2. CASE GiveUp /\ fs' = fs
  <2>1. TypeOK'
    BY <1>0, <1>2 DEF RenameFile, GiveUp, AfterFlush, WriterInv, TypeOK
  <2>2. UNCHANGED <<pending, saves, saving>>
    BY DEF RenameFile
  <2> QED
    BY <1>0, <1>2, <2>1, <2>2, GiveUpStep
<1> QED
  BY <1>1, <1>2 DEF RenameFile

LEMMA TakeStep ==
    ASSUME WriterInv, FlushTake
    PROVE  WriterInv' /\ CellStep
<1>1. TypeOK'
  BY DEF FlushTake, AfterFlush, WriterInv, TypeOK
<1>2. OnDisk' = OnDisk /\ DiskIsWhole'
  BY DEF FlushTake, WriterInv, OnDisk, DiskIsWhole
<1>3. Ordered'
  BY <1>2 DEF FlushTake, WriterInv, Ordered
<1>4. TmpApart'
  BY DEF FlushTake, AfterFlush, WriterInv, TmpApart, Writing
<1>5. CellStep
  BY <1>2 DEF CellStep, FlushTake
<1> QED
  BY <1>1, <1>2, <1>3, <1>4, <1>5 DEF WriterInv

\* CleanTmp, and a new process that numbers its Saves from what is stored.
LEMMA RestartStep ==
    ASSUME WriterInv, Restart
    PROVE  WriterInv' /\ CellStep
<1>1. /\ fs' \in FileSystems
      /\ fs'.target = fs.target /\ fs'.tmp = None /\ fs'.data = fs.data
  BY TmpEffect DEF Restart, WriterInv, TypeOK
<1>2. OnDisk' = OnDisk /\ DiskIsWhole'
  BY <1>1 DEF WriterInv, OnDisk, DiskIsWhole
<1>3. TypeOK'
  <2>1. (wake \in BOOLEAN /\ stop \in BOOLEAN /\ last \in BOOLEAN /\ saving \in BOOLEAN)'
    BY Zenon DEF Restart
  <2>2. /\ pending' = None /\ taken' = None /\ fd' = None /\ writer' = "select"
        /\ main' = "serving" /\ saves' = OnDisk /\ atClose' = 0 /\ failed' = 0
        /\ crashes' = crashes
    BY Zenon DEF Restart
  <2> QED
    BY <1>1, <2>1, <2>2, DiskType, CacheWriterAssumption DEF WriterInv, TypeOK, Caches
<1>4. Ordered' /\ TmpApart'
  BY <1>1, <1>2, DiskType DEF Restart, Ordered, TmpApart, Writing
<1>5. CellStep
  BY <1>2 DEF CellStep, Cell!Next, Cell!Lose, Restart
<1> QED
  BY <1>2, <1>3, <1>4, <1>5 DEF WriterInv

LEMMA WriterNext ==
    ASSUME WriterInv, [Next]_vars
    PROVE  WriterInv' /\ CellStep
<1>1. ASSUME SaveSend \/ Woken \/ Debounced \/ Stopped \/ Close \/ Closed \/ Crash
             \/ UNCHANGED vars
      PROVE  WriterInv' /\ CellStep
  <2>1. /\ UNCHANGED <<fs, fd, saves, pending, taken>> /\ (saving' => saving)
        /\ writer' = writer \/ writer' \notin {"open", "write", "rename"}
    BY <1>1 DEF SaveSend, Woken, Debounced, Stopped, Close, Closed, Crash, vars
  <2>2. TypeOK'
    <3>1. (wake \in BOOLEAN /\ stop \in BOOLEAN /\ last \in BOOLEAN /\ saving \in BOOLEAN)'
      BY <1>1, Zenon DEF SaveSend, TokenAfterSend, Woken, Debounced, Stopped, Close, Closed,
                         Crash, vars, WriterInv, TypeOK
    <3>2. (/\ writer \in {"select", "debounce", "flush", "open", "write", "rename", "done"}
           /\ main \in {"serving", "closing", "closed", "crashed"})'
      BY <1>1 DEF SaveSend, Woken, Debounced, Stopped, Close, Closed, Crash, vars, WriterInv,
                  TypeOK
    <3>3. atClose' \in Caches /\ failed' \in Caches /\ crashes' \in 0 .. MaxCrashes
      <4>1. CASE Close /\ saving
        BY <4>1, CacheWriterAssumption DEF Close, WriterInv, TypeOK, Ordered, Caches
      <4>2. CASE ~(Close /\ saving)
        BY <1>1, <4>2, CacheWriterAssumption
        DEF SaveSend, Woken, Debounced, Stopped, Close, Closed, Crash, vars, WriterInv, TypeOK
      <4> QED
        BY <4>1, <4>2
    <3> QED
      BY <2>1, <3>1, <3>2, <3>3 DEF WriterInv, TypeOK
  <2> QED
    BY <2>1, <2>2, QuietStep DEF CellStep
<1> QED
  BY <1>1, SaveStoreStep, OpenStep, WriteStep, RenameStep, TakeStep, RestartStep
  DEF Next, WriterStep

-----------------------------------------------------------------------------
(* What Close keeps.  The newest cache is always somewhere: waiting, being *)
(* written, on disk, or lost with a failed write.  Once the last flush has *)
(* begun this is so for the newest one at Close, and no later Save can put *)
(* it back among the waiting.                                              *)

\* The write that failed last was older than what waits or is being written.
FailedOld ==
    /\ failed <= saves
    /\ taken # None => failed < taken
    /\ pending # None => failed < pending

Settled(c) == OnDisk >= c \/ failed >= c

NewestKept ==
    Settled(saves) \/ (taken # None /\ taken >= saves) \/ (pending # None /\ pending >= saves)

Stopping == main \in {"closing", "closed"}

LastFlush ==
    /\ last => stop
    /\ stop => main # "serving"
    /\ writer = "done" => last
    /\ last => writer \notin {"select", "debounce"}
    /\ writer \in {"select", "debounce", "flush", "done"} => taken = None
    /\ main = "closed" => writer = "done"
    /\ Stopping => atClose <= saves
    /\ Stopping /\ writer = "done" => Settled(atClose)
    /\ Stopping /\ last /\ Writing => Settled(atClose) \/ taken >= atClose

CloseInv == WriterInv /\ FailedOld /\ NewestKept /\ LastFlush

LEMMA CloseInit == Init => CloseInv
<1> SUFFICES ASSUME Init PROVE CloseInv
  OBVIOUS
<1>1. WriterInv
  BY WriterInit
<1>2. /\ pending = None /\ taken = None /\ writer = "select" /\ main = "serving"
      /\ saves = 0 /\ atClose = 0 /\ failed = 0 /\ ~last /\ ~stop
  BY Zenon DEF Init
<1>3. FailedOld /\ NewestKept /\ LastFlush
  BY <1>2 DEF FailedOld, NewestKept, LastFlush, Settled, Stopping, Writing
<1> QED
  BY <1>1, <1>3 DEF CloseInv

LEMMA CloseTypes ==
    ASSUME WriterInv
    PROVE  /\ saves \in Nat /\ failed \in Nat /\ atClose \in Nat /\ OnDisk \in Nat
           /\ pending # None => pending \in Nat
           /\ taken # None => taken \in Nat
           /\ saving => saves > 0
           /\ Writing => taken # None
  BY DiskType, CacheWriterAssumption DEF WriterInv, TypeOK, Caches, Ordered, TmpApart

LEMMA RenameStores ==
    ASSUME WriterInv, writer = "rename", fs' = RenameTmp(fs)
    PROVE  OnDisk' = taken
<1>1. fs \in FileSystems /\ fd # None /\ fd = fs.tmp /\ fs.data[fd] = taken
  BY DEF WriterInv, TypeOK, Writing, TmpApart
<1>2. fs'.target = fd /\ fs'.data = fs.data
  BY <1>1, TmpEffect
<1> QED
  BY <1>1, <1>2 DEF OnDisk

LEMMA DiskGrows ==
    ASSUME WriterInv, [Next]_vars
    PROVE  OnDisk' \in Nat /\ OnDisk' >= OnDisk
<1>1. WriterInv' /\ CellStep
  BY WriterNext
<1>2. OnDisk \in Nat /\ saves \in Nat /\ OnDisk' \in Nat
  BY <1>1, DiskType, CacheWriterAssumption
  DEF WriterInv, TypeOK, DiskIsWhole, OnDisk, Caches
<1> QED
  BY <1>1, <1>2 DEF CellStep, Cell!Next, Cell!Give, Cell!Store, Cell!Lose

\* A write that fails, or succeeds, settles what was taken.
LEMMA WriteEnds ==
    ASSUME CloseInv, [Next]_vars, Writing, UNCHANGED <<pending, saves, last, stop, main, atClose>>,
           writer' = AfterFlush, taken' = None,
           failed' = taken \/ (failed' = failed /\ OnDisk' >= taken)
    PROVE  FailedOld' /\ NewestKept' /\ LastFlush'
<1>1. /\ saves \in Nat /\ failed \in Nat /\ atClose \in Nat /\ OnDisk \in Nat
      /\ pending # None => pending \in Nat
      /\ taken \in Nat /\ taken # None /\ taken <= saves
      /\ pending # None => taken < pending
  BY CloseTypes DEF CloseInv, WriterInv, Ordered
<1>2. OnDisk' \in Nat /\ OnDisk' >= OnDisk
  BY DiskGrows DEF CloseInv
<1>3. failed < taken
  BY <1>1 DEF CloseInv, FailedOld
<1>4. \A c \in Nat : Settled(c) \/ taken >= c => Settled(c)'
  BY <1>1, <1>2, <1>3 DEF Settled
<1>5. FailedOld'
  BY <1>1, <1>3 DEF CloseInv, FailedOld
<1>6. NewestKept'
  BY <1>1, <1>4 DEF CloseInv, NewestKept
<1>7. LastFlush'
  BY <1>1, <1>4 DEF CloseInv, LastFlush, AfterFlush, Stopping, Writing
<1> QED
  BY <1>5, <1>6, <1>7

LEMMA CloseNext ==
    ASSUME CloseInv, [Next]_vars
    PROVE  CloseInv'
<1>0. WriterInv /\ WriterInv'
  BY WriterNext DEF CloseInv
<1>1. /\ saves \in Nat /\ failed \in Nat /\ atClose \in Nat /\ OnDisk \in Nat
      /\ pending # None => pending \in Nat
      /\ taken # None => taken \in Nat
      /\ saving => saves > 0
      /\ Writing => taken # None
  BY <1>0, CloseTypes
<1>2. OnDisk' \in Nat /\ OnDisk' >= OnDisk
  BY <1>0, DiskGrows
<1>s. ASSUME failed' = failed PROVE \A c \in Nat : Settled(c) => Settled(c)'
  BY <1>1, <1>2, <1>s DEF Settled
<1> SUFFICES FailedOld' /\ NewestKept' /\ LastFlush'
  BY <1>0 DEF CloseInv
<1>3. CASE SaveStore
  <2>1. failed' = failed /\ saves' = saves + 1 /\ pending' = saves + 1 /\ taken' = taken
        /\ saves + 1 # None
    BY <1>1, <1>3, CacheWriterAssumption DEF SaveStore
  <2>2. FailedOld' /\ NewestKept'
    BY <1>1, <2>1 DEF CloseInv, FailedOld, NewestKept
  <2>3. LastFlush'
    BY <1>1, <1>3, <2>1, <1>s DEF SaveStore, CloseInv, LastFlush, Stopping, Writing
  <2> QED
    BY <2>2, <2>3
<1>4. CASE SaveSend \/ Woken \/ Debounced \/ Stopped \/ Closed \/ UNCHANGED vars
  <2>1. UNCHANGED <<failed, saves, pending, taken, atClose>>
    BY <1>4 DEF SaveSend, Woken, Debounced, Stopped, Closed, vars
  <2>2. FailedOld' /\ NewestKept'
    BY <1>1, <2>1, <1>s DEF CloseInv, FailedOld, NewestKept
  <2>3. LastFlush'
    BY <1>1, <1>4, <2>1, <1>s
    DEF SaveSend, Woken, Debounced, Stopped, Closed, vars, CloseInv, LastFlush, Stopping, Writing
  <2> QED
    BY <2>2, <2>3
<1>5. CASE FlushTake
  <2>1. UNCHANGED <<failed, saves, atClose, last, stop, main>> /\ taken' = pending
        /\ pending' = None /\ writer = "flush" /\ taken = None
        /\ writer' = IF pending = None THEN AfterFlush ELSE "open"
    BY <1>5 DEF FlushTake, CloseInv, LastFlush
  <2>2. FailedOld' /\ NewestKept'
    BY <1>1, <2>1, <1>s DEF CloseInv, FailedOld, NewestKept
  <2>3. Stopping => Settled(atClose) \/ (pending # None /\ pending >= atClose)
    BY <1>1, <2>1 DEF CloseInv, NewestKept, LastFlush, Settled
  <2>4. LastFlush'
    BY <1>1, <2>1, <2>3, <1>s DEF AfterFlush, CloseInv, LastFlush, Stopping, Writing
  <2> QED
    BY <2>2, <2>4
<1>6. ASSUME OpenFile \/ WriteFile \/ RenameFile PROVE FailedOld' /\ NewestKept' /\ LastFlush'
  <2>0. Writing /\ UNCHANGED <<pending, saves, last, stop, main, atClose>>
    BY <1>6 DEF OpenFile, WriteFile, RenameFile, Writing
  <2>1. CASE GiveUp
    BY <2>0, <2>1, WriteEnds DEF GiveUp
  <2>2. CASE writer' \in {"write", "rename"} /\ UNCHANGED <<taken, failed>>
    <3>1. FailedOld' /\ NewestKept'
      BY <1>1, <2>0, <2>2, <1>s DEF CloseInv, FailedOld, NewestKept
    <3>2. LastFlush'
      BY <1>1, <2>0, <2>2, <1>s DEF CloseInv, LastFlush, Stopping, Writing
    <3> QED
      BY <3>1, <3>2
  <2>3. CASE writer = "rename" /\ fs' = RenameTmp(fs) /\ taken' = None /\ failed' = failed
             /\ writer' = AfterFlush
    <3>1. OnDisk' = taken
      BY <1>0, <2>3, RenameStores
    <3> QED
      BY <1>1, <2>0, <2>3, <3>1, WriteEnds
  <2> QED
    BY <1>6, <2>1, <2>2, <2>3 DEF OpenFile, WriteFile, RenameFile
<1>7. CASE Close
  <2>1. UNCHANGED <<failed, saves, pending, taken, last, writer>> /\ stop' = TRUE
        /\ main = "serving" /\ main' = "closing"
        /\ atClose' = IF saving THEN saves - 1 ELSE saves
    BY <1>7 DEF Close
  <2>2. FailedOld' /\ NewestKept'
    BY <1>1, <2>1, <1>s DEF CloseInv, FailedOld, NewestKept
  <2>3. ~last /\ writer # "done" /\ atClose' <= saves
    BY <1>1, <2>1 DEF CloseInv, LastFlush
  <2>4. LastFlush'
    BY <2>1, <2>3 DEF CloseInv, LastFlush, Stopping, Writing
  <2> QED
    BY <2>2, <2>4
<1>8. CASE Crash
  <2>1. UNCHANGED <<failed, saves, pending, taken, last, stop, writer>> /\ main' = "crashed"
    BY <1>8 DEF Crash
  <2>2. FailedOld' /\ NewestKept'
    BY <1>1, <2>1, <1>s DEF CloseInv, FailedOld, NewestKept
  <2>3. LastFlush'
    BY <2>1 DEF CloseInv, LastFlush, Stopping, Writing
  <2> QED
    BY <2>2, <2>3
<1>9. CASE Restart
  <2>1. pending' = None /\ taken' = None /\ failed' = 0 /\ saves' = OnDisk /\ ~last' /\ ~stop'
        /\ writer' = "select" /\ main' = "serving"
    BY <1>9, Zenon DEF Restart
  <2>2. FailedOld' /\ NewestKept'
    BY <1>1, <1>2, <2>1 DEF FailedOld, NewestKept, Settled
  <2>3. LastFlush'
    BY <2>1 DEF LastFlush, Stopping, Writing
  <2> QED
    BY <2>2, <2>3
<1> QED
  BY <1>3, <1>4, <1>5, <1>6, <1>7, <1>8, <1>9 DEF Next, WriterStep

LEMMA CloseKeeps == ASSUME CloseInv PROVE CloseKeepsLast
  BY DEF CloseInv, LastFlush, Stopping, Settled, CloseKeepsLast

-----------------------------------------------------------------------------
\* AtomicWrite under one writer: cache.json holds a whole cache at every moment,
\* for any number of Saves and crashes.
THEOREM DiskAlwaysWhole == Spec => []DiskIsWhole
<1>1. Init => WriterInv
  BY WriterInit
<1>2. WriterInv /\ [Next]_vars => WriterInv'
  BY WriterNext
<1>3. WriterInv => DiskIsWhole
  BY DEF WriterInv
<1> QED
  BY <1>1, <1>2, <1>3, PTL DEF Spec

\* CacheWriter implements DurableCell.
THEOREM WriterImplementsCell == Spec => StoresInOrder
<1>1. Init => WriterInv
  BY WriterInit
<1>2. WriterInv /\ [Next]_vars => WriterInv' /\ [Cell!Next]_<<saves, OnDisk>>
  BY WriterNext DEF CellStep
<1>3. Init => Cell!Init
  BY DEF Init, Cell!Init, OnDisk
<1> QED
  BY <1>1, <1>2, <1>3, PTL DEF Spec, StoresInOrder, Cell!Spec

\* Close: when it returns the cache handed over last is on disk, or a write of it
\* or of a newer one has failed.
THEOREM CloseAlwaysKeepsLast == Spec => []CloseKeepsLast
<1>1. Init => CloseInv
  BY CloseInit
<1>2. CloseInv /\ [Next]_vars => CloseInv'
  BY CloseNext
<1>3. CloseInv => CloseKeepsLast
  BY CloseKeeps
<1> QED
  BY <1>1, <1>2, <1>3, PTL DEF Spec

-----------------------------------------------------------------------------
(* The program around it.                                                  *)

LifeType ==
    /\ job \in [Jobs -> {"none", "waiting", "fetching", "saving"}]
    /\ req \in [Handlers -> {"none", "busy", "saving"}]

\* Outside a tick there is no job, and none fetches once Wait has returned.
RunOrder ==
    /\ run # "collecting" => \A j \in Jobs : job[j] = "none"
    /\ waited => Cancelled
    /\ NoFetchAfterWait

\* Who is inside Save, and what main has waited for before Close.
StopOrder ==
    /\ saving /\ Alive => (\E j \in Jobs : job[j] = "saving")
                          \/ (\E h \in Handlers : req[h] = "saving")
    /\ main # "serving" /\ Alive => waited /\ drain \in {"drained", "timedout"}
    /\ drain = "drained" => \A h \in Handlers : req[h] = "none"
    /\ Stopping /\ drain = "drained" => atClose >= saves
    /\ Alive => main # "crashed"

ShutdownInv == CloseInv /\ LifeType /\ RunOrder /\ StopOrder

\* Every step of the program is a step of the writer's model, or none.
LEMMA StepOfWriter == ShutdownNext => [Next]_vars
  BY DEF ShutdownNext, StartRun, PlanTick, TickDone, NextTick, RunReturns, JobStep,
         StartFetch, AbortJob, FetchFails, FetchOk, JobSaved, HandlerStep, Accept,
         HandlerSaves, HandlerSaved, HandlerRefuses, Signal, MainStep, StartDrain,
         EndDrain, SchedWait, CloseWriter, WriterClosed, ReleaseLock, Exit, Kill,
         NextProcess, Next

LEMMA StopInit == ShutdownInit => ShutdownInv
<1> SUFFICES ASSUME ShutdownInit PROVE ShutdownInv
  OBVIOUS
<1>1. CloseInv
  BY CloseInit DEF ShutdownInit
<1>2. ~saving /\ main = "serving"
  BY Zenon DEF ShutdownInit, Init
<1>3. ~waited
  BY Zenon DEF ShutdownInit
<1> QED
  BY <1>1, <1>2, <1>3 DEF ShutdownInit, ShutdownInv, LifeType, RunOrder, StopOrder,
     NoFetchAfterWait, Stopping

LEMMA WriterQuiet ==
    ASSUME WriterStep
    PROVE  UNCHANGED <<saving, saves, main, atClose>>
  BY DEF WriterStep, Woken, Debounced, Stopped, FlushTake, OpenFile, WriteFile, RenameFile

LEMMA StopNext ==
    ASSUME ShutdownInv, [ShutdownNext]_allVars
    PROVE  ShutdownInv'
<1>0. CloseInv'
  <2>1. CASE ShutdownNext
    BY <2>1, StepOfWriter, CloseNext DEF ShutdownInv
  <2>2. CASE UNCHANGED allVars
    BY <2>2, CloseNext DEF ShutdownInv, allVars
  <2> QED
    BY <2>1, <2>2
<1>t. saves \in Nat /\ atClose \in Nat
  BY CloseTypes DEF ShutdownInv, CloseInv
<1> SUFFICES LifeType' /\ RunOrder' /\ StopOrder'
  BY <1>0 DEF ShutdownInv
<1>1. CASE StartRun \/ TickDone \/ NextTick \/ RunReturns
  <2>1. UNCHANGED <<vars, life, job, req, drain, waited>>
    BY <1>1 DEF StartRun, TickDone, NextTick, RunReturns
  <2>2. run' # "collecting" => \A j \in Jobs : job[j] = "none"
    BY <1>1 DEF StartRun, TickDone, NextTick, RunReturns, ShutdownInv, LifeType, RunOrder, Idle
  <2> QED
    BY <2>1, <2>2 DEF vars, ShutdownInv, LifeType, RunOrder, StopOrder, NoFetchAfterWait,
       Cancelled, Alive, Stopping
<1>2. CASE PlanTick
  <2>1. UNCHANGED <<vars, life, req, drain, waited>> /\ run' = "collecting"
        /\ run = "plan" /\ job' \in [Jobs -> {"none", "waiting"}]
    BY <1>2 DEF PlanTick
  <2>2. \A j \in Jobs : job[j] = "none"
    BY <2>1 DEF ShutdownInv, RunOrder
  <2> QED
    BY <2>1, <2>2 DEF vars, ShutdownInv, LifeType, RunOrder, StopOrder, NoFetchAfterWait,
       Cancelled, Alive, Stopping
<1>3. ASSUME NEW j \in Jobs, JobStep(j) PROVE LifeType' /\ RunOrder' /\ StopOrder'
  <2>0. run = "collecting" /\ UNCHANGED <<life, run, req, drain, waited, main, atClose>>
    BY <1>3 DEF JobStep, StartFetch, AbortJob, FetchFails, FetchOk, JobSaved, vars, SaveStore,
                SaveSend, ShutdownInv, RunOrder
  <2>1. CASE StartFetch(j) \/ AbortJob(j) \/ FetchFails(j)
    <3>1. UNCHANGED <<saving, saves>> /\ job[j] # "saving"
      BY <2>1 DEF StartFetch, AbortJob, FetchFails, vars
    <3>2. \/ job' = [job EXCEPT ![j] = "none"]
          \/ ~Cancelled /\ job' = [job EXCEPT ![j] = "fetching"]
      BY <2>1, Zenon DEF StartFetch, AbortJob, FetchFails, MayFetch
    <3>3. LifeType' /\ RunOrder'
      BY <2>0, <3>1, <3>2 DEF ShutdownInv, LifeType, RunOrder, NoFetchAfterWait, Cancelled
    <3>4. StopOrder'
      BY <2>0, <3>1, <3>2 DEF ShutdownInv, LifeType, StopOrder, Alive, Stopping
    <3> QED
      BY <3>3, <3>4
  <2>2. CASE FetchOk(j)
    <3>1. Alive /\ job[j] = "fetching" /\ job' = [job EXCEPT ![j] = "saving"] /\ ~waited
      BY <2>2 DEF FetchOk, ShutdownInv, RunOrder, NoFetchAfterWait
    <3>2. main = "serving"
      BY <3>1 DEF ShutdownInv, StopOrder
    <3> QED
      BY <2>0, <3>1, <3>2 DEF ShutdownInv, LifeType, RunOrder, StopOrder, NoFetchAfterWait,
         Cancelled, Alive, Stopping
  <2>3. CASE JobSaved(j)
    <3>1. job' = [job EXCEPT ![j] = "none"] /\ saves' = saves
      BY <2>3 DEF JobSaved, SaveSend
    <3>2. ~saving'
      BY <2>3, Zenon DEF JobSaved, SaveSend
    <3>3. LifeType' /\ RunOrder'
      BY <2>0, <3>1 DEF ShutdownInv, LifeType, RunOrder, NoFetchAfterWait, Cancelled
    <3>4. StopOrder'
      BY <2>0, <3>1, <3>2 DEF ShutdownInv, StopOrder, Alive, Stopping
    <3> QED
      BY <3>3, <3>4
  <2> QED
    BY <1>3, <2>1, <2>2, <2>3 DEF JobStep
<1>4. ASSUME NEW h \in Handlers, HandlerStep(h) PROVE LifeType' /\ RunOrder' /\ StopOrder'
  <2>0. UNCHANGED <<life, run, job, drain, waited, main, atClose>>
    BY <1>4 DEF HandlerStep, Accept, HandlerSaves, HandlerSaved, HandlerRefuses, vars,
                SaveStore, SaveSend
  <2>1. LifeType' /\ RunOrder'
    BY <1>4, <2>0 DEF HandlerStep, Accept, HandlerSaves, HandlerSaved, HandlerRefuses,
       ShutdownInv, LifeType, RunOrder, NoFetchAfterWait, Cancelled
  <2>2. CASE Accept(h) \/ HandlerRefuses(h)
    <3>1. UNCHANGED <<saving, saves>> /\ req[h] # "saving" /\ (drain = "no" \/ req' = [req EXCEPT ![h] = "none"])
          /\ req' \in {[req EXCEPT ![h] = "none"], [req EXCEPT ![h] = "busy"]}
      BY <2>2 DEF Accept, HandlerRefuses, vars
    <3> QED
      BY <2>0, <2>1, <3>1 DEF ShutdownInv, LifeType, StopOrder, Alive, Stopping
  <2>3. CASE HandlerSaves(h)
    <3>1. req[h] = "busy" /\ req' = [req EXCEPT ![h] = "saving"] /\ drain # "drained"
      BY <2>3 DEF HandlerSaves, ShutdownInv, StopOrder
    <3> QED
      BY <2>0, <2>1, <3>1 DEF ShutdownInv, LifeType, StopOrder, Alive, Stopping
  <2>4. CASE HandlerSaved(h)
    <3>1. req' = [req EXCEPT ![h] = "none"] /\ ~saving' /\ saves' = saves
      BY <2>4, Zenon DEF HandlerSaved, SaveSend
    <3> QED
      BY <2>0, <2>1, <3>1 DEF ShutdownInv, LifeType, StopOrder, Alive, Stopping
  <2> QED
    BY <1>4, <2>1, <2>2, <2>3, <2>4 DEF HandlerStep
<1>5. CASE WriterStep /\ UNCHANGED mainVars
  BY <1>5, WriterQuiet DEF mainVars, ShutdownInv, LifeType, RunOrder, StopOrder,
     NoFetchAfterWait, Cancelled, Alive, Stopping
<1>6. CASE Signal \/ StartDrain \/ ReleaseLock
  <2>1. UNCHANGED <<vars, run, job, req, waited>> /\ Alive
    BY <1>6 DEF Signal, StartDrain, ReleaseLock, Alive
  <2>2. /\ life' # "up" /\ life' # "gone" /\ main # "crashed"
        /\ drain' = drain \/ (drain = "no" /\ drain' = "open")
    BY <1>6, <2>1 DEF Signal, StartDrain, ReleaseLock, ShutdownInv, StopOrder
  <2> QED
    BY <2>1, <2>2 DEF vars, ShutdownInv, LifeType, RunOrder, StopOrder, NoFetchAfterWait,
       Cancelled, Alive, Stopping
<1>7. CASE EndDrain
  <2>1. UNCHANGED <<vars, life, run, job, req, waited>> /\ drain = "open" /\ Alive
        /\ drain' = IF Idle(req) THEN "drained" ELSE "timedout"
    BY <1>7 DEF EndDrain, DrainOutcome, Alive
  <2>2. main = "serving"
    BY <2>1 DEF ShutdownInv, StopOrder
  <2>3. drain' = "drained" => \A h \in Handlers : req[h] = "none"
    BY <2>1 DEF ShutdownInv, LifeType, Idle
  <2> QED
    BY <2>1, <2>2, <2>3 DEF vars, ShutdownInv, LifeType, RunOrder, StopOrder,
       NoFetchAfterWait, Cancelled, Alive, Stopping
<1>8. CASE SchedWait
  <2>1. UNCHANGED <<vars, life, run, job, req, drain>> /\ waited' = TRUE /\ life = "stopping"
        /\ run # "collecting"
    BY <1>8 DEF SchedWait, SchedulerIdle
  <2> QED
    BY <2>1 DEF vars, ShutdownInv, LifeType, RunOrder, StopOrder, NoFetchAfterWait,
       Cancelled, Alive, Stopping
<1>9. CASE CloseWriter
  <2>1. UNCHANGED <<life, run, job, req, drain, waited>> /\ life = "stopping" /\ waited
        /\ drain \in {"drained", "timedout"} /\ UNCHANGED <<saving, saves>>
        /\ main' = "closing" /\ atClose' = IF saving THEN saves - 1 ELSE saves
    BY <1>9 DEF CloseWriter, Close, mainVars
  <2>2. \A j \in Jobs : job[j] # "saving"
    BY <2>1 DEF ShutdownInv, RunOrder, NoFetchAfterWait
  <2>3. drain = "drained" => ~saving
    BY <2>1, <2>2 DEF ShutdownInv, StopOrder, Alive
  <2> QED
    BY <1>t, <2>1, <2>3 DEF ShutdownInv, LifeType, RunOrder, StopOrder, NoFetchAfterWait,
       Cancelled, Alive, Stopping
<1>10. CASE WriterClosed
  <2>1. UNCHANGED <<life, run, job, req, drain, waited, saving, saves, atClose>>
        /\ main = "closing" /\ main' = "closed"
    BY <1>10 DEF WriterClosed, Closed, mainVars
  <2> QED
    BY <2>1 DEF ShutdownInv, LifeType, RunOrder, StopOrder, NoFetchAfterWait,
       Cancelled, Alive, Stopping
<1>11. CASE Exit \/ Kill
  <2>1. Vanish
    BY <1>11 DEF Exit, Kill
  <2>2. ~waited'
    BY <2>1, Zenon DEF Vanish
  <2> QED
    BY <2>1, <2>2 DEF Vanish, LifeType, RunOrder, StopOrder, NoFetchAfterWait, Alive
<1>12. CASE NextProcess
  <2>1. StartMain /\ main' = "serving"
    BY <1>12 DEF NextProcess, Restart
  <2>2. ~waited' /\ ~saving'
    BY <1>12, Zenon DEF NextProcess, StartMain, Restart
  <2> QED
    BY <2>1, <2>2 DEF StartMain, LifeType, RunOrder, StopOrder, NoFetchAfterWait, Stopping
<1>13. CASE UNCHANGED allVars
  BY <1>13 DEF allVars, vars, mainVars, ShutdownInv, LifeType, RunOrder, StopOrder,
     NoFetchAfterWait, Cancelled, Alive, Stopping
<1> QED
  BY <1>1, <1>2, <1>3, <1>4, <1>5, <1>6, <1>7, <1>8, <1>9, <1>10, <1>11, <1>12, <1>13
  DEF ShutdownNext, MainStep

-----------------------------------------------------------------------------
\* The scheduler, the handlers and main use the writer as its model allows, so
\* all that is proved of the writer holds in the program.
THEOREM ShutdownUsesWriter == ShutdownSpec => Spec
<1>1. ShutdownInit => Init
  BY DEF ShutdownInit
<1>2. [ShutdownNext]_allVars => [Next]_vars
  BY StepOfWriter DEF allVars
<1> QED
  BY <1>1, <1>2, PTL DEF ShutdownSpec, Spec

\* Wait: nothing is fetched any more when it has returned, whichever of the
\* signal and Run came first.
THEOREM NoFetchEverAfterWait == ShutdownSpec => []NoFetchAfterWait
<1>1. ShutdownInit => ShutdownInv
  BY StopInit
<1>2. ShutdownInv /\ [ShutdownNext]_allVars => ShutdownInv'
  BY StopNext
<1>3. ShutdownInv => NoFetchAfterWait
  BY DEF ShutdownInv, RunOrder
<1> QED
  BY <1>1, <1>2, <1>3, PTL DEF ShutdownSpec

\* An orderly stop loses no cache but one whose write failed.
THEOREM StoppedIsAlwaysSaved == ShutdownSpec => []StoppedIsSaved
<1>1. ShutdownInit => ShutdownInv
  BY StopInit
<1>2. ShutdownInv /\ [ShutdownNext]_allVars => ShutdownInv'
  BY StopNext
<1>3. ShutdownInv => StoppedIsSaved
  <2> SUFFICES ASSUME ShutdownInv, main = "closed", drain = "drained"
               PROVE  OnDisk >= saves \/ failed >= saves
    BY DEF StoppedIsSaved
  <2>1. saves \in Nat /\ atClose \in Nat /\ OnDisk \in Nat /\ failed \in Nat
    BY CloseTypes DEF ShutdownInv, CloseInv
  <2>2. atClose >= saves
    BY DEF ShutdownInv, StopOrder, Stopping
  <2>3. OnDisk >= atClose \/ failed >= atClose
    BY CloseKeeps DEF ShutdownInv, CloseKeepsLast
  <2> QED
    BY <2>1, <2>2, <2>3
<1> QED
  BY <1>1, <1>2, <1>3, PTL DEF ShutdownSpec
=============================================================================
