--------------------------- MODULE StartupProofs ---------------------------
(***************************************************************************)
(* For any number of overlapping starts, any files and command lines,      *)
(* failures and crashes anywhere, in the middle of a write too: the file   *)
(* of an older version survives, its migration has every credential once,  *)
(* and what is written loads.                                              *)
(* The migrations are loops over sequences of any length; Induction has    *)
(* the induction that the lemmas about them rest on.                       *)
(***************************************************************************)
EXTENDS Startup, Induction, TLAPS

-----------------------------------------------------------------------------
(* One file and its temporary name.                                        *)

IsDisk(fs) ==
    /\ fs = [target |-> fs.target, tmp |-> fs.tmp,
             data |-> [i \in Inodes |-> fs.data[i]]]
    /\ fs.target \in Inodes \cup {None} /\ fs.tmp \in Inodes \cup {None}
    /\ fs.tmp # None => fs.tmp # fs.target

\* One inode has another content, and the names lead where they led.
Rewritten(fs, g, i, c) ==
    /\ IsDisk(g) /\ g.target = fs.target /\ g.tmp = fs.tmp
    /\ g.data[i] = c
    /\ \A j \in Inodes \ {i} : g.data[j] = fs.data[j]

LEMMA OpenFacts ==
    ASSUME NEW fs, IsDisk(fs), NEW used, {fs.target, fs.tmp} \subseteq used,
           NEW i \in Fresh(used)
    PROVE  LET g == OpenTmp(fs, i)
               o == OpenedInode(fs, i) IN
           /\ IsDisk(g) /\ g.target = fs.target /\ g.tmp = o
           /\ o \in Inodes /\ o # fs.target /\ g.data[o] = Empty
           /\ \A j \in Inodes \ {o} : g.data[j] = fs.data[j]
<1> DEFINE o == OpenedInode(fs, i)
           g == OpenTmp(fs, i)
<1>1. i \in Inodes /\ i # fs.target /\ i # fs.tmp /\ None \notin Inodes
  BY StartupAssumption DEF Fresh
<1>2. o \in Inodes /\ o # fs.target
  BY <1>1 DEF OpenedInode, IsDisk
<1>3. g = [target |-> fs.target, tmp |-> o, data |-> [fs.data EXCEPT ![o] = Empty]]
  BY DEF OpenTmp
<1>4. fs.data = [j \in Inodes |-> fs.data[j]]
  BY DEF IsDisk
<1> HIDE DEF o, g
<1>5. /\ g.target = fs.target /\ g.tmp = o /\ g.data[o] = Empty
      /\ g.data = [j \in Inodes |-> g.data[j]]
      /\ \A j \in Inodes \ {o} : g.data[j] = fs.data[j]
  BY <1>2, <1>3, <1>4
<1>6. IsDisk(g)
  BY <1>1, <1>2, <1>3, <1>5 DEF IsDisk
<1> QED
  BY <1>2, <1>5, <1>6 DEF o, g

LEMMA RewriteFacts ==
    ASSUME NEW fs, IsDisk(fs), NEW i \in Inodes, NEW c
    PROVE  Rewritten(fs, [fs EXCEPT !.data[i] = c], i, c)
<1> DEFINE g == [fs EXCEPT !.data[i] = c]
<1>1. fs = [target |-> fs.target, tmp |-> fs.tmp,
            data |-> [j \in Inodes |-> fs.data[j]]]
  BY DEF IsDisk
<1>2. g = [target |-> fs.target, tmp |-> fs.tmp, data |-> [fs.data EXCEPT ![i] = c]]
  BY <1>1
<1>3. fs.data = [j \in Inodes |-> fs.data[j]]
  BY DEF IsDisk
<1> HIDE DEF g
<1>4. /\ g.target = fs.target /\ g.tmp = fs.tmp /\ g.data[i] = c
      /\ g.data = [j \in Inodes |-> g.data[j]]
      /\ \A j \in Inodes \ {i} : g.data[j] = fs.data[j]
  BY <1>2, <1>3
<1>5. IsDisk(g)
  BY <1>2, <1>4 DEF IsDisk
<1> QED
  BY <1>4, <1>5 DEF Rewritten, g

LEMMA WriteFacts ==
    ASSUME NEW fs, IsDisk(fs), NEW i \in Inodes, NEW c, NEW g \in Written(fs, i, c)
    PROVE  /\ Rewritten(fs, g, i, g.data[i])
           /\ g.data[i] \in {c, Torn}
           /\ fs.data[i] = Empty => g.data[i] = c
<1>1. PICK d \in (IF fs.data[i] = Empty THEN {c} ELSE {c, Torn}) :
          g = [fs EXCEPT !.data[i] = d]
  BY DEF Written
<1>2. Rewritten(fs, g, i, d)
  BY <1>1, RewriteFacts
<1> QED
  BY <1>1, <1>2 DEF Rewritten

LEMMA FailedFacts ==
    ASSUME NEW fs, IsDisk(fs), NEW i \in Inodes
    PROVE  Rewritten(fs, WriteFailed(fs, i), i, Torn)
  BY RewriteFacts DEF WriteFailed

LEMMA NameFacts ==
    ASSUME NEW fs, IsDisk(fs)
    PROVE  /\ IsDisk(RemoveTmp(fs)) /\ RemoveTmp(fs).target = fs.target
           /\ RemoveTmp(fs).tmp = None /\ RemoveTmp(fs).data = fs.data
           /\ IsDisk(RenameTmp(fs)) /\ RenameTmp(fs).target = fs.tmp
           /\ RenameTmp(fs).tmp = None /\ RenameTmp(fs).data = fs.data
<1>1. /\ RemoveTmp(fs) = [target |-> fs.target, tmp |-> None, data |-> fs.data]
      /\ RenameTmp(fs) = [target |-> fs.tmp, tmp |-> None, data |-> fs.data]
  BY DEF RemoveTmp, RenameTmp, IsDisk
<1>2. fs.data = [j \in Inodes |-> fs.data[j]]
  BY DEF IsDisk
<1> QED
  BY <1>1, <1>2 DEF IsDisk

-----------------------------------------------------------------------------
(* The state, and what a step of one process leaves the others.            *)

Shape ==
    /\ pc = [p \in Processes |-> pc[p]]
    /\ stale \in [Processes -> SUBSET Paths]
    /\ file = [p \in Processes |-> file[p]]
    /\ saving = [p \in Processes |-> saving[p]]
    /\ raw = [p \in Processes |-> raw[p]]
    /\ slot \in [Processes -> Slots]
    /\ fd \in [Processes -> Inodes \cup {None}]
    /\ synced \in [Processes -> BOOLEAN]
    /\ flags \in [Processes -> Flags \cup {NoFlags}]
    /\ disk = [path \in Paths |-> disk[path]]
    /\ \A path \in Paths : IsDisk(disk[path])
    /\ \A p \in Processes : fd[p] # None => pc[p] \in Writing
    /\ \A p \in Processes : synced[p] => fd[p] # None

LEMMA FirstSlotIsSlot ==
    ASSUME NEW v \in 2 .. CurrentVersion
    PROVE  FirstSlot(v) \in Slots /\ FirstSlot(v).version = v
  BY StartupAssumption DEF FirstSlot, Slots

LEMMA CurrentFirstSlot == FirstSlot(CurrentVersion) \in Slots
  BY FirstSlotIsSlot DEF CurrentVersion

LEMMA ConfigPathIsNoSlot == ConfigPath \in Paths /\ ConfigPath \notin Slots
  BY DEF ConfigPath, Paths, Slots

LEMMA TargetIsPath ==
    ASSUME Shape, NEW p \in Processes
    PROVE  Target(p) \in Paths /\ (Target(p) \in Slots <=> pc[p] = "copy")
  BY ConfigPathIsNoSlot DEF Target, Paths, Shape

Elsewhere(p) ==
    /\ UNCHANGED original
    /\ \A q \in Processes \ {p} :
          /\ pc'[q] = pc[q] /\ slot'[q] = slot[q] /\ raw'[q] = raw[q]
          /\ file'[q] = file[q] /\ saving'[q] = saving[q]
          /\ fd'[q] = fd[q] /\ synced'[q] = synced[q]
          /\ holder' = q <=> holder = q

LEMMA ElsewhereStays ==
    ASSUME Shape, NEW p \in Processes, Step(p) PROVE Elsewhere(p)
<1> USE DEF Shape, Elsewhere, Goto, memory, counts
<1>0. None \notin Processes
  BY StartupAssumption
<1>1. CASE \E f \in Flags : Begin(p, f)
  BY <1>1 DEF Begin
<1>2. CASE RemoveStale(p) \/ Cleaned(p)
  BY <1>2 DEF RemoveStale, Cleaned
<1>3. CASE LoadMissing(p) \/ LoadCurrent(p) \/ LoadOlder(p)
  BY <1>3 DEF LoadMissing, LoadCurrent, LoadOlder
<1>4. CASE LoadRefused(p) \/ AcquireRefused(p) \/ Exit(p)
  BY <1>0, <1>4 DEF LoadRefused, AcquireRefused, Exit, Ended
<1>5. CASE BackupRead(p) \/ BackupName(p)
  BY <1>5 DEF BackupRead, BackupName
<1>6. CASE OpenFile(p) \/ WriteFile(p)
  BY <1>6 DEF OpenFile, WriteFile
<1>7. CASE RenameBackup(p) \/ BackupFails(p)
  BY <1>7 DEF RenameBackup, BackupFails, BackupOver, Renamed, Failed, Closed
<1>8. CASE RenameConfig(p) \/ SaveFails(p)
  BY <1>8 DEF RenameConfig, SaveFails, SaveOver, Renamed, Failed, Closed
<1>9. CASE ApplyFlags(p)
  BY <1>9 DEF ApplyFlags
<1>10. CASE Acquire(p)
  BY <1>0, <1>10 DEF Acquire
<1>11. CASE \E s \in Bodies, older \in BOOLEAN : Put(p, s, older)
  BY <1>11 DEF Put
<1> QED
  BY <1>1, <1>2, <1>3, <1>4, <1>5, <1>6, <1>7, <1>8, <1>9, <1>10, <1>11 DEF Step

\* What the others write, and where.
LEMMA OthersStay ==
    ASSUME NEW p \in Processes, Elsewhere(p), NEW q \in Processes \ {p}
    PROVE  /\ Target(q)' = Target(q) /\ Content(q)' = Content(q)
           /\ \A path : Writes(q, path)' <=> Writes(q, path)
<1>1. Target(q)' = Target(q) /\ fd'[q] = fd[q]
  BY DEF Elsewhere, Target
<1>2. Content(q)' = Content(q)
  BY DEF Elsewhere, Content
<1> QED
  BY <1>1, <1>2 DEF Writes

\* What a step does to the disk: nothing; or it removes a temporary name; or a
\* writer takes its next step.
Opens(p) ==
    /\ OpenFile(p)
    /\ \E i : /\ i \in Fresh({disk[Target(p)].target, disk[Target(p)].tmp}
                             \cup {fd[q] : q \in Writers(Target(p))})
              /\ disk' = [disk EXCEPT ![Target(p)] = OpenTmp(disk[Target(p)], i)]
              /\ fd'[p] = OpenedInode(disk[Target(p)], i)

Tears(p) ==
    /\ fd[p] # None /\ ~synced[p]
    /\ \E fs \in {HalfWritten(p), RemoveTmp(HalfWritten(p))} :
          disk' = [disk EXCEPT ![Target(p)] = fs]
    /\ fd'[p] = None /\ UNCHANGED clashed

Renames(p) ==
    /\ RenameBackup(p) \/ RenameConfig(p)
    /\ Renamed(p) /\ fd'[p] = None /\ UNCHANGED clashed

LEMMA DiskSteps ==
    ASSUME Shape, NEW p \in Processes, Step(p)
    PROVE  \/ UNCHANGED <<disk, clashed>> /\ fd'[p] = None
           \/ RemoveStale(p) \/ Opens(p) \/ WriteFile(p) \/ Tears(p) \/ Renames(p)
<1> USE DEF Shape, memory, counts
<1>0. None \notin Processes
  BY StartupAssumption
<1>1. CASE \E f \in Flags : Begin(p, f)
  BY <1>1 DEF Begin, Writing
<1>2. CASE Cleaned(p)
  BY <1>2 DEF Cleaned, Writing
<1>3. CASE LoadMissing(p) \/ LoadCurrent(p) \/ LoadOlder(p)
  BY <1>3 DEF LoadMissing, LoadCurrent, LoadOlder, Writing
<1>4. CASE LoadRefused(p) \/ AcquireRefused(p)
  BY <1>4 DEF LoadRefused, AcquireRefused, Ended
<1>5. CASE Exit(p)
  BY <1>5 DEF Exit, Ended, Tears, Unwritten
<1>6. CASE BackupRead(p) \/ BackupName(p)
  BY <1>6 DEF BackupRead, BackupName, Writing
<1>7. CASE OpenFile(p)
  BY <1>7 DEF OpenFile, Opens
<1>8. CASE RenameBackup(p) \/ RenameConfig(p)
  BY <1>8 DEF RenameBackup, RenameConfig, Renames, Renamed, Closed, BackupOver, SaveOver
<1>9. CASE BackupFails(p) \/ SaveFails(p)
  <2>1. Failed(p) /\ UNCHANGED clashed
    BY <1>9 DEF BackupFails, SaveFails, BackupOver, SaveOver
  <2> QED
    BY <2>1 DEF Failed, Closed, Tears, Unwritten
<1>10. CASE ApplyFlags(p)
  BY <1>10 DEF ApplyFlags, Writing
<1>11. CASE Acquire(p)
  BY <1>11 DEF Acquire, Writing
<1>12. CASE \E s \in Bodies, older \in BOOLEAN : Put(p, s, older)
  BY <1>12 DEF Put, Writing
<1> QED
  BY <1>1, <1>2, <1>3, <1>4, <1>5, <1>6, <1>7, <1>8, <1>9, <1>10, <1>11, <1>12 DEF Step

\* What the names and inodes become.
LEMMA DiskStays ==
    ASSUME Shape, NEW p \in Processes, Step(p)
    PROVE  /\ disk' = [path \in Paths |-> disk'[path]]
           /\ \A path \in Paths : IsDisk(disk'[path])
<1> USE DEF Shape
<1>1. Target(p) \in Paths
  BY TargetIsPath
<1>2. CASE UNCHANGED disk
  BY <1>2
<1>3. CASE RemoveStale(p)
  <2>1. PICK path \in stale[p] : disk' = [disk EXCEPT ![path] = RemoveTmp(@)]
    BY <1>3 DEF RemoveStale
  <2>2. path \in Paths
    OBVIOUS
  <2>3. IsDisk(RemoveTmp(disk[path]))
    BY <2>2, NameFacts
  <2> QED
    BY <2>1, <2>2, <2>3
<1> DEFINE fs == disk[Target(p)]
<1>4. IsDisk(fs)
  BY <1>1
<1>5. ASSUME NEW g, IsDisk(g), disk' = [disk EXCEPT ![Target(p)] = g]
      PROVE  /\ disk' = [path \in Paths |-> disk'[path]]
             /\ \A path \in Paths : IsDisk(disk'[path])
  BY <1>1, <1>5
<1>6. CASE Opens(p)
  <2> DEFINE used == {fs.target, fs.tmp} \cup {fd[q] : q \in Writers(Target(p))}
  <2>1. PICK i \in Fresh(used) : disk' = [disk EXCEPT ![Target(p)] = OpenTmp(fs, i)]
    BY <1>6 DEF Opens
  <2>2. {fs.target, fs.tmp} \subseteq used
    OBVIOUS
  <2> HIDE DEF used, fs
  <2>3. IsDisk(OpenTmp(fs, i))
    BY <1>4, <2>2, OpenFacts
  <2> QED
    BY <1>5, <2>1, <2>3
<1>7. CASE WriteFile(p)
  <2>1. PICK g \in Written(fs, fd[p], Content(p)) : disk' = [disk EXCEPT ![Target(p)] = g]
    BY <1>7 DEF WriteFile
  <2>2. fd[p] \in Inodes
    BY <1>7 DEF WriteFile
  <2> HIDE DEF fs
  <2>3. IsDisk(g)
    BY <1>4, <2>2, WriteFacts DEF Rewritten
  <2> QED
    BY <1>5, <2>1, <2>3
<1>8. CASE Tears(p)
  <2>1. PICK g \in {HalfWritten(p), RemoveTmp(HalfWritten(p))} :
            disk' = [disk EXCEPT ![Target(p)] = g]
    BY <1>8 DEF Tears
  <2>2. fd[p] \in Inodes
    BY <1>8 DEF Tears
  <2>3. IsDisk(HalfWritten(p))
    BY <1>4, <2>2, FailedFacts DEF HalfWritten, Rewritten
  <2>4. IsDisk(g)
    BY <2>1, <2>3, NameFacts
  <2> QED
    BY <1>5, <2>1, <2>4
<1>9. CASE Renames(p)
  <2>1. disk' = [disk EXCEPT ![Target(p)] = RenameTmp(fs)]
    BY <1>9 DEF Renames, Renamed
  <2>2. IsDisk(RenameTmp(fs))
    BY <1>4, NameFacts
  <2> QED
    BY <1>5, <2>1, <2>2
<1> HIDE DEF fs, Shape
<1> QED
  BY <1>2, <1>3, <1>6, <1>7, <1>8, <1>9, DiskSteps

\* An open file belongs to a writer.
LEMMA WritersStay ==
    ASSUME Shape, NEW p \in Processes, Step(p)
    PROVE  /\ fd' \in [Processes -> Inodes \cup {None}]
           /\ synced' \in [Processes -> BOOLEAN]
           /\ fd'[p] # None => pc'[p] \in Writing
           /\ synced'[p] => fd'[p] # None
<1> USE DEF Shape, memory, counts, Goto
<1>1. CASE OpenFile(p)
  <2> DEFINE fs == disk[Target(p)]
             used == {fs.target, fs.tmp} \cup {fd[q] : q \in Writers(Target(p))}
  <2>1. PICK i \in Fresh(used) : fd' = [fd EXCEPT ![p] = OpenedInode(fs, i)]
    BY <1>1 DEF OpenFile
  <2>2. IsDisk(fs) /\ {fs.target, fs.tmp} \subseteq used
    BY TargetIsPath
  <2> HIDE DEF used, fs
  <2>3. OpenedInode(fs, i) \in Inodes
    BY <2>2, OpenFacts
  <2>4. UNCHANGED <<pc, synced>> /\ pc[p] \in Writing /\ fd[p] = None
    BY <1>1 DEF OpenFile
  <2>5. None \notin Inodes
    BY StartupAssumption
  <2> QED
    BY <2>1, <2>3, <2>4, <2>5
<1>2. CASE WriteFile(p)
  BY <1>2 DEF WriteFile
<1>3. CASE \E f \in Flags : Begin(p, f)
  BY <1>3 DEF Begin, Writing
<1>4. CASE RemoveStale(p) \/ Cleaned(p)
  BY <1>4 DEF RemoveStale, Cleaned, Writing
<1>5. CASE LoadMissing(p) \/ LoadCurrent(p) \/ LoadOlder(p)
  BY <1>5 DEF LoadMissing, LoadCurrent, LoadOlder, Writing
<1>6. CASE LoadRefused(p) \/ AcquireRefused(p) \/ Exit(p)
  BY <1>6 DEF LoadRefused, AcquireRefused, Exit, Ended
<1>7. CASE BackupRead(p) \/ BackupName(p)
  BY <1>7 DEF BackupRead, BackupName, Writing
<1>8. CASE RenameBackup(p) \/ RenameConfig(p)
  BY <1>8 DEF RenameBackup, RenameConfig, Renamed, Closed
<1>9. CASE BackupFails(p) \/ SaveFails(p)
  <2>1. Closed(p)
    BY <1>9 DEF BackupFails, SaveFails, Failed
  <2> QED
    BY <2>1 DEF Closed
<1>10. CASE ApplyFlags(p)
  BY <1>10 DEF ApplyFlags, Writing
<1>11. CASE Acquire(p)
  BY <1>11 DEF Acquire, Writing
<1>12. CASE \E s \in Bodies, older \in BOOLEAN : Put(p, s, older)
  BY <1>12 DEF Put, Writing
<1> QED
  BY <1>1, <1>2, <1>3, <1>4, <1>5, <1>6, <1>7, <1>8, <1>9, <1>10, <1>11, <1>12 DEF Step

LEMMA ShapeStep ==
    ASSUME Shape, NEW p \in Processes, Step(p) PROVE Shape'
<1> DEFINE Functions ==
        /\ pc' = [q \in Processes |-> pc'[q]]
        /\ stale' \in [Processes -> SUBSET Paths]
        /\ file' = [q \in Processes |-> file'[q]]
        /\ saving' = [q \in Processes |-> saving'[q]]
        /\ raw' = [q \in Processes |-> raw'[q]]
        /\ slot' \in [Processes -> Slots]
        /\ flags' \in [Processes -> Flags \cup {NoFlags}]
<1>1. Functions
  <2> USE CurrentFirstSlot DEF Shape, Goto, memory, counts
  <2>1. CASE \E f \in Flags : Begin(p, f)
    BY <2>1 DEF Begin, Leftovers
  <2>2. CASE RemoveStale(p) \/ Cleaned(p)
    BY <2>2 DEF RemoveStale, Cleaned
  <2>3. CASE LoadMissing(p) \/ LoadCurrent(p)
    BY <2>3 DEF LoadMissing, LoadCurrent
  <2>4. CASE LoadOlder(p)
    <3>1. FirstSlot(config.version) \in Slots
      BY <2>4, FirstSlotIsSlot DEF LoadOlder, Loads
    <3> QED
      BY <2>4, <3>1 DEF LoadOlder
  <2>5. CASE LoadRefused(p) \/ AcquireRefused(p) \/ Exit(p)
    BY <2>5 DEF LoadRefused, AcquireRefused, Exit, Ended
  <2>6. CASE BackupRead(p) \/ BackupName(p)
    BY <2>6 DEF BackupRead, BackupName
  <2>7. CASE OpenFile(p) \/ WriteFile(p)
    BY <2>7 DEF OpenFile, WriteFile
  <2>8. CASE RenameBackup(p) \/ BackupFails(p)
    BY <2>8 DEF RenameBackup, BackupFails, BackupOver
  <2>9. CASE RenameConfig(p) \/ SaveFails(p)
    BY <2>9 DEF RenameConfig, SaveFails, SaveOver
  <2>10. CASE ApplyFlags(p)
    BY <2>10 DEF ApplyFlags
  <2>11. CASE Acquire(p)
    BY <2>11 DEF Acquire
  <2>12. CASE \E s \in Bodies, older \in BOOLEAN : Put(p, s, older)
    <3>1. /\ UNCHANGED <<stale, file, raw, flags>>
          /\ slot' = [slot EXCEPT ![p] = FirstSlot(CurrentVersion)]
          /\ \E place : pc' = [pc EXCEPT ![p] = place]
          /\ \E f : saving' = [saving EXCEPT ![p] = f]
      BY <2>12 DEF Put
    <3> QED
      BY <3>1
  <2> QED
    BY <2>1, <2>2, <2>3, <2>4, <2>5, <2>6, <2>7, <2>8, <2>9, <2>10, <2>11, <2>12 DEF Step
<1>2. Elsewhere(p)
  BY ElsewhereStays
<1>3. \A q \in Processes : (fd'[q] # None => pc'[q] \in Writing) /\ (synced'[q] => fd'[q] # None)
  BY <1>2, WritersStay DEF Elsewhere, Shape
<1> QED
  BY <1>1, <1>3, DiskStays, WritersStay DEF Shape

-----------------------------------------------------------------------------
(* One writer has the temporary name to itself: what it renames is what it *)
(* wanted to write.                                                        *)

Sole(path) ==
    \A p, q \in Processes : Writes(p, path) /\ Writes(q, path) => p = q

OwnFile(p, path) ==
    /\ fd[p] # disk[path].target
    /\ disk[path].tmp \in {None, fd[p]}
    /\ disk[path].data[fd[p]] = IF synced[p] THEN Content(p) ELSE Empty

Undisturbed(path) ==
    /\ Sole(path)
    /\ \A p \in Processes : Writes(p, path) => OwnFile(p, path)

WriteInv ==
    /\ Shape
    /\ \A path \in Paths \ clashed : Undisturbed(path)

\* Where a step leaves the file and those who write it alone.
LEMMA UndisturbedStays ==
    ASSUME NEW p \in Processes, Elsewhere(p), NEW path, Undisturbed(path),
           disk'[path] = disk[path], ~Writes(p, path)'
    PROVE  Undisturbed(path)'
<1>1. ASSUME NEW q \in Processes, Writes(q, path)' PROVE q # p /\ Writes(q, path)
  BY <1>1, OthersStay
<1>2. ASSUME NEW q \in Processes, Writes(q, path)' PROVE OwnFile(q, path)'
  <2>1. q # p /\ Writes(q, path) /\ OwnFile(q, path)
    BY <1>1, <1>2 DEF Undisturbed
  <2>2. fd'[q] = fd[q] /\ synced'[q] = synced[q] /\ Content(q)' = Content(q)
    BY <2>1, OthersStay DEF Elsewhere
  <2> QED
    BY <2>1, <2>2 DEF OwnFile
<1> QED
  BY <1>1, <1>2 DEF Undisturbed, Sole

LEMMA UndisturbedStep ==
    ASSUME WriteInv, NEW p \in Processes, Step(p),
           NEW path \in Paths, path \notin clashed'
    PROVE  Undisturbed(path)'
<1> DEFINE t == Target(p)
           fs == disk[t]
<1>0. /\ Shape /\ Elsewhere(p) /\ t \in Paths /\ IsDisk(fs)
      /\ disk = [a \in Paths |-> disk[a]]
      /\ None \notin Inodes
  BY ElsewhereStays, TargetIsPath, StartupAssumption DEF WriteInv, Shape
<1>1. CASE UNCHANGED <<disk, clashed>> /\ fd'[p] = None
  BY <1>0, <1>1, UndisturbedStays DEF WriteInv, Writes
<1>2. CASE RemoveStale(p)
  <2>1. PICK a \in stale[p] : disk' = [disk EXCEPT ![a] = RemoveTmp(@)]
    BY <1>2 DEF RemoveStale
  <2>2. a \in Paths /\ fd'[p] = None /\ clashed' = clashed
    BY <1>0, <1>2 DEF Shape, RemoveStale, Writing, memory, counts
  <2>3. ~Writes(p, path)' /\ Undisturbed(path)
    BY <2>2 DEF Writes, WriteInv
  <2>4. CASE path # a
    BY <1>0, <2>1, <2>3, <2>4, UndisturbedStays
  <2>5. CASE path = a
    <3>1. /\ disk'[path].target = disk[path].target /\ disk'[path].tmp = None
          /\ disk'[path].data = disk[path].data
      BY <1>0, <2>1, <2>2, <2>5, NameFacts DEF Shape
    <3>2. ASSUME NEW q \in Processes, Writes(q, path)' PROVE q # p /\ Writes(q, path)
      BY <1>0, <2>3, <3>2, OthersStay
    <3>3. ASSUME NEW q \in Processes, Writes(q, path)' PROVE OwnFile(q, path)'
      <4>1. q # p /\ Writes(q, path) /\ OwnFile(q, path)
        BY <2>3, <3>2, <3>3 DEF Undisturbed
      <4>2. fd'[q] = fd[q] /\ synced'[q] = synced[q] /\ Content(q)' = Content(q)
        BY <1>0, <4>1, OthersStay DEF Elsewhere
      <4> QED
        BY <3>1, <4>1, <4>2 DEF OwnFile
    <3> QED
      BY <2>3, <3>2, <3>3 DEF Undisturbed, Sole
  <2> QED
    BY <2>4, <2>5
<1>3. CASE Opens(p)
  <2> DEFINE used == {fs.target, fs.tmp} \cup {fd[q] : q \in Writers(t)}
  <2>1. PICK i \in Fresh(used) :
            /\ disk' = [disk EXCEPT ![t] = OpenTmp(fs, i)]
            /\ fd'[p] = OpenedInode(fs, i)
    BY <1>3 DEF Opens
  <2>2. /\ UNCHANGED <<pc, synced>> /\ Target(p)' = t /\ fd[p] = None
        /\ clashed' = IF Writers(t) = {} THEN clashed ELSE clashed \cup {t}
    BY <1>3 DEF Opens, OpenFile, memory, Target
  <2>3. ~synced'[p]
    BY <1>0, <2>2 DEF Shape
  <2>4. path \notin clashed /\ Undisturbed(path)
    BY <2>2 DEF WriteInv
  <2>5. CASE path # t
    <3>1. disk'[path] = disk[path] /\ ~Writes(p, path)'
      BY <1>0, <2>1, <2>2, <2>5 DEF Writes
    <3> QED
      BY <1>0, <2>4, <3>1, UndisturbedStays
  <2>6. CASE path = t
    <3>1. Writers(t) = {}
      BY <2>2, <2>6
    <3>2. ASSUME NEW q \in Processes, Writes(q, path)' PROVE q = p
      BY <1>0, <2>6, <3>1, <3>2, OthersStay DEF Writers
    <3>3. {fs.target, fs.tmp} \subseteq used
      OBVIOUS
    <3> HIDE DEF used, fs
    <3> DEFINE g == OpenTmp(fs, i)
               o == OpenedInode(fs, i)
    <3>4. g.target = fs.target /\ g.tmp = o /\ o # fs.target /\ g.data[o] = Empty
      BY <1>0, <3>3, OpenFacts
    <3>5. disk'[path] = g /\ fd'[p] = o
      BY <1>0, <2>1, <2>6
    <3> HIDE DEF g, o
    <3>6. OwnFile(p, path)'
      BY <2>3, <3>4, <3>5 DEF OwnFile
    <3> QED
      BY <3>2, <3>6 DEF Undisturbed, Sole
  <2> QED
    BY <2>5, <2>6
<1>4. ASSUME Writes(p, t), clashed' = clashed, Target(p)' = t \/ fd'[p] = None,
             \A a \in Paths \ {t} : disk'[a] = disk[a]
      PROVE  /\ path # t => Undisturbed(path)'
             /\ path = t => \A q \in Processes : Writes(q, path)' => q = p
  <2>1. Undisturbed(path)
    BY <1>4 DEF WriteInv
  <2>2. CASE path # t
    <3>1. ~Writes(p, path)'
      BY <1>4, <2>2 DEF Writes
    <3> QED
      BY <1>0, <1>4, <2>1, <2>2, <3>1, UndisturbedStays
  <2>3. CASE path = t
    BY <1>0, <1>4, <2>1, <2>3, OthersStay DEF Undisturbed, Sole
  <2> QED
    BY <2>2, <2>3
<1>5. CASE WriteFile(p)
  <2>1. PICK g \in Written(fs, fd[p], Content(p)) : disk' = [disk EXCEPT ![t] = g]
    BY <1>5 DEF WriteFile
  <2>2. /\ fd[p] \in Inodes /\ fd[p] # None /\ ~synced[p] /\ synced'[p]
        /\ UNCHANGED <<pc, fd, clashed, slot, raw, saving, file>>
    BY <1>0, <1>5 DEF WriteFile, memory, counts, Shape
  <2>3. Target(p)' = t /\ Content(p)' = Content(p) /\ Writes(p, t)
    BY <2>2 DEF Target, Content, Writes
  <2>4. \A a \in Paths \ {t} : disk'[a] = disk[a]
    BY <1>0, <2>1
  <2>5. /\ path # t => Undisturbed(path)'
        /\ path = t => \A q \in Processes : Writes(q, path)' => q = p
    BY <1>4, <2>2, <2>3, <2>4
  <2>6. ASSUME path = t PROVE OwnFile(p, path)'
    <3>1. OwnFile(p, t)
      BY <2>2, <2>3, <2>6 DEF WriteInv, Undisturbed
    <3>2. g.target = fs.target /\ g.tmp = fs.tmp /\ g.data[fd[p]] = Content(p)
      <4>1. fs.data[fd[p]] = Empty
        BY <2>2, <3>1 DEF OwnFile
      <4> HIDE DEF fs
      <4> QED
        BY <1>0, <2>2, <4>1, WriteFacts DEF Rewritten
    <3>3. disk'[t] = g
      BY <1>0, <2>1
    <3> QED
      BY <2>2, <2>3, <2>6, <3>1, <3>2, <3>3 DEF OwnFile
  <2> QED
    BY <2>5, <2>6 DEF Undisturbed, Sole
<1>6. CASE Tears(p) \/ Renames(p)
  <2>1. /\ fd'[p] = None /\ clashed' = clashed /\ fd[p] # None
        /\ \E g : disk' = [disk EXCEPT ![t] = g]
    BY <1>0, <1>6 DEF Tears, Renames, Renamed, Shape
  <2>2. Writes(p, t) /\ ~Writes(p, path)'
    BY <2>1 DEF Writes
  <2>3. \A a \in Paths \ {t} : disk'[a] = disk[a]
    BY <1>0, <2>1
  <2>4. /\ path # t => Undisturbed(path)'
        /\ path = t => \A q \in Processes : Writes(q, path)' => q = p
    BY <1>4, <2>1, <2>2, <2>3
  <2> QED
    BY <2>2, <2>4 DEF Undisturbed, Sole
<1> HIDE DEF fs, t
<1> QED
  BY <1>0, <1>1, <1>2, <1>3, <1>5, <1>6, DiskSteps

LEMMA WriteInit == Init => WriteInv
<1> SUFFICES ASSUME Init PROVE WriteInv
  OBVIOUS
<1>1. PICK i \in Fresh({}) :
          disk = [path \in Paths |-> IF path = ConfigPath /\ original # None
                                     THEN AtRest(i, original)
                                     ELSE AtRest(None, None)]
  BY DEF Init
<1>2. i \in Inodes /\ None \notin Inodes
  BY StartupAssumption DEF Fresh
<1>3. IsDisk(AtRest(None, None)) /\ IsDisk(AtRest(i, original))
  BY <1>2 DEF IsDisk, AtRest
<1>4. \A path \in Paths : IsDisk(disk[path])
  BY <1>1, <1>3
<1>5. disk = [path \in Paths |-> disk[path]]
  BY <1>1
<1>6. Shape
  BY <1>4, <1>5, CurrentFirstSlot DEF Init, Shape
<1>7. \A path \in Paths : Undisturbed(path)
  BY DEF Init, Undisturbed, Sole, Writes
<1> QED
  BY <1>6, <1>7 DEF WriteInv

LEMMA WriteStep ==
    ASSUME WriteInv, NEW p \in Processes, Step(p) PROVE WriteInv'
  BY ShapeStep, UndisturbedStep DEF WriteInv

\* A step changes a file only as one of its writers, and, where it is the only
\* one, only by the rename.
LEMMA FileEffect ==
    ASSUME WriteInv, NEW p \in Processes, Step(p), NEW path \in Paths
    PROVE  \/ Backup(path)' = Backup(path)
           \/ /\ Writes(p, path)
              /\ path \notin clashed =>
                     (RenameBackup(p) \/ RenameConfig(p)) /\ Backup(path)' = Content(p)
<1> DEFINE t == Target(p)
           fs == disk[t]
<1>0. /\ Shape /\ t \in Paths /\ IsDisk(fs) /\ disk = [a \in Paths |-> disk[a]]
      /\ None \notin Inodes
  BY TargetIsPath, StartupAssumption DEF WriteInv, Shape
<1>1. CASE UNCHANGED <<disk, clashed>>
  BY <1>1 DEF Backup
<1>2. CASE RemoveStale(p)
  <2>1. PICK a \in stale[p] : disk' = [disk EXCEPT ![a] = RemoveTmp(@)]
    BY <1>2 DEF RemoveStale
  <2>2. a \in Paths /\ IsDisk(disk[a])
    BY <1>0 DEF Shape
  <2>3. disk'[path].target = disk[path].target /\ disk'[path].data = disk[path].data
    BY <1>0, <2>1, <2>2, NameFacts
  <2> QED
    BY <2>3 DEF Backup, TargetData
<1>3. ASSUME NEW g, disk' = [disk EXCEPT ![t] = g],
             g.target = fs.target, fs.target \in Inodes => g.data[fs.target] = fs.data[fs.target]
      PROVE  Backup(path)' = Backup(path)
  <2>1. CASE path # t
    BY <1>0, <1>3, <2>1 DEF Backup
  <2>2. CASE path = t
    <3>1. disk'[path] = g
      BY <1>0, <1>3, <2>2
    <3> QED
      BY <1>0, <1>3, <2>2, <3>1 DEF Backup, TargetData, IsDisk
  <2> QED
    BY <2>1, <2>2
<1>4. CASE Opens(p)
  <2> DEFINE used == {fs.target, fs.tmp} \cup {fd[q] : q \in Writers(t)}
  <2>1. PICK i \in Fresh(used) : disk' = [disk EXCEPT ![t] = OpenTmp(fs, i)]
    BY <1>4 DEF Opens
  <2>2. {fs.target, fs.tmp} \subseteq used
    OBVIOUS
  <2>3. /\ OpenTmp(fs, i).target = fs.target
        /\ fs.target \in Inodes => OpenTmp(fs, i).data[fs.target] = fs.data[fs.target]
    <3> HIDE DEF used, fs
    <3> QED
      BY <1>0, <2>2, OpenFacts
  <2> QED
    BY <1>3, <2>1, <2>3
<1>5. CASE fd[p] # None /\ path # t /\ \E g : disk' = [disk EXCEPT ![t] = g]
  BY <1>0, <1>5 DEF Backup
<1>6. ASSUME fd[p] # None, path = t, path \notin clashed PROVE OwnFile(p, path)
  BY <1>6 DEF WriteInv, Undisturbed, Writes
<1>7. CASE WriteFile(p)
  <2>1. PICK g \in Written(fs, fd[p], Content(p)) : disk' = [disk EXCEPT ![t] = g]
    BY <1>7 DEF WriteFile
  <2>2. fd[p] # None /\ fd[p] \in Inodes
    BY <1>0, <1>7 DEF WriteFile, Shape
  <2>3. ASSUME path = t, path \notin clashed PROVE Backup(path)' = Backup(path)
    <3>1. fd[p] # fs.target
      BY <1>6, <2>2, <2>3 DEF OwnFile
    <3>2. /\ g.target = fs.target
          /\ fs.target \in Inodes => g.data[fs.target] = fs.data[fs.target]
      <4> HIDE DEF fs
      <4> QED
        BY <1>0, <2>2, <3>1, WriteFacts DEF Rewritten
    <3> QED
      BY <1>3, <2>1, <3>2
  <2> QED
    BY <1>5, <2>1, <2>2, <2>3 DEF Writes
<1>8. CASE Tears(p)
  <2>1. PICK g \in {HalfWritten(p), RemoveTmp(HalfWritten(p))} :
            disk' = [disk EXCEPT ![t] = g]
    BY <1>8 DEF Tears
  <2>2. fd[p] # None /\ fd[p] \in Inodes
    BY <1>0, <1>8 DEF Tears, Shape
  <2>3. ASSUME path = t, path \notin clashed PROVE Backup(path)' = Backup(path)
    <3>1. fd[p] # fs.target
      BY <1>6, <2>2, <2>3 DEF OwnFile
    <3> DEFINE h == HalfWritten(p)
    <3>2. Rewritten(fs, h, fd[p], Torn)
      BY <1>0, <2>2, FailedFacts DEF HalfWritten
    <3> HIDE DEF h, fs
    <3>3. RemoveTmp(h).target = h.target /\ RemoveTmp(h).data = h.data
      BY <3>2, NameFacts DEF Rewritten
    <3>4. g.target = fs.target /\ (fs.target \in Inodes => g.data[fs.target] = fs.data[fs.target])
      BY <2>1, <3>1, <3>2, <3>3 DEF Rewritten, h
    <3> QED
      BY <1>3, <2>1, <3>4
  <2> QED
    BY <1>5, <2>1, <2>2, <2>3 DEF Writes
<1>9. CASE Renames(p)
  <2>1. /\ disk' = [disk EXCEPT ![t] = RenameTmp(fs)] /\ synced[p] /\ fs.tmp # None
        /\ RenameBackup(p) \/ RenameConfig(p)
    BY <1>9 DEF Renames, Renamed
  <2>2. fd[p] # None /\ fd[p] \in Inodes
    BY <1>0, <2>1 DEF Shape
  <2>3. ASSUME path = t, path \notin clashed PROVE Backup(path)' = Content(p)
    <3>1. fs.tmp = fd[p] /\ fs.data[fd[p]] = Content(p)
      BY <1>6, <2>1, <2>2, <2>3 DEF OwnFile
    <3>2. disk'[path] = RenameTmp(fs)
      BY <1>0, <2>1, <2>3
    <3>3. RenameTmp(fs).target = fs.tmp /\ RenameTmp(fs).data = fs.data
      BY <1>0, NameFacts
    <3> HIDE DEF fs
    <3>4. TargetData(disk'[path]) = Content(p)
      BY <2>2, <3>1, <3>2, <3>3, StartupAssumption DEF TargetData
    <3> QED
      BY <3>4 DEF Backup
  <2> QED
    BY <1>5, <2>1, <2>2, <2>3 DEF Writes
<1> HIDE DEF fs
<1> QED
  BY <1>0, <1>1, <1>2, <1>4, <1>7, <1>8, <1>9, DiskSteps

-----------------------------------------------------------------------------
(* The old file.                                                           *)

OldOriginal == original # None /\ original.version < CurrentVersion

\* A backup holds the original, and nobody who found its name free still has
\* something else to write there.
KeptIn(s) ==
    /\ s \notin clashed /\ s.version = original.version
    /\ Backup(s) = original
    /\ \A p \in Processes : pc[p] = "copy" /\ slot[p] = s => raw[p] = original

Kept == \E s \in Slots : KeptIn(s)

\* Two starts have met under the name of a backup.
Clashed == \E s \in clashed : s.version = original.version

\* Nobody has come as far as a save; every copy under way is one of the original.
Untouched ==
    /\ config = original
    /\ holder = None
    /\ \A p \in Processes :
          /\ pc[p] \in {"off", "clean", "load", "backup", "name", "copy"}
          /\ pc[p] \in {"backup", "name", "copy"} => slot[p].version = original.version
          /\ pc[p] \in {"name", "copy"} => raw[p] = original

StartupInv ==
    /\ WriteInv
    /\ OldOriginal => Untouched \/ Kept \/ Clashed

LEMMA StartupInit == Init => StartupInv
<1> SUFFICES ASSUME Init PROVE StartupInv
  OBVIOUS
<1>1. config = original
  <2>1. PICK i \in Fresh({}) :
            disk = [path \in Paths |-> IF path = ConfigPath /\ original # None
                                       THEN AtRest(i, original)
                                       ELSE AtRest(None, None)]
    BY DEF Init
  <2>2. i \in Inodes /\ None \notin Inodes
    BY StartupAssumption DEF Fresh
  <2>3. disk[ConfigPath] = IF original # None THEN AtRest(i, original) ELSE AtRest(None, None)
    BY <2>1, ConfigPathIsNoSlot
  <2>4. TargetData(AtRest(i, original)) = original /\ TargetData(AtRest(None, None)) = None
    BY <2>2 DEF AtRest, TargetData
  <2> QED
    BY <2>3, <2>4 DEF config
<1>2. Untouched
  BY <1>1 DEF Init, Untouched
<1> QED
  BY <1>2, WriteInit DEF StartupInv

\* Who writes a backup as the only one writes what it has read.
LEMMA BackupEffect ==
    ASSUME WriteInv, NEW p \in Processes, Step(p), NEW s \in Slots, s \notin clashed
    PROVE  \/ Backup(s)' = Backup(s)
           \/ RenameBackup(p) /\ slot[p] = s /\ Backup(s)' = raw[p]
<1>1. CASE Backup(s)' = Backup(s)
  BY <1>1
<1>2. CASE /\ Writes(p, s) /\ Backup(s)' = Content(p)
           /\ RenameBackup(p) \/ RenameConfig(p)
  <2>1. pc[p] = "copy" /\ slot[p] = s
    BY <1>2, ConfigPathIsNoSlot DEF Writes, Target
  <2>2. Content(p) = raw[p] /\ ~RenameConfig(p)
    BY <2>1 DEF Content, RenameConfig
  <2> QED
    BY <1>2, <2>1, <2>2
<1> QED
  BY <1>1, <1>2, FileEffect DEF Paths

\* Whoever comes to write a backup read the file before and found the name free.
LEMMA CopySteps ==
    ASSUME WriteInv, NEW p \in Processes, Step(p), pc'[p] = "copy"
    PROVE  \/ pc[p] = "copy" /\ slot'[p] = slot[p] /\ raw'[p] = raw[p]
           \/ /\ pc[p] = "name" /\ raw'[p] = raw[p]
              /\ slot'[p] \in Slots /\ slot'[p].version = slot[p].version
              /\ FreeSlot(slot'[p])
<1> USE DEF WriteInv, Shape, Goto, memory, counts
<1>1. CASE BackupName(p)
  BY <1>1 DEF BackupName
<1>2. CASE OpenFile(p) \/ WriteFile(p)
  BY <1>2 DEF OpenFile, WriteFile
<1>3. CASE RemoveStale(p)
  BY <1>3 DEF RemoveStale
<1>4. ~(\E f \in Flags : Begin(p, f)) /\ ~Cleaned(p)
  BY DEF Begin, Cleaned
<1>5. ~LoadMissing(p) /\ ~LoadCurrent(p) /\ ~LoadOlder(p)
  BY DEF LoadMissing, LoadCurrent, LoadOlder
<1>6. ~LoadRefused(p) /\ ~AcquireRefused(p) /\ ~Exit(p)
  BY DEF LoadRefused, AcquireRefused, Exit, Ended
<1>7. ~BackupRead(p) /\ ~RenameBackup(p) /\ ~BackupFails(p)
  BY DEF BackupRead, RenameBackup, BackupFails, BackupOver
<1>8. ~RenameConfig(p) /\ ~SaveFails(p)
  BY DEF RenameConfig, SaveFails, SaveOver, Onward
<1>9. ~ApplyFlags(p) /\ ~Acquire(p)
  BY DEF ApplyFlags, Acquire
<1>10. ~(\E s \in Bodies, older \in BOOLEAN : Put(p, s, older))
  BY DEF Put
<1> QED
  BY <1>1, <1>2, <1>3, <1>4, <1>5, <1>6, <1>7, <1>8, <1>9, <1>10 DEF Step

LEMMA ClashedStays ==
    ASSUME NEW p \in Processes, Step(p), Shape
    PROVE  clashed \subseteq clashed'
  BY DiskSteps DEF RemoveStale, Opens, OpenFile, WriteFile, Tears, Renames, counts

\* A file that is kept stays kept: its name is not free for anyone any more.
LEMMA KeptNext ==
    ASSUME WriteInv, OldOriginal, Kept, NEW p \in Processes, Step(p)
    PROVE  Kept' \/ Clashed'
<1>1. PICK s \in Slots : KeptIn(s)
  BY DEF Kept
<1>2. Elsewhere(p) /\ original' = original
  BY ElsewhereStays DEF WriteInv, Elsewhere
<1>3. CASE s \in clashed'
  BY <1>1, <1>2, <1>3 DEF KeptIn, Clashed
<1>4. CASE s \notin clashed'
  <2>1. s \notin clashed /\ Backup(s) = original /\ s.version = original.version
    BY <1>1 DEF KeptIn
  <2>2. Backup(s)' = original
    BY <1>1, <2>1, BackupEffect DEF KeptIn, RenameBackup
  <2>3. ASSUME NEW q \in Processes, pc'[q] = "copy", slot'[q] = s
        PROVE  raw'[q] = original
    <3>1. CASE q # p
      BY <1>1, <1>2, <2>3, <3>1 DEF Elsewhere, KeptIn
    <3>2. CASE q = p
      <4>1. ~FreeSlot(s)
        BY <2>1 DEF FreeSlot, OldOriginal
      <4> QED
        BY <1>1, <2>3, <3>2, <4>1, CopySteps DEF KeptIn
    <3> QED
      BY <3>1, <3>2
  <2> QED
    BY <1>2, <1>4, <2>1, <2>2, <2>3 DEF Kept, KeptIn
<1> QED
  BY <1>3, <1>4

\* While nobody has saved, only reading, naming and copying is possible; the
\* first copy of the original makes the difference.
LEMMA UntouchedNext ==
    ASSUME WriteInv, OldOriginal, Untouched, NEW p \in Processes, Step(p)
    PROVE  Untouched' \/ Kept' \/ Clashed'
<1>1. /\ Elsewhere(p) /\ original' = original /\ None \notin Processes
      /\ slot \in [Processes -> Slots]
  BY ElsewhereStays, StartupAssumption DEF WriteInv, Shape, Elsewhere
<1>2. ~LoadMissing(p) /\ ~LoadCurrent(p)
  BY DEF LoadMissing, LoadCurrent, OldOriginal, Untouched, CurrentVersion
<1>3. /\ ~RenameConfig(p) /\ ~SaveFails(p) /\ ~BackupFails(p)
      /\ ~ApplyFlags(p) /\ ~Acquire(p) /\ ~AcquireRefused(p)
      /\ ~(\E s \in Bodies, older \in BOOLEAN : Put(p, s, older))
  BY <1>1 DEF RenameConfig, SaveFails, BackupFails, ApplyFlags, Acquire, AcquireRefused, Put,
         Untouched, Writing
<1>4. config' = original
  <2>1. ~Writes(p, ConfigPath)
    <3>1. ASSUME fd[p] # None PROVE Target(p) # ConfigPath
      <4>1. pc[p] = "copy"
        BY <3>1 DEF Untouched, WriteInv, Shape, Writing
      <4> QED
        BY <1>1, <4>1, ConfigPathIsNoSlot DEF Target
    <3> QED
      BY <3>1 DEF Writes
  <2>2. Backup(ConfigPath)' = Backup(ConfigPath)
    BY <2>1, FileEffect, ConfigPathIsNoSlot
  <2> QED
    BY <2>2 DEF Untouched, config, Backup
<1> DEFINE AsBefore(q) ==
        /\ pc'[q] \in {"off", "clean", "load", "backup", "name", "copy"}
        /\ pc'[q] \in {"backup", "name", "copy"} => slot'[q].version = original.version
        /\ pc'[q] \in {"name", "copy"} => raw'[q] = original
<1>5. ASSUME NEW q \in Processes \ {p} PROVE AsBefore(q)
  BY <1>1 DEF Elsewhere, Untouched
<1>6. ASSUME AsBefore(p), holder' = holder PROVE Untouched'
  <2>1. \A q \in Processes : AsBefore(q)
    BY <1>5, <1>6
  <2> QED
    BY <1>1, <1>4, <1>6, <2>1 DEF Untouched
<1> USE DEF WriteInv, Shape, Goto, memory, counts
<1>7. CASE \E f \in Flags : Begin(p, f)
  <2>1. AsBefore(p) /\ holder' = holder
    BY <1>7 DEF Begin
  <2> QED
    BY <1>6, <2>1
<1>8. CASE RemoveStale(p) \/ Cleaned(p)
  <2>1. AsBefore(p) /\ holder' = holder
    BY <1>8 DEF RemoveStale, Cleaned
  <2> QED
    BY <1>6, <2>1
<1>9. CASE LoadRefused(p) \/ Exit(p)
  <2>1. AsBefore(p) /\ holder' = holder
    BY <1>1, <1>9 DEF LoadRefused, Exit, Ended, Untouched
  <2> QED
    BY <1>6, <2>1
<1>10. CASE LoadOlder(p)
  <2>1. slot' = [slot EXCEPT ![p] = FirstSlot(original.version)]
    BY <1>10 DEF LoadOlder, Untouched
  <2>2. slot'[p].version = original.version
    BY <1>1, <2>1 DEF FirstSlot
  <2>3. AsBefore(p) /\ holder' = holder
    BY <1>10, <2>2 DEF LoadOlder
  <2> QED
    BY <1>6, <2>3
<1>11. CASE BackupRead(p)
  <2>1. AsBefore(p) /\ holder' = holder
    BY <1>11 DEF BackupRead, Untouched
  <2> QED
    BY <1>6, <2>1
<1>12. CASE BackupName(p)
  <2>1. AsBefore(p) /\ holder' = holder
    BY <1>12 DEF BackupName, Untouched
  <2> QED
    BY <1>6, <2>1
<1>13. CASE OpenFile(p) \/ WriteFile(p)
  <2>1. AsBefore(p) /\ holder' = holder
    BY <1>13 DEF OpenFile, WriteFile, Untouched
  <2> QED
    BY <1>6, <2>1
<1>14. CASE RenameBackup(p)
  <2> DEFINE s == slot[p]
  <2>1. s \in Slots /\ s.version = original.version /\ raw[p] = original /\ pc[p] = "copy"
    BY <1>1, <1>14 DEF RenameBackup, Untouched
  <2>2. CASE s \in clashed
    BY <1>1, <2>1, <2>2, ClashedStays DEF Clashed
  <2>3. CASE s \notin clashed
    <3>1. /\ synced[p] /\ disk[s].tmp # None /\ clashed' = clashed
          /\ disk' = [disk EXCEPT ![s] = RenameTmp(@)]
      BY <1>14, <2>1 DEF RenameBackup, Renamed, BackupOver, Target
    <3>2. s \in Paths /\ Target(p) = s /\ Content(p) = original
      BY <2>1 DEF Paths, Target, Content
    <3>3. OwnFile(p, s)
      BY <2>3, <3>1, <3>2 DEF Undisturbed, Writes
    <3>4. disk[s].tmp = fd[p] /\ disk[s].data[fd[p]] = original
      BY <3>1, <3>2, <3>3 DEF OwnFile
    <3>5. /\ RenameTmp(disk[s]).target = disk[s].tmp
          /\ RenameTmp(disk[s]).data = disk[s].data
      BY <3>2, NameFacts
    <3>6. TargetData(disk'[s]) = original
      BY <3>1, <3>2, <3>4, <3>5 DEF TargetData
    <3>7. ASSUME NEW q \in Processes, pc'[q] = "copy" PROVE raw'[q] = original
      <4>1. q # p
        BY <1>14, <3>7 DEF RenameBackup, BackupOver
      <4> QED
        BY <1>5, <3>7, <4>1
    <3>8. /\ s \notin clashed' /\ s.version = original'.version
          /\ TargetData(disk'[s]) = original'
          /\ \A q \in Processes : pc'[q] = "copy" /\ slot'[q] = s => raw'[q] = original'
      BY <1>1, <2>1, <2>3, <3>1, <3>6, <3>7
    <3> HIDE DEF s
    <3>9. Kept'
      BY <2>1, <3>8 DEF Kept, KeptIn, Backup
    <3> QED
      BY <3>9
  <2> QED
    BY <2>2, <2>3
<1> QED
  BY <1>2, <1>3, <1>7, <1>8, <1>9, <1>10, <1>11, <1>12, <1>13, <1>14 DEF Step

LEMMA StartupNext == StartupInv /\ [Next]_vars => StartupInv'
<1> SUFFICES ASSUME StartupInv, [Next]_vars PROVE StartupInv'
  OBVIOUS
<1>1. ASSUME NEW p \in Processes, Step(p) PROVE StartupInv'
  <2>1. WriteInv' /\ original' = original
    BY <1>1, WriteStep, ElsewhereStays DEF StartupInv, WriteInv, Elsewhere
  <2>2. ASSUME OldOriginal, Clashed PROVE Clashed'
    BY <1>1, <2>1, <2>2, ClashedStays DEF StartupInv, WriteInv, Clashed
  <2>3. ASSUME OldOriginal PROVE Untouched' \/ Kept' \/ Clashed'
    BY <1>1, <2>2, <2>3, UntouchedNext, KeptNext DEF StartupInv
  <2> QED
    BY <2>1, <2>3 DEF StartupInv, OldOriginal
<1>2. CASE UNCHANGED vars
  <2>1. WriteInv'
    BY <1>2 DEF vars, memory, counts, StartupInv, WriteInv, Shape, Undisturbed, Sole,
                OwnFile, Writes, Target, Content
  <2> QED
    BY <1>2, <2>1 DEF vars, memory, counts, StartupInv, OldOriginal, Untouched, Kept,
                      KeptIn, Clashed, config, Backup
<1> QED
  BY <1>1, <1>2 DEF Next, Finished

\* README.md, on upgrades: for any number of overlapping starts, each of which may
\* die in the middle of a write, the file of an older version is config.json or
\* stands in a backup, unless two of them have written one backup at once.
THEOREM OldFileAlwaysSurvives == Spec => []OldFileSurvives
<1>1. StartupInv => OldFileSurvives
  BY DEF StartupInv, OldOriginal, Untouched, Kept, KeptIn, Clashed, OldFileSurvives
<1> QED
  BY <1>1, StartupInit, StartupNext, PTL DEF Spec

-----------------------------------------------------------------------------
(* The ids a platform's keys get.                                          *)

NamedIds == [stem : Stems, number : Nat, twos : Nat]

NamedKey == [id : NamedIds, token : Tokens \cup {NoToken}, enabled : BOOLEAN]

WithTwos(id, n) == [id EXCEPT !.twos = n]

LEMMA NamedIdFacts ==
    ASSUME NEW id \in NamedIds
    PROVE  /\ id # NoId /\ id.twos \in Nat
           /\ Suffixed(id) = WithTwos(id, id.twos + 1)
           /\ \A n \in Nat :
                 /\ WithTwos(id, n) \in NamedIds
                 /\ WithTwos(id, n).twos = n /\ SameName(WithTwos(id, n), id)
           /\ WithTwos(id, id.twos) = id
           /\ \A other \in NamedIds : id = other <=> SameName(id, other) /\ id.twos = other.twos
<1>1. id # NoId
  <2>1. "" \notin Stems
    <3>1. "" # "k"
      OBVIOUS
    <3> QED
      BY <3>1, MigrationAssumption, Zenon
  <2>2. id.stem \in Stems /\ NoId.stem = ""
    BY DEF NamedIds, NoId
  <2> QED
    BY <2>1, <2>2
<1>2. id.twos \in Nat
  BY DEF NamedIds
<1>3. Suffixed(id) = WithTwos(id, id.twos + 1)
  BY DEF Suffixed, WithTwos
<1>4. ASSUME NEW n \in Nat
      PROVE  /\ WithTwos(id, n) \in NamedIds
             /\ WithTwos(id, n).twos = n /\ SameName(WithTwos(id, n), id)
  BY DEF WithTwos, NamedIds, SameName
<1>5. WithTwos(id, id.twos) = id
  BY DEF WithTwos, NamedIds
<1>6. \A other \in NamedIds : id = other <=> SameName(id, other) /\ id.twos = other.twos
  BY DEF NamedIds, SameName
<1> QED
  BY <1>1, <1>2, <1>3, <1>4, <1>5, <1>6

DedupeStep == [a \in NamedIds \X NamedKey |-> IF a[2].id = a[1] THEN Suffixed(a[1]) ELSE a[1]]

LEMMA DedupeStepType == DedupeStep \in Steps(NamedIds, NamedKey)
<1>1. \A id \in NamedIds : Suffixed(id) \in NamedIds
  BY NamedIdFacts
<1> QED
  BY <1>1 DEF DedupeStep, Steps

LEMMA DedupedIs ==
    ASSUME NEW keys \in Seq(NamedKey), NEW id \in NamedIds
    PROVE  Deduped(keys, id) = Folded(DedupeStep, id, keys)
<1> DEFINE Iter(h) == h = [S \in SUBSET DOMAIN keys |->
                             IF S = {} THEN id
                             ELSE IF keys[Max(S)].id = h[S \ {Max(S)}]
                                  THEN Suffixed(h[S \ {Max(S)}]) ELSE h[S \ {Max(S)}]]
<1>1. \E G : Iter(G)
  <2>1. PICK G : Runs(G, keys, NamedIds, NamedKey, id, DedupeStep)
    BY DedupeStepType, LoopExists
  <2>2. ASSUME NEW S \in SUBSET DOMAIN keys
        PROVE  G[S] = IF S = {} THEN id
                      ELSE IF keys[Max(S)].id = G[S \ {Max(S)}]
                           THEN Suffixed(G[S \ {Max(S)}]) ELSE G[S \ {Max(S)}]
    BY <2>1 DEF DedupeStep, Runs
  <2>3. Iter(G)
    BY <2>1, <2>2, Zenon DEF Runs
  <2> QED
    BY <2>3
<1>2. PICK h : Iter(h) /\ Deduped(keys, id) = h[DOMAIN keys]
  <2> DEFINE it == CHOOSE h : Iter(h)
  <2>1. Iter(it)
    <3> HIDE DEF Iter
    <3> QED
      BY <1>1, Zenon
  <2>2. Deduped(keys, id) = it[DOMAIN keys]
    BY DEF Deduped, FoldLeft, MapThenFoldSet
  <2> QED
    BY <2>1, <2>2
<1>3. ASSUME NEW S \in SUBSET DOMAIN keys
      PROVE  h[S] = IF S = {} THEN id
                    ELSE IF keys[Max(S)].id = h[S \ {Max(S)}]
                         THEN Suffixed(h[S \ {Max(S)}]) ELSE h[S \ {Max(S)}]
  BY <1>2, Zenon
<1>4. Follows(h, keys, NamedIds, NamedKey, id, DedupeStep)
  <2>1. h[{}] = id
    BY <1>3
  <2>2. \A S \in SUBSET DOMAIN keys :
           S # {} /\ h[S \ {Max(S)}] \in NamedIds /\ keys[Max(S)] \in NamedKey
           => h[S] = DedupeStep[<<h[S \ {Max(S)}], keys[Max(S)]>>]
    BY <1>3 DEF DedupeStep
  <2> QED
    BY <2>1, <2>2 DEF Follows
<1>5. h[DOMAIN keys] = Folded(DedupeStep, id, keys)
  <2> HIDE DEF Iter
  <2> QED
    BY <1>4, DedupeStepType, LoopIs
<1> QED
  BY <1>2, <1>5

LEMMA DedupedType ==
    ASSUME NEW keys \in Seq(NamedKey), NEW id \in NamedIds
    PROVE  Deduped(keys, id) \in NamedIds
  BY DedupedIs, DedupeStepType, FoldedType

LEMMA DedupedEmpty ==
    ASSUME NEW id \in NamedIds PROVE Deduped(<<>>, id) = id
<1>1. <<>> \in Seq(NamedKey)
  OBVIOUS
<1> QED
  BY <1>1, DedupedIs, DedupeStepType, FoldedEmpty

LEMMA DedupedAppend ==
    ASSUME NEW keys \in Seq(NamedKey), NEW key \in NamedKey, NEW id \in NamedIds
    PROVE  Deduped(Append(keys, key), id) =
              IF key.id = Deduped(keys, id) THEN Suffixed(Deduped(keys, id)) ELSE Deduped(keys, id)
<1>1. Append(keys, key) \in Seq(NamedKey)
  OBVIOUS
<1>2. Folded(DedupeStep, id, Append(keys, key)) = DedupeStep[<<Folded(DedupeStep, id, keys), key>>]
  BY DedupeStepType, FoldedAppend
<1>3. Folded(DedupeStep, id, keys) = Deduped(keys, id) /\ Deduped(keys, id) \in NamedIds
  BY DedupedIs, DedupedType
<1>4. DedupeStep[<<Deduped(keys, id), key>>] =
          IF key.id = Deduped(keys, id) THEN Suffixed(Deduped(keys, id)) ELSE Deduped(keys, id)
  BY <1>3 DEF DedupeStep
<1>5. Deduped(Append(keys, key), id) = Folded(DedupeStep, id, Append(keys, key))
  BY <1>1, DedupedIs
<1> QED
  BY <1>2, <1>3, <1>4, <1>5

\* Every id is followed by one "-2" for each key before it of the same name.
Named(keys, id) == {j \in DOMAIN keys : SameName(keys[j].id, id)}

Numbering(keys, i) ==
    keys[i].id.twos =
        Cardinality({j \in DOMAIN keys : j < i /\ SameName(keys[j].id, keys[i].id)})

Counted(keys) == \A i \in DOMAIN keys : Numbering(keys, i)

LEMMA NamedAppend ==
    ASSUME NEW keys \in Seq(NamedKey), NEW key \in NamedKey, NEW id \in NamedIds
    PROVE  /\ Cardinality(Named(keys, id)) \in Nat
           /\ Cardinality(Named(Append(keys, key), id)) =
                 IF SameName(key.id, id) THEN Cardinality(Named(keys, id)) + 1
                                         ELSE Cardinality(Named(keys, id))
<1> DEFINE n == Len(keys)
<1> DEFINE longer == Append(keys, key)
<1>1. /\ n \in Nat /\ DOMAIN keys = 1 .. n /\ DOMAIN longer = 1 .. n + 1
      /\ longer[n + 1] = key /\ \A i \in DOMAIN keys : longer[i] = keys[i]
  OBVIOUS
<1>2. /\ n + 1 \notin DOMAIN keys
      /\ \A i : i \in DOMAIN longer <=> i \in DOMAIN keys \/ i = n + 1
  BY <1>1
<1> HIDE DEF longer
<1>3. Named(keys, id) \in SUBSET (1 .. n)
  BY <1>1 DEF Named
<1>4. IsFiniteSet(Named(keys, id)) /\ Cardinality(Named(keys, id)) \in Nat
  BY <1>1, <1>3, PlacesBounds
<1> HIDE DEF n
<1>5. CASE SameName(key.id, id)
  <2>1. Named(longer, id) = Named(keys, id) \cup {n + 1} /\ n + 1 \notin Named(keys, id)
    BY <1>1, <1>2, <1>5 DEF Named
  <2>2. Cardinality(Named(keys, id) \cup {n + 1}) = Cardinality(Named(keys, id)) + 1
    BY <1>4, <2>1, FS_AddElement
  <2> QED
    BY <1>4, <1>5, <2>1, <2>2 DEF longer
<1>6. CASE ~SameName(key.id, id)
  <2>1. Named(longer, id) = Named(keys, id)
    BY <1>1, <1>2, <1>6 DEF Named
  <2> QED
    BY <1>4, <1>6, <2>1 DEF longer
<1> QED
  BY <1>5, <1>6

LEMMA CountedAppend ==
    ASSUME NEW keys \in Seq(NamedKey), NEW key \in NamedKey
    PROVE  Counted(Append(keys, key)) <=>
              Counted(keys) /\ key.id.twos = Cardinality(Named(keys, key.id))
<1> DEFINE n == Len(keys)
<1> DEFINE longer == Append(keys, key)
<1>1. /\ n \in Nat /\ DOMAIN keys = 1 .. n /\ DOMAIN longer = 1 .. n + 1
      /\ longer[n + 1] = key /\ \A i \in DOMAIN keys : longer[i] = keys[i]
  OBVIOUS
<1>2. \A i : i \in DOMAIN longer <=> i \in DOMAIN keys \/ i = n + 1
  BY <1>1
<1>3. \A i \in DOMAIN keys : i < n + 1 /\ ~(n + 1 < i)
  BY <1>1
<1> HIDE DEF longer
<1>4. ASSUME NEW i \in DOMAIN keys
      PROVE  Numbering(longer, i) <=> Numbering(keys, i)
  <2>1. {j \in DOMAIN longer : j < i /\ SameName(longer[j].id, longer[i].id)}
          = {j \in DOMAIN keys : j < i /\ SameName(keys[j].id, keys[i].id)}
    BY <1>1, <1>2, <1>3
  <2> QED
    BY <1>1, <2>1 DEF Numbering
<1>5. Numbering(longer, n + 1) <=> key.id.twos = Cardinality(Named(keys, key.id))
  <2>1. {j \in DOMAIN longer : j < n + 1 /\ SameName(longer[j].id, longer[n + 1].id)}
          = Named(keys, key.id)
    <3>1. ~(n + 1 < n + 1)
      BY <1>1
    <3> QED
      BY <1>1, <1>2, <1>3, <3>1 DEF Named
  <2> QED
    BY <1>1, <2>1 DEF Numbering
<1> QED
  BY <1>2, <1>4, <1>5 DEF Counted, longer

\* migrate.go's loop over the keys a platform has: with ids counted this way, the
\* new one comes to count them too.
LEMMA DedupedCounts ==
    \A keys \in Seq(NamedKey) : Counted(keys) =>
        \A id \in NamedIds :
            Deduped(keys, id) =
                WithTwos(id, IF Cardinality(Named(keys, id)) > id.twos
                             THEN Cardinality(Named(keys, id)) ELSE id.twos)
<1> DEFINE Right(keys, id) ==
              Deduped(keys, id) =
                WithTwos(id, IF Cardinality(Named(keys, id)) > id.twos
                             THEN Cardinality(Named(keys, id)) ELSE id.twos)
<1> DEFINE S == {keys \in Seq(NamedKey) : Counted(keys) => \A id \in NamedIds : Right(keys, id)}
<1>1. <<>> \in S
  <2> SUFFICES ASSUME NEW id \in NamedIds PROVE Right(<<>>, id)
    OBVIOUS
  <2>1. Named(<<>>, id) = {}
    BY DEF Named
  <2>2. Cardinality(Named(<<>>, id)) = 0
    BY <2>1, FS_EmptySet
  <2>3. id.twos \in Nat /\ WithTwos(id, id.twos) = id /\ Deduped(<<>>, id) = id
    BY NamedIdFacts, DedupedEmpty
  <2> QED
    BY <2>2, <2>3
<1>2. ASSUME NEW keys \in Seq(NamedKey), NEW key \in NamedKey, keys \in S
      PROVE  Append(keys, key) \in S
  <2> SUFFICES ASSUME Counted(Append(keys, key)), NEW id \in NamedIds
               PROVE  Right(Append(keys, key), id)
    OBVIOUS
  <2> DEFINE c == Cardinality(Named(keys, id))
  <2> DEFINE most == IF c > id.twos THEN c ELSE id.twos
  <2>1. Counted(keys) /\ key.id.twos = Cardinality(Named(keys, key.id))
    BY CountedAppend
  <2>2. Deduped(keys, id) = WithTwos(id, most)
    BY <1>2, <2>1
  <2>3. c \in Nat /\ id.twos \in Nat /\ most \in Nat /\ key.id \in NamedIds
    BY NamedAppend, NamedIdFacts DEF NamedKey
  <2> DEFINE d == WithTwos(id, most)
  <2>4. d \in NamedIds /\ d.twos = most /\ SameName(d, id) /\ Suffixed(d) = WithTwos(d, most + 1)
    BY <2>3, NamedIdFacts
  <2>5. Deduped(Append(keys, key), id) = IF key.id = d THEN Suffixed(d) ELSE d
    BY <2>2, DedupedAppend
  <2>6. key.id = d <=> SameName(key.id, d) /\ key.id.twos = most
    <3>1. \A a, b \in NamedIds : a = b <=> SameName(a, b) /\ a.twos = b.twos
      BY NamedIdFacts
    <3> HIDE DEF d, most
    <3> QED
      BY <2>3, <2>4, <3>1
  <2>7. Cardinality(Named(Append(keys, key), id)) = IF SameName(key.id, id) THEN c + 1 ELSE c
    BY NamedAppend
  <2>8. CASE ~SameName(key.id, id)
    <3>1. key.id # d
      BY <2>4, <2>6, <2>8 DEF SameName
    <3> HIDE DEF d, c
    <3> QED
      BY <2>5, <2>7, <2>8, <3>1 DEF d
  <2>9. CASE SameName(key.id, id)
    <3>1. Named(keys, key.id) = Named(keys, id)
      BY <2>9 DEF Named, SameName
    <3>2. key.id.twos = c /\ SameName(key.id, d)
      BY <2>1, <2>4, <2>9, <3>1 DEF SameName
    <3>3. CASE c >= id.twos
      <4>1. most = c /\ key.id = d
        BY <2>3, <2>6, <3>2, <3>3
      <4>2. Suffixed(d) = WithTwos(id, c + 1)
        BY <2>4, <4>1 DEF WithTwos
      <4>3. c + 1 > id.twos
        BY <2>3, <3>3
      <4> HIDE DEF d, c
      <4> QED
        BY <2>5, <2>7, <2>9, <4>1, <4>2, <4>3
    <3>4. CASE c < id.twos
      <4>1. most = id.twos /\ key.id # d /\ ~(c + 1 > id.twos)
        BY <2>3, <2>6, <3>2, <3>4
      <4> HIDE DEF c
      <4> QED
        BY <2>5, <2>7, <2>9, <4>1
    <3> QED
      BY <2>3, <3>3, <3>4
  <2> QED
    BY <2>8, <2>9
<1>3. \A keys \in Seq(NamedKey) : keys \in S
  <2> HIDE DEF S
  <2> QED
    BY <1>1, <1>2, SeqSet
<1> QED
  BY <1>3

-----------------------------------------------------------------------------
(* One more item merged in.                                                *)

Wanted(keys, item) == IF item.id = NoId THEN Numbered(Len(keys) + 1) ELSE item.id

LEMMA NewKeyFacts ==
    ASSUME NEW keys \in Seq(NamedKey), NEW item \in LegacyProvider
    PROVE  /\ NewKey(keys, item) \in NamedKey
           /\ NewKey(keys, item).token = item.token
           /\ NewKey(keys, item).enabled = item.enabled
           /\ Wanted(keys, item) \in NamedIds
           /\ NewKey(keys, item).id = Deduped(keys, Wanted(keys, item))
<1>1. Wanted(keys, item) \in NamedIds
  <2>1. CASE item.id = NoId
    <3>1. "k" \in Stems
      BY MigrationAssumption, Zenon
    <3>2. Len(keys) + 1 \in Nat /\ 0 \in Nat
      OBVIOUS
    <3> QED
      BY <2>1, <3>1, <3>2 DEF Wanted, Numbered, NamedIds
  <2>2. CASE item.id # NoId
    BY <2>2 DEF Wanted, LegacyProvider, Ids, NamedIds
  <2> QED
    BY <2>1, <2>2
<1>2. Deduped(keys, Wanted(keys, item)) \in NamedIds
  BY <1>1, DedupedType
<1>3. /\ NewKey(keys, item) = [id |-> Deduped(keys, Wanted(keys, item)),
                               token |-> item.token, enabled |-> item.enabled]
      /\ item.token \in Tokens \cup {NoToken} /\ item.enabled \in BOOLEAN
  BY DEF NewKey, Wanted, LegacyProvider
<1> QED
  BY <1>1, <1>2, <1>3 DEF NamedKey

\* The new key's id is told from the others', and keeps its name.
LEMMA NewKeyCounted ==
    ASSUME NEW keys \in Seq(NamedKey), NEW item \in LegacyProvider, Counted(keys),
           Wanted(keys, item).twos <= Cardinality(Named(keys, Wanted(keys, item)))
    PROVE  /\ Counted(Append(keys, NewKey(keys, item)))
           /\ SameName(NewKey(keys, item).id, Wanted(keys, item))
<1> DEFINE w == Wanted(keys, item)
<1> DEFINE key == NewKey(keys, item)
<1> DEFINE c == Cardinality(Named(keys, w))
<1>1. w \in NamedIds /\ key \in NamedKey /\ key.id = Deduped(keys, w) /\ w.twos \in Nat
  BY NewKeyFacts, NamedIdFacts
<1>2. c \in Nat
  BY <1>1, NamedAppend
<1>3. key.id = WithTwos(w, IF c > w.twos THEN c ELSE w.twos)
  BY <1>1, DedupedCounts
<1>4. key.id = WithTwos(w, c)
  BY <1>1, <1>2, <1>3
<1>5. key.id.twos = c /\ SameName(key.id, w)
  <2> HIDE DEF key, w, c
  <2>1. WithTwos(w, c).twos = c /\ SameName(WithTwos(w, c), w)
    BY <1>1, <1>2, NamedIdFacts
  <2> QED
    BY <1>4, <2>1
<1>6. Named(keys, key.id) = Named(keys, w)
  BY <1>5 DEF Named, SameName
<1>7. Counted(Append(keys, key))
  <2> HIDE DEF key
  <2> QED
    BY <1>1, <1>5, <1>6, CountedAppend
<1> QED
  BY <1>5, <1>7

Group == [platform : Platforms, keys : Seq(NamedKey) \ {<<>>}]

Apart(g) == \A i, j \in DOMAIN g : g[i].platform = g[j].platform => i = j

Own(g, platform) == {n \in DOMAIN g : g[n].platform = platform}

KeysOf(g, platform) ==
    IF Own(g, platform) = {} THEN <<>> ELSE g[CHOOSE n \in Own(g, platform) : TRUE].keys

LEMMA KeysOfFacts ==
    ASSUME NEW g \in Seq(Group), Apart(g), NEW platform
    PROVE  /\ KeysOf(g, platform) \in Seq(NamedKey)
           /\ KeysOf(g, platform) = <<>> <=> Own(g, platform) = {}
           /\ \A n \in Own(g, platform) :
                 Own(g, platform) = {n} /\ KeysOf(g, platform) = g[n].keys
<1>1. ASSUME NEW n \in Own(g, platform)
      PROVE  Own(g, platform) = {n} /\ KeysOf(g, platform) = g[n].keys
  <2>1. Own(g, platform) = {n}
    BY DEF Own, Apart
  <2>2. (CHOOSE m \in Own(g, platform) : TRUE) = n
    BY <2>1
  <2> QED
    BY <2>1, <2>2 DEF KeysOf
<1>2. ASSUME NEW n \in Own(g, platform)
      PROVE  g[n].keys \in Seq(NamedKey) /\ g[n].keys # <<>>
  <2>1. g[n] \in Group
    BY DEF Own
  <2> QED
    BY <2>1 DEF Group
<1>3. CASE Own(g, platform) = {}
  BY <1>3 DEF KeysOf
<1>4. CASE Own(g, platform) # {}
  BY <1>1, <1>2, <1>4
<1> QED
  BY <1>1, <1>3, <1>4

LEMMA InferPlatformType ==
    ASSUME NEW address PROVE InferPlatform(address) \in Platforms \cup {Unknown}
  BY DEF InferPlatform, Platforms, Unknown

LEMMA UnknownIsNone == Unknown \notin Platforms
  BY DEF Unknown, Platforms

\* migrate.go's loop body: a platform's keys get one more, the others keep theirs.
LEMMA MergedView ==
    ASSUME NEW g \in Seq(Group), Apart(g), NEW item \in LegacyProvider
    PROVE  /\ Merged(g, item) \in Seq(Group)
           /\ Apart(Merged(g, item))
           /\ \A platform \in Platforms :
                 KeysOf(Merged(g, item), platform) =
                    IF platform = InferPlatform(item.address)
                    THEN Append(KeysOf(g, platform), NewKey(KeysOf(g, platform), item))
                    ELSE KeysOf(g, platform)
<1> DEFINE q == InferPlatform(item.address)
<1> DEFINE h == Merged(g, item)
<1> DEFINE at == {i \in DOMAIN g : g[i].platform = q}
<1>1. CASE q = Unknown
  <2>1. h = g
    BY <1>1 DEF Merged
  <2> QED
    BY <1>1, <2>1, UnknownIsNone
<1>2. CASE q # Unknown /\ at = {}
  <2> DEFINE key == NewKey(<<>>, item)
  <2> DEFINE group == [platform |-> q, keys |-> <<key>>]
  <2>0. q \in Platforms
    BY <1>2, InferPlatformType
  <2>1. h = Append(g, group)
    BY <1>2 DEF Merged
  <2>2. <<>> \in Seq(NamedKey)
    OBVIOUS
  <2>3. key \in NamedKey
    BY <2>2, NewKeyFacts
  <2>4. <<key>> \in Seq(NamedKey) \ {<<>>} /\ Append(<<>>, key) = <<key>>
    <3> HIDE DEF key
    <3> QED
      BY <2>3
  <2>5. group \in Group
    <3> HIDE DEF key, q
    <3> QED
      BY <2>0, <2>4 DEF Group
  <2> DEFINE n == Len(g) + 1
  <2>6. /\ DOMAIN h = 1 .. n /\ DOMAIN g = 1 .. n - 1 /\ h[n] = group /\ n \in Nat \ {0}
        /\ \A i \in DOMAIN g : h[i] = g[i] /\ i # n
        /\ h \in Seq(Group)
    <3> HIDE DEF group, h
    <3> QED
      BY <2>1, <2>5
  <2>7. \A i : i \in DOMAIN h <=> i \in DOMAIN g \/ i = n
    <3> HIDE DEF n, h
    <3> QED
      BY <2>6
  <2>8. \A i \in DOMAIN g : g[i].platform # q
    BY <1>2
  <2>9. h[n].platform = q /\ h[n].keys = <<key>>
    BY <2>6
  <2> HIDE DEF h, group, key, q, n, at
  <2>10. Apart(h)
    BY <2>6, <2>7, <2>8, <2>9 DEF Apart
  <2>11. ASSUME NEW platform \in Platforms, platform # q
         PROVE  KeysOf(h, platform) = KeysOf(g, platform)
    <3>1. Own(h, platform) = Own(g, platform)
      BY <2>6, <2>7, <2>9, <2>11 DEF Own
    <3>2. CASE Own(g, platform) = {}
      BY <3>1, <3>2 DEF KeysOf
    <3>3. CASE Own(g, platform) # {}
      <4>1. PICK m : m \in Own(g, platform)
        BY <3>3
      <4>2. KeysOf(g, platform) = g[m].keys
        BY <4>1, KeysOfFacts
      <4>3. KeysOf(h, platform) = h[m].keys
        BY <2>6, <2>10, <3>1, <4>1, KeysOfFacts
      <4> QED
        BY <2>6, <4>1, <4>2, <4>3 DEF Own
    <3> QED
      BY <3>2, <3>3
  <2>12. KeysOf(h, q) = <<key>> /\ KeysOf(g, q) = <<>>
    <3>1. n \in Own(h, q) /\ Own(g, q) = {}
      BY <2>7, <2>8, <2>9 DEF Own
    <3> QED
      BY <2>6, <2>9, <2>10, <3>1, KeysOfFacts
  <2>13. KeysOf(h, q) = Append(KeysOf(g, q), NewKey(KeysOf(g, q), item))
    BY <2>4, <2>12 DEF key
  <2> QED
    BY <2>6, <2>10, <2>11, <2>13 DEF h, q
<1>3. CASE q # Unknown /\ at # {}
  <2>0. q \in Platforms
    BY <1>3, InferPlatformType
  <2>1. PICK n : n \in at
    BY <1>3
  <2>2. n \in DOMAIN g /\ g[n].platform = q
    BY <2>1
  <2>3. at = {n}
    BY <2>2 DEF Apart
  <2> DEFINE key == NewKey(g[n].keys, item)
  <2>4. h = [i \in DOMAIN g |-> IF i = n THEN [g[n] EXCEPT !.keys = Append(@, key)] ELSE g[i]]
    <3>1. h = [i \in DOMAIN g |->
                  IF i \in at
                  THEN [g[i] EXCEPT !.keys = Append(@, NewKey(@, item))] ELSE g[i]]
      BY <1>3 DEF Merged
    <3>2. \A i : i \in at <=> i = n
      BY <2>3
    <3> HIDE DEF at
    <3> QED
      BY <3>1, <3>2
  <2>5. g[n] \in Group /\ g[n].keys \in Seq(NamedKey)
    <3>1. g[n] \in Group
      BY <2>2
    <3> QED
      BY <3>1 DEF Group
  <2>6. key \in NamedKey
    BY <2>5, NewKeyFacts
  <2> DEFINE group == [g[n] EXCEPT !.keys = Append(@, key)]
  <2> HIDE DEF key
  <2>7. Append(g[n].keys, key) \in Seq(NamedKey) \ {<<>>}
    BY <2>5, <2>6
  <2>8. group \in Group /\ group.platform = q /\ group.keys = Append(g[n].keys, key)
    BY <2>2, <2>5, <2>7 DEF Group
  <2>9. /\ h \in Seq(Group) /\ DOMAIN h = DOMAIN g /\ h[n] = group
        /\ \A i \in DOMAIN g : i # n => h[i] = g[i]
    <3> HIDE DEF group, h
    <3>1. h = [i \in 1 .. Len(g) |-> IF i = n THEN group ELSE g[i]]
      BY <2>4 DEF group
    <3>2. \A i \in 1 .. Len(g) : g[i] \in Group
      OBVIOUS
    <3> QED
      BY <2>2, <2>8, <3>1, <3>2
  <2> HIDE DEF h, group, q, at
  <2>10. \A i \in DOMAIN g : h[i].platform = g[i].platform
    BY <2>2, <2>8, <2>9
  <2>11. Apart(h)
    BY <2>9, <2>10 DEF Apart
  <2>12. \A platform : Own(h, platform) = Own(g, platform)
    BY <2>9, <2>10 DEF Own
  <2>13. ASSUME NEW platform \in Platforms, platform # q
         PROVE  KeysOf(h, platform) = KeysOf(g, platform)
    <3>1. \A m \in Own(g, platform) : m \in DOMAIN g /\ m # n
      BY <2>2, <2>13 DEF Own
    <3>2. CASE Own(g, platform) = {}
      BY <2>12, <3>2 DEF KeysOf
    <3>3. CASE Own(g, platform) # {}
      <4>1. PICK m : m \in Own(g, platform)
        BY <3>3
      <4>2. KeysOf(g, platform) = g[m].keys
        BY <4>1, KeysOfFacts
      <4>3. KeysOf(h, platform) = h[m].keys
        BY <2>9, <2>11, <2>12, <4>1, KeysOfFacts
      <4> QED
        BY <2>9, <3>1, <4>1, <4>2, <4>3
    <3> QED
      BY <3>2, <3>3
  <2>14. KeysOf(h, q) = Append(g[n].keys, key) /\ KeysOf(g, q) = g[n].keys
    <3>1. n \in Own(g, q) /\ n \in Own(h, q)
      BY <2>2, <2>12 DEF Own
    <3> QED
      BY <2>8, <2>9, <2>11, <3>1, KeysOfFacts
  <2>15. KeysOf(h, q) = Append(KeysOf(g, q), NewKey(KeysOf(g, q), item))
    BY <2>14 DEF key
  <2> QED
    BY <2>9, <2>11, <2>13, <2>15 DEF h, q
<1> QED
  BY <1>1, <1>2, <1>3

-----------------------------------------------------------------------------
(* All items merged in.                                                    *)

Grouping == {g \in Seq(Group) : Apart(g)}

MergeStep == [a \in Grouping \X LegacyProvider |-> Merged(a[1], a[2])]

LEMMA MergeStepType == MergeStep \in Steps(Grouping, LegacyProvider) /\ <<>> \in Grouping
<1>1. \A g \in Grouping, item \in LegacyProvider : Merged(g, item) \in Grouping
  BY MergedView DEF Grouping
<1>2. <<>> \in Grouping
  BY DEF Grouping, Apart
<1> QED
  BY <1>1, <1>2 DEF MergeStep, Steps

LEMMA groupIs ==
    ASSUME NEW items \in Seq(LegacyProvider)
    PROVE  groupLegacyProviders(items) = Folded(MergeStep, <<>>, items)
<1> DEFINE Iter(h) == h = [S \in SUBSET DOMAIN items |->
                             IF S = {} THEN <<>>
                             ELSE Merged(h[S \ {Max(S)}], items[Max(S)])]
<1>1. \E G : Iter(G)
  <2>1. PICK G : Runs(G, items, Grouping, LegacyProvider, <<>>, MergeStep)
    BY MergeStepType, LoopExists
  <2>2. ASSUME NEW S \in SUBSET DOMAIN items
        PROVE  G[S] = IF S = {} THEN <<>> ELSE Merged(G[S \ {Max(S)}], items[Max(S)])
    BY <2>1 DEF MergeStep, Runs
  <2>3. Iter(G)
    BY <2>1, <2>2, Zenon DEF Runs
  <2> QED
    BY <2>3
<1>2. PICK h : Iter(h) /\ groupLegacyProviders(items) = h[DOMAIN items]
  <2> DEFINE it == CHOOSE h : Iter(h)
  <2>1. Iter(it)
    <3> HIDE DEF Iter
    <3> QED
      BY <1>1, Zenon
  <2>2. groupLegacyProviders(items) = it[DOMAIN items]
    BY DEF groupLegacyProviders, FoldLeft, MapThenFoldSet
  <2> QED
    BY <2>1, <2>2
<1>3. ASSUME NEW S \in SUBSET DOMAIN items
      PROVE  h[S] = IF S = {} THEN <<>> ELSE Merged(h[S \ {Max(S)}], items[Max(S)])
  BY <1>2, Zenon
<1>4. Follows(h, items, Grouping, LegacyProvider, <<>>, MergeStep)
  BY <1>3 DEF Follows, MergeStep
<1>5. h[DOMAIN items] = Folded(MergeStep, <<>>, items)
  <2> HIDE DEF Iter
  <2> QED
    BY <1>4, MergeStepType, LoopIs
<1> QED
  BY <1>2, <1>5

LEMMA groupFacts ==
    /\ groupLegacyProviders(<<>>) = <<>>
    /\ \A items \in Seq(LegacyProvider) :
          /\ groupLegacyProviders(items) \in Grouping
          /\ \A item \in LegacyProvider :
                groupLegacyProviders(Append(items, item))
                    = Merged(groupLegacyProviders(items), item)
<1>1. groupLegacyProviders(<<>>) = <<>>
  <2>1. <<>> \in Seq(LegacyProvider)
    OBVIOUS
  <2>2. Folded(MergeStep, <<>>, <<>>) = <<>>
    BY MergeStepType, FoldedEmpty
  <2> QED
    BY <2>1, <2>2, groupIs
<1>2. ASSUME NEW items \in Seq(LegacyProvider)
      PROVE  groupLegacyProviders(items) \in Grouping
  BY groupIs, MergeStepType, FoldedType
<1>3. ASSUME NEW items \in Seq(LegacyProvider), NEW item \in LegacyProvider
      PROVE  groupLegacyProviders(Append(items, item))
                 = Merged(groupLegacyProviders(items), item)
  <2>1. Append(items, item) \in Seq(LegacyProvider)
    OBVIOUS
  <2>2. Folded(MergeStep, <<>>, Append(items, item))
          = MergeStep[<<Folded(MergeStep, <<>>, items), item>>]
    BY MergeStepType, FoldedAppend
  <2>3. groupLegacyProviders(items) = Folded(MergeStep, <<>>, items)
    BY groupIs
  <2>4. groupLegacyProviders(Append(items, item)) = Folded(MergeStep, <<>>, Append(items, item))
    BY <2>1, groupIs
  <2>5. MergeStep[<<groupLegacyProviders(items), item>>]
          = Merged(groupLegacyProviders(items), item)
    BY <1>2 DEF MergeStep
  <2> QED
    BY <2>2, <2>3, <2>4, <2>5
<1> QED
  BY <1>1, <1>2, <1>3

KeptItems == Seq(LegacyProvider)

KeepStep ==
    [a \in KeptItems \X LegacyProvider |->
        IF SkippedV1(a[2]) THEN a[1] ELSE Append(a[1], rewriteV1Provider(a[2]))]

LEMMA rewriteType ==
    ASSUME NEW item \in LegacyProvider PROVE rewriteV1Provider(item) \in LegacyProvider
<1>1. {"kimi-code", "opencode"} \subseteq Addresses
  BY DEF Addresses, Platforms
<1> QED
  BY <1>1 DEF rewriteV1Provider, LegacyProvider

LEMMA KeepStepType ==
    KeepStep \in Steps(KeptItems, LegacyProvider) /\ <<>> \in KeptItems
<1>1. \A s \in Seq(LegacyProvider), item \in LegacyProvider :
          Append(s, rewriteV1Provider(item)) \in Seq(LegacyProvider)
  BY rewriteType
<1>2. <<>> \in Seq(LegacyProvider)
  OBVIOUS
<1> QED
  BY <1>1, <1>2 DEF KeepStep, Steps, KeptItems

LEMMA ItemsOfV1Is ==
    ASSUME NEW items \in Seq(LegacyProvider)
    PROVE  ItemsOfV1(items) = Folded(KeepStep, <<>>, items)
<1> DEFINE Iter(h) == h = [S \in SUBSET DOMAIN items |->
                             IF S = {} THEN <<>>
                             ELSE IF SkippedV1(items[Max(S)]) THEN h[S \ {Max(S)}]
                             ELSE Append(h[S \ {Max(S)}], rewriteV1Provider(items[Max(S)]))]
<1>1. \E G : Iter(G)
  <2>1. PICK G : Runs(G, items, KeptItems, LegacyProvider, <<>>, KeepStep)
    BY KeepStepType, LoopExists
  <2>2. ASSUME NEW S \in SUBSET DOMAIN items
        PROVE  G[S] = IF S = {} THEN <<>>
                      ELSE IF SkippedV1(items[Max(S)]) THEN G[S \ {Max(S)}]
                      ELSE Append(G[S \ {Max(S)}], rewriteV1Provider(items[Max(S)]))
    BY <2>1 DEF KeepStep, Runs
  <2>3. Iter(G)
    BY <2>1, <2>2, Zenon DEF Runs
  <2> QED
    BY <2>3
<1>2. PICK h : Iter(h) /\ ItemsOfV1(items) = h[DOMAIN items]
  <2> DEFINE it == CHOOSE h : Iter(h)
  <2>1. Iter(it)
    <3> HIDE DEF Iter
    <3> QED
      BY <1>1, Zenon
  <2>2. ItemsOfV1(items) = it[DOMAIN items]
    BY DEF ItemsOfV1, FoldLeft, MapThenFoldSet
  <2> QED
    BY <2>1, <2>2
<1>3. ASSUME NEW S \in SUBSET DOMAIN items
      PROVE  h[S] = IF S = {} THEN <<>>
                    ELSE IF SkippedV1(items[Max(S)]) THEN h[S \ {Max(S)}]
                    ELSE Append(h[S \ {Max(S)}], rewriteV1Provider(items[Max(S)]))
  BY <1>2, Zenon
<1>4. Follows(h, items, KeptItems, LegacyProvider, <<>>, KeepStep)
  BY <1>3 DEF Follows, KeepStep
<1>5. h[DOMAIN items] = Folded(KeepStep, <<>>, items)
  <2> HIDE DEF Iter
  <2> QED
    BY <1>4, KeepStepType, LoopIs
<1> QED
  BY <1>2, <1>5

LEMMA ItemsOfV1Facts ==
    /\ ItemsOfV1(<<>>) = <<>>
    /\ \A items \in Seq(LegacyProvider) :
          /\ ItemsOfV1(items) \in Seq(LegacyProvider)
          /\ \A item \in LegacyProvider :
                ItemsOfV1(Append(items, item)) =
                    IF SkippedV1(item) THEN ItemsOfV1(items)
                    ELSE Append(ItemsOfV1(items), rewriteV1Provider(item))
<1>1. ItemsOfV1(<<>>) = <<>>
  <2>1. Folded(KeepStep, <<>>, <<>>) = <<>>
    BY KeepStepType, FoldedEmpty
  <2>2. <<>> \in Seq(LegacyProvider)
    OBVIOUS
  <2> QED
    BY <2>1, <2>2, ItemsOfV1Is
<1>2. ASSUME NEW items \in Seq(LegacyProvider)
      PROVE  ItemsOfV1(items) \in Seq(LegacyProvider)
  <2>1. ItemsOfV1(items) \in KeptItems
    BY ItemsOfV1Is, KeepStepType, FoldedType
  <2> QED
    BY <2>1 DEF KeptItems
<1>3. ASSUME NEW items \in Seq(LegacyProvider), NEW item \in LegacyProvider
      PROVE  ItemsOfV1(Append(items, item)) =
                IF SkippedV1(item) THEN ItemsOfV1(items)
                ELSE Append(ItemsOfV1(items), rewriteV1Provider(item))
  <2>1. Append(items, item) \in Seq(LegacyProvider)
    OBVIOUS
  <2>2. Folded(KeepStep, <<>>, Append(items, item))
          = KeepStep[<<Folded(KeepStep, <<>>, items), item>>]
    BY KeepStepType, FoldedAppend
  <2>3. ItemsOfV1(items) = Folded(KeepStep, <<>>, items)
    BY ItemsOfV1Is
  <2>4. ItemsOfV1(Append(items, item)) = Folded(KeepStep, <<>>, Append(items, item))
    BY <2>1, ItemsOfV1Is
  <2>5. KeepStep[<<ItemsOfV1(items), item>>] =
            IF SkippedV1(item) THEN ItemsOfV1(items)
            ELSE Append(ItemsOfV1(items), rewriteV1Provider(item))
    BY <1>2 DEF KeepStep, KeptItems
  <2> QED
    BY <2>2, <2>3, <2>4, <2>5
<1> QED
  BY <1>1, <1>2, <1>3

-----------------------------------------------------------------------------
(* What was merged from the items so far, platform by platform.            *)

\* All that a migration's keys depend on.
Older(v, items) == [version |-> v, items |-> items]

Reads(v, item) == IF v = 2 THEN rewriteV1Provider(item) ELSE item

Takes(v, item, platform) ==
    (v = 2 => ~SkippedV1(item)) /\ InferPlatform(Reads(v, item).address) = platform

Grouped(v, items) == groupLegacyProviders(IF v = 2 THEN ItemsOfV1(items) ELSE items)

LEMMA ReadsFacts ==
    ASSUME NEW v, NEW item \in LegacyProvider
    PROVE  Reads(v, item) \in LegacyProvider /\ Reads(v, item).id = item.id
<1>1. rewriteV1Provider(item).id = item.id
  BY DEF rewriteV1Provider, LegacyProvider
<1> QED
  BY <1>1, rewriteType DEF Reads

LEMMA GroupedFacts ==
    ASSUME NEW v \in {2, 3}
    PROVE  /\ Grouped(v, <<>>) = <<>>
           /\ \A items \in Seq(LegacyProvider) :
                 /\ Grouped(v, items) \in Grouping
                 /\ \A item \in LegacyProvider :
                       Grouped(v, Append(items, item)) =
                          IF v = 2 /\ SkippedV1(item) THEN Grouped(v, items)
                          ELSE Merged(Grouped(v, items), Reads(v, item))
<1>1. Grouped(v, <<>>) = <<>>
  BY groupFacts, ItemsOfV1Facts DEF Grouped
<1>2. ASSUME NEW items \in Seq(LegacyProvider)
      PROVE  Grouped(v, items) \in Grouping
  BY groupFacts, ItemsOfV1Facts DEF Grouped
<1>3. ASSUME NEW items \in Seq(LegacyProvider), NEW item \in LegacyProvider
      PROVE  Grouped(v, Append(items, item)) =
                IF v = 2 /\ SkippedV1(item) THEN Grouped(v, items)
                ELSE Merged(Grouped(v, items), Reads(v, item))
  <2>1. CASE v = 2
    <3>1. ItemsOfV1(Append(items, item)) =
              IF SkippedV1(item) THEN ItemsOfV1(items)
              ELSE Append(ItemsOfV1(items), rewriteV1Provider(item))
      BY ItemsOfV1Facts
    <3>2. ItemsOfV1(items) \in Seq(LegacyProvider) /\ rewriteV1Provider(item) \in LegacyProvider
      BY ItemsOfV1Facts, rewriteType
    <3>3. groupLegacyProviders(Append(ItemsOfV1(items), rewriteV1Provider(item)))
            = Merged(groupLegacyProviders(ItemsOfV1(items)), rewriteV1Provider(item))
      BY <3>2, groupFacts
    <3> QED
      BY <2>1, <3>1, <3>3 DEF Grouped, Reads
  <2>2. CASE v = 3
    BY <2>2, groupFacts DEF Grouped, Reads
  <2> QED
    BY <2>1, <2>2
<1> QED
  BY <1>1, <1>2, <1>3

\* An item more is a key more for its platform, and for no other.
LEMMA KeysGrow ==
    ASSUME NEW v \in {2, 3}, NEW items \in Seq(LegacyProvider), NEW item \in LegacyProvider,
           NEW platform \in Platforms
    PROVE  LET keys == KeysOf(Grouped(v, items), platform) IN
           KeysOf(Grouped(v, Append(items, item)), platform) =
              IF Takes(v, item, platform) THEN Append(keys, NewKey(keys, Reads(v, item)))
              ELSE keys
<1> DEFINE g == Grouped(v, items)
<1>1. g \in Seq(Group) /\ Apart(g)
  BY GroupedFacts DEF Grouping
<1>2. CASE v = 2 /\ SkippedV1(item)
  BY <1>2, GroupedFacts DEF Takes
<1>3. CASE ~(v = 2 /\ SkippedV1(item))
  <2>1. Grouped(v, Append(items, item)) = Merged(g, Reads(v, item))
    BY <1>3, GroupedFacts
  <2>2. Reads(v, item) \in LegacyProvider
    BY ReadsFacts
  <2>3. KeysOf(Merged(g, Reads(v, item)), platform) =
            IF platform = InferPlatform(Reads(v, item).address)
            THEN Append(KeysOf(g, platform), NewKey(KeysOf(g, platform), Reads(v, item)))
            ELSE KeysOf(g, platform)
    BY <1>1, <2>2, MergedView
  <2> QED
    BY <1>3, <2>1, <2>3 DEF Takes
<1> QED
  BY <1>2, <1>3

LEMMA GroupedKeys ==
    ASSUME NEW v \in {2, 3}, NEW items \in Seq(LegacyProvider), NEW platform
    PROVE  LET g == Grouped(v, items) IN
           /\ KeysOf(g, platform) \in Seq(NamedKey)
           /\ KeysOf(g, platform) = <<>> <=> Own(g, platform) = {}
           /\ \A n \in Own(g, platform) :
                 Own(g, platform) = {n} /\ KeysOf(g, platform) = g[n].keys
<1>1. Grouped(v, items) \in Seq(Group) /\ Apart(Grouped(v, items))
  BY GroupedFacts DEF Grouping
<1> QED
  BY <1>1, KeysOfFacts

\* What can be imported from a list with one item more.
LEMMA ImportableGrows ==
    ASSUME NEW v, NEW items \in Seq(LegacyProvider), NEW item \in LegacyProvider,
           NEW platform
    PROVE  LET n == Len(items)
               longer == Append(items, item)
               before == Importable(Older(v, items), platform)
               after == Importable(Older(v, longer), platform)
           IN  /\ n \in Nat /\ before \in SUBSET (1 .. n) /\ n + 1 \notin before
               /\ IsFiniteSet(before) /\ Cardinality(before) \in Nat
               /\ after = IF Takes(v, item, platform) THEN before \cup {n + 1} ELSE before
               /\ longer[n + 1] = item /\ AsRead(Older(v, longer), n + 1) = Reads(v, item)
               /\ \A i \in 1 .. n : /\ longer[i] = items[i] /\ i < n + 1
                                    /\ AsRead(Older(v, longer), i) = AsRead(Older(v, items), i)
<1> DEFINE n == Len(items)
<1> DEFINE longer == Append(items, item)
<1>1. /\ n \in Nat /\ DOMAIN items = 1 .. n /\ DOMAIN longer = 1 .. n + 1
      /\ longer[n + 1] = item /\ \A i \in 1 .. n : longer[i] = items[i]
  OBVIOUS
<1>2. /\ n + 1 \notin 1 .. n /\ \A i \in 1 .. n : i < n + 1
      /\ \A i : i \in DOMAIN longer <=> i \in 1 .. n \/ i = n + 1
  BY <1>1
<1> HIDE DEF longer
<1> DEFINE before == Importable(Older(v, items), platform)
<1> DEFINE after == Importable(Older(v, longer), platform)
<1>3. before \in SUBSET (1 .. n)
  BY <1>1 DEF Importable, Older
<1>4. IsFiniteSet(before) /\ Cardinality(before) \in Nat
  <2> HIDE DEF before, n
  <2> QED
    BY <1>1, <1>3, PlacesBounds
<1>5. AsRead(Older(v, longer), n + 1) = Reads(v, item)
  BY <1>1 DEF AsRead, Older, Reads
<1>6. \A i \in 1 .. n : AsRead(Older(v, longer), i) = AsRead(Older(v, items), i)
  BY <1>1 DEF AsRead, Older
<1> HIDE DEF n
<1>7. \A i \in 1 .. n : i \in after <=> i \in before
  BY <1>1, <1>2, <1>6 DEF Importable, Older
<1>8. n + 1 \in after <=> Takes(v, item, platform)
  BY <1>1, <1>2, <1>5 DEF Importable, Older, Takes
<1>9. \A i \in after : i \in 1 .. n \/ i = n + 1
  BY <1>2 DEF Importable, Older
<1>10. after = IF Takes(v, item, platform) THEN before \cup {n + 1} ELSE before
  <2> HIDE DEF after, before
  <2>1. CASE Takes(v, item, platform)
    BY <1>3, <1>7, <1>8, <1>9, <2>1
  <2>2. CASE ~Takes(v, item, platform)
    <3>1. \A i : i \in after <=> i \in before
      BY <1>3, <1>7, <1>8, <1>9, <2>2
    <3>2. after = before
      BY <3>1
    <3> QED
      BY <2>2, <3>2
  <2> QED
    BY <2>1, <2>2
<1> QED
  BY <1>1, <1>2, <1>3, <1>4, <1>5, <1>6, <1>10 DEF longer, n

-----------------------------------------------------------------------------
(* Every credential arrives.                                               *)

LEMMA CredentialsGrow ==
    ASSUME NEW v, NEW items \in Seq(LegacyProvider), NEW item \in LegacyProvider,
           NEW platform, NEW keys \in Seq(NamedKey), NEW key \in NamedKey,
           key.token = Reads(v, item).token, key.enabled = Reads(v, item).enabled,
           SameCredentials(Older(v, items), Importable(Older(v, items), platform), keys)
    PROVE  SameCredentials(Older(v, Append(items, item)),
                           Importable(Older(v, Append(items, item)), platform),
                           IF Takes(v, item, platform) THEN Append(keys, key) ELSE keys)
<1> DEFINE n == Len(items)
<1> DEFINE f == Older(v, items)
<1> DEFINE g == Older(v, Append(items, item))
<1> DEFINE places == Importable(f, platform)
<1>1. /\ n \in Nat /\ places \in SUBSET (1 .. n) /\ n + 1 \notin places
      /\ IsFiniteSet(places) /\ Cardinality(places) \in Nat
      /\ Importable(g, platform) = IF Takes(v, item, platform) THEN places \cup {n + 1} ELSE places
      /\ AsRead(g, n + 1) = Reads(v, item)
      /\ \A i \in 1 .. n : i < n + 1 /\ AsRead(g, i) = AsRead(f, i)
  BY ImportableGrows
<1>2. SameCredentials(f, places, keys)
  OBVIOUS
<1> HIDE DEF n, f, g, places
<1>3. SameCredentials(g, places, keys)
  BY <1>1, <1>2 DEF SameCredentials
<1>4. SameCredentials(g, places \cup {n + 1}, Append(keys, key))
  <2> DEFINE more == places \cup {n + 1}
  <2> DEFINE longer == Append(keys, key)
  <2> DEFINE c == Cardinality(places)
  <2>1. Len(keys) = c /\ c \in Nat
    BY <1>1, <1>2 DEF SameCredentials
  <2>2. Cardinality(more) = c + 1
    BY <1>1, FS_AddElement
  <2>3. /\ Len(longer) = c + 1 /\ longer[c + 1] = key
        /\ \A r \in 1 .. c : longer[r] = keys[r]
    BY <2>1
  <2>4. ASSUME NEW i \in places
        PROVE  LET r == Cardinality({j \in more : j <= i}) IN
               longer[r].token = AsRead(g, i).token /\ longer[r].enabled = AsRead(g, i).enabled
    <3> DEFINE old == {j \in places : j <= i}
    <3>1. {j \in more : j <= i} = old
      <4>1. i < n + 1 /\ i \in Nat
        BY <1>1
      <4> QED
        BY <1>1, <4>1
    <3>2. i \in old /\ old \subseteq places
      BY <1>1
    <3>3. Cardinality(old) \in 1 .. c
      <4> HIDE DEF old
      <4>1. IsFiniteSet(old) /\ Cardinality(old) \in Nat /\ Cardinality(old) <= c
        BY <1>1, <3>2, FS_Subset, FS_CardinalityType
      <4>2. Cardinality(old) # 0
        BY <3>2, <4>1, FS_EmptySet
      <4> QED
        BY <2>1, <4>1, <4>2
    <3>4. LET r == Cardinality(old) IN
          keys[r].token = AsRead(f, i).token /\ keys[r].enabled = AsRead(f, i).enabled
      BY <1>2 DEF SameCredentials
    <3>5. AsRead(g, i) = AsRead(f, i)
      BY <1>1
    <3> HIDE DEF longer, old, c
    <3> QED
      BY <2>3, <3>1, <3>3, <3>4, <3>5
  <2>5. {j \in more : j <= n + 1} = more
    <3>1. \A j \in places : j <= n + 1
      BY <1>1
    <3>2. n + 1 <= n + 1
      BY <1>1
    <3>3. \A j \in more : j <= n + 1
      BY <3>1, <3>2
    <3> HIDE DEF more
    <3> QED
      BY <3>3
  <2> HIDE DEF more, longer, c
  <2>6. ASSUME NEW i \in more
        PROVE  LET r == Cardinality({j \in more : j <= i}) IN
               longer[r].token = AsRead(g, i).token /\ longer[r].enabled = AsRead(g, i).enabled
    <3>1. CASE i \in places
      BY <2>4, <3>1
    <3>2. CASE i = n + 1
      BY <1>1, <2>2, <2>3, <2>5, <3>2
    <3> QED
      BY <3>1, <3>2 DEF more
  <2>7. SameCredentials(g, more, longer)
    BY <2>2, <2>3, <2>6 DEF SameCredentials
  <2> QED
    BY <2>7 DEF more, longer
<1> QED
  BY <1>1, <1>3, <1>4 DEF g

LEMMA CredentialsArrive ==
    ASSUME NEW v \in {2, 3}
    PROVE  \A items \in Seq(LegacyProvider), platform \in Platforms :
               SameCredentials(Older(v, items), Importable(Older(v, items), platform),
                               KeysOf(Grouped(v, items), platform))
<1> DEFINE Arrive(items, platform) ==
              SameCredentials(Older(v, items), Importable(Older(v, items), platform),
                              KeysOf(Grouped(v, items), platform))
<1> DEFINE S == {items \in Seq(LegacyProvider) : \A platform \in Platforms : Arrive(items, platform)}
<1>1. <<>> \in S
  <2> SUFFICES ASSUME NEW platform \in Platforms PROVE Arrive(<<>>, platform)
    OBVIOUS
  <2>1. Importable(Older(v, <<>>), platform) = {}
    BY DEF Importable, Older
  <2>2. Own(Grouped(v, <<>>), platform) = {}
    BY GroupedFacts DEF Own
  <2>3. KeysOf(Grouped(v, <<>>), platform) = <<>>
    BY <2>2 DEF KeysOf
  <2>4. Cardinality({}) = 0 /\ Len(<<>>) = 0
    BY FS_EmptySet
  <2> QED
    BY <2>1, <2>3, <2>4 DEF SameCredentials
<1>2. ASSUME NEW items \in Seq(LegacyProvider), NEW item \in LegacyProvider, items \in S
      PROVE  Append(items, item) \in S
  <2> SUFFICES ASSUME NEW platform \in Platforms PROVE Arrive(Append(items, item), platform)
    OBVIOUS
  <2> DEFINE keys == KeysOf(Grouped(v, items), platform)
  <2> DEFINE key == NewKey(keys, Reads(v, item))
  <2>1. keys \in Seq(NamedKey)
    BY GroupedKeys
  <2>2. Reads(v, item) \in LegacyProvider
    BY ReadsFacts
  <2>3. key \in NamedKey /\ key.token = Reads(v, item).token /\ key.enabled = Reads(v, item).enabled
    <3> HIDE DEF keys
    <3> QED
      BY <2>1, <2>2, NewKeyFacts
  <2>4. Arrive(items, platform)
    BY <1>2
  <2>5. KeysOf(Grouped(v, Append(items, item)), platform) =
            IF Takes(v, item, platform) THEN Append(keys, key) ELSE keys
    BY KeysGrow
  <2> HIDE DEF key, keys
  <2>6. SameCredentials(Older(v, Append(items, item)),
                        Importable(Older(v, Append(items, item)), platform),
                        IF Takes(v, item, platform) THEN Append(keys, key) ELSE keys)
    BY <2>1, <2>3, <2>4, CredentialsGrow DEF keys
  <2> QED
    BY <2>5, <2>6
<1>3. \A items \in Seq(LegacyProvider) : items \in S
  <2> HIDE DEF S
  <2> QED
    BY <1>1, <1>2, SeqSet
<1> QED
  BY <1>3

LEMMA MigrateIs ==
    ASSUME NEW f \in File, f.version \in 2 .. 4
    PROVE  /\ f.version = 4 => Migrate(f) = MigrateV4(f)
           /\ f.version \in {2, 3} =>
                 Migrate(f) = NewFile(IF f.version = 2 THEN DefaultSettings
                                      ELSE SettingsOfV3(f.settings),
                                      Grouped(f.version, f.items))
<1>1. CASE f.version = 2
  <2>1. Migrate(f) = MigrateV1(f)
    BY <1>1 DEF Migrate
  <2> QED
    BY <1>1, <2>1 DEF MigrateV1, Grouped
<1>2. CASE f.version = 3
  <2>1. Migrate(f) = MigrateV3(f)
    BY <1>2 DEF Migrate
  <2> QED
    BY <1>2, <2>1 DEF MigrateV3, Grouped
<1>3. CASE f.version = 4
  BY <1>3 DEF Migrate
<1> QED
  BY <1>1, <1>2, <1>3

\* migrateV1 and migrateV3 with groupLegacyProviders: no configuration of an
\* older version makes a migration lose, repeat or swap a credential.
THEOREM MigrateKeepsKeys ==
    ASSUME NEW f \in File, f.version \in 2 .. 4
    PROVE  KeepsKeys(f, Migrate(f))
<1>1. CASE f.version = 4
  BY <1>1, MigrateIs DEF KeepsKeys, MigrateV4, File
<1>2. CASE f.version \in {2, 3}
  <2> DEFINE v == f.version
  <2> DEFINE items == f.items
  <2> DEFINE g == Grouped(v, items)
  <2>1. items \in Seq(LegacyProvider) /\ Migrate(f).providers = g
    <3>1. items \in Seq(LegacyProvider)
      BY DEF File
    <3>2. \A settings : NewFile(settings, g).providers = g
      BY DEF NewFile
    <3> HIDE DEF g, items
    <3>3. \E settings : Migrate(f) = NewFile(settings, g)
      BY <1>2, MigrateIs DEF g, items
    <3> QED
      BY <3>1, <3>2, <3>3
  <2> SUFFICES ASSUME NEW platform \in Platforms
               PROVE  LET places == Importable(f, platform)
                          own == Own(g, platform)
                      IN  IF places = {} THEN own = {}
                          ELSE \E n \in own :
                                  own = {n} /\ SameCredentials(f, places, g[n].keys)
    BY <1>2, <2>1 DEF KeepsKeys, Own
  <2> DEFINE places == Importable(f, platform)
  <2> DEFINE own == Own(g, platform)
  <2> DEFINE keys == KeysOf(g, platform)
  <2>2. Importable(Older(v, items), platform) = places /\ IsFiniteSet(places)
    <3>1. Importable(Older(v, items), platform) = places
      BY DEF Importable, Older, AsRead
    <3>2. places \in SUBSET (1 .. Len(items)) /\ Len(items) \in Nat
      BY <2>1 DEF Importable
    <3> QED
      BY <3>1, <3>2, PlacesBounds
  <2>3. SameCredentials(Older(v, items), places, keys)
    BY <1>2, <2>1, <2>2, CredentialsArrive
  <2>4. SameCredentials(f, places, keys)
    BY <2>3 DEF SameCredentials, Older, AsRead
  <2>5. /\ keys \in Seq(NamedKey) /\ (keys = <<>> <=> own = {})
        /\ \A n \in own : own = {n} /\ keys = g[n].keys
    BY <1>2, <2>1, GroupedKeys
  <2> HIDE DEF places, keys, own
  <2>6. keys = <<>> <=> places = {}
    <3>1. keys = <<>> <=> Len(keys) = 0
      BY <2>5
    <3>2. Len(keys) = Cardinality(places)
      BY <2>4 DEF SameCredentials
    <3> QED
      BY <2>2, <3>1, <3>2, FS_EmptySet
  <2>7. CASE places = {}
    BY <2>5, <2>6, <2>7 DEF places, own
  <2>8. CASE places # {}
    <3>1. PICK n : n \in own
      BY <2>5, <2>6, <2>8
    <3>2. own = {n} /\ SameCredentials(f, places, g[n].keys)
      BY <2>4, <2>5, <3>1
    <3> QED
      BY <2>8, <3>1, <3>2 DEF places, own
  <2> QED
    BY <2>7, <2>8
<1> QED
  BY <1>1, <1>2

-----------------------------------------------------------------------------
(* Ids tell the keys apart.                                                *)

\* As many keys of a name as items had it, or more.
NamedItems(f, platform, id) ==
    {j \in Importable(f, platform) : SameName(f.items[j].id, id)}

IdsCounted(v, items, platform) ==
    LET keys == KeysOf(Grouped(v, items), platform) IN
    /\ Counted(keys)
    /\ \A id \in NamedIds :
          Cardinality(NamedItems(Older(v, items), platform, id)) <= Cardinality(Named(keys, id))

LEMMA FewSuffixesBefore ==
    ASSUME NEW v, NEW items \in Seq(LegacyProvider), NEW item \in LegacyProvider,
           FewSuffixes(Older(v, Append(items, item)))
    PROVE  /\ FewSuffixes(Older(v, items))
           /\ \A platform \in Platforms : Takes(v, item, platform) =>
                 item.id.twos <= Cardinality(NamedItems(Older(v, items), platform, item.id))
<1> DEFINE n == Len(items)
<1> DEFINE longer == Append(items, item)
<1> DEFINE f == Older(v, items)
<1> DEFINE g == Older(v, longer)
<1>1. /\ n \in Nat /\ longer[n + 1] = item
      /\ \A i \in 1 .. n : longer[i] = items[i] /\ i < n + 1
  BY ImportableGrows
<1>2. g.items = longer /\ f.items = items
  BY DEF Older
<1>3. ASSUME NEW platform \in Platforms
      PROVE  /\ Importable(f, platform) \in SUBSET (1 .. n)
             /\ n + 1 \notin Importable(f, platform)
             /\ Importable(g, platform) =
                   IF Takes(v, item, platform) THEN Importable(f, platform) \cup {n + 1}
                   ELSE Importable(f, platform)
  BY ImportableGrows
<1> HIDE DEF n, longer, f, g
<1>4. ASSUME NEW platform \in Platforms, NEW i \in Importable(f, platform)
      PROVE  f.items[i].id.twos <=
                Cardinality({j \in Importable(f, platform) :
                                j < i /\ SameName(f.items[j].id, f.items[i].id)})
  <2>1. i \in Importable(g, platform) /\ i \in 1 .. n
    BY <1>3
  <2>2. ~(n + 1 < i)
    BY <1>1, <2>1
  <2>3. g.items[i] = f.items[i]
    BY <1>1, <1>2, <2>1
  <2>4. {j \in Importable(g, platform) : j < i /\ SameName(g.items[j].id, g.items[i].id)}
          = {j \in Importable(f, platform) : j < i /\ SameName(f.items[j].id, f.items[i].id)}
    <3>1. \A j \in Importable(f, platform) : j \in Importable(g, platform)
                                             /\ g.items[j] = f.items[j]
      BY <1>1, <1>2, <1>3
    <3>2. \A j \in Importable(g, platform) : j < i => j \in Importable(f, platform)
      BY <1>3, <2>2
    <3> QED
      BY <2>3, <3>1, <3>2
  <2>5. g.items[i].id.twos <=
            Cardinality({j \in Importable(g, platform) :
                            j < i /\ SameName(g.items[j].id, g.items[i].id)})
    BY <2>1 DEF FewSuffixes, g, longer
  <2> QED
    BY <2>3, <2>4, <2>5
<1>5. ASSUME NEW platform \in Platforms, Takes(v, item, platform)
      PROVE  item.id.twos <= Cardinality(NamedItems(f, platform, item.id))
  <2>1. n + 1 \in Importable(g, platform) /\ g.items[n + 1] = item
    BY <1>1, <1>2, <1>3, <1>5
  <2>2. {j \in Importable(g, platform) : j < n + 1 /\ SameName(g.items[j].id, g.items[n + 1].id)}
          = NamedItems(f, platform, item.id)
    <3>1. \A j \in Importable(f, platform) :
              j \in Importable(g, platform) /\ g.items[j] = f.items[j] /\ j < n + 1
      BY <1>1, <1>2, <1>3
    <3>2. \A j \in Importable(g, platform) : j < n + 1 => j \in Importable(f, platform)
      <4>1. ~(n + 1 < n + 1)
        BY <1>1
      <4> QED
        BY <1>3, <4>1
    <3> QED
      BY <2>1, <3>1, <3>2 DEF NamedItems
  <2>3. g.items[n + 1].id.twos <=
            Cardinality({j \in Importable(g, platform) :
                            j < n + 1 /\ SameName(g.items[j].id, g.items[n + 1].id)})
    BY <2>1 DEF FewSuffixes, g, longer
  <2> QED
    BY <2>1, <2>2, <2>3
<1> QED
  BY <1>4, <1>5 DEF FewSuffixes, f

LEMMA NamedItemsGrow ==
    ASSUME NEW v, NEW items \in Seq(LegacyProvider), NEW item \in LegacyProvider,
           NEW platform, NEW id
    PROVE  LET before == NamedItems(Older(v, items), platform, id)
               after == NamedItems(Older(v, Append(items, item)), platform, id)
           IN  /\ Cardinality(before) \in Nat
               /\ Cardinality(after) =
                     IF Takes(v, item, platform) /\ SameName(item.id, id)
                     THEN Cardinality(before) + 1 ELSE Cardinality(before)
<1> DEFINE n == Len(items)
<1> DEFINE longer == Append(items, item)
<1> DEFINE f == Older(v, items)
<1> DEFINE g == Older(v, longer)
<1> DEFINE before == NamedItems(f, platform, id)
<1> DEFINE after == NamedItems(g, platform, id)
<1>1. /\ n \in Nat /\ longer[n + 1] = item
      /\ \A i \in 1 .. n : longer[i] = items[i]
      /\ Importable(f, platform) \in SUBSET (1 .. n)
      /\ n + 1 \notin Importable(f, platform)
      /\ IsFiniteSet(Importable(f, platform))
      /\ Importable(g, platform) =
            IF Takes(v, item, platform) THEN Importable(f, platform) \cup {n + 1}
            ELSE Importable(f, platform)
  BY ImportableGrows
<1>2. g.items = longer /\ f.items = items
  BY DEF Older
<1> HIDE DEF n, longer, f, g
<1>3. \A i \in Importable(f, platform) : g.items[i] = f.items[i]
  BY <1>1, <1>2
<1>4. IsFiniteSet(before) /\ Cardinality(before) \in Nat /\ n + 1 \notin before
  <2>1. before \subseteq Importable(f, platform)
    BY DEF NamedItems
  <2> HIDE DEF before
  <2> QED
    BY <1>1, <2>1, FS_Subset, FS_CardinalityType
<1>5. CASE Takes(v, item, platform) /\ SameName(item.id, id)
  <2>1. after = before \cup {n + 1}
    BY <1>1, <1>2, <1>3, <1>5 DEF NamedItems
  <2> HIDE DEF after, before
  <2> QED
    BY <1>4, <1>5, <2>1, FS_AddElement DEF after, before, f, g, longer
<1>6. CASE ~(Takes(v, item, platform) /\ SameName(item.id, id))
  <2>1. \A i : i \in after <=> i \in before
    BY <1>1, <1>2, <1>3, <1>6 DEF NamedItems
  <2> HIDE DEF after, before
  <2>2. after = before
    BY <2>1 DEF after, before, NamedItems
  <2> QED
    BY <1>4, <1>6, <2>2 DEF after, before, f, g, longer
<1> QED
  BY <1>5, <1>6

LEMMA KeyCounted ==
    ASSUME NEW v \in {2, 3}, NEW items \in Seq(LegacyProvider), NEW item \in LegacyProvider,
           NEW platform \in Platforms, FewSuffixes(Older(v, Append(items, item))),
           IdsCounted(v, items, platform)
    PROVE  IdsCounted(v, Append(items, item), platform)
<1> DEFINE keys == KeysOf(Grouped(v, items), platform)
<1> DEFINE more == KeysOf(Grouped(v, Append(items, item)), platform)
<1> DEFINE read == Reads(v, item)
<1> DEFINE wanted == Wanted(keys, read)
<1> DEFINE key == NewKey(keys, read)
<1> DEFINE of(id) == Cardinality(NamedItems(Older(v, items), platform, id))
<1> DEFINE ofMore(id) == Cardinality(NamedItems(Older(v, Append(items, item)), platform, id))
<1>1. keys \in Seq(NamedKey) /\ read \in LegacyProvider /\ read.id = item.id
  BY GroupedKeys, ReadsFacts
<1>2. more = IF Takes(v, item, platform) THEN Append(keys, key) ELSE keys
  BY KeysGrow
<1>3. Counted(keys) /\ \A id \in NamedIds : of(id) <= Cardinality(Named(keys, id))
  BY DEF IdsCounted
<1>4. \A id : of(id) \in Nat
              /\ ofMore(id) = IF Takes(v, item, platform) /\ SameName(item.id, id)
                              THEN of(id) + 1 ELSE of(id)
  BY NamedItemsGrow
<1>5. Takes(v, item, platform) => item.id.twos <= of(item.id)
  BY FewSuffixesBefore
<1> SUFFICES Counted(more) /\ \A id \in NamedIds : ofMore(id) <= Cardinality(Named(more, id))
  BY DEF IdsCounted
<1> HIDE DEF keys, more, read, of, ofMore
<1>6. wanted \in NamedIds /\ key \in NamedKey
  BY <1>1, NewKeyFacts
<1>7. CASE ~Takes(v, item, platform)
  BY <1>2, <1>3, <1>4, <1>7
<1>8. CASE Takes(v, item, platform)
  <2>1. wanted.twos <= Cardinality(Named(keys, wanted))
    <3>1. CASE item.id = NoId
      <4>1. wanted.twos = 0
        BY <1>1, <3>1 DEF Wanted, Numbered
      <4>2. Cardinality(Named(keys, wanted)) \in Nat
        BY <1>1, <1>6, NamedAppend
      <4> QED
        BY <4>1, <4>2
    <3>2. CASE item.id # NoId
      <4>1. wanted = item.id
        BY <1>1, <3>2 DEF Wanted
      <4>2. of(wanted) <= Cardinality(Named(keys, wanted)) /\ of(wanted) \in Nat
        BY <1>3, <1>4, <1>6
      <4>3. wanted.twos <= of(wanted)
        BY <1>5, <1>8, <4>1
      <4>4. wanted.twos \in Nat /\ Cardinality(Named(keys, wanted)) \in Nat
        BY <1>1, <1>6, NamedIdFacts, NamedAppend
      <4> HIDE DEF wanted
      <4> QED
        BY <4>2, <4>3, <4>4
    <3> QED
      BY <3>1, <3>2
  <2>2. Counted(Append(keys, key)) /\ SameName(key.id, wanted)
    BY <1>1, <1>3, <2>1, NewKeyCounted
  <2>3. ASSUME NEW id \in NamedIds
        PROVE  ofMore(id) <= Cardinality(Named(Append(keys, key), id))
    <3> DEFINE c == Cardinality(Named(keys, id))
    <3>1. /\ c \in Nat /\ of(id) \in Nat /\ of(id) <= c
          /\ Cardinality(Named(Append(keys, key), id)) = IF SameName(key.id, id) THEN c + 1 ELSE c
      BY <1>1, <1>3, <1>4, <1>6, NamedAppend
    <3>2. SameName(item.id, id) => SameName(key.id, id)
      <4> SUFFICES ASSUME SameName(item.id, id) PROVE SameName(key.id, id)
        OBVIOUS
      <4>1. item.id # NoId
        <5>1. id.stem \in Stems /\ NoId.stem = "" /\ item.id.stem = id.stem
          BY DEF NamedIds, NoId, SameName
        <5>2. "" \notin Stems
          <6>1. "" # "k"
            OBVIOUS
          <6> QED
            BY <6>1, MigrationAssumption, Zenon
        <5> QED
          BY <5>1, <5>2
      <4>2. wanted = item.id
        BY <1>1, <4>1 DEF Wanted
      <4> QED
        BY <2>2, <4>2 DEF SameName
    <3>3. ofMore(id) = IF SameName(item.id, id) THEN of(id) + 1 ELSE of(id)
      BY <1>4, <1>8
    <3> HIDE DEF c, key
    <3> QED
      BY <3>1, <3>2, <3>3
  <2> QED
    BY <1>2, <1>8, <2>2, <2>3
<1> QED
  BY <1>7, <1>8

LEMMA KeysCounted ==
    ASSUME NEW v \in {2, 3}
    PROVE  \A items \in Seq(LegacyProvider) : FewSuffixes(Older(v, items)) =>
               \A platform \in Platforms : IdsCounted(v, items, platform)
<1> DEFINE S == {items \in Seq(LegacyProvider) : FewSuffixes(Older(v, items)) =>
                     \A platform \in Platforms : IdsCounted(v, items, platform)}
<1>1. <<>> \in S
  <2> SUFFICES ASSUME NEW platform \in Platforms PROVE IdsCounted(v, <<>>, platform)
    OBVIOUS
  <2>1. Own(Grouped(v, <<>>), platform) = {}
    BY GroupedFacts DEF Own
  <2>2. KeysOf(Grouped(v, <<>>), platform) = <<>>
    BY <2>1 DEF KeysOf
  <2>3. \A id : NamedItems(Older(v, <<>>), platform, id) = {} /\ Named(<<>>, id) = {}
    BY DEF NamedItems, Importable, Older, Named
  <2>4. Cardinality({}) <= Cardinality({})
    BY FS_EmptySet
  <2> QED
    BY <2>2, <2>3, <2>4 DEF IdsCounted, Counted
<1>2. ASSUME NEW items \in Seq(LegacyProvider), NEW item \in LegacyProvider, items \in S
      PROVE  Append(items, item) \in S
  <2> SUFFICES ASSUME FewSuffixes(Older(v, Append(items, item))), NEW platform \in Platforms
               PROVE  IdsCounted(v, Append(items, item), platform)
    OBVIOUS
  <2>1. IdsCounted(v, items, platform)
    BY <1>2, FewSuffixesBefore
  <2> QED
    BY <2>1, KeyCounted
<1>3. \A items \in Seq(LegacyProvider) : items \in S
  <2> HIDE DEF S
  <2> QED
    BY <1>1, <1>2, SeqSet
<1> QED
  BY <1>3

\* Keys counted this way have different ids.
LEMMA CountedTellsApart ==
    ASSUME NEW keys \in Seq(NamedKey), Counted(keys)
    PROVE  \A i, j \in DOMAIN keys : keys[i].id = keys[j].id => i = j
<1> DEFINE Before(i) == {m \in DOMAIN keys : m < i /\ SameName(keys[m].id, keys[i].id)}
<1>1. Len(keys) \in Nat /\ DOMAIN keys = 1 .. Len(keys)
  OBVIOUS
<1>2. ASSUME NEW i \in DOMAIN keys, NEW j \in DOMAIN keys, keys[i].id = keys[j].id, i < j
      PROVE  FALSE
  <2>1. Before(i) \subseteq Before(j) /\ i \in Before(j) /\ i \notin Before(i)
    <3>1. \A m \in DOMAIN keys : m < i => m < j
      BY <1>1, <1>2
    <3>2. ~(i < i)
      BY <1>1
    <3> QED
      BY <1>2, <3>1, <3>2 DEF SameName
  <2>2. Before(j) \in SUBSET (1 .. Len(keys))
    BY <1>1
  <2> DEFINE a == Before(i)
  <2> DEFINE b == Before(j)
  <2>3. Cardinality(a) = Cardinality(b)
    BY <1>2 DEF Counted, Numbering
  <2> HIDE DEF a, b
  <2>4. IsFiniteSet(b)
    BY <1>1, <2>2, PlacesBounds DEF b
  <2>5. a = b
    BY <2>1, <2>3, <2>4, FS_Subset DEF a, b
  <2> QED
    BY <2>1, <2>5 DEF a, b
<1>3. \A i, j \in DOMAIN keys : i = j \/ i < j \/ j < i
  BY <1>1
<1> QED
  BY <1>2, <1>3

LEMMA GroupingIsProviders ==
    ASSUME NEW g \in Grouping
    PROVE  g \in Seq([platform : Platforms, keys : Seq(AccessKey)])
<1>1. NamedKey \subseteq AccessKey
  BY DEF NamedKey, NamedIds, AccessKey, Ids
<1>2. \A s \in Seq(NamedKey) : s \in Seq(AccessKey)
  BY <1>1
<1>3. Group \subseteq [platform : Platforms, keys : Seq(AccessKey)]
  BY <1>2 DEF Group
<1> DEFINE P == [platform : Platforms, keys : Seq(AccessKey)]
<1> HIDE DEF P
<1>4. g \in Seq(Group)
  BY DEF Grouping
<1>5. Len(g) \in Nat /\ \A i \in 1 .. Len(g) : g[i] \in P
  BY <1>3, <1>4 DEF P
<1>6. g = [i \in 1 .. Len(g) |-> g[i]]
  BY <1>4
<1>7. g \in Seq(P)
  BY <1>5, <1>6
<1> QED
  BY <1>7 DEF P

LEMMA GroupedValid ==
    ASSUME NEW v \in {2, 3}, NEW items \in Seq(LegacyProvider), FewSuffixes(Older(v, items))
    PROVE  LET g == Grouped(v, items) IN
           /\ \A i \in DOMAIN g : g[i].platform \in Platforms /\ KeysValid(g[i].keys)
           /\ \A i, j \in DOMAIN g : g[i].platform = g[j].platform => i = j
<1> DEFINE g == Grouped(v, items)
<1>1. g \in Seq(Group) /\ Apart(g)
  BY GroupedFacts DEF Grouping
<1>2. ASSUME NEW i \in DOMAIN g
      PROVE  g[i].platform \in Platforms /\ KeysValid(g[i].keys)
  <2> DEFINE keys == g[i].keys
  <2>1. g[i] \in Group
    <3> HIDE DEF g
    <3> QED
      BY <1>1, <1>2
  <2>2. g[i].platform \in Platforms /\ keys \in Seq(NamedKey) /\ keys # <<>>
    BY <2>1 DEF Group
  <2>3. i \in Own(g, g[i].platform)
    BY DEF Own
  <2>4. keys = KeysOf(g, g[i].platform)
    BY <2>3, GroupedKeys
  <2>5. Counted(keys)
    BY <2>2, <2>4, KeysCounted DEF IdsCounted
  <2> HIDE DEF keys, g
  <2>6. \A k \in DOMAIN keys : keys[k].id # NoId
    <3>1. \A k \in DOMAIN keys : keys[k] \in NamedKey
      BY <2>2
    <3> QED
      BY <3>1, NamedIdFacts DEF NamedKey
  <2>7. \A k, m \in DOMAIN keys : keys[k].id = keys[m].id => k = m
    BY <2>2, <2>5, CountedTellsApart
  <2> QED
    BY <2>2, <2>6, <2>7 DEF KeysValid, keys
<1>3. \A i, j \in DOMAIN g : g[i].platform = g[j].platform => i = j
  BY <1>1 DEF Apart
<1> QED
  BY <1>2, <1>3

LEMMA NewFileIsFile ==
    ASSUME NEW settings \in Settings,
           NEW providers \in Seq([platform : Platforms, keys : Seq(AccessKey)])
    PROVE  NewFile(settings, providers) \in File
<1>1. <<>> \in Seq(LegacyProvider)
  OBVIOUS
<1> QED
  BY <1>1 DEF NewFile, File, CurrentVersion

\* What the migrations make of the settings.
LEMMA DefaultsValid ==
    DefaultSettings \in Settings /\ SettingsValid(DefaultSettings)
  BY DEF DefaultSettings, Settings, SettingsValid, Hosts, Modes, MaxPort, MinInterval

LEMMA SettingsRecord ==
    ASSUME NEW host \in Hosts, NEW port \in Int, NEW interval \in Int,
           NEW pacing \in BOOLEAN, NEW mode \in Modes,
           NEW balance \in {"unset", "valid", "invalid"}
    PROVE  [host |-> host, port |-> port, interval |-> interval, pacing |-> pacing,
            mode |-> mode, balance |-> balance] \in Settings
  BY Zenon DEF Settings

LEMMA MigratedSettings ==
    ASSUME NEW s \in Settings
    PROVE  SettingsOfV3(s) \in Settings /\ NormalizeBalance(s) \in Settings
<1>1. /\ s.host \in Hosts /\ s.port \in Int /\ s.interval \in Int /\ s.pacing \in BOOLEAN
      /\ s.mode \in Modes /\ s.balance \in {"unset", "valid", "invalid"}
  BY DEF Settings
<1>2. /\ DefaultSettings.host \in Hosts /\ DefaultSettings.port \in Int
      /\ DefaultSettings.interval \in Int /\ DefaultSettings.pacing \in BOOLEAN
  BY DefaultsValid DEF Settings
<1> DEFINE listen == IF s.host = "" \/ s.port = 0 THEN DefaultSettings ELSE s
           collector == IF s.interval = 0 THEN DefaultSettings ELSE s
           mode == IF s.mode = "" THEN "admin" ELSE s.mode
<1>3. /\ listen.host \in Hosts /\ listen.port \in Int
      /\ collector.interval \in Int /\ collector.pacing \in BOOLEAN
  <2>1. CASE listen = s /\ collector = s
    BY <1>1, <2>1
  <2>2. CASE listen = s /\ collector = DefaultSettings
    BY <1>1, <1>2, <2>2
  <2>3. CASE listen = DefaultSettings /\ collector = s
    BY <1>1, <1>2, <2>3
  <2>4. CASE listen = DefaultSettings /\ collector = DefaultSettings
    BY <1>2, <2>4
  <2> QED
    BY <2>1, <2>2, <2>3, <2>4
<1>4. mode \in Modes
  BY <1>1 DEF Modes
<1>5. SettingsOfV3(s) = [host |-> listen.host, port |-> listen.port,
                        interval |-> collector.interval, pacing |-> collector.pacing,
                        mode |-> mode, balance |-> "unset"]
  BY DEF SettingsOfV3
<1> HIDE DEF listen, collector, mode
<1>6. SettingsOfV3(s) \in Settings
  <2>1. "unset" \in {"unset", "valid", "invalid"}
    OBVIOUS
  <2> QED
    BY <1>3, <1>4, <1>5, <2>1, SettingsRecord
<1>7. NormalizeBalance(s) \in Settings
  BY <1>1 DEF NormalizeBalance, Settings
<1> QED
  BY <1>6, <1>7

LEMMA BalanceNormalized ==
    ASSUME NEW s \in Settings, SettingsValid(s)
    PROVE  SettingsValid(NormalizeBalance(s))
  BY DEF NormalizeBalance, Settings, SettingsValid

\* Version 5 as it comes from migrations, flags and settings.
Current(f) == f \in File /\ f.version = CurrentVersion

\* What a migration makes of a file that asks nothing special of it: a
\* configuration that a start accepts.
LEMMA MigrateIsCurrent ==
    ASSUME NEW f \in File, f.version \in 2 .. 4
    PROVE  Current(Migrate(f)) /\ (Fit(f) => Validate(Migrate(f)))
<1>1. CASE f.version = 4
  <2>1. f.settings \in Settings
    BY DEF File
  <2>2. NormalizeBalance(f.settings) \in Settings
    BY <2>1, MigratedSettings
  <2>3. Migrate(f) = MigrateV4(f) /\ MigrateV4(f) \in File /\ MigrateV4(f).version = CurrentVersion
    <3> DEFINE s == NormalizeBalance(f.settings)
    <3>1. Migrate(f) = MigrateV4(f)
      BY <1>1, MigrateIs
    <3>3. MigrateV4(f) = [f EXCEPT !.version = CurrentVersion, !.settings = s]
      BY DEF MigrateV4
    <3> HIDE DEF s
    <3>4. CurrentVersion \in Int /\ s \in Settings
      BY <2>2 DEF CurrentVersion, s
    <3>5. /\ [f EXCEPT !.version = CurrentVersion, !.settings = s] \in File
          /\ [f EXCEPT !.version = CurrentVersion, !.settings = s].version = CurrentVersion
      BY <3>4 DEF File
    <3> QED
      BY <3>1, <3>3, <3>5
  <2> QED
    BY <1>1, <2>3 DEF Current, Fit
<1>2. CASE f.version \in {2, 3}
  <2> DEFINE g == Grouped(f.version, f.items)
             s == IF f.version = 2 THEN DefaultSettings ELSE SettingsOfV3(f.settings)
  <2>1. f.items \in Seq(LegacyProvider) /\ f.settings \in Settings
    BY DEF File
  <2>2. Migrate(f) = NewFile(s, g)
    BY <1>2, MigrateIs
  <2>3. g \in Seq([platform : Platforms, keys : Seq(AccessKey)])
    BY <1>2, <2>1, GroupedFacts, GroupingIsProviders
  <2>4. s \in Settings
    BY <2>1, DefaultsValid, MigratedSettings
  <2>5. Current(Migrate(f))
    <3>1. NewFile(s, g) \in File
      BY <2>3, <2>4, NewFileIsFile
    <3> QED
      BY <2>2, <3>1 DEF Current, NewFile
  <2>6. ASSUME Fit(f) PROVE Validate(Migrate(f))
    <3>1. FewSuffixes(f)
      BY <1>2, <2>6 DEF Fit
    <3>2. FewSuffixes(Older(f.version, f.items))
      BY <3>1 DEF FewSuffixes, Importable, AsRead, Older
    <3>3. /\ \A i \in DOMAIN g : g[i].platform \in Platforms /\ KeysValid(g[i].keys)
          /\ \A i, j \in DOMAIN g : g[i].platform = g[j].platform => i = j
      BY <1>2, <2>1, <3>2, GroupedValid
    <3>4. SettingsValid(s)
      BY <1>2, <2>6, DefaultsValid DEF Fit
    <3>5. /\ NewFile(s, g).version = CurrentVersion
          /\ NewFile(s, g).settings = s /\ NewFile(s, g).providers = g
      BY DEF NewFile
    <3> HIDE DEF g, s
    <3>6. CurrentVersion \in 1 .. CurrentVersion
      BY DEF CurrentVersion
    <3> QED
      BY <2>2, <3>3, <3>4, <3>5, <3>6 DEF Validate
  <2> QED
    BY <2>5, <2>6
<1> QED
  BY <1>1, <1>2

-----------------------------------------------------------------------------
(* What a process has in memory, what it is about to save, and what stands *)
(* in the files that config.json is or was written through.                *)

Good(f) == Current(f) /\ (FitInputs => Validate(f))

Holds(p) ==
    /\ pc[p] \in {"flags", "password", "lock"} \/ holder = p => Good(file[p])
    /\ pc[p] \in Migrating => Good(saving[p])
    /\ pc[p] = "running" => holder = p
    /\ holder = p => pc[p] \in {"running"} \cup Migrating
    /\ pc[p] \in Migrating /\ holder # p =>
           /\ original \in File /\ original.version \in 2 .. 4
           /\ saving[p] = Migrate(original)

Readable(c) == c \in {Empty, Torn, original} \/ Good(c)

\* Only a file that no start has written yet is of an older version, so every
\* migration, however late, is one of the original, even if two processes have
\* written config.json at once.
ConfigInv ==
    /\ WriteInv
    /\ original \in Files
    /\ \A p \in Processes : Holds(p)
    /\ \A i \in Inodes : Readable(disk[ConfigPath].data[i])
    /\ ConfigPath \notin clashed => config = original \/ Good(config)

LEMMA FlagNumbers ==
    ASSUME NEW c \in Flags \cup {NoFlags}
    PROVE  /\ c.interval \in Int /\ c.port \in Int
           /\ FitInputs => /\ c.interval <= 0 \/ c.interval >= MinInterval
                           /\ c.port <= MaxPort
<1>1. CASE c \in Flags
  <2>1. c.interval \in Int /\ c.port \in Int
    BY <1>1, StartupAssumption
  <2>2. FitInputs => (c.interval <= 0 \/ c.interval >= MinInterval) /\ c.port <= MaxPort
    BY <1>1 DEF FitInputs
  <2> QED
    BY <2>1, <2>2
<1>2. CASE c = NoFlags
  <2>1. c.interval = 0 /\ c.port = 0
    BY <1>2 DEF NoFlags
  <2> QED
    BY <2>1 DEF MaxPort
<1> QED
  BY <1>1, <1>2

LEMMA FlagHost ==
    ASSUME NEW c \in Flags \cup {NoFlags}
    PROVE  c.host \in Hosts /\ (FitInputs => c.host \in {"", "address"})
<1>1. CASE c \in Flags
  BY <1>1, StartupAssumption DEF FitInputs
<1>2. CASE c = NoFlags
  BY <1>2 DEF NoFlags, Hosts
<1> QED
  BY <1>1, <1>2

\* The settings as flags leave them.
LEMMA OverriddenSettings ==
    ASSUME NEW p \in Processes, flags[p] \in Flags \cup {NoFlags}, NEW s \in Settings
    PROVE  /\ applyOverrides(p, s) \in Settings
           /\ FitInputs /\ SettingsValid(s) => SettingsValid(applyOverrides(p, s))
<1> DEFINE c == flags[p]
           interval == IF c.interval > 0 THEN c.interval ELSE s.interval
           host == IF c.host # "" THEN c.host ELSE s.host
           port == IF c.port > 0 THEN c.port ELSE s.port
           o == [s EXCEPT !.interval = interval, !.host = host, !.port = port]
<1>1. s.host \in Hosts /\ s.port \in Int /\ s.interval \in Int
  BY DEF Settings
<1>2. /\ c.interval \in Int /\ c.port \in Int
      /\ FitInputs => /\ c.interval <= 0 \/ c.interval >= MinInterval
                      /\ c.port <= MaxPort
  BY FlagNumbers
<1>3. c.host \in Hosts /\ (FitInputs => c.host \in {"", "address"})
  BY FlagHost
<1>4. applyOverrides(p, s) = o
  BY DEF applyOverrides
<1> HIDE DEF c
<1>5. host \in Hosts /\ port \in Int /\ interval \in Int
  BY <1>1, <1>2, <1>3
<1>6. ASSUME FitInputs, SettingsValid(s)
      PROVE  host = "address" /\ port \in 1 .. MaxPort /\ interval >= MinInterval
  <2>1. s.host = "address" /\ s.port \in 1 .. MaxPort /\ s.interval >= MinInterval
    BY <1>6 DEF SettingsValid
  <2>2. host = "address"
    BY <1>3, <1>6, <2>1
  <2> HIDE DEF host, o
  <2>3. port \in 1 .. MaxPort
    <3>1. CASE c.port > 0
      BY <1>2, <1>6, <3>1
    <3>2. CASE ~(c.port > 0)
      BY <2>1, <3>2
    <3> QED
      BY <3>1, <3>2
  <2>4. interval >= MinInterval
    <3>1. CASE c.interval > 0
      BY <1>2, <1>6, <3>1
    <3>2. CASE ~(c.interval > 0)
      BY <2>1, <3>2
    <3> QED
      BY <3>1, <3>2
  <2> QED
    BY <2>2, <2>3, <2>4
<1>7. o = [s EXCEPT !.interval = interval, !.host = host, !.port = port]
  OBVIOUS
<1> HIDE DEF host, port, interval, o
<1>8. /\ o \in Settings
      /\ o.host = host /\ o.port = port /\ o.interval = interval
      /\ o.pacing = s.pacing /\ o.mode = s.mode /\ o.balance = s.balance
  BY <1>5, <1>7 DEF Settings
<1>9. ASSUME FitInputs, SettingsValid(s) PROVE SettingsValid(o)
  BY <1>6, <1>8, <1>9 DEF SettingsValid
<1> QED
  BY <1>4, <1>8, <1>9

LEMMA OverriddenIsGood ==
    ASSUME NEW f, Good(f), NEW p \in Processes, flags[p] \in Flags \cup {NoFlags},
           NEW s \in Settings, FitInputs => SettingsValid(s)
    PROVE  Good([f EXCEPT !.settings = applyOverrides(p, s)])
<1> DEFINE t == applyOverrides(p, s)
           g == [f EXCEPT !.settings = t]
<1>1. f \in File /\ f.version = CurrentVersion /\ (FitInputs => Validate(f))
  BY DEF Good, Current
<1>2. t \in Settings /\ (FitInputs => SettingsValid(t))
  BY OverriddenSettings
<1> HIDE DEF t
<1>3. /\ g \in File /\ g.version = f.version /\ g.settings = t
      /\ g.providers = f.providers
  BY <1>1, <1>2 DEF File
<1> HIDE DEF g
<1>4. FitInputs => Validate(g)
  BY <1>1, <1>2, <1>3 DEF Validate
<1> QED
  BY <1>1, <1>3, <1>4 DEF Good, Current, g, t

LEMMA TemplateIsGood == Good(Template)
<1>1. <<>> \in Seq([platform : Platforms, keys : Seq(AccessKey)])
  OBVIOUS
<1>2. Template \in File
  BY <1>1, DefaultsValid, NewFileIsFile DEF Template
<1>3. /\ Template.version = CurrentVersion /\ Template.settings = DefaultSettings
      /\ Template.providers = <<>>
  BY DEF Template, NewFile
<1>4. Validate(Template)
  BY <1>3, DefaultsValid DEF Validate, CurrentVersion
<1> QED
  BY <1>2, <1>3, <1>4 DEF Good, Current

LEMMA ConfigInit == Init => ConfigInv
<1> SUFFICES ASSUME Init PROVE ConfigInv
  OBVIOUS
<1>1. PICK i \in Fresh({}) :
          disk = [path \in Paths |-> IF path = ConfigPath /\ original # None
                                     THEN AtRest(i, original)
                                     ELSE AtRest(None, None)]
  BY DEF Init
<1>2. i \in Inodes /\ None \notin Inodes /\ None \notin Processes
  BY StartupAssumption DEF Fresh
<1>3. disk[ConfigPath] = IF original # None THEN AtRest(i, original) ELSE AtRest(None, None)
  BY <1>1, ConfigPathIsNoSlot
<1>4. \A j \in Inodes : Readable(disk[ConfigPath].data[j])
  BY <1>2, <1>3 DEF AtRest, Readable
<1>5. config = original
  BY <1>2, <1>3 DEF AtRest, TargetData, config
<1>6. ASSUME NEW p \in Processes PROVE Holds(p)
  <2>1. pc[p] = "off" /\ holder # p
    BY <1>2 DEF Init
  <2> QED
    BY <2>1 DEF Holds, Migrating
<1> QED
  BY <1>4, <1>5, <1>6, WriteInit DEF Init, ConfigInv

\* A step changes the content of an inode only by emptying or tearing it, or as
\* a writer with what that has to write.
LEMMA DataEffect ==
    ASSUME Shape, NEW p \in Processes, Step(p), NEW path \in Paths, NEW i \in Inodes
    PROVE  \/ disk'[path].data[i] \in {disk[path].data[i], Empty, Torn}
           \/ Writes(p, path) /\ disk'[path].data[i] = Content(p)
<1> DEFINE t == Target(p)
           fs == disk[t]
<1>0. t \in Paths /\ IsDisk(fs) /\ disk = [a \in Paths |-> disk[a]]
  BY TargetIsPath DEF Shape
<1>1. CASE UNCHANGED <<disk, clashed>>
  BY <1>1
<1>2. CASE RemoveStale(p)
  <2>1. PICK a \in stale[p] : disk' = [disk EXCEPT ![a] = RemoveTmp(@)]
    BY <1>2 DEF RemoveStale
  <2>2. a \in Paths /\ IsDisk(disk[a])
    BY <1>0 DEF Shape
  <2> QED
    BY <1>0, <2>1, <2>2, NameFacts
<1>3. ASSUME NEW g, disk' = [disk EXCEPT ![t] = g],
             g.data[i] \in {fs.data[i], Empty, Torn}
      PROVE  disk'[path].data[i] \in {disk[path].data[i], Empty, Torn}
  <2>1. CASE path # t
    BY <1>0, <1>3, <2>1
  <2>2. CASE path = t
    BY <1>0, <1>3, <2>2
  <2> QED
    BY <2>1, <2>2
<1>4. CASE Opens(p)
  <2> DEFINE used == {fs.target, fs.tmp} \cup {fd[q] : q \in Writers(t)}
  <2>1. PICK j \in Fresh(used) : disk' = [disk EXCEPT ![t] = OpenTmp(fs, j)]
    BY <1>4 DEF Opens
  <2>2. {fs.target, fs.tmp} \subseteq used
    OBVIOUS
  <2>3. OpenTmp(fs, j).data[i] \in {fs.data[i], Empty}
    <3> HIDE DEF used, fs
    <3> QED
      BY <1>0, <2>2, OpenFacts
  <2> QED
    BY <1>3, <2>1, <2>3
<1>5. CASE WriteFile(p)
  <2>1. PICK g \in Written(fs, fd[p], Content(p)) : disk' = [disk EXCEPT ![t] = g]
    BY <1>5 DEF WriteFile
  <2>2. fd[p] # None /\ fd[p] \in Inodes
    BY <1>0, <1>5 DEF WriteFile, Shape
  <2>3. g.data[i] \in {fs.data[i], Torn, Content(p)}
    <3> HIDE DEF fs
    <3> QED
      BY <1>0, <2>2, WriteFacts DEF Rewritten
  <2>4. CASE path # t
    BY <1>0, <2>1, <2>4
  <2>5. CASE path = t
    <3>1. disk'[path] = g /\ Writes(p, path)
      BY <1>0, <2>1, <2>2, <2>5 DEF Writes
    <3> QED
      BY <2>3, <2>5, <3>1
  <2> QED
    BY <2>4, <2>5
<1>6. CASE Tears(p)
  <2>1. PICK g \in {HalfWritten(p), RemoveTmp(HalfWritten(p))} :
            disk' = [disk EXCEPT ![t] = g]
    BY <1>6 DEF Tears
  <2>2. fd[p] \in Inodes
    BY <1>0, <1>6 DEF Tears, Shape
  <2> DEFINE h == HalfWritten(p)
  <2>3. Rewritten(fs, h, fd[p], Torn)
    BY <1>0, <2>2, FailedFacts DEF HalfWritten
  <2> HIDE DEF h, fs
  <2>4. RemoveTmp(h).data = h.data
    BY <2>3, NameFacts DEF Rewritten
  <2>5. g.data[i] \in {fs.data[i], Torn}
    BY <2>1, <2>3, <2>4 DEF Rewritten, h
  <2> QED
    BY <1>3, <2>1, <2>5
<1>7. CASE Renames(p)
  <2>1. disk' = [disk EXCEPT ![t] = RenameTmp(fs)]
    BY <1>7 DEF Renames, Renamed
  <2>2. RenameTmp(fs).data = fs.data
    BY <1>0, NameFacts
  <2> QED
    BY <1>3, <2>1, <2>2
<1> HIDE DEF fs, t
<1> QED
  BY <1>1, <1>2, <1>4, <1>5, <1>6, <1>7, DiskSteps

\* What is written to config.json is good.
LEMMA ConfigContent ==
    ASSUME WriteInv, NEW p \in Processes, Holds(p), Writes(p, ConfigPath)
    PROVE  Good(Content(p))
<1>1. pc[p] \in Writing /\ slot[p] \in Slots
  BY DEF WriteInv, Shape, Writes
<1>2. pc[p] # "copy"
  BY <1>1, ConfigPathIsNoSlot DEF Writes, Target
<1>3. CASE pc[p] = "template"
  BY <1>3, TemplateIsGood DEF Content
<1>4. CASE pc[p] = "save"
  BY <1>4 DEF Content, Holds, Migrating
<1>5. CASE pc[p] = "password"
  BY <1>5 DEF Content, Holds
<1> QED
  BY <1>1, <1>2, <1>3, <1>4, <1>5 DEF Writing

\* The file after a step.
LEMMA ConfigEffect ==
    ASSUME ConfigInv, NEW p \in Processes, Step(p), UNCHANGED original
    PROVE  /\ \A i \in Inodes : Readable(disk[ConfigPath].data[i])'
           /\ ConfigPath \notin clashed' => config' = original' \/ Good(config')
<1> USE DEF ConfigInv
<1>0. Shape /\ ConfigPath \in Paths /\ Holds(p)
  BY ConfigPathIsNoSlot DEF WriteInv
<1>1. ASSUME NEW i \in Inodes PROVE Readable(disk[ConfigPath].data[i])'
  <2>1. CASE disk'[ConfigPath].data[i] \in {disk[ConfigPath].data[i], Empty, Torn}
    BY <2>1 DEF Readable
  <2>2. CASE Writes(p, ConfigPath) /\ disk'[ConfigPath].data[i] = Content(p)
    BY <1>0, <2>2, ConfigContent DEF Readable
  <2> QED
    BY <1>0, <2>1, <2>2, DataEffect
<1>2. ASSUME ConfigPath \notin clashed' PROVE config' = original' \/ Good(config')
  <2>1. ConfigPath \notin clashed
    BY <1>0, <1>2, ClashedStays
  <2>2. CASE Backup(ConfigPath)' = Backup(ConfigPath)
    BY <2>1, <2>2 DEF Backup, config
  <2>3. CASE Writes(p, ConfigPath) /\ Backup(ConfigPath)' = Content(p)
    <3>1. config' = Content(p)
      BY <2>3 DEF Backup, config
    <3>2. Good(Content(p))
      BY <1>0, <2>3, ConfigContent
    <3> QED
      BY <3>1, <3>2
  <2> QED
    BY <1>0, <2>1, <2>2, <2>3, FileEffect
<1> QED
  BY <1>1, <1>2

\* What a start can find in config.json.
LEMMA ConfigIs ==
    ASSUME ConfigInv, Parses(config)
    PROVE  (config = original /\ original \in File) \/ Good(config)
<1>1. disk[ConfigPath].target \in Inodes
  BY ConfigPathIsNoSlot DEF ConfigInv, WriteInv, Shape, IsDisk, Parses, config, TargetData
<1>2. Readable(config)
  BY <1>1, StartupAssumption DEF ConfigInv, config, TargetData
<1> QED
  BY <1>2, StartupAssumption DEF ConfigInv, Readable, Parses

LEMMA HoldsElsewhere ==
    ASSUME NEW p \in Processes, Elsewhere(p), NEW q \in Processes \ {p}, Holds(q)
    PROVE  Holds(q)'
  BY DEF Elsewhere, Holds

\* What the process that takes a step holds after it.
LEMMA HoldsStep ==
    ASSUME ConfigInv, NEW p \in Processes, Step(p), UNCHANGED original
    PROVE  Holds(p)'
<1>0. /\ pc = [q \in Processes |-> pc[q]] /\ file = [q \in Processes |-> file[q]]
      /\ saving = [q \in Processes |-> saving[q]]
      /\ flags[p] \in Flags \cup {NoFlags}
      /\ fd[p] # None => pc[p] \in Writing
      /\ Holds(p)
      /\ None \notin Processes
  BY StartupAssumption DEF ConfigInv, WriteInv, Shape
<1> USE DEF Goto, memory, counts
<1>1. ASSUME pc'[p] \in {"off", "clean", "load", "template"}, holder' # p PROVE Holds(p)'
  BY <1>1 DEF Holds, Migrating
<1>2. CASE \E f \in Flags : Begin(p, f)
  <2>1. pc[p] = "off" /\ pc'[p] = "clean" /\ holder' = holder
    BY <1>0, <1>2 DEF Begin
  <2> QED
    BY <1>0, <1>1, <2>1 DEF Holds, Migrating
<1>3. CASE RemoveStale(p) \/ Cleaned(p) \/ LoadMissing(p)
  <2>1. /\ pc[p] \in {"clean", "load"} /\ pc'[p] \in {"clean", "load", "template"}
        /\ holder' = holder
    BY <1>0, <1>3 DEF RemoveStale, Cleaned, LoadMissing
  <2> QED
    BY <1>0, <1>1, <2>1 DEF Holds, Migrating
<1>4. CASE LoadRefused(p) \/ AcquireRefused(p) \/ Exit(p)
  <2>1. pc'[p] = "off" /\ holder' # p
    BY <1>0, <1>4 DEF LoadRefused, AcquireRefused, Exit, Ended
  <2> QED
    BY <1>1, <2>1
<1>5. CASE LoadCurrent(p)
  <2>1. /\ pc[p] = "load" /\ pc'[p] = "flags" /\ file'[p] = config /\ holder' = holder
        /\ Parses(config) /\ config.version = CurrentVersion /\ Validate(config)
    BY <1>0, <1>5 DEF LoadCurrent, Loads
  <2>2. Good(config)
    BY <2>1, ConfigIs DEF Good, Current
  <2>3. holder # p
    BY <1>0, <2>1 DEF Holds, Migrating
  <2> QED
    BY <2>1, <2>2, <2>3 DEF Holds, Migrating
<1>6. CASE LoadOlder(p)
  <2>1. /\ pc[p] = "load" /\ pc'[p] = "backup" /\ saving'[p] = Migrate(config)
        /\ holder' = holder /\ Parses(config)
        /\ config.version \in 2 .. CurrentVersion /\ config.version < CurrentVersion
    BY <1>0, <1>6 DEF LoadOlder, Loads
  <2>2. config = original /\ original \in File /\ original.version \in 2 .. 4
    BY <2>1, ConfigIs DEF Good, Current, CurrentVersion
  <2>3. Good(Migrate(original))
    <3>1. FitInputs => Fit(original)
      BY <2>2, StartupAssumption DEF ConfigInv, FitInputs
    <3> QED
      BY <2>2, <3>1, MigrateIsCurrent DEF Good
  <2>4. holder # p
    BY <1>0, <2>1 DEF Holds, Migrating
  <2> QED
    BY <2>1, <2>2, <2>3, <2>4 DEF Holds, Migrating
<1>7. ASSUME pc[p] \in Migrating, pc'[p] \in Migrating,
             holder' = holder, file'[p] = file[p], saving'[p] = saving[p]
      PROVE  Holds(p)'
  BY <1>0, <1>7 DEF Holds, Migrating
<1>8. CASE BackupRead(p) \/ BackupName(p) \/ RenameBackup(p) \/ BackupFails(p)
  <2>1. /\ pc[p] \in Migrating /\ pc'[p] \in Migrating
        /\ holder' = holder /\ file'[p] = file[p] /\ saving'[p] = saving[p]
    BY <1>0, <1>8 DEF BackupRead, BackupName, RenameBackup, BackupFails, BackupOver, Migrating
  <2> QED
    BY <1>7, <2>1
<1>9. CASE OpenFile(p) \/ WriteFile(p)
  <2>1. UNCHANGED <<pc, holder, file, saving>>
    BY <1>9 DEF OpenFile, WriteFile
  <2> QED
    BY <1>0, <2>1 DEF Holds
<1>10. CASE RenameConfig(p)
  <2>1. /\ pc[p] \in Writing \ {"copy"} /\ fd[p] # None
        /\ pc'[p] = Onward(p) /\ file'[p] = Content(p) /\ holder' = holder
    BY <1>0, <1>10 DEF RenameConfig, SaveOver, Renamed, ConfigInv, WriteInv, Shape
  <2>2. Writes(p, ConfigPath)
    BY <2>1 DEF Writes, Target
  <2>3. Good(file'[p])
    BY <1>0, <2>1, <2>2, ConfigContent DEF ConfigInv
  <2>4. /\ holder = p => pc'[p] = "running"
        /\ holder # p => pc'[p] \in {"lock", "flags"}
    <3>1. holder = p => pc[p] # "password"
      BY <1>0 DEF Holds, Migrating
    <3> QED
      BY <2>1, <3>1 DEF Onward
  <2> QED
    BY <2>1, <2>3, <2>4 DEF Holds, Migrating
<1>11. CASE SaveFails(p)
  <2>1. holder = p /\ holder' = holder /\ pc'[p] = "running" /\ file'[p] = file[p]
    BY <1>0, <1>11 DEF SaveFails, SaveOver
  <2> QED
    BY <1>0, <2>1 DEF Holds, Migrating
<1>12. CASE ApplyFlags(p)
  <2> DEFINE f == [file[p] EXCEPT !.settings = applyOverrides(p, file[p].settings)]
  <2>1. /\ pc[p] = "flags" /\ pc'[p] \in {"password", "lock"}
        /\ file'[p] = f /\ holder' = holder
    <3>1. file' = [file EXCEPT ![p] = f]
      BY <1>12 DEF ApplyFlags
    <3> HIDE DEF f
    <3>2. file'[p] = f
      BY <1>0, <3>1
    <3> QED
      BY <1>0, <1>12, <3>2 DEF ApplyFlags
  <2>2. Good(file[p]) /\ holder # p
    BY <1>0, <2>1 DEF Holds, Migrating
  <2>3. file[p].settings \in Settings /\ (FitInputs => SettingsValid(file[p].settings))
    BY <2>2 DEF Good, Current, File, Validate
  <2>4. Good(f)
    BY <1>0, <2>2, <2>3, OverriddenIsGood
  <2> HIDE DEF f
  <2> QED
    BY <2>1, <2>2, <2>4 DEF Holds, Migrating
<1>13. CASE Acquire(p)
  <2>1. pc[p] = "lock" /\ pc'[p] = "running" /\ holder' = p /\ file'[p] = file[p]
    BY <1>0, <1>13 DEF Acquire
  <2> QED
    BY <1>0, <2>1 DEF Holds, Migrating
<1>14. CASE \E s \in Bodies, older \in BOOLEAN : Put(p, s, older)
  <2>1. PICK s \in Bodies, older \in BOOLEAN : Put(p, s, older)
    BY <1>14
  <2> DEFINE f == [file[p] EXCEPT !.settings = applyOverrides(p, NormalizeBalance(s))]
  <2>2. /\ pc[p] = "running" /\ pc'[p] \in {"backup", "save"}
        /\ saving'[p] = f /\ file'[p] = file[p] /\ holder' = holder
    BY <1>0, <2>1 DEF Put
  <2>3. holder = p /\ Good(file[p])
    BY <1>0, <2>2 DEF Holds
  <2>4. s \in Settings /\ SettingsValid(s)
    BY StartupAssumption
  <2>5. NormalizeBalance(s) \in Settings /\ SettingsValid(NormalizeBalance(s))
    BY <2>4, MigratedSettings, BalanceNormalized
  <2>6. Good(f)
    BY <1>0, <2>3, <2>5, OverriddenIsGood
  <2> HIDE DEF f
  <2> QED
    BY <2>2, <2>3, <2>6 DEF Holds, Migrating
<1> QED
  BY <1>2, <1>3, <1>4, <1>5, <1>6, <1>8, <1>9, <1>10, <1>11, <1>12, <1>13, <1>14 DEF Step

LEMMA ConfigNext == ConfigInv /\ [Next]_vars => ConfigInv'
<1> SUFFICES ASSUME ConfigInv, [Next]_vars PROVE ConfigInv'
  OBVIOUS
<1>1. ASSUME NEW p \in Processes, Step(p) PROVE ConfigInv'
  <2>1. WriteInv' /\ Elsewhere(p)
    BY <1>1, WriteStep, ElsewhereStays DEF ConfigInv, WriteInv
  <2>2. UNCHANGED original
    BY <2>1 DEF Elsewhere
  <2>3. \A q \in Processes : Holds(q)'
    <3>1. ASSUME NEW q \in Processes \ {p} PROVE Holds(q)'
      BY <2>1, HoldsElsewhere DEF ConfigInv
    <3>2. Holds(p)'
      BY <1>1, <2>2, HoldsStep
    <3> QED
      BY <3>1, <3>2
  <2>4. /\ \A i \in Inodes : Readable(disk[ConfigPath].data[i])'
        /\ ConfigPath \notin clashed' => config' = original' \/ Good(config')
    BY <1>1, <2>2, ConfigEffect
  <2> QED
    BY <2>1, <2>2, <2>3, <2>4 DEF ConfigInv
<1>2. CASE UNCHANGED vars
  <2>1. WriteInv'
    BY <1>2 DEF vars, memory, counts, ConfigInv, WriteInv, Shape, Undisturbed, Sole,
                OwnFile, Writes, Target, Content
  <2> QED
    BY <1>2, <2>1 DEF vars, memory, counts, ConfigInv, Holds, Readable, config
<1> QED
  BY <1>1, <1>2 DEF Next, Finished

\* internal/config/migrate.go: whatever starts overlap, however late they are and
\* whatever they write at once, the migration each is about to save has every
\* importable credential once.
THEOREM MigrationAlwaysKeepsKeys == Spec => []MigrationKeepsKeys
<1>1. ConfigInv => MigrationKeepsKeys
  BY MigrateKeepsKeys DEF ConfigInv, Holds, MigrationKeepsKeys
<1> QED
  BY <1>1, ConfigInit, ConfigNext, PTL DEF Spec

\* What the program has written its next start accepts, unless two processes have
\* written config.json at once: with older files whose migration Validate would
\* take, and an -interval and -addr that it would take.
THEOREM SavedFileAlwaysLoads ==
    ASSUME FitInputs
    PROVE  Spec => []SavedFileLoads
<1>1. ASSUME NEW f, Good(f) PROVE Loads(f) /\ f.version = CurrentVersion
  BY <1>1, StartupAssumption DEF Good, Current, Loads, Parses, CurrentVersion
<1>2. ConfigInv => SavedFileLoads
  BY <1>1 DEF ConfigInv, SavedFileLoads
<1> QED
  BY <1>2, ConfigInit, ConfigNext, PTL DEF Spec
=============================================================================
