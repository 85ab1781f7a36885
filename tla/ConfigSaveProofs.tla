-------------------------- MODULE ConfigSaveProofs --------------------------
(***************************************************************************)
(* For any number of requests at once, keys, PUTs and crashes: a token on  *)
(* disk can be opened as long as key.bin is left alone, and an import      *)
(* brings back what the export could read.  One request at a time, for any *)
(* number of them: disk, memory and answers agree.                         *)
(***************************************************************************)
EXTENDS ConfigSave, TLAPS

StateTypes ==
    /\ file \in Config
    /\ masks \in Masks
    /\ fs \in FileSystems
    /\ req \in [Handlers -> Requests \cup {None}]
    /\ export \in Bodies \cup {None}
    /\ backup \in Runtimes \cup {None}
    /\ puts \in 0 .. MaxPuts
    /\ made \in 0 .. MaxKeys
    /\ removed \subseteq MasterKeys
    /\ \A h \in Handlers :
           req[h] # None /\ req[h].phase \in {"opened", "written"} => req[h].fd \in Inodes

\* A serving process has the key of key.bin; one that dies while it makes the
\* file has sealed nothing.
KeyTypes ==
    /\ keyFile \in MasterKeys \cup {Damaged, None}
    /\ up = "running" => key = keyFile /\ key \in MasterKeys
    /\ up = "creating" => keyFile = Damaged /\ made \in MasterKeys
    /\ up \in {"loaded", "creating"} => TargetData(fs) \in Config
    /\ \A h \in Handlers : req[h] # None => up = "running"

SealedWith(tokens, keys) == \A k \in Keys : tokens[k] \in Ciphers => tokens[k].key \in keys

KnownKeys == {keyFile} \cup removed

\* Every cipher there is, on disk, in memory or in a request, has a known key.
Sealed ==
    /\ SealedWith(file.tokens, KnownKeys)
    /\ \A i \in Inodes : fs.data[i] \in Config => SealedWith(fs.data[i].tokens, KnownKeys)
    /\ \A h \in Handlers : req[h] # None => SealedWith(req[h].old, KnownKeys)
                                            /\ SealedWith(req[h].new, KnownKeys)

\* The export holds what the runtime view showed.
ExportShows ==
    export # None =>
        /\ backup # None
        /\ \A k \in Keys : /\ backup[k] \in Tokens => export[k] = backup[k]
                           /\ backup[k] = None <=> export[k] = None

\* A request stores the merge of its body into what it loaded, and every key whose
\* token the body leaves out is there.
RequestMerges ==
    \A h \in Handlers : req[h] # None =>
        /\ \A k \in Keys : req[h].body[k] = Blank => req[h].old[k] # None
        /\ req[h].phase # "loaded" => req[h].new = Merged(req[h].body, req[h].old, key)

SaveInv == StateTypes /\ KeyTypes /\ Sealed /\ ExportShows /\ RequestMerges

-----------------------------------------------------------------------------
(* The forms of a token.                                                   *)

LEMMA OpenType ==
    ASSUME NEW entry \in Ciphers \cup {Blank, None}, NEW k \in MasterKeys
    PROVE  /\ Open(k, entry) \in Tokens \cup {Blank, Lost, None}
           /\ Open(k, entry) = None <=> entry = None
           /\ Open(k, entry) = Blank <=> entry = Blank
  BY ConfigSaveAssumption DEF Open, OpenToken, Ciphers

LEMMA OpenSealed ==
    ASSUME NEW t \in Tokens, NEW k \in MasterKeys
    PROVE  /\ SealToken(k, t) \in Ciphers
           /\ SealToken(k, t).key = k
           /\ Open(k, SealToken(k, t)) = t
<1>1. SealToken(k, t) \in Ciphers
  BY DEF SealToken, Ciphers
<1> QED
  BY <1>1, ConfigSaveAssumption DEF SealToken, Open, OpenToken

LEMMA MergedType ==
    ASSUME NEW body \in Bodies, NEW old \in Stored, NEW k \in MasterKeys
    PROVE  Merged(body, old, k) \in Stored
<1>1. \A x \in Keys : body[x] \in Tokens => SealToken(k, body[x]) \in Ciphers
  BY OpenSealed
<1> QED
  BY <1>1 DEF Merged, Stored, Bodies

LEMMA MergedSealed ==
    ASSUME NEW body \in Bodies, NEW old \in Stored, NEW k \in MasterKeys, NEW keys,
           k \in keys, SealedWith(old, keys)
    PROVE  SealedWith(Merged(body, old, k), keys)
<1> SUFFICES ASSUME NEW x \in Keys, Merged(body, old, k)[x] \in Ciphers
             PROVE  Merged(body, old, k)[x].key \in keys
  BY DEF SealedWith
<1>1. CASE body[x] \in Tokens
  BY <1>1, OpenSealed DEF Merged
<1>2. CASE body[x] \notin Tokens /\ body[x] = Blank
  BY <1>2 DEF Merged, SealedWith
<1>3. CASE body[x] \notin Tokens /\ body[x] # Blank
  BY <1>3, ConfigSaveAssumption DEF Merged
<1> QED
  BY <1>1, <1>2, <1>3

\* What is stored opens to what the body brought.
LEMMA MergedOpens ==
    ASSUME NEW body \in Bodies, NEW old \in Stored, NEW k \in MasterKeys, NEW x \in Keys
    PROVE  /\ body[x] \in Tokens => Open(k, Merged(body, old, k)[x]) = body[x]
           /\ body[x] = Blank => Merged(body, old, k)[x] = old[x]
           /\ body[x] = None => Open(k, Merged(body, old, k)[x]) = None
<1>1. body[x] \in Tokens => Merged(body, old, k)[x] = SealToken(k, body[x])
  BY DEF Merged
<1>2. body[x] = None => Merged(body, old, k)[x] = None
  BY ConfigSaveAssumption DEF Merged
<1>3. body[x] = Blank => Merged(body, old, k)[x] = old[x]
  BY ConfigSaveAssumption DEF Merged
<1> QED
  BY <1>1, <1>2, <1>3, OpenSealed DEF Open

\* The masks a PUT computes beside the merge are those of the merged tokens.
LEMMA MergedMasksShow ==
    ASSUME NEW body \in Bodies, NEW old \in Stored, NEW k \in MasterKeys
    PROVE  MergedMasks(body, MaskMap(BuildRuntime(old, k)))
               = MaskMap(BuildRuntime(Merged(body, old, k), k))
<1> DEFINE shown == MaskMap(BuildRuntime(old, k))
           left == MergedMasks(body, shown)
           right == MaskMap(BuildRuntime(Merged(body, old, k), k))
<1>1. ASSUME NEW x \in Keys PROVE left[x] = right[x]
  <2>1. right[x] = IF Open(k, Merged(body, old, k)[x]) \in Tokens
                   THEN Open(k, Merged(body, old, k)[x]) ELSE None
    BY DEF MaskMap, BuildRuntime
  <2>2. shown[x] = IF Open(k, old[x]) \in Tokens THEN Open(k, old[x]) ELSE None
    BY DEF MaskMap, BuildRuntime
  <2>3. left[x] = IF body[x] \in Tokens THEN body[x]
                  ELSE IF body[x] = Blank THEN shown[x] ELSE None
    BY DEF MergedMasks
  <2>4. body[x] \in Tokens \cup {Blank, None}
    BY DEF Bodies
  <2> HIDE DEF shown, left, right
  <2> QED
    BY <2>1, <2>2, <2>3, <2>4, MergedOpens, ConfigSaveAssumption
<1> QED
  BY <1>1 DEF MergedMasks, MaskMap

LEMMA ExportHolds ==
    ASSUME NEW stored \in Stored, NEW k \in MasterKeys
    PROVE  /\ BuildExport(stored, k) \in Bodies
           /\ BuildRuntime(stored, k) \in Runtimes
           /\ MaskMap(BuildRuntime(stored, k)) \in Masks
           /\ \A x \in Keys :
                /\ BuildRuntime(stored, k)[x] \in Tokens
                     => BuildExport(stored, k)[x] = BuildRuntime(stored, k)[x]
                /\ BuildRuntime(stored, k)[x] = None <=> BuildExport(stored, k)[x] = None
<1>1. ASSUME NEW x \in Keys PROVE Open(k, stored[x]) \in Tokens \cup {Blank, Lost, None}
  BY OpenType DEF Stored
<1>2. BuildExport(stored, k) \in Bodies
  BY <1>1 DEF BuildExport, Bodies
<1>3. BuildRuntime(stored, k) \in Runtimes
  BY <1>1 DEF BuildRuntime, Runtimes
<1>4. MaskMap(BuildRuntime(stored, k)) \in Masks
  BY DEF MaskMap, Masks
<1>5. ASSUME NEW x \in Keys
      PROVE  /\ BuildRuntime(stored, k)[x] = Open(k, stored[x])
             /\ BuildExport(stored, k)[x] = IF Open(k, stored[x]) = Lost THEN Blank
                                            ELSE Open(k, stored[x])
  BY DEF BuildRuntime, BuildExport
<1> QED
  BY <1>1, <1>2, <1>3, <1>4, <1>5, ConfigSaveAssumption

-----------------------------------------------------------------------------
(* The steps of AtomicWrite, on a file system.                             *)

LEMMA OpenTmpSteps ==
    ASSUME NEW f \in FileSystems, NEW i \in Inodes
    PROVE  /\ OpenedInode(f, i) \in Inodes
           /\ OpenTmp(f, i) \in FileSystems
           /\ OpenTmp(f, i).target = f.target
           /\ OpenTmp(f, i).tmp = OpenedInode(f, i)
           /\ OpenTmp(f, i).data = [f.data EXCEPT ![OpenedInode(f, i)] = Empty]
<1>1. OpenedInode(f, i) \in Inodes
  BY ConfigSaveAssumption DEF OpenedInode, FileSystems
<1> DEFINE j == OpenedInode(f, i)
<1>2. OpenTmp(f, i) = [target |-> f.target, tmp |-> j, data |-> [f.data EXCEPT ![j] = Empty]]
  BY DEF OpenTmp
<1>3. f.target \in Inodes \cup {None} /\ [f.data EXCEPT ![j] = Empty] \in [Inodes -> Data]
  BY <1>1 DEF FileSystems, Data
<1> HIDE DEF j
<1>4. OpenTmp(f, i) \in FileSystems
  BY <1>1, <1>2, <1>3 DEF FileSystems, j
<1> QED
  BY <1>1, <1>2, <1>4 DEF j

LEMMA DataSteps ==
    ASSUME NEW f \in FileSystems, NEW i \in Inodes, NEW d \in Data
    PROVE  LET g == [f EXCEPT !.data[i] = d] IN
           /\ g \in FileSystems
           /\ g.target = f.target
           /\ g.tmp = f.tmp
           /\ g.data = [f.data EXCEPT ![i] = d]
<1>1. [f EXCEPT !.data[i] = d] =
          [target |-> f.target, tmp |-> f.tmp, data |-> [f.data EXCEPT ![i] = d]]
  BY DEF FileSystems
<1> QED
  BY <1>1 DEF FileSystems

LEMMA TmpSteps ==
    ASSUME NEW f \in FileSystems
    PROVE  /\ RemoveTmp(f) \in FileSystems
           /\ RemoveTmp(f).target = f.target
           /\ RemoveTmp(f).tmp = None
           /\ RemoveTmp(f).data = f.data
           /\ RenameTmp(f) \in FileSystems
           /\ RenameTmp(f).target = f.tmp
           /\ RenameTmp(f).tmp = None
           /\ RenameTmp(f).data = f.data
<1>1. /\ RemoveTmp(f) = [target |-> f.target, tmp |-> None, data |-> f.data]
      /\ RenameTmp(f) = [target |-> f.tmp, tmp |-> None, data |-> f.data]
  BY DEF RemoveTmp, RenameTmp, FileSystems
<1> QED
  BY <1>1 DEF FileSystems

\* No content of a file but the ones it had, or c.
Filled(f, g, c) ==
    /\ g \in FileSystems
    /\ \A j \in Inodes : g.data[j] \in Config => g.data[j] \in {f.data[j], c}

LEMMA FilledByOpen ==
    ASSUME NEW f \in FileSystems, NEW i \in Inodes, NEW c
    PROVE  Filled(f, OpenTmp(f, i), c)
<1> DEFINE o == OpenedInode(f, i)
           g == OpenTmp(f, i)
<1>1. f.data \in [Inodes -> Data]
  BY DEF FileSystems
<1>2. o \in Inodes /\ g \in FileSystems /\ g.data = [f.data EXCEPT ![o] = Empty]
  BY OpenTmpSteps
<1>3. Empty \notin Config
  BY ConfigSaveAssumption
<1> HIDE DEF o, g
<1>4. Filled(f, g, c)
  BY <1>1, <1>2, <1>3 DEF Filled
<1> QED
  BY <1>4 DEF g

LEMMA FilledByWrite ==
    ASSUME NEW f \in FileSystems, NEW i \in Inodes, NEW c \in Config
    PROVE  /\ \A g \in Written(f, i, c) : Filled(f, g, c)
           /\ Filled(f, RemoveTmp(WriteFailed(f, i)), c)
<1>1. f.data \in [Inodes -> Data]
  BY DEF FileSystems
<1>2. ASSUME NEW d \in {c, Torn}
      PROVE  Filled(f, [f EXCEPT !.data[i] = d], c)
  <2>1. d \in Data
    BY DEF Data
  <2>2. Torn \notin Config
    BY ConfigSaveAssumption
  <2> QED
    BY <1>1, <2>1, <2>2, DataSteps DEF Filled
<1>3. \A g \in Written(f, i, c) : \E d \in {c, Torn} : g = [f EXCEPT !.data[i] = d]
  BY DEF Written
<1>4. Filled(f, WriteFailed(f, i), c)
  BY <1>2 DEF WriteFailed
<1>5. Filled(f, RemoveTmp(WriteFailed(f, i)), c)
  BY <1>4, TmpSteps DEF Filled
<1> QED
  BY <1>2, <1>3, <1>5

-----------------------------------------------------------------------------
(* The steps of a request, on the record of its handler.                   *)

Others(h) == \A g \in Handlers \ {h} : req'[g] = req[g]

LEMMA PhaseStep ==
    ASSUME StateTypes, NEW h \in Handlers, req[h] # None, NEW p \in Phases,
           req' = [req EXCEPT ![h].phase = p]
    PROVE  /\ req' \in [Handlers -> Requests \cup {None}] /\ Others(h)
           /\ req'[h] # None
           /\ req'[h].phase = p /\ req'[h].put = req[h].put /\ req'[h].body = req[h].body
           /\ req'[h].old = req[h].old /\ req'[h].new = req[h].new
           /\ req'[h].masks = req[h].masks /\ req'[h].fd = req[h].fd
<1>1. req \in [Handlers -> Requests \cup {None}] /\ req[h] \in Requests
  BY DEF StateTypes
<1> DEFINE r == [req[h] EXCEPT !.phase = p]
<1>2. r = [phase |-> p, put |-> req[h].put, body |-> req[h].body, old |-> req[h].old,
           new |-> req[h].new, masks |-> req[h].masks, fd |-> req[h].fd]
  BY <1>1 DEF Requests
<1>3. r \in Requests
  BY <1>1, <1>2 DEF Requests
<1>4. [req EXCEPT ![h].phase = p] = [req EXCEPT ![h] = r]
  OBVIOUS
<1>5. r # None
  BY <1>3, ConfigSaveAssumption
<1> HIDE DEF r
<1> QED
  BY <1>1, <1>2, <1>3, <1>4, <1>5 DEF Others

LEMMA FdStep ==
    ASSUME StateTypes, NEW h \in Handlers, req[h] # None, NEW p \in Phases,
           NEW d \in Inodes \cup {None},
           req' = [req EXCEPT ![h] = [@ EXCEPT !.phase = p, !.fd = d]]
    PROVE  /\ req' \in [Handlers -> Requests \cup {None}] /\ Others(h)
           /\ req'[h] # None
           /\ req'[h].phase = p /\ req'[h].put = req[h].put /\ req'[h].body = req[h].body
           /\ req'[h].old = req[h].old /\ req'[h].new = req[h].new
           /\ req'[h].masks = req[h].masks /\ req'[h].fd = d
<1>1. req \in [Handlers -> Requests \cup {None}] /\ req[h] \in Requests
  BY DEF StateTypes
<1> DEFINE s == [req[h] EXCEPT !.phase = p]
           r == [s EXCEPT !.fd = d]
<1>2. s \in Requests
          /\ s = [phase |-> p, put |-> req[h].put, body |-> req[h].body,
                  old |-> req[h].old, new |-> req[h].new, masks |-> req[h].masks,
                  fd |-> req[h].fd]
  BY <1>1 DEF Requests
<1>3. [req EXCEPT ![h] = [@ EXCEPT !.phase = p, !.fd = d]] = [req EXCEPT ![h] = r]
  OBVIOUS
<1> HIDE DEF s
<1>4. r = [phase |-> p, put |-> req[h].put, body |-> req[h].body, old |-> req[h].old,
           new |-> req[h].new, masks |-> req[h].masks, fd |-> d]
  BY <1>2 DEF Requests
<1>5. r \in Requests
  BY <1>1, <1>4 DEF Requests
<1>6. r # None
  BY <1>5, ConfigSaveAssumption
<1> HIDE DEF r
<1> QED
  BY <1>1, <1>4, <1>5, <1>3, <1>6 DEF Others

LEMMA MergeStep ==
    ASSUME StateTypes, NEW h \in Handlers, req[h] # None, NEW n \in Stored, NEW m \in Masks,
           req' = [req EXCEPT ![h] = [@ EXCEPT !.phase = "merged", !.new = n, !.masks = m]]
    PROVE  /\ req' \in [Handlers -> Requests \cup {None}] /\ Others(h)
           /\ req'[h] # None
           /\ req'[h].phase = "merged" /\ req'[h].put = req[h].put /\ req'[h].body = req[h].body
           /\ req'[h].old = req[h].old /\ req'[h].new = n
           /\ req'[h].masks = m /\ req'[h].fd = req[h].fd
<1>1. req \in [Handlers -> Requests \cup {None}] /\ req[h] \in Requests
  BY DEF StateTypes
<1> DEFINE s == [req[h] EXCEPT !.phase = "merged"]
           t == [s EXCEPT !.new = n]
           r == [t EXCEPT !.masks = m]
<1>2. s \in Requests
          /\ s = [phase |-> "merged", put |-> req[h].put, body |-> req[h].body,
                  old |-> req[h].old, new |-> req[h].new, masks |-> req[h].masks,
                  fd |-> req[h].fd]
  BY <1>1 DEF Requests, Phases
<1>3. [req EXCEPT ![h] = [@ EXCEPT !.phase = "merged", !.new = n, !.masks = m]]
          = [req EXCEPT ![h] = r]
  OBVIOUS
<1> HIDE DEF s
<1>4. t \in Requests
          /\ t = [phase |-> "merged", put |-> req[h].put, body |-> req[h].body,
                  old |-> req[h].old, new |-> n, masks |-> req[h].masks,
                  fd |-> req[h].fd]
  BY <1>2 DEF Requests
<1> HIDE DEF t
<1>5. r = [phase |-> "merged", put |-> req[h].put, body |-> req[h].body, old |-> req[h].old,
           new |-> n, masks |-> m, fd |-> req[h].fd]
  BY <1>4 DEF Requests
<1>6. r \in Requests
  BY <1>1, <1>5 DEF Requests, Phases
<1>7. r # None
  BY <1>6, ConfigSaveAssumption
<1> HIDE DEF r
<1> QED
  BY <1>1, <1>5, <1>6, <1>3, <1>7 DEF Others

LEMMA EndStep ==
    ASSUME StateTypes, NEW h \in Handlers,
           req' = [req EXCEPT ![h] = None]
    PROVE  /\ req' \in [Handlers -> Requests \cup {None}] /\ Others(h)
           /\ req'[h] = None
  BY DEF StateTypes, Others

-----------------------------------------------------------------------------
(* The invariant for any number of requests at once.                       *)

LEMMA SealedNothing ==
    ASSUME NEW keys
    PROVE  /\ Nothing \in Stored /\ Nothing \in Masks
           /\ SealedWith(Nothing, keys)
           /\ NoConfig \in Config /\ NoConfig.tokens = Nothing
<1>1. Nothing \in Stored /\ Nothing \in Masks
  BY DEF Nothing, Stored, Masks
<1>2. None \notin Ciphers
  BY ConfigSaveAssumption
<1>3. NoConfig \in Config /\ NoConfig.tokens = Nothing
  BY <1>1, ConfigSaveAssumption DEF NoConfig, Config
<1> QED
  BY <1>1, <1>2, <1>3 DEF SealedWith, Nothing

LEMMA KeysGrow ==
    ASSUME NEW tokens \in Stored, NEW few, NEW many,
           SealedWith(tokens, few), few \cap MasterKeys \subseteq many
    PROVE  SealedWith(tokens, many)
  BY DEF SealedWith, Ciphers

LEMMA DiskConfig ==
    ASSUME SaveInv, TargetData(fs) \in Config
    PROVE  /\ fs.target \in Inodes /\ TargetData(fs) = fs.data[fs.target]
           /\ TargetData(fs).tokens \in Stored
           /\ SealedWith(TargetData(fs).tokens, KnownKeys)
<1>1. fs.target \in Inodes /\ TargetData(fs) = fs.data[fs.target]
  BY ConfigSaveAssumption DEF TargetData, SaveInv, StateTypes, FileSystems
<1> QED
  BY <1>1 DEF SaveInv, Sealed, Config

\* What a step of one request may do.
LEMMA RequestChange ==
    ASSUME SaveInv, NEW h \in Handlers, NEW c \in Config,
           up = "running", UNCHANGED <<key, keyFile, up, removed, made, export, backup>>,
           file' \in Config, SealedWith(file'.tokens, KnownKeys), masks' \in Masks,
           puts' \in 0 .. MaxPuts,
           Filled(fs, fs', c), SealedWith(c.tokens, KnownKeys),
           req' \in [Handlers -> Requests \cup {None}],
           \A g \in Handlers \ {h} : req'[g] = req[g],
           req'[h] # None =>
               /\ req'[h].phase \in {"opened", "written"} => req'[h].fd \in Inodes
               /\ SealedWith(req'[h].old, KnownKeys) /\ SealedWith(req'[h].new, KnownKeys)
               /\ \A k \in Keys : req'[h].body[k] = Blank => req'[h].old[k] # None
               /\ req'[h].phase # "loaded"
                    => req'[h].new = Merged(req'[h].body, req'[h].old, key)
    PROVE  SaveInv'
<1>1. KnownKeys' = KnownKeys
  BY DEF KnownKeys
<1>2. StateTypes'
  BY DEF SaveInv, StateTypes, Filled
<1>3. KeyTypes'
  BY DEF SaveInv, KeyTypes
<1>4. Sealed'
  <2>1. \A i \in Inodes : fs'.data[i] \in Config => SealedWith(fs'.data[i].tokens, KnownKeys)
    BY DEF SaveInv, Sealed, Filled
  <2>2. \A g \in Handlers : req'[g] # None => SealedWith(req'[g].old, KnownKeys)
                                              /\ SealedWith(req'[g].new, KnownKeys)
    BY DEF SaveInv, Sealed
  <2> QED
    BY <1>1, <2>1, <2>2 DEF Sealed
<1>5. ExportShows'
  BY DEF SaveInv, ExportShows
<1>6. RequestMerges'
  BY DEF SaveInv, RequestMerges
<1> QED
  BY <1>2, <1>3, <1>4, <1>5, <1>6 DEF SaveInv

LEMMA SameFiles ==
    ASSUME SaveInv
    PROVE  Filled(fs, fs, file) /\ file \in Config /\ SealedWith(file.tokens, KnownKeys)
  BY DEF SaveInv, StateTypes, Filled, Sealed

LEMMA NewConfigSealed ==
    ASSUME SaveInv, NEW h \in Handlers, req[h] # None
    PROVE  /\ NewConfig(h) \in Config /\ NewConfig(h).tokens = req[h].new
           /\ NewConfig(h).put = req[h].put
           /\ SealedWith(NewConfig(h).tokens, KnownKeys)
<1>1. req[h] \in Requests
  BY DEF SaveInv, StateTypes
<1> QED
  BY <1>1 DEF SaveInv, Sealed, NewConfig, Config, Requests

LEMMA LoadOldSafe ==
    ASSUME SaveInv, NEW h \in Handlers, LoadOld(h)
    PROVE  SaveInv'
<1>1. PICK body \in Sendable :
          /\ NewKeysHaveTokens(body, file.tokens)
          /\ req' = [req EXCEPT ![h] =
                [phase |-> "loaded", put |-> puts + 1, body |-> body,
                 old |-> file.tokens, new |-> Nothing, masks |-> Nothing, fd |-> None]]
  BY DEF LoadOld
<1> DEFINE r == [phase |-> "loaded", put |-> puts + 1, body |-> body, old |-> file.tokens,
                 new |-> Nothing, masks |-> Nothing, fd |-> None]
<1>2. body \in Bodies
  BY ConfigSaveAssumption DEF Sendable, SaveInv, StateTypes
<1>3. puts + 1 \in 0 .. MaxPuts
  BY ConfigSaveAssumption DEF LoadOld, SaveInv, StateTypes
<1>4. file.tokens \in Stored
  BY DEF SaveInv, StateTypes, Config
<1>5. r \in Requests
  BY <1>2, <1>3, <1>4, SealedNothing DEF Requests, Phases
<1>6. /\ req' \in [Handlers -> Requests \cup {None}]
      /\ \A g \in Handlers \ {h} : req'[g] = req[g]
      /\ req'[h] = r
  <2> HIDE DEF r
  <2> QED
    BY <1>1, <1>5 DEF SaveInv, StateTypes, r
<1>7. \A k \in Keys : r.body[k] = Blank => r.old[k] # None
  BY <1>1 DEF NewKeysHaveTokens
<1>8. /\ r.phase = "loaded" /\ r.old = file.tokens /\ r.new = Nothing
  OBVIOUS
<1>9. UNCHANGED <<file, masks, fs, key, keyFile, up, removed, made, export, backup>>
      /\ up = "running" /\ puts' = puts + 1
  BY DEF LoadOld, memory
<1>10. SealedWith(r.old, KnownKeys) /\ SealedWith(r.new, KnownKeys)
  BY <1>8, SealedNothing, SameFiles
<1>11. masks' \in Masks /\ file' \in Config /\ SealedWith(file'.tokens, KnownKeys)
       /\ Filled(fs, fs', file)
  BY <1>9, SameFiles DEF SaveInv, StateTypes
<1> HIDE DEF r
<1> QED
  BY <1>3, <1>6, <1>7, <1>8, <1>9, <1>10, <1>11, SameFiles, RequestChange

LEMMA MergeSafe ==
    ASSUME SaveInv, NEW h \in Handlers, Merge(h)
    PROVE  SaveInv'
<1>1. UNCHANGED <<file, masks, fs, key, keyFile, up, removed, made, export, backup, puts>>
      /\ up = "running" /\ req[h] # None
  BY DEF Merge, Stands, memory, counts
<1>2. req[h] \in Requests /\ req[h].body \in Bodies /\ req[h].old \in Stored
  BY <1>1 DEF SaveInv, StateTypes, Requests
<1>3. key \in MasterKeys /\ key \in KnownKeys
  BY <1>1 DEF SaveInv, KeyTypes, KnownKeys
<1> DEFINE n == Merged(req[h].body, req[h].old, key)
           m == MergedMasks(req[h].body, masks)
<1>4. n \in Stored /\ SealedWith(n, KnownKeys)
  BY <1>1, <1>2, <1>3, MergedType, MergedSealed DEF SaveInv, Sealed
<1>5. m \in Masks
  BY <1>2 DEF MergedMasks, Masks, Bodies, SaveInv, StateTypes
<1>6. req' = [req EXCEPT ![h] = [@ EXCEPT !.phase = "merged", !.new = n, !.masks = m]]
  BY DEF Merge
<1> HIDE DEF n, m
<1>7. /\ req' \in [Handlers -> Requests \cup {None}] /\ Others(h)
      /\ req'[h] # None
      /\ req'[h].phase = "merged" /\ req'[h].body = req[h].body
      /\ req'[h].old = req[h].old /\ req'[h].new = n
  BY <1>1, <1>4, <1>5, <1>6, MergeStep DEF SaveInv
<1>8. SealedWith(req'[h].old, KnownKeys) /\ SealedWith(req'[h].new, KnownKeys)
  BY <1>1, <1>4, <1>7 DEF SaveInv, Sealed
<1>9. \A k \in Keys : req'[h].body[k] = Blank => req'[h].old[k] # None
  BY <1>1, <1>7 DEF SaveInv, RequestMerges
<1>10. req'[h].new = Merged(req'[h].body, req'[h].old, key)
  BY <1>7 DEF n
<1>11. masks' \in Masks /\ puts' \in 0 .. MaxPuts
       /\ file' \in Config /\ SealedWith(file'.tokens, KnownKeys) /\ Filled(fs, fs', file)
  BY <1>1, SameFiles DEF SaveInv, StateTypes
<1> QED
  BY <1>1, <1>7, <1>8, <1>9, <1>10, <1>11, SameFiles, RequestChange DEF Others

LEMMA OpenFileSafe ==
    ASSUME SaveInv, NEW h \in Handlers, OpenFile(h)
    PROVE  SaveInv'
<1>1. UNCHANGED <<file, masks, key, keyFile, up, removed, made, export, backup, puts>>
      /\ up = "running" /\ req[h] # None /\ req[h].phase = "merged"
  BY DEF OpenFile, Stands, memory
<1>2. file' \in Config /\ SealedWith(file'.tokens, KnownKeys)
      /\ masks' \in Masks /\ puts' \in 0 .. MaxPuts
  BY <1>1, SameFiles DEF SaveInv, StateTypes
<1>3. CASE Refuse(h) /\ fs' = fs
  <2>1. req' = [req EXCEPT ![h] = None]
    BY <1>3 DEF Refuse
  <2>2. req' \in [Handlers -> Requests \cup {None}] /\ Others(h) /\ req'[h] = None
    BY <2>1, EndStep DEF SaveInv
  <2> QED
    BY <1>1, <1>2, <1>3, <2>2, SameFiles, RequestChange DEF Others
<1>4. ASSUME NEW i \in Inodes, fs' = OpenTmp(fs, i),
             req' = [req EXCEPT ![h] =
                        [@ EXCEPT !.phase = "opened", !.fd = OpenedInode(fs, i)]]
      PROVE  SaveInv'
  <2> DEFINE d == OpenedInode(fs, i)
  <2>1. fs \in FileSystems
    BY DEF SaveInv, StateTypes
  <2>2. d \in Inodes /\ Filled(fs, fs', file)
    BY <1>4, <2>1, OpenTmpSteps, FilledByOpen
  <2>3. req' = [req EXCEPT ![h] = [@ EXCEPT !.phase = "opened", !.fd = d]]
    BY <1>4
  <2> HIDE DEF d
  <2>4. "opened" \in Phases /\ d \in Inodes \cup {None}
    BY <2>2 DEF Phases
  <2>5. /\ req' \in [Handlers -> Requests \cup {None}] /\ Others(h)
        /\ req'[h].body = req[h].body /\ req'[h].old = req[h].old
        /\ req'[h].new = req[h].new /\ req'[h].fd = d
    BY <1>1, <2>3, <2>4, FdStep DEF SaveInv
  <2>6. /\ SealedWith(req'[h].old, KnownKeys) /\ SealedWith(req'[h].new, KnownKeys)
        /\ \A k \in Keys : req'[h].body[k] = Blank => req'[h].old[k] # None
        /\ req'[h].new = Merged(req'[h].body, req'[h].old, key)
    BY <1>1, <2>5 DEF SaveInv, Sealed, RequestMerges
  <2> QED
    BY <1>1, <1>2, <2>2, <2>5, <2>6, SameFiles, RequestChange DEF Others
<1> QED
  BY <1>3, <1>4 DEF OpenFile, Fresh

\* A step that moves the request on and at most fills a file with c.
LEMMA PhaseSafe ==
    ASSUME SaveInv, NEW h \in Handlers, NEW c \in Config, NEW p \in Phases \ {"loaded"},
           up = "running", req[h] # None, req[h].phase # "loaded",
           UNCHANGED <<key, keyFile, up, removed, made, export, backup, puts>>,
           file' \in Config, SealedWith(file'.tokens, KnownKeys), masks' \in Masks,
           Filled(fs, fs', c), SealedWith(c.tokens, KnownKeys),
           p \in {"opened", "written"} => req[h].fd \in Inodes,
           req' = [req EXCEPT ![h].phase = p]
    PROVE  SaveInv'
<1>1. /\ req' \in [Handlers -> Requests \cup {None}] /\ Others(h)
      /\ req'[h].phase = p
      /\ req'[h].body = req[h].body /\ req'[h].old = req[h].old
      /\ req'[h].new = req[h].new /\ req'[h].fd = req[h].fd
  BY PhaseStep DEF SaveInv
<1>2. /\ SealedWith(req'[h].old, KnownKeys) /\ SealedWith(req'[h].new, KnownKeys)
      /\ \A k \in Keys : req'[h].body[k] = Blank => req'[h].old[k] # None
      /\ req'[h].new = Merged(req'[h].body, req'[h].old, key)
  BY <1>1 DEF SaveInv, Sealed, RequestMerges
<1>3. puts' \in 0 .. MaxPuts
  BY DEF SaveInv, StateTypes
<1> QED
  BY <1>1, <1>2, <1>3, RequestChange DEF Others

LEMMA WriteFileSafe ==
    ASSUME SaveInv, NEW h \in Handlers, WriteFile(h)
    PROVE  SaveInv'
<1>1. UNCHANGED <<file, masks, key, keyFile, up, removed, made, export, backup, puts>>
      /\ up = "running" /\ req[h] # None /\ req[h].phase = "opened"
  BY DEF WriteFile, Stands, memory
<1>2. file' \in Config /\ SealedWith(file'.tokens, KnownKeys)
      /\ masks' \in Masks /\ puts' \in 0 .. MaxPuts
  BY <1>1, SameFiles DEF SaveInv, StateTypes
<1>3. fs \in FileSystems /\ req[h].fd \in Inodes
  BY <1>1 DEF SaveInv, StateTypes
<1>4. NewConfig(h) \in Config /\ SealedWith(NewConfig(h).tokens, KnownKeys)
  BY <1>1, NewConfigSealed
<1>5. CASE fs' \in Written(fs, req[h].fd, NewConfig(h)) /\ req' = [req EXCEPT ![h].phase = "written"]
  <2>1. Filled(fs, fs', NewConfig(h))
    BY <1>3, <1>4, <1>5, FilledByWrite
  <2>2. "written" \in Phases \ {"loaded"}
    BY DEF Phases
  <2>3. req[h].phase # "loaded"
    BY <1>1
  <2> QED
    BY <1>1, <1>2, <1>3, <1>4, <1>5, <2>1, <2>2, <2>3, PhaseSafe
<1>6. CASE fs' = RemoveTmp(WriteFailed(fs, req[h].fd)) /\ Refuse(h)
  <2>1. Filled(fs, fs', NewConfig(h))
    BY <1>3, <1>4, <1>6, FilledByWrite
  <2>2. req' = [req EXCEPT ![h] = None]
    BY <1>6 DEF Refuse
  <2>3. req' \in [Handlers -> Requests \cup {None}] /\ Others(h) /\ req'[h] = None
    BY <2>2, EndStep DEF SaveInv
  <2> QED
    BY <1>1, <1>2, <1>4, <2>1, <2>3, RequestChange DEF Others
<1> QED
  BY <1>5, <1>6 DEF WriteFile

LEMMA RenameFileSafe ==
    ASSUME SaveInv, NEW h \in Handlers, RenameFile(h)
    PROVE  SaveInv'
<1>1. UNCHANGED <<file, masks, key, keyFile, up, removed, made, export, backup, puts>>
      /\ up = "running" /\ req[h] # None /\ req[h].phase = "written"
  BY DEF RenameFile, Stands, memory
<1>2. file' \in Config /\ SealedWith(file'.tokens, KnownKeys)
      /\ masks' \in Masks /\ puts' \in 0 .. MaxPuts
  BY <1>1, SameFiles DEF SaveInv, StateTypes
<1>3. CASE Refuse(h) /\ fs' = fs
  <2>1. req' = [req EXCEPT ![h] = None]
    BY <1>3 DEF Refuse
  <2>2. req' \in [Handlers -> Requests \cup {None}] /\ Others(h) /\ req'[h] = None
    BY <2>1, EndStep DEF SaveInv
  <2> QED
    BY <1>1, <1>2, <1>3, <2>2, SameFiles, RequestChange DEF Others
<1>4. CASE fs' = RenameTmp(fs)
           /\ req' = [req EXCEPT ![h] = [@ EXCEPT !.phase = "renamed", !.fd = None]]
  <2>1. Filled(fs, fs', file)
    BY <1>4, TmpSteps DEF SaveInv, StateTypes, Filled
  <2>2. "renamed" \in Phases
    BY DEF Phases
  <2>3. /\ req' \in [Handlers -> Requests \cup {None}] /\ Others(h)
        /\ req'[h].phase = "renamed"
        /\ req'[h].body = req[h].body /\ req'[h].old = req[h].old
        /\ req'[h].new = req[h].new
    BY <1>1, <1>4, <2>2, FdStep DEF SaveInv
  <2>4. /\ SealedWith(req'[h].old, KnownKeys) /\ SealedWith(req'[h].new, KnownKeys)
        /\ \A k \in Keys : req'[h].body[k] = Blank => req'[h].old[k] # None
        /\ req'[h].new = Merged(req'[h].body, req'[h].old, key)
    BY <1>1, <2>3 DEF SaveInv, Sealed, RequestMerges
  <2> QED
    BY <1>1, <1>2, <2>1, <2>3, <2>4, SameFiles, RequestChange DEF Others
<1> QED
  BY <1>3, <1>4 DEF RenameFile

LEMMA StoreSafe ==
    ASSUME SaveInv, NEW h \in Handlers, StoreFile(h) \/ StoreCfg(h) \/ StoreMasks(h)
    PROVE  SaveInv'
<1>1. UNCHANGED <<fs, key, keyFile, up, removed, made, export, backup, puts>>
      /\ up = "running" /\ req[h] # None
  BY DEF StoreFile, StoreCfg, StoreMasks, Stands, counts
<1>2. req[h].phase # "loaded"
  BY DEF StoreFile, StoreCfg, StoreMasks, Stands
<1>3. \E p \in {"fileStored", "cfgStored", "masksStored"} : req' = [req EXCEPT ![h].phase = p]
  BY DEF StoreFile, StoreCfg, StoreMasks
<1>4. file' \in {file, NewConfig(h)} /\ masks' \in {masks, req[h].masks}
  BY DEF StoreFile, StoreCfg, StoreMasks
<1>5. file' \in Config /\ SealedWith(file'.tokens, KnownKeys)
  BY <1>1, <1>4, SameFiles, NewConfigSealed
<1>6. masks' \in Masks
  BY <1>1, <1>4 DEF SaveInv, StateTypes, Requests
<1>7. Filled(fs, fs', file) /\ file \in Config /\ SealedWith(file.tokens, KnownKeys)
  BY <1>1, SameFiles
<1>8. PICK p \in {"fileStored", "cfgStored", "masksStored"} : req' = [req EXCEPT ![h].phase = p]
  BY <1>3
<1>9. p \in Phases \ {"loaded"} /\ p \notin {"opened", "written"}
  BY DEF Phases
<1> QED
  BY <1>1, <1>2, <1>5, <1>6, <1>7, <1>8, <1>9, PhaseSafe

LEMMA ReloadSafe ==
    ASSUME SaveInv, NEW h \in Handlers, ReloadAndAnswer(h)
    PROVE  SaveInv'
<1>1. UNCHANGED <<file, masks, fs, key, keyFile, up, removed, made, export, backup, puts>>
      /\ up = "running"
  BY DEF ReloadAndAnswer, Stands
<1>2. req' = [req EXCEPT ![h] = None]
  BY DEF ReloadAndAnswer
<1>3. req' \in [Handlers -> Requests \cup {None}] /\ Others(h) /\ req'[h] = None
  BY <1>2, EndStep DEF SaveInv
<1>4. file' \in Config /\ SealedWith(file'.tokens, KnownKeys) /\ Filled(fs, fs', file)
      /\ masks' \in Masks /\ puts' \in 0 .. MaxPuts
  BY <1>1, SameFiles DEF SaveInv, StateTypes
<1> QED
  BY <1>1, <1>3, <1>4, SameFiles, RequestChange DEF Others

-----------------------------------------------------------------------------
(* The start, the export and the end of a process.                         *)

\* A step of a start: no request is under way, and the keys that are known grow.
LEMMA StartChange ==
    ASSUME SaveInv, \A h \in Handlers : req[h] = None,
           UNCHANGED <<req, export, backup, puts>>,
           file' \in {file, TargetData(fs)}, file' \in Config, masks' \in Masks,
           fs' \in FileSystems, fs'.data = fs.data,
           made' \in 0 .. MaxKeys, removed' \subseteq MasterKeys,
           KnownKeys \cap MasterKeys \subseteq KnownKeys',
           KeyTypes'
    PROVE  SaveInv'
<1>1. StateTypes'
  BY DEF SaveInv, StateTypes
<1>2. Sealed'
  <2>1. SealedWith(file'.tokens, KnownKeys')
    <3>1. SealedWith(file'.tokens, KnownKeys)
      BY DiskConfig DEF SaveInv, Sealed
    <3>2. file'.tokens \in Stored
      BY DEF Config
    <3> QED
      BY <3>1, <3>2, KeysGrow
  <2>2. ASSUME NEW i \in Inodes, fs.data[i] \in Config
        PROVE  SealedWith(fs.data[i].tokens, KnownKeys')
    <3>1. SealedWith(fs.data[i].tokens, KnownKeys)
      BY <2>2 DEF SaveInv, Sealed
    <3>2. fs.data[i].tokens \in Stored
      BY <2>2 DEF Config
    <3> QED
      BY <3>1, <3>2, KeysGrow
  <2> QED
    BY <2>1, <2>2 DEF Sealed
<1>3. ExportShows' /\ RequestMerges'
  BY DEF SaveInv, ExportShows, RequestMerges
<1> QED
  BY <1>1, <1>2, <1>3 DEF SaveInv

LEMMA NotRunning ==
    ASSUME SaveInv, up # "running"
    PROVE  \A h \in Handlers : req[h] = None
  BY DEF SaveInv, KeyTypes

LEMMA LoadFileSafe == SaveInv /\ LoadFile => SaveInv'
<1> SUFFICES ASSUME SaveInv, LoadFile PROVE SaveInv'
  OBVIOUS
<1>1. UNCHANGED <<file, masks, key, keyFile, req, export, puts, backup, made, removed>>
      /\ up = "down" /\ fs' = RemoveTmp(fs)
      /\ up' = IF TargetData(fs) \in Config THEN "loaded" ELSE "refused"
  BY DEF LoadFile, memory, counts
<1>2. fs' \in FileSystems /\ fs'.data = fs.data /\ fs'.target = fs.target
  BY <1>1, TmpSteps DEF SaveInv, StateTypes
<1>3. TargetData(fs') = TargetData(fs)
  BY <1>2 DEF TargetData
<1>4. KeyTypes'
  BY <1>1, <1>3, NotRunning DEF SaveInv, KeyTypes
<1>5. KnownKeys' = KnownKeys
  BY <1>1 DEF KnownKeys
<1> QED
  BY <1>1, <1>2, <1>4, <1>5, NotRunning, StartChange DEF SaveInv, StateTypes

LEMMA MaskType == \A runtime : MaskMap(runtime) \in Masks
  BY DEF MaskMap, Masks

LEMMA ReadKeySafe == SaveInv /\ ReadKey => SaveInv'
<1> SUFFICES ASSUME SaveInv, ReadKey PROVE SaveInv'
  OBVIOUS
<1>1. UNCHANGED <<fs, keyFile, req, export, puts, backup, made, removed>>
      /\ up = "loaded" /\ keyFile # None
  BY DEF ReadKey, counts
<1>2. KnownKeys' = KnownKeys
  BY <1>1 DEF KnownKeys
<1>3. CASE keyFile = Damaged
  <2>1. up' = "down" /\ UNCHANGED <<file, masks, key>>
    BY <1>3 DEF ReadKey, memory
  <2>2. KeyTypes'
    BY <1>1, <2>1, NotRunning DEF SaveInv, KeyTypes
  <2> QED
    BY <1>1, <1>2, <2>1, <2>2, NotRunning, StartChange DEF SaveInv, StateTypes
<1>4. CASE keyFile # Damaged
  <2>1. file' = TargetData(fs) /\ masks' \in Masks /\ key' = keyFile /\ up' = "running"
    BY <1>4, MaskType DEF ReadKey, Serve
  <2>2. KeyTypes'
    BY <1>1, <1>4, <2>1, NotRunning DEF SaveInv, KeyTypes
  <2>3. file' \in Config
    BY <1>1, <2>1 DEF SaveInv, KeyTypes
  <2> QED
    BY <1>1, <1>2, <2>1, <2>2, <2>3, NotRunning, StartChange DEF SaveInv, StateTypes
<1> QED
  BY <1>3, <1>4

LEMMA CreateKeySafe == SaveInv /\ CreateKey => SaveInv'
<1> SUFFICES ASSUME SaveInv, CreateKey PROVE SaveInv'
  OBVIOUS
<1>1. UNCHANGED <<file, masks, key, fs, req, export, puts, backup, removed>>
      /\ up = "loaded" /\ up' = "creating" /\ keyFile = None /\ keyFile' = Damaged
      /\ made < MaxKeys /\ made' = made + 1
  BY DEF CreateKey, memory, counts
<1>2. made' \in 0 .. MaxKeys /\ made' \in MasterKeys
  BY <1>1, ConfigSaveAssumption DEF MasterKeys, SaveInv, StateTypes
<1>3. KeyTypes'
  BY <1>1, <1>2, NotRunning DEF SaveInv, KeyTypes
<1>4. KnownKeys \cap MasterKeys \subseteq KnownKeys'
  BY <1>1, ConfigSaveAssumption DEF KnownKeys
<1> QED
  BY <1>1, <1>2, <1>3, <1>4, NotRunning, StartChange DEF SaveInv, StateTypes

LEMMA WriteKeySafe == SaveInv /\ WriteKey => SaveInv'
<1> SUFFICES ASSUME SaveInv, WriteKey PROVE SaveInv'
  OBVIOUS
<1>1. UNCHANGED <<fs, req, export, puts, backup, made, removed>> /\ up = "creating"
      /\ keyFile = Damaged /\ made \in MasterKeys
  BY DEF WriteKey, counts, SaveInv, KeyTypes
<1>2. CASE keyFile' = made /\ Serve(made)
  <2>1. file' = TargetData(fs) /\ masks' \in Masks /\ key' = made /\ up' = "running"
    BY <1>2, MaskType DEF Serve
  <2>2. KeyTypes'
    BY <1>1, <1>2, <2>1, NotRunning DEF SaveInv, KeyTypes
  <2>3. file' \in Config
    BY <1>1, <2>1 DEF SaveInv, KeyTypes
  <2>4. KnownKeys \cap MasterKeys \subseteq KnownKeys'
    BY <1>1, ConfigSaveAssumption DEF KnownKeys
  <2> QED
    BY <1>1, <2>1, <2>2, <2>3, <2>4, NotRunning, StartChange DEF SaveInv, StateTypes
<1>3. CASE keyFile' = keyFile /\ KeyRefused
  <2>1. up' = "down" /\ UNCHANGED <<file, masks, key, keyFile>>
    BY <1>3 DEF KeyRefused, memory
  <2>2. KeyTypes' /\ KnownKeys' = KnownKeys
    BY <1>1, <2>1, NotRunning DEF SaveInv, KeyTypes, KnownKeys
  <2> QED
    BY <1>1, <2>1, <2>2, NotRunning, StartChange DEF SaveInv, StateTypes
<1> QED
  BY <1>2, <1>3 DEF WriteKey

LEMMA RemoveKeySafe == SaveInv /\ RemoveKey => SaveInv'
<1> SUFFICES ASSUME SaveInv, RemoveKey PROVE SaveInv'
  OBVIOUS
<1>1. UNCHANGED <<file, masks, key, fs, req, export, up, puts, backup, made>>
      /\ up = "down" /\ keyFile' = None
      /\ removed' = removed \cup ({keyFile} \cap MasterKeys)
  BY DEF RemoveKey, memory, counts
<1>2. KeyTypes'
  BY <1>1, NotRunning DEF SaveInv, KeyTypes
<1>3. KnownKeys \cap MasterKeys \subseteq KnownKeys' /\ removed' \subseteq MasterKeys
  BY <1>1 DEF KnownKeys, SaveInv, StateTypes
<1> QED
  BY <1>1, <1>2, <1>3, NotRunning, StartChange DEF SaveInv, StateTypes

LEMMA ExportSafe == SaveInv /\ Export => SaveInv'
<1> SUFFICES ASSUME SaveInv, Export PROVE SaveInv'
  OBVIOUS
<1>1. UNCHANGED <<file, masks, key, fs, keyFile, req, up, puts, made, removed>>
      /\ up = "running"
      /\ export' = BuildExport(file.tokens, key) /\ backup' = BuildRuntime(file.tokens, key)
  BY DEF Export, memory, counts
<1>2. key \in MasterKeys /\ file.tokens \in Stored
  BY <1>1 DEF SaveInv, KeyTypes, StateTypes, Config
<1>3. StateTypes'
  BY <1>1, <1>2, ExportHolds DEF SaveInv, StateTypes
<1>4. ExportShows'
  <2>1. backup' \in Runtimes
    BY <1>1, <1>2, ExportHolds
  <2>2. None \notin Runtimes
    BY ConfigSaveAssumption
  <2> QED
    BY <1>1, <1>2, <2>1, <2>2, ExportHolds DEF ExportShows
<1>5. KeyTypes' /\ Sealed' /\ RequestMerges'
  BY <1>1 DEF SaveInv, KeyTypes, Sealed, RequestMerges, KnownKeys
<1> QED
  BY <1>3, <1>4, <1>5 DEF SaveInv

LEMMA CrashSafe == SaveInv /\ Crash => SaveInv'
<1> SUFFICES ASSUME SaveInv, Crash PROVE SaveInv'
  OBVIOUS
<1>1. UNCHANGED <<fs, keyFile, export, puts, backup, made, removed>>
      /\ up' = "down" /\ file' = NoConfig /\ masks' = Nothing
      /\ req' = [h \in Handlers |-> None]
  BY DEF Crash, counts
<1>2. StateTypes'
  BY <1>1, SealedNothing DEF SaveInv, StateTypes
<1>3. KeyTypes'
  BY <1>1 DEF SaveInv, KeyTypes
<1>4. Sealed'
  BY <1>1, SealedNothing DEF SaveInv, Sealed, KnownKeys
<1>5. ExportShows' /\ RequestMerges'
  BY <1>1 DEF SaveInv, ExportShows, RequestMerges
<1> QED
  BY <1>2, <1>3, <1>4, <1>5 DEF SaveInv

LEMMA SaveInit == Init => SaveInv
<1> SUFFICES ASSUME Init PROVE SaveInv
  OBVIOUS
<1>1. PICK first \in FirstStored, i \in Fresh({}) :
          fs = [target |-> i, tmp |-> None,
                data |-> [j \in Inodes |->
                    IF j = i THEN [put |-> 0, tokens |-> first] ELSE Empty]]
  BY DEF Init
<1>2. /\ file = NoConfig /\ masks = Nothing /\ keyFile = None
      /\ req = [h \in Handlers |-> None] /\ export = None /\ up = "down" /\ puts = 0
      /\ backup = None /\ made = 0 /\ removed = {}
  BY DEF Init
<1>3. i \in Inodes
  BY DEF Fresh
<1> DEFINE c == [put |-> 0, tokens |-> first]
<1>4. first \in Stored /\ SealedWith(first, KnownKeys)
  BY ConfigSaveAssumption DEF Stored, SealedWith
<1>5. c \in Config /\ c.tokens = first
  BY <1>4, ConfigSaveAssumption DEF Config
<1>6. fs = [target |-> i, tmp |-> None,
            data |-> [j \in Inodes |-> IF j = i THEN c ELSE Empty]]
  BY <1>1
<1> HIDE DEF c
<1>7. fs \in FileSystems
  <2>1. [j \in Inodes |-> IF j = i THEN c ELSE Empty] \in [Inodes -> Data]
    BY <1>5 DEF Data
  <2> QED
    BY <1>3, <1>6, <2>1 DEF FileSystems
<1>8. \A j \in Inodes : fs.data[j] \in Config => SealedWith(fs.data[j].tokens, KnownKeys)
  <2>1. Empty \notin Config
    BY ConfigSaveAssumption
  <2>2. \A j \in Inodes : fs.data[j] = IF j = i THEN c ELSE Empty
    BY <1>6
  <2> QED
    BY <1>4, <1>5, <2>1, <2>2
<1>9. StateTypes
  BY <1>2, <1>7, ConfigSaveAssumption, SealedNothing DEF StateTypes
<1>10. KeyTypes
  BY <1>2 DEF KeyTypes
<1>11. Sealed
  BY <1>2, <1>8, SealedNothing DEF Sealed
<1>12. ExportShows /\ RequestMerges
  BY <1>2 DEF ExportShows, RequestMerges
<1> QED
  BY <1>9, <1>10, <1>11, <1>12 DEF SaveInv

LEMMA SaveNext == SaveInv /\ [Next]_vars => SaveInv'
<1> SUFFICES ASSUME SaveInv, [Next]_vars PROVE SaveInv'
  OBVIOUS
<1>1. CASE LoadFile \/ ReadKey \/ CreateKey \/ WriteKey \/ RemoveKey
  BY <1>1, LoadFileSafe, ReadKeySafe, CreateKeySafe, WriteKeySafe, RemoveKeySafe
<1>2. CASE Export \/ Crash
  BY <1>2, ExportSafe, CrashSafe
<1>3. ASSUME NEW h \in Handlers, PutStep(h) PROVE SaveInv'
  BY <1>3, LoadOldSafe, MergeSafe, OpenFileSafe, WriteFileSafe, RenameFileSafe, StoreSafe,
     ReloadSafe DEF PutStep
<1>4. CASE Finished \/ UNCHANGED vars
  <2>1. UNCHANGED vars
    BY <1>4 DEF Finished
  <2> QED
    BY <2>1 DEF vars, memory, counts, SaveInv, StateTypes, KeyTypes, Sealed, ExportShows,
       RequestMerges, KnownKeys, TargetData
<1> QED
  BY <1>1, <1>2, <1>3, <1>4 DEF Next

LEMMA SaveInvHolds == Spec => []SaveInv
  BY SaveInit, SaveNext, PTL DEF Spec

-----------------------------------------------------------------------------
\* Whatever start dies or fails while it makes key.bin, and however PUTs overlap:
\* what is sealed on disk opens with key.bin, as long as nobody takes it away.
THEOREM SealedCanAlwaysBeOpened == Spec => []SealedCanBeOpened
<1>1. SaveInv => SealedCanBeOpened
  BY DiskConfig DEF SealedCanBeOpened, SealedWith, KnownKeys
<1> QED
  BY <1>1, SaveInvHolds, PTL

LEMMA OneHandlerMoves ==
    ASSUME SaveInv, NEW g \in Handlers, PutStep(g), NEW h \in Handlers \ {g}
    PROVE  req'[h] = req[h]
<1>1. req \in [Handlers -> Requests \cup {None}]
  BY DEF SaveInv, StateTypes
<1>2. CASE LoadOld(g)
  BY <1>1, <1>2 DEF LoadOld
<1>3. CASE Merge(g)
  BY <1>1, <1>3 DEF Merge
<1>4. CASE OpenFile(g)
  BY <1>1, <1>4 DEF OpenFile, Refuse
<1>5. CASE WriteFile(g)
  BY <1>1, <1>5 DEF WriteFile, Refuse
<1>6. CASE RenameFile(g)
  BY <1>1, <1>6 DEF RenameFile, Refuse
<1>7. CASE StoreFile(g) \/ StoreCfg(g) \/ StoreMasks(g) \/ ReloadAndAnswer(g)
  BY <1>1, <1>7 DEF StoreFile, StoreCfg, StoreMasks, ReloadAndAnswer
<1> QED
  BY <1>2, <1>3, <1>4, <1>5, <1>6, <1>7 DEF PutStep

\* The step that ends an import is its Reload.
LEMMA ImportReloads ==
    ASSUME SaveInv, [Next]_vars, NEW h \in Handlers, Imports(h)
    PROVE  ReloadAndAnswer(h)
<1>1. up = "running" /\ req[h] # None /\ req[h].phase = "masksStored"
      /\ req'[h] = None /\ up' = "running"
  BY DEF Imports, Stands
<1>2. ~(LoadFile \/ ReadKey \/ CreateKey \/ WriteKey \/ RemoveKey \/ Crash)
  BY <1>1 DEF LoadFile, ReadKey, CreateKey, WriteKey, RemoveKey, Crash
<1>3. ~Export /\ ~Finished /\ ~UNCHANGED vars
  BY <1>1 DEF Export, Finished, vars
<1>4. \A g \in Handlers : PutStep(g) => g = h
  BY <1>1, OneHandlerMoves
<1>5. PutStep(h)
  BY <1>2, <1>3, <1>4 DEF Next
<1> QED
  BY <1>1, <1>5 DEF PutStep, LoadOld, Merge, OpenFile, WriteFile, RenameFile, StoreFile,
     StoreCfg, StoreMasks, Stands

\* An import brings back every token that could be read when the export was made,
\* and no key it does not hold, for any number of requests at once.
THEOREM ImportAlwaysRestores == Spec => ImportRestores
<1>1. ASSUME SaveInv, [Next]_vars, NEW h \in Handlers, Imports(h), req[h].body = export,
             NEW k \in Keys
      PROVE  /\ backup[k] \in Tokens => sched'.tokens[k] = backup[k]
             /\ sched'.tokens[k] = None <=> backup[k] = None
  <2>1. up = "running" /\ req[h] # None /\ req[h].phase = "masksStored"
    BY <1>1 DEF Imports, Stands
  <2>2. sched' = Runtime(NewConfig(h), key)
    BY <1>1, ImportReloads DEF ReloadAndAnswer
  <2>3. /\ req[h].body \in Bodies /\ req[h].old \in Stored
        /\ key \in MasterKeys
        /\ req[h].new = Merged(req[h].body, req[h].old, key)
        /\ req[h].body[k] = Blank => req[h].old[k] # None
    <3>1. req[h] \in Requests /\ key \in MasterKeys
      BY <1>1, <2>1 DEF SaveInv, StateTypes, KeyTypes
    <3>2. /\ \A x \in Keys : req[h].body[x] = Blank => req[h].old[x] # None
          /\ req[h].phase # "loaded" => req[h].new = Merged(req[h].body, req[h].old, key)
      BY <1>1, <2>1 DEF SaveInv, RequestMerges
    <3> QED
      BY <2>1, <3>1, <3>2 DEF Requests
  <2> DEFINE n == Merged(req[h].body, req[h].old, key)
  <2>4. sched'.tokens[k] = Open(key, n[k])
    BY <2>2, <2>3 DEF Runtime, NewConfig, BuildRuntime
  <2>5. /\ req[h].body[k] \in Tokens => Open(key, n[k]) = req[h].body[k]
        /\ req[h].body[k] = Blank => n[k] = req[h].old[k]
        /\ req[h].body[k] = None => Open(key, n[k]) = None
    BY <2>3, MergedOpens
  <2>6. req[h].old[k] \in Ciphers \cup {Blank, None}
        /\ req[h].body[k] \in Tokens \cup {Blank, None}
    BY <2>3 DEF Stored, Bodies
  <2>7. Open(key, req[h].old[k]) = None <=> req[h].old[k] = None
    BY <2>3, <2>6, OpenType
  <2>8. /\ backup[k] \in Tokens => req[h].body[k] = backup[k]
        /\ backup[k] = None <=> req[h].body[k] = None
    BY <1>1, <2>3, <2>6, ConfigSaveAssumption DEF SaveInv, ExportShows
  <2> HIDE DEF n
  <2> QED
    BY <2>3, <2>4, <2>5, <2>6, <2>7, <2>8, ConfigSaveAssumption
<1>2. SaveInv /\ [Next]_vars
      => [\A h \in Handlers :
            Imports(h) /\ req[h].body = export
            => \A k \in Keys :
                   /\ backup[k] \in Tokens => sched'.tokens[k] = backup[k]
                   /\ sched'.tokens[k] = None <=> backup[k] = None]_vars
  BY <1>1
<1> QED
  BY <1>2, SaveInvHolds, PTL DEF Spec, ImportRestores

-----------------------------------------------------------------------------
(* One request at a time: h is the only handler.                           *)

OnDisk == fs.data[fs.target]

Early == {"loaded", "merged", "opened", "written"}

BeforeRename(h) == req[h] = None \/ req[h].phase \in Early

\* config.json is whole, and the open file is config.json.tmp.
DiskHolds(h) ==
    /\ fs.target \in Inodes /\ OnDisk \in Config /\ fs.tmp # fs.target
    /\ req[h] # None =>
         /\ req[h].phase \in {"opened", "written"} => req[h].fd = fs.tmp
         /\ req[h].phase = "opened" => fs.data[fs.tmp] = Empty
         /\ req[h].phase = "written" => fs.data[fs.tmp] = NewConfig(h)

\* Up to the rename memory is the disk; after it memory follows, one by one.
MemoryHolds(h) ==
    /\ BeforeRename(h) =>
         /\ file = OnDisk
         /\ cfg = Runtime(OnDisk, key)
         /\ sched = cfg
         /\ masks = MaskMap(BuildRuntime(OnDisk.tokens, key))
    /\ req[h] # None =>
         /\ req[h].phase \in Early => req[h].old = OnDisk.tokens
         /\ req[h].phase # "loaded"
              => req[h].masks = MaskMap(BuildRuntime(req[h].new, key))
         /\ req[h].phase \notin Early => OnDisk = NewConfig(h)
         /\ req[h].phase \in {"fileStored", "cfgStored", "masksStored"} => file = OnDisk
         /\ req[h].phase \in {"cfgStored", "masksStored"} => cfg = Runtime(OnDisk, key)
         /\ req[h].phase = "masksStored"
              => masks = MaskMap(BuildRuntime(OnDisk.tokens, key))

\* The request under way is the last one, and not on disk before its rename.
NumbersHold(h) ==
    /\ OnDisk.put <= puts /\ answered <= OnDisk.put /\ answered \in Nat
    /\ OnDisk.put \notin refused /\ \A p \in refused : p \in Nat /\ p <= puts
    /\ req[h] # None =>
         /\ req[h].put = puts /\ puts \notin refused
         /\ req[h].phase \in Early => OnDisk.put < puts

OneInv(h) ==
    SaveInv /\ DiskHolds(h) /\ (up = "running" => MemoryHolds(h)) /\ NumbersHold(h)

LEMMA OneTypes ==
    ASSUME NEW h \in Handlers, OneInv(h)
    PROVE  /\ fs \in FileSystems
           /\ OnDisk \in Config /\ OnDisk.put \in Nat /\ OnDisk.tokens \in Stored
           /\ puts \in Nat /\ MaxPuts \in Nat
           /\ TargetData(fs) = OnDisk
  BY ConfigSaveAssumption DEF OneInv, SaveInv, StateTypes, DiskHolds, Config, OnDisk, TargetData

LEMMA OneInit == ASSUME NEW h, Handlers = {h}, Init PROVE OneInv(h)
<1>1. PICK first \in FirstStored, i \in Fresh({}) :
          fs = [target |-> i, tmp |-> None,
                data |-> [j \in Inodes |->
                    IF j = i THEN [put |-> 0, tokens |-> first] ELSE Empty]]
  BY DEF Init
<1>2. i \in Inodes /\ fs.target = i /\ fs.tmp = None /\ OnDisk = [put |-> 0, tokens |-> first]
  BY <1>1 DEF Fresh, OnDisk
<1>3. first \in Stored
  BY ConfigSaveAssumption DEF Stored
<1>4. OnDisk \in Config /\ OnDisk.put = 0
  BY <1>2, <1>3, ConfigSaveAssumption DEF Config
<1>5. req[h] = None /\ puts = 0 /\ answered = 0 /\ refused = {} /\ up = "down"
  BY DEF Init
<1>6. DiskHolds(h)
  BY <1>2, <1>4, <1>5, ConfigSaveAssumption DEF DiskHolds
<1>7. NumbersHold(h)
  BY <1>4, <1>5 DEF NumbersHold
<1> QED
  BY <1>5, <1>6, <1>7, SaveInit DEF OneInv

LEMMA OneLoadOld ==
    ASSUME NEW h \in Handlers, OneInv(h), LoadOld(h), SaveInv'
    PROVE  OneInv(h)'
<1>1. PICK body \in Sendable :
          req' = [req EXCEPT ![h] =
                [phase |-> "loaded", put |-> puts + 1, body |-> body,
                 old |-> file.tokens, new |-> Nothing, masks |-> Nothing, fd |-> None]]
  BY DEF LoadOld
<1>2. req'[h].phase = "loaded" /\ req'[h].put = puts + 1 /\ req'[h].old = file.tokens
  BY <1>1 DEF OneInv, SaveInv, StateTypes
<1>3. UNCHANGED <<file, cfg, masks, sched, key, fs, up, refused, answered>>
      /\ up = "running" /\ req[h] = None /\ puts' = puts + 1
  BY DEF LoadOld, memory
<1>4. OnDisk' = OnDisk
  BY <1>3 DEF OnDisk
<1>5. DiskHolds(h)'
  BY <1>2, <1>3, <1>4 DEF OneInv, DiskHolds
<1>6. MemoryHolds(h)'
  BY <1>2, <1>3, <1>4 DEF OneInv, MemoryHolds, BeforeRename, Early
<1>7. NumbersHold(h)'
  BY <1>2, <1>3, <1>4, OneTypes DEF OneInv, NumbersHold
<1> QED
  BY <1>5, <1>6, <1>7 DEF OneInv

LEMMA OneMerge ==
    ASSUME NEW h \in Handlers, OneInv(h), Merge(h), SaveInv'
    PROVE  OneInv(h)'
<1>1. UNCHANGED <<file, cfg, masks, sched, key, fs, up, puts, refused, answered>>
      /\ up = "running" /\ req[h] # None /\ req[h].phase = "loaded"
  BY DEF Merge, Stands, memory, counts
<1>2. req[h] \in Requests /\ req[h].body \in Bodies /\ req[h].old \in Stored
      /\ masks \in Masks /\ key \in MasterKeys
  BY <1>1 DEF OneInv, SaveInv, StateTypes, KeyTypes, Requests
<1> DEFINE n == Merged(req[h].body, req[h].old, key)
           m == MergedMasks(req[h].body, masks)
<1>3. n \in Stored
  BY <1>2, MergedType
<1>4. m \in Masks
  BY <1>2 DEF MergedMasks, Masks, Bodies
<1>5. m = MaskMap(BuildRuntime(n, key))
  <2>1. masks = MaskMap(BuildRuntime(req[h].old, key))
    BY <1>1 DEF OneInv, MemoryHolds, BeforeRename, Early
  <2> QED
    BY <1>2, <2>1, MergedMasksShow
<1>6. req' = [req EXCEPT ![h] = [@ EXCEPT !.phase = "merged", !.new = n, !.masks = m]]
  BY DEF Merge
<1> HIDE DEF n, m
<1>7. /\ req'[h] # None
      /\ req'[h].phase = "merged" /\ req'[h].put = req[h].put /\ req'[h].body = req[h].body
      /\ req'[h].old = req[h].old /\ req'[h].new = n
      /\ req'[h].masks = m /\ req'[h].fd = req[h].fd
  <2>1. StateTypes /\ req[h] # None
    BY <1>1 DEF OneInv, SaveInv
  <2> QED
    BY <1>3, <1>4, <1>6, <2>1, MergeStep
<1>8. OnDisk' = OnDisk
  BY <1>1 DEF OnDisk
<1>9. DiskHolds(h)'
  BY <1>1, <1>7, <1>8 DEF OneInv, DiskHolds
<1>10. MemoryHolds(h)'
  BY <1>1, <1>5, <1>7, <1>8 DEF OneInv, MemoryHolds, BeforeRename, Early
<1>11. NumbersHold(h)'
  BY <1>1, <1>7, <1>8 DEF OneInv, NumbersHold, Early
<1> QED
  BY <1>9, <1>10, <1>11 DEF OneInv

\* A step of the write that fails.
LEMMA OneRefuse ==
    ASSUME NEW h \in Handlers, OneInv(h), Refuse(h), SaveInv',
           up = "running", req[h] # None, req[h].phase \in Early,
           UNCHANGED <<file, cfg, masks, sched, key, up, puts, answered>>,
           fs'.target = fs.target, fs'.tmp \in {fs.tmp, None}, OnDisk' = OnDisk
    PROVE  OneInv(h)'
<1>1. req'[h] = None /\ refused' = refused \cup {req[h].put}
  BY DEF Refuse, OneInv, SaveInv, StateTypes
<1>2. DiskHolds(h)'
  BY <1>1, ConfigSaveAssumption DEF OneInv, DiskHolds
<1>3. MemoryHolds(h)'
  BY <1>1 DEF OneInv, MemoryHolds, BeforeRename
<1>4. NumbersHold(h)'
  BY <1>1, OneTypes DEF OneInv, NumbersHold
<1> QED
  BY <1>2, <1>3, <1>4 DEF OneInv

LEMMA OneOpenFile ==
    ASSUME NEW h \in Handlers, OneInv(h), OpenFile(h), SaveInv'
    PROVE  OneInv(h)'
<1>1. UNCHANGED <<file, cfg, masks, sched, key, up, puts, answered>>
      /\ up = "running" /\ req[h] # None /\ req[h].phase = "merged"
  BY DEF OpenFile, Stands, memory
<1>2. CASE Refuse(h) /\ fs' = fs
  BY <1>1, <1>2, OneRefuse DEF OnDisk, Early
<1>3. ASSUME NEW i \in Inodes \ {fs.target}, fs' = OpenTmp(fs, i), refused' = refused,
             req' = [req EXCEPT ![h] =
                        [@ EXCEPT !.phase = "opened", !.fd = OpenedInode(fs, i)]]
      PROVE  OneInv(h)'
  <2> DEFINE d == OpenedInode(fs, i)
  <2>1. /\ d \in Inodes /\ fs'.target = fs.target /\ fs'.tmp = d
        /\ fs'.data = [fs.data EXCEPT ![d] = Empty] /\ fs.data \in [Inodes -> Data]
    BY <1>3, OneTypes, OpenTmpSteps DEF FileSystems
  <2>2. d # fs.target
    BY <1>3 DEF OpenedInode, OneInv, DiskHolds
  <2>3. req' = [req EXCEPT ![h] = [@ EXCEPT !.phase = "opened", !.fd = d]]
    BY <1>3
  <2> HIDE DEF d
  <2>4. "opened" \in Phases /\ d \in Inodes \cup {None}
    BY <2>1 DEF Phases
  <2>5. /\ req'[h] # None /\ req'[h].phase = "opened" /\ req'[h].put = req[h].put
        /\ req'[h].old = req[h].old /\ req'[h].new = req[h].new
        /\ req'[h].masks = req[h].masks /\ req'[h].fd = d
    BY <1>1, <2>3, <2>4, FdStep DEF OneInv, SaveInv
  <2>6. OnDisk' = OnDisk /\ fs'.data[fs'.tmp] = Empty
    BY <2>1, <2>2 DEF OnDisk, OneInv, DiskHolds
  <2>7. DiskHolds(h)'
    BY <2>1, <2>2, <2>5, <2>6 DEF OneInv, DiskHolds
  <2>8. MemoryHolds(h)'
    BY <1>1, <2>5, <2>6 DEF OneInv, MemoryHolds, BeforeRename, Early
  <2>9. NumbersHold(h)'
    BY <1>1, <1>3, <2>5, <2>6 DEF OneInv, NumbersHold, Early
  <2> QED
    BY <2>7, <2>8, <2>9 DEF OneInv
<1> QED
  BY <1>2, <1>3 DEF OpenFile, Fresh

LEMMA OneWriteFile ==
    ASSUME NEW h \in Handlers, OneInv(h), WriteFile(h), SaveInv'
    PROVE  OneInv(h)'
<1>1. UNCHANGED <<file, cfg, masks, sched, key, up, puts, answered>>
      /\ up = "running" /\ req[h] # None /\ req[h].phase = "opened"
  BY DEF WriteFile, Stands, memory
<1> DEFINE d == req[h].fd
           c == NewConfig(h)
<1>2. /\ d \in Inodes /\ d = fs.tmp /\ fs.data[d] = Empty /\ d # fs.target
      /\ fs \in FileSystems /\ StateTypes /\ SaveInv
  BY <1>1 DEF OneInv, DiskHolds, SaveInv, StateTypes
<1>3. c \in Config
  BY <1>1, <1>2, NewConfigSealed
<1>4. CASE fs' \in Written(fs, d, c) /\ req' = [req EXCEPT ![h].phase = "written"]
           /\ refused' = refused
  <2>1. fs' = [fs EXCEPT !.data[d] = c]
    BY <1>2, <1>4 DEF Written
  <2>2. c \in Data
    BY <1>3 DEF Data
  <2> HIDE DEF c, d
  <2>3. fs'.target = fs.target /\ fs'.tmp = fs.tmp /\ fs'.data = [fs.data EXCEPT ![d] = c]
    BY <1>2, <2>1, <2>2, DataSteps
  <2>4. OnDisk' = OnDisk /\ fs'.data[d] = c
    BY <1>2, <2>3 DEF OnDisk, FileSystems
  <2>5. "written" \in Phases /\ req' = [req EXCEPT ![h].phase = "written"]
    BY <1>4 DEF Phases
  <2>6. /\ req'[h] # None /\ req'[h].phase = "written" /\ req'[h].put = req[h].put
        /\ req'[h].old = req[h].old /\ req'[h].new = req[h].new
        /\ req'[h].masks = req[h].masks /\ req'[h].fd = req[h].fd
    BY <1>1, <1>2, <2>5, PhaseStep
  <2>7. NewConfig(h)' = c
    BY <2>6 DEF NewConfig, c
  <2>8. DiskHolds(h)'
    BY <1>2, <2>3, <2>4, <2>6, <2>7 DEF OneInv, DiskHolds, d
  <2>9. MemoryHolds(h)'
    BY <1>1, <2>4, <2>6 DEF OneInv, MemoryHolds, BeforeRename, Early
  <2>10. NumbersHold(h)'
    BY <1>1, <1>4, <2>4, <2>6 DEF OneInv, NumbersHold, Early
  <2> QED
    BY <2>8, <2>9, <2>10 DEF OneInv
<1>5. CASE fs' = RemoveTmp(WriteFailed(fs, d)) /\ Refuse(h)
  <2>1. Torn \in Data
    BY DEF Data
  <2> DEFINE g == WriteFailed(fs, d)
  <2> HIDE DEF d
  <2>2. g \in FileSystems /\ g.target = fs.target /\ g.data = [fs.data EXCEPT ![d] = Torn]
    BY <1>2, <2>1, DataSteps DEF WriteFailed
  <2> HIDE DEF g
  <2>3. fs' = RemoveTmp(g)
    BY <1>5 DEF g, d
  <2>4. fs'.target = fs.target /\ fs'.tmp = None /\ fs'.data = [fs.data EXCEPT ![d] = Torn]
    BY <2>2, <2>3, TmpSteps
  <2>5. OnDisk' = OnDisk
    BY <1>2, <2>4 DEF OnDisk, FileSystems
  <2> QED
    BY <1>1, <1>5, <2>4, <2>5, OneRefuse DEF Early
<1> QED
  BY <1>4, <1>5 DEF WriteFile

LEMMA OneRenameFile ==
    ASSUME NEW h \in Handlers, OneInv(h), RenameFile(h), SaveInv'
    PROVE  OneInv(h)'
<1>1. UNCHANGED <<file, cfg, masks, sched, key, up, puts, answered>>
      /\ up = "running" /\ req[h] # None /\ req[h].phase = "written"
  BY DEF RenameFile, Stands, memory
<1>2. CASE Refuse(h) /\ fs' = fs
  BY <1>1, <1>2, OneRefuse DEF OnDisk, Early
<1>3. CASE fs' = RenameTmp(fs) /\ fs.tmp # None /\ refused' = refused
           /\ req' = [req EXCEPT ![h] = [@ EXCEPT !.phase = "renamed", !.fd = None]]
  <2> DEFINE c == NewConfig(h)
  <2>1. fs \in FileSystems /\ StateTypes /\ SaveInv
    BY DEF OneInv, SaveInv, StateTypes
  <2>2. fs'.target = fs.tmp /\ fs'.tmp = None /\ fs'.data = fs.data /\ fs.tmp \in Inodes
    BY <1>3, <2>1, TmpSteps DEF FileSystems
  <2>3. c \in Config /\ c.tokens = req[h].new /\ c.put = req[h].put
    BY <1>1, <2>1, NewConfigSealed
  <2>4. OnDisk' = c
    BY <1>1, <2>2 DEF OnDisk, OneInv, DiskHolds
  <2>5. "renamed" \in Phases /\ None \in Inodes \cup {None}
    BY DEF Phases
  <2>6. /\ req'[h] # None /\ req'[h].phase = "renamed" /\ req'[h].put = req[h].put
        /\ req'[h].old = req[h].old /\ req'[h].new = req[h].new
        /\ req'[h].masks = req[h].masks
    BY <1>1, <1>3, <2>1, <2>5, FdStep
  <2>7. NewConfig(h)' = c
    BY <2>6 DEF NewConfig
  <2> HIDE DEF c
  <2>8. DiskHolds(h)'
    BY <2>2, <2>3, <2>4, <2>6, ConfigSaveAssumption DEF DiskHolds
  <2>9. MemoryHolds(h)'
    BY <1>1, <2>4, <2>6, <2>7 DEF OneInv, MemoryHolds, BeforeRename, Early
  <2>10. NumbersHold(h)'
    BY <1>1, <1>3, <2>3, <2>4, <2>6, OneTypes DEF OneInv, NumbersHold, Early
  <2> QED
    BY <2>8, <2>9, <2>10 DEF OneInv
<1> QED
  BY <1>2, <1>3 DEF RenameFile

\* After the rename only memory changes.
LEMMA OneStore ==
    ASSUME NEW h \in Handlers, OneInv(h), StoreFile(h) \/ StoreCfg(h) \/ StoreMasks(h), SaveInv'
    PROVE  OneInv(h)'
<1>1. UNCHANGED <<fs, key, up, puts, answered, refused>> /\ up = "running" /\ req[h] # None
  BY DEF StoreFile, StoreCfg, StoreMasks, Stands, counts
<1>2. StateTypes
  BY DEF OneInv, SaveInv
<1>3. OnDisk' = OnDisk
  BY <1>1 DEF OnDisk
<1>4. ASSUME NEW p \in {"fileStored", "cfgStored", "masksStored"},
             req' = [req EXCEPT ![h].phase = p]
      PROVE  /\ req'[h] # None /\ req'[h].phase = p /\ req'[h].put = req[h].put
             /\ req'[h].old = req[h].old /\ req'[h].new = req[h].new
             /\ req'[h].masks = req[h].masks /\ NewConfig(h)' = NewConfig(h)
  <2>1. p \in Phases
    BY DEF Phases
  <2> QED
    BY <1>1, <1>2, <1>4, <2>1, PhaseStep DEF NewConfig
<1>5. PICK p \in {"fileStored", "cfgStored", "masksStored"} : req' = [req EXCEPT ![h].phase = p]
  BY DEF StoreFile, StoreCfg, StoreMasks
<1>6. req[h].phase \notin Early
  BY DEF StoreFile, StoreCfg, StoreMasks, Stands, Early
<1>7. DiskHolds(h)'
  BY <1>1, <1>3, <1>4, <1>5 DEF OneInv, DiskHolds
<1>8. NumbersHold(h)'
  BY <1>1, <1>3, <1>4, <1>5 DEF OneInv, NumbersHold, Early
<1>9. MemoryHolds(h)'
  <2>1. CASE StoreFile(h)
    <3>1. /\ file' = NewConfig(h) /\ req[h].phase = "renamed"
          /\ UNCHANGED <<cfg, masks, sched>> /\ req' = [req EXCEPT ![h].phase = "fileStored"]
      BY <2>1 DEF StoreFile, Stands
    <3>2. req'[h].phase = "fileStored"
      BY <1>4, <3>1
    <3> QED
      BY <1>1, <1>3, <1>4, <1>5, <3>1, <3>2 DEF OneInv, MemoryHolds, BeforeRename, Early
  <2>2. CASE StoreCfg(h)
    <3>1. /\ cfg' = Runtime(NewConfig(h), key) /\ req[h].phase = "fileStored"
          /\ UNCHANGED <<file, masks, sched>> /\ req' = [req EXCEPT ![h].phase = "cfgStored"]
      BY <2>2 DEF StoreCfg, Stands
    <3>2. req'[h].phase = "cfgStored"
      BY <1>4, <3>1
    <3> QED
      BY <1>1, <1>3, <1>4, <1>5, <3>1, <3>2 DEF OneInv, MemoryHolds, BeforeRename, Early
  <2>3. CASE StoreMasks(h)
    <3>1. /\ masks' = req[h].masks /\ req[h].phase = "cfgStored"
          /\ UNCHANGED <<file, cfg, sched>> /\ req' = [req EXCEPT ![h].phase = "masksStored"]
      BY <2>3 DEF StoreMasks, Stands
    <3>2. req'[h].phase = "masksStored"
      BY <1>4, <3>1
    <3>3. OnDisk.tokens = req[h].new
      BY <1>1, <3>1 DEF OneInv, MemoryHolds, Early, NewConfig
    <3> QED
      BY <1>1, <1>3, <1>4, <1>5, <3>1, <3>2, <3>3 DEF OneInv, MemoryHolds, BeforeRename, Early
  <2> QED
    BY <2>1, <2>2, <2>3
<1> QED
  BY <1>7, <1>8, <1>9 DEF OneInv

LEMMA OneReload ==
    ASSUME NEW h \in Handlers, OneInv(h), ReloadAndAnswer(h), SaveInv'
    PROVE  OneInv(h)'
<1>1. /\ UNCHANGED <<file, cfg, masks, fs, key, up, puts, refused>> /\ up = "running"
      /\ req[h] # None /\ req[h].phase = "masksStored"
      /\ sched' = Runtime(NewConfig(h), key) /\ answered' = req[h].put
  BY DEF ReloadAndAnswer, Stands
<1>2. req'[h] = None
  BY DEF ReloadAndAnswer, OneInv, SaveInv, StateTypes
<1>3. OnDisk' = OnDisk /\ OnDisk = NewConfig(h) /\ OnDisk.put = req[h].put
  BY <1>1 DEF OnDisk, OneInv, MemoryHolds, Early, NewConfig
<1>4. DiskHolds(h)'
  BY <1>1, <1>2, <1>3 DEF OneInv, DiskHolds
<1>5. MemoryHolds(h)'
  BY <1>1, <1>2, <1>3 DEF OneInv, MemoryHolds, BeforeRename
<1>6. NumbersHold(h)'
  BY <1>1, <1>2, <1>3, OneTypes DEF OneInv, NumbersHold
<1> QED
  BY <1>4, <1>5, <1>6 DEF OneInv

\* A step that leaves config.json, the requests and their answers alone.
LEMMA OneQuiet ==
    ASSUME NEW h \in Handlers, OneInv(h), SaveInv', req'[h] = None \/ req' = req,
           UNCHANGED <<puts, refused, answered>>,
           fs'.target = fs.target, fs'.data = fs.data, fs' = fs \/ fs'.tmp = None,
           fs' = fs \/ req'[h] = None,
           up' = "running" => MemoryHolds(h)'
    PROVE  OneInv(h)'
<1>1. OnDisk' = OnDisk
  BY DEF OnDisk
<1>2. NewConfig(h)' = NewConfig(h) \/ req'[h] = None
  BY DEF NewConfig
<1>3. DiskHolds(h)'
  BY <1>1, <1>2, ConfigSaveAssumption DEF OneInv, DiskHolds
<1>4. NumbersHold(h)'
  BY <1>1 DEF OneInv, NumbersHold
<1> QED
  BY <1>3, <1>4 DEF OneInv

LEMMA OneServe ==
    ASSUME NEW h \in Handlers, OneInv(h), NEW k, Serve(k), UNCHANGED <<fs, req>>, up # "running"
    PROVE  MemoryHolds(h)'
<1>1. req[h] = None
  BY NotRunning DEF OneInv
<1>2. OnDisk' = OnDisk /\ TargetData(fs) = OnDisk
  BY OneTypes DEF OnDisk
<1>3. /\ file' = OnDisk /\ cfg' = Runtime(OnDisk, k) /\ sched' = Runtime(OnDisk, k)
      /\ key' = k /\ masks' = MaskMap(BuildRuntime(OnDisk.tokens, k))
  BY <1>2 DEF Serve
<1> QED
  BY <1>1, <1>2, <1>3 DEF MemoryHolds, BeforeRename

LEMMA OneNext ==
    ASSUME NEW h, Handlers = {h}, OneInv(h), [Next]_vars
    PROVE  OneInv(h)'
<1>0. SaveInv' /\ h \in Handlers
  BY SaveNext DEF OneInv
<1>1. CASE PutStep(h)
  BY <1>0, <1>1, OneLoadOld, OneMerge, OneOpenFile, OneWriteFile, OneRenameFile, OneStore,
     OneReload DEF PutStep
<1>2. CASE LoadFile
  <2>1. up = "down" /\ up' # "running" /\ fs' = RemoveTmp(fs)
        /\ UNCHANGED <<req, puts, refused, answered>>
    BY <1>2 DEF LoadFile, counts
  <2>2. fs'.target = fs.target /\ fs'.data = fs.data /\ fs'.tmp = None
    BY <1>0, <2>1, OneTypes, TmpSteps
  <2>3. req'[h] = None
    BY <1>0, <2>1, NotRunning DEF OneInv
  <2> QED
    BY <1>0, <2>1, <2>2, <2>3, OneQuiet
<1>3. CASE ReadKey \/ WriteKey
  <2>1. up # "running" /\ UNCHANGED <<fs, req, puts, refused, answered>>
    BY <1>3 DEF ReadKey, WriteKey, counts
  <2>2. up' = "running" => \E k : Serve(k)
    BY <1>3 DEF ReadKey, WriteKey, KeyRefused
  <2>3. up' = "running" => MemoryHolds(h)'
    BY <1>0, <2>1, <2>2, OneServe
  <2> QED
    BY <1>0, <2>1, <2>3, OneQuiet
<1>4. CASE CreateKey \/ RemoveKey
  <2>1. up' # "running" /\ UNCHANGED <<fs, req, puts, refused, answered>>
    BY <1>4 DEF CreateKey, RemoveKey, counts
  <2> QED
    BY <1>0, <2>1, OneQuiet
<1>5. CASE Export \/ Finished \/ UNCHANGED vars
  <2>1. UNCHANGED <<file, cfg, masks, sched, key, fs, req, up, puts, refused, answered>>
    BY <1>5 DEF Export, Finished, vars, memory, counts
  <2>2. up' = "running" => MemoryHolds(h)'
    BY <2>1 DEF OneInv, MemoryHolds, BeforeRename, OnDisk, NewConfig
  <2> QED
    BY <1>0, <2>1, <2>2, OneQuiet
<1>6. CASE Crash
  <2>1. up' # "running" /\ req'[h] = None /\ UNCHANGED <<fs, puts, refused, answered>>
    BY <1>0, <1>6 DEF Crash, counts
  <2> QED
    BY <1>0, <2>1, OneQuiet
<1>7. Next => PutStep(h) \/ LoadFile \/ ReadKey \/ WriteKey \/ CreateKey \/ RemoveKey
              \/ Export \/ Finished \/ Crash
  BY DEF Next
<1> QED
  BY <1>1, <1>2, <1>3, <1>4, <1>5, <1>6, <1>7

LEMMA OneHolds ==
    ASSUME NEW h, Handlers = {h}
    PROVE  Spec => []OneInv(h)
<1>1. Init => OneInv(h)
  BY OneInit
<1>2. OneInv(h) /\ [Next]_vars => OneInv(h)'
  BY OneNext
<1> QED
  BY <1>1, <1>2, PTL DEF Spec

-----------------------------------------------------------------------------
\* With one request at a time config.json is whole at any crash.
THEOREM DiskAlwaysLoads ==
    ASSUME NEW h, Handlers = {h}
    PROVE  Spec => []DiskLoads
<1>1. OneInv(h) => DiskLoads
  BY OneTypes DEF DiskLoads
<1> QED
  BY <1>1, OneHolds, PTL

\* With one request at a time memory, the scheduler and the masks are the disk
\* again when it is answered.
THEOREM MemoryIsAlwaysDisk ==
    ASSUME NEW h, Handlers = {h}
    PROVE  Spec => []MemoryIsDisk
<1>1. OneInv(h) => MemoryIsDisk
  <2> SUFFICES ASSUME OneInv(h), Quiet
               PROVE  /\ file = TargetData(fs) /\ cfg = Runtime(file, key)
                      /\ sched = cfg /\ masks = MaskMap(cfg.tokens)
    BY DEF MemoryIsDisk
  <2>1. MemoryHolds(h) /\ BeforeRename(h) /\ TargetData(fs) = OnDisk
    BY OneTypes DEF Quiet, OneInv, BeforeRename
  <2>2. cfg = Runtime(OnDisk, key) => cfg.tokens = BuildRuntime(OnDisk.tokens, key)
    BY DEF Runtime
  <2> QED
    BY <2>1, <2>2 DEF MemoryHolds
<1> QED
  BY <1>1, OneHolds, PTL

\* With one request at a time a PUT that was answered SAVE_FAILED is not on disk.
THEOREM RefusedIsNeverOnDisk ==
    ASSUME NEW h, Handlers = {h}
    PROVE  Spec => []RefusedNotOnDisk
<1>1. OneInv(h) => RefusedNotOnDisk
  BY OneTypes DEF OneInv, NumbersHold, RefusedNotOnDisk
<1> QED
  BY <1>1, OneHolds, PTL

\* With one request at a time a PUT that was answered 200 is on disk, or a later one.
THEOREM AnsweredIsAlwaysDurable ==
    ASSUME NEW h, Handlers = {h}
    PROVE  Spec => []AnsweredIsDurable
<1>1. OneInv(h) => AnsweredIsDurable
  BY OneTypes DEF OneInv, NumbersHold, AnsweredIsDurable
<1> QED
  BY <1>1, OneHolds, PTL

\* With one request at a time a token the body leaves out is the one that
\* config.json had until the rename.
THEOREM EmptyTokenAlwaysKeeps ==
    ASSUME NEW h, Handlers = {h}
    PROVE  Spec => EmptyTokenKeeps
<1>1. ASSUME OneInv(h), [Next]_vars, NEW g \in Handlers, Stands(g, "written"), NEW k \in Keys
      PROVE  KeptToken(g, k)
  <2>1. g = h /\ req[h] # None /\ req[h].phase = "written"
    BY <1>1 DEF Stands
  <2>2. req[h].old = OnDisk.tokens /\ req[h].new = Merged(req[h].body, req[h].old, key)
    BY <1>1, <2>1 DEF OneInv, Stands, MemoryHolds, Early, SaveInv, RequestMerges
  <2>3. req[h].body \in Bodies /\ req[h].old \in Stored /\ key \in MasterKeys
    BY <1>1, <2>1 DEF OneInv, SaveInv, StateTypes, KeyTypes, Requests, Stands
  <2>4. req[h].body[k] = Blank => req[h].new[k] = req[h].old[k]
    BY <2>2, <2>3, MergedOpens
  <2>5. TargetData(fs) = OnDisk
    BY <1>1, OneTypes
  <2> QED
    BY <2>1, <2>2, <2>4, <2>5 DEF KeptToken, NewConfig
<1>2. OneInv(h) /\ [Next]_vars => [RenameKeepsTokens]_vars
  BY <1>1 DEF RenameKeepsTokens
<1> QED
  BY <1>2, OneHolds, PTL DEF Spec, EmptyTokenKeeps

=============================================================================
