----------------------------- MODULE AtomicFile -----------------------------
(***************************************************************************)
(* internal/persist/persist.go, AtomicWrite: the steps that replace a file *)
(* through <target>.tmp.  A name points to an inode, and an open file      *)
(* descriptor keeps its inode through a rename: two writers of one target  *)
(* share the temporary name.                                               *)
(*                                                                         *)
(* A crash is the death of the process.  What the file system has accepted *)
(* stays; losing power, against which the code syncs, is not modelled.     *)
(***************************************************************************)

CONSTANTS
    Inodes,
    Contents,                   \* whole contents
    Empty,                      \* a file just created or truncated
    Torn,                       \* a part of a content, or a mixture of two
    None                        \* no file under a name

Data == Contents \cup {Empty, Torn}

FileSystems ==
    [target : Inodes \cup {None}, tmp : Inodes \cup {None}, data : [Inodes -> Data]]

TargetData(fs) == IF fs.target = None THEN None ELSE fs.data[fs.target]

\* Fault: the target is written in place.
InPlaceInode(fs, fresh) == IF fs.target = None THEN fresh ELSE fs.target

\* Which unused inode the file system gives makes no difference: one of them.
Fresh(used) == {i \in Inodes \ used : i = CHOOSE j \in Inodes \ used : TRUE}

\* O_CREATE|O_TRUNC: takes the file under the temporary name if there is one.
\* Fresh is an inode nobody uses.
OpenedInode(fs, fresh) == IF fs.tmp = None THEN fresh ELSE fs.tmp

OpenTmp(fs, fresh) ==
    LET i == OpenedInode(fs, fresh) IN
    [target |-> fs.target, tmp |-> i, data |-> [fs.data EXCEPT ![i] = Empty]]

\* One write at offset 0.  Over a content somebody else wrote meanwhile, the
\* longer one's end stays.
Written(fs, i, c) ==
    {[fs EXCEPT !.data[i] = d] :
        d \in IF fs.data[i] = Empty THEN {c} ELSE {c, Torn}}

\* A write or a sync that fails.
WriteFailed(fs, i) == [fs EXCEPT !.data[i] = Torn]

RemoveTmp(fs) == [fs EXCEPT !.tmp = None]

\* Only if there is a file under the temporary name.
RenameTmp(fs) == [target |-> fs.tmp, tmp |-> None, data |-> fs.data]

=============================================================================
