-------------------------------- MODULE Tree --------------------------------
(***************************************************************************)
(* Trees of files and their hashes: a tar is unpacked (Extract), some part *)
(* of the result is scanned through filters into a tar or a directory      *)
(* (Save, FillBucket), and what was stored is materialized again.  Each    *)
(* pass writes a tree to a disk and its records to a bucket, whose hash    *)
(* names the ware.  A hash is modelled by the term that is hashed.         *)
(*   A path is the sequence of its names, a name the sequence of its       *)
(* characters, which are ordered as in ASCII.  Times are counted in half   *)
(* seconds.  Owner, group and mode share one attribute, uid; the content   *)
(* of a file is its blocks; a symlink points to nothing that is there.     *)
(***************************************************************************)
EXTENDS Naturals, Sequences, FiniteSets, SequencesExt, TLC

CONSTANTS Entries,     \* what tars consist of
          MaxEntries,  \* bound on the length of the first tar
          Filters,     \* def.Filters an output may be given
          Kinds        \* transmats that scan: "tar", "dir"

VARIABLES stage,  \* what is being done
          kind,   \* the transmat that scans
          filt,   \* its filters
          tar,    \* the entries not yet read, or those written so far
          src,    \* the tree that is scanned, by path below its base
          base,   \* the name of its base
          walk,   \* the stack of the walk: directories and their unvisited children
          disk,   \* the tree that is written: arena, or stage of a warehouse
          lines,  \* the bucket
          ware    \* the hash the ware was stored under, if it was

vars == <<stage, kind, filt, tar, src, base, walk, disk, lines, ware>>

Dot == 0   Dash == 1   Slash == 2
Now       == 99    \* the time of a directory that was just changed
Epoch     == 0     \* fs.Epochwhen
FilterMtime == 40  \* def.FilterDefaultMtime
FilterUid == "1000"
OwnUid    == "own"  \* what a new temporary directory has
ZeroUid   == "0"
NoWare    == <<>>
Keep      == [uid |-> "keep", mtime |-> "keep", at |-> Epoch]

\* Mutant: directories have no slash at their end.
NormalizeBare(path, isDir) ==
  <<Dot>> \o FlattenSeq([i \in DOMAIN path |-> <<Slash>> \o path[i]])
          \o IF path = <<>> THEN <<Slash>> ELSE <<>>

\* The name of a path in a bucket: "./", "./a/", "./a/b".
Normalize(path, isDir) ==
  <<Dot>> \o FlattenSeq([i \in DOMAIN path |-> <<Slash>> \o path[i]])
          \o IF isDir THEN <<Slash>> ELSE <<>>

Entry(path, type, uid, mtime, data) ==
  [form |-> "clean", path |-> path, type |-> type, uid |-> uid, mtime |-> mtime, data |-> data]
DirEntry(path, uid, mtime) == Entry(path, "dir", uid, mtime, <<>>)
DefaultDirRecord(path)     == DirEntry(path, ZeroUid, Epoch)

\* A node of a disk; hard links of one file share its ino.
Node(e) == [type |-> e.type, uid |-> e.uid, mtime |-> e.mtime, data |-> e.data, ino |-> e.path]
TempDir == <<>> :> Node(DirEntry(<<>>, OwnUid, Now))
Children(tree, p) == {q \in DOMAIN tree : q # <<>> /\ Front(q) = p}
-----------------------------------------------------------------------------
(* The bucket and its hash. *)
\* The order of strings.
Less(s, t) == \E i \in 1 .. Len(t) :
  /\ i <= Len(s) + 1 /\ SubSeq(s, 1, i - 1) = SubSeq(t, 1, i - 1)
  /\ i <= Len(s) => s[i] < t[i]

Name(r) == Normalize(r.path, r.type = "dir")

Iterator(records) ==
  LET sorted == SortSeq(records, LAMBDA a, b : Less(Name(a), Name(b)))
  IN  IF sorted # <<>> /\ Head(sorted).path = <<>> THEN sorted
      ELSE <<DefaultDirRecord(<<>>)>> \o sorted

\* Mutant: the same name twice goes unnoticed.
RepeatedNot(this, next) == FALSE

\* A name that follows itself (an index out of range) and a name whose
\* directory has no record are panics.
Repeated(this, next) == next = this
MissingTree(this, next) ==
  \E i \in Len(this) + 1 .. Len(next) - 1 : next[i] = Slash

Marshal(r) == [name |-> IF r.path = <<>> THEN <<>> ELSE Last(r.path), type |-> r.type,
               uid |-> r.uid, mtime |-> r.mtime,
               linkname |-> IF r.type \in {"symlink", "hard"} THEN r.data ELSE <<>>]
Tree(r, leaves) == [m |-> Marshal(r), l |-> leaves, h |-> <<>>]
Leaf(r)         == [m |-> Marshal(r), l |-> <<>>, h |-> IF r.type = "file" THEN r.data ELSE <<>>]

\* The walk over the sorted records from the i-th on: the last one it got to,
\* and the hashes it gives to the directory around.  Every record that has
\* this one's name as a prefix is its child: a file may have children too,
\* whose hashes go to the same directory as its own.
RECURSIVE Visit(_, _), NextChild(_, _, _, _)
Visit(it, i) ==
  LET v == NextChild(it, i, i, <<>>)
  IN  IF it[i].type = "dir" THEN [v EXCEPT !.up = <<Tree(it[i], @)>>]
      ELSE [v EXCEPT !.up = <<Leaf(it[i])>> \o @]
NextChild(it, this, that, up) ==
  LET name(i) == Name(it[i])
      next    == that + 1
  IN  IF next > Len(it) \/ ~IsPrefix(name(this), name(next))
      THEN [that |-> that, ok |-> TRUE, up |-> up]
      ELSE IF Repeated(name(this), name(next)) \/ MissingTree(name(this), name(next))
      THEN [that |-> that, ok |-> FALSE, up |-> up]
      ELSE LET v == Visit(it, next)
           IN  IF v.ok THEN NextChild(it, this, v.that, up \o v.up) ELSE v

\* Not every record visited is a panic too.
Walks(records) == LET v == Visit(Iterator(records), 1)
                  IN  v.ok /\ v.that = Len(Iterator(records))
Hash(records)  == Visit(Iterator(records), 1).up[1]
-----------------------------------------------------------------------------
(* PlaceFile: whether it places an entry, and what it leaves on the disk.  *)
(* Any error is a panic.                                                   *)
CanPlace(d, e) ==
  LET old == e.path \in DOMAIN d IN
  /\ \A i \in 0 .. Len(e.path) - 1 :
       LET q == SubSeq(e.path, 1, i) IN q \in DOMAIN d /\ d[q].type = "dir"
  /\ \/ e.type = "dir" /\ (~old \/ e.path = <<>>)
     \/ e.type = "file" /\ (old => d[e.path].type # "dir")
     \/ e.type = "symlink" /\ ~old
     \/ e.type = "hard" /\ ~old /\ e.data \in DOMAIN d /\ d[e.data].type = "file"

\* A file that is there is not truncated.
Over(new, old) == new \o SubSeq(old, Len(new) + 1, Len(old))

\* A new name changes the time of its directory; a hard link gives its own
\* attributes to the file.
Placed(d, e) ==
  LET old  == e.path \in DOMAIN d
      node == IF e.type = "hard" THEN [d[e.data] EXCEPT !.uid = e.uid, !.mtime = e.mtime]
              ELSE IF ~old \/ e.type = "dir" THEN Node(e)
              ELSE IF d[e.path].type = "symlink" THEN d[e.path]
              ELSE [d[e.path] EXCEPT !.uid = e.uid, !.mtime = e.mtime, !.data = Over(e.data, @)]
      all  == IF old THEN d ELSE (e.path :> node) @@ [d EXCEPT ![Front(e.path)].mtime = Now]
  IN  [q \in DOMAIN all |-> IF all[q].ino = node.ino THEN node ELSE all[q]]
-----------------------------------------------------------------------------
Init == /\ stage = "extract" /\ kind = "tar" /\ filt = Keep
        /\ tar \in SeqOf(Entries, MaxEntries)
        /\ src = TempDir /\ base = <<>> /\ walk = <<>>
        /\ disk = TempDir /\ lines = <<>> /\ ware = NoWare

Refuse == /\ stage' = "refused"
          /\ UNCHANGED <<kind, filt, tar, src, base, walk, disk, lines, ware>>

\* Directories above the entry that are missing, from the top; what lies
\* below a file is not missing but an error.
Missing(d, path) ==
  LET above == [i \in 1 .. Len(path) - 1 |-> SubSeq(path, 1, i)]
      gone(q) == /\ q \notin DOMAIN d
                 /\ \A p \in DOMAIN d : IsPrefix(p, q) => d[p].type # "file"
  IN  IF path = <<>> THEN <<>> ELSE SelectSeq(above, gone)

\* What an entry puts into the tree and the bucket: conjured parents and,
\* unless its type is one to ignore, itself.
Puts(e) == [i \in DOMAIN Missing(disk, e.path) |-> DefaultDirRecord(Missing(disk, e.path)[i])]
           \o IF e.type = "ignored" THEN <<>> ELSE <<e>>

\* The bucket refuses absolute paths, the unpacking those that leave.
Extract ==
  LET e   == Head(tar)
      put(s, x) == IF s.ok /\ CanPlace(s.disk, x)
                   THEN [ok |-> TRUE, disk |-> Placed(s.disk, x)] ELSE [s EXCEPT !.ok = FALSE]
      s   == FoldLeft(put, [ok |-> TRUE, disk |-> disk], Puts(e))
  IN
  /\ stage = "extract" /\ tar # <<>>
  /\ IF e.form = "up" \/ ~s.ok \/ (e.form = "absolute" /\ Puts(e) # <<>>) THEN Refuse
     ELSE /\ tar' = Tail(tar)
          /\ disk' = s.disk
          /\ lines' = lines \o Puts(e)
          /\ UNCHANGED <<stage, kind, filt, src, base, walk, ware>>

\* After the last entry the times of directories are set again, and the root
\* gets its record's attributes even if that was conjured.
DirTimes(d, it) ==
  LET root == Placed(d, Head(it))
      dirs == {i \in DOMAIN it : it[i].type = "dir"}
  IN  [p \in DOMAIN root |-> IF \E i \in dirs : it[i].path = p
         THEN [root[p] EXCEPT !.mtime = it[CHOOSE i \in dirs : it[i].path = p].mtime]
         ELSE root[p]]

\* The hash is compared with the one that was asked for.
Verified(records) == IF ware \in {NoWare, Hash(records)} THEN "unpacked" ELSE "mismatch"

EndOfTar ==
  /\ stage = "extract" /\ tar = <<>>
  /\ IF ~Walks(lines) THEN Refuse
     ELSE /\ stage' = Verified(lines)
          /\ disk' = DirTimes(disk, Iterator(lines))
          /\ lines' = Iterator(lines)
          /\ UNCHANGED <<kind, filt, tar, src, base, walk, ware>>
-----------------------------------------------------------------------------
(* Scanning, and materializing from a directory: fs.Walk over src.         *)
Start(to, tree) == /\ stage' = to /\ src' = tree
                   /\ walk' = <<[dir |-> <<>>, left |-> {<<>>}]>>
                   /\ disk' = TempDir /\ lines' = <<>>

Below(b) == [q \in {SubSeq(p, Len(b) + 1, Len(p)) : p \in {p \in DOMAIN disk : IsPrefix(b, p)}}
               |-> disk[b \o q]]

\* Filters that are not set are in use.
InitDefaultsOutput(f) ==
  [uid   |-> IF f.uid = "unset" THEN "use" ELSE f.uid,
   mtime |-> IF f.mtime = "unset" THEN "use" ELSE f.mtime,
   at    |-> IF f.mtime = "unset" THEN FilterMtime ELSE f.at]

Apply(f, e) == [e EXCEPT !.uid   = IF f.uid = "keep" THEN @ ELSE FilterUid,
                         !.mtime = IF f.mtime = "keep" THEN @ ELSE f.at]

\* An output is a directory or a file of what was unpacked.
Scan == /\ stage = "unpacked" /\ ware = NoWare
        /\ \E k \in Kinds, f \in Filters, b \in {p \in DOMAIN disk : disk[p].type # "symlink"} :
             /\ kind' = k /\ filt' = InitDefaultsOutput(f)
             /\ base' = IF disk[b].type = "dir" THEN <<>> ELSE Last(b)
             /\ Start("scan", Below(b))
        /\ tar' = <<>> /\ UNCHANGED ware

\* Mutant: the hash has the precise time, the tar has not.
TruncateNot(t) == t
\* Whole seconds.
Truncate(t) == t - (t % 2)

\* ScanFile: hard links are not noticed; a file that is itself the base is
\* given its name.
ScanFile(tree, nm, p) ==
  LET n == tree[p] IN Entry(IF nm = <<>> THEN p ELSE <<nm>>, n.type, n.uid, n.mtime, n.data)

\* What is recorded of a path; a copy for materializing is not filtered, and
\* hashes for tars have no times finer than tars.
Scanned(p) ==
  LET e == IF stage = "copy" THEN ScanFile(src, <<>>, p)
           ELSE Apply(filt, ScanFile(src, base, p))
  IN  IF kind = "tar" THEN [e EXCEPT !.mtime = Truncate(@)] ELSE e

Top == Last(walk)

\* The pre-visit of any child: siblings come in no order.
PreVisit ==
  /\ stage \in {"scan", "copy"}
  /\ \E p \in Top.left :
       LET e == Scanned(p)
           rest == Append(Front(walk), [Top EXCEPT !.left = @ \ {p}]) IN
       /\ walk' = IF src[p].type # "dir" THEN rest
                  ELSE Append(rest, [dir |-> p, left |-> Children(src, p)])
       /\ lines' = Append(lines, e)
       /\ tar' = IF kind = "tar" THEN Append(tar, [e EXCEPT !.mtime = @ - (@ % 2)]) ELSE tar
       /\ disk' = IF kind = "dir" THEN Placed(disk, e) ELSE disk
  /\ UNCHANGED <<stage, kind, filt, src, base, ware>>

\* The post-visit sets the directory's time again: the one it has in src.
PostVisit ==
  /\ stage \in {"scan", "copy"} /\ Len(walk) > 1 /\ Top.left = {}
  /\ walk' = Front(walk)
  /\ disk' = IF kind = "dir" THEN [disk EXCEPT ![Top.dir].mtime = src[Top.dir].mtime] ELSE disk
  /\ UNCHANGED <<stage, kind, filt, tar, src, base, lines, ware>>

WalkEnds == Len(walk) = 1 /\ Top.left = {}

\* The hash of the records is what the ware is committed under.
Commit == /\ stage = "scan" /\ WalkEnds
          /\ stage' = "stored" /\ ware' = Hash(lines)
          /\ UNCHANGED <<kind, filt, tar, src, base, walk, disk, lines>>

\* Somebody asks for the ware.
Materialize ==
  /\ stage = "stored"
  /\ IF kind = "tar"
     THEN /\ stage' = "extract" /\ disk' = TempDir /\ lines' = <<>>
          /\ UNCHANGED <<src, walk>>
     ELSE Start("copy", disk)
  /\ UNCHANGED <<kind, filt, tar, base, ware>>

CopyEnds == /\ stage = "copy" /\ WalkEnds
            /\ stage' = Verified(lines)
            /\ UNCHANGED <<kind, filt, tar, src, base, walk, disk, lines, ware>>

Next == Extract \/ EndOfTar \/ Scan \/ PreVisit \/ PostVisit \/ Commit \/ Materialize \/ CopyEnds

Spec == Init /\ [][Next]_vars
-----------------------------------------------------------------------------
TypeOK == /\ stage \in {"extract", "unpacked", "scan", "stored", "copy", "refused", "mismatch"}
          /\ kind \in {"tar", "dir"} /\ filt \in {InitDefaultsOutput(f) : f \in Filters} \cup {Keep}
          /\ \A p \in DOMAIN disk : p = <<>> \/ Front(p) \in DOMAIN disk
          /\ \A p \in DOMAIN disk : disk[p].type \in {"dir", "file", "symlink"}
          /\ \A i \in DOMAIN walk : walk[i].left \subseteq DOMAIN src

\* The reference: the hash of a tree by its paths.
RECURSIVE Merkle(_, _)
Merkle(tree, p) ==
  LET e    == ScanFile(tree, <<>>, p)
      kids == SetToSortSeq(Children(tree, p), LAMBDA q, r :
                Less(Normalize(<<Last(q)>>, tree[q].type = "dir"),
                     Normalize(<<Last(r)>>, tree[r].type = "dir")))
  IN  IF e.type = "dir" THEN Tree(e, [i \in DOMAIN kids |-> Merkle(tree, kids[i])]) ELSE Leaf(e)

\* What a scan of src is to store.
Filtered == LET shown(p) == Node(Scanned(p))
            IN  IF base = <<>> THEN [p \in DOMAIN src |-> shown(p)]
                ELSE (<<>> :> Node(DefaultDirRecord(<<>>))) @@ (<<base>> :> shown(<<>>))

\* A scan's hash is that of the tree it saw through its filters, in whatever
\* order the directories were read (bucket.go:13, hash.go:12): names sort so that
\* children follow their directory, also next to names that only begin alike.
HashIsCanonical ==
  /\ TypeOK
  /\ stage = "stored" => ware = Merkle(Filtered, <<>>)

\* What was unpacked and not refused is on the disk as it was hashed: entries
\* in any order, parents conjured, times of directories and the root
\* restored, nothing given twice.  Hard links are recorded as links and seen as
\* files (tar_stream.go:85, tar_transmat.go:129).
UnpackedAsHashed ==
  stage = "unpacked" /\ (\A i \in DOMAIN lines : lines[i].type # "hard")
    => Hash(lines) = Merkle(disk, <<>>)

\* What a scan committed can be materialized under its hash.
StoredUnpacks == ware # NoWare => stage \notin {"refused", "mismatch"}

\* So it is for tars, and for directories that are scanned without a filter of
\* times (tar_stream.go:54, fs_walk.go:14).
TarsUnpack == (kind = "tar" \/ (filt.mtime = "keep" /\ base = <<>>)) => StoredUnpacks
=============================================================================
