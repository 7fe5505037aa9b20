------------------------------ MODULE Assembly ------------------------------
(***************************************************************************)
(* The root file system of a job: the assembler that places parts (inputs  *)
(* and host mounts) by path order, the copy, bind and overlay placers, the *)
(* deferred teardown, and the removal of the job directory by WithDir.     *)
(* A path is resolved through the mount table as the kernel does, so that  *)
(* a write or a delete lands in the tree that really holds the path: the   *)
(* job directory, the writable layer of an input, or a directory of the    *)
(* host.  aufs differs from overlay in the mount call only.                *)
(***************************************************************************)
EXTENDS Naturals, Sequences, FiniteSets, SequencesExt

CONSTANTS Paths,      \* paths below the root; names are numbers, in string order
          Parts,      \* the parts a job may ask for
          Target, Writable, BareMount,   \* as in rio.AssemblyPart
          Blocks,     \* what files consist of
          Source,     \* what the part's SourcePath holds: a tree
          Faults      \* the system calls that may fail by themselves

\* Parents of a path are paths, and so is what is left below one.
ASSUME PathAssumption ==
  /\ Paths \subseteq Seq(Nat)
  /\ \A p \in Paths : \A n \in 0 .. Len(p) :
       SubSeq(p, 1, n) \in Paths /\ SubSeq(p, n + 1, Len(p)) \in Paths

\* The parts of a job, its inputs and host mounts.  Every input is writable
\* (provision.go:101).
ASSUME PartAssumption ==
  /\ IsFiniteSet(Parts) /\ Target \in [Parts -> Paths]
  /\ Writable \in [Parts -> BOOLEAN] /\ BareMount \in [Parts -> BOOLEAN]
  /\ \A p \in Parts : ~BareMount[p] => Writable[p]

IsTree(t) == DOMAIN t \subseteq Paths /\ \A p \in DOMAIN t : t[p].type \in {"dir", "file", "other"}

\* A tree maps paths to nodes; a file holds a sequence of blocks.
Dir     == [type |-> "dir", data |-> <<>>]
File(d) == [type |-> "file", data |-> d]
Other   == [type |-> "other", data |-> <<>>]
Parents(p) == {SubSeq(p, 1, n) : n \in 0 .. Len(p) - 1}

\* A file system has things below its directories only.
ASSUME SourceAssumption ==
  \A p \in Parts :
    /\ IsTree(Source[p]) /\ <<>> \in DOMAIN Source[p]
    /\ \A q \in DOMAIN Source[p] :
         /\ Target[p] \o q \in Paths
         /\ Source[p][q].data \in Seq(Blocks)
         /\ \A r \in Parents(q) : r \in DOMAIN Source[p] /\ Source[p][r] = Dir
ASSUME FaultAssumption ==
  Faults \subseteq {"mount", "remount", "props", "umount", "rmlayer"}

VARIABLES pc,        \* what the job's goroutine does
          todo,      \* the sorted parts not yet placed
          emplaced,  \* housekeeping.emplacements: the recorded parts
          mounts,    \* the kernel's mount table, oldest first
          root,      \* the tree at <job>/rootfs
          upper,     \* what a part shows through its writable layer
          layers,    \* parts whose layer directory exists
          host,      \* the tree at each part's SourcePath
          raised,    \* what went wrong: "nothing"; a "panic" of a placer or an
                     \*   unmount; a "fault", when the system call fails by itself
          mountable  \* BestAssembler chose a mounting placer

vars == <<pc, todo, emplaced, mounts, root, upper, layers, host, raised,
          mountable>>

Empty   == <<>>
Below(p, q) == SubSeq(q, Len(p) + 1, Len(q))
\* f laid over a tree; @@ of TLC, which the provers do not know.
Onto(f, tree) == [q \in DOMAIN f \cup DOMAIN tree |-> IF q \in DOMAIN f THEN f[q] ELSE tree[q]]
Put(tree, p, node) == Onto([q \in {p} |-> node], tree)
Drop(tree, p) == [q \in {r \in DOMAIN tree : ~IsPrefix(p, r)} |-> tree[q]]
-----------------------------------------------------------------------------
(* Path resolution: the youngest mount that covers a path decides. *)
Covering(p) == {k \in DOMAIN mounts : IsPrefix(mounts[k].at, p)}
Top(p) == IF Covering(p) = {} THEN 0 ELSE Max(Covering(p))
Tree(k) == IF k = 0 THEN root
           ELSE IF mounts[k].cow THEN upper[mounts[k].part] ELSE host[mounts[k].part]
Rel(p) == IF Top(p) = 0 THEN p ELSE Below(mounts[Top(p)].at, p)
Has(p) == Rel(p) \in DOMAIN Tree(Top(p))
Node(p) == Tree(Top(p))[Rel(p)]
CanWrite(p) == IF Top(p) = 0 THEN TRUE ELSE mounts[Top(p)].rw
IsDir(p) == Has(p) /\ Node(p) = Dir

\* The three trees after the one that holds p has become t.
Change(p, t) ==
  LET k == Top(p) IN
  /\ root' = IF k = 0 THEN t ELSE root
  /\ upper' = IF k # 0 /\ mounts[k].cow THEN [upper EXCEPT ![mounts[k].part] = t] ELSE upper
  /\ host' = IF k # 0 /\ ~mounts[k].cow THEN [host EXCEPT ![mounts[k].part] = t] ELSE host
NoChange == UNCHANGED <<root, upper, host>>

\* The mount that k was mounted on, and whether k can be reached by its path.
On(k) == LET below == {j \in Covering(mounts[k].at) : j < k}
         IN IF below = {} THEN 0 ELSE Max(below)
InUse(k) == \E j \in DOMAIN mounts : j > k /\ On(j) = k
-----------------------------------------------------------------------------
(* sort.Sort(AssemblyPartsByPath): string order, ties in any order. *)
Less(p, q) == \/ IsPrefix(p, q) /\ p # q
              \/ \E n \in 1 .. Len(p) : /\ n <= Len(q) /\ p[n] < q[n]
                                        /\ SubSeq(p, 1, n - 1) = SubSeq(q, 1, n - 1)
Sorted(s) == \A i, j \in DOMAIN s : i < j => ~Less(Target[s[j]], Target[s[i]])
Orders(S) == {s \in [1 .. Cardinality(S) -> S] : Range(s) = S}

Init == /\ pc = "assemble"
        /\ \E S \in SUBSET Parts : todo \in {s \in Orders(S) : Sorted(s)}
        /\ emplaced = <<>> /\ mounts = <<>> /\ layers = {}
        /\ root = Empty
        /\ upper = [p \in Parts |-> Empty]
        /\ host = [p \in Parts |-> Source[p]]
        /\ raised = "nothing"
        /\ mountable \in BOOLEAN

\* Mutant: a writable input is bound where it is.
StyleBare(p) == IF ~mountable THEN "copy"
                ELSE IF Source[p][<<>>].type = "file" /\ ~BareMount[p] THEN "copy" ELSE "bind"

\* The placer that handles a part: the assembler has only one, which hands
\* over to another.
Style(p) == IF ~mountable THEN "copy"
            ELSE IF ~Writable[p] \/ BareMount[p] THEN "bind"
            ELSE IF Source[p][<<>>].type = "file" THEN "copy" ELSE "overlay"

\* A panic before Assemble has returned is not covered by the deferred
\* Teardown: Run recovers it and WithDir goes on to remove the directory.
Panic == raised' = "panic" /\ pc' = "remove"
Fault(call) == call \in Faults /\ raised' = "fault" /\ pc' = "remove"

\* fs.MkdirAll of the directory that will hold the part.
MakeParents ==
  /\ pc = "assemble" /\ todo # <<>>
  /\ LET t == Target[Head(todo)]
         missing == {q \in Parents(t) : ~Has(q)}
         deep == CHOOSE q \in missing : \A r \in missing : Len(r) <= Len(q)
     IN \/ /\ missing = {} /\ \A q \in Parents(t) : IsDir(q)
           /\ pc' = "place" /\ NoChange /\ UNCHANGED raised
        \/ /\ missing # {} /\ CanWrite(deep)
           /\ \A q \in Parents(t) \ missing : IsDir(q)
           /\ Change(deep, Onto([q \in {Rel(r) : r \in missing} |-> Dir], Tree(Top(deep))))
           /\ pc' = "place" /\ UNCHANGED raised
        \/ /\ \/ missing # {} /\ ~CanWrite(deep)
              \/ \E q \in Parents(t) \ missing : ~IsDir(q)
           /\ Panic /\ NoChange
  /\ UNCHANGED <<todo, emplaced, mounts, layers>>

\* housekeeping.record, and on to the next part.
Record == /\ emplaced' = Append(emplaced, Head(todo))
          /\ todo' = Tail(todo)
          /\ pc' = "assemble"
          /\ UNCHANGED raised

\* A file is written over what is there, from the start and without truncation;
\* what the old file has more stays behind the new one.
Overwrite(old, new) ==
  File(new.data \o SubSeq(old.data, Len(new.data) + 1, Len(old.data)))

PlaceCopyFile ==
  LET p == Head(todo)  t == Target[p]  new == Source[p][<<>>] IN
  /\ pc = "place" /\ Style(p) = "copy" /\ ~BareMount[p] /\ new.type = "file"
  /\ \/ /\ CanWrite(t) /\ ~IsDir(t)
        /\ Change(t, Put(Tree(Top(t)), Rel(t), IF Has(t) THEN Overwrite(Node(t), new) ELSE new))
        /\ Record
     \/ /\ ~CanWrite(t) \/ IsDir(t)
        /\ Panic /\ NoChange /\ UNCHANGED <<todo, emplaced>>
  /\ UNCHANGED <<mounts, layers>>

\* Mutant: what was below the target stays.
PlaceCopyDirOver ==
  LET p == Head(todo)  t == Target[p] IN
  /\ pc = "place" /\ Style(p) = "copy" /\ ~BareMount[p] /\ Source[p][<<>>] = Dir
  /\ LET at == {t \o r : r \in DOMAIN Source[p]}
     IN Change(t, Onto([q \in at |-> Source[p][Below(t, q)]], root))
  /\ Record
  /\ UNCHANGED <<mounts, layers>>

\* A directory replaces what is below the target, to look like a mount there.
PlaceCopyDir ==
  LET p == Head(todo)  t == Target[p] IN
  /\ pc = "place" /\ Style(p) = "copy" /\ ~BareMount[p] /\ Source[p][<<>>] = Dir
  /\ \/ /\ Has(t) => IsDir(t)
        /\ LET at == {t \o r : r \in DOMAIN Source[p]}
           IN Change(t, Onto([q \in at |-> Source[p][Below(t, q)]], Drop(root, t)))
        /\ Record
     \/ /\ Has(t) /\ ~IsDir(t)
        /\ Panic /\ NoChange /\ UNCHANGED <<todo, emplaced>>
  /\ UNCHANGED <<mounts, layers>>

\* The copying placer cannot give a direct mount: ErrConfigValidation.
RefuseBareMount ==
  /\ pc = "place" /\ Style(Head(todo)) = "copy" /\ BareMount[Head(todo)]
  /\ Panic /\ NoChange /\ UNCHANGED <<todo, emplaced, mounts, layers>>

\* A source that is not there, or is neither a directory nor a plain file.
RefuseSource ==
  /\ pc = "place" /\ Source[Head(todo)][<<>>] = Other
  /\ Panic /\ NoChange /\ UNCHANGED <<todo, emplaced, mounts, layers>>

\* mkDest of the bind and overlay placers: the mount point exists with the
\* type of the source, or is made.
MakeDest ==
  LET p == Head(todo)  t == Target[p]  new == Source[p][<<>>] IN
  /\ pc = "place" /\ Style(p) \in {"bind", "overlay"} /\ new # Other
  /\ \/ /\ Has(t) /\ Node(t).type = new.type
        /\ pc' = "mount" /\ NoChange /\ UNCHANGED raised
     \/ /\ ~Has(t) /\ CanWrite(t)
        /\ Change(t, Put(Tree(Top(t)), Rel(t), IF new = Dir THEN Dir ELSE File(<<>>)))
        /\ pc' = "mount" /\ UNCHANGED raised
     \/ /\ IF Has(t) THEN Node(t).type # new.type ELSE ~CanWrite(t)
        /\ Panic /\ NoChange
  /\ UNCHANGED <<todo, emplaced, mounts, layers>>

Mounted(p, cow) == [part |-> p, at |-> Target[p], rw |-> TRUE, cow |-> cow]

\* Mutant: one mount call for both modes.
MountBindOnce ==
  /\ pc = "mount" /\ Style(Head(todo)) = "bind"
  /\ mounts' = Append(mounts, Mounted(Head(todo), FALSE))
  /\ Record
  /\ NoChange /\ UNCHANGED layers

MountBind ==
  LET p == Head(todo) IN
  /\ pc = "mount" /\ Style(p) = "bind"
  /\ \/ /\ mounts' = Append(mounts, Mounted(p, FALSE))
        /\ IF Writable[p] THEN Record
           ELSE pc' = "remount" /\ UNCHANGED <<todo, emplaced, raised>>
     \/ Fault("mount") /\ UNCHANGED <<mounts, todo, emplaced>>
  /\ NoChange /\ UNCHANGED layers

\* A bind mount becomes read-only by a second mount call.
Remount ==
  /\ pc = "remount"
  /\ \/ mounts' = [mounts EXCEPT ![Len(mounts)].rw = FALSE] /\ Record
     \/ Fault("remount") /\ UNCHANGED <<mounts, todo, emplaced>>
  /\ NoChange /\ UNCHANGED layers

\* The layer directory, the overlay mount, and the root's attributes.
MountOverlay ==
  LET p == Head(todo) IN
  /\ pc = "mount" /\ Style(p) = "overlay"
  /\ layers' = layers \cup {p}
  /\ \/ /\ mounts' = Append(mounts, Mounted(p, TRUE))
        /\ upper' = [upper EXCEPT ![p] = host[p]]
        /\ Record \/ (Fault("props") /\ UNCHANGED <<todo, emplaced>>)
     \/ Fault("mount") /\ UNCHANGED <<mounts, upper, todo, emplaced>>
  /\ UNCHANGED <<root, host>>

Assembled ==
  /\ pc = "assemble" /\ todo = <<>>
  /\ pc' = "run"
  /\ UNCHANGED <<todo, emplaced, mounts, root, upper, layers, host, raised>>

Place == \/ MakeParents \/ PlaceCopyFile \/ PlaceCopyDir \/ RefuseBareMount
         \/ RefuseSource \/ MakeDest \/ MountBind \/ Remount \/ MountOverlay
-----------------------------------------------------------------------------
(* The job's process writes and deletes wherever the mounts let it. *)
JobBlock == "job"

JobWrites(p) ==
  /\ pc = "run" /\ CanWrite(p) /\ p # <<>>
  /\ IsDir(SubSeq(p, 1, Len(p) - 1)) /\ ~IsDir(p)
  /\ Change(p, Put(Tree(Top(p)), Rel(p), File(<<JobBlock>>)))
  /\ UNCHANGED <<pc, todo, emplaced, mounts, layers, raised>>

JobDeletes(p) ==
  /\ pc = "run" /\ Has(p) /\ CanWrite(p) /\ Rel(p) # <<>>
  /\ \A k \in DOMAIN mounts : ~IsPrefix(p, mounts[k].at)
  /\ Change(p, Drop(Tree(Top(p)), Rel(p)))
  /\ UNCHANGED <<pc, todo, emplaced, mounts, layers, raised>>

\* The process ends, or the executor fails after the filesystem was assembled:
\* the deferred Teardown runs.
JobEnds == /\ pc = "run" /\ pc' = "teardown"
           /\ UNCHANGED <<todo, emplaced, mounts, root, upper, layers, host, raised>>
-----------------------------------------------------------------------------
(* assembly.Teardown, in reverse order; the first failure leaves the rest. *)
\* Mutant: teardown in the order of placement.
FirstDown == Head(emplaced)
NextDown == Last(emplaced)

TeardownCopy ==
  LET t == Target[NextDown] IN
  /\ pc = "teardown" /\ emplaced # <<>> /\ Style(NextDown) = "copy"
  /\ IF Has(t) THEN Change(t, Drop(Tree(Top(t)), Rel(t))) ELSE NoChange
  /\ emplaced' = Front(emplaced)
  /\ UNCHANGED <<pc, todo, mounts, layers, raised>>

\* unmount(2) by path takes the youngest mount there, unless something is
\* mounted on it, or it is busy for a reason of its own.
TeardownMount ==
  LET k == Top(Target[NextDown])
      free == k # 0 => mounts[k].at = Target[NextDown] /\ ~InUse(k)
  IN
  /\ pc = "teardown" /\ emplaced # <<>> /\ Style(NextDown) # "copy"
  /\ \/ /\ k # 0 /\ free
        /\ mounts' = RemoveAt(mounts, k)
        /\ emplaced' = Front(emplaced)
        /\ \/ /\ layers' = layers \ {NextDown}
              /\ UNCHANGED <<pc, raised>>
           \/ /\ Style(NextDown) = "overlay" /\ Fault("rmlayer")
              /\ UNCHANGED layers
     \/ /\ ((k = 0 \/ ~free) /\ Panic) \/ Fault("umount")
        /\ UNCHANGED <<mounts, emplaced, layers>>
  /\ NoChange /\ UNCHANGED todo

TornDown == /\ pc = "teardown" /\ emplaced = <<>>
            /\ pc' = "remove"
            /\ UNCHANGED <<todo, emplaced, mounts, root, upper, layers, host, raised>>

\* Mutant: the error of RemoveAll is dropped.
RemoveJobDirQuietly ==
  /\ pc = "remove" /\ pc' = "done" /\ root' = Empty
  /\ UNCHANGED <<todo, emplaced, mounts, upper, layers, host, raised>>

\* WithDir: RemoveAll of the job directory once its function has returned,
\* which it always does.  RemoveAll goes down through whatever is mounted,
\* deletes all it can, and fails on a mount point; the panic is nobody's to
\* recover then, and ends the program.
Emptied(t) == [q \in DOMAIN t \cap {<<>>} |-> t[q]]
RemoveJobDir ==
  LET open == {k \in DOMAIN mounts : Top(mounts[k].at) = k /\ mounts[k].rw} IN
  /\ pc = "remove"
  /\ pc' = IF mounts = <<>> THEN "done" ELSE "crashed"
  /\ root' = Empty
  /\ upper' = [p \in Parts |-> IF \E k \in open : mounts[k].cow /\ mounts[k].part = p
                                THEN Emptied(upper[p]) ELSE upper[p]]
  /\ host' = [p \in Parts |-> IF \E k \in open : ~mounts[k].cow /\ mounts[k].part = p
                               THEN Emptied(host[p]) ELSE host[p]]
  /\ UNCHANGED <<todo, emplaced, mounts, layers, raised>>

Ended == pc \in {"done", "crashed"} /\ UNCHANGED vars

Executor == /\ \/ Place \/ Assembled \/ JobEnds
               \/ TeardownCopy \/ TeardownMount \/ TornDown \/ RemoveJobDir
            /\ UNCHANGED mountable
Job == /\ \E p \in Paths : JobWrites(p) \/ JobDeletes(p)
       /\ UNCHANGED mountable
Next == Executor \/ Job \/ Ended

\* The executor's goroutine runs; the job is waited for, and assumed to end.
Spec == Init /\ [][Next]_vars /\ WF_vars(Executor)
-----------------------------------------------------------------------------
TypeOK ==
  /\ pc \in {"assemble", "place", "mount", "remount", "run", "teardown", "remove",
            "done", "crashed"}
  /\ Range(todo) \subseteq Parts /\ Range(emplaced) \subseteq Parts
  /\ \A k \in DOMAIN mounts :
       /\ mounts[k].part \in Parts /\ mounts[k].at = Target[mounts[k].part]
       /\ mounts[k].rw \in BOOLEAN /\ mounts[k].cow = (Style(mounts[k].part) = "overlay")
  /\ layers \subseteq Parts /\ raised \in {"nothing", "panic", "fault"}
  /\ mountable \in BOOLEAN
  /\ IsTree(root) /\ \A p \in Parts : IsTree(upper[p]) /\ IsTree(host[p])

\* The arena of an input, which is shared with every other job through the
\* ware cache, is never written: not by making mount points, not by the job,
\* not by teardown, not by a removal that runs over what was left mounted
\* (dircacher.go:37-39 relies on the placers for it).
InputsIntact == TypeOK /\ \A p \in Parts : ~BareMount[p] => host[p] = Source[p]

\* A host directory mounted read-only is changed at most after a placer failed
\* (bindPlacer.go:51-59 makes it read-only by a second call).
ReadOnlyHonoured ==
  \A p \in Parts : BareMount[p] /\ ~Writable[p] /\ host[p] # Source[p] => raised # "nothing"

\* chroot_executor.go:63: "Directory is clean; job complete".  When the job is
\* over nothing is mounted, and no layer is left unless something failed.
DoneIsClean == pc = "done" => mounts = <<>> /\ (raised = "nothing" => layers = {})

\* An assembly that was completed is taken down completely unless a system call
\* fails by itself: the reverse order never finds a mount in use.
AssembledIsTornDown ==
  pc = "run" ~> raised = "fault" \/ (pc = "done" /\ mounts = <<>> /\ layers = {})

\* What was placed is what the job finds: below a part's target, where no later
\* part covers it, exactly the part and the mount points of others
\* (placer_tests.go:75, "overlapping placements shows only top layer").  A file
\* copied over a longer one is followed by what the other has more.
Covered(i, q) == \E j \in DOMAIN emplaced : j > i /\ IsPrefix(Target[emplaced[j]], q)
MountPoint(q) == \E j \in DOMAIN emplaced : IsPrefix(q, Target[emplaced[j]])
Shows(node, new) == node.type = new.type /\ IsPrefix(new.data, node.data)
PartsShow ==
  \A i \in DOMAIN emplaced, q \in Paths :
    LET p == emplaced[i]  r == Below(Target[p], q) IN
    IsPrefix(Target[p], q) /\ ~Covered(i, q) =>
      IF r \in DOMAIN Source[p] THEN Has(q) /\ Shows(Node(q), Source[p][r])
      ELSE Has(q) => MountPoint(q)
JobSeesParts == [][pc = "assemble" /\ pc' = "run" => PartsShow]_vars
=============================================================================
