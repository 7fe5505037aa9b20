-------------------------------- MODULE Git --------------------------------
(***************************************************************************)
(* The git transmat, which keeps its own cache: GitTransmat.Materialize.   *)
(* Concurrent calls share, below one work directory,                       *)
(*   gits/<url>     one bare repository per remote                         *)
(*   nosub/<hash>   checkouts of submodules, without submodules of theirs  *)
(*   full/<hash>    checkouts with all their submodules: what is returned  *)
(* Every run of git and every rename is a step.  git itself is external:   *)
(* a fetch writes commits before their trees, and a checkout holds the     *)
(* repository's index.lock.  Crash is the death of the process.            *)
(***************************************************************************)
EXTENDS Naturals, Sequences

CONSTANTS Calls,      \* concurrent calls of Materialize
          Commits,    \* commit hashes
          NoHash,     \* the empty CommitID
          None,       \* nothing there: no tree, no lock, no url
          Partial,    \* a work tree that is being written
          Stale,      \* an index.lock whose git is gone
          Repos,      \* remotes, by url
          Heads,      \* Heads[r]: the commits the branches of r lead to
          Subs,       \* Subs[h]: the submodule commits of h, in path order
          Url,        \* Url[s]: the url .gitmodules has for s, or None
          SiloLists,  \* the lists of siloURIs a call may be given
          EEXISTPossible  \* TRUE when built with Go 1.8 or later

ASSUME GitConstants ==
  /\ Heads \in [Repos -> SUBSET Commits]
  /\ Subs \in [Commits -> Seq(Commits)]
  /\ Url \in [Commits -> Repos \cup {None}]
  /\ SiloLists \subseteq Seq(Repos)
  /\ NoHash \notin Commits /\ EEXISTPossible \in BOOLEAN
  /\ {None, Partial, Stale} \cap (Commits \cup Calls \cup Repos) = {}
  /\ None \notin Seq(Commits) /\ Partial \notin Seq(Commits)

VARIABLES pc,       \* where each call is
          want,     \* dataHash
          silos,    \* the siloURIs not yet given up; the first is the warehouse
          todo,     \* index of the submodule being treated; 0 is the main tree
          urls,     \* whether .gitmodules could be read
          temp,     \* the call's temporary directory under full
          subtemp,  \* its temporary directories under nosub, by index
          objects,  \* what each repository under gits has of each commit
          lock,     \* who holds its index.lock
          nosub,    \* nosub/<hash>
          full      \* full/<hash>

vars == <<pc, want, silos, todo, urls, temp, subtemp, objects, lock, nosub, full>>
call == <<want, silos, urls>>
area == <<objects, lock, nosub, full>>

Busy  == {"stat", "ping", "seek", "fetch", "land", "checkout", "write", "list", "look",
          "move", "copy", "commit"}
Ended == {"done", "failed"}

\* A tree is the sequence of what was put into it: the main tree, then one
\* tree for each submodule.
Whole(h) == <<h>> \o Subs[h]
Trees    == Seq(Commits) \cup {None, Partial}

Init == /\ pc = [c \in Calls |-> "idle"]
        /\ want = [c \in Calls |-> NoHash]
        /\ silos = [c \in Calls |-> <<>>]
        /\ todo = [c \in Calls |-> 0]
        /\ urls = [c \in Calls |-> FALSE]
        /\ temp = [c \in Calls |-> None]
        /\ subtemp = [c \in Calls |-> <<>>]
        /\ objects = [r \in Repos |-> [h \in Commits |-> "none"]]
        /\ lock = [r \in Repos |-> None]
        /\ nosub = [h \in Commits |-> None]
        /\ full = [h \in Commits |-> None]

Goto(c, l) == pc' = [pc EXCEPT ![c] = l]

\* The commit a call is working on, and the remote (and so the repository
\* under gits) it takes it from.
Cur(c)  == IF todo[c] = 0 THEN want[c] ELSE Subs[want[c]][todo[c]]
Repo(c) == IF todo[c] = 0 THEN Head(silos[c])
           ELSE IF urls[c] THEN Url[Cur(c)] ELSE None

\* Mutant: the temporary directories stay where they are.
LeaveAll(c, l) == /\ Goto(c, l)
                  /\ todo' = [todo EXCEPT ![c] = 0]
                  /\ UNCHANGED <<temp, subtemp>>

\* The end of a call, by return or panic: the deferred RemoveAlls run.  They are taken
\* to succeed; the code drops their errors.
Leave(c, l) == /\ Goto(c, l)
               /\ todo' = [todo EXCEPT ![c] = 0]
               /\ temp' = [temp EXCEPT ![c] = None]
               /\ subtemp' = [subtemp EXCEPT ![c] = <<>>]

\* git gives its lock back when it ends, however it ends.
Unlocked(c) == [r \in Repos |-> IF lock[r] = c THEN None ELSE lock[r]]

\* Any run of git (version, ls-remote, init, fetch, checkout, ls-tree), mkdir,
\* copy, chown or rename may fail, as may the parsing of .gitmodules: all panic.
Panic(c) ==
  /\ pc[c] \in Busy
  /\ Leave(c, "failed")
  /\ lock' = Unlocked(c)
  /\ UNCHANGED <<call, objects, nosub, full>>
-----------------------------------------------------------------------------
Materialize(c, h, list) ==
  /\ pc[c] = "idle"
  /\ Goto(c, "stat")
  /\ want' = [want EXCEPT ![c] = h]
  /\ silos' = [silos EXCEPT ![c] = list]
  /\ UNCHANGED <<todo, urls, temp, subtemp, area>>

\* The path of the empty hash is the directory full itself: it is always there.
Cached(c) == want[c] = NoHash \/ full[want[c]] # None

Stat(c) ==
  /\ pc[c] = "stat"
  /\ Goto(c, IF Cached(c) THEN "done" ELSE IF silos[c] = <<>> THEN "failed" ELSE "ping")
  /\ UNCHANGED <<call, todo, temp, subtemp, area>>

\* ls-remote answers, or exits with 128 and the next silo is pinged.  What the
\* silo has is not asked: one that answers is the only one used.
Ping(c) ==
  /\ pc[c] = "ping"
  /\ \/ Goto(c, "seek") /\ UNCHANGED silos
     \/ /\ silos' = [silos EXCEPT ![c] = Tail(@)]
        /\ Goto(c, IF Len(silos[c]) = 1 THEN "failed" ELSE "ping")
  /\ UNCHANGED <<want, urls, todo, temp, subtemp, area>>

\* rev-list reads the commit, and nothing below it.
hasCommit(c) == Repo(c) # None /\ objects[Repo(c)][Cur(c)] # "none"

\* Objects are there: the main tree is checked out, or the loop over the
\* submodules goes on, from fetching to looking for checkouts.
Fetched(c) ==
  IF todo[c] = 0 THEN Goto(c, "checkout") /\ UNCHANGED todo
  ELSE IF todo[c] < Len(Subs[want[c]])
       THEN Goto(c, "seek") /\ todo' = [todo EXCEPT ![c] = @ + 1]
       ELSE Goto(c, "look") /\ todo' = [todo EXCEPT ![c] = 1]

\* The fetch is skipped for a submodule that is checked out already, and for a
\* commit the repository knows.
Seek(c) ==
  /\ pc[c] = "seek"
  /\ IF (todo[c] > 0 /\ nosub[Cur(c)] # None) \/ hasCommit(c)
     THEN Fetched(c)
     ELSE Goto(c, "fetch") /\ UNCHANGED todo
  /\ UNCHANGED <<call, temp, subtemp, area>>

\* The transfer: commits may be written long before their trees.  Without a
\* url there is nothing to fetch from, and only Panic is left.
Yank(c) ==
  /\ pc[c] = "fetch" /\ Repo(c) # None
  /\ objects' = [objects EXCEPT ![Repo(c)] =
       [h \in Commits |-> IF h \in Heads[Repo(c)] /\ @[h] = "none" THEN "torn" ELSE @[h]]]
  /\ Goto(c, "land")
  /\ UNCHANGED <<call, todo, temp, subtemp, lock, nosub, full>>

\* The fetch succeeded: all that the branches lead to is there, which need not
\* be the commit that is wanted.
Landed(c) ==
  /\ pc[c] = "land"
  /\ objects' = [objects EXCEPT ![Repo(c)] =
       [h \in Commits |-> IF h \in Heads[Repo(c)] THEN "whole" ELSE @[h]]]
  /\ Fetched(c)
  /\ UNCHANGED <<call, temp, subtemp, lock, nosub, full>>
-----------------------------------------------------------------------------
\* A temporary directory is made and git started in it.  It panics with
\* ErrWareDNE if the commit is unknown, and as an internal error if another
\* git has the index locked, or had when it was killed.
Checkout(c) ==
  /\ pc[c] = "checkout"
  /\ IF hasCommit(c) /\ lock[Repo(c)] = None
     THEN /\ lock' = [lock EXCEPT ![Repo(c)] = c]
          /\ Goto(c, "write")
          /\ IF todo[c] = 0
             THEN temp' = [temp EXCEPT ![c] = Partial] /\ UNCHANGED subtemp
             ELSE subtemp' = [subtemp EXCEPT ![c] = Append(@, Partial)] /\ UNCHANGED temp
          /\ UNCHANGED todo
     ELSE Leave(c, "failed") /\ UNCHANGED lock
  /\ UNCHANGED <<call, objects, nosub, full>>

\* Mutant: git's exit code is not looked at.
WrittenAnyway(c) == TRUE

\* git can write the work tree only if it has all the objects.
Written(c) == objects[Repo(c)][Cur(c)] = "whole"

Write(c) ==
  /\ pc[c] = "write"
  /\ lock' = Unlocked(c)
  /\ LET tree == IF objects[Repo(c)][Cur(c)] = "whole" THEN <<Cur(c)>> ELSE Partial IN
     IF ~Written(c) THEN Leave(c, "failed")
     ELSE IF todo[c] = 0
     THEN /\ temp' = [temp EXCEPT ![c] = tree] /\ Goto(c, "list")
          /\ UNCHANGED <<todo, subtemp>>
     ELSE /\ subtemp' = [subtemp EXCEPT ![c][Len(subtemp[c])] = tree] /\ Goto(c, "move")
          /\ UNCHANGED <<todo, temp>>
  /\ UNCHANGED <<call, objects, nosub, full>>

\* ls-tree names the submodules, .gitmodules their urls; an error of reading
\* that file is swallowed, and leaves them without.
listSubmodules(c) ==
  /\ pc[c] = "list"
  /\ \E known \in BOOLEAN : urls' = [urls EXCEPT ![c] = known]
  /\ IF Subs[want[c]] = <<>> THEN Goto(c, "commit") /\ UNCHANGED todo
     ELSE Goto(c, "seek") /\ todo' = [todo EXCEPT ![c] = 1]
  /\ UNCHANGED <<want, silos, temp, subtemp, area>>

\* The next submodule to check out; after the last, the temporary directories
\* that lost a race are removed, and copying begins.
NextSub(c, trees) ==
  IF todo[c] < Len(Subs[want[c]])
  THEN /\ todo' = [todo EXCEPT ![c] = @ + 1] /\ Goto(c, "look")
       /\ subtemp' = [subtemp EXCEPT ![c] = trees]
  ELSE /\ todo' = [todo EXCEPT ![c] = 1] /\ Goto(c, "copy")
       /\ subtemp' = [subtemp EXCEPT ![c] = <<>>]

Look(c) ==
  /\ pc[c] = "look"
  /\ IF nosub[Cur(c)] # None THEN NextSub(c, subtemp[c])
     ELSE Goto(c, "checkout") /\ UNCHANGED <<todo, subtemp>>
  /\ UNCHANGED <<call, temp, area>>

\* moveOrShrug: who finds the place taken believes in who took it, except
\* that Go 1.8 says EEXIST, which is not understood (a Panic).
MoveSub(c) ==
  /\ pc[c] = "move"
  /\ LET t == subtemp[c] IN
     IF nosub[Cur(c)] = None
     THEN /\ nosub' = [nosub EXCEPT ![Cur(c)] = t[Len(t)]]
          /\ NextSub(c, SubSeq(t, 1, Len(t) - 1))
          /\ UNCHANGED <<temp>>
     ELSE /\ \/ NextSub(c, t) /\ UNCHANGED temp
             \/ EEXISTPossible /\ Leave(c, "failed")
          /\ UNCHANGED nosub
  /\ UNCHANGED <<call, objects, lock, full>>

\* Mutant: the copying stops before the last submodule.
CopySubShort(c) ==
  /\ pc[c] = "copy"
  /\ temp' = [temp EXCEPT ![c] = IF todo[c] < Len(Subs[want[c]])
                                 THEN @ \o nosub[Cur(c)] ELSE @]
  /\ IF todo[c] < Len(Subs[want[c]])
     THEN todo' = [todo EXCEPT ![c] = @ + 1] /\ UNCHANGED pc
     ELSE Goto(c, "commit") /\ UNCHANGED todo
  /\ UNCHANGED <<call, subtemp, area>>

\* CopyR of each submodule's checkout to its path.
CopySub(c) ==
  /\ pc[c] = "copy"
  /\ temp' = [temp EXCEPT ![c] = @ \o nosub[Cur(c)]]
  /\ IF todo[c] < Len(Subs[want[c]])
     THEN todo' = [todo EXCEPT ![c] = @ + 1] /\ UNCHANGED pc
     ELSE Goto(c, "commit") /\ UNCHANGED todo
  /\ UNCHANGED <<call, subtemp, area>>

\* Chownr of the tree, which is nobody else's yet, and moveOrShrug.
MoveFull(c) ==
  /\ pc[c] = "commit"
  /\ IF full[want[c]] = None
     THEN full' = [full EXCEPT ![want[c]] = temp[c]] /\ Leave(c, "done")
     ELSE /\ \/ Leave(c, "done")
             \/ EEXISTPossible /\ Leave(c, "failed")
          /\ UNCHANGED full
  /\ UNCHANGED <<call, objects, lock, nosub>>

\* The caller is finished with the answer; the arena's Teardown is a stub.
Return(c) ==
  /\ pc[c] \in Ended
  /\ Goto(c, "idle")
  /\ silos' = [silos EXCEPT ![c] = <<>>]
  /\ urls' = [urls EXCEPT ![c] = FALSE]
  /\ UNCHANGED <<want, todo, temp, subtemp, area>>

\* The process dies.  What is below gits, nosub and full stays (temporary
\* directories too, but no one knows their names): a transfer may stay
\* torn, and a lock taken.
Crash ==
  /\ pc' = [c \in Calls |-> "idle"]
  /\ silos' = [c \in Calls |-> <<>>]
  /\ todo' = [c \in Calls |-> 0]
  /\ urls' = [c \in Calls |-> FALSE]
  /\ temp' = [c \in Calls |-> None]
  /\ subtemp' = [c \in Calls |-> <<>>]
  /\ lock' \in [Repos -> {None, Stale}]
  /\ \A r \in Repos : /\ lock[r] = None => lock'[r] = None
                      /\ lock[r] = Stale => lock'[r] = Stale
  /\ UNCHANGED <<want, objects, nosub, full>>

Step(c) == \/ Stat(c) \/ Ping(c) \/ Seek(c) \/ Yank(c) \/ Landed(c)
           \/ Checkout(c) \/ Write(c) \/ listSubmodules(c)
           \/ Look(c) \/ MoveSub(c) \/ CopySub(c) \/ MoveFull(c)

Next == \/ \E c \in Calls :
             \/ \E h \in Commits \cup {NoHash}, l \in SiloLists : Materialize(c, h, l)
             \/ Step(c) \/ Panic(c) \/ Return(c)
        \/ Crash

Spec == Init /\ [][Next]_vars
-----------------------------------------------------------------------------
TypeOK == /\ pc \in [Calls -> {"idle"} \cup Busy \cup Ended]
          /\ want \in [Calls -> Commits \cup {NoHash}]
          /\ silos \in [Calls -> Seq(Repos)]
          /\ todo \in [Calls -> Nat]
          /\ urls \in [Calls -> BOOLEAN]
          /\ temp \in [Calls -> Trees]
          /\ subtemp \in [Calls -> Seq(Trees)]
          /\ objects \in [Repos -> [Commits -> {"none", "torn", "whole"}]]
          /\ lock \in [Repos -> Calls \cup {None, Stale}]
          /\ nosub \in [Commits -> Trees]
          /\ full \in [Commits -> Trees]

\* Whatever is kept below full/<hash> is that commit with every one of its
\* submodules, and below nosub/<hash> that commit alone, for all races of
\* fetches, checkouts and moves, torn transfers and crashes: later calls
\* trust it after a stat (git_transmat.go:87, 184, 210).
CheckoutsAreWhole ==
  /\ TypeOK
  /\ \A h \in Commits : full[h] \in {None, Whole(h)} /\ nosub[h] \in {None, <<h>>}

\* A call that ended leaves no temporary directory behind, whether it
\* returned, lost a race or panicked half way (git_transmat.go:160, 217), as far as
\* removing one succeeds, and no repository locked.
NothingIsLeftBehind ==
  \A c \in Calls : pc[c] \in Ended =>
    temp[c] = None /\ subtemp[c] = <<>> /\ \A r \in Repos : lock[r] # c

\* The git transmat implements the abstract store as well, its own cache in
\* place of the caching transmat's: what it answers with is kept, whole and
\* the commit asked for.  A call with the empty hash is answered on trust, with the
\* directory of all checkouts.
Store == INSTANCE WareStore
  WITH Hashes <- Commits,
       have  <- {h \in Commits : full[h] = Whole(h)},
       state <- [c \in Calls |-> CASE pc[c] = "idle" -> "idle"
                                   [] pc[c] = "done" /\ want[c] # NoHash -> "served"
                                   [] pc[c] = "done" /\ want[c] = NoHash -> "trusted"
                                   [] pc[c] = "failed" -> "failed"
                                   [] OTHER -> "waiting"],
       asked <- want
ImplementsStore == Store!Spec
=============================================================================
