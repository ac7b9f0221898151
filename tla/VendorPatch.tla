---------------------------- MODULE VendorPatch ----------------------------
(***************************************************************************)
(* CMakeLists.patch.txt: at configure time the vendored trees are reset    *)
(* and the patches of patches/ applied to them, one patch(1) per file.     *)
(* The flag file .mbb_patched that says "done" lives in the BUILD          *)
(* directory, the trees in the source directory all builds share.  The     *)
(* results of the git commands are ignored; a failed patch(1) is fatal.    *)
(* cmake may be killed anywhere, git then leaving its lock on a tree, and  *)
(* users edit trees, undo patches, make and remove flags and locks, and    *)
(* run `make clean' (Makefile).                                            *)
(***************************************************************************)
EXTENDS Integers

CONSTANTS
    Builds,       \* build directories configured from this source directory
    Default,      \* the one `make clean' removes: build/
    NDirs,        \* vendored trees, patched in this order
    NPatches,     \* patch files of a tree
    PatchesExist, \* the source directory has a patches/
    WindowsHost,  \* the symbolic links are made anew
    GitMayFail,   \* git may fail now and then, not only on a lock
    MaxUpsets     \* bound on crashes, failures of git and acts of the user

ASSUME SizeAssumption ==
    /\ Default \in Builds
    /\ NDirs \in Nat \ {0} /\ NPatches \in Nat \ {0} /\ MaxUpsets \in Nat
    /\ PatchesExist \in BOOLEAN /\ WindowsHost \in BOOLEAN /\ GitMayFail \in BOOLEAN

VARIABLES
    tree,    \* tree[d]: the state of a vendored tree
    locked,  \* trees whose index.lock a killed git has left behind
    undone,  \* trees the user has undone patches in since a flag was written
    flag,    \* flag[b]: .mbb_patched of b, and who made it
    conf,    \* conf[b]: where the configure run of b is, "idle" when none
    ignored, \* ignored[b]: a git command of its last run failed, which nobody looks at
    at,      \* at[b]: the patch a run applies next, counted over all trees
    upsets   \* crashes, failures and acts of the user so far

vars == <<tree, locked, undone, flag, conf, ignored, at, upsets>>

Dirs == 1 .. NDirs

\* applied: patches in the tree; torn: a patch is in only in part; links: the
\* symbolic links are there; edited: changes of the user, to tracked files or as
\* new files.  (No patch of patches/ adds a file.)
Edits == {"tracked", "new"}

Trees == [applied : 0 .. NPatches, torn : BOOLEAN, links : BOOLEAN, edited : SUBSET Edits]

Upstream == [applied |-> 0, torn |-> FALSE, links |-> TRUE, edited |-> {}]

\* "none": there is no flag file; cmake does not tell the other two apart.
Flags == {"none", "run", "hand"}

Init ==
    /\ tree = [d \in Dirs |-> Upstream]
    /\ locked = {} /\ undone = {}
    /\ flag = [b \in Builds |-> "none"]
    /\ conf = [b \in Builds |-> "idle"]
    /\ ignored = [b \in Builds |-> FALSE]
    /\ at = [b \in Builds |-> 0]
    /\ upsets = 0

Upset == upsets < MaxUpsets /\ upsets' = upsets + 1

Goto(b, step) == conf' = [conf EXCEPT ![b] = step]

DoneIn(S, Op(_)) == tree' = [d \in Dirs |-> IF d \in S THEN Op(tree[d]) ELSE tree[d]]

\* A git command of the run of b over all trees but the shut ones: done, or failed
\* after some of the trees, and the run goes on.
Git(b, Op(_), shut) ==
    \/ shut = {} /\ DoneIn(Dirs, Op) /\ UNCHANGED <<ignored, upsets>>
    \/ /\ \/ shut # {} /\ UNCHANGED upsets
          \/ GitMayFail /\ Upset
       /\ \E S \in SUBSET (Dirs \ shut) : DoneIn(S, Op)
       /\ ignored' = [ignored EXCEPT ![b] = TRUE]

\* A git that is killed may leave the lock of the tree it is at.
LockMayStay == \E d \in Dirs : locked' \in {locked, locked \cup {d}}

-----------------------------------------------------------------------------
(* The steps of a configure run. *)

\* With a flag, or without patches/, there is nothing to do.
Begin(b) ==
    /\ conf[b] = "idle"
    /\ flag[b] = "none" /\ PatchesExist
    /\ Goto(b, "update")
    /\ ignored' = [ignored EXCEPT ![b] = FALSE]
    /\ UNCHANGED <<tree, locked, undone, flag, at, upsets>>

\* git submodule update --force: tracked files are upstream's again, but where the
\* lock of an earlier git is.  Without --force a tree that is at the recorded commit is
\* left alone.
NotForced(t) == t

Forced(t) == [t EXCEPT !.applied = 0, !.torn = FALSE, !.links = TRUE,
                       !.edited = @ \ {"tracked"}]

Update(b) ==
    /\ conf[b] = "update"
    /\ Git(b, Forced, locked)
    /\ Goto(b, "clean")
    /\ UNCHANGED <<locked, undone, flag, at>>

\* git clean -fd: new files go.  It takes no lock.
NotCleaned(t) == t

Cleaned(t) == [t EXCEPT !.edited = @ \ {"new"}]

Clean(b) ==
    /\ conf[b] = "clean"
    /\ Git(b, Cleaned, {})
    /\ Goto(b, IF WindowsHost THEN "unlink" ELSE "patch")
    /\ at' = [at EXCEPT ![b] = 0]
    /\ UNCHANGED <<locked, undone, flag>>

\* Windows: delete every symbolic link, then update once more.
Unlinked(t) == [t EXCEPT !.links = FALSE]

Unlink(b) ==
    /\ conf[b] = "unlink"
    /\ DoneIn(Dirs, Unlinked)
    /\ Goto(b, "relink")
    /\ UNCHANGED <<locked, undone, flag, ignored, at, upsets>>

RelinkForgotten(b) ==
    /\ conf[b] = "relink"
    /\ Goto(b, "patch")
    /\ UNCHANGED <<tree, locked, undone, flag, ignored, at, upsets>>

Relink(b) ==
    /\ conf[b] = "relink"
    /\ Git(b, Forced, locked)
    /\ Goto(b, "patch")
    /\ UNCHANGED <<locked, undone, flag, at>>

\* patch -p1 for patch number k of tree d.  It goes in where the patches before
\* it are in and nothing else is; over the user's changes it may go either way.
\* A patch that fails leaves the hunks that fitted, and ends the run.
DirOf(n) == (n \div NPatches) + 1
PatchOf(n) == (n % NPatches) + 1

Fits(t, k) == t.applied = k - 1 /\ ~t.torn
Patched(d, k) == tree' = [tree EXCEPT ![d].applied = k]
TornTree(d) == tree' = [tree EXCEPT ![d].torn = TRUE]

\* A run that goes on after a failed patch.
ApplyPatchIgnored(b) ==
    LET d == DirOf(at[b])
        k == PatchOf(at[b])
    IN  /\ conf[b] = "patch" /\ at[b] < NDirs * NPatches
        /\ \/ Fits(tree[d], k) /\ Patched(d, k)
           \/ ~Fits(tree[d], k) /\ TornTree(d)
        /\ at' = [at EXCEPT ![b] = @ + 1]
        /\ UNCHANGED <<locked, undone, flag, conf, ignored, upsets>>

ApplyPatch(b) ==
    LET d == DirOf(at[b])
        k == PatchOf(at[b])
    IN  /\ conf[b] = "patch" /\ at[b] < NDirs * NPatches
        /\ \/ Fits(tree[d], k) /\ Patched(d, k) /\ UNCHANGED conf
                /\ at' = [at EXCEPT ![b] = @ + 1]
           \/ ~Fits(tree[d], k) /\ TornTree(d) /\ Goto(b, "idle") /\ UNCHANGED at
           \/ tree[d].edited # {} /\ TornTree(d) /\ Goto(b, "idle") /\ UNCHANGED at
        /\ UNCHANGED <<locked, undone, flag, ignored, upsets>>

WriteFlag(b) ==
    /\ conf[b] = "patch" /\ at[b] = NDirs * NPatches
    /\ flag' = [flag EXCEPT ![b] = "run"]
    /\ undone' = {}
    /\ Goto(b, "idle")
    /\ UNCHANGED <<tree, locked, ignored, at, upsets>>

\* The run is killed.  A git command may have done some of the trees and left a lock, a
\* patch may be in half, and links may be gone.
HalfDone(b, S) ==
    \/ conf[b] \in {"update", "relink"} /\ DoneIn(S \ locked, Forced) /\ LockMayStay
    \/ conf[b] = "clean" /\ DoneIn(S, Cleaned) /\ UNCHANGED locked
    \/ conf[b] = "unlink" /\ DoneIn(S, Unlinked) /\ UNCHANGED locked
    \/ /\ conf[b] = "patch" /\ at[b] < NDirs * NPatches
       /\ TornTree(DirOf(at[b])) \/ UNCHANGED tree
       /\ UNCHANGED locked

Crash(b) ==
    /\ Upset
    /\ \E S \in SUBSET Dirs : HalfDone(b, S)
    /\ Goto(b, "idle")
    /\ UNCHANGED <<undone, flag, ignored, at>>

-----------------------------------------------------------------------------
(* The user, between two runs. *)

Quiet == \A b \in Builds : conf[b] = "idle"

\* A change to a tree; where patches are in it does not undo them.
Edit(d, kind) ==
    /\ Quiet /\ Upset
    /\ tree' = [tree EXCEPT ![d].edited = @ \cup {kind}]
    /\ UNCHANGED <<locked, undone, flag, conf, ignored, at>>

\* A change that takes patches or links of a tree away, or leaves them in part.
Undo(d) ==
    /\ Quiet /\ Upset
    /\ \E t \in Trees :
         /\ t.applied <= tree[d].applied /\ t.edited = tree[d].edited \cup {"tracked"}
         /\ tree' = [tree EXCEPT ![d] = t]
    /\ undone' = undone \cup {d}
    /\ UNCHANGED <<locked, flag, conf, ignored, at>>

RemoveFlag(b) ==
    /\ Quiet /\ flag[b] # "none" /\ Upset
    /\ flag' = [flag EXCEPT ![b] = "none"]
    /\ UNCHANGED <<tree, locked, undone, conf, ignored, at>>

\* "To avoid applying any patch at configure time, create the flag file manually"
\* (README.md:377).
MakeFlag(b) ==
    /\ Quiet /\ flag[b] = "none" /\ Upset
    /\ flag' = [flag EXCEPT ![b] = "hand"]
    /\ UNCHANGED <<tree, locked, undone, conf, ignored, at>>

RemoveLock(d) ==
    /\ Quiet /\ d \in locked /\ Upset
    /\ locked' = locked \ {d}
    /\ UNCHANGED <<tree, undone, flag, conf, ignored, at>>

\* make clean: the build directory goes, the trees are reset.  make stops at the first
\* command that fails, and may be killed.  (On Windows the links are deleted and made
\* anew from there; a failure of the last update leaves them missing.)
Reset(t) == Cleaned(Forced(t))
Delinked(t) == Unlinked(Reset(t))

MakeClean ==
    /\ Quiet /\ Upset
    /\ flag' = [flag EXCEPT ![Default] = "none"]
    /\ \/ locked = {} /\ DoneIn(Dirs, Reset) /\ UNCHANGED locked
       \/ /\ GitMayFail \/ locked # {}
          /\ \E S \in SUBSET (Dirs \ locked) : DoneIn(S, Forced)
          /\ LockMayStay
       \/ /\ GitMayFail /\ locked = {} /\ UNCHANGED locked
          /\ \E S \in SUBSET Dirs :
               tree' = [d \in Dirs |-> IF d \in S THEN Reset(tree[d]) ELSE Forced(tree[d])]
       \/ /\ GitMayFail /\ locked = {} /\ WindowsHost /\ LockMayStay
          /\ \E S \in SUBSET Dirs :
               tree' = [d \in Dirs |-> IF d \in S THEN Reset(tree[d]) ELSE Delinked(tree[d])]
    /\ UNCHANGED <<undone, conf, ignored, at>>

Next ==
    \/ \E b \in Builds :
         Begin(b) \/ Update(b) \/ Clean(b) \/ Unlink(b) \/ Relink(b) \/ ApplyPatch(b)
           \/ WriteFlag(b) \/ Crash(b) \/ RemoveFlag(b) \/ MakeFlag(b)
    \/ \E d \in Dirs : Undo(d) \/ RemoveLock(d) \/ \E kind \in Edits : Edit(d, kind)
    \/ MakeClean

Spec == Init /\ [][Next]_vars

\* The user configures again until it works, and a run goes on unless killed.
Fairness ==
    \A b \in Builds : WF_vars(Begin(b) \/ Update(b) \/ Clean(b) \/ Unlink(b)
                                \/ Relink(b) \/ ApplyPatch(b) \/ WriteFlag(b))

FairSpec == Spec /\ Fairness

-----------------------------------------------------------------------------
(* Properties. *)

TypeOK ==
    /\ tree \in [Dirs -> Trees]
    /\ locked \subseteq Dirs /\ undone \subseteq Dirs
    /\ flag \in [Builds -> Flags]
    /\ conf \in [Builds -> {"idle", "update", "clean", "unlink", "relink", "patch"}]
    /\ ignored \in [Builds -> BOOLEAN]
    /\ at \in [Builds -> 0 .. NDirs * NPatches]
    /\ upsets \in 0 .. MaxUpsets

HasPatches(d) == tree[d].applied = NPatches /\ ~tree[d].torn

\* Between runs, a build directory whose flag a run has written builds from trees with
\* every patch in, after any crash, failed git command, lock or failed patch.  Trees
\* in which the user has undone patches since are the exception.
FlaggedIsPatched ==
    Quiet => \A b \in Builds : flag[b] = "run" => \A d \in Dirs \ undone : HasPatches(d)

\* A build directory whose flag a run has written builds from trees whose symbolic
\* links are all there ("letting Git to re-create them for us"), unless a failure of
\* git was ignored or the user took them away.
FlaggedHasLinks ==
    Quiet => \A b \in Builds :
               flag[b] = "run" => ignored[b] \/ \A d \in Dirs \ undone : tree[d].links

\* A run that completes has discarded what the user had changed before it, unless
\* a failure of git was ignored: "Removing the flag file and re-configure will
\* discard any dirty changes".
DirtyDiscarded ==
    [][\A b \in Builds : flag[b] = "none" /\ flag'[b] = "run" =>
         ignored[b] \/ \A d \in Dirs : tree'[d].edited = {}]_vars

\* After the last crash or act of the user, configuring again succeeds: no state
\* a crash leaves behind is one a run cannot get out of, but for the lock of a killed
\* git, which fails every update of its tree until the user removes it.
Recovers ==
    PatchesExist /\ <>[](locked = {}) => \A b \in Builds : <>[](flag[b] # "none")

-----------------------------------------------------------------------------
(* The inductive invariant behind them, for a single build directory. *)

\* A run has patched the trees before the one it is at, and that one so far.
PatchedSoFar(b) ==
    \A d \in Dirs :
        /\ d < DirOf(at[b]) => tree[d].applied = NPatches /\ ~tree[d].torn
        /\ d = DirOf(at[b]) /\ PatchOf(at[b]) > 1 =>
             tree[d].applied = PatchOf(at[b]) - 1 /\ ~tree[d].torn

\* What git has done in a run all of whose git commands worked.
ResetSoFar(b) ==
    \A d \in Dirs :
        /\ conf[b] = "clean" => tree[d].links /\ "tracked" \notin tree[d].edited
        /\ conf[b] \in {"unlink", "relink", "patch"} => tree[d].edited = {}
        /\ conf[b] = "patch" => tree[d].links

PatchInvariant ==
    /\ TypeOK
    /\ \A b \in Builds :
         /\ flag[b] # "none" => conf[b] = "idle"
         /\ flag[b] = "run" =>
              \A d \in Dirs \ undone : HasPatches(d) /\ (ignored[b] \/ tree[d].links)
         /\ conf[b] \in {"unlink", "relink"} => at[b] = 0
         /\ conf[b] = "patch" => PatchedSoFar(b)
         /\ ignored[b] \/ ResetSoFar(b)

\* The trees a run has still to patch are as upstream has them, when all its git
\* commands worked.
Ahead(b, d) ==
    \/ conf[b] \in {"clean", "unlink", "relink"}
    \/ conf[b] = "patch" /\ d > DirOf(at[b])
    \/ conf[b] = "patch" /\ d = DirOf(at[b]) /\ PatchOf(at[b]) = 1

RestUntouched ==
    \A b \in Builds, d \in Dirs :
        ~ignored[b] /\ Ahead(b, d) => tree[d].applied = 0 /\ ~tree[d].torn

\* The variant behind Recovers: with no crash, failure or act of the user a step brings
\* the run on to its next stage or patch or to the flag, and it gives up only when a
\* failure of git was ignored, which the next run begins without and which only a lock
\* brings back.
Stages == {<<"update", "clean">>, <<"clean", "unlink">>, <<"clean", "patch">>,
           <<"unlink", "relink">>, <<"relink", "patch">>}

RunProgress(b) ==
    \/ upsets < MaxUpsets /\ upsets' = upsets + 1
    \/ conf[b] = "idle" /\ flag[b] = "none" /\ conf'[b] = "update" /\ ~ignored'[b]
    \/ (UNCHANGED ignored \/ locked # {}) /\ <<conf[b], conf'[b]>> \in Stages
    \/ UNCHANGED <<ignored, conf>> /\ conf[b] = "patch"
         /\ at'[b] = at[b] + 1 /\ at[b] < NDirs * NPatches
    \/ conf[b] = "patch" /\ conf'[b] = "idle" /\ (flag'[b] = "run" \/ ignored[b])

RunsProgress == [][\A b \in Builds : RunProgress(b)]_vars
=============================================================================
