-------------------------- MODULE VendorPatchProofs --------------------------
(***************************************************************************)
(* What a flag file .mbb_patched that a run has written promises, for any  *)
(* number of trees and patches and any crashes, locks, failures of git and *)
(* acts of the user, when one build directory is configured from the       *)
(* sources.  (With two the promise  *)
(* is broken: the trees are shared, the flags are not.)  The proofs go by  *)
(* PatchInvariant, which says how far a run has come.                      *)
(***************************************************************************)
EXTENDS VendorPatch, TLAPS

-----------------------------------------------------------------------------
(* Which tree, and which of its patches, comes after how many. *)

LEMMA DivModType ==
  ASSUME NEW P \in Nat \ {0}, NEW n \in Nat
  PROVE  n \div P \in Nat /\ n % P \in 0 .. P - 1
OBVIOUS

LEMMA DivModSum ==
  ASSUME NEW P \in Nat \ {0}, NEW n \in Nat
  PROVE  n - (n % P) = P * (n \div P)
BY Z3

LEMMA DivModUnique ==
  ASSUME NEW P \in Nat \ {0}, NEW q \in Nat, NEW r \in 0 .. P - 1, NEW n \in Nat,
         n = P * q + r
  PROVE  n \div P = q /\ n % P = r
OBVIOUS

LEMMA SuccWithin ==
  ASSUME NEW P \in Nat \ {0}, NEW n \in Nat, n % P < P - 1
  PROVE  (n + 1) \div P = n \div P /\ (n + 1) % P = (n % P) + 1
<1>1. n \div P \in Nat /\ n % P \in 0 .. P - 1 /\ n - (n % P) = P * (n \div P)
  BY DivModType, DivModSum
<1>2. n + 1 = P * (n \div P) + ((n % P) + 1)
  BY <1>1
<1>3. (n % P) + 1 \in 0 .. P - 1 /\ n + 1 \in Nat
  BY <1>1
<1>5. ASSUME NEW m \in Nat, NEW q \in Nat, NEW r \in 0 .. P - 1, m = P * q + r
      PROVE  m \div P = q /\ m % P = r
  BY <1>5, DivModUnique
<1> QED
  BY <1>1, <1>2, <1>3, <1>5, Zenon

LEMMA SuccAcross ==
  ASSUME NEW P \in Nat \ {0}, NEW n \in Nat, n % P = P - 1
  PROVE  (n + 1) \div P = n \div P + 1 /\ (n + 1) % P = 0
<1>1. n \div P \in Nat /\ n % P \in 0 .. P - 1 /\ n - (n % P) = P * (n \div P)
  BY DivModType, DivModSum
<1>2. P * (n \div P + 1) = P * (n \div P) + P
  BY <1>1
<1>3. n + 1 = P * (n \div P + 1) + 0
  BY <1>1, <1>2
<1>4. n + 1 \in Nat /\ n \div P + 1 \in Nat /\ 0 \in 0 .. P - 1
  BY <1>1
<1>5. ASSUME NEW m \in Nat, NEW q \in Nat, NEW r \in 0 .. P - 1, m = P * q + r
      PROVE  m \div P = q /\ m % P = r
  BY <1>5, DivModUnique
<1> QED
  BY <1>3, <1>4, <1>5, Zenon

\* The patches of a tree are applied one after the other; after the last comes the
\* first of the next tree.
LEMMA WalkStep ==
  ASSUME NEW n \in Nat
  PROVE  /\ PatchOf(n) < NPatches =>
              DirOf(n + 1) = DirOf(n) /\ PatchOf(n + 1) = PatchOf(n) + 1
         /\ ~(PatchOf(n) < NPatches) =>
              DirOf(n + 1) = DirOf(n) + 1 /\ PatchOf(n + 1) = 1 /\ PatchOf(n) = NPatches
<1>1. NPatches \in Nat \ {0}
  BY SizeAssumption
<1>2. n \div NPatches \in Nat /\ n % NPatches \in 0 .. NPatches - 1
  BY <1>1, DivModType
<1>3. CASE n % NPatches < NPatches - 1
  <2>1. (n + 1) \div NPatches = n \div NPatches /\ (n + 1) % NPatches = (n % NPatches) + 1
    BY <1>1, <1>3, SuccWithin, Zenon
  <2> QED
    BY <1>1, <1>2, <1>3, <2>1 DEF DirOf, PatchOf
<1>4. CASE n % NPatches = NPatches - 1
  <2>1. (n + 1) \div NPatches = n \div NPatches + 1 /\ (n + 1) % NPatches = 0
    BY <1>1, <1>4, SuccAcross, Zenon
  <2> QED
    BY <1>1, <1>2, <1>4, <2>1 DEF DirOf, PatchOf
<1> QED
  BY <1>1, <1>2, <1>3, <1>4

\* The walk starts at the first tree, stays in the trees, and ends behind the last.
LEMMA WalkBounds ==
  /\ DirOf(0) = 1 /\ PatchOf(0) = 1
  /\ NDirs * NPatches \in Nat /\ DirOf(NDirs * NPatches) = NDirs + 1
  /\ \A n \in 0 .. NDirs * NPatches - 1 : DirOf(n) \in Dirs /\ PatchOf(n) \in 1 .. NPatches
<1>1. NPatches \in Nat \ {0} /\ NDirs \in Nat \ {0}
  BY SizeAssumption
<1>2. NDirs * NPatches \in Nat
  BY <1>1
<1>3. 0 \div NPatches = 0 /\ 0 % NPatches = 0
  BY <1>1
<1>4. (NDirs * NPatches) \div NPatches = NDirs
  BY <1>1
<1>5. ASSUME NEW n \in 0 .. NDirs * NPatches - 1
      PROVE  n \div NPatches \in 0 .. NDirs - 1 /\ n % NPatches \in 0 .. NPatches - 1
  <2>1. n \in Nat /\ n < NDirs * NPatches
    BY <1>2
  <2>2. n \div NPatches \in Nat /\ n % NPatches \in 0 .. NPatches - 1
    BY <1>1, <2>1, DivModType
  <2>3. n \div NPatches < NDirs
    BY <1>1, <2>1
  <2> QED
    BY <1>1, <2>2, <2>3
<1> QED
  BY <1>1, <1>2, <1>3, <1>4, <1>5 DEF DirOf, PatchOf, Dirs

-----------------------------------------------------------------------------
(* What happens to one tree. *)

LEMMA ForcedTree ==
  ASSUME NEW t \in Trees
  PROVE  /\ Forced(t) \in Trees /\ Forced(t).links
         /\ Forced(t).edited = t.edited \ {"tracked"}
<1>1. 0 \in 0 .. NPatches
  BY SizeAssumption
<1> QED
  BY <1>1 DEF Trees, Forced, Edits

LEMMA CleanedTree ==
  ASSUME NEW t \in Trees
  PROVE  /\ Cleaned(t) \in Trees /\ Cleaned(t).links = t.links
         /\ Cleaned(t).edited = t.edited \ {"new"}
BY DEF Trees, Cleaned, Edits

LEMMA UnlinkedTree ==
  ASSUME NEW t \in Trees
  PROVE  Unlinked(t) \in Trees /\ Unlinked(t).edited = t.edited
BY DEF Trees, Unlinked

LEMMA TornStep ==
  ASSUME tree \in [Dirs -> Trees], NEW d \in Dirs, TornTree(d)
  PROVE  /\ tree' \in [Dirs -> Trees]
BY DEF Trees, TornTree

LEMMA PatchedStep ==
  ASSUME tree \in [Dirs -> Trees], NEW d \in Dirs, NEW k \in 0 .. NPatches, Patched(d, k)
  PROVE  /\ tree' \in [Dirs -> Trees]
         /\ tree'[d].applied = k /\ tree'[d].torn = tree[d].torn
         /\ tree'[d].links = tree[d].links /\ tree'[d].edited = tree[d].edited
         /\ \A e \in Dirs \ {d} : tree'[e] = tree[e]
BY DEF Trees, Patched

LEMMA DoneInType ==
  ASSUME tree \in [Dirs -> Trees], NEW S \in SUBSET Dirs,
         DoneIn(S, Forced) \/ DoneIn(S, Cleaned) \/ DoneIn(S, Unlinked)
  PROVE  tree' \in [Dirs -> Trees]
<1>1. \A d \in Dirs : /\ tree[d] \in Trees /\ Forced(tree[d]) \in Trees
                      /\ Cleaned(tree[d]) \in Trees /\ Unlinked(tree[d]) \in Trees
  BY ForcedTree, CleanedTree, UnlinkedTree
<1> QED
  BY <1>1 DEF DoneIn

\* A git command of a run keeps the types; one that fails leaves its mark.
LEMMA GitMark ==
  ASSUME TypeOK, NEW b \in Builds,
         \/ UNCHANGED <<ignored, upsets>>
         \/ (UNCHANGED upsets \/ Upset) /\ ignored' = [ignored EXCEPT ![b] = TRUE]
  PROVE  /\ ignored' \in [Builds -> BOOLEAN] /\ upsets' \in 0 .. MaxUpsets
         /\ ignored'[b] \/ UNCHANGED ignored
<1>1. upsets' \in 0 .. MaxUpsets
  BY SizeAssumption DEF TypeOK, Upset
<1>2. ignored \in [Builds -> BOOLEAN]
  BY DEF TypeOK
<1> QED
  BY <1>1, <1>2

LEMMA UpdateCommand ==
  ASSUME TypeOK, NEW b \in Builds, Git(b, Forced, locked)
  PROVE  /\ ignored' \in [Builds -> BOOLEAN] /\ upsets' \in 0 .. MaxUpsets
         /\ tree' \in [Dirs -> Trees]
         /\ ignored'[b] \/ (tree' = [d \in Dirs |-> Forced(tree[d])] /\ UNCHANGED ignored)
         /\ UNCHANGED ignored \/ Upset \/ locked # {}
<1>1. tree \in [Dirs -> Trees] /\ ignored \in [Builds -> BOOLEAN]
  BY DEF TypeOK
<1>2. CASE DoneIn(Dirs, Forced) /\ UNCHANGED <<ignored, upsets>>
  BY <1>1, <1>2, DoneInType, GitMark DEF DoneIn
<1>3. ASSUME NEW S \in SUBSET Dirs, DoneIn(S, Forced),
             ignored' = [ignored EXCEPT ![b] = TRUE],
             (locked # {} /\ UNCHANGED upsets) \/ Upset
      PROVE  /\ ignored' \in [Builds -> BOOLEAN] /\ upsets' \in 0 .. MaxUpsets
             /\ tree' \in [Dirs -> Trees] /\ ignored'[b] /\ (Upset \/ locked # {})
  BY <1>1, <1>3, DoneInType, GitMark
<1> QED
  BY <1>2, <1>3 DEF Git

LEMMA CleanCommand ==
  ASSUME TypeOK, NEW b \in Builds, Git(b, Cleaned, {})
  PROVE  /\ ignored' \in [Builds -> BOOLEAN] /\ upsets' \in 0 .. MaxUpsets
         /\ tree' \in [Dirs -> Trees]
         /\ ignored'[b] \/ (tree' = [d \in Dirs |-> Cleaned(tree[d])] /\ UNCHANGED ignored)
         /\ UNCHANGED ignored \/ Upset
<1>1. tree \in [Dirs -> Trees] /\ ignored \in [Builds -> BOOLEAN]
  BY DEF TypeOK
<1>2. CASE DoneIn(Dirs, Cleaned) /\ UNCHANGED <<ignored, upsets>>
  BY <1>1, <1>2, DoneInType, GitMark DEF DoneIn
<1>3. ASSUME NEW S \in SUBSET Dirs, DoneIn(S, Cleaned),
             ignored' = [ignored EXCEPT ![b] = TRUE], Upset
      PROVE  /\ ignored' \in [Builds -> BOOLEAN] /\ upsets' \in 0 .. MaxUpsets
             /\ tree' \in [Dirs -> Trees] /\ ignored'[b]
  BY <1>1, <1>3, DoneInType, GitMark
<1> QED
  BY <1>2, <1>3 DEF Git

-----------------------------------------------------------------------------
(* The steps of the only build directory. *)

\* A step of the run moves conf as it says.
LEMMA GotoStep ==
  ASSUME TypeOK, NEW b, Builds = {b},
         NEW step \in {"idle", "update", "clean", "unlink", "relink", "patch"}, Goto(b, step)
  PROVE  /\ conf'[b] = step
         /\ conf' \in [Builds -> {"idle", "update", "clean", "unlink", "relink", "patch"}]
BY DEF TypeOK, Goto

\* What the invariant asks of a state in which the flag is not set.
LEMMA Unflagged ==
  ASSUME NEW b, Builds = {b}, TypeOK', flag'[b] = "none",
         conf'[b] \in {"unlink", "relink"} => at'[b] = 0,
         conf'[b] = "patch" => PatchedSoFar(b)', ignored'[b] \/ ResetSoFar(b)'
  PROVE  PatchInvariant'
BY DEF PatchInvariant

\* Before the patches: nothing is promised but what git has done so far.
LEMMA GitActions ==
  ASSUME PatchInvariant, NEW b, Builds = {b}, Update(b) \/ Clean(b) \/ Relink(b)
  PROVE  PatchInvariant'
<1>1. /\ b \in Builds /\ TypeOK /\ conf[b] # "idle" /\ flag[b] = "none"
      /\ UNCHANGED <<locked, undone, flag>>
  BY DEF PatchInvariant, Update, Clean, Relink
<1>2. tree \in [Dirs -> Trees] /\ \A d \in Dirs : tree[d] \in Trees
  BY <1>1 DEF TypeOK
<1>3. ignored[b] \in BOOLEAN /\ (ignored[b] \/ ResetSoFar(b))
  BY <1>1 DEF PatchInvariant, TypeOK
<1>4. CASE Update(b)
  <2>1. /\ ignored' \in [Builds -> BOOLEAN] /\ upsets' \in 0 .. MaxUpsets
        /\ ignored'[b] \/ (tree' = [d \in Dirs |-> Forced(tree[d])] /\ UNCHANGED ignored)
    BY <1>1, <1>4, UpdateCommand DEF Update
  <2>2. tree' \in [Dirs -> Trees]
    BY <1>1, <1>4, UpdateCommand DEF Update
  <2>3. conf'[b] = "clean" /\ conf' \in [Builds -> {"idle", "update", "clean", "unlink", "relink", "patch"}]
    BY <1>1, <1>4, GotoStep DEF Update
  <2>4. TypeOK'
    BY <1>1, <1>4, <2>1, <2>2, <2>3 DEF TypeOK, Update
  <2>5. ignored'[b] \/ ResetSoFar(b)'
    BY <1>2, <2>1, <2>3, ForcedTree DEF ResetSoFar
  <2> QED
    BY <1>1, <2>3, <2>4, <2>5, Unflagged
<1>5. CASE Clean(b)
  <2>1. /\ ignored' \in [Builds -> BOOLEAN] /\ upsets' \in 0 .. MaxUpsets
        /\ ignored'[b] \/ (tree' = [d \in Dirs |-> Cleaned(tree[d])] /\ UNCHANGED ignored)
    BY <1>1, <1>5, CleanCommand DEF Clean
  <2>2. tree' \in [Dirs -> Trees]
    BY <1>1, <1>5, CleanCommand DEF Clean
  <2>3. /\ conf'[b] \in {"unlink", "patch"}
        /\ conf' \in [Builds -> {"idle", "update", "clean", "unlink", "relink", "patch"}]
    BY <1>1, <1>5, GotoStep DEF Clean
  <2>4. at'[b] = 0 /\ at' \in [Builds -> 0 .. NDirs * NPatches]
    BY <1>1, <1>5, WalkBounds DEF Clean, TypeOK
  <2>5. TypeOK'
    BY <1>1, <2>1, <2>2, <2>3, <2>4 DEF TypeOK
  <2>6. ignored'[b] \/ ResetSoFar(b)'
    <3> SUFFICES ASSUME ~ignored'[b], NEW d \in Dirs
                 PROVE  tree'[d].edited = {} /\ tree'[d].links
      BY <2>3 DEF ResetSoFar
    <3>1. tree'[d] = Cleaned(tree[d]) /\ tree[d].links /\ "tracked" \notin tree[d].edited
      BY <1>3, <1>5, <2>1 DEF Clean, ResetSoFar
    <3>2. tree[d].edited \subseteq {"tracked", "new"}
      BY <1>2 DEF Trees, Edits
    <3> QED
      BY <1>2, <3>1, <3>2, CleanedTree
  <2>7. PatchedSoFar(b)'
    BY <2>4, WalkBounds DEF PatchedSoFar, Dirs
  <2> QED
    BY <1>1, <2>4, <2>5, <2>6, <2>7, Unflagged
<1>6. CASE Relink(b)
  <2>1. /\ ignored' \in [Builds -> BOOLEAN] /\ upsets' \in 0 .. MaxUpsets
        /\ ignored'[b] \/ (tree' = [d \in Dirs |-> Forced(tree[d])] /\ UNCHANGED ignored)
    BY <1>1, <1>6, UpdateCommand DEF Relink
  <2>2. tree' \in [Dirs -> Trees]
    BY <1>1, <1>6, UpdateCommand DEF Relink
  <2>3. conf'[b] = "patch" /\ conf' \in [Builds -> {"idle", "update", "clean", "unlink", "relink", "patch"}]
    BY <1>1, <1>6, GotoStep DEF Relink
  <2>4. TypeOK'
    BY <1>1, <1>6, <2>1, <2>2, <2>3 DEF TypeOK, Relink
  <2>5. ignored'[b] \/ ResetSoFar(b)'
    BY <1>2, <1>3, <1>6, <2>1, <2>3, ForcedTree DEF ResetSoFar, Relink
  <2>6. PatchedSoFar(b)'
    <3>1. at'[b] = 0
      BY <1>1, <1>6 DEF PatchInvariant, Relink
    <3> QED
      BY <3>1, WalkBounds DEF PatchedSoFar, Dirs
  <2> QED
    BY <1>1, <2>3, <2>4, <2>5, <2>6, Unflagged
<1> QED
  BY <1>4, <1>5, <1>6

\* A run begins: no promise yet.
LEMMA BeginStep ==
  ASSUME PatchInvariant, NEW b, Builds = {b}, Begin(b)
  PROVE  PatchInvariant'
<1>1. TypeOK /\ flag'[b] = "none" /\ UNCHANGED <<tree, locked, undone, flag, at, upsets>>
  BY DEF PatchInvariant, Begin
<1>2. /\ conf'[b] = "update"
      /\ conf' \in [Builds -> {"idle", "update", "clean", "unlink", "relink", "patch"}]
  BY <1>1, GotoStep DEF Begin
<1>3. ignored' \in [Builds -> BOOLEAN]
  BY <1>1 DEF Begin, TypeOK
<1>4. TypeOK'
  BY <1>1, <1>2, <1>3 DEF TypeOK
<1>5. ResetSoFar(b)'
  BY <1>2 DEF ResetSoFar
<1> QED
  BY <1>1, <1>2, <1>4, <1>5, Unflagged

\* Windows: the links go, what git has discarded stays discarded.
LEMMA UnlinkStep ==
  ASSUME PatchInvariant, NEW b, Builds = {b}, Unlink(b)
  PROVE  PatchInvariant'
<1>1. /\ TypeOK /\ conf[b] = "unlink" /\ flag'[b] = "none" /\ at'[b] = 0
      /\ UNCHANGED <<locked, undone, flag, ignored, at, upsets>>
      /\ tree' = [d \in Dirs |-> Unlinked(tree[d])]
  BY DEF PatchInvariant, Unlink, DoneIn
<1>2. /\ conf'[b] = "relink"
      /\ conf' \in [Builds -> {"idle", "update", "clean", "unlink", "relink", "patch"}]
  BY <1>1, GotoStep DEF Unlink
<1>3. \A d \in Dirs : Unlinked(tree[d]) \in Trees /\ Unlinked(tree[d]).edited = tree[d].edited
  BY <1>1, UnlinkedTree DEF TypeOK
<1>4. TypeOK'
  BY <1>1, <1>2, <1>3 DEF TypeOK
<1>5. ignored'[b] \/ ResetSoFar(b)'
  BY <1>1, <1>2, <1>3 DEF PatchInvariant, ResetSoFar
<1> QED
  BY <1>1, <1>2, <1>4, <1>5, Unflagged

\* A patch that goes in is the next one of its tree; one that does not ends the run.
LEMMA ApplyPatchStep ==
  ASSUME PatchInvariant, NEW b, Builds = {b}, ApplyPatch(b)
  PROVE  PatchInvariant'
<1> DEFINE n == at[b]
<1> DEFINE d == DirOf(n)
<1> DEFINE k == PatchOf(n)
<1>1. /\ TypeOK /\ conf[b] = "patch" /\ flag'[b] = "none"
      /\ UNCHANGED <<locked, undone, flag, ignored, upsets>>
      /\ PatchedSoFar(b) /\ (ignored[b] \/ ResetSoFar(b))
  BY DEF PatchInvariant, ApplyPatch
<1>2. n \in 0 .. NDirs * NPatches - 1 /\ NDirs * NPatches \in Nat
  <2>1. n \in 0 .. NDirs * NPatches /\ n < NDirs * NPatches
    BY <1>1 DEF TypeOK, ApplyPatch
  <2> QED
    BY <2>1, WalkBounds
<1>3. n \in Nat /\ d \in Dirs /\ k \in 1 .. NPatches /\ k \in 0 .. NPatches
  BY <1>2, WalkBounds, SizeAssumption
<1>4. tree \in [Dirs -> Trees] /\ conf \in [Builds -> {"idle", "update", "clean", "unlink", "relink", "patch"}]
  BY <1>1 DEF TypeOK
<1>5. CASE TornTree(d) /\ Goto(b, "idle") /\ UNCHANGED at
  <2>1. tree' \in [Dirs -> Trees]
    BY <1>3, <1>4, <1>5, TornStep
  <2>2. /\ conf'[b] = "idle"
        /\ conf' \in [Builds -> {"idle", "update", "clean", "unlink", "relink", "patch"}]
    BY <1>1, <1>5, GotoStep
  <2>3. TypeOK'
    BY <1>1, <1>5, <2>1, <2>2 DEF TypeOK
  <2>4. ResetSoFar(b)'
    BY <2>2 DEF ResetSoFar
  <2> QED
    BY <1>1, <2>2, <2>3, <2>4, Unflagged
<1>6. CASE /\ Fits(tree[d], k) /\ Patched(d, k) /\ UNCHANGED conf
           /\ at' = [at EXCEPT ![b] = @ + 1]
  <2>1. /\ tree' \in [Dirs -> Trees]
        /\ tree'[d].applied = k /\ ~tree'[d].torn
        /\ tree'[d].links = tree[d].links /\ tree'[d].edited = tree[d].edited
        /\ \A e \in Dirs \ {d} : tree'[e] = tree[e]
    BY <1>3, <1>4, <1>6, PatchedStep DEF Fits
  <2>2. at' \in [Builds -> 0 .. NDirs * NPatches] /\ at'[b] = n + 1
    BY <1>1, <1>2, <1>6 DEF TypeOK
  <2>3. TypeOK'
    BY <1>1, <1>6, <2>1, <2>2 DEF TypeOK
  <2>4. ignored'[b] \/ ResetSoFar(b)'
    BY <1>1, <1>6, <2>1 DEF ResetSoFar
  <2>5. PatchedSoFar(b)'
    <3>1. \A e \in Dirs : e < d => tree'[e].applied = NPatches /\ ~tree'[e].torn
      BY <1>1, <1>3, <2>1 DEF PatchedSoFar, Dirs
    <3>2. CASE k < NPatches
      <4>1. DirOf(at'[b]) = d /\ PatchOf(at'[b]) = k + 1
        BY <1>3, <2>2, <3>2, WalkStep
      <4> QED
        BY <1>3, <2>1, <3>1, <4>1, SizeAssumption DEF PatchedSoFar, Dirs
    <3>3. CASE ~(k < NPatches)
      <4>1. DirOf(at'[b]) = d + 1 /\ PatchOf(at'[b]) = 1 /\ k = NPatches
        BY <1>3, <2>2, <3>3, WalkStep
      <4> QED
        BY <1>3, <2>1, <3>1, <4>1, SizeAssumption DEF PatchedSoFar, Dirs
    <3> QED
      BY <3>2, <3>3
  <2> QED
    BY <1>1, <1>6, <2>3, <2>4, <2>5, Unflagged
<1> QED
  BY <1>5, <1>6 DEF ApplyPatch

\* The flag is written behind the last patch of the last tree.
LEMMA WriteFlagStep ==
  ASSUME PatchInvariant, NEW b, Builds = {b}, WriteFlag(b)
  PROVE  PatchInvariant' /\ (ignored[b] \/ \A d \in Dirs : tree'[d].edited = {})
<1>1. /\ TypeOK /\ conf[b] = "patch" /\ at[b] = NDirs * NPatches
      /\ UNCHANGED <<tree, locked, ignored, at, upsets>> /\ undone' = {}
      /\ PatchedSoFar(b) /\ (ignored[b] \/ ResetSoFar(b))
  BY DEF PatchInvariant, WriteFlag
<1>2. /\ conf'[b] = "idle"
      /\ conf' \in [Builds -> {"idle", "update", "clean", "unlink", "relink", "patch"}]
  BY <1>1, GotoStep DEF WriteFlag
<1>3. TypeOK'
  BY <1>1, <1>2 DEF TypeOK, WriteFlag, Flags
<1>4. \A d \in Dirs : HasPatches(d)'
  BY <1>1, WalkBounds, SizeAssumption DEF PatchedSoFar, HasPatches, Dirs
<1>5. ignored[b] \/ \A d \in Dirs : tree'[d].links /\ tree'[d].edited = {}
  BY <1>1 DEF ResetSoFar
<1>6. ResetSoFar(b)'
  BY <1>2 DEF ResetSoFar
<1> QED
  BY <1>1, <1>2, <1>3, <1>4, <1>5, <1>6 DEF PatchInvariant

\* A run that is killed leaves its trees in any state, and no flag.
LEMMA CrashStep ==
  ASSUME PatchInvariant, NEW b, Builds = {b}, Crash(b)
  PROVE  PatchInvariant'
<1>1. PICK S \in SUBSET Dirs : HalfDone(b, S)
  BY DEF Crash
<1>2. /\ TypeOK /\ flag'[b] = "none" /\ UNCHANGED <<undone, flag, ignored, at>>
      /\ tree \in [Dirs -> Trees] /\ locked' \subseteq Dirs
  BY <1>1 DEF PatchInvariant, Crash, HalfDone, TypeOK, LockMayStay
<1>3. /\ conf'[b] = "idle"
      /\ conf' \in [Builds -> {"idle", "update", "clean", "unlink", "relink", "patch"}]
  BY <1>2, GotoStep DEF Crash
<1>4. tree' \in [Dirs -> Trees]
  <2>1. CASE DoneIn(S \ locked, Forced)
    BY <1>2, <2>1, DoneInType
  <2>2. CASE DoneIn(S, Cleaned) \/ DoneIn(S, Unlinked)
    BY <1>2, <2>2, DoneInType
  <2>4. CASE at[b] < NDirs * NPatches /\ (TornTree(DirOf(at[b])) \/ UNCHANGED tree)
    <3>1. at[b] \in 0 .. NDirs * NPatches
      BY <1>2 DEF TypeOK
    <3>2. DirOf(at[b]) \in Dirs
      BY <2>4, <3>1, WalkBounds
    <3> QED
      BY <1>2, <2>4, <3>2, TornStep
  <2> QED
    BY <1>1, <2>1, <2>2, <2>4 DEF HalfDone
<1>5. upsets' \in 0 .. MaxUpsets
  BY <1>2, SizeAssumption DEF Crash, Upset, TypeOK
<1>6. TypeOK'
  BY <1>2, <1>3, <1>4, <1>5 DEF TypeOK
<1>7. ResetSoFar(b)'
  BY <1>3 DEF ResetSoFar
<1> QED
  BY <1>2, <1>3, <1>6, <1>7, Unflagged

\* The user edits a tree: the patches and the links in it stay.
LEMMA EditStep ==
  ASSUME PatchInvariant, NEW b, Builds = {b}, NEW d \in Dirs, NEW kind \in Edits, Edit(d, kind)
  PROVE  PatchInvariant'
<1>1. TypeOK /\ conf[b] = "idle" /\ UNCHANGED <<locked, undone, flag, conf, ignored, at>>
  BY DEF PatchInvariant, Edit, Quiet
<1>2. /\ tree' \in [Dirs -> Trees]
      /\ \A e \in Dirs : /\ tree'[e].applied = tree[e].applied /\ tree'[e].torn = tree[e].torn
                         /\ tree'[e].links = tree[e].links
  <2>1. tree \in [Dirs -> Trees]
    BY <1>1 DEF TypeOK
  <2>2. tree' = [tree EXCEPT ![d].edited = tree[d].edited \cup {kind}]
    BY DEF Edit
  <2> QED
    BY <2>1, <2>2 DEF Trees
<1>3. upsets' \in 0 .. MaxUpsets
  BY <1>1, SizeAssumption DEF Edit, Upset, TypeOK
<1>4. TypeOK'
  BY <1>1, <1>2, <1>3 DEF TypeOK
<1>5. ResetSoFar(b)'
  BY <1>1 DEF ResetSoFar
<1>6. flag'[b] = "run" =>
        \A e \in Dirs \ undone' : HasPatches(e)' /\ (ignored'[b] \/ tree'[e].links)
  BY <1>1, <1>2 DEF PatchInvariant, HasPatches
<1> QED
  BY <1>1, <1>4, <1>5, <1>6 DEF PatchInvariant

\* The user undoes patches or links in a tree, which is then no longer promised.
LEMMA UndoStep ==
  ASSUME PatchInvariant, NEW b, Builds = {b}, NEW d \in Dirs, Undo(d)
  PROVE  PatchInvariant'
<1>1. /\ TypeOK /\ conf[b] = "idle" /\ UNCHANGED <<locked, flag, conf, ignored, at>>
      /\ undone' = undone \cup {d}
  BY DEF PatchInvariant, Undo, Quiet
<1>2. tree' \in [Dirs -> Trees] /\ \A e \in Dirs \ {d} : tree'[e] = tree[e]
  BY <1>1 DEF Undo, TypeOK
<1>3. upsets' \in 0 .. MaxUpsets
  BY <1>1, SizeAssumption DEF Undo, Upset, TypeOK
<1>4. TypeOK'
  BY <1>1, <1>2, <1>3 DEF TypeOK
<1>5. ResetSoFar(b)'
  BY <1>1 DEF ResetSoFar
<1>6. flag'[b] = "run" =>
        \A e \in Dirs \ undone' : HasPatches(e)' /\ (ignored'[b] \/ tree'[e].links)
  BY <1>1, <1>2 DEF PatchInvariant, HasPatches
<1> QED
  BY <1>1, <1>4, <1>5, <1>6 DEF PatchInvariant

\* The user makes the flag by hand, which promises nothing, or removes a lock.
LEMMA FlagOrLockStep ==
  ASSUME PatchInvariant, NEW b, Builds = {b}, MakeFlag(b) \/ \E d \in Dirs : RemoveLock(d)
  PROVE  PatchInvariant'
<1>1. /\ TypeOK /\ conf[b] = "idle" /\ UNCHANGED <<tree, undone, conf, ignored, at>> /\ Upset
  BY DEF PatchInvariant, MakeFlag, RemoveLock, Quiet
<1>2. upsets' \in 0 .. MaxUpsets /\ locked' \subseteq Dirs
  BY <1>1, SizeAssumption DEF MakeFlag, RemoveLock, Upset, TypeOK
<1>3. flag' \in [Builds -> Flags] /\ (flag'[b] = "hand" \/ UNCHANGED flag)
  BY <1>1 DEF MakeFlag, RemoveLock, TypeOK, Flags
<1>4. TypeOK'
  BY <1>1, <1>2, <1>3 DEF TypeOK
<1>5. ResetSoFar(b)'
  BY <1>1 DEF ResetSoFar
<1>6. flag'[b] = "run" =>
        \A e \in Dirs \ undone' : HasPatches(e)' /\ (ignored'[b] \/ tree'[e].links)
  BY <1>1, <1>3 DEF PatchInvariant, HasPatches
<1> QED
  BY <1>1, <1>4, <1>5, <1>6 DEF PatchInvariant

\* The user removes the flag, with or without the changes to the trees.
LEMMA UserClears ==
  ASSUME PatchInvariant, NEW b, Builds = {b}, RemoveFlag(b) \/ MakeClean
  PROVE  PatchInvariant'
<1>1. TypeOK /\ b = Default /\ b \in Builds
  BY SizeAssumption DEF PatchInvariant
<1>2. /\ conf[b] = "idle" /\ UNCHANGED <<undone, conf, ignored, at>>
      /\ Upset /\ flag' = [flag EXCEPT ![b] = "none"]
  BY <1>1 DEF RemoveFlag, MakeClean, Quiet
<1>3. /\ flag'[b] = "none" /\ flag' \in [Builds -> Flags] /\ upsets' \in 0 .. MaxUpsets
      /\ locked' \subseteq Dirs
  <2>1. locked' \subseteq Dirs
    BY <1>1 DEF RemoveFlag, MakeClean, TypeOK, LockMayStay
  <2> QED
    BY <1>1, <1>2, <2>1, SizeAssumption DEF TypeOK, Upset, Flags
<1>4. \A e \in Dirs :
        /\ tree[e] \in Trees /\ Forced(tree[e]) \in Trees
        /\ Reset(tree[e]) \in Trees /\ Delinked(tree[e]) \in Trees
  BY <1>1, ForcedTree, CleanedTree, UnlinkedTree DEF TypeOK, Reset, Delinked
<1>5. tree' \in [Dirs -> Trees]
  <2>1. CASE MakeClean
    <3>1. \A S \in SUBSET Dirs : DoneIn(S, Forced) \/ DoneIn(S, Reset) => tree' \in [Dirs -> Trees]
      BY <1>4 DEF DoneIn
    <3> QED
      BY <1>4, <2>1, <3>1 DEF MakeClean
  <2> QED
    BY <1>1, <2>1 DEF RemoveFlag, TypeOK
<1>6. TypeOK'
  BY <1>1, <1>2, <1>3, <1>5 DEF TypeOK
<1>7. ResetSoFar(b)'
  BY <1>2 DEF ResetSoFar
<1> QED
  BY <1>2, <1>3, <1>6, <1>7, Unflagged

\* Every step of a single build directory keeps PatchInvariant.
LEMMA PatchInvariantStep ==
  ASSUME Builds = {Default}, PatchInvariant, [Next]_vars
  PROVE  PatchInvariant'
<1> DEFINE b == Default
<1>1. CASE Begin(b)
  BY <1>1, BeginStep
<1>2. CASE Update(b) \/ Clean(b) \/ Relink(b)
  BY <1>2, GitActions
<1>3. CASE Unlink(b)
  BY <1>3, UnlinkStep
<1>4. CASE ApplyPatch(b)
  BY <1>4, ApplyPatchStep
<1>5. CASE WriteFlag(b)
  BY <1>5, WriteFlagStep
<1>6. CASE Crash(b)
  BY <1>6, CrashStep
<1>7. CASE RemoveFlag(b) \/ MakeClean
  BY <1>7, UserClears
<1>8. CASE \E d \in Dirs : Undo(d) \/ \E kind \in Edits : Edit(d, kind)
  BY <1>8, EditStep, UndoStep
<1>9. CASE MakeFlag(b) \/ \E d \in Dirs : RemoveLock(d)
  BY <1>9, FlagOrLockStep
<1>10. CASE UNCHANGED vars
  BY <1>10 DEF vars, PatchInvariant, TypeOK, HasPatches, PatchedSoFar, ResetSoFar
<1> QED
  BY <1>1, <1>2, <1>3, <1>4, <1>5, <1>6, <1>7, <1>8, <1>9, <1>10 DEF Next

\* A run of a single build directory has, at each of its steps, reset and patched
\* the trees as far as it thinks.
THEOREM PatchInvariantHolds == Builds = {Default} => (Spec => []PatchInvariant)
<1> SUFFICES ASSUME Builds = {Default} PROVE Spec => []PatchInvariant
  OBVIOUS
<1>1. Init => PatchInvariant
  <2> SUFFICES ASSUME Init PROVE PatchInvariant
    OBVIOUS
  <2>1. Upstream \in Trees
    <3>1. 0 \in 0 .. NPatches
      BY SizeAssumption
    <3> QED
      BY <3>1 DEF Upstream, Trees
  <2>2. TypeOK
    <3>1. 0 \in 0 .. NDirs * NPatches /\ 0 \in 0 .. MaxUpsets
      BY WalkBounds, SizeAssumption
    <3> QED
      BY <2>1, <3>1 DEF Init, TypeOK, Flags
  <2> QED
    BY <2>2 DEF Init, PatchInvariant, ResetSoFar
<1> QED
  BY <1>1, PatchInvariantStep, PTL DEF Spec

\* Between runs a flag that a run of the only build directory has written says the
\* truth: every patch is in every tree the user has not undone any in since, after any
\* crash, lock, failed git command or failed patch (CMakeLists.patch.txt:2,65-76).
THEOREM FlaggedIsPatchedHolds == Builds = {Default} => (Spec => []FlaggedIsPatched)
<1> SUFFICES ASSUME Builds = {Default} PROVE Spec => []FlaggedIsPatched
  OBVIOUS
<1>1. PatchInvariant => FlaggedIsPatched
  BY DEF PatchInvariant, FlaggedIsPatched
<1>2. Spec => []PatchInvariant
  BY PatchInvariantHolds
<1> QED
  BY <1>1, <1>2, PTL

\* The links are all there under a flag a run has written, unless a failure of git was
\* ignored or the user took them away.
THEOREM FlaggedHasLinksHolds == Builds = {Default} => (Spec => []FlaggedHasLinks)
<1> SUFFICES ASSUME Builds = {Default} PROVE Spec => []FlaggedHasLinks
  OBVIOUS
<1>1. PatchInvariant => FlaggedHasLinks
  BY DEF PatchInvariant, FlaggedHasLinks
<1>2. Spec => []PatchInvariant
  BY PatchInvariantHolds
<1> QED
  BY <1>1, <1>2, PTL

\* A run that sets the flag has discarded the changes of the user, unless a failure
\* of git was ignored.
THEOREM DirtyDiscardedHolds == Builds = {Default} => (Spec => DirtyDiscarded)
<1> SUFFICES ASSUME Builds = {Default} PROVE Spec => DirtyDiscarded
  OBVIOUS
<1> DEFINE Discards == \A b \in Builds :
             flag[b] = "none" /\ flag'[b] = "run" =>
               ignored[b] \/ \A d \in Dirs : tree'[d].edited = {}
<1>1. PatchInvariant /\ [Next]_vars => [Discards]_vars
  <2> SUFFICES ASSUME PatchInvariant, [Next]_vars, flag[Default] = "none", flag'[Default] = "run"
               PROVE  ignored[Default] \/ \A d \in Dirs : tree'[d].edited = {}
    OBVIOUS
  <2>1. CASE WriteFlag(Default)
    BY <2>1, WriteFlagStep
  <2>2. CASE \/ flag' = flag \/ flag' = [flag EXCEPT ![Default] = "none"]
             \/ flag' = [flag EXCEPT ![Default] = "hand"]
    <3>1. flag \in [Builds -> Flags]
      BY DEF PatchInvariant, TypeOK
    <3> QED
      BY <2>2, <3>1
  <2> QED
    BY <2>1, <2>2 DEF Next, vars, Begin, Update, Clean, Unlink, Relink, ApplyPatch, Crash,
                      RemoveFlag, MakeFlag, RemoveLock, Edit, Undo, MakeClean
<1>2. Spec => []PatchInvariant
  BY PatchInvariantHolds
<1> QED
  BY <1>1, <1>2, PTL DEF Spec, DirtyDiscarded

-----------------------------------------------------------------------------
(* What lets a run out of every state a crash leaves behind. *)

LEMMA ForcedIsUntouched ==
  ASSUME NEW t \in Trees
  PROVE  /\ Forced(t).applied = 0 /\ ~Forced(t).torn
         /\ Cleaned(t).applied = t.applied /\ Cleaned(t).torn = t.torn
         /\ Unlinked(t).applied = t.applied /\ Unlinked(t).torn = t.torn
BY DEF Trees, Forced, Cleaned, Unlinked

\* git has reset the trees, and nothing touches them before their first patch.
LEMMA RestUntouchedStep ==
  ASSUME Builds = {Default}, PatchInvariant, PatchInvariant', RestUntouched, [Next]_vars
  PROVE  RestUntouched'
<1> DEFINE b == Default
<1> SUFFICES ASSUME NEW e \in Dirs, ~ignored'[b], Ahead(b, e)'
             PROVE  tree'[e].applied = 0 /\ ~tree'[e].torn
  BY DEF RestUntouched
<1>1. /\ TypeOK /\ tree[e] \in Trees /\ b \in Builds
      /\ ~ignored[b] /\ Ahead(b, e) => tree[e].applied = 0 /\ ~tree[e].torn
      /\ conf'[b] \in {"clean", "unlink", "relink", "patch"}
  BY DEF PatchInvariant, TypeOK, RestUntouched, Ahead
<1>2. CASE Begin(b) \/ WriteFlag(b) \/ Crash(b)
  <2>1. conf'[b] \in {"update", "idle"}
    BY <1>1, <1>2, GotoStep DEF Begin, WriteFlag, Crash
  <2> QED
    BY <1>1, <2>1
<1>3. CASE Update(b) \/ Relink(b)
  <2>1. tree'[e] = Forced(tree[e])
    BY <1>1, <1>3, UpdateCommand DEF Update, Relink
  <2> QED
    BY <1>1, <2>1, ForcedIsUntouched
<1>4. CASE Clean(b)
  <2>1. tree'[e] = Cleaned(tree[e]) /\ UNCHANGED ignored
    BY <1>1, <1>4, CleanCommand DEF Clean
  <2>2. ~ignored[b] /\ Ahead(b, e)
    BY <1>4, <2>1 DEF Clean, Ahead
  <2> QED
    BY <1>1, <2>1, <2>2, ForcedIsUntouched
<1>5. CASE Unlink(b)
  <2>1. tree'[e] = Unlinked(tree[e]) /\ ~ignored[b] /\ Ahead(b, e)
    BY <1>5 DEF Unlink, Ahead, DoneIn
  <2> QED
    BY <1>1, <2>1, ForcedIsUntouched
<1>6. CASE ApplyPatch(b)
  <2> DEFINE n == at[b]
  <2> DEFINE d == DirOf(n)
  <2> DEFINE k == PatchOf(n)
  <2>1. n \in 0 .. NDirs * NPatches - 1 /\ n \in Nat /\ d \in Dirs /\ k \in 1 .. NPatches /\ ~ignored[b]
    <3>1. n \in 0 .. NDirs * NPatches /\ n < NDirs * NPatches
      BY <1>1, <1>6 DEF TypeOK, ApplyPatch
    <3> QED
      BY <1>6, <3>1, WalkBounds DEF ApplyPatch
  <2>2. CASE Goto(b, "idle")
    BY <1>1, <2>2, GotoStep
  <2>3. CASE Patched(d, k) /\ UNCHANGED conf /\ at' = [at EXCEPT ![b] = @ + 1]
    <3>1. at'[b] = n + 1 /\ conf[b] = "patch" /\ conf'[b] = "patch"
      BY <1>1, <1>6, <2>3 DEF TypeOK, ApplyPatch
    <3>2. e # d => tree'[e] = tree[e]
      BY <1>1, <2>1, <2>3 DEF Patched, TypeOK
    <3>3. d \in Int /\ e \in Int /\ NPatches \in Nat
      BY <2>1, SizeAssumption DEF Dirs
    <3>4. e > d
      <4>1. CASE k < NPatches
        BY <2>1, <3>1, <3>3, <4>1, WalkStep DEF Ahead
      <4>2. CASE ~(k < NPatches)
        BY <2>1, <3>1, <3>3, <4>2, WalkStep DEF Ahead
      <4> QED
        BY <4>1, <4>2
    <3> QED
      BY <1>1, <2>1, <3>1, <3>2, <3>3, <3>4 DEF Ahead
  <2> QED
    BY <1>6, <2>2, <2>3 DEF ApplyPatch
<1>7. CASE \/ RemoveFlag(b) \/ MakeFlag(b) \/ MakeClean
           \/ \E d \in Dirs : Undo(d) \/ RemoveLock(d) \/ \E kind \in Edits : Edit(d, kind)
  <2>1. conf'[b] = "idle"
    BY <1>1, <1>7 DEF RemoveFlag, MakeFlag, MakeClean, Edit, Undo, RemoveLock, Quiet
  <2> QED
    BY <1>1, <2>1
<1>8. CASE UNCHANGED vars
  BY <1>1, <1>8 DEF vars, Ahead
<1> QED
  BY <1>2, <1>3, <1>4, <1>5, <1>6, <1>7, <1>8 DEF Next

\* A patch fails to go in only where a failure of git was ignored.
LEMMA FitsUnlessIgnored ==
  ASSUME NEW b, Builds = {b}, PatchInvariant, RestUntouched,
         conf[b] = "patch", at[b] < NDirs * NPatches, ~ignored[b]
  PROVE  /\ Fits(tree[DirOf(at[b])], PatchOf(at[b]))
         /\ tree[DirOf(at[b])].edited = {}
<1> DEFINE d == DirOf(at[b])
<1>1. b \in Builds /\ TypeOK /\ PatchedSoFar(b) /\ ResetSoFar(b)
  BY DEF PatchInvariant
<1>2. d \in Dirs /\ PatchOf(at[b]) \in 1 .. NPatches
  <2>1. at[b] \in 0 .. NDirs * NPatches
    BY <1>1 DEF TypeOK
  <2> QED
    BY <2>1, WalkBounds
<1>3. tree[d].edited = {}
  BY <1>1, <1>2 DEF ResetSoFar
<1>4. CASE PatchOf(at[b]) > 1
  BY <1>1, <1>2, <1>3, <1>4 DEF PatchedSoFar, Fits
<1>5. CASE ~(PatchOf(at[b]) > 1)
  <2>1. PatchOf(at[b]) = 1
    BY <1>2, <1>5, SizeAssumption
  <2> QED
    BY <1>1, <1>2, <1>3, <2>1 DEF RestUntouched, Ahead, Fits
<1> QED
  BY <1>3, <1>4, <1>5

LEMMA RunProgressStep ==
  ASSUME NEW b, Builds = {b}, b = Default, PatchInvariant, RestUntouched, Next
  PROVE  RunProgress(b)
<1>1. TypeOK /\ b \in Builds
  BY DEF PatchInvariant
<1>2. CASE Begin(b)
  <2>1. conf[b] = "idle" /\ flag[b] = "none" /\ conf'[b] = "update" /\ ~ignored'[b]
    BY <1>1, <1>2, GotoStep DEF Begin, TypeOK
  <2> QED
    BY <2>1 DEF RunProgress
<1>3. CASE Update(b) \/ Clean(b) \/ Relink(b)
  <2>1. <<conf[b], conf'[b]>> \in Stages
    BY <1>1, <1>3, GotoStep DEF Update, Clean, Relink, Stages
  <2>2. UNCHANGED ignored \/ Upset \/ locked # {}
    BY <1>1, <1>3, UpdateCommand, CleanCommand DEF Update, Clean, Relink
  <2> QED
    BY <2>1, <2>2 DEF RunProgress, Upset
<1>4. CASE Unlink(b)
  <2>1. <<conf[b], conf'[b]>> \in Stages /\ UNCHANGED ignored
    BY <1>1, <1>4, GotoStep DEF Unlink, Stages
  <2> QED
    BY <2>1 DEF RunProgress
<1>5. CASE ApplyPatch(b)
  <2>1. conf[b] = "patch" /\ at[b] < NDirs * NPatches /\ UNCHANGED ignored
    BY <1>5 DEF ApplyPatch
  <2>2. CASE UNCHANGED conf /\ at' = [at EXCEPT ![b] = @ + 1]
    <3>1. at'[b] = at[b] + 1
      BY <1>1, <2>2 DEF TypeOK
    <3> QED
      BY <2>1, <2>2, <3>1 DEF RunProgress
  <2>3. CASE Goto(b, "idle") /\ (~Fits(tree[DirOf(at[b])], PatchOf(at[b])) \/ tree[DirOf(at[b])].edited # {})
    <3>1. ignored[b]
      BY <2>1, <2>3, FitsUnlessIgnored
    <3>2. conf'[b] = "idle"
      BY <1>1, <2>3, GotoStep
    <3> QED
      BY <2>1, <3>1, <3>2 DEF RunProgress
  <2> QED
    BY <1>5, <2>2, <2>3 DEF ApplyPatch
<1>6. CASE WriteFlag(b)
  <2>1. conf[b] = "patch" /\ conf'[b] = "idle" /\ flag'[b] = "run"
    BY <1>1, <1>6, GotoStep DEF WriteFlag, TypeOK
  <2> QED
    BY <2>1 DEF RunProgress
<1>7. CASE Upset
  BY <1>7 DEF Upset, RunProgress
<1> QED
  BY <1>2, <1>3, <1>4, <1>5, <1>6, <1>7 
  DEF Next, Crash, RemoveFlag, MakeFlag, RemoveLock, MakeClean, Edit, Undo

\* The trees a run has still to patch are upstream's, whatever crashes, failed patches
\* and changes of the user came before it (CMakeLists.patch.txt:40-58).
THEOREM RestUntouchedHolds == Builds = {Default} => (Spec => []RestUntouched)
<1> SUFFICES ASSUME Builds = {Default} PROVE Spec => []RestUntouched
  OBVIOUS
<1>1. Init => RestUntouched
  BY DEF Init, RestUntouched, Ahead
<1>2. Spec => []PatchInvariant
  BY PatchInvariantHolds
<1> QED
  BY <1>1, <1>2, RestUntouchedStep, PTL DEF Spec

\* Configuring again always succeeds once nothing new goes wrong: every step of a run
\* brings it on, one whose git commands work cannot end in a failed patch, and with no
\* lock on any tree git fails only now and then
\* (CMakeLists.patch.txt:40-76).
THEOREM RunsProgressHolds == Builds = {Default} => (Spec => RunsProgress)
<1> SUFFICES ASSUME Builds = {Default} PROVE Spec => RunsProgress
  OBVIOUS
<1>1. PatchInvariant /\ RestUntouched /\ [Next]_vars => [\A b \in Builds : RunProgress(b)]_vars
  BY RunProgressStep
<1>2. Spec => []PatchInvariant
  BY PatchInvariantHolds
<1>3. Spec => []RestUntouched
  BY RestUntouchedHolds
<1> QED
  BY <1>1, <1>2, <1>3, PTL DEF Spec, RunsProgress
=============================================================================
