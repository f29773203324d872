-------------------------- MODULE OrchestratorProofs --------------------------
(* Theorems of Orchestrator. *)
EXTENDS Orchestrator, TLAPS

-----------------------------------------------------------------------------
(* What git's patches do to trees. *)

(* A change applied to a file it fits yields a file. *)
LEMMA AppliedIsFile ==
    ASSUME NEW c \in Change, NEW now \in File, FitsFile(c, now)
    PROVE  AppliedFile(c, now) \in File
<1>1. CASE TextChange(c)
  <2>1. c.old \in Regular /\ c.new \in Regular /\ now \in Regular
    BY <1>1 DEF TextChange, FitsFile
  <2>2. [k \in Parts |-> IF k \in Hunks(c) THEN c.new[k] ELSE now[k]] \in Regular
    BY <2>1 DEF Regular
  <2> QED BY <1>1, <2>2 DEF AppliedFile, File
<1>2. CASE ~TextChange(c)
  BY <1>2 DEF AppliedFile, Change
<1> QED BY <1>1, <1>2

(* ... and a patch that fits a tree makes a tree of it. *)
LEMMA AppliedIsTree ==
    ASSUME NEW d, IsDiff(d), NEW tree \in Tree,
           \A p \in DOMAIN d : FitsFile(d[p], tree[p]), NoClash(Applied(d, tree))
    PROVE  Applied(d, tree) \in Tree
<1>1. ASSUME NEW p \in Paths
      PROVE  (IF p \in DOMAIN d THEN AppliedFile(d[p], tree[p]) ELSE tree[p]) \in File
  <2>1. tree[p] \in File
    BY DEF Tree
  <2>2. CASE p \in DOMAIN d
    <3>1. d[p] \in Change /\ FitsFile(d[p], tree[p])
      BY <2>2 DEF IsDiff
    <3> QED BY <2>1, <2>2, <3>1, AppliedIsFile
  <2> QED BY <2>1, <2>2
<1>2. Applied(d, tree) \in [Paths -> File]
  BY <1>1 DEF Applied
<1> QED BY <1>2 DEF Tree

(* The difference of two trees is a patch that fits the first and makes the *)
(* second of it.                                                            *)
LEMMA DiffOfIsDiff ==
    ASSUME NEW from \in Tree, NEW to \in Tree
    PROVE  IsDiff(DiffOf(from, to)) /\ DOMAIN DiffOf(from, to) = Changed(from, to)
<1>1. DOMAIN DiffOf(from, to) = Changed(from, to)
  BY DEF DiffOf
<1>2. Changed(from, to) \subseteq Paths
  BY DEF Changed
<1>3. ASSUME NEW p \in Changed(from, to)
      PROVE  [old |-> from[p], new |-> to[p]] \in Change
  BY <1>3 DEF Changed, Change, Tree
<1>4. DiffOf(from, to) \in [Changed(from, to) -> Change]
  BY <1>3 DEF DiffOf
<1> QED BY <1>1, <1>2, <1>4 DEF IsDiff

(* A change fits the file it was made from, and makes the new file of it. *)
LEMMA ChangeApplies ==
    ASSUME NEW old \in File, NEW new \in File
    PROVE  LET c == [old |-> old, new |-> new]
           IN FitsFile(c, old) /\ AppliedFile(c, old) = new
<1> DEFINE c == [old |-> old, new |-> new]
<1>1. CASE TextChange(c)
  <2>1. old \in Regular /\ new \in Regular
    BY <1>1 DEF TextChange
  <2>2. FitsFile(c, old)
    BY <1>1, <2>1 DEF FitsFile
  <2>3. [k \in Parts |-> IF k \in Hunks(c) THEN new[k] ELSE old[k]] = new
    BY <2>1 DEF Hunks, Regular
  <2> QED BY <1>1, <2>2, <2>3 DEF AppliedFile
<1>2. CASE ~TextChange(c)
  BY <1>2 DEF FitsFile, AppliedFile
<1> QED BY <1>1, <1>2

(* git diff and git apply are inverse, but for whitespace errors. *)
LEMMA DiffOfApplies ==
    ASSUME NEW from \in Tree, NEW to \in Tree
    PROVE  /\ Fits(DiffOf(from, to), from) <=> Neat(DiffOf(from, to))
           /\ Applied(DiffOf(from, to), from) = to
<1> DEFINE d == DiffOf(from, to)
<1>1. DOMAIN d = Changed(from, to)
  BY DiffOfIsDiff
<1>2. ASSUME NEW p \in DOMAIN d
      PROVE  FitsFile(d[p], from[p]) /\ AppliedFile(d[p], from[p]) = to[p]
  <2>1. p \in Paths /\ from[p] \in File /\ to[p] \in File
    BY <1>1 DEF Changed, Tree
  <2>2. d[p] = [old |-> from[p], new |-> to[p]]
    BY <1>1 DEF DiffOf
  <2> QED BY <2>1, <2>2, ChangeApplies
<1>3. ASSUME NEW p \in Paths, p \notin DOMAIN d
      PROVE  from[p] = to[p]
  BY <1>1, <1>3 DEF Changed
<1>4. Applied(d, from) = [p \in Paths |-> to[p]]
  BY <1>2, <1>3 DEF Applied
<1>5. to = [p \in Paths |-> to[p]] /\ NoClash(to)
  BY DEF Tree
<1>6. Applied(d, from) = to
  BY <1>4, <1>5
<1> HIDE DEF d
<1>7. Fits(d, from) <=> Neat(d)
  BY <1>2, <1>5, <1>6 DEF Fits
<1> QED BY <1>6, <1>7 DEF d

(* What is exported is an artifact. *)
LEMMA ExportedIsArtifact ==
    ASSUME NEW src \in [revision : Nat, tree : Tree], NEW work \in Tree
    PROVE  IsArtifact(Exported(src, work))
<1>1. src.tree \in Tree /\ src.revision \in Nat
  OBVIOUS
<1>2. IsDiff(DiffOf(src.tree, work))
  BY <1>1, DiffOfIsDiff
<1> QED BY <1>1, <1>2 DEF Exported, IsArtifact, IsDiff

(* A patch changes every file it names. *)
LEMMA ChangeChanges ==
    ASSUME NEW c \in Change, NEW now \in File, FitsFile(c, now)
    PROVE  AppliedFile(c, now) # now
<1>0. c.old # c.new
  BY DEF Change
<1>1. CASE TextChange(c)
  <2>1. c.old \in Regular /\ c.new \in Regular /\ now \in Regular
    BY <1>1 DEF TextChange, FitsFile
  <2>2. PICK k \in Parts : c.old[k] # c.new[k]
    BY <1>0, <2>1 DEF Regular
  <2>3. now[k] = c.old[k]
    BY <1>1, <2>2 DEF FitsFile, Hunks
  <2>4. AppliedFile(c, now)[k] = c.new[k]
    BY <1>1, <2>2 DEF AppliedFile, Hunks
  <2> QED BY <2>2, <2>3, <2>4
<1>2. CASE ~TextChange(c)
  BY <1>0, <1>2 DEF FitsFile, AppliedFile
<1> QED BY <1>1, <1>2

(* ... so the paths a patch names are those it changes. *)
LEMMA ChangedByPatch ==
    ASSUME NEW d, IsDiff(d), NEW tree \in Tree, Fits(d, tree)
    PROVE  Changed(tree, Applied(d, tree)) = DOMAIN d
<1>1. ASSUME NEW p \in DOMAIN d
      PROVE  p \in Changed(tree, Applied(d, tree))
  <2>1. p \in Paths /\ d[p] \in Change /\ tree[p] \in File /\ FitsFile(d[p], tree[p])
    BY DEF IsDiff, Tree, Fits
  <2>2. AppliedFile(d[p], tree[p]) # tree[p]
    BY <2>1, ChangeChanges
  <2> QED BY <2>1, <2>2 DEF Changed, Applied
<1>2. ASSUME NEW p \in Changed(tree, Applied(d, tree))
      PROVE  p \in DOMAIN d
  BY DEF Changed, Applied
<1> QED BY <1>1, <1>2

-----------------------------------------------------------------------------
(* Types. *)

(* The initial states have the types; *)
LEMMA TypeInit == Init => TypeOK
<1> SUFFICES ASSUME Init PROVE TypeOK
  OBVIOUS
<1>1. expected \in [Actors -> SUBSET Paths]
  BY InputsAssumption DEF Init
<1>2. head \in Tree /\ index \in Tree /\ worktree \in Tree /\ workspace \in Tree /\ tested \in Tree
  BY InputsAssumption DEF Init
<1>3. source \in [revision : Nat, tree : Tree]
  BY InputsAssumption DEF Init
<1>4. IsArtifact(NoArtifact)
  <2>1. IsDiff(NoArtifact.diff)
    BY DEF NoArtifact, IsDiff
  <2> QED BY <2>1 DEF NoArtifact, IsArtifact
<1>5. DOMAIN patches = Actors /\ \A a \in Actors : IsArtifact(patches[a])
  BY <1>4 DEF Init
<1>6. phase \in Phases /\ validated \subseteq Actors /\ merged \subseteq Actors
      /\ revision \in Nat /\ moves \in Nat /\ disturbed \in BOOLEAN
  BY DEF Init, Phases
<1>7. IsArtifact(combined)
  BY <1>4 DEF Init
<1> QED BY <1>1, <1>2, <1>3, <1>5, <1>6, <1>7 DEF TypeOK

(* the steps up to the test keep them, *)
LEMMA TypeCombine == TypeOK /\ CombineStep => TypeOK'
<1> SUFFICES ASSUME TypeOK, CombineStep PROVE TypeOK'
  OBVIOUS
<1>1. CASE CreateSourceArchive
  <2>1. source' \in [revision : Nat, tree : Tree]
    BY <1>1 DEF CreateSourceArchive, TypeOK
  <2>2. phase' \in Phases
    BY <1>1 DEF CreateSourceArchive, Phases
  <2> QED BY <1>1, <2>1, <2>2 DEF CreateSourceArchive, TypeOK, repository, owner
<1>2. ASSUME NEW a \in Actors, ValidateResult(a)
      PROVE  TypeOK'
  <2>1. PICK d \in Diffs, rev \in {0, source.revision}, intact \in BOOLEAN, paths \in Tasks :
          patches' = [patches EXCEPT ![a] =
                        [revision |-> rev, diff |-> d, intact |-> intact, paths |-> paths]]
    BY <1>2 DEF ValidateResult
  <2>2. rev \in Nat /\ IsDiff(d) /\ paths \in SUBSET Paths
    BY InputsAssumption DEF TypeOK
  <2>3. IsArtifact([revision |-> rev, diff |-> d, intact |-> intact, paths |-> paths])
    BY <2>2 DEF IsArtifact
  <2>4. DOMAIN patches' = Actors /\ \A b \in Actors : IsArtifact(patches'[b])
    BY <2>1, <2>3 DEF TypeOK
  <2> QED BY <1>2, <2>4 DEF ValidateResult, TypeOK, repository, owner
<1>3. ASSUME NEW a \in Actors, Merge(a)
      PROVE  TypeOK'
  <2>1. IsDiff(patches[a].diff)
    BY DEF TypeOK, IsArtifact
  <2>2. workspace' \in Tree
    BY <1>3, <2>1, AppliedIsTree DEF Merge, TypeOK, Fits
  <2> QED BY <1>3, <2>2 DEF Merge, TypeOK, repository, owner
<1>4. CASE StartCombination
  <2>1. workspace' \in Tree /\ phase' \in Phases
    BY <1>4 DEF StartCombination, TypeOK, Phases
  <2> QED BY <1>4, <2>1 DEF StartCombination, TypeOK, repository, owner
<1>5. CASE ExportCombined
  <2>1. IsArtifact(combined')
    BY <1>5, ExportedIsArtifact DEF ExportCombined, TypeOK
  <2>2. phase' \in Phases
    BY <1>5 DEF ExportCombined, Phases, Combined
  <2> QED BY <1>5, <2>1, <2>2 DEF ExportCombined, TypeOK, repository, owner
<1>6. CASE TestCombined
  <2>1. IsDiff(combined.diff) /\ source.tree \in Tree /\ Fits(combined.diff, source.tree)
    BY <1>6 DEF TestCombined, TypeOK, IsArtifact, Valid
  <2>2. tested' \in Tree
    BY <1>6, <2>1, AppliedIsTree DEF TestCombined, Fits
  <2>3. phase' \in Phases
    BY <1>6 DEF TestCombined, Phases, Combined, Tested
  <2> QED BY <1>6, <2>2, <2>3 DEF TestCombined, TypeOK, repository, owner
<1> QED BY <1>1, <1>2, <1>3, <1>4, <1>5, <1>6 DEF CombineStep

(* those that apply the patch and commit it do, *)
LEMMA TypeApply == TypeOK /\ (ApplyStep \/ Fail) => TypeOK'
<1> SUFFICES ASSUME TypeOK, ApplyStep \/ Fail PROVE TypeOK'
  OBVIOUS
<1> USE DEF Phases, Combined, Tested, Applying
<1>1. CASE CheckRevision \/ CheckStatus
  BY <1>1 DEF CheckRevision, CheckStatus, TypeOK, trusted, repository, owner
<1>2. CASE Replay
  BY <1>2 DEF Replay, TypeOK, trusted, repository, owner
<1>3. CASE RecheckRevision \/ RecheckStatus
  BY <1>3 DEF RecheckRevision, RecheckStatus, TypeOK, trusted, repository, owner
<1>4. CASE ApplyPatch \/ ApplyBreaksOff
  <2>1. IsDiff(combined.diff) /\ index \in Tree /\ worktree \in Tree
    BY DEF TypeOK, IsArtifact
  <2>2. /\ \A p \in DOMAIN combined.diff : FitsFile(combined.diff[p], index[p])
        /\ \A p \in DOMAIN combined.diff : FitsFile(combined.diff[p], worktree[p])
        /\ NoClash(Applied(combined.diff, index))
    BY <1>4 DEF ApplyPatch, ApplyBreaksOff, PassesChecks, Fits
  <2>3. CASE ApplyPatch
    <3>1. index' \in Tree /\ worktree' \in Tree
      BY <2>1, <2>2, <2>3, AppliedIsTree DEF ApplyPatch
    <3> QED BY <2>3, <3>1 DEF ApplyPatch, TypeOK, trusted, owner
  <2>4. CASE ApplyBreaksOff
    <3>1. PICK written \in SUBSET DOMAIN combined.diff :
            worktree' = [p \in Paths |->
                           IF p \in written THEN AppliedFile(combined.diff[p], worktree[p])
                           ELSE worktree[p]]
      BY <2>4 DEF ApplyBreaksOff
    <3>2. ASSUME NEW p \in Paths
          PROVE  (IF p \in written THEN AppliedFile(combined.diff[p], worktree[p])
                  ELSE worktree[p]) \in File
      <4>1. worktree[p] \in File
        BY <2>1 DEF Tree
      <4>2. CASE p \in written
        <5>1. combined.diff[p] \in Change /\ FitsFile(combined.diff[p], worktree[p])
          BY <2>1, <2>2, <4>2 DEF IsDiff
        <5> QED BY <4>1, <4>2, <5>1, AppliedIsFile
      <4> QED BY <4>1, <4>2
    <3>3. NoClash(worktree')
      BY <2>4 DEF ApplyBreaksOff
    <3>4. worktree' \in Tree
      BY <3>1, <3>2, <3>3 DEF Tree
    <3> QED BY <2>4, <3>4 DEF ApplyBreaksOff, TypeOK, trusted, owner
  <2> QED BY <1>4, <2>3, <2>4
<1>5. CASE Commit
  BY <1>5 DEF Commit, TypeOK, trusted, owner
<1>6. CASE Confirm
  BY <1>6 DEF Confirm, TypeOK, trusted, repository, owner
<1>7. CASE Fail
  BY <1>7 DEF Fail, TypeOK, trusted, repository, owner
<1> QED BY <1>1, <1>2, <1>3, <1>4, <1>5, <1>6, <1>7 DEF ApplyStep

(* the owner does, *)
LEMMA TypeOwner == TypeOK /\ OwnerStep => TypeOK'
<1> SUFFICES ASSUME TypeOK, OwnerStep PROVE TypeOK'
  OBVIOUS
<1>0. ASSUME Move PROVE UNCHANGED <<phase, trusted>> /\ moves' \in Nat
  BY <1>0 DEF Move, TypeOK
<1>1. CASE EditFile
  <2>1. PICK e \in Edits : worktree' = [worktree EXCEPT ![e.path] = e.file]
    BY <1>1 DEF EditFile
  <2>2. e.file \in File
    BY InputsAssumption
  <2>3. worktree' \in [Paths -> File]
    BY <2>1, <2>2 DEF TypeOK, Tree
  <2>4. NoClash(worktree')
    BY <1>1 DEF EditFile
  <2>5. worktree' \in Tree
    BY <2>3, <2>4 DEF Tree
  <2> QED BY <1>0, <1>1, <2>5 DEF EditFile, TypeOK, trusted
<1>2. CASE AddFile
  <2>1. PICK p \in Paths :
          index' = [q \in Paths |->
                      IF q = p THEN worktree[p]
                      ELSE IF worktree[p] # Absent /\ {<<p, q>>, <<q, p>>} \intersect Inside # {}
                      THEN Absent ELSE index[q]]
    BY <1>2 DEF AddFile
  <2>2. index \in [Paths -> File] /\ NoClash(index)
        /\ worktree \in [Paths -> File] /\ NoClash(worktree)
    BY DEF TypeOK, Tree
  <2>3. index' \in [Paths -> File]
    BY <2>1, <2>2 DEF File
  <2>4. ASSUME NEW q1 \in Present(index'), NEW q2 \in Present(index')
        PROVE  <<q1, q2>> \notin Inside
    <3>1. q1 \in Paths /\ index'[q1] # Absent /\ q2 \in Paths /\ index'[q2] # Absent
      BY DEF Present
    <3>2. CASE q1 # p /\ q2 # p
      <4>1. q1 \in Present(index) /\ q2 \in Present(index)
        BY <2>1, <3>1, <3>2 DEF Present
      <4> QED BY <2>2, <4>1 DEF NoClash
    <3>3. CASE q1 = p /\ q2 = p
      <4>1. p \in Present(worktree)
        BY <2>1, <3>1, <3>3 DEF Present
      <4> QED BY <2>2, <3>3, <4>1 DEF NoClash
    <3>4. CASE q1 = p /\ q2 # p
      BY <2>1, <3>1, <3>4
    <3>5. CASE q1 # p /\ q2 = p
      BY <2>1, <3>1, <3>5
    <3> QED BY <3>2, <3>3, <3>4, <3>5
  <2>5. index' \in Tree
    BY <2>3, <2>4 DEF Tree, NoClash
  <2> QED BY <1>0, <1>2, <2>5 DEF AddFile, TypeOK, trusted
<1>3. CASE CommitIndex
  BY <1>0, <1>3 DEF CommitIndex, TypeOK, trusted
<1>4. CASE DiscardEdits
  BY <1>0, <1>4 DEF DiscardEdits, TypeOK, trusted
<1> QED BY <1>1, <1>2, <1>3, <1>4 DEF OwnerStep

(* and so every step does. *)
LEMMA TypeStep == TypeOK /\ [Next]_vars => TypeOK'
<1>1. TypeOK /\ UNCHANGED vars => TypeOK'
  BY DEF TypeOK, vars, trusted, repository, owner
<1> QED BY <1>1, TypeCombine, TypeApply, TypeOwner DEF Next

-----------------------------------------------------------------------------
(* The invariant. *)

(* IInv without the types. *)
Inner == Archived /\ Validated /\ Merging /\ Testing /\ Staging

(* The phases' invariant holds at the start. *)
LEMMA InnerInit == Init => Inner
<1> SUFFICES ASSUME Init PROVE Inner
  OBVIOUS
<1>1. phase = "start" /\ validated = {} /\ merged = {}
      /\ source = [revision |-> 0, tree |-> head] /\ revision = 0
  BY DEF Init
<1> QED
  BY <1>1 DEF Inner, Archived, Validated, Merging, Testing, Staging, Combined, Tested, Applying

(* A validated patch changes, and lists, the files it names. *)
LEMMA ValidatedPatch ==
    ASSUME TypeOK, Validated, NEW a \in validated
    PROVE  /\ IsDiff(patches[a].diff) /\ Fits(patches[a].diff, source.tree)
           /\ patches[a].paths = DOMAIN patches[a].diff
<1>1. IsDiff(patches[a].diff) /\ source.tree \in Tree
  BY DEF TypeOK, IsArtifact
<1>2. Valid(source, patches[a], Options)
  BY DEF Validated
<1>3. Fits(patches[a].diff, source.tree)
      /\ patches[a].paths = Changed(source.tree, Applied(patches[a].diff, source.tree))
  BY <1>2 DEF Valid
<1> QED BY <1>1, <1>3, ChangedByPatch

(* A patch disjoint from those merged so far leaves them as they are. *)
LEMMA MergeKeepsApart ==
    ASSUME TypeOK, Inner, NEW a \in Actors, Merge(a)
    PROVE  HasPatches(workspace, merged)'
<1>0. phase = "combining" /\ a \notin merged /\ merged' = merged \union {a}
      /\ workspace' = Applied(patches[a].diff, workspace)
      /\ UNCHANGED <<patches, source>>
  BY DEF Merge
<1>1. validated = Actors /\ Disjoint /\ HasPatches(workspace, merged) /\ merged \subseteq Actors
  BY <1>0 DEF Inner, Validated, Merging, TypeOK
<1>2. \A b \in Actors : patches[b].paths = DOMAIN patches[b].diff
  BY <1>1, ValidatedPatch DEF Inner
<1>3. ASSUME NEW b \in merged
      PROVE  DOMAIN patches[a].diff \intersect DOMAIN patches[b].diff = {}
  BY <1>0, <1>1, <1>2 DEF Disjoint
<1> SUFFICES ASSUME NEW p \in Paths
             PROVE  /\ \A b \in merged \union {a} : p \in DOMAIN patches[b].diff =>
                         workspace'[p] = AppliedFile(patches[b].diff[p], source.tree[p])
                    /\ (\A b \in merged \union {a} : p \notin DOMAIN patches[b].diff)
                          => workspace'[p] = source.tree[p]
  BY <1>0 DEF HasPatches
<1>4. workspace'[p] = IF p \in DOMAIN patches[a].diff
                      THEN AppliedFile(patches[a].diff[p], workspace[p]) ELSE workspace[p]
  BY <1>0 DEF Applied
<1>5. CASE p \in DOMAIN patches[a].diff
  <2>1. \A b \in merged : p \notin DOMAIN patches[b].diff
    BY <1>3, <1>5
  <2>2. workspace[p] = source.tree[p]
    BY <1>1, <2>1 DEF HasPatches
  <2> QED BY <1>4, <1>5, <2>1, <2>2
<1>6. CASE p \notin DOMAIN patches[a].diff
  <2>1. workspace'[p] = workspace[p]
    BY <1>4, <1>6
  <2> QED BY <1>1, <1>6, <2>1 DEF HasPatches
<1> QED BY <1>5, <1>6

(* The steps up to the test keep the phases' invariant. *)
LEMMA InnerCombine == TypeOK /\ Inner /\ CombineStep => Inner'
<1> SUFFICES ASSUME TypeOK, Inner, CombineStep PROVE Inner'
  OBVIOUS
<1>1. CASE CreateSourceArchive
  <2>1. phase = "start" /\ phase' = "validating" /\ validated = {} /\ merged = {}
        /\ Archivable(head, Options) /\ source' = [revision |-> revision, tree |-> head]
        /\ UNCHANGED <<validated, merged, patches, expected, revision, head>>
    BY <1>1 DEF CreateSourceArchive, repository, Inner, Validated
  <2>2. Archived'
    BY <2>1 DEF Archived, TypeOK
  <2>3. Validated'
    BY <2>1 DEF Validated, Combined, Tested, Applying
  <2>4. Merging' /\ Testing' /\ Staging'
    BY <2>1 DEF Merging, Testing, Staging, Combined, Tested, Applying
  <2> QED BY <2>2, <2>3, <2>4 DEF Inner
<1>2. ASSUME NEW a \in Actors, ValidateResult(a)
      PROVE  Inner'
  <2>1. phase = "validating" /\ phase' = phase /\ a \notin validated /\ merged = {}
        /\ Archivable(source.tree, Options) /\ validated' = validated \union {a}
        /\ UNCHANGED <<source, merged, expected, revision, head>>
    BY <1>2 DEF ValidateResult, repository, Inner, Validated
  <2>2. PICK patch : /\ patch.paths = expected[a] /\ Valid(source, patch, Options)
                     /\ patches' = [patches EXCEPT ![a] = patch]
    BY <1>2 DEF ValidateResult
  <2>3. patches'[a] = patch /\ \A b \in validated : patches'[b] = patches[b]
    BY <2>1, <2>2 DEF TypeOK
  <2>4. ASSUME NEW b \in validated'
        PROVE  Valid(source, patches'[b], Options) /\ patches'[b].paths = expected[b]
    BY <2>1, <2>2, <2>3 DEF Inner, Validated
  <2>5. Validated'
    BY <2>1, <2>4 DEF Validated, Combined, Tested, Applying
  <2>6. Archived'
    BY <2>1 DEF Archived, Inner
  <2>7. Merging' /\ Testing' /\ Staging'
    BY <2>1 DEF Merging, Testing, Staging, Combined, Tested, Applying
  <2> QED BY <2>5, <2>6, <2>7 DEF Inner
<1>3. ASSUME NEW a \in Actors, Merge(a)
      PROVE  Inner'
  <2>1. phase = "combining" /\ UNCHANGED <<phase, validated, patches, source, expected, revision, head>>
    BY <1>3 DEF Merge, repository
  <2>2. HasPatches(workspace, merged)'
    BY <1>3, MergeKeepsApart
  <2>3. Archived' /\ Validated'
    BY <2>1 DEF Archived, Validated, Disjoint, Inner, Combined, Tested, Applying
  <2>4. Merging' /\ Testing' /\ Staging'
    BY <2>1, <2>2 DEF Merging, Testing, Staging, Combined, Tested, Applying
  <2> QED BY <2>3, <2>4 DEF Inner
<1>4. CASE StartCombination
  <2>1. phase = "validating" /\ phase' = "combining" /\ merged = {}
        /\ validated = Actors /\ Disjoint /\ workspace' = source.tree
        /\ UNCHANGED <<validated, merged, patches, source, expected, revision, head>>
    BY <1>4 DEF StartCombination, repository, Inner, Validated
  <2>2. HasPatches(workspace, merged)'
    BY <2>1 DEF HasPatches
  <2>3. Archived' /\ Validated'
    BY <2>1 DEF Archived, Validated, Disjoint, Inner, Combined, Tested, Applying
  <2>4. Merging' /\ Testing' /\ Staging'
    BY <2>1, <2>2 DEF Merging, Testing, Staging, Combined, Tested, Applying
  <2> QED BY <2>3, <2>4 DEF Inner
<1>5. CASE ExportCombined
  <2>1. phase = "combining" /\ phase' = "testing" /\ merged = Actors
        /\ Exportable(source, workspace, Options) /\ combined' = Exported(source, workspace)
        /\ UNCHANGED <<validated, merged, patches, source, expected, workspace, revision, head>>
    BY <1>5 DEF ExportCombined, repository
  <2>2. HasPatches(workspace, Actors)
    BY <2>1 DEF Inner, Merging
  <2>3. HasPatches(workspace, Actors)'
    BY <2>1, <2>2 DEF HasPatches
  <2>4. Archived' /\ Validated'
    BY <2>1 DEF Archived, Validated, Disjoint, Inner, Combined, Tested, Applying
  <2>5. Merging' /\ Testing' /\ Staging'
    BY <2>1, <2>3 DEF Merging, Testing, Staging, Combined, Tested, Applying
  <2> QED BY <2>4, <2>5 DEF Inner
<1>6. CASE TestCombined
  <2>1. phase = "testing" /\ phase' = "checking" /\ Valid(source, combined, Options)
        /\ tested' = Applied(combined.diff, source.tree)
        /\ UNCHANGED <<validated, merged, patches, source, expected, workspace, combined, revision, head>>
    BY <1>6 DEF TestCombined, repository
  <2>2. /\ HasPatches(workspace, Actors)
        /\ Exportable(source, workspace, Options) /\ combined = Exported(source, workspace)
    BY <2>1 DEF Inner, Merging, Combined
  <2>3. tested' = workspace
    <3>1. combined.diff = DiffOf(source.tree, workspace)
      BY <2>2 DEF Exported
    <3> QED BY <2>1, <3>1, DiffOfApplies DEF TypeOK
  <2>4. HasPatches(workspace, Actors)'
    BY <2>1, <2>2 DEF HasPatches
  <2>5. Archived' /\ Validated'
    BY <2>1 DEF Archived, Validated, Disjoint, Inner, Combined, Tested, Applying
  <2>6. Merging'
    BY <2>1, <2>2, <2>4 DEF Merging
  <2>7. Testing' /\ Staging'
    BY <2>1, <2>3 DEF Testing, Staging
  <2> QED BY <2>5, <2>6, <2>7 DEF Inner
<1> QED BY <1>1, <1>2, <1>3, <1>4, <1>5, <1>6 DEF CombineStep

(* What combines the patches is settled once they are applied. *)
LEMMA TrustedKept ==
    ASSUME Inner, UNCHANGED trusted,
           phase' = phase \/ phase' = "failed"
           \/ (phase \in Tested /\ phase' \in Tested)
    PROVE  Validated' /\ Merging' /\ Testing'
<1>1. UNCHANGED <<expected, source, patches, validated, workspace, merged, combined, tested>>
  BY DEF trusted
<1>2. Disjoint' = Disjoint
      /\ HasPatches(workspace, Actors)' = HasPatches(workspace, Actors)
      /\ HasPatches(workspace, merged)' = HasPatches(workspace, merged)
  BY <1>1 DEF Disjoint, HasPatches
<1>3. Validated'
  BY <1>1, <1>2 DEF Inner, Validated, Combined, Tested, Applying
<1>4. Merging'
  BY <1>1, <1>2 DEF Inner, Merging, Combined, Tested, Applying
<1>5. Testing'
  BY <1>1 DEF Inner, Testing, Tested, Applying
<1> QED BY <1>3, <1>4, <1>5

(* The tested tree is the combined patch applied to the source. *)
LEMMA TestedTree ==
    ASSUME TypeOK, Inner, phase \in Tested
    PROVE  /\ combined.diff = DiffOf(source.tree, workspace)
           /\ Applied(combined.diff, source.tree) = tested
<1>1. combined.diff = DiffOf(source.tree, workspace) /\ tested = workspace
  BY DEF Inner, Merging, Testing, Combined, Exported
<1> QED BY <1>1, DiffOfApplies DEF TypeOK

(* Checks, application and commit keep the phases' invariant. *)
LEMMA InnerApply == TypeOK /\ Inner /\ (ApplyStep \/ Fail) => Inner'
<1> SUFFICES ASSUME TypeOK, Inner, ApplyStep \/ Fail PROVE Inner'
  OBVIOUS
<1>1. CASE CheckRevision \/ CheckStatus \/ Replay \/ Confirm \/ Fail
  <2>1. UNCHANGED <<trusted, repository, owner>>
        /\ (phase' = "failed" \/ (phase \in Tested /\ phase' \in Tested))
        /\ phase' \notin {"recheckingStatus", "applying", "staged"}
    BY <1>1 DEF CheckRevision, CheckStatus, Replay, Confirm, Fail, Tested, Applying
  <2>2. Archived'
    BY <2>1 DEF Inner, Archived, trusted, repository
  <2>3. Staging'
    BY <2>1 DEF Staging
  <2> QED BY <2>1, <2>2, <2>3, TrustedKept DEF Inner
<1>2. CASE RecheckRevision \/ RecheckStatus
  <2>1. UNCHANGED <<trusted, repository>> /\ phase \in Tested
        /\ phase' \in {"recheckingStatus", "applying"}
    BY <1>2 DEF RecheckRevision, RecheckStatus, Tested
  <2>2. phase' \in Tested
    BY <2>1 DEF Tested, Applying
  <2>3. Archived'
    BY <2>1 DEF Inner, Archived, trusted, repository
  <2>4. Staging'
    BY <1>2 DEF RecheckRevision, RecheckStatus, Inner, Staging, HeadAtSource, Clean, trusted,
                repository, owner
  <2> QED BY <2>1, <2>2, <2>3, <2>4, TrustedKept DEF Inner
<1>3. CASE ApplyPatch
  <2>1. UNCHANGED <<trusted, revision, head, owner>> /\ phase = "applying" /\ phase' = "staged"
        /\ index' = Applied(combined.diff, index) /\ worktree' = Applied(combined.diff, worktree)
    BY <1>3 DEF ApplyPatch
  <2>2. phase \in Tested /\ phase' \in Tested
    BY <2>1 DEF Tested, Applying
  <2>3. Archived'
    BY <2>1 DEF Inner, Archived, trusted
  <2>4. ASSUME ~disturbed'
        PROVE  revision' = source'.revision /\ index' = tested' /\ worktree' = tested'
    <3>1. HeadAtSource /\ Clean
      BY <2>1, <2>4 DEF Inner, Staging, owner
    <3>2. index = source.tree /\ worktree = source.tree /\ revision = source.revision
      BY <3>1 DEF HeadAtSource, Clean, Inner, Archived
    <3> QED BY <2>1, <2>2, <3>2, TestedTree DEF trusted
  <2>5. Staging'
    BY <2>1, <2>4 DEF Staging
  <2> QED BY <2>1, <2>2, <2>3, <2>5, TrustedKept DEF Inner
<1>4. CASE Commit
  <2>1. UNCHANGED <<trusted>> /\ phase \in Tested /\ phase' = "committed" /\ revision' = revision + 1
    BY <1>4 DEF Commit, Tested, Applying
  <2>2. phase' \in Tested
    BY <2>1 DEF Tested
  <2>3. source.revision \in Nat /\ revision \in Nat /\ source' = source
    BY <2>1 DEF TypeOK, trusted
  <2>4. Archived' /\ Staging'
    BY <2>1, <2>3 DEF Inner, Archived, Staging
  <2> QED BY <2>1, <2>2, <2>4, TrustedKept DEF Inner
<1>5. CASE ApplyBreaksOff
  <2>1. UNCHANGED <<trusted, revision, head>> /\ phase' = "failed"
    BY <1>5 DEF ApplyBreaksOff
  <2>2. Archived' /\ Staging'
    BY <2>1 DEF Inner, Archived, Staging, trusted
  <2> QED BY <2>1, <2>2, TrustedKept DEF Inner
<1> QED BY <1>1, <1>2, <1>3, <1>4, <1>5 DEF ApplyStep

(* The owner of the repository cannot break it. *)
LEMMA InnerOwner == TypeOK /\ Inner /\ OwnerStep => Inner'
<1> SUFFICES ASSUME TypeOK, Inner, OwnerStep PROVE Inner'
  OBVIOUS
<1>1. phase' = phase /\ UNCHANGED trusted
  BY DEF OwnerStep, EditFile, AddFile, CommitIndex, DiscardEdits, Move
<1>2. Staging'
  <2>1. ASSUME ~disturbed' PROVE phase = "recheckingStatus" /\ ~disturbed /\ UNCHANGED revision
    BY <2>1 DEF OwnerStep, EditFile, AddFile, CommitIndex, DiscardEdits, TypeOK
  <2> QED BY <1>1, <2>1 DEF Inner, Staging, HeadAtSource, trusted
<1>3. source.revision \in Nat /\ revision \in Nat /\ source' = source
  BY <1>1 DEF TypeOK, trusted
<1>4. (revision' = revision /\ head' = head) \/ revision' = revision + 1
  BY DEF OwnerStep, EditFile, AddFile, CommitIndex, DiscardEdits
<1>5. Archived'
  BY <1>3, <1>4 DEF Inner, Archived
<1> QED BY <1>1, <1>2, <1>5, TrustedKept DEF Inner

(* Nor does a step that changes nothing. *)
LEMMA InnerStutter == Inner /\ UNCHANGED vars => Inner'
<1> SUFFICES ASSUME Inner, UNCHANGED vars PROVE Inner'
  OBVIOUS
<1>1. UNCHANGED <<phase, trusted, repository, owner>>
  BY DEF vars
<1>2. Archived' /\ Staging'
  BY <1>1 DEF Inner, Archived, Staging, HeadAtSource, Clean, trusted, repository, owner
<1> QED BY <1>1, <1>2, TrustedKept DEF Inner

(* The inductive invariant: every phase of an orchestration rests on what   *)
(* the phases before it have established, whatever the owner does meanwhile. *)
THEOREM Invariance == Spec => []IInv
<1>1. Init => IInv
  BY TypeInit, InnerInit DEF IInv, Inner
<1>2. IInv /\ [Next]_vars => IInv'
  <2> SUFFICES ASSUME IInv, [Next]_vars PROVE IInv'
    OBVIOUS
  <2>1. TypeOK /\ Inner
    BY DEF IInv, Inner
  <2>2. TypeOK'
    BY <2>1, TypeStep
  <2>3. Inner'
    BY <2>1, InnerCombine, InnerApply, InnerOwner, InnerStutter DEF Next
  <2> QED BY <2>2, <2>3 DEF IInv, Inner
<1> QED BY <1>1, <1>2, PTL DEF Spec

(* The tested tree is made of every actor's patch as it was validated       *)
(* alone, and of nothing else.                                              *)
THEOREM ActorsKeptApart == Spec => []EachPatchAsValidated
<1>1. IInv => EachPatchAsValidated
  BY DEF IInv, Merging, Testing, EachPatchAsValidated, Combined
<1> QED BY <1>1, Invariance, PTL

-----------------------------------------------------------------------------
(* The steps that change the repository. *)

LEMMA OnlyApplyStages ==
    ASSUME [Next]_vars, phase = "applying", phase' = "staged"
    PROVE  ApplyPatch
BY DEF Next, vars, CombineStep, CreateSourceArchive, ValidateResult, Merge, StartCombination,
       ExportCombined, TestCombined, ApplyStep, CheckRevision, CheckStatus, Replay,
       RecheckRevision, RecheckStatus, ApplyBreaksOff, Commit, Confirm, Fail, OwnerStep,
       EditFile, AddFile, CommitIndex, DiscardEdits, Move

LEMMA OnlyApplyFails ==
    ASSUME [Next]_vars, phase = "applying", phase' = "failed"
    PROVE  ApplyBreaksOff \/ UNCHANGED worktree
BY DEF Next, vars, CombineStep, CreateSourceArchive, ValidateResult, Merge, StartCombination,
       ExportCombined, TestCombined, ApplyStep, CheckRevision, CheckStatus, Replay,
       RecheckRevision, RecheckStatus, ApplyPatch, Commit, Confirm, Fail, OwnerStep,
       EditFile, AddFile, CommitIndex, DiscardEdits, Move, repository

LEMMA OnlyCommitCommits ==
    ASSUME [Next]_vars, phase = "staged", phase' = "committed"
    PROVE  Commit
BY DEF Next, vars, CombineStep, CreateSourceArchive, ValidateResult, Merge, StartCombination,
       ExportCombined, TestCombined, ApplyStep, CheckRevision, CheckStatus, Replay,
       RecheckRevision, RecheckStatus, ApplyPatch, ApplyBreaksOff, Confirm, Fail, OwnerStep,
       EditFile, AddFile, CommitIndex, DiscardEdits, Move

(* If the owner commits nothing from the second rev-parse on and does       *)
(* nothing from the second status on, the commit is the tested tree on top  *)
(* of the source revision.                                                  *)
THEOREM CommitIsTested == Spec => CommitsWhatWasTested
<1>1. IInv /\ [Next]_vars =>
        (phase = "staged" /\ phase' = "committed" /\ ~disturbed =>
           /\ revision = source.revision /\ head = source.tree
           /\ head' = tested /\ Clean')
  <2> SUFFICES ASSUME IInv, [Next]_vars, phase = "staged", phase' = "committed", ~disturbed
               PROVE  /\ revision = source.revision /\ head = source.tree
                      /\ head' = tested /\ Clean'
    OBVIOUS
  <2>1. Commit
    BY OnlyCommitCommits
  <2>2. revision = source.revision /\ index = tested /\ worktree = tested /\ head = source.tree
    BY DEF IInv, Staging, Archived
  <2> QED BY <2>1, <2>2 DEF Commit, Clean
<1> QED BY <1>1, Invariance, PTL DEF Spec, CommitsWhatWasTested

(* The files the combined patch changes, when git apply has looked at them. *)
LEMMA CombinedPatch ==
    ASSUME IInv, phase = "applying", PassesChecks, NEW p \in DOMAIN combined.diff
    PROVE  /\ p \in Paths
           /\ combined.diff[p] \in Change
           /\ combined.diff[p].old = source.tree[p] /\ combined.diff[p].new = tested[p]
           /\ FitsFile(combined.diff[p], index[p]) /\ worktree[p] = index[p]
<1>1. phase \in Tested
  BY DEF Tested, Applying
<1>2. TypeOK /\ Inner
  BY DEF IInv, Inner
<1>3. combined.diff = DiffOf(source.tree, workspace) /\ tested = workspace
  BY <1>1, <1>2, TestedTree DEF Inner, Testing
<1>4. p \in Paths /\ combined.diff[p] \in Change
  BY <1>2 DEF TypeOK, IsArtifact, IsDiff
<1>5. combined.diff[p].old = source.tree[p] /\ combined.diff[p].new = tested[p]
  BY <1>3 DEF DiffOf
<1> QED BY <1>4, <1>5 DEF PassesChecks, Fits

LEMMA OtherFilesKept ==
    ASSUME ApplyPatch, NEW p \in Paths, p \notin DOMAIN combined.diff
    PROVE  index'[p] = index[p] /\ worktree'[p] = worktree[p]
BY DEF ApplyPatch, Applied

(* No part of a file that the owner has made different from the source is   *)
(* overwritten when the patch is applied, or applied in part.               *)
THEOREM OwnerEditsSurvive == Spec => EditsSurvive
<1>1. IInv /\ [Next]_vars => ApplyingSparesEdits
  <2> SUFFICES ASSUME IInv, [Next]_vars, phase = "applying", phase' \in {"staged", "failed"},
                      NEW p \in Paths
               PROVE  Survives(source.tree[p], worktree[p], worktree'[p])
    BY DEF ApplyingSparesEdits
  <2>0. ApplyPatch \/ ApplyBreaksOff \/ UNCHANGED worktree
    BY OnlyApplyStages, OnlyApplyFails
  <2>1. \/ worktree'[p] = worktree[p]
        \/ /\ PassesChecks /\ p \in DOMAIN combined.diff
           /\ worktree'[p] = AppliedFile(combined.diff[p], worktree[p])
    BY <2>0 DEF ApplyPatch, ApplyBreaksOff, Applied
  <2>2. CASE worktree'[p] = worktree[p]
    BY <2>2 DEF Survives
  <2>3. CASE PassesChecks /\ p \in DOMAIN combined.diff
             /\ worktree'[p] = AppliedFile(combined.diff[p], worktree[p])
    <3> DEFINE c == combined.diff[p]
    <3>1. /\ c.old = source.tree[p]
          /\ FitsFile(c, worktree[p]) /\ worktree'[p] = AppliedFile(c, worktree[p])
      BY <2>3, CombinedPatch
    <3> HIDE DEF c
    <3>2. CASE TextChange(c)
      <4>1. {source.tree[p], worktree[p]} \subseteq Regular
        BY <3>1, <3>2 DEF TextChange, FitsFile
      <4>2. worktree'[p] = [k \in Parts |-> IF k \in Hunks(c) THEN c.new[k] ELSE worktree[p][k]]
        BY <3>1, <3>2 DEF AppliedFile
      <4>3. worktree'[p] \in Regular
        BY <3>2, <4>1, <4>2 DEF Regular, TextChange
      <4>4. \A k \in Parts : worktree[p][k] # source.tree[p][k] => worktree'[p][k] = worktree[p][k]
        BY <3>1, <3>2, <4>2 DEF FitsFile
      <4> QED BY <4>1, <4>3, <4>4 DEF Survives
    <3>3. CASE ~TextChange(c)
      <4>1. worktree[p] = source.tree[p]
        BY <3>1, <3>3 DEF FitsFile
      <4> QED BY <4>1 DEF Survives
    <3> QED BY <3>2, <3>3
  <2> QED BY <2>1, <2>2, <2>3
<1> QED BY <1>1, Invariance, PTL DEF Spec, EditsSurvive

(* What the orchestration stages keeps to the policy, whatever state the    *)
(* repository is in by then.                                                *)
THEOREM PolicyKept == Spec => StagedKeepsPolicy
<1>1. IInv /\ [Next]_vars => ApplyingKeepsPolicy
  <2> SUFFICES ASSUME IInv, [Next]_vars, phase = "applying", phase' = "staged",
                      NEW p \in Paths, index'[p] # index[p]
               PROVE  p \notin ProtectedPaths \union CredentialPaths
                      /\ KeepsPolicy(index[p], index'[p])
    BY DEF ApplyingKeepsPolicy
  <2>1. ApplyPatch
    BY OnlyApplyStages
  <2>2. p \in DOMAIN combined.diff
    BY <2>1, OtherFilesKept
  <2>3. TypeOK /\ Inner /\ phase \in Tested
    BY DEF IInv, Inner, Tested, Applying
  <2>4. Valid(source, combined, Options) /\ Applied(combined.diff, source.tree) = tested
    BY <2>3, TestedTree DEF Inner, Testing
  <2>5. Changed(source.tree, tested) = DOMAIN combined.diff
    BY <2>3, <2>4, ChangedByPatch DEF TypeOK, IsArtifact, Valid
  <2>6. p \notin ProtectedPaths \union CredentialPaths
    BY <2>2, <2>4, <2>5 DEF Valid
  <2> DEFINE c == combined.diff[p]
  <2>7. /\ c.new = tested[p] /\ c \in Change
        /\ FitsFile(c, index[p]) /\ index'[p] = AppliedFile(c, index[p])
    BY <2>1, <2>2, CombinedPatch DEF ApplyPatch, Applied
  <2>8. CredentialFree(c.new)
    BY <2>2, <2>4 DEF Valid, PatchCredentialFree
  <2> HIDE DEF c
  <2>9. KeepsPolicy(index[p], index'[p])
    <3>1. CASE TextChange(c)
      <4>1. index[p] \in Regular /\ c.new \in Regular
        BY <2>7, <3>1 DEF TextChange, FitsFile
      <4>2. index'[p] = [k \in Parts |-> IF k \in Hunks(c) THEN c.new[k] ELSE index[p][k]]
        BY <2>7, <3>1 DEF AppliedFile
      <4>3. index'[p] \in Regular
        BY <4>1, <4>2 DEF Regular
      <4>4. index'[p] # Link
        BY <4>3, FilesAssumption DEF Regular
      <4>5. \A k \in Parts : index'[p][k] \in CredentialTexts => index'[p][k] = index[p][k]
        BY <2>8, <4>1, <4>2 DEF CredentialFree
      <4> QED BY <4>1, <4>4, <4>5 DEF KeepsPolicy
    <3>2. CASE ~TextChange(c)
      <4>1. index'[p] = c.new
        BY <2>7, <3>2 DEF AppliedFile
      <4>2. Transportable(tested, Options)
        BY <2>4 DEF Valid
      <4>3. tested[p] # Link
        BY <4>2, FilesAssumption DEF Transportable, Present
      <4> QED BY <2>7, <2>8, <4>1, <4>3 DEF KeepsPolicy, CredentialFree
    <3> QED BY <3>1, <3>2
  <2> QED BY <2>6, <2>9
<1> QED BY <1>1, Invariance, PTL DEF Spec, StagedKeepsPolicy

-----------------------------------------------------------------------------
(* What is exported, and what accepts it.                                   *)

(* A patch that exportActorPatch makes of a workspace passes the replay if,  *)
(* and only if, it leaves the protected paths alone and adds no whitespace  *)
(* error: these are all that the replay refuses and the export lets pass.   *)
THEOREM ExportedIsValid ==
    ASSUME NEW src \in [revision : Nat, tree : Tree], NEW work \in Tree, NEW o,
           Exportable(src, work, o)
    PROVE  Valid(src, Exported(src, work), o) <=>
             /\ Changed(src.tree, work) \intersect ProtectedPaths = {}
             /\ Neat(DiffOf(src.tree, work))
<1> DEFINE d == DiffOf(src.tree, work)
<1>1. src.tree \in Tree
  OBVIOUS
<1>2. /\ Fits(d, src.tree) <=> Neat(d)
      /\ Applied(d, src.tree) = work /\ DOMAIN d = Changed(src.tree, work)
  BY <1>1, DiffOfApplies, DiffOfIsDiff
<1>3. \A p \in DOMAIN d : d[p].new = work[p]
  BY DEF DiffOf
<1>4. /\ Transportable(work, o) /\ DOMAIN d \intersect CredentialPaths = {}
      /\ SmallPatch(d, o) /\ PatchCredentialFree(d)
  BY DEF Exportable
<1>5. \A p \in DOMAIN d : CredentialFree(work[p])
  BY <1>3, <1>4 DEF PatchCredentialFree
<1>6. Exported(src, work) = [revision |-> src.revision, diff |-> d, intact |-> TRUE,
                             paths |-> DOMAIN d]
  BY DEF Exported
<1> HIDE DEF d
<1>7. Valid(src, Exported(src, work), o) <=>
        Neat(d) /\ DOMAIN d \intersect (CredentialPaths \union ProtectedPaths) = {}
  BY <1>2, <1>4, <1>5, <1>6 DEF Valid
<1> QED BY <1>2, <1>4, <1>7 DEF d

(* A change adds to the file it fits no other text than its own. *)
LEMMA AddedByChange ==
    ASSUME NEW c \in Change, NEW now \in File, FitsFile(c, now)
    PROVE  Added([old |-> now, new |-> AppliedFile(c, now)]) \subseteq Added(c)
<1> DEFINE after == AppliedFile(c, now)
           e == [old |-> now, new |-> after]
<1>1. CASE TextChange(c)
  <2>1. now \in Regular /\ c.new \in Regular
    BY <1>1 DEF FitsFile, TextChange
  <2>2. after = [k \in Parts |-> IF k \in Hunks(c) THEN c.new[k] ELSE now[k]]
    BY <1>1 DEF AppliedFile
  <2>3. after \in Regular
    BY <2>1, <2>2 DEF Regular
  <2> HIDE DEF after
  <2>4. TextChange(e)
    BY <2>1, <2>3 DEF TextChange
  <2>5. \A k \in Hunks(e) : k \in Hunks(c) /\ after[k] = c.new[k]
    BY <2>2 DEF Hunks
  <2> QED BY <1>1, <2>4, <2>5 DEF Added, after
<1>2. CASE ~TextChange(c)
  <2>1. now = c.old /\ after = c.new
    BY <1>2 DEF FitsFile, AppliedFile
  <2> HIDE DEF after
  <2>2. ~TextChange(e) /\ e.new = c.new
    BY <1>2, <2>1 DEF TextChange
  <2> HIDE DEF e
  <2> QED BY <1>2, <2>2 DEF Added, e, after
<1> QED BY <1>1, <1>2

(* What the patches of disjoint tasks make together, file by file: each file *)
(* is the source's, or what one of the patches makes of it alone.           *)
LEMMA CombinedFile ==
    ASSUME TypeOK, Inner, phase = "combining" \/ phase \in Combined,
           NEW tree \in Tree, HasPatches(tree, Actors), NEW p \in Paths
    PROVE  \/ /\ \A a \in Actors : p \notin expected[a]
              /\ tree[p] = source.tree[p]
           \/ \E a \in Actors :
                /\ p \in expected[a]
                /\ tree[p] = Applied(patches[a].diff, source.tree)[p]
                /\ p \in Changed(source.tree, Applied(patches[a].diff, source.tree))
<1>1. validated = Actors
  BY DEF Inner, Validated
<1>2. ASSUME NEW a \in Actors
      PROVE  /\ expected[a] = DOMAIN patches[a].diff
             /\ expected[a] = Changed(source.tree, Applied(patches[a].diff, source.tree))
  <2>1. patches[a].paths = expected[a] /\ Valid(source, patches[a], Options)
    BY <1>1 DEF Inner, Validated
  <2>2. patches[a].paths = DOMAIN patches[a].diff
    BY <1>1, ValidatedPatch DEF Inner
  <2> QED BY <2>1, <2>2 DEF Valid
<1>3. CASE \A a \in Actors : p \notin expected[a]
  BY <1>2, <1>3 DEF HasPatches
<1>4. ASSUME NEW a \in Actors, p \in expected[a]
      PROVE  /\ tree[p] = Applied(patches[a].diff, source.tree)[p]
             /\ p \in Changed(source.tree, Applied(patches[a].diff, source.tree))
  <2>1. p \in DOMAIN patches[a].diff
    BY <1>2, <1>4
  <2>2. tree[p] = AppliedFile(patches[a].diff[p], source.tree[p])
    BY <2>1 DEF HasPatches
  <2> QED BY <1>2, <1>4, <2>1, <2>2 DEF Applied
<1> QED BY <1>3, <1>4

(* The paths that change are the expected ones, none of them protected. *)
LEMMA CombinedChanges ==
    ASSUME TypeOK, Inner, phase = "combining" \/ phase \in Combined,
           NEW tree \in Tree, HasPatches(tree, Actors)
    PROVE  /\ Changed(source.tree, tree) = UNION {expected[a] : a \in Actors}
           /\ Changed(source.tree, tree) \intersect (ProtectedPaths \union CredentialPaths) = {}
<1>1. ASSUME NEW a \in Actors
      PROVE  /\ expected[a] = Changed(source.tree, Applied(patches[a].diff, source.tree))
             /\ expected[a] \intersect (ProtectedPaths \union CredentialPaths) = {}
  BY DEF Inner, Validated, Valid
<1>2. ASSUME NEW a \in Actors, NEW p \in expected[a]
      PROVE  p \in Changed(source.tree, tree)
  <2>1. p \in Paths /\ validated = Actors
    BY <1>1 DEF Changed, Inner, Validated
  <2>2. PICK b \in Actors : /\ tree[p] = Applied(patches[b].diff, source.tree)[p]
                            /\ p \in Changed(source.tree, Applied(patches[b].diff, source.tree))
    BY <2>1, CombinedFile
  <2> QED BY <2>1, <2>2 DEF Changed
<1>3. ASSUME NEW p \in Changed(source.tree, tree)
      PROVE  \E a \in Actors : p \in expected[a]
  <2>1. p \in Paths /\ tree[p] # source.tree[p]
    BY DEF Changed
  <2> QED BY <2>1, CombinedFile
<1> QED BY <1>1, <1>2, <1>3

(* Every file that changes is one that a valid patch has changed alone. *)
LEMMA CombinedChange ==
    ASSUME TypeOK, Inner, phase = "combining" \/ phase \in Combined,
           NEW tree \in Tree, HasPatches(tree, Actors), NEW p \in Changed(source.tree, tree)
    PROVE  \E a \in Actors :
             /\ p \in DOMAIN patches[a].diff
             /\ patches[a].diff[p] \in Change /\ FitsFile(patches[a].diff[p], source.tree[p])
             /\ tree[p] = AppliedFile(patches[a].diff[p], source.tree[p])
             /\ Added(patches[a].diff[p]) \intersect WhitespaceTexts = {}
<1>1. validated = Actors
  BY DEF Inner, Validated
<1>2. p \in Paths /\ tree[p] # source.tree[p]
  BY DEF Changed
<1>3. PICK a \in Actors : p \in DOMAIN patches[a].diff
  BY <1>2 DEF HasPatches
<1>4. /\ IsDiff(patches[a].diff) /\ Fits(patches[a].diff, source.tree)
      /\ tree[p] = AppliedFile(patches[a].diff[p], source.tree[p])
  BY <1>1, <1>2, <1>3, ValidatedPatch DEF Inner, HasPatches
<1> QED BY <1>3, <1>4 DEF IsDiff, Fits, Neat

(* No whitespace error comes of combining. *)
LEMMA CombinedIsNeat ==
    ASSUME TypeOK, Inner, phase = "combining" \/ phase \in Combined,
           NEW tree \in Tree, HasPatches(tree, Actors)
    PROVE  Neat(DiffOf(source.tree, tree))
<1> DEFINE d == DiffOf(source.tree, tree)
<1>1. source.tree \in Tree
  BY DEF TypeOK
<1> SUFFICES ASSUME NEW p \in DOMAIN d
             PROVE  Added(d[p]) \intersect WhitespaceTexts = {}
  BY DEF Neat
<1>2. p \in Changed(source.tree, tree) /\ source.tree[p] \in File
      /\ d[p] = [old |-> source.tree[p], new |-> tree[p]]
  BY <1>1 DEF DiffOf, Changed, Tree
<1>3. PICK a \in Actors :
        /\ patches[a].diff[p] \in Change /\ FitsFile(patches[a].diff[p], source.tree[p])
        /\ tree[p] = AppliedFile(patches[a].diff[p], source.tree[p])
        /\ Added(patches[a].diff[p]) \intersect WhitespaceTexts = {}
  BY <1>2, CombinedChange
<1>4. Added(d[p]) \subseteq Added(patches[a].diff[p])
  BY <1>2, <1>3, AddedByChange
<1> QED BY <1>3, <1>4

(* All that can be amiss with them is their number and their length. *)
LEMMA CombinedExportable ==
    ASSUME TypeOK, Inner, phase = "combining" \/ phase \in Combined,
           NEW tree \in Tree, HasPatches(tree, Actors), tree # source.tree,
           FewFiles(tree, Options), SmallPatch(DiffOf(source.tree, tree), Options)
    PROVE  Exportable(source, tree, Options)
<1> DEFINE d == DiffOf(source.tree, tree)
           result(a) == Applied(patches[a].diff, source.tree)
<1>1. source.tree \in Tree
  BY DEF TypeOK
<1>2. DOMAIN d = Changed(source.tree, tree)
  BY <1>1, DiffOfIsDiff
<1>3. \A a \in Actors : Valid(source, patches[a], Options)
  BY DEF Inner, Validated
<1>4. Archivable(source.tree, Options)
  BY DEF Inner, Validated
<1>5. ASSUME NEW p \in Present(tree)
      PROVE  p \notin CredentialPaths /\ tree[p] # Link /\ SmallFile(tree[p], Options)
  <2>1. p \in Paths /\ tree[p] # Absent
    BY DEF Present
  <2>2. CASE tree[p] = source.tree[p]
    BY <1>4, <2>1, <2>2 DEF Archivable, Transportable, Present
  <2>3. ASSUME NEW a \in Actors, tree[p] = result(a)[p]
        PROVE  p \notin CredentialPaths /\ tree[p] # Link /\ SmallFile(tree[p], Options)
    <3>1. Transportable(result(a), Options)
      BY <1>3 DEF Valid
    <3> HIDE DEF result
    <3> QED BY <2>1, <2>3, <3>1 DEF Transportable, Present
  <2> QED BY <2>1, <2>2, <2>3, CombinedFile
<1>6. Transportable(tree, Options)
  BY <1>5 DEF Transportable
<1>7. DOMAIN d # {}
  <2>1. PICK p \in Paths : source.tree[p] # tree[p]
    BY <1>1 DEF Tree
  <2> QED BY <1>2, <2>1 DEF Changed
<1>8. DOMAIN d \intersect CredentialPaths = {}
  BY <1>2, CombinedChanges
<1>9. ASSUME NEW p \in DOMAIN d
      PROVE  CredentialFree(d[p].old) /\ CredentialFree(d[p].new)
  <2>1. p \in Paths /\ tree[p] # source.tree[p]
    BY <1>2 DEF Changed
  <2>2. d[p].old = source.tree[p] /\ d[p].new = tree[p]
    BY <1>2 DEF DiffOf
  <2>3. CredentialFree(source.tree[p])
    BY <1>4, <2>1 DEF Archivable
  <2>4. PICK a \in Actors : /\ tree[p] = result(a)[p]
                            /\ p \in Changed(source.tree, result(a))
    BY <2>1, CombinedFile
  <2>5. CredentialFree(result(a)[p])
    BY <1>3, <2>4 DEF Valid
  <2> QED BY <2>2, <2>3, <2>4, <2>5
<1> QED BY <1>6, <1>7, <1>8, <1>9 DEF Exportable, PatchCredentialFree

(* Patches that are valid on their own and change different paths go        *)
(* together: a merge fails only where one needs a directory and another has *)
(* a file, no replay refuses what was exported, and only the number of      *)
(* files and the length of the patch can keep a combination that changes    *)
(* something from being exported.                                           *)
THEOREM DisjointPatchesCombine == Spec => []PatchesCombine
<1>1. IInv => PatchesCombine
  <2> SUFFICES ASSUME IInv PROVE PatchesCombine
    OBVIOUS
  <2>1. TypeOK /\ Inner
    BY DEF IInv, Inner
  <2>2. workspace \in Tree /\ source.tree \in Tree /\ source \in [revision : Nat, tree : Tree]
    BY <2>1 DEF TypeOK
  <2>3. ASSUME phase = "combining", NEW a \in Actors \ merged,
               NoClash(Applied(patches[a].diff, workspace))
        PROVE  Fits(patches[a].diff, workspace)
    <3>1. validated = Actors /\ Disjoint /\ HasPatches(workspace, merged) /\ merged \subseteq Actors
      BY <2>1, <2>3 DEF Inner, Validated, Merging, TypeOK
    <3>2. \A b \in Actors : patches[b].paths = DOMAIN patches[b].diff
      BY <2>1, <3>1, ValidatedPatch DEF Inner
    <3>3. IsDiff(patches[a].diff) /\ Fits(patches[a].diff, source.tree)
      BY <2>1, <3>1, ValidatedPatch DEF Inner
    <3>4. ASSUME NEW p \in DOMAIN patches[a].diff
          PROVE  workspace[p] = source.tree[p]
      <4>1. p \in Paths
        BY <3>3 DEF IsDiff
      <4>2. \A b \in merged : p \notin DOMAIN patches[b].diff
        BY <3>1, <3>2 DEF Disjoint
      <4> QED BY <3>1, <4>1, <4>2 DEF HasPatches
    <3> QED BY <2>3, <3>3, <3>4 DEF Fits
  <2>4. ASSUME phase = "combining", merged = Actors
        PROVE  /\ Changed(source.tree, workspace) = UNION {expected[a] : a \in Actors}
               /\ /\ FewFiles(workspace, Options)
                  /\ SmallPatch(DiffOf(source.tree, workspace), Options)
                  /\ workspace # source.tree
                  => Exportable(source, workspace, Options)
    <3>1. HasPatches(workspace, Actors)
      BY <2>1, <2>4 DEF Inner, Merging
    <3> QED BY <2>1, <2>2, <2>4, <3>1, CombinedChanges, CombinedExportable
  <2>5. ASSUME phase \in Combined
        PROVE  Valid(source, combined, Options)
    <3>1. /\ HasPatches(workspace, Actors)
          /\ Exportable(source, workspace, Options) /\ combined = Exported(source, workspace)
      BY <2>1, <2>5 DEF Inner, Merging
    <3>2. Changed(source.tree, workspace) \intersect ProtectedPaths = {}
      BY <2>1, <2>2, <2>5, <3>1, CombinedChanges
    <3>3. Neat(DiffOf(source.tree, workspace))
      BY <2>1, <2>2, <2>5, <3>1, CombinedIsNeat
    <3> QED BY <2>2, <3>1, <3>2, <3>3, ExportedIsValid
  <2> QED BY <2>3, <2>4, <2>5 DEF PatchesCombine
<1> QED BY <1>1, Invariance, PTL
=============================================================================
