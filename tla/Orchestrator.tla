----------------------------- MODULE Orchestrator -----------------------------
(***************************************************************************)
(* How the patches of several actors become one commit of the trusted      *)
(* repository: the main flow of scripts/smoke-multi-actor.ts from the      *)
(* source archive to the commit, with applyValidatedPatch and              *)
(* assertTrustedRepositoryState of source-transport.ts.  The repository is *)
(* also its owner's, who edits, stages and commits at any moment.          *)
(***************************************************************************)
EXTENDS SourceTransport

CONSTANTS
    Actors,
    Options,       \* of the SourceTransport, SourceTransportOptions' defaults
    Tasks,         \* sets of paths an actor may be asked to change
    InitialTrees,  \* commits the repository may stand at
    Diffs,         \* what actors' patches may contain
    Edits,         \* [path, file] the owner may write
    MaxMoves       \* bound: what the owner does during one orchestration

ASSUME OptionsAssumption == IsOptions(Options)
ASSUME InputsAssumption ==
    /\ Tasks \subseteq SUBSET Paths
    /\ InitialTrees \subseteq Tree
    /\ \A d \in Diffs : IsDiff(d)
    /\ Edits \subseteq [path : Paths, file : File]

VARIABLES
    phase,      \* the await at which the orchestration stands
    expected,   \* expectedPaths of each actor
    source,     \* the SourceArchiveArtifact
    patches,    \* the artifact of each validated actor
    validated,  \* actors whose result has been validated
    workspace,  \* the index of the combined workspace
    merged,     \* actors whose patch has been applied there
    combined,   \* the combined PatchArtifact
    tested,     \* the tree the trusted sandbox ran its tests on
    revision, head, index, worktree,  \* the trusted repository
    moves,      \* what its owner has done so far
    disturbed   \* the owner has committed since the second rev-parse, or has
                \* done anything since the git status that follows it

trusted == <<expected, source, patches, validated, workspace, merged, combined, tested>>
repository == <<revision, head, index, worktree>>
owner == <<moves, disturbed>>
vars == <<phase, trusted, repository, owner>>

(* The repository has been checked for the last time, or has been changed.  *)
Applying == {"applying", "staged"}
Tested ==
    {"checking", "checkingStatus", "replaying", "rechecking", "recheckingStatus"}
    \union Applying \union {"committed", "done"}
Combined == {"testing"} \union Tested
Phases == {"start", "validating", "combining", "failed"} \union Combined

NoArtifact == [revision |-> 0, diff |-> [p \in {} |-> 0], intact |-> FALSE, paths |-> {}]

TypeOK ==
    /\ phase \in Phases
    /\ expected \in [Actors -> SUBSET Paths]
    /\ source \in [revision : Nat, tree : Tree]
    /\ DOMAIN patches = Actors /\ \A a \in Actors : IsArtifact(patches[a])
    /\ validated \subseteq Actors /\ merged \subseteq Actors
    /\ workspace \in Tree /\ tested \in Tree
    /\ IsArtifact(combined)
    /\ revision \in Nat
    /\ head \in Tree /\ index \in Tree /\ worktree \in Tree
    /\ moves \in Nat
    /\ disturbed \in BOOLEAN

Init ==
    /\ phase = "start"
    /\ expected \in [Actors -> Tasks]
    /\ \E tree \in InitialTrees :
         /\ head = tree /\ index = tree /\ worktree = tree
         /\ source = [revision |-> 0, tree |-> tree]
         /\ workspace = tree /\ tested = tree
    /\ patches = [a \in Actors |-> NoArtifact]
    /\ validated = {} /\ merged = {}
    /\ combined = NoArtifact
    /\ revision = 0
    /\ moves = 0
    /\ disturbed = FALSE

-----------------------------------------------------------------------------
(* From the actors' results to one patch.                                   *)

(* createSourceArchive of HEAD. *)
CreateSourceArchive ==
    /\ phase = "start"
    /\ Archivable(head, Options)
    /\ source' = [revision |-> revision, tree |-> head]
    /\ phase' = "validating"
    /\ UNCHANGED <<expected, patches, validated, workspace, merged, combined, tested,
                   repository, owner>>

(* An actor may return anything; validateActorResult and the replay decide. *)
ValidateResult(a) ==
    /\ phase = "validating"
    /\ a \notin validated
    /\ \E d \in Diffs, rev \in {0, source.revision}, intact \in BOOLEAN, paths \in Tasks :
         LET patch == [revision |-> rev, diff |-> d, intact |-> intact, paths |-> paths] IN
         /\ paths = expected[a]
         /\ Valid(source, patch, Options)
         /\ patches' = [patches EXCEPT ![a] = patch]
    /\ validated' = validated \union {a}
    /\ UNCHANGED <<phase, expected, source, workspace, merged, combined, tested,
                   repository, owner>>

(* No two patches change the same path. *)
Disjoint == \A a, b \in Actors : a # b => patches[a].paths \intersect patches[b].paths = {}

(* Bug: patches that apply one after the other are taken for disjoint. *)
StartCombinationUnchecked ==
    /\ phase = "validating"
    /\ validated = Actors
    /\ phase' = "combining"
    /\ workspace' = source.tree
    /\ UNCHANGED <<expected, source, patches, validated, merged, combined, tested,
                   repository, owner>>

(* Bug: the workspace is made from the worktree, not from the archive. *)
StartCombinationFromWorktree ==
    /\ phase = "validating"
    /\ validated = Actors /\ Disjoint
    /\ phase' = "combining"
    /\ workspace' = worktree
    /\ UNCHANGED <<expected, source, patches, validated, merged, combined, tested,
                   repository, owner>>

(* combinePatches: a new workspace from the source ... *)
StartCombination ==
    /\ phase = "validating"
    /\ validated = Actors /\ Disjoint
    /\ phase' = "combining"
    /\ workspace' = source.tree
    /\ UNCHANGED <<expected, source, patches, validated, merged, combined, tested,
                   repository, owner>>

(* ... to which each patch is applied.  The code's order is one of these.   *)
Merge(a) ==
    /\ phase = "combining"
    /\ a \notin merged
    /\ Fits(patches[a].diff, workspace)
    /\ workspace' = Applied(patches[a].diff, workspace)
    /\ merged' = merged \union {a}
    /\ UNCHANGED <<phase, expected, source, patches, validated, combined, tested,
                   repository, owner>>

ExportCombined ==
    /\ phase = "combining"
    /\ merged = Actors
    /\ Exportable(source, workspace, Options)
    /\ Changed(source.tree, workspace) = UNION {expected[a] : a \in Actors}
    /\ combined' = Exported(source, workspace)
    /\ phase' = "testing"
    /\ UNCHANGED <<expected, source, patches, validated, workspace, merged, tested,
                   repository, owner>>

(* The combined patch is replayed, and the tests pass on the result. *)
TestCombined ==
    /\ phase = "testing"
    /\ Valid(source, combined, Options)
    /\ tested' = Applied(combined.diff, source.tree)
    /\ phase' = "checking"
    /\ UNCHANGED <<expected, source, patches, validated, workspace, merged, combined,
                   repository, owner>>

-----------------------------------------------------------------------------
(* applyValidatedPatch, and the commit.                                     *)

(* assertTrustedRepositoryState runs git twice: rev-parse tells whether HEAD *)
(* is at the source's revision, then status whether anything differs from   *)
(* HEAD, wherever that is by now.                                           *)
HeadAtSource == revision = source.revision
Clean == index = head /\ worktree = index

CheckRevision ==
    /\ phase = "checking"
    /\ HeadAtSource
    /\ phase' = "checkingStatus"
    /\ UNCHANGED <<trusted, repository, owner>>

CheckStatus ==
    /\ phase = "checkingStatus"
    /\ Clean
    /\ phase' = "replaying"
    /\ UNCHANGED <<trusted, repository, owner>>

(* materializeValidatedPatch in .state, which git ignores. *)
Replay ==
    /\ phase = "replaying"
    /\ Valid(source, combined, Options)
    /\ phase' = "rechecking"
    /\ UNCHANGED <<trusted, repository, owner>>

(* The same check again. *)
RecheckRevision ==
    /\ phase = "rechecking"
    /\ HeadAtSource
    /\ phase' = "recheckingStatus"
    /\ disturbed' = FALSE
    /\ UNCHANGED <<trusted, repository, moves>>

(* Bug: the status before the replay is taken to be enough. *)
RecheckNoStatus ==
    /\ phase = "recheckingStatus"
    /\ phase' = "applying"
    /\ UNCHANGED <<trusted, repository, owner>>

RecheckStatus ==
    /\ phase = "recheckingStatus"
    /\ Clean
    /\ phase' = "applying"
    /\ UNCHANGED <<trusted, repository, owner>>

(* Bug: the tested files are copied over the worktree. *)
ApplyByCopy ==
    /\ phase = "applying"
    /\ index' = [p \in Paths |-> IF p \in DOMAIN combined.diff THEN tested[p] ELSE index[p]]
    /\ worktree' = [p \in Paths |-> IF p \in DOMAIN combined.diff THEN tested[p] ELSE worktree[p]]
    /\ phase' = "staged"
    /\ UNCHANGED <<trusted, revision, head, owner>>

(* git apply --index looks first: each file it changes has to be as it is   *)
(* in the index, and the patch has to fit.                                  *)
PassesChecks ==
    /\ \A p \in DOMAIN combined.diff : worktree[p] = index[p]
    /\ Fits(combined.diff, index)

ApplyPatch ==
    /\ phase = "applying"
    /\ PassesChecks
    /\ NoClash(Applied(combined.diff, worktree))
    /\ index' = Applied(combined.diff, index)
    /\ worktree' = Applied(combined.diff, worktree)
    /\ phase' = "staged"
    /\ UNCHANGED <<trusted, revision, head, owner>>

(* It writes the files one by one and the index last; it may break off in   *)
(* between (no space, a directory in its way, the process killed).          *)
ApplyBreaksOff ==
    /\ phase = "applying"
    /\ PassesChecks
    /\ \E written \in SUBSET DOMAIN combined.diff :
         worktree' = [p \in Paths |->
                        IF p \in written THEN AppliedFile(combined.diff[p], worktree[p])
                        ELSE worktree[p]]
    /\ NoClash(worktree')
    /\ phase' = "failed"
    /\ UNCHANGED <<trusted, revision, head, index, owner>>

Commit ==
    /\ phase = "staged"
    /\ index # head
    /\ head' = index
    /\ revision' = revision + 1
    /\ phase' = "committed"
    /\ UNCHANGED <<trusted, index, worktree, owner>>

(* The status after the commit is asserted to be empty. *)
Confirm ==
    /\ phase = "committed"
    /\ Clean
    /\ phase' = "done"
    /\ UNCHANGED <<trusted, repository, owner>>

(* Whatever is thrown ends the orchestration where it stands: a check that  *)
(* fails, a git command, a disk, a test, a timeout.  Nothing is undone: what *)
(* has been staged stays.                                                   *)
Fail ==
    /\ phase \notin {"done", "failed"}
    /\ phase' = "failed"
    /\ UNCHANGED <<trusted, repository, owner>>

-----------------------------------------------------------------------------
(* The repository's owner.                                                  *)

Move ==
    /\ phase \notin {"done", "failed"}
    /\ moves < MaxMoves
    /\ moves' = moves + 1
    /\ UNCHANGED <<phase, trusted>>

EditFile ==
    /\ Move
    /\ \E e \in Edits : worktree' = [worktree EXCEPT ![e.path] = e.file]
    /\ NoClash(worktree')
    /\ disturbed' = (disturbed \/ phase # "recheckingStatus")
    /\ UNCHANGED <<revision, head, index>>

(* git add of a file puts out of the index what stands in its place. *)
AddFile ==
    /\ Move
    /\ \E p \in Paths :
         index' = [q \in Paths |->
                     IF q = p THEN worktree[p]
                     ELSE IF worktree[p] # Absent /\ {<<p, q>>, <<q, p>>} \intersect Inside # {}
                     THEN Absent ELSE index[q]]
    /\ disturbed' = (disturbed \/ phase # "recheckingStatus")
    /\ UNCHANGED <<revision, head, worktree>>

CommitIndex ==
    /\ Move
    /\ index # head
    /\ head' = index
    /\ revision' = revision + 1
    /\ disturbed' = TRUE
    /\ UNCHANGED <<index, worktree>>

(* git reset --hard, and git clean. *)
DiscardEdits ==
    /\ Move
    /\ index' = head /\ worktree' = head
    /\ disturbed' = (disturbed \/ phase # "recheckingStatus")
    /\ UNCHANGED <<revision, head>>

-----------------------------------------------------------------------------
CombineStep ==
    \/ CreateSourceArchive
    \/ \E a \in Actors : ValidateResult(a) \/ Merge(a)
    \/ StartCombination \/ ExportCombined \/ TestCombined

ApplyStep ==
    \/ CheckRevision \/ CheckStatus \/ Replay \/ RecheckRevision \/ RecheckStatus
    \/ ApplyPatch \/ ApplyBreaksOff \/ Commit \/ Confirm

OwnerStep == EditFile \/ AddFile \/ CommitIndex \/ DiscardEdits

Next == CombineStep \/ ApplyStep \/ Fail \/ OwnerStep

Spec == Init /\ [][Next]_vars

-----------------------------------------------------------------------------
(* Properties.                                                              *)

(* A tree that has each patch of the given actors as it was validated on    *)
(* its own, and is the source elsewhere.                                    *)
HasPatches(tree, actors) ==
    \A p \in Paths :
        /\ \A a \in actors : p \in DOMAIN patches[a].diff =>
             tree[p] = AppliedFile(patches[a].diff[p], source.tree[p])
        /\ (\A a \in actors : p \notin DOMAIN patches[a].diff) => tree[p] = source.tree[p]

(* The tree that is tested, and then committed, is made of every actor's    *)
(* patch as it was validated alone, and of nothing else: actors do not meet *)
(* in a file, and none is left out.                                         *)
EachPatchAsValidated == phase \in Tested => HasPatches(tested, Actors)

(* If the owner commits nothing from the second rev-parse on, and leaves the *)
(* repository alone from the second status on, the commit is the tested     *)
(* tree on top of the source revision: whatever the owner did before that,  *)
(* while actors worked and patches were replayed, is noticed.               *)
CommitsWhatWasTested ==
    [][phase = "staged" /\ phase' = "committed" /\ ~disturbed =>
         /\ revision = source.revision /\ head = source.tree
         /\ head' = tested /\ Clean']_vars

(* What README.md says: only the index that was validated is committed.     *)
(* Nothing looks at the index between git apply and git commit, and nothing *)
(* at the revision after the second rev-parse.                              *)
OnlyValidatedIndex == [][phase = "staged" /\ phase' = "committed" => head' = tested]_vars

(* No part of a file that the owner has made different from the source,     *)
(* committed or not, at whatever moment, is overwritten when the patch is   *)
(* applied, or applied in part.                                             *)
Survives(base, mine, after) ==
    IF {base, mine, after} \subseteq Regular
    THEN \A k \in Parts : mine[k] # base[k] => after[k] = mine[k]
    ELSE mine # base => after = mine

ApplyingSparesEdits ==
    phase = "applying" /\ phase' \in {"staged", "failed"} =>
        \A p \in Paths : Survives(source.tree[p], worktree[p], worktree'[p])

EditsSurvive == [][ApplyingSparesEdits]_vars

(* What the orchestration stages keeps to the policy, whatever state the    *)
(* repository is in by then: protected and credential paths stay as they    *)
(* are, nothing becomes a link, and no file gains a credential.             *)
KeepsPolicy(old, new) ==
    /\ new # Link
    /\ new \in Regular =>
         \A k \in Parts :
            new[k] \in CredentialTexts => old \in Regular /\ old[k] = new[k]

ApplyingKeepsPolicy ==
    phase = "applying" /\ phase' = "staged" =>
        \A p \in Paths : index'[p] # index[p] =>
            p \notin ProtectedPaths \union CredentialPaths /\ KeepsPolicy(index[p], index'[p])

StagedKeepsPolicy == [][ApplyingKeepsPolicy]_vars

(* Patches that are valid on their own and change different paths go        *)
(* together: a merge fails only if one makes a directory where another has  *)
(* a file, the expected paths change and no others, what is exported passes *)
(* the replays, and the export is refused only for the number of files, the *)
(* length of the patch, or because nothing changed.                         *)
PatchesCombine ==
    /\ phase = "combining" => \A a \in Actors \ merged :
         NoClash(Applied(patches[a].diff, workspace)) => Fits(patches[a].diff, workspace)
    /\ phase = "combining" /\ merged = Actors =>
         /\ Changed(source.tree, workspace) = UNION {expected[a] : a \in Actors}
         /\ /\ FewFiles(workspace, Options)
            /\ SmallPatch(DiffOf(source.tree, workspace), Options)
            /\ workspace # source.tree
            => Exportable(source, workspace, Options)
    /\ phase \in Combined => Valid(source, combined, Options)

(* The inductive invariant behind these.                                    *)
Archived ==
    /\ source.revision <= revision
    /\ revision = source.revision => head = source.tree

Validated ==
    /\ \A a \in validated : Valid(source, patches[a], Options) /\ patches[a].paths = expected[a]
    /\ phase = "start" => validated = {}
    /\ phase \in {"start", "validating"} => merged = {}
    /\ phase \in {"combining"} \union Combined => validated = Actors /\ Disjoint
    /\ phase \in {"validating", "combining"} \union Combined => Archivable(source.tree, Options)

Merging ==
    /\ phase = "combining" => HasPatches(workspace, merged)
    /\ phase \in Combined =>
         /\ HasPatches(workspace, Actors)
         /\ Exportable(source, workspace, Options) /\ combined = Exported(source, workspace)

Testing == phase \in Tested => tested = workspace /\ Valid(source, combined, Options)

Staging ==
    /\ phase = "recheckingStatus" /\ ~disturbed => HeadAtSource
    /\ phase = "applying" /\ ~disturbed => HeadAtSource /\ Clean
    /\ phase = "staged" /\ ~disturbed =>
         /\ revision = source.revision
         /\ index = tested /\ worktree = tested

IInv == TypeOK /\ Archived /\ Validated /\ Merging /\ Testing /\ Staging
=============================================================================
