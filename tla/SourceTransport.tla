--------------------------- MODULE SourceTransport ---------------------------
(***************************************************************************)
(* What packages/orchestrator/src/source-transport.ts computes: source     *)
(* trees, the patches between them, when git applies a patch and with what *)
(* result, which workspaces may be exported and which patches are valid.   *)
(* A regular file is a function from its parts (what a patch can change    *)
(* apart from the rest of the file) to their text.  Modes and binary files *)
(* are left out, as is allowProtectedPaths, which only a test sets.        *)
(***************************************************************************)
EXTENDS Naturals, FiniteSets

CONSTANTS
    Paths,            \* the paths of a source tree
    Inside,           \* <<p, q>>: p lies below q, were q a directory
    Parts, Texts,     \* the parts of a regular file, and what may stand there
    Absent, Link,     \* no file; anything that is not a regular file
    WhitespaceTexts,  \* texts with what git calls a whitespace error
    CredentialPaths,  \* paths that assertNotCredentialPath refuses
    CredentialTexts,  \* texts that assertNoCredentialContent refuses
    ProtectedPaths    \* PROTECTED_PATHS and the workflows

ASSUME FilesAssumption ==
    /\ Absent \notin [Parts -> Texts] /\ Link \notin [Parts -> Texts]
    /\ Absent # Link

Regular == [Parts -> Texts]
File == Regular \union {Absent, Link}

Present(tree) == {p \in Paths : tree[p] # Absent}

(* A path is a file or a directory. *)
NoClash(tree) == \A p, q \in Present(tree) : <<p, q>> \notin Inside
Tree == {tree \in [Paths -> File] : NoClash(tree)}

(* SourceTransportOptions.  The bytes of a file and of a patch are counted  *)
(* by what makes them many: certain texts, and the files the patch changes. *)
IsOptions(o) ==
    /\ o.maxFiles \in Nat
    /\ o.overMaxFileBytes \subseteq Texts
    /\ o.maxPatchFiles \in Nat

-----------------------------------------------------------------------------
(* Patches, and git's part in them.                                         *)

Change == {c \in [old : File, new : File] : c.old # c.new}
IsDiff(d) == DOMAIN d \subseteq Paths /\ d \in [DOMAIN d -> Change]

Changed(from, to) == {p \in Paths : from[p] # to[p]}

(* git diff --full-index --binary --no-renames *)
DiffOf(from, to) == [p \in Changed(from, to) |-> [old |-> from[p], new |-> to[p]]]

TextChange(c) == c.old \in Regular /\ c.new \in Regular
Hunks(c) == {k \in Parts : c.old[k] # c.new[k]}

(* A change of text needs its hunks to fit, any other the very file it is of. *)
FitsFile(c, now) ==
    IF TextChange(c)
    THEN now \in Regular /\ \A k \in Hunks(c) : now[k] = c.old[k]
    ELSE now = c.old

AppliedFile(c, now) ==
    IF TextChange(c)
    THEN [k \in Parts |-> IF k \in Hunks(c) THEN c.new[k] ELSE now[k]]
    ELSE c.new

Applied(d, tree) ==
    [p \in Paths |-> IF p \in DOMAIN d THEN AppliedFile(d[p], tree[p]) ELSE tree[p]]

(* The text a change adds, and --whitespace=error-all, which looks at it.   *)
Added(c) ==
    IF TextChange(c) THEN {c.new[k] : k \in Hunks(c)}
    ELSE IF c.new \in Regular THEN {c.new[k] : k \in Parts} ELSE {}

Neat(d) == \A p \in DOMAIN d : Added(d[p]) \intersect WhitespaceTexts = {}

(* git apply --index --whitespace=error-all succeeds: every file of the     *)
(* patch fits, and none stands where another needs a directory.             *)
Fits(d, tree) ==
    /\ Neat(d)
    /\ \A p \in DOMAIN d : FitsFile(d[p], tree[p])
    /\ NoClash(Applied(d, tree))

-----------------------------------------------------------------------------
(* Policies.                                                                *)

CredentialFree(file) == file \in Regular => \A k \in Parts : file[k] \notin CredentialTexts

FewFiles(tree, o) == IsFiniteSet(Present(tree)) /\ Cardinality(Present(tree)) <= o.maxFiles
SmallFile(file, o) == file \in Regular => \A k \in Parts : file[k] \notin o.overMaxFileBytes

(* scanWorkspace; #validateSourceTree and parseArchive ask the same of a    *)
(* commit.                                                                  *)
Transportable(tree, o) ==
    /\ Present(tree) \intersect CredentialPaths = {}
    /\ \A p \in Present(tree) : tree[p] # Link /\ SmallFile(tree[p], o)
    /\ FewFiles(tree, o)

(* createSourceArchive succeeds on this commit's tree. *)
Archivable(tree, o) == Transportable(tree, o) /\ \A p \in Paths : CredentialFree(tree[p])

(* The patch's own text holds what it removes and what it adds. *)
PatchCredentialFree(d) == \A p \in DOMAIN d : CredentialFree(d[p].old) /\ CredentialFree(d[p].new)

(* The patch is not longer than maxPatchBytes. *)
SmallPatch(d, o) == IsFiniteSet(DOMAIN d) /\ Cardinality(DOMAIN d) <= o.maxPatchFiles

(* A PatchArtifact: for which revision, the bytes, whether they are those    *)
(* its size and digest were taken of, and its list of changed paths.         *)
IsArtifact(x) ==
    /\ x \in [revision : Nat, diff : {x.diff}, intact : BOOLEAN, paths : SUBSET Paths]
    /\ IsDiff(x.diff)

(* exportActorPatch, of a workspace over a source: whitespace is not looked  *)
(* at.                                                                      *)
Exportable(source, workspace, o) ==
    LET d == DiffOf(source.tree, workspace) IN
    /\ Transportable(workspace, o)
    /\ DOMAIN d # {}
    /\ DOMAIN d \intersect CredentialPaths = {}
    /\ SmallPatch(d, o)
    /\ PatchCredentialFree(d)

Exported(source, workspace) ==
    LET d == DiffOf(source.tree, workspace) IN
    [revision |-> source.revision, diff |-> d, intact |-> TRUE, paths |-> DOMAIN d]

(* Bug: the policy of protected paths is left to the actor. *)
ValidUnprotected(source, patch, o) ==
    LET result  == Applied(patch.diff, source.tree)
        changed == Changed(source.tree, result)
    IN
    /\ patch.revision = source.revision /\ patch.intact
    /\ SmallPatch(patch.diff, o) /\ PatchCredentialFree(patch.diff)
    /\ Fits(patch.diff, source.tree)
    /\ Transportable(result, o)
    /\ patch.paths = changed
    /\ changed \intersect CredentialPaths = {}
    /\ \A p \in changed : CredentialFree(result[p])

(* materializeValidatedPatch: the patch is replayed on the source in a new  *)
(* workspace, and what results is examined.                                 *)
Valid(source, patch, o) ==
    LET result  == Applied(patch.diff, source.tree)
        changed == Changed(source.tree, result)
    IN
    /\ patch.revision = source.revision /\ patch.intact
    /\ SmallPatch(patch.diff, o) /\ PatchCredentialFree(patch.diff)
    /\ Fits(patch.diff, source.tree)
    /\ Transportable(result, o)
    /\ patch.paths = changed
    /\ changed \intersect (CredentialPaths \union ProtectedPaths) = {}
    /\ \A p \in changed : CredentialFree(result[p])
=============================================================================
