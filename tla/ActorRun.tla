------------------------------- MODULE ActorRun -------------------------------
(***************************************************************************)
(* What becomes of the files of one job in the remote actor: #run of       *)
(* packages/remote-actor/src/remote-actor-server.ts, with the steps it     *)
(* takes in source-transport.ts and the snapshots of pi-actor.ts.  The     *)
(* archive is unpacked and committed as the baseline, the agent works on   *)
(* it, its patch is exported while processes it left behind may still      *)
(* write, replayed on a fresh workspace, tested there and exported again.  *)
(* RemoteActor has the same run from outside: its stages source, agent,    *)
(* export and acceptance.                                                  *)
(***************************************************************************)
EXTENDS SourceTransport, Sequences, SequencesExt

CONSTANTS
    ClientOptions,  \* of the script's SourceTransport: the defaults
    ActorOptions,   \* of the actor's, which its request checks repeat
    UnlistedPaths,  \* paths in node_modules, which snapshots leave out
    IgnoredPaths,   \* paths a .gitignore of the source names
    MaxEdits        \* bound: writes of the agent, of what it leaves and of the test

ASSUME EditsAssumption == MaxEdits \in Nat

(* The actor's limits are the narrower ones; of patches, both have the same. *)
ASSUME OptionsAssumption ==
    /\ IsOptions(ClientOptions) /\ IsOptions(ActorOptions)
    /\ ActorOptions.maxFiles <= ClientOptions.maxFiles
    /\ ClientOptions.overMaxFileBytes \subseteq ActorOptions.overMaxFileBytes
    /\ ActorOptions.maxPatchFiles = ClientOptions.maxPatchFiles

VARIABLES
    source,      \* the client's source: revision and tree of the commit
    request,     \* source of the RemoteActorRunRequest
    phase,       \* where #run stands
    workspace,   \* the agent's workspace
    baseline,    \* tree of the workspace's HEAD, at first the baseline commit
    moved,       \* a command of the agent has committed since
    before,      \* PiActor.run's first snapshot
    tested,      \* the trace holds a successful workspace_test
    reported,    \* paths of the agent's changedFiles
    index,       \* git's index of the workspace
    patch,       \* the agent's patch
    accepted,    \* the accepted workspace
    acceptedHead,  \* tree of its HEAD
    touched,     \* it was written to before its test began
    candidate,   \* what it was when its test began
    response,    \* the patch that is answered
    edits

inputVars == <<source, request>>
agentVars == <<workspace, before, tested, reported>>
exportVars == <<baseline, moved, index, patch>>
acceptVars == <<accepted, acceptedHead, touched, candidate, response>>
vars == <<inputVars, phase, agentVars, exportVars, acceptVars, edits>>

Empty == [p \in Paths |-> Absent]
NoPatch == [revision |-> 0, diff |-> << >>, intact |-> FALSE, paths |-> {}]

-----------------------------------------------------------------------------
(* Archives.                                                                *)

Header == [type |-> "pax-global-header"]
Directory == [type |-> "directory"]
FileEntries(tree) ==
    {[type |-> "file", path |-> p, file |-> tree[p]] : p \in {q \in Paths : tree[q] # Absent}}

(* git archive --format=tar *)
ArchiveOf(tree) == <<Header, Directory>> \o SetToSeq(FileEntries(tree))

(* Bug: an entry for which there is no room is passed over. *)
ParseEntryWithinLimit(parsed, entry) ==
    IF parsed.failed \/ entry.type \in {"pax-global-header", "pax-header", "directory"}
    THEN parsed
    ELSE IF Cardinality(parsed.entries) >= ActorOptions.maxFiles - 1
         THEN parsed
         ELSE [parsed EXCEPT !.entries = @ \union {entry}]

(* parseArchive: headers and directories leave no entry; the first link,    *)
(* credential path, duplicate, file too large or too many fails it.         *)
ParseEntry(parsed, entry) ==
    IF parsed.failed \/ entry.type \in {"pax-global-header", "pax-header", "directory"}
    THEN parsed
    ELSE IF \/ entry.type # "file"
            \/ entry.path \in CredentialPaths
            \/ \E e \in parsed.entries : e.path = entry.path
            \/ ~SmallFile(entry.file, ActorOptions)
            \/ Cardinality(parsed.entries) >= ActorOptions.maxFiles
         THEN [parsed EXCEPT !.failed = TRUE]
         ELSE [parsed EXCEPT !.entries = @ \union {entry}]

Parsed(archive) == FoldLeft(ParseEntry, [failed |-> FALSE, entries |-> {}], archive)

(* The files as they are written, one by one, with flag wx. *)
TreeOf(entries) ==
    [p \in Paths |->
        IF \E e \in entries : e.path = p
        THEN (CHOOSE e \in entries : e.path = p).file
        ELSE Absent]

(* The artifact of createSourceArchive, as the request carries it; its      *)
(* bytes may have suffered on the way.                                      *)
Requests(tree) ==
    LET archive == ArchiveOf(tree) IN
    {[archive |-> archive, entries |-> FileEntries(tree), intact |-> TRUE],
     [archive |-> Front(archive), entries |-> FileEntries(tree), intact |-> FALSE]}

(* isRunRequest, isRemoteSourceArchive.  The limit of the archive's bytes   *)
(* goes with that of its files.                                             *)
IsRunRequest(r) ==
    /\ r.entries # {} /\ Cardinality(r.entries) <= ActorOptions.maxFiles
    /\ \A e \in r.entries : SmallFile(e.file, ActorOptions)

(* The check of length and digest, parseArchive, assertArchiveManifest.     *)
Materializable(r) ==
    /\ r.intact
    /\ ~Parsed(r.archive).failed
    /\ Parsed(r.archive).entries = r.entries

-----------------------------------------------------------------------------
(* snapshotWorkspace sees regular files only, and none of node_modules;     *)
(* compareSnapshots tells which paths differ.                               *)
Snapshot(tree) ==
    [p \in {q \in Paths \ UnlistedPaths : tree[q] \in Regular} |-> tree[p]]

CompareSnapshots(old, new) ==
    {p \in DOMAIN old \union DOMAIN new :
        ~(p \in DOMAIN old /\ p \in DOMAIN new /\ old[p] = new[p])}

Phases == {"received", "materialized", "agent", "export", "scanned", "staged", "exported",
           "replayed", "testing", "passed", "accepted", "refused", "failed"}
Over == {"accepted", "refused", "failed"}

(* The agent has begun, and nothing has been refused. *)
Begun == phase \notin {"received", "materialized", "refused", "failed"}

TypeOK ==
    /\ source \in [revision : Nat, tree : Tree]
    /\ request.entries = FileEntries(source.tree)
    /\ phase \in Phases
    /\ {workspace, baseline, index, accepted, acceptedHead, candidate} \subseteq Tree
    /\ tested \in BOOLEAN /\ moved \in BOOLEAN /\ touched \in BOOLEAN
    /\ reported \subseteq Paths
    /\ edits \in 0..MaxEdits

Init ==
    /\ source \in {[revision |-> 1, tree |-> t] : t \in {u \in Tree : Archivable(u, ClientOptions)}}
    /\ request \in Requests(source.tree)
    /\ phase = "received"
    /\ workspace = Empty /\ before = Snapshot(Empty) /\ tested = FALSE /\ reported = {}
    /\ baseline = Empty /\ moved = FALSE /\ index = Empty /\ patch = NoPatch
    /\ accepted = Empty /\ acceptedHead = Empty /\ touched = FALSE
    /\ candidate = Empty /\ response = NoPatch
    /\ edits = 0

-----------------------------------------------------------------------------
Goto(from, to) == phase = from /\ phase' = to

RefuseRequest ==
    /\ ~IsRunRequest(request)
    /\ Goto("received", "refused")
    /\ UNCHANGED <<inputVars, agentVars, exportVars, acceptVars, edits>>

(* materializeSourceArchive *)
Materialize ==
    /\ IsRunRequest(request) /\ Materializable(request)
    /\ Goto("received", "materialized")
    /\ workspace' = TreeOf(Parsed(request.archive).entries)
    /\ UNCHANGED <<inputVars, before, tested, reported, exportVars, acceptVars, edits>>

(* Bug: git leaves out of the baseline what the source's .gitignore names.  *)
InitializeWithoutForce ==
    /\ Goto("materialized", "agent")
    /\ baseline' = [p \in Paths |-> IF p \in IgnoredPaths THEN Absent ELSE workspace[p]]
    /\ index' = baseline'
    /\ before' = Snapshot(workspace)
    /\ UNCHANGED <<inputVars, workspace, tested, reported, moved, patch, acceptVars, edits>>

(* initializeActorBaseline (git init, add --force --all, commit), then the  *)
(* snapshot with which PiActor.run begins.                                  *)
InitializeActorBaseline ==
    /\ Goto("materialized", "agent")
    /\ baseline' = workspace
    /\ index' = workspace
    /\ before' = Snapshot(workspace)
    /\ UNCHANGED <<inputVars, workspace, tested, reported, moved, patch, acceptVars, edits>>

(* The agent's tools and commands - and, until the patch is out, whatever   *)
(* of its commands escaped them - write into the workspace.                 *)
Write(p, file) ==
    /\ phase \in {"agent", "export", "scanned", "staged"}
    /\ edits < MaxEdits
    /\ edits' = edits + 1
    /\ workspace' = [workspace EXCEPT ![p] = file]
    /\ NoClash(workspace')
    /\ UNCHANGED <<inputVars, phase, before, tested, reported, exportVars, acceptVars>>

(* A command of the agent commits what there is.                            *)
AgentCommits ==
    /\ phase = "agent"
    /\ edits < MaxEdits
    /\ edits' = edits + 1
    /\ baseline' = workspace /\ index' = workspace
    /\ moved' = TRUE
    /\ UNCHANGED <<inputVars, phase, agentVars, patch, acceptVars>>

(* A test passes, on what the workspace is by now. *)
AgentTests ==
    /\ phase = "agent"
    /\ tested' = TRUE
    /\ UNCHANGED <<inputVars, phase, workspace, before, reported, exportVars, acceptVars, edits>>

AgentEnds ==
    /\ Goto("agent", "export")
    /\ reported' = CompareSnapshots(before, Snapshot(workspace))
    /\ UNCHANGED <<inputVars, workspace, before, tested, exportVars, acceptVars, edits>>

(* exportActorPatch: scanWorkspace ...                                      *)
ScanWorkspace ==
    /\ tested
    /\ Transportable(workspace, ActorOptions)
    /\ Goto("export", "scanned")
    /\ UNCHANGED <<inputVars, agentVars, exportVars, acceptVars, edits>>

(* ... git add --force --all ...                                            *)
Stage ==
    /\ Goto("scanned", "staged")
    /\ index' = workspace
    /\ UNCHANGED <<inputVars, agentVars, baseline, moved, patch, acceptVars, edits>>

(* ... scanChangedFileContents, and git diff --cached, of the index.        *)
ExportPatch ==
    LET d == DiffOf(baseline, index) IN
    /\ DOMAIN d # {} /\ DOMAIN d \intersect CredentialPaths = {}
    /\ \A p \in DOMAIN d : CredentialFree(workspace[p])
    /\ SmallPatch(d, ActorOptions) /\ PatchCredentialFree(d)
    /\ Goto("staged", "exported")
    /\ patch' = [revision |-> source.revision, diff |-> d, intact |-> TRUE, paths |-> DOMAIN d]
    /\ UNCHANGED <<inputVars, agentVars, baseline, moved, index, acceptVars, edits>>

(* samePaths, then materializeValidatedPatch from the archive. *)
Replay ==
    /\ patch.paths = reported
    /\ Valid(source, patch, ActorOptions)
    /\ Goto("exported", "replayed")
    /\ accepted' = Applied(patch.diff, source.tree)
    /\ acceptedHead' = source.tree
    /\ UNCHANGED <<inputVars, agentVars, exportVars, touched, candidate, response, edits>>

StartAcceptanceTest ==
    /\ Goto("replayed", "testing")
    /\ candidate' = accepted
    /\ UNCHANGED <<inputVars, agentVars, exportVars, accepted, acceptedHead, touched, response,
                   edits>>

(* The test, or what it or the agent leaves running, writes as well; before  *)
(* the test begins it can only be the latter.                               *)
TestWrites(p, file) ==
    /\ phase \in {"replayed", "testing", "passed"}
    /\ edits < MaxEdits
    /\ edits' = edits + 1
    /\ accepted' = [accepted EXCEPT ![p] = file]
    /\ NoClash(accepted')
    /\ touched' = (touched \/ phase = "replayed")
    /\ UNCHANGED <<inputVars, phase, agentVars, exportVars, acceptedHead, candidate, response>>

(* ... and may commit. *)
TestCommits ==
    /\ phase \in {"replayed", "testing", "passed"}
    /\ edits < MaxEdits
    /\ edits' = edits + 1
    /\ acceptedHead' = accepted
    /\ UNCHANGED <<inputVars, phase, agentVars, exportVars, accepted, touched, candidate,
                   response>>

TestPasses ==
    /\ Goto("testing", "passed")
    /\ UNCHANGED <<inputVars, agentVars, exportVars, acceptVars, edits>>

(* The accepted workspace, exported against its HEAD. *)
AcceptedSource == [source EXCEPT !.tree = acceptedHead]

(* Bug: the two patches are only compared by their paths. *)
AcceptSamePaths ==
    /\ Goto("passed", "accepted")
    /\ Exportable(AcceptedSource, accepted, ActorOptions)
    /\ Exported(AcceptedSource, accepted).paths = patch.paths
    /\ response' = Exported(AcceptedSource, accepted)
    /\ UNCHANGED <<inputVars, agentVars, exportVars, accepted, acceptedHead, touched, candidate,
                   edits>>

(* Digest, length and paths are those of the agent's patch. *)
Accept ==
    /\ Goto("passed", "accepted")
    /\ Exportable(AcceptedSource, accepted, ActorOptions)
    /\ Exported(AcceptedSource, accepted) = patch
    /\ response' = Exported(AcceptedSource, accepted)
    /\ UNCHANGED <<inputVars, agentVars, exportVars, accepted, acceptedHead, touched, candidate,
                   edits>>

(* 422: no test in the trace, other paths, the test fails, the patch changed. *)
NotAccepted ==
    /\ \/ phase = "export" /\ ~tested
       \/ phase = "exported" /\ patch.paths # reported
       \/ phase = "testing"
       \/ /\ phase = "passed" /\ Exportable(AcceptedSource, accepted, ActorOptions)
          /\ Exported(AcceptedSource, accepted) # patch
    /\ phase' = "refused"
    /\ UNCHANGED <<inputVars, agentVars, exportVars, acceptVars, edits>>

(* 500 or 504: a check above throws, git fails, the run times out. *)
Throw ==
    /\ phase \notin Over
    /\ phase' = "failed"
    /\ UNCHANGED <<inputVars, agentVars, exportVars, acceptVars, edits>>

Next ==
    \/ RefuseRequest \/ Materialize \/ InitializeActorBaseline
    \/ \E p \in Paths, file \in File : Write(p, file) \/ TestWrites(p, file)
    \/ AgentCommits \/ AgentTests \/ AgentEnds
    \/ ScanWorkspace \/ Stage \/ ExportPatch
    \/ Replay \/ StartAcceptanceTest \/ TestCommits \/ TestPasses \/ Accept
    \/ NotAccepted \/ Throw

Spec == Init /\ [][Next]_vars

-----------------------------------------------------------------------------
(* The client's limits are wider than the actor's.  An archive that was not *)
(* damaged on its way is refused at once if, and only if, its tree is beyond *)
(* the actor's limits or has no file; any other passes every check of the   *)
(* actor, up to the last file its limits allow.                             *)
SourceArrives ==
    request.intact =>
        /\ IsRunRequest(request) <=>
             Archivable(source.tree, ActorOptions) /\ Present(source.tree) # {}
        /\ IsRunRequest(request) => Materializable(request)

(* The agent begins on exactly the client's source, which is also what its  *)
(* changes are reported against, and its patch is taken against unless it   *)
(* commits.                                                                 *)
BaselineIsSource ==
    /\ phase = "materialized" => workspace = source.tree
    /\ Begun => before = Snapshot(source.tree)
    /\ Begun /\ ~moved => baseline = source.tree

(* A patch that is answered names the files the agent reported, replays     *)
(* under the policies of the client, and makes of the client's source the   *)
(* very tree the acceptance test began on - whatever is written or          *)
(* committed in either workspace meanwhile, and whenever the test in the    *)
(* agent's trace was run, unless a process the agent left behind wrote into *)
(* the accepted workspace before its test: it may put back what it changed. *)
AcceptedWasTested ==
    phase = "accepted" =>
        /\ ~touched => Applied(response.diff, source.tree) = candidate
        /\ response.paths = reported
        /\ Valid(source, response, ClientOptions)

(* What each step rests on: the patch is a difference of trees, the accepted *)
(* workspace is the source with it, and the test begins on that.            *)
PatchIsDiff ==
    phase \in {"exported", "replayed", "testing", "passed", "accepted"} => IsDiff(patch.diff)

Replayed ==
    phase \in {"replayed", "testing", "passed", "accepted"} =>
        patch.paths = reported /\ Valid(source, patch, ActorOptions)

TestedTree ==
    /\ phase = "replayed" /\ ~touched => accepted = Applied(patch.diff, source.tree)
    /\ phase \in {"testing", "passed", "accepted"} /\ ~touched =>
         candidate = Applied(patch.diff, source.tree)
    /\ phase = "accepted" => response = patch

IInv == TypeOK /\ BaselineIsSource /\ PatchIsDiff /\ Replayed /\ TestedTree
=============================================================================
