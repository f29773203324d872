# A verification project for pi-substrate-aks

This directory holds TLA+ models of the programs under `src/packages`, TLC
configurations that check them on small instances, and proofs that the TLA+
proof system (TLAPS) checks. Modules are translated from the code; `PROJECT.json`
maps each definition to its lines, lists the runs, the mutants that show each
property can fail, and the hazards the properties are for.

## The system

Pi coding agents run in untrusted pods (*actors*) without credentials. A trusted
workstation owns the repository and the Copilot login. Between them:

```
 orchestrator --job--> relay (job proxy) --job--> remote actor server
                                                        |  PiActor
 SDK session <-- broker <-- trusted bridge <== tunnel == relay <--+ model calls
```

| Component | Source | State | Operations | Hard parts |
|---|---|---|---|---|
| Model relay | `packages/model-relay/src/relay-server.ts` | `#pending`, `#activeRequests`, `#bridge`, `#lastBridgeFailure` | model request, tunnel upgrade, bridge message, disconnect, timer, close | answers, timers and a lost tunnel in any order; the check of the limit before an await |
| Job proxy | same file | `#activeJobs` | post a job to an actor | failure at any stage of a ten minute run |
| Trusted bridge | `trusted-bridge.ts` | `#socket` | connect, forward, close | answers after an await, when the connection may be another one |
| Remote actor | `packages/remote-actor/src/*.ts` | `#running`, run directories, its process | one job: source, agent, patch, replay, acceptance test, clean-up | admission before an await, a timer against an agent that ignores it, exits and restarts on a surviving volume |
| Broker | `packages/copilot-broker/src/http-server.ts` | `#sessions`, `#activeRequests` | create, message, delete, close | sessions deleted while used, clients that hang up, a limit checked before an await |
| SDK backend | `copilot-sdk-backend.ts` | per session: event queue, pending tools, `runActive` | prompt, tool results, abort, SDK events, delete | events and turns meet in a queue; an aborted turn keeps its place in it |
| Pi actor | `packages/pi-actor/src` | session id, pending tool calls | turn loop, tools, command supervision | timeout, abort and kill of a process group |
| Source transport | `packages/orchestrator/src/source-transport.ts` | repository, artifacts | archive, baseline, export, replay, apply | check, then use, of a repository; partial failure |
| Orchestration | `scripts/smoke-multi-actor.ts`, `smoke-remote-actor.ts` | attempts, patches | jobs, retries, combination, commit | retries against restarting actors, overlapping patches |

Not core logic, and not to be modelled: manifests and provisioning (`deploy/`,
shell scripts), the runtime probe, evidence, experiments, configuration parsing
in the command line entries, type declarations, tests.

What makes each component correct:

- relay: slots are given back exactly once; no request waits on a tunnel that is
  gone; a refused request was not executed; every request is answered once; the
  bridge is not dropped without a cause of the relay's own;
- job path: the counters and the busy flag mean what their readers take them for;
  an accepted patch comes from a run that is cleaned up; an answer ends the
  process; no run holds the actor for ever;
- a job's files: the agent begins on the client's source, and the patch that is
  answered makes of it what the acceptance test was run on;
- Pi actor: no session is left at the broker but by a request without answer; tool results
  are sent once, each to the turn that awaits it; no process of a command's group, and no timer,
  outlives the agent; an abort comes to its end;
- broker: sessions belong to their actor, and to the backend as long as they are
  listed; slots; nothing is left behind after close;
- SDK session: one turn waits at a time; a turn is given an event of its own run;
  deletion releases the waiting turn; a turn that waits ends;
- source transport and orchestration: what is tested is made of each actor's patch
  as it was validated, what is committed is what was tested, and the owner's own work in
  the repository survives; no two attempts of a task are at work at once.

## Modules

| Module | Models |
|---|---|
| `RelayContract` | what an actor may rely on when it calls the broker through the relay |
| `ModelRelay` | relay, bridge, tunnel and the broker's acting on a request; implements `RelayContract` |
| `ModelRelayProofs` | its theorems |
| `RemoteActor` | job proxy, actor server, actor process with restarts |
| `RemoteActorProofs` | its theorems |
| `CopilotBroker` | the broker over any backend |
| `CopilotBrokerProofs` | its theorems |
| `CopilotSession` | one session of the SDK backend with its event queue |
| `CopilotSessionProofs` | its theorems |
| `TestCommand` | one allowlisted command: its process group, pipes, timers, signals |
| `PiActor` | one run of the Pi actor with its stream, session and tools; on `TestCommand` |
| `PiActorProofs` | its theorems |
| `SourceTransport` | trees, patches, and what archive, export, replay and application make of them |
| `ActorRun` | what becomes of one job's files in the actor; on `SourceTransport` |
| `ActorRunProofs` | its theorems |
| `Orchestrator` | from the source archive to the commit, in a repository that is also its owner's; on `SourceTransport` |
| `OrchestratorProofs` | its theorems |
| `ActorTask` | attempts, retries and restarts of one actor's task, in either script, composed with `RemoteActor` |
| `ActorTaskProofs` | its theorems |
| `MC*` | instances for TLC, one `.cfg` per run |

The programs are single threaded, so an action is what a handler does between two
`await`s, with the promise continuations that settles; a handler's place is
a value of `http`, `stage`, `handler` or `turn`. Operators named `...Leaks...`,
`...Keeps...` and so on and commented "Bug:" are plausible mistakes in the
operator that follows them. No specification uses them: they are substituted to
see that a property notices.

**ModelRelay.** `http[r]` is where `#handleHttp` stands; `pending`,
`activeRequests`, `bridge` and `lastBridgeFailure` are the fields of the relay.
Connections are numbered; `bridge` and `conn` are the relay's and the bridge's idea of
the current one, `linkUp` whether anything still travels on it. `frame[r]` is how
far a request came: written, read by the bridge, executed by the broker, answered,
lost. `LinkBreaks` breaks the tunnel without either end noticing, so a bridge can
be refused while a dead one is still registered. `Proxy` has no
second check of the limit, as the code has none.

**RemoteActor.** `relay[j]` is the proxy's handler, `stage[j]` the actor's, with
one stage per group of awaits in `#run`. `Finish` is the response's `finish` event,
which only comes if the connection still stands. `Die` ends the process: handlers
are lost, the `emptyDir` volume, and with it `runRoots`, is not. `Restart` is the
container's restart policy.

**CopilotBroker.** Sessions, the backend's and the broker's, have one identifier here. Removal
from `#sessions` and the beginning of `deleteSession` are one step, as no await
separates them. `HangUp` is a client that goes away: handlers do not notice, and
`close`, which waits for connections, does not wait for them. `close` takes three steps, `Close`,
`DeleteSessions` and `Closed`: while it awaits the deletions, the sessions it deletes are still listed, and a
creation whose client has gone may end.

**CopilotSession.** `values` and `waiters` are the two lists of `AsyncResultQueue`.
`AbortWaiter` leaves the waiter in its list, as the code does: `onAbort` looks for
the object `waiter`, but another object was pushed. The next event of the session
goes to that dead entry, which is the end of the aborted run if all goes well. `sendAndWait` ends a
run after ten minutes without aborting it (`RunFails` may leave the run in `going`), and the tool handler does
not ask whether its run is the active one: a late `ToolCall` or answer goes to whoever waits next, and `late` says
that there was one. `unattended` says that a run failed between two of its turns, when nobody waits for its error.
`OwnEvents` excepts these two, not the aborts; `OneWaiter` and `DeleteReleases` need no exception.

**TestCommand.** `exec` of `WorkspacePolicy.bashOperations`: `resolving` is its two awaits
before the spawn, during which it does not listen to its signal; `terminating`, `timer` and
`killTimer` are its variables. `alive`, `grouped` and `holding` are the processes there are, those in the
command's group and those that hold its pipes. A process may fork, leave the group, close its pipes or
end whenever it likes, and may survive SIGTERM. `Closed` is the `close` event, which needs an
end of the leader and of all holders of the pipes, and then kills what is left of the group.

**PiActor.** `phase` is where `run` stands, `agent` where the loop of the pi SDK stands, which the module
knows only by how the code uses it: it streams, runs the calls of the answer one after the other
(`executionMode: "sequential"`), and streams again. `promptSent`, `pending` and `submitted` are the variables of
`createBrokerStream`; `owed` is what the session at the broker awaits. Requests
behave as `RelayContract` allows: answered, or failed with or without having been executed
(`CreatedLate`, `DeleteFailed`). `Close` forgets the session before it deletes it, as `BrokerClient.close` does.
An abort before the agent's loop is lost (`Signal`).

**SourceTransport.** A regular file has a few parts with a text each; a part is what
one hunk of a patch can change. A patch gives each of its paths an old and a new file. Git applies
a change of text if its hunks fit and any other change only to the very
file it was made from, if the text that is added has no whitespace error (`Neat`, for `--whitespace=error-all`) and no
file stands where another needs a directory (`Inside` says which path lies below which, `NoClash` that a tree
has no such pair). Limits are a record of options, for each `SourceTransport` its own: files are counted, bytes of a
file are a set of texts that make it too large, bytes of a patch a number of files it may change. `Valid` is `materializeValidatedPatch`, `Exportable` and
`Exported` are `exportActorPatch`, `Archivable` is `createSourceArchive`. Credential names,
credential patterns and protected paths are sets.

**ActorRun.** The stages of `#run` that `RemoteActor` has from outside, with the files: `workspace`
and `accepted` are the two workspaces, `baseline` and `acceptedHead` their HEADs, `index` git's index. The archive is a sequence of
headers, directories and files, `ParseEntry` is what `parseArchive` does with each. The first export is in three steps
(scan, stage, diff), between which processes the agent left behind write; the second is one step.
`ClientOptions` and `ActorOptions` are the limits of the two sides: the client's are the defaults, with which the
archive is made, the actor's are narrower, and its request check repeats them.
The acceptance test, and what the agent left behind, may write and commit in the accepted workspace.
`touched` says that the latter wrote before the test began, from which nothing in the code keeps
them: then the tested tree need not be the answered one, and `AcceptedWasTested` excepts it.

**Orchestrator.** `phase` is the await at which the main flow of
`smoke-multi-actor.ts` stands; `head`, `index` and `worktree` are the
trusted repository's. `ValidateResult` takes anything an actor may return and keeps what
`validateActorResult` and the replay let through. The two checks of
`applyValidatedPatch`, each of them a `git rev-parse` and a `git status`, the replay between them, `git apply` and
`git commit` are separate steps, and the repository's owner edits, stages, commits and resets between any two of them:
`disturbed` says that he committed after the second `rev-parse`, or did anything after the second `status`.
`git apply` looks at everything before it writes, but may break off while it writes (`ApplyBreaksOff`). `Fail` stands for
whatever the code throws; nothing is undone, as the code undoes nothing there.

**ActorTask.** Its state is `RemoteActor`'s, instantiated with the attempts as jobs,
and the task's: `looked[n]` is the restart count read before attempt `n`, `reported`
the cluster's account of the container, which follows the truth late (`Report`). A
pod that is replaced counts as a restart. `Observe` does not
look at readiness, as the code does not, so a look at a container that is about to
exit is among the behaviours. `script` says which of the two scripts runs the task: both wait for
a restart after an accepted or rejected job, but the one for one actor throws at once on any other answer
(`ThrowAtOnce`), the one for two waits first.

## Runs

| Run | Instance | Shows |
|---|---|---|
| `relay_safety` | 2 POSTs, 1 DELETE, limit 1, 2 connections; 354,507 states | `Accounting`, `FailClosed`, `DropOnlyAfterTimeout` |
| `relay_contract` | 1 POST, 1 DELETE, limit 2, 2 connections, fair timers; 20,731 states | `EventuallyAnswered`, refinement of `RelayContract` |
| `actor_safety` | 2 jobs, 3 processes, fair timers; 48,742 states | `JobsCounted`, `BusyIsReal`, `RunRootsOwned`, `DeliveryEndsProcess`, `WorkEnds` |
| `actor_one_job` | 2 jobs, 1 process | a violation, see below |
| `broker_safety` | 4 requests, 2 actors, 2 sessions, limit 1; 45,812 states | `SlotsCounted`, `SessionsInStep`, `OwnSession`, `ClosedClean` |
| `broker_limit` | 3 requests, 1 session, limit 1 | a violation, see below |
| `session_turns` | 3 turns, 2 tool calls; 166,804 states | `OneWaiter`, `OwnEvents`, `DeleteReleases`, `TurnEnds`, and that `IInv` holds |
| `orchestrator_commit` | 2 actors, 6 paths, files of 2 parts, 3 moves of the owner; 141,028 states | `EachPatchAsValidated`, `PatchesCombine`, `CommitsWhatWasTested`, `EditsSurvive`, `StagedKeepsPolicy`, and that `IInv` holds |
| `orchestrator_index` | the same | a violation, see below |
| `actor_task` | 5 attempts of one script and 3 of the other, 6 processes; 1,413,277 states | `OneAttemptAtWork`, `FreshProcess`, `AcceptedAfterRejections` |
| `pi_actor` | 3 tool calls, a leader and 2 descendants, fair timers; 21,579 states | `SessionReleased`, `ResultsOnce`, `CommandsOver`, `AbortEnds`, and that `IInv` holds |
| `actor_run` | 4 paths, one each of protected and credential name and one in `node_modules`; archives of up to 3 files, of which the actor takes 2, 3 writes; 1,156,830 states | `SourceArrives`, `AcceptedWasTested`, and that `IInv` holds |

Deadlock is not checked: each instance has finitely many requests and stops when
they are used up.

*Bounds.* Requests, jobs, turns and identifiers are the finitely many that are
ever used; `MaxConnections` and `MaxLives` bound reconnects and restarts. Two
requests are needed for one to disturb another (a late answer that drops the
bridge of the other), a third for a request that comes after both; two connections
for an answer to the previous one; two actors and two sessions for a mismatch;
three turns for two prompts of which one has a tool turn, so that one run can meet the next. Two actors and two parts of a file are
needed for patches that meet in a file, with and without a conflict; the patches of the run hold
an addition, a deletion, a link, a credential, a protected path, a whitespace error, a file that is too large, and a file where another
patch makes a directory; three moves let the
owner edit, stage and commit. Five attempts are `maxActorAttempts` of `smoke-multi-actor.ts`, three those of `smoke-remote-actor.ts`, and a
sixth process lets each be followed by a restart. Three calls make one turn with
several and several turns with one; two descendants let one leave the group while the other
stays in it, and take each other's place when they end, as the identifier of a process that has ended is free again.
Three writes are one of the agent, one between scan and diff, and one in the accepted
workspace; two files is the actor's limit, which the client's archives reach and pass. The proofs do away with
these bounds for safety. Symmetry is used only in runs without liveness.

*Fairness.* Only what the code brings about itself is fair. In the relay, its timer of a
pending request. In a session, the
timer of the waiting turn. On the job path,
the proxy's timer, the actor's run timer and grace period, file and git
operations, the exit of a process that called `process.exit` and the container's
restart. In the Pi actor, its local steps, the timers of a command, the spawn, the `close` event once it
is due, the failure of a request whose signal is aborted, and an end of the deletion, which the
relay's timer sees to. The agent, the model, the network, the bridge and clients are not fair.
Neither is the acceptance test: it ends with the `close` event of its output, which
a descendant that has left the process group can hold open. `AbortEnds` says so: an aborted run ends
unless, from some time on, such a descendant holds the pipes for ever.

*Three disagreements* between documents and code are kept as runs that must
fail:

- `broker_limit`: the limit is compared before the body is awaited and the turn
  counted after it, so turns whose bodies arrive late exceed it together. The relay has
  the same order.
- `orchestrator_index`: "only the already validated Git index is eligible for a local commit" (`README.md:166`), but nothing looks
  at the index between `git apply` and `git commit`, so what the owner stages from the second check on goes into the commit; and
  a commit of his between that check's `rev-parse` and its `status` is noticed by neither. `CommitsWhatWasTested` says what holds
  of an owner who leaves the repository alone from then on.
- `actor_one_job`: the busy flag is read before the body is awaited and set after it, so two
  jobs can run in one process; and a job whose connection was lost never
  "finishes", so its process stays and serves another.

## Proofs

All proofs are checked to the last leaf, from the assumptions the modules state: a
finite set of requests or jobs (needed to count them), limits that are numbers, positive where they
have to be, a `None` that is no actor or session, a command's leader that is none of its descendants, and values for
"no file" and "no regular file" that are different and no files.

Each of the proof modules has one argument: `Init => IInv`, every action
keeps `IInv` (a lemma per group of actions, a step per action, under it a step
per conjunct), `Spec => []IInv`, and the properties follow from it.

- **ModelRelay.** `FailClosed` and `Accounting` are not inductive alone: that an
  answer on the current connection is expected needs to know where every frame can
  be. `IInv` adds `Connections` (nothing is newer than the bridge's last attempt, a
  connection being set up is unused) and `Journeys` (how a request's place at the relay and
  its frame's place belong together; in particular `ReturnsHome`: an answer on
  its way comes back on the relay's current connection). `DropOnlyAfterTimeout` follows from
  `Expected`. `KeepsContract` shows that `Spec` implements the safety part of the
  contract step by step; `AnsweredOnce` is the action property.
- **RemoteActor.** `IInv` adds `Placed` (a job's place at the relay and at the
  actor, and the process it belongs to) and `Decided` (an accepted answer came from
  a run that was accepted and cleaned up), from which `CleanBeforeAccepted`
  follows. The counters need a lemma on the cardinality of the set of open fetches.
- **CopilotBroker.** `IInv` adds `Identified` (a handler has a session only with
  an authenticated actor, an identifier not drawn is not listed).
- **CopilotSession.** `OneWaiter` is not inductive: a turn gets to wait by a prompt or by results,
  and that nobody waits then has to follow from what the session knows. `IInv` adds `Balanced`
  (the turn that waits, and no other, is the queue's first waiter, and nothing is queued then; while the
  session stands, waiters and pending calls are together at most the queued events, and one more while a
  run is active) and `Orderly` (the queue has the calls of the active run that nobody was handed yet, each once,
  and of those that were handed over one is pending, unless a turn of the run waits or has left its entry in the queue). `Orderly` holds
  until a run fails between two turns or is heard of after it was given up (`unattended`, `late`), which both stay so; an aborted turn does not
  end it, as its entry takes the end of its run.
  The proof made `DeleteReleases` stronger than it had been: it excepted sessions with an aborted turn, and
  needs no exception, as an abandoned waiter stands for a turn that waits no longer.
- **PiActor.** `IInv` has four parts: `Course` (the agent works only within `session.prompt`, a command
  only within a tool), `Conversation` (what the broker's session awaits is pending, or in the
  message on its way), `Session` (a session is known until it is deleted, or never was) and
  `Commands` (processes of a group and timers exist only while the command runs). `ResultsOnce` follows from
  `Conversation`, `SessionReleased` from `Session`, `CommandsOver` from `Course` and `Commands`.
- **ActorRun.** `IInv` has `BaselineIsSource` (the agent begins on the client's source, which needs
  that a tree is what its archive entries make: `EntriesMakeTree`), `PatchIsDiff`, `Replayed` and `TestedTree`;
  `AcceptedWasTested` follows. A workspace the agent has committed in needs no case of its own: the replay
  decides whether the patch fits the source. `SourceArrives` is about what `parseArchive` makes of all
  entries, one after the other. The induction over them is written out as the absence of a least
  counterexample (`LeastNumber`, from the well-foundedness of the natural numbers): every function that
  follows `ParseEntry` from the first entry on gives `Parsed` (`ParsedBy`). For an archive of a tree that
  `createSourceArchive` lets pass and whose manifest the actor's request check lets pass (`ArchiveShape`: two headers, then each file once) the function is
  known: the files met so far. That the limit is not reached too early is `FileIsTaken`: as
  long as a file is missing, there are fewer than the actor's limit. `AcceptedWasTested` is about the client's limits, within
  which the actor's lie (`ValidForClient`).
- **Orchestrator.** `IInv` says what each phase may rely on: `Archived` (a revision
  that is still the source's has its tree), `Validated`, `Merging` (the combined workspace has
  exactly the patches merged so far), `Testing` and `Staging`. Its heart are
  two facts on patches: the difference of two trees applies to the first and makes the second
  (`DiffOfApplies`), and a patch that is disjoint from those already applied still
  fits and leaves them as they are (`MergeKeepsApart`). `EditsSurvive` and
  `StagedKeepsPolicy` hold even if the owner acts between the second check and
  `git apply`, and if that breaks off; `CommitsWhatWasTested` needs that he does not, and TLC has the behaviour that
  shows why (`orchestrator_index`). Two theorems are about what cannot be refused. `ExportedIsValid`: what `exportActorPatch`
  makes of a workspace is accepted by `materializeValidatedPatch` if and only if no protected path changes and no
  whitespace error is added, which the export does not look for.
  `DisjointPatchesCombine` (`PatchesCombine`): patches validated one by one that change different paths
  merge unless one makes a directory where another has a file, and the replays of the combination, before the tests and before the application, never
  refuse it; a combination that changes anything is only refused for its number of files or the length of its patch,
  which the single patches may keep and their combination exceed. It needs that the source itself stays
  archivable and that the combination was exportable, two parts of `IInv`.
- **ActorTask.** `Inv` has three parts: `Sequential` (attempts follow one another),
  `Answers` (a job that was not forwarded has not begun; the actor's word means that
  its handler has finished) and `Processes` (the process moves on between attempts). The
  steps of relay and actor are abstracted by one lemma each to `JobsKept`, so that the
  task's steps need nothing of their detail. `ImplementsRemoteActor`: every behaviour of a task is one of
  `RemoteActor` with the attempts as jobs, step by step, so what is proved of the job path is not
  lost when a task drives it. For `TypeOK` the relay's count has to be the number of open fetches
  again, which each group of steps keeps (`SameCount`, `ConnectedCount`).

Every invariant and every safety property of a step that a passing run checks is also a theorem. Left to TLC is
liveness, for which the prover would need ENABLED: `EventuallyAnswered`, `WorkEnds`, `TurnEnds`,
`AbortEnds` and the fairness of the contract. `AnsweredOnce`, `RefusedStayUnexecuted` and
`CleanedBeforeAcceptance` are proved of properties that no run checks any more, as the contract and
`RunRootsOwned` cover them there.

## Not modelled

- Sizes other than those of files and patches, wording, tokens' digests, durations (a timer may fire at any time it is armed) and
  malformed frames of an authenticated bridge.
- Start and stop of the SDK client, signals to the server processes.
- The path policies (`#existingPath`, `#writablePath`, `validateTransportPath`): they are about path strings and
  links, without steps to interleave but those of a process that changes the directories
  meanwhile, and what a file tool does to the workspace is already any write.
- Of the source transport: the bytes of the tar format, modes, binary files, `export-ignore` attributes,
  the limit on an archive's bytes apart from that on its files, `allowProtectedPaths`, which only a test sets, and damage
  to the archive or a patch file between its integrity check and its use. Of a job's files: writes into the
  accepted workspace while it is still being made, or while its patch is exported (`ActorRun`
  has them before and during the test).
- The inside of the pi SDK and of git; that the process tree of a command is killed on a
  timeout (`DESIGN.md:529`) holds for the group only, and the models say so: `CommandsOver` is about the group, and `AbortEnds` excepts
  a descendant that has left it and holds the command's pipes.
- The components listed in `PROJECT.json` as not modelled: deployment, command line entries, types, probes, tests.

## Plan

What would come next:

1. A contract of one session that `CopilotSession` implements as long as no run fails unattended or is heard of late: prompts,
   calls and results in the order of the run.
2. `PiActor` composed with `CopilotBroker`, so that `SessionReleased` and `ClosedClean` meet in one behaviour.
3. The second export of `ActorRun` in the steps of the first, with leftovers between them.
4. The path checks over small trees with links.
