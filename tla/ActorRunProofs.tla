---------------------------- MODULE ActorRunProofs ----------------------------
(* Theorems of ActorRun. *)
EXTENDS ActorRun, SequenceTheorems, FiniteSetTheorems, WellFoundedInduction, TLAPS

(* A change applied to a file it fits yields a file. *)
LEMMA AppliedIsFile ==
    ASSUME NEW c \in Change, NEW now \in File, FitsFile(c, now)
    PROVE  AppliedFile(c, now) \in File
<1>1. CASE TextChange(c)
  <2>1. c.old \in Regular /\ c.new \in Regular /\ now \in Regular
    BY <1>1 DEF TextChange, FitsFile
  <2>2. [k \in Parts |-> IF k \in Hunks(c) THEN c.new[k] ELSE now[k]] \in Regular
    BY <2>1 DEF Regular
  <2> QED BY <1>1, <2>2 DEF AppliedFile, File
<1>2. CASE ~TextChange(c)
  BY <1>2 DEF AppliedFile, Change
<1> QED BY <1>1, <1>2

(* ... and a patch that fits a tree makes a tree of it. *)
LEMMA AppliedIsTree ==
    ASSUME NEW d, IsDiff(d), NEW tree \in Tree,
           \A p \in DOMAIN d : FitsFile(d[p], tree[p]), NoClash(Applied(d, tree))
    PROVE  Applied(d, tree) \in Tree
<1>1. ASSUME NEW p \in Paths
      PROVE  (IF p \in DOMAIN d THEN AppliedFile(d[p], tree[p]) ELSE tree[p]) \in File
  <2>1. tree[p] \in File
    BY DEF Tree
  <2>2. CASE p \in DOMAIN d
    <3>1. d[p] \in Change /\ FitsFile(d[p], tree[p])
      BY <2>2 DEF IsDiff
    <3> QED BY <2>1, <2>2, <3>1, AppliedIsFile
  <2> QED BY <2>1, <2>2
<1>2. Applied(d, tree) \in [Paths -> File]
  BY <1>1 DEF Applied
<1> QED BY <1>2 DEF Tree

(* The difference of two trees is a patch that fits the first and makes the *)
(* second of it.                                                            *)
LEMMA DiffOfIsDiff ==
    ASSUME NEW from \in Tree, NEW to \in Tree
    PROVE  IsDiff(DiffOf(from, to)) /\ DOMAIN DiffOf(from, to) = Changed(from, to)
<1>1. DOMAIN DiffOf(from, to) = Changed(from, to)
  BY DEF DiffOf
<1>2. Changed(from, to) \subseteq Paths
  BY DEF Changed
<1>3. ASSUME NEW p \in Changed(from, to)
      PROVE  [old |-> from[p], new |-> to[p]] \in Change
  BY <1>3 DEF Changed, Change, Tree
<1>4. DiffOf(from, to) \in [Changed(from, to) -> Change]
  BY <1>3 DEF DiffOf
<1> QED BY <1>1, <1>2, <1>4 DEF IsDiff

(* A tree is what its entries, written one by one, make. *)
LEMMA EntriesMakeTree ==
    ASSUME NEW tree \in Tree
    PROVE  TreeOf(FileEntries(tree)) = tree
<1>1. ASSUME NEW p \in Paths, tree[p] # Absent
      PROVE  /\ \E e \in FileEntries(tree) : e.path = p
             /\ \A e \in FileEntries(tree) : e.path = p => e.file = tree[p]
  <2> DEFINE entry == [type |-> "file", path |-> p, file |-> tree[p]]
  <2>1. entry \in FileEntries(tree) /\ entry.path = p
    BY <1>1 DEF FileEntries
  <2>2. ASSUME NEW e \in FileEntries(tree), e.path = p
        PROVE  e.file = tree[p]
    BY <2>2 DEF FileEntries
  <2> QED BY <2>1, <2>2
<1>2. ASSUME NEW p \in Paths, tree[p] = Absent
      PROVE  ~ \E e \in FileEntries(tree) : e.path = p
  BY <1>2 DEF FileEntries
<1>3. ASSUME NEW p \in Paths
      PROVE  (IF \E e \in FileEntries(tree) : e.path = p
              THEN (CHOOSE e \in FileEntries(tree) : e.path = p).file
              ELSE Absent) = tree[p]
  BY <1>1, <1>2
<1>4. tree = [p \in Paths |-> tree[p]]
  BY DEF Tree
<1> QED BY <1>3, <1>4 DEF TreeOf

(* The differences of snapshots are paths. *)
LEMMA ReportedPaths ==
    ASSUME NEW old, NEW new
    PROVE  CompareSnapshots(Snapshot(old), Snapshot(new)) \subseteq Paths
BY DEF CompareSnapshots, Snapshot

(* A write leaves a tree. *)
LEMMA WriteKeepsTree ==
    ASSUME NEW tree \in Tree, NEW p \in Paths, NEW file \in File,
           NoClash([tree EXCEPT ![p] = file])
    PROVE  [tree EXCEPT ![p] = file] \in Tree
<1>1. [tree EXCEPT ![p] = file] \in [Paths -> File]
  BY DEF Tree
<1> QED BY <1>1 DEF Tree

(* What the actor's replay lets pass, the client's does: its limits are as   *)
(* wide or wider.                                                           *)
LEMMA ValidForClient ==
    ASSUME NEW src, NEW x, Valid(src, x, ActorOptions)
    PROVE  Valid(src, x, ClientOptions)
<1> DEFINE result == Applied(x.diff, src.tree)
<1>1. Transportable(result, ActorOptions) /\ SmallPatch(x.diff, ActorOptions)
  BY DEF Valid
<1> HIDE DEF result
<1>2. /\ IsFiniteSet(Present(result)) /\ Cardinality(Present(result)) <= ActorOptions.maxFiles
      /\ \A p \in Present(result) : SmallFile(result[p], ActorOptions)
  BY <1>1 DEF Transportable, FewFiles
<1>3. Cardinality(Present(result)) \in Nat
  BY <1>2, FS_CardinalityType
<1>4. Cardinality(Present(result)) <= ClientOptions.maxFiles
  BY <1>2, <1>3, OptionsAssumption DEF IsOptions
<1>5. \A p \in Present(result) : SmallFile(result[p], ClientOptions)
  BY <1>2, OptionsAssumption DEF SmallFile
<1>6. Transportable(result, ClientOptions)
  BY <1>1, <1>2, <1>4, <1>5 DEF Transportable, FewFiles
<1>7. SmallPatch(x.diff, ClientOptions)
  BY <1>1, OptionsAssumption DEF SmallPatch
<1> QED BY <1>6, <1>7 DEF Valid, result

-----------------------------------------------------------------------------
(* A run begins with the client's source, and nothing else. *)
LEMMA InitInv == Init => IInv
<1> SUFFICES ASSUME Init PROVE IInv
  OBVIOUS
<1>1. Empty \in Tree
  BY DEF Empty, Tree, File, NoClash, Present
<1>2. source \in [revision : Nat, tree : Tree] /\ request.entries = FileEntries(source.tree)
  BY DEF Init, Requests
<1>3. {workspace, baseline, index, accepted, acceptedHead, candidate} \subseteq Tree
  BY <1>1 DEF Init
<1>4. edits \in 0..MaxEdits
  BY EditsAssumption DEF Init
<1>5. phase \in Phases /\ {tested, moved, touched} \subseteq BOOLEAN /\ reported \subseteq Paths
  BY DEF Init, Phases
<1>6. TypeOK
  BY <1>2, <1>3, <1>4, <1>5 DEF TypeOK
<1>7. BaselineIsSource /\ PatchIsDiff /\ Replayed /\ TestedTree
  BY DEF Init, BaselineIsSource, Begun, PatchIsDiff, Replayed, TestedTree
<1> QED BY <1>6, <1>7 DEF IInv

(* Unpacking, the baseline commit and the first snapshot. *)
LEMMA Unpacking ==
    ASSUME IInv, Materialize \/ InitializeActorBaseline
    PROVE  IInv'
<1> USE DEF IInv, inputVars, agentVars, exportVars, acceptVars
<1>1. CASE Materialize
  <2> USE <1>1 DEF Materialize, Goto
  <2>1. workspace' = source.tree
    BY EntriesMakeTree DEF Materializable, TypeOK
  <2>2. TypeOK'
    BY <2>1 DEF TypeOK, Phases
  <2>3. BaselineIsSource'
    BY <2>1 DEF BaselineIsSource, Begun
  <2>4. PatchIsDiff' /\ Replayed' /\ TestedTree'
    BY DEF PatchIsDiff, Replayed, TestedTree
  <2> QED BY <2>2, <2>3, <2>4
<1>2. CASE InitializeActorBaseline
  <2> USE <1>2 DEF InitializeActorBaseline, Goto
  <2>1. TypeOK'
    BY DEF TypeOK, Phases
  <2>2. BaselineIsSource'
    BY DEF BaselineIsSource, Begun
  <2>3. PatchIsDiff' /\ Replayed' /\ TestedTree'
    BY DEF PatchIsDiff, Replayed, TestedTree
  <2> QED BY <2>1, <2>2, <2>3
<1> QED BY <1>1, <1>2

(* Writes, tests and the end of the agent. *)
LEMMA Working ==
    ASSUME IInv,
           AgentCommits \/ AgentTests \/ AgentEnds \/ \E p \in Paths, file \in File : Write(p, file)
    PROVE  IInv'
<1> USE DEF IInv, inputVars, agentVars, exportVars, acceptVars
<1>1. ASSUME NEW p \in Paths, NEW file \in File, Write(p, file)
      PROVE  IInv'
  <2> USE <1>1 DEF Write
  <2>1. workspace' \in Tree
    BY WriteKeepsTree DEF TypeOK
  <2>2. edits' \in 0..MaxEdits
    BY EditsAssumption DEF TypeOK
  <2>3. TypeOK'
    BY <2>1, <2>2 DEF TypeOK
  <2>4. BaselineIsSource'
    BY DEF BaselineIsSource, Begun
  <2>5. PatchIsDiff' /\ Replayed' /\ TestedTree'
    BY DEF PatchIsDiff, Replayed, TestedTree
  <2> QED BY <2>3, <2>4, <2>5
<1>2. CASE AgentTests
  BY <1>2 DEF AgentTests, TypeOK, BaselineIsSource, Begun, PatchIsDiff, Replayed, TestedTree
<1>3. CASE AgentEnds
  <2> USE <1>3 DEF AgentEnds, Goto
  <2>1. reported' \subseteq Paths
    BY ReportedPaths DEF BaselineIsSource, Begun
  <2>2. TypeOK'
    BY <2>1 DEF TypeOK, Phases
  <2>3. BaselineIsSource' /\ PatchIsDiff' /\ Replayed' /\ TestedTree'
    BY DEF BaselineIsSource, Begun, PatchIsDiff, Replayed, TestedTree
  <2> QED BY <2>2, <2>3
<1>4. CASE AgentCommits
  <2> USE <1>4 DEF AgentCommits
  <2>1. edits' \in 0..MaxEdits
    BY EditsAssumption DEF TypeOK
  <2>2. TypeOK'
    BY <2>1 DEF TypeOK
  <2>3. BaselineIsSource'
    BY DEF BaselineIsSource, Begun
  <2>4. PatchIsDiff' /\ Replayed' /\ TestedTree'
    BY DEF PatchIsDiff, Replayed, TestedTree
  <2> QED BY <2>2, <2>3, <2>4
<1> QED BY <1>1, <1>2, <1>3, <1>4

(* exportActorPatch *)
LEMMA Exporting ==
    ASSUME IInv, ScanWorkspace \/ Stage \/ ExportPatch
    PROVE  IInv'
<1> USE DEF IInv, inputVars, agentVars, exportVars, acceptVars, Goto
<1>1. CASE ScanWorkspace \/ Stage
  <2> USE <1>1 DEF ScanWorkspace, Stage
  <2>1. TypeOK'
    BY DEF TypeOK, Phases
  <2>2. BaselineIsSource'
    BY DEF BaselineIsSource, Begun
  <2>3. PatchIsDiff' /\ Replayed' /\ TestedTree'
    BY DEF PatchIsDiff, Replayed, TestedTree
  <2> QED BY <2>1, <2>2, <2>3
<1>2. CASE ExportPatch
  <2> USE <1>2 DEF ExportPatch
  <2>1. TypeOK' /\ BaselineIsSource'
    BY DEF TypeOK, Phases, BaselineIsSource, Begun
  <2>2. IsDiff(patch'.diff)
    BY DiffOfIsDiff DEF TypeOK
  <2>3. PatchIsDiff'
    BY <2>2 DEF PatchIsDiff
  <2>4. Replayed' /\ TestedTree'
    BY DEF Replayed, TestedTree
  <2> QED BY <2>1, <2>3, <2>4
<1> QED BY <1>1, <1>2

(* Replay and acceptance. *)
LEMMA Accepting ==
    ASSUME IInv,
           \/ Replay \/ StartAcceptanceTest \/ TestCommits \/ TestPasses \/ Accept
           \/ \E p \in Paths, file \in File : TestWrites(p, file)
    PROVE  IInv'
<1> USE DEF IInv, inputVars, agentVars, exportVars, acceptVars, Goto
<1>1. CASE Replay
  <2> USE <1>1 DEF Replay
  <2>1. accepted' \in Tree
    BY AppliedIsTree DEF PatchIsDiff, Valid, Fits, TypeOK
  <2>2. TypeOK' /\ BaselineIsSource'
    BY <2>1 DEF TypeOK, Phases, BaselineIsSource, Begun
  <2>3. PatchIsDiff'
    BY DEF PatchIsDiff
  <2>4. Replayed'
    BY DEF Replayed
  <2>5. TestedTree'
    BY DEF TestedTree
  <2> QED BY <2>2, <2>3, <2>4, <2>5
<1>2. CASE StartAcceptanceTest \/ TestPasses
  <2> USE <1>2 DEF StartAcceptanceTest, TestPasses
  <2>1. TypeOK' /\ BaselineIsSource'
    BY DEF TypeOK, Phases, BaselineIsSource, Begun
  <2>2. PatchIsDiff'
    BY DEF PatchIsDiff
  <2>3. Replayed' /\ TestedTree'
    BY DEF Replayed, TestedTree
  <2> QED BY <2>1, <2>2, <2>3
<1>3. ASSUME NEW p \in Paths, NEW file \in File, TestWrites(p, file)
      PROVE  IInv'
  <2> USE <1>3 DEF TestWrites
  <2>1. /\ accepted \in Tree /\ accepted' = [accepted EXCEPT ![p] = file]
        /\ NoClash([accepted EXCEPT ![p] = file])
    BY DEF TypeOK, NoClash, Present
  <2>2. accepted' \in Tree
    <3> HIDE <1>3 DEF TestWrites
    <3>1. [accepted EXCEPT ![p] = file] \in Tree
      BY <2>1, WriteKeepsTree
    <3> QED BY <2>1, <3>1
  <2>3. edits' \in 0..MaxEdits
    BY EditsAssumption DEF TypeOK
  <2>4. TypeOK' /\ BaselineIsSource'
    BY <2>2, <2>3 DEF TypeOK, BaselineIsSource, Begun
  <2>5. PatchIsDiff'
    BY DEF PatchIsDiff
  <2>6. Replayed' /\ TestedTree'
    BY DEF Replayed, TestedTree
  <2> QED BY <2>4, <2>5, <2>6
<1>4. CASE TestCommits
  <2> USE <1>4 DEF TestCommits
  <2>1. edits' \in 0..MaxEdits
    BY EditsAssumption DEF TypeOK
  <2>2. TypeOK' /\ BaselineIsSource'
    BY <2>1 DEF TypeOK, BaselineIsSource, Begun
  <2>3. PatchIsDiff'
    BY DEF PatchIsDiff
  <2>4. Replayed' /\ TestedTree'
    BY DEF Replayed, TestedTree
  <2> QED BY <2>2, <2>3, <2>4
<1>5. CASE Accept
  <2> USE <1>5 DEF Accept
  <2>1. TypeOK' /\ BaselineIsSource'
    BY DEF TypeOK, Phases, BaselineIsSource, Begun
  <2>2. PatchIsDiff'
    BY DEF PatchIsDiff
  <2>3. Replayed' /\ TestedTree'
    BY DEF Replayed, TestedTree
  <2> QED BY <2>1, <2>2, <2>3
<1> QED BY <1>1, <1>2, <1>3, <1>4, <1>5

(* Every step keeps the invariant. *)
LEMMA NextInv == IInv /\ [Next]_vars => IInv'
<1> SUFFICES ASSUME IInv, [Next]_vars PROVE IInv'
  OBVIOUS
<1>1. CASE RefuseRequest \/ NotAccepted \/ Throw
  BY <1>1 DEF RefuseRequest, NotAccepted, Throw, Goto, IInv, TypeOK, Phases, BaselineIsSource,
              Begun, PatchIsDiff, Replayed, TestedTree, inputVars, agentVars, exportVars, acceptVars
<1>2. CASE UNCHANGED vars
  BY <1>2 DEF vars, inputVars, agentVars, exportVars, acceptVars, IInv, TypeOK,
              BaselineIsSource, Begun, PatchIsDiff, Replayed, TestedTree
<1> QED BY <1>1, <1>2, Unpacking, Working, Exporting, Accepting DEF Next

(* The inductive invariant of a run: the agent begins on the client's        *)
(* source, and what is tested is that source with the agent's patch.        *)
THEOREM Invariance == Spec => []IInv
BY InitInv, NextInv, PTL DEF Spec

(* The agent begins on the client's source, against which its patch is taken *)
(* and its changes are reported.                                            *)
THEOREM AgentBeginsOnSource == Spec => []BaselineIsSource
<1>1. IInv => BaselineIsSource
  BY DEF IInv
<1> QED BY <1>1, Invariance, PTL

(* A patch that is answered makes of the source the tree the acceptance test *)
(* began on, unless that had been written to before, whatever is written or *)
(* committed otherwise.                                                     *)
THEOREM AcceptedTested == Spec => []AcceptedWasTested
<1>1. IInv => AcceptedWasTested
  <2> SUFFICES ASSUME IInv, phase = "accepted"
               PROVE  /\ ~touched => Applied(response.diff, source.tree) = candidate
                      /\ response.paths = reported
                      /\ Valid(source, response, ClientOptions)
    BY DEF AcceptedWasTested
  <2>1. response = patch /\ (~touched => candidate = Applied(patch.diff, source.tree))
    BY DEF IInv, TestedTree
  <2>2. patch.paths = reported /\ Valid(source, patch, ClientOptions)
    BY ValidForClient DEF IInv, Replayed
  <2> QED BY <2>1, <2>2
<1> QED BY <1>1, Invariance, PTL

-----------------------------------------------------------------------------
(* parseArchive, entry by entry: induction over the entries, as the absence *)
(* of a least counterexample.                                               *)

(* A set of natural numbers has a least element, *)
LEMMA LeastNumber ==
    ASSUME NEW N \in SUBSET Nat, N # {}
    PROVE  \E m \in N : \A k \in N : m <= k
<1> DEFINE R == {p \in Nat \X Nat : p[1] < p[2]}
<1>1. IsWellFoundedOn(R, Nat)
  BY NatLessThanWellFounded DEF OpToRel
<1>2. PICK m \in N : \A k \in N : ~ (<<k, m>> \in R)
  BY <1>1, WFMin
<1>3. ASSUME NEW k \in N PROVE m <= k
  <2>1. k \in Nat /\ m \in Nat /\ <<k, m>> \notin R
    BY <1>2
  <2> QED BY <2>1
<1> QED BY <1>3

(* ... and one of indices a greatest. *)
LEMMA GreatestIndex ==
    ASSUME NEW n \in Nat, NEW s \in SUBSET (1..n), s # {}
    PROVE  Max(s) \in s
<1> DEFINE D == {n - k : k \in s}
<1>1. D # {} /\ \A k \in s : n - k \in D
  OBVIOUS
<1>2. D \in SUBSET Nat
  OBVIOUS
<1>3. PICK d \in D : \A e \in D : d <= e
  BY <1>1, <1>2, LeastNumber
<1>4. PICK m \in s : d = n - m
  BY <1>3
<1>5. ASSUME NEW k \in s PROVE m >= k
  <2>1. n - m <= n - k
    BY <1>1, <1>3, <1>4
  <2> QED BY <2>1
<1> QED BY <1>5 DEF Max

(* Any function that follows parseArchive from its start, entry by entry,   *)
(* gives its result.                                                        *)
ParseStart == [failed |-> FALSE, entries |-> {}]

Parses(parse, archive) ==
    parse = [s \in SUBSET DOMAIN archive |->
               IF s = {} THEN ParseStart
               ELSE ParseEntry(parse[s \ {Max(s)}], archive[Max(s)])]

LEMMA ParsedBy ==
    ASSUME NEW n \in Nat, NEW archive, DOMAIN archive = 1..n, NEW parse, Parses(parse, archive)
    PROVE  Parsed(archive) = parse[1..n]
<1> DEFINE iter == CHOOSE g : Parses(g, archive)
<1>1. Parsed(archive) = iter[1..n]
  BY DEF Parsed, FoldLeft, MapThenFoldSet, Parses, ParseStart
<1>2. Parses(iter, archive)
  OBVIOUS
<1> HIDE DEF iter
<1>3. ASSUME NEW s \in SUBSET (1..n)
      PROVE  IsFiniteSet(s) /\ Cardinality(s) \in Nat
  <2>1. IsFiniteSet(1..n)
    BY FS_Interval
  <2>2. IsFiniteSet(s)
    BY <2>1, FS_Subset
  <2> QED BY <2>2, FS_CardinalityType
<1>4. ASSUME NEW s \in SUBSET (1..n), s # {}
      PROVE  /\ s \ {Max(s)} \in SUBSET (1..n)
             /\ Cardinality(s \ {Max(s)}) < Cardinality(s)
  <2>1. Max(s) \in s
    BY <1>4, GreatestIndex
  <2>2. IsFiniteSet(s) /\ Cardinality(s) \in Nat
    BY <1>3
  <2>3. Cardinality(s \ {Max(s)}) = Cardinality(s) - 1
    BY <2>1, <2>2, FS_RemoveElement
  <2>4. Cardinality(s \ {Max(s)}) < Cardinality(s)
    BY <2>2, <2>3
  <2> QED BY <2>4
<1> DEFINE Differ == {s \in SUBSET (1..n) : iter[s] # parse[s]}
<1>5. ASSUME Differ # {} PROVE FALSE
  <2> DEFINE N == {Cardinality(s) : s \in Differ}
  <2>1. N # {} /\ N \in SUBSET Nat
    BY <1>3, <1>5
  <2>2. PICK m \in N : \A k \in N : m <= k
    BY <2>1, LeastNumber
  <2>3. PICK s \in Differ : m = Cardinality(s)
    BY <2>2
  <2>4. CASE s = {}
    BY <1>2, <2>4, <2>3 DEF Parses
  <2>5. CASE s # {}
    <3>1. s \ {Max(s)} \in SUBSET (1..n) /\ Cardinality(s \ {Max(s)}) < Cardinality(s)
      BY <1>4, <2>5
    <3>2. s \ {Max(s)} \notin Differ
      <4>1. Cardinality(s) \in Nat /\ Cardinality(s \ {Max(s)}) \in Nat
        BY <1>3, <3>1
      <4>2. ~(Cardinality(s) <= Cardinality(s \ {Max(s)}))
        <5> HIDE DEF Differ
        <5> QED BY <3>1, <4>1
      <4>3. Cardinality(s \ {Max(s)}) \notin N
        <5> HIDE DEF N
        <5> QED BY <2>2, <2>3, <4>2
      <4> QED BY <4>3
    <3>3. iter[s \ {Max(s)}] = parse[s \ {Max(s)}]
      BY <3>1, <3>2
    <3>4. iter[s] = ParseEntry(iter[s \ {Max(s)}], archive[Max(s)])
      BY <1>2, <2>5 DEF Parses
    <3>5. parse[s] = ParseEntry(parse[s \ {Max(s)}], archive[Max(s)])
      BY <2>5 DEF Parses
    <3> QED BY <3>3, <3>4, <3>5
  <2> QED BY <2>4, <2>5
<1>6. iter[1..n] = parse[1..n]
  BY <1>5
<1> QED BY <1>1, <1>6

-----------------------------------------------------------------------------
(* The archive of a tree within the limits of a SourceTransport.            *)

(* It has as many entries as the tree has files, and no more than the limit. *)
LEMMA FilesFit ==
    ASSUME NEW tree \in Tree, NEW o, IsOptions(o), Archivable(tree, o)
    PROVE  /\ IsFiniteSet(FileEntries(tree))
           /\ Cardinality(FileEntries(tree)) \in Nat
           /\ Cardinality(FileEntries(tree)) = Cardinality(Present(tree))
           /\ Cardinality(FileEntries(tree)) <= o.maxFiles
<1> DEFINE present == Present(tree)
           entry == [p \in present |-> [type |-> "file", path |-> p, file |-> tree[p]]]
           path == [e \in FileEntries(tree) |-> e.path]
<1>1. IsFiniteSet(present) /\ Cardinality(present) <= o.maxFiles
  BY DEF Archivable, Transportable, FewFiles
<1>2. entry \in Surjection(present, FileEntries(tree))
  BY DEF Present, FileEntries, Surjection
<1>3. path \in Surjection(FileEntries(tree), present)
  <2>1. path \in [FileEntries(tree) -> present]
    BY DEF Present, FileEntries
  <2>2. ASSUME NEW p \in present PROVE \E e \in FileEntries(tree) : path[e] = p
    <3> DEFINE e == [type |-> "file", path |-> p, file |-> tree[p]]
    <3>1. e \in FileEntries(tree) /\ e.path = p
      BY DEF Present, FileEntries
    <3> QED BY <3>1
  <2> QED BY <2>1, <2>2 DEF Surjection
<1> HIDE DEF present, entry, path
<1>4. /\ IsFiniteSet(FileEntries(tree))
      /\ Cardinality(FileEntries(tree)) <= Cardinality(present)
  BY <1>1, <1>2, FS_Surjection
<1>5. Cardinality(present) <= Cardinality(FileEntries(tree))
  BY <1>3, <1>4, FS_Surjection
<1>6. Cardinality(present) \in Nat /\ Cardinality(FileEntries(tree)) \in Nat
  BY <1>1, <1>4, FS_CardinalityType
<1>7. Cardinality(FileEntries(tree)) = Cardinality(present)
  BY <1>4, <1>5, <1>6
<1> QED BY <1>1, <1>4, <1>6, <1>7 DEF present

(* A finite set, made a sequence, has each of its elements at one place. *)
LEMMA SetToSeqBijection ==
    ASSUME NEW S, IsFiniteSet(S)
    PROVE  SetToSeq(S) \in Bijection(1..Cardinality(S), S)
<1> DEFINE n == Cardinality(S)
<1>1. n \in Nat /\ ExistsBijection(1..n, S)
  BY FS_CardinalityType
<1>2. PICK f \in Bijection(1..n, S) : TRUE
  BY <1>1 DEF ExistsBijection
<1>3. f \in [1..n -> S] /\ IsInjective(f)
  BY <1>2 DEF Bijection, Injection, IsInjective
<1>4. SetToSeq(S) \in [1..n -> S] /\ IsInjective(SetToSeq(S))
  BY <1>3 DEF SetToSeq
<1>5. SetToSeq(S) \in Injection(1..n, S)
  BY <1>4 DEF Injection, IsInjective
<1>6. Cardinality(1..n) = n
  BY <1>1, FS_Interval
<1> HIDE DEF n
<1>7. SetToSeq(S) \in Surjection(1..n, S)
  BY <1>1, <1>5, <1>6, FS_Injection DEF n
<1> QED BY <1>5, <1>7 DEF Bijection, n

(* Two headers, and each file once. *)
LEMMA ArchiveShape ==
    ASSUME NEW tree \in Tree, Archivable(tree, ActorOptions),
           NEW n, n = Cardinality(FileEntries(tree))
    PROVE  LET archive == ArchiveOf(tree) IN
           /\ n \in Nat
           /\ DOMAIN archive = 1..(n + 2)
           /\ archive[1] = Header /\ archive[2] = Directory
           /\ \A i \in 3..(n + 2) : archive[i] \in FileEntries(tree)
           /\ \A i, j \in 3..(n + 2) : archive[i] = archive[j] => i = j
           /\ \A e \in FileEntries(tree) : \E i \in 3..(n + 2) : archive[i] = e
<1> DEFINE S == FileEntries(tree)
           seq == SetToSeq(S)
           head == <<Header, Directory>>
           T == S \union {Header, Directory}
<1>1. IsFiniteSet(S) /\ n \in Nat
  BY FilesFit, OptionsAssumption
<1>2. seq \in Bijection(1..n, S)
  BY <1>1, SetToSeqBijection
<1>3. /\ seq \in [1..n -> S]
      /\ \A i, j \in 1..n : seq[i] = seq[j] => i = j
      /\ \A e \in S : \E i \in 1..n : seq[i] = e
  BY <1>2 DEF Bijection, Injection, Surjection, IsInjective
<1>4. ArchiveOf(tree) = head \o seq
  BY DEF ArchiveOf
<1> HIDE DEF S, seq
<1>5. head \in Seq(T) /\ Len(head) = 2 /\ head[1] = Header /\ head[2] = Directory
  OBVIOUS
<1>6. seq \in Seq(T) /\ Len(seq) = n
  BY <1>1, <1>3
<1> HIDE DEF head, T
<1>7. /\ head \o seq \in Seq(T)
      /\ Len(head \o seq) = n + 2
      /\ \A i \in 1..(n + 2) :
            (head \o seq)[i] = IF i <= 2 THEN head[i] ELSE seq[i - 2]
  <2>1. /\ head \o seq \in Seq(T)
        /\ Len(head \o seq) = Len(head) + Len(seq)
        /\ \A i \in 1 .. Len(head) + Len(seq) :
              (head \o seq)[i] = IF i <= Len(head) THEN head[i] ELSE seq[i - Len(head)]
    BY <1>5, <1>6, ConcatProperties
  <2>2. Len(head) + Len(seq) = n + 2
    BY <1>1, <1>5, <1>6
  <2> QED BY <1>5, <2>1, <2>2
<1> DEFINE archive == head \o seq
<1>8. DOMAIN archive = 1..(n + 2)
  BY <1>7
<1> HIDE DEF archive
<1>9. archive[1] = Header /\ archive[2] = Directory
  BY <1>1, <1>5, <1>7 DEF archive
<1>10. \A i \in 3..(n + 2) : i - 2 \in 1..n /\ archive[i] = seq[i - 2]
  BY <1>1, <1>7 DEF archive
<1>11. \A i \in 3..(n + 2) : archive[i] \in S
  BY <1>3, <1>10
<1>12. ASSUME NEW i \in 3..(n + 2), NEW j \in 3..(n + 2), archive[i] = archive[j]
       PROVE  i = j
  <2>1. i - 2 = j - 2
    BY <1>3, <1>10, <1>12
  <2> QED BY <1>1, <2>1
<1>13. ASSUME NEW e \in S PROVE \E i \in 3..(n + 2) : archive[i] = e
  <2>1. PICK i \in 1..n : seq[i] = e
    BY <1>3
  <2>2. i + 2 \in 3..(n + 2) /\ (i + 2) - 2 = i
    BY <1>1
  <2>3. archive[i + 2] = e
    BY <1>10, <2>1, <2>2
  <2> QED BY <2>2, <2>3
<1> QED BY <1>1, <1>4, <1>8, <1>9, <1>11, <1>12, <1>13 DEF S, archive

(* A new file of such a tree is taken, *)
LEMMA FileIsTaken ==
    ASSUME NEW tree \in Tree, Archivable(tree, ActorOptions),
           NEW entries \in SUBSET FileEntries(tree),
           NEW e \in FileEntries(tree), e \notin entries
    PROVE  ParseEntry([failed |-> FALSE, entries |-> entries], e)
             = [failed |-> FALSE, entries |-> entries \union {e}]
<1> DEFINE S == FileEntries(tree)
<1>1. /\ e.type = "file" /\ e.path \in Paths /\ tree[e.path] # Absent
      /\ \A o \in S : o.path = e.path => o = e
  BY DEF FileEntries
<1>2. e.path \notin CredentialPaths /\ SmallFile(e.file, ActorOptions)
  <2>1. e.path \in Present(tree) /\ e.file = tree[e.path]
    BY <1>1 DEF Present, FileEntries
  <2> QED BY <2>1 DEF Archivable, Transportable
<1>3. ~ \E o \in entries : o.path = e.path
  BY <1>1
<1>4. ~ (Cardinality(entries) >= ActorOptions.maxFiles)
  <2>0. ActorOptions.maxFiles \in Nat
    BY OptionsAssumption DEF IsOptions
  <2>1. IsFiniteSet(S) /\ Cardinality(S) \in Nat /\ Cardinality(S) <= ActorOptions.maxFiles
    BY FilesFit, OptionsAssumption
  <2>2. IsFiniteSet(S \ {e}) /\ Cardinality(S \ {e}) = Cardinality(S) - 1
    BY <2>1, FS_RemoveElement
  <2>3. IsFiniteSet(entries) /\ Cardinality(entries) <= Cardinality(S \ {e})
    BY <2>2, FS_Subset
  <2>4. Cardinality(entries) \in Nat
    BY <2>3, FS_CardinalityType
  <2> HIDE DEF S
  <2> QED BY <2>0, <2>1, <2>2, <2>3, <2>4
<1> QED BY <1>1, <1>2, <1>3, <1>4 DEF ParseEntry

(* ... and headers leave things as they are. *)
LEMMA HeaderIsPassed ==
    ASSUME NEW parsed, NEW e \in {Header, Directory}
    PROVE  ParseEntry(parsed, e) = parsed
BY DEF ParseEntry, Header, Directory

(* parseArchive finds what git archive put in: neither more nor less. *)
LEMMA ArchiveIsParsed ==
    ASSUME NEW tree \in Tree, Archivable(tree, ActorOptions)
    PROVE  Parsed(ArchiveOf(tree)) = [failed |-> FALSE, entries |-> FileEntries(tree)]
<1> DEFINE S == FileEntries(tree)
           n == Cardinality(S)
           archive == ArchiveOf(tree)
           found(s) == {archive[i] : i \in {j \in s : j > 2}}
           parse == [s \in SUBSET (1..(n + 2)) |-> [failed |-> FALSE, entries |-> found(s)]]
<1>1. /\ n \in Nat
      /\ DOMAIN archive = 1..(n + 2)
      /\ archive[1] = Header /\ archive[2] = Directory
      /\ \A i \in 3..(n + 2) : archive[i] \in S
      /\ \A i, j \in 3..(n + 2) : archive[i] = archive[j] => i = j
      /\ \A e \in S : \E i \in 3..(n + 2) : archive[i] = e
  BY ArchiveShape
<1> HIDE DEF n, archive
<1>2. n + 2 \in Nat
  BY <1>1
<1>3. ASSUME NEW s \in SUBSET (1..(n + 2)), s # {}
      PROVE  ParseEntry([failed |-> FALSE, entries |-> found(s \ {Max(s)})], archive[Max(s)])
               = [failed |-> FALSE, entries |-> found(s)]
  <2> DEFINE m == Max(s)
  <2>1. m \in s
    BY <1>2, <1>3, GreatestIndex
  <2> HIDE DEF m
  <2>2. m \in 1..(n + 2) /\ m \in Nat
    BY <1>2, <2>1
  <2>3. CASE m <= 2
    <3>1. m = 1 \/ m = 2
      BY <2>2, <2>3
    <3>2. archive[m] \in {Header, Directory}
      BY <1>1, <3>1
    <3>3. {j \in s : j > 2} = {j \in s \ {m} : j > 2}
      BY <3>1
    <3>4. found(s) = found(s \ {m})
      BY <3>3
    <3> QED BY <3>2, <3>4, HeaderIsPassed DEF m
  <2>4. CASE ~(m <= 2)
    <3>1. m \in 3..(n + 2) /\ m > 2
      BY <1>2, <2>2, <2>4
    <3>2. \A i \in {j \in s \ {m} : j > 2} : i \in 3..(n + 2) /\ i # m
      BY <1>2
    <3>3. found(s \ {m}) \in SUBSET S
      BY <1>1, <3>2
    <3>4. archive[m] \in S
      BY <1>1, <3>1
    <3>5. archive[m] \notin found(s \ {m})
      BY <1>1, <3>1, <3>2
    <3>6. {j \in s : j > 2} = {j \in s \ {m} : j > 2} \union {m}
      BY <2>1, <3>1
    <3>7. found(s) = found(s \ {m}) \union {archive[m]}
      BY <3>6
    <3> HIDE DEF found
    <3>8. ParseEntry([failed |-> FALSE, entries |-> found(s \ {m})], archive[m])
            = [failed |-> FALSE, entries |-> found(s \ {m}) \union {archive[m]}]
      BY <3>3, <3>4, <3>5, FileIsTaken
    <3> QED BY <3>7, <3>8 DEF m
  <2> QED BY <2>3, <2>4
<1>4. Parses(parse, archive)
  <2>1. found({}) = {}
    OBVIOUS
  <2> HIDE DEF found
  <2>2. ASSUME NEW s \in SUBSET (1..(n + 2))
        PROVE  parse[s] = IF s = {} THEN ParseStart
                          ELSE ParseEntry(parse[s \ {Max(s)}], archive[Max(s)])
    <3>1. CASE s = {}
      BY <2>1, <3>1 DEF ParseStart
    <3>2. CASE s # {}
      <4>1. parse[s \ {Max(s)}] = [failed |-> FALSE, entries |-> found(s \ {Max(s)})]
        OBVIOUS
      <4> QED BY <1>3, <3>2, <4>1
    <3> QED BY <3>1, <3>2
  <2>3. DOMAIN parse = SUBSET DOMAIN archive
    BY <1>1
  <2> QED BY <1>1, <2>2, <2>3 DEF Parses
<1>5. found(1..(n + 2)) = S
  <2>1. {j \in 1..(n + 2) : j > 2} = 3..(n + 2)
    BY <1>2
  <2> QED BY <1>1, <2>1
<1>6. Parsed(archive) = parse[1..(n + 2)]
  <2> HIDE DEF parse
  <2> QED BY <1>1, <1>2, <1>4, ParsedBy
<1> QED BY <1>5, <1>6 DEF archive

-----------------------------------------------------------------------------
(* The request a run works on stays the one that came. *)
Sent ==
    /\ source.tree \in Tree /\ Archivable(source.tree, ClientOptions)
    /\ request \in Requests(source.tree)

LEMMA SentInv == Spec => []Sent
<1>1. Init => Sent
  BY DEF Init, Sent
<1>2. Next => UNCHANGED inputVars
  BY DEF Next, RefuseRequest, Materialize, InitializeActorBaseline, Write, TestWrites, AgentCommits,
         AgentTests, AgentEnds, ScanWorkspace, Stage, ExportPatch, Replay, StartAcceptanceTest,
         TestCommits, TestPasses, Accept, NotAccepted, Throw, inputVars
<1>3. UNCHANGED vars => UNCHANGED inputVars
  BY DEF vars
<1>4. Sent /\ UNCHANGED inputVars => Sent'
  BY DEF Sent, inputVars
<1>5. Sent /\ [Next]_vars => Sent'
  BY <1>2, <1>3, <1>4
<1> QED BY <1>1, <1>5, PTL DEF Spec

(* isRunRequest asks for the actor's limits, of a tree that the client's     *)
(* have let pass.                                                           *)
LEMMA RequestWithinLimits ==
    ASSUME Sent
    PROVE  IsRunRequest(request) <=>
             Archivable(source.tree, ActorOptions) /\ Present(source.tree) # {}
<1> DEFINE tree == source.tree
<1>1. request.entries = FileEntries(tree) /\ tree \in Tree /\ Archivable(tree, ClientOptions)
  BY DEF Sent, Requests
<1> HIDE DEF tree
<1>2. /\ IsFiniteSet(Present(tree)) /\ IsFiniteSet(FileEntries(tree))
      /\ Cardinality(FileEntries(tree)) = Cardinality(Present(tree))
  BY <1>1, FilesFit, OptionsAssumption DEF Archivable, Transportable, FewFiles
<1>3. FileEntries(tree) # {} <=> Present(tree) # {}
  BY DEF FileEntries, Present
<1>4. (\A e \in FileEntries(tree) : SmallFile(e.file, ActorOptions))
        <=> \A p \in Present(tree) : SmallFile(tree[p], ActorOptions)
  <2>1. ASSUME NEW p \in Present(tree),
               \A e \in FileEntries(tree) : SmallFile(e.file, ActorOptions)
        PROVE  SmallFile(tree[p], ActorOptions)
    <3> DEFINE e == [type |-> "file", path |-> p, file |-> tree[p]]
    <3>1. e \in FileEntries(tree) /\ e.file = tree[p]
      BY DEF FileEntries, Present
    <3> QED BY <2>1, <3>1
  <2>2. ASSUME NEW e \in FileEntries(tree)
        PROVE  e.path \in Present(tree) /\ e.file = tree[e.path]
    BY DEF FileEntries, Present
  <2> QED BY <2>1, <2>2
<1>5. Archivable(tree, ActorOptions) <=>
        /\ Cardinality(FileEntries(tree)) <= ActorOptions.maxFiles
        /\ \A p \in Present(tree) : SmallFile(tree[p], ActorOptions)
  BY <1>1, <1>2 DEF Archivable, Transportable, FewFiles
<1> QED BY <1>1, <1>3, <1>4, <1>5 DEF IsRunRequest, tree

(* The source arrives: of the trees the client's createSourceArchive lets    *)
(* pass, the actor refuses at once those beyond its own limits, and an      *)
(* archive of any other that is not damaged on its way passes all its       *)
(* checks.                                                                  *)
THEOREM SourceArrival == Spec => []SourceArrives
<1>1. Sent => SourceArrives
  <2> SUFFICES ASSUME Sent, request.intact, IsRunRequest(request)
               PROVE  Materializable(request)
    BY RequestWithinLimits DEF SourceArrives
  <2>1. /\ request.archive = ArchiveOf(source.tree)
        /\ request.entries = FileEntries(source.tree)
    BY DEF Sent, Requests
  <2>2. Archivable(source.tree, ActorOptions) /\ source.tree \in Tree
    BY RequestWithinLimits DEF Sent
  <2>3. Parsed(ArchiveOf(source.tree))
          = [failed |-> FALSE, entries |-> FileEntries(source.tree)]
    BY <2>2, ArchiveIsParsed
  <2> QED BY <2>1, <2>3 DEF Materializable
<1> QED BY <1>1, SentInv, PTL
=============================================================================
