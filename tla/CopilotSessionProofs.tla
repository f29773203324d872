------------------------- MODULE CopilotSessionProofs -------------------------
(* Theorems of CopilotSession. *)
EXTENDS CopilotSession, SequenceTheorems, FiniteSetTheorems, TLAPS

(* A turn that is handed an event keeps the types. *)
LEMMA SettleTypes ==
    ASSUME TypeOK, NEW t \in Turns, NEW e \in Events, Settle(t, e)
    PROVE  /\ turn' \in [Turns -> {"idle", "waiting"} \union Ended]
           /\ got' \in [Turns -> Turns \union {None}]
           /\ told' \subseteq Calls
<1>1. e.run \in Turns \union {None} /\ {e.call} \ {None} \subseteq Calls
  BY DEF Events
<1>2. turn' \in [Turns -> {"idle", "waiting"} \union Ended]
  BY DEF TypeOK, Settle, Ended
<1>3. got' \in [Turns -> Turns \union {None}]
  BY <1>1 DEF TypeOK, Settle
<1>4. told' \subseteq Calls
  BY <1>1 DEF TypeOK, Settle
<1> QED BY <1>2, <1>3, <1>4

(* ... and so does an event that is pushed, *)
LEMMA PushTypes ==
    ASSUME TypeOK, NEW e \in Events, Push(e)
    PROVE  /\ turn' \in [Turns -> {"idle", "waiting"} \union Ended]
           /\ got' \in [Turns -> Turns \union {None}]
           /\ told' \subseteq Calls
           /\ values' \in Seq(Events) /\ waiters' \in Seq(Turns)
<1>1. CASE waiters = <<>>
  <2>1. values' = Append(values, e) /\ UNCHANGED <<waiters, turn, got, told>>
    BY <1>1 DEF Push
  <2>2. Append(values, e) \in Seq(Events)
    BY AppendProperties DEF TypeOK
  <2> QED BY <2>1, <2>2 DEF TypeOK
<1>2. CASE waiters # <<>>
  <2>1. Head(waiters) \in Turns /\ Tail(waiters) \in Seq(Turns)
    BY <1>2, HeadTailProperties DEF TypeOK
  <2>2. values' = values /\ waiters' = Tail(waiters)
        /\ (Settle(Head(waiters), e) \/ UNCHANGED <<turn, got, told>>)
    BY <1>2 DEF Push
  <2> QED BY <2>1, <2>2, SettleTypes DEF TypeOK
<1> QED BY <1>1, <1>2

(* ... or a turn that asks for one. *)
LEMMA ShiftTypes ==
    ASSUME TypeOK, NEW t \in Turns, Shift(t)
    PROVE  /\ turn' \in [Turns -> {"idle", "waiting"} \union Ended]
           /\ got' \in [Turns -> Turns \union {None}]
           /\ told' \subseteq Calls
           /\ values' \in Seq(Events) /\ waiters' \in Seq(Turns)
<1>1. CASE values # <<>>
  <2>1. Head(values) \in Events /\ Tail(values) \in Seq(Events)
    BY <1>1, HeadTailProperties DEF TypeOK
  <2>2. values' = Tail(values) /\ waiters' = waiters /\ Settle(t, Head(values))
    BY <1>1 DEF Shift
  <2> QED BY <2>1, <2>2, SettleTypes DEF TypeOK
<1>2. CASE values = <<>>
  <2>1. turn' = [turn EXCEPT ![t] = "waiting"] /\ waiters' = Append(waiters, t)
        /\ UNCHANGED <<got, told, values>>
    BY <1>2 DEF Shift
  <2>2. Append(waiters, t) \in Seq(Turns)
    BY AppendProperties DEF TypeOK
  <2> QED BY <2>1, <2>2 DEF TypeOK
<1> QED BY <1>1, <1>2

(* Every event the SDK or a deletion pushes is one. *)
LEMMA EventsPushed ==
    ASSUME TypeOK
    PROVE  /\ \A r \in Turns, c \in Calls : Event("tool_calls", r, c) \in Events
           /\ \A r \in Turns : Event("assistant", r, None) \in Events
           /\ Event("error", run, None) \in Events /\ Event("error", None, None) \in Events
BY DEF TypeOK, Event, Events

(* Every step keeps the types. *)
LEMMA TypeStep == TypeOK /\ [Next]_vars => TypeOK'
<1> SUFFICES ASSUME TypeOK, [Next]_vars PROVE TypeOK'
  OBVIOUS
<1> USE DEF turnVars, runVars, queueVars, history
<1>1. ASSUME NEW t \in Turns, SendPrompt(t) PROVE TypeOK'
  BY <1>1, ShiftTypes DEF SendPrompt, TypeOK
<1>2. ASSUME NEW t \in Turns, NEW results \in SUBSET told, SendResults(t, results) PROVE TypeOK'
  BY <1>2, ShiftTypes DEF SendResults, TypeOK
<1>3. ASSUME NEW t \in Turns, Reject(t) \/ Abort(t) PROVE TypeOK'
  BY <1>3 DEF Reject, Abort, AbortWaiter, TypeOK, Ended
<1>4. ASSUME NEW r \in Turns, NEW c \in Calls, ToolCall(c, r) PROVE TypeOK'
  <2>1. Push(Event("tool_calls", r, c))
    BY <1>4 DEF ToolCall
  <2>2. late' \in BOOLEAN
    BY <1>4 DEF ToolCall
  <2> QED BY <1>4, <2>1, <2>2, PushTypes, EventsPushed DEF ToolCall, TypeOK
<1>5. ASSUME NEW e \in Events, EndRun(e), going' \subseteq going,
             late' \in BOOLEAN, unattended' \in BOOLEAN
      PROVE  TypeOK'
  BY <1>5, PushTypes DEF EndRun, TypeOK
<1>5a. ASSUME NEW r \in Turns, RunReplies(r) PROVE TypeOK'
  <2>1. Event("assistant", r, None) \in Events /\ unattended \in BOOLEAN
    BY EventsPushed DEF TypeOK
  <2> QED BY <1>5, <1>5a, <2>1 DEF RunReplies
<1>5b. CASE RunFails
  <2>1. Event("error", run, None) \in Events /\ late \in BOOLEAN
    BY EventsPushed DEF TypeOK
  <2> QED BY <1>5, <1>5b, <2>1 DEF RunFails
<1>6. CASE Delete
  <2>1. Push(Event("error", None, None))
    BY <1>6 DEF Delete
  <2> QED BY <1>6, <2>1, PushTypes, EventsPushed DEF Delete, TypeOK
<1>7. CASE UNCHANGED vars
  BY <1>7 DEF vars, TypeOK
<1> QED
  BY <1>1, <1>2, <1>3, <1>4, <1>5a, <1>5b, <1>6, <1>7
     DEF Next, TurnStep, SdkStep, RejectPrompt, RejectResults

-----------------------------------------------------------------------------
(* The queue.                                                               *)

(* An event that is pushed leaves no turn waiting: one more event is queued, *)
(* or one waiter less.                                                      *)
LEMMA PushBalances ==
    ASSUME TypeOK, Balanced, NEW e \in Events, Push(e)
    PROVE  /\ waiters' = <<>> /\ Waiting' = {}
           /\ Len(values') + Len(waiters) = Len(values) + 1
           /\ Queued' \subseteq Queued \union {e.call}
           /\ told' \subseteq told \union {e.call}
<1>1. CASE waiters = <<>>
  <2>1. values' = Append(values, e) /\ UNCHANGED <<waiters, turn, told>>
    BY <1>1 DEF Push
  <2>2. Len(values') = Len(values) + 1 /\ Len(values) \in Nat
    BY <2>1, AppendProperties, LenProperties DEF TypeOK
  <2>3. \A i \in DOMAIN values' : values'[i].call \in Queued \union {e.call}
    <3>1. DOMAIN values' = 1..Len(values) + 1 /\ DOMAIN values = 1..Len(values)
      BY <2>1, <2>2, AppendProperties, LenProperties DEF TypeOK
    <3>2. \A i \in DOMAIN values : values'[i] = values[i]
      BY <2>1, <3>1, AppendProperties DEF TypeOK
    <3>3. values'[Len(values) + 1] = e
      BY <2>1, AppendProperties DEF TypeOK
    <3> QED BY <2>2, <3>1, <3>2, <3>3 DEF Queued
  <2>4. Queued' \subseteq Queued \union {e.call}
    BY <2>3 DEF Queued
  <2>5. Waiting' = {}
    BY <1>1, <2>1 DEF Balanced, Waiting
  <2> QED BY <1>1, <2>1, <2>2, <2>4, <2>5
<1>2. CASE waiters # <<>>
  <2>1. values = <<>> /\ Len(waiters) = 1 /\ \A t \in Waiting : t = Head(waiters)
    BY <1>2 DEF Balanced
  <2>2. Head(waiters) \in Turns /\ Tail(waiters) \in Seq(Turns) /\ Len(Tail(waiters)) = 0
    BY <1>2, <2>1, HeadTailProperties DEF TypeOK
  <2>3. waiters' = <<>> /\ values' = values
    BY <1>2, <2>2, EmptySeq DEF Push
  <2>4. told' \subseteq told \union {e.call}
    BY <1>2 DEF Push, Settle
  <2>5. Waiting' = {}
    <3>1. CASE turn[Head(waiters)] = "waiting"
      <4>1. turn'[Head(waiters)] # "waiting" /\ \A t \in Turns \ {Head(waiters)} : turn'[t] = turn[t]
        BY <1>2, <2>2, <3>1 DEF Push, Settle, TypeOK
      <4> QED BY <2>1, <4>1 DEF Waiting
    <3>2. CASE turn[Head(waiters)] # "waiting"
      BY <1>2, <2>1, <3>2 DEF Push, Waiting
    <3> QED BY <3>1, <3>2
  <2>6. Len(values') + Len(waiters) = Len(values) + 1 /\ Queued' = Queued
    BY <2>1, <2>3 DEF Queued
  <2> QED BY <2>3, <2>4, <2>5, <2>6
<1> QED BY <1>1, <1>2

(* A turn that asks for an event while none waits takes the oldest out of   *)
(* the queue, or waits alone.                                               *)
LEMMA ShiftBalances ==
    ASSUME TypeOK, Balanced, waiters = <<>>, NEW t \in Turns, Shift(t)
    PROVE  /\ \/ waiters' = <<>> /\ Waiting' = {}
              \/ waiters' = <<t>> /\ Waiting' = {t} /\ values' = <<>>
           /\ {Len(waiters'), Len(values')} \subseteq Nat
           /\ Len(waiters') + Len(values) = Len(values') + 1
           /\ Queued' \subseteq Queued
           /\ told' \subseteq told \union Queued
<1>0. Waiting = {}
  BY DEF Balanced
<1>1. CASE values # <<>>
  <2>1. values' = Tail(values) /\ waiters' = waiters /\ Settle(t, Head(values))
    BY <1>1 DEF Shift
  <2>2. Tail(values) \in Seq(Events) /\ Len(Tail(values)) = Len(values) - 1
        /\ \A i \in 1..Len(Tail(values)) : Tail(values)[i] = values[i + 1]
    BY <1>1, HeadTailProperties DEF TypeOK
  <2>3. Len(values) \in Nat \ {0} /\ DOMAIN values = 1..Len(values)
        /\ DOMAIN Tail(values) = 1..Len(values) - 1
    BY <1>1, <2>2, EmptySeq, LenProperties DEF TypeOK
  <2>4. Queued' \subseteq Queued
    BY <2>1, <2>2, <2>3 DEF Queued
  <2>5. Head(values).call \in Queued
    BY <2>3 DEF Queued
  <2>6. told' \subseteq told \union Queued
    BY <2>1, <2>5 DEF Settle
  <2>7. Waiting' = {}
    BY <1>0, <2>1 DEF Settle, Waiting, TypeOK
  <2> QED BY <2>1, <2>2, <2>4, <2>6, <2>7
<1>2. CASE values = <<>>
  <2>1. turn' = [turn EXCEPT ![t] = "waiting"] /\ waiters' = Append(<<>>, t)
        /\ UNCHANGED <<told, values>>
    BY <1>2 DEF Shift
  <2>2. Append(<<>>, t) = <<t>>
    OBVIOUS
  <2>3. Waiting' = {t}
    BY <1>0, <2>1 DEF Waiting, TypeOK
  <2>4. Queued' = Queued
    BY <2>1 DEF Queued
  <2>5. Len(values') = 0 /\ Len(values) = 0 /\ Len(<<t>>) = 1
    BY <1>2, <2>1
  <2> QED BY <1>2, <2>1, <2>2, <2>3, <2>4, <2>5
<1> QED BY <1>1, <1>2

-----------------------------------------------------------------------------
(* One turn waits at most.                                                  *)

(* The number of pending calls, *)
LEMMA PendingCounted ==
    ASSUME Balanced
    PROVE  /\ Cardinality(pendingTools) \in Nat
           /\ pendingTools # {} => Cardinality(pendingTools) > 0
<1>1. IsFiniteSet(pendingTools)
  BY DEF Balanced
<1> QED BY <1>1, FS_CardinalityType, FS_EmptySet

(* ... which a further call raises by one, *)
LEMMA PendingGrows ==
    ASSUME Balanced, NEW c \in Calls, caller[c] = None
    PROVE  /\ IsFiniteSet(pendingTools \union {c})
           /\ Cardinality(pendingTools \union {c}) = Cardinality(pendingTools) + 1
<1>1. c \notin pendingTools
  BY NoneAssumption DEF Balanced, Issued
<1> QED BY <1>1, FS_AddElement DEF Balanced

(* ... and results lower by one at least. *)
LEMMA PendingShrinks ==
    ASSUME Balanced, NEW results, results # {}, results \subseteq pendingTools
    PROVE  /\ IsFiniteSet(pendingTools \ results)
           /\ Cardinality(pendingTools \ results) \in Nat
           /\ Cardinality(pendingTools \ results) < Cardinality(pendingTools)
<1>1. IsFiniteSet(pendingTools)
  BY DEF Balanced
<1>2. PICK c \in results : c \in pendingTools
  OBVIOUS
<1>3. IsFiniteSet(pendingTools \ {c}) /\ Cardinality(pendingTools \ {c}) = Cardinality(pendingTools) - 1
  BY <1>1, <1>2, FS_RemoveElement
<1>4. pendingTools \ results \in SUBSET (pendingTools \ {c})
  BY <1>2
<1>5. IsFiniteSet(pendingTools \ results)
      /\ Cardinality(pendingTools \ results) <= Cardinality(pendingTools \ {c})
  BY <1>3, <1>4, FS_Subset
<1>6. Cardinality(pendingTools \ results) \in Nat /\ Cardinality(pendingTools) \in Nat
  BY <1>1, <1>5, FS_CardinalityType
<1> QED BY <1>3, <1>5, <1>6

(* A prompt or results that are taken find no turn waiting. *)
LEMMA NobodyWaits ==
    ASSUME TypeOK, Balanced, ~deleted, pendingTools # {} \/ ~runActive
    PROVE  waiters = <<>>
<1>1. Len(waiters) + Cardinality(pendingTools) <= Len(values) + (IF runActive THEN 1 ELSE 0)
  BY DEF Balanced
<1>2. SUFFICES ASSUME waiters # <<>> PROVE FALSE
  OBVIOUS
<1>3. Len(waiters) = 1 /\ values = <<>>
  BY <1>2 DEF Balanced
<1>4. Len(values) = 0
  BY <1>3
<1> QED BY <1>1, <1>3, <1>4, PendingCounted DEF TypeOK

(* Every step keeps the balance of waiters, events, calls and runs. *)
LEMMA BalancedStep == TypeOK /\ Balanced /\ [Next]_vars => Balanced'
<1> SUFFICES ASSUME TypeOK, Balanced, [Next]_vars PROVE Balanced'
  OBVIOUS
<1> USE DEF turnVars, runVars, queueVars, history
<1>0. /\ Len(values) \in Nat /\ Len(waiters) \in Nat /\ Cardinality(pendingTools) \in Nat
      /\ ~deleted => Len(waiters) + Cardinality(pendingTools) <= Len(values) + (IF runActive THEN 1 ELSE 0)
      /\ (told \union pendingTools \union Queued) \ {None} \subseteq Issued
      /\ IsFiniteSet(pendingTools) /\ (runActive => run # None)
  BY PendingCounted, LenProperties DEF TypeOK, Balanced
<1>1. ASSUME NEW t \in Turns, SendPrompt(t) PROVE Balanced'
  <2>1. ~deleted /\ ~runActive /\ ~deleted' /\ runActive' /\ run' = t /\ t # None
        /\ UNCHANGED <<pendingTools, caller>> /\ Shift(t)
    BY <1>1, NoneAssumption DEF SendPrompt
  <2>2. waiters = <<>> /\ Len(waiters) = 0
    BY <2>1, NobodyWaits
  <2>3. Len(waiters') + Cardinality(pendingTools) <= Len(values') + 1
    BY <1>0, <2>1, <2>2, ShiftBalances
  <2> QED BY <1>0, <2>1, <2>2, <2>3, ShiftBalances DEF Balanced, Issued
<1>2. ASSUME NEW t \in Turns, NEW results \in SUBSET told, SendResults(t, results) PROVE Balanced'
  <2>1. /\ ~deleted /\ runActive /\ UNCHANGED <<deleted, runActive, run, caller>> /\ Shift(t)
        /\ results # {} /\ results \subseteq pendingTools /\ pendingTools' = pendingTools \ results
    BY <1>2 DEF SendResults
  <2>2. waiters = <<>> /\ Len(waiters) = 0
    BY <2>1, NobodyWaits
  <2>3. IsFiniteSet(pendingTools') /\ Cardinality(pendingTools') \in Nat
        /\ Cardinality(pendingTools') < Cardinality(pendingTools)
    BY <2>1, PendingShrinks
  <2>4. Len(waiters') + Cardinality(pendingTools') <= Len(values') + 1
    BY <1>0, <2>1, <2>2, <2>3, ShiftBalances
  <2> QED BY <1>0, <2>1, <2>2, <2>3, <2>4, ShiftBalances DEF Balanced, Issued
<1>3. ASSUME NEW t \in Turns, Reject(t) \/ Abort(t) PROVE Balanced'
  <2>1. Waiting' \subseteq Waiting
        /\ UNCHANGED <<values, waiters, deleted, told, pendingTools, caller, runActive, run>>
    BY <1>3 DEF Reject, Abort, AbortWaiter, Waiting, TypeOK
  <2> QED BY <2>1 DEF Balanced, Issued, Queued
<1>4. ASSUME NEW r \in Turns, NEW c \in Calls, ToolCall(c, r) PROVE Balanced'
  <2> DEFINE e == Event("tool_calls", r, c)
  <2>1. /\ UNCHANGED <<deleted, runActive, run>> /\ Push(e) /\ e \in Events
        /\ caller[c] = None /\ caller' = [caller EXCEPT ![c] = r]
        /\ pendingTools' = pendingTools \union {c}
    BY <1>4, EventsPushed DEF ToolCall
  <2>2. e.call = c
    BY DEF Event
  <2>3. r # None
    BY NoneAssumption
  <2>4. Issued \union {c} \subseteq Issued'
    BY <2>1, <2>3 DEF Issued, TypeOK
  <2>5. IsFiniteSet(pendingTools') /\ Cardinality(pendingTools') = Cardinality(pendingTools) + 1
    BY <2>1, PendingGrows
  <2> HIDE DEF e
  <2> QED BY <1>0, <2>1, <2>2, <2>4, <2>5, PushBalances DEF Balanced
<1>5. ASSUME NEW e \in Events, e.call = None, EndRun(e) PROVE Balanced'
  BY <1>0, <1>5, PushBalances DEF EndRun, Balanced, Issued
<1>5a. ASSUME NEW r \in Turns, RunReplies(r) PROVE Balanced'
  BY <1>5, <1>5a, EventsPushed DEF RunReplies, Event
<1>5b. CASE RunFails
  BY <1>5, <1>5b, EventsPushed DEF RunFails, Event
<1>6. CASE Delete
  <2>1. PICK e \in Events : Push(e) /\ e.call = None
    BY <1>6, EventsPushed DEF Delete, Event
  <2>2. deleted' /\ pendingTools' = {} /\ UNCHANGED <<caller, runActive, run>>
    BY <1>6 DEF Delete
  <2> QED BY <1>0, <2>1, <2>2, PushBalances, FS_EmptySet DEF Balanced, Issued
<1>7. CASE UNCHANGED vars
  BY <1>7 DEF vars, Balanced, Waiting, Issued, Queued
<1> QED
  BY <1>1, <1>2, <1>3, <1>4, <1>5a, <1>5b, <1>6, <1>7
     DEF Next, TurnStep, SdkStep, RejectPrompt, RejectResults

-----------------------------------------------------------------------------
(* Turns are given events of their own runs.                                *)

(* The entry among the waiters takes the event, for the turn that waits or  *)
(* for one that was aborted.                                                *)
LEMMA EntryTaken ==
    ASSUME TypeOK, Balanced, waiters # <<>>, NEW e \in Events, Push(e)
    PROVE  /\ Head(waiters) \in Turns
           /\ IF turn[Head(waiters)] = "waiting"
              THEN Settle(Head(waiters), e) ELSE UNCHANGED <<turn, got, told>>
           /\ waiters' = <<>> /\ values' = <<>>
<1>1. Head(waiters) \in Turns
  BY HeadTailProperties DEF TypeOK
<1>2. values' = values /\ values = <<>>
  BY DEF Push, Balanced
<1>3. waiters' = <<>>
  BY PushBalances
<1> QED BY <1>1, <1>2, <1>3 DEF Push

(* A turn that is given the event of its own run. *)
LEMMA OwnEventGot ==
    ASSUME TypeOK, Orderly, NEW t \in Turns, NEW e \in Events, Settle(t, e),
           e.run \in {turnRun[t], None}, UNCHANGED turnRun
    PROVE  \A u \in Turns : got'[u] # None => turn'[u] # "idle" /\ got'[u] = turnRun'[u]
BY DEF Settle, TypeOK, Orderly

(* A tool call of a run that has not been given up. *)
LEMMA ToolCallOrderly ==
    ASSUME TypeOK, Balanced, Orderly, NEW c \in Calls, NEW r \in Turns, ToolCall(c, r), ~late'
    PROVE  Orderly'
<1> DEFINE e == Event("tool_calls", run, c)
<1>0. r = run /\ runActive /\ \A t \in Turns : turnRun[t] = run => turn[t] # "aborted"
  BY DEF ToolCall, GivenUp
<1>1. /\ Push(e) /\ e \in Events /\ e.call = c /\ e.run = run
      /\ runActive /\ caller[c] = None /\ caller' = [caller EXCEPT ![c] = run]
      /\ pendingTools' = pendingTools \union {c}
      /\ UNCHANGED <<turnRun, runActive, run, deleted>>
  BY <1>0, EventsPushed DEF ToolCall, Event
<1> HIDE DEF e
<1>2. c \notin told \union pendingTools \union Queued
  BY <1>1, NoneAssumption DEF Balanced, Issued
<1>3. CASE waiters = <<>>
  <2>1. values' = Append(values, e) /\ UNCHANGED <<waiters, turn, got, told>>
    BY <1>1, <1>3 DEF Push
  <2>2. /\ Len(values) \in Nat /\ DOMAIN values = 1..Len(values)
        /\ DOMAIN values' = 1..Len(values) + 1
        /\ \A i \in DOMAIN values : values'[i] = values[i]
        /\ values'[Len(values) + 1] = e
    BY <1>1, <2>1, AppendProperties, LenProperties DEF TypeOK
  <2>3. ASSUME ~deleted
        PROVE  /\ \A d \in pendingTools' : caller'[d] = run
               /\ pendingTools' \subseteq told \union Queued'
               /\ \E d \in told : pendingTools' \intersect told = {d}
    <3>1. \A d \in pendingTools' : caller'[d] = run
      BY <1>1, <2>3 DEF Orderly, TypeOK
    <3>2. Queued \union {c} \subseteq Queued'
      BY <1>1, <2>2 DEF Queued
    <3>3. pendingTools' \subseteq told \union Queued'
      BY <1>1, <2>3, <3>2 DEF Orderly
    <3>4. \E d \in told : pendingTools' \intersect told = {d}
      BY <1>1, <1>2, <1>3, <2>3 DEF Orderly
    <3> QED BY <3>1, <3>3, <3>4
  <2>3a. ~deleted => BetweenTurns'
    BY <1>1, <1>3, <2>1 DEF Orderly, BetweenTurns
  <2>4. ASSUME ~deleted, NEW i \in DOMAIN values'
        PROVE  /\ values'[i].run = run /\ values'[i].call \in pendingTools' \ told
               /\ \A j \in DOMAIN values' : values'[j].call = values'[i].call => j = i
    <3>1. \A j \in DOMAIN values : values[j].call \in Queued
      BY DEF Queued
    <3>2. CASE i \in DOMAIN values
      BY <1>1, <1>2, <2>2, <2>4, <3>1, <3>2 DEF Orderly
    <3>3. CASE i = Len(values) + 1
      BY <1>1, <1>2, <2>2, <3>1, <3>3
    <3> QED BY <2>2, <3>2, <3>3
  <2> QED BY <1>1, <1>3, <2>1, <2>3, <2>3a, <2>4 DEF Orderly
<1>4. CASE waiters # <<>>
  <2>1. ~deleted /\ pendingTools = {} /\ turnRun[Head(waiters)] = run
        /\ turn[Head(waiters)] \in {"waiting", "aborted"}
    BY <1>1, <1>4 DEF Balanced, Orderly
  <2>2. Head(waiters) \in Turns /\ Settle(Head(waiters), e) /\ waiters' = <<>> /\ values' = <<>>
    BY <1>0, <1>1, <1>4, <2>1, EntryTaken
  <2>3. \A t \in Turns : got'[t] # None => turn'[t] # "idle" /\ got'[t] = turnRun'[t]
    BY <1>1, <2>1, <2>2, OwnEventGot
  <2>4. told' = told \union {c}
    BY <1>1, <2>2, NoneAssumption DEF Settle
  <2>5. pendingTools' = {c} /\ caller'[c] = run
    BY <1>1, <2>1 DEF TypeOK
  <2>6. BetweenTurns'
    <3>1. Waiting' = {}
      BY <1>1, PushBalances
    <3>2. \A t \in Turns : turn'[t] = "aborted" => turn[t] = "aborted"
      BY <2>2 DEF Settle, TypeOK
    <3> QED BY <1>0, <1>1, <3>1, <3>2 DEF BetweenTurns, Waiting
  <2>7. \E d \in told' : pendingTools' \intersect told' = {d}
    BY <2>4, <2>5
  <2>8. pendingTools' \subseteq told' /\ \A d \in pendingTools' : caller'[d] = run'
    BY <1>1, <2>4, <2>5
  <2>9. DOMAIN values' = {} /\ runActive' /\ waiters' = <<>>
    BY <1>1, <2>2
  <2> HIDE DEF e
  <2> QED BY <2>3, <2>6, <2>7, <2>8, <2>9 DEF Orderly
<1> QED BY <1>3, <1>4

(* The end of a run, and a deletion, that find an entry among the waiters. *)
LEMMA EndOrderly ==
    ASSUME TypeOK, Balanced, Orderly, runActive, waiters # <<>>,
           NEW e \in Events, e.run \in {run, None}, Push(e),
           ~runActive' \/ deleted', pendingTools' \subseteq pendingTools, UNCHANGED turnRun
    PROVE  Orderly'
<1>1. ~deleted /\ pendingTools = {} /\ turnRun[Head(waiters)] = run
  BY DEF Balanced, Orderly
<1>2. /\ Head(waiters) \in Turns /\ waiters' = <<>> /\ values' = <<>>
      /\ Settle(Head(waiters), e) \/ UNCHANGED <<turn, got>>
  BY EntryTaken
<1>3. \A t \in Turns : got'[t] # None => turn'[t] # "idle" /\ got'[t] = turnRun'[t]
  BY <1>1, <1>2, OwnEventGot DEF Orderly
<1> QED BY <1>1, <1>2, <1>3 DEF Orderly

(* A prompt begins with an empty queue. *)
LEMMA PromptOrderly ==
    ASSUME TypeOK, Orderly, NEW t \in Turns, SendPrompt(t)
    PROVE  Orderly'
<1>1. /\ turn[t] = "idle" /\ ~deleted /\ ~deleted' /\ ~runActive /\ runActive' /\ run' = t
      /\ turnRun' = [turnRun EXCEPT ![t] = t] /\ Shift(t) /\ UNCHANGED pendingTools
  BY DEF SendPrompt
<1>2. values = <<>> /\ waiters = <<>> /\ pendingTools = {}
  BY <1>1 DEF Orderly
<1>3. turn' = [turn EXCEPT ![t] = "waiting"] /\ waiters' = <<t>> /\ UNCHANGED <<got, told, values>>
  BY <1>1, <1>2 DEF Shift
<1>4. \A u \in Turns : got'[u] # None => turn'[u] # "idle" /\ got'[u] = turnRun'[u]
  BY <1>1, <1>3 DEF Orderly, TypeOK
<1>5. Head(waiters') = t /\ turn'[t] = "waiting" /\ turnRun'[t] = t
  BY <1>1, <1>3 DEF TypeOK
<1> QED BY <1>1, <1>2, <1>3, <1>4, <1>5 DEF Orderly

(* Results answer the one call that is pending of those handed over: their  *)
(* turn gets the next call of the run, or is the one to wait.               *)
LEMMA ResultsOrderly ==
    ASSUME TypeOK, Balanced, Orderly, NEW t \in Turns, NEW results \in SUBSET told,
           SendResults(t, results)
    PROVE  Orderly'
<1>1. /\ turn[t] = "idle" /\ ~deleted /\ runActive /\ results # {} /\ results \subseteq pendingTools
      /\ pendingTools' = pendingTools \ results /\ turnRun' = [turnRun EXCEPT ![t] = run]
      /\ Shift(t) /\ UNCHANGED <<deleted, runActive, run, caller>>
  BY DEF SendResults
<1>2. waiters = <<>>
  BY <1>1, NobodyWaits
<1>3. PICK c \in told : pendingTools \intersect told = {c}
  BY <1>1, <1>2 DEF Orderly
<1>4. results = {c}
  BY <1>1, <1>3
<1>5. \A d \in pendingTools' : caller'[d] = run'
  BY <1>1 DEF Orderly
<1>6. CASE values # <<>>
  <2> DEFINE e == Head(values)
  <2>1. values' = Tail(values) /\ waiters' = <<>> /\ Settle(t, e)
    BY <1>1, <1>2, <1>6 DEF Shift
  <2>2. /\ Len(values) \in Nat \ {0} /\ DOMAIN values = 1..Len(values)
        /\ DOMAIN values' = 1..Len(values) - 1 /\ e = values[1]
        /\ \A i \in DOMAIN values' : values'[i] = values[i + 1]
    BY <1>6, <2>1, HeadTailProperties, EmptySeq, LenProperties DEF TypeOK
  <2>3. e.run = run /\ e.call \in pendingTools \ told /\ e.call # None
    BY <1>1, <2>2, NoneAssumption DEF Orderly, TypeOK
  <2>4. told' = told \union {e.call}
    BY <2>1, <2>3 DEF Settle
  <2>5. \A u \in Turns : got'[u] # None => turn'[u] # "idle" /\ got'[u] = turnRun'[u]
    BY <1>1, <2>1, <2>3 DEF Settle, Orderly, TypeOK
  <2>6. e.call \in told' /\ pendingTools' \intersect told' = {e.call}
    BY <1>1, <1>3, <1>4, <2>3, <2>4
  <2>7. ASSUME NEW i \in DOMAIN values'
        PROVE  /\ values'[i].run = run /\ values'[i].call \in pendingTools' \ told'
               /\ \A j \in DOMAIN values' : values'[j].call = values'[i].call => j = i
    <3>1. /\ i + 1 \in DOMAIN values /\ i + 1 # 1 /\ 1 \in DOMAIN values
          /\ \A j \in DOMAIN values' : j + 1 \in DOMAIN values /\ (j + 1 = i + 1 => j = i)
      BY <2>2
    <3>2. values[i + 1].run = run /\ values[i + 1].call \in pendingTools \ told
          /\ values[i + 1].call # e.call
          /\ \A j \in DOMAIN values : values[j].call = values[i + 1].call => j = i + 1
      BY <1>1, <2>2, <3>1 DEF Orderly
    <3> QED BY <1>1, <1>4, <2>2, <2>4, <3>1, <3>2
  <2>8. pendingTools' \subseteq told' \union Queued'
    <3>1. Queued \subseteq {e.call} \union Queued'
      <4>1. ASSUME NEW i \in DOMAIN values, i # 1
            PROVE  i - 1 \in DOMAIN values' /\ values'[i - 1] = values[i]
        BY <2>2, <4>1
      <4> QED BY <2>2, <4>1 DEF Queued
    <3> QED BY <1>1, <2>4, <3>1 DEF Orderly
  <2>9. BetweenTurns'
    <3>1. BetweenTurns
      BY <1>1, <1>2 DEF Orderly
    <3>2. turn'[t] \notin {"waiting", "aborted"} /\ \A u \in Turns \ {t} : turn'[u] = turn[u]
      BY <2>1 DEF Settle, TypeOK
    <3> QED BY <1>1, <3>1, <3>2 DEF BetweenTurns, TypeOK
  <2> HIDE DEF e
  <2> QED BY <1>1, <1>5, <2>1, <2>5, <2>6, <2>7, <2>8, <2>9 DEF Orderly
<1>7. CASE values = <<>>
  <2>1. turn' = [turn EXCEPT ![t] = "waiting"] /\ waiters' = <<t>> /\ UNCHANGED <<got, told, values>>
    BY <1>1, <1>2, <1>7 DEF Shift
  <2>2. pendingTools' = {}
    BY <1>1, <1>3, <1>4, <1>7 DEF Orderly, Queued
  <2>3. \A u \in Turns : got'[u] # None => turn'[u] # "idle" /\ got'[u] = turnRun'[u]
    BY <1>1, <2>1 DEF Orderly, TypeOK
  <2>4. Head(waiters') = t /\ turn'[t] = "waiting" /\ turnRun'[t] = run
    BY <1>1, <2>1 DEF TypeOK
  <2> QED BY <1>1, <1>7, <2>1, <2>2, <2>3, <2>4 DEF Orderly
<1> QED BY <1>6, <1>7

(* A turn that is refused or aborted leaves the queue as it is. *)
LEMMA TurnOutOrderly ==
    ASSUME TypeOK, Balanced, Orderly, NEW t \in Turns, Reject(t) \/ Abort(t)
    PROVE  Orderly'
<1> USE DEF turnVars, runVars, queueVars, history
<1>1. UNCHANGED <<turnRun, got, told, runActive, run, pendingTools, caller, values, waiters, deleted>>
  <2>1. CASE Reject(t)
    BY <2>1 DEF Reject
  <2>2. CASE Abort(t)
    BY <2>2 DEF Abort, AbortWaiter
  <2> QED BY <2>1, <2>2
<1>2. \/ turn[t] = "idle" /\ turn' = [turn EXCEPT ![t] = "rejected"]
      \/ turn[t] = "waiting" /\ turn' = [turn EXCEPT ![t] = "aborted"]
  <2>1. CASE Reject(t)
    BY <2>1 DEF Reject
  <2>2. CASE Abort(t)
    BY <2>2 DEF Abort, AbortWaiter
  <2> QED BY <2>1, <2>2
<1>3. \A u \in Turns : got'[u] # None => turn'[u] # "idle" /\ got'[u] = turnRun'[u]
  BY <1>1, <1>2 DEF Orderly, TypeOK
<1>4. ASSUME waiters # <<>>, turn[Head(waiters)] \in {"waiting", "aborted"}
      PROVE  turn'[Head(waiters)] \in {"waiting", "aborted"}
  <2>1. Head(waiters) \in Turns
    BY <1>4, HeadTailProperties DEF TypeOK
  <2> QED BY <1>2, <1>4, <2>1 DEF TypeOK
<1>5. waiters = <<>> /\ BetweenTurns => BetweenTurns'
  <2>1. waiters = <<>> => turn[t] # "waiting"
    BY DEF Balanced, Waiting
  <2> QED BY <1>1, <1>2, <2>1 DEF BetweenTurns, TypeOK
<1> QED BY <1>1, <1>3, <1>4, <1>5 DEF Orderly, Queued

(* The turns stay in order, until a run fails between two turns or is heard *)
(* of after it was given up.                                                *)
LEMMA OrderlyStep ==
    ASSUME TypeOK, Balanced, Orderly, [Next]_vars
    PROVE  unattended' \/ late' \/ Orderly'
<1> USE DEF turnVars, runVars, queueVars, history
<1>1. ASSUME NEW r \in Turns, RunReplies(r), ~late' PROVE Orderly'
  <2> DEFINE e == Event("assistant", run, None)
  <2>1. /\ Push(e) /\ runActive /\ ~runActive' /\ UNCHANGED <<turnRun, pendingTools, deleted>>
        /\ \A c \in pendingTools : caller[c] # run
        /\ e \in Events /\ e.run = run
    BY <1>1, EventsPushed DEF RunReplies, EndRun, Event
  <2> HIDE DEF e
  <2>2. CASE waiters # <<>>
    BY <2>1, <2>2, EndOrderly
  <2>3. CASE waiters = <<>>
    <3>1. deleted
      BY <2>1, <2>3 DEF Orderly
    <3>2. UNCHANGED <<turn, got>>
      BY <2>1, <2>3 DEF Push
    <3> QED BY <2>1, <3>1, <3>2 DEF Orderly
  <2> QED BY <2>2, <2>3
<1>2. CASE RunFails
  <2> DEFINE e == Event("error", run, None)
  <2>1. /\ Push(e) /\ runActive /\ ~runActive' /\ UNCHANGED <<turnRun, pendingTools, deleted>>
        /\ unattended' = (unattended \/ BetweenTurns)
        /\ e \in Events /\ e.run = run
    BY <1>2, EventsPushed DEF RunFails, EndRun, Event
  <2> HIDE DEF e
  <2>2. CASE waiters # <<>>
    BY <2>1, <2>2, EndOrderly
  <2>3. CASE waiters = <<>> /\ ~deleted
    BY <2>1, <2>3 DEF Orderly
  <2>4. CASE waiters = <<>> /\ deleted
    <3>1. UNCHANGED <<turn, got>>
      BY <2>1, <2>4 DEF Push
    <3> QED BY <2>1, <2>4, <3>1 DEF Orderly
  <2> QED BY <2>2, <2>3, <2>4
<1>3. CASE Delete
  <2> DEFINE e == Event("error", None, None)
  <2>1. /\ Push(e) /\ ~deleted /\ deleted' /\ pendingTools' = {} /\ UNCHANGED turnRun
        /\ e \in Events /\ e.run = None
    BY <1>3, EventsPushed DEF Delete, Event
  <2> HIDE DEF e
  <2>2. CASE waiters # <<>>
    <3>1. runActive
      BY <2>1, <2>2 DEF Orderly
    <3> QED BY <2>1, <2>2, <3>1, EndOrderly
  <2>3. CASE waiters = <<>>
    BY <2>1, <2>3 DEF Push, Orderly
  <2> QED BY <2>2, <2>3
<1>4. CASE UNCHANGED vars
  BY <1>4 DEF vars, Orderly, Queued, BetweenTurns
<1> QED
  BY <1>1, <1>2, <1>3, <1>4, PromptOrderly, ResultsOrderly, ToolCallOrderly, TurnOutOrderly
     DEF Next, TurnStep, SdkStep, RejectPrompt, RejectResults

-----------------------------------------------------------------------------
(* The histories are kept. *)
LEMMA HistoryStays ==
    ASSUME unattended \/ late, [Next]_vars
    PROVE  unattended' \/ late'
BY DEF Next, TurnStep, SdkStep, RejectPrompt, RejectResults, Reject, SendPrompt, SendResults, Abort,
       ToolCall, RunReplies, RunFails, Delete, history, vars

(* The inductive invariant of a session: who waits and what is queued.      *)
THEOREM Invariance == Spec => []IInv
<1>1. Init => IInv
  <2> SUFFICES ASSUME Init PROVE IInv
    OBVIOUS
  <2> USE DEF Init
  <2>1. TypeOK
    BY EmptySeq DEF TypeOK
  <2>2. Balanced
    BY FS_EmptySet DEF Balanced, Waiting, Queued
  <2>3. Orderly
    BY DEF Orderly
  <2> QED BY <2>1, <2>2, <2>3 DEF IInv
<1>2. IInv /\ [Next]_vars => IInv'
  BY TypeStep, BalancedStep, OrderlyStep, HistoryStays DEF IInv
<1> QED BY <1>1, <1>2, PTL DEF Spec

(* Every variable keeps its type. *)
THEOREM TypeCorrect == Spec => []TypeOK
<1>1. IInv => TypeOK
  BY DEF IInv
<1> QED BY <1>1, Invariance, PTL

(* However prompts, results, aborts, deletion and the SDK's events meet, no  *)
(* two turns of a session wait, and none does while an event is queued.     *)
THEOREM WaitsAlone == Spec => []OneWaiter
<1>1. IInv => OneWaiter
  <2> SUFFICES ASSUME IInv PROVE OneWaiter
    OBVIOUS
  <2>1. CASE Waiting = {}
    BY <2>1, FS_EmptySet DEF OneWaiter
  <2>2. CASE Waiting # {}
    <3>1. PICK t \in Waiting : waiters = <<t>>
      BY <2>2 DEF IInv, Balanced
    <3>2. Waiting = {t} /\ values = <<>>
      <4>1. \A u \in Waiting : <<u>> = <<t>>
        BY <3>1 DEF IInv, Balanced
      <4>2. \A u \in Waiting : <<u>>[1] = <<t>>[1]
        BY <4>1
      <4>3. Waiting = {t}
        BY <4>2
      <4>4. waiters # <<>>
        BY <3>1
      <4> QED BY <4>3, <4>4 DEF IInv, Balanced
    <3>3. Cardinality(Waiting) = 1
      BY <3>2, FS_Singleton
    <3> QED BY <3>2, <3>3 DEF OneWaiter
  <2> QED BY <2>1, <2>2
<1> QED BY <1>1, Invariance, PTL

(* A turn is answered by its own run, also after turns that were aborted, as *)
(* long as no run failed between two turns or was heard of after it was     *)
(* given up.                                                                *)
THEOREM AnsweredByOwnRun == Spec => []OwnEvents
<1>1. IInv => OwnEvents
  BY DEF IInv, Orderly, OwnEvents
<1> QED BY <1>1, Invariance, PTL

(* No turn waits in a session that has been deleted. *)
THEOREM DeletionReleases == Spec => []DeleteReleases
<1>1. IInv => DeleteReleases
  <2> SUFFICES ASSUME IInv, deleted, NEW t \in Waiting PROVE FALSE
    BY DEF DeleteReleases
  <2>1. waiters = <<t>> /\ waiters = <<>>
    BY DEF IInv, Balanced
  <2> QED BY <2>1
<1> QED BY <1>1, Invariance, PTL
==============================================================================
