---------------------------- MODULE MCOrchestrator ----------------------------
(* Two actors, six paths, files of two parts. *)
EXTENDS Orchestrator

old == [k \in Parts |-> "old"]
new == [k \in Parts |-> "new"]
first == [k \in Parts |-> IF k = 1 THEN "new" ELSE "old"]
second == [k \in Parts |-> IF k = 1 THEN "old" ELSE "new"]
secret == [k \in Parts |-> IF k = 1 THEN "new" ELSE "key"]
blank == [k \in Parts |-> IF k = 1 THEN "blank" ELSE "old"]
huge == [k \in Parts |-> IF k = 1 THEN "huge" ELSE "old"]

InitialTree ==
    [p \in Paths |-> IF p \in {"math", "policy"} THEN old ELSE Absent]

C(from, to) == [old |-> from, new |-> to]
One(p, from, to) == [q \in {p} |-> C(from, to)]
And(d, e) == [p \in DOMAIN d \union DOMAIN e |-> IF p \in DOMAIN d THEN d[p] ELSE e[p]]

(* Fitting edits of one file, its deletion, an edit made elsewhere and one  *)
(* that does not fit; new files, one below the other; and what the policies *)
(* refuse.                                                                  *)
MathDiffs ==
    {One("math", old, f) : f \in {first, second, new, Absent, Link, secret, blank, huge}}
    \union {One("math", first, new), One("math", first, old)}
TestDiffs == {One("test", Absent, f) : f \in {old, new, secret}}
OtherDiffs ==
    {One("policy", old, new)}
    \union {One(p, Absent, new) : p \in {"key", "doc", "test/deep"}}

MCPaths == {"math", "test", "test/deep", "doc", "policy", "key"}
MCInside == {<<"test/deep", "test">>}
MCOptions == [maxFiles |-> 3, overMaxFileBytes |-> {"huge"}, maxPatchFiles |-> 2]
MCDiffs == MathDiffs \union TestDiffs \union OtherDiffs
           \union {And(d, e) : d \in MathDiffs, e \in TestDiffs}
MCTasks == {{"math"}, {"test"}, {"math", "test"}, {"test/deep"}, {"doc"},
            {"policy"}, {"key"}}
MCInitialTrees == {InitialTree}
MCEdits ==
    {[path |-> "math", file |-> f] : f \in {first, second}}
    \union {[path |-> "test", file |-> new], [path |-> "policy", file |-> new]}
=============================================================================
