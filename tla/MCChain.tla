------------------------------- MODULE MCChain -------------------------------
(***************************************************************************)
(* Instances of Chain for TLC: chains of up to three steps with each kind  *)
(* of step before and after each other, and some that must be refused.     *)
(***************************************************************************)
EXTENDS Chain
CONSTANTS x, y, z, p, q

T(as, refs) ==
  [as |-> as, refs |-> refs, agent |-> p, output |-> Nil, fileOnly |-> FALSE,
   progress |-> Nil, readOnly |-> FALSE]
N(t) == [t EXCEPT !.agent = q]
Group(kind, tasks) ==
  [kind |-> kind, tasks |-> tasks, from |-> Nil, as |-> Nil, max |-> 0,
   failFast |-> FALSE, worktree |-> FALSE, strict |-> FALSE, accept |-> FALSE]
Seq1(as, refs) == Group("seq", <<T(as, refs)>>)
Par(tasks) == [Group("par", tasks) EXCEPT !.worktree = TRUE]
Fast(tasks) == [Group("par", tasks) EXCEPT !.failFast = TRUE]
Dyn(from, as) == [Group("dyn", <<T(Nil, {})>>) EXCEPT !.from = from, !.as = as, !.max = 2]

MCPlan == {
  <<Seq1(x, {}), [Dyn(x, y) EXCEPT !.tasks[1].agent = q], [Seq1(Nil, {x, y}) EXCEPT !.tasks[1].agent = q]>>,
  <<Seq1(x, {}), [Dyn(x, y) EXCEPT !.accept = TRUE, !.failFast = TRUE], Par(<<T(Nil, {y}), T(Nil, {x})>>)>>,
  <<Par(<<T(x, {}), T(y, {})>>), [Dyn(y, z) EXCEPT !.strict = TRUE], Seq1(Nil, {z})>>,
  <<Fast(<<T(Nil, {}), T(Nil, {}), N(T(Nil, {}))>>), Seq1(Nil, {})>>,
  <<Seq1(Nil, {}), Seq1(Nil, {}), [Par(<<T(Nil, {})>>) EXCEPT !.tasks[1].fileOnly = TRUE]>>,
  <<Seq1(x, {}), [Dyn(x, y) EXCEPT !.tasks[1].fileOnly = TRUE]>>,
  <<[Seq1(x, {}) EXCEPT !.tasks[1].agent = q, !.tasks[1].readOnly = TRUE],
    [Seq1(y, {x}) EXCEPT !.tasks[1].progress = TRUE, !.tasks[1].fileOnly = TRUE, !.tasks[1].output = TRUE],
    [Seq1(Nil, {y}) EXCEPT !.tasks[1].agent = q]>>,
  <<Par(<<T(x, {}), T(Nil, {x})>>)>>,
  <<Seq1(Nil, {x}), Seq1(x, {})>>,
  <<Seq1(x, {}), Par(<<T(y, {}), T(y, {})>>)>> }
MCValue == {<<>>, <<"a">>, <<"a", "b">>, <<"A", "a">>, <<"a", "b", "c">>}
MCDefault == p :> [output |-> FALSE, progress |-> FALSE] @@ q :> [output |-> TRUE, progress |-> TRUE]
\* An edited task mentions no name, one that may not be there, or comes to keep notes.
MCEdits == {[refs |-> r, readOnly |-> FALSE, output |-> FALSE, progress |-> r = {}] :
              r \in {{}, {y}}}
MCItems == {[refs |-> {}, readOnly |-> TRUE], [refs |-> {}, readOnly |-> FALSE],
            [refs |-> {z}, readOnly |-> FALSE]}
MCIdOf  == "a" :> "a" @@ "A" :> "a" @@ "b" :> "b" @@ "c" :> "c"
=============================================================================
