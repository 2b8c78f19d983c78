---------------------------- MODULE MCAsyncRunner ----------------------------
(***************************************************************************)
(* Instances of AsyncRunner for TLC: a chain that mixes the three kinds of *)
(* groups, with a limit below the width where workers claim more tasks.    *)
(***************************************************************************)
EXTENDS AsyncRunner

Step == [kind |-> "step", width |-> 1, limit |-> 1, failFast |-> FALSE, worktree |-> FALSE]
Parallel(w, l, f) == [kind |-> "parallel", width |-> w, limit |-> l, failFast |-> f, worktree |-> TRUE]
Dynamic(l) == [kind |-> "dynamic", width |-> 1, limit |-> l, failFast |-> FALSE, worktree |-> FALSE]

ChainPlan == <<Step, Parallel(3, 2, TRUE), Dynamic(2)>>
=============================================================================
