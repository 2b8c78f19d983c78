----------------------------- MODULE MCForeground -----------------------------
(***************************************************************************)
(* Instances of Foreground for TLC: a run of three tasks, two at a time, and a run of one.   *)
(***************************************************************************)
EXTENDS Foreground
CONSTANTS f, g
MCTasks   == [r \in Run |-> IF r = f THEN 3 ELSE 1]
MCWatched == {<<f, 1>>, <<g, 1>>}
MCEnds    == [n \in Child |->
                CASE n = <<f, 1>> -> {"completed", "threw"}
                  [] n = <<f, 2>> -> {"detached", "both"}
                  [] n = <<f, 3>> -> {"completed", "paused"}
                  [] OTHER -> {"failed", "paused"}]
=============================================================================
