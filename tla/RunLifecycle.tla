---------------------------- MODULE RunLifecycle ----------------------------
(***************************************************************************)
(* What the detached runner of an async run promises to whoever reads its  *)
(* two files, without its groups, tasks and children: status.json follows  *)
(* the state the runner keeps in memory, an interrupted run ends paused,   *)
(* and a result file says what the runner last wrote to status.json.       *)
(*                                                                         *)
(* AsyncRunner implements this specification; AsyncRun composes it with    *)
(* the processes that read the files and repair them.                      *)
(***************************************************************************)

VARIABLES
  phase,        \* "starting", "running", "interrupted", "ended" or "gone"
  state,        \* statusPayload.state, in the runner's memory
  statusState,  \* the state in status.json
  resultState   \* the state in the result file

lifecycleVars == <<phase, state, statusState, resultState>>

Phase == {"starting", "running", "interrupted", "ended", "gone"}
Verdict == {"complete", "failed", "paused"}

LifecycleInit ==
  /\ phase = "starting" /\ state = "running"
  /\ statusState = "absent" /\ resultState = "absent"

\* The first write of status.json.
Start ==
  /\ phase = "starting" /\ phase' = "running"
  /\ statusState' = state
  /\ UNCHANGED <<state, resultState>>

\* Any other write of status.json during the run.
Progress ==
  /\ phase \in {"running", "interrupted"}
  /\ statusState' = state
  /\ UNCHANGED <<phase, state, resultState>>

\* A dynamic group that cannot be expanded or accepted fails the run at once.
FailEarly ==
  /\ phase \in {"running", "interrupted"}
  /\ state' = "failed" /\ statusState' = "failed"
  /\ UNCHANGED <<phase, resultState>>

\* The interrupt is only taken while the run is running, and reported at once.
Pause ==
  /\ phase = "running" /\ state = "running"
  /\ phase' = "interrupted"
  /\ state' = "paused" /\ statusState' = "paused"
  /\ UNCHANGED resultState

\* The final state: paused if the run was interrupted.
End ==
  /\ phase \in {"running", "interrupted"} /\ phase' = "ended"
  /\ state' \in IF phase = "interrupted" THEN {"paused"} ELSE {"complete", "failed"}
  /\ statusState' = state'
  /\ UNCHANGED resultState

\* The result file, the last thing the runner writes.
Publish ==
  /\ phase = "ended" /\ phase' = "gone"
  /\ resultState' = state
  /\ UNCHANGED <<state, statusState>>

\* The process is gone, before its end or because writing the result failed.
Die ==
  /\ phase # "gone" /\ phase' = "gone"
  /\ UNCHANGED <<state, statusState, resultState>>

LifecycleNext == Start \/ Progress \/ FailEarly \/ Pause \/ End \/ Publish \/ Die

LifecycleSpec == LifecycleInit /\ [][LifecycleNext]_lifecycleVars
=============================================================================
