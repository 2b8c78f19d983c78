------------------------------ MODULE AsyncRun ------------------------------
(***************************************************************************)
(* One async run as the host processes see it: the runner (RunLifecycle)   *)
(* writes status.json and the result file; readers - the poller of         *)
(* async-job-tracker.ts, the status listing, a resume, in any number of    *)
(* host processes - reconcile what they read (stale-run-reconciler.ts);    *)
(* and the delivery announces a result file and removes it.                *)
(*                                                                         *)
(* reconcileAsyncRun is synchronous, but the runner and the other hosts    *)
(* are processes of their own: it reads status.json, looks for the result, *)
(* probes the pid and writes its repair in separate steps, and its host    *)
(* can die between any two of them.                                        *)
(***************************************************************************)
EXTENDS RunLifecycle, Naturals, Sequences

CONSTANTS
  Rec,           \* processes that reconcile the run
  SilentRunner,  \* a live runner may leave status.json alone for 24 hours
  PidReuse,      \* the pid of a dead runner may belong to another process
  MaxCrashes,    \* bound: hosts that die while reconciling
  MaxAnnounced   \* bound: completions announced

ASSUME AsyncRunAssumption ==
  /\ SilentRunner \in BOOLEAN /\ PidReuse \in BOOLEAN
  /\ MaxCrashes \in Nat /\ MaxAnnounced \in Nat

VARIABLES
  stale,     \* status.json has not been written for 24 hours
  wasStale,  \* ... or had not been, at some time while the runner lived
  rec,        \* each reconciler: where it is, and what it read
  crashes,    \* how many of them have died
  completed,  \* the dedupe key of the run is in completionSeen
  announced   \* the states announced so far

readerVars == <<rec, crashes>>
deliveryVars == <<completed, announced>>
asyncVars == <<lifecycleVars, stale, wasStale, readerVars, deliveryVars>>

\* Where a reader is, the state it read, and whether that was a day old.
Reader == [at: {"idle", "read", "probe", "repair", "status"},
           read: Verdict \cup {"absent", "running"}, old: BOOLEAN]
IdleReader == [at |-> "idle", read |-> "absent", old |-> FALSE]

AsyncInit ==
  /\ LifecycleInit
  /\ stale = FALSE /\ wasStale = FALSE
  /\ rec = [r \in Rec |-> IdleReader]
  /\ crashes = 0
  /\ completed = FALSE /\ announced = <<>>

\* A step of the runner; whatever it writes is fresh.
RunnerStep ==
  /\ LifecycleNext
  /\ stale' = (stale /\ ~(Start \/ Progress \/ FailEarly \/ Pause \/ End))
  /\ UNCHANGED <<wasStale, readerVars, deliveryVars>>

\* A child that produces nothing leaves nothing to write: the runner's activity
\* timer only rewrites status.json when an activity state changes.
GoSilent ==
  /\ SilentRunner /\ phase \in {"running", "interrupted"} /\ ~stale
  /\ stale' = TRUE /\ wasStale' = TRUE
  /\ UNCHANGED <<lifecycleVars, readerVars, deliveryVars>>

-----------------------------------------------------------------------------
Terminal(s) == s \in Verdict
Done(r) == rec' = [rec EXCEPT ![r] = IdleReader]

\* status.json is read; without one, the started event stands in for it.
ReadStatus(r) ==
  /\ rec[r].at = "idle"
  /\ rec' = [rec EXCEPT ![r] = [at |-> "read", read |-> statusState,
                                old |-> stale /\ statusState # "absent"]]
  /\ UNCHANGED <<lifecycleVars, stale, wasStale, crashes, deliveryVars>>

\* A result exists: a status that was not terminal is rewritten from it.
RepairFromResult(r) ==
  /\ rec[r].at = "read" /\ resultState # "absent"
  /\ IF Terminal(rec[r].read) THEN UNCHANGED <<statusState, stale>>
     ELSE statusState' = resultState /\ stale' = FALSE
  /\ Done(r)
  /\ UNCHANGED <<phase, state, resultState, wasStale, crashes, deliveryVars>>

\* No result: only a run that seemed to be running is looked into.
FindNoResult(r) ==
  /\ rec[r].at = "read" /\ resultState = "absent"
  /\ IF Terminal(rec[r].read) THEN Done(r)
     ELSE rec' = [rec EXCEPT ![r].at = "probe"]
  /\ UNCHANGED <<lifecycleVars, stale, wasStale, crashes, deliveryVars>>

\* Mutant: a process that cannot be signalled counts as dead.
GiveUpUnknown(r) ==
  /\ rec[r].at = "probe"
  /\ rec' = [rec EXCEPT ![r].at = "repair"]
  /\ UNCHANGED <<lifecycleVars, stale, wasStale, crashes, deliveryVars>>

\* kill(pid, 0) finds no process, or the status that was read is a day old.
GiveUp(r) ==
  /\ rec[r].at = "probe"
  /\ phase = "gone" \/ rec[r].old
  /\ rec' = [rec EXCEPT ![r].at = "repair"]
  /\ UNCHANGED <<lifecycleVars, stale, wasStale, crashes, deliveryVars>>

\* A process has the pid, or the second's grace of a run that has no status yet
\* is not over.
LeaveAlone(r) ==
  /\ rec[r].at = "probe" /\ ~rec[r].old
  /\ phase # "gone" \/ PidReuse \/ rec[r].read = "absent"
  /\ Done(r)
  /\ UNCHANGED <<lifecycleVars, stale, wasStale, crashes, deliveryVars>>

\* Mutant: the status is repaired before the result is written.
WriteRepairStatusFirst(r) ==
  /\ \/ /\ rec[r].at = "repair"
        /\ statusState' = "failed" /\ stale' = FALSE
        /\ rec' = [rec EXCEPT ![r].at = "status"]
        /\ UNCHANGED resultState
     \/ /\ rec[r].at = "status"
        /\ resultState' = "failed"
        /\ Done(r)
        /\ UNCHANGED <<statusState, stale>>
  /\ UNCHANGED <<phase, state, wasStale, crashes, deliveryVars>>

\* The failure is written over whatever is there: the result, then the status.
WriteRepair(r) ==
  /\ \/ /\ rec[r].at = "repair"
        /\ resultState' = "failed"
        /\ rec' = [rec EXCEPT ![r].at = "status"]
        /\ UNCHANGED <<statusState, stale>>
     \/ /\ rec[r].at = "status"
        /\ statusState' = "failed" /\ stale' = FALSE
        /\ Done(r)
        /\ UNCHANGED resultState
  /\ UNCHANGED <<phase, state, wasStale, crashes, deliveryVars>>

\* The host of a reconciler dies in the middle of it; another one will read.
ReaderDies(r) ==
  /\ rec[r].at # "idle" /\ crashes < MaxCrashes
  /\ Done(r) /\ crashes' = crashes + 1
  /\ UNCHANGED <<lifecycleVars, stale, wasStale, deliveryVars>>

-----------------------------------------------------------------------------
\* The delivery announces the result it finds and removes it.
Announce ==
  /\ resultState # "absent" /\ ~completed /\ Len(announced) < MaxAnnounced
  /\ announced' = Append(announced, resultState)
  /\ completed' = TRUE
  /\ resultState' = "absent"
  /\ UNCHANGED <<phase, state, statusState, stale, wasStale, readerVars>>

\* A result of a run announced in the last ten minutes is only removed.
DropDuplicate ==
  /\ resultState # "absent" /\ completed
  /\ resultState' = "absent"
  /\ UNCHANGED <<phase, state, statusState, stale, wasStale, readerVars, deliveryVars>>

\* Ten minutes pass, or another host has the session now.
Forget ==
  /\ completed /\ completed' = FALSE
  /\ UNCHANGED <<lifecycleVars, stale, wasStale, readerVars, announced>>

Reconcile(r) ==
  \/ ReadStatus(r) \/ RepairFromResult(r) \/ FindNoResult(r)
  \/ GiveUp(r) \/ LeaveAlone(r) \/ WriteRepair(r)

AsyncNext ==
  \/ RunnerStep \/ GoSilent
  \/ \E r \in Rec : Reconcile(r)
  \/ \E r \in Rec : ReaderDies(r)
  \/ Announce \/ DropDuplicate \/ Forget

AsyncSpec == AsyncInit /\ [][AsyncNext]_asyncVars

\* A poller keeps reconciling and the delivery keeps going.  A dead runner is not
\* left alone for ever: the grace of a run without a status ends after a second,
\* and a status that nobody writes is a day old one day, whoever has the pid.
FairAsyncSpec ==
  /\ AsyncSpec
  /\ \A r \in Rec : WF_asyncVars(Reconcile(r)) /\ SF_asyncVars(GiveUp(r))
  /\ WF_asyncVars(Announce) /\ WF_asyncVars(DropDuplicate)
-----------------------------------------------------------------------------
\* The files and the readers hold what the code can put there; only a reader
\* that found no result and no terminal status goes beyond its first step.
AsyncTypeOK ==
  /\ phase \in Phase /\ state \in Verdict \cup {"running"}
  /\ statusState \in Verdict \cup {"absent", "running"}
  /\ resultState \in Verdict \cup {"absent"}
  /\ stale \in BOOLEAN /\ wasStale \in BOOLEAN
  /\ rec \in [Rec -> Reader]
  /\ \A r \in Rec : rec[r].at \notin {"idle", "read"} => ~Terminal(rec[r].read)
  /\ crashes \in 0..MaxCrashes
  /\ completed \in BOOLEAN
  /\ announced \in Seq(Verdict) /\ Len(announced) <= MaxAnnounced

\* While the runner lives and keeps status.json fresh, its files are its own:
\* no reader gives it up or invents a result for it, and status.json says what
\* it has in memory.
LiveRunnerUntouched ==
  (phase # "gone" /\ ~wasStale) =>
    /\ resultState = "absent" /\ announced = <<>>
    /\ \A r \in Rec : rec[r].at \notin {"repair", "status"}
    /\ IF phase = "starting" THEN statusState = "absent" ELSE statusState = state

\* A run that status.json once called ended is never shown as running again,
\* unless it was given up while its runner was alive and silent.
EndedStaysEnded ==
  [][(Terminal(statusState) /\ ~wasStale') => Terminal(statusState')]_asyncVars

\* No reader invents an outcome: what is announced, published or repaired as
\* complete or paused is what the runner itself ended with.
OutcomesAreTheRunners ==
  /\ \A i \in 1..Len(announced) : announced[i] # "failed" => announced[i] = state
  /\ resultState \in {"complete", "paused"} => resultState = state
  /\ phase = "gone" /\ statusState \in {"complete", "paused"} => statusState = state

\* A run whose runner died before status.json said anything terminal is marked
\* as ended, and its completion announced, although any reader may die halfway.
DeadRunnerAnnounced ==
  (phase = "gone" /\ statusState \in {"absent", "running"})
    ~> (Terminal(statusState) /\ announced # <<>>)

\* What the reconciler's tests say: an existing result is preserved instead of
\* being overwritten with a stale-run failure.
ResultPreserved ==
  [][(resultState # "absent" /\ resultState' # "absent") => resultState' = resultState]_asyncVars

\* What readers find in the files of a run is what its runner did: they keep away while
\* it lives and never invent an outcome.
RunIsTrue == AsyncTypeOK /\ LiveRunnerUntouched /\ OutcomesAreTheRunners

\* A run ends once, and it ends although its runner died.
RunConcludes == EndedStaysEnded /\ DeadRunnerAnnounced
=============================================================================
