------------------------------ MODULE JobTracker ------------------------------
(***************************************************************************)
(* How a session follows its background runs                               *)
(* (runs/background/async-job-tracker.ts): an interval timer polls every   *)
(* tracked job, passes new control events of its events.jsonl on to the    *)
(* parent, copies its status.json, and lets go of a job ten seconds after  *)
(* it has ended.  The runners are processes of their own: they append to   *)
(* their log and rewrite their status between any two reads of the poller, *)
(* and a line being appended can be read before it is complete.            *)
(*                                                                         *)
(* Offsets in events.jsonl count two per line, so that an odd offset lies  *)
(* inside a line.  ActivityControl says what the lines are.                *)
(***************************************************************************)
EXTENDS Naturals, FiniteSets

CONSTANTS
  Job,       \* the background runs a session starts
  MaxLines,  \* bound: control events of one run
  MaxLoads   \* bound: loads of the extension

ASSUME TrackerAssumption == MaxLines \in Nat /\ MaxLoads \in Nat

VARIABLES
  run,        \* what status.json says of the run, or why it says nothing
  lines,      \* complete lines in its events.jsonl
  torn,       \* the runs whose next line has only been appended in part
  published,  \* the runs whose result file is waiting to be announced
  unreadable, \* the runs whose status.json cannot be read or parsed
  descended,  \* the runs with live nested descendants
  loads,      \* loads of the extension so far
  loaded,     \* an instance of it is subscribed to the events
  poller,     \* state.poller is set
  jobs,       \* keys of state.asyncJobs
  shown,      \* job.status
  cursor,     \* job.controlEventCursor
  cleanup,    \* keys of state.cleanupTimers
  fresh,      \* the timers no whole poll has followed yet
  polling,    \* the jobs the current poll has not finished with
  reading,    \* the job whose events have been read and whose status has not
  emitted,    \* how often each line was emitted to the parent
  disturbed   \* history: the runs whose status.json was ever unreadable

runVars == <<run, lines, torn, published, unreadable, descended, disturbed>>
hostVars == <<loads, loaded, poller, jobs, shown, cursor, cleanup, fresh>>
pollVars == <<polling, reading>>
vars == <<runVars, hostVars, pollVars, emitted>>

Terminal == {"complete", "failed", "paused"}
Status == Terminal \cup {"running"}
Line == 1..MaxLines
Nobody == "nobody"
ASSUME NobodyAssumption == Nobody \notin Job
\* The event loop is not in the middle of a poll.
AtRest == polling = {} /\ reading = Nobody
Size(j) == 2 * lines[j] + (IF j \in torn THEN 1 ELSE 0)
\* The file starts behind its last newline, or at 0 without one.
Newline(j) == 2 * lines[j]

Init ==
  /\ run = [j \in Job |-> "unborn"]
  /\ lines = [j \in Job |-> 0] /\ torn = {}
  /\ published = {} /\ unreadable = {} /\ descended = {} /\ disturbed = {}
  /\ loads = 1 /\ loaded = TRUE /\ poller = FALSE
  /\ jobs = {} /\ shown = [j \in Job |-> "queued"]
  /\ cursor = [j \in Job |-> 0]
  /\ cleanup = {} /\ fresh = {}
  /\ polling = {} /\ reading = Nobody
  /\ emitted = [j \in Job |-> [i \in Line |-> 0]]

-----------------------------------------------------------------------------
(* The runners: AsyncRunner and ActivityControl, as far as they are seen.  *)

Alive(j) == run[j] \in {"spawned", "running", "paused"}

WriteStatus(j) ==
  /\ j \notin torn
  /\ \E s \in (CASE run[j] = "spawned" -> {"running"}
                 [] run[j] = "running" -> Terminal
                 [] OTHER -> {}) :
       run' = [run EXCEPT ![j] = s]
  /\ UNCHANGED <<lines, torn, published, unreadable, descended, disturbed, hostVars, pollVars, emitted>>

\* The append of a control event, seen by a reader in the middle.
BeginLine(j) ==
  /\ run[j] \in {"running", "paused"} /\ j \notin torn /\ j \notin published
  /\ lines[j] < MaxLines
  /\ torn' = torn \cup {j}
  /\ UNCHANGED <<run, lines, published, unreadable, descended, disturbed, hostVars, pollVars, emitted>>

EndLine(j) ==
  /\ run[j] \in {"running", "paused"} /\ j \in torn
  /\ torn' = torn \ {j}
  /\ lines' = [lines EXCEPT ![j] = @ + 1]
  /\ UNCHANGED <<run, published, unreadable, descended, disturbed, hostVars, pollVars, emitted>>

\* The runner writes its result and exits.
Publish(j) ==
  /\ run[j] \in Terminal /\ j \notin torn
  /\ published' = published \cup {j}
  /\ UNCHANGED <<run, lines, torn, unreadable, descended, disturbed, hostVars, pollVars, emitted>>

\* The process dies without a result; a line it was appending stays torn.
Die(j) ==
  /\ run[j] \in {"spawned", "running"}
  /\ run' = [run EXCEPT ![j] = "dead"]
  /\ UNCHANGED <<lines, torn, published, unreadable, descended, disturbed, hostVars, pollVars, emitted>>

\* status.json, or what its reconciliation needs, cannot be read for a while.
Disturb(j) ==
  /\ run[j] # "unborn"
  /\ \/ /\ j \notin disturbed
        /\ unreadable' = unreadable \cup {j} /\ disturbed' = disturbed \cup {j}
     \/ /\ j \in unreadable
        /\ unreadable' = unreadable \ {j} /\ UNCHANGED disturbed
  /\ UNCHANGED <<run, lines, torn, published, descended, hostVars, pollVars, emitted>>

Descend(j) ==
  /\ Alive(j) /\ j \notin descended /\ descended' = descended \cup {j}
  /\ UNCHANGED <<run, lines, torn, published, unreadable, disturbed, hostVars, pollVars, emitted>>

DescendantsEnd(j) ==
  /\ j \in descended /\ descended' = descended \ {j}
  /\ UNCHANGED <<run, lines, torn, published, unreadable, disturbed, hostVars, pollVars, emitted>>

-----------------------------------------------------------------------------
(* The session. *)

\* executeAsync* spawns the runner and emits the started event: handleStarted
\* tracks the job and makes sure that somebody polls it.
Started(j) ==
  /\ AtRest /\ loaded /\ run[j] = "unborn"
  /\ run' = [run EXCEPT ![j] = "spawned"]
  /\ jobs' = jobs \cup {j}
  /\ shown' = [shown EXCEPT ![j] = "queued"]
  /\ cursor' = [cursor EXCEPT ![j] = 0]
  /\ poller' = TRUE
  /\ UNCHANGED <<lines, torn, published, unreadable, descended, disturbed,
                 loads, loaded, cleanup, fresh, pollVars, emitted>>

\* Mutant: a retention of no time.
ScheduleAtOnce(j) == cleanup' = cleanup \cup {j} /\ UNCHANGED fresh

\* scheduleCleanup: the timer of the job is set, or set anew.
Schedule(j) == cleanup' = cleanup \cup {j} /\ fresh' = fresh \cup {j}
Unschedule(j) == cleanup' = cleanup \ {j} /\ fresh' = fresh \ {j}

\* The delivery announces the result: handleComplete.  The result of a paused
\* run has no success, so that its job shows as failed until the next poll.
Completed(j) ==
  /\ AtRest /\ loaded /\ j \in published
  /\ published' = published \ {j}
  /\ shown' = [shown EXCEPT ![j] =
       IF j \notin jobs THEN @ ELSE IF run[j] = "complete" THEN "complete" ELSE "failed"]
  /\ IF j \in jobs \cap descended THEN UNCHANGED <<cleanup, fresh>> ELSE Schedule(j)
  /\ UNCHANGED <<run, lines, torn, unreadable, descended, disturbed, loads, loaded,
                 poller, jobs, cursor, pollVars, emitted>>

\* The retention of ten seconds is over: at least one poll, every quarter of a
\* second, has followed the moment the timer was set.
CleanupFires(j) ==
  /\ AtRest /\ j \in cleanup /\ (j \in jobs => j \notin fresh)
  /\ cleanup' = cleanup \ {j} /\ fresh' = fresh \ {j}
  /\ jobs' = jobs \ {j}
  /\ UNCHANGED <<runVars, loads, loaded, poller, shown, cursor, pollVars, emitted>>

\* resetJobs, at the start of a session.
SessionStart ==
  /\ AtRest /\ loaded
  /\ jobs' = {} /\ cleanup' = {} /\ fresh' = {}
  /\ UNCHANGED <<runVars, loads, loaded, poller, shown, cursor, pollVars, emitted>>

Shutdown ==
  /\ AtRest /\ loaded
  /\ loaded' = FALSE /\ poller' = FALSE
  /\ jobs' = {} /\ cleanup' = {} /\ fresh' = {}
  /\ UNCHANGED <<runVars, loads, shown, cursor, pollVars, emitted>>

\* The next instance starts from a state of its own.
Load ==
  /\ ~loaded /\ loads < MaxLoads
  /\ loads' = loads + 1 /\ loaded' = TRUE
  /\ UNCHANGED <<runVars, poller, jobs, shown, cursor, cleanup, fresh, pollVars, emitted>>

-----------------------------------------------------------------------------
(* The poll. *)

\* Nothing is tracked: the poller stops itself.
StopPoller ==
  /\ AtRest /\ poller /\ jobs = {}
  /\ poller' = FALSE
  /\ UNCHANGED <<runVars, loads, loaded, jobs, shown, cursor, cleanup, fresh, pollVars, emitted>>

BeginPoll ==
  /\ AtRest /\ poller /\ jobs # {}
  /\ polling' = jobs
  /\ UNCHANGED <<runVars, hostVars, reading, emitted>>

\* Mutant: the cursor follows the size of the file.
ReadEventsToTheEnd(j) ==
  /\ j \in polling /\ reading = Nobody
  /\ emitted' = [emitted EXCEPT ![j] = [i \in Line |->
       IF cursor[j] <= 2 * (i - 1) /\ 2 * i <= Newline(j) THEN @[i] + 1 ELSE @[i]]]
  /\ cursor' = [cursor EXCEPT ![j] = IF Newline(j) > @ THEN Size(j) ELSE @]
  /\ reading' = j
  /\ UNCHANGED <<runVars, loads, loaded, poller, jobs, shown, cleanup, fresh, polling>>

\* emitNewControlEvents: the whole lines behind the cursor, which then stands
\* behind the last newline.  A line the cursor were inside of would be skipped
\* as malformed.
ReadEvents(j) ==
  /\ j \in polling /\ reading = Nobody
  /\ emitted' = [emitted EXCEPT ![j] = [i \in Line |->
       IF cursor[j] <= 2 * (i - 1) /\ 2 * i <= Newline(j) THEN @[i] + 1 ELSE @[i]]]
  /\ cursor' = [cursor EXCEPT ![j] = IF Newline(j) > @ THEN Newline(j) ELSE @]
  /\ reading' = j
  /\ UNCHANGED <<runVars, loads, loaded, poller, jobs, shown, cleanup, fresh, polling>>

\* The poll is done with job j.  Once it is done with every job, each timer
\* that was running when it began has been followed by a poll.
DoneWith(j) == polling' = polling \ {j} /\ reading' = Nobody

\* reconcileAsyncRun fails or status.json cannot be parsed: the job is shown
\* as failed and kept for the retention time only.
StatusUnreadable(j) ==
  /\ reading = j /\ j \in unreadable
  /\ shown' = [shown EXCEPT ![j] = "failed"]
  /\ IF j \in descended \/ j \in cleanup
     THEN UNCHANGED cleanup /\ fresh' = fresh \ {j}
     ELSE Schedule(j)
  /\ DoneWith(j)
  /\ UNCHANGED <<runVars, loads, loaded, poller, jobs, cursor, emitted>>

\* Without a status yet, a queued job is taken to run.
NoStatusYet(j) ==
  /\ reading = j /\ j \notin unreadable /\ run[j] = "spawned"
  /\ shown' = [shown EXCEPT ![j] = IF @ = "queued" THEN "running" ELSE @]
  /\ fresh' = fresh \ {j}
  /\ DoneWith(j)
  /\ UNCHANGED <<runVars, loads, loaded, poller, jobs, cursor, cleanup, emitted>>

StatusRunning(j) ==
  /\ reading = j /\ j \notin unreadable /\ run[j] = "running"
  /\ shown' = [shown EXCEPT ![j] = "running"]
  /\ Unschedule(j)
  /\ DoneWith(j)
  /\ UNCHANGED <<runVars, loads, loaded, poller, jobs, cursor, emitted>>

\* A terminal status, or the repair of a run whose process is gone, which
\* publishes a failure: the job is let go, unless it still has descendants.
StatusTerminal(j) ==
  /\ reading = j /\ j \notin unreadable /\ run[j] \in Terminal \cup {"dead"}
  /\ run' = [run EXCEPT ![j] = IF @ = "dead" THEN "failed" ELSE @]
  /\ published' = IF run[j] = "dead" THEN published \cup {j} ELSE published
  /\ shown' = [shown EXCEPT ![j] = run'[j]]
  /\ IF j \notin descended /\ (shown[j] # shown'[j] \/ j \notin cleanup)
     THEN Schedule(j)
     ELSE UNCHANGED cleanup /\ fresh' = fresh \ {j}
  /\ DoneWith(j)
  /\ UNCHANGED <<lines, torn, unreadable, descended, disturbed, loads, loaded,
                 poller, jobs, cursor, emitted>>

PollStep ==
  \/ BeginPoll
  \/ \E j \in Job : ReadEvents(j)
  \/ \E j \in Job : StatusUnreadable(j) \/ NoStatusYet(j) \/ StatusRunning(j) \/ StatusTerminal(j)

RunnerStep ==
  \E j \in Job : WriteStatus(j) \/ BeginLine(j) \/ EndLine(j) \/ Publish(j) \/ Die(j)
                 \/ Disturb(j) \/ Descend(j) \/ DescendantsEnd(j)

Next ==
  \/ RunnerStep \/ PollStep
  \/ StopPoller \/ SessionStart \/ Shutdown \/ Load
  \/ \E j \in Job : Started(j) \/ Completed(j) \/ CleanupFires(j)

Spec == Init /\ [][Next]_vars

\* The timers of the event loop fire: the interval of the poller, and the
\* retention of a job, which is due between two polls again and again.
\* Descendants end, or their repair finds that they have.
FairSpec ==
  /\ Spec /\ WF_vars(PollStep)
  /\ \A j \in Job : SF_vars(CleanupFires(j)) /\ WF_vars(DescendantsEnd(j))

-----------------------------------------------------------------------------

\* The types; a timer waiting for its poll is a timer, a poll only visits jobs
\* that are tracked, and a poller belongs to a loaded instance that has one.
TypeOK ==
  /\ run \in [Job -> {"unborn", "spawned", "dead"} \cup Status]
  /\ lines \in [Job -> 0..MaxLines] /\ \A j \in torn : lines[j] < MaxLines
  /\ torn \subseteq Job /\ published \subseteq Job /\ descended \subseteq Job
  /\ unreadable \subseteq disturbed /\ disturbed \subseteq Job
  /\ loads \in Nat /\ loaded \in BOOLEAN /\ poller \in BOOLEAN
  /\ jobs \subseteq Job /\ (jobs # {} => poller) /\ (poller => loaded)
  /\ shown \in [Job -> {"queued"} \cup Status]
  /\ cursor \in [Job -> Nat]
  /\ cleanup \subseteq Job /\ fresh \subseteq cleanup
  /\ polling \subseteq jobs /\ reading \in polling \cup {Nobody}
  /\ emitted \in [Job -> [Line -> Nat]]

\* The parent hears of every control event behind the cursor of a tracked job
\* exactly once, of none before it, and of no event twice, however the runner's
\* appends fall between the reads (emitNewControlEvents).
EmittedOnce ==
  \A j \in Job : \A i \in Line :
    /\ emitted[j][i] <= 1
    /\ j \in jobs => (emitted[j][i] = 1 <=> 2 * i <= cursor[j])

\* The clock of a tracked job's removal only runs while the job is shown as
\* ended: one that turns out to run is not about to be forgotten.
TimerOnlyForEnded == \A j \in jobs \cap cleanup : shown[j] \in Terminal

\* A tracked job shown as complete is one whose run completed: an announcement
\* that overtakes the poll, or the repair of a dead run, never makes it so.
CompleteIsTrue == \A j \in jobs : shown[j] = "complete" => run[j] = "complete"

\* The retention of a job ends after its run, and after the parent has heard of
\* everything that a run which ended by itself had to say.  A run that was
\* paused may still append; one whose status could not be read may still run.
LetGoWhenDone ==
  [][\A j \in jobs \ disturbed : CleanupFires(j) =>
       /\ run[j] \in Terminal
       /\ run[j] # "paused" => cursor[j] = Newline(j)]_vars

\* A job whose run has ended, or has died, does not stay in the list.
EventuallyLetGo ==
  \A j \in Job : (j \in jobs /\ run[j] \in {"complete", "failed", "dead"}) ~> j \notin jobs

\* The list of jobs tells the truth about the runs behind it, and their events come through
\* once each.
JobsHold == TypeOK /\ EmittedOnce /\ TimerOnlyForEnded /\ CompleteIsTrue

\* A job leaves the list when its run is over and told, and it does leave.
JobsLeave == LetGoWhenDone /\ EventuallyLetGo
=============================================================================
