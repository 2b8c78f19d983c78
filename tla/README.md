# Verification of pi-squad

TLA+ models of the parts of pi-squad that are hard to test, TLC runs that check
them on small instances, and TLAPS proofs that hold for every value of their
constants. Paths are relative to `src/packages/coordinator/src` unless they start
with `src/`.

To check a run: `tlc -workers 4 -config Delivery.cfg MCResultDelivery.tla`.
To check the proofs of a module: `tlapm AsyncRunnerProofs.tla`.
`PROJECT.json` lists the components, runs, mutants, findings, hazards and
theorems, and maps every definition to the lines it models.

## 1. The system

pi-squad is an extension of the Pi coding agent. A parent session delegates tasks
to child agents, each a process of its own. Delegation is either *foreground* (the
host waits for it) or *background* (a detached runner executes a plan of steps and
outlives the session); a child may delegate further (*nested* runs). Around this core
sit a coordinator that routes and dispatches to the members of a squad, a context store
with recovery, an ingestion pipeline, monitors, and the files that define agents, chains
and skills.

Processes meet through files: four files per background run (`status.json`,
`events.jsonl`, output logs, one result file), event files and one registry per tree of
nested runs, session files of children, the squad's own files, one database. The hard
part of the system is what happens when several of them read, repair, announce and
delete these files, while timers fire and processes die.

### Inventory

| Component | State it keeps | Operations | What makes it correct | Module |
|---|---|---|---|---|
| Background runner `runs/background/subagent-runner.ts`, `runs/shared/parallel-utils.ts` | status payload, one interrupt slot, results, children | start a group, spawn, retry, settle, fail fast, interrupt, finalize, publish | no child behind an ended step, limits kept, groups in order, both files agree, it ends | AsyncRunner |
| Activity control (same file, `runs/shared/long-running-guard.ts`) | activity of steps and run, claims, failure windows | timer tick, child events, interrupt | every remark once, none missed or downgraded, silence noticed | ActivityControl |
| Reconciliation `runs/background/stale-run-reconciler.ts` | none (files) | read, look for the result, probe the pid, repair | a live runner left alone, no outcome invented, a dead run announced | AsyncRun |
| Result delivery `runs/background/{result-watcher,completion-dedupe,notify}.ts`, `shared/file-coalescer.ts`, `intercom/result-intercom.ts`, `extension/index.ts` | watcher, timers, dedupe maps, waiting handlers | watch, poll, coalesce, send, wait, announce, unlink | announced once, never removed unannounced, delivered | ResultDelivery |
| Job tracker `runs/background/async-job-tracker.ts` | jobs, cursors, retention timers, poller | started, complete, poll, clean up, reset | events once, no job forgotten early, none kept for ever | JobTracker |
| Run ids and resume `runs/background/{run-id-resolver,async-resume,run-status}.ts` | none | resolve a prefix, find a target, advise | the run and the child that were meant | Resume |
| Foreground executor `runs/foreground/subagent-executor.ts` | controls, remembered runs, latest control | execute, interrupt, resume, remember | one answer per request, nothing left behind | Foreground |
| Foreground child `runs/foreground/execution.ts`, `shared/post-exit-stdio-guard.ts`, `runs/shared/{model-fallback,acceptance}.ts` | attempt, timers, result, ledger | spawn, signal, drain, detach, retry, accept | one child at a time, a true verdict, it ends | Attempt, Acceptance |
| Notices, worktrees, bridges `extension/control-notices.ts`, `runs/shared/worktree.ts`, `slash/*.ts` | pending timers, worktrees, controllers, cancels | delay, deliver, create, remove, request, cancel | a notice that is due is shown, nothing checked out is left, one response per request | Foreground |
| Chains `runs/foreground/chain-execution.ts`, `runs/shared/{dynamic-fanout,chain-outputs,workflow-graph}.ts`, `shared/settings.ts` | results, outputs, dynamic children, graph | validate, begin a step, start, collect, accept, stop | checked texts resolve, the end is true, flat numbers agree, it ends | Chain |
| Clarify dialog `runs/foreground/chain-clarify.ts` | overrides, selectors, text field | keys | readers follow a renamed output, what is shown is launched | Clarify, TextEditor |
| Nested runs `runs/shared/nested-events.ts` | event files, registry | write, fold, repair | shown once, shown ended once ended | Nested |
| Coordinator `coordinator/*.ts`, `squad/{migration,registry-loader,team-loader}.ts` | caches, prompt files, hooks, registry.json | route, dispatch, spawn, migrate, assess | prompts reach their child, one outcome, what is left behind is told, the registry survives | Coordinator, Directives |
| Routing `coordinator/router.ts`, `squad/routing.ts` | table | load, match, escalate | the best rule of an existing member that does not pass the text over | Routing |
| Work monitor and scribe `ralph/work-monitor.ts`, `scribe/*.ts` | findings, inbox, decisions.md | hooks, refresh, draft, merge | findings agree with what was seen, no decision lost | Ralph, Scribe |
| Session store `context/store.ts`, `context/backends/sqlite-vec.ts` | rows, samples, checkpoints, vectors | sample, upsert, save | marks never below what is stored, a row's own vector beside it | Store |
| Recovery `context/recovery.ts` | attempts | open the stores, recover by strategies | ends with success, with every strategy tried, or with a store refused and none tried | Recovery |
| Ingestion `context/ingestion/*` | pending timers, stored chunks | watch, ingest, count, chunk | last version stored, no sentence lost | Ingestion, Chunker |
| Update `index.ts` | package.json, checkout | update, restore | both new or both old | Update |
| Definitions `agents/{agents,agent-management,agent-selection}.ts`, `agents/skills.ts` | files, settings, two caches | create, update, delete, override, resolve | names stay unique and keep their definition, overrides kept, the right skill | Definitions, Overrides, Skills |
| Nested control, listings, intercom bridge, serializers, casting, converters, terminal interface, pi-web plugin | | | | not modelled (section 5) |

Hard behaviours: two processes replacing the same file; a crash between two writes
that belong together; timers that fire after what they were set for has changed;
a handler that resumes after its session has gone; signals that reach one of several
children; reads of a file being appended to; retries of what was already done; numbers
that several parts of the code count separately. The `hazards` of `PROJECT.json` name
each at its line, with the properties that cover it.

## 2. The modules

```
 RunLifecycle <-- implements -- AsyncRunner          Foreground (requests, bridges, notices,
     | EXTENDS                                          |        worktrees, resume)
 AsyncRun (runner | readers | delivery)                 +--- Attempt (one child) -- Acceptance
     +--- ResultDelivery   +--- ActivityControl         +--- Chain (steps, outputs, graph)
     |      -- implements --> Outbox
     +--- JobTracker       +--- Nested
 Coordinator -- Directives
 Services = Scribe+Ralph | Store | Recovery | Ingestion | Chunker | Routing | Update
          | Clarify+TextEditor | Definitions | Overrides | Skills | Resume
```

An action is one turn of the event loop of one process: from a callback, or the end of
an `await`, to the next `await`. Where the code makes several writes in between, all of
them are in the action; where it dies between two writes, the writes are two actions.

**RunLifecycle** is the abstract specification of a runner as its readers know it:
phase, state in memory, state in the two files. Seven actions.

**AsyncRunner** is the runner. A plan is a sequence of groups; a sequential step is a
group of width 1. `status` is `statusPayload.steps` group by group, `slot` is
`activeChildInterrupt`, `next` the shared index of `mapConcurrent`, `aborted` the
fail-fast flag. `Settle` is the end of a task *and* the claim of the next by the same
worker. The end of a run is three actions, since the process can die in between.
Its refinement of RunLifecycle is `ImplementsLifecycle`.

**AsyncRun** composes RunLifecycle with readers and the delivery. A reader is any
caller of `reconcileAsyncRun` in any host: it reads `status.json`, looks for the result,
probes the pid and writes its repair in separate steps and may die between any two.
`stale` says that status.json is 24 hours old, `PidReuse` that a dead runner's pid may
answer.

**ResultDelivery** is one host over several loads of the extension and several
sessions. `pending` is the coalescer, `seen` is `completionSeen`, `notifySeen` the
process-wide map of `notify.ts`, `handling` the handlers that wait for an
acknowledgement; they belong to a load and survive it. **Outbox** is what it promises,
without loads, watchers, timers and dedupe maps: a result is owed once written, told once,
and only lost with a host that dies. ResultDelivery implements it (`ImplementsOutbox`,
part of `ResultsArrive`): a result is owed while its file is there or a handler waits that
will announce it.

**ActivityControl** is the runner's activity timer and event handler. Time is what the
thresholds tell apart: a step is silent or not, has passed a long-running threshold or
not, its last failed edit is older than the window or not. `current` is the timer's own
`currentActivityState`, distinct from `runActivity` in the payload.

**JobTracker** is one host following background runs. An offset in `events.jsonl`
counts two per line, so an odd offset is inside a line. A poll reads the events of a
job and then its status in two steps, since the runner may write in between.

**Foreground** is the executor in its host. `phase` is where a request stands
(`clarify`, `running`, `receipt`, ...), `child` how each task ended, `alive` the
processes - a child that detached, or that belonged to a run another child threw out
of, lives on. `controls`, `control`, `latest` are `foregroundControls` and
`lastForegroundControlId`; `controllers`, `cancelled`, `slash` the bridges' maps;
`pending` and `visible` the notices; `job`, `view`, `session` the background runs
launched by `resume` or by the dialog. A shutdown (`disposed`) and a session start drop
the waiting notices; a session start drops the controls too (`forgotten` are their runs),
while the runs of either go on.

**Attempt** is one foreground child from spawn to result. A process is `alive`, `dead`
(before the host hears of it), `exited`, `closed`; `held` says that a grandchild keeps
its pipes. The timers (`drain`, `guard`, `nag`) and everything that may come from
outside - abort, interrupt, detachment, a last message - are actions in any order.
**Acceptance** holds the pure decisions of the gate: level, checks, status.

**Chain** is `executeChain`, with dynamic groups, names, notes, worktrees, the dialog and
the workflow graph. `plan` is what `validateChainOutputBindings` saw, `texts` what the
children are given: the dialog may edit them, and in a dynamic group the text of an item is
put in before references are resolved, which nobody validates. Flat indices are counted by
the loop (`index`), by the dynamic groups (`dynamic`) and by the graph (`Start`) as three
parts of the code do.

**Nested** is the tree of runs below one root: `sink` are the event files, `registry`
the file that host and fanout children read, fold and write without a lock (`snap` is
what a fanout child has read or folded and not yet written: it reads, lists and folds, and
writes in three steps), `told` what each run has said.

**Coordinator** is one or more hosts on one repository. Files are inodes, because two
migrations share one temporary name. `call` is where a route or dispatch stands, `hook`
the work of each prompt hook, which may outlast its time limit, `given` the prompt its turn
got. A host may die (`life`), and the opening, writing and renaming of the registry, its
reading, and the writing and removal of a prompt may each fail. **Directives** parses
and judges messages.

**Services** puts components that share nothing side by side in one specification, one
of them at work in each behaviour (`service`); only Ralph and Scribe work together,
through the inbox. Each has its own module: *Scribe* (a draft is opened, written, read,
unlinked and appended in separate steps), *Ralph* (refreshes are three steps with their
time limit), *Store* (a statement or transaction is a step: several processes may save under
one id, any statement may be refused, a process may die), *Recovery* (stores are opened one
by one, anything may be refused), *Ingestion* and *Chunker*, *Routing* (a RegExp with a
flag keeps its `lastIndex`, and matches behind it),
*Update* (every step may fail, a checkout may fail and take effect), *Clarify* (keys)
with *TextEditor* (wrapping, cursor), *Definitions* (files of both scopes, directories
in the order they are read), *Overrides* (a settings file is emptied, then written),
*Skills* (two caches, one by age, one by modification time), *Resume* (ids are
sequences, a call names a prefix; a result lists only the children that ran, so an index
means another child, or none, once the directory is gone).

Specifications that need instances of their own have an MC module (AsyncRun and
JobTracker are run directly). Eight modules `...Proofs` hold the theorems: of AsyncRunner,
ResultDelivery and Chain (DeliveryAndChainProofs), ActivityControl and AsyncRun
(RunAndControlProofs), JobTracker, Attempt and Nested (HostProofs), Coordinator,
Foreground, the services on files and texts (FileAndTextProofs) and the others with
Services itself (ServicesProofs). Definitions headed "Mutant:" are the bugs each
property was shown to catch; the mutants of `PROJECT.json` put them in place of the
definition they precede. Many checked properties are conjunctions of named parts, each
with its own comment; the type invariant of a module is part of one of them.

## 3. The runs

All cfgs set `CHECK_DEADLOCK FALSE`: runners exit, sessions end and bounds are used up,
so each of these systems really stops.

| Run | Instance | Distinct states | Shows |
|---|---|---|---|
| AsyncRunner | step; fail-fast parallel group of 3 with 2 workers and worktrees; dynamic group of 0 to 3 items; 2 models | 12,556 | no child behind an ended step, limits, order, agreement of the files, refinement, termination |
| Delivery | 2 sessions, a result of one and one that names none, 2 writes each, 2 loads, all faults | 390,291 | announced once per write, never removed unannounced, never another session's, delivered to a session that stays; refinement of Outbox |
| AsyncRun | 2 readers, up to 2 deaths of their hosts, 2 announcements, silence, pid reuse | 143,166 | live runners untouched, outcomes honest, ends final, dead runners announced |
| ActivityControl | a step whose child edits one file, then a dynamic step; threshold 2 | 1,064,874 | remarks once and complete, file current, no downgrade, silence noticed |
| JobTracker | 1 job, 3 lines, 2 loads | 34,188 | events once, honest completion, let go when and only when done |
| Foreground | a run of 3 tasks, 2 at a time, in worktrees, by the slash command; a clarified single run by a prompt template; 1 background run | 1,118,043 | one answer per request, nothing left behind, no session with two writers, the sole child's notice is shown while its session goes on |
| Attempt | 2 models under 3 names, every order of signals, timers and outside events, then 7 inputs of the gate | 22,488 | one child at a time, a true verdict, an end |
| Nested | a foreground run, a background run in one of its children, one more reader, 2 ticks, 2 names kept | 174,128 | one copy of a run, ended once ended, eventually so |
| Chain | chains of up to 3 steps, groups of 0 to 3, texts edited or made of items, foreground and background | 3,335 | references that were validated resolve, only others stop a chain, the end is true, flat numbers agree, every begun chain is answered |
| Coordinator | 2 calls in 1 or 2 hosts with any message, 1 call beside the hooks of 2 turns, or 3 calls that migrate at once; processes that may die; 2 milliseconds | 697,096 | prompts reach their child, one outcome, turns counted as they ended, registry.json survives |
| Services | one service at a time; see the run's entry for the inputs of each | 644,002 | thirteen properties, one or two per service |
| AsyncRunOverwrite | a runner and one reader | 166 | violation: a finished result is overwritten by a failure |

What the thirteen properties of Services say: `DropBox` no decision is lost or merged
twice unless two merges overlap on it or one dies; `FindingsAgree` findings and pressure
follow what was last measured and counted; `SessionsHold` marks and peaks are never
below a stored sample or checkpoint while a session's own process samples it, and a save
that ended well and whose row is the one stored has its vector beside it, unless another
process was half-way with the same id; `RecoveryEnds` nothing is tried before every store
is open, and a recovery ends with a success or with exactly the applicable strategies tried
in vain; `BothOrNeither` package and checkout are both new or both old after an
update, also after a failure that could be undone; `Ingested` the last version of a
document that stays is stored once the watcher is idle; `RoutedBest`
the row that answers has a member, its pattern in the text and its conditions met, and a
better row whose pattern occurs there has flag g or y and passes over this text because of
where its match in an earlier one ended; `ChunksHold` every
sentence is in the chunks, in order, once apart from the overlap; `DialogHolds` the
cursor stays in the text and in sight, readers follow a renamed output, what is launched
is what was shown; `DefinitionsHold` a definition vanishes only by a call that names it
or by overlapping calls; `OverridesHold` a saved override is what discovery shows, unless
savers overlap or one died writing; `SkillsHold` a skill is of the highest priority and
no older than the caches allow; `ResumesRight` the run and the child that were
meant, and what status advised works as long as the session file and what the advice was
read from, directory or result, are there.

Why these bounds are enough. A group of 3 tasks with 2 workers is the smallest where a
worker claims a second task while the other runs; two models give one retry. In the delivery
one file with an intercom target and one without take all paths of the handler; a second
write and a second load are what duplicates and overlapping handlers need. Two readers are
needed for one to overwrite the other; the proofs have no bound on them. Jobs meet only in
the poll; three lines are a line before, at and behind the cursor. In Foreground the three
tasks end in the ways that interact (one throws, one detaches, one pauses), the limit of
remembered runs is 1 so that forgetting happens. Two nested runs are a parent and its child;
two remembered names make forgetting happen. Chains cover every kind of step before and
after each other. Two hosts and two milliseconds are what one directory name and one
temporary name need to collide. Texts of five characters on lines of three, in two lines of
height, wrap and scroll. Three calls of the management tool are a create, a rename and a
delete that meet. Three saves of one id, two of them of one process, are what two orders of
writing need; three routed texts are a first match, one that begins behind it and one more.
`MaxRetell`, `MaxKeys`, `MaxClock`, `MaxTime`, `MaxSkillTime`, `MaxChanges` and `MaxLength`
cap what could go on for ever.

Fairness. AsyncRunner: weak fairness of the event loop and of each child's exit (the
runner has no time limit on a child; the code promises no end without it).
ResultDelivery: weak fairness of timers, none of runners, sessions or file events.
AsyncRun: weak fairness of each reader's next step (an interval polls) and of the
delivery; strong fairness of `GiveUp`, since the one-second grace ends and an unwritten
status grows older than a day even when the pid answers. ActivityControl: weak fairness
of the interval timer only. JobTracker: weak fairness of the poll, strong fairness of a
retention timer (it is enabled only between polls), weak fairness of the end of
descendants, which the reconciler repairs. Attempt: weak fairness of the host's timers
and event loop, of the death of a process sent SIGKILL, and of what follows a death; none
of a child's own exit, of SIGTERM or of a grandchild that holds pipes. Nested: the host
polls again and again (`turn` changes infinitely often); nothing else. Chain: weak
fairness of the loop and of the end of children, as Attempt shows for a child that has
said its last word; none of the dialog's user or of interrupts. Foreground, Coordinator
and Services state no fairness: their properties are invariants.

### Disagreements between the code and what is said of it

`AsyncRunOverwrite` is a run of its own: a test says that the reconciler "preserves an
existing result instead of overwriting it", and a runner that publishes and exits between
the reconciler's look for the result and its write has its result replaced.

The properties of the passing runs are worded so that other weaknesses are named in them
rather than hidden:

* An interrupt of the runner signals the one child in the slot (`subagent-runner.ts:1390`);
  `mapConcurrent` goes on claiming tasks in a run that is reported paused
  (`StepsInOrder` says what still holds), and the completion guard may report the child
  as failed since its exit code is forced to 0 (line 428).
* After the restart of a failed watcher nothing looks at the results that arrived in the
  three seconds without one (`result-watcher.ts:246`), and a failed enrichment that "will
  retry later" is not retried (line 124): `ResultsArrive` excludes both.
* A runner that dies between its last status and its result leaves a run that is ended
  and never announced (`stale-run-reconciler.ts:315`): `RunConcludes` starts from a
  status that is not terminal.
* The activity timer compares with a copy that a new step does not reset
  (`subagent-runner.ts:1349`).
* A background nested run with nested runs of its own may be shown running for ever: its
  children raise `lastUpdate` (`nested-events.ts:340`) and its end carries an earlier time
  (`subagent-runner.ts:2174`). `OwnEndShown` covers the others.
* In a chain with a dynamic group sent to the background, the list of session files has
  an empty place that the plan does not skip (`subagent-executor.ts:990`,
  `async-execution.ts:387`): the children behind it get each other's sessions.
  `OwnSession` covers chains without one.
* A call of resume by a prefix that fits a nested run and a remembered foreground run is
  not refused, since `resolveSubagentRunId` does not know remembered runs
  (`run-id-resolver.ts:69`); likewise a resumable remembered run wins over a background
  run that cannot be resumed (`subagent-executor.ts:345`). `OneRunMeant` says for which
  pairs it is refused.
* `recover` returns at the first strategy that succeeds although the pressure is not
  resolved (`recovery.ts:739`, against the comment at line 262); since the first strategy
  always frees something, checkpoint and escalation are not reached in the coordinator.
* The dialog: skills of the chain that are deselected come back (`settings.ts:257`), the
  single dialog does not show the model named by the call (`subagent-executor.ts:1934`),
  "off" gives way to the agent's own thinking (`pi-args.ts:72`), two outputs of one name
  are renamed together (`chain-clarify.ts:858`).
* A text edited in the dialog, or one that holds the text of an item, may name an output
  that is missing: the chain throws, since nothing validates it again
  (`chain-clarify.ts:467` and `:822`, `chain-execution.ts:227` and `:580`,
  `dynamic-fanout.ts:251`). `TextsHold` says that no other text can.
* A session that shuts down or starts drops the waiting notices (`extension/index.ts:527`
  and `:551`) although their children go on and have claimed them: those are not shown
  again.
* A prompt that cannot be removed stays (`spawn.ts:271`), and the call fails although its
  child ended well. A migration that fails or dies leaves `registry.json.tmp`, and if
  another has renamed that file meanwhile, `registry.json` stays torn (`migration.ts:226`).
* Two processes that save a checkpoint in one millisecond use one id (`recovery.ts:445`):
  the row may be one's and the vector the other's (`store.ts:413`).
* A store that cannot be opened lets an assessment reject with no strategy tried
  (`coordinator.ts:493`, `store.ts:763`).
* A routing pattern with flag g or y is one RegExp for all texts, and `test` goes on at
  its `lastIndex` (`router.ts:173`): a rule may pass over a text it fits.
* The index that status advises counts the children of `status.json`; once only the result
  is left, which lists those that ran (`subagent-runner.ts:2227`), it may be out of range
  or mean another child (`async-resume.ts:257` and `:310`), and an empty dynamic group
  shifts it.
* Two prompts of one process in one millisecond share a directory (`spawn.ts:258`); two
  migrations share one temporary file (`migration.ts:225`); two merges of the inbox may
  merge a draft twice (`scribe.ts:51`); settings are written in place
  (`agents.ts:274`). The properties name exactly these overlaps as exceptions.

## 4. The proofs

Every theorem is for all constants that satisfy the named assumptions of its modules,
which TLC also evaluates: `PlanAssumption` (AsyncRunner), `DeliveryAssumption`,
`AsyncRunAssumption`, `ControlAssumption`, `TrackerAssumption`, `NobodyAssumption`
(JobTracker), `AttemptAssumption`, `NestedAssumption`, `ChainAssumption`,
`ForegroundAssumption`, `NoneAssumption` (Foreground), `CoordinatorAssumption`,
`TornAssumption` (Coordinator), and in the components of Services `UpdateAssumption`,
`RecoveryAssumption`, `ScribeAssumption`, `TextAssumption` (Scribe), `RalphAssumption`,
`StoreAssumption`, `SessionAssumption`, `NothingAssumption` (Store),
`IngestionAssumption`, `RoutingAssumption`, `ResumeAssumption`, `OverridesAssumption`,
`DraftAssumption`, `DefinitionsAssumption`, `SkillsAssumption`, `ClarifyAssumption`,
`EditorAssumption`, `ChunkerAssumption`. They say that the sets of processes, calls and
files are what their names say (finite where something is counted), that values standing
for "nothing" are none of the others, and what the types in the code say of the inputs (of
a plan: a sequence of steps, of which only a parallel one has more than one task; of the
search of skills: a path that two directories list has one name); none bounds a number of
processes, messages or steps, a length of a text or of a document.

Each proof shows `Init => Inv`, one lemma per action or family of actions for
`Inv /\ [Next]_vars => Inv'`, and `Inv => property`; action properties follow from `Inv`
and the step. A last theorem per component puts its parts together into the property the
run checks.

* **AsyncRunnerProofs** (`RunnerIsHeld`, `PlanInOrder`). `Inv == TypeOK /\ Shape`: a
  group never has a width outside `1..MaxWidth`, and k is the index of the group being
  executed. `TypeOK` alone is not inductive, since a dynamic group replaces its
  placeholder. On it rest separate invariants: when the loop is left no task is in flight
  (`NoChildAtTheEnd`), the file of an ended run is the final state (`FilesAgree`,
  `InterruptPrevails`), the tasks in flight never exceed the limit (`WithinLimit`: a
  cardinality argument, a worker claims a task only when it gives one up), and every step
  maps to a step of RunLifecycle or a stutter (`RunnerImplementsLifecycle`). `StepsInOrder`
  needs three more: `Front`, all steps of the groups before k are complete and those of
  the groups behind it pending; `Workers`, a claimed task lies below the shared index and
  is shown as what it does or ended with, and a group is aborted only by a task that
  failed; `Left`, a loop left with nothing but successes has no group left.
* **DeliveryAndChainProofs.** ResultDelivery (`ResultsAreHeld`) is a credit argument: a
  write or a failed removal pays for one announcement, and a result that can still be
  announced holds an unspent credit (`Credit`); the same per instance for intercom messages
  (`IntercomCredit`); `Dedupe` says what the two maps stand for. With it every step maps to
  one of Outbox or a stutter (`DeliveryImplementsOutbox`): a duplicate whose file goes was
  told (`DropOutbox`), and a handler that waited tells only what is still owed
  (`AcknowledgedOutbox`). Chain (`NamesResolve`, `ChainsEndTruly`, `FlatNumbersAgree`):
  `ChainInv` says how far the chain is (`Along`), that the results of the steps done stand
  where the graph counts them (`Counted`), that a dynamic group that began has the flat
  indices behind the steps before it, and one that did not has none (`Known`), that only the
  step a chain stops at has a child that did not succeed (`Good`), and what the steps before
  have left under their names (`Left`). Beside it `Worded` says whose texts may differ from
  the plan's. The flat indices are sums over a plan of any length: the plan flattened has
  the children of a step where the sum of the steps before puts them, and no others
  (`Laid`), and there is only one such sequence (`LaidOnce`). The lemmas about the recursive
  functions go by the least counterexample (`LeastNat`).
* **RunAndControlProofs.** AsyncRun (`RunsAreTrue`): `AsyncInv == AsyncTypeOK /\ Shape /\
  LiveRunnerUntouched /\ Honest`; only an age of a day makes a reader give up a live run,
  and every `complete` or `paused` found anywhere is the runner's own. `EndIsFinal` needs
  both. ActivityControl (`RemarksAreHeld`): `Inv` adds that `events.jsonl` holds exactly
  the claimed remarks, each once; that a long-running remark is its step's only one; that
  a pending step has no activity (or `StartGroup` could clear an attention).
* **HostProofs.** JobTracker (`JobsAreHeld`): `Inv` adds that a cursor always stands
  behind a newline and that once a poll has followed the timer of a readable job, the
  cursor is at the end of a run that ended by itself (`Heard`): the reason why no event is
  lost when a job is removed. Attempt (`OneChild`, `VerdictIsTrue`): `Order` says where
  the processes of the attempts before, at and behind the present one stand; `Told` what
  is known of an attempt's end when the next begins or the result is judged; `Gate` that a
  command goes on exactly while there is one without a result. The candidates are all
  different (`CandidatesApart`), which for a recursive function is shown by the least
  counterexample. Nested (`NestedRunsAreShown`): a `Folding` of the event files has one
  copy of a run, shows every folded end, and has no running copy younger than an end that
  is still to be folded; folding the remaining files in the order of their names keeps
  that (`MergeKeeps`, `BumpKeeps`, `AttachKeeps`, `FoldKeeps`), whichever names were
  forgotten, so every registry and every copy read of one is such a folding however the
  processes overwrite each other (`ProjectKeeps`). It rests on what the files are
  (`Written`: a parent is told of in an earlier moment than its child, and what is told
  late of an ended run is of a later moment than the end), which new files keep
  (`MoreFiles`) because of what writers know (`Honest`).
* **CoordinatorProofs** (`ChildrenGetTheirPrompts`, `CallsAreSettled`,
  `RegistrySurvives`). The invariant is a conjunction by piece of state: `CallShape` (a
  call before the naming of its directory has none), `DirInv` and `PromptInv` (a prompt
  file is its writer's, and a child that runs finds its own unless another call has the
  same directory), `LogInv` (what a command has told at each stage; it tells a
  prompt it could not write or remove), `FdInv` and
  `RegistryInv` (a torn inode is one that a call is writing, or failed or died writing),
  `TeamInv` (whoever needs the roster has found team.md), `HookInv` (turnIndex counts the
  hooks that ended well), `GivenInv` (a turn is given what its hook composed, or goes on
  without) and `ClockInv`.
* **ForegroundProofs** (`RequestsAreAnswered`, `RevivedAfterExit`, `OnlyChildIsNoticed`).
  Four type parts (`RequestType`, `ChildType`, `ControlType`, `RestType`) and five of
  substance: `RequestInv` ties a request's phase to its answers and to the bridges' maps,
  `ControlInv` the controls to the phases; `ChildInv` says that no task is open when results
  are collected or remembered, and whose a living process is; `SessionInv` that the child
  whose session a background run continues is over; `NoticeInv` that the control of a run
  with one child shows that child, and, until a shutdown, a claimed attention is on its way
  or shown.
* **ServicesProofs.** By `Separate` a step of Services is a step of one component or
  leaves that component's variables alone, so each theorem rests on its component's
  invariant only.
  - `UpdatesBothOrNeither` (Update): `UpdateInv` says at each step of an update what
    package.json and the checkout are and what the command has to undo.
  - `RecoveriesEnd` (Recovery): by `RecoveryInv` nothing is tried before all stores are
    open, and the strategies tried are those
    due at this pressure up to the next one, all in vain; that the tokens of a history are
    a number (`TokensNat`) is proved by the least counterexample, since the function is
    recursive.
  - `DropBoxHolds` (Scribe): `Written` (a text read or appended is that of a draft
    that is done), `Apart` (agents that do not write during a merge), `OnceEach` (a text
    that left the inbox is in one place, and whoever read it too will not find its file)
    and `Somewhere` (without deaths it is in the inbox, held by a merge, or merged).
  - `FindingsAreRight` (Ralph with Scribe): `Single`, one finding of a kind, and
    `Agree`, the findings say what count and pressure do; the inbox counted is finite.
  - `SessionsAreKept` (Store): by `MarksInv` what a method read of its own
    session's row stays true until it writes, and no mark falls; by `IndexInv` the save that
    wrote a row, if no other process was half-way with the id then, is the `FinalWriter` of
    its vector: those still to write one are of its process and come before it.
  - `DocumentsAreIngested` (Ingestion): by `IngestionType` an ingestion has
    stored the first chunks of the version it read; `Ingested` is then inductive.
  - `RoutesAreBest` (Routing): the rows of a table are totally ordered (`RowsOrdered`), each
    has a place of its own (`PlaceRises`, `OrderIsRight`), so the first match is the best
    (`FoundFirst`); by `RoutingInv` a `lastIndex` is 0 or the end of an occurrence in a text
    routed before.
  - `CallsReachTheirRun` (Resume): `ChildrenInv` (no child of a run that is over runs) and
    `AdviceInv` (while what an advice was read from is there, its index leads to its child,
    whose session is recorded), over ids of which none begins another (`IdsApart`).
  - `SettingsAreKept`, `DefinitionsAreKept`, `SkillsAreRight`, `DialogsHold` and
    `ChunksAreRight` rest on the invariants of FileAndTextProofs.
* **FileAndTextProofs.** Lemmas about five services, used by ServicesProofs.
  - Overrides: `OneAtATime` (calls that do not overlap) and
    `FilesInv`: a file that is whole, and what a call has read and will write, `Agrees`
    with what there was and the calls saved so far. That putting an override on gives the
    draft again is a lemma about `Build` and `Put` (`DraftAgain`).
  - Definitions: `Standing` says what a call knows of its file
    while the others rest, `Clear` that the name it will write is free or that its file
    goes before the other, `Linked` that no two paths share a file and each text is where
    it was, `Guarded` that no call has a file in its hands that none asks for. Of the
    definitions of a name one is read last (`LastOf`).
  - Skills: `HeldSkills` says of the cache of contents that it has a file at most once and
    no more than `MaxCached`, and that a content of the file's time of modification is the
    file's, unless the file was written twice in that millisecond; `Listed` that the list
    leads to files. The time matters: a file that changes has a later one, so what was held
    is seen to be old. A call goes through its names one by one; after each
    (`KeptRight`, `AllRight`), what it has read keeps `HeldSkills`, each name asked is
    answered as often as it was asked, among the answers or the missing, no answer is
    stale, and one from a list of now is of the highest priority.
  - Clarify: `Followed`, that an output which was the only one of its name still is, and
    whoever read it reads it under its name of now, is kept by a renaming of any output in
    a chain of any length (`Renaming`); `OpenField`, that a field holds what may be saved
    from it and the levels offered are those of the model shown; `HandedOver`, that what
    was launched is what was shown.
  - TextEditor: `EditorInv`, the cursor is in the text, and in sight once it was rendered.
    The text is wrapped into lines that begin where the one before ends, none is wider than
    `Width` unless it is a single character (`WrappedWell`), so that line and column of the
    cursor lead back to it. Word and line movements end inside the text.
  - Chunker: while a section is gathered, the chunks done and the one begun are its
    sentences so far, each within the target or a single sentence (`Gathered`,
    `GatheredText`, `WithinTarget`); the raw chunks are the document in order, none across
    sections (`RawIs`); the overlap leaves a chunk's own text alone (`OverlappedIs`); merging
    what is tiny keeps the text and leaves only a first chunk that may be small
    (`WithChunkIs`, `MergedIs`).

  The functions that go along a text, a document or a list of names are recursive with
  explicit domains. That such a function exists is `Iteration`; what holds of its values is
  shown from one to the next by `UpTo`, a consequence of the least counterexample.

Some definitions are written for the provers: explicit functions instead of `:>` and
`@@`, recursive functions with explicit domains instead of folds, operators with the plan
as a parameter where they are used on another state.

Every invariant the runs check is stated by a theorem. Only model-checked is liveness
(`RunEnds`, `ResultsArrive`, `RunConcludes`, `AttentionRises`, `JobsLeave`, `RunsEnd`,
`EndsShown`, `ChainEnds`): the provers do not handle fairness. `AttentionKept`, the action
property inside `AttentionRises`, and `EndIsFinal` and `ResultsAreTheirOwners` are proved
by themselves, as is `ImplementsOutbox` inside `ResultsArrive`.

## 5. What is not modelled

* In the modelled parts: the notes of the components in `PROJECT.json` say what each
  leaves out. Common to all: wording and layout, contents of messages, parsing of
  definition files and of text (regular expressions, JSON, Markdown), prices and token
  counts beyond what a threshold compares.
* The signal that arrives between the first status write and the installation of the
  handler (`subagent-runner.ts:1054` to `:1392`) is only a crash; the cache of
  `status.json` by modification time (`shared/utils.ts:58`) is left out of its readers;
  a session start clears the tracker's jobs of runs that go on
  (`async-job-tracker.ts:299`); a pid read from status.json may belong to another process
  when it is signalled (`subagent-executor.ts:416`).
* Nested control (`extension/fanout-child.ts`, `subagent-executor.ts:493`): a request file
  polled by every child of a root, of which a sibling may refuse or remove another's, and
  one second of waiting for its answer.
* Serialization of agents and chains: "## " in a task becomes another step when a chain is
  written and read back, and text before the first heading is lost.
* Rendering, the pi-web plugin, doctor, casting, charters, converters, pgvector: no state
  shared between actors, or thin layers over other programs.

## 6. Plan

The modules for the parts worth modelling are there, and what they claim of safety is
proved. What stays with TLC is listed in section 4, what is left out in section 5; of that,
nested control (a request polled by every child of a root) is the part whose interleavings
would be modelled next.
