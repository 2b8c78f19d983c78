------------------------------- MODULE Attempt --------------------------------
(***************************************************************************)
(* One child of a foreground run, from spawn to result                     *)
(* (runs/foreground/execution.ts): the attempts with one model after the   *)
(* other, the signals and timers of each attempt, the guard on the pipes   *)
(* of an exited child, and the acceptance gate with its commands.          *)
(*                                                                         *)
(* A child dies (Dies) before the host hears of it (Exits), and its pipes  *)
(* close after that, unless a grandchild holds them open.                  *)
(***************************************************************************)
EXTENDS Acceptance

CONSTANTS
  Wanted,     \* the primary model and its fallbacks, as written
  Qualify,    \* the provider-qualified name of each; None for an empty one
  Detachable, \* the agent may detach to talk to its supervisor
  Explicits,  \* the acceptance inputs considered
  Inferred,   \* the levels inferred from agent and task
  Reports,    \* what a child may report
  None

ASSUME AttemptAssumption ==
  /\ Wanted \in Seq(DOMAIN Qualify) /\ Detachable \in BOOLEAN
  /\ Inferred \subseteq {"attested", "checked", "reviewed"} /\ \A x \in Explicits, l \in Inferred : Effective(x, l) # None
  /\ \A x \in Explicits :
       x \in [given : BOOLEAN, level : {"auto"} \cup Range(Level), reason : BOOLEAN, evidence : SUBSET Evidence,
              criteria : {x.criteria}, verify : Seq(BOOLEAN), review : {"unset", "off", "optional", "required"}]
  /\ \A r \in Reports : r.readable \in BOOLEAN /\ r.staged \in BOOLEAN

VARIABLES
  phase,       \* "ready", "running", "accepting", "done"
  attempt,     \* the attempt going on, or the last one
  proc,        \* the process of each attempt
  signal,      \* the strongest signal sent to the last process
  code,        \* how it died
  held,        \* a grandchild holds its pipes
  guard,       \* the post-exit guard has timers
  drain,       \* the timers of the final drain
  forced,      \* the host ended the process itself
  nag,         \* the SIGTERM that follows an interrupt is due
  clean,       \* a terminal message without error came
  said,        \* the error the assistant reported last
  asked,       \* the child turned to its supervisor
  aborted,     \* the abort signal of the request
  interrupt,   \* the interrupt controller of the child is aborted
  interrupted, \* this attempt was interrupted
  detached,    \* this attempt was detached
  error,       \* the error of the result
  exit,        \* its exit code
  tmp,         \* the attempts whose temporary directory exists
  acc,         \* the acceptance in force
  ledger,      \* its status
  checks,      \* the results of its commands
  check        \* the command going on

childVars  == <<proc, held>>
timerVars  == <<guard, drain, nag>>
wordVars   == <<signal, code, forced, clean, said, asked>>
requests   == <<aborted, interrupt>>
resultVars == <<interrupted, detached, error, exit>>
gateVars   == <<acc, ledger, checks, check>>
attemptVars == <<phase, attempt, childVars, timerVars, wordVars, requests, resultVars, tmp,
                 gateVars>>

\* The candidates: each model once, under the name its provider gives it.
Candidates ==
  LET seen[n \in 0..Len(Wanted)] ==
        IF n = 0 THEN <<>>
        ELSE LET m == Qualify[Wanted[n]] IN
             IF m = None \/ m \in Range(seen[n - 1]) THEN seen[n - 1] ELSE Append(seen[n - 1], m)
  IN seen[Len(Wanted)]

Attempts == 1 .. (IF Candidates = <<>> THEN 1 ELSE Len(Candidates))
Errors   == {"none", "other", "retryable"}
NoCheck  == [state |-> "none", late |-> FALSE, held |-> FALSE]
NewCheck == [state |-> "running", late |-> FALSE, held |-> FALSE]

AttemptInit ==
  /\ phase = "ready" /\ attempt = 1
  /\ proc = [a \in Attempts |-> "none"] /\ signal = "none" /\ code = "none"
  /\ held = FALSE /\ guard = FALSE /\ drain = "off" /\ forced = FALSE /\ nag = FALSE
  /\ clean = FALSE /\ said = "none" /\ asked = FALSE
  /\ aborted = FALSE /\ interrupt = FALSE
  /\ interrupted = FALSE /\ detached = FALSE /\ error = "none" /\ exit = 0
  /\ tmp = {} /\ acc = None /\ ledger = "claimed" /\ checks = <<>> /\ check = NoCheck

Settled == phase # "running"
Now     == proc[attempt]

\* kill() reaches a process that is alive; a stronger signal stays.
Strength == [none |-> 0, INT |-> 1, TERM |-> 2, KILL |-> 3]
Send(s) == signal' = IF Now = "alive" /\ Strength[s] > Strength[signal] THEN s ELSE signal

-----------------------------------------------------------------------------
(* The end of an attempt.                                                  *)

\* An interrupt and a detachment make a success of whatever happened (no error
\* is recorded before the pipes close); the checks of messages, structured output and
\* completion guard may still fail one that ended well.
Result(c, e) ==
  IF interrupted' \/ detached' THEN {<<0, "none">>}
  ELSE IF e # "none" THEN {<<IF c = 0 THEN 1 ELSE c, e>>}
  ELSE IF c # 0 THEN {<<c, "none">>}
  ELSE {<<0, "none">>, <<1, "other">>, <<1, "retryable">>}

\* Mutant: the last word on retrying is the exit code.
NextModelAnyFailure(r) ==
  IF r[1] # 0 /\ attempt + 1 \in Attempts
  THEN phase' = "ready" /\ attempt' = attempt + 1
  ELSE phase' = "accepting" /\ UNCHANGED attempt

\* The next model is tried after an error that names its provider.
NextModel(r) ==
  IF r # <<0, "none">> /\ r[2] = "retryable" /\ attempt + 1 \in Attempts
  THEN phase' = "ready" /\ attempt' = attempt + 1
  ELSE phase' = "accepting" /\ UNCHANGED attempt

\* Nothing is remembered of an attempt but its result.
Forget ==
  /\ drain' = "off" /\ guard' = FALSE /\ nag' = FALSE
  /\ signal' = "none" /\ code' = "none" /\ forced' = FALSE
  /\ clean' = FALSE /\ said' = "none" /\ asked' = FALSE

\* finish(): the promise of the attempt resolves, once.
Finish(c, e) ==
  IF Settled THEN UNCHANGED <<phase, attempt, error, exit, timerVars, wordVars, requests>>
  ELSE /\ \E r \in Result(c, e) : exit' = r[1] /\ error' = r[2] /\ NextModel(r)
       /\ Forget
       /\ IF phase' = "accepting" THEN aborted' = FALSE /\ interrupt' = FALSE
          ELSE UNCHANGED requests

DetachNow ==
  /\ detached' = TRUE /\ UNCHANGED interrupted
  /\ Finish(1, "none")

\* Mutant: the run does not wait for the child it has sent a signal.
KillAndGo == UNCHANGED <<interrupted, detached>> /\ Finish(1, "other")

\* SIGTERM; the SIGKILL three seconds later is never sent, because the first
\* call has set proc.killed.
Kill ==
  /\ Send("TERM") /\ aborted' = TRUE
  /\ UNCHANGED <<phase, attempt, timerVars, code, forced, clean, said, asked, interrupt,
                 resultVars>>

-----------------------------------------------------------------------------
(* An attempt.                                                             *)

\* The signals of the request hold for every attempt.
Spawn ==
  /\ phase = "ready" /\ phase' = "running"
  /\ proc' = [proc EXCEPT ![attempt] = "alive"] /\ tmp' = tmp \cup {attempt}
  /\ signal' = IF aborted THEN "TERM" ELSE IF interrupt THEN "INT" ELSE "none"
  /\ interrupted' = interrupt /\ nag' = interrupt
  /\ detached' = FALSE /\ error' = "none" /\ exit' = 0
  /\ UNCHANGED <<attempt, held, guard, drain, code, forced, clean, said, asked, requests,
                 gateVars>>

\* The command cannot be run: the process never lived.
SpawnFails ==
  /\ phase = "running" /\ Now = "alive" /\ ~clean /\ said = "none" /\ ~asked
  /\ proc' = [proc EXCEPT ![attempt] = "closed"] /\ tmp' = tmp \ {attempt}
  /\ UNCHANGED <<interrupted, detached>>
  /\ Finish(1, "other")
  /\ UNCHANGED <<held, gateVars>>

Ask ==
  /\ ~Settled /\ Now \in {"alive", "dead", "exited"} /\ Detachable /\ ~asked
  /\ asked' = TRUE
  /\ UNCHANGED <<phase, attempt, childVars, timerVars, signal, code, forced, clean, said,
                 requests, resultVars, tmp, gateVars>>

Drains(stop) == Now \in {"alive", "dead"} /\ drain = "off" /\ stop # "no"

\* A message of the assistant.  A terminal one (stop, no tool call) takes back
\* an earlier error only if it has text and no error of its own.
Says(stop, e) ==
  /\ ~Settled /\ Now \in {"alive", "dead", "exited"}
  /\ stop = "clean" => e = "none"
  /\ \E text \in BOOLEAN :
       said' = IF e # "none" THEN e ELSE IF stop = "clean" /\ text THEN "none" ELSE said
  /\ clean' = (clean \/ stop = "clean")
  /\ drain' = IF Drains(stop) THEN "grace" ELSE drain
  /\ UNCHANGED <<phase, attempt, childVars, guard, nag, signal, code, forced, asked, requests,
                 resultVars, tmp, gateVars>>

\* The process ends by itself or by a signal; only SIGKILL leaves no choice.
Dies ==
  /\ Now = "alive" /\ proc' = [proc EXCEPT ![attempt] = "dead"]
  /\ code' \in (IF Settled THEN {code} ELSE IF signal = "KILL" THEN {"signal"} ELSE {"zero", "one", "signal"})
  /\ held' \in BOOLEAN
  /\ UNCHANGED <<phase, attempt, timerVars, signal, forced, clean, said, asked, requests,
                 resultVars, tmp, gateVars>>

Exits ==
  /\ Now = "dead" /\ proc' = [proc EXCEPT ![attempt] = "exited"]
  /\ drain' = "off" /\ guard' = TRUE
  /\ UNCHANGED <<phase, attempt, held, nag, wordVars, requests, resultVars, tmp, gateVars>>

\* Two seconds without output, or eight: the pipes are destroyed.
GuardFires ==
  /\ guard /\ Now = "exited"
  /\ held' = FALSE /\ guard' = FALSE
  /\ UNCHANGED <<phase, attempt, proc, drain, nag, wordVars, requests, resultVars, tmp,
                 gateVars>>

\* An answer that was complete counts, even if the host had to end the process.
ForcedSuccess == forced /\ clean /\ error = "none" /\ said = "none"

Close ==
  /\ Now = "exited" /\ ~held
  /\ proc' = [proc EXCEPT ![attempt] = "closed"] /\ tmp' = tmp \ {attempt}
  /\ UNCHANGED <<interrupted, detached>>
  /\ \E e \in (IF error # "none" THEN {error} ELSE IF said # "none" THEN {said}
               ELSE IF code = "zero" \/ ForcedSuccess THEN {"none"} ELSE Errors) :
       Finish(IF ForcedSuccess \/ code = "zero" THEN 0 ELSE 1, e)
  /\ UNCHANGED <<held, gateVars>>

\* Mutant: the drain sends SIGTERM and leaves it at that.
GraceOverOnce ==
  /\ drain = "grace" /\ Send("TERM") /\ drain' = "over" /\ forced' = TRUE
  /\ UNCHANGED <<phase, attempt, childVars, guard, nag, code, clean, said, asked, requests,
                 resultVars, tmp, gateVars>>

\* One second after the last word: SIGTERM; three seconds later, SIGKILL.
GraceOver ==
  /\ drain = "grace" /\ Send("TERM")
  /\ IF Now = "alive" THEN drain' = "hard" /\ forced' = TRUE
     ELSE drain' = "over" /\ UNCHANGED forced
  /\ UNCHANGED <<phase, attempt, childVars, guard, nag, code, clean, said, asked, requests,
                 resultVars, tmp, gateVars>>

HardOver ==
  /\ drain = "hard" /\ Send("KILL") /\ drain' = "over"
  /\ UNCHANGED <<phase, attempt, childVars, guard, nag, code, forced, clean, said, asked,
                 requests, resultVars, tmp, gateVars>>

-----------------------------------------------------------------------------
(* Requests of others.                                                     *)

DetachRequest ==
  /\ Detachable /\ asked /\ ~Settled
  /\ DetachNow
  /\ UNCHANGED <<childVars, tmp, gateVars>>

\* An abort detaches a child that is talking to its supervisor.
Abort ==
  /\ phase \in {"ready", "running"} /\ ~aborted
  /\ IF phase = "ready"
     THEN /\ aborted' = TRUE
          /\ UNCHANGED <<phase, attempt, timerVars, wordVars, interrupt, resultVars>>
     ELSE IF Detachable /\ asked THEN DetachNow ELSE Kill
  /\ UNCHANGED <<childVars, tmp, gateVars>>

Interrupt ==
  /\ phase \in {"ready", "running"} /\ ~interrupt /\ interrupt' = TRUE
  /\ IF phase = "ready" THEN UNCHANGED <<signal, interrupted, nag>>
     ELSE interrupted' = TRUE /\ nag' = TRUE /\ Send("INT")
  /\ UNCHANGED <<phase, attempt, childVars, guard, drain, code, forced, clean, said, asked,
                 aborted, detached, error, exit, tmp, gateVars>>

Nag ==
  /\ nag /\ nag' = FALSE /\ Send("TERM")
  /\ UNCHANGED <<phase, attempt, childVars, guard, drain, code, forced, clean, said, asked,
                 requests, resultVars, tmp, gateVars>>

-----------------------------------------------------------------------------
(* The acceptance gate.                                                    *)

Conclude(a, status) ==
  /\ phase' = "done" /\ ledger' = status
  /\ IF status = "rejected" /\ a.explicit /\ exit = 0 /\ ~detached /\ ~interrupted
     THEN exit' = 1 /\ error' = "other"
     ELSE UNCHANGED <<exit, error>>

\* The input, the inferred level and the report are only looked at here.
Evaluate ==
  /\ phase = "accepting" /\ acc = None
  /\ \E x \in Explicits, l \in Inferred, r \in Reports :
       LET a == Effective(x, l)
           status == ReportStatus(a, r)
       IN /\ acc' = a
          /\ IF status = "checked" /\ Verifies(a)
             THEN /\ check' = NewCheck /\ ledger' = status
                  /\ UNCHANGED <<phase, exit, error>>
             ELSE Conclude(a, ReviewStatus(a, status)) /\ UNCHANGED check
  /\ UNCHANGED <<attempt, childVars, timerVars, wordVars, requests, interrupted, detached, tmp,
                 checks>>

CheckUnchanged == UNCHANGED <<attempt, childVars, timerVars, wordVars, requests, interrupted,
                              detached, tmp, acc>>

\* The timeout: SIGTERM, and SIGKILL a second later, to the shell alone.
CheckLate ==
  /\ check.state # "none" /\ ~check.late /\ check' = [check EXCEPT !.late = TRUE]
  /\ UNCHANGED <<phase, exit, error, ledger, checks>> /\ CheckUnchanged

\* Its children may hold the pipes, which nothing closes here.
CheckDies ==
  /\ check.state = "running"
  /\ \E s \in {"passed", "failed"}, h \in BOOLEAN :
       check' = [state |-> s, late |-> check.late, held |-> h]
  /\ UNCHANGED <<phase, exit, error, ledger, checks>> /\ CheckUnchanged

CheckReleased ==
  /\ check.held /\ check' = [check EXCEPT !.held = FALSE]
  /\ UNCHANGED <<phase, exit, error, ledger, checks>> /\ CheckUnchanged

CheckCloses ==
  /\ check.state \in {"passed", "failed"} /\ ~check.held
  /\ checks' = Append(checks, IF check.late THEN "timed-out"
                              ELSE IF check.state = "passed" THEN "passed"
                              ELSE IF acc.verify[Len(checks) + 1] THEN "allowed" ELSE "failed")
  /\ IF Len(checks') < Len(acc.verify)
     THEN /\ check' = NewCheck
          /\ UNCHANGED <<phase, exit, error, ledger>>
     ELSE /\ check' = NoCheck
          /\ Conclude(acc, LET s == VerifyStatus(checks')
                           IN IF s = "rejected" THEN s ELSE ReviewStatus(acc, s))
  /\ CheckUnchanged

-----------------------------------------------------------------------------
Process == Dies \/ Exits \/ Close \/ GuardFires \/ GraceOver \/ HardOver \/ Nag

AttemptNext ==
  \/ Spawn \/ SpawnFails \/ Ask \/ Process \/ DetachRequest \/ Abort \/ Interrupt
  \/ \E stop \in {"no", "clean", "failed"}, e \in Errors : Says(stop, e)
  \/ Evaluate \/ CheckLate \/ CheckDies \/ CheckReleased \/ CheckCloses

\* Timers fire, the operating system ends what got SIGKILL and reports it, and
\* an open pipe nobody holds is closed.  No child has to heed another signal,
\* and no grandchild has to end.
Fairness ==
  /\ WF_attemptVars(GraceOver) /\ WF_attemptVars(HardOver) /\ WF_attemptVars(GuardFires)
  /\ WF_attemptVars(Exits) /\ WF_attemptVars(Close) /\ WF_attemptVars(signal = "KILL" /\ Dies)
  /\ WF_attemptVars(Spawn) /\ WF_attemptVars(Evaluate)
  /\ WF_attemptVars(CheckLate) /\ WF_attemptVars(check.late /\ CheckDies) /\ WF_attemptVars(CheckCloses)

AttemptSpec == AttemptInit /\ [][AttemptNext]_attemptVars /\ Fairness

-----------------------------------------------------------------------------
(* Properties.                                                             *)

\* Types; one candidate per qualified name.
AttemptType ==
  /\ IsInjective(Candidates)
  /\ phase \in {"ready", "running", "accepting", "done"} /\ attempt \in Attempts
  /\ proc \in [Attempts -> {"none", "alive", "dead", "exited", "closed"}]
  /\ signal \in DOMAIN Strength /\ code \in {"none", "zero", "one", "signal"}
  /\ drain \in {"off", "grace", "hard", "over"} /\ said \in Errors /\ error \in Errors
  /\ held \in BOOLEAN /\ guard \in BOOLEAN /\ forced \in BOOLEAN /\ nag \in BOOLEAN
  /\ clean \in BOOLEAN /\ asked \in BOOLEAN /\ aborted \in BOOLEAN /\ interrupt \in BOOLEAN
  /\ interrupted \in BOOLEAN /\ detached \in BOOLEAN
  /\ exit \in {0, 1} /\ tmp \subseteq Attempts
  /\ ledger \in {"claimed", "not-required", "attested", "checked", "verified", "rejected"}
  /\ Range(checks) \subseteq {"passed", "allowed", "failed", "timed-out"}
  /\ check.state \in {"none", "running", "passed", "failed"}

\* Two attempts never work on one session file: the process of an attempt and
\* its temporary directory are gone before the next model is tried, and before a
\* result is returned unless the child detached.
OneChildAtATime ==
  /\ AttemptType
  /\ \A a \in Attempts : a < attempt => proc[a] = "closed" /\ a \notin tmp
  /\ phase \in {"accepting", "done"} /\ ~detached => Now = "closed" /\ tmp = {}

\* What the caller is told: an interrupted or detached child is neither failed
\* nor tried again with another model, success carries no error, and a gate the
\* caller asked for and the child failed makes the run fail.
ResultIsTrue ==
  /\ phase = "ready" /\ attempt > 1 => error = "retryable" /\ ~interrupted /\ ~detached
  /\ phase = "done" =>
       /\ interrupted \/ detached => exit = 0
       /\ exit = 0 => error = "none"
       /\ ledger = "rejected" /\ acc.explicit /\ ~interrupted /\ ~detached => exit # 0

\* The gate is never weaker than the level inferred from the agent and its task
\* unless it was switched off with a reason, and what it reports as verified has
\* run every command without a failure.
GateHolds ==
  phase = "done" =>
    /\ IF acc.level = "none" THEN acc.disabled ELSE Rank(acc.level) >= Rank(acc.inferred)
    /\ ledger = "verified" => /\ Len(checks) = Len(acc.verify)
                              /\ Range(checks) \subseteq {"passed", "allowed"}
    /\ ledger = "checked" => acc.verify = <<>> \/ acc.level = "checked"

\* What is returned is true of the child, and of the gate it had to pass.
Verdict == ResultIsTrue /\ GateHolds

\* A child that has said its last word, or died, is always done with, whoever
\* holds its pipes and whatever signals it ignores; and the gate gives its
\* verdict unless a grandchild of a command holds the pipes of the shell.
RunsEnd ==
  /\ \A a \in Attempts :
       (attempt = a /\ phase = "running" /\ (drain # "off" \/ Now \in {"dead", "exited"}))
         ~> (attempt # a \/ phase # "running")
  /\ (phase = "accepting") ~> (phase = "done" \/ check.held)
=============================================================================
