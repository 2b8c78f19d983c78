-------------------------------- MODULE Ralph ---------------------------------
(***************************************************************************)
(* The work monitor: its state and findings, changed by the hooks pi calls  *)
(* and by the coordinator's assessments, with the inbox of the scribe as    *)
(* what a refresh counts. pi waits for a hook, but no longer than           *)
(* HOOK_TIMEOUT_MS: the refresh of an abandoned hook goes on, and ends      *)
(* between, or after, the hooks that follow.                                *)
(***************************************************************************)
EXTENDS Scribe, SequencesExt

CONSTANTS
  Refresh,   \* refreshes that may be in flight, by name
  Percent,   \* the shares of the context, in percent, that may be measured
  RalphPlan, \* how many events of each kind pi and the coordinator send
  MaxTime    \* how many STALLED_SESSION_MS pass

ASSUME RalphAssumption ==
  /\ Percent \subseteq Nat /\ MaxTime \in Nat
  /\ None \notin {"nominal", "warning", "critical", "overflow"}

VARIABLES
  time,      \* the clock, in STALLED_SESSION_MS
  monitor,   \* the state of the work monitor
  refresh,   \* refresh[r]: where a refresh stands
  awaited,   \* the refresh whose hook pi is waiting for, or None
  events     \* events[k]: how many events of kind k are still to come

ralphVars == <<time, monitor, refresh, awaited, events>>

NoRefresh == [pc |-> "idle", at |-> 0, previous |-> 0, count |-> 0]
\* The state a monitor begins with, at its start and at each session's.
Fresh(at) ==
  [active |-> TRUE, lastEvent |-> at, count |-> 0, pressure |-> None, recovered |-> FALSE, findings |-> <<>>]

RalphInit ==
  /\ time = 0
  /\ monitor = Fresh(0)
  /\ refresh = [r \in Refresh |-> NoRefresh]
  /\ awaited = None
  /\ events \in RalphPlan

\* findings keeps one entry of a kind, the latest.
Recorded(s, kind) ==
  IF \E i \in DOMAIN s.findings : s.findings[i] = kind THEN s ELSE [s EXCEPT !.findings = Append(@, kind)]

\* removeFinding takes out the first entry of the kind.
Without(s, kind) ==
  LET at == {i \in DOMAIN s.findings : s.findings[i] = kind}
  IN IF at = {} THEN s ELSE [s EXCEPT !.findings = RemoveAt(@, CHOOSE i \in at : \A j \in at : i <= j)]

Pressure(percent) ==
  IF percent >= 100 THEN "overflow" ELSE IF percent >= 90 THEN "critical" ELSE IF percent >= 70 THEN "warning" ELSE "nominal"

Measured(s, percent) ==
  [s EXCEPT !.lastEvent = time, !.pressure = Pressure(percent),
            !.recovered = @ \/ (s.pressure \notin {None, "nominal"} /\ Pressure(percent) = "nominal")]

\* Mutant: a critical pressure leaves the warning it grew from.
SyncedKeeping(s, percent) ==
  LET t == [Measured(s, percent) EXCEPT !.active = TRUE] IN
  CASE percent >= 90 -> Recorded(t, "context-critical")
    [] percent \in 70..89 -> Recorded(Without(t, "context-critical"), "context-warning")
    [] OTHER -> Without(Without(t, "context-warning"), "context-critical")

\* syncContextPressure: health, and the one finding that goes with it.
Synced(s, percent) ==
  LET t == [Measured(s, percent) EXCEPT !.active = TRUE] IN
  CASE percent >= 90 -> Recorded(Without(t, "context-warning"), "context-critical")
    [] percent \in 70..89 -> Recorded(Without(t, "context-critical"), "context-warning")
    [] OTHER -> Without(Without(t, "context-warning"), "context-critical")

Stalled(s) == IF s.lastEvent # None /\ time - s.lastEvent >= 1 THEN Recorded(s, "stalled-session") ELSE s

Takes(kind) == events[kind] > 0 /\ events' = [events EXCEPT ![kind] = @ - 1]

\* refresh, as far as its first await.
Begins(r, s) ==
  /\ refresh[r].pc = "idle"
  /\ monitor' = Stalled(s)
  /\ refresh' = [refresh EXCEPT ![r] = [NoRefresh EXCEPT !.pc = "stack", !.at = time]]
  /\ awaited' = r

SessionStarts(r, resumed) ==
  /\ awaited = None /\ Takes("session")
  /\ Begins(r, IF resumed THEN Recorded(Fresh(time), "session-resumed") ELSE Fresh(time))
  /\ UNCHANGED <<time, scribeVars>>

\* before_agent_start and agent_end.
AgentHook(r) ==
  /\ awaited = None /\ Takes("agent") /\ Begins(r, monitor)
  /\ UNCHANGED <<time, scribeVars>>

\* The team stack is known: the count so far is read, then the inbox is listed.
GotStack(r) ==
  /\ refresh[r].pc = "stack"
  /\ refresh' = [refresh EXCEPT ![r].pc = "scan", ![r].previous = monitor.count]
  /\ UNCHANGED <<time, monitor, awaited, events, scribeVars>>

Scans(r) ==
  /\ refresh[r].pc = "scan"
  /\ refresh' = [refresh EXCEPT ![r].pc = "found", ![r].count = Cardinality(DOMAIN inbox)]
  /\ UNCHANGED <<time, monitor, awaited, events, scribeVars>>

Counted(s, w) ==
  LET changed == IF w.previous # w.count THEN Recorded(s, "inbox-changed") ELSE s
      t == [changed EXCEPT !.count = w.count, !.active = TRUE, !.lastEvent = w.at]
  IN IF w.count > 0 THEN Recorded(t, "inbox-nonempty") ELSE Without(t, "inbox-nonempty")

Ended(r) == /\ refresh' = [refresh EXCEPT ![r] = NoRefresh]
            /\ awaited' = IF awaited = r THEN None ELSE awaited

RefreshEnds(r) ==
  /\ refresh[r].pc = "found" /\ Ended(r)
  /\ monitor' = Counted(monitor, refresh[r])
  /\ UNCHANGED <<time, events, scribeVars>>

\* Resolving the stack, or listing the inbox, fails: the hook only warns.
RefreshFails(r) ==
  /\ refresh[r].pc \in {"stack", "scan"} /\ Takes("failure") /\ Ended(r)
  /\ UNCHANGED <<time, monitor, scribeVars>>

\* HOOK_TIMEOUT_MS pass: pi goes on, and so does the refresh.
HookTimesOut ==
  /\ awaited # None /\ awaited' = None
  /\ UNCHANGED <<time, monitor, refresh, events, scribeVars>>

TurnEnds(percent) ==
  /\ awaited = None /\ Takes("measure")
  /\ monitor' = IF percent = None THEN [monitor EXCEPT !.active = TRUE, !.lastEvent = time] ELSE Synced(monitor, percent)
  /\ UNCHANGED <<time, refresh, awaited, scribeVars>>

\* The coordinator's assessment comes during a hook too.
Assessed(percent) ==
  /\ Takes("measure") /\ monitor' = Synced(monitor, percent)
  /\ UNCHANGED <<time, refresh, awaited, scribeVars>>

Compacts(percent) ==
  /\ awaited = None /\ Takes("compact")
  /\ LET s == [monitor EXCEPT !.active = TRUE, !.lastEvent = time]
     IN monitor' = Recorded(IF percent = None THEN s ELSE Measured(s, percent), "compaction-observed")
  /\ UNCHANGED <<time, refresh, awaited, scribeVars>>

Stops ==
  /\ awaited = None /\ monitor.active /\ Takes("stop")
  /\ monitor' = [monitor EXCEPT !.active = FALSE, !.lastEvent = time]
  /\ UNCHANGED <<time, refresh, awaited, scribeVars>>

TimePasses == time < MaxTime /\ time' = time + 1 /\ UNCHANGED <<monitor, refresh, awaited, events, scribeVars>>

RalphNext ==
  \/ \E r \in Refresh :
       \/ \E resumed \in BOOLEAN : SessionStarts(r, resumed)
       \/ AgentHook(r) \/ GotStack(r) \/ Scans(r) \/ RefreshEnds(r) \/ RefreshFails(r)
  \/ HookTimesOut \/ Stops \/ TimePasses
  \/ \E p \in Percent \cup {None} : TurnEnds(p) \/ Compacts(p)
  \/ \E p \in Percent : Assessed(p)

(***************************************************************************)
(* Properties                                                              *)
(***************************************************************************)
Has(kind) == \E i \in DOMAIN monitor.findings : monitor.findings[i] = kind

\* What the findings say agrees with the counts and measures shown beside them,
\* also when refreshes that pi gave up overlap each other, a session start and a
\* stop: one entry of a kind, "inbox-nonempty" exactly while the count shown is
\* not 0, and one finding on pressure, that of the pressure shown - until a
\* compaction is observed, whose measure changes the pressure without the finding.
FindingsAgree ==
  /\ \A i, j \in DOMAIN monitor.findings : monitor.findings[i] = monitor.findings[j] => i = j
  /\ Has("inbox-nonempty") <=> monitor.count > 0
  /\ ~ (Has("context-warning") /\ Has("context-critical"))
  /\ Has("compaction-observed") \/
       /\ Has("context-critical") <=> monitor.pressure \in {"critical", "overflow"}
       /\ Has("context-warning") <=> monitor.pressure = "warning"
=============================================================================
