--------------------------- MODULE ResultDelivery ---------------------------
(***************************************************************************)
(* How the completion of an async run reaches its session.  The runner (or *)
(* the reconciler, in its place) leaves one result file per run in a       *)
(* directory all sessions share.  Each loaded instance of the extension    *)
(* watches that directory (result-watcher.ts), coalesces what it sees      *)
(* (file-coalescer.ts), drops what it has already handled                  *)
(* (completion-dedupe.ts), sends the result over the intercom and waits up *)
(* to 500 ms for an acknowledgement (result-intercom.ts), then emits the   *)
(* completion event, on which notify.ts starts a turn in the session.      *)
(*                                                                         *)
(* A step is one turn of the host's event loop.  The wait for the          *)
(* acknowledgement is the one place where a handler gives up its turn, and *)
(* its instance can be shut down and another one loaded meanwhile: the     *)
(* event bus outlives the instance.                                        *)
(***************************************************************************)
EXTENDS Naturals, FiniteSets

CONSTANTS
  Run,          \* async runs, one result file each
  Session,      \* sessions of the host
  None,         \* no session
  Unscoped,     \* owner of a result that names no session
  Owner,        \* the session named in each result
  Target,       \* runs whose result has an intercom target
  Faults,       \* what can fail: "limit", "error", "enrich", "unlink"
  Ends,         \* how a session can end: "shutdown", "exit"
  MaxWrites,    \* bound: writes of one result file
  MaxLoads,     \* bound: instances loaded
  MaxFailures   \* bound: failed enrichments, and failed removals, per run

ASSUME DeliveryAssumption ==
  /\ None \notin Session /\ Unscoped \notin Session
  /\ Owner \in [Run -> Session \cup {Unscoped}]
  /\ Target \subseteq Run
  /\ Faults \subseteq {"limit", "error", "enrich", "unlink"}
  /\ Ends \subseteq {"shutdown", "exit"}
  /\ MaxWrites \in Nat /\ MaxLoads \in Nat /\ MaxFailures \in Nat

VARIABLES
  written,     \* how often the result of each run has been written
  file,        \* runs whose result file exists
  load,        \* number of the current instance; the first one is 1
  loaded,      \* that instance is registered and not shut down
  session,     \* state.currentSessionId
  watcher,     \* "off", "native", "restart" (timer pending) or "poll"
  pending,     \* files the coalescer has a timer for
  seen,        \* state.completionSeen of the current instance
  handling,    \* <<run, load>>: handlers waiting for the acknowledgement
  notifySeen,  \* the process-wide map of notify.ts
  enrichFailed,\* how often the nested enrichment of each result failed
  kept,        \* how often each result could not be removed
  sent,        \* intercom messages the current instance sent for each run
  notified,    \* notifications that reached the owner of the result
  misdelivered,\* notifications that reached another session, or none
  lost         \* runs whose handler died with the host after their file went

instanceVars == <<load, loaded, session, watcher>>
failures == <<enrichFailed, kept>>
historyVars == <<sent, notified, misdelivered, lost>>
vars == <<written, file, load, loaded, session, watcher, pending, seen,
          handling, notifySeen, enrichFailed, kept, sent, notified, misdelivered, lost>>

Handling(r) == \E n \in 1..MaxLoads : <<r, n>> \in handling

Init ==
  /\ written = [r \in Run |-> 0] /\ file = {}
  /\ load = 0 /\ loaded = FALSE /\ session = None /\ watcher = "off"
  /\ pending = {} /\ seen = {} /\ handling = {} /\ notifySeen = {}
  /\ enrichFailed = [r \in Run |-> 0] /\ kept = [r \in Run |-> 0]
  /\ sent = [r \in Run |-> 0]
  /\ notified = [r \in Run |-> 0]
  /\ misdelivered = [r \in Run |-> 0]
  /\ lost = {}

-----------------------------------------------------------------------------
\* The detached runner, or a repair after it: the file is replaced atomically,
\* and a native watcher reports the rename.
WriteResult(r) ==
  /\ written[r] < MaxWrites
  /\ written' = [written EXCEPT ![r] = @ + 1]
  /\ file' = file \cup {r}
  /\ pending' = IF watcher = "native" THEN pending \cup {r} ELSE pending
  /\ UNCHANGED <<instanceVars, seen, handling, notifySeen, failures, historyVars>>

\* What startResultWatcher can leave behind.
WatcherStarts ==
  \/ watcher' = "native"
  \/ "limit" \in Faults /\ watcher' = "poll"
  \/ "error" \in Faults /\ watcher' = "restart"

\* Registering the extension: the previous instance is cleaned up, and the
\* results that exist are scheduled, although no session is known yet.
Load ==
  /\ ~loaded /\ load < MaxLoads
  /\ load' = load + 1 /\ loaded' = TRUE
  /\ WatcherStarts
  /\ pending' = file /\ seen' = {} /\ sent' = [r \in Run |-> 0]
  /\ UNCHANGED <<written, file, session, handling, notifySeen, failures,
                 notified, misdelivered, lost>>

\* Mutant: the results found before the session was known are not revisited.
SessionStartUnprimed(s) ==
  /\ loaded /\ session = None
  /\ session' = s
  /\ pending' = {}
  /\ UNCHANGED <<written, file, load, loaded, watcher, seen, handling,
                 notifySeen, failures, historyVars>>

\* session_start: the coalescer is cleared (resetJobs) and primed again.
SessionStart(s) ==
  /\ loaded /\ session = None
  /\ session' = s
  /\ pending' = file
  /\ UNCHANGED <<written, file, load, loaded, watcher, seen, handling,
                 notifySeen, failures, historyVars>>

\* session_shutdown.  Handlers that are waiting are not cancelled.
Shutdown ==
  /\ "shutdown" \in Ends /\ loaded /\ session # None
  /\ loaded' = FALSE /\ session' = None /\ watcher' = "off" /\ pending' = {}
  /\ UNCHANGED <<written, file, load, seen, handling, notifySeen, failures, historyVars>>

\* The host process ends; only the files stay.
Exit ==
  /\ "exit" \in Ends /\ loaded
  /\ loaded' = FALSE /\ session' = None /\ watcher' = "off"
  /\ pending' = {} /\ seen' = {} /\ handling' = {} /\ notifySeen' = {}
  /\ lost' = lost \cup {r \in Run : Handling(r) /\ r \notin file}
  /\ UNCHANGED <<written, file, load, failures, sent, notified, misdelivered>>

-----------------------------------------------------------------------------
\* The native watcher reports an error: out of handles or watches means
\* polling, which scans at once; anything else a restart in three seconds.
WatcherFails ==
  /\ watcher = "native"
  /\ \/ "limit" \in Faults /\ watcher' = "poll" /\ pending' = pending \cup file
     \/ "error" \in Faults /\ watcher' = "restart" /\ UNCHANGED pending
  /\ UNCHANGED <<written, file, load, loaded, session, seen, handling,
                 notifySeen, failures, historyVars>>

\* The restart timer: a native watcher that starts scans nothing.
RestartWatcher ==
  /\ watcher = "restart"
  /\ WatcherStarts
  /\ pending' = IF watcher' = "poll" THEN pending \cup file ELSE pending
  /\ UNCHANGED <<written, file, load, loaded, session, seen, handling,
                 notifySeen, failures, historyVars>>

\* The polling interval: every file without a timer gets one.
Poll ==
  /\ watcher = "poll" /\ ~(file \subseteq pending)
  /\ pending' = pending \cup file
  /\ UNCHANGED <<written, file, instanceVars, seen, handling, notifySeen,
                 failures, historyVars>>

-----------------------------------------------------------------------------
\* A result belongs to the session it names, or to any session of its cwd.
Accepts(r) == session # None /\ Owner[r] \in {session, Unscoped}

\* handleComplete of notify.ts: the turn starts in whatever session is current.
Notify(r) ==
  IF r \in notifySeen THEN UNCHANGED <<notifySeen, notified, misdelivered>>
  ELSE /\ notifySeen' = notifySeen \cup {r}
       /\ notified' = [notified EXCEPT ![r] = IF Accepts(r) THEN @ + 1 ELSE @]
       /\ misdelivered' = [misdelivered EXCEPT ![r] = IF Accepts(r) THEN @ ELSE @ + 1]

\* The file is removed; that it is already gone is not an error.
Unlink(r) ==
  \/ file' = file \ {r} /\ UNCHANGED kept
  \/ /\ "unlink" \in Faults /\ r \in file /\ kept[r] < MaxFailures
     /\ kept' = [kept EXCEPT ![r] = @ + 1]
     /\ UNCHANGED file

\* The coalescer's timer fires for a file that is gone or not this session's.
Ignore(r) ==
  /\ r \in pending
  /\ r \notin file \/ ~Accepts(r)
  /\ pending' = pending \ {r}
  /\ UNCHANGED <<written, file, instanceVars, seen, handling, notifySeen,
                 failures, historyVars>>

\* Mutant: the run is marked as seen before its result is enriched.
EnrichmentFailsMarked(r) ==
  /\ "enrich" \in Faults /\ enrichFailed[r] < MaxFailures
  /\ r \in pending \cap file /\ Accepts(r)
  /\ pending' = pending \ {r}
  /\ seen' = seen \cup {r}
  /\ enrichFailed' = [enrichFailed EXCEPT ![r] = @ + 1]
  /\ UNCHANGED <<written, file, instanceVars, handling, notifySeen, kept, historyVars>>

\* Reading the nested registry fails: logged as "will retry later", but
\* nothing is scheduled.
EnrichmentFails(r) ==
  /\ "enrich" \in Faults /\ enrichFailed[r] < MaxFailures
  /\ r \in pending \cap file /\ Accepts(r)
  /\ pending' = pending \ {r}
  /\ enrichFailed' = [enrichFailed EXCEPT ![r] = @ + 1]
  /\ UNCHANGED <<written, file, instanceVars, seen, handling, notifySeen, kept, historyVars>>

\* This instance has handled the run, or is handling it: the file goes.
DropDuplicate(r) ==
  /\ r \in pending \cap file \cap seen /\ Accepts(r)
  /\ pending' = pending \ {r}
  /\ Unlink(r)
  /\ UNCHANGED <<written, instanceVars, seen, handling, notifySeen,
                 enrichFailed, historyVars>>

\* A new result with an intercom target: it is marked as seen, the message is
\* sent, and the handler waits.
SendIntercom(r) ==
  /\ r \in (pending \cap file \cap Target) \ seen /\ Accepts(r)
  /\ pending' = pending \ {r}
  /\ seen' = seen \cup {r}
  /\ handling' = handling \cup {<<r, load>>}
  /\ sent' = [sent EXCEPT ![r] = @ + 1]
  /\ UNCHANGED <<written, file, instanceVars, notifySeen, failures,
                 notified, misdelivered, lost>>

\* A new result without one is announced in the same turn.
Announce(r) ==
  /\ r \in (pending \cap file) \ (seen \cup Target) /\ Accepts(r)
  /\ pending' = pending \ {r}
  /\ seen' = seen \cup {r}
  /\ Notify(r) /\ Unlink(r)
  /\ UNCHANGED <<written, instanceVars, handling, enrichFailed, sent, lost>>

\* Acknowledged or timed out, the handler goes on: it announces the result
\* without looking at the session again.
Acknowledged(r, n) ==
  /\ <<r, n>> \in handling
  /\ handling' = handling \ {<<r, n>>}
  /\ Notify(r) /\ Unlink(r)
  /\ UNCHANGED <<written, instanceVars, pending, seen, enrichFailed, sent, lost>>

\* Ten minutes later the key is pruned; a handler waits far less than that.
Forget(r) ==
  /\ r \in seen \cup notifySeen
  /\ \A n \in 1..load : <<r, n>> \notin handling
  /\ seen' = seen \ {r} /\ notifySeen' = notifySeen \ {r}
  /\ UNCHANGED <<written, file, instanceVars, pending, handling, failures, historyVars>>

Handle(r) ==
  \/ Ignore(r) \/ EnrichmentFails(r) \/ DropDuplicate(r)
  \/ SendIntercom(r) \/ Announce(r)

Next ==
  \/ \E r \in Run : WriteResult(r)
  \/ Load
  \/ \E s \in Session : SessionStart(s)
  \/ Shutdown \/ Exit
  \/ WatcherFails \/ RestartWatcher \/ Poll
  \/ \E r \in Run : Handle(r)
  \/ \E r \in Run, n \in 1..MaxLoads : Acknowledged(r, n)
  \/ \E r \in Run : Forget(r)

Spec == Init /\ [][Next]_vars

\* Timers fire: the coalescer's, the acknowledgement's, the restart's and the
\* polling interval's.  Nothing makes a session start or a runner finish.
FairSpec ==
  /\ Spec
  /\ WF_vars(RestartWatcher) /\ WF_vars(Poll)
  /\ \A r \in Run : WF_vars(Handle(r))
  /\ \A r \in Run, n \in 1..MaxLoads : WF_vars(Acknowledged(r, n))
-----------------------------------------------------------------------------
\* Every variable of the delivery ranges over the values the code gives it; a
\* waiting handler belongs to an instance that was loaded, and an instance that
\* is gone has left no watcher, no timer and no session behind.
TypeOK ==
  /\ written \in [Run -> 0..MaxWrites] /\ file \subseteq Run
  /\ load \in 0..MaxLoads /\ loaded \in BOOLEAN /\ (loaded => load > 0)
  /\ session \in Session \cup {None}
  /\ watcher \in {"off", "native", "restart", "poll"}
  /\ pending \subseteq Run /\ seen \subseteq Run /\ notifySeen \subseteq Run
  /\ handling \subseteq Run \X (1..load)
  /\ enrichFailed \in [Run -> 0..MaxFailures] /\ kept \in [Run -> 0..MaxFailures]
  /\ ~loaded => session = None /\ watcher = "off" /\ pending = {}
  /\ sent \in [Run -> Nat]
  /\ notified \in [Run -> Nat] /\ misdelivered \in [Run -> Nat] /\ lost \subseteq Run

\* A result that was written once is announced at most once, through reloads,
\* session switches, exits of the host and expired dedupe keys; only a file
\* that could not be removed can be announced again.
AnnouncedOncePerWrite ==
  \A r \in Run : notified[r] + misdelivered[r] <= written[r] + kept[r]

\* A session never removes the result file of another one, unless it was
\* already handling it when the sessions changed.
OthersResultsUntouched ==
  [][\A r \in Run :
       (session # None /\ Owner[r] \notin {session, Unscoped} /\ r \in file /\ ~Handling(r))
         => r \in file']_vars

\* A result file is only removed when its completion has been announced, or is
\* about to be by a handler that is waiting; the one way to lose it is that the
\* host dies during that wait, with the file removed as a duplicate.
RemovedMeansAnnounced ==
  \A r \in Run : (written[r] > 0 /\ r \notin file)
    => notified[r] + misdelivered[r] > 0 \/ Handling(r) \/ r \in lost

\* An instance sends at most one intercom message per written result, however
\* often the watcher, the poller and the runner touch its file.
IntercomOncePerResult == \A r \in Run : sent[r] <= written[r] + kept[r]

\* While its session stays, a written result is eventually announced, unless
\* the watcher had to be restarted, the result could not be enriched, or its
\* completion was lost or went to another session.
EventuallyDelivered ==
  \A r \in Run :
    (/\ <>(written[r] > 0) /\ <>[]Accepts(r)
     /\ [](watcher # "restart" /\ enrichFailed[r] = 0 /\ misdelivered[r] = 0 /\ r \notin lost))
      => <>(notified[r] > 0)

\* Through reloads, session changes, exits and faults of the watcher, a result is neither
\* announced more often than it was written nor removed unannounced.
ResultsHold == TypeOK /\ AnnouncedOncePerWrite /\ RemovedMeansAnnounced /\ IntercomOncePerResult

\* The same delivery as Outbox describes it: a result is owed while its file is there, or
\* a handler waits that will announce it.
Owed(r) == r \in file \/ (Handling(r) /\ r \notin notifySeen)
Promised == INSTANCE Outbox
  WITH owed <- {r \in Run : Owed(r)}, told <- [r \in Run |-> notified[r] + misdelivered[r]]

\* Across loads, sessions, both dedupe maps and overlapping handlers, every announcement
\* settles a result that is owed, a result that was settled is owed again only when it is
\* written again, and none is dropped untold except by the death of the host.
ImplementsOutbox == Promised!OutboxSpec

\* A result reaches its session in the end, is left alone by the others, and is told no
\* more and no less often than Outbox promises.
ResultsArrive == OthersResultsUntouched /\ EventuallyDelivered /\ ImplementsOutbox
=============================================================================
