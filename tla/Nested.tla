-------------------------------- MODULE Nested --------------------------------
(***************************************************************************)
(* Runs inside runs (runs/shared/nested-events.ts and its callers).  The   *)
(* processes of one root run share a directory of immutable event files.   *)
(* The host and the fanout children each fold them into one registry file, *)
(* which they read and write without a lock; the host repairs the runs     *)
(* whose runner died.                                                      *)
(***************************************************************************)
EXTENDS Integers, FiniteSets, Sequences, SequencesExt, Functions

CONSTANTS
  Root,       \* the root run
  Run,        \* the nested runs
  Parent,     \* the run whose child launched each of them
  Foreground, \* those that run in the process that launched them
  Owner,      \* the fanout child that launches each nested run
  Reader,     \* the fanout children that look at the status of the runs
  MaxClock,   \* bound on the clock
  KeepNames,  \* processed names the registry keeps (1000 in the code)
  Mortal,     \* the fanout children and runners that may die
  Ends        \* the states considered in which a run ends by itself

ASSUME NestedAssumption ==
  /\ Ends \subseteq {"complete", "failed", "paused"}
  /\ Foreground \subseteq Run /\ Parent \in [Run -> Run \cup {Root}] /\ Root \notin Run
  /\ Reader \subseteq Range(Owner)
  /\ IsFiniteSet(Run) /\ MaxClock \in Nat \ {0} /\ KeepNames \in Nat \ {0}

Child    == Range(Owner)
Ended == {"complete", "failed", "paused"}
States   == {"running"} \cup Ended
NoSnap   == [on |-> FALSE, folded |-> FALSE, copies |-> {}, processed |-> <<>>]

VARIABLES
  clock,
  alive,    \* the fanout children and the runners that are alive
  state,    \* what each run is doing: "none", "running" or terminal
  status,   \* status.json of a background run: [state, at]
  told,     \* the events written of it: start, update (one: a bound), end
  sink,     \* the event files
  registry, \* registry.json: [copies, processed]
  snap,     \* the registry a fanout child has read, or folded events into, and not yet written
  turn      \* changes with every poll of the host

selfVars     == <<state, status, told>>
nestedVars == <<clock, alive, selfVars, sink, registry, snap, turn>>

NestedInit ==
  /\ clock = 1 /\ alive = Child \cup Run
  /\ state = [n \in Run |-> "none"]
  /\ status = [n \in Run |-> [state |-> "none", at |-> 0]]
  /\ told = [n \in Run |-> {}]
  /\ sink = {} /\ registry = [copies |-> {}, processed |-> <<>>]
  /\ snap = [p \in Reader |-> NoSnap] /\ turn = FALSE

-----------------------------------------------------------------------------
(* The registry.                                                           *)

\* Mutant: an event that is not older replaces what is known.
MergeAny(copies, place, e) ==
  LET old == {c \in copies : c.place = place /\ c.run = e.run}
      new == [place |-> place, run |-> e.run, state |-> e.state, at |-> e.at]
  IN IF \E c \in old : e.at < c.at THEN copies ELSE (copies \ old) \cup {new}

\* An older event is ignored, an end is never undone, and of two ends of one moment
\* the first counts.
Merge(copies, place, e) ==
  LET old == {c \in copies : c.place = place /\ c.run = e.run}
      new == [place |-> place, run |-> e.run, state |-> e.state, at |-> e.at]
      Stale(c) == \/ e.at < c.at
                  \/ c.state \in Ended /\ (e.state \notin Ended \/ e.at = c.at)
  IN IF \E c \in old : Stale(c) THEN copies ELSE (copies \ old) \cup {new}

\* A run is shown under its parent, whose last update follows, or at the root when its
\* parent is not known.
Attach(copies, e) ==
  LET p == Parent[e.run]
      Bumped(c) == IF c.run = p /\ e.ts > c.at THEN [c EXCEPT !.at = e.ts] ELSE c
  IN IF \E c \in copies : c.run = p
     THEN {Bumped(c) : c \in Merge(copies, p, e)}
     ELSE Merge(copies, Root, e)

Earlier(e, f) == e.ts < f.ts \/ (e.ts = f.ts /\ e.name < f.name)

\* The files in the order of their names: the time, then chance.
ByName(files) ==
  LET sorted[rest \in SUBSET files] ==
        IF rest = {} THEN <<>>
        ELSE LET e == CHOOSE e \in rest : \A f \in rest : ~Earlier(f, e)
             IN <<e>> \o sorted[rest \ {e}]
  IN sorted[files]

Folded(copies, events) ==
  LET after[i \in 0 .. Len(events)] ==
        IF i = 0 THEN copies ELSE Attach(after[i - 1], events[i])
  IN after[Len(events)]

\* projectNestedEvents: the files not yet processed are applied in order; the names of
\* the last ones are kept.
Project(reg) ==
  LET new  == ByName(sink \ Range(reg.processed))
      names == reg.processed \o new
      drop == Len(names) - KeepNames
  IN [copies    |-> Folded(reg.copies, new),
      processed |-> IF drop > 0 THEN SubSeq(names, drop + 1, Len(names)) ELSE names]

Copies(n) == {c \in registry.copies : c.run = n}

-----------------------------------------------------------------------------
(* The runs and their events.                                              *)

\* An event file is written under another name and renamed: it is whole when it is seen.
Event(n, s, at, x) == [run |-> n, state |-> s, at |-> at, ts |-> clock, name |-> x]

\* The random part of a name decides among the files of one moment.
Names == IF \E e \in sink : e.ts = clock THEN {0, 2} ELSE {1}

Tick ==
  /\ clock < MaxClock /\ clock' = clock + 1
  /\ UNCHANGED <<alive, selfVars, sink, registry, snap, turn>>

\* A child of a run may launch another while its run goes on; by then its run has told of
\* itself: a foreground run before it starts, a background one before each child.
Launch(n) ==
  /\ state[n] = "none" /\ Owner[n] \in alive
  /\ Parent[n] # Root => /\ state[Parent[n]] = "running"
                         /\ \E e \in sink : e.run = Parent[n] /\ e.ts < clock
  /\ state' = [state EXCEPT ![n] = "running"]
  /\ IF n \in Foreground THEN UNCHANGED status
     ELSE status' = [status EXCEPT ![n] = [state |-> "running", at |-> clock]]
  /\ UNCHANGED <<clock, alive, told, sink, registry, snap, turn>>

\* The launcher writes the event of the start; the runner of a background run may be
\* ahead of it.
TellStart(n) ==
  /\ state[n] # "none" /\ "started" \notin told[n] /\ Owner[n] \in alive
  /\ \E x \in Names : sink' = sink \cup {Event(n, "running", clock, x)}
  /\ told' = [told EXCEPT ![n] = @ \cup {"started"}]
  /\ UNCHANGED <<clock, alive, state, status, registry, snap, turn>>

\* A foreground run ends and says so at once.
EndForeground(n) ==
  /\ n \in Foreground /\ state[n] = "running" /\ "started" \in told[n] /\ Owner[n] \in alive
  /\ \E s \in Ends, x \in Names :
       /\ state' = [state EXCEPT ![n] = s]
       /\ sink' = sink \cup {Event(n, s, clock, x)}
  /\ told' = [told EXCEPT ![n] = @ \cup {"ended"}]
  /\ UNCHANGED <<clock, alive, status, registry, snap, turn>>

\* A runner writes its status, with the time it took before that; it does not end in the
\* moment its launcher needs to write its event.
EndBackground(n) ==
  /\ n \in alive \ Foreground /\ state[n] = "running"
  /\ "started" \in told[n] \/ Owner[n] \notin alive
  /\ \E s \in Ends :
       /\ state' = [state EXCEPT ![n] = s]
       /\ status' = [status EXCEPT ![n] = [state |-> s, at |-> clock]]
  /\ UNCHANGED <<clock, alive, told, sink, registry, snap, turn>>

\* The event comes after, of a later moment.
TellStatus(n) ==
  /\ n \in alive \ Foreground /\ state[n] # "none" /\ "ended" \notin told[n]
  /\ state[n] = "running" => "updated" \notin told[n]  \* bound
  /\ \E x \in Names : sink' = sink \cup {Event(n, status[n].state, status[n].at, x)}
  /\ told' = [told EXCEPT ![n] = @ \cup {IF state[n] = "running" THEN "updated" ELSE "ended"}]
  /\ UNCHANGED <<clock, alive, state, status, registry, snap, turn>>

\* A runner or a fanout child dies.
Perishes(p) ==
  /\ p \in alive \cap Mortal /\ (p \in Run => p \notin Foreground /\ state[p] # "none")
  /\ alive' = alive \ {p}
  /\ snap' = IF p \in Reader THEN [snap EXCEPT ![p] = NoSnap] ELSE snap
  /\ UNCHANGED <<clock, selfVars, sink, registry, turn>>

-----------------------------------------------------------------------------
(* The processes that look.                                                *)

\* A fanout child reads the registry.
BeginProjection(p) ==
  /\ p \in alive /\ ~snap[p].on
  /\ snap' = [snap EXCEPT ![p] = [on |-> TRUE, folded |-> FALSE, copies |-> registry.copies, processed |-> registry.processed]]
  /\ UNCHANGED <<clock, alive, selfVars, sink, registry, turn>>

\* Later it lists the events and folds those that are new to what it read.
ListAndFold(p) ==
  /\ snap[p].on /\ ~snap[p].folded
  /\ LET reg == Project(snap[p]) IN
     snap' = [snap EXCEPT ![p] = IF sink \subseteq Range(snap[p].processed) THEN NoSnap
                                 ELSE [on |-> TRUE, folded |-> TRUE, copies |-> reg.copies, processed |-> reg.processed]]
  /\ UNCHANGED <<clock, alive, selfVars, sink, registry, turn>>

\* Then it writes the registry, over whatever others wrote in between, or just before
\* the host, which read before, writes over it.
EndProjection(p) ==
  /\ snap[p].on /\ snap[p].folded
  /\ registry' \in {registry, [copies |-> snap[p].copies, processed |-> snap[p].processed]}
  /\ snap' = [snap EXCEPT ![p] = NoSnap]
  /\ UNCHANGED <<clock, alive, selfVars, sink, turn>>

\* Mutant: only a repair is told, not an end the runner did not live to tell.
RepairsOnly(copies) ==
  {n \in Run \ Foreground :
     /\ \E c \in copies : c.run = n /\ c.state = "running"
     /\ status[n].state = "running" /\ n \notin alive}

\* reconcileNestedAsyncDescendants: the background runs shown running whose status is
\* terminal, or whose runner is dead and the status is repaired.
Repairs(copies) ==
  {n \in Run \ Foreground :
     /\ \E c \in copies : c.run = n /\ c.state = "running"
     /\ status[n].state \in Ended \/ n \notin alive}

\* The host projects, then repairs what it has projected: one action, for a child that
\* writes between its read and its write might as well not have written (EndProjection).
\* The registry is written if there was something to process.
Write(reg) == registry' = IF sink \subseteq Range(reg.processed) THEN registry ELSE Project(reg)

Poll ==
  LET sick  == Repairs(Project(registry).copies)
      fixed == [n \in Run |-> IF n \in sick /\ status[n].state = "running"
                              THEN [state |-> "failed", at |-> clock] ELSE status[n]]
  IN /\ Write(registry)
     /\ status' = fixed
     /\ state' = [n \in Run |-> IF fixed[n] # status[n] THEN "failed" ELSE state[n]]
     /\ \E x \in Names :
          sink' = sink \cup {Event(n, fixed[n].state, fixed[n].at, x) : n \in sick}
     /\ turn' = ~turn
     /\ UNCHANGED <<clock, alive, told, snap>>

-----------------------------------------------------------------------------
NestedNext ==
  \/ Tick
  \/ \E n \in Run : \/ Launch(n) \/ TellStart(n) \/ EndForeground(n)
                    \/ EndBackground(n) \/ TellStatus(n)
  \/ \E p \in Child \cup Run : Perishes(p)
  \/ Poll
  \/ \E p \in Reader : BeginProjection(p) \/ ListAndFold(p) \/ EndProjection(p)

\* The host polls again and again (a poll is always possible, so this is its weak
\* fairness, said without ENABLED).
NestedFairness == []<>turn /\ []<>~turn

NestedSpec == NestedInit /\ [][NestedNext]_nestedVars /\ NestedFairness

-----------------------------------------------------------------------------
(* Properties.                                                             *)

\* Every variable has its type.
NestedType ==
  /\ clock \in 1 .. MaxClock /\ alive \subseteq Child \cup Run
  /\ state \in [Run -> {"none"} \cup States]
  /\ \A n \in Run : status[n].state \in {"none"} \cup States /\ status[n].at \in 0 .. MaxClock
  /\ \A e \in sink : e.run \in Run /\ e.state \in States /\ e.at <= e.ts
  /\ \A c \in registry.copies : c.place \in Run \cup {Root} /\ c.run \in Run
  /\ Len(registry.processed) <= KeepNames

\* A run is shown in one place, so that its id stays unambiguous for status, interrupt
\* and resume (resolveSubagentRunId refuses an id found twice).
OneCopy == \A n \in Run : Cardinality(Copies(n)) <= 1

ShowsEnd(n) ==
  (\E e \in Range(registry.processed) : e.run = n /\ e.state \in Ended)
    => \A c \in Copies(n) : c.state \in Ended

\* Once the end of a run is folded into the registry the run is shown ended there,
\* whatever is folded, and by whichever process, before or after: for the foreground
\* runs, and for those without nested runs of their own.
OwnEndShown == \A n \in Run : (n \in Foreground \/ n \notin Range(Parent)) => ShowsEnd(n)

\* The registry, folded by several processes, shows a run once and its end for good.
Shown == NestedType /\ OneCopy /\ OwnEndShown

\* A background run without nested runs that has ended, or lost its runner, is in the end
\* shown ended by the registry, if it is shown at all.
EndsShown ==
  \A n \in Run \ (Foreground \cup Range(Parent)) :
    [](n \notin alive \/ status[n].state \in Ended
       => <>(\A c \in Copies(n) : c.state \in Ended))
=============================================================================
