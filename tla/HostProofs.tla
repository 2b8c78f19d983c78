------------------------------ MODULE HostProofs ------------------------------
(***************************************************************************)
(* Theorems about what a host does for its runs: the list of background    *)
(* jobs it keeps (JobTracker), for any number of runs, lines and loads of  *)
(* the extension; the one foreground child it waits for (Attempt), for any *)
(* list of models, any declared acceptance and any report; and the nested  *)
(* runs it shows (Nested), for any tree of runs and any processes.         *)
(*                                                                         *)
(* The tracker's inductive invariant Inv adds to the properties that a run *)
(* which has not been started has left no trace (Born), that a cursor      *)
(* always stands behind a newline (Cursors), and what the parent has heard *)
(* of a job by the time its retention has been followed by a poll (Heard). *)
(* AttemptInv and NestedInv are described where their parts begin.         *)
(***************************************************************************)
EXTENDS JobTracker, Attempt, Nested, FiniteSetTheorems, SequenceTheorems, WellFoundedInduction,
        NaturalsInduction, TLAPS

Born ==
  /\ \A j \in Job : run[j] = "unborn" =>
       j \notin jobs \cup cleanup \cup published /\ \A i \in Line : emitted[j][i] = 0
  /\ \A j \in published : run[j] \in Terminal

Cursors ==
  \A j \in Job : cursor[j] <= Newline(j) /\ \E k \in Nat : cursor[j] = 2 * k

Heard ==
  \A j \in (jobs \cap cleanup) \ disturbed :
    /\ run[j] \in Terminal
    /\ run[j] # "paused" /\ (j \notin fresh \/ reading = j) => cursor[j] = Newline(j)

Inv == /\ TypeOK /\ Born /\ Cursors /\ EmittedOnce
       /\ TimerOnlyForEnded /\ CompleteIsTrue /\ Heard

LEMMA InitInv == Init => Inv
<1> SUFFICES ASSUME Init PROVE Inv
  OBVIOUS
<1>1. 0 \in 0..MaxLines /\ \A i \in Line : i \in Nat /\ 2 * i > 0
  BY TrackerAssumption DEF Line
<1>2. TypeOK
  BY <1>1 DEF Init, TypeOK, Status, Terminal
<1>3. Born /\ EmittedOnce
  BY <1>1 DEF Init, Born, EmittedOnce
<1>4. Cursors
  <2>1. 0 = 2 * 0
    OBVIOUS
  <2> QED
    BY <2>1 DEF Init, Cursors, Newline
<1>5. TimerOnlyForEnded /\ CompleteIsTrue /\ Heard
  BY DEF Init, TimerOnlyForEnded, CompleteIsTrue, Heard
<1> QED
  BY <1>2, <1>3, <1>4, <1>5 DEF Inv

\* A step of a runner: nothing of the session changes.
LEMMA RunnerInv == Inv /\ RunnerStep => Inv'
<1> SUFFICES ASSUME Inv, NEW j \in Job,
                    \/ WriteStatus(j) \/ BeginLine(j) \/ EndLine(j) \/ Publish(j) \/ Die(j)
                    \/ Disturb(j) \/ Descend(j) \/ DescendantsEnd(j)
             PROVE Inv'
  BY DEF RunnerStep
<1> USE TrackerAssumption DEF Inv, hostVars, pollVars, Status, Terminal
<1>1. CASE WriteStatus(j)
  <2>1. run[j] \in {"spawned", "running"} /\ run' \in [Job -> Status \cup {"unborn", "spawned", "dead"}]
        /\ run'[j] \in Status /\ \A i \in Job : i # j => run'[i] = run[i]
    BY <1>1 DEF WriteStatus, TypeOK
  <2>2. TypeOK' /\ Cursors' /\ EmittedOnce'
    BY <1>1, <2>1 DEF WriteStatus, TypeOK, Cursors, EmittedOnce, Newline
  <2>3. Born' /\ TimerOnlyForEnded' /\ CompleteIsTrue'
    BY <1>1, <2>1 DEF WriteStatus, TypeOK, Born, TimerOnlyForEnded, CompleteIsTrue
  <2>4. Heard'
    BY <1>1, <2>1 DEF WriteStatus, TypeOK, Heard, Newline
  <2> QED
    BY <2>2, <2>3, <2>4
<1>2. CASE BeginLine(j)
  BY <1>2 DEF BeginLine, TypeOK, Born, Cursors, EmittedOnce, TimerOnlyForEnded,
              CompleteIsTrue, Heard, Newline
<1>3. CASE EndLine(j)
  <2>1. lines' \in [Job -> Nat] /\ lines'[j] = lines[j] + 1
        /\ \A i \in Job : i # j => lines'[i] = lines[i]
    BY <1>3 DEF EndLine, TypeOK
  <2>2. TypeOK' /\ Born'
    BY <1>3 DEF EndLine, TypeOK, Born
  <2>3. Cursors'
    <3>1. cursor' = cursor
      BY <1>3 DEF EndLine
    <3>2. SUFFICES ASSUME NEW h \in Job
                   PROVE  cursor[h] <= Newline(h)' /\ \E k \in Nat : cursor[h] = 2 * k
      BY <3>1 DEF Cursors
    <3>3. \E k \in Nat : cursor[h] = 2 * k
      BY DEF Cursors
    <3>4. cursor[h] \in Nat /\ lines[h] \in Nat /\ cursor[h] <= 2 * lines[h]
      BY DEF TypeOK, Cursors, Newline
    <3>5. lines'[h] = lines[h] \/ lines'[h] = lines[h] + 1
      BY <2>1
    <3> QED
      BY <3>3, <3>4, <3>5 DEF Newline
  <2>4. EmittedOnce' /\ TimerOnlyForEnded' /\ CompleteIsTrue'
    BY <1>3 DEF EndLine, EmittedOnce, TimerOnlyForEnded, CompleteIsTrue
  <2>5. Heard'
    BY <1>3, <2>1 DEF EndLine, TypeOK, Heard, Newline
  <2> QED
    BY <2>2, <2>3, <2>4, <2>5
<1>4. CASE Publish(j)
  BY <1>4 DEF Publish, TypeOK, Born, Cursors, EmittedOnce, TimerOnlyForEnded,
              CompleteIsTrue, Heard, Newline
<1>5. CASE Die(j)
  BY <1>5 DEF Die, TypeOK, Born, Cursors, EmittedOnce, TimerOnlyForEnded,
              CompleteIsTrue, Heard, Newline
<1>6. CASE Disturb(j)
  BY <1>6 DEF Disturb, TypeOK, Born, Cursors, EmittedOnce, TimerOnlyForEnded,
              CompleteIsTrue, Heard, Newline
<1>7. CASE Descend(j) \/ DescendantsEnd(j)
  BY <1>7 DEF Descend, DescendantsEnd, TypeOK, Born, Cursors, EmittedOnce, TimerOnlyForEnded,
              CompleteIsTrue, Heard, Newline
<1> QED
  BY <1>1, <1>2, <1>3, <1>4, <1>5, <1>6, <1>7

\* A step of the session between two polls.
LEMMA HostInv ==
  ASSUME Inv,
         \/ StopPoller \/ SessionStart \/ Shutdown \/ Load
         \/ \E j \in Job : Started(j) \/ Completed(j) \/ CleanupFires(j)
  PROVE  Inv'
<1> USE TrackerAssumption, NobodyAssumption
    DEF Inv, runVars, hostVars, pollVars, Status, Terminal, AtRest
<1>1. ASSUME NEW j \in Job, Started(j) PROVE Inv'
  <2>1. \A i \in Line : i \in Nat /\ i > 0
    BY DEF Line
  <2>2. TypeOK' /\ Born'
    BY <1>1 DEF Started, TypeOK, Born
  <2>3. Cursors'
    <3>1. 0 = 2 * 0 /\ \A h \in Job : lines[h] \in Nat
      BY DEF TypeOK
    <3>2. cursor'[j] = 0 /\ \A h \in Job : h # j => cursor'[h] = cursor[h]
      BY <1>1 DEF Started, TypeOK
    <3>3. lines' = lines
      BY <1>1 DEF Started
    <3> QED
      BY <3>1, <3>2, <3>3 DEF Cursors, Newline
  <2>4. EmittedOnce'
    BY <1>1, <2>1 DEF Started, TypeOK, Born, EmittedOnce
  <2>5. TimerOnlyForEnded' /\ CompleteIsTrue' /\ Heard'
    BY <1>1 DEF Started, TypeOK, Born, TimerOnlyForEnded, CompleteIsTrue, Heard, Newline
  <2> QED
    BY <2>2, <2>3, <2>4, <2>5
<1>2. ASSUME NEW j \in Job, Completed(j) PROVE Inv'
  BY <1>2 DEF Completed, Schedule, TypeOK, Born, Cursors, EmittedOnce, TimerOnlyForEnded,
              CompleteIsTrue, Heard, Newline
<1>3. ASSUME NEW j \in Job, CleanupFires(j) PROVE Inv'
  BY <1>3 DEF CleanupFires, TypeOK, Born, Cursors, EmittedOnce, TimerOnlyForEnded,
              CompleteIsTrue, Heard, Newline
<1>4. CASE StopPoller
  BY <1>4 DEF StopPoller, TypeOK, Born, Cursors, EmittedOnce, TimerOnlyForEnded,
              CompleteIsTrue, Heard, Newline
<1>5. CASE SessionStart
  BY <1>5 DEF SessionStart, TypeOK, Born, Cursors, EmittedOnce, TimerOnlyForEnded,
              CompleteIsTrue, Heard, Newline
<1>6. CASE Shutdown
  <2>1. TypeOK' /\ Born'
    BY <1>6 DEF Shutdown, TypeOK, Born
  <2>2. Cursors' /\ EmittedOnce'
    BY <1>6 DEF Shutdown, Cursors, EmittedOnce, Newline
  <2>3. TimerOnlyForEnded' /\ CompleteIsTrue' /\ Heard'
    BY <1>6 DEF Shutdown, TimerOnlyForEnded, CompleteIsTrue, Heard
  <2> QED
    BY <2>1, <2>2, <2>3
<1>7. CASE Load
  BY <1>7 DEF Load, TypeOK, Born, Cursors, EmittedOnce, TimerOnlyForEnded,
              CompleteIsTrue, Heard, Newline
<1> QED
  BY <1>1, <1>2, <1>3, <1>4, <1>5, <1>6, <1>7

\* A step of a poll.
LEMMA PollInv == Inv /\ PollStep => Inv'
<1> SUFFICES ASSUME Inv, PollStep PROVE Inv'
  OBVIOUS
<1> USE TrackerAssumption, NobodyAssumption
    DEF Inv, runVars, hostVars, Status, Terminal, AtRest, DoneWith
<1>1. CASE BeginPoll
  BY <1>1 DEF BeginPoll, TypeOK, Born, Cursors, EmittedOnce, TimerOnlyForEnded,
              CompleteIsTrue, Heard, Newline
<1>2. ASSUME NEW j \in Job, ReadEvents(j) PROVE Inv'
  <2>1. \A i \in Line : i \in Nat /\ i > 0
    BY DEF Line
  <2>2. PICK k \in Nat : cursor[j] = 2 * k
    BY DEF Cursors
  <2>3. lines[j] \in Nat /\ Newline(j) = 2 * lines[j] /\ cursor[j] <= Newline(j)
    BY DEF TypeOK, Cursors, Newline
  <2>4. cursor' = [cursor EXCEPT ![j] = Newline(j)]
    <3>1. (IF Newline(j) > cursor[j] THEN Newline(j) ELSE cursor[j]) = Newline(j)
      BY <2>2, <2>3
    <3> QED
      BY <1>2, <3>1 DEF ReadEvents
  <2>5. \A i \in Line : emitted'[j][i] =
          IF 2 * k <= 2 * (i - 1) /\ 2 * i <= 2 * lines[j] THEN emitted[j][i] + 1 ELSE emitted[j][i]
    BY <1>2, <2>2, <2>3 DEF ReadEvents, TypeOK
  <2>6. \A h \in Job : h # j => emitted'[h] = emitted[h] /\ cursor'[h] = cursor[h]
    BY <1>2, <2>4 DEF ReadEvents, TypeOK
  <2>7. TypeOK'
    <3>1. emitted' \in [Job -> [Line -> Nat]]
      BY <1>2 DEF ReadEvents, TypeOK
    <3> QED
      BY <1>2, <2>3, <2>4, <3>1 DEF ReadEvents, TypeOK
  <2>8. Cursors'
    BY <1>2, <2>3, <2>4 DEF ReadEvents, TypeOK, Cursors, Newline
  <2>9. EmittedOnce'
    <3>1. ASSUME NEW i \in Line
          PROVE  /\ emitted'[j][i] <= 1
                 /\ emitted'[j][i] = 1 <=> 2 * i <= 2 * lines[j]
      <4>1. emitted[j][i] \in Nat /\ emitted[j][i] <= 1 /\ (emitted[j][i] = 1 <=> 2 * i <= 2 * k)
        BY <1>2, <2>2 DEF ReadEvents, TypeOK, EmittedOnce
      <4>2. k <= lines[j]
        BY <2>2, <2>3
      <4> QED
        BY <2>1, <2>3, <2>5, <4>1, <4>2
    <3>2. cursor'[j] = 2 * lines[j] /\ jobs' = jobs
      BY <1>2, <2>3, <2>4 DEF ReadEvents, TypeOK
    <3> QED
      BY <2>6, <3>1, <3>2 DEF EmittedOnce
  <2>10. Born'
    BY <1>2, <2>6 DEF ReadEvents, TypeOK, Born
  <2>11. Heard'
    BY <1>2, <2>4, <2>6 DEF ReadEvents, TypeOK, Heard, Newline
  <2> QED
    BY <1>2, <2>7, <2>8, <2>9, <2>10, <2>11 DEF ReadEvents, TimerOnlyForEnded, CompleteIsTrue
<1>3. ASSUME NEW j \in Job, StatusUnreadable(j) PROVE Inv'
  BY <1>3 DEF StatusUnreadable, Schedule, TypeOK, Born, Cursors, EmittedOnce, TimerOnlyForEnded,
              CompleteIsTrue, Heard, Newline
<1>4. ASSUME NEW j \in Job, NoStatusYet(j) PROVE Inv'
  BY <1>4 DEF NoStatusYet, TypeOK, Born, Cursors, EmittedOnce, TimerOnlyForEnded,
              CompleteIsTrue, Heard, Newline
<1>5. ASSUME NEW j \in Job, StatusRunning(j) PROVE Inv'
  BY <1>5 DEF StatusRunning, Unschedule, TypeOK, Born, Cursors, EmittedOnce, TimerOnlyForEnded,
              CompleteIsTrue, Heard, Newline
<1>6. ASSUME NEW j \in Job, StatusTerminal(j) PROVE Inv'
  <2>1. /\ run'[j] \in Terminal
        /\ \A h \in Job : h # j => run'[h] = run[h] /\ shown'[h] = shown[h]
        /\ shown'[j] = run'[j]
        /\ run[j] \in Terminal => run' = run
        /\ run' \in [Job -> {"unborn", "spawned", "dead"} \cup Status]
        /\ shown' \in [Job -> {"queued"} \cup Status]
    BY <1>6 DEF StatusTerminal, TypeOK
  <2>2. TypeOK'
    BY <1>6, <2>1 DEF StatusTerminal, Schedule, TypeOK
  <2>3. Born'
    BY <1>6, <2>1 DEF StatusTerminal, Schedule, TypeOK, Born
  <2>4. Cursors' /\ EmittedOnce'
    BY <1>6 DEF StatusTerminal, TypeOK, Cursors, EmittedOnce, Newline
  <2>5. TimerOnlyForEnded' /\ CompleteIsTrue'
    BY <1>6, <2>1 DEF StatusTerminal, Schedule, TypeOK, TimerOnlyForEnded, CompleteIsTrue
  <2>6. Heard'
    BY <1>6, <2>1 DEF StatusTerminal, Schedule, TypeOK, Heard, Newline
  <2> QED
    BY <2>2, <2>3, <2>4, <2>5, <2>6
<1> QED
  BY <1>1, <1>2, <1>3, <1>4, <1>5, <1>6 DEF PollStep

LEMMA StepInv == Inv /\ [Next]_vars => Inv'
<1> SUFFICES ASSUME Inv, [Next]_vars PROVE Inv'
  OBVIOUS
<1>1. CASE Next
  BY <1>1, RunnerInv, HostInv, PollInv DEF Next
<1>2. CASE UNCHANGED vars
  BY <1>2 DEF vars, runVars, hostVars, pollVars, Inv, TypeOK, Born, Cursors, EmittedOnce,
              TimerOnlyForEnded, CompleteIsTrue, Heard, Newline
<1> QED
  BY <1>1, <1>2

LEMMA Invariance == Spec => []Inv
  BY InitInv, StepInv, PTL DEF Spec

\* Every variable keeps its type, and nobody polls for an instance that is gone.
THEOREM TypeCorrect == Spec => []TypeOK
  BY Invariance, PTL DEF Inv

\* Every control event behind the cursor of a tracked job was emitted exactly
\* once, and no event twice, however appends and polls interleave.
THEOREM EventsEmittedOnce == Spec => []EmittedOnce
  BY Invariance, PTL DEF Inv

\* Only a job shown as ended waits for its removal.
THEOREM TimersOfEndedJobs == Spec => []TimerOnlyForEnded
  BY Invariance, PTL DEF Inv

\* A job shown as complete is one whose run completed.
THEOREM CompletionIsTrue == Spec => []CompleteIsTrue
  BY Invariance, PTL DEF Inv

\* A job with a readable status is only removed when its run has ended, and, if
\* the run ended by itself, when all its control events have been emitted.
THEOREM RemovedWhenDone == Spec => LetGoWhenDone
<1>1. Inv /\ [Next]_vars =>
        [\A j \in jobs \ disturbed : CleanupFires(j) =>
           /\ run[j] \in Terminal
           /\ run[j] # "paused" => cursor[j] = Newline(j)]_vars
  BY NobodyAssumption DEF Inv, TypeOK, Heard, CleanupFires, AtRest
<1> QED
  BY <1>1, Invariance, PTL DEF Spec, LetGoWhenDone

\* For any number of runs, the list of jobs tells the truth about them.
THEOREM JobsAreHeld == Spec => []JobsHold
  BY TypeCorrect, EventsEmittedOnce, TimersOfEndedJobs, CompletionIsTrue, PTL DEF JobsHold

-------------------------------------------------------------------------------

\* A set of numbers has a least one.
LEMMA LeastNat ==
  ASSUME NEW S, S \subseteq Nat, S # {}
  PROVE  \E n \in S : \A m \in S : n <= m
<1>1. IsWellFoundedOn(OpToRel(<, Nat), Nat)
  BY NatLessThanWellFounded
<1>2. PICK n \in S : \A m \in S : <<m, n>> \notin OpToRel(<, Nat)
  BY <1>1, WFMin
<1>3. ASSUME NEW m \in S PROVE n <= m
  <2>1. ~ (m < n)
    BY <1>2 DEF OpToRel
  <2> QED
    BY <2>1
<1> QED
  BY <1>3

(***************************************************************************)
(* One foreground child.  The models tried are different ones, the process *)
(* of an attempt is over when the next begins (Order), what the caller is  *)
(* told follows from how the last one ended (Told), and the gate's record  *)
(* is kept with the commands it has run (Gate).                            *)
(***************************************************************************)
Models == {Qualify[m] : m \in DOMAIN Qualify}

\* The candidates among the first k names.
Kept(k, g) ==
  /\ g \in [0..k -> Seq(Models)]
  /\ \A n \in 0..k : g[n] = IF n = 0 THEN <<>>
       ELSE IF Qualify[Wanted[n]] = None \/ Qualify[Wanted[n]] \in Range(g[n - 1]) THEN g[n - 1] ELSE Append(g[n - 1], Qualify[Wanted[n]])

\* The models wanted are models.
LEMMA WantedModels ==
  /\ Len(Wanted) \in Nat
  /\ \A n \in 1..Len(Wanted) : Qualify[Wanted[n]] \in Models
<1>1. Len(Wanted) \in Nat /\ \A n \in 1..Len(Wanted) : Wanted[n] \in DOMAIN Qualify
  BY AttemptAssumption
<1> QED
  BY <1>1 DEF Models

\* The sequences that Candidates is defined by exist for every number of names: the least one without would have a predecessor with one.
LEMMA KeptSome ==
  ASSUME NEW k \in 0..Len(Wanted)
  PROVE  \E g : Kept(k, g)
<1> DEFINE Missing == {n \in 0..Len(Wanted) : \A g : ~ Kept(n, g)}
<1>1. Len(Wanted) \in Nat
  BY WantedModels
<1>2. ASSUME Missing # {} PROVE FALSE
  <2>1. PICK n \in Missing : \A m \in Missing : n <= m
    <3>1. Missing \subseteq Nat
      BY <1>1
    <3> HIDE DEF Missing
    <3> QED
      BY <1>2, <3>1, LeastNat
  <2>2. CASE n = 0
    <3>1. Kept(0, [i \in 0..0 |-> <<>>])
      BY DEF Kept
    <3> QED
      BY <2>1, <2>2, <3>1
  <2>3. CASE n # 0
    <3>1. n - 1 \in 0..Len(Wanted) /\ n - 1 \notin Missing /\ n \in 1..Len(Wanted) /\ n \in Nat
      BY <1>1, <2>1, <2>3
    <3>2. PICK g : Kept(n - 1, g)
      BY <3>1
    <3> DEFINE q == Qualify[Wanted[n]]
               last == IF q = None \/ q \in Range(g[n - 1]) THEN g[n - 1] ELSE Append(g[n - 1], q)
               h == [i \in 0..n |-> IF i = n THEN last ELSE g[i]]
    <3>3. q \in Models /\ g \in [0..(n - 1) -> Seq(Models)]
      BY <3>1, <3>2, WantedModels DEF Kept
    <3>4. last \in Seq(Models)
      BY <3>1, <3>3
    <3>5. h \in [0..n -> Seq(Models)]
      <4> HIDE DEF last
      <4> QED
        BY <3>1, <3>3, <3>4
    <3>6. ASSUME NEW i \in 0..n PROVE h[i] = IF i = 0 THEN <<>>
            ELSE IF Qualify[Wanted[i]] = None \/ Qualify[Wanted[i]] \in Range(h[i - 1]) THEN h[i - 1] ELSE Append(h[i - 1], Qualify[Wanted[i]])
      <4>1. CASE i = n
        <5>1. h[i] = last /\ h[i - 1] = g[n - 1]
          BY <3>1, <4>1
        <5> QED
          BY <2>3, <4>1, <5>1
      <4>2. CASE i # n
        <5>1. i \in 0..(n - 1) /\ h[i] = g[i] /\ (i # 0 => h[i - 1] = g[i - 1])
          BY <3>1, <4>2
        <5> HIDE DEF h
        <5> QED
          BY <3>2, <5>1 DEF Kept
      <4> QED
        BY <4>1, <4>2
    <3> HIDE DEF h
    <3>7. Kept(n, h)
      BY <3>5, <3>6 DEF Kept
    <3> QED
      BY <2>1, <3>7
  <2> QED
    BY <2>2, <2>3
<1> QED
  BY <1>2

\* The candidates are models, each of them once.
LEMMA CandidatesApart == Candidates \in Seq(Models) /\ IsInjective(Candidates)
<1> DEFINE seen == CHOOSE f : f = [n \in 0..Len(Wanted) |->
               IF n = 0 THEN <<>>
               ELSE LET m == Qualify[Wanted[n]] IN
                    IF m = None \/ m \in Range(f[n - 1]) THEN f[n - 1] ELSE Append(f[n - 1], m)]
<1>1. Len(Wanted) \in Nat
  BY WantedModels
<1>2. PICK g : Kept(Len(Wanted), g)
  BY <1>1, KeptSome
<1>3. g = [n \in 0..Len(Wanted) |->
               IF n = 0 THEN <<>>
               ELSE LET m == Qualify[Wanted[n]] IN
                    IF m = None \/ m \in Range(g[n - 1]) THEN g[n - 1] ELSE Append(g[n - 1], m)]
  BY <1>2 DEF Kept
<1>4. seen = [n \in 0..Len(Wanted) |->
               IF n = 0 THEN <<>>
               ELSE LET m == Qualify[Wanted[n]] IN
                    IF m = None \/ m \in Range(seen[n - 1]) THEN seen[n - 1] ELSE Append(seen[n - 1], m)]
  BY <1>3
<1> HIDE DEF seen
<1> DEFINE Wrong == {n \in 0..Len(Wanted) : ~ (seen[n] \in Seq(Models) /\ IsInjective(seen[n]))}
<1>5. ASSUME Wrong # {} PROVE FALSE
  <2>1. PICK n \in Wrong : \A m \in Wrong : n <= m
    <3>1. Wrong \subseteq Nat
      BY <1>1
    <3> HIDE DEF Wrong
    <3> QED
      BY <1>5, <3>1, LeastNat
  <2>2. n # 0
    <3>1. seen[0] = <<>>
      BY <1>1, <1>4
    <3>2. <<>> \in Seq(Models) /\ IsInjective(<<>>)
      BY DEF IsInjective
    <3> QED
      BY <2>1, <3>1, <3>2
  <2> DEFINE s == seen[n - 1]
             q == Qualify[Wanted[n]]
  <2>3. n - 1 \in 0..Len(Wanted) /\ n - 1 \notin Wrong /\ n \in 1..Len(Wanted)
    BY <1>1, <2>1, <2>2
  <2>4. s \in Seq(Models) /\ IsInjective(s) /\ q \in Models
    BY <2>3, WantedModels
  <2>5. seen[n] = IF q = None \/ q \in Range(s) THEN s ELSE Append(s, q)
    BY <1>4, <2>1, <2>2
  <2> HIDE DEF s, q
  <2>6. CASE q = None \/ q \in Range(s)
    BY <2>1, <2>4, <2>5, <2>6
  <2>7. CASE q \notin Range(s)
    <3>1. Append(s, q) \in Seq(Models) /\ IsInjective(Append(s, q))
      BY <2>4, <2>7 DEF IsInjective, Range
    <3> QED
      BY <2>1, <2>4, <2>5, <2>7, <3>1
  <2> QED
    BY <2>6, <2>7
<1>6. seen[Len(Wanted)] \in Seq(Models) /\ IsInjective(seen[Len(Wanted)])
  BY <1>1, <1>5
<1> QED
  BY <1>6 DEF Candidates, seen

\* Attempts are numbered from one.
LEMMA AttemptNumbers == \E n \in Nat \ {0} : Attempts = 1..n
<1>1. Len(Candidates) \in Nat /\ (Len(Candidates) = 0 => Candidates = <<>>)
  BY CandidatesApart
<1> QED
  BY <1>1 DEF Attempts


Levels == {"none", "attested", "checked", "verified", "reviewed"}
Outcomes == {"passed", "allowed", "failed", "timed-out"}

\* The rank of each level.
LEMMA Ranks ==
  /\ Range(Level) = Levels
  /\ Rank("none") = 1 /\ Rank("attested") = 2 /\ Rank("checked") = 3 /\ Rank("verified") = 4 /\ Rank("reviewed") = 5
<1>1. DOMAIN Level = 1..5 /\ Level[1] = "none" /\ Level[2] = "attested" /\ Level[3] = "checked" /\ Level[4] = "verified" /\ Level[5] = "reviewed"
  BY DEF Level
<1>2. \A i \in 1..5 : i = 1 \/ i = 2 \/ i = 3 \/ i = 4 \/ i = 5
  OBVIOUS
<1>3. Range(Level) = Levels
  <2>1. \A i \in 1..5 : Level[i] \in Levels
    BY <1>1, <1>2 DEF Levels
  <2>2. \A l \in Levels : \E i \in 1..5 : Level[i] = l
    BY <1>1 DEF Levels
  <2> QED
    BY <1>1, <2>1, <2>2 DEF Range
<1>4. Rank("none") = 1
  BY <1>1, <1>2 DEF Rank
<1>5. Rank("attested") = 2
  BY <1>1, <1>2 DEF Rank
<1>6. Rank("checked") = 3
  BY <1>1, <1>2 DEF Rank
<1>7. Rank("verified") = 4
  BY <1>1, <1>2 DEF Rank
<1>8. Rank("reviewed") = 5
  BY <1>1, <1>2 DEF Rank
<1> QED
  BY <1>3, <1>4, <1>5, <1>6, <1>7, <1>8

\* An acceptance in force: never below the inferred level unless it was switched off.
InForce(a) ==
  /\ a.level \in Levels /\ a.inferred \in Levels /\ a.verify \in Seq(BOOLEAN)
  /\ IF a.level = "none" THEN a.disabled ELSE Rank(a.level) >= Rank(a.inferred)

\* What is asked for never lowers the level, except to none and with a reason.
LEMMA EffectiveInForce ==
  ASSUME NEW x \in Explicits, NEW l \in Inferred
  PROVE  InForce(Effective(x, l)) /\ Effective(x, l) # None
<1>1. /\ l \in {"attested", "checked", "reviewed"} /\ Effective(x, l) # None
      /\ x.level \in {"auto"} \cup Levels /\ x.reason \in BOOLEAN /\ x.verify \in Seq(BOOLEAN)
  BY AttemptAssumption, Ranks
<1>2. /\ Effective(x, l).level = EffectiveLevel(x, l) /\ Effective(x, l).inferred = l /\ Effective(x, l).verify = x.verify
      /\ Effective(x, l).disabled <=> x.level = "none" /\ x.reason
  BY DEF Effective
<1>3. CASE x.level = "none" /\ x.reason
  <2>1. EffectiveLevel(x, l) = "none"
    BY <1>3 DEF EffectiveLevel
  <2> QED
    BY <1>1, <1>2, <1>3, <2>1 DEF InForce, Levels
<1>4. CASE ~ (x.level = "none" /\ x.reason) /\ (x.level = "auto" \/ Rank(x.level) < Rank(l))
  <2>1. EffectiveLevel(x, l) = l
    BY <1>4 DEF EffectiveLevel
  <2>2. Rank(l) \in Nat
    BY <1>1, Ranks
  <2> QED
    BY <1>1, <1>2, <2>1, <2>2 DEF InForce, Levels
<1>5. CASE ~ (x.level = "none" /\ x.reason) /\ x.level # "auto" /\ ~ (Rank(x.level) < Rank(l))
  <2>1. EffectiveLevel(x, l) = x.level /\ x.level \in Levels
    BY <1>1, <1>5 DEF EffectiveLevel
  <2>2. Rank(l) \in Nat /\ Rank(x.level) \in Nat /\ Rank(l) > 1
    BY <1>1, <2>1, Ranks DEF Levels
  <2>3. x.level # "none"
    BY <1>5, <2>2, Ranks
  <2> QED
    BY <1>1, <1>2, <1>5, <2>1, <2>2, <2>3 DEF InForce, Levels
<1> QED
  BY <1>3, <1>4, <1>5

\* What the report makes of a run, and what the lack of a reviewer makes of that.
LEMMA Statuses ==
  ASSUME NEW a, InForce(a), NEW r
  PROVE  LET result == ReportStatus(a, r) IN
         /\ result \in {"not-required", "attested", "checked", "rejected"}
         /\ result = "checked" => /\ a.level = "checked" \/ Verifies(a) \/ a.verify = <<>>
                                  /\ Verifies(a) => a.verify # <<>>
<1>1. a.level \in Levels
  BY DEF InForce
<1>2. ReportStatus(a, r) \in {"not-required", "attested", "checked", "rejected"}
  BY DEF ReportStatus
<1>3. ASSUME ReportStatus(a, r) = "checked" PROVE a.level # "none" /\ ~ (Rank(a.level) < Rank("checked")) /\ ~ (a.level = "verified" /\ a.verify = <<>>)
  BY <1>3 DEF ReportStatus
<1>4. ASSUME ReportStatus(a, r) = "checked" PROVE a.level \in {"checked", "verified", "reviewed"}
  BY <1>1, <1>3, <1>4, Ranks DEF Levels
<1> QED
  BY <1>2, <1>3, <1>4, Ranks DEF Verifies

LEMMA Reviewed == ASSUME NEW a, NEW result PROVE ReviewStatus(a, result) \in {result, "rejected"}
BY DEF ReviewStatus

(***************************************************************************)
(* The invariant.                                                          *)
(***************************************************************************)
CheckRow == [state : {"none", "running", "passed", "failed"}, late : BOOLEAN, held : BOOLEAN]

\* The attempts before this one are over and have no directory; those behind it have not begun.
Order ==
  /\ \A a \in Attempts : a < attempt => proc[a] = "closed" /\ a \notin tmp
  /\ \A a \in Attempts : a > attempt => proc[a] = "none" /\ a \notin tmp
  /\ phase = "ready" => proc[attempt] = "none" /\ attempt \notin tmp
  /\ phase = "running" => proc[attempt] \in {"alive", "dead", "exited"}
  /\ phase \in {"accepting", "done"} /\ ~ detached => proc[attempt] = "closed" /\ attempt \notin tmp

\* What is known of the end of an attempt when the next begins or the result is judged.
Told ==
  /\ phase = "ready" /\ attempt > 1 => error = "retryable" /\ ~ interrupted /\ ~ detached
  /\ phase \in {"accepting", "done"} =>
       (interrupted \/ detached => exit = 0) /\ (exit = 0 => error = "none")
  /\ phase = "done" /\ ledger = "rejected" /\ acc.explicit /\ ~ interrupted /\ ~ detached => exit # 0

\* The gate has run the commands there are results of, and goes on as long as there are more.
Gate ==
  /\ checks \in Seq(Outcomes) /\ check \in CheckRow
  /\ acc = None => checks = <<>> /\ check = NoCheck /\ phase # "done"
  /\ acc # None => InForce(acc) /\ phase \in {"accepting", "done"}
  /\ acc # None /\ phase = "accepting" => check.state # "none" /\ Len(checks) < Len(acc.verify)
  /\ phase = "done" => check = NoCheck /\ GateHolds

AttemptInv == AttemptType /\ Order /\ Told /\ Gate


\* At first nothing has happened.
LEMMA AttemptStarts == AttemptInit => AttemptInv
<1> SUFFICES ASSUME AttemptInit PROVE AttemptInv
  OBVIOUS
<1>1. 1 \in Attempts /\ \A a \in Attempts : a \in Nat /\ a >= 1
  BY AttemptNumbers
<1>2. AttemptType
  <2>1. held \in BOOLEAN /\ guard \in BOOLEAN /\ forced \in BOOLEAN /\ nag \in BOOLEAN
    BY DEF AttemptInit
  <2>2. clean \in BOOLEAN /\ asked \in BOOLEAN /\ aborted \in BOOLEAN /\ interrupt \in BOOLEAN /\ interrupted \in BOOLEAN /\ detached \in BOOLEAN
    BY DEF AttemptInit
  <2>3. Range(checks) \subseteq {"passed", "allowed", "failed", "timed-out"} /\ check.state = "none"
    BY DEF AttemptInit, NoCheck, Range
  <2> QED
    BY <1>1, <2>1, <2>2, <2>3, CandidatesApart DEF AttemptInit, AttemptType, Strength, Errors
<1>3. Order /\ Told
  BY <1>1 DEF AttemptInit, Order, Told
<1>4. Gate
  BY DEF AttemptInit, Gate, NoCheck, CheckRow
<1> QED
  BY <1>2, <1>3, <1>4 DEF AttemptInv

\* The gate is as it was as long as its record is and nothing has ended.
LEMMA GateKept ==
  ASSUME Gate, UNCHANGED gateVars, phase' = phase \/ (phase \in {"ready", "running"} /\ phase' # "done")
  PROVE  Gate'
<1>1. acc' = acc /\ ledger' = ledger /\ checks' = checks /\ check' = check
  BY DEF gateVars
<1>2. CASE phase' = phase
  BY <1>1, <1>2 DEF Gate, GateHolds
<1>3. CASE phase \in {"ready", "running"} /\ phase' # "done"
  BY <1>1, <1>3 DEF Gate
<1> QED
  BY <1>2, <1>3

\* A step that changes neither the attempt nor its result.
LEMMA QuietStep ==
  ASSUME AttemptInv, UNCHANGED <<phase, attempt, proc, tmp, interrupted, detached, error, exit, gateVars>>
  PROVE  Order' /\ Told' /\ Gate'
<1>1. Order' /\ Told'
  BY DEF AttemptInv, Order, Told, gateVars
<1>2. Gate'
  BY GateKept DEF AttemptInv
<1> QED
  BY <1>1, <1>2

\* A signal that is sent is one there is.
LEMMA SentSignal == ASSUME signal \in DOMAIN Strength, NEW s \in DOMAIN Strength, Send(s) PROVE signal' \in DOMAIN Strength
BY DEF Send

\* An attempt that ends is judged, or followed by another because of an error of its
\* provider; of one that was interrupted or detached a success is made.
LEMMA FinishEnds ==
  ASSUME AttemptType, phase = "running", NEW c \in {0, 1}, NEW e \in Errors, Finish(c, e)
  PROVE  /\ exit' \in {0, 1} /\ error' \in Errors
         /\ \/ phase' = "accepting" /\ attempt' = attempt
            \/ phase' = "ready" /\ attempt' = attempt + 1 /\ attempt + 1 \in Attempts /\ error' = "retryable" /\ ~ interrupted' /\ ~ detached'
         /\ phase' = "accepting" => (interrupted' \/ detached' => exit' = 0) /\ (exit' = 0 => error' = "none")
         /\ drain' = "off" /\ guard' = FALSE /\ nag' = FALSE /\ signal' = "none" /\ code' = "none" /\ forced' = FALSE
         /\ clean' = FALSE /\ said' = "none" /\ asked' = FALSE /\ aborted' \in BOOLEAN /\ interrupt' \in BOOLEAN
<1>1. PICK r \in Result(c, e) : exit' = r[1] /\ error' = r[2] /\ NextModel(r)
  BY DEF Finish, Settled
<1>2. Forget /\ IF phase' = "accepting" THEN aborted' = FALSE /\ interrupt' = FALSE ELSE UNCHANGED requests
  BY DEF Finish, Settled
<1>3. r[1] \in {0, 1} /\ r[2] \in Errors /\ (interrupted' \/ detached' => r = <<0, "none">>) /\ (r[1] = 0 => r[2] = "none")
  BY <1>1 DEF Result, Errors
<1>4. \/ phase' = "accepting" /\ attempt' = attempt
      \/ phase' = "ready" /\ attempt' = attempt + 1 /\ attempt + 1 \in Attempts /\ r # <<0, "none">> /\ r[2] = "retryable"
  BY <1>1 DEF NextModel
<1>5. aborted' \in BOOLEAN /\ interrupt' \in BOOLEAN
  BY <1>2 DEF requests, AttemptType
<1> QED
  BY <1>1, <1>2, <1>3, <1>4, <1>5 DEF Forget

\* The end of an attempt whose process is over or that has detached.
LEMMA FinishSteps ==
  ASSUME AttemptInv, phase = "running", NEW c \in {0, 1}, NEW e \in Errors, Finish(c, e), UNCHANGED <<held, gateVars>>,
         interrupted' \in BOOLEAN, detached' \in BOOLEAN,
         \/ proc' = [proc EXCEPT ![attempt] = "closed"] /\ tmp' = tmp \ {attempt}
         \/ proc' = proc /\ tmp' = tmp /\ detached'
  PROVE  AttemptInv'
<1> USE DEF AttemptInv
<1>1. attempt \in Attempts /\ proc \in [Attempts -> {"none", "alive", "dead", "exited", "closed"}] /\ tmp \subseteq Attempts
  BY DEF AttemptType
<1>2. \A a \in Attempts : a \in Nat /\ a >= 1
  BY AttemptNumbers
<1>3. AttemptType'
  <2>1. proc' \in [Attempts -> {"none", "alive", "dead", "exited", "closed"}] /\ tmp' \subseteq Attempts
    BY <1>1
  <2>2. phase' \in {"accepting", "ready"} /\ attempt' \in Attempts
    BY <1>1, FinishEnds
  <2>3. signal' \in DOMAIN Strength /\ said' \in Errors
    BY FinishEnds DEF Strength, Errors
  <2> QED
    BY <2>1, <2>2, <2>3, FinishEnds DEF AttemptType, gateVars
<1>4. Order'
  <2>1. CASE phase' = "accepting" /\ attempt' = attempt
    BY <1>1, <1>2, <2>1 DEF Order
  <2>2. CASE phase' = "ready" /\ attempt' = attempt + 1 /\ attempt + 1 \in Attempts /\ ~ detached'
    <3>1. proc' = [proc EXCEPT ![attempt] = "closed"] /\ tmp' = tmp \ {attempt}
      BY <2>2
    <3>2. ASSUME NEW a \in Attempts, a < attempt + 1 PROVE proc'[a] = "closed" /\ a \notin tmp'
      <4>1. a = attempt \/ a < attempt
        BY <1>1, <1>2, <3>2
      <4> QED
        BY <1>1, <3>1, <4>1 DEF Order
    <3>3. ASSUME NEW a \in Attempts, a >= attempt + 1 PROVE proc'[a] = "none" /\ a \notin tmp'
      <4>1. a > attempt /\ a # attempt
        BY <1>1, <1>2, <3>3
      <4> QED
        BY <1>1, <3>1, <4>1 DEF Order
    <3>4. attempt + 1 >= attempt + 1 /\ \A a \in Attempts : a > attempt + 1 => a >= attempt + 1
      BY <1>1, <1>2
    <3> QED
      BY <2>2, <3>2, <3>3, <3>4 DEF Order
  <2> QED
    BY <2>1, <2>2, FinishEnds
<1>5. Told'
  <2>1. phase' # "done"
    BY FinishEnds
  <2> QED
    BY <2>1, FinishEnds DEF Told
<1>6. Gate'
  <2>1. phase' # "done"
    BY FinishEnds
  <2> QED
    BY <2>1, GateKept
<1> QED
  BY <1>3, <1>4, <1>5, <1>6


\* An attempt begins.
LEMMA SpawnSteps == ASSUME AttemptInv, Spawn PROVE AttemptInv'
<1> USE DEF AttemptInv
<1>1. attempt \in Attempts /\ proc \in [Attempts -> {"none", "alive", "dead", "exited", "closed"}] /\ tmp \subseteq Attempts
  BY DEF AttemptType
<1>2. AttemptType'
  <2>1. signal' \in DOMAIN Strength
    BY DEF Spawn, Strength
  <2>2. nag' \in BOOLEAN /\ interrupted' \in BOOLEAN /\ detached' \in BOOLEAN
    BY DEF Spawn, AttemptType
  <2> QED
    BY <1>1, <2>1, <2>2 DEF Spawn, AttemptType, Errors, requests, gateVars
<1>3. Order'
  BY <1>1, AttemptNumbers DEF Spawn, Order
<1>4. Told'
  BY DEF Spawn, Told
<1>5. Gate'
  BY GateKept DEF Spawn
<1> QED
  BY <1>2, <1>3, <1>4, <1>5

\* A command that cannot be run ends the attempt.
LEMMA SpawnFailsSteps == ASSUME AttemptInv, SpawnFails PROVE AttemptInv'
<1>1. 1 \in {0, 1} /\ "other" \in Errors
  BY DEF Errors
<1>2. interrupted' \in BOOLEAN /\ detached' \in BOOLEAN
  BY DEF SpawnFails, AttemptInv, AttemptType
<1> QED
  BY <1>1, <1>2, FinishSteps DEF SpawnFails

\* What a child says, timers that fire and pipes that are given up leave the attempt going on.
LEMMA WordSteps ==
  ASSUME AttemptInv, Ask \/ (\E stop \in {"no", "clean", "failed"}, e \in Errors : Says(stop, e)) \/ GuardFires \/ GraceOver \/ HardOver \/ Nag
  PROVE  AttemptInv'
<1> USE DEF AttemptInv
<1>1. UNCHANGED <<phase, attempt, proc, tmp, interrupted, detached, error, exit, gateVars>>
  BY DEF Ask, Says, GuardFires, GraceOver, HardOver, Nag, childVars, resultVars
<1>2. AttemptType'
  <2>1. CASE Ask
    BY <2>1 DEF Ask, AttemptType, childVars, timerVars, requests, resultVars, gateVars
  <2>2. ASSUME NEW stop \in {"no", "clean", "failed"}, NEW e \in Errors, Says(stop, e) PROVE AttemptType'
    <3>1. said' \in Errors /\ clean' \in BOOLEAN /\ drain' \in {"off", "grace", "hard", "over"}
      BY <2>2 DEF Says, AttemptType, Errors
    <3> QED
      BY <2>2, <3>1 DEF Says, AttemptType, childVars, requests, resultVars, gateVars
  <2>3. CASE GuardFires
    <3>1. held' \in BOOLEAN /\ guard' \in BOOLEAN
      BY <2>3 DEF GuardFires
    <3> QED
      BY <2>3, <3>1 DEF GuardFires, AttemptType, wordVars, requests, resultVars, gateVars
  <2>4. CASE GraceOver
    <3>1. signal' \in DOMAIN Strength
      <4>1. "TERM" \in DOMAIN Strength
        BY DEF Strength
      <4> QED
        BY <2>4, <4>1, SentSignal DEF GraceOver, AttemptType
    <3>2. forced' \in BOOLEAN
      BY <2>4 DEF GraceOver, AttemptType
    <3> QED
      BY <2>4, <3>1, <3>2 DEF GraceOver, AttemptType, childVars, requests, resultVars, gateVars
  <2>5. CASE HardOver
    <3>1. signal' \in DOMAIN Strength
      <4>1. "KILL" \in DOMAIN Strength
        BY DEF Strength
      <4> QED
        BY <2>5, <4>1, SentSignal DEF HardOver, AttemptType
    <3> QED
      BY <2>5, <3>1 DEF HardOver, AttemptType, childVars, requests, resultVars, gateVars
  <2>6. CASE Nag
    <3>1. signal' \in DOMAIN Strength
      <4>1. "TERM" \in DOMAIN Strength
        BY DEF Strength
      <4> QED
        BY <2>6, <4>1, SentSignal DEF Nag, AttemptType
    <3>2. nag' \in BOOLEAN
      BY <2>6 DEF Nag
    <3> QED
      BY <2>6, <3>1, <3>2 DEF Nag, AttemptType, childVars, requests, resultVars, gateVars
  <2> QED
    BY <2>1, <2>2, <2>3, <2>4, <2>5, <2>6
<1> QED
  BY <1>1, <1>2, QuietStep

\* A process that dies, and the host that hears of it.
LEMMA DeathSteps == ASSUME AttemptInv, Dies \/ Exits PROVE AttemptInv'
<1> USE DEF AttemptInv
<1>1. attempt \in Attempts /\ proc \in [Attempts -> {"none", "alive", "dead", "exited", "closed"}] /\ tmp \subseteq Attempts
  BY DEF AttemptType
<1>2. \E s \in {"dead", "exited"} : proc' = [proc EXCEPT ![attempt] = s]
  BY DEF Dies, Exits
<1>3. proc[attempt] \in {"alive", "dead"} /\ UNCHANGED <<phase, attempt, tmp, interrupted, detached, error, exit, gateVars>>
  BY DEF Dies, Exits, Now, resultVars
<1>4. AttemptType'
  <2>1. CASE Dies
    <3>1. code' \in {"none", "zero", "one", "signal"}
      BY <2>1 DEF Dies, AttemptType
    <3> QED
      BY <1>1, <1>2, <2>1, <3>1 DEF Dies, AttemptType, timerVars, requests, resultVars, gateVars
  <2>2. CASE Exits
    BY <1>1, <1>2, <2>2 DEF Exits, AttemptType, wordVars, requests, resultVars, gateVars
  <2> QED
    BY <2>1, <2>2
<1>5. Order'
  BY <1>1, <1>2, <1>3, AttemptNumbers DEF Order, AttemptType
<1>6. Told'
  BY <1>3 DEF Told, gateVars
<1>7. Gate'
  BY <1>3, GateKept
<1> QED
  BY <1>4, <1>5, <1>6, <1>7

\* The pipes close: the attempt ends, unless it has already.
LEMMA CloseSteps == ASSUME AttemptInv, Close PROVE AttemptInv'
<1>1. PICK e \in Errors : Finish(IF ForcedSuccess \/ code = "zero" THEN 0 ELSE 1, e)
  BY DEF Close, AttemptInv, AttemptType, Errors
<1>2. /\ proc[attempt] = "exited" /\ proc' = [proc EXCEPT ![attempt] = "closed"] /\ tmp' = tmp \ {attempt}
      /\ UNCHANGED <<interrupted, detached, held, gateVars>>
  BY DEF Close, Now
<1>3. CASE phase = "running"
  <2>1. \E c \in {0, 1} : Finish(c, e)
    BY <1>1
  <2>2. interrupted' \in BOOLEAN /\ detached' \in BOOLEAN
    BY <1>2 DEF AttemptInv, AttemptType
  <2> QED
    BY <1>2, <1>3, <2>1, <2>2, FinishSteps
<1>4. CASE phase # "running"
  <2> USE DEF AttemptInv
  <2>1. UNCHANGED <<phase, attempt, error, exit, timerVars, wordVars, requests>>
    BY <1>1, <1>4 DEF Finish, Settled
  <2>2. attempt \in Attempts /\ proc \in [Attempts -> {"none", "alive", "dead", "exited", "closed"}] /\ tmp \subseteq Attempts
    BY DEF AttemptType
  <2>3. AttemptType'
    BY <1>2, <2>1, <2>2 DEF AttemptType, timerVars, wordVars, requests, gateVars
  <2>4. Order'
    BY <1>2, <1>4, <2>1, <2>2, AttemptNumbers DEF Order, AttemptType
  <2>5. Told'
    BY <1>2, <2>1 DEF Told, gateVars
  <2>6. Gate'
    BY <1>2, <2>1, GateKept
  <2> QED
    BY <2>3, <2>4, <2>5, <2>6
<1> QED
  BY <1>3, <1>4

\* A child that turned to its supervisor is let go of.
LEMMA DetachSteps == ASSUME AttemptInv, phase = "running", DetachNow, UNCHANGED <<childVars, tmp, gateVars>> PROVE AttemptInv'
<1>1. 1 \in {0, 1} /\ "none" \in Errors /\ Finish(1, "none")
  BY DEF DetachNow, Errors
<1>2. interrupted' \in BOOLEAN /\ detached' \in BOOLEAN /\ detached' /\ proc' = proc /\ tmp' = tmp /\ held' = held /\ UNCHANGED gateVars
  BY DEF DetachNow, childVars, AttemptInv, AttemptType
<1> QED
  BY <1>1, <1>2, FinishSteps

\* Requests of others.
LEMMA RequestSteps == ASSUME AttemptInv, DetachRequest \/ Abort \/ Interrupt PROVE AttemptInv'
<1>1. CASE DetachRequest
  BY <1>1, DetachSteps DEF DetachRequest, Settled
<1>2. CASE Abort /\ phase = "running" /\ Detachable /\ asked
  BY <1>2, DetachSteps DEF Abort
<1>3. CASE Abort /\ ~ (phase = "running" /\ Detachable /\ asked)
  <2> USE DEF AttemptInv
  <2>1. UNCHANGED <<phase, attempt, proc, tmp, interrupted, detached, error, exit, gateVars>>
    BY <1>3 DEF Abort, Kill, childVars, resultVars
  <2>2. CASE phase = "ready"
    BY <1>3, <2>1, <2>2, QuietStep DEF Abort, AttemptType, childVars, timerVars, wordVars, resultVars, gateVars
  <2>3. CASE phase # "ready"
    <3>1. Kill /\ UNCHANGED childVars
      BY <1>3, <2>3 DEF Abort
    <3>2. signal' \in DOMAIN Strength
      <4>1. "TERM" \in DOMAIN Strength
        BY DEF Strength
      <4> QED
        BY <3>1, <4>1, SentSignal DEF Kill, AttemptType
    <3>3. AttemptType'
      BY <2>1, <3>1, <3>2 DEF Kill, AttemptType, childVars, timerVars, resultVars, gateVars
    <3> QED
      BY <2>1, <3>3, QuietStep
  <2> QED
    BY <2>2, <2>3
<1>4. CASE Interrupt
  <2> USE DEF AttemptInv
  <2>1. /\ UNCHANGED <<phase, attempt, proc, tmp, detached, error, exit, gateVars>> /\ phase \in {"ready", "running"}
        /\ phase = "ready" => interrupted' = interrupted
    BY <1>4 DEF Interrupt, childVars
  <2>2. signal' \in DOMAIN Strength /\ interrupted' \in BOOLEAN /\ nag' \in BOOLEAN /\ interrupt' \in BOOLEAN
    <3>1. "INT" \in DOMAIN Strength
      BY DEF Strength
    <3> QED
      BY <1>4, <3>1, SentSignal DEF Interrupt, AttemptType
  <2>3. AttemptType'
    BY <1>4, <2>1, <2>2 DEF Interrupt, AttemptType, childVars, gateVars
  <2>4. Order' /\ Told'
    BY <2>1 DEF Order, Told
  <2>5. Gate'
    BY <2>1, GateKept
  <2> QED
    BY <2>3, <2>4, <2>5
<1> QED
  BY <1>1, <1>2, <1>3, <1>4


Ledgers == {"claimed", "not-required", "attested", "checked", "verified", "rejected"}

\* The verdict: a run that was rejected by a gate its caller asked for fails.
LEMMA Concludes ==
  ASSUME exit \in {0, 1}, error \in Errors, interrupted \/ detached => exit = 0, exit = 0 => error = "none",
         NEW a, NEW result \in Ledgers, Conclude(a, result), UNCHANGED <<interrupted, detached>>
  PROVE  /\ phase' = "done" /\ ledger' = result /\ exit' \in {0, 1} /\ error' \in Errors
         /\ interrupted' \/ detached' => exit' = 0
         /\ exit' = 0 => error' = "none"
         /\ result = "rejected" /\ a.explicit /\ ~ interrupted' /\ ~ detached' => exit' # 0
<1>1. phase' = "done" /\ ledger' = result
  BY DEF Conclude
<1>2. CASE result = "rejected" /\ a.explicit /\ exit = 0 /\ ~ detached /\ ~ interrupted
  <2>1. exit' = 1 /\ error' = "other"
    BY <1>2 DEF Conclude
  <2> QED
    BY <1>1, <1>2, <2>1 DEF Errors
<1>3. CASE ~ (result = "rejected" /\ a.explicit /\ exit = 0 /\ ~ detached /\ ~ interrupted)
  <2>1. exit' = exit /\ error' = error
    BY <1>3 DEF Conclude
  <2> QED
    BY <1>1, <1>3, <2>1
<1> QED
  BY <1>2, <1>3

\* What a step of the gate leaves alone keeps the order of the attempts.
LEMMA OrderKept ==
  ASSUME Order, UNCHANGED <<attempt, proc, tmp, detached>>, phase \in {"accepting", "done"}, phase' \in {"accepting", "done"}
  PROVE  Order'
BY DEF Order

\* The gate looks at the report: it runs commands or gives its verdict.
LEMMA EvaluateSteps == ASSUME AttemptInv, Evaluate PROVE AttemptInv'
<1> USE DEF AttemptInv
<1>1. PICK x \in Explicits, l \in Inferred, r \in Reports :
       LET a == Effective(x, l)
           result == ReportStatus(a, r)
       IN /\ acc' = a
          /\ IF result = "checked" /\ Verifies(a)
             THEN /\ check' = NewCheck /\ ledger' = result
                  /\ UNCHANGED <<phase, exit, error>>
             ELSE Conclude(a, ReviewStatus(a, result)) /\ UNCHANGED check
  BY DEF Evaluate
<1> DEFINE a == Effective(x, l)
           result == ReportStatus(a, r)
<1>2. InForce(a) /\ a # None /\ acc' = a
  BY <1>1, EffectiveInForce
<1>3. /\ result \in {"not-required", "attested", "checked", "rejected"}
      /\ result = "checked" => /\ a.level = "checked" \/ Verifies(a) \/ a.verify = <<>>
                               /\ Verifies(a) => a.verify # <<>>
  BY <1>2, Statuses
<1>4. /\ phase = "accepting" /\ acc = None /\ UNCHANGED <<attempt, proc, tmp, interrupted, detached, checks>>
      /\ UNCHANGED <<held, timerVars, wordVars, requests>>
  BY DEF Evaluate, childVars
<1>5. checks = <<>> /\ check = NoCheck /\ checks' = <<>>
  BY <1>4 DEF Gate
<1>6. /\ exit \in {0, 1} /\ error \in Errors /\ (interrupted \/ detached => exit = 0) /\ (exit = 0 => error = "none")
  BY <1>4 DEF AttemptType, Told
<1>7. CASE result = "checked" /\ Verifies(a)
  <2>1. check' = NewCheck /\ ledger' = "checked" /\ phase' = "accepting" /\ exit' = exit /\ error' = error
    BY <1>1, <1>4, <1>7
  <2>2. AttemptType'
    BY <1>4, <1>5, <2>1 DEF AttemptType, NewCheck, timerVars, wordVars, requests
  <2>3. Order'
    BY <1>4, <2>1, OrderKept
  <2>4. Told'
    BY <1>4, <1>6, <2>1 DEF Told
  <2>5. Gate'
    <3>1. 0 < Len(a.verify)
      BY <1>2, <1>3, <1>7 DEF InForce
    <3>2. check' \in CheckRow /\ check'.state = "running"
      BY <2>1 DEF NewCheck, CheckRow
    <3> HIDE DEF a
    <3>3. checks' \in Seq(Outcomes) /\ Len(checks') = 0
      BY <1>5
    <3> QED
      BY <1>2, <2>1, <3>1, <3>2, <3>3 DEF Gate
  <2> QED
    BY <2>2, <2>3, <2>4, <2>5
<1>8. CASE ~ (result = "checked" /\ Verifies(a))
  <2> DEFINE last == ReviewStatus(a, result)
  <2>1. Conclude(a, last) /\ check' = NoCheck
    BY <1>1, <1>5, <1>8
  <2>2. last \in {result, "rejected"}
    BY Reviewed
  <2>3. last \in Ledgers /\ last # "verified"
    BY <1>3, <2>2 DEF Ledgers
  <2>4. UNCHANGED <<interrupted, detached>>
    BY <1>4
  <2> HIDE DEF a, result, last
  <2>5. /\ phase' = "done" /\ ledger' = last /\ exit' \in {0, 1} /\ error' \in Errors
        /\ interrupted' \/ detached' => exit' = 0
        /\ exit' = 0 => error' = "none"
        /\ last = "rejected" /\ a.explicit /\ ~ interrupted' /\ ~ detached' => exit' # 0
    BY <1>6, <2>1, <2>3, <2>4, Concludes
  <2>6. AttemptType'
    BY <1>4, <1>5, <2>1, <2>3, <2>5 DEF AttemptType, NoCheck, timerVars, wordVars, requests, Ledgers
  <2>7. Order'
    BY <1>4, <2>5, OrderKept
  <2>8. Told'
    BY <1>2, <2>5 DEF Told
  <2>9. Gate'
    <3>1. last = "checked" => a.verify = <<>> \/ a.level = "checked"
      BY <1>3, <1>8, <2>2
    <3>2. GateHolds'
      BY <1>2, <2>3, <2>5, <3>1 DEF GateHolds, InForce
    <3>3. check' \in CheckRow /\ checks' \in Seq(Outcomes)
      BY <1>5, <2>1 DEF NoCheck, CheckRow
    <3> QED
      BY <1>2, <2>1, <2>5, <3>2, <3>3 DEF Gate
  <2> QED
    BY <2>6, <2>7, <2>8, <2>9
<1> QED
  BY <1>7, <1>8

\* A command that is late or dies, or whose pipes are let go of, is still going on.
LEMMA CommandSteps == ASSUME AttemptInv, CheckLate \/ CheckDies \/ CheckReleased PROVE AttemptInv'
<1> USE DEF AttemptInv
<1>1. UNCHANGED <<phase, exit, error, ledger, checks>> /\ CheckUnchanged
  BY DEF CheckLate, CheckDies, CheckReleased
<1>2. check \in CheckRow /\ check # NoCheck
  BY DEF Gate, CheckLate, CheckDies, CheckReleased, NoCheck
<1>3. acc # None /\ phase = "accepting"
  BY <1>2 DEF Gate
<1>4. check.state # "none"
  BY <1>3 DEF Gate
<1>5. check' \in CheckRow /\ check'.state # "none"
  <2>1. CASE CheckLate
    BY <1>2, <1>4, <2>1 DEF CheckLate, CheckRow
  <2>2. CASE CheckDies
    BY <1>2, <2>2 DEF CheckDies, CheckRow
  <2>3. CASE CheckReleased
    BY <1>2, <1>4, <2>3 DEF CheckReleased, CheckRow
  <2> QED
    BY <2>1, <2>2, <2>3
<1>6. AttemptType'
  BY <1>1, <1>5 DEF AttemptType, CheckRow, CheckUnchanged, childVars, timerVars, wordVars, requests
<1>7. Order' /\ Told'
  BY <1>1, <1>3 DEF Order, Told, CheckUnchanged, childVars
<1>8. Gate'
  BY <1>1, <1>3, <1>5 DEF Gate, CheckUnchanged
<1> QED
  BY <1>6, <1>7, <1>8

\* A command that is over: the next one, or the verdict.
LEMMA CloseCommandSteps == ASSUME AttemptInv, CheckCloses PROVE AttemptInv'
<1> USE DEF AttemptInv
<1>1. CheckUnchanged /\ check.state \in {"passed", "failed"} /\ check # NoCheck
  BY DEF CheckCloses, NoCheck
<1>2. acc # None /\ phase = "accepting" /\ InForce(acc) /\ Len(checks) < Len(acc.verify) /\ checks \in Seq(Outcomes)
  BY <1>1 DEF Gate
<1>3. /\ UNCHANGED <<attempt, proc, held, tmp, interrupted, detached, acc>> /\ UNCHANGED <<timerVars, wordVars, requests>>
  BY <1>1 DEF CheckUnchanged, childVars
<1>4. PICK o \in Outcomes : checks' = Append(checks, o)
  BY DEF CheckCloses, Outcomes
<1>5. checks' \in Seq(Outcomes) /\ Len(checks') = Len(checks) + 1 /\ Len(checks) \in Nat /\ Len(acc.verify) \in Nat
  BY <1>2, <1>4 DEF InForce
<1>6. /\ exit \in {0, 1} /\ error \in Errors /\ (interrupted \/ detached => exit = 0) /\ (exit = 0 => error = "none")
  BY <1>2 DEF AttemptType, Told
<1>7. Range(checks') \subseteq Outcomes
  BY <1>5 DEF Range
<1>8. CASE Len(checks') < Len(acc.verify)
  <2>1. check' = NewCheck /\ UNCHANGED <<phase, exit, error, ledger>>
    BY <1>8 DEF CheckCloses
  <2>2. AttemptType'
    BY <1>3, <1>7, <2>1 DEF AttemptType, NewCheck, timerVars, wordVars, requests, Outcomes
  <2>3. Order' /\ Told'
    BY <1>2, <1>3, <2>1 DEF Order, Told
  <2>4. Gate'
    BY <1>2, <1>3, <1>5, <1>8, <2>1 DEF Gate, NewCheck, CheckRow
  <2> QED
    BY <2>2, <2>3, <2>4
<1>9. CASE ~ (Len(checks') < Len(acc.verify))
  <2> DEFINE s == VerifyStatus(checks')
             last == IF s = "rejected" THEN s ELSE ReviewStatus(acc, s)
  <2>1. check' = NoCheck /\ Conclude(acc, last)
    BY <1>9 DEF CheckCloses
  <2>2. s \in {"rejected", "verified"} /\ (s = "verified" => Range(checks') \subseteq {"passed", "allowed"})
    BY <1>7 DEF VerifyStatus, Outcomes
  <2>3. last \in {"rejected", "verified"} /\ (last = "verified" => s = "verified")
    BY <2>2, Reviewed
  <2>4. last \in Ledgers
    BY <2>3 DEF Ledgers
  <2>5. UNCHANGED <<interrupted, detached>>
    BY <1>3
  <2> HIDE DEF s, last
  <2>6. /\ phase' = "done" /\ ledger' = last /\ exit' \in {0, 1} /\ error' \in Errors
        /\ interrupted' \/ detached' => exit' = 0
        /\ exit' = 0 => error' = "none"
        /\ last = "rejected" /\ acc.explicit /\ ~ interrupted' /\ ~ detached' => exit' # 0
    BY <1>6, <2>1, <2>4, <2>5, Concludes
  <2>7. AttemptType'
    BY <1>3, <1>7, <2>1, <2>4, <2>6 DEF AttemptType, NoCheck, timerVars, wordVars, requests, Ledgers, Outcomes
  <2>8. Order'
    BY <1>2, <1>3, <2>6, OrderKept
  <2>9. Told'
    BY <1>3, <2>6 DEF Told
  <2>10. Gate'
    <3>1. Len(checks') = Len(acc.verify)
      BY <1>2, <1>5, <1>9
    <3>2. GateHolds'
      BY <1>2, <1>3, <2>2, <2>3, <2>6, <3>1 DEF GateHolds, InForce
    <3> QED
      BY <1>2, <1>3, <1>5, <2>1, <2>6, <3>2 DEF Gate, NoCheck, CheckRow
  <2> QED
    BY <2>7, <2>8, <2>9, <2>10
<1> QED
  BY <1>8, <1>9

\* A step of an attempt or of its gate keeps the invariant.
LEMMA AttemptSteps == AttemptInv /\ [AttemptNext]_attemptVars => AttemptInv'
<1> SUFFICES ASSUME AttemptInv, [AttemptNext]_attemptVars PROVE AttemptInv'
  OBVIOUS
<1>1. CASE UNCHANGED attemptVars
  <2>1. UNCHANGED <<phase, attempt, proc, tmp, interrupted, detached, error, exit, gateVars>>
    BY <1>1 DEF attemptVars, childVars, resultVars
  <2>2. AttemptType'
    BY <1>1 DEF AttemptInv, AttemptType, attemptVars, childVars, timerVars, wordVars, requests, resultVars, gateVars
  <2> QED
    BY <2>1, <2>2, QuietStep DEF AttemptInv
<1>2. CASE AttemptNext
  BY <1>2, SpawnSteps, SpawnFailsSteps, WordSteps, DeathSteps, CloseSteps, RequestSteps, EvaluateSteps, CommandSteps, CloseCommandSteps
     DEF AttemptNext, Process
<1> QED
  BY <1>1, <1>2

\* Whatever models are wanted and however a child, its timers and its callers act in turn:
\* two attempts never work on one session file, and none is at work when a result is
\* returned unless the child was let go of.
THEOREM OneChild == AttemptSpec => []OneChildAtATime
<1>1. AttemptInv => OneChildAtATime
  <2> SUFFICES ASSUME AttemptInv PROVE OneChildAtATime
    OBVIOUS
  <2>1. \A a \in Attempts : a = attempt \/ a < attempt \/ a > attempt
    BY AttemptNumbers DEF AttemptInv, AttemptType
  <2>2. phase \in {"accepting", "done"} /\ ~ detached => tmp = {}
    BY <2>1 DEF AttemptInv, AttemptType, Order
  <2> QED
    BY <2>2 DEF AttemptInv, OneChildAtATime, Order, Now
<1> QED
  BY <1>1, AttemptStarts, AttemptSteps, PTL DEF AttemptSpec

\* Whatever is asked for, inferred and reported and whatever the commands do: what the
\* caller is told is true of the child, and of the gate it had to pass.
THEOREM VerdictIsTrue == AttemptSpec => []Verdict
<1>1. AttemptInv => Verdict
  <2> SUFFICES ASSUME AttemptInv PROVE Verdict
    OBVIOUS
  <2>1. ResultIsTrue
    BY DEF AttemptInv, Told, ResultIsTrue
  <2>2. GateHolds
    BY DEF AttemptInv, Gate, GateHolds
  <2> QED
    BY <2>1, <2>2 DEF Verdict
<1> QED
  BY <1>1, AttemptStarts, AttemptSteps, PTL DEF AttemptSpec


(***************************************************************************)
(* The registry of nested runs.  A list of copies is a Folding of the      *)
(* event files if each run has one copy, every folded event is shown, the  *)
(* end of a run for good, and no copy of a run that goes on is younger     *)
(* than an end still to be folded.  Folding further files in the order of  *)
(* their names keeps that, whoever folds; Written and Honest say of files  *)
(* and runs what the folding rests on.                                     *)
(***************************************************************************)
EventRow == [run : Run, state : States, at : Nat, ts : Nat, name : Nat]
CopyRow  == [place : Run \cup {Root}, run : Run, state : States, at : Nat]

\* The runs whose copy says nothing but what they told themselves.
Plain(n) == n \in Foreground \/ n \notin Range(Parent)

\* The file that is folded first, and how ByName orders the sets of up to k files.
First(rest) == CHOOSE e \in rest : \A f \in rest : ~ Earlier(f, e)
Upto(files, k) == {rest \in SUBSET files : Cardinality(rest) <= k}
Sorter(files, k, g) ==
  g = [rest \in Upto(files, k) |-> IF rest = {} THEN <<>> ELSE <<First(rest)>> \o g[rest \ {First(rest)}]]
InOrder(s, files) ==
  /\ s \in Seq(files) /\ Range(s) = files
  /\ \A i, j \in 1..Len(s) : i < j => ~ Earlier(s[j], s[i])

\* There is a first file.
LEMMA FirstIsFirst ==
  ASSUME NEW rest, rest \subseteq EventRow, rest # {}
  PROVE  First(rest) \in rest /\ \A f \in rest : ~ Earlier(f, First(rest))
<1> DEFINE Times == {e.ts : e \in rest}
<1>1. Times \subseteq Nat /\ Times # {}
  BY DEF EventRow
<1> HIDE DEF Times
<1>2. PICK t \in Times : \A u \in Times : t <= u
  BY <1>1, LeastNat
<1> DEFINE Numbers == {e.name : e \in {e \in rest : e.ts = t}}
<1>3. Numbers \subseteq Nat /\ Numbers # {}
  BY <1>2 DEF EventRow, Times
<1> HIDE DEF Numbers
<1>4. PICK x \in Numbers : \A y \in Numbers : x <= y
  BY <1>3, LeastNat
<1>5. PICK e \in rest : e.ts = t /\ e.name = x
  BY <1>4 DEF Numbers
<1>6. ASSUME NEW f \in rest PROVE ~ Earlier(f, e)
  <2>1. f.ts \in Times /\ f.ts \in Nat /\ f.name \in Nat /\ t \in Nat /\ x \in Nat
    BY <1>1, <1>2, <1>3, <1>4 DEF EventRow, Times
  <2>2. t <= f.ts /\ (f.ts = t => x <= f.name)
    BY <1>2, <1>4, <2>1 DEF Numbers
  <2> QED
    BY <1>5, <2>1, <2>2 DEF Earlier
<1> QED
  BY <1>6 DEF First

\* A set with one file less.
LEMMA OneLess ==
  ASSUME NEW files, IsFiniteSet(files), NEW k \in Nat, NEW rest \in Upto(files, k), NEW e \in rest
  PROVE  k # 0 /\ rest \ {e} \in Upto(files, k - 1)
<1>1. IsFiniteSet(rest) /\ rest \subseteq files
  BY FS_Subset DEF Upto
<1>2. Cardinality(rest) \in Nat /\ Cardinality(rest) <= k
  BY <1>1, FS_CardinalityType DEF Upto
<1>3. IsFiniteSet(rest \ {e}) /\ Cardinality(rest \ {e}) = Cardinality(rest) - 1
  BY <1>1, FS_RemoveElement
<1>4. Cardinality(rest \ {e}) \in Nat
  BY <1>3, FS_CardinalityType
<1> QED
  BY <1>1, <1>2, <1>3, <1>4 DEF Upto

\* The function that ByName is defined by exists: the least number of files without one would have a predecessor with one.
LEMMA SorterExists ==
  ASSUME NEW files, IsFiniteSet(files), files \subseteq EventRow, NEW k \in Nat
  PROVE  \E g : Sorter(files, k, g)
<1> DEFINE Missing == {n \in Nat : \A g : ~ Sorter(files, n, g)}
<1>1. ASSUME Missing # {} PROVE FALSE
  <2>1. PICK n \in Missing : \A m \in Missing : n <= m
    BY <1>1, LeastNat
  <2>2. CASE n = 0
    <3> DEFINE g == [rest \in Upto(files, 0) |-> <<>>]
    <3>1. ASSUME NEW rest \in Upto(files, 0) PROVE rest = {}
      BY <3>1, OneLess
    <3>2. Sorter(files, 0, g)
      BY <3>1 DEF Sorter
    <3> QED
      BY <2>1, <2>2, <3>2
  <2>3. CASE n # 0
    <3>1. n \in Nat /\ n - 1 \in Nat /\ n - 1 \notin Missing
      BY <2>1, <2>3
    <3>2. PICK g : Sorter(files, n - 1, g)
      BY <3>1
    <3> DEFINE h == [rest \in Upto(files, n) |-> IF rest = {} THEN <<>> ELSE <<First(rest)>> \o g[rest \ {First(rest)}]]
    <3>3. ASSUME NEW rest \in Upto(files, n), rest # {} PROVE h[rest \ {First(rest)}] = g[rest \ {First(rest)}]
      <4>1. First(rest) \in rest
        BY <3>3, FirstIsFirst DEF Upto
      <4> DEFINE less == rest \ {First(rest)}
      <4>2. less \in Upto(files, n - 1)
        BY <3>1, <4>1, OneLess
      <4>3. less \in Upto(files, n)
        <5>1. less \subseteq files /\ IsFiniteSet(less)
          BY <4>2, FS_Subset DEF Upto
        <5>2. Cardinality(less) \in Nat
          BY <5>1, FS_CardinalityType
        <5> QED
          BY <3>1, <4>2, <5>1, <5>2 DEF Upto
      <4>4. g[less] = IF less = {} THEN <<>> ELSE <<First(less)>> \o g[less \ {First(less)}]
        BY <3>2, <4>2 DEF Sorter
      <4> HIDE DEF less
      <4>5. h[less] = g[less]
        BY <4>3, <4>4
      <4> QED
        BY <4>5 DEF less
    <3>4. Sorter(files, n, h)
      <4>1. h = [rest \in Upto(files, n) |-> IF rest = {} THEN <<>> ELSE <<First(rest)>> \o h[rest \ {First(rest)}]]
        BY <3>3
      <4> QED
        BY <4>1 DEF Sorter
    <3> QED
      BY <2>1, <3>4
  <2> QED
    BY <2>2, <2>3
<1> QED
  BY <1>1

\* A file put before others that are in order and not earlier.
LEMMA PutFirst ==
  ASSUME NEW rest, NEW e \in rest, \A f \in rest : ~ Earlier(f, e), NEW s, InOrder(s, rest \ {e})
  PROVE  InOrder(<<e>> \o s, rest)
<1> DEFINE t == <<e>> \o s
<1>1. s \in Seq(rest) /\ Len(s) \in Nat
  BY DEF InOrder
<1>2. t \in Seq(rest) /\ Len(t) = Len(s) + 1 /\ t[1] = e /\ \A i \in 2..Len(t) : i - 1 \in 1..Len(s) /\ t[i] = s[i - 1]
  BY <1>1
<1>3. Range(t) = rest
  <2>1. \A x \in rest : \E i \in 1..Len(t) : t[i] = x
    <3> SUFFICES ASSUME NEW x \in rest PROVE \E i \in 1..Len(t) : t[i] = x
      OBVIOUS
    <3>1. CASE x = e
      <4>1. 1 \in 1..Len(t) /\ t[1] = x
        BY <1>1, <1>2, <3>1
      <4> QED
        BY <4>1
    <3>2. CASE x # e
      <4>1. PICK i \in 1..Len(s) : s[i] = x
        BY <1>1, <3>2 DEF InOrder, Range
      <4>2. i + 1 \in 2..Len(t) /\ t[i + 1] = s[i]
        BY <1>1, <1>2
      <4> HIDE DEF t
      <4>3. i + 1 \in 1..Len(t) /\ t[i + 1] = x
        BY <1>1, <4>1, <4>2
      <4> QED
        BY <4>3
    <3> QED
      BY <3>1, <3>2
  <2>2. DOMAIN t = 1..Len(t) /\ \A i \in 1..Len(t) : t[i] \in rest
    BY <1>2
  <2> HIDE DEF t
  <2> QED
    BY <2>1, <2>2 DEF Range
<1>4. ASSUME NEW i \in 1..Len(t), NEW j \in 1..Len(t), i < j PROVE ~ Earlier(t[j], t[i])
  <2>1. j \in 2..Len(t) /\ t[j] = s[j - 1] /\ j - 1 \in 1..Len(s) /\ s[j - 1] \in rest
    BY <1>1, <1>2, <1>4
  <2> HIDE DEF t
  <2>2. CASE i = 1
    BY <1>2, <2>1, <2>2
  <2>3. CASE i # 1
    <3>1. i \in 2..Len(t) /\ t[i] = s[i - 1] /\ i - 1 \in 1..Len(s) /\ i - 1 < j - 1
      BY <1>1, <1>2, <1>4, <2>3
    <3> QED
      BY <2>1, <3>1 DEF InOrder
  <2> QED
    BY <2>2, <2>3
<1> HIDE DEF t
<1>5. InOrder(t, rest)
  BY <1>2, <1>3, <1>4 DEF InOrder
<1> QED
  BY <1>5 DEF t

\* ByName orders the files.
LEMMA ByNameOrders ==
  ASSUME NEW files, IsFiniteSet(files), files \subseteq EventRow
  PROVE  InOrder(ByName(files), files)
<1> DEFINE sorted == CHOOSE f : f = [rest \in SUBSET files |->
                       IF rest = {} THEN <<>>
                       ELSE LET e == CHOOSE e \in rest : \A x \in rest : ~ Earlier(x, e)
                            IN <<e>> \o f[rest \ {e}]]
<1>1. Cardinality(files) \in Nat
  BY FS_CardinalityType
<1>2. Upto(files, Cardinality(files)) = SUBSET files
  BY FS_Subset DEF Upto
<1>3. PICK g : Sorter(files, Cardinality(files), g)
  BY <1>1, SorterExists
<1>4. g = [rest \in SUBSET files |-> IF rest = {} THEN <<>> ELSE <<First(rest)>> \o g[rest \ {First(rest)}]]
  BY <1>2, <1>3 DEF Sorter
<1>5. sorted = [rest \in SUBSET files |-> IF rest = {} THEN <<>> ELSE <<First(rest)>> \o sorted[rest \ {First(rest)}]]
  BY <1>4 DEF First
<1> HIDE DEF sorted
<1> DEFINE Wrong == {Cardinality(rest) : rest \in {r \in SUBSET files : ~ InOrder(sorted[r], r)}}
<1>6. ASSUME Wrong # {} PROVE FALSE
  <2>1. Wrong \subseteq Nat
    BY FS_Subset, FS_CardinalityType
  <2>2. PICK n \in Wrong : \A m \in Wrong : n <= m
    <3> HIDE DEF Wrong
    <3> QED
      BY <1>6, <2>1, LeastNat
  <2>3. PICK rest \in SUBSET files : ~ InOrder(sorted[rest], rest) /\ Cardinality(rest) = n
    BY <2>2
  <2>4. rest # {}
    <3>1. sorted[{}] = <<>>
      BY <1>5
    <3>2. InOrder(<<>>, {})
      BY DEF InOrder, Range
    <3> QED
      BY <2>3, <3>1, <3>2
  <2> DEFINE e == First(rest)
  <2>5. e \in rest /\ \A f \in rest : ~ Earlier(f, e)
    BY <2>4, FirstIsFirst
  <2>6. IsFiniteSet(rest) /\ Cardinality(rest) \in Nat /\ Cardinality(rest \ {e}) = Cardinality(rest) - 1
    BY <2>5, FS_Subset, FS_RemoveElement, FS_CardinalityType
  <2>7. InOrder(sorted[rest \ {e}], rest \ {e})
    <3>1. rest \ {e} \in SUBSET files /\ Cardinality(rest \ {e}) \notin Wrong
      BY <2>2, <2>3, <2>6
    <3> QED
      BY <3>1
  <2>8. sorted[rest] = <<e>> \o sorted[rest \ {e}]
    BY <1>5, <2>4
  <2> HIDE DEF e
  <2> QED
    BY <2>3, <2>5, <2>7, <2>8, PutFirst
<1>7. InOrder(sorted[files], files)
  BY <1>6
<1> QED
  BY <1>7 DEF ByName, sorted

(***************************************************************************)
(* Folding.                                                                *)
(***************************************************************************)
\* A run's parent has told of itself in an earlier moment; what is told late of a run that has ended is told of a later moment.
Written(files, now) ==
  /\ files \subseteq EventRow /\ \A e \in files : e.at <= e.ts /\ e.ts <= now
  /\ \A e \in files : Parent[e.run] # Root => \E f \in files : f.run = Parent[e.run] /\ f.ts < e.ts
  /\ \A e, f \in files :
       Plain(e.run) /\ f.run = e.run /\ e.state \in Ended /\ f.state \notin Ended /\ e.at < f.at => e.ts < f.ts
  /\ \A e \in files : e.run \in Foreground /\ e.state \in Ended => e.at = e.ts

Single(copies) ==
  /\ copies \subseteq CopyRow
  /\ \A c \in copies : c.place = Parent[c.run]
  /\ \A c, d \in copies : c.run = d.run => c = d

Shows(copies, done) ==
  \A e \in done :
    /\ \E c \in copies : c.run = e.run
    /\ Plain(e.run) /\ e.state \in Ended => \A c \in copies : c.run = e.run => c.state \in Ended

Younger(copies, files) ==
  \A c \in copies, e \in files :
    Plain(c.run) /\ c.state \notin Ended /\ e.run = c.run /\ e.state \in Ended => c.at <= e.at

\* Where the date of a copy comes from.
Dated(copies, files, now) ==
  \A c \in copies :
    /\ c.at <= now
    /\ Plain(c.run) /\ c.run \notin Foreground /\ c.state \notin Ended =>
         \E f \in files : f.run = c.run /\ f.state \notin Ended /\ f.at = c.at

Folding(copies, done, files, now) ==
  done \subseteq files /\ Single(copies) /\ Shows(copies, done) /\ Younger(copies, files) /\ Dated(copies, files, now)

\* Merging the next file into the place of its run.
LEMMA MergeKeeps ==
  ASSUME NEW now \in Nat, NEW files, Written(files, now), NEW copies, NEW done, Folding(copies, done, files, now),
         NEW e \in files, \A f \in files \ done : ~ Earlier(f, e)
  PROVE  Folding(Merge(copies, Parent[e.run], e), done \cup {e}, files, now)
<1> DEFINE old == {c \in copies : c.place = Parent[e.run] /\ c.run = e.run}
           new == [place |-> Parent[e.run], run |-> e.run, state |-> e.state, at |-> e.at]
           Stale(c) == \/ e.at < c.at
                       \/ c.state \in Ended /\ (e.state \notin Ended \/ e.at = c.at)
           K == IF \E c \in old : Stale(c) THEN copies ELSE (copies \ old) \cup {new}
<1>1. K = Merge(copies, Parent[e.run], e)
  BY DEF Merge
<1>2. /\ done \subseteq files /\ Single(copies) /\ Shows(copies, done) /\ Younger(copies, files) /\ Dated(copies, files, now)
      /\ done \cup {e} \subseteq files
  BY DEF Folding
<1>3. old = {c \in copies : c.run = e.run}
  BY <1>2 DEF Single
<1>4. e \in EventRow /\ e.run \in Run /\ e.at \in Nat /\ e.ts \in Nat /\ e.state \in States /\ e.at <= now
  BY DEF Written, EventRow
<1>5. copies \subseteq CopyRow /\ \A c \in copies : c.at \in Nat
  BY <1>2 DEF Single, CopyRow
<1>6. CASE \E c \in old : Stale(c)
  <2>1. PICK c \in old : Stale(c)
    BY <1>6
  <2>2. K = copies
    BY <1>6
  <2>3. c \in copies /\ c.run = e.run /\ \A d \in copies : d.run = e.run => d = c
    BY <1>2, <1>3, <2>1 DEF Single
  <2>4. Plain(e.run) /\ e.state \in Ended => c.state \in Ended
    <3> SUFFICES ASSUME Plain(e.run), e.state \in Ended, c.state \notin Ended PROVE FALSE
      OBVIOUS
    <3>1. e.at < c.at
      BY <2>1
    <3>2. c.at <= e.at
      BY <1>2, <2>3 DEF Younger
    <3> QED
      BY <1>4, <1>5, <2>3, <3>1, <3>2
  <2>5. Shows(copies, done \cup {e})
    BY <1>2, <2>3, <2>4 DEF Shows
  <2> QED
    BY <1>1, <1>2, <2>2, <2>5 DEF Folding
<1>7. CASE \A c \in old : ~ Stale(c)
  <2>1. K = (copies \ old) \cup {new}
    BY <1>7
  <2>2. new \in CopyRow
    <3>1. Parent[e.run] \in Run \cup {Root}
      BY <1>4, NestedAssumption
    <3> QED
      BY <1>4, <3>1 DEF CopyRow
  <2>3. new.place = Parent[e.run] /\ new.run = e.run /\ new.state = e.state /\ new.at = e.at
    OBVIOUS
  <2>4. \A c \in copies \ old : c.run # e.run
    BY <1>3
  <2>5. \A d \in done : d.run = e.run /\ Plain(e.run) /\ d.state \in Ended => e.state \in Ended
    <3> SUFFICES ASSUME NEW d \in done, d.run = e.run, Plain(e.run), d.state \in Ended PROVE e.state \in Ended
      OBVIOUS
    <3>1. PICK c \in copies : c.run = d.run
      BY <1>2 DEF Shows
    <3>2. c.state \in Ended /\ c \in old
      BY <1>2, <1>3, <3>1 DEF Shows
    <3> QED
      BY <1>7, <3>2
  <2> HIDE DEF new, old, K
  <2>6. Single(K)
    BY <1>2, <1>5, <2>1, <2>2, <2>3, <2>4 DEF Single
  <2>7. Shows(K, done \cup {e})
    <3> SUFFICES ASSUME NEW d \in done \cup {e}
                 PROVE  /\ \E c \in K : c.run = d.run
                        /\ Plain(d.run) /\ d.state \in Ended => \A c \in K : c.run = d.run => c.state \in Ended
      BY DEF Shows
    <3>1. CASE d.run = e.run
      BY <2>1, <2>3, <2>4, <2>5, <3>1
    <3>2. CASE d.run # e.run
      <4>1. d \in done
        BY <3>2
      <4>2. PICK c \in copies : c.run = d.run
        BY <1>2, <4>1 DEF Shows
      <4>3. c \in K /\ \A b \in K : b.run = d.run => b \in copies
        BY <1>3, <2>1, <2>3, <3>2, <4>2
      <4> QED
        BY <1>2, <4>1, <4>2, <4>3 DEF Shows
    <3> QED
      BY <3>1, <3>2
  <2>8. Younger(K, files)
    <3>1. ASSUME NEW g \in files, Plain(e.run), e.state \notin Ended, g.run = e.run, g.state \in Ended PROVE e.at <= g.at
      <4>1. g.at \in Nat /\ g.ts \in Nat
        BY DEF Written, EventRow
      <4>2. ASSUME g.at < e.at PROVE FALSE
        <5>1. g.ts < e.ts
          BY <3>1, <4>2 DEF Written
        <5>2. g \in done
          BY <5>1 DEF Earlier
        <5> QED
          BY <2>5, <3>1, <5>2
      <4> QED
        BY <1>4, <4>1, <4>2
    <3> QED
      BY <1>2, <2>1, <2>3, <3>1 DEF Younger
  <2>9. Dated(K, files, now)
    BY <1>2, <1>4, <2>1, <2>3 DEF Dated
  <2> QED
    BY <1>1, <1>2, <2>6, <2>7, <2>8, <2>9 DEF Folding
<1> QED
  BY <1>6, <1>7

\* The last update of a parent follows.
LEMMA BumpKeeps ==
  ASSUME NEW now \in Nat, NEW files, Written(files, now), NEW copies, NEW done, Folding(copies, done, files, now),
         NEW e \in done, \A f \in files \ done : ~ Earlier(f, e)
  PROVE  Folding({IF c.run = Parent[e.run] /\ e.ts > c.at THEN [c EXCEPT !.at = e.ts] ELSE c : c \in copies}, done, files, now)
<1> DEFINE B(c) == IF c.run = Parent[e.run] /\ e.ts > c.at THEN [c EXCEPT !.at = e.ts] ELSE c
           K == {B(c) : c \in copies}
<1>1. /\ done \subseteq files /\ Single(copies) /\ Shows(copies, done) /\ Younger(copies, files) /\ Dated(copies, files, now)
      /\ e \in files
  BY DEF Folding
<1>2. e \in EventRow /\ e.run \in Run /\ e.ts \in Nat /\ e.ts <= now
  BY <1>1 DEF Written, EventRow
<1>3. ASSUME NEW c \in copies
      PROVE  /\ c \in CopyRow /\ B(c) \in CopyRow
             /\ B(c).place = c.place /\ B(c).run = c.run /\ B(c).state = c.state
             /\ B(c).at = c.at \/ (B(c).at = e.ts /\ c.run = Parent[e.run])
  BY <1>1, <1>2 DEF Single, CopyRow
<1> HIDE DEF B
<1>4. Single(K)
  <2>1. K \subseteq CopyRow /\ \A d \in K : d.place = Parent[d.run]
    BY <1>1, <1>3 DEF Single
  <2>2. ASSUME NEW c \in copies, NEW d \in copies, B(c).run = B(d).run PROVE B(c) = B(d)
    BY <1>1, <1>3, <2>2 DEF Single
  <2> QED
    BY <2>1, <2>2 DEF Single
<1>5. Shows(K, done)
  BY <1>1, <1>3 DEF Shows
<1>6. Younger(K, files)
  <2> SUFFICES ASSUME NEW c \in copies, NEW g \in files, Plain(c.run), c.state \notin Ended, g.run = c.run, g.state \in Ended
               PROVE  B(c).at <= g.at
    BY <1>3 DEF Younger
  <2>1. CASE B(c).at = c.at
    BY <1>1, <2>1 DEF Younger
  <2>2. CASE B(c).at = e.ts /\ c.run = Parent[e.run]
    <3>1. c.run \in Foreground
      BY <1>2, <2>2, NestedAssumption DEF Plain, Range
    <3>2. g.at = g.ts /\ g.ts \in Nat
      BY <3>1 DEF Written, EventRow
    <3>3. g \notin done
      BY <1>1 DEF Shows
    <3>4. ~ (g.ts < e.ts)
      BY <3>3 DEF Earlier
    <3> QED
      BY <1>2, <2>2, <3>2, <3>4
  <2> QED
    BY <1>3, <2>1, <2>2
<1>7. Dated(K, files, now)
  <2> SUFFICES ASSUME NEW c \in copies
               PROVE  /\ B(c).at <= now
                      /\ Plain(c.run) /\ c.run \notin Foreground /\ c.state \notin Ended =>
                           \E f \in files : f.run = c.run /\ f.state \notin Ended /\ f.at = B(c).at
    BY <1>3 DEF Dated
  <2>1. CASE B(c).at = c.at
    BY <1>1, <2>1 DEF Dated
  <2>2. CASE B(c).at = e.ts /\ c.run = Parent[e.run]
    BY <1>2, <2>2, NestedAssumption DEF Plain, Range
  <2> QED
    BY <1>3, <2>1, <2>2
<1>8. Folding(K, done, files, now)
  BY <1>1, <1>4, <1>5, <1>6, <1>7 DEF Folding
<1> QED
  BY <1>8 DEF B

\* The next file in the order of names is put where its run belongs.
LEMMA AttachKeeps ==
  ASSUME NEW now \in Nat, NEW files, Written(files, now), NEW copies, NEW done, Folding(copies, done, files, now),
         NEW e \in files, \A f \in files \ done : ~ Earlier(f, e)
  PROVE  Folding(Attach(copies, e), done \cup {e}, files, now)
<1> DEFINE p == Parent[e.run]
           K == Merge(copies, p, e)
<1>1. e.run \in Run /\ p \in Run \cup {Root} /\ e.ts \in Nat
  BY NestedAssumption DEF Written, EventRow
<1>2. Folding(K, done \cup {e}, files, now)
  BY MergeKeeps
<1>3. CASE \E c \in copies : c.run = p
  <2>1. Attach(copies, e) = {IF c.run = p /\ e.ts > c.at THEN [c EXCEPT !.at = e.ts] ELSE c : c \in K}
    BY <1>3 DEF Attach
  <2> DEFINE D == done \cup {e}
             L == {IF c.run = Parent[e.run] /\ e.ts > c.at THEN [c EXCEPT !.at = e.ts] ELSE c : c \in K}
  <2>2. e \in D /\ \A f \in files \ D : ~ Earlier(f, e)
    OBVIOUS
  <2> HIDE DEF K, D
  <2>3. Folding(K, D, files, now)
    BY <1>2 DEF D
  <2>4. Folding(L, D, files, now)
    BY <2>2, <2>3, BumpKeeps
  <2> QED
    BY <2>1, <2>4 DEF D
<1>4. CASE ~ \E c \in copies : c.run = p
  <2>1. p = Root
    <3> SUFFICES ASSUME p # Root PROVE FALSE
      OBVIOUS
    <3>1. PICK f \in files : f.run = p /\ f.ts < e.ts
      BY DEF Written
    <3>2. f \in done
      BY <3>1 DEF Earlier
    <3> QED
      BY <1>4, <3>1, <3>2 DEF Folding, Shows
  <2>2. Attach(copies, e) = K
    BY <1>4, <2>1 DEF Attach
  <2> QED
    BY <1>2, <2>2
<1> QED
  BY <1>3, <1>4

\* The function that Folded is defined by, for the first k events.
Folder(copies, events, k, g) ==
  g = [i \in 0..k |-> IF i = 0 THEN copies ELSE Attach(g[i - 1], events[i])]

\* It exists: the least k without one would have a predecessor with one.
LEMMA FolderExists ==
  ASSUME NEW copies, NEW events, NEW k \in Nat
  PROVE  \E g : Folder(copies, events, k, g)
<1> DEFINE Missing == {n \in Nat : \A g : ~ Folder(copies, events, n, g)}
<1>1. ASSUME Missing # {} PROVE FALSE
  <2>1. PICK n \in Missing : \A m \in Missing : n <= m
    BY <1>1, LeastNat
  <2>2. CASE n = 0
    <3>1. Folder(copies, events, 0, [i \in 0..0 |-> copies])
      BY DEF Folder
    <3> QED
      BY <2>1, <2>2, <3>1
  <2>3. CASE n # 0
    <3>1. n \in Nat /\ n - 1 \in Nat /\ n - 1 \notin Missing
      BY <2>1, <2>3
    <3>2. PICK g : Folder(copies, events, n - 1, g)
      BY <3>1
    <3> DEFINE h == [i \in 0..n |-> IF i = 0 THEN copies ELSE Attach(g[i - 1], events[i])]
    <3>3. ASSUME NEW i \in 0..n, i # 0 PROVE h[i - 1] = g[i - 1]
      <4>1. i - 1 \in 0..(n - 1) /\ i - 1 \in 0..n
        BY <3>1, <3>3
      <4> DEFINE j == i - 1
      <4>2. h[j] = IF j = 0 THEN copies ELSE Attach(g[j - 1], events[j])
        BY <4>1
      <4>3. g[j] = IF j = 0 THEN copies ELSE Attach(g[j - 1], events[j])
        BY <3>2, <4>1 DEF Folder
      <4> HIDE DEF h
      <4> QED
        BY <4>2, <4>3
    <3>4. h = [i \in 0..n |-> IF i = 0 THEN copies ELSE Attach(h[i - 1], events[i])]
      BY <3>3
    <3>5. Folder(copies, events, n, h)
      BY <3>4 DEF Folder
    <3> QED
      BY <2>1, <3>5
  <2> QED
    BY <2>2, <2>3
<1> QED
  BY <1>1

\* Folding the rest of the files in order gives copies of all.
LEMMA FoldKeeps ==
  ASSUME NEW now \in Nat, NEW files, Written(files, now), NEW copies, NEW done, Folding(copies, done, files, now),
         NEW s, InOrder(s, files \ done)
  PROVE  Folding(Folded(copies, s), files, files, now)
<1> DEFINE after == CHOOSE f : f = [i \in 0..Len(s) |-> IF i = 0 THEN copies ELSE Attach(f[i - 1], s[i])]
           Done(i) == done \cup {s[j] : j \in 1..i}
<1>1. Len(s) \in Nat /\ s \in Seq(files \ done) /\ DOMAIN s = 1..Len(s) /\ Range(s) = files \ done
  BY DEF InOrder
<1>2. \E g : Folder(copies, s, Len(s), g)
  BY <1>1, FolderExists
<1>3. after = [i \in 0..Len(s) |-> IF i = 0 THEN copies ELSE Attach(after[i - 1], s[i])]
  BY <1>2 DEF Folder
<1> HIDE DEF after
<1> DEFINE Wrong == {i \in 0..Len(s) : ~ Folding(after[i], Done(i), files, now)}
<1>4. ASSUME Wrong # {} PROVE FALSE
  <2>1. PICK i \in Wrong : \A m \in Wrong : i <= m
    <3>1. Wrong \subseteq Nat
      BY <1>1
    <3> HIDE DEF Wrong
    <3> QED
      BY <1>4, <3>1, LeastNat
  <2>2. i # 0
    <3>1. after[0] = copies
      BY <1>1, <1>3
    <3>2. Done(0) = done
      OBVIOUS
    <3> QED
      BY <2>1, <3>1, <3>2
  <2>3. i \in 1..Len(s) /\ i - 1 \in 0..Len(s) /\ i - 1 \notin Wrong
    <3>1. i \in 0..Len(s)
      BY <2>1
    <3>2. i \in 1..Len(s) /\ i - 1 \in 0..Len(s) /\ ~ (i <= i - 1)
      BY <1>1, <2>2, <3>1
    <3> HIDE DEF Wrong
    <3> QED
      BY <2>1, <3>2
  <2>4. after[i] = Attach(after[i - 1], s[i])
    BY <1>3, <2>1, <2>2
  <2>5. Folding(after[i - 1], Done(i - 1), files, now)
    BY <2>3
  <2>6. s[i] \in files /\ s[i] \in EventRow
    BY <1>1, <2>3 DEF Written
  <2>7. \A f \in files \ Done(i - 1) : ~ Earlier(f, s[i])
    <3> SUFFICES ASSUME NEW f \in files \ Done(i - 1) PROVE ~ Earlier(f, s[i])
      OBVIOUS
    <3>1. PICK j \in 1..Len(s) : s[j] = f
      BY <1>1 DEF Range
    <3>2. ~ (j \in 1..(i - 1))
      BY <3>1
    <3>3. j = i \/ i < j
      BY <1>1, <2>3, <3>1, <3>2
    <3>4. ~ Earlier(s[i], s[i])
      BY <2>6 DEF Earlier, EventRow
    <3> QED
      BY <2>3, <3>1, <3>3, <3>4 DEF InOrder
  <2>8. Done(i) = Done(i - 1) \cup {s[i]}
    BY <1>1, <2>3
  <2> HIDE DEF Done
  <2>9. Folding(Attach(after[i - 1], s[i]), Done(i - 1) \cup {s[i]}, files, now)
    BY <2>5, <2>6, <2>7, AttachKeeps
  <2> QED
    BY <2>1, <2>4, <2>8, <2>9
<1>5. Folding(after[Len(s)], Done(Len(s)), files, now)
  <2>1. Wrong = {}
    <3> HIDE DEF Wrong
    <3> QED
      BY <1>4
  <2>2. Len(s) \in 0..Len(s)
    BY <1>1
  <2> HIDE DEF Done
  <2> QED
    BY <2>1, <2>2
<1>6. Done(Len(s)) = files
  BY <1>1 DEF Range, Folding
<1> HIDE DEF Done
<1> QED
  BY <1>5, <1>6 DEF Folded, after

\* A registry, or what was read of one.
Registry(reg, files, now) ==
  /\ reg.processed \in Seq(files) /\ Len(reg.processed) <= KeepNames
  /\ Folding(reg.copies, Range(reg.processed), files, now)

\* What is shown when more has been folded is shown of less.
LEMMA FewerDone ==
  ASSUME NEW copies, NEW files, NEW now, NEW done, Folding(copies, files, files, now), done \subseteq files
  PROVE  Folding(copies, done, files, now)
  BY DEF Folding, Shows

\* Projecting a registry gives a registry in which every file is shown.
LEMMA ProjectKeeps ==
  ASSUME clock \in Nat, Written(sink, clock), IsFiniteSet(sink), NEW reg, Registry(reg, sink, clock)
  PROVE  Registry(Project(reg), sink, clock) /\ Folding(Project(reg).copies, sink, sink, clock)
<1> DEFINE done == Range(reg.processed)
           new == ByName(sink \ done)
           names == reg.processed \o new
           drop == Len(names) - KeepNames
           kept == IF drop > 0 THEN SubSeq(names, drop + 1, Len(names)) ELSE names
<1>1. sink \ done \subseteq EventRow /\ IsFiniteSet(sink \ done)
  BY FS_Subset DEF Written
<1>2. InOrder(new, sink \ done)
  BY <1>1, ByNameOrders
<1>3. reg.processed \in Seq(sink) /\ Folding(reg.copies, done, sink, clock)
  BY DEF Registry
<1>4. Project(reg) = [copies |-> Folded(reg.copies, new), processed |-> kept]
  BY DEF Project
<1> HIDE DEF new, done
<1>5. Folding(Folded(reg.copies, new), sink, sink, clock)
  BY <1>2, <1>3, FoldKeeps
<1>6. names \in Seq(sink)
  <2>1. new \in Seq(sink)
    BY <1>2 DEF InOrder
  <2> QED
    BY <1>3, <2>1
<1> HIDE DEF names
<1>7. kept \in Seq(sink) /\ Len(kept) <= KeepNames
  <2>1. KeepNames \in Nat /\ Len(names) \in Nat
    BY <1>6, NestedAssumption
  <2>2. CASE drop > 0
    <3>1. drop + 1 \in 1..Len(names) + 1
      BY <2>1, <2>2
    <3>2. SubSeq(names, drop + 1, Len(names)) \in Seq(sink) /\ Len(SubSeq(names, drop + 1, Len(names))) = Len(names) - drop
      BY <1>6, <2>1, <2>2, SubSeqProperties
    <3> QED
      BY <2>1, <2>2, <3>2
  <2>3. CASE ~ (drop > 0)
    BY <1>6, <2>1, <2>3
  <2> QED
    BY <2>2, <2>3
<1> HIDE DEF kept
<1>8. Range(kept) \subseteq sink
  BY <1>7 DEF Range
<1> QED
  BY <1>4, <1>5, <1>7, <1>8, FewerDone DEF Registry

(***************************************************************************)
(* The invariant.                                                          *)
(***************************************************************************)
NestedShape ==
  /\ clock \in 1..MaxClock /\ alive \subseteq Child \cup Run
  /\ state \in [Run -> {"none"} \cup States]
  /\ status \in [Run -> [state : {"none"} \cup States, at : Nat]]
  /\ told \in [Run -> SUBSET {"started", "updated", "ended"}]
  /\ DOMAIN snap = Reader /\ IsFiniteSet(sink)

\* Whoever holds a registry holds one that is true of the files.
Registries ==
  /\ Registry(registry, sink, clock)
  /\ \A p \in Reader : snap[p].on => Registry(snap[p], sink, clock)

\* The end of a run whose runner is dead is told.
Repaired(n) == n \notin alive /\ \E e \in sink : e.run = n /\ e.state \in Ended

\* A background run ends when its start has been told or never will be, or by a repair; only then may a start be told that is younger than the end.
Honest ==
  \A n \in Run :
    /\ n \notin alive => state[n] # "none"
    /\ status[n].at <= clock /\ (n \notin Foreground => status[n].state = state[n])
    /\ state[n] # "none" /\ Parent[n] # Root => \E e \in sink : e.run = Parent[n] /\ e.ts < clock
    /\ n \in Foreground /\ state[n] \in Ended => "started" \in told[n]
    /\ n \notin Foreground /\ state[n] \in Ended =>
         /\ "started" \in told[n] \/ Owner[n] \notin alive \/ Repaired(n)
         /\ Repaired(n) \/ \A f \in sink : f.run = n /\ f.state \notin Ended => f.at <= status[n].at
    /\ \A e \in sink : e.run = n /\ e.state \in Ended =>
         /\ state[n] \in Ended
         /\ Plain(n) => e.at = e.ts \/ "started" \in told[n] \/ Owner[n] \notin alive

NestedInv == NestedShape /\ Written(sink, clock) /\ Registries /\ Honest

\* At first there is nothing to show.
LEMMA NestedStarts == NestedInit => NestedInv
<1> SUFFICES ASSUME NestedInit PROVE NestedInv
  OBVIOUS
<1> USE DEF NestedInit
<1>1. NestedShape
  BY NestedAssumption, FS_EmptySet DEF NestedShape, States, Ended
<1>2. Written(sink, clock)
  BY DEF Written
<1>3. Registry(registry, sink, clock)
  <2>1. registry.processed = <<>> /\ registry.copies = {} /\ Range(<<>>) = {} /\ Len(<<>>) <= KeepNames
    BY NestedAssumption DEF Range
  <2> QED
    BY <2>1 DEF Registry, Folding, Single, Shows, Younger, Dated
<1>4. \A p \in Reader : ~ snap[p].on
  BY DEF NoSnap
<1>5. Honest
  BY DEF Honest, Ended
<1> QED
  BY <1>1, <1>2, <1>3, <1>4, <1>5 DEF NestedInv, Registries

\* New files of this moment keep the files in order, and every registry true of them.
LEMMA MoreFiles ==
  ASSUME NestedInv, NEW new, new \subseteq EventRow,
         \A e \in new : e.ts = clock /\ e.at <= clock /\ state[e.run] # "none",
         \A e, f \in new : e.run = f.run => e = f,
         \A f \in new, e \in sink : Plain(e.run) /\ f.run = e.run /\ e.state \in Ended /\ f.state \notin Ended /\ e.at < f.at => e.ts < clock,
         \A e \in new : e.run \in Foreground /\ e.state \in Ended => e.at = clock,
         \A e \in new, f \in sink : Plain(e.run) /\ f.run = e.run /\ e.state \in Ended /\ f.state \notin Ended => f.at <= e.at
  PROVE  /\ Written(sink \cup new, clock)
         /\ \A reg : Registry(reg, sink, clock) => Registry(reg, sink \cup new, clock)
<1>1. Written(sink, clock) /\ clock \in Nat
  BY DEF NestedInv, NestedShape
<1> DEFINE files == sink \cup new
<1>2. \A e \in files : e \in EventRow /\ e.run \in Run /\ e.at \in Nat /\ e.ts \in Nat /\ e.at <= e.ts /\ e.ts <= clock
  BY <1>1 DEF Written, EventRow
<1>3. \A e \in files : Parent[e.run] # Root => \E f \in files : f.run = Parent[e.run] /\ f.ts < e.ts
  <2> SUFFICES ASSUME NEW e \in files, Parent[e.run] # Root PROVE \E f \in sink : f.run = Parent[e.run] /\ f.ts < e.ts
    OBVIOUS
  <2>1. CASE e \in sink
    BY <1>1, <2>1 DEF Written
  <2>2. CASE e \in new
    BY <1>2, <2>2 DEF NestedInv, Honest
  <2> QED
    BY <2>1, <2>2
<1>4. ASSUME NEW e \in files, NEW f \in files, Plain(e.run), f.run = e.run, e.state \in Ended, f.state \notin Ended, e.at < f.at
      PROVE  e.ts < f.ts
  <2>1. CASE e \in sink /\ f \in sink
    BY <1>1, <1>4, <2>1 DEF Written
  <2>2. CASE e \in sink /\ f \in new
    BY <1>4, <2>2
  <2>3. CASE e \in new /\ f \in sink
    BY <1>2, <1>4, <2>3
  <2>4. CASE e \in new /\ f \in new
    BY <1>4, <2>4
  <2> QED
    BY <2>1, <2>2, <2>3, <2>4
<1>5. \A e \in files : e.run \in Foreground /\ e.state \in Ended => e.at = e.ts
  BY <1>1 DEF Written
<1>6. Written(files, clock)
  BY <1>2, <1>3, <1>4, <1>5 DEF Written
<1>7. ASSUME NEW reg, Registry(reg, sink, clock) PROVE Registry(reg, files, clock)
  <2> DEFINE copies == reg.copies
             done == Range(reg.processed)
  <2>1. /\ done \subseteq sink /\ Single(copies) /\ Shows(copies, done) /\ Younger(copies, sink) /\ Dated(copies, sink, clock)
        /\ reg.processed \in Seq(sink) /\ Len(reg.processed) <= KeepNames
    BY <1>7 DEF Registry, Folding
  <2>2. reg.processed \in Seq(files)
    BY <2>1
  <2> HIDE DEF copies, done
  <2>3. Younger(copies, files)
    <3> SUFFICES ASSUME NEW c \in copies, NEW e \in new, Plain(c.run), c.state \notin Ended, e.run = c.run, e.state \in Ended
                 PROVE  c.at <= e.at
      BY <2>1 DEF Younger
    <3>1. CASE e.run \in Foreground
      BY <2>1, <3>1 DEF Dated
    <3>2. CASE e.run \notin Foreground
      BY <2>1, <3>2 DEF Dated
    <3> QED
      BY <3>1, <3>2
  <2>4. Dated(copies, files, clock)
    BY <2>1 DEF Dated
  <2>5. Folding(copies, done, files, clock)
    BY <2>1, <2>3, <2>4 DEF Folding
  <2> QED
    BY <2>1, <2>2, <2>5 DEF Registry, copies, done
<1> QED
  BY <1>6, <1>7

\* Time passes.
LEMMA TickSteps == ASSUME NestedInv, Tick PROVE NestedInv'
<1> USE DEF NestedInv
<1>1. clock \in Nat /\ clock' = clock + 1 /\ UNCHANGED <<alive, state, status, told, sink, registry, snap>>
  BY DEF Tick, selfVars, NestedShape
<1>2. NestedShape'
  BY <1>1, NestedAssumption DEF NestedShape, Tick
<1>3. Written(sink, clock)'
  <2>1. \A e \in sink : e.ts \in Nat
    BY DEF Written, EventRow
  <2> QED
    BY <1>1, <2>1 DEF Written
<1>4. ASSUME NEW reg, Registry(reg, sink, clock) PROVE Registry(reg, sink', clock')
  <2>1. \A c \in reg.copies : c.at \in Nat
    BY <1>4 DEF Registry, Folding, Single, CopyRow
  <2>2. Dated(reg.copies, sink, clock) => Dated(reg.copies, sink, clock + 1)
    BY <1>1, <2>1 DEF Dated
  <2> QED
    BY <1>1, <1>4, <2>2 DEF Registry, Folding
<1>5. Registries'
  BY <1>1, <1>4 DEF Registries
<1>6. Honest'
  <2>1. \A n \in Run : status[n].at \in Nat
    BY DEF NestedShape
  <2>2. \A e \in sink : e.ts \in Nat
    BY DEF Written, EventRow
  <2> QED
    BY <1>1, <2>1, <2>2 DEF Honest, Repaired
<1> QED
  BY <1>2, <1>3, <1>5, <1>6


\* A child of a run launches another run.
LEMMA LaunchSteps == ASSUME NestedInv, NEW n \in Run, Launch(n) PROVE NestedInv'
<1> USE DEF NestedInv
<1>1. /\ UNCHANGED <<clock, alive, told, sink, registry, snap>> /\ state[n] = "none"
      /\ state' = [state EXCEPT ![n] = "running"] /\ DOMAIN state = Run
  BY DEF Launch, NestedShape
<1>2. clock \in Nat /\ \A m \in Run : status'[m] = IF m = n /\ n \notin Foreground THEN [state |-> "running", at |-> clock] ELSE status[m]
  BY DEF Launch, NestedShape
<1>3. NestedShape'
  <2>1. status' \in [Run -> [state : {"none"} \cup States, at : Nat]]
    BY <1>2 DEF Launch, NestedShape, States
  <2> QED
    BY <1>1, <2>1 DEF NestedShape, States
<1>4. Written(sink, clock)' /\ Registries'
  BY <1>1 DEF Registries
<1>5. Parent[n] # Root => \E e \in sink : e.run = Parent[n] /\ e.ts < clock
  BY DEF Launch
<1>6. \A e \in sink : e.run = n => e.state \notin Ended
  BY <1>1 DEF Honest, Ended
<1>7. state'[n] = "running" /\ "running" \notin Ended /\ \A m \in Run \ {n} : state'[m] = state[m] /\ status'[m] = status[m]
  BY <1>1, <1>2 DEF Ended
<1>8. status'[n].at <= clock /\ (n \notin Foreground => status'[n].state = "running")
  BY <1>2 DEF Honest
<1>9. Honest'
  BY <1>1, <1>5, <1>6, <1>7, <1>8 DEF Honest, Repaired
<1> QED
  BY <1>3, <1>4, <1>9

\* The launcher tells of the start.
LEMMA TellStartSteps == ASSUME NestedInv, NEW n \in Run, TellStart(n) PROVE NestedInv'
<1> USE DEF NestedInv
<1>1. /\ UNCHANGED <<clock, alive, state, status, registry, snap>> /\ state[n] # "none"
      /\ "started" \notin told[n] /\ Owner[n] \in alive
      /\ told' = [told EXCEPT ![n] = @ \cup {"started"}] /\ DOMAIN told = Run /\ clock \in Nat
  BY DEF TellStart, NestedShape
<1>2. PICK x \in Names : sink' = sink \cup {Event(n, "running", clock, x)}
  BY DEF TellStart
<1> DEFINE new == Event(n, "running", clock, x)
<1>3. new \in EventRow /\ new.run = n /\ new.state = "running" /\ new.at = clock /\ new.ts = clock /\ new.state \notin Ended
  BY <1>1 DEF Event, EventRow, States, Ended, Names
<1> HIDE DEF new
<1>4. sink' = sink \cup {new} /\ IsFiniteSet(sink')
  BY <1>2, FS_AddElement DEF NestedShape, new
<1>5. ASSUME NEW e \in sink, Plain(n), e.run = n, e.state \in Ended, e.at < clock PROVE e.ts < clock
  <2>1. e.at = e.ts
    BY <1>1, <1>5 DEF Honest
  <2> QED
    BY <1>5, <2>1
<1>6. Written(sink \cup {new}, clock) /\ \A reg : Registry(reg, sink, clock) => Registry(reg, sink \cup {new}, clock)
  <2> DEFINE E == {new}
  <2>1. E \subseteq EventRow /\ \A e \in E : e.ts = clock /\ e.at <= clock /\ state[e.run] # "none" /\ e.run = n /\ e.state \notin Ended /\ e.at = clock
    BY <1>1, <1>3
  <2>2. \A e, f \in E : e.run = f.run => e = f
    OBVIOUS
  <2> HIDE DEF E
  <2>3. Written(sink \cup E, clock) /\ \A reg : Registry(reg, sink, clock) => Registry(reg, sink \cup E, clock)
    BY <1>5, <2>1, <2>2, MoreFiles
  <2> QED
    BY <2>3 DEF E
<1>7. Written(sink, clock)' /\ Registries'
  BY <1>1, <1>4, <1>6 DEF Registries
<1>8. told'[n] = told[n] \cup {"started"} /\ \A m \in Run \ {n} : told'[m] = told[m]
  BY <1>1
<1>9. NestedShape'
  BY <1>1, <1>4, <1>8 DEF NestedShape
<1>10. Honest'
  <2>1. n \notin Foreground /\ state[n] \in Ended => Repaired(n)
    BY <1>1 DEF Honest
  <2>2. \A m \in Run : Repaired(m)' <=> Repaired(m)
    BY <1>1, <1>3, <1>4 DEF Repaired
  <2>3. \A m \in Run : "started" \in told[m] => "started" \in told'[m]
    BY <1>8
  <2> QED
    BY <1>1, <1>3, <1>4, <1>8, <2>1, <2>2, <2>3 DEF Honest
<1> QED
  BY <1>7, <1>9, <1>10

\* A foreground run ends.
LEMMA EndForegroundSteps == ASSUME NestedInv, NEW n \in Run, EndForeground(n) PROVE NestedInv'
<1> USE DEF NestedInv
<1>1. /\ UNCHANGED <<clock, alive, status, registry, snap>> /\ state[n] = "running"
      /\ "started" \in told[n] /\ n \in Foreground
      /\ told' = [told EXCEPT ![n] = @ \cup {"ended"}] /\ DOMAIN told = Run /\ DOMAIN state = Run /\ clock \in Nat
  BY DEF EndForeground, NestedShape
<1>2. PICK s \in Ends, x \in Names : state' = [state EXCEPT ![n] = s] /\ sink' = sink \cup {Event(n, s, clock, x)}
  BY DEF EndForeground
<1> DEFINE new == Event(n, s, clock, x)
<1>3. s \in Ended /\ s \in States /\ s # "none"
  BY NestedAssumption DEF States, Ended
<1>4. new \in EventRow /\ new.run = n /\ new.state = s /\ new.at = clock /\ new.ts = clock
  BY <1>1, <1>3 DEF Event, EventRow, Names
<1> HIDE DEF new
<1>5. sink' = sink \cup {new} /\ IsFiniteSet(sink')
  BY <1>2, FS_AddElement DEF NestedShape, new
<1>6. \A f \in sink : f.at \in Nat /\ f.ts \in Nat /\ f.at <= clock
  BY <1>1 DEF Written, EventRow
<1>7. Written(sink \cup {new}, clock) /\ \A reg : Registry(reg, sink, clock) => Registry(reg, sink \cup {new}, clock)
  <2> DEFINE E == {new}
  <2>1. E \subseteq EventRow /\ \A e \in E : e.ts = clock /\ e.at <= clock /\ state[e.run] # "none" /\ e.run = n /\ e.state \in Ended /\ e.at = clock
    BY <1>1, <1>3, <1>4
  <2>2. \A e, f \in E : e.run = f.run => e = f
    OBVIOUS
  <2> HIDE DEF E
  <2>3. Written(sink \cup E, clock) /\ \A reg : Registry(reg, sink, clock) => Registry(reg, sink \cup E, clock)
    BY <1>6, <2>1, <2>2, MoreFiles
  <2> QED
    BY <2>3 DEF E
<1>8. Written(sink, clock)' /\ Registries'
  BY <1>1, <1>5, <1>7 DEF Registries
<1>9. told'[n] = told[n] \cup {"ended"} /\ \A m \in Run \ {n} : told'[m] = told[m]
  BY <1>1
<1>10. state'[n] = s /\ \A m \in Run \ {n} : state'[m] = state[m]
  BY <1>1, <1>2
<1>11. NestedShape'
  BY <1>1, <1>2, <1>3, <1>5, <1>9 DEF NestedShape
<1>12. Honest'
  <2>1. \A m \in Run : Repaired(m) => Repaired(m)'
    BY <1>1, <1>5 DEF Repaired
  <2>2. \A m \in Run : "started" \in told[m] => "started" \in told'[m]
    BY <1>9
  <2> QED
    BY <1>1, <1>3, <1>4, <1>5, <1>9, <1>10, <2>1, <2>2 DEF Honest
<1> QED
  BY <1>8, <1>11, <1>12

\* A runner writes the end of its run.
LEMMA EndBackgroundSteps == ASSUME NestedInv, NEW n \in Run, EndBackground(n) PROVE NestedInv'
<1> USE DEF NestedInv
<1>1. /\ UNCHANGED <<clock, alive, told, sink, registry, snap>> /\ state[n] = "running" /\ n \notin Foreground /\ n \in alive
      /\ "started" \in told[n] \/ Owner[n] \notin alive
      /\ DOMAIN state = Run /\ DOMAIN status = Run /\ clock \in Nat
  BY DEF EndBackground, NestedShape
<1>2. PICK s \in Ends : state' = [state EXCEPT ![n] = s] /\ status' = [status EXCEPT ![n] = [state |-> s, at |-> clock]]
  BY DEF EndBackground
<1>3. s \in Ended /\ s \in States /\ s # "none"
  BY NestedAssumption DEF States, Ended
<1>4. /\ state'[n] = s /\ status'[n] = [state |-> s, at |-> clock]
      /\ \A m \in Run \ {n} : state'[m] = state[m] /\ status'[m] = status[m]
  BY <1>1, <1>2
<1>5. NestedShape'
  BY <1>1, <1>2, <1>3 DEF NestedShape
<1>6. Written(sink, clock)' /\ Registries'
  BY <1>1 DEF Registries
<1>7. \A f \in sink : f.at \in Nat /\ f.ts \in Nat /\ f.at <= clock /\ (f.run = n => f.state \notin Ended)
  BY <1>1 DEF Written, EventRow, Honest, Ended
<1>8. Honest'
  <2>1. \A m \in Run : Repaired(m)' <=> Repaired(m)
    BY <1>1 DEF Repaired
  <2> QED
    BY <1>1, <1>3, <1>4, <1>7, <2>1 DEF Honest
<1> QED
  BY <1>5, <1>6, <1>8

\* A runner tells what it has written.
LEMMA TellStatusSteps == ASSUME NestedInv, NEW n \in Run, TellStatus(n) PROVE NestedInv'
<1> USE DEF NestedInv
<1>1. /\ UNCHANGED <<clock, alive, state, status, registry, snap>> /\ state[n] # "none" /\ n \notin Foreground /\ n \in alive
      /\ DOMAIN told = Run /\ clock \in Nat /\ state[n] \in States /\ status[n].at \in Nat
      /\ status[n].state = state[n] /\ status[n].at <= clock
  BY DEF TellStatus, NestedShape, Honest
<1>2. PICK x \in Names : sink' = sink \cup {Event(n, status[n].state, status[n].at, x)}
  BY DEF TellStatus
<1> DEFINE new == Event(n, status[n].state, status[n].at, x)
<1>3. new \in EventRow /\ new.run = n /\ new.state = state[n] /\ new.at = status[n].at /\ new.ts = clock
  BY <1>1 DEF Event, EventRow, Names
<1> HIDE DEF new
<1>4. sink' = sink \cup {new} /\ IsFiniteSet(sink')
  BY <1>2, FS_AddElement DEF NestedShape, new
<1>5. ~ Repaired(n)
  BY <1>1 DEF Repaired
<1>6. state[n] \in Ended => /\ "started" \in told[n] \/ Owner[n] \notin alive
                            /\ \A f \in sink : f.run = n /\ f.state \notin Ended => f.at <= status[n].at
  BY <1>1, <1>5 DEF Honest
<1>7. state[n] \notin Ended => \A f \in sink : f.run = n => f.state \notin Ended
  BY <1>1 DEF Honest
<1>8. Written(sink \cup {new}, clock) /\ \A reg : Registry(reg, sink, clock) => Registry(reg, sink \cup {new}, clock)
  BY <1>1, <1>3, <1>6, <1>7, MoreFiles
<1>9. Written(sink, clock)' /\ Registries'
  BY <1>1, <1>4, <1>8 DEF Registries
<1>10. \A m \in Run : told[m] \subseteq told'[m]
  BY <1>1 DEF TellStatus
<1>11. NestedShape'
  <2>1. told' \in [Run -> SUBSET {"started", "updated", "ended"}]
    BY <1>1 DEF TellStatus, NestedShape
  <2> QED
    BY <1>1, <1>4, <2>1 DEF NestedShape
<1>12. Honest'
  <2>1. \A m \in Run : Repaired(m) => Repaired(m)'
    BY <1>1, <1>4 DEF Repaired
  <2>2. \A m \in Run : "started" \in told[m] => "started" \in told'[m]
    BY <1>10
  <2> QED
    BY <1>1, <1>3, <1>4, <1>6, <1>7, <2>1, <2>2 DEF Honest
<1> QED
  BY <1>9, <1>11, <1>12

\* A process dies.
LEMMA PerishesSteps == ASSUME NestedInv, NEW p \in Child \cup Run, Perishes(p) PROVE NestedInv'
<1> USE DEF NestedInv
<1>1. /\ UNCHANGED <<clock, state, status, told, sink, registry>> /\ alive' = alive \ {p} /\ (p \in Run => state[p] # "none")
      /\ snap' = IF p \in Reader THEN [snap EXCEPT ![p] = NoSnap] ELSE snap
      /\ DOMAIN snap = Reader
  BY DEF Perishes, NestedShape, selfVars
<1>2. NestedShape'
  BY <1>1 DEF NestedShape
<1>3. ~ NoSnap.on
  BY DEF NoSnap
<1>4. Written(sink, clock)' /\ Registries'
  BY <1>1, <1>3 DEF Registries
<1>5. Honest'
  <2>1. \A m \in Run : Repaired(m) => Repaired(m)'
    BY <1>1 DEF Repaired
  <2> QED
    BY <1>1, <2>1 DEF Honest
<1> QED
  BY <1>2, <1>4, <1>5

\* A fanout child reads the registry, folds the events it lists later and writes it later still.
LEMMA ProjectionSteps == ASSUME NestedInv, NEW p \in Reader, BeginProjection(p) \/ ListAndFold(p) \/ EndProjection(p) PROVE NestedInv'
<1> USE DEF NestedInv
<1>1. /\ UNCHANGED <<clock, alive, state, status, told, sink>> /\ DOMAIN snap = Reader /\ clock \in Nat /\ IsFiniteSet(sink)
      /\ DOMAIN snap' = Reader
  BY DEF BeginProjection, ListAndFold, EndProjection, selfVars, NestedShape
<1>2. NestedShape' /\ Honest' /\ Written(sink, clock)'
  BY <1>1 DEF NestedShape, Honest, Repaired
<1>3. Registries'
  <2>1. CASE BeginProjection(p)
    <3> DEFINE read == [on |-> TRUE, folded |-> FALSE, copies |-> registry.copies, processed |-> registry.processed]
    <3>1. read.copies = registry.copies /\ read.processed = registry.processed
      OBVIOUS
    <3>2. snap' = [snap EXCEPT ![p] = read] /\ registry' = registry
      BY <2>1 DEF BeginProjection
    <3> HIDE DEF read
    <3>3. Registry(read, sink, clock)
      BY <3>1 DEF Registries, Registry
    <3> QED
      BY <1>1, <3>2, <3>3 DEF Registries
  <2>2. CASE ListAndFold(p)
    <3> DEFINE reg == Project(snap[p])
               folded == [on |-> TRUE, folded |-> TRUE, copies |-> reg.copies, processed |-> reg.processed]
               next == IF sink \subseteq Range(snap[p].processed) THEN NoSnap ELSE folded
    <3>1. snap' = [snap EXCEPT ![p] = next] /\ snap[p].on /\ registry' = registry
      BY <2>2 DEF ListAndFold
    <3>2. Registry(snap[p], sink, clock)
      BY <3>1 DEF Registries
    <3>3. Registry(reg, sink, clock)
      BY <1>1, <3>2, ProjectKeeps
    <3>4. folded.copies = reg.copies /\ folded.processed = reg.processed /\ ~ NoSnap.on
      BY DEF NoSnap
    <3> HIDE DEF reg, folded
    <3>5. Registry(folded, sink, clock)
      BY <3>3, <3>4 DEF Registry
    <3>6. next.on => Registry(next, sink, clock)
      BY <3>4, <3>5
    <3> HIDE DEF next
    <3> QED
      BY <1>1, <3>1, <3>6 DEF Registries
  <2>3. CASE EndProjection(p)
    <3> DEFINE kept == [copies |-> snap[p].copies, processed |-> snap[p].processed]
    <3>1. ~ NoSnap.on
      BY DEF NoSnap
    <3>2. snap' = [snap EXCEPT ![p] = NoSnap] /\ snap[p].on /\ registry' \in {registry, kept}
      BY <2>3 DEF EndProjection
    <3>3. Registry(snap[p], sink, clock)
      BY <3>2 DEF Registries
    <3>4. kept.copies = snap[p].copies /\ kept.processed = snap[p].processed
      OBVIOUS
    <3> HIDE DEF kept
    <3>5. Registry(kept, sink, clock)
      BY <3>3, <3>4 DEF Registry
    <3>6. Registry(registry', sink, clock)
      BY <3>2, <3>5 DEF Registries
    <3> QED
      BY <1>1, <3>1, <3>2, <3>6 DEF Registries
  <2> QED
    BY <2>1, <2>2, <2>3
<1> QED
  BY <1>2, <1>3


\* The host folds, and repairs the runs it then shows running that have ended or lost their runner.
LEMMA PollSteps == ASSUME NestedInv, Poll PROVE NestedInv'
<1> USE DEF NestedInv
<1> DEFINE K == Project(registry).copies
           sick == Repairs(K)
           fixed == [n \in Run |-> IF n \in sick /\ status[n].state = "running" THEN [state |-> "failed", at |-> clock] ELSE status[n]]
<1>1. /\ UNCHANGED <<clock, alive, told, snap>> /\ clock \in Nat /\ IsFiniteSet(sink)
      /\ Write(registry) /\ status' = fixed
      /\ state' = [n \in Run |-> IF fixed[n] # status[n] THEN "failed" ELSE state[n]]
  BY DEF Poll, NestedShape
<1>2. PICK x \in Names : sink' = sink \cup {Event(n, fixed[n].state, fixed[n].at, x) : n \in sick}
  BY DEF Poll
<1> DEFINE E == {Event(n, fixed[n].state, fixed[n].at, x) : n \in sick}
<1>3. Registry(Project(registry), sink, clock) /\ Folding(K, sink, sink, clock)
  BY <1>1, ProjectKeeps DEF Registries
<1>4. sick \subseteq Run \ Foreground
  BY DEF Repairs
<1>5. ASSUME NEW n \in sick, Plain(n), NEW e \in sink, e.run = n PROVE e.state \notin Ended
  <2>1. PICK c \in K : c.run = n /\ c.state = "running"
    BY DEF Repairs
  <2>2. c.state \notin Ended
    BY <2>1 DEF Ended
  <2> QED
    BY <1>3, <1>5, <2>1, <2>2 DEF Folding, Shows
<1>6. ASSUME NEW n \in sick
      PROVE  /\ n \in Run /\ state[n] # "none" /\ status[n].state = state[n] /\ status[n].at \in Nat /\ status[n].at <= clock
             /\ state[n] = "running" => n \notin alive
             /\ state[n] # "running" => state[n] \in Ended
  <2>1. n \in Run /\ n \notin Foreground /\ (status[n].state \in Ended \/ n \notin alive)
    BY DEF Repairs
  <2>2. status[n].state = state[n] /\ status[n].at \in Nat /\ status[n].at <= clock /\ (n \notin alive => state[n] # "none")
    BY <2>1 DEF Honest, NestedShape
  <2>3. state[n] \in {"none"} \cup States
    BY <2>1 DEF NestedShape
  <2> QED
    BY <2>1, <2>2, <2>3 DEF States, Ended
<1> HIDE DEF K, sick
<1>7. ASSUME NEW n \in Run
      PROVE  /\ n \in sick /\ state[n] = "running" => fixed[n] = [state |-> "failed", at |-> clock] /\ state'[n] = "failed"
             /\ ~ (n \in sick /\ state[n] = "running") => fixed[n] = status[n] /\ state'[n] = state[n]
  <2>1. n \in sick => status[n].state = state[n]
    BY <1>6
  <2>2. n \in sick /\ state[n] = "running" => fixed[n] = [state |-> "failed", at |-> clock]
    BY <2>1
  <2>3. ~ (n \in sick /\ state[n] = "running") => fixed[n] = status[n]
    BY <2>1
  <2>4. state'[n] = IF fixed[n] # status[n] THEN "failed" ELSE state[n]
    BY <1>1
  <2> HIDE DEF fixed
  <2>5. n \in sick /\ state[n] = "running" => fixed[n] # status[n]
    BY <2>1, <2>2
  <2> QED
    BY <2>2, <2>3, <2>4, <2>5
<1>8. "failed" \in Ended /\ "failed" \in States /\ "running" \notin Ended /\ Ended \subseteq States
  BY DEF Ended, States
<1> HIDE DEF fixed
<1>9. ASSUME NEW n \in sick
      PROVE  /\ fixed[n].state \in Ended /\ fixed[n].state = state'[n] /\ fixed[n].at \in Nat /\ fixed[n].at <= clock
             /\ state[n] = "running" => fixed[n].at = clock
             /\ state[n] # "running" => fixed[n] = status[n]
  BY <1>1, <1>6, <1>7, <1>8
<1>10. ASSUME NEW n \in sick
       PROVE  LET e == Event(n, fixed[n].state, fixed[n].at, x)
              IN e \in EventRow /\ e.run = n /\ e.state = fixed[n].state /\ e.at = fixed[n].at /\ e.ts = clock
  BY <1>1, <1>6, <1>8, <1>9 DEF Event, EventRow, Names
<1>11. \A e \in E : /\ e \in EventRow /\ e.run \in sick /\ e.state \in Ended /\ e.state = fixed[e.run].state
                    /\ e.at = fixed[e.run].at /\ e.ts = clock
  BY <1>9, <1>10
<1>12. \A e, f \in E : e.run = f.run => e = f
  BY <1>10
<1>13. \A n \in sick : \E e \in E : e.run = n
  BY <1>10
<1>14. IsFiniteSet(sick) /\ IsFiniteSet(E)
  <2>1. IsFiniteSet(sick)
    BY <1>4, NestedAssumption, FS_Subset
  <2>2. E = {Event(n, fixed[n].state, fixed[n].at, x) : n \in sick}
    OBVIOUS
  <2> DEFINE tell == [n \in sick |-> Event(n, fixed[n].state, fixed[n].at, x)]
  <2>3. tell \in Surjection(sick, E)
    BY <2>2 DEF Surjection
  <2> HIDE DEF E, tell
  <2>4. IsFiniteSet(E)
    BY <2>1, <2>3, FS_Surjection
  <2> QED
    BY <2>1, <2>4
<1>15. sink' = sink \cup E
  BY <1>2
<1> HIDE DEF E
<1>16. ASSUME NEW e \in E, NEW f \in sink, Plain(e.run), f.run = e.run, f.state \notin Ended PROVE f.at <= e.at
  <2> DEFINE n == e.run
  <2>1. n \in sick /\ n \in Run /\ n \notin Foreground /\ e.at = fixed[n].at
    BY <1>4, <1>11
  <2>2. CASE state[n] = "running"
    <3>1. f.at \in Nat /\ f.ts \in Nat /\ f.at <= clock
      BY <1>1 DEF Written, EventRow
    <3> QED
      BY <1>9, <2>1, <2>2, <3>1
  <2>3. CASE state[n] # "running"
    <3>1. state[n] \in Ended /\ fixed[n] = status[n]
      BY <1>6, <1>9, <2>1, <2>3
    <3>2. ~ Repaired(n)
      BY <1>5, <1>16, <2>1 DEF Repaired
    <3>3. f.at <= status[n].at
      BY <1>16, <2>1, <3>1, <3>2 DEF Honest
    <3> QED
      BY <2>1, <3>1, <3>3
  <2> QED
    BY <2>2, <2>3
<1>17. \A e \in E : e.ts = clock /\ e.at <= clock /\ state[e.run] # "none" /\ e.run \notin Foreground
  BY <1>4, <1>6, <1>9, <1>11
<1>18. Written(sink \cup E, clock) /\ \A reg : Registry(reg, sink, clock) => Registry(reg, sink \cup E, clock)
  BY <1>11, <1>12, <1>16, <1>17, MoreFiles
<1>19. Registry(registry', sink, clock)
  BY <1>1, <1>3 DEF Write, Registries
<1>20. Written(sink, clock)' /\ Registries'
  BY <1>1, <1>15, <1>18, <1>19 DEF Registries
<1>21. NestedShape'
  <2>1. IsFiniteSet(sink')
    BY <1>1, <1>14, <1>15, FS_Union
  <2>2. status' \in [Run -> [state : {"none"} \cup States, at : Nat]]
    <3>1. DOMAIN status' = Run /\ status' = [n \in Run |-> fixed[n]]
      BY <1>1 DEF fixed
    <3>2. \A n \in Run : fixed[n] \in [state : {"none"} \cup States, at : Nat]
      BY <1>1, <1>7, <1>8 DEF NestedShape
    <3> QED
      BY <3>1, <3>2
  <2>3. state' \in [Run -> {"none"} \cup States]
    BY <1>1, <1>8 DEF NestedShape
  <2> QED
    BY <1>1, <2>1, <2>2, <2>3 DEF NestedShape
<1>22. Honest'
  <2> SUFFICES ASSUME NEW n \in Run
               PROVE  /\ n \notin alive => state'[n] # "none"
                      /\ fixed[n].at <= clock /\ (n \notin Foreground => fixed[n].state = state'[n])
                      /\ state'[n] # "none" /\ Parent[n] # Root => \E e \in sink' : e.run = Parent[n] /\ e.ts < clock
                      /\ n \in Foreground /\ state'[n] \in Ended => "started" \in told[n]
                      /\ n \notin Foreground /\ state'[n] \in Ended =>
                           /\ "started" \in told[n] \/ Owner[n] \notin alive \/ Repaired(n)'
                           /\ Repaired(n)' \/ \A f \in sink' : f.run = n /\ f.state \notin Ended => f.at <= fixed[n].at
                      /\ \A e \in sink' : e.run = n /\ e.state \in Ended =>
                           /\ state'[n] \in Ended
                           /\ Plain(n) => e.at = e.ts \/ "started" \in told[n] \/ Owner[n] \notin alive
    BY <1>1 DEF Honest
  <2>1. Repaired(n) => Repaired(n)'
    BY <1>1, <1>15 DEF Repaired
  <2>2. \A f \in sink' : f.run = n /\ f.state \notin Ended => f \in sink
    BY <1>11, <1>15
  <2>3. CASE n \in sick /\ state[n] = "running"
    <3>1. fixed[n].at = clock /\ fixed[n].state = state'[n] /\ state'[n] = "failed" /\ n \notin Foreground /\ n \notin alive
      BY <1>4, <1>6, <1>7, <1>9, <2>3
    <3>2. Repaired(n)'
      BY <1>1, <1>11, <1>13, <1>15, <2>3, <3>1 DEF Repaired
    <3>3. \A e \in E : e.run = n => e.at = e.ts
      BY <1>11, <3>1
    <3>4. \A e \in sink : e.run = n => e.state \notin Ended
      BY <1>8, <2>3 DEF Honest
    <3>5. Parent[n] # Root => \E e \in sink' : e.run = Parent[n] /\ e.ts < clock
      BY <1>15, <2>3 DEF Honest
    <3> QED
      BY <1>1, <1>8, <1>15, <3>1, <3>2, <3>3, <3>4, <3>5
  <2>4. CASE ~ (n \in sick /\ state[n] = "running")
    <3>1. fixed[n] = status[n] /\ state'[n] = state[n]
      BY <1>7, <2>4
    <3>2. ASSUME NEW e \in E, e.run = n, Plain(n) PROVE "started" \in told[n] \/ Owner[n] \notin alive
      <4>1. n \in sick /\ state[n] \in Ended /\ n \notin Foreground
        BY <1>4, <1>6, <1>11, <2>4, <3>2
      <4>2. ~ Repaired(n)
        BY <1>5, <3>2, <4>1 DEF Repaired
      <4> QED
        BY <4>1, <4>2 DEF Honest
    <3>3. \A e \in E : e.run = n => state[n] \in Ended
      BY <1>6, <1>11, <2>4
    <3> QED
      BY <1>15, <2>1, <2>2, <3>1, <3>2, <3>3 DEF Honest
  <2> QED
    BY <2>3, <2>4
<1> QED
  BY <1>20, <1>21, <1>22

\* Every step keeps the invariant.
LEMMA NestedSteps == NestedInv /\ [NestedNext]_nestedVars => NestedInv'
<1> SUFFICES ASSUME NestedInv, [NestedNext]_nestedVars PROVE NestedInv'
  OBVIOUS
<1>1. CASE UNCHANGED nestedVars
  BY <1>1 DEF nestedVars, selfVars, NestedInv, NestedShape, Registries, Honest, Repaired
<1>2. CASE NestedNext
  BY <1>2, TickSteps, LaunchSteps, TellStartSteps, EndForegroundSteps, EndBackgroundSteps, TellStatusSteps,
     PerishesSteps, ProjectionSteps, PollSteps DEF NestedNext
<1> QED
  BY <1>1, <1>2

\* For any tree of runs, whoever folds, writes and dies when: the registry shows each run once, and a run ended once its end is folded.
THEOREM NestedRunsAreShown == NestedSpec => []Shown
<1>1. NestedInv => Shown
  <2> SUFFICES ASSUME NestedInv PROVE Shown
    OBVIOUS
  <2>1. Registry(registry, sink, clock) /\ Written(sink, clock) /\ clock \in 1..MaxClock /\ clock <= MaxClock
    BY NestedAssumption DEF NestedInv, Registries, NestedShape
  <2>2. Single(registry.copies) /\ Shows(registry.copies, Range(registry.processed)) /\ Len(registry.processed) <= KeepNames
    BY <2>1 DEF Registry, Folding
  <2>3. NestedType
    <3>1. \A n \in Run : status[n].state \in {"none"} \cup States /\ status[n].at \in 0..MaxClock
      BY <2>1, NestedAssumption DEF NestedInv, NestedShape, Honest
    <3>2. \A e \in sink : e.run \in Run /\ e.state \in States /\ e.at <= e.ts
      BY <2>1 DEF Written, EventRow
    <3>3. \A c \in registry.copies : c.place \in Run \cup {Root} /\ c.run \in Run
      BY <2>2 DEF Single, CopyRow
    <3> QED
      BY <2>1, <2>2, <3>1, <3>2, <3>3 DEF NestedType, NestedInv, NestedShape
  <2>4. OneCopy
    <3> SUFFICES ASSUME NEW n \in Run PROVE Cardinality(Copies(n)) <= 1
      BY DEF OneCopy
    <3>1. \A c, d \in Copies(n) : c = d
      BY <2>2 DEF Copies, Single
    <3>2. CASE Copies(n) = {}
      BY <3>2, FS_EmptySet
    <3>3. CASE Copies(n) # {}
      <4>1. PICK c \in Copies(n) : TRUE
        BY <3>3
      <4>2. Copies(n) = {c}
        BY <3>1, <4>1
      <4>3. Cardinality({c}) = 1
        BY FS_Singleton
      <4> QED
        BY <4>2, <4>3
    <3> QED
      BY <3>2, <3>3
  <2>5. OwnEndShown
    BY <2>2 DEF OwnEndShown, ShowsEnd, Copies, Shows, Plain
  <2> QED
    BY <2>3, <2>4, <2>5 DEF Shown
<1> QED
  BY <1>1, NestedStarts, NestedSteps, PTL DEF NestedSpec

===============================================================================
