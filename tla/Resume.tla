--------------------------------- MODULE Resume ---------------------------------
(***************************************************************************)
(* Which run a call means, and whether it can be resumed. A call names a    *)
(* run by its id or by how that begins; runs are looked for among the       *)
(* foreground runs at work, those remembered, the background runs whose     *)
(* directory or result is there, and the nested runs of known registries.   *)
(* Meanwhile runs go on, end, and lose their files. A call of status says   *)
(* how the run can be resumed; a call of resume may come any time after.    *)
(***************************************************************************)
EXTENDS Integers, Sequences, SequencesExt, FiniteSets, TLC

CONSTANTS
  ResumePlan,  \* the runs there are, by id: their kind, how many children they have and whether
               \* the children were given forked session files
  NoIndex      \* a call that names no child

ASSUME ResumeAssumption ==
  /\ NoIndex \notin Nat
  /\ \A p \in ResumePlan :
       /\ IsFiniteSet(DOMAIN p)
       /\ \A r \in DOMAIN p :
            /\ p[r].kind \in {"foreground", "async", "nested"} /\ p[r].children \in Nat \ {0} /\ p[r].forked \in BOOLEAN
            /\ Len(r) \in Nat \ {0}
       /\ \A r, s \in DOMAIN p : r # s => ~ IsPrefix(r, s)   \* ids are random

VARIABLES
  resumePlan,  \* the runs of this behaviour
  runs,        \* runs[r]: is it over, where it is found, of each child how far it is, whether a
               \* session file is recorded for it and whether that file exists; and, of a background
               \* run that is over, the children its result lists and whether a session file is
               \* recorded for the run as a whole
  reply,       \* the last call of resume and its answer
  advice       \* what the last call of status said

resumeVars == <<resumePlan, runs, reply, advice>>

Children(r) == DOMAIN runs[r].steps
Waiting(r) == [at |-> "pending", recorded |-> resumePlan[r].forked, there |-> resumePlan[r].forked]
NoReply == [asked |-> <<>>, index |-> NoIndex, how |-> "none", run |-> <<>>, child |-> 0]
NoAdvice == [run |-> <<>>, index |-> NoIndex, child |-> 0, by |-> "none"]

ResumeInit ==
  /\ resumePlan \in ResumePlan
  /\ runs = [r \in DOMAIN resumePlan |->
       [over |-> FALSE, known |-> {IF resumePlan[r].kind = "async" THEN "dir" ELSE "memory"},
        listed |-> <<>>, session |-> FALSE, steps |-> [i \in 1..resumePlan[r].children |-> Waiting(r)]]]
  /\ reply = NoReply /\ advice = NoAdvice

Of(kind) == {r \in DOMAIN runs : resumePlan[r].kind = kind /\ runs[r].known # {}}
Active == {r \in Of("foreground") : ~ runs[r].over}
Remembered == {r \in Of("foreground") : runs[r].over}
Fitting(S, text) == {r \in S : IsPrefix(text, r)}

\* resolveSubagentRunId, for a call and the runs at work or on disk: one run, none, or too many.
Suiting(text) == Fitting(Active \cup Of("async") \cup Of("nested"), text)

Refused(run) == [how |-> "refused", run |-> run, child |-> 0]
NotFound == Refused(<<>>)
Ambiguous == [how |-> "ambiguous", run |-> <<>>, child |-> 0]
Able(a) == a.how \in {"live", "revive"}

\* The children a reader finds, in the order of their indices: those of the status in
\* the run's directory or, once that is gone, those of the result, which leaves out
\* children that never ran and may end with an entry (0) that is about a group.
ChildrenFound(r) ==
  IF resumePlan[r].kind = "async" /\ "dir" \notin runs[r].known THEN runs[r].listed ELSE [i \in Children(r) |-> i]

\* The child has a recorded session file that exists; what is recorded for the run as a
\* whole counts if one child is found.
HasSession(r, i) ==
  /\ i \in Children(r) /\ runs[r].steps[i].there
  /\ runs[r].steps[i].recorded \/ (Len(ChildrenFound(r)) = 1 /\ runs[r].session)

Revived(r, i) == IF HasSession(r, i) THEN [how |-> "revive", run |-> r, child |-> i] ELSE Refused(r)

\* What a finder does with the runs that fit, given its answer for each of them.
Among(answers) ==
  IF DOMAIN answers = {} THEN NotFound
  ELSE IF Cardinality(DOMAIN answers) > 1 THEN Ambiguous ELSE answers[CHOOSE r \in DOMAIN answers : TRUE]

\* The child a call means once its run is not at work: the one it names, or the only one.
Meant(r, index) ==
  IF index = NoIndex THEN IF Len(ChildrenFound(r)) = 1 THEN {ChildrenFound(r)[1]} ELSE {}
  ELSE {ChildrenFound(r)[i] : i \in {index} \cap DOMAIN ChildrenFound(r)}

\* resolveForegroundResumeTarget.
ForegroundChild(r, index) ==
  IF \E i \in Meant(r, index) : runs[r].steps[i].at # "detached"
  THEN Revived(r, CHOOSE i \in Meant(r, index) : TRUE) ELSE Refused(r)
ForegroundAnswer(text, index) == Among([r \in Fitting(Remembered, text) |-> ForegroundChild(r, index)])

Running(r) == {i \in Children(r) : runs[r].steps[i].at = "running"}
Live(r, S) == [how |-> "live", run |-> r, child |-> CHOOSE i \in S : TRUE]

\* Mutant: a child that waits is taken for one that has ended.
AsyncChildAnyStep(r, index) ==
  IF ~ runs[r].over /\ index = NoIndex
  THEN IF Cardinality(Running(r)) = 1 THEN Live(r, Running(r)) ELSE Refused(r)
  ELSE IF Meant(r, index) = {} THEN Refused(r)
  ELSE IF ~ runs[r].over /\ index \in Running(r) THEN Live(r, {index})
  ELSE Revived(r, CHOOSE i \in Meant(r, index) : TRUE)

\* resolveAsyncResumeTarget: of a run at work the child that is named or the only one
\* that runs is told; one that waits can be neither told nor revived.
AsyncChild(r, index) ==
  IF ~ runs[r].over /\ index = NoIndex
  THEN IF Cardinality(Running(r)) = 1 THEN Live(r, Running(r)) ELSE Refused(r)
  ELSE IF Meant(r, index) = {} THEN Refused(r)
  ELSE IF ~ runs[r].over /\ index \in Running(r) THEN Live(r, {index})
  ELSE IF ~ runs[r].over /\ runs[r].steps[index].at = "pending" THEN Refused(r)
  ELSE Revived(r, CHOOSE i \in Meant(r, index) : TRUE)
AsyncAnswer(text, index) == Among([r \in Fitting(Of("async"), text) |-> AsyncChild(r, index)])

\* An error of a finder counts if it is about the complete id, or says that several
\* runs fit.
Objects(e, other, text) == (e.how = "refused" /\ e.run = text) \/ (e.how = "ambiguous" /\ other.run # text)

\* resolveResumeTarget: both finders are asked, and the complete id decides.
Either(text, f, a) ==
  IF Able(f) /\ Able(a) THEN IF f.run = text THEN f ELSE IF a.run = text THEN a ELSE Ambiguous
  ELSE IF Able(f) THEN IF Objects(a, f, text) THEN a ELSE f
  ELSE IF Able(a) THEN IF Objects(f, a, text) THEN f ELSE a
  ELSE IF f # NotFound THEN f ELSE a

\* resolveNestedResumeTarget, and resumeLiveNestedRun for one that is at work.
NestedAnswer(r) == IF runs[r].over THEN Revived(r, 1) ELSE [how |-> "live", run |-> r, child |-> 1]

ResumeAnswer(text, index) ==
  IF Cardinality(Suiting(text)) > 1 THEN Ambiguous
  ELSE IF Suiting(text) \cap Of("nested") # {} THEN NestedAnswer(CHOOSE r \in Suiting(text) : TRUE)
  ELSE Either(text, ForegroundAnswer(text, index), AsyncAnswer(text, index))

\* formatResumeGuidance, for a background run that is over: its only child, or the
\* first one whose session file is there.
Revivable(r) == {i \in DOMAIN ChildrenFound(r) : HasSession(r, ChildrenFound(r)[i])}
Advice(r) == LET first == CHOOSE i \in Revivable(r) : \A j \in Revivable(r) : i <= j IN
  [run |-> r, index |-> IF Len(ChildrenFound(r)) = 1 THEN NoIndex ELSE first, child |-> ChildrenFound(r)[first],
   by |-> IF "dir" \in runs[r].known THEN "dir" ELSE "result"]
Guidance(text) ==
  {Advice(r) : r \in {s \in Suiting(text) \cap Of("async") : Cardinality(Suiting(text)) = 1 /\ runs[s].over /\ Revivable(s) # {}}}

(***************************************************************************)
(* The calls.                                                              *)
(***************************************************************************)

Texts == UNION {{SubSeq(r, 1, n) : n \in 1..Len(r)} : r \in DOMAIN runs}

AsksStatus(text) ==
  /\ advice' = IF Guidance(text) = {} THEN NoAdvice ELSE CHOOSE g \in Guidance(text) : TRUE
  /\ reply' = NoReply
  /\ UNCHANGED <<resumePlan, runs>>

AsksResume(text, index) ==
  /\ LET a == ResumeAnswer(text, index)
     IN reply' = [asked |-> text, index |-> index, how |-> a.how, run |-> a.run, child |-> a.child]
  /\ UNCHANGED <<resumePlan, runs, advice>>

(***************************************************************************)
(* What happens to runs and files meanwhile (external).                    *)
(***************************************************************************)

Happens(r, run) == runs' = [runs EXCEPT ![r] = run] /\ reply' = NoReply /\ UNCHANGED <<resumePlan, advice>>
StepIs(r, i, step) == Happens(r, [runs[r] EXCEPT !.steps[i] = step])

ChildBegins(r, i) ==
  /\ ~ runs[r].over /\ runs[r].steps[i].at = "pending"
  /\ StepIs(r, i, [runs[r].steps[i] EXCEPT !.at = "running"])

\* A child that ends may have written a session file.
ChildIsOver(r, i) == LET step == runs[r].steps[i] IN
  /\ step.at = "running"
  /\ \E file \in {step.there, TRUE} : StepIs(r, i, [step EXCEPT !.at = "ended", !.there = file])

\* A child of a foreground run leaves it for a talk with its supervisor.
ChildDetaches(r, i) ==
  /\ resumePlan[r].kind = "foreground" /\ runs[r].steps[i].at = "running"
  /\ StepIs(r, i, [runs[r].steps[i] EXCEPT !.at = "detached"])

\* The children a result may list: in order, all that began and maybe others, then maybe
\* an entry about a group that failed as a whole.
ThatBegan(r) == {i \in Children(r) : runs[r].steps[i].at # "pending"}
Listings(r) == LET n == Len(runs[r].steps) IN
  {q \in UNION {[1..k -> 0..n] : k \in 0..(n + 1)} :
     /\ \A i, j \in DOMAIN q : i < j => q[i] # 0 /\ (q[j] = 0 \/ q[i] < q[j])
     /\ \A i \in ThatBegan(r) : \E j \in DOMAIN q : q[j] = i}

\* A run ends, maybe before all of its children have begun. A background run leaves a
\* result, and may record the session file of a child that began; of each child of
\* another run the session file that is there is recorded.
RunIsOver(r) == LET Ends(step) == [step EXCEPT !.recorded = @ \/ step.there] IN
  /\ ~ runs[r].over /\ Running(r) = {}
  /\ IF resumePlan[r].kind = "async"
     THEN \E q \in Listings(r), session \in {FALSE} \cup {runs[r].steps[i].there : i \in ThatBegan(r)} :
            Happens(r, [runs[r] EXCEPT !.over = TRUE, !.known = @ \cup {"result"}, !.listed = q, !.session = session])
     ELSE Happens(r, [runs[r] EXCEPT !.over = TRUE, !.steps = [i \in Children(r) |-> Ends(runs[r].steps[i])]])

\* A result is delivered, a directory cleared, a run forgotten; a session file is removed.
TraceGoes(r, trace) ==
  /\ runs[r].over /\ trace \in runs[r].known
  /\ Happens(r, [runs[r] EXCEPT !.known = @ \ {trace}])

SessionGoes(r, i) == runs[r].steps[i].there /\ StepIs(r, i, [runs[r].steps[i] EXCEPT !.there = FALSE])

ResumeNext ==
  \/ \E text \in Texts : AsksStatus(text)
  \/ \E text \in Texts, index \in {NoIndex} \cup 1..2 : AsksResume(text, index)
  \/ \E r \in DOMAIN runs :
       \/ RunIsOver(r)
       \/ \E trace \in {"dir", "result", "memory"} : TraceGoes(r, trace)
       \/ \E i \in Children(r) : ChildBegins(r, i) \/ ChildIsOver(r, i) \/ ChildDetaches(r, i) \/ SessionGoes(r, i)

(***************************************************************************)
(* Properties                                                              *)
(***************************************************************************)

\* A call that fits several runs resumes none of them: of those at work, on disk or
\* nested in no case, of those remembered or on disk if another of them could be
\* resumed as well.
OneRunMeant ==
  Able(reply) =>
    /\ IsPrefix(reply.asked, reply.run)
    /\ Cardinality(Suiting(reply.asked)) <= 1
    /\ reply.run \notin Of("nested") =>
         \A s \in Fitting(Remembered \cup Of("async"), reply.asked) \ {reply.run} : ~ Able(ResumeAnswer(s, reply.index))

\* A follow-up goes to a child only while that child runs, or starts a new one on the
\* session of a child that no longer runs and, as long as its run goes on, has ended.
LiveOrOver ==
  Able(reply) => LET at == runs[reply.run].steps[reply.child].at IN
    IF resumePlan[reply.run].kind = "nested" THEN (reply.how = "live") = ~ runs[reply.run].over
    ELSE IF reply.how = "live" THEN at = "running" ELSE at \notin {"running", "detached"} /\ (runs[reply.run].over \/ at = "ended")

\* What status advised goes on to work: the child is revived whatever happens to other
\* runs, as long as its session file is there and so is what the advice was read from,
\* the run's directory or the result that was left of it.
AdviceWorks ==
  advice # NoAdvice /\ advice.by \in runs[advice.run].known /\ runs[advice.run].steps[advice.child].there =>
    ResumeAnswer(advice.run, advice.index) = [how |-> "revive", run |-> advice.run, child |-> advice.child]

\* Calls reach the run and the child they mean: OneRunMeant, LiveOrOver and AdviceWorks.
ResumesRight == OneRunMeant /\ LiveOrOver /\ AdviceWorks
=============================================================================
