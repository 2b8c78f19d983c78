------------------------------ MODULE Acceptance ------------------------------
(***************************************************************************)
(* The acceptance gate of a child run (runs/shared/acceptance.ts): the     *)
(* level in force, the checks of the child's report, and the status the    *)
(* ledger ends with.  Criteria and kinds of evidence are sets of names; of *)
(* a report only what the checks read of it is kept.                       *)
(***************************************************************************)
EXTENDS Naturals, Sequences, SequencesExt

Level == <<"none", "attested", "checked", "verified", "reviewed">>
Rank(l) == CHOOSE r \in 1 .. 5 : Level[r] = l

Evidence == {"notes", "files", "tests", "output", "risks", "unstaged"}

\* The evidence each level asks for by itself.
RequiredEvidence(l) ==
  CASE l = "none"     -> {}
    [] l = "attested" -> {"notes", "risks"}
    [] l = "checked"  -> {"files", "tests", "risks", "unstaged"}
    [] OTHER          -> {"files", "tests", "output", "risks", "unstaged"}

\* What was asked for explicitly may raise the level inferred from the agent and
\* the task; only "none" with a reason lowers it.
EffectiveLevel(explicit, inferred) ==
  IF explicit.level = "none" /\ explicit.reason THEN "none"
  ELSE IF explicit.level = "auto" \/ Rank(explicit.level) < Rank(inferred) THEN inferred
  ELSE explicit.level

\* The review is required when it was asked for, or inferred and not merely
\* implied by a level that was raised to it.
EffectiveReview(explicit, inferred) ==
  IF explicit.review # "unset" THEN explicit.review
  ELSE IF inferred # "reviewed" THEN "unset"
  ELSE IF explicit.level \in {"auto", "reviewed"} THEN "required" ELSE "optional"

Effective(explicit, inferred) ==
  LET level == EffectiveLevel(explicit, inferred)
  IN [level    |-> level,
      inferred |-> inferred,
      disabled |-> explicit.level = "none" /\ explicit.reason,
      explicit |-> explicit.given,
      evidence |-> RequiredEvidence(level) \cup explicit.evidence,
      criteria |-> explicit.criteria,
      verify   |-> explicit.verify,
      review   |-> EffectiveReview(explicit, inferred)]

\* Every required criterion satisfied, every kind of evidence present, and
\* nothing staged where that is asked for.
Checked(acc, report) ==
  /\ acc.criteria \subseteq report.satisfied
  /\ acc.evidence \subseteq report.evidence
  /\ "unstaged" \in acc.evidence => ~report.staged

\* Verification commands are run from the level "verified" on, one by one.
Verifies(acc) ==
  /\ Rank(acc.level) >= Rank("verified")
  /\ acc.level = "verified" \/ acc.verify # <<>>

\* The status before any command is run.
ReportStatus(acc, report) ==
  IF acc.level = "none" THEN "not-required"
  ELSE IF ~report.readable THEN "rejected"
  ELSE IF Rank(acc.level) < Rank("checked") THEN "attested"
  ELSE IF ~Checked(acc, report) \/ (acc.level = "verified" /\ acc.verify = <<>>)
       THEN "rejected"
  ELSE "checked"

\* A run made by itself has no reviewer: what was asked for explicitly is
\* rejected, what was inferred stays as far as it got.
ReviewStatus(acc, status) ==
  IF acc.level = "reviewed"
     /\ (acc.review = "off" \/ (acc.explicit /\ acc.review # "optional"))
  THEN "rejected" ELSE status

VerifyStatus(runs) ==
  IF Range(runs) \cap {"failed", "timed-out"} # {} THEN "rejected" ELSE "verified"
=============================================================================
