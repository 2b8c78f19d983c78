------------------------------ MODULE MCAttempt -------------------------------
(***************************************************************************)
(* Instances of Attempt for TLC: three names, two of them of one model.    *)
(***************************************************************************)
EXTENDS Attempt
CONSTANTS big, alias, small
MCWanted  == <<big, alias, small>>
MCQualify == [m \in {big, alias, small} |-> IF m = alias THEN big ELSE m]
Auto == [given |-> FALSE, level |-> "auto", reason |-> FALSE, evidence |-> {},
         criteria |-> {"c"}, verify |-> <<>>, review |-> "unset"]
Ask_(l, v) == [Auto EXCEPT !.given = TRUE, !.level = l, !.verify = v]
MCExplicits == {Auto, [Ask_("none", <<>>) EXCEPT !.reason = TRUE], Ask_("none", <<>>),
                Ask_("checked", <<FALSE>>), Ask_("verified", <<TRUE, FALSE>>),
                Ask_("verified", <<>>), Ask_("reviewed", <<FALSE>>)}
MCReports ==
  {[readable |-> FALSE, satisfied |-> {}, evidence |-> {}, staged |-> FALSE]}
    \cup [readable : {TRUE}, satisfied : {{}, {"c"}}, evidence : {Evidence}, staged : BOOLEAN]
=============================================================================
