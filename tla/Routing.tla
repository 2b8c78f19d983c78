------------------------------- MODULE Routing --------------------------------
(***************************************************************************)
(* Routing by the rules of .squad/routing.md: rows in source order, sorted  *)
(* by priority, tried in turn against a signal, in the local team and then  *)
(* in the root team. A RegExp with the flag g or y keeps in lastIndex where *)
(* its last match ended, and searches the next text from there.             *)
(***************************************************************************)
EXTENDS Integers, Sequences, FiniteSets, TLC

CONSTANTS
  Table,      \* the pairs of tables that may be loaded: [local, parent], rows in source order
  Signal,     \* the texts that may be routed, with the labels, paths and keys beside them
  Routes,     \* how many are routed
  NoAnswer

\* A row: found (found[text][p]: where the occurrence that starts at p ends), flag ("none",
\* "g" or "y"; a pattern that is a plain string has none), agent, priority, labels, files
\* (a set of sets of paths, one for each file pattern), custom (a set of keys, empty for
\* none). A table: rules, members (a set of agents).
Team == {"local", "parent"}

\* A priority is what parseInt answers.
ASSUME RoutingAssumption ==
  \A t \in Table : \A team \in Team :
    LET rules == t[team].rules
    IN /\ Len(rules) \in Nat /\ DOMAIN rules = 1..Len(rules)
       /\ \A i \in DOMAIN rules :
            /\ rules[i].priority \in Int
            /\ \A s \in Signal : LET f == rules[i].found[s.text] IN
                 DOMAIN f \subseteq Nat /\ \A p \in DOMAIN f : f[p] \in Nat

VARIABLES
  table,     \* the local and the parent table
  lastIndex, \* lastIndex[team][i]: where row i searches next, if it has a flag
  answer,    \* what the last route answered
  routed     \* the signals routed, in order

routingVars == <<table, lastIndex, answer, routed>>

\* Mutant: rows of one priority in the opposite order.
BeforeReversed(rules, i, j) ==
  rules[i].priority > rules[j].priority \/ (rules[i].priority = rules[j].priority /\ i > j)

\* loadRoutingRules: the rows by falling priority, rows of one priority in source order.
Before(rules, i, j) ==
  rules[i].priority > rules[j].priority \/ (rules[i].priority = rules[j].priority /\ i < j)
Place(rules, i) == Cardinality({j \in DOMAIN rules : Before(rules, j, i)}) + 1
Order(rules) == [k \in DOMAIN rules |-> CHOOSE i \in DOMAIN rules : Place(rules, i) = k]

RoutingInit ==
  /\ table \in Table
  /\ lastIndex = [team \in Team |-> [i \in DOMAIN table[team].rules |-> 0]]
  /\ answer = NoAnswer /\ routed = <<>>

Conditions(rule, s) ==
  /\ rule.labels \subseteq s.labels
  /\ \A pattern \in rule.files : s.paths \cap pattern # {}
  /\ rule.custom \subseteq s.keys

\* Where a row finds its pattern: behind lastIndex, or with the flag y just there.
FoundAt(team, i, s) == LET r == table[team].rules[i] from == lastIndex[team][i] IN
  {p \in DOMAIN r.found[s.text] :
     CASE r.flag = "g" -> p >= from [] r.flag = "y" -> p = from [] OTHER -> TRUE}

Matches(team, i, s) == FoundAt(team, i, s) # {}

Eligible(team, i, s) == LET rule == table[team].rules[i] IN
  Conditions(rule, s) /\ rule.agent \in table[team].members

Answers(team, i, s) == Matches(team, i, s) /\ Eligible(team, i, s)

\* The places, in order, of the rows of a team that are looked at: up to the one that answers.
Answering(team, s) == LET rules == table[team].rules o == Order(rules) IN
  {k \in DOMAIN rules : Answers(team, o[k], s) /\ \A n \in 1..(k - 1) : ~ Answers(team, o[n], s)}

\* The rows a scan tests, and where testing puts their lastIndex: behind the first
\* occurrence, or back to 0.
Tested(team, s) == LET o == Order(table[team].rules) IN
  {o[k] : k \in {n \in DOMAIN o : \A m \in Answering(team, s) : n <= m}}

Moved(team, i, s) == LET at == FoundAt(team, i, s) r == table[team].rules[i] IN
  IF r.flag = "none" \/ at = {} THEN 0 ELSE r.found[s.text][CHOOSE p \in at : \A q \in at : p <= q]

Scanned(team, s) ==
  [i \in DOMAIN table[team].rules |-> IF i \in Tested(team, s) THEN Moved(team, i, s) ELSE lastIndex[team][i]]

First(team, s) == LET k == CHOOSE n \in Answering(team, s) : TRUE IN Order(table[team].rules)[k]

Answer(team, s) == [team |-> team, row |-> First(team, s)]
Unanswered == [team |-> "none", row |-> 0]

\* routeLocal.
RoutesLocally(s) ==
  /\ Answering("local", s) # {}
  /\ answer' = Answer("local", s) /\ lastIndex' = [lastIndex EXCEPT !["local"] = Scanned("local", s)]

\* routeWithEscalation: the root team's table, if there is one.
Escalates(s) ==
  /\ Answering("local", s) = {}
  /\ answer' = IF Answering("parent", s) # {} THEN Answer("parent", s) ELSE Unanswered
  /\ lastIndex' = [team \in Team |-> Scanned(team, s)]

RoutingNext ==
  /\ Len(routed) < Routes
  /\ UNCHANGED table
  /\ \E s \in Signal : routed' = Append(routed, s) /\ (RoutesLocally(s) \/ Escalates(s))

(***************************************************************************)
(* Properties                                                              *)
(***************************************************************************)

\* A row's pattern occurs in a text, as a RegExp that has not matched yet finds it.
Occurs(r, text) == IF r.flag = "y" THEN 0 \in DOMAIN r.found[text] ELSE DOMAIN r.found[text] # {}

\* A row with a flag passes over a text because of an earlier one, whose occurrence ended
\* behind each place where the pattern starts in this text, or with the flag y beside it.
PassesOver(r, text, earlier) ==
  /\ r.flag # "none"
  /\ \E t \in earlier : \E p \in DOMAIN r.found[t] : \A q \in DOMAIN r.found[text] :
       IF r.flag = "y" THEN q # r.found[t][p] ELSE q < r.found[t][p]

\* A row stands before the answer: it has a higher priority, or is above it in the file
\* with the same one, or is one of the local team and the answer is not.
Better(team, i) ==
  \/ team = "local" /\ answer.team # "local"
  \/ answer.team = "none"
  \/ /\ team = answer.team
     /\ LET r == table[team].rules[i] best == table[team].rules[answer.row] IN
        r.priority > best.priority \/ (r.priority = best.priority /\ i < answer.row)

Latest == routed[Len(routed)]
Earlier == {routed[n].text : n \in 1..(Len(routed) - 1)}

\* The row that answers has a member of its team, its pattern in the text and its
\* conditions met; and of the rows that a table loaded afresh would take none stands
\* before it but those that a text routed before makes pass this one over.
RoutedBest ==
  answer # NoAnswer =>
    /\ answer.team # "none" =>
         /\ Eligible(answer.team, answer.row, Latest)
         /\ DOMAIN table[answer.team].rules[answer.row].found[Latest.text] # {}
    /\ \A team \in Team : \A i \in DOMAIN table[team].rules : LET r == table[team].rules[i] IN
         Eligible(team, i, Latest) /\ Occurs(r, Latest.text) /\ Better(team, i) => PassesOver(r, Latest.text, Earlier)
=============================================================================
