-------------------------- MODULE FileAndTextProofs --------------------------
(***************************************************************************)
(* Lemmas about the services that work on files and on texts: the settings *)
(* with overrides (Overrides), the definitions of agents and chains        *)
(* (Definitions), skills with their cache (Skills), the dialog that edits  *)
(* a chain before it is launched with its text fields (Clarify,            *)
(* TextEditor), and the cutting of documents (Chunker). ServicesProofs     *)
(* states the theorems that rest on them: the invariant of each service    *)
(* holds when it starts (..Start), is kept by its steps (..Steps, ..Step)  *)
(* and says what is claimed (..Follow, ..Holds, ..Right).                  *)
(*                                                                         *)
(* The recursive functions of these modules exist because a function that  *)
(* steps from a start does (Iteration); what holds of each of its values   *)
(* is shown from one to the next (UpTo).                                   *)
(***************************************************************************)
EXTENDS Overrides, Definitions, Skills, Clarify, Chunker, SequenceTheorems, FiniteSetTheorems,
        WellFoundedInduction, NaturalsInduction, TLAPS

(***************************************************************************)
(* Numbers, sequences and recursion.                                       *)
(***************************************************************************)

\* A set of numbers has a least one.
LEMMA LeastNat ==
  ASSUME NEW S, S \subseteq Nat, S # {}
  PROVE  \E n \in S : \A m \in S : n <= m
<1>1. IsWellFoundedOn(OpToRel(<, Nat), Nat)
  BY NatLessThanWellFounded
<1>2. PICK n \in S : \A m \in S : <<m, n>> \notin OpToRel(<, Nat)
  BY <1>1, WFMin
<1>3. ASSUME NEW m \in S PROVE n <= m
  <2>1. ~ (m < n)
    BY <1>2 DEF OpToRel
  <2> QED
    BY <2>1
<1> QED
  BY <1>3

\* A set that holds 0 and, with a number below n, the next one, holds all up to n.
LEMMA UpTo ==
  ASSUME NEW n \in Nat, NEW P, 0 \in P, \A k \in 0..n : k < n /\ k \in P => k + 1 \in P
  PROVE  \A k \in 0..n : k \in P
<1> DEFINE Wrong == {k \in 0..n : k \notin P}
<1>1. ASSUME Wrong # {} PROVE FALSE
  <2>1. PICK k \in Wrong : \A m \in Wrong : k <= m
    <3>1. Wrong \subseteq Nat
      OBVIOUS
    <3> HIDE DEF Wrong
    <3> QED
      BY <1>1, <3>1, LeastNat
  <2>2. k # 0 /\ k \in 1..n /\ k - 1 \in 0..n
    BY <2>1
  <2>3. k - 1 \in P
    BY <2>1, <2>2
  <2> QED
    BY <2>1, <2>2, <2>3
<1> QED
  BY <1>1

\* The beginning of a sequence, and one element more.
LEMMA OneMore ==
  ASSUME NEW S, NEW s \in Seq(S), NEW k \in 0..Len(s), k < Len(s)
  PROVE  /\ SubSeq(s, 1, k) \in Seq(S) /\ s[k + 1] \in S
         /\ SubSeq(s, 1, k + 1) = Append(SubSeq(s, 1, k), s[k + 1])
<1>1. Len(s) \in Nat /\ DOMAIN s = 1..Len(s) /\ \A i \in 1..Len(s) : s[i] \in S
  OBVIOUS
<1>2. SubSeq(s, 1, k) \in Seq(S) /\ Len(SubSeq(s, 1, k)) = k /\ \A i \in 1..k : SubSeq(s, 1, k)[i] = s[i]
  <2>1. \A i \in 1..k : s[i] \in S
    BY <1>1
  <2> QED
    BY <1>1, <2>1, SubSeqProperties
<1>3. SubSeq(s, 1, k + 1) \in Seq(S) /\ Len(SubSeq(s, 1, k + 1)) = k + 1 /\ \A i \in 1..k + 1 : SubSeq(s, 1, k + 1)[i] = s[i]
  <2>1. \A i \in 1..k + 1 : s[i] \in S
    BY <1>1
  <2> QED
    BY <1>1, <2>1, SubSeqProperties
<1>4. s[k + 1] \in S
  BY <1>1
<1> DEFINE a == SubSeq(s, 1, k)
           b == SubSeq(s, 1, k + 1)
<1> HIDE DEF a, b
<1>5. Append(a, s[k + 1]) \in Seq(S) /\ Len(Append(a, s[k + 1])) = k + 1
        /\ Append(a, s[k + 1])[k + 1] = s[k + 1] /\ \A i \in 1..k : Append(a, s[k + 1])[i] = a[i]
  BY <1>2, <1>4 DEF a
<1>6. \A i \in 1..k + 1 : b[i] = Append(a, s[k + 1])[i]
  <2> TAKE i \in 1..k + 1
  <2>1. CASE i = k + 1
    BY <1>3, <1>5, <2>1 DEF b
  <2>2. CASE i \in 1..k
    BY <1>2, <1>3, <1>5, <2>2 DEF a, b
  <2>3. i = k + 1 \/ i \in 1..k
    <3> HIDE DEF a, b
    <3>1. k \in Nat
      BY <1>1
    <3> QED
      BY <3>1
  <2> QED
    BY <2>1, <2>2, <2>3
<1>7. b = Append(a, s[k + 1])
  BY <1>3, <1>5, <1>6, SeqEqual DEF b
<1> QED
  BY <1>2, <1>4, <1>7 DEF a, b

\* The whole of a sequence is the part of its length.
LEMMA WholeSeq == ASSUME NEW S, NEW s \in Seq(S) PROVE SubSeq(s, 1, Len(s)) = s /\ SubSeq(s, 1, 0) = <<>>
<1>1. Len(s) \in Nat /\ DOMAIN s = 1..Len(s) /\ \A i \in 1..Len(s) : s[i] \in S
  OBVIOUS
<1>2. SubSeq(s, 1, Len(s)) \in Seq(S) /\ Len(SubSeq(s, 1, Len(s))) = Len(s) /\ \A i \in 1..Len(s) : SubSeq(s, 1, Len(s))[i] = s[i]
  BY <1>1, SubSeqProperties
<1>3. SubSeq(s, 1, Len(s)) = s
  <2> DEFINE t == SubSeq(s, 1, Len(s))
  <2>1. t \in Seq(S) /\ Len(t) = Len(s) /\ \A i \in 1..Len(s) : t[i] = s[i]
    BY <1>2
  <2> HIDE DEF t
  <2>2. t = s
    BY <2>1, SeqEqual
  <2> QED
    BY <2>2 DEF t
<1>4. SubSeq(s, 1, 0) = <<>>
  BY <1>1
<1> QED
  BY <1>3, <1>4

\* A function that steps from a start exists, and stays where its steps stay.
Iterates(g, start, F, n) == g = [k \in 0..n |-> IF k = 0 THEN start ELSE F[<<g[k - 1], k>>]]

LEMMA Iteration ==
  ASSUME NEW T, NEW start \in T, NEW n \in Nat, NEW F, \A x \in T, k \in 1..n : F[<<x, k>>] \in T
  PROVE  \E g : Iterates(g, start, F, n) /\ \A k \in 0..n : g[k] \in T
<1> DEFINE Good(g, m) == Iterates(g, start, F, m) /\ \A k \in 0..m : g[k] \in T
           P == {m \in 0..n : \E g : Good(g, m)}
<1>1. 0 \in P
  <2> DEFINE g == [k \in 0..0 |-> start]
  <2>1. \A k \in 0..0 : k = 0 /\ g[k] = start
    OBVIOUS
  <2>2. Good(g, 0)
    BY <2>1 DEF Iterates
  <2> HIDE DEF g, Good
  <2> QED
    BY <2>2
<1>2. ASSUME NEW m \in 0..n, m < n, m \in P PROVE m + 1 \in P
  <2>1. PICK g : Good(g, m)
    BY <1>2
  <2>2. g = [k \in 0..m |-> IF k = 0 THEN start ELSE F[<<g[k - 1], k>>]] /\ \A k \in 0..m : g[k] \in T
    BY <2>1 DEF Iterates
  <2> DEFINE next == F[<<g[m], m + 1>>]
             h == [k \in 0..m + 1 |-> IF k = m + 1 THEN next ELSE g[k]]
  <2>3. next \in T
    BY <1>2, <2>2
  <2> HIDE DEF next
  <2>4. h = [k \in 0..m + 1 |-> h[k]] /\ h[m + 1] = next /\ \A k \in 0..m : h[k] = g[k]
    OBVIOUS
  <2>5. \A k \in 0..m : g[k] = IF k = 0 THEN start ELSE F[<<g[k - 1], k>>]
    BY <2>2
  <2> HIDE DEF h
  <2>6. \A k \in 0..m + 1 : h[k] \in T /\ h[k] = IF k = 0 THEN start ELSE F[<<h[k - 1], k>>]
    <3> TAKE k \in 0..m + 1
    <3>1. CASE k = m + 1
      <4>1. k # 0 /\ k - 1 = m /\ m \in 0..m
        BY <3>1
      <4> QED
        BY <2>3, <2>4, <3>1, <4>1 DEF next
    <3>2. CASE k = 0
      <4>1. k \in 0..m
        BY <3>2
      <4> QED
        BY <2>2, <2>4, <2>5, <3>2, <4>1
    <3>3. CASE k \in 1..m
      <4>1. k \in 0..m /\ k - 1 \in 0..m
        BY <3>3
      <4> QED
        BY <2>2, <2>4, <2>5, <3>3, <4>1
    <3> QED
      BY <3>1, <3>2, <3>3
  <2>7. Iterates(h, start, F, m + 1)
    BY <2>4, <2>6 DEF Iterates
  <2>8. m + 1 \in 0..n
    BY <1>2
  <2>9. Good(h, m + 1)
    BY <2>6, <2>7
  <2> HIDE DEF Good
  <2> QED
    BY <2>8, <2>9
<1>3. \A m \in 0..n : m \in P
  <2> HIDE DEF P
  <2> QED
    BY <1>1, <1>2, UpTo
<1>4. n \in P
  BY <1>3
<1> QED
  BY <1>4

(***************************************************************************)
(* Overrides.  A file that is whole, and the copy of one that a call has   *)
(* read and will write, agree with what was saved so far.                  *)
(***************************************************************************)

Scopes == {"user", "project"}
IsFile(file) == file = SettingsFile(file.state, file.bulk, file.overrides, file.other)

OverrideType ==
  /\ overridePlan \in OverridePlan
  /\ settings = [scope \in Scopes |-> settings[scope]] /\ \A scope \in Scopes : IsFile(settings[scope])
  /\ saver = [s \in Saver |-> saver[s]]
  /\ \A s \in Saver : /\ saver[s] = [pc |-> saver[s].pc, read |-> saver[s].read]
                      /\ saver[s].pc \in {"idle", "empty", "write", "done", "failed", "dead"} /\ IsFile(saver[s].read)
  /\ saved \in Seq(Saver)

Saving(s) == saver[s].pc \in {"empty", "write"}
OneAtATime == ~ overridePlan.overlap => \A s, t \in Saver : Saving(s) /\ Saving(t) => s = t

\* What the calls in done, in that order, were about, and which of them counts.
About(plan, s, scope, n) == plan.wants[s].scope = scope /\ plan.wants[s].name = n
LastIn(plan, done, s) ==
  \E i \in DOMAIN done : done[i] = s /\ \A j \in (i + 1)..Len(done) : ~ About(plan, done[j], plan.wants[s].scope, plan.wants[s].name)

\* A file agrees with what was there before and with the last call for each name.
Agrees(plan, done, scope, file) ==
  /\ file.other = plan.settings[scope].other /\ file.bulk = plan.settings[scope].bulk
  /\ \A n : (\A i \in DOMAIN done : ~ About(plan, done[i], scope, n)) =>
       /\ n \in DOMAIN file.overrides <=> n \in DOMAIN plan.settings[scope].overrides
       /\ n \in DOMAIN plan.settings[scope].overrides => file.overrides[n] = plan.settings[scope].overrides[n]
  /\ \A s \in Saver : LastIn(plan, done, s) /\ plan.wants[s].scope = scope =>
       /\ plan.wants[s].name \in DOMAIN file.overrides <=> plan.wants[s].op = "save"
       /\ plan.wants[s].op = "save" =>
            file.overrides[plan.wants[s].name] = Build(plan.base[plan.wants[s].name], plan.wants[s].draft)

FilesInv ==
  \A scope \in Scopes : Undisturbed(scope) =>
    /\ settings[scope].state # "torn" => Agrees(overridePlan, saved, scope, settings[scope])
    /\ \A s \in Saver : Saving(s) /\ Wants(s).scope = scope => Agrees(overridePlan, saved, scope, saver[s].read)

OverrideInv == OverrideType /\ OneAtATime /\ FilesInv

\* The settings of a plan, and what its calls want.
LEMMA PlanOf ==
  ASSUME NEW plan \in OverridePlan
  PROVE  /\ plan.settings = [scope \in Scopes |-> plan.settings[scope]] /\ \A scope \in Scopes : IsFile(plan.settings[scope])
         /\ \A s \in Saver : /\ plan.wants[s].op \in {"save", "remove"} /\ plan.wants[s].scope \in Scopes
                             /\ plan.wants[s].name \in DOMAIN plan.base
<1>1. plan.settings = [scope \in {"user", "project"} |-> LET file == plan.settings[scope] IN SettingsFile(file.state, file.bulk, file.overrides, file.other)]
  BY OverridesAssumption
<1>2. plan.wants \in [Saver -> [op : {"save", "remove"}, scope : {"user", "project"},
                                name : DOMAIN plan.base, draft : {plan.wants[s].draft : s \in Saver}]]
  BY OverridesAssumption
<1> QED
  BY <1>1, <1>2 DEF Scopes, IsFile

\* Two calls for an undisturbed scope do not save at once.
LEMMA OneSaves ==
  ASSUME OverrideType, OneAtATime, NEW s \in Saver, NEW t \in Saver, Saving(s), Saving(t), Wants(s).scope = Wants(t).scope, Undisturbed(Wants(s).scope)
  PROVE  s = t
<1> DEFINE S == {q \in Saver : Wants(q).scope = Wants(s).scope}
<1>1. CASE ~ overridePlan.overlap
  BY <1>1 DEF OneAtATime
<1>2. CASE Cardinality(S) = 1
  <2>1. IsFiniteSet(S)
    BY OverridesAssumption, FS_Subset
  <2>2. s \in S /\ t \in S
    OBVIOUS
  <2> HIDE DEF S
  <2>3. PICK q : S = {q}
    BY <1>2, <2>1, FS_Singleton
  <2> QED
    BY <2>2, <2>3
<1> QED
  BY <1>1, <1>2 DEF Undisturbed

\* After one more call, the last one for a name is that one or was the last before.
LEMMA LastAppended ==
  ASSUME NEW plan, NEW done \in Seq(Saver), NEW s \in Saver, NEW t \in Saver, LastIn(plan, Append(done, s), t)
  PROVE  t = s \/ (LastIn(plan, done, t) /\ ~ About(plan, s, plan.wants[t].scope, plan.wants[t].name))
<1> DEFINE d == Append(done, s)
           n == Len(done)
           Other(q) == ~ About(plan, q, plan.wants[t].scope, plan.wants[t].name)
<1>1. n \in Nat /\ DOMAIN done = 1..n /\ Len(d) = n + 1 /\ DOMAIN d = 1..(n + 1) /\ d[n + 1] = s /\ \A i \in 1..n : d[i] = done[i]
  BY AppendProperties, LenProperties
<1>2. PICK i \in DOMAIN d : d[i] = t /\ \A j \in (i + 1)..Len(d) : Other(d[j])
  BY DEF LastIn
<1> HIDE DEF d, n, Other
<1>3. CASE i = n + 1
  BY <1>1, <1>2, <1>3
<1>4. CASE i # n + 1
  <2>1. i \in 1..n /\ done[i] = t /\ Other(s)
    BY <1>1, <1>2, <1>4
  <2>2. \A j \in (i + 1)..n : Other(done[j])
    BY <1>1, <1>2, <2>1
  <2> QED
    BY <1>1, <2>1, <2>2 DEF LastIn, n, Other
<1> QED
  BY <1>3, <1>4

\* What a call writes agrees with it and with all calls before it; files of the
\* other scope agree as before.
LEMMA AgreesAppended ==
  ASSUME NEW plan \in OverridePlan, NEW done \in Seq(Saver), NEW s \in Saver, NEW scope \in Scopes, NEW file, NEW next,
         Agrees(plan, done, scope, file), next.other = file.other, next.bulk = file.bulk,
         plan.wants[s].scope # scope => next.overrides = file.overrides,
         plan.wants[s].scope = scope =>
           /\ plan.wants[s].op = "save" =>
                next.overrides = [n \in DOMAIN file.overrides \cup {plan.wants[s].name} |->
                  IF n = plan.wants[s].name THEN Build(plan.base[n], plan.wants[s].draft) ELSE file.overrides[n]]
           /\ plan.wants[s].op # "save" =>
                next.overrides = [n \in DOMAIN file.overrides \ {plan.wants[s].name} |-> file.overrides[n]]
  PROVE  Agrees(plan, Append(done, s), scope, next)
<1> DEFINE d == Append(done, s)
           name == plan.wants[s].name
           here == plan.wants[s].scope = scope
           was == plan.settings[scope]
<1>1. DOMAIN done \subseteq DOMAIN d /\ (Len(d) \in DOMAIN d) /\ d[Len(d)] = s /\ \A i \in DOMAIN done : d[i] = done[i]
  BY AppendProperties, LenProperties
<1>2. \A n : ~ here \/ n # name => /\ n \in DOMAIN next.overrides <=> n \in DOMAIN file.overrides
                                   /\ n \in DOMAIN file.overrides => next.overrides[n] = file.overrides[n]
  BY PlanOf
<1>3. here => /\ name \in DOMAIN next.overrides <=> plan.wants[s].op = "save"
              /\ plan.wants[s].op = "save" => next.overrides[name] = Build(plan.base[name], plan.wants[s].draft)
  BY PlanOf
<1>4. ASSUME NEW n, \A i \in DOMAIN d : ~ About(plan, d[i], scope, n)
      PROVE  /\ n \in DOMAIN next.overrides <=> n \in DOMAIN was.overrides
             /\ n \in DOMAIN was.overrides => next.overrides[n] = was.overrides[n]
  <2>1. \A i \in DOMAIN done : ~ About(plan, done[i], scope, n)
    BY <1>1, <1>4
  <2>2. ~ About(plan, s, scope, n)
    BY <1>1, <1>4
  <2>3. ~ here \/ n # name
    BY <2>2 DEF About
  <2>4. /\ n \in DOMAIN file.overrides <=> n \in DOMAIN was.overrides
        /\ n \in DOMAIN was.overrides => file.overrides[n] = was.overrides[n]
    BY <2>1 DEF Agrees
  <2> HIDE DEF here, name, was, d
  <2> QED
    BY <1>2, <2>3, <2>4
<1>5. ASSUME NEW t \in Saver, LastIn(plan, d, t), plan.wants[t].scope = scope
      PROVE  /\ plan.wants[t].name \in DOMAIN next.overrides <=> plan.wants[t].op = "save"
             /\ plan.wants[t].op = "save" => next.overrides[plan.wants[t].name] = Build(plan.base[plan.wants[t].name], plan.wants[t].draft)
  <2>1. CASE t = s
    BY <1>3, <1>5, <2>1
  <2>2. CASE t # s
    <3>1. LastIn(plan, done, t) /\ ~ About(plan, s, plan.wants[t].scope, plan.wants[t].name)
      BY <1>5, <2>2, LastAppended
    <3>2. ~ here \/ plan.wants[t].name # name
      BY <1>5, <3>1 DEF About
    <3>3. /\ plan.wants[t].name \in DOMAIN file.overrides <=> plan.wants[t].op = "save"
          /\ plan.wants[t].op = "save" => file.overrides[plan.wants[t].name] = Build(plan.base[plan.wants[t].name], plan.wants[t].draft)
      BY <1>5, <3>1 DEF Agrees
    <3> HIDE DEF here, name, was, d
    <3> QED
      BY <1>2, <3>2, <3>3
  <2> QED
    BY <2>1, <2>2
<1>6. next.other = was.other /\ next.bulk = was.bulk
  BY DEF Agrees
<1> QED
  BY <1>4, <1>5, <1>6 DEF Agrees

\* The invariants hold at first.
LEMMA OverridesStart == OverridesInit => OverrideInv
<1> SUFFICES ASSUME OverridesInit PROVE OverrideInv
  OBVIOUS
<1>1. overridePlan \in OverridePlan /\ settings = overridePlan.settings /\ saved = <<>> /\ saver = [s \in Saver |-> [pc |-> "idle", read |-> NoSettings]]
  BY DEF OverridesInit
<1>2. IsFile(NoSettings) /\ saved \in Seq(Saver) /\ \A s \in Saver : ~ Saving(s)
  BY <1>1 DEF IsFile, NoSettings, SettingsFile, Saving
<1>3. OverrideType
  BY <1>1, <1>2, PlanOf DEF OverrideType
<1>4. ASSUME NEW scope \in Scopes PROVE Agrees(overridePlan, saved, scope, settings[scope])
  BY <1>1 DEF Agrees, LastIn
<1> QED
  BY <1>2, <1>3, <1>4 DEF OverrideInv, OneAtATime, FilesInv

\* A call goes on.
LEMMA SaverGoes ==
  ASSUME OverrideType, NEW s \in Saver, NEW pc \in {"idle", "empty", "write", "done", "failed", "dead"}, NEW read, IsFile(read), Goes(s, pc, read)
  PROVE  /\ overridePlan' = overridePlan /\ overridePlan' \in OverridePlan
         /\ saver' = [t \in Saver |-> saver'[t]]
         /\ \A t \in Saver : /\ saver'[t] = [pc |-> saver'[t].pc, read |-> saver'[t].read]
                             /\ saver'[t].pc \in {"idle", "empty", "write", "done", "failed", "dead"} /\ IsFile(saver'[t].read)
         /\ saver'[s].pc = pc /\ saver'[s].read = read /\ \A t \in Saver : t # s => saver'[t] = saver[t]
<1> DEFINE r == [pc |-> pc, read |-> read]
<1>1. r.pc = pc /\ r.read = read /\ r = [pc |-> r.pc, read |-> r.read]
  OBVIOUS
<1> HIDE DEF r
<1>2. saver' = [saver EXCEPT ![s] = r] /\ overridePlan' = overridePlan
  BY DEF Goes, r
<1>3. saver'[s] = r /\ (\A t \in Saver : t # s => saver'[t] = saver[t]) /\ saver' = [t \in Saver |-> saver'[t]]
  BY <1>2 DEF OverrideType
<1>4. \A t \in Saver : saver[t].pc \in {"idle", "empty", "write", "done", "failed", "dead"} /\ IsFile(saver[t].read) /\ saver[t] = [pc |-> saver[t].pc, read |-> saver[t].read]
  BY DEF OverrideType
<1> QED
  BY <1>1, <1>2, <1>3, <1>4 DEF OverrideType

\* One call at a time: a call that saves has been the only one since it began.
LEMMA OneAtATimeNext ==
  ASSUME OverrideInv, OverridesNext
  PROVE  OneAtATime'
<1>1. ASSUME NEW s \in Saver, ReadsSettings(s) PROVE OneAtATime'
  <2>1. /\ overridePlan' = overridePlan /\ (\A t \in Saver : t # s => saver'[t] = saver[t])
        /\ ~ overridePlan.overlap => \A t \in Saver : saver[t].pc = "idle" \/ Returned(t)
    BY <1>1 DEF ReadsSettings, Goes, OverrideInv, OverrideType
  <2> QED
    BY <2>1 DEF OneAtATime, Saving, Returned
<1>2. ASSUME NEW s \in Saver, EmptiesSettings(s) \/ WritesSettings(s) \/ SaverDies(s) PROVE OneAtATime'
  <2>1. overridePlan' = overridePlan /\ Saving(s) /\ (\A t \in Saver : t # s => saver'[t] = saver[t])
    BY <1>2 DEF EmptiesSettings, WritesSettings, SaverDies, Goes, OverrideInv, OverrideType, Saving
  <2>2. ASSUME NEW t \in Saver, Saving(t)' PROVE Saving(t)
    BY <2>1, <2>2 DEF Saving
  <2> QED
    BY <2>1, <2>2 DEF OneAtATime, OverrideInv
<1> QED
  BY <1>1, <1>2 DEF OverridesNext

\* A call reads a file that agrees, or fails.
LEMMA ReadsRight ==
  ASSUME OverrideInv, NEW s \in Saver, ReadsSettings(s)
  PROVE  OverrideType' /\ FilesInv'
<1> DEFINE file == settings[Wants(s).scope]
           pc == IF file.state = "torn" THEN "failed" ELSE IF Wants(s).op = "remove" /\ file.overrides = NoOverride THEN "done" ELSE "empty"
<1>1. Goes(s, pc, file) /\ settings' = settings /\ saved' = saved
  BY DEF ReadsSettings
<1>2. overridePlan \in OverridePlan /\ Wants(s).scope \in Scopes /\ IsFile(file) /\ OverrideType
  BY PlanOf DEF OverrideInv, OverrideType, Wants
<1>3. pc \in {"done", "failed", "empty"} /\ (pc = "empty" => file.state # "torn")
  OBVIOUS
<1> HIDE DEF file, pc
<1>4. /\ overridePlan' = overridePlan /\ overridePlan' \in OverridePlan
      /\ saver' = [t \in Saver |-> saver'[t]]
      /\ \A t \in Saver : /\ saver'[t] = [pc |-> saver'[t].pc, read |-> saver'[t].read]
                          /\ saver'[t].pc \in {"idle", "empty", "write", "done", "failed", "dead"} /\ IsFile(saver'[t].read)
      /\ saver'[s].pc = pc /\ saver'[s].read = file /\ \A t \in Saver : t # s => saver'[t] = saver[t]
  BY <1>1, <1>2, <1>3, SaverGoes
<1>5. OverrideType'
  BY <1>1, <1>4 DEF OverrideType, OverrideInv
<1>6. ASSUME NEW scope \in Scopes, Undisturbed(scope)'
      PROVE  /\ settings'[scope].state # "torn" => Agrees(overridePlan, saved, scope, settings[scope])
             /\ \A t \in Saver : Saving(t)' /\ Wants(t).scope = scope => Agrees(overridePlan, saved, scope, saver'[t].read)
  <2>1. Undisturbed(scope)
    BY <1>4, <1>6 DEF Undisturbed, Wants
  <2>2. /\ settings[scope].state # "torn" => Agrees(overridePlan, saved, scope, settings[scope])
        /\ \A t \in Saver : Saving(t) /\ Wants(t).scope = scope => Agrees(overridePlan, saved, scope, saver[t].read)
    BY <2>1 DEF OverrideInv, FilesInv
  <2>3. ASSUME Saving(s)', Wants(s).scope = scope PROVE Agrees(overridePlan, saved, scope, saver'[s].read)
    <3>1. pc = "empty"
      BY <1>3, <1>4, <2>3 DEF Saving
    <3> QED
      BY <1>3, <1>4, <2>2, <2>3, <3>1 DEF file
  <2>4. ASSUME NEW t \in Saver, t # s, Saving(t)', Wants(t).scope = scope PROVE Agrees(overridePlan, saved, scope, saver'[t].read)
    BY <1>4, <2>2, <2>4 DEF Saving
  <2> QED
    BY <1>1, <2>2, <2>3, <2>4
<1> QED
  BY <1>1, <1>4, <1>5, <1>6 DEF FilesInv, Wants

\* What it has read stays as it is while it empties the file, or dies.
LEMMA HoldsRight ==
  ASSUME OverrideInv, NEW s \in Saver, EmptiesSettings(s) \/ SaverDies(s)
  PROVE  OverrideType' /\ FilesInv'
<1>1. OverrideType /\ overridePlan \in OverridePlan /\ Wants(s).scope \in Scopes /\ IsFile(Torn) /\ IsFile(NoSettings) /\ IsFile(saver[s].read) /\ Torn.state = "torn"
  BY PlanOf DEF OverrideInv, OverrideType, Wants, IsFile, Torn, NoSettings, SettingsFile
<1>2. /\ overridePlan' = overridePlan /\ saved' = saved
      /\ saver' = [t \in Saver |-> saver'[t]]
      /\ \A t \in Saver : /\ saver'[t] = [pc |-> saver'[t].pc, read |-> saver'[t].read]
                          /\ saver'[t].pc \in {"idle", "empty", "write", "done", "failed", "dead"} /\ IsFile(saver'[t].read)
      /\ Saving(s)' => Saving(s) /\ saver'[s].read = saver[s].read
      /\ \A t \in Saver : t # s => saver'[t] = saver[t]
  <2>1. CASE EmptiesSettings(s)
    <3>1. Goes(s, "write", saver[s].read) /\ saver[s].pc = "empty" /\ saved' = saved
      BY <2>1 DEF EmptiesSettings
    <3>2. "write" \in {"idle", "empty", "write", "done", "failed", "dead"}
      OBVIOUS
    <3> QED
      BY <1>1, <3>1, <3>2, SaverGoes DEF Saving
  <2>2. CASE SaverDies(s)
    <3>1. Goes(s, "dead", NoSettings) /\ saved' = saved
      BY <2>2 DEF SaverDies
    <3>2. "dead" \in {"idle", "empty", "write", "done", "failed", "dead"}
      OBVIOUS
    <3> QED
      BY <1>1, <3>1, <3>2, SaverGoes DEF Saving
  <2> QED
    BY <2>1, <2>2
<1>3. settings' = settings \/ settings' = [settings EXCEPT ![Wants(s).scope] = Torn]
  BY DEF EmptiesSettings, SaverDies
<1>4. OverrideType'
  BY <1>1, <1>2, <1>3 DEF OverrideType
<1>5. ASSUME NEW scope \in Scopes, Undisturbed(scope)'
      PROVE  /\ settings'[scope].state # "torn" => Agrees(overridePlan, saved, scope, settings'[scope])
             /\ \A t \in Saver : Saving(t)' /\ Wants(t).scope = scope => Agrees(overridePlan, saved, scope, saver'[t].read)
  <2>1. Undisturbed(scope)
    BY <1>2, <1>5 DEF Undisturbed, Wants
  <2>2. /\ settings[scope].state # "torn" => Agrees(overridePlan, saved, scope, settings[scope])
        /\ \A t \in Saver : Saving(t) /\ Wants(t).scope = scope => Agrees(overridePlan, saved, scope, saver[t].read)
    BY <2>1 DEF OverrideInv, FilesInv
  <2>3. settings'[scope] = settings[scope] \/ settings'[scope].state = "torn"
    BY <1>1, <1>3 DEF OverrideType
  <2>4. ASSUME NEW t \in Saver, Saving(t)' PROVE Saving(t) /\ saver'[t].read = saver[t].read
    BY <1>2, <2>4 DEF Saving
  <2> QED
    BY <2>2, <2>3, <2>4
<1> QED
  BY <1>2, <1>4, <1>5 DEF FilesInv, Wants

\* What is written agrees with one call more.
LEMMA WritesRight ==
  ASSUME OverrideInv, NEW s \in Saver, WritesSettings(s)
  PROVE  OverrideType' /\ FilesInv'
<1> DEFINE mine == Wants(s).scope
           read == saver[s].read
           over == WithOverride(s)
           next == SettingsFile("whole", read.bulk, over, read.other)
<1>1. /\ OverrideType /\ overridePlan \in OverridePlan /\ mine \in Scopes /\ IsFile(read) /\ IsFile(NoSettings)
      /\ Wants(s).op \in {"save", "remove"} /\ mine = overridePlan.wants[s].scope /\ Wants(s) = overridePlan.wants[s]
  BY PlanOf DEF OverrideInv, OverrideType, Wants, IsFile, NoSettings, SettingsFile
<1>2. saver[s].pc = "write" /\ Saving(s) /\ settings' = [settings EXCEPT ![mine] = next] /\ saved' = Append(saved, s) /\ Goes(s, "done", NoSettings)
  BY DEF WritesSettings, Saving
<1>3. "done" \in {"idle", "empty", "write", "done", "failed", "dead"}
  OBVIOUS
<1>4. /\ overridePlan' = overridePlan /\ overridePlan' \in OverridePlan
      /\ saver' = [t \in Saver |-> saver'[t]]
      /\ \A t \in Saver : /\ saver'[t] = [pc |-> saver'[t].pc, read |-> saver'[t].read]
                          /\ saver'[t].pc \in {"idle", "empty", "write", "done", "failed", "dead"} /\ IsFile(saver'[t].read)
      /\ saver'[s].pc = "done" /\ \A t \in Saver : t # s => saver'[t] = saver[t]
  BY <1>1, <1>2, <1>3, SaverGoes
<1>5. /\ Wants(s).op = "save" => over = [n \in DOMAIN read.overrides \cup {Wants(s).name} |->
                IF n = Wants(s).name THEN Build(overridePlan.base[n], Wants(s).draft) ELSE read.overrides[n]]
      /\ Wants(s).op # "save" => over = [n \in DOMAIN read.overrides \ {Wants(s).name} |-> read.overrides[n]]
  BY DEF WithOverride
<1> HIDE DEF over
<1>6. IsFile(next) /\ next.other = read.other /\ next.bulk = read.bulk /\ next.overrides = over
  BY DEF IsFile, SettingsFile
<1> HIDE DEF next, read, mine
<1>7. settings'[mine] = next /\ \A scope \in Scopes : scope # mine => settings'[scope] = settings[scope]
  BY <1>1, <1>2 DEF OverrideType
<1>8. OverrideType'
  <2>1. saved' \in Seq(Saver)
    BY <1>1, <1>2, AppendProperties DEF OverrideType
  <2>2. settings' = [scope \in Scopes |-> settings'[scope]] /\ \A scope \in Scopes : IsFile(settings'[scope])
    BY <1>1, <1>2, <1>6, <1>7 DEF OverrideType
  <2> QED
    BY <1>4, <2>1, <2>2 DEF OverrideType
<1>9. ASSUME NEW scope \in Scopes, Undisturbed(scope)'
      PROVE  /\ settings'[scope].state # "torn" => Agrees(overridePlan, saved', scope, settings'[scope])
             /\ \A t \in Saver : Saving(t)' /\ Wants(t).scope = scope => Agrees(overridePlan, saved', scope, saver'[t].read)
  <2>1. Undisturbed(scope)
    BY <1>4, <1>9 DEF Undisturbed, Wants
  <2>2. /\ settings[scope].state # "torn" => Agrees(overridePlan, saved, scope, settings[scope])
        /\ \A t \in Saver : Saving(t) /\ Wants(t).scope = scope => Agrees(overridePlan, saved, scope, saver[t].read)
    BY <2>1 DEF OverrideInv, FilesInv
  <2>3. CASE scope = mine
    <3>1. Agrees(overridePlan, saved, scope, read)
      BY <1>2, <2>2, <2>3 DEF mine, read
    <3>2. saved \in Seq(Saver)
      BY <1>1 DEF OverrideType
    <3>5. /\ overridePlan.wants[s].scope # scope => next.overrides = read.overrides
          /\ overridePlan.wants[s].op = "save" =>
               next.overrides = [n \in DOMAIN read.overrides \cup {overridePlan.wants[s].name} |->
                 IF n = overridePlan.wants[s].name THEN Build(overridePlan.base[n], overridePlan.wants[s].draft) ELSE read.overrides[n]]
          /\ overridePlan.wants[s].op # "save" =>
               next.overrides = [n \in DOMAIN read.overrides \ {overridePlan.wants[s].name} |-> read.overrides[n]]
      BY <1>1, <1>5, <1>6, <2>3
    <3>3. Agrees(overridePlan, Append(saved, s), scope, next)
      BY <1>1, <1>6, <3>1, <3>2, <3>5, AgreesAppended
    <3>4. ASSUME NEW t \in Saver, Saving(t)', Wants(t).scope = scope PROVE FALSE
      <4>1. t # s /\ Saving(t)
        BY <1>4, <3>4 DEF Saving
      <4> QED
        BY <1>1, <1>2, <2>1, <2>3, <3>4, <4>1, OneSaves DEF OverrideInv, mine
    <3> QED
      BY <1>2, <1>7, <2>3, <3>3, <3>4
  <2>4. CASE scope # mine
    <3>1. saved \in Seq(Saver) /\ overridePlan.wants[s].scope # scope
      BY <1>1, <2>4 DEF OverrideType
    <3>2. \A file : Agrees(overridePlan, saved, scope, file) => Agrees(overridePlan, Append(saved, s), scope, file)
      BY <1>1, <3>1, AgreesAppended
    <3>3. ASSUME NEW t \in Saver, Saving(t)', Wants(t).scope = scope PROVE Saving(t) /\ saver'[t].read = saver[t].read
      BY <1>4, <3>3 DEF Saving
    <3> QED
      BY <1>2, <1>7, <2>2, <2>4, <3>2, <3>3
  <2> QED
    BY <2>3, <2>4
<1> QED
  BY <1>4, <1>8, <1>9 DEF FilesInv, Wants

\* Every step keeps the invariants.
LEMMA OverridesSteps == ASSUME OverrideInv, OverridesNext PROVE OverrideInv'
<1>1. PICK s \in Saver : ReadsSettings(s) \/ EmptiesSettings(s) \/ WritesSettings(s) \/ SaverDies(s)
  BY DEF OverridesNext
<1> QED
  BY <1>1, OneAtATimeNext, ReadsRight, HoldsRight, WritesRight DEF OverrideInv

\* Putting an override on its agent gives the draft it was made of.
LEMMA DraftAgain ==
  ASSUME NEW base, NEW wanted, DOMAIN wanted = DOMAIN base, {"guard", "disabled"} \subseteq DOMAIN wanted, \A f \in DOMAIN wanted : wanted[f] # Cleared
  PROVE  Same(Put(Build(base, wanted), base), wanted)
<1> DEFINE Differs(f) == IF f = "guard" THEN ~ (wanted[f] # FALSE <=> base[f] # FALSE) ELSE wanted[f] # base[f]
           o == Build(base, wanted)
           a == Put(o, base)
           v(f) == Says(f, wanted[f])
<1>1. DOMAIN o = {f \in DOMAIN base : Differs(f)} /\ \A f \in DOMAIN o : o[f] = v(f)
  BY DEF Build
<1>2. DOMAIN a = DOMAIN base /\ \A f \in DOMAIN base : a[f] = IF f \notin DOMAIN o THEN base[f] ELSE IF o[f] = Cleared THEN Undefined ELSE o[f]
  BY DEF Put
<1> HIDE DEF a, o, v
<1>3. ASSUME NEW f \in DOMAIN base PROVE a[f] = IF ~ Differs(f) THEN base[f] ELSE IF v(f) = Cleared THEN Undefined ELSE v(f)
  BY <1>1, <1>2
<1>4. ASSUME NEW f \in DOMAIN a \ {"guard", "disabled"} PROVE a[f] = wanted[f]
  <2>1. v(f) = IF wanted[f] = Undefined THEN Cleared ELSE wanted[f]
    BY DEF v, Says, OrCleared
  <2> QED
    BY <1>2, <1>3, <2>1
<1>5. a["guard"] # FALSE <=> wanted["guard"] # FALSE
  <2> DEFINE x == v("guard")
  <2>1. "guard" \in DOMAIN base
    OBVIOUS
  <2>2. wanted["guard"] = FALSE => x = FALSE
    BY DEF v, Says
  <2>3. wanted["guard"] # FALSE => x = TRUE
    BY DEF v, Says
  <2>4. a["guard"] = IF ~ Differs("guard") THEN base["guard"] ELSE IF x = Cleared THEN Undefined ELSE x
    BY <1>3, <2>1
  <2> HIDE DEF x
  <2>5. CASE ~ Differs("guard")
    BY <2>4, <2>5
  <2>6. CASE Differs("guard") /\ wanted["guard"] = FALSE
    BY <2>2, <2>4, <2>6, OverridesAssumption
  <2>7. CASE Differs("guard") /\ wanted["guard"] # FALSE
    BY <2>3, <2>4, <2>7, OverridesAssumption
  <2> QED
    BY <2>5, <2>6, <2>7
<1>6. a["disabled"] = TRUE <=> wanted["disabled"] = TRUE
  <2> DEFINE x == v("disabled")
  <2>1. "disabled" \in DOMAIN base
    OBVIOUS
  <2>2. wanted["disabled"] = TRUE => x = TRUE
    BY DEF v, Says
  <2>3. wanted["disabled"] # TRUE => x = FALSE
    BY DEF v, Says
  <2>4. a["disabled"] = IF ~ Differs("disabled") THEN base["disabled"] ELSE IF x = Cleared THEN Undefined ELSE x
    BY <1>3, <2>1
  <2> HIDE DEF x
  <2>5. CASE ~ Differs("disabled")
    BY <2>4, <2>5
  <2>6. CASE Differs("disabled") /\ wanted["disabled"] = TRUE
    BY <2>2, <2>4, <2>6, OverridesAssumption
  <2>7. CASE Differs("disabled") /\ wanted["disabled"] # TRUE
    BY <2>3, <2>4, <2>7, OverridesAssumption
  <2> QED
    BY <2>5, <2>6, <2>7
<1> QED
  BY <1>4, <1>5, <1>6 DEF Same, a, o

\* An override that says something is what its agent is discovered with.
LEMMA FoundIs ==
  ASSUME OverrideType, NEW scope \in Scopes, NEW name, name \in DOMAIN settings[scope].overrides,
         NEW o, settings[scope].overrides[name] = o, o # NoOverride
  PROVE  Found(name, scope) = Put(o, overridePlan.base[name])
<1>1. NoSettings.overrides = NoOverride /\ NoSettings.bulk = Undefined /\ name \notin DOMAIN NoSettings.overrides
  BY DEF NoSettings, SettingsFile, NoOverride
<1>2. Undefined # TRUE
  BY OverridesAssumption
<1>3. CASE scope = "user"
  <2>1. Layer(NoSettings, NoSettings.bulk = TRUE, name) = NoOverride
    BY <1>1, <1>2 DEF Layer
  <2>2. Layer(settings["user"], NoSettings.bulk = Undefined /\ settings["user"].bulk = TRUE, name) = o
    BY <1>3 DEF Layer
  <2> QED
    BY <1>3, <2>1, <2>2 DEF Found, Overridden
<1>4. CASE scope = "project"
  <2>1. Layer(settings["project"], settings["project"].bulk = TRUE, name) = o
    BY <1>4 DEF Layer
  <2> QED
    BY <1>4, <2>1 DEF Found, Overridden
<1> QED
  BY <1>3, <1>4 DEF Scopes

\* Of a set of numbers below another there is a greatest.
LEMMA GreatestNat ==
  ASSUME NEW n \in Nat, NEW S, S \subseteq 0..n, S # {}
  PROVE  \E i \in S : \A j \in S : j <= i
<1> DEFINE T == {n - i : i \in S}
<1>1. T \subseteq Nat /\ T # {}
  OBVIOUS
<1> HIDE DEF T
<1>2. PICK t \in T : \A u \in T : t <= u
  BY <1>1, LeastNat
<1>3. PICK i \in S : t = n - i
  BY <1>2 DEF T
<1>4. ASSUME NEW j \in S PROVE j <= i
  <2>1. n - j \in T
    BY DEF T
  <2> QED
    BY <1>2, <1>3, <2>1
<1> QED
  BY <1>4

\* The property from its invariant.
LEMMA OverridesFollow == OverrideInv => OverridesHold
<1> SUFFICES ASSUME OverrideInv PROVE OverridesHold
  OBVIOUS
<1> DEFINE plan == overridePlan
<1>1. plan \in OverridePlan /\ OverrideType /\ saved \in Seq(Saver)
  BY DEF OverrideInv, OverrideType
<1>2. ASSUME NEW s \in Saver PROVE LastSaved(s) <=> LastIn(plan, saved, s)
  BY DEF LastSaved, LastIn, About, Wants
<1>3. ASSUME NEW scope \in Scopes, Undisturbed(scope), settings[scope].state # "torn" PROVE Agrees(plan, saved, scope, settings[scope])
  BY <1>3 DEF OverrideInv, FilesInv
<1>4. SavedTakesEffect
  <2> SUFFICES ASSUME NEW s \in Saver, LastSaved(s), Undisturbed(Wants(s).scope), settings[Wants(s).scope].state # "torn", Wants(s).op = "save"
               PROVE  Same(Found(Wants(s).name, Wants(s).scope), Wants(s).draft)
    BY DEF SavedTakesEffect
  <2> DEFINE scope == Wants(s).scope
             name == Wants(s).name
             o == Build(plan.base[name], Wants(s).draft)
  <2>1. scope \in Scopes /\ Wants(s) = plan.wants[s]
    BY <1>1, PlanOf DEF Wants
  <2>2. Agrees(plan, saved, scope, settings[scope]) /\ LastIn(plan, saved, s)
    BY <1>2, <1>3, <2>1
  <2>3. name \in DOMAIN settings[scope].overrides /\ settings[scope].overrides[name] = o
    BY <2>1, <2>2 DEF Agrees
  <2>4. o # NoOverride
    BY <1>1, <2>1, DraftAssumption
  <2>5. LET wanted == plan.wants[s].draft IN
          /\ {"guard", "disabled"} \subseteq DOMAIN wanted /\ DOMAIN wanted = DOMAIN plan.base[plan.wants[s].name]
          /\ \A f \in DOMAIN wanted : wanted[f] # Cleared
    BY <1>1, OverridesAssumption
  <2>6. Same(Put(o, plan.base[name]), Wants(s).draft)
    BY <2>1, <2>5, DraftAgain
  <2>7. Found(name, scope) = Put(o, plan.base[name])
    <3> HIDE DEF o, name, scope
    <3> QED
      BY <1>1, <2>1, <2>3, <2>4, FoundIs
  <2> QED
    BY <2>6, <2>7
<1>5. OthersKept
  <2> SUFFICES ASSUME NEW scope \in Scopes, Undisturbed(scope), settings[scope].state # "torn"
      PROVE  /\ settings[scope].other = overridePlan.settings[scope].other
             /\ settings[scope].bulk = overridePlan.settings[scope].bulk
             /\ \A n \in DOMAIN overridePlan.base : AgentKept(scope, n)
    BY DEF OthersKept, Scopes
  <2> DEFINE was == plan.settings[scope]
             now == settings[scope]
             Newest(n) == CHOOSE i \in CallsFor(scope, n) : \A j \in CallsFor(scope, n) : j <= i
  <2>1. Agrees(plan, saved, scope, now)
    BY <1>3
  <2>2. now.other = was.other /\ now.bulk = was.bulk
    BY <2>1 DEF Agrees
  <2>3. ASSUME NEW n, CallsFor(scope, n) = {}
        PROVE  (n \in DOMAIN now.overrides <=> n \in DOMAIN was.overrides) /\ (n \in DOMAIN was.overrides => now.overrides[n] = was.overrides[n])
    <3>1. \A i \in DOMAIN saved : ~ About(plan, saved[i], scope, n)
      BY <2>3 DEF CallsFor, About, Wants
    <3> QED
      BY <2>1, <3>1 DEF Agrees
  <2>4. ASSUME NEW n, CallsFor(scope, n) # {} PROVE n \in DOMAIN now.overrides <=> Wants(saved[Newest(n)]).op = "save"
    <3> DEFINE S == CallsFor(scope, n)
               k == Newest(n)
               len == Len(saved)
    <3>1. len \in Nat /\ DOMAIN saved = 1..len /\ \A i \in DOMAIN saved : saved[i] \in Saver
      BY <1>1, LenProperties, ElementOfSeq
    <3>2. S \subseteq 0..len /\ S # {}
      BY <2>4, <3>1 DEF CallsFor
    <3>3. \E i \in S : \A j \in S : j <= i
      <4> HIDE DEF S
      <4> QED
        BY <3>1, <3>2, GreatestNat
    <3>4. k \in S /\ \A j \in S : j <= k
      BY <3>3
    <3> HIDE DEF k
    <3>5. k \in 1..len /\ Wants(saved[k]).scope = scope /\ Wants(saved[k]).name = n /\ saved[k] \in Saver
      BY <3>1, <3>4 DEF CallsFor
    <3>6. ASSUME NEW j \in (k + 1)..len PROVE ~ About(plan, saved[j], scope, n)
      <4>1. j \in DOMAIN saved /\ ~ (j <= k)
        BY <3>1, <3>5
      <4>2. j \notin S
        BY <3>4, <4>1
      <4> QED
        BY <4>1, <4>2 DEF CallsFor, About, Wants
    <3>7. LastIn(plan, saved, saved[k])
      BY <3>1, <3>5, <3>6 DEF LastIn, Wants
    <3>8. n \in DOMAIN now.overrides <=> plan.wants[saved[k]].op = "save"
      BY <2>1, <3>5, <3>7 DEF Agrees, Wants
    <3> QED
      BY <3>8 DEF Wants, k
  <2>5. ASSUME NEW n \in DOMAIN overridePlan.base PROVE AgentKept(scope, n)
    <3>1. CASE CallsFor(scope, n) = {}
      BY <2>3, <3>1 DEF AgentKept
    <3>2. CASE CallsFor(scope, n) # {}
      <4>1. n \in DOMAIN settings[scope].overrides <=> LatestFor(scope, n).op = "save"
        BY <2>4, <3>2 DEF LatestFor
      <4> QED
        BY <3>2, <4>1 DEF AgentKept
    <3> QED
      BY <3>1, <3>2
  <2>6. \A n \in DOMAIN overridePlan.base : AgentKept(scope, n)
    BY <2>5
  <2> QED
    BY <2>2, <2>6
<1> QED
  BY <1>4, <1>5 DEF OverridesHold

(***************************************************************************)
(* Definitions.  Calls that follow one another leave a file alone until    *)
(* they write it, so what a call has found stays true (Standing); calls    *)
(* that overlap have at least no file in their hands that none of them     *)
(* asks for (Guarded).  A name is looked for among the definitions that    *)
(* were read last: of those with one name there is always one (LastOf).    *)
(***************************************************************************)

LEMMA DefinitionPlanHas ==
  ASSUME definitionPlan \in DefinitionPlan
  PROVE  /\ IsFiniteSet(DOMAIN definitionPlan.files) /\ DOMAIN definitionPlan.files \subseteq FilePath
         /\ \A p \in DOMAIN definitionPlan.files : definitionPlan.files[p] \in Nat \cup {NoName}
         /\ \A c \in Call : /\ Asked(c).op \in {"create", "update", "delete"} /\ Asked(c).kind \in {"agent", "chain"}
                            /\ Asked(c).scope \in {"user", "project", "any"}
                            /\ Asked(c).op = "create" => Asked(c).scope # "any"
                            /\ Asked(c).name \in Nat /\ Asked(c).to \in Nat
                            /\ c \notin FilePath \cup {NoPath, NoName}
         /\ NoName \notin Nat \cup FilePath
<1>1. definitionPlan.calls \in [Call -> [op : {"create", "update", "delete"}, kind : {"agent", "chain"},
                                         scope : {"user", "project", "any"}, name : Nat, to : Nat]]
  BY DefinitionsAssumption
<1>2. \A c \in Call : definitionPlan.calls[c] \in [op : {"create", "update", "delete"}, kind : {"agent", "chain"},
                                                   scope : {"user", "project", "any"}, name : Nat, to : Nat]
  BY <1>1
<1> QED
  BY <1>2, DefinitionsAssumption DEF Asked

\* A path and the one that a renaming leads to.
LEMMA PathFacts ==
  ASSUME NEW p \in FilePath, NEW n \in Nat
  PROVE  /\ p = [dir |-> p.dir, base |-> p.base, ext |-> p.ext]
         /\ [p EXCEPT !.base = n] \in FilePath /\ [p EXCEPT !.base = n].base = n
         /\ ScopeOf([p EXCEPT !.base = n]) = ScopeOf(p) /\ KindOf([p EXCEPT !.base = n]) = KindOf(p)
         /\ ScopeOf(p) \in {"user", "project"} /\ KindOf(p) \in {"agent", "chain"}
BY DEF FilePath, ScopeOf, KindOf

\* The path of a new definition.
LEMMA TargetFacts ==
  ASSUME definitionPlan \in DefinitionPlan, NEW c \in Call, Asked(c).op = "create"
  PROVE  /\ TargetPath(c) \in FilePath /\ TargetPath(c).base = Asked(c).name
         /\ ScopeOf(TargetPath(c)) = Asked(c).scope /\ KindOf(TargetPath(c)) = Asked(c).kind
<1>1. Asked(c).kind \in {"agent", "chain"} /\ Asked(c).scope \in {"user", "project"} /\ Asked(c).name \in Nat
  BY DefinitionPlanHas
<1> DEFINE dir == TargetDir(Asked(c).kind, Asked(c).scope)
           ext == IF Asked(c).kind = "agent" THEN "md" ELSE "chain.md"
<1>2. /\ Asked(c).kind = "agent" => dir \in {"old", "new", "preferred"} /\ ext = "md"
      /\ Asked(c).kind = "chain" => dir \in {"userChains", "projectChains"} /\ ext = "chain.md"
      /\ dir \in {"old", "new", "userChains"} <=> Asked(c).scope = "user"
  BY <1>1 DEF TargetDir
<1>3. TargetPath(c) = [dir |-> dir, base |-> Asked(c).name, ext |-> ext]
  BY DEF TargetPath, Path
<1> HIDE DEF dir, ext
<1> QED
  BY <1>1, <1>2, <1>3 DEF FilePath, ScopeOf, KindOf

\* Of two files of a kind in a scope, one is read after the other.
LEMMA Superseding ==
  ASSUME NEW p \in FilePath, NEW q \in FilePath, NEW r \in FilePath
  PROVE  /\ ~ Supersedes(p, p) /\ ~ (Supersedes(p, q) /\ Supersedes(q, p))
         /\ Supersedes(p, q) /\ Supersedes(q, r) => Supersedes(p, r)
         /\ p # q /\ KindOf(p) = KindOf(q) /\ ScopeOf(p) = ScopeOf(q) => Supersedes(p, q) \/ Supersedes(q, p)
<1>1. ~ Supersedes(p, p) /\ ~ (Supersedes(p, q) /\ Supersedes(q, p))
  BY DEF FilePath, Supersedes
<1>2. Supersedes(p, q) /\ Supersedes(q, r) => Supersedes(p, r)
  BY DEF FilePath, Supersedes
<1>3. p # q /\ KindOf(p) = KindOf(q) /\ ScopeOf(p) = ScopeOf(q) => Supersedes(p, q) \/ Supersedes(q, p)
  <2> SUFFICES ASSUME p # q, KindOf(p) = KindOf(q), ScopeOf(p) = ScopeOf(q), ~ Supersedes(p, q), ~ Supersedes(q, p)
               PROVE  FALSE
    OBVIOUS
  <2>1. p.dir = q.dir /\ p.ext = q.ext
    BY DEF FilePath, Supersedes, KindOf, ScopeOf
  <2>2. p.base = q.base
    BY <2>1 DEF FilePath, Supersedes
  <2> QED
    BY <2>1, <2>2, PathFacts
<1> QED
  BY <1>1, <1>2, <1>3

\* Of some files there is one that none of the others supersedes.
LEMMA SomeLast ==
  ASSUME NEW S, IsFiniteSet(S), S \subseteq FilePath, S # {}
  PROVE  \E p \in S : \A q \in S : ~ Supersedes(q, p)
<1> DEFINE Upper == {T \in SUBSET S : T # {} /\ \A x \in T : \A y \in S : Supersedes(y, x) => y \in T}
           Sizes == {Cardinality(T) : T \in Upper}
<1>1. \A T \in Upper : IsFiniteSet(T) /\ Cardinality(T) \in Nat
  BY FS_Subset, FS_CardinalityType
<1>2. S \in Upper
  OBVIOUS
<1>3. Sizes \subseteq Nat /\ Sizes # {}
  BY <1>1, <1>2
<1>4. PICK n \in Sizes : \A m \in Sizes : n <= m
  <2> HIDE DEF Sizes
  <2> QED
    BY <1>3, LeastNat
<1>5. PICK T \in Upper : n = Cardinality(T)
  OBVIOUS
<1>6. PICK p \in T : TRUE
  OBVIOUS
<1> DEFINE Higher == {y \in T : Supersedes(y, p)}
<1>7. Higher = {}
  <2> SUFFICES ASSUME Higher # {} PROVE FALSE
    OBVIOUS
  <2>1. Higher \subseteq T /\ p \notin Higher
    BY Superseding
  <2>2. ASSUME NEW x \in Higher, NEW y \in S, Supersedes(y, x) PROVE y \in Higher
    <3>1. y \in T
      BY <2>2
    <3>2. Supersedes(y, p)
      BY <2>2, <3>1, Superseding
    <3> QED
      BY <3>1, <3>2
  <2>3. Higher \in Upper
    BY <2>1, <2>2
  <2> HIDE DEF Higher, Upper
  <2>4. Cardinality(Higher) <= Cardinality(T) /\ (Cardinality(T) = Cardinality(Higher) => T = Higher)
    BY <1>1, <2>1, FS_Subset
  <2>5. n <= Cardinality(Higher) /\ Cardinality(Higher) \in Nat /\ Cardinality(T) \in Nat
    BY <1>1, <1>4, <2>3
  <2> QED
    BY <1>5, <1>6, <2>1, <2>4, <2>5
<1> QED
  BY <1>6, <1>7
\* A call between its first step and its last.
AtWork(c) == call[c].pc \in {"unlink", "check", "rename", "open", "write"}

CallRecord ==
  [pc : {"idle", "unlink", "check", "rename", "open", "write", "done", "refused", "failed", "dead"},
   path : FilePath \cup {NoPath}, inode : FilePath \cup Call \cup {NoPath}]
Definition ==
  [inode : FilePath \cup Call, name : Nat \cup {NoName}, text : FilePath \cup Call \cup {NoName}]

DefinitionType ==
  /\ definitionPlan \in DefinitionPlan /\ answered \in Seq(Call)
  /\ IsFiniteSet(DOMAIN definitions) /\ DOMAIN definitions \subseteq FilePath
  /\ definitions \in [DOMAIN definitions -> Definition]
  /\ call \in [Call -> CallRecord]
  /\ \A c \in Call : AtWork(c) => call[c].path \in FilePath

\* No two paths lead to one file, a call has made the files it is said to have made, and a text
\* from the beginning is where it was.
Linked ==
  /\ \A p, q \in DOMAIN definitions : definitions[p].inode = definitions[q].inode => p = q
  /\ \A p \in DOMAIN definitions :
       /\ definitions[p].inode \in Call => call[definitions[p].inode].pc \in {"write", "done", "dead"}
       /\ definitions[p].text \in FilePath => definitions[p].inode = definitions[p].text

\* A file that no call asks for stays, and no call has it in its hands.
Unasked(p) ==
  \A c \in Call : {Asked(c).name, Asked(c).to} \cap {p.base, definitionPlan.files[p]} = {}

Guarded ==
  \A p \in DOMAIN definitionPlan.files : Unasked(p) =>
    /\ p \in DOMAIN definitions /\ definitions[p] = [inode |-> p, name |-> definitionPlan.files[p], text |-> p]
    /\ \A c \in Call : call[c].path # p /\ (call[c].pc = "write" => call[c].inode # p)

\* Calls that follow one another.
InTurn == ~ definitionPlan.overlap => \A c, d \in Call : AtWork(c) /\ AtWork(d) => c = d

\* The name a call will write is that of no other file of its scope, or it was before and the
\* call's file goes before the other.
Clear(c) ==
  LET p == call[c].path IN
  \A q \in DOMAIN definitions \ {p} :
    ScopeOf(q) = ScopeOf(p) /\ definitions[q].name = NewName(c) =>
      /\ Asked(c).op = "update" /\ Asked(c).to = Asked(c).name /\ Alike(definitionPlan.files) # {}
      /\ KindOf(q) = KindOf(p) => Supersedes(p, q)

\* What a call knows of its file, as long as no other call is at work.
Standing(c) ==
  LET p == call[c].path IN
  /\ KindOf(p) = Asked(c).kind /\ (call[c].pc = "unlink" <=> Asked(c).op = "delete")
  /\ call[c].pc \in {"unlink", "check", "rename"} \/ (call[c].pc = "open" /\ Asked(c).op # "create") =>
       p \in DOMAIN definitions /\ definitions[p].inode = call[c].inode /\ definitions[p].name = Asked(c).name
  /\ call[c].pc \in {"check", "rename"} => Asked(c).op = "update" /\ Asked(c).to # Asked(c).name
  /\ call[c].pc = "rename" => NewPath(c) = p \/ NewPath(c) \notin DOMAIN definitions
  /\ call[c].pc \in {"rename", "open", "write"} => Clear(c)
  /\ call[c].pc = "open" /\ Asked(c).op = "create" => p \notin DOMAIN definitions
  /\ call[c].pc = "write" =>
       p \in DOMAIN definitions /\ definitions[p] = [inode |-> call[c].inode, name |-> NoName, text |-> NoName]

Stands == ~ definitionPlan.overlap => \A c \in Call : AtWork(c) => Standing(c)

DefinitionInv == DefinitionType /\ Linked /\ Guarded /\ InTurn /\ Stands /\ NamesStayApart /\ AnswersAreTrue /\ NoneIsLost

\* Of the definitions with a name, one was read last.
LEMMA LastOf ==
  ASSUME DefinitionType, NEW kind, NEW scope, NEW q \in Loaded(kind, scope)
  PROVE  \E p \in LastRead(Loaded(kind, scope)) : definitions[p].name = definitions[q].name
<1> DEFINE S == {p \in Loaded(kind, scope) : definitions[p].name = definitions[q].name}
<1>1. S \subseteq DOMAIN definitions /\ S # {} /\ S \subseteq FilePath /\ S \subseteq Loaded(kind, scope)
  BY DEF DefinitionType, Loaded
<1>2. IsFiniteSet(S)
  <2> HIDE DEF S
  <2> QED
    BY <1>1, FS_Subset DEF DefinitionType
<1>3. PICK p \in S : \A r \in S : ~ Supersedes(r, p)
  <2> HIDE DEF S
  <2> QED
    BY <1>1, <1>2, SomeLast
<1> QED
  BY <1>3 DEF LastRead

\* A name that a file of the scope has is taken, whatever hides that file.
LEMMA NameTaken ==
  ASSUME DefinitionType, NEW q \in DOMAIN definitions, definitions[q].name \in Nat,
         NEW except, except \in DOMAIN definitions => definitions[except].name # definitions[q].name
  PROVE  NameExists(ScopeOf(q), definitions[q].name, except)
<1>1. KindOf(q) \in {"agent", "chain"} /\ q \in Loaded(KindOf(q), ScopeOf(q))
  BY DefinitionsAssumption DEF Loaded, KindOf
<1>2. PICK p \in LastRead(Loaded(KindOf(q), ScopeOf(q))) : definitions[p].name = definitions[q].name
  BY <1>1, LastOf
<1>3. p \in Discovered(KindOf(q), ScopeOf(q)) /\ p \in DOMAIN definitions
  BY <1>2 DEF Discovered, LastRead, Loaded
<1>4. p # except
  BY <1>2, <1>3
<1> QED
  BY <1>1, <1>2, <1>3, <1>4 DEF NameExists

\* Files alike.
LEMMA AlikeIs ==
  ASSUME NEW f
  PROVE  Alike(f) = {} <=> \A x, y \in DOMAIN f : x # y /\ ScopeOf(x) = ScopeOf(y) /\ f[x] = f[y] => f[x] = NoName
<1>1. ASSUME Alike(f) = {}, NEW x \in DOMAIN f, NEW y \in DOMAIN f, x # y, ScopeOf(x) = ScopeOf(y), f[x] = f[y]
      PROVE  f[x] = NoName
  <2>1. <<x, y>> \in (DOMAIN f) \X (DOMAIN f) /\ <<x, y>>[1] = x /\ <<x, y>>[2] = y
    OBVIOUS
  <2>2. <<x, y>> \notin Alike(f)
    BY <1>1
  <2> QED
    BY <1>1, <2>1, <2>2 DEF Alike
<1>2. ASSUME \A x, y \in DOMAIN f : x # y /\ ScopeOf(x) = ScopeOf(y) /\ f[x] = f[y] => f[x] = NoName,
             NEW z \in Alike(f)
      PROVE  FALSE
  <2>1. z[1] \in DOMAIN f /\ z[2] \in DOMAIN f
    BY DEF Alike
  <2> QED
    BY <1>2, <2>1 DEF Alike
<1> QED
  BY <1>1, <1>2

NamesApart(d) ==
  \A x, y \in DOMAIN d : x # y /\ ScopeOf(x) = ScopeOf(y) /\ d[x].name = d[y].name => d[x].name = NoName

LEMMA ApartIs == ASSUME NEW d PROVE Alike([p \in DOMAIN d |-> d[p].name]) = {} <=> NamesApart(d)
<1> DEFINE f == [p \in DOMAIN d |-> d[p].name]
<1>1. DOMAIN f = DOMAIN d /\ \A p \in DOMAIN d : f[p] = d[p].name
  OBVIOUS
<1> HIDE DEF f
<1>2. Alike(f) = {} <=> NamesApart(d)
  BY <1>1, AlikeIs DEF NamesApart
<1> QED
  BY <1>2 DEF f

\* A call goes on.
LEMMA CallGoes ==
  ASSUME DefinitionType, NEW c \in Call, NEW r \in CallRecord, Proceeds(c, r)
  PROVE  /\ definitionPlan' = definitionPlan /\ call' \in [Call -> CallRecord] /\ answered' \in Seq(Call)
         /\ call'[c] = r /\ \A d \in Call : d # c => call'[d] = call[d]
         /\ r.pc \in {"done", "refused", "failed", "dead"} =>
              answered' # <<>> /\ answered'[Len(answered')] = c
<1>1. call \in [Call -> CallRecord] /\ answered \in Seq(Call)
  BY DEF DefinitionType
<1>2. call' = [call EXCEPT ![c] = r] /\ definitionPlan' = definitionPlan
  BY DEF Proceeds
<1>3. answered' = IF r.pc \in {"done", "refused", "failed", "dead"} THEN Append(answered, c) ELSE answered
  BY DEF Proceeds
<1>4. Append(answered, c) \in Seq(Call) /\ Append(answered, c)[Len(Append(answered, c))] = c
      /\ Append(answered, c) # <<>>
  BY <1>1
<1> QED
  BY <1>1, <1>2, <1>3, <1>4

\* Calls that follow one another: while one goes on the others rest.
LEMMA OthersRest ==
  ASSUME DefinitionInv, ~ definitionPlan.overlap, NEW c \in Call,
         AtWork(c) \/ \A d \in Call : call[d].pc = "idle" \/ Over(d)
  PROVE  \A d \in Call : d # c => ~ AtWork(d)
BY DEF DefinitionInv, InTurn, AtWork, Over

\* The definitions that are run under a name, with the files as a parameter.
Readable(d, kind, scope) == {q \in DOMAIN d : KindOf(q) = kind /\ ScopeOf(q) = scope /\ d[q].name # NoName}
RunBy(d, kind, scope, name) ==
  {q \in Readable(d, kind, scope) :
     d[q].name = name /\ \A x \in Readable(d, kind, scope) : d[x].name = d[q].name => ~ Supersedes(x, q)}

LEMMA RunningIs ==
  ASSUME NEW kind, NEW scope, NEW name
  PROVE  /\ Prevails(kind, scope, name) = RunBy(definitions, kind, scope, name)
         /\ Prevails(kind, scope, name)' = RunBy(definitions', kind, scope, name)
BY DEF Prevails, LastRead, Loaded, RunBy, Readable

\* A step of a call that leaves the files alone.
LEMMA QuietStep ==
  ASSUME DefinitionInv, NEW c \in Call, NEW r \in CallRecord, Proceeds(c, r), UNCHANGED definitions,
         r.pc \in {"unlink", "check", "rename", "open", "refused", "failed", "dead"},
         r.pc \in {"unlink", "check", "rename", "open"} => r.path \in FilePath,
         \A p \in DOMAIN definitionPlan.files : Unasked(p) => r.path # p,
         call[c].pc \in {"write", "done", "dead"} => r.pc = "dead" /\ r.inode = call[c].inode,
         ~ definitionPlan.overlap => \A d \in Call : d # c => ~ AtWork(d),
         ~ definitionPlan.overlap /\ AtWork(c)' => Standing(c)'
  PROVE  DefinitionInv'
<1>1. /\ definitionPlan' = definitionPlan /\ call' \in [Call -> CallRecord] /\ answered' \in Seq(Call)
      /\ call'[c] = r /\ \A d \in Call : d # c => call'[d] = call[d]
      /\ r.pc \in {"done", "refused", "failed", "dead"} => answered' # <<>> /\ answered'[Len(answered')] = c
  BY CallGoes DEF DefinitionInv
<1>2. definitions' = definitions
  OBVIOUS
<1>3. DefinitionType'
  BY <1>1, <1>2 DEF DefinitionInv, DefinitionType, AtWork
<1>4. Linked'
  <2>1. \A d \in Call : call[d].pc \in {"write", "done", "dead"} => call'[d].pc \in {"write", "done", "dead"}
    BY <1>1
  <2> QED
    BY <1>2, <2>1 DEF DefinitionInv, Linked
<1>5. Guarded'
  <2> SUFFICES ASSUME NEW p \in DOMAIN definitionPlan.files, Unasked(p)
               PROVE  /\ p \in DOMAIN definitions /\ definitions[p] = [inode |-> p, name |-> definitionPlan.files[p], text |-> p]
                      /\ \A d \in Call : call'[d].path # p /\ (call'[d].pc = "write" => call'[d].inode # p)
    BY <1>1, <1>2 DEF Guarded, Unasked, Asked
  <2> QED
    BY <1>1 DEF DefinitionInv, Guarded
<1>6. InTurn' /\ Stands'
  <2> SUFFICES ASSUME ~ definitionPlan.overlap
               PROVE  (\A d, e \in Call : AtWork(d)' /\ AtWork(e)' => d = e) /\ \A d \in Call : AtWork(d)' => Standing(d)'
    BY <1>1 DEF InTurn, Stands
  <2>1. \A d \in Call : AtWork(d)' => d = c
    BY <1>1 DEF AtWork
  <2> QED
    BY <2>1
<1>7. NamesStayApart'
  BY <1>1, <1>2 DEF DefinitionInv, NamesStayApart
<1>8. AnswersAreTrue'
  <2>1. r.pc \in {"unlink", "check", "rename", "open"} => ~ (call'[c].pc = "idle" \/ Over(c)')
    BY <1>1 DEF Over
  <2>2. r.pc \in {"refused", "failed", "dead"} => answered'[Len(answered')] = c /\ call'[c].pc # "done"
    BY <1>1
  <2> QED
    BY <2>1, <2>2 DEF AnswersAreTrue
<1>9. NoneIsLost'
  <2>1. \A d \in Call : call[d].pc \in {"write", "done", "dead"} =>
          call'[d].pc \in {"write", "done", "dead"} /\ call'[d].inode = call[d].inode
    BY <1>1
  <2> QED
    BY <1>1, <1>2, <2>1 DEF DefinitionInv, NoneIsLost, Asked
<1> QED
  BY <1>3, <1>4, <1>5, <1>6, <1>7, <1>8, <1>9 DEF DefinitionInv

\* No call has a file in its hands that none asks for.
LEMMA HeldPath ==
  ASSUME DefinitionInv, NEW c \in Call, NEW p \in DOMAIN definitionPlan.files, Unasked(p)
  PROVE  call[c].path # p
BY DEF DefinitionInv, Guarded

\* A call returns without having changed anything.
LEMMA ReturnsInv ==
  ASSUME DefinitionInv, NEW c \in Call, NEW pc \in {"refused", "failed", "dead"}, Returns(c, pc), UNCHANGED definitions,
         ~ definitionPlan.overlap => \A d \in Call : d # c => ~ AtWork(d),
         call[c].pc \in {"write", "done", "dead"} => pc = "dead"
  PROVE  DefinitionInv'
<1> DEFINE r == [call[c] EXCEPT !.pc = pc]
<1>1. call[c] \in CallRecord /\ r \in CallRecord /\ r.pc = pc /\ r.path = call[c].path /\ r.inode = call[c].inode
  <2>1. call[c] \in CallRecord
    BY DEF DefinitionInv, DefinitionType
  <2> QED
    BY <2>1 DEF CallRecord
<1>2. Proceeds(c, r)
  BY DEF Returns
<1> HIDE DEF r
<1>3. \A p \in DOMAIN definitionPlan.files : Unasked(p) => r.path # p
  BY <1>1, HeldPath
<1>4. ~ AtWork(c)'
  <2>1. call'[c] = r
    BY <1>1, <1>2, CallGoes DEF DefinitionInv
  <2> QED
    BY <1>1, <2>1 DEF AtWork
<1> QED
  BY <1>1, <1>2, <1>3, <1>4, QuietStep

\* A definition is created unless its name or its path is taken.
LEMMA CreatesInv == ASSUME DefinitionInv, NEW c \in Call, Creates(c) PROVE DefinitionInv'
<1> DEFINE p == TargetPath(c)
           r == [call[c] EXCEPT !.pc = "open", !.path = p]
<1>1. /\ DefinitionType /\ definitionPlan \in DefinitionPlan /\ UNCHANGED definitions
      /\ Asked(c).op = "create" /\ call[c].pc = "idle"
  BY DEF DefinitionInv, DefinitionType, Creates, Asks
<1>2. ~ definitionPlan.overlap => \A d \in Call : d # c => ~ AtWork(d)
  BY OthersRest DEF Creates, Asks
<1>3. p \in FilePath /\ p.base = Asked(c).name /\ ScopeOf(p) = Asked(c).scope /\ KindOf(p) = Asked(c).kind
  BY <1>1, TargetFacts
<1> HIDE DEF p
<1>4. call[c] \in CallRecord /\ r \in CallRecord /\ r.pc = "open" /\ r.path = p
  <2>1. call[c] \in CallRecord
    BY <1>1 DEF DefinitionType
  <2> QED
    BY <1>3, <2>1 DEF CallRecord
<1>5. CASE Returns(c, "refused")
  BY <1>1, <1>2, <1>5, ReturnsInv
<1>6. CASE /\ Holds(c, "open", p) /\ p \notin DOMAIN definitions
           /\ ~ NameExists(Asked(c).scope, Asked(c).name, NoPath)
  <2>1. Proceeds(c, r)
    BY <1>6 DEF Holds
  <2> HIDE DEF r
  <2>2. call'[c] = r /\ definitionPlan' = definitionPlan
    BY <1>1, <1>4, <2>1, CallGoes
  <2>3. ASSUME NEW x \in DOMAIN definitionPlan.files, Unasked(x) PROVE r.path # x
    BY <1>3, <1>4, <2>3 DEF Unasked
  <2>4. Standing(c)'
    <3>1. ASSUME NEW q \in DOMAIN definitions, ScopeOf(q) = ScopeOf(p), definitions[q].name = Asked(c).name PROVE FALSE
      <4>1. Asked(c).name \in Nat /\ NoPath \notin DOMAIN definitions
        <5>1. NoPath \notin FilePath
          BY DEF NoPath, FilePath, Path
        <5> QED
          BY <1>1, <5>1, DefinitionPlanHas DEF DefinitionType
      <4>2. NameExists(ScopeOf(q), definitions[q].name, NoPath)
        BY <1>1, <3>1, <4>1, NameTaken
      <4> QED
        BY <1>3, <1>6, <3>1, <4>2
    <3>2. call'[c].path = p /\ call'[c].pc = "open" /\ Asked(c)' = Asked(c)
      BY <1>4, <2>2 DEF Asked
    <3>3. Clear(c)'
      BY <1>1, <3>1, <3>2 DEF Clear, NewName
    <3> QED
      BY <1>1, <1>3, <1>6, <3>2, <3>3 DEF Standing
  <2> QED
    BY <1>1, <1>2, <1>3, <1>4, <2>1, <2>3, <2>4, QuietStep
<1> QED
  BY <1>5, <1>6 DEF Creates, p

\* An update or a delete finds no definition of its name, or several.
LEMMA FindsNoneInv == ASSUME DefinitionInv, NEW c \in Call, FindsNone(c) PROVE DefinitionInv'
<1>1. ~ definitionPlan.overlap => \A d \in Call : d # c => ~ AtWork(d)
  BY OthersRest DEF FindsNone, Asks
<1> QED
  BY <1>1, ReturnsInv DEF FindsNone, Asks

\* It finds the only one.
LEMMA FindsInv == ASSUME DefinitionInv, NEW c \in Call, Finds(c) PROVE DefinitionInv'
<1>1. /\ DefinitionType /\ definitionPlan \in DefinitionPlan /\ UNCHANGED definitions
      /\ Asked(c).op \in {"update", "delete"} /\ call[c].pc = "idle"
  BY DEF DefinitionInv, DefinitionType, Finds, Asks
<1>2. ~ definitionPlan.overlap => \A d \in Call : d # c => ~ AtWork(d)
  BY OthersRest DEF Finds, Asks
<1> DEFINE pc == IF Asked(c).op = "delete" THEN "unlink" ELSE IF Asked(c).to = Asked(c).name THEN "open" ELSE "check"
<1>3. PICK p \in Candidates(c) :
        Candidates(c) = {p} /\ Proceeds(c, [pc |-> pc, path |-> p, inode |-> definitions[p].inode])
  BY DEF Finds
<1> DEFINE r == [pc |-> pc, path |-> p, inode |-> definitions[p].inode]
<1>4. /\ p \in DOMAIN definitions /\ p \in FilePath /\ definitions[p].name = Asked(c).name /\ Asked(c).name \in Nat
      /\ Asked(c).scope \in {"any", ScopeOf(p)} /\ KindOf(p) = Asked(c).kind
      /\ p \in Discovered(Asked(c).kind, ScopeOf(p))
  <2>1. /\ definitions[p].name = Asked(c).name /\ Asked(c).scope \in {"any", ScopeOf(p)}
        /\ p \in Discovered(Asked(c).kind, "user") \cup Discovered(Asked(c).kind, "project")
    BY DEF Candidates
  <2>2. \A scope : Discovered(Asked(c).kind, scope) \subseteq Loaded(Asked(c).kind, scope)
    BY DEF Discovered, LastRead
  <2>3. p \in DOMAIN definitions /\ KindOf(p) = Asked(c).kind /\ p \in Discovered(Asked(c).kind, ScopeOf(p))
    BY <2>1, <2>2 DEF Loaded
  <2> QED
    BY <1>1, <2>1, <2>3, DefinitionPlanHas DEF DefinitionType
<1>5. r \in CallRecord /\ r.pc = pc /\ r.path = p /\ r.inode = definitions[p].inode /\ pc \in {"unlink", "open", "check"}
  <2>1. definitions[p].inode \in FilePath \cup Call
    BY <1>1, <1>4 DEF DefinitionType, Definition
  <2> QED
    BY <1>4, <2>1 DEF CallRecord
<1>6. Proceeds(c, r)
  BY <1>3
<1>7. /\ pc = "unlink" <=> Asked(c).op = "delete"
      /\ pc = "open" => Asked(c).op = "update" /\ Asked(c).to = Asked(c).name
      /\ pc = "check" => Asked(c).op = "update" /\ Asked(c).to # Asked(c).name
  BY <1>1
<1> HIDE DEF r, pc
<1>8. call'[c] = r /\ definitionPlan' = definitionPlan
  BY <1>1, <1>5, <1>6, CallGoes
<1>9. ASSUME NEW x \in DOMAIN definitionPlan.files, Unasked(x) PROVE r.path # x
  <2>1. {Asked(c).name, Asked(c).to} \cap {x.base, definitionPlan.files[x]} = {}
    BY <1>9 DEF Unasked
  <2>2. definitions[x] = [inode |-> x, name |-> definitionPlan.files[x], text |-> x]
    BY <1>9 DEF DefinitionInv, Guarded
  <2>3. definitions[x].name = definitionPlan.files[x]
    BY <2>2
  <2> QED
    BY <1>4, <1>5, <2>1, <2>3
<1>10. ASSUME ~ definitionPlan.overlap PROVE Standing(c)'
  <2>1. call'[c].path = p /\ call'[c].pc = pc /\ call'[c].inode = definitions[p].inode /\ Asked(c)' = Asked(c)
    BY <1>5, <1>8 DEF Asked
  <2>2. ASSUME pc = "open" PROVE Clear(c)'
    <3>1. ASSUME NEW q \in DOMAIN definitions \ {p}, ScopeOf(q) = ScopeOf(p), definitions[q].name = Asked(c).name
          PROVE  /\ Alike(definitionPlan.files) # {}
                 /\ KindOf(q) = KindOf(p) => Supersedes(p, q)
      <4>1. Alike(definitionPlan.files) # {}
        <5>1. ~ NamesApart(definitions)
          BY <1>4, <3>1, DefinitionsAssumption DEF NamesApart
        <5> QED
          BY <1>10, <5>1, ApartIs DEF DefinitionInv, NamesStayApart
      <4>2. ASSUME KindOf(q) = KindOf(p) PROVE Supersedes(p, q)
        <5>1. q \in Loaded(Asked(c).kind, ScopeOf(p)) /\ q \in FilePath
          BY <1>1, <1>4, <3>1, <4>2, DefinitionsAssumption DEF Loaded, DefinitionType
        <5>2. q \notin Candidates(c)
          BY <1>3, <3>1
        <5>3. q \notin Discovered(Asked(c).kind, ScopeOf(p))
          BY <1>4, <3>1, <5>2, PathFacts DEF Candidates
        <5>4. p \in LastRead(Loaded(Asked(c).kind, ScopeOf(p)))
          BY <1>4, <5>1, <5>3 DEF Discovered
        <5>5. ~ Supersedes(q, p)
          BY <1>4, <3>1, <5>1, <5>4 DEF LastRead
        <5> QED
          BY <1>4, <3>1, <4>2, <5>1, <5>5, Superseding
      <4> QED
        BY <4>1, <4>2
    <3>2. NewName(c)' = Asked(c).name /\ Asked(c).op = "update" /\ Asked(c).to = Asked(c).name
      BY <1>7, <2>1, <2>2 DEF NewName
    <3> QED
      BY <1>1, <1>8, <2>1, <3>1, <3>2 DEF Clear
  <2> QED
    BY <1>1, <1>4, <1>5, <1>7, <2>1, <2>2 DEF Standing
<1> QED
  BY <1>1, <1>2, <1>4, <1>5, <1>6, <1>9, <1>10, QuietStep

\* The name and the path that a definition is to get are free.
LEMMA ChecksNameInv == ASSUME DefinitionInv, NEW c \in Call, ChecksName(c) PROVE DefinitionInv'
<1> DEFINE p == call[c].path
           r == [call[c] EXCEPT !.pc = "rename", !.path = p]
<1>1. /\ DefinitionType /\ definitionPlan \in DefinitionPlan /\ UNCHANGED definitions
      /\ call[c].pc = "check" /\ AtWork(c) /\ p \in FilePath /\ call[c] \in CallRecord
  BY DEF DefinitionInv, DefinitionType, ChecksName, AtWork
<1>2. ~ definitionPlan.overlap => \A d \in Call : d # c => ~ AtWork(d)
  BY <1>1, OthersRest
<1>3. r \in CallRecord /\ r.pc = "rename" /\ r.path = p /\ r.inode = call[c].inode
  BY <1>1 DEF CallRecord
<1>4. CASE Returns(c, "refused")
  BY <1>1, <1>2, <1>4, ReturnsInv
<1>5. CASE /\ Holds(c, "rename", p) /\ ~ NameExists(ScopeOf(p), Asked(c).to, p)
           /\ NewPath(c) \notin DOMAIN definitions \/ NewPath(c) = p
  <2>1. Proceeds(c, r)
    BY <1>5 DEF Holds
  <2> HIDE DEF r
  <2>2. call'[c] = r /\ definitionPlan' = definitionPlan
    BY <1>1, <1>3, <2>1, CallGoes
  <2>3. \A x \in DOMAIN definitionPlan.files : Unasked(x) => r.path # x
    BY <1>3, HeldPath
  <2>4. ASSUME ~ definitionPlan.overlap PROVE Standing(c)'
    <3>1. Standing(c)
      BY <1>1, <2>4 DEF DefinitionInv, Stands
    <3>2. /\ KindOf(p) = Asked(c).kind /\ Asked(c).op = "update" /\ Asked(c).to # Asked(c).name
          /\ p \in DOMAIN definitions /\ definitions[p].inode = call[c].inode /\ definitions[p].name = Asked(c).name
      BY <1>1, <3>1 DEF Standing
    <3>3. ASSUME NEW q \in DOMAIN definitions \ {p}, ScopeOf(q) = ScopeOf(p), definitions[q].name = Asked(c).to PROVE FALSE
      <4>1. Asked(c).to \in Nat
        BY <1>1, DefinitionPlanHas
      <4>2. NameExists(ScopeOf(q), definitions[q].name, p)
        BY <1>1, <3>2, <3>3, <4>1, NameTaken
      <4> QED
        BY <1>5, <3>3, <4>2
    <3>4. call'[c].path = p /\ call'[c].pc = "rename" /\ call'[c].inode = call[c].inode /\ Asked(c)' = Asked(c)
      BY <1>3, <2>2 DEF Asked
    <3>5. Clear(c)'
      BY <1>1, <3>2, <3>3, <3>4 DEF Clear, NewName
    <3>6. NewPath(c)' = NewPath(c)
      BY <3>4 DEF NewPath
    <3> QED
      BY <1>1, <1>5, <3>2, <3>4, <3>5, <3>6 DEF Standing
  <2> QED
    BY <1>1, <1>2, <1>3, <2>1, <2>3, <2>4, QuietStep
<1> QED
  BY <1>4, <1>5 DEF ChecksName

\* The process of a call dies.
LEMMA CallDiesInv == ASSUME DefinitionInv, NEW c \in Call, CallDies(c) PROVE DefinitionInv'
<1>1. AtWork(c) /\ Returns(c, "dead") /\ UNCHANGED definitions
  BY DEF CallDies, AtWork
<1>2. ~ definitionPlan.overlap => \A d \in Call : d # c => ~ AtWork(d)
  BY <1>1, OthersRest
<1> QED
  BY <1>1, <1>2, ReturnsInv

\* A definition moves to its new path.
LEMMA RenamesInv == ASSUME DefinitionInv, NEW c \in Call, Renames(c) PROVE DefinitionInv'
<1> DEFINE p == call[c].path
           n == NewPath(c)
           r == [call[c] EXCEPT !.pc = "open", !.path = n]
           from(q) == IF q = n THEN p ELSE q
<1>1. /\ DefinitionType /\ definitionPlan \in DefinitionPlan
      /\ call[c].pc = "rename" /\ AtWork(c) /\ p \in FilePath /\ call[c] \in CallRecord
  BY DEF DefinitionInv, DefinitionType, Renames, AtWork
<1>2. ~ definitionPlan.overlap => \A d \in Call : d # c => ~ AtWork(d)
  BY <1>1, OthersRest
<1>3. /\ n \in FilePath /\ n.base = Asked(c).to /\ ScopeOf(n) = ScopeOf(p) /\ KindOf(n) = KindOf(p)
  <2>1. Asked(c).to \in Nat
    BY <1>1, DefinitionPlanHas
  <2> QED
    BY <1>1, <2>1, PathFacts DEF NewPath
<1> HIDE DEF n
<1>4. r \in CallRecord /\ r.pc = "open" /\ r.path = n /\ r.inode = call[c].inode
  BY <1>1, <1>3 DEF CallRecord
<1>5. CASE Returns(c, "failed") /\ UNCHANGED definitions
  BY <1>1, <1>2, <1>5, ReturnsInv
<1>6. CASE /\ Holds(c, "open", n) /\ p \in DOMAIN definitions
           /\ definitions' = [q \in (DOMAIN definitions \ {p}) \cup {n} |-> definitions[from(q)]]
  <2>1. Proceeds(c, r)
    BY <1>6 DEF Holds
  <2> HIDE DEF r
  <2>2. /\ definitionPlan' = definitionPlan /\ call' \in [Call -> CallRecord] /\ answered' \in Seq(Call)
        /\ call'[c] = r /\ \A d \in Call : d # c => call'[d] = call[d]
    BY <1>1, <1>4, <2>1, CallGoes
  <2>3. /\ DOMAIN definitions' = (DOMAIN definitions \ {p}) \cup {n}
        /\ \A q \in DOMAIN definitions' : from(q) \in DOMAIN definitions /\ definitions'[q] = definitions[from(q)]
        /\ \A q, x \in DOMAIN definitions' : from(q) = from(x) => q = x
    BY <1>6
  <2>4. \A q \in DOMAIN definitions' : ScopeOf(from(q)) = ScopeOf(q)
    BY <1>3
  <2> HIDE DEF from
  <2>5. DefinitionType'
    <3>1. IsFiniteSet(DOMAIN definitions') /\ DOMAIN definitions' \subseteq FilePath
      <4>1. IsFiniteSet(DOMAIN definitions) /\ DOMAIN definitions \subseteq FilePath
        BY <1>1 DEF DefinitionType
      <4>2. IsFiniteSet(DOMAIN definitions \cup {n})
        BY <4>1, FS_AddElement
      <4>3. DOMAIN definitions' \subseteq DOMAIN definitions \cup {n}
        BY <2>3
      <4>4. IsFiniteSet(DOMAIN definitions')
        BY <4>2, <4>3, FS_Subset
      <4> QED
        BY <1>3, <4>1, <4>3, <4>4
    <3>2. definitions' \in [DOMAIN definitions' -> Definition]
      <4>1. \A q \in DOMAIN definitions' : definitions'[q] \in Definition
        BY <1>1, <2>3 DEF DefinitionType
      <4>2. definitions' = [q \in DOMAIN definitions' |-> definitions'[q]]
        BY <1>6
      <4> QED
        BY <4>1, <4>2
    <3>3. \A d \in Call : AtWork(d)' => call'[d].path \in FilePath
      BY <1>1, <1>3, <1>4, <2>2 DEF DefinitionType, AtWork
    <3> QED
      BY <1>1, <2>2, <3>1, <3>2, <3>3 DEF DefinitionType
  <2>6. Linked'
    <3>1. \A d \in Call : call[d].pc \in {"write", "done", "dead"} => call'[d].pc \in {"write", "done", "dead"}
      BY <1>1, <2>2
    <3>2. \A q, x \in DOMAIN definitions' : definitions'[q].inode = definitions'[x].inode => q = x
      BY <2>3 DEF DefinitionInv, Linked
    <3> QED
      BY <2>3, <3>1, <3>2 DEF DefinitionInv, Linked
  <2>7. Guarded'
    <3> SUFFICES ASSUME NEW x \in DOMAIN definitionPlan.files, Unasked(x)
                 PROVE  /\ x \in DOMAIN definitions' /\ definitions'[x] = [inode |-> x, name |-> definitionPlan.files[x], text |-> x]
                        /\ \A d \in Call : call'[d].path # x /\ (call'[d].pc = "write" => call'[d].inode # x)
      BY <2>2 DEF Guarded, Unasked, Asked
    <3>1. n # x /\ p # x
      <4>1. {Asked(c).name, Asked(c).to} \cap {x.base, definitionPlan.files[x]} = {}
        BY DEF Unasked
      <4> QED
        BY <1>3, <4>1, HeldPath
    <3>2. /\ x \in DOMAIN definitions /\ definitions[x] = [inode |-> x, name |-> definitionPlan.files[x], text |-> x]
          /\ \A d \in Call : call[d].path # x /\ (call[d].pc = "write" => call[d].inode # x)
      BY DEF DefinitionInv, Guarded
    <3>3. x \in DOMAIN definitions' /\ from(x) = x
      BY <2>3, <3>1, <3>2 DEF from
    <3>4. \A d \in Call : call'[d].path # x /\ (call'[d].pc = "write" => call'[d].inode # x)
      BY <1>4, <2>2, <3>1, <3>2
    <3> QED
      BY <2>3, <3>2, <3>3, <3>4
  <2>8. ASSUME ~ definitionPlan.overlap PROVE Standing(c)'
    <3>1. Standing(c)
      BY <1>1, <2>8 DEF DefinitionInv, Stands
    <3>2. /\ KindOf(p) = Asked(c).kind /\ Asked(c).op = "update" /\ Asked(c).to # Asked(c).name
          /\ definitions[p].inode = call[c].inode /\ definitions[p].name = Asked(c).name /\ Clear(c)
      BY <1>1, <3>1 DEF Standing
    <3>3. call'[c].path = n /\ call'[c].pc = "open" /\ call'[c].inode = call[c].inode /\ Asked(c)' = Asked(c)
      BY <1>4, <2>2 DEF Asked
    <3>4. n \in DOMAIN definitions' /\ definitions'[n] = definitions[p]
      BY <2>3 DEF from
    <3>5. ASSUME NEW q \in DOMAIN definitions' \ {n}, ScopeOf(q) = ScopeOf(n), definitions'[q].name = Asked(c).to PROVE FALSE
      <4>1. q \in DOMAIN definitions \ {p} /\ definitions'[q] = definitions[q]
        BY <2>3 DEF from
      <4> QED
        BY <1>3, <3>2, <3>5, <4>1 DEF Clear, NewName
    <3>6. Clear(c)'
      BY <3>2, <3>3, <3>5 DEF Clear, NewName
    <3> QED
      BY <1>3, <3>2, <3>3, <3>4, <3>6 DEF Standing
  <2>9. InTurn' /\ Stands'
    <3> SUFFICES ASSUME ~ definitionPlan.overlap
                 PROVE  (\A d, e \in Call : AtWork(d)' /\ AtWork(e)' => d = e) /\ \A d \in Call : AtWork(d)' => Standing(d)'
      BY <2>2 DEF InTurn, Stands
    <3>1. \A d \in Call : AtWork(d)' => d = c
      BY <1>2, <2>2 DEF AtWork
    <3> QED
      BY <2>8, <3>1
  <2>10. NamesStayApart'
    <3> SUFFICES ASSUME ~ definitionPlan.overlap, Alike(definitionPlan.files) = {} PROVE NamesApart(definitions')
      BY <2>2, ApartIs DEF NamesStayApart
    <3>1. NamesApart(definitions)
      BY ApartIs DEF DefinitionInv, NamesStayApart
    <3> QED
      BY <2>3, <2>4, <3>1 DEF NamesApart
  <2>11. AnswersAreTrue'
    <3>1. ~ (call'[c].pc = "idle" \/ Over(c)')
      BY <1>4, <2>2 DEF Over
    <3> QED
      BY <3>1 DEF AnswersAreTrue
  <2>12. NoneIsLost'
    <3> SUFFICES ASSUME ~ definitionPlan.overlap
                 PROVE  \A x \in DOMAIN definitionPlan.files :
                          \/ \E q \in DOMAIN definitions' : definitions'[q].text = x
                          \/ \E d \in Call : Asked(d).op # "create" /\ call'[d].inode = x /\ call'[d].pc \in {"write", "done", "dead"}
      BY <2>2 DEF NoneIsLost, Asked
    <3>1. \A d \in Call : call[d].pc \in {"write", "done", "dead"} =>
            call'[d].pc \in {"write", "done", "dead"} /\ call'[d].inode = call[d].inode
      BY <1>1, <2>2
    <3>2. n = p \/ n \notin DOMAIN definitions
      BY <1>1 DEF DefinitionInv, Stands, Standing, n
    <3>3. \A q \in DOMAIN definitions : \E y \in DOMAIN definitions' : from(y) = q
      <4> SUFFICES ASSUME NEW q \in DOMAIN definitions PROVE \E y \in DOMAIN definitions' : from(y) = q
        OBVIOUS
      <4>1. CASE q = p
        BY <2>3, <4>1 DEF from
      <4>2. CASE q # p
        <5>1. q # n
          BY <3>2, <4>2
        <5> QED
          BY <2>3, <4>2, <5>1 DEF from
      <4> QED
        BY <4>1, <4>2
    <3>4. \A q \in DOMAIN definitions : \E y \in DOMAIN definitions' : definitions'[y].text = definitions[q].text
      BY <2>3, <3>3
    <3> QED
      BY <3>1, <3>4 DEF DefinitionInv, NoneIsLost
  <2> QED
    BY <2>5, <2>6, <2>7, <2>9, <2>10, <2>11, <2>12 DEF DefinitionInv
<1> QED
  BY <1>5, <1>6 DEF Renames, n

\* writeFileSync opens and empties the file, or creates it.
LEMMA TruncatesInv == ASSUME DefinitionInv, NEW c \in Call, Truncates(c) PROVE DefinitionInv'
<1> DEFINE p == call[c].path
           inode == IF p \in DOMAIN definitions THEN definitions[p].inode ELSE c
           r == [call[c] EXCEPT !.pc = "write", !.inode = inode]
           empty == [inode |-> inode, name |-> NoName, text |-> NoName]
<1>1. /\ DefinitionType /\ definitionPlan \in DefinitionPlan
      /\ call[c].pc = "open" /\ AtWork(c) /\ p \in FilePath /\ call[c] \in CallRecord
  BY DEF DefinitionInv, DefinitionType, Truncates, AtWork
<1>2. ~ definitionPlan.overlap => \A d \in Call : d # c => ~ AtWork(d)
  BY <1>1, OthersRest
<1>3. /\ inode \in FilePath \cup Call /\ empty \in Definition /\ empty.inode = inode /\ empty.name = NoName /\ empty.text = NoName
      /\ NoName \notin FilePath /\ c \notin FilePath /\ NoName \notin Nat
  <2>1. inode \in FilePath \cup Call
    BY <1>1 DEF DefinitionType, Definition
  <2> QED
    BY <1>1, <2>1, DefinitionPlanHas DEF Definition
<1>4. r \in CallRecord /\ r.pc = "write" /\ r.path = p /\ r.inode = inode
  BY <1>1, <1>3 DEF CallRecord
<1>5. Proceeds(c, r) /\ definitions' = [q \in DOMAIN definitions \cup {p} |-> IF q = p THEN empty ELSE definitions[q]]
  BY DEF Truncates
<1>6. (p \in DOMAIN definitions => inode = definitions[p].inode) /\ (p \notin DOMAIN definitions => inode = c)
  OBVIOUS
<1> HIDE DEF r, empty, inode
<1>7. /\ definitionPlan' = definitionPlan /\ call' \in [Call -> CallRecord] /\ answered' \in Seq(Call)
      /\ call'[c] = r /\ \A d \in Call : d # c => call'[d] = call[d]
  BY <1>1, <1>4, <1>5, CallGoes
<1>8. /\ DOMAIN definitions' = DOMAIN definitions \cup {p} /\ definitions'[p] = empty
      /\ \A q \in DOMAIN definitions' : q # p => q \in DOMAIN definitions /\ definitions'[q] = definitions[q]
  BY <1>5
<1>9. DefinitionType'
  <2>1. IsFiniteSet(DOMAIN definitions) /\ DOMAIN definitions \subseteq FilePath
    BY <1>1 DEF DefinitionType
  <2>2. IsFiniteSet(DOMAIN definitions') /\ DOMAIN definitions' \subseteq FilePath
    BY <1>1, <1>8, <2>1, FS_AddElement
  <2>3. \A q \in DOMAIN definitions' : definitions'[q] \in Definition
    BY <1>1, <1>3, <1>8 DEF DefinitionType
  <2>4. definitions' = [q \in DOMAIN definitions' |-> definitions'[q]]
    BY <1>5
  <2>5. definitions' \in [DOMAIN definitions' -> Definition]
    BY <2>3, <2>4
  <2>6. \A d \in Call : AtWork(d)' => call'[d].path \in FilePath
    BY <1>1, <1>4, <1>7 DEF DefinitionType, AtWork
  <2> QED
    BY <1>1, <1>7, <2>2, <2>5, <2>6 DEF DefinitionType
<1>10. ASSUME NEW q \in DOMAIN definitions, q # p PROVE definitions[q].inode # inode
  <2>1. CASE p \in DOMAIN definitions
    BY <1>6, <1>10, <2>1 DEF DefinitionInv, Linked
  <2>2. CASE p \notin DOMAIN definitions
    <3>1. definitions[q].inode # c
      BY <1>1 DEF DefinitionInv, Linked
    <3> QED
      BY <1>6, <2>2, <3>1
  <2> QED
    BY <2>1, <2>2
<1>11. Linked'
  <2>1. \A d \in Call : call[d].pc \in {"write", "done", "dead"} => call'[d].pc \in {"write", "done", "dead"}
    BY <1>1, <1>7
  <2>2. \A q, x \in DOMAIN definitions' : definitions'[q].inode = definitions'[x].inode => q = x
    BY <1>3, <1>8, <1>10 DEF DefinitionInv, Linked
  <2>3. definitions'[p].inode \in Call => call'[definitions'[p].inode].pc \in {"write", "done", "dead"}
    <3>1. CASE p \in DOMAIN definitions
      BY <1>3, <1>6, <1>8, <2>1, <3>1 DEF DefinitionInv, Linked
    <3>2. CASE p \notin DOMAIN definitions
      BY <1>3, <1>4, <1>6, <1>7, <1>8, <3>2
    <3> QED
      BY <3>1, <3>2
  <2>4. ASSUME NEW q \in DOMAIN definitions', q # p
        PROVE  /\ definitions'[q].inode \in Call => call'[definitions'[q].inode].pc \in {"write", "done", "dead"}
               /\ definitions'[q].text \in FilePath => definitions'[q].inode = definitions'[q].text
    BY <1>8, <2>1, <2>4 DEF DefinitionInv, Linked
  <2>5. definitions'[p].text \notin FilePath
    BY <1>3, <1>8
  <2> QED
    BY <2>2, <2>3, <2>4, <2>5 DEF Linked
<1>12. Guarded'
  <2> SUFFICES ASSUME NEW x \in DOMAIN definitionPlan.files, Unasked(x)
               PROVE  /\ x \in DOMAIN definitions' /\ definitions'[x] = [inode |-> x, name |-> definitionPlan.files[x], text |-> x]
                      /\ \A d \in Call : call'[d].path # x /\ (call'[d].pc = "write" => call'[d].inode # x)
    BY <1>7 DEF Guarded, Unasked, Asked
  <2>1. /\ x \in DOMAIN definitions /\ definitions[x] = [inode |-> x, name |-> definitionPlan.files[x], text |-> x]
        /\ \A d \in Call : call[d].path # x /\ (call[d].pc = "write" => call[d].inode # x)
    BY DEF DefinitionInv, Guarded
  <2>2. p # x /\ inode # x
    <3>1. p # x /\ definitions[x].inode = x
      BY <2>1
    <3> QED
      BY <1>10, <2>1, <3>1
  <2>3. \A d \in Call : call'[d].path # x /\ (call'[d].pc = "write" => call'[d].inode # x)
    BY <1>4, <1>7, <2>1, <2>2
  <2> QED
    BY <1>8, <2>1, <2>2, <2>3
<1>13. ASSUME ~ definitionPlan.overlap
       PROVE  /\ Standing(c)
              /\ Asked(c).op = "create" => p \notin DOMAIN definitions
              /\ Asked(c).op # "create" => p \in DOMAIN definitions /\ definitions[p].inode = call[c].inode
  <2>1. Standing(c)
    BY <1>1, <1>13 DEF DefinitionInv, Stands
  <2> QED
    BY <1>1, <2>1 DEF Standing
<1>14. ASSUME ~ definitionPlan.overlap PROVE Standing(c)'
  <2>1. call'[c].path = p /\ call'[c].pc = "write" /\ call'[c].inode = inode /\ Asked(c)' = Asked(c)
    BY <1>4, <1>7 DEF Asked
  <2>2. KindOf(p) = Asked(c).kind /\ Asked(c).op # "delete" /\ Clear(c)
    BY <1>1, <1>13, <1>14 DEF Standing
  <2>3. Clear(c)'
    BY <1>7, <1>8, <2>1, <2>2 DEF Clear, NewName
  <2>4. p \in DOMAIN definitions' /\ definitions'[p] = [inode |-> inode, name |-> NoName, text |-> NoName]
    BY <1>8 DEF empty
  <2> QED
    BY <2>1, <2>2, <2>3, <2>4 DEF Standing
<1>15. InTurn' /\ Stands'
  <2> SUFFICES ASSUME ~ definitionPlan.overlap
               PROVE  (\A d, e \in Call : AtWork(d)' /\ AtWork(e)' => d = e) /\ \A d \in Call : AtWork(d)' => Standing(d)'
    BY <1>7 DEF InTurn, Stands
  <2>1. \A d \in Call : AtWork(d)' => d = c
    BY <1>2, <1>7 DEF AtWork
  <2> QED
    BY <1>14, <2>1
<1>16. NamesStayApart'
  <2> SUFFICES ASSUME ~ definitionPlan.overlap, Alike(definitionPlan.files) = {} PROVE NamesApart(definitions')
    BY <1>7, ApartIs DEF NamesStayApart
  <2>1. NamesApart(definitions)
    BY ApartIs DEF DefinitionInv, NamesStayApart
  <2> QED
    BY <1>3, <1>8, <2>1 DEF NamesApart
<1>17. AnswersAreTrue'
  <2>1. ~ (call'[c].pc = "idle" \/ Over(c)')
    BY <1>4, <1>7 DEF Over
  <2> QED
    BY <2>1 DEF AnswersAreTrue
<1>18. NoneIsLost'
  <2> SUFFICES ASSUME ~ definitionPlan.overlap, NEW x \in DOMAIN definitionPlan.files
               PROVE  \/ \E q \in DOMAIN definitions' : definitions'[q].text = x
                      \/ \E d \in Call : Asked(d).op # "create" /\ call'[d].inode = x /\ call'[d].pc \in {"write", "done", "dead"}
    BY <1>7 DEF NoneIsLost, Asked
  <2>1. CASE \E d \in Call : Asked(d).op # "create" /\ call[d].inode = x /\ call[d].pc \in {"write", "done", "dead"}
    BY <1>1, <1>7, <2>1
  <2>2. CASE \E q \in DOMAIN definitions : definitions[q].text = x
    <3>1. PICK q \in DOMAIN definitions : definitions[q].text = x
      BY <2>2
    <3>2. CASE q # p
      BY <1>8, <3>1, <3>2
    <3>3. CASE q = p
      <4>1. definitions[p].inode = x
        <5>1. x \in FilePath
          BY <1>1, DefinitionPlanHas
        <5> QED
          BY <3>1, <3>3, <5>1 DEF DefinitionInv, Linked
      <4>2. Asked(c).op # "create" /\ call'[c].inode = x /\ call'[c].pc = "write"
        BY <1>4, <1>6, <1>7, <1>13, <3>1, <3>3, <4>1
      <4> QED
        BY <4>2
    <3> QED
      BY <3>2, <3>3
  <2> QED
    BY <2>1, <2>2 DEF DefinitionInv, NoneIsLost
<1> QED
  BY <1>9, <1>11, <1>12, <1>15, <1>16, <1>17, <1>18 DEF DefinitionInv

\* The text is written, wherever the file is by then.
LEMMA FillsInv == ASSUME DefinitionInv, NEW c \in Call, Fills(c) PROVE DefinitionInv'
<1> DEFINE p == call[c].path
           r == [call[c] EXCEPT !.pc = "done"]
           mine(q) == definitions[q].inode = call[c].inode
<1>1. /\ DefinitionType /\ definitionPlan \in DefinitionPlan
      /\ call[c].pc = "write" /\ AtWork(c) /\ p \in FilePath /\ call[c] \in CallRecord
  BY DEF DefinitionInv, DefinitionType, Fills, AtWork
<1>2. ~ definitionPlan.overlap => \A d \in Call : d # c => ~ AtWork(d)
  BY <1>1, OthersRest
<1>3. /\ NewName(c) \in Nat /\ NoName \notin Nat /\ c \notin FilePath
      /\ \A x \in DOMAIN definitionPlan.files : x \in FilePath
  BY <1>1, DefinitionPlanHas DEF NewName
<1>4. r \in CallRecord /\ r.pc = "done" /\ r.path = p /\ r.inode = call[c].inode
  BY <1>1 DEF CallRecord
<1>5. /\ Proceeds(c, r)
      /\ definitions' = [q \in DOMAIN definitions |->
           IF mine(q) THEN [definitions[q] EXCEPT !.name = NewName(c), !.text = c] ELSE definitions[q]]
  BY DEF Fills, Returns
<1> HIDE DEF r
<1>6. /\ definitionPlan' = definitionPlan /\ call' \in [Call -> CallRecord] /\ answered' \in Seq(Call)
      /\ call'[c] = r /\ \A d \in Call : d # c => call'[d] = call[d]
      /\ answered' # <<>> /\ answered'[Len(answered')] = c
  BY <1>1, <1>4, <1>5, CallGoes
<1>7. /\ DOMAIN definitions' = DOMAIN definitions
      /\ \A q \in DOMAIN definitions : definitions[q] \in Definition /\ definitions'[q] \in Definition
      /\ \A q \in DOMAIN definitions : definitions'[q].inode = definitions[q].inode
      /\ \A q \in DOMAIN definitions : mine(q) => definitions'[q].name = NewName(c) /\ definitions'[q].text = c
      /\ \A q \in DOMAIN definitions : ~ mine(q) => definitions'[q] = definitions[q]
  <2>1. DOMAIN definitions' = DOMAIN definitions /\ \A q \in DOMAIN definitions : definitions[q] \in Definition
    BY <1>1, <1>5 DEF DefinitionType
  <2> SUFFICES ASSUME NEW q \in DOMAIN definitions
               PROVE  /\ definitions'[q] \in Definition /\ definitions'[q].inode = definitions[q].inode
                      /\ mine(q) => definitions'[q].name = NewName(c) /\ definitions'[q].text = c
                      /\ ~ mine(q) => definitions'[q] = definitions[q]
    BY <2>1
  <2>2. definitions[q] \in Definition
    BY <2>1
  <2>3. definitions'[q] = IF mine(q) THEN [definitions[q] EXCEPT !.name = NewName(c), !.text = c] ELSE definitions[q]
    BY <1>5
  <2> HIDE DEF mine
  <2> QED
    BY <1>3, <2>2, <2>3 DEF Definition
<1>8. DefinitionType'
  <2>1. definitions' = [q \in DOMAIN definitions' |-> definitions'[q]]
    BY <1>5
  <2>2. definitions' \in [DOMAIN definitions' -> Definition]
    BY <1>7, <2>1
  <2>3. \A d \in Call : AtWork(d)' => call'[d].path \in FilePath
    BY <1>1, <1>4, <1>6 DEF DefinitionType, AtWork
  <2> QED
    BY <1>1, <1>6, <1>7, <2>2, <2>3 DEF DefinitionType
<1>9. Linked'
  <2>1. \A d \in Call : call[d].pc \in {"write", "done", "dead"} => call'[d].pc \in {"write", "done", "dead"}
    BY <1>4, <1>6
  <2>2. \A q \in DOMAIN definitions : definitions'[q].text \in FilePath => definitions'[q].text = definitions[q].text
    BY <1>3, <1>7
  <2> HIDE DEF mine
  <2> QED
    BY <1>7, <2>1, <2>2 DEF DefinitionInv, Linked
<1>10. Guarded'
  <2> SUFFICES ASSUME NEW x \in DOMAIN definitionPlan.files, Unasked(x)
               PROVE  /\ x \in DOMAIN definitions' /\ definitions'[x] = [inode |-> x, name |-> definitionPlan.files[x], text |-> x]
                      /\ \A d \in Call : call'[d].path # x /\ (call'[d].pc = "write" => call'[d].inode # x)
    BY <1>6 DEF Guarded, Unasked, Asked
  <2>1. /\ x \in DOMAIN definitions /\ definitions[x] = [inode |-> x, name |-> definitionPlan.files[x], text |-> x]
        /\ \A d \in Call : call[d].path # x /\ (call[d].pc = "write" => call[d].inode # x)
    BY DEF DefinitionInv, Guarded
  <2>2. ~ mine(x)
    BY <1>1, <2>1
  <2>3. \A d \in Call : call'[d].path # x /\ (call'[d].pc = "write" => call'[d].inode # x)
    BY <1>4, <1>6, <2>1
  <2> QED
    BY <1>7, <2>1, <2>2, <2>3
<1>11. InTurn' /\ Stands'
  <2> SUFFICES ASSUME ~ definitionPlan.overlap
               PROVE  (\A d, e \in Call : AtWork(d)' /\ AtWork(e)' => d = e) /\ \A d \in Call : AtWork(d)' => Standing(d)'
    BY <1>6 DEF InTurn, Stands
  <2>1. \A d \in Call : ~ AtWork(d)'
    BY <1>2, <1>4, <1>6 DEF AtWork
  <2> QED
    BY <2>1
<1>12. ASSUME ~ definitionPlan.overlap
       PROVE  /\ KindOf(p) = Asked(c).kind /\ Asked(c).op # "delete" /\ Clear(c)
              /\ p \in DOMAIN definitions /\ definitions[p].text = NoName
              /\ \A q \in DOMAIN definitions : mine(q) <=> q = p
  <2>1. Standing(c)
    BY <1>1, <1>12 DEF DefinitionInv, Stands
  <2>2. KindOf(p) = Asked(c).kind /\ Asked(c).op # "delete" /\ Clear(c)
    BY <1>1, <2>1 DEF Standing
  <2>3. p \in DOMAIN definitions /\ definitions[p] = [inode |-> call[c].inode, name |-> NoName, text |-> NoName]
    BY <1>1, <2>1 DEF Standing
  <2>4. definitions[p].inode = call[c].inode /\ definitions[p].text = NoName
    BY <2>3
  <2>5. \A q \in DOMAIN definitions : mine(q) <=> q = p
    BY <2>3, <2>4 DEF DefinitionInv, Linked
  <2> QED
    BY <2>2, <2>3, <2>4, <2>5
<1> HIDE DEF mine
<1>13. NamesStayApart'
  <2> SUFFICES ASSUME ~ definitionPlan.overlap, Alike(definitionPlan.files) = {} PROVE NamesApart(definitions')
    BY <1>6, ApartIs DEF NamesStayApart
  <2>1. NamesApart(definitions)
    BY ApartIs DEF DefinitionInv, NamesStayApart
  <2>2. \A q \in DOMAIN definitions : q # p /\ ScopeOf(q) = ScopeOf(p) => definitions[q].name # NewName(c)
    BY <1>12 DEF Clear
  <2>3. /\ DOMAIN definitions' = DOMAIN definitions /\ definitions'[p].name = NewName(c)
        /\ \A q \in DOMAIN definitions : q # p => definitions'[q] = definitions[q]
    BY <1>7, <1>12
  <2> QED
    BY <2>1, <2>2, <2>3 DEF NamesApart
<1>14. AnswersAreTrue'
  <2> SUFFICES ASSUME ~ definitionPlan.overlap
               PROVE  /\ RunBy(definitions', Asked(c).kind, ScopeOf(p), definitions'[p].name) = {p}
                      /\ definitions'[p].text = c
    <3>1. call'[c].path = p /\ call'[c].pc = "done" /\ Asked(c)' = Asked(c)
      BY <1>4, <1>6 DEF Asked
    <3>2. ~ definitionPlan.overlap => Asked(c).op # "delete"
      BY <1>12
    <3> QED
      BY <1>6, <3>1, <3>2, RunningIs DEF AnswersAreTrue
  <2>1. /\ DOMAIN definitions' = DOMAIN definitions /\ p \in DOMAIN definitions
        /\ definitions'[p].name = NewName(c) /\ definitions'[p].text = c
        /\ \A q \in DOMAIN definitions : q # p => definitions'[q] = definitions[q]
    BY <1>7, <1>12
  <2> DEFINE L == Readable(definitions', Asked(c).kind, ScopeOf(p))
  <2>2. L = {q \in DOMAIN definitions : KindOf(q) = Asked(c).kind /\ ScopeOf(q) = ScopeOf(p) /\ definitions'[q].name # NoName}
    BY <2>1 DEF Readable
  <2> HIDE DEF L
  <2>3. p \in L
    BY <1>3, <1>12, <2>1, <2>2
  <2>4. \A q \in L : q \in FilePath /\ (q # p /\ definitions'[q].name = NewName(c) => Supersedes(p, q))
    BY <1>1, <1>12, <2>1, <2>2 DEF Clear, DefinitionType
  <2>5. \A q \in L : definitions'[q].name = NewName(c) => ~ Supersedes(q, p)
    BY <1>1, <2>4, Superseding
  <2>6. RunBy(definitions', Asked(c).kind, ScopeOf(p), definitions'[p].name)
          = {q \in L : definitions'[q].name = definitions'[p].name
                       /\ \A x \in L : definitions'[x].name = definitions'[q].name => ~ Supersedes(x, q)}
    BY DEF RunBy, L
  <2> QED
    BY <2>1, <2>3, <2>4, <2>5, <2>6
<1>15. NoneIsLost'
  <2> SUFFICES ASSUME ~ definitionPlan.overlap, NEW x \in DOMAIN definitionPlan.files
               PROVE  \/ \E q \in DOMAIN definitions' : definitions'[q].text = x
                      \/ \E d \in Call : Asked(d).op # "create" /\ call'[d].inode = x /\ call'[d].pc \in {"write", "done", "dead"}
    BY <1>6 DEF NoneIsLost, Asked
  <2>1. CASE \E d \in Call : Asked(d).op # "create" /\ call[d].inode = x /\ call[d].pc \in {"write", "done", "dead"}
    BY <1>4, <1>6, <2>1
  <2>2. CASE \E q \in DOMAIN definitions : definitions[q].text = x
    <3>1. PICK q \in DOMAIN definitions : definitions[q].text = x
      BY <2>2
    <3>2. NoName \notin FilePath /\ x \in FilePath
      BY <1>1, <1>3, DefinitionPlanHas
    <3>3. q # p
      BY <1>12, <3>1, <3>2
    <3> QED
      BY <1>7, <1>12, <3>1, <3>3
  <2> QED
    BY <2>1, <2>2 DEF DefinitionInv, NoneIsLost
<1> QED
  BY <1>8, <1>9, <1>10, <1>11, <1>13, <1>14, <1>15 DEF DefinitionInv

\* A definition is deleted.
LEMMA RemovesInv == ASSUME DefinitionInv, NEW c \in Call, Removes(c) PROVE DefinitionInv'
<1> DEFINE p == call[c].path
           r == [call[c] EXCEPT !.pc = "done"]
<1>1. /\ DefinitionType /\ definitionPlan \in DefinitionPlan
      /\ call[c].pc = "unlink" /\ AtWork(c) /\ p \in FilePath /\ call[c] \in CallRecord
  BY DEF DefinitionInv, DefinitionType, Removes, AtWork
<1>2. ~ definitionPlan.overlap => \A d \in Call : d # c => ~ AtWork(d)
  BY <1>1, OthersRest
<1>3. r \in CallRecord /\ r.pc = "done" /\ r.path = p /\ r.inode = call[c].inode
  BY <1>1 DEF CallRecord
<1>4. CASE Returns(c, "failed") /\ UNCHANGED definitions
  BY <1>1, <1>2, <1>4, ReturnsInv
<1>5. CASE Returns(c, "done") /\ definitions' = [q \in DOMAIN definitions \ {p} |-> definitions[q]]
  <2>1. Proceeds(c, r)
    BY <1>5 DEF Returns
  <2> HIDE DEF r
  <2>2. /\ definitionPlan' = definitionPlan /\ call' \in [Call -> CallRecord] /\ answered' \in Seq(Call)
        /\ call'[c] = r /\ \A d \in Call : d # c => call'[d] = call[d]
        /\ answered' # <<>> /\ answered'[Len(answered')] = c
    BY <1>1, <1>3, <2>1, CallGoes
  <2>3. /\ DOMAIN definitions' = DOMAIN definitions \ {p}
        /\ \A q \in DOMAIN definitions' : definitions'[q] = definitions[q]
    BY <1>5
  <2>4. DefinitionType'
    <3>1. IsFiniteSet(DOMAIN definitions') /\ DOMAIN definitions' \subseteq FilePath
      <4>1. IsFiniteSet(DOMAIN definitions) /\ DOMAIN definitions \subseteq FilePath
        BY <1>1 DEF DefinitionType
      <4> QED
        BY <2>3, <4>1, FS_RemoveElement
    <3>2. definitions' \in [DOMAIN definitions' -> Definition]
      <4>1. \A q \in DOMAIN definitions' : definitions'[q] \in Definition
        BY <1>1, <2>3 DEF DefinitionType
      <4>2. definitions' = [q \in DOMAIN definitions' |-> definitions'[q]]
        BY <1>5
      <4> QED
        BY <4>1, <4>2
    <3>3. \A d \in Call : AtWork(d)' => call'[d].path \in FilePath
      BY <1>1, <1>3, <2>2 DEF DefinitionType, AtWork
    <3> QED
      BY <1>1, <2>2, <3>1, <3>2, <3>3 DEF DefinitionType
  <2>5. Linked'
    <3>1. \A d \in Call : call[d].pc \in {"write", "done", "dead"} => call'[d].pc \in {"write", "done", "dead"}
      BY <1>1, <2>2
    <3> QED
      BY <2>3, <3>1 DEF DefinitionInv, Linked
  <2>6. Guarded'
    <3> SUFFICES ASSUME NEW x \in DOMAIN definitionPlan.files, Unasked(x)
                 PROVE  /\ x \in DOMAIN definitions' /\ definitions'[x] = [inode |-> x, name |-> definitionPlan.files[x], text |-> x]
                        /\ \A d \in Call : call'[d].path # x /\ (call'[d].pc = "write" => call'[d].inode # x)
      BY <2>2 DEF Guarded, Unasked, Asked
    <3>1. /\ x \in DOMAIN definitions /\ definitions[x] = [inode |-> x, name |-> definitionPlan.files[x], text |-> x]
          /\ \A d \in Call : call[d].path # x /\ (call[d].pc = "write" => call[d].inode # x)
      BY DEF DefinitionInv, Guarded
    <3>2. \A d \in Call : call'[d].path # x /\ (call'[d].pc = "write" => call'[d].inode # x)
      BY <1>3, <2>2, <3>1
    <3> QED
      BY <2>3, <3>1, <3>2
  <2>7. InTurn' /\ Stands'
    <3> SUFFICES ASSUME ~ definitionPlan.overlap
                 PROVE  (\A d, e \in Call : AtWork(d)' /\ AtWork(e)' => d = e) /\ \A d \in Call : AtWork(d)' => Standing(d)'
      BY <2>2 DEF InTurn, Stands
    <3>1. \A d \in Call : ~ AtWork(d)'
      BY <1>2, <1>3, <2>2 DEF AtWork
    <3> QED
      BY <3>1
  <2>8. ASSUME ~ definitionPlan.overlap
        PROVE  /\ Asked(c).op = "delete" /\ KindOf(p) = Asked(c).kind
               /\ p \in DOMAIN definitions /\ definitions[p].inode = call[c].inode /\ definitions[p].name = Asked(c).name
    BY <1>1, <2>8 DEF DefinitionInv, Stands, Standing
  <2>9. NamesStayApart'
    <3> SUFFICES ASSUME ~ definitionPlan.overlap, Alike(definitionPlan.files) = {} PROVE NamesApart(definitions')
      BY <2>2, ApartIs DEF NamesStayApart
    <3>1. NamesApart(definitions)
      BY ApartIs DEF DefinitionInv, NamesStayApart
    <3> QED
      BY <2>3, <3>1 DEF NamesApart
  <2>10. AnswersAreTrue'
    <3> SUFFICES ASSUME ~ definitionPlan.overlap, Alike(definitionPlan.files) = {}
                 PROVE  RunBy(definitions', Asked(c).kind, ScopeOf(p), Asked(c).name) = {}
      <4>1. call'[c].path = p /\ Asked(c)' = Asked(c)
        BY <1>3, <2>2 DEF Asked
      <4>2. ~ definitionPlan.overlap => Asked(c).op = "delete"
        BY <2>8
      <4> QED
        BY <2>2, <4>1, <4>2, RunningIs DEF AnswersAreTrue
    <3>1. NamesApart(definitions)
      BY ApartIs DEF DefinitionInv, NamesStayApart
    <3>2. Asked(c).name # NoName
      BY <1>1, DefinitionPlanHas
    <3>3. \A q \in DOMAIN definitions' : ~ (ScopeOf(q) = ScopeOf(p) /\ definitions'[q].name = Asked(c).name)
      BY <2>3, <2>8, <3>1, <3>2 DEF NamesApart
    <3> QED
      BY <3>3 DEF RunBy, Readable
  <2>11. NoneIsLost'
    <3> SUFFICES ASSUME ~ definitionPlan.overlap, NEW x \in DOMAIN definitionPlan.files
                 PROVE  \/ \E q \in DOMAIN definitions' : definitions'[q].text = x
                        \/ \E d \in Call : Asked(d).op # "create" /\ call'[d].inode = x /\ call'[d].pc \in {"write", "done", "dead"}
      BY <2>2 DEF NoneIsLost, Asked
    <3>1. CASE \E d \in Call : Asked(d).op # "create" /\ call[d].inode = x /\ call[d].pc \in {"write", "done", "dead"}
      BY <1>1, <2>2, <3>1
    <3>2. CASE \E q \in DOMAIN definitions : definitions[q].text = x
      <4>1. PICK q \in DOMAIN definitions : definitions[q].text = x
        BY <3>2
      <4>2. CASE q # p
        BY <2>3, <4>1, <4>2
      <4>3. CASE q = p
        <5>1. x \in FilePath
          BY <1>1, DefinitionPlanHas
        <5>2. definitions[p].inode = x
          BY <4>1, <4>3, <5>1 DEF DefinitionInv, Linked
        <5>3. Asked(c).op # "create" /\ call'[c].inode = x /\ call'[c].pc = "done"
          BY <1>3, <2>2, <2>8, <5>2
        <5> QED
          BY <5>3
      <4> QED
        BY <4>2, <4>3
    <3> QED
      BY <3>1, <3>2 DEF DefinitionInv, NoneIsLost
  <2> QED
    BY <2>4, <2>5, <2>6, <2>7, <2>9, <2>10, <2>11 DEF DefinitionInv
<1> QED
  BY <1>4, <1>5 DEF Removes

\* The invariant holds at first.
LEMMA DefinitionsStart == DefinitionsInit => DefinitionInv
<1> SUFFICES ASSUME DefinitionsInit PROVE DefinitionInv
  OBVIOUS
<1> DEFINE files == definitionPlan.files
           first(p) == [inode |-> p, name |-> files[p], text |-> p]
<1>1. /\ definitionPlan \in DefinitionPlan /\ answered = <<>> /\ call = [c \in Call |-> Resting]
      /\ definitions = [p \in DOMAIN files |-> first(p)]
  BY DEF DefinitionsInit
<1>2. /\ IsFiniteSet(DOMAIN files) /\ DOMAIN files \subseteq FilePath
      /\ \A p \in DOMAIN files : files[p] \in Nat \cup {NoName}
      /\ \A c \in Call : c \notin FilePath
  BY <1>1, DefinitionPlanHas
<1>3. Resting \in CallRecord /\ Resting.pc = "idle" /\ Resting.path = NoPath /\ NoPath \notin FilePath
  <2>1. NoPath \notin FilePath
    BY DEF NoPath, Path, FilePath
  <2> QED
    BY <2>1 DEF Resting, CallRecord
<1>4. \A c \in Call : call[c] = Resting /\ ~ AtWork(c)
  BY <1>1, <1>3 DEF AtWork
<1>5. DOMAIN definitions = DOMAIN files /\ \A p \in DOMAIN files : definitions[p] = first(p)
  BY <1>1
<1>6. \A p \in DOMAIN files : /\ first(p) \in Definition /\ first(p).inode = p /\ first(p).name = files[p] /\ first(p).text = p
  BY <1>2 DEF Definition
<1>7. DefinitionType
  <2>1. definitions \in [DOMAIN definitions -> Definition]
    BY <1>1, <1>5, <1>6
  <2> QED
    BY <1>1, <1>2, <1>3, <1>4, <1>5, <2>1 DEF DefinitionType
<1>8. Guarded
  BY <1>2, <1>3, <1>4, <1>5 DEF Guarded
<1> HIDE DEF first
<1>9. Linked
  BY <1>2, <1>5, <1>6 DEF Linked
<1>10. InTurn /\ Stands
  BY <1>4 DEF InTurn, Stands
<1>11. NamesStayApart
  <2>1. Alike(files) = {} => NamesApart(definitions)
    BY <1>5, <1>6, AlikeIs DEF NamesApart
  <2> QED
    BY <2>1, ApartIs DEF NamesStayApart
<1>12. AnswersAreTrue /\ NoneIsLost
  <2>1. AnswersAreTrue
    BY <1>1 DEF AnswersAreTrue
  <2>2. NoneIsLost
    BY <1>5, <1>6 DEF NoneIsLost
  <2> QED
    BY <2>1, <2>2
<1> QED
  BY <1>7, <1>8, <1>9, <1>10, <1>11, <1>12 DEF DefinitionInv

LEMMA DefinitionsSteps == DefinitionInv /\ (UNCHANGED definitionVars \/ DefinitionsNext) => DefinitionInv'
<1>1. ASSUME DefinitionInv, UNCHANGED definitionVars PROVE DefinitionInv'
  <2>1. definitionPlan' = definitionPlan /\ definitions' = definitions /\ call' = call /\ answered' = answered
    BY <1>1 DEF definitionVars
  <2>2. DefinitionType' /\ Linked' /\ Guarded' /\ InTurn'
    BY <1>1, <2>1 DEF DefinitionInv, DefinitionType, Linked, Guarded, InTurn, AtWork, Unasked, Asked
  <2>3. Stands'
    BY <1>1, <2>1 DEF DefinitionInv, Stands, AtWork, Standing, Clear, NewPath, NewName, Asked
  <2>4. NamesStayApart' /\ NoneIsLost'
    BY <1>1, <2>1 DEF DefinitionInv, NamesStayApart, NoneIsLost, Asked
  <2>5. AnswersAreTrue'
    BY <1>1, <2>1 DEF DefinitionInv, AnswersAreTrue, Over, Prevails, LastRead, Loaded, Asked
  <2> QED
    BY <2>2, <2>3, <2>4, <2>5 DEF DefinitionInv
<1>2. ASSUME DefinitionInv, DefinitionsNext PROVE DefinitionInv'
  BY <1>2, CreatesInv, FindsNoneInv, FindsInv, ChecksNameInv, RenamesInv, TruncatesInv, FillsInv, RemovesInv, CallDiesInv
     DEF DefinitionsNext
<1> QED
  BY <1>1, <1>2

LEMMA DefinitionsFollow == DefinitionInv => DefinitionsHold
<1>1. DefinitionInv => OthersUntouched
  <2> SUFFICES ASSUME DefinitionInv, NEW p \in DOMAIN definitionPlan.files, Unasked(p)
               PROVE  p \in DOMAIN definitions /\ definitions[p].text = p
    BY DEF OthersUntouched, Unasked
  <2>1. p \in DOMAIN definitions /\ definitions[p] = [inode |-> p, name |-> definitionPlan.files[p], text |-> p]
    BY DEF DefinitionInv, Guarded
  <2> QED
    BY <2>1
<1> QED
  BY <1>1 DEF DefinitionInv, DefinitionsHold

(********************************* Skills **********************************)

\* How often a value stands in a sequence.
Count(s, x) == Cardinality({i \in DOMAIN s : s[i] = x})

\* A content the cache may hold, and an answer to one name.
CachedSkill == [path : SkillFile, mtime : Nat, text : Nat]
SkillFileType ==
  skillFile \in [SkillFile -> [there : BOOLEAN, mtime : Nat, text : Nat, blurred : BOOLEAN]]

\* A cache with one content for a file, read at its time or before; a content of the
\* file's time is that of the file, unless it was written twice in that millisecond.
HeldSkills(held) ==
  /\ held \in Seq(CachedSkill) /\ Len(held) <= MaxCached
  /\ \A i, j \in DOMAIN held : held[i].path = held[j].path => i = j
  /\ \A i \in DOMAIN held : LET file == skillFile[held[i].path] IN
       /\ held[i].mtime <= file.mtime
       /\ held[i].mtime = file.mtime => file.blurred \/ held[i].text = file.text

\* A list that leads to files, made at any time.
Listed(list) == \A e \in list.entries : e.path \in SkillFile

SkillsInv ==
  /\ SkillFileType /\ skillClock \in Nat /\ changes \in Nat
  /\ \A path \in SkillFile : skillFile[path].mtime <= skillClock
  /\ HeldSkills(contents) /\ Listed(listing)
  /\ listing = [cwd |-> listing.cwd, entries |-> listing.entries, young |-> listing.young]
  /\ listing.young \in BOOLEAN

\* What the search finds now, and whether a list is of another directory, too old, or that.
FreshList(cwd) == [cwd |-> cwd, entries |-> BestSkills(Entries(cwd)), young |-> TRUE]
UpToDate(list, cwd) == list.cwd = cwd /\ list.young => list = FreshList(cwd)
Fitting0(cwd, name) == {e \in Entries(cwd) : e.name = name}

\* What a call has read and answered so far, and an answer that is right and the best.
KeptRight(s) ==
  /\ s = [list |-> s.list, held |-> s.held, resolved |-> s.resolved, missing |-> s.missing]
  /\ HeldSkills(s.held) /\ Listed(s.list)
  /\ s.list = [cwd |-> s.list.cwd, entries |-> s.list.entries, young |-> s.list.young] /\ s.list.young \in BOOLEAN

RightAnswer(r) == r.name # Reserved /\ skillFile[r.path].there /\ (skillFile[r.path].blurred \/ r.text = skillFile[r.path].text)
BestAnswer(r) == \E e \in Fitting0(r.cwd, r.name) :
  e.path = r.path /\ \A f \in Fitting0(r.cwd, r.name) : Priority[f.source] <= Priority[e.source]

\* A priority is a number up to 700.
LEMMA PriorityNat == \A s \in SkillSource : Priority[s] \in Nat /\ Priority[s] <= 700
<1> SUFFICES ASSUME NEW s \in SkillSource PROVE Priority[s] \in Nat /\ Priority[s] <= 700
  OBVIOUS
<1>1. Priority[s] = CASE s = "project" -> 700 [] s = "project-settings" -> 650 [] s = "project-package" -> 600
      [] s = "user" -> 300 [] s = "user-settings" -> 250 [] s = "user-package" -> 200
      [] s = "extension" -> 150 [] s = "builtin" -> 100 [] s = "unknown" -> 0
  BY DEF Priority
<1>2. s \in {"project", "project-settings", "project-package", "user", "user-settings", "user-package", "extension", "builtin", "unknown"}
  BY DEF SkillSource
<1> HIDE DEF Priority
<1>3. CASE s = "project"
  BY <1>1, <1>3
<1>4. CASE s = "project-settings"
  BY <1>1, <1>4
<1>5. CASE s = "project-package"
  BY <1>1, <1>5
<1>6. CASE s = "user"
  BY <1>1, <1>6
<1>7. CASE s = "user-settings"
  BY <1>1, <1>7
<1>8. CASE s = "user-package"
  BY <1>1, <1>8
<1>9. CASE s = "extension"
  BY <1>1, <1>9
<1>10. CASE s = "builtin"
  BY <1>1, <1>10
<1>11. CASE s = "unknown"
  BY <1>1, <1>11
<1> QED
  BY <1>2, <1>3, <1>4, <1>5, <1>6, <1>7, <1>8, <1>9, <1>10, <1>11

\* A list of entries has, for each name there is, one of the greatest priority.
LEMMA BestThere ==
  ASSUME NEW cwd \in DOMAIN SearchOf, NEW name, Fitting0(cwd, name) # {}
  PROVE  \E e \in BestSkills(Entries(cwd)) : e.name = name
<1> DEFINE all == Fitting0(cwd, name)
           falls == {700 - Priority[e.source] : e \in all}
<1>1. \A e \in all : e.order \in Nat /\ e.source \in SkillSource /\ e = [order |-> e.order, path |-> SearchOf[cwd][e.order].path,
        name |-> SearchOf[cwd][e.order].name, source |-> SearchOf[cwd][e.order].source]
  BY SkillsAssumption DEF Entries, Fitting0
<1>2. \A s \in SkillSource : Priority[s] \in Nat /\ Priority[s] <= 700
  BY PriorityNat
<1>3. PICK n \in falls : \A m \in falls : n <= m
  <2>1. falls \subseteq Nat /\ falls # {}
    BY <1>1, <1>2
  <2> HIDE DEF falls
  <2> QED
    BY <2>1, LeastNat
<1> DEFINE top == {e \in all : 700 - Priority[e.source] = n}
           orders == {e.order : e \in top}
<1>4. PICK k \in orders : \A m \in orders : k <= m
  <2>1. orders \subseteq Nat /\ orders # {}
    BY <1>1, <1>3
  <2> HIDE DEF orders
  <2> QED
    BY <2>1, LeastNat
<1>5. PICK e \in top : e.order = k
  BY <1>4
<1>6. e \in Entries(cwd) /\ e.name = name
  BY DEF Fitting0
<1>7. ASSUME NEW f \in Entries(cwd), f.name = e.name, f # e PROVE Beats(e, f)
  <2>1. f \in all
    BY <1>6, <1>7 DEF Fitting0
  <2>2. f.order # e.order
    BY <1>1, <1>7, <2>1
  <2>3. Priority[e.source] \in Nat /\ Priority[f.source] \in Nat /\ Priority[e.source] >= Priority[f.source]
    <3>1. 700 - Priority[f.source] \in falls
      BY <2>1
    <3>2. n <= 700 - Priority[f.source] /\ n = 700 - Priority[e.source]
      BY <1>3, <3>1
    <3> HIDE DEF falls, orders, all
    <3>3. Priority[e.source] \in Nat /\ Priority[f.source] \in Nat
      BY <1>1, <1>2, <2>1 DEF top
    <3> QED
      BY <3>2, <3>3
  <2>4. CASE Priority[e.source] = Priority[f.source]
    <3>1. f \in top
      BY <2>1, <2>4
    <3>2. e.order <= f.order
      BY <1>4, <1>5, <3>1
    <3> QED
      BY <1>1, <2>1, <2>2, <2>4, <3>2 DEF Beats
  <2> QED
    BY <2>3, <2>4 DEF Beats
<1> QED
  BY <1>6, <1>7 DEF BestSkills

\* And that one is the best.
LEMMA BestIsBest ==
  ASSUME NEW cwd \in DOMAIN SearchOf, NEW e \in BestSkills(Entries(cwd))
  PROVE  e \in Fitting0(cwd, e.name) /\ skillFile[e.path].there /\ e.path \in SkillFile
           /\ \A f \in Fitting0(cwd, e.name) : Priority[f.source] <= Priority[e.source]
<1>1. e \in Entries(cwd) /\ skillFile[e.path].there /\ e.path \in SkillFile
  BY SkillsAssumption DEF BestSkills, Entries
<1>2. \A f \in Entries(cwd) : Priority[f.source] \in Nat
  BY SkillsAssumption, PriorityNat DEF Entries
<1>3. ASSUME NEW f \in Fitting0(cwd, e.name) PROVE Priority[f.source] <= Priority[e.source]
  <2>1. f \in Entries(cwd) /\ f.name = e.name
    BY DEF Fitting0
  <2>2. f = e \/ Beats(e, f)
    BY <2>1 DEF BestSkills
  <2> QED
    BY <1>1, <1>2, <2>1, <2>2 DEF Beats
<1> QED
  BY <1>1, <1>3 DEF Fitting0

\* Reading a file through the cache keeps the cache, and gives the text it has.
LEMMA RefreshedKeeps ==
  ASSUME SkillFileType, NEW held, HeldSkills(held), NEW entry, entry.path \in SkillFile
  PROVE  /\ HeldSkills(Refreshed(entry, held))
         /\ \E i \in DOMAIN Refreshed(entry, held) : Refreshed(entry, held)[i].path = entry.path
         /\ \A i \in DOMAIN Refreshed(entry, held) : Refreshed(entry, held)[i].path = entry.path =>
              skillFile[entry.path].blurred \/ Refreshed(entry, held)[i].text = skillFile[entry.path].text
<1> DEFINE file == skillFile[entry.path]
           new == [path |-> entry.path, mtime |-> file.mtime, text |-> file.text]
           at == Cached(entry.path, held)
           t == Refreshed(entry, held)
<1>1. new \in CachedSkill /\ file.mtime \in Nat
  BY DEF SkillFileType, CachedSkill
<1>2. new.path = entry.path /\ new.mtime = file.mtime /\ new.text = file.text
  OBVIOUS
<1>3. at = {i \in DOMAIN held : held[i].path = entry.path}
  BY DEF Cached
<1>4. held \in Seq(CachedSkill) /\ Len(held) \in Nat /\ Len(held) <= MaxCached /\ DOMAIN held = 1..Len(held)
  BY DEF HeldSkills
<1>5. MaxCached \in Nat /\ MaxCached >= 1
  BY SkillsAssumption
<1>6. CASE \E i \in at : held[i].mtime = file.mtime
  <2>1. t = held
    BY <1>6 DEF Refreshed
  <2> QED
    BY <1>3, <1>6, <2>1 DEF HeldSkills
<1>7. CASE ~ (\E i \in at : held[i].mtime = file.mtime) /\ at # {}
  <2>1. t = [i \in DOMAIN held |-> IF i \in at THEN new ELSE held[i]]
    BY <1>7 DEF Refreshed
  <2> HIDE DEF t, new, at
  <2>2. t \in Seq(CachedSkill) /\ Len(t) = Len(held) /\ DOMAIN t = DOMAIN held
    BY <1>1, <1>4, <2>1
  <2>3. \A i \in DOMAIN t : t[i].path = held[i].path
    BY <1>2, <1>3, <2>1
  <2>4. \A i \in DOMAIN t : LET f == skillFile[t[i].path] IN
          t[i].mtime <= f.mtime /\ (t[i].mtime = f.mtime => f.blurred \/ t[i].text = f.text)
    <3> TAKE i \in DOMAIN t
    <3>1. CASE i \in at
      BY <1>1, <1>2, <2>1, <2>2, <3>1
    <3>2. CASE i \notin at
      BY <2>1, <2>2, <3>2 DEF HeldSkills
    <3> QED
      BY <3>1, <3>2
  <2>5. HeldSkills(t)
    BY <1>4, <2>2, <2>3, <2>4 DEF HeldSkills
  <2>6. \A i \in DOMAIN t : t[i].path = entry.path => t[i] = new
    BY <1>3, <2>1, <2>2, <2>3
  <2>7. \E i \in DOMAIN t : t[i].path = entry.path
    BY <1>3, <1>7, <2>2, <2>3
  <2> QED
    BY <1>2, <2>5, <2>6, <2>7 DEF t
<1>8. CASE at = {}
  <2> DEFINE rest == IF Len(held) = MaxCached THEN Tail(held) ELSE held
  <2>1. t = Append(rest, new)
    BY <1>8 DEF Refreshed
  <2>2. /\ rest \in Seq(CachedSkill) /\ Len(rest) \in Nat /\ Len(rest) < MaxCached /\ DOMAIN rest = 1..Len(rest)
        /\ \E d \in {0, 1} : Len(rest) + d <= Len(held) /\ \A i \in 1..Len(rest) : rest[i] = held[i + d] /\ i + d \in DOMAIN held
    <3>1. CASE Len(held) = MaxCached
      <4>1. rest = Tail(held) /\ held # <<>>
        BY <1>4, <1>5, <3>1
      <4>2. Tail(held) \in Seq(CachedSkill) /\ Len(Tail(held)) = Len(held) - 1 /\ \A i \in 1..Len(Tail(held)) : Tail(held)[i] = held[i + 1]
        BY <1>4, <4>1, HeadTailProperties
      <4>3. DOMAIN Tail(held) = 1..(Len(held) - 1) /\ Len(Tail(held)) + 1 <= Len(held)
        BY <1>4, <4>2
      <4>4. \A i \in 1..Len(Tail(held)) : i + 1 \in DOMAIN held
        BY <1>4, <4>2
      <4> HIDE DEF rest
      <4> QED
        BY <1>4, <1>5, <3>1, <4>1, <4>2, <4>3, <4>4
    <3>2. CASE Len(held) # MaxCached
      <4>1. rest = held
        BY <3>2
      <4>0. Len(held) < MaxCached
        <5>1. \A m, n \in Nat : m <= n /\ m # n => m < n
          OBVIOUS
        <5> QED
          BY <1>4, <1>5, <3>2, <5>1, Zenon
      <4> HIDE DEF rest
      <4>2. \A i \in 1..Len(rest) : rest[i] = held[i + 0] /\ i + 0 \in DOMAIN held
        BY <1>4, <4>1
      <4>3. Len(rest) + 0 <= Len(held)
        BY <1>4, <4>1
      <4> QED
        BY <1>4, <4>0, <4>1, <4>2, <4>3
    <3> QED
      BY <3>1, <3>2
  <2>3. PICK d \in {0, 1} : Len(rest) + d <= Len(held) /\ \A i \in 1..Len(rest) : rest[i] = held[i + d] /\ i + d \in DOMAIN held
    BY <2>2
  <2> HIDE DEF t, new, rest, at
  <2>4. t \in Seq(CachedSkill) /\ Len(t) = Len(rest) + 1 /\ DOMAIN t = 1..(Len(rest) + 1) /\ t[Len(rest) + 1] = new
        /\ \A i \in 1..Len(rest) : t[i] = rest[i]
    BY <1>1, <2>1, <2>2
  <2>5. \A i \in 1..Len(rest) : t[i].path # entry.path /\ t[i].mtime <= skillFile[t[i].path].mtime
           /\ (t[i].mtime = skillFile[t[i].path].mtime => skillFile[t[i].path].blurred \/ t[i].text = skillFile[t[i].path].text)
    BY <1>3, <1>8, <2>3, <2>4 DEF HeldSkills
  <2>6. \A i, j \in 1..Len(rest) : t[i].path = t[j].path => i = j
    <3> TAKE i, j \in 1..Len(rest)
    <3>1. t[i] = held[i + d] /\ t[j] = held[j + d] /\ i + d \in DOMAIN held /\ j + d \in DOMAIN held
      BY <2>3, <2>4
    <3> QED
      BY <2>2, <3>1 DEF HeldSkills
  <2>7. \A i, j \in DOMAIN t : t[i].path = t[j].path => i = j
    <3> TAKE i, j \in DOMAIN t
    <3>1. \A k \in DOMAIN t : k \in 1..Len(rest) \/ (k = Len(rest) + 1 /\ t[k].path = entry.path)
      BY <1>2, <2>2, <2>4
    <3> QED
      BY <2>5, <2>6, <3>1
  <2>8. \A i \in DOMAIN t : LET f == skillFile[t[i].path] IN
          t[i].mtime <= f.mtime /\ (t[i].mtime = f.mtime => f.blurred \/ t[i].text = f.text)
    <3> TAKE i \in DOMAIN t
    <3>1. CASE i \in 1..Len(rest)
      BY <2>5, <3>1
    <3>2. CASE i = Len(rest) + 1
      BY <1>1, <1>2, <2>4, <3>2
    <3> QED
      BY <2>2, <2>4, <3>1, <3>2
  <2>9. HeldSkills(t)
    BY <1>5, <2>2, <2>4, <2>7, <2>8 DEF HeldSkills
  <2>10. \A i \in DOMAIN t : t[i].path = entry.path => t[i] = new
    BY <2>2, <2>4, <2>5
  <2> QED
    BY <1>2, <2>2, <2>4, <2>9, <2>10 DEF t
<1> QED
  BY <1>6, <1>7, <1>8

\* One name: it is missing, or an answer is added that is right; from a list made now the
\* answer is the best and a name that is missing is in no file.
LEMMA OneSkill ==
  ASSUME SkillFileType, NEW s, KeptRight(s), NEW name, NEW cwd \in DOMAIN SearchOf
  PROVE  LET t == WithSkill(s, name, cwd) IN
         /\ KeptRight(t) /\ t.list \in {s.list, FreshList(cwd)}
         /\ \/ /\ t.resolved = s.resolved /\ t.missing = Append(s.missing, name)
               /\ name = Reserved \/ (UpToDate(s.list, cwd) => Fitting0(cwd, name) = {})
            \/ /\ t.missing = s.missing
               /\ \E r : /\ t.resolved = Append(s.resolved, r) /\ r.name = name /\ r.cwd = cwd /\ RightAnswer(r)
                         /\ UpToDate(s.list, cwd) => BestAnswer(r)
                         /\ r = [name |-> name, path |-> r.path, text |-> r.text, cwd |-> cwd]
                         /\ r.path \in SkillFile /\ r.text \in Nat
<1> DEFINE list == ListFor(cwd, s.list)
           found == {x \in list.entries : x.name = name /\ skillFile[x.path].there}
           e == CHOOSE x \in found : TRUE
           held == Refreshed(e, s.held)
           at == CHOOSE i \in Cached(e.path, held) : TRUE
           t == WithSkill(s, name, cwd)
           r == [name |-> name, path |-> e.path, text |-> held[at].text, cwd |-> cwd]
<1>1. list \in {s.list, FreshList(cwd)} /\ (UpToDate(s.list, cwd) => list = FreshList(cwd))
  BY DEF ListFor, FreshList, UpToDate
<1>2. Listed(list) /\ list = [cwd |-> list.cwd, entries |-> list.entries, young |-> list.young] /\ list.young \in BOOLEAN
  <2>1. Listed(FreshList(cwd))
    BY BestIsBest DEF Listed, FreshList
  <2>2. CASE list = s.list
    BY <2>2 DEF KeptRight
  <2>3. CASE list = FreshList(cwd)
    <3>1. FreshList(cwd).cwd = cwd /\ FreshList(cwd).young = TRUE /\ FreshList(cwd).entries = BestSkills(Entries(cwd))
      BY DEF FreshList
    <3>2. FreshList(cwd) = [cwd |-> FreshList(cwd).cwd, entries |-> FreshList(cwd).entries, young |-> FreshList(cwd).young]
      BY <3>1 DEF FreshList
    <3> QED
      BY <2>1, <2>3, <3>1, <3>2
  <2> QED
    BY <1>1, <2>2, <2>3
<1>3. t = IF name = Reserved THEN [s EXCEPT !.missing = Append(@, name)]
          ELSE IF found = {} THEN [s EXCEPT !.list = list, !.missing = Append(@, name)]
          ELSE [s EXCEPT !.list = list, !.held = held, !.resolved = Append(@, r)]
  BY DEF WithSkill
<1>4. CASE name = Reserved
  <2>1. t.list = s.list /\ t.held = s.held /\ t.resolved = s.resolved /\ t.missing = Append(s.missing, name)
        /\ t = [list |-> t.list, held |-> t.held, resolved |-> t.resolved, missing |-> t.missing]
    BY <1>3, <1>4 DEF KeptRight
  <2> HIDE DEF t
  <2>2. KeptRight(t)
    BY <2>1 DEF KeptRight
  <2> QED
    BY <1>4, <2>1, <2>2 DEF t
<1>5. CASE name # Reserved /\ found = {}
  <2>1. t.list = list /\ t.held = s.held /\ t.resolved = s.resolved /\ t.missing = Append(s.missing, name)
        /\ t = [list |-> t.list, held |-> t.held, resolved |-> t.resolved, missing |-> t.missing]
    BY <1>3, <1>5 DEF KeptRight
  <2> HIDE DEF t, list
  <2>2. KeptRight(t)
    BY <1>2, <2>1 DEF KeptRight
  <2>3. ASSUME UpToDate(s.list, cwd) PROVE Fitting0(cwd, name) = {}
    <3>1. ASSUME Fitting0(cwd, name) # {} PROVE FALSE
      <4>1. PICK x \in BestSkills(Entries(cwd)) : x.name = name
        BY <3>1, BestThere
      <4>2. skillFile[x.path].there
        BY BestIsBest
      <4>3. x \in list.entries
        BY <1>1, <2>3, <4>1 DEF FreshList
      <4> QED
        BY <1>5, <4>1, <4>2, <4>3
    <3> QED
      BY <3>1
  <2> QED
    BY <1>1, <2>1, <2>2, <2>3 DEF t
<1>6. CASE name # Reserved /\ found # {}
  <2>1. e \in list.entries /\ e.name = name /\ skillFile[e.path].there
    BY <1>6
  <2>2. t.list = list /\ t.held = held /\ t.resolved = Append(s.resolved, r) /\ t.missing = s.missing
        /\ t = [list |-> t.list, held |-> t.held, resolved |-> t.resolved, missing |-> t.missing]
    BY <1>3, <1>6 DEF KeptRight
  <2> HIDE DEF t, list, found, e
  <2>3. e.path \in SkillFile /\ HeldSkills(s.held)
    BY <1>2, <2>1 DEF Listed, KeptRight
  <2>4. /\ HeldSkills(held) /\ \E i \in DOMAIN held : held[i].path = e.path
        /\ \A i \in DOMAIN held : held[i].path = e.path => skillFile[e.path].blurred \/ held[i].text = skillFile[e.path].text
    BY <2>3, RefreshedKeeps
  <2> HIDE DEF held
  <2>5. at \in DOMAIN held /\ held[at].path = e.path
    BY <2>4 DEF Cached
  <2> HIDE DEF at
  <2>6. r.name = name /\ r.path = e.path /\ r.text = held[at].text /\ r.cwd = cwd
    OBVIOUS
  <2>11. held[at].text \in Nat
    <3>1. held \in Seq(CachedSkill)
      BY <2>4 DEF HeldSkills
    <3>2. held[at] \in CachedSkill
      BY <2>5, <3>1
    <3> QED
      BY <3>2 DEF CachedSkill
  <2>7. RightAnswer(r)
    BY <1>6, <2>1, <2>4, <2>5, <2>6 DEF RightAnswer
  <2>8. ASSUME UpToDate(s.list, cwd) PROVE BestAnswer(r)
    <3>1. e \in BestSkills(Entries(cwd))
      BY <1>1, <2>1, <2>8 DEF FreshList
    <3>2. e \in Fitting0(cwd, e.name) /\ \A f \in Fitting0(cwd, e.name) : Priority[f.source] <= Priority[e.source]
      BY <3>1, BestIsBest
    <3> QED
      BY <2>1, <2>6, <3>2 DEF BestAnswer
  <2>9. KeptRight(t)
    BY <1>2, <2>2, <2>4 DEF KeptRight
  <2>10. \E q : t.resolved = Append(s.resolved, q) /\ q.name = name /\ q.cwd = cwd /\ RightAnswer(q) /\ (UpToDate(s.list, cwd) => BestAnswer(q))
            /\ q = [name |-> name, path |-> q.path, text |-> q.text, cwd |-> cwd] /\ q.path \in SkillFile /\ q.text \in Nat
    <3> WITNESS r
    <3> QED
      BY <2>2, <2>3, <2>6, <2>7, <2>8, <2>11
  <2> QED
    BY <1>1, <2>2, <2>9, <2>10 DEF t
<1> QED
  BY <1>4, <1>5, <1>6

\* What stands how often in an empty sequence, a longer one, and two in a row.
LEMMA CountEmpty == ASSUME NEW x PROVE Count(<<>>, x) = 0
<1>1. {i \in DOMAIN <<>> : <<>>[i] = x} = {}
  OBVIOUS
<1> QED
  BY <1>1, FS_EmptySet DEF Count

LEMMA CountAppend ==
  ASSUME NEW S, NEW s \in Seq(S), NEW e \in S, NEW x
  PROVE  /\ Count(s, x) \in Nat
         /\ Count(Append(s, e), x) = IF e = x THEN Count(s, x) + 1 ELSE Count(s, x)
<1> DEFINE A == {i \in DOMAIN s : s[i] = x}
           B == {i \in DOMAIN Append(s, e) : Append(s, e)[i] = x}
           n == Len(s) + 1
<1>1. Len(s) \in Nat /\ DOMAIN s = 1..Len(s) /\ DOMAIN Append(s, e) = 1..n /\ Append(s, e)[n] = e
        /\ \A i \in 1..Len(s) : Append(s, e)[i] = s[i]
  OBVIOUS
<1>2. IsFiniteSet(A) /\ Cardinality(A) \in Nat
  <2>1. IsFiniteSet(1..Len(s)) /\ A \subseteq 1..Len(s)
    BY <1>1, FS_Interval
  <2> QED
    BY <2>1, FS_Subset, FS_CardinalityType
<1>3. n \notin A
  BY <1>1
<1>4. CASE e = x
  <2>1. B = A \cup {n}
    BY <1>1, <1>4
  <2>2. Cardinality(A \cup {n}) = Cardinality(A) + 1
    BY <1>2, <1>3, FS_AddElement
  <2> QED
    BY <1>2, <1>4, <2>1, <2>2 DEF Count
<1>5. CASE e # x
  <2>1. B = A
    BY <1>1, <1>5
  <2> QED
    BY <1>2, <1>5, <2>1 DEF Count
<1> QED
  BY <1>4, <1>5

\* All of a sequence, and nothing of it.
LEMMA AllOrNone ==
  ASSUME NEW S, NEW s \in Seq(S)
  PROVE  SubSeq(s, 1, Len(s)) = s /\ SubSeq(s, 1, 0) = <<>>
  OBVIOUS

LEMMA CountConcat ==
  ASSUME NEW S, NEW s \in Seq(S), NEW t \in Seq(S), NEW x
  PROVE  Count(s \o t, x) = Count(s, x) + Count(t, x)
<1> DEFINE P == {k \in 0..Len(t) : Count(s \o SubSeq(t, 1, k), x) = Count(s, x) + Count(SubSeq(t, 1, k), x)}
<1>0. Len(t) \in Nat
  OBVIOUS
<1>1. 0 \in P
  <2>1. SubSeq(t, 1, 0) = <<>> /\ s \o <<>> = s
    OBVIOUS
  <2>2. Count(s, x) \in Nat
    <3>1. s = <<>> \/ s[1] \in S
      OBVIOUS
    <3> QED
      BY <3>1, CountEmpty, CountAppend
  <2> QED
    <3>1. Count(s \o SubSeq(t, 1, 0), x) = Count(s, x) /\ Count(SubSeq(t, 1, 0), x) = 0
      BY <2>1, CountEmpty, Zenon
    <3>2. Count(s, x) = Count(s, x) + 0
      BY <2>2
    <3> QED
      BY <1>0, <3>1, <3>2
<1>2. ASSUME NEW k \in 0..Len(t), k < Len(t), k \in P PROVE k + 1 \in P
  <2> DEFINE a == SubSeq(t, 1, k)
             e == t[k + 1]
  <2>1. a \in Seq(S) /\ e \in S /\ SubSeq(t, 1, k + 1) = Append(a, e)
    BY <1>2, OneMore
  <2>2. Count(s \o a, x) = Count(s, x) + Count(a, x)
    BY <1>2
  <2> HIDE DEF a, e
  <2>3. s \o a \in Seq(S) /\ s \o Append(a, e) = Append(s \o a, e)
    BY <2>1
  <2>4. /\ Count(s, x) \in Nat /\ Count(a, x) \in Nat
        /\ Count(Append(a, e), x) = IF e = x THEN Count(a, x) + 1 ELSE Count(a, x)
        /\ Count(Append(s \o a, e), x) = IF e = x THEN Count(s \o a, x) + 1 ELSE Count(s \o a, x)
    <3>1. Count(s, x) \in Nat
      BY <2>1, CountAppend
    <3>2. Count(a, x) \in Nat /\ Count(Append(a, e), x) = IF e = x THEN Count(a, x) + 1 ELSE Count(a, x)
      BY <2>1, CountAppend
    <3>3. Count(Append(s \o a, e), x) = IF e = x THEN Count(s \o a, x) + 1 ELSE Count(s \o a, x)
      <4> DEFINE c == s \o a
      <4>1. c \in Seq(S) /\ e \in S
        BY <2>1, <2>3
      <4> HIDE DEF c
      <4>2. Count(Append(c, e), x) = IF e = x THEN Count(c, x) + 1 ELSE Count(c, x)
        BY <4>1, CountAppend
      <4> QED
        BY <4>2 DEF c
    <3> QED
      BY <3>1, <3>2, <3>3
  <2>5. Count(s \o Append(a, e), x) = Count(s, x) + Count(Append(a, e), x)
    BY <2>2, <2>3, <2>4
  <2> QED
    <3>1. k + 1 \in 0..Len(t)
      BY <1>0, <1>2
    <3>2. Count(s \o SubSeq(t, 1, k + 1), x) = Count(s, x) + Count(SubSeq(t, 1, k + 1), x)
      BY <2>1, <2>5, Zenon
    <3> QED
      BY <3>1, <3>2
<1>3. \A k \in 0..Len(t) : k \in P
  <2> HIDE DEF P
  <2> QED
    BY <1>0, <1>1, <1>2, UpTo
<1>4. Len(t) \in P /\ SubSeq(t, 1, Len(t)) = t
  BY <1>0, <1>3, AllOrNone
<1> QED
  BY <1>4

\* The states of the calls for one name after the other.  They exist, so ResolveIn ends
\* with the last of them.
NameByName(g, state, names, cwd) ==
  g[0] = state /\ \A k \in 0..Len(names) : k < Len(names) => g[k + 1] = WithSkill(g[k], names[k + 1], cwd)

LEMMA ResolveInIs ==
  ASSUME NEW state, NEW names, Len(names) \in Nat, NEW cwd
  PROVE  \E g : NameByName(g, state, names, cwd) /\ ResolveIn(state, names, cwd) = g[Len(names)]
<1> DEFINE n == Len(names)
           Good(g, m) == g = [k \in 0..m |-> IF k = 0 THEN state ELSE WithSkill(g[k - 1], names[k], cwd)]
           P == {m \in 0..n : \E g : Good(g, m)}
<1>1. n \in Nat
  OBVIOUS
<1> HIDE DEF n
<1>2. 0 \in P
  <2> DEFINE g == [k \in 0..0 |-> state]
  <2>1. Good(g, 0)
    OBVIOUS
  <2> HIDE DEF g, Good
  <2> QED
    BY <1>1, <2>1
<1>3. ASSUME NEW m \in 0..n, m < n, m \in P PROVE m + 1 \in P
  <2>1. PICK g : Good(g, m)
    BY <1>3
  <2> DEFINE h == [k \in 0..m + 1 |-> IF k = m + 1 THEN WithSkill(g[m], names[m + 1], cwd) ELSE g[k]]
  <2>2. h = [k \in 0..m + 1 |-> h[k]] /\ h[m + 1] = WithSkill(g[m], names[m + 1], cwd) /\ \A k \in 0..m : h[k] = g[k]
    BY <1>1
  <2>3. \A k \in 0..m : g[k] = IF k = 0 THEN state ELSE WithSkill(g[k - 1], names[k], cwd)
    BY <2>1
  <2> HIDE DEF h
  <2>4. \A k \in 0..m + 1 : h[k] = IF k = 0 THEN state ELSE WithSkill(h[k - 1], names[k], cwd)
    <3> TAKE k \in 0..m + 1
    <3>1. CASE k = m + 1
      <4>1. k # 0 /\ k - 1 = m /\ m \in 0..m
        BY <1>1, <3>1
      <4> QED
        BY <2>2, <3>1, <4>1
    <3>2. CASE k = 0
      <4>1. k \in 0..m
        BY <1>1, <3>2
      <4> QED
        BY <2>2, <2>3, <3>2, <4>1
    <3>3. CASE k \in 1..m
      <4>1. k \in 0..m /\ k - 1 \in 0..m
        BY <1>1, <3>3
      <4> QED
        BY <2>2, <2>3, <3>3, <4>1
    <3> QED
      BY <1>1, <3>1, <3>2, <3>3
  <2>5. Good(h, m + 1)
    BY <2>2, <2>4
  <2>6. m + 1 \in 0..n
    BY <1>1, <1>3
  <2> HIDE DEF Good
  <2> QED
    BY <2>5, <2>6
<1>4. \A m \in 0..n : m \in P
  <2> HIDE DEF P
  <2> QED
    BY <1>1, <1>2, <1>3, UpTo
<1>5. PICK g : Good(g, n)
  <2>1. n \in P
    <3> HIDE DEF P
    <3> QED
      BY <1>1, <1>4
  <2> HIDE DEF Good
  <2> QED
    BY <2>1
<1> DEFINE after == CHOOSE f : f = [k \in 0..n |-> IF k = 0 THEN state ELSE WithSkill(f[k - 1], names[k], cwd)]
<1>6. after = [k \in 0..n |-> IF k = 0 THEN state ELSE WithSkill(after[k - 1], names[k], cwd)]
  BY <1>5
<1>7. ResolveIn(state, names, cwd) = after[n]
  BY DEF ResolveIn, n
<1> HIDE DEF after
<1>8. \A k \in 0..n : after[k] = IF k = 0 THEN state ELSE WithSkill(after[k - 1], names[k], cwd)
  BY <1>6
<1>9. after[0] = state
  BY <1>1, <1>8
<1>10. ASSUME NEW k \in 0..n, k < n PROVE after[k + 1] = WithSkill(after[k], names[k + 1], cwd)
  <2>1. k + 1 \in 0..n /\ k + 1 # 0 /\ (k + 1) - 1 = k
    BY <1>1, <1>10
  <2> QED
    BY <1>8, <2>1
<1> QED
  BY <1>7, <1>9, <1>10 DEF n, NameByName

\* The names of answers, what an answer is, and what the calls for the names asked for so
\* far come to.
NamesOf(s) == [i \in DOMAIN s |-> s[i].name]
AnswerSet(N) == [name : N, path : SkillFile, text : Nat, cwd : DOMAIN SearchOf]
Progress(start, t, N, asked, cwd) ==
  /\ KeptRight(t) /\ t.list \in {start.list, FreshList(cwd)}
  /\ t.resolved \in Seq(AnswerSet(N)) /\ t.missing \in Seq(N)
  /\ \A x \in N : Count(NamesOf(t.resolved), x) + Count(t.missing, x) = Count(NamesOf(start.resolved), x) + Count(asked, x)
  /\ \A i \in DOMAIN t.resolved : LET r == t.resolved[i] IN
       \/ i \in DOMAIN start.resolved /\ r = start.resolved[i]
       \/ RightAnswer(r) /\ r.cwd = cwd /\ (UpToDate(start.list, cwd) => BestAnswer(r)) /\ r.name \in ToSet(asked)
  /\ \A i \in DOMAIN t.missing :
       t.missing[i] \in ToSet(asked) /\ (t.missing[i] = Reserved \/ (UpToDate(start.list, cwd) => Fitting0(cwd, t.missing[i]) = {}))

\* The names of a sequence of answers, and of a longer one.
LEMMA NamesAppend ==
  ASSUME NEW N, NEW s \in Seq(AnswerSet(N)), NEW r \in AnswerSet(N)
  PROVE  NamesOf(s) \in Seq(N) /\ r.name \in N /\ NamesOf(Append(s, r)) = Append(NamesOf(s), r.name)
<1>1. \A q \in AnswerSet(N) : q.name \in N
  BY DEF AnswerSet
<1>2. Len(s) \in Nat /\ DOMAIN s = 1..Len(s) /\ \A i \in 1..Len(s) : s[i] \in AnswerSet(N)
  OBVIOUS
<1>3. NamesOf(s) \in Seq(N) /\ Len(NamesOf(s)) = Len(s) /\ \A i \in 1..Len(s) : NamesOf(s)[i] = s[i].name
  BY <1>1, <1>2 DEF NamesOf
<1> DEFINE a == Append(s, r)
           b == NamesOf(a)
           c == Append(NamesOf(s), r.name)
<1>4. DOMAIN a = 1..Len(s) + 1 /\ a[Len(s) + 1] = r /\ \A i \in 1..Len(s) : a[i] = s[i]
  BY <1>2
<1>5. a \in Seq(AnswerSet(N)) /\ Len(a) = Len(s) + 1
  OBVIOUS
<1> HIDE DEF a
<1>6. b \in Seq(N) /\ Len(b) = Len(s) + 1 /\ \A i \in 1..Len(s) + 1 : b[i] = a[i].name
  BY <1>1, <1>2, <1>4, <1>5 DEF NamesOf
<1> DEFINE o == NamesOf(s)
<1>7. c \in Seq(N) /\ Len(c) = Len(s) + 1 /\ c[Len(s) + 1] = r.name /\ \A i \in 1..Len(s) : c[i] = s[i].name
  <2>1. o \in Seq(N) /\ r.name \in N /\ Len(o) = Len(s) /\ \A i \in 1..Len(s) : o[i] = s[i].name
    BY <1>1, <1>3
  <2> HIDE DEF o
  <2>2. Append(o, r.name) \in Seq(N) /\ Len(Append(o, r.name)) = Len(s) + 1 /\ Append(o, r.name)[Len(s) + 1] = r.name
        /\ \A i \in 1..Len(s) : Append(o, r.name)[i] = o[i]
    BY <1>2, <2>1
  <2> QED
    BY <2>1, <2>2 DEF o
<1> HIDE DEF b, c
<1>8. \A i \in 1..Len(b) : b[i] = c[i]
  <2> TAKE i \in 1..Len(b)
  <2>1. CASE i = Len(s) + 1
    BY <1>2, <1>4, <1>6, <1>7, <2>1
  <2>2. CASE i # Len(s) + 1
    <3>1. i \in 1..Len(s) /\ i \in 1..Len(s) + 1
      BY <1>2, <1>6, <2>2
    <3> QED
      BY <1>4, <1>6, <1>7, <3>1
  <2> QED
    BY <2>1, <2>2
<1>9. b = c
  BY <1>6, <1>7, <1>8, SeqEqual
<1> QED
  BY <1>1, <1>3, <1>9 DEF a, b, c

\* One name more.
LEMMA ProgressStep ==
  ASSUME SkillFileType, NEW start, NEW N, NEW cwd \in DOMAIN SearchOf, start.resolved \in Seq(AnswerSet(N)),
         NEW s, NEW asked \in Seq(N), Progress(start, s, N, asked, cwd), NEW name \in N
  PROVE  Progress(start, WithSkill(s, name, cwd), N, Append(asked, name), cwd)
<1> DEFINE t == WithSkill(s, name, cwd)
           more == Append(asked, name)
<1>1. /\ KeptRight(s) /\ s.list \in {start.list, FreshList(cwd)}
      /\ s.resolved \in Seq(AnswerSet(N)) /\ s.missing \in Seq(N)
      /\ \A x \in N : Count(NamesOf(s.resolved), x) + Count(s.missing, x) = Count(NamesOf(start.resolved), x) + Count(asked, x)
  BY DEF Progress
<1>2. UpToDate(start.list, cwd) => UpToDate(s.list, cwd)
  BY <1>1 DEF UpToDate
<1>3. \A x \in N : /\ Count(asked, x) \in Nat /\ Count(s.missing, x) \in Nat
                   /\ Count(more, x) = IF name = x THEN Count(asked, x) + 1 ELSE Count(asked, x)
                   /\ Count(Append(s.missing, name), x) = IF name = x THEN Count(s.missing, x) + 1 ELSE Count(s.missing, x)
  BY <1>1, CountAppend
<1>4. \A x \in N : Count(NamesOf(start.resolved), x) \in Nat /\ Count(NamesOf(s.resolved), x) \in Nat
  <2> TAKE x \in N
  <2>1. \A q \in Seq(AnswerSet(N)) : NamesOf(q) \in Seq(N)
    <3> TAKE q \in Seq(AnswerSet(N))
    <3>1. Len(q) \in Nat /\ DOMAIN q = 1..Len(q) /\ \A i \in 1..Len(q) : q[i] \in AnswerSet(N)
      OBVIOUS
    <3>2. \A i \in 1..Len(q) : q[i].name \in N
      BY <3>1 DEF AnswerSet
    <3> QED
      BY <3>1, <3>2 DEF NamesOf
  <2>2. \A p \in Seq(N) : Count(p, x) \in Nat
    BY CountAppend
  <2> QED
    BY <1>1, <2>1, <2>2
<1>5. ToSet(asked) \subseteq ToSet(more) /\ name \in ToSet(more)
  <2>1. DOMAIN asked = 1..Len(asked) /\ Len(asked) \in Nat /\ DOMAIN more = 1..Len(asked) + 1
        /\ more[Len(asked) + 1] = name /\ \A i \in 1..Len(asked) : more[i] = asked[i]
    OBVIOUS
  <2> HIDE DEF more
  <2>2. Len(asked) + 1 \in DOMAIN more /\ \A i \in DOMAIN asked : i \in DOMAIN more /\ more[i] = asked[i]
    BY <2>1
  <2> QED
    BY <2>1, <2>2 DEF ToSet
<1>6. /\ KeptRight(t) /\ t.list \in {s.list, FreshList(cwd)}
      /\ \/ /\ t.resolved = s.resolved /\ t.missing = Append(s.missing, name)
            /\ name = Reserved \/ (UpToDate(s.list, cwd) => Fitting0(cwd, name) = {})
         \/ /\ t.missing = s.missing
            /\ \E r : /\ t.resolved = Append(s.resolved, r) /\ r.name = name /\ r.cwd = cwd /\ RightAnswer(r)
                      /\ UpToDate(s.list, cwd) => BestAnswer(r)
                      /\ r = [name |-> name, path |-> r.path, text |-> r.text, cwd |-> cwd]
                      /\ r.path \in SkillFile /\ r.text \in Nat
  BY <1>1, OneSkill
<1> HIDE DEF t, more
<1>7. \A i \in DOMAIN s.resolved : LET r == s.resolved[i] IN
       \/ i \in DOMAIN start.resolved /\ r = start.resolved[i]
       \/ RightAnswer(r) /\ r.cwd = cwd /\ (UpToDate(start.list, cwd) => BestAnswer(r)) /\ r.name \in ToSet(more)
  BY <1>5 DEF Progress
<1>8. \A i \in DOMAIN s.missing :
       s.missing[i] \in ToSet(more) /\ (s.missing[i] = Reserved \/ (UpToDate(start.list, cwd) => Fitting0(cwd, s.missing[i]) = {}))
  BY <1>5 DEF Progress
<1>9. CASE t.resolved = s.resolved /\ t.missing = Append(s.missing, name)
           /\ (name = Reserved \/ (UpToDate(s.list, cwd) => Fitting0(cwd, name) = {}))
  <2>1. t.missing \in Seq(N) /\ Len(s.missing) \in Nat /\ DOMAIN s.missing = 1..Len(s.missing)
        /\ DOMAIN t.missing = 1..Len(s.missing) + 1 /\ t.missing[Len(s.missing) + 1] = name
        /\ \A i \in 1..Len(s.missing) : t.missing[i] = s.missing[i]
    BY <1>1, <1>9
  <2>2. \A x \in N : Count(NamesOf(t.resolved), x) + Count(t.missing, x) = Count(NamesOf(start.resolved), x) + Count(more, x)
    <3> TAKE x \in N
    <3>1. Count(NamesOf(t.resolved), x) = Count(NamesOf(s.resolved), x)
      BY <1>9
    <3>2. Count(t.missing, x) = IF name = x THEN Count(s.missing, x) + 1 ELSE Count(s.missing, x)
      BY <1>3, <1>9
    <3>3. Count(NamesOf(s.resolved), x) + Count(s.missing, x) = Count(NamesOf(start.resolved), x) + Count(asked, x)
      BY <1>1
    <3>4. /\ Count(asked, x) \in Nat /\ Count(s.missing, x) \in Nat
          /\ Count(NamesOf(start.resolved), x) \in Nat /\ Count(NamesOf(s.resolved), x) \in Nat
          /\ Count(more, x) = IF name = x THEN Count(asked, x) + 1 ELSE Count(asked, x)
      BY <1>3, <1>4
    <3> DEFINE a == Count(NamesOf(t.resolved), x)   b == Count(t.missing, x)   c == Count(NamesOf(start.resolved), x)
               d == Count(more, x)   p == Count(NamesOf(s.resolved), x)   q == Count(s.missing, x)   e == Count(asked, x)
    <3>5. p + q = c + e /\ e \in Nat /\ q \in Nat /\ c \in Nat /\ p \in Nat
      BY <3>3, <3>4
    <3>6. name = x => d = e + 1 /\ a = p /\ b = q + 1
      BY <3>1, <3>2, <3>4
    <3>7. name # x => d = e /\ a = p /\ b = q
      BY <3>1, <3>2, <3>4
    <3>8. a + b = c + d
      <4> HIDE DEF a, b, c, d, p, q, e
      <4> QED
        BY <3>5, <3>6, <3>7
    <3> QED
      BY <3>8
  <2>3. \A i \in DOMAIN t.missing :
          t.missing[i] \in ToSet(more) /\ (t.missing[i] = Reserved \/ (UpToDate(start.list, cwd) => Fitting0(cwd, t.missing[i]) = {}))
    <3> TAKE i \in DOMAIN t.missing
    <3>1. i = Len(s.missing) + 1 \/ i \in DOMAIN s.missing
      BY <2>1
    <3> QED
      BY <1>2, <1>5, <1>8, <1>9, <2>1, <3>1
  <2>4. \A i \in DOMAIN t.resolved : LET r == t.resolved[i] IN
          \/ i \in DOMAIN start.resolved /\ r = start.resolved[i]
          \/ RightAnswer(r) /\ r.cwd = cwd /\ (UpToDate(start.list, cwd) => BestAnswer(r)) /\ r.name \in ToSet(more)
    BY <1>7, <1>9
  <2>5. t.list \in {start.list, FreshList(cwd)} /\ t.resolved \in Seq(AnswerSet(N))
    BY <1>1, <1>6, <1>9
  <2>6. KeptRight(t) /\ t.missing \in Seq(N)
    BY <1>6, <2>1
  <2>7. Progress(start, t, N, more, cwd)
    BY <2>2, <2>3, <2>4, <2>5, <2>6 DEF Progress
  <2> QED
    BY <2>7 DEF t, more
<1>10. ASSUME NEW r, t.missing = s.missing, t.resolved = Append(s.resolved, r), r.name = name, r.cwd = cwd, RightAnswer(r),
              UpToDate(s.list, cwd) => BestAnswer(r), r = [name |-> name, path |-> r.path, text |-> r.text, cwd |-> cwd],
              r.path \in SkillFile, r.text \in Nat
       PROVE  Progress(start, t, N, more, cwd)
  <2>1. r \in AnswerSet(N)
    BY <1>10 DEF AnswerSet
  <2>2. t.resolved \in Seq(AnswerSet(N)) /\ Len(s.resolved) \in Nat /\ DOMAIN s.resolved = 1..Len(s.resolved)
        /\ DOMAIN t.resolved = 1..Len(s.resolved) + 1 /\ t.resolved[Len(s.resolved) + 1] = r
        /\ \A i \in 1..Len(s.resolved) : t.resolved[i] = s.resolved[i]
    BY <1>1, <1>10, <2>1
  <2>3. NamesOf(s.resolved) \in Seq(N) /\ NamesOf(t.resolved) = Append(NamesOf(s.resolved), name)
    BY <1>1, <1>10, <2>1, NamesAppend
  <2>4. \A x \in N : Count(NamesOf(t.resolved), x) + Count(t.missing, x) = Count(NamesOf(start.resolved), x) + Count(more, x)
    <3> TAKE x \in N
    <3>1. Count(NamesOf(t.resolved), x) = IF name = x THEN Count(NamesOf(s.resolved), x) + 1 ELSE Count(NamesOf(s.resolved), x)
      <4> DEFINE o == NamesOf(s.resolved)
      <4>1. o \in Seq(N)
        BY <2>3
      <4> HIDE DEF o
      <4>2. Count(Append(o, name), x) = IF name = x THEN Count(o, x) + 1 ELSE Count(o, x)
        BY <4>1, CountAppend
      <4> QED
        BY <2>3, <4>2 DEF o
    <3>2. Count(t.missing, x) = Count(s.missing, x)
      BY <1>10
    <3>3. Count(NamesOf(s.resolved), x) + Count(s.missing, x) = Count(NamesOf(start.resolved), x) + Count(asked, x)
      BY <1>1
    <3>4. /\ Count(asked, x) \in Nat /\ Count(s.missing, x) \in Nat
          /\ Count(NamesOf(start.resolved), x) \in Nat /\ Count(NamesOf(s.resolved), x) \in Nat
          /\ Count(more, x) = IF name = x THEN Count(asked, x) + 1 ELSE Count(asked, x)
      BY <1>3, <1>4
    <3> DEFINE a == Count(NamesOf(t.resolved), x)   b == Count(t.missing, x)   c == Count(NamesOf(start.resolved), x)
               d == Count(more, x)   p == Count(NamesOf(s.resolved), x)   q == Count(s.missing, x)   e == Count(asked, x)
    <3>5. p + q = c + e /\ e \in Nat /\ q \in Nat /\ c \in Nat /\ p \in Nat
      BY <3>3, <3>4
    <3>6. name = x => d = e + 1 /\ a = p + 1 /\ b = q
      BY <3>1, <3>2, <3>4
    <3>7. name # x => d = e /\ a = p /\ b = q
      BY <3>1, <3>2, <3>4
    <3>8. a + b = c + d
      <4> HIDE DEF a, b, c, d, p, q, e
      <4> QED
        BY <3>5, <3>6, <3>7
    <3> QED
      BY <3>8
  <2>5. \A i \in DOMAIN t.resolved : LET q == t.resolved[i] IN
          \/ i \in DOMAIN start.resolved /\ q = start.resolved[i]
          \/ RightAnswer(q) /\ q.cwd = cwd /\ (UpToDate(start.list, cwd) => BestAnswer(q)) /\ q.name \in ToSet(more)
    <3> TAKE i \in DOMAIN t.resolved
    <3>1. i = Len(s.resolved) + 1 \/ i \in DOMAIN s.resolved
      BY <2>2
    <3>2. CASE i = Len(s.resolved) + 1
      <4>1. t.resolved[i] = r
        BY <2>2, <3>2
      <4> QED
        BY <1>2, <1>5, <1>10, <4>1
    <3>3. CASE i \in DOMAIN s.resolved
      <4>1. t.resolved[i] = s.resolved[i]
        BY <2>2, <3>3
      <4> QED
        BY <1>7, <3>3, <4>1
    <3> QED
      BY <3>1, <3>2, <3>3
  <2>6. t.list \in {start.list, FreshList(cwd)} /\ t.missing \in Seq(N)
    BY <1>1, <1>6, <1>10
  <2>7. \A i \in DOMAIN t.missing :
          t.missing[i] \in ToSet(more) /\ (t.missing[i] = Reserved \/ (UpToDate(start.list, cwd) => Fitting0(cwd, t.missing[i]) = {}))
    BY <1>8, <1>10
  <2> QED
    BY <1>6, <2>2, <2>4, <2>5, <2>6, <2>7 DEF Progress
<1> QED
  BY <1>6, <1>9, <1>10 DEF t, more

\* All names of a call.
LEMMA ResolveInRight ==
  ASSUME SkillFileType, NEW start, NEW N, NEW cwd \in DOMAIN SearchOf, KeptRight(start), start.resolved \in Seq(AnswerSet(N)),
         start.missing = <<>>, NEW names \in Seq(N)
  PROVE  Progress(start, ResolveIn(start, names, cwd), N, names, cwd)
<1> DEFINE n == Len(names)
<1>1. n \in Nat
  OBVIOUS
<1>2. PICK g : NameByName(g, start, names, cwd) /\ ResolveIn(start, names, cwd) = g[n]
  BY <1>1, ResolveInIs
<1> DEFINE P == {k \in 0..n : Progress(start, g[k], N, SubSeq(names, 1, k), cwd)}
<1>3. 0 \in P
  <2>1. g[0] = start /\ SubSeq(names, 1, 0) = <<>>
    BY <1>1, <1>2, AllOrNone DEF NameByName
  <2>2. \A x \in N : Count(start.missing, x) = Count(<<>>, x)
    OBVIOUS
  <2>3. Progress(start, start, N, <<>>, cwd)
    BY <2>2 DEF Progress
  <2>4. Progress(start, g[0], N, SubSeq(names, 1, 0), cwd)
    BY <2>1, <2>3, Zenon
  <2> QED
    BY <1>1, <2>4
<1>4. ASSUME NEW k \in 0..n, k < n, k \in P PROVE k + 1 \in P
  <2>1. g[k + 1] = WithSkill(g[k], names[k + 1], cwd)
    BY <1>2, <1>4 DEF NameByName
  <2>2. SubSeq(names, 1, k) \in Seq(N) /\ names[k + 1] \in N /\ SubSeq(names, 1, k + 1) = Append(SubSeq(names, 1, k), names[k + 1])
    BY <1>4, OneMore
  <2>3. Progress(start, g[k], N, SubSeq(names, 1, k), cwd)
    BY <1>4
  <2>4. Progress(start, g[k + 1], N, SubSeq(names, 1, k + 1), cwd)
    BY <2>1, <2>2, <2>3, ProgressStep
  <2>5. k + 1 \in 0..n
    BY <1>1, <1>4
  <2> QED
    BY <2>4, <2>5
<1>5. n \in P
  <2> HIDE DEF P, n
  <2>1. \A k \in 0..n : k \in P
    BY <1>1, <1>3, <1>4, UpTo
  <2> QED
    BY <1>1, <2>1
<1>6. SubSeq(names, 1, n) = names
  BY AllOrNone
<1> QED
  BY <1>2, <1>5, <1>6

\* What a whole call has come to.
AllRight(all, q, old, N) ==
  /\ KeptRight(all) /\ all.resolved \in Seq(AnswerSet(N)) /\ all.missing \in Seq(N)
  /\ \A x \in N : Count(NamesOf(all.resolved), x) + Count(all.missing, x) = Count(q.names, x)
  /\ \A i \in DOMAIN all.resolved : RightAnswer(all.resolved[i])
  /\ old \cap ({q.cwd} \cup (IF q.fallback = NoFile THEN {} ELSE {q.fallback})) = {} =>
       /\ \A i \in DOMAIN all.resolved : LET r == all.resolved[i] IN
            BestAnswer(r) /\ (r.cwd # q.cwd => Fitting0(q.cwd, r.name) = {})
       /\ \A i \in DOMAIN all.missing : LET n == all.missing[i] IN
            n = Reserved \/ \A cwd \in {q.cwd} \cup (IF q.fallback = NoFile THEN {} ELSE {q.fallback}) : Fitting0(cwd, n) = {}

\* A call, in the directory and in the other one, answers as it should.
LEMMA AllAnswered ==
  ASSUME SkillsInv, NEW q \in SkillRequest
  PROVE  LET start == [list |-> listing, held |-> contents, resolved |-> <<>>, missing |-> <<>>]
             primary == ResolveIn(start, q.names, q.cwd)
             all == IF q.fallback \in {NoFile, q.cwd} \/ primary.missing = <<>> THEN primary
                    ELSE ResolveIn([primary EXCEPT !.missing = <<>>], primary.missing, q.fallback)
         IN AllRight(all, q, IF listing.young THEN {listing.cwd} ELSE {}, ToSet(q.names))
<1> DEFINE start == [list |-> listing, held |-> contents, resolved |-> <<>>, missing |-> <<>>]
           primary == ResolveIn(start, q.names, q.cwd)
           second == [primary EXCEPT !.missing = <<>>]
           end == ResolveIn(second, primary.missing, q.fallback)
           N == ToSet(q.names)
           old == IF listing.young THEN {listing.cwd} ELSE {}
           other == IF q.fallback = NoFile THEN {} ELSE {q.fallback}
<1>1. q.names \in Seq(N) /\ q.cwd \in DOMAIN SearchOf /\ q.fallback \in DOMAIN SearchOf \cup {NoFile} /\ SkillFileType
  BY SkillsAssumption DEF SkillsInv
<1>2. start.list = listing /\ start.held = contents /\ start.resolved = <<>> /\ start.missing = <<>>
        /\ start = [list |-> start.list, held |-> start.held, resolved |-> start.resolved, missing |-> start.missing]
  OBVIOUS
<1> HIDE DEF start, N
<1>3. KeptRight(start) /\ start.resolved \in Seq(AnswerSet(N)) /\ DOMAIN start.resolved = {}
  BY <1>2 DEF KeptRight, SkillsInv
<1>4. Progress(start, primary, N, q.names, q.cwd)
  BY <1>1, <1>2, <1>3, ResolveInRight
<1> HIDE DEF primary
<1>5. /\ KeptRight(primary) /\ primary.list \in {listing, FreshList(q.cwd)}
      /\ primary.resolved \in Seq(AnswerSet(N)) /\ primary.missing \in Seq(N)
      /\ \A x \in N : Count(NamesOf(primary.resolved), x) + Count(primary.missing, x) = Count(NamesOf(start.resolved), x) + Count(q.names, x)
      /\ \A i \in DOMAIN primary.resolved : LET r == primary.resolved[i] IN
           RightAnswer(r) /\ r.cwd = q.cwd /\ (UpToDate(listing, q.cwd) => BestAnswer(r))
      /\ \A i \in DOMAIN primary.missing :
           primary.missing[i] = Reserved \/ (UpToDate(listing, q.cwd) => Fitting0(q.cwd, primary.missing[i]) = {})
  BY <1>2, <1>3, <1>4 DEF Progress
<1>6. old \cap ({q.cwd} \cup other) = {} => UpToDate(listing, q.cwd)
  BY DEF UpToDate
<1>7. \A x \in N : Count(NamesOf(primary.resolved), x) + Count(primary.missing, x) = Count(q.names, x)
  <2> TAKE x \in N
  <2>1. NamesOf(start.resolved) = <<>>
    BY <1>2 DEF NamesOf
  <2>2. Count(NamesOf(start.resolved), x) = 0
    BY <2>1, CountEmpty
  <2>3. Count(q.names, x) \in Nat
    <3> HIDE DEF N
    <3> QED
      BY <1>1, CountAppend
  <2> QED
    BY <1>5, <2>2, <2>3
<1>8. CASE q.fallback \in {NoFile, q.cwd} \/ primary.missing = <<>>
  <2>1. old \cap ({q.cwd} \cup other) = {} =>
          /\ \A i \in DOMAIN primary.resolved : LET r == primary.resolved[i] IN
               BestAnswer(r) /\ (r.cwd # q.cwd => Fitting0(q.cwd, r.name) = {})
          /\ \A i \in DOMAIN primary.missing : LET n == primary.missing[i] IN
               n = Reserved \/ \A cwd \in {q.cwd} \cup other : Fitting0(cwd, n) = {}
    <3> HAVE old \cap ({q.cwd} \cup other) = {}
    <3>1. \A i \in DOMAIN primary.resolved : LET r == primary.resolved[i] IN
            BestAnswer(r) /\ (r.cwd # q.cwd => Fitting0(q.cwd, r.name) = {})
      BY <1>5, <1>6
    <3>2. CASE primary.missing = <<>>
      <4>1. DOMAIN primary.missing = {}
        BY <3>2
      <4> QED
        BY <3>1, <4>1
    <3>3. CASE q.fallback \in {NoFile, q.cwd}
      <4>1. {q.cwd} \cup other = {q.cwd}
        BY <3>3
      <4> QED
        BY <1>5, <1>6, <3>1, <4>1
    <3> QED
      BY <1>8, <3>2, <3>3
  <2>2. AllRight(primary, q, old, N)
    BY <1>5, <1>7, <2>1 DEF AllRight
  <2> QED
    BY <1>8, <2>2 DEF primary, start, N
<1>9. CASE ~ (q.fallback \in {NoFile, q.cwd} \/ primary.missing = <<>>)
  <2>0. q.fallback \in DOMAIN SearchOf /\ q.fallback # q.cwd /\ other = {q.fallback}
    BY <1>1, <1>9
  <2>1. second.list = primary.list /\ second.held = primary.held /\ second.resolved = primary.resolved /\ second.missing = <<>>
        /\ second = [list |-> second.list, held |-> second.held, resolved |-> second.resolved, missing |-> second.missing]
    BY <1>5 DEF KeptRight
  <2> HIDE DEF second
  <2>2. KeptRight(second) /\ second.resolved \in Seq(AnswerSet(N))
    BY <1>5, <2>1 DEF KeptRight
  <2>3. Progress(second, end, N, primary.missing, q.fallback)
    BY <1>1, <1>5, <2>0, <2>1, <2>2, ResolveInRight
  <2> HIDE DEF end
  <2>4. /\ KeptRight(end)
        /\ end.resolved \in Seq(AnswerSet(N)) /\ end.missing \in Seq(N)
        /\ \A x \in N : Count(NamesOf(end.resolved), x) + Count(end.missing, x) = Count(NamesOf(primary.resolved), x) + Count(primary.missing, x)
        /\ \A i \in DOMAIN end.resolved : LET r == end.resolved[i] IN
             \/ i \in DOMAIN primary.resolved /\ r = primary.resolved[i]
             \/ RightAnswer(r) /\ r.cwd = q.fallback /\ (UpToDate(primary.list, q.fallback) => BestAnswer(r)) /\ r.name \in ToSet(primary.missing)
        /\ \A i \in DOMAIN end.missing :
             end.missing[i] \in ToSet(primary.missing)
             /\ (end.missing[i] = Reserved \/ (UpToDate(primary.list, q.fallback) => Fitting0(q.fallback, end.missing[i]) = {}))
    BY <2>1, <2>3 DEF Progress
  <2>5. \A i \in DOMAIN end.resolved : RightAnswer(end.resolved[i])
    BY <1>5, <2>4
  <2>6. ASSUME old \cap ({q.cwd} \cup other) = {} PROVE UpToDate(primary.list, q.fallback)
    <3>1. CASE primary.list = listing
      BY <2>0, <2>6, <3>1 DEF UpToDate
    <3>2. CASE primary.list = FreshList(q.cwd)
      <4>1. FreshList(q.cwd).cwd = q.cwd
        BY DEF FreshList
      <4> QED
        BY <2>0, <3>2, <4>1 DEF UpToDate
    <3> QED
      BY <1>5, <3>1, <3>2
  <2>7. ASSUME old \cap ({q.cwd} \cup other) = {}, NEW n \in ToSet(primary.missing) PROVE n = Reserved \/ Fitting0(q.cwd, n) = {}
    BY <1>5, <1>6, <2>7 DEF ToSet
  <2>8. ASSUME old \cap ({q.cwd} \cup other) = {}, NEW i \in DOMAIN end.resolved
        PROVE  LET r == end.resolved[i] IN BestAnswer(r) /\ (r.cwd # q.cwd => Fitting0(q.cwd, r.name) = {})
    <3> DEFINE r == end.resolved[i]
    <3>1. CASE i \in DOMAIN primary.resolved /\ r = primary.resolved[i]
      BY <1>5, <1>6, <2>8, <3>1
    <3>2. CASE RightAnswer(r) /\ r.cwd = q.fallback /\ (UpToDate(primary.list, q.fallback) => BestAnswer(r)) /\ r.name \in ToSet(primary.missing)
      <4>1. r.name # Reserved
        BY <3>2 DEF RightAnswer
      <4>2. r.name = Reserved \/ Fitting0(q.cwd, r.name) = {}
        BY <2>7, <2>8, <3>2
      <4> QED
        BY <2>6, <2>8, <3>2, <4>1, <4>2
    <3> QED
      BY <2>4, <3>1, <3>2
  <2>9. ASSUME old \cap ({q.cwd} \cup other) = {}, NEW i \in DOMAIN end.missing
        PROVE  LET n == end.missing[i] IN n = Reserved \/ \A cwd \in {q.cwd} \cup other : Fitting0(cwd, n) = {}
    BY <2>0, <2>4, <2>6, <2>7, <2>9
  <2>10. \A x \in N : Count(NamesOf(end.resolved), x) + Count(end.missing, x) = Count(q.names, x)
    BY <1>7, <2>4
  <2>11. AllRight(end, q, old, N)
    BY <2>4, <2>5, <2>8, <2>9, <2>10 DEF AllRight
  <2> QED
    BY <1>9, <2>11 DEF end, second, primary, start, N
<1> QED
  BY <1>8, <1>9

\* The call keeps the caches and its answer is right.
LEMMA ResolvesWell ==
  ASSUME SkillsInv, NEW q \in SkillRequest, ResolvesSkills(q)
  PROVE  SkillsInv' /\ SkillsHold'
<1> DEFINE start == [list |-> listing, held |-> contents, resolved |-> <<>>, missing |-> <<>>]
           primary == ResolveIn(start, q.names, q.cwd)
           all == IF q.fallback \in {NoFile, q.cwd} \/ primary.missing = <<>> THEN primary
                  ELSE ResolveIn([primary EXCEPT !.missing = <<>>], primary.missing, q.fallback)
           old == IF listing.young THEN {listing.cwd} ELSE {}
           N == ToSet(q.names)
<1>1. AllRight(all, q, old, N)
  BY AllAnswered
<1>2. /\ listing' = all.list /\ contents' = all.held
      /\ given' = [request |-> q, resolved |-> all.resolved, missing |-> all.missing, old |-> old]
      /\ UNCHANGED <<skillFile, skillClock, changes>>
  BY DEF ResolvesSkills
<1> HIDE DEF all, old
<1>3. given'.request = q /\ given'.resolved = all.resolved /\ given'.missing = all.missing /\ given'.old = old
  BY <1>2
<1>4. SkillsInv'
  <2>1. HeldSkills(all.held) /\ Listed(all.list) /\ all.list = [cwd |-> all.list.cwd, entries |-> all.list.entries, young |-> all.list.young]
        /\ all.list.young \in BOOLEAN
    BY <1>1 DEF AllRight, KeptRight
  <2>2. HeldSkills(contents)' /\ Listed(listing)'
    BY <1>2, <2>1 DEF HeldSkills, Listed
  <2>3. (SkillFileType /\ skillClock \in Nat /\ changes \in Nat /\ \A path \in SkillFile : skillFile[path].mtime <= skillClock)'
    BY <1>2 DEF SkillsInv, SkillFileType
  <2> QED
    BY <1>2, <2>1, <2>2, <2>3 DEF SkillsInv
<1>5. EachNameAnswered'
  <2> DEFINE names == NamesOf(all.resolved) \o all.missing
  <2>0. N \subseteq N /\ q.names \in Seq(N)
    BY SkillsAssumption
  <2> HIDE DEF N
  <2>1. /\ all.resolved \in Seq(AnswerSet(N)) /\ all.missing \in Seq(N)
        /\ \A i \in DOMAIN all.resolved : RightAnswer(all.resolved[i])
        /\ \A x \in N : Count(NamesOf(all.resolved), x) + Count(all.missing, x) = Count(q.names, x)
    BY <1>1 DEF AllRight
  <2>2. NamesOf(all.resolved) \in Seq(N)
    <3>1. Len(all.resolved) \in Nat /\ DOMAIN all.resolved = 1..Len(all.resolved) /\ \A i \in 1..Len(all.resolved) : all.resolved[i] \in AnswerSet(N)
      BY <2>1
    <3>2. \A i \in 1..Len(all.resolved) : all.resolved[i].name \in N
      BY <3>1 DEF AnswerSet
    <3> QED
      BY <3>1, <3>2 DEF NamesOf
  <2>3. names \in Seq(N)
    BY <2>1, <2>2
  <2>4. ASSUME NEW n \in N PROVE Count(names, n) = Count(q.names, n)
    <3> DEFINE a == NamesOf(all.resolved)   b == all.missing
    <3>1. a \in Seq(N) /\ b \in Seq(N)
      BY <2>1, <2>2
    <3>3. Count(a, n) + Count(b, n) = Count(q.names, n)
      BY <2>1, <2>4
    <3> HIDE DEF a, b
    <3>2. Count(a \o b, n) = Count(q.names, n)
      BY <3>1, <3>3, CountConcat
    <3> QED
      BY <3>2 DEF a, b
  <2>5. ToSet(names) \subseteq N /\ ToSet(q.names) \subseteq N
    <3> HIDE DEF names
    <3> QED
      BY <2>0, <2>3 DEF ToSet
  <2>6. \A i \in DOMAIN given'.resolved : given'.resolved[i].name # Reserved
    BY <1>3, <2>1 DEF RightAnswer
  <2>7. [i \in DOMAIN given'.resolved |-> given'.resolved[i].name] \o given'.missing = names
    BY <1>3 DEF NamesOf
  <2> HIDE DEF names
  <2>8. \A n \in ToSet(given'.request.names) \cup ToSet(names) :
          Cardinality({i \in DOMAIN names : names[i] = n}) = Cardinality({i \in DOMAIN given'.request.names : given'.request.names[i] = n})
    BY <1>3, <2>4, <2>5 DEF Count
  <2> QED
    BY <2>6, <2>7, <2>8 DEF EachNameAnswered
<1>6. TextIsCurrent'
  <2>1. \A i \in DOMAIN all.resolved : RightAnswer(all.resolved[i])
    BY <1>1 DEF AllRight
  <2> QED
    BY <1>2, <1>3, <2>1 DEF TextIsCurrent, RightAnswer
<1>7. BestIsGiven'
  <2> DEFINE other == IF q.fallback = NoFile THEN {} ELSE {q.fallback}
  <2>1. \A cwd : Entries(cwd)' = Entries(cwd)
    BY <1>2 DEF Entries
  <2>2. ASSUME old \cap ({q.cwd} \cup other) = {}
        PROVE  /\ \A i \in DOMAIN all.resolved : LET r == all.resolved[i] IN
                    BestAnswer(r) /\ (r.cwd # q.cwd => Fitting0(q.cwd, r.name) = {})
               /\ \A i \in DOMAIN all.missing : LET n == all.missing[i] IN
                    n = Reserved \/ \A cwd \in {q.cwd} \cup other : Fitting0(cwd, n) = {}
    BY <1>1, <2>2 DEF AllRight
  <2>3. ASSUME old \cap ({q.cwd} \cup other) = {}, NEW n \in ToSet(all.missing)
        PROVE  n = Reserved \/ \A cwd \in {q.cwd} \cup other : Fitting0(cwd, n) = {}
    BY <2>2, <2>3 DEF ToSet
  <2> HIDE DEF other
  <2>4. BestIsGiven' = (given'.old \cap ({given'.request.cwd} \cup (IF given'.request.fallback = NoFile THEN {} ELSE {given'.request.fallback})) = {} =>
       /\ \A i \in DOMAIN given'.resolved : LET r == given'.resolved[i] IN
            /\ \E e \in Fitting0(r.cwd, r.name) : e.path = r.path /\ \A f \in Fitting0(r.cwd, r.name) : Priority[f.source] <= Priority[e.source]
            /\ r.cwd # given'.request.cwd => Fitting0(given'.request.cwd, r.name) = {}
       /\ \A n \in ToSet(given'.missing) : n = Reserved \/
            \A cwd \in {given'.request.cwd} \cup (IF given'.request.fallback = NoFile THEN {} ELSE {given'.request.fallback}) : Fitting0(cwd, n) = {})
    BY <2>1 DEF BestIsGiven, Fitting0
  <2> QED
    BY <1>3, <2>2, <2>3, <2>4 DEF BestAnswer, other
<1>8. CacheBounded'
  BY <1>4 DEF SkillsInv, HeldSkills, CacheBounded
<1> QED
  BY <1>4, <1>5, <1>6, <1>7, <1>8 DEF SkillsHold

\* With no answer yet nothing but the cache is at stake.
LEMMA NothingAnswered ==
  SkillsInv /\ given = NoAnswerYet => SkillsHold
<1> SUFFICES ASSUME SkillsInv, given = NoAnswerYet PROVE SkillsHold
  OBVIOUS
<1>1. given.resolved = <<>> /\ given.missing = <<>> /\ given.request.names = <<>>
  BY DEF NoAnswerYet
<1>2. EachNameAnswered
  <2>1. [i \in DOMAIN given.resolved |-> given.resolved[i].name] \o given.missing = <<>>
    BY <1>1
  <2>2. ToSet(<<>>) = {}
    BY DEF ToSet
  <2> QED
    BY <1>1, <2>1, <2>2 DEF EachNameAnswered
<1>3. TextIsCurrent
  BY <1>1 DEF TextIsCurrent
<1>4. BestIsGiven
  <2>1. DOMAIN given.resolved = {} /\ ToSet(given.missing) = {}
    BY <1>1 DEF ToSet
  <2> QED
    BY <2>1 DEF BestIsGiven
<1>5. CacheBounded
  BY DEF SkillsInv, HeldSkills, CacheBounded
<1> QED
  BY <1>2, <1>3, <1>4, <1>5 DEF SkillsHold

\* The caches are as they should be at first and after each step, and so is the answer.
LEMMA SkillsStep ==
  SkillsInv /\ (given = NoAnswerYet \/ SkillsHold) /\ (UNCHANGED skillVars \/ SkillsNext)
    => SkillsInv' /\ (given = NoAnswerYet \/ SkillsHold)'
<1> SUFFICES ASSUME SkillsInv, given = NoAnswerYet \/ SkillsHold, UNCHANGED skillVars \/ SkillsNext
             PROVE  SkillsInv' /\ (given = NoAnswerYet \/ SkillsHold)'
  OBVIOUS
<1>1. ASSUME NEW q \in SkillRequest, ResolvesSkills(q) PROVE SkillsInv' /\ SkillsHold'
  BY <1>1, ResolvesWell
<1>2. ASSUME NEW path \in SkillFile, Rewrites(path) PROVE SkillsInv' /\ given' = NoAnswerYet
  <2> DEFINE new == [there |-> TRUE, mtime |-> skillClock, text |-> changes + 1, blurred |-> skillFile[path].mtime = skillClock]
  <2>1. /\ changes' = changes + 1 /\ given' = NoAnswerYet /\ UNCHANGED <<skillClock, listing, contents>>
        /\ skillFile' = [skillFile EXCEPT ![path] = new]
    BY <1>2 DEF Rewrites
  <2>2. SkillFileType /\ skillClock \in Nat /\ changes \in Nat /\ skillFile[path].mtime <= skillClock /\ skillFile[path].mtime \in Nat
    BY DEF SkillsInv, SkillFileType
  <2>3. new \in [there : BOOLEAN, mtime : Nat, text : Nat, blurred : BOOLEAN] /\ new.mtime = skillClock
        /\ new.blurred = (skillFile[path].mtime = skillClock)
    BY <2>2
  <2> HIDE DEF new
  <2>4. SkillFileType' /\ skillFile'[path] = new /\ \A p \in SkillFile : p # path => skillFile'[p] = skillFile[p]
    BY <2>1, <2>2, <2>3 DEF SkillFileType
  <2>5. \A p \in SkillFile : skillFile'[p].mtime <= skillClock
    BY <2>2, <2>3, <2>4 DEF SkillsInv
  <2>11. \A i \in DOMAIN contents : contents[i] \in CachedSkill
    BY DEF SkillsInv, HeldSkills
  <2>6. \A i \in DOMAIN contents : contents[i].path \in SkillFile
          /\ contents[i].mtime \in Nat /\ contents[i].mtime <= skillFile[contents[i].path].mtime
          /\ (contents[i].mtime = skillFile[contents[i].path].mtime => skillFile[contents[i].path].blurred \/ contents[i].text = skillFile[contents[i].path].text)
    BY <2>11 DEF SkillsInv, HeldSkills, CachedSkill
  <2>7. ASSUME NEW i \in DOMAIN contents PROVE LET file == skillFile'[contents[i].path] IN
          contents[i].mtime <= file.mtime /\ (contents[i].mtime = file.mtime => file.blurred \/ contents[i].text = file.text)
    <3>1. CASE contents[i].path = path
      <4>1. contents[i].mtime \in Nat /\ contents[i].mtime <= skillFile[path].mtime
        BY <2>6, <3>1
      <4>2. contents[i].mtime <= skillClock /\ (contents[i].mtime = skillClock => skillFile[path].mtime = skillClock)
        BY <2>2, <4>1
      <4> QED
        BY <2>3, <2>4, <3>1, <4>2
    <3>2. CASE contents[i].path # path
      BY <2>4, <2>6, <3>2
    <3> QED
      BY <3>1, <3>2
  <2>8. HeldSkills(contents)'
    BY <2>1, <2>7 DEF SkillsInv, HeldSkills
  <2>9. (Listed(listing) /\ listing = [cwd |-> listing.cwd, entries |-> listing.entries, young |-> listing.young] /\ listing.young \in BOOLEAN)'
    BY <2>1 DEF SkillsInv, Listed
  <2>10. changes' \in Nat /\ skillClock' \in Nat /\ (\A p \in SkillFile : skillFile[p].mtime <= skillClock)'
    BY <2>1, <2>2, <2>5
  <2> QED
    BY <2>1, <2>4, <2>8, <2>9, <2>10 DEF SkillsInv
<1>3. ASSUME NEW path \in SkillFile, RemovesSkill(path) PROVE SkillsInv' /\ given' = NoAnswerYet
  <2>1. /\ changes' = changes + 1 /\ given' = NoAnswerYet /\ UNCHANGED <<skillClock, listing, contents>>
        /\ skillFile' = [skillFile EXCEPT ![path].there = FALSE]
    BY <1>3 DEF RemovesSkill
  <2>2. SkillFileType /\ skillClock \in Nat /\ changes \in Nat
    BY DEF SkillsInv
  <2> DEFINE f == skillFile[path]
             g == [f EXCEPT !.there = FALSE]
  <2>3. skillFile' = [skillFile EXCEPT ![path] = g]
    BY <2>1
  <2>11. g \in [there : BOOLEAN, mtime : Nat, text : Nat, blurred : BOOLEAN]
         /\ g.mtime = f.mtime /\ g.text = f.text /\ g.blurred = f.blurred
    <3>1. f \in [there : BOOLEAN, mtime : Nat, text : Nat, blurred : BOOLEAN]
      BY <2>2 DEF SkillFileType
    <3> HIDE DEF f
    <3> QED
      BY <3>1
  <2> HIDE DEF g
  <2>4. SkillFileType'
    BY <2>2, <2>3, <2>11 DEF SkillFileType
  <2>5. \A p \in SkillFile : skillFile'[p].mtime = skillFile[p].mtime /\ skillFile'[p].text = skillFile[p].text
           /\ skillFile'[p].blurred = skillFile[p].blurred
    BY <2>2, <2>3, <2>11 DEF SkillFileType
  <2>10. \A i \in DOMAIN contents : contents[i] \in CachedSkill
    BY DEF SkillsInv, HeldSkills
  <2>6. \A i \in DOMAIN contents : contents[i].path \in SkillFile
    BY <2>10 DEF CachedSkill
  <2>7. HeldSkills(contents)'
    BY <2>1, <2>5, <2>6 DEF SkillsInv, HeldSkills
  <2>8. (Listed(listing) /\ listing = [cwd |-> listing.cwd, entries |-> listing.entries, young |-> listing.young] /\ listing.young \in BOOLEAN)'
    BY <2>1 DEF SkillsInv, Listed
  <2>9. changes' \in Nat /\ skillClock' \in Nat /\ (\A p \in SkillFile : skillFile[p].mtime <= skillClock)'
    BY <2>1, <2>2, <2>5 DEF SkillsInv
  <2> QED
    BY <2>1, <2>4, <2>7, <2>8, <2>9 DEF SkillsInv
<1>4. ASSUME SkillTimePasses PROVE SkillsInv' /\ given' = NoAnswerYet
  <2>1. PICK young \in {FALSE, listing.young} : listing' = [listing EXCEPT !.young = young]
    BY <1>4 DEF SkillTimePasses
  <2>2. skillClock' = skillClock + 1 /\ given' = NoAnswerYet /\ UNCHANGED <<skillFile, changes, contents>>
    BY <1>4 DEF SkillTimePasses
  <2>3. /\ SkillFileType /\ skillClock \in Nat /\ changes \in Nat /\ listing.young \in BOOLEAN /\ Listed(listing)
        /\ listing = [cwd |-> listing.cwd, entries |-> listing.entries, young |-> listing.young]
    BY DEF SkillsInv
  <2>4. listing'.entries = listing.entries /\ listing' = [cwd |-> listing'.cwd, entries |-> listing'.entries, young |-> listing'.young]
        /\ listing'.young \in BOOLEAN
    BY <2>1, <2>3
  <2>5. HeldSkills(contents)' /\ SkillFileType' /\ Listed(listing)' /\ changes' \in Nat /\ skillClock' \in Nat
    BY <2>2, <2>3, <2>4 DEF SkillsInv, HeldSkills, SkillFileType, Listed
  <2>6. \A p \in SkillFile : skillFile'[p].mtime <= skillClock'
    <3>1. \A p \in SkillFile : skillFile[p].mtime \in Nat /\ skillFile[p].mtime <= skillClock
      BY DEF SkillsInv, SkillFileType
    <3> QED
      BY <2>2, <2>3, <3>1
  <2> QED
    BY <2>2, <2>4, <2>5, <2>6 DEF SkillsInv
<1>5. ASSUME UNCHANGED skillVars PROVE SkillsInv' /\ (given = NoAnswerYet \/ SkillsHold)'
  <2>1. skillFile' = skillFile /\ skillClock' = skillClock /\ changes' = changes /\ listing' = listing /\ contents' = contents /\ given' = given
    BY <1>5 DEF skillVars
  <2>2. SkillsInv'
    BY <2>1 DEF SkillsInv, SkillFileType, HeldSkills, Listed
  <2>3. \A cwd : Entries(cwd)' = Entries(cwd)
    BY <2>1 DEF Entries
  <2>4. SkillsHold' = SkillsHold
    <3>1. EachNameAnswered' = EachNameAnswered /\ TextIsCurrent' = TextIsCurrent /\ CacheBounded' = CacheBounded
      BY <2>1 DEF EachNameAnswered, TextIsCurrent, CacheBounded
    <3>2. BestIsGiven' = BestIsGiven
      BY <2>1, <2>3 DEF BestIsGiven
    <3> QED
      BY <3>1, <3>2 DEF SkillsHold
  <2> QED
    BY <2>1, <2>2, <2>4
<1> QED
  BY <1>1, <1>2, <1>3, <1>4, <1>5 DEF SkillsNext

\* At first the caches are empty, whichever files are there.
LEMMA SkillsStart == SkillsInit /\ skillFile \in SkillFiles => SkillsInv /\ given = NoAnswerYet
<1> SUFFICES ASSUME SkillsInit, skillFile \in SkillFiles PROVE SkillsInv /\ given = NoAnswerYet
  OBVIOUS
<1>1. SkillFileType /\ \A path \in SkillFile : skillFile[path].mtime = 0
  <2>1. \A f \in {[there |-> b, mtime |-> 0, text |-> 0, blurred |-> FALSE] : b \in BOOLEAN} :
          f \in [there : BOOLEAN, mtime : Nat, text : Nat, blurred : BOOLEAN] /\ f.mtime = 0
    <3> TAKE f \in {[there |-> b, mtime |-> 0, text |-> 0, blurred |-> FALSE] : b \in BOOLEAN}
    <3>1. PICK b \in BOOLEAN : f = [there |-> b, mtime |-> 0, text |-> 0, blurred |-> FALSE]
      OBVIOUS
    <3> QED
      BY <3>1
  <2> QED
    BY <2>1 DEF SkillFiles, SkillFileType
<1>2. HeldSkills(<<>>)
  <2>1. <<>> \in Seq(CachedSkill) /\ Len(<<>>) = 0 /\ MaxCached >= 0
    BY SkillsAssumption
  <2>2. \A i \in DOMAIN <<>> : FALSE
    <3>1. \A i \in 1..0 : FALSE
      OBVIOUS
    <3>2. DOMAIN <<>> = 1..0
      OBVIOUS
    <3> QED
      BY <3>1, <3>2
  <2> QED
    BY <2>1, <2>2 DEF HeldSkills
<1>3. Listed(NoListing) /\ NoListing = [cwd |-> NoListing.cwd, entries |-> NoListing.entries, young |-> NoListing.young]
        /\ NoListing.young \in BOOLEAN
  BY DEF NoListing, Listed
<1> QED
  BY <1>1, <1>2, <1>3 DEF SkillsInit, SkillsInv

(****************************** Clarification ******************************)

\* What the user has changed, what an open field holds, and what runs.
Changeable(o) ==
  /\ IsBehavior(o) /\ o.output \in File \cup {Off, Unset} /\ o.reads \in Seq(File) \cup {Unset}
  /\ o.model \in {Unset, Nowhere} \/ IsName(o.model)
ClarifyType ==
  /\ clarifyPlan \in ClarifyPlan
  /\ override = [i \in Steps |-> override[i]]
  /\ \A i \in Steps : Changeable(override[i])

\* An open field holds what may be saved from it.
OpenField ==
  /\ DOMAIN dialog = {"pc", "step", "edit", "text", "index", "list", "chosen", "background", "keys"}
  /\ dialog.step \in Steps
  /\ dialog.edit = "output" => dialog.text \in File \cup {Off}
  /\ dialog.edit = "reads" => dialog.text \in Seq(File)
  /\ dialog.edit = "thinking" =>
       /\ IsName(Effective(dialog.step).model)
       /\ dialog.list = Levels(Effective(dialog.step).model) /\ dialog.list \in Seq(ToSet(dialog.list))
       /\ dialog.list # <<>> => dialog.index \in DOMAIN dialog.list

\* While the renaming of outputs is followed, an output that was the only one of its name
\* still is, and who read it reads it under its name of now.
Followed ==
  loose = {} => \A i \in Steps :
    (Base(i).output # Off /\ \A k \in Steps \ {i} : Base(k).output # Base(i).output) =>
      /\ Effective(i).output # Off
      /\ \A k \in Steps \ {i} : Effective(k).output # Effective(i).output
      /\ \A j \in Steps : (i < j /\ \E k \in DOMAIN Base(j).reads : Base(j).reads[k] = Base(i).output) =>
           \E k \in DOMAIN Effective(j).reads : Effective(j).reads[k] = Effective(i).output

HandedOver == dialog.pc = "launched" => launched = [i \in Steps |-> Applied(i)]
ClarifyInv == ClarifyType /\ OpenField /\ LevelsSupported /\ Followed /\ HandedOver

\* What is given, where something is given.
LEMMA GivenIs ==
  ASSUME NEW o, IsBehavior(o), NEW b
  PROVE  /\ IsBehavior(Given(o, b))
         /\ Given(o, b).output = IF o.output = Unset THEN b.output ELSE o.output
         /\ Given(o, b).reads = IF o.reads = Unset THEN b.reads ELSE o.reads
         /\ Given(o, b).progress = IF o.progress = Unset THEN b.progress ELSE o.progress
         /\ Given(o, b).skills = IF o.skills = Unset THEN b.skills ELSE o.skills
         /\ Given(o, b).model = IF o.model = Unset THEN b.model ELSE o.model
  BY DEF Given, IsBehavior

\* The steps' own behaviour depends on the plan alone.
LEMMA BaseStays ==
  ASSUME clarifyPlan' = clarifyPlan
  PROVE  Steps' = Steps /\ Chain' = Chain /\ \A i : Base(i)' = Base(i)
  BY DEF Steps, Chain, Base, Resolved, Given

\* What the call and the agent say.
LEMMA ResolvedIs ==
  ASSUME NEW agent, NEW o, IsBehavior(o)
  PROVE  /\ IsBehavior(Resolved(agent, o))
         /\ Resolved(agent, o).output = Given(o, agent).output /\ Resolved(agent, o).reads = Given(o, agent).reads
         /\ Resolved(agent, o).progress = Given(o, agent).progress /\ Resolved(agent, o).model = Given(o, agent).model
         /\ Resolved(agent, o).skills = IF Given(o, agent).skills = Off THEN Off ELSE Given(o, agent).skills \cup clarifyPlan.chainSkills
<1> DEFINE r == Given(o, agent)
<1>1. IsBehavior(r)
  BY GivenIs
<1> HIDE DEF r
<1>2. Resolved(agent, o) = IF r.skills = Off THEN r ELSE [r EXCEPT !.skills = @ \cup clarifyPlan.chainSkills]
  BY DEF Resolved, r
<1> QED
  BY <1>1, <1>2 DEF IsBehavior, r

\* What the dialog shows of a step before any change.
LEMMA BaseIs ==
  ASSUME clarifyPlan \in ClarifyPlan, NEW i \in Steps
  PROVE  LET a == clarifyPlan.agent[i] c == clarifyPlan.call[i] IN
         /\ IsBehavior(Base(i)) /\ IsBehavior(c)
         /\ Base(i).output = IF c.output = Unset THEN a.output ELSE c.output
         /\ Base(i).reads = IF clarifyPlan.mode = "single" \/ c.reads = Unset THEN a.reads ELSE c.reads
         /\ Base(i).progress = IF clarifyPlan.mode = "single" \/ c.progress = Unset THEN a.progress ELSE c.progress
         /\ Base(i).model = IF clarifyPlan.mode = "single" \/ c.model = Unset THEN a.model ELSE c.model
         /\ LET s == IF c.skills = Unset THEN a.skills ELSE c.skills
            IN Base(i).skills = IF s = Off THEN Off ELSE s \cup clarifyPlan.chainSkills
         /\ Base(i).output \in File \cup {Off} /\ Base(i).reads \in Seq(File)
         /\ Base(i).model = Nowhere \/ IsName(Base(i).model)
<1> DEFINE a == clarifyPlan.agent[i]
           c == clarifyPlan.call[i]
           u == [Unchanged EXCEPT !.output = c.output, !.skills = c.skills]
           o == IF clarifyPlan.mode = "single" THEN u ELSE c
<1>1. /\ a.output \in File \cup {Off} /\ a.reads \in Seq(File) /\ (a.model = Nowhere \/ IsName(a.model))
      /\ IsBehavior(c) /\ c.output \in File \cup {Off, Unset} /\ c.reads \in Seq(File) \cup {Unset}
      /\ c.model \in {Unset, Nowhere} \/ IsName(c.model)
  BY ClarifyAssumption DEF Steps
<1> HIDE DEF a, c
<1>2. IsBehavior(u) /\ u.output = c.output /\ u.skills = c.skills /\ u.reads = Unset /\ u.progress = Unset /\ u.model = Unset
  BY DEF Unchanged, IsBehavior
<1> HIDE DEF u
<1>3. IsBehavior(o) /\ o.output = c.output /\ o.skills = c.skills
  BY <1>1, <1>2
<1>4. Base(i) = Resolved(a, o)
  BY DEF Base, a, c, u
<1>5. /\ IsBehavior(Base(i)) /\ Base(i).output = Given(o, a).output /\ Base(i).reads = Given(o, a).reads
      /\ Base(i).progress = Given(o, a).progress /\ Base(i).model = Given(o, a).model
      /\ Base(i).skills = IF Given(o, a).skills = Off THEN Off ELSE Given(o, a).skills \cup clarifyPlan.chainSkills
  BY <1>3, <1>4, ResolvedIs
<1>6. /\ Given(o, a).output = IF o.output = Unset THEN a.output ELSE o.output
      /\ Given(o, a).reads = IF o.reads = Unset THEN a.reads ELSE o.reads
      /\ Given(o, a).progress = IF o.progress = Unset THEN a.progress ELSE o.progress
      /\ Given(o, a).skills = IF o.skills = Unset THEN a.skills ELSE o.skills
      /\ Given(o, a).model = IF o.model = Unset THEN a.model ELSE o.model
  BY <1>3, GivenIs
<1>7. /\ Base(i).reads = IF clarifyPlan.mode = "single" \/ c.reads = Unset THEN a.reads ELSE c.reads
      /\ Base(i).progress = IF clarifyPlan.mode = "single" \/ c.progress = Unset THEN a.progress ELSE c.progress
      /\ Base(i).model = IF clarifyPlan.mode = "single" \/ c.model = Unset THEN a.model ELSE c.model
  BY <1>2, <1>5, <1>6
<1>8. Base(i).output = IF c.output = Unset THEN a.output ELSE c.output
  BY <1>3, <1>5, <1>6
<1>9. LET s == IF c.skills = Unset THEN a.skills ELSE c.skills
      IN Base(i).skills = IF s = Off THEN Off ELSE s \cup clarifyPlan.chainSkills
  <2> DEFINE s == IF c.skills = Unset THEN a.skills ELSE c.skills
  <2>1. Given(o, a).skills = s
    BY <1>3, <1>6
  <2> HIDE DEF s
  <2>2. Base(i).skills = IF s = Off THEN Off ELSE s \cup clarifyPlan.chainSkills
    BY <1>5, <2>1
  <2> QED
    BY <2>2 DEF s
<1>10. Base(i).output \in File \cup {Off} /\ Base(i).reads \in Seq(File)
  BY <1>1, <1>7, <1>8
<1>11. Base(i).model = Nowhere \/ IsName(Base(i).model)
  BY <1>1, <1>7
<1> HIDE DEF o
<1> QED
  BY <1>1, <1>5, <1>7, <1>8, <1>9, <1>10, <1>11 DEF a, c

\* What it shows after the changes.
LEMMA EffectiveIs ==
  ASSUME ClarifyType, NEW i \in Steps
  PROVE  /\ Effective(i).output = IF override[i].output = Unset THEN Base(i).output ELSE override[i].output
         /\ Effective(i).reads = IF override[i].reads = Unset THEN Base(i).reads ELSE override[i].reads
         /\ Effective(i).progress = IF override[i].progress = Unset THEN Base(i).progress ELSE override[i].progress
         /\ Effective(i).skills = IF override[i].skills = Unset THEN Base(i).skills ELSE override[i].skills
         /\ Effective(i).model = IF override[i].model = Unset THEN Base(i).model ELSE override[i].model
         /\ Effective(i).output \in File \cup {Off} /\ Effective(i).reads \in Seq(File)
         /\ Effective(i).model = Nowhere \/ IsName(Effective(i).model)
<1>1. /\ Effective(i).output = IF override[i].output = Unset THEN Base(i).output ELSE override[i].output
      /\ Effective(i).reads = IF override[i].reads = Unset THEN Base(i).reads ELSE override[i].reads
      /\ Effective(i).progress = IF override[i].progress = Unset THEN Base(i).progress ELSE override[i].progress
      /\ Effective(i).skills = IF override[i].skills = Unset THEN Base(i).skills ELSE override[i].skills
      /\ Effective(i).model = IF override[i].model = Unset THEN Base(i).model ELSE override[i].model
  BY GivenIs DEF Effective, ClarifyType, Changeable
<1>2. Base(i).output \in File \cup {Off} /\ Base(i).reads \in Seq(File) /\ (Base(i).model = Nowhere \/ IsName(Base(i).model))
  BY BaseIs DEF ClarifyType
<1>3. /\ override[i].output \in File \cup {Off, Unset} /\ override[i].reads \in Seq(File) \cup {Unset}
      /\ override[i].model \in {Unset, Nowhere} \/ IsName(override[i].model)
  BY DEF ClarifyType, Changeable
<1> QED
  BY <1>1, <1>2, <1>3

\* The levels of a model do not depend on the one its name has.
LEMMA LevelsKnown ==
  ASSUME NEW m, NEW n, m.id = n.id, m.provider = n.provider
  PROVE  Levels(m) = Levels(n)
<1>1. Info(m) = Info(n)
  BY DEF Info
<1> QED
  BY <1>1 DEF Levels

\* The levels come in order.
LEMMA LevelsSeq == ASSUME NEW m PROVE Levels(m) \in Seq(ToSet(Levels(m)))
<1>1. CASE Info(m) = Nowhere
  BY <1>1, ClarifyAssumption DEF Levels
<1>2. CASE Info(m) # Nowhere
  <2>1. Info(m) \in ToSet(Models)
    <3> DEFINE all == {x \in Range(Models) : x.id = m.id /\ m.provider \in {Nowhere, x.provider}}
               preferred == {x \in all : x.provider = Preferred}
    <3>1. Range(Models) = ToSet(Models)
      BY DEF Range, ToSet
    <3>2. CASE preferred # {}
      BY <3>1, <3>2 DEF Info
    <3>3. CASE preferred = {}
      <4>1. Cardinality(all) = 1 /\ Info(m) = CHOOSE x \in all : TRUE
        BY <1>2, <3>3 DEF Info
      <4>2. all # {}
        BY <4>1, FS_EmptySet
      <4> QED
        BY <3>1, <4>1, <4>2
    <3> QED
      BY <3>2, <3>3
  <2>2. Levels(m) = Info(m).levels
    BY <1>2 DEF Levels
  <2> QED
    BY <2>1, <2>2, ClarifyAssumption
<1> QED
  BY <1>1, <1>2

\* A step that changes nothing of the steps.
LEMMA NothingChanged ==
  ASSUME ClarifyInv, clarifyPlan' = clarifyPlan, override' = override, loose' = loose
  PROVE  ClarifyType' /\ LevelsSupported' /\ Followed' /\ Steps' = Steps /\ \A i : Effective(i)' = Effective(i)
<1>1. Steps' = Steps /\ \A i : Base(i)' = Base(i)
  BY BaseStays
<1>2. \A i : Effective(i)' = Effective(i)
  BY <1>1 DEF Effective, Given
<1>3. ClarifyType'
  BY <1>1 DEF ClarifyInv, ClarifyType, Changeable
<1>4. LevelsSupported'
  BY <1>1 DEF ClarifyInv, LevelsSupported
<1>5. Followed'
  BY <1>1, <1>2 DEF ClarifyInv, Followed
<1> QED
  BY <1>1, <1>2, <1>3, <1>4, <1>5

\* A step that changes at most the skills, the model or the progress of steps.
LEMMA OutputsStay ==
  ASSUME ClarifyInv, clarifyPlan' = clarifyPlan, loose' = loose, ClarifyType',
         \A i \in Steps : override'[i].output = override[i].output /\ override'[i].reads = override[i].reads
  PROVE  Followed'
<1>1. Steps' = Steps /\ \A i : Base(i)' = Base(i)
  BY BaseStays
<1>2. \A i \in Steps : (Effective(i).output)' = Effective(i).output /\ (Effective(i).reads)' = Effective(i).reads
  <2> TAKE i \in Steps
  <2>1. /\ Effective(i).output = IF override[i].output = Unset THEN Base(i).output ELSE override[i].output
        /\ Effective(i).reads = IF override[i].reads = Unset THEN Base(i).reads ELSE override[i].reads
    BY EffectiveIs DEF ClarifyInv
  <2>2. Effective(i)' = Given(override'[i], Base(i))
    BY <1>1 DEF Effective, Given
  <2>3. IsBehavior(override'[i])
    BY <1>1 DEF ClarifyType, Changeable
  <2>4. /\ Given(override'[i], Base(i)).output = IF override'[i].output = Unset THEN Base(i).output ELSE override'[i].output
        /\ Given(override'[i], Base(i)).reads = IF override'[i].reads = Unset THEN Base(i).reads ELSE override'[i].reads
    BY <2>3, GivenIs
  <2> QED
    BY <2>1, <2>2, <2>4
<1> DEFINE out == [i \in Steps |-> Effective(i).output]
           in == [i \in Steps |-> Effective(i).reads]
<1>3. Followed = (loose = {} => \A i \in Steps :
    (Base(i).output # Off /\ \A k \in Steps \ {i} : Base(k).output # Base(i).output) =>
      /\ out[i] # Off
      /\ \A k \in Steps \ {i} : out[k] # out[i]
      /\ \A j \in Steps : (i < j /\ \E k \in DOMAIN Base(j).reads : Base(j).reads[k] = Base(i).output) =>
           \E k \in DOMAIN in[j] : in[j][k] = out[i])
  BY DEF Followed
<1>4. Followed' = (loose = {} => \A i \in Steps :
    (Base(i).output # Off /\ \A k \in Steps \ {i} : Base(k).output # Base(i).output) =>
      /\ out[i] # Off
      /\ \A k \in Steps \ {i} : out[k] # out[i]
      /\ \A j \in Steps : (i < j /\ \E k \in DOMAIN Base(j).reads : Base(j).reads[k] = Base(i).output) =>
           \E k \in DOMAIN in[j] : in[j][k] = out[i])
  BY <1>1, <1>2 DEF Followed
<1> QED
  BY <1>3, <1>4 DEF ClarifyInv

\* One field of one step is changed.
LEMMA OneOverridden ==
  ASSUME ClarifyType, clarifyPlan' = clarifyPlan, NEW i \in Steps, NEW f \in {"output", "reads", "progress", "skills", "model"}, NEW x,
         override' = [override EXCEPT ![i] = [@ EXCEPT ![f] = x]],
         f = "output" => x \in File \cup {Off, Unset}, f = "reads" => x \in Seq(File) \cup {Unset},
         f = "model" => x \in {Unset, Nowhere} \/ IsName(x)
  PROVE  /\ ClarifyType' /\ override'[i][f] = x
         /\ \A j \in Steps, g \in {"output", "reads", "progress", "skills", "model"} :
              j # i \/ g # f => override'[j][g] = override[j][g]
<1>1. Steps' = Steps
  BY BaseStays
<1> DEFINE o == override[i]
           p == [o EXCEPT ![f] = x]
<1>2. DOMAIN o = {"output", "reads", "progress", "skills", "model"} /\ o.output \in File \cup {Off, Unset}
      /\ o.reads \in Seq(File) \cup {Unset} /\ (o.model \in {Unset, Nowhere} \/ IsName(o.model))
  BY DEF ClarifyType, Changeable, IsBehavior
<1> HIDE DEF o
<1>3. DOMAIN p = {"output", "reads", "progress", "skills", "model"} /\ p[f] = x
      /\ \A g \in {"output", "reads", "progress", "skills", "model"} : g # f => p[g] = o[g]
  BY <1>2
<1> HIDE DEF p
<1>4. p.output \in File \cup {Off, Unset} /\ p.reads \in Seq(File) \cup {Unset}
  BY <1>2, <1>3
<1>5. p.model \in {Unset, Nowhere} \/ IsName(p.model)
  BY <1>2, <1>3
<1>6. Changeable(p)
  BY <1>3, <1>4, <1>5 DEF Changeable, IsBehavior
<1>7. override' = [j \in Steps |-> IF j = i THEN p ELSE override[j]]
  BY DEF p, o, ClarifyType
<1>8. \A j \in Steps : override'[j] = IF j = i THEN p ELSE override[j]
  BY <1>7
<1>9. ClarifyType'
  <2>1. override' = [j \in Steps' |-> override'[j]]
    BY <1>1, <1>7
  <2>2. \A j \in Steps : Changeable(override'[j])
    BY <1>6, <1>8 DEF ClarifyType
  <2> QED
    BY <1>1, <2>1, <2>2 DEF ClarifyType, Changeable
<1> QED
  BY <1>3, <1>8, <1>9 DEF o

\* A field that is not open holds nothing to save.
LEMMA FieldShut ==
  ASSUME DOMAIN dialog' = {"pc", "step", "edit", "text", "index", "list", "chosen", "background", "keys"},
         dialog'.step \in Steps', dialog'.edit \notin {"output", "reads", "thinking"}
  PROVE  OpenField'
  BY DEF OpenField

\* Before the launch nothing has been handed over.
LEMMA NotLaunched ==
  ASSUME dialog'.pc # "launched"
  PROVE  HandedOver'
  BY DEF HandedOver

\* What a key leaves alone, and what the dialog shows then.
LEMMA KeyIs ==
  ASSUME OpenField, Key
  PROVE  clarifyPlan' = clarifyPlan /\ launched' = launched /\ dialog.pc = "steps" /\ Steps' = Steps
  BY BaseStays DEF Key

LEMMA ShowsIs ==
  ASSUME NEW d, DOMAIN d = {"pc", "step", "edit", "text", "index", "list", "chosen", "background", "keys"}, Shows(d)
  PROVE  /\ DOMAIN dialog' = {"pc", "step", "edit", "text", "index", "list", "chosen", "background", "keys"}
         /\ dialog'.pc = d.pc /\ dialog'.step = d.step /\ dialog'.edit = d.edit /\ dialog'.text = d.text
         /\ dialog'.index = d.index /\ dialog'.list = d.list
  BY DEF Shows

LEMMA ClosedIs ==
  ASSUME OpenField
  PROVE  /\ DOMAIN Closed = {"pc", "step", "edit", "text", "index", "list", "chosen", "background", "keys"}
         /\ Closed.pc = dialog.pc /\ Closed.step = dialog.step /\ Closed.edit = "none"
  BY DEF OpenField, Closed

LEMMA OpenedIs ==
  ASSUME OpenField, NEW edit
  PROVE  /\ DOMAIN Opened(edit) = {"pc", "step", "edit", "text", "index", "list", "chosen", "background", "keys"}
         /\ Opened(edit).pc = dialog.pc /\ Opened(edit).step = dialog.step /\ Opened(edit).edit = edit
  BY DEF OpenField, Opened

\* Closing a field, whatever was done with it.
LEMMA Closes ==
  ASSUME OpenField, Key, Shows(Closed)
  PROVE  OpenField' /\ HandedOver'
<1>1. Steps' = Steps /\ dialog.pc = "steps" /\ dialog.step \in Steps
  BY KeyIs DEF OpenField
<1>2. /\ DOMAIN dialog' = {"pc", "step", "edit", "text", "index", "list", "chosen", "background", "keys"}
      /\ dialog'.pc = dialog.pc /\ dialog'.step = dialog.step /\ dialog'.edit = "none"
  BY ClosedIs, ShowsIs
<1> QED
  BY <1>1, <1>2, FieldShut, NotLaunched

\* The least of some places.
LEMMA FirstIn ==
  ASSUME NEW n \in Nat, NEW places \in SUBSET (1..n), NEW otherwise
  PROVE  FirstOf(places, otherwise) \in places \cup {otherwise}
<1>1. CASE places = {}
  BY <1>1 DEF FirstOf
<1>2. CASE places # {}
  <2>1. PICK k \in places : \A m \in places : k <= m
    <3>1. places \subseteq Nat
      OBVIOUS
    <3> QED
      BY <1>2, <3>1, LeastNat
  <2>2. Min(places) \in places
    BY <2>1 DEF Min
  <2> QED
    BY <1>2, <2>2 DEF FirstOf
<1> QED
  BY <1>1, <1>2

\* Keys that open a field, move in it or change what it shows, and nothing else.
LEMMA OnlyShown ==
  ASSUME ClarifyInv, clarifyPlan' = clarifyPlan, override' = override, loose' = loose, OpenField', HandedOver'
  PROVE  ClarifyInv'
  BY NothingChanged DEF ClarifyInv

LEMMA SelectsStep == ASSUME ClarifyInv, Selects \/ TogglesBackground \/ Cancels \/ Confirms PROVE ClarifyInv'
<1>1. Key /\ UNCHANGED <<override, loose>> /\ dialog.edit = "none" /\ OpenField
  BY DEF Selects, TogglesBackground, Cancels, Confirms, AtSteps, ClarifyInv
<1>2. clarifyPlan' = clarifyPlan /\ Steps' = Steps /\ dialog.pc = "steps"
  BY <1>1, KeyIs
<1>3. PICK d : /\ Shows(d) /\ DOMAIN d = {"pc", "step", "edit", "text", "index", "list", "chosen", "background", "keys"}
               /\ d.step \in Steps /\ d.edit = "none" /\ d.pc # "launched"
  <2>1. CASE Selects
    <3>1. PICK i \in Steps : Shows([dialog EXCEPT !.step = i])
      BY <2>1 DEF Selects
    <3> QED
      BY <1>1, <1>2, <3>1 DEF OpenField
  <2>2. CASE TogglesBackground
    BY <1>1, <1>2, <2>2 DEF TogglesBackground, OpenField
  <2>3. CASE Cancels
    BY <1>1, <2>3 DEF Cancels, OpenField
  <2>4. CASE Confirms
    BY <1>1, <2>4 DEF Confirms, OpenField
  <2> QED
    BY <2>1, <2>2, <2>3, <2>4
<1>4. OpenField' /\ HandedOver'
  <2>1. /\ DOMAIN dialog' = {"pc", "step", "edit", "text", "index", "list", "chosen", "background", "keys"}
        /\ dialog'.pc = d.pc /\ dialog'.step = d.step /\ dialog'.edit = d.edit
    BY <1>3, ShowsIs
  <2> QED
    BY <1>2, <1>3, <2>1, FieldShut, NotLaunched
<1> QED
  BY <1>1, <1>2, <1>4, OnlyShown

LEMMA OpensStep == ASSUME ClarifyInv, NEW edit \in {"output", "reads"}, OpensText(edit) PROVE ClarifyInv'
<1>1. Key /\ UNCHANGED <<override, loose>> /\ OpenField /\ ClarifyType
  BY DEF OpensText, Opens, AtSteps, ClarifyInv
<1>2. clarifyPlan' = clarifyPlan /\ Steps' = Steps /\ dialog.pc = "steps" /\ dialog.step \in Steps
  BY <1>1, KeyIs DEF OpenField
<1> DEFINE d == [Opened(edit) EXCEPT !.text = Effective(dialog.step)[edit]]
<1>3. /\ DOMAIN d = {"pc", "step", "edit", "text", "index", "list", "chosen", "background", "keys"}
      /\ d.pc = dialog.pc /\ d.step = dialog.step /\ d.edit = edit /\ d.text = Effective(dialog.step)[edit]
  BY <1>1, OpenedIs
<1>4. Shows(d)
  BY DEF OpensText
<1> HIDE DEF d
<1>5. /\ DOMAIN dialog' = {"pc", "step", "edit", "text", "index", "list", "chosen", "background", "keys"}
      /\ dialog'.pc = d.pc /\ dialog'.step = d.step /\ dialog'.edit = d.edit /\ dialog'.text = d.text
  BY <1>3, <1>4, ShowsIs
<1>6. Effective(dialog.step).output \in File \cup {Off} /\ Effective(dialog.step).reads \in Seq(File)
  BY <1>1, <1>2, EffectiveIs
<1>7. OpenField'
  BY <1>2, <1>3, <1>5, <1>6 DEF OpenField
<1>8. HandedOver'
  BY <1>2, <1>3, <1>5, NotLaunched
<1> QED
  BY <1>1, <1>2, <1>7, <1>8, OnlyShown

LEMMA TypesStep == ASSUME ClarifyInv, Types PROVE ClarifyInv'
<1>1. Key /\ UNCHANGED <<override, loose>> /\ OpenField /\ dialog.edit \in {"output", "reads"}
  BY DEF Types, Editing, ClarifyInv
<1>2. clarifyPlan' = clarifyPlan /\ Steps' = Steps /\ dialog.pc = "steps" /\ dialog.step \in Steps
  BY <1>1, KeyIs DEF OpenField
<1>3. PICK text \in (IF dialog.edit = "output" THEN File \cup {Off} ELSE Reading) : Shows([dialog EXCEPT !.text = text])
  BY DEF Types
<1> DEFINE d == [dialog EXCEPT !.text = text]
<1>4. /\ DOMAIN d = {"pc", "step", "edit", "text", "index", "list", "chosen", "background", "keys"}
      /\ d.pc = dialog.pc /\ d.step = dialog.step /\ d.edit = dialog.edit /\ d.text = text
  BY <1>1 DEF OpenField
<1>5. Shows(d)
  BY <1>3
<1> HIDE DEF d
<1>6. /\ DOMAIN dialog' = {"pc", "step", "edit", "text", "index", "list", "chosen", "background", "keys"}
      /\ dialog'.pc = d.pc /\ dialog'.step = d.step /\ dialog'.edit = d.edit /\ dialog'.text = d.text
  BY <1>4, <1>5, ShowsIs
<1>7. OpenField'
  BY <1>1, <1>2, <1>3, <1>4, <1>6, ClarifyAssumption DEF OpenField
<1>8. HandedOver'
  BY <1>2, <1>4, <1>6, NotLaunched
<1> QED
  BY <1>1, <1>2, <1>7, <1>8, OnlyShown

LEMMA DiscardsStep == ASSUME ClarifyInv, Discards PROVE ClarifyInv'
<1>1. Key /\ UNCHANGED <<override, loose>> /\ OpenField /\ Shows(Closed)
  BY DEF Discards, Editing, ClarifyInv
<1>2. clarifyPlan' = clarifyPlan
  BY <1>1, KeyIs
<1> QED
  BY <1>1, <1>2, Closes, OnlyShown

\* The selectors of models and of skills hold nothing that must be right.
LEMMA SelectorStep ==
  ASSUME ClarifyInv, OpensModels \/ OpensSkills \/ MovesInModels \/ MovesInSkills \/ TogglesSkill
                     \/ \E query \in Query : SearchesModels(query) \/ SearchesSkills(query)
  PROVE  ClarifyInv'
<1> DEFINE Fields == {"pc", "step", "edit", "text", "index", "list", "chosen", "background", "keys"}
           Fine(d) == DOMAIN d = Fields /\ d.step = dialog.step /\ d.pc = dialog.pc /\ d.edit \in {"model", "skills"}
<1>1. Key /\ UNCHANGED <<override, loose>> /\ OpenField
  BY DEF OpensModels, OpensSkills, MovesInModels, MovesInSkills, TogglesSkill, SearchesModels, SearchesSkills, Searches, MovesIn,
         Opens, AtSteps, Editing, ClarifyInv
<1>2. clarifyPlan' = clarifyPlan /\ Steps' = Steps /\ dialog.pc = "steps" /\ dialog.step \in Steps /\ DOMAIN dialog = Fields
  BY <1>1, KeyIs DEF OpenField
<1>3. \A e : Opened(e) = [dialog EXCEPT !.edit = e, !.index = 1]
  BY DEF Opened
<1>4. \E d : Fine(d) /\ Shows(d)
  <2>1. CASE OpensModels
    <3>1. PICK i : Shows([Opened("model") EXCEPT !.list = Models, !.index = i])
      BY <2>1 DEF OpensModels
    <3> DEFINE d == [Opened("model") EXCEPT !.list = Models, !.index = i]
    <3>2. Fine(d)
      BY <1>1, OpenedIs
    <3> QED
      BY <3>1, <3>2
  <2>2. CASE OpensSkills
    <3>1. PICK c : Shows([Opened("skills") EXCEPT !.list = Skills, !.chosen = c])
      BY <2>2 DEF OpensSkills
    <3> DEFINE d == [Opened("skills") EXCEPT !.list = Skills, !.chosen = c]
    <3>2. Fine(d)
      BY <1>1, OpenedIs
    <3> QED
      BY <3>1, <3>2
  <2>3. CASE MovesInModels \/ MovesInSkills
    <3>1. PICK i : Shows([dialog EXCEPT !.index = i])
      BY <2>3 DEF MovesInModels, MovesInSkills, MovesIn
    <3>2. dialog.edit \in {"model", "skills"}
      BY <2>3 DEF MovesInModels, MovesInSkills, MovesIn, Editing
    <3> DEFINE d == [dialog EXCEPT !.index = i]
    <3>3. Fine(d)
      BY <1>2, <3>2
    <3> QED
      BY <3>1, <3>3
  <2>4. CASE TogglesSkill
    <3>1. PICK c : Shows([dialog EXCEPT !.chosen = c])
      BY <2>4 DEF TogglesSkill
    <3>2. dialog.edit \in {"model", "skills"}
      BY <2>4 DEF TogglesSkill, Editing
    <3> DEFINE d == [dialog EXCEPT !.chosen = c]
    <3>3. Fine(d)
      BY <1>2, <3>2
    <3> QED
      BY <3>1, <3>3
  <2>5. ASSUME NEW query, SearchesModels(query) \/ SearchesSkills(query) PROVE \E d : Fine(d) /\ Shows(d)
    <3>1. PICK l, i : Shows([dialog EXCEPT !.list = l, !.index = i])
      BY <2>5 DEF SearchesModels, SearchesSkills, Searches
    <3>2. dialog.edit \in {"model", "skills"}
      BY <2>5 DEF SearchesModels, SearchesSkills, Searches, Editing
    <3> DEFINE d == [dialog EXCEPT !.list = l, !.index = i]
    <3>3. Fine(d)
      BY <1>2, <3>2
    <3> QED
      BY <3>1, <3>3
  <2> QED
    BY <2>1, <2>2, <2>3, <2>4, <2>5
<1>5. PICK d : Fine(d) /\ Shows(d)
  BY <1>4
<1>6. DOMAIN dialog' = Fields /\ dialog'.pc = d.pc /\ dialog'.step = d.step /\ dialog'.edit = d.edit
  BY <1>5, ShowsIs
<1>7. OpenField'
  BY <1>2, <1>5, <1>6, FieldShut
<1>8. HandedOver'
  BY <1>2, <1>5, <1>6, NotLaunched
<1> QED
  BY <1>1, <1>2, <1>7, <1>8, OnlyShown

\* The selector of levels shows those of the step's model, at one of them.
LEMMA OpensLevelsStep == ASSUME ClarifyInv, OpensLevels PROVE ClarifyInv'
<1>1. Key /\ UNCHANGED <<override, loose>> /\ OpenField /\ ClarifyType
  BY DEF OpensLevels, Opens, AtSteps, ClarifyInv
<1>2. clarifyPlan' = clarifyPlan /\ Steps' = Steps /\ dialog.pc = "steps" /\ dialog.step \in Steps
  BY <1>1, KeyIs DEF OpenField
<1> DEFINE name == Effective(dialog.step).model
           levels == Levels(name)
           At(level) == {k \in DOMAIN levels : levels[k] = level}
           i == FirstOf(At(name.level), FirstOf(At("off"), 1))
           d == [Opened("thinking") EXCEPT !.list = levels, !.index = i]
<1>3. name # Nowhere /\ Shows(d)
  BY DEF OpensLevels
<1>4. IsName(name)
  BY <1>1, <1>2, <1>3, EffectiveIs
<1> HIDE DEF name
<1>5. levels \in Seq(ToSet(levels))
  BY LevelsSeq
<1> HIDE DEF levels
<1>6. levels # <<>> => i \in DOMAIN levels
  <2>1. Len(levels) \in Nat /\ DOMAIN levels = 1..Len(levels)
    BY <1>5
  <2>2. FirstOf(At("off"), 1) \in At("off") \cup {1}
    <3>1. At("off") \in SUBSET (1..Len(levels))
      BY <2>1
    <3> HIDE DEF At
    <3> QED
      BY <2>1, <3>1, FirstIn
  <2>3. i \in At(name.level) \cup {FirstOf(At("off"), 1)}
    <3>1. At(name.level) \in SUBSET (1..Len(levels))
      BY <2>1
    <3> HIDE DEF At
    <3> QED
      BY <2>1, <3>1, FirstIn
  <2>4. levels # <<>> => 1 \in DOMAIN levels
    BY <1>5, <2>1
  <2> QED
    BY <2>1, <2>2, <2>3, <2>4
<1> HIDE DEF i
<1>7. /\ DOMAIN d = {"pc", "step", "edit", "text", "index", "list", "chosen", "background", "keys"}
      /\ d.pc = dialog.pc /\ d.step = dialog.step /\ d.edit = "thinking" /\ d.list = levels /\ d.index = i
  BY <1>1, OpenedIs
<1> HIDE DEF d
<1>8. /\ DOMAIN dialog' = {"pc", "step", "edit", "text", "index", "list", "chosen", "background", "keys"}
      /\ dialog'.pc = d.pc /\ dialog'.step = d.step /\ dialog'.edit = d.edit /\ dialog'.list = d.list /\ dialog'.index = d.index
  BY <1>3, <1>7, ShowsIs
<1>10. Effective(dialog.step)' = Effective(dialog.step)
  BY <1>1, <1>2, <1>7, <1>8 DEF Effective, Given, Base, Resolved
<1>11. OpenField'
  BY <1>2, <1>4, <1>5, <1>6, <1>7, <1>8, <1>10 DEF OpenField, levels, name
<1>12. HandedOver'
  BY <1>2, <1>7, <1>8, NotLaunched
<1> QED
  BY <1>1, <1>2, <1>11, <1>12, OnlyShown

LEMMA MovesInLevelsStep == ASSUME ClarifyInv, MovesInLevels PROVE ClarifyInv'
<1>1. Key /\ UNCHANGED <<override, loose>> /\ OpenField /\ ClarifyType /\ dialog.edit = "thinking" /\ dialog.list # <<>>
  BY DEF MovesInLevels, MovesIn, Editing, ClarifyInv
<1>2. clarifyPlan' = clarifyPlan /\ Steps' = Steps /\ dialog.pc = "steps" /\ dialog.step \in Steps
  BY <1>1, KeyIs DEF OpenField
<1> DEFINE n == Len(dialog.list)   k == dialog.index
<1>3. dialog.list \in Seq(ToSet(dialog.list)) /\ k \in DOMAIN dialog.list
  BY <1>1 DEF OpenField
<1>4. n \in Nat /\ DOMAIN dialog.list = 1..n
  BY <1>3
<1>5. PICK i \in DOMAIN dialog.list : Shows([dialog EXCEPT !.index = i])
  <2>1. (IF k = n THEN 1 ELSE k + 1) \in 1..n /\ (IF k = 1 THEN n ELSE k - 1) \in 1..n
    BY <1>3, <1>4
  <2>2. Shows([dialog EXCEPT !.index = IF k = n THEN 1 ELSE k + 1]) \/ Shows([dialog EXCEPT !.index = IF k = 1 THEN n ELSE k - 1])
    BY DEF MovesInLevels, MovesIn
  <2> QED
    BY <1>4, <2>1, <2>2
<1> DEFINE d == [dialog EXCEPT !.index = i]
<1>6. /\ DOMAIN d = {"pc", "step", "edit", "text", "index", "list", "chosen", "background", "keys"}
      /\ d.pc = dialog.pc /\ d.step = dialog.step /\ d.edit = "thinking" /\ d.list = dialog.list /\ d.index = i
  BY <1>1 DEF OpenField
<1>7. Shows(d)
  BY <1>5
<1> HIDE DEF d
<1>8. /\ DOMAIN dialog' = {"pc", "step", "edit", "text", "index", "list", "chosen", "background", "keys"}
      /\ dialog'.pc = d.pc /\ dialog'.step = d.step /\ dialog'.edit = d.edit /\ dialog'.list = d.list /\ dialog'.index = d.index
  BY <1>6, <1>7, ShowsIs
<1>9. Effective(dialog.step)' = Effective(dialog.step)
  BY <1>1, <1>2, <1>6, <1>8 DEF Effective, Given, Base, Resolved
<1>10. OpenField'
  BY <1>1, <1>2, <1>5, <1>6, <1>8, <1>9 DEF OpenField
<1>11. HandedOver'
  BY <1>2, <1>6, <1>8, NotLaunched
<1> QED
  BY <1>1, <1>2, <1>10, <1>11, OnlyShown

\* Models that stay have the levels they had.
LEMMA ModelsStay ==
  ASSUME LevelsSupported, Steps' = Steps, \A i \in Steps : override'[i].model = override[i].model
  PROVE  LevelsSupported'
  BY DEF LevelsSupported

LEMMA SavesReadsStep == ASSUME ClarifyInv, SavesReads PROVE ClarifyInv'
<1>1. Key /\ Shows(Closed) /\ OpenField /\ ClarifyType /\ LevelsSupported /\ dialog.edit = "reads"
  BY DEF SavesReads, Editing, ClarifyInv
<1>2. clarifyPlan' = clarifyPlan /\ Steps' = Steps /\ dialog.step \in Steps /\ dialog.text \in Seq(File)
  BY <1>1, KeyIs DEF OpenField
<1>3. override' = [override EXCEPT ![dialog.step] = [@ EXCEPT !["reads"] = dialog.text]]
  BY DEF SavesReads, Overrides
<1>4. ClarifyType' /\ \A j \in Steps : override'[j]["model"] = override[j]["model"]
  <2>1. ClarifyType' /\ \A j \in Steps, g \in {"output", "reads", "progress", "skills", "model"} :
          j # dialog.step \/ g # "reads" => override'[j][g] = override[j][g]
    BY <1>1, <1>2, <1>3, OneOverridden
  <2> QED
    BY <2>1
<1>5. LevelsSupported'
  BY <1>1, <1>2, <1>4, ModelsStay
<1>6. Followed'
  <2>1. loose' # {}
    BY DEF SavesReads
  <2> QED
    BY <2>1 DEF Followed
<1> QED
  BY <1>1, <1>4, <1>5, <1>6, Closes DEF ClarifyInv

LEMMA TogglesProgressStep == ASSUME ClarifyInv, TogglesProgress PROVE ClarifyInv'
<1>1. Key /\ Shows(dialog) /\ OpenField /\ ClarifyType /\ LevelsSupported /\ dialog.edit = "none" /\ loose' = loose
  BY DEF TogglesProgress, AtSteps, ClarifyInv
<1>2. clarifyPlan' = clarifyPlan /\ Steps' = Steps /\ dialog.step \in Steps /\ dialog.pc = "steps"
  BY <1>1, KeyIs DEF OpenField
<1>3. PICK new : override' = [i \in Steps |-> [override[i] EXCEPT !.progress = new]]
  BY DEF TogglesProgress
<1>4. \A i \in Steps : /\ Changeable(override'[i]) /\ override'[i].model = override[i].model
                       /\ override'[i].output = override[i].output /\ override'[i].reads = override[i].reads
  <2> TAKE i \in Steps
  <2> DEFINE o == override[i]   p == [o EXCEPT !.progress = new]
  <2>1. Changeable(o)
    BY <1>1 DEF ClarifyType
  <2> HIDE DEF o
  <2>2. DOMAIN p = DOMAIN o /\ p.model = o.model /\ p.output = o.output /\ p.reads = o.reads
    BY <2>1 DEF Changeable, IsBehavior
  <2>3. override'[i] = p
    BY <1>3 DEF o
  <2> HIDE DEF p
  <2> QED
    BY <2>1, <2>2, <2>3 DEF Changeable, IsBehavior, o
<1>5. ClarifyType'
  <2>1. override' = [i \in Steps' |-> override'[i]]
    BY <1>2, <1>3
  <2> QED
    BY <1>1, <1>2, <1>4, <2>1 DEF ClarifyType, Changeable
<1>6. LevelsSupported' /\ Followed'
  BY <1>1, <1>2, <1>4, <1>5, ModelsStay, OutputsStay
<1>7. /\ DOMAIN dialog' = {"pc", "step", "edit", "text", "index", "list", "chosen", "background", "keys"}
      /\ dialog'.pc = dialog.pc /\ dialog'.step = dialog.step /\ dialog'.edit = dialog.edit
  BY <1>1, ShowsIs DEF OpenField
<1>8. OpenField' /\ HandedOver'
  BY <1>1, <1>2, <1>7, FieldShut, NotLaunched
<1> QED
  BY <1>5, <1>6, <1>8 DEF ClarifyInv

LEMMA ChoosesSkillsStep == ASSUME ClarifyInv, ChoosesSkills PROVE ClarifyInv'
<1>1. Key /\ Shows(Closed) /\ OpenField /\ ClarifyType /\ LevelsSupported /\ loose' = loose
  BY DEF ChoosesSkills, Editing, ClarifyInv
<1>2. clarifyPlan' = clarifyPlan /\ Steps' = Steps /\ dialog.step \in Steps
  BY <1>1, KeyIs DEF OpenField
<1>3. override' = [override EXCEPT ![dialog.step] = [@ EXCEPT !["skills"] = dialog.chosen]]
  BY DEF ChoosesSkills, Overrides
<1>4. ClarifyType' /\ \A j \in Steps : /\ override'[j]["model"] = override[j]["model"]
                                       /\ override'[j]["output"] = override[j]["output"] /\ override'[j]["reads"] = override[j]["reads"]
  <2>1. ClarifyType' /\ \A j \in Steps, g \in {"output", "reads", "progress", "skills", "model"} :
          j # dialog.step \/ g # "skills" => override'[j][g] = override[j][g]
    BY <1>1, <1>2, <1>3, OneOverridden
  <2> QED
    BY <2>1
<1>5. LevelsSupported' /\ Followed'
  BY <1>1, <1>2, <1>4, ModelsStay, OutputsStay
<1> QED
  BY <1>1, <1>4, <1>5, Closes DEF ClarifyInv

\* A model that is chosen has a level only if that is one of its levels.
LEMMA ModelOverridden ==
  ASSUME ClarifyInv, clarifyPlan' = clarifyPlan, loose' = loose, dialog.step \in Steps, NEW name, IsName(name),
         override' = [override EXCEPT ![dialog.step] = [@ EXCEPT !["model"] = name]],
         name.level = Nowhere \/ \E k \in DOMAIN Levels(name) : Levels(name)[k] = name.level
  PROVE  ClarifyType' /\ LevelsSupported' /\ Followed'
<1>1. Steps' = Steps
  BY BaseStays
<1>2. /\ ClarifyType' /\ override'[dialog.step]["model"] = name
      /\ \A j \in Steps : /\ j # dialog.step => override'[j]["model"] = override[j]["model"]
                          /\ override'[j]["output"] = override[j]["output"] /\ override'[j]["reads"] = override[j]["reads"]
  <2>1. ClarifyType' /\ override'[dialog.step]["model"] = name /\ \A j \in Steps, g \in {"output", "reads", "progress", "skills", "model"} :
          j # dialog.step \/ g # "model" => override'[j][g] = override[j][g]
    BY OneOverridden DEF ClarifyInv
  <2> QED
    BY <2>1
<1>3. LevelsSupported'
  <2>1. \A j \in Steps : override'[j].model = name \/ override'[j].model = override[j].model
    BY <1>2
  <2>2. ASSUME NEW j \in Steps
        PROVE  LET m == override'[j].model IN m # Unset => m.level = Nowhere \/ \E k \in DOMAIN Levels(m) : Levels(m)[k] = m.level
    BY <2>1 DEF ClarifyInv, LevelsSupported
  <2> QED
    BY <1>1, <2>2 DEF LevelsSupported
<1>4. Followed'
  BY <1>2, OutputsStay
<1> QED
  BY <1>2, <1>3, <1>4

LEMMA ChoosesModelStep == ASSUME ClarifyInv, ChoosesModel PROVE ClarifyInv'
<1>1. Key /\ Shows(Closed) /\ OpenField /\ ClarifyType /\ LevelsSupported /\ loose' = loose
  BY DEF ChoosesModel, Editing, ClarifyInv
<1>2. clarifyPlan' = clarifyPlan /\ Steps' = Steps /\ dialog.step \in Steps
  BY <1>1, KeyIs DEF OpenField
<1>3. OpenField' /\ HandedOver'
  BY <1>1, Closes
<1>4. CASE dialog.list = <<>>
  <2>1. override' = override
    BY <1>4 DEF ChoosesModel
  <2> QED
    BY <1>1, <1>2, <1>3, <2>1, OnlyShown
<1>5. CASE dialog.list # <<>>
  <2> DEFINE m == dialog.list[dialog.index]
             old == FullName(Effective(dialog.step).model)
             name == [provider |-> m.provider, id |-> m.id, level |-> Nowhere]
             keeps == old # Nowhere /\ \E k \in DOMAIN Levels(name) : Levels(name)[k] = old.level
             kept == [name EXCEPT !.level = old.level]
             new == IF keeps THEN kept ELSE name
  <2>1. override' = [override EXCEPT ![dialog.step] = [@ EXCEPT !["model"] = new]]
    BY <1>5 DEF ChoosesModel, Overrides
  <2>2. IsName(name) /\ name.level = Nowhere
    BY DEF IsName
  <2> HIDE DEF name, old, m
  <2>3. IsName(kept) /\ kept.level = old.level /\ kept.id = name.id /\ kept.provider = name.provider
    BY <2>2 DEF IsName
  <2> HIDE DEF kept
  <2>4. Levels(kept) = Levels(name)
    BY <2>3, LevelsKnown
  <2>5. IsName(new)
    BY <2>2, <2>3
  <2>6. new.level = Nowhere \/ \E k \in DOMAIN Levels(new) : Levels(new)[k] = new.level
    <3>1. CASE keeps
      <4>1. new = kept
        BY <3>1
      <4> HIDE DEF new
      <4> QED
        BY <2>3, <2>4, <3>1, <4>1
    <3>2. CASE ~ keeps
      BY <2>2, <3>2
    <3> QED
      BY <3>1, <3>2
  <2> HIDE DEF new
  <2>7. ClarifyType' /\ LevelsSupported' /\ Followed'
    BY <1>1, <1>2, <2>1, <2>5, <2>6, ModelOverridden
  <2> QED
    BY <1>3, <2>7 DEF ClarifyInv
<1> QED
  BY <1>4, <1>5

LEMMA ChoosesLevelStep == ASSUME ClarifyInv, ChoosesLevel PROVE ClarifyInv'
<1>1. Key /\ Shows(Closed) /\ OpenField /\ ClarifyType /\ LevelsSupported /\ loose' = loose /\ dialog.edit = "thinking" /\ dialog.list # <<>>
  BY DEF ChoosesLevel, Editing, ClarifyInv
<1>2. clarifyPlan' = clarifyPlan /\ Steps' = Steps /\ dialog.step \in Steps
  BY <1>1, KeyIs DEF OpenField
<1>3. OpenField' /\ HandedOver'
  BY <1>1, Closes
<1> DEFINE old == Effective(dialog.step).model
           level == dialog.list[dialog.index]
           x == IF level = "off" THEN Nowhere ELSE level
           new == [old EXCEPT !.level = x]
<1>4. override' = [override EXCEPT ![dialog.step] = [@ EXCEPT !["model"] = new]]
  BY DEF ChoosesLevel, Overrides
<1>5. IsName(old) /\ dialog.list = Levels(old) /\ dialog.index \in DOMAIN dialog.list
  BY <1>1 DEF OpenField
<1> HIDE DEF old
<1>6. IsName(new) /\ new.level = x /\ new.id = old.id /\ new.provider = old.provider
  BY <1>5 DEF IsName
<1> HIDE DEF new
<1>7. Levels(new) = Levels(old)
  BY <1>6, LevelsKnown
<1>8. new.level = Nowhere \/ \E k \in DOMAIN Levels(new) : Levels(new)[k] = new.level
  BY <1>5, <1>6, <1>7
<1>9. ClarifyType' /\ LevelsSupported' /\ Followed'
  BY <1>1, <1>2, <1>4, <1>6, <1>8, ModelOverridden
<1> QED
  BY <1>3, <1>9 DEF ClarifyInv

\* The first mention of a name takes the new name, the others stay.
LEMMA FirstRenamed ==
  ASSUME NEW reads \in Seq(File), NEW old, NEW new \in File, \E k \in DOMAIN reads : reads[k] = old
  PROVE  LET now == [reads EXCEPT ![FirstMention(reads, old)] = new]
         IN /\ now \in Seq(File) /\ DOMAIN now = DOMAIN reads /\ \E k \in DOMAIN now : now[k] = new
            /\ \A k \in DOMAIN reads : reads[k] # old => now[k] = reads[k]
<1> DEFINE First(k) == reads[k] = old /\ \A n \in 1..(k - 1) : reads[n] # old
           first == FirstMention(reads, old)
           now == [reads EXCEPT ![first] = new]
           At == {k \in DOMAIN reads : reads[k] = old}
<1>1. Len(reads) \in Nat /\ DOMAIN reads = 1..Len(reads)
  OBVIOUS
<1>2. PICK k \in At : \A m \in At : k <= m
  <2>1. At \subseteq Nat /\ At # {}
    BY <1>1
  <2> HIDE DEF At
  <2> QED
    BY <2>1, LeastNat
<1>3. First(k)
  BY <1>1, <1>2
<1>4. first \in DOMAIN reads /\ First(first)
  <2>1. k \in DOMAIN reads
    BY <1>2
  <2>2. first = CHOOSE n \in DOMAIN reads : First(n)
    BY DEF FirstMention
  <2> HIDE DEF First, first
  <2> QED
    BY <1>3, <2>1, <2>2
<1>5. reads[first] = old
  BY <1>4
<1> HIDE DEF first
<1>6. DOMAIN now = DOMAIN reads /\ now[first] = new /\ \A n \in DOMAIN reads : n # first => now[n] = reads[n]
  BY <1>4
<1>7. now \in Seq(File)
  BY <1>4
<1> HIDE DEF now
<1>8. /\ now \in Seq(File) /\ DOMAIN now = DOMAIN reads /\ \E n \in DOMAIN now : now[n] = new
      /\ \A n \in DOMAIN reads : reads[n] # old => now[n] = reads[n]
  BY <1>4, <1>5, <1>6, <1>7
<1> QED
  BY <1>8 DEF now, first

\* A list of reads in which a name was renamed where it was mentioned, if it had to be.
Renaming(was, now, due, old, new) ==
  /\ \A k \in DOMAIN was : was[k] # old => k \in DOMAIN now /\ now[k] = was[k]
  /\ due /\ (\E k \in DOMAIN was : was[k] = old) => \E k \in DOMAIN now : now[k] = new

\* What a renaming leaves of a step: everything but its reads, and of those all but the old name.
LEMMA RenamedIs ==
  ASSUME NEW o, o = [j \in Steps |-> o[j]], \A j \in Steps : Changeable(o[j]),
         NEW i \in Steps, NEW old, NEW new \in File, clarifyPlan \in ClarifyPlan
  PROVE  /\ Renamed(o, i, old, new) = [j \in Steps |-> Renamed(o, i, old, new)[j]]
         /\ \A j \in Steps : LET p == Renamed(o, i, old, new)[j] was == Given(o[j], Base(j)).reads now == Given(p, Base(j)).reads IN
              /\ Changeable(p) /\ p.output = o[j].output /\ p.model = o[j].model
              /\ Renaming(was, now, j > i, old, new)
<1>1. Renamed(o, i, old, new) = [j \in Steps |-> Renamed(o, i, old, new)[j]]
  BY DEF Renamed
<1>2. ASSUME NEW j \in Steps
      PROVE  LET p == Renamed(o, i, old, new)[j] was == Given(o[j], Base(j)).reads now == Given(p, Base(j)).reads IN
              /\ Changeable(p) /\ p.output = o[j].output /\ p.model = o[j].model
              /\ Renaming(was, now, j > i, old, new)
  <2> DEFINE q == o[j]
             p == Renamed(o, i, old, new)[j]
             reads == Given(q, Base(j)).reads
             now == Given(p, Base(j)).reads
             next == [reads EXCEPT ![FirstMention(reads, old)] = new]
  <2>1. Changeable(q)
    OBVIOUS
  <2>2. p = IF j > i /\ \E k \in DOMAIN reads : reads[k] = old THEN [q EXCEPT !.reads = next] ELSE q
    BY DEF Renamed
  <2>3. reads = (IF q.reads = Unset THEN Base(j).reads ELSE q.reads) /\ reads \in Seq(File)
    <3>1. reads = (IF q.reads = Unset THEN Base(j).reads ELSE q.reads)
      BY <2>1, GivenIs DEF Changeable
    <3>2. Base(j).reads \in Seq(File)
      BY BaseIs
    <3> QED
      BY <2>1, <3>1, <3>2 DEF Changeable
  <2> HIDE DEF q, reads, p
  <2>4. CASE ~ (j > i /\ \E k \in DOMAIN reads : reads[k] = old)
    <3>1. p = q
      BY <2>2, <2>4
    <3>2. now = reads
      BY <3>1 DEF reads
    <3> HIDE DEF now
    <3>3. /\ Changeable(p) /\ p.output = q.output /\ p.model = q.model
          /\ Renaming(reads, now, j > i, old, new)
      BY <2>1, <2>4, <3>1, <3>2 DEF Renaming
    <3> QED
      BY <3>3 DEF now, p, q, reads
  <2>5. CASE j > i /\ \E k \in DOMAIN reads : reads[k] = old
    <3>1. /\ next \in Seq(File) /\ DOMAIN next = DOMAIN reads /\ \E k \in DOMAIN next : next[k] = new
          /\ \A k \in DOMAIN reads : reads[k] # old => next[k] = reads[k]
      BY <2>3, <2>5, FirstRenamed
    <3> HIDE DEF next
    <3>2. p = [q EXCEPT !.reads = next]
      BY <2>2, <2>5
    <3>3. DOMAIN p = DOMAIN q /\ p.reads = next /\ p.output = q.output /\ p.model = q.model
      BY <2>1, <3>2 DEF Changeable, IsBehavior
    <3>4. Changeable(p)
      BY <2>1, <3>1, <3>3 DEF Changeable, IsBehavior
    <3>5. now = next
      <4>1. next # Unset
        BY <3>1, ClarifyAssumption
      <4> QED
        BY <3>3, <3>4, <4>1, GivenIs DEF Changeable
    <3> HIDE DEF now
    <3>6. /\ Changeable(p) /\ p.output = q.output /\ p.model = q.model
          /\ Renaming(reads, now, j > i, old, new)
      BY <2>5, <3>1, <3>3, <3>4, <3>5 DEF Renaming
    <3> QED
      BY <3>6 DEF now, p, q, reads
  <2> QED
    BY <2>4, <2>5
<1> QED
  BY <1>1, <1>2

\* The new name of an output is that of no other step, or the renaming is no longer followed.
LEMMA SavesOutputStep == ASSUME ClarifyInv, SavesOutput PROVE ClarifyInv'
<1> DEFINE i == dialog.step   old == Effective(i).output   new == dialog.text
           o == [override EXCEPT ![i].output = new]
           renames == old # Off /\ new # Off /\ old # new
<1>1. Key /\ Shows(Closed) /\ OpenField /\ ClarifyType /\ LevelsSupported /\ Followed /\ dialog.edit = "output"
  BY DEF SavesOutput, Editing, ClarifyInv
<1>2. clarifyPlan' = clarifyPlan /\ Steps' = Steps /\ i \in Steps /\ new \in File \cup {Off} /\ clarifyPlan \in ClarifyPlan
      /\ \A j : Base(j)' = Base(j)
  BY <1>1, KeyIs, BaseStays DEF OpenField, ClarifyType
<1>3. OpenField' /\ HandedOver'
  BY <1>1, Closes
<1>4. override' = IF renames THEN Renamed(o, i, old, new) ELSE o
  BY DEF SavesOutput
<1>5. loose' = IF new \in {Off} \cup {Effective(k).output : k \in Steps \ {i}} THEN loose \cup {i} ELSE loose
  BY DEF SavesOutput
<1> HIDE DEF i, new
<1>6. o = [j \in Steps |-> o[j]] /\ \A j \in Steps : /\ Changeable(o[j]) /\ o[j].model = override[j].model
        /\ o[j].reads = override[j].reads /\ o[j].output = IF j = i THEN new ELSE override[j].output
  <2>1. o = [j \in Steps |-> IF j = i THEN [override[i] EXCEPT !.output = new] ELSE override[j]]
    BY <1>1 DEF ClarifyType
  <2> DEFINE q == override[i]   p == [q EXCEPT !.output = new]
  <2>2. Changeable(q)
    BY <1>1, <1>2 DEF ClarifyType
  <2> HIDE DEF q
  <2>3. DOMAIN p = DOMAIN q /\ p.output = new /\ p.model = q.model /\ p.reads = q.reads
    BY <2>2 DEF Changeable, IsBehavior
  <2> HIDE DEF p
  <2>4. Changeable(p)
    BY <1>2, <2>2, <2>3 DEF Changeable, IsBehavior
  <2>5. \A j \in Steps : o[j] = IF j = i THEN p ELSE override[j]
    BY <2>1 DEF p, q
  <2>6. \A j \in Steps : Changeable(override[j])
    BY <1>1 DEF ClarifyType
  <2> HIDE DEF o
  <2>7. ASSUME NEW j \in Steps
        PROVE  /\ Changeable(o[j]) /\ o[j].model = override[j].model
               /\ o[j].reads = override[j].reads /\ o[j].output = IF j = i THEN new ELSE override[j].output
    BY <2>3, <2>4, <2>5, <2>6 DEF q
  <2>8. o = [j \in Steps |-> o[j]]
    BY <2>1 DEF o
  <2> QED
    BY <2>7, <2>8
<1> HIDE DEF o
<1> DEFINE Was(j) == Given(o[j], Base(j)).reads
           Now(j) == Given(override'[j], Base(j)).reads
<1>7. \A j \in Steps : Was(j) = Effective(j).reads /\ Was(j) \in Seq(File)
  BY <1>1, <1>6, GivenIs, EffectiveIs DEF Changeable
<1>8. /\ override' = [j \in Steps |-> override'[j]]
      /\ \A j \in Steps : /\ Changeable(override'[j]) /\ override'[j].output = o[j].output /\ override'[j].model = o[j].model
  <2>1. CASE renames
    <3>1. new \in File
      BY <1>2, <2>1
    <3> QED
      BY <1>2, <1>4, <1>6, <2>1, <3>1, RenamedIs
  <2>2. CASE ~ renames
    BY <1>4, <1>6, <2>2
  <2> QED
    BY <2>1, <2>2
<1>9. ASSUME renames, NEW j \in Steps
      PROVE  /\ \A k \in DOMAIN Was(j) : Was(j)[k] # old => k \in DOMAIN Now(j) /\ Now(j)[k] = Was(j)[k]
             /\ j > i /\ (\E k \in DOMAIN Was(j) : Was(j)[k] = old) => \E k \in DOMAIN Now(j) : Now(j)[k] = new
  <2>1. new \in File
    BY <1>2, <1>9
  <2>2. override' = Renamed(o, i, old, new)
    BY <1>4, <1>9
  <2>3. i \in Steps /\ clarifyPlan \in ClarifyPlan /\ o = [n \in Steps |-> o[n]] /\ \A n \in Steps : Changeable(o[n])
    BY <1>2, <1>6
  <2> HIDE DEF renames, old, Was, Now
  <2>4. Renaming(Given(o[j], Base(j)).reads, Given(override'[j], Base(j)).reads, j > i, old, new)
    BY <2>1, <2>2, <2>3, RenamedIs
  <2> QED
    BY <2>4 DEF Renaming, Was, Now
<1>10. ClarifyType'
  BY <1>2, <1>8 DEF ClarifyType, Changeable
<1>11. LevelsSupported'
  BY <1>1, <1>2, <1>6, <1>8, ModelsStay
<1>12. Followed'
  <2>1. SUFFICES ASSUME loose' = {} PROVE Followed'
    BY DEF Followed
  <2>2. loose = {} /\ new # Off /\ \A k \in Steps \ {i} : Effective(k).output # new
    BY <1>5, <2>1
  <2> DEFINE Out(j) == Effective(j)'.output   In(j) == Effective(j)'.reads
  <2>3. \A j \in Steps : Out(j) = (IF j = i THEN new ELSE Effective(j).output) /\ In(j) = Now(j)
    <3> TAKE j \in Steps
    <3>1. Effective(j)' = Given(override'[j], Base(j))
      BY <1>2 DEF Effective, Given
    <3>2. Given(override'[j], Base(j)).output = IF override'[j].output = Unset THEN Base(j).output ELSE override'[j].output
      BY <1>8, GivenIs DEF Changeable
    <3>3. Effective(j).output = IF override[j].output = Unset THEN Base(j).output ELSE override[j].output
      BY <1>1, EffectiveIs
    <3>4. override'[j].output = IF j = i THEN new ELSE override[j].output
      BY <1>6, <1>8
    <3>5. new # Unset
      BY <1>2, ClarifyAssumption
    <3> QED
      BY <3>1, <3>2, <3>3, <3>4, <3>5
  <2> HIDE DEF Out, In
  <2>4. ASSUME NEW s \in Steps, Base(s).output # Off, \A k \in Steps \ {s} : Base(k).output # Base(s).output
        PROVE  /\ Out(s) # Off
               /\ \A k \in Steps \ {s} : Out(k) # Out(s)
               /\ \A j \in Steps : (s < j /\ \E k \in DOMAIN Base(j).reads : Base(j).reads[k] = Base(s).output) =>
                    \E k \in DOMAIN In(j) : In(j)[k] = Out(s)
    <3>1. /\ Effective(s).output # Off
          /\ \A k \in Steps \ {s} : Effective(k).output # Effective(s).output
          /\ \A j \in Steps : (s < j /\ \E k \in DOMAIN Base(j).reads : Base(j).reads[k] = Base(s).output) =>
               \E k \in DOMAIN Effective(j).reads : Effective(j).reads[k] = Effective(s).output
      BY <1>1, <2>2, <2>4 DEF Followed
    <3>2. Out(s) # Off
      BY <2>2, <2>3, <3>1
    <3>3. ASSUME NEW k \in Steps \ {s} PROVE Out(k) # Out(s)
      <4>1. Effective(k).output # Effective(s).output
        BY <3>1
      <4>2. CASE s = i
        BY <2>2, <2>3, <4>2
      <4>3. CASE k = i
        BY <2>2, <2>3, <4>3
      <4>4. CASE s # i /\ k # i
        BY <2>3, <4>1, <4>4
      <4> QED
        BY <4>2, <4>3, <4>4
    <3>4. ASSUME NEW j \in Steps, s < j, \E k \in DOMAIN Base(j).reads : Base(j).reads[k] = Base(s).output
          PROVE  \E k \in DOMAIN In(j) : In(j)[k] = Out(s)
      <4>1. PICK k \in DOMAIN Was(j) : Was(j)[k] = Effective(s).output
        BY <1>7, <3>1, <3>4
      <4>2. In(j) = Now(j)
        BY <2>3
      <4> HIDE DEF Was, Now
      <4>3. CASE ~ renames
        <5>1. Now(j) = Was(j)
          BY <1>4, <4>3 DEF Was, Now
        <5>2. Out(s) = Effective(s).output
          BY <2>2, <2>3, <3>1, <4>3
        <5> QED
          BY <4>1, <4>2, <5>1, <5>2
      <4>4. CASE renames /\ s = i
        <5>1. j > i /\ \E n \in DOMAIN Was(j) : Was(j)[n] = old
          <6>1. j > i
            <7>1. i \in Nat /\ j \in Nat
              BY <1>2, ClarifyAssumption DEF Steps
            <7> QED
              BY <3>4, <4>4, <7>1
          <6> QED
            BY <4>1, <4>4, <6>1
        <5>2. \E n \in DOMAIN Now(j) : Now(j)[n] = new
          BY <1>9, <4>4, <5>1
        <5> QED
          BY <2>3, <4>2, <4>4, <5>2
      <4>5. CASE renames /\ s # i
        <5>1. Was(j)[k] # old
          BY <1>2, <3>1, <4>1, <4>5
        <5>2. k \in DOMAIN Now(j) /\ Now(j)[k] = Was(j)[k]
          BY <1>9, <4>5, <5>1
        <5> QED
          BY <2>3, <4>1, <4>2, <4>5, <5>2
      <4> QED
        BY <4>3, <4>4, <4>5
    <3> QED
      BY <3>2, <3>3, <3>4
  <2> QED
    BY <1>2, <2>4 DEF Followed, Out, In
<1> QED
  BY <1>3, <1>10, <1>11, <1>12 DEF ClarifyInv

\* What is handed over is what is applied to the call.
LEMMA LaunchesStep == ASSUME ClarifyInv, Launches PROVE ClarifyInv'
<1>1. clarifyPlan' = clarifyPlan /\ override' = override /\ loose' = loose /\ OpenField /\ launched' = [i \in Steps |-> Applied(i)]
  BY DEF Launches, ClarifyInv
<1>2. Steps' = Steps /\ \A i : Effective(i)' = Effective(i)
  BY <1>1, NothingChanged
<1>3. \A i : Applied(i)' = Applied(i)
  BY <1>1 DEF Applied, Resolved, Given
<1>4. HandedOver'
  BY <1>1, <1>2, <1>3 DEF HandedOver
<1>5. /\ DOMAIN dialog' = {"pc", "step", "edit", "text", "index", "list", "chosen", "background", "keys"}
      /\ dialog'.step = dialog.step /\ dialog'.edit = dialog.edit /\ dialog'.text = dialog.text
      /\ dialog'.index = dialog.index /\ dialog'.list = dialog.list
  BY <1>1 DEF Launches, OpenField
<1>6. Effective(dialog.step)' = Effective(dialog.step)
  BY <1>1, <1>5 DEF Effective, Given, Base, Resolved
<1>7. OpenField'
  BY <1>1, <1>2, <1>5, <1>6 DEF OpenField
<1> QED
  BY <1>1, <1>4, <1>7, OnlyShown

\* A key, the launch, or a step of another part.
LEMMA ClarifyStep == ASSUME ClarifyInv, UNCHANGED clarifyVars \/ ClarifyNext PROVE ClarifyInv'
<1>1. CASE UNCHANGED clarifyVars
  <2>1. clarifyPlan' = clarifyPlan /\ override' = override /\ loose' = loose /\ dialog' = dialog /\ launched' = launched
    BY <1>1 DEF clarifyVars
  <2>2. Steps' = Steps /\ \A i : Effective(i)' = Effective(i)
    BY <2>1, NothingChanged
  <2>3. \A i : Applied(i)' = Applied(i)
    BY <2>1 DEF Applied, Resolved, Given
  <2>4. HandedOver'
    BY <2>1, <2>2, <2>3 DEF HandedOver, ClarifyInv
  <2>5. Effective(dialog.step)' = Effective(dialog.step)
    BY <2>1 DEF Effective, Given, Base, Resolved
  <2>6. OpenField'
    BY <2>1, <2>2, <2>5 DEF OpenField, ClarifyInv
  <2> QED
    BY <2>1, <2>4, <2>6, OnlyShown
<1>2. CASE ClarifyNext
  <2>1. CASE Selects \/ TogglesBackground \/ Cancels \/ Confirms
    BY <2>1, SelectsStep
  <2>2. CASE Types
    BY <2>2, TypesStep
  <2>3. CASE SavesOutput
    BY <2>3, SavesOutputStep
  <2>4. CASE SavesReads
    BY <2>4, SavesReadsStep
  <2>5. CASE Discards
    BY <2>5, DiscardsStep
  <2>6. CASE TogglesProgress
    BY <2>6, TogglesProgressStep
  <2>7. CASE OpensLevels
    BY <2>7, OpensLevelsStep
  <2>8. CASE MovesInLevels
    BY <2>8, MovesInLevelsStep
  <2>9. CASE ChoosesModel
    BY <2>9, ChoosesModelStep
  <2>10. CASE ChoosesLevel
    BY <2>10, ChoosesLevelStep
  <2>11. CASE ChoosesSkills
    BY <2>11, ChoosesSkillsStep
  <2>12. CASE Launches
    BY <2>12, LaunchesStep
  <2>13. CASE \E edit \in {"output", "reads"} : OpensText(edit)
    BY <2>13, OpensStep
  <2>14. CASE OpensModels \/ OpensSkills \/ MovesInModels \/ MovesInSkills \/ TogglesSkill
              \/ \E query \in Query : SearchesModels(query) \/ SearchesSkills(query)
    BY <2>14, SelectorStep
  <2> QED
    BY <1>2, <2>1, <2>2, <2>3, <2>4, <2>5, <2>6, <2>7, <2>8, <2>9, <2>10, <2>11, <2>12, <2>13, <2>14 DEF ClarifyNext
<1> QED
  BY <1>1, <1>2

\* Nothing is changed when the dialog opens.
LEMMA ClarifyStart == ASSUME ClarifyInit PROVE ClarifyInv
<1>1. clarifyPlan \in ClarifyPlan /\ override = [i \in Steps |-> Unchanged]
  BY DEF ClarifyInit
<1>2. IsBehavior(Unchanged) /\ Unchanged.output = Unset /\ Unchanged.reads = Unset /\ Unchanged.model = Unset
  BY DEF IsBehavior, Unchanged
<1>3. \A i \in Steps : override[i] = Unchanged
  BY <1>1
<1>4. ClarifyType
  BY <1>1, <1>2 DEF ClarifyType, Changeable
<1>5. \A i \in Steps : Effective(i).output = Base(i).output /\ Effective(i).reads = Base(i).reads
  BY <1>2, <1>3, <1>4, EffectiveIs
<1>6. Followed
  BY <1>5 DEF Followed
<1>7. LevelsSupported
  BY <1>2, <1>3 DEF LevelsSupported
<1>8. 1 \in Steps
  <2>1. clarifyPlan.agent \in Seq(ToSet(clarifyPlan.agent)) /\ clarifyPlan.agent # <<>>
    BY <1>1, ClarifyAssumption
  <2> QED
    BY <2>1 DEF Steps
<1>9. OpenField /\ HandedOver
  <2>1. /\ DOMAIN dialog = {"pc", "step", "edit", "text", "index", "list", "chosen", "background", "keys"}
        /\ dialog.pc = "steps" /\ dialog.step = 1 /\ dialog.edit = "none"
    BY DEF ClarifyInit
  <2> QED
    BY <1>8, <2>1 DEF OpenField, HandedOver
<1> QED
  BY <1>4, <1>6, <1>7, <1>9 DEF ClarifyInv

\* What is applied to a step is what the dialog shows of it, but for what is added.
LEMMA AppliedIs ==
  ASSUME ClarifyType, NEW i \in Steps
  PROVE  LET runs == Applied(i) shown == Effective(i) name == FullName(shown.model)
         IN /\ runs.output = shown.output
            /\ Chain => runs.reads = shown.reads /\ runs.progress = shown.progress
            /\ runs.skills = (IF shown.skills = Off THEN Off ELSE shown.skills \cup clarifyPlan.chainSkills)
            /\ \/ runs.model = name
               \/ name # Nowhere /\ name.level = Nowhere /\ runs.model = [name EXCEPT !.level = clarifyPlan.agent[i].thinking]
               \/ clarifyPlan.mode = "single" /\ override[i].model = Unset /\ clarifyPlan.call[i].model # Unset
<1> DEFINE a == clarifyPlan.agent[i]
           c == clarifyPlan.call[i]
           o == override[i]
           g == Given(o, c)
           h == Given(g, a)
           r == Resolved(a, g)
           x == Thinking(FullName(r.model), a)
           runs == Applied(i)
           shown == Effective(i)
           s == IF c.skills = Unset THEN a.skills ELSE c.skills
           more == clarifyPlan.chainSkills
<1>1. /\ IsBehavior(c) /\ Base(i).output = IF c.output = Unset THEN a.output ELSE c.output
      /\ Base(i).reads = IF clarifyPlan.mode = "single" \/ c.reads = Unset THEN a.reads ELSE c.reads
      /\ Base(i).progress = IF clarifyPlan.mode = "single" \/ c.progress = Unset THEN a.progress ELSE c.progress
      /\ Base(i).model = IF clarifyPlan.mode = "single" \/ c.model = Unset THEN a.model ELSE c.model
      /\ Base(i).skills = IF s = Off THEN Off ELSE s \cup more
  BY BaseIs DEF ClarifyType
<1>2. IsBehavior(o)
  BY DEF ClarifyType, Changeable
<1>3. /\ shown.output = IF o.output = Unset THEN Base(i).output ELSE o.output
      /\ shown.reads = IF o.reads = Unset THEN Base(i).reads ELSE o.reads
      /\ shown.progress = IF o.progress = Unset THEN Base(i).progress ELSE o.progress
      /\ shown.skills = IF o.skills = Unset THEN Base(i).skills ELSE o.skills
      /\ shown.model = IF o.model = Unset THEN Base(i).model ELSE o.model
  BY EffectiveIs
<1>4. s = Off \/ s \cup more # Off
  <2>1. /\ a.skills = Off \/ a.skills \cup more # Off
        /\ c.skills \in {Off, Unset} \/ c.skills \cup more # Off
    BY ClarifyAssumption DEF ClarifyType, Steps
  <2> QED
    BY <2>1
<1>5. runs = [r EXCEPT !.model = x]
  BY DEF Applied
<1> HIDE DEF runs, shown, a, c, o
<1>6. /\ IsBehavior(g) /\ g.output = (IF o.output = Unset THEN c.output ELSE o.output)
      /\ g.reads = (IF o.reads = Unset THEN c.reads ELSE o.reads)
      /\ g.progress = (IF o.progress = Unset THEN c.progress ELSE o.progress)
      /\ g.skills = (IF o.skills = Unset THEN c.skills ELSE o.skills)
      /\ g.model = (IF o.model = Unset THEN c.model ELSE o.model)
  BY <1>2, GivenIs
<1> HIDE DEF g
<1>7. /\ h.output = (IF g.output = Unset THEN a.output ELSE g.output)
      /\ h.reads = (IF g.reads = Unset THEN a.reads ELSE g.reads)
      /\ h.progress = (IF g.progress = Unset THEN a.progress ELSE g.progress)
      /\ h.skills = (IF g.skills = Unset THEN a.skills ELSE g.skills)
      /\ h.model = (IF g.model = Unset THEN a.model ELSE g.model)
  BY <1>6, GivenIs
<1>8. /\ IsBehavior(r) /\ r.output = h.output /\ r.reads = h.reads /\ r.progress = h.progress /\ r.model = h.model
      /\ r.skills = IF h.skills = Off THEN Off ELSE h.skills \cup more
  BY <1>6, ResolvedIs
<1> HIDE DEF h, r
<1>9. /\ runs.output = h.output /\ runs.reads = h.reads /\ runs.progress = h.progress
      /\ runs.skills = (IF h.skills = Off THEN Off ELSE h.skills \cup more) /\ runs.model = Thinking(FullName(h.model), a)
  BY <1>5, <1>8 DEF IsBehavior
<1>10. runs.output = shown.output
  BY <1>1, <1>3, <1>6, <1>7, <1>9
<1>11. Chain => runs.reads = shown.reads /\ runs.progress = shown.progress
  BY <1>1, <1>3, <1>6, <1>7, <1>9 DEF Chain
<1>12. runs.skills = (IF shown.skills = Off THEN Off ELSE shown.skills \cup more)
  <2>1. CASE o.skills # Unset
    BY <1>3, <1>6, <1>7, <1>9, <2>1
  <2>2. CASE o.skills = Unset
    <3>1. h.skills = s /\ shown.skills = IF s = Off THEN Off ELSE s \cup more
      BY <1>1, <1>3, <1>6, <1>7, <2>2
    <3> HIDE DEF s, more
    <3>2. CASE s = Off
      BY <1>9, <3>1, <3>2
    <3>3. CASE s # Off
      <4>1. shown.skills = s \cup more /\ shown.skills # Off /\ runs.skills = s \cup more
        BY <1>4, <1>9, <3>1, <3>3
      <4>2. (s \cup more) \cup more = s \cup more
        OBVIOUS
      <4> QED
        BY <4>1, <4>2
    <3> QED
      BY <3>2, <3>3
  <2> QED
    BY <2>1, <2>2
<1> DEFINE name == FullName(shown.model)
<1>13. \/ runs.model = name
       \/ name # Nowhere /\ name.level = Nowhere /\ runs.model = [name EXCEPT !.level = a.thinking]
       \/ clarifyPlan.mode = "single" /\ o.model = Unset /\ c.model # Unset
  <2>1. CASE clarifyPlan.mode = "single" /\ o.model = Unset /\ c.model # Unset
    BY <2>1
  <2>2. CASE ~ (clarifyPlan.mode = "single" /\ o.model = Unset /\ c.model # Unset)
    <3>1. h.model = shown.model
      BY <1>1, <1>3, <1>6, <1>7, <2>2
    <3>2. runs.model = Thinking(name, a)
      BY <1>9, <3>1
    <3> HIDE DEF name
    <3> QED
      BY <3>2 DEF Thinking
  <2> QED
    BY <2>1, <2>2
<1> QED
  BY <1>10, <1>11, <1>12, <1>13 DEF runs, shown, a, c, o

\* What the dialog hands over, and what it shows of the outputs and of the models.
LEMMA ClarifyHolds == ASSUME ClarifyInv PROVE AsShown /\ ReadsFollow /\ LevelsSupported
<1>1. AsShown
  <2>1. SUFFICES ASSUME dialog.pc = "launched" PROVE AsShown
    BY DEF AsShown
  <2>2. launched = [i \in Steps |-> Applied(i)] /\ ClarifyType
    BY <2>1 DEF ClarifyInv, HandedOver
  <2>3. \A i \in Steps : launched[i] = Applied(i)
    BY <2>2
  <2> QED
    BY <2>2, <2>3, AppliedIs DEF AsShown
<1>2. ReadsFollow
  <2>1. Followed
    BY DEF ClarifyInv
  <2> QED
    BY <2>1 DEF ReadsFollow, Followed
<1> QED
  BY <1>1, <1>2 DEF ClarifyInv

(******************************* Text field ********************************)

\* The columns up to each character.
ColumnsUpTo(g, text) == g[0] = 0 /\ \A k \in 1..Len(text) : g[k] = g[k - 1] + ColumnsOf(text[k])

LEMMA ColumnsIs ==
  ASSUME NEW text \in Seq(Letter)
  PROVE  \E g : ColumnsUpTo(g, text) /\ (\A k \in 0..Len(text) : g[k] \in Nat) /\ Columns(text) = g[Len(text)]
<1> DEFINE n == Len(text)
           F == [p \in Nat \X (1..n) |-> p[1] + ColumnsOf(text[p[2]])]
           Right(f) == f = [i \in 0..n |-> IF i = 0 THEN 0 ELSE f[i - 1] + ColumnsOf(text[i])]
           to == CHOOSE f : Right(f)
<1>1. n \in Nat
  OBVIOUS
<1> HIDE DEF n
<1>2. \A x \in Nat, k \in 1..n : F[<<x, k>>] = x + ColumnsOf(text[k]) /\ F[<<x, k>>] \in Nat
  BY DEF ColumnsOf
<1> HIDE DEF F
<1>3. PICK g : Iterates(g, 0, F, n) /\ \A k \in 0..n : g[k] \in Nat
  BY <1>1, <1>2, Iteration
<1>4. Right(g)
  <2>1. \A k \in 0..n : (IF k = 0 THEN 0 ELSE F[<<g[k - 1], k>>]) = IF k = 0 THEN 0 ELSE g[k - 1] + ColumnsOf(text[k])
    BY <1>1, <1>2, <1>3
  <2> QED
    BY <1>3, <2>1 DEF Iterates
<1>5. Right(to)
  <2> HIDE DEF Right
  <2> QED
    BY <1>4
<1>6. Columns(text) = to[n]
  BY DEF Columns, n
<1> HIDE DEF to
<1>7. \A k \in 0..n : to[k] = IF k = 0 THEN 0 ELSE to[k - 1] + ColumnsOf(text[k])
  BY <1>5
<1>8. ColumnsUpTo(to, text)
  <2>1. to[0] = 0
    BY <1>1, <1>7
  <2>2. \A k \in 1..n : to[k] = to[k - 1] + ColumnsOf(text[k])
    BY <1>1, <1>7
  <2> QED
    BY <2>1, <2>2 DEF ColumnsUpTo, n
<1>9. \A k \in 0..n : to[k] \in Nat
  <2> DEFINE P == {k \in 0..n : to[k] \in Nat}
  <2>1. 0 \in P
    BY <1>1, <1>7
  <2>2. ASSUME NEW k \in 0..n, k < n, k \in P PROVE k + 1 \in P
    <3>1. k + 1 \in 0..n /\ k + 1 # 0 /\ (k + 1) - 1 = k
      BY <1>1, <2>2
    <3>2. to[k + 1] = to[k] + ColumnsOf(text[k + 1])
      BY <1>7, <3>1
    <3> QED
      BY <2>2, <3>1, <3>2 DEF ColumnsOf
  <2>3. \A k \in 0..n : k \in P
    <3> HIDE DEF P
    <3> QED
      BY <1>1, <2>1, <2>2, UpTo
  <2> QED
    BY <2>3
<1> QED
  BY <1>6, <1>8, <1>9 DEF n

\* No character takes no columns, one more takes one or two.
LEMMA ColumnsEmpty == Columns(<<>>) = 0
<1>1. <<>> \in Seq(Letter) /\ Len(<<>>) = 0
  OBVIOUS
<1> QED
  BY <1>1, ColumnsIs DEF ColumnsUpTo

LEMMA ColumnsAppend ==
  ASSUME NEW text \in Seq(Letter), NEW c \in Letter
  PROVE  /\ Columns(text) \in Nat /\ ColumnsOf(c) \in {1, 2}
         /\ Columns(Append(text, c)) = Columns(text) + ColumnsOf(c)
<1> DEFINE n == Len(text)   longer == Append(text, c)
<1>1. /\ n \in Nat /\ longer \in Seq(Letter) /\ Len(longer) = n + 1 /\ longer[n + 1] = c
      /\ \A k \in 1..n : longer[k] = text[k]
  OBVIOUS
<1> HIDE DEF longer
<1>2. PICK g : ColumnsUpTo(g, text) /\ (\A k \in 0..n : g[k] \in Nat) /\ Columns(text) = g[n]
  BY ColumnsIs
<1>3. PICK h : ColumnsUpTo(h, longer) /\ Columns(longer) = h[n + 1]
  BY <1>1, ColumnsIs
<1>4. g[0] = 0 /\ \A k \in 1..n : g[k] = g[k - 1] + ColumnsOf(text[k])
  BY <1>2 DEF ColumnsUpTo
<1> HIDE DEF n
<1>5. h[0] = 0 /\ \A k \in 1..(n + 1) : h[k] = h[k - 1] + ColumnsOf(longer[k])
  BY <1>1, <1>3 DEF ColumnsUpTo
<1>6. \A k \in 0..n : h[k] = g[k]
  <2> DEFINE P == {k \in 0..n : h[k] = g[k]}
  <2>1. 0 \in P
    BY <1>1, <1>4, <1>5
  <2>2. ASSUME NEW k \in 0..n, k < n, k \in P PROVE k + 1 \in P
    <3>1. k + 1 \in 1..n /\ k + 1 \in 1..(n + 1) /\ (k + 1) - 1 = k
      BY <1>1, <2>2
    <3>2. h[k + 1] = h[k] + ColumnsOf(longer[k + 1]) /\ g[k + 1] = g[k] + ColumnsOf(text[k + 1])
      BY <1>4, <1>5, <3>1
    <3>3. longer[k + 1] = text[k + 1]
      BY <1>1, <3>1
    <3> QED
      BY <2>2, <3>1, <3>2, <3>3
  <2>3. \A k \in 0..n : k \in P
    <3> HIDE DEF P
    <3> QED
      BY <1>1, <2>1, <2>2, UpTo
  <2> QED
    BY <2>3
<1>7. h[n + 1] = h[n] + ColumnsOf(c)
  BY <1>1, <1>5
<1>8. g[n] \in Nat /\ h[n] = g[n]
  BY <1>1, <1>2, <1>6
<1> QED
  BY <1>2, <1>3, <1>7, <1>8 DEF ColumnsOf, longer

\* A line fits the field, or is one character wider than it.
LineFits(text, first, last) == Columns(SubSeq(text, first + 1, last)) <= Width \/ last - first = 1

\* Where the lines of a text start, as far as it is wrapped: at the beginning, each after
\* the one before, and those before the last one fit.
LinesStart(text, starts, n) ==
  /\ starts \in Seq(0..n) /\ Len(starts) >= 1 /\ starts[1] = 0
  /\ \A l \in 1..(Len(starts) - 1) : starts[l] < starts[l + 1] /\ LineFits(text, starts[l], starts[l + 1])
WrappedTo(text, acc, n) ==
  LET last == acc.starts[Len(acc.starts)] IN
  /\ DOMAIN acc = {"starts", "columns"} /\ LinesStart(text, acc.starts, n)
  /\ acc.columns = Columns(SubSeq(text, last + 1, n)) /\ acc.columns \in Nat
  /\ LineFits(text, last, n) /\ (n > 0 => acc.columns > 0 /\ last < n) /\ (n = 0 => acc.columns = 0)

\* A part of a text, one character longer, and none of it.
LEMMA Part ==
  ASSUME NEW text \in Seq(Letter), NEW a \in 0..Len(text), NEW b \in 0..Len(text), a <= b
  PROVE  /\ SubSeq(text, a + 1, b) \in Seq(Letter) /\ Len(SubSeq(text, a + 1, b)) = b - a
         /\ b < Len(text) => text[b + 1] \in Letter /\ SubSeq(text, a + 1, b + 1) = Append(SubSeq(text, a + 1, b), text[b + 1])
         /\ SubSeq(text, a + 1, a) = <<>>
<1> DEFINE n == Len(text)   s == SubSeq(text, a + 1, b)   t == SubSeq(text, a + 1, b + 1)
<1>1. n \in Nat /\ DOMAIN text = 1..n /\ \A i \in 1..n : text[i] \in Letter
  OBVIOUS
<1>2. s \in Seq(Letter) /\ Len(s) = b - a /\ \A i \in 1..(b - a) : s[i] = text[a + i]
  <2>1. \A i \in (a + 1)..b : text[i] \in Letter
    BY <1>1
  <2>2. a + 1 \in Int /\ b \in Int
    BY <1>1
  <2>3. CASE a < b
    <3>1. s \in Seq(Letter) /\ Len(s) = b - (a + 1) + 1 /\ \A i \in 1..(b - (a + 1) + 1) : s[i] = text[a + 1 + i - 1]
      BY <2>1, <2>2, <2>3, SubSeqProperties
    <3> HIDE DEF s
    <3>2. b - (a + 1) + 1 = b - a /\ \A i \in 1..(b - a) : a + 1 + i - 1 = a + i
      BY <1>1
    <3> QED
      BY <3>1, <3>2
  <2>4. CASE a = b
    <3>1. s = <<>>
      BY <1>1, <2>4
    <3> QED
      BY <1>1, <2>4, <3>1
  <2> QED
    BY <1>1, <2>3, <2>4
<1>3. ASSUME b < n PROVE text[b + 1] \in Letter /\ t = Append(s, text[b + 1])
  <2>1. text[b + 1] \in Letter
    BY <1>1, <1>3
  <2>2. t \in Seq(Letter) /\ Len(t) = b + 1 - a /\ \A i \in 1..(b + 1 - a) : t[i] = text[a + i]
    <3>1. \A i \in (a + 1)..(b + 1) : text[i] \in Letter
      BY <1>1, <1>3
    <3>2. a + 1 \in Int /\ b + 1 \in Int
      BY <1>1
    <3>3. t \in Seq(Letter) /\ Len(t) = (b + 1) - (a + 1) + 1 /\ \A i \in 1..((b + 1) - (a + 1) + 1) : t[i] = text[a + 1 + i - 1]
      BY <1>1, <3>1, <3>2, SubSeqProperties
    <3> HIDE DEF t
    <3>4. (b + 1) - (a + 1) + 1 = b + 1 - a /\ \A i \in 1..(b + 1 - a) : a + 1 + i - 1 = a + i
      BY <1>1
    <3> QED
      BY <3>3, <3>4
  <2> HIDE DEF s, t
  <2> DEFINE u == Append(s, text[b + 1])
  <2>3. u \in Seq(Letter) /\ Len(u) = b + 1 - a /\ \A i \in 1..(b + 1 - a) : u[i] = text[a + i]
    <3>1. u \in Seq(Letter) /\ Len(u) = Len(s) + 1 /\ u[Len(s) + 1] = text[b + 1] /\ \A i \in 1..Len(s) : u[i] = s[i]
      BY <1>2, <2>1
    <3> HIDE DEF u
    <3>2. Len(s) + 1 = b + 1 - a /\ a + (Len(s) + 1) = b + 1
      BY <1>1, <1>2
    <3>3. ASSUME NEW i \in 1..(b + 1 - a) PROVE u[i] = text[a + i]
      <4>1. CASE i = Len(s) + 1
        BY <3>1, <3>2, <4>1
      <4>2. CASE i # Len(s) + 1
        <5>1. i \in 1..(b - a)
          BY <1>1, <1>2, <3>2, <4>2
        <5> QED
          BY <1>2, <3>1, <5>1
      <4> QED
        BY <4>1, <4>2
    <3> QED
      BY <3>1, <3>2, <3>3
  <2> HIDE DEF u
  <2>4. t = u
    BY <2>2, <2>3, SeqEqual
  <2> QED
    BY <2>1, <2>4 DEF u
<1>4. SubSeq(text, a + 1, a) = <<>>
  BY <1>1
<1> QED
  BY <1>2, <1>3, <1>4

\* One more character keeps the lines right.
LEMMA PlacedIs ==
  ASSUME NEW text \in Seq(Letter), NEW k \in 0..Len(text), k < Len(text), NEW acc, WrappedTo(text, acc, k)
  PROVE  WrappedTo(text, Placed(text, acc, k + 1), k + 1)
<1> DEFINE n == Len(text)
           starts == acc.starts
           m == Len(starts)
           last == starts[m]
           c == ColumnsOf(text[k + 1])
           new == Placed(text, acc, k + 1)
<1>1. n \in Nat /\ k \in Nat /\ k + 1 \in 1..n /\ starts \in Seq(0..k) /\ m \in Nat /\ m >= 1 /\ starts[1] = 0 /\ last \in 0..k
      /\ \A l \in 1..(m - 1) : starts[l] < starts[l + 1] /\ LineFits(text, starts[l], starts[l + 1])
  BY DEF WrappedTo, LinesStart
<1>2. acc.columns = Columns(SubSeq(text, last + 1, k)) /\ acc.columns \in Nat
      /\ LineFits(text, last, k) /\ (k > 0 => acc.columns > 0 /\ last < k) /\ (k = 0 => acc.columns = 0)
  BY DEF WrappedTo
<1>3. (k + 1) - 1 = k /\ Width \in Nat \ {0}
  BY <1>1, EditorAssumption
<1>4. new = IF acc.columns > 0 /\ acc.columns + c > Width
            THEN [starts |-> Append(starts, k), columns |-> c]
            ELSE [starts |-> starts, columns |-> acc.columns + c]
  BY <1>3 DEF Placed
<1>5. c \in {1, 2} /\ text[k + 1] \in Letter
      /\ SubSeq(text, last + 1, k) \in Seq(Letter)
      /\ SubSeq(text, last + 1, k + 1) = Append(SubSeq(text, last + 1, k), text[k + 1])
  <2>1. last \in 0..n /\ last <= k
    BY <1>1
  <2> HIDE DEF last
  <2> QED
    BY <2>1, Part DEF ColumnsOf
<1> HIDE DEF n, starts, new, c, last
<1>6. CASE acc.columns > 0 /\ acc.columns + c > Width
  <2>1. k > 0 /\ last < k
    BY <1>1, <1>2, <1>6
  <2> DEFINE more == Append(starts, k)
  <2>2. new.starts = more /\ new.columns = c /\ DOMAIN new = {"starts", "columns"}
    BY <1>4, <1>6
  <2>3. more \in Seq(0..(k + 1)) /\ Len(more) = m + 1 /\ more[m + 1] = k /\ \A l \in 1..m : more[l] = starts[l]
    <3>1. starts \in Seq(0..(k + 1)) /\ k \in 0..(k + 1)
      BY <1>1
    <3> QED
      BY <3>1
  <2> HIDE DEF more
  <2>4. \A l \in 1..m : more[l] < more[l + 1] /\ LineFits(text, more[l], more[l + 1])
    <3> TAKE l \in 1..m
    <3>1. CASE l = m
      BY <1>1, <1>2, <2>1, <2>3, <3>1 DEF last
    <3>2. CASE l # m
      <4>1. l \in 1..(m - 1) /\ l + 1 \in 1..m
        BY <1>1, <3>2
      <4> QED
        BY <1>1, <2>3, <4>1
    <3> QED
      BY <3>1, <3>2
  <2>5. LinesStart(text, more, k + 1)
    <3>1. Len(more) - 1 = m /\ 1 \in 1..m /\ more[1] = 0
      BY <1>1, <2>3
    <3> QED
      BY <1>1, <2>3, <2>4, <3>1 DEF LinesStart
  <2>6. Columns(SubSeq(text, k + 1, k + 1)) = c
    <3>1. k \in 0..Len(text) /\ k <= k
      BY <1>1
    <3>2. SubSeq(text, k + 1, k) = <<>> /\ SubSeq(text, k + 1, k + 1) = Append(SubSeq(text, k + 1, k), text[k + 1])
      BY <3>1, Part
    <3>3. <<>> \in Seq(Letter)
      OBVIOUS
    <3>4. Columns(Append(<<>>, text[k + 1])) = Columns(<<>>) + c
      BY <1>5, <3>3, ColumnsAppend DEF c
    <3>5. Columns(SubSeq(text, k + 1, k + 1)) = Columns(<<>>) + c
      BY <3>2, <3>4
    <3>6. 0 + c = c
      BY <1>5
    <3> QED
      BY <3>5, <3>6, ColumnsEmpty
  <2>7. new.starts[Len(new.starts)] = k
    BY <2>2, <2>3
  <2>8. LineFits(text, k, k + 1)
    BY <1>1 DEF LineFits
  <2>9. WrappedTo(text, new, k + 1)
    BY <1>1, <1>5, <2>2, <2>5, <2>6, <2>7, <2>8 DEF WrappedTo
  <2> QED
    BY <2>9 DEF new
<1>7. CASE ~ (acc.columns > 0 /\ acc.columns + c > Width)
  <2>1. new.starts = starts /\ new.columns = acc.columns + c /\ DOMAIN new = {"starts", "columns"}
    BY <1>4, <1>7
  <2>2. Columns(SubSeq(text, last + 1, k + 1)) = acc.columns + c
    BY <1>2, <1>5, ColumnsAppend DEF c
  <2>3. LinesStart(text, starts, k + 1)
    <3>1. starts \in Seq(0..(k + 1))
      BY <1>1
    <3> QED
      BY <1>1, <3>1 DEF LinesStart
  <2>4. LineFits(text, last, k + 1)
    <3>1. CASE acc.columns = 0
      <4>1. k = 0 /\ last = 0
        BY <1>1, <1>2, <3>1
      <4> QED
        BY <4>1 DEF LineFits
    <3>2. CASE acc.columns # 0
      <4>1. acc.columns + c <= Width
        BY <1>2, <1>3, <1>5, <1>7, <3>2
      <4> QED
        BY <2>2, <4>1 DEF LineFits
    <3> QED
      BY <3>1, <3>2
  <2>5. acc.columns + c \in Nat /\ acc.columns + c > 0 /\ last < k + 1 /\ k + 1 > 0
    BY <1>1, <1>2, <1>5
  <2>6. new.starts[Len(new.starts)] = last
    BY <2>1 DEF last
  <2>9. WrappedTo(text, new, k + 1)
    BY <2>1, <2>2, <2>3, <2>4, <2>5, <2>6 DEF WrappedTo
  <2> QED
    BY <2>9 DEF new
<1> QED
  BY <1>6, <1>7 DEF new

\* The lines of a text: they follow each other from its start to its end, and each fits.
WrappedWell(text, w) ==
  /\ w \in Seq(0..Len(text)) /\ Len(w) >= 1 /\ w[1] = 0
  /\ \A l \in 1..(Len(w) - 1) : w[l] < w[l + 1] /\ LineFits(text, w[l], w[l + 1])
  /\ LineFits(text, w[Len(w)], Len(text))

LEMMA WrappedIs == ASSUME NEW text \in Seq(Letter) PROVE WrappedWell(text, Wrapped(text))
<1> DEFINE n == Len(text)
           first == [starts |-> <<0>>, columns |-> 0]
           T == [starts : Seq(0..n), columns : Nat]
           F == [p \in T \X (1..n) |-> Placed(text, p[1], p[2])]
           Right(f) == f = [i \in 0..n |-> IF i = 0 THEN first ELSE Placed(text, f[i - 1], i)]
           to == CHOOSE f : Right(f)
<1>1. n \in Nat
  OBVIOUS
<1> HIDE DEF n
<1>2. WrappedTo(text, first, 0)
  <2>1. first.starts = <<0>> /\ first.columns = 0 /\ DOMAIN first = {"starts", "columns"}
    OBVIOUS
  <2> HIDE DEF first
  <2>2. Len(<<0>>) = 1 /\ <<0>>[1] = 0 /\ <<0>> \in Seq(0..0)
    OBVIOUS
  <2>3. LinesStart(text, <<0>>, 0)
    BY <2>2 DEF LinesStart
  <2>4. SubSeq(text, 0 + 1, 0) = <<>>
    BY <1>1, Part DEF n
  <2>5. LineFits(text, 0, 0)
    <3>1. Columns(SubSeq(text, 0 + 1, 0)) = 0
      BY <2>4, ColumnsEmpty
    <3>2. Columns(SubSeq(text, 0 + 1, 0)) <= Width
      BY <3>1, EditorAssumption
    <3> QED
      BY <3>2 DEF LineFits
  <2>6. first.starts[Len(first.starts)] = 0
    BY <2>1, <2>2
  <2>7. first.columns = Columns(SubSeq(text, 0 + 1, 0)) /\ first.columns \in Nat
    <3>1. Columns(SubSeq(text, 0 + 1, 0)) = 0
      BY <2>4, ColumnsEmpty
    <3>2. first.columns \in Nat
      BY <2>1
    <3>3. first.columns = Columns(SubSeq(text, 0 + 1, 0))
      BY <2>1, <3>1, Zenon
    <3> QED
      BY <3>2, <3>3
  <2> QED
    BY <2>1, <2>3, <2>5, <2>6, <2>7 DEF WrappedTo
<1>3. first \in T
  BY <1>1
<1>4. \A x \in T, k \in 1..n : F[<<x, k>>] = Placed(text, x, k) /\ Placed(text, x, k) \in T
  <2> TAKE x \in T, k \in 1..n
  <2>1. x.starts \in Seq(0..n) /\ x.columns \in Nat /\ k - 1 \in 0..n
    BY <1>1
  <2>2. Append(x.starts, k - 1) \in Seq(0..n) /\ ColumnsOf(text[k]) \in Nat
    BY <2>1 DEF ColumnsOf
  <2>3. Placed(text, x, k) \in T
    BY <2>1, <2>2 DEF Placed
  <2>4. F[<<x, k>>] = Placed(text, x, k)
    OBVIOUS
  <2> QED
    BY <2>3, <2>4
<1> HIDE DEF T, F, first
<1>5. PICK g : Iterates(g, first, F, n) /\ \A k \in 0..n : g[k] \in T
  <2>1. \A x \in T, k \in 1..n : F[<<x, k>>] \in T
    BY <1>4
  <2> QED
    BY <1>1, <1>3, <2>1, Iteration
<1>6. Right(g)
  <2>1. \A k \in 0..n : (IF k = 0 THEN first ELSE F[<<g[k - 1], k>>]) = IF k = 0 THEN first ELSE Placed(text, g[k - 1], k)
    <3> TAKE k \in 0..n
    <3>1. CASE k # 0
      <4>1. k - 1 \in 0..n /\ k \in 1..n
        BY <1>1, <3>1
      <4> QED
        BY <1>4, <1>5, <3>1, <4>1
    <3> QED
      BY <3>1
  <2> QED
    BY <1>5, <2>1 DEF Iterates
<1>7. Right(to)
  <2> HIDE DEF Right
  <2> QED
    BY <1>6
<1>8. Wrapped(text) = IF text # <<>> /\ to[n].columns = Width THEN Append(to[n].starts, n) ELSE to[n].starts
  BY DEF Wrapped, n, first
<1> HIDE DEF to
<1>9. \A k \in 0..n : to[k] = IF k = 0 THEN first ELSE Placed(text, to[k - 1], k)
  BY <1>7
<1>10. WrappedTo(text, to[n], n)
  <2> DEFINE P == {k \in 0..n : WrappedTo(text, to[k], k)}
  <2>1. 0 \in P
    <3>1. to[0] = first /\ 0 \in 0..n
      BY <1>1, <1>9
    <3> QED
      BY <1>2, <3>1
  <2>2. ASSUME NEW k \in 0..n, k < n, k \in P PROVE k + 1 \in P
    <3>1. k + 1 \in 0..n /\ k + 1 # 0 /\ (k + 1) - 1 = k
      BY <1>1, <2>2
    <3>2. to[k + 1] = Placed(text, to[k], k + 1)
      BY <1>9, <3>1
    <3>3. WrappedTo(text, Placed(text, to[k], k + 1), k + 1)
      BY <2>2, PlacedIs DEF n
    <3> QED
      BY <3>1, <3>2, <3>3
  <2>3. \A k \in 0..n : k \in P
    <3> HIDE DEF P
    <3> QED
      BY <1>1, <2>1, <2>2, UpTo
  <2>4. n \in 0..n
    BY <1>1
  <2> QED
    BY <2>3, <2>4
<1> DEFINE all == to[n]
           starts == all.starts
           m == Len(starts)
           last == starts[m]
           w == Wrapped(text)
<1>11. /\ starts \in Seq(0..n) /\ m \in Nat /\ m >= 1 /\ starts[1] = 0 /\ last \in 0..n
       /\ \A l \in 1..(m - 1) : starts[l] < starts[l + 1] /\ LineFits(text, starts[l], starts[l + 1])
       /\ LineFits(text, last, n) /\ (n > 0 => last < n)
  <2> HIDE DEF all
  <2>1. LinesStart(text, starts, n) /\ LineFits(text, last, n) /\ (n > 0 => last < n)
    BY <1>10 DEF WrappedTo, all
  <2>2. /\ starts \in Seq(0..n) /\ m >= 1 /\ starts[1] = 0
        /\ \A l \in 1..(m - 1) : starts[l] < starts[l + 1] /\ LineFits(text, starts[l], starts[l + 1])
    BY <2>1 DEF LinesStart
  <2> HIDE DEF starts
  <2>3. m \in Nat /\ last \in 0..n
    <3>1. m \in Nat /\ DOMAIN starts = 1..m /\ \A l \in 1..m : starts[l] \in 0..n
      <4> DEFINE N == 0..n
      <4>1. starts \in Seq(N)
        BY <2>2
      <4> HIDE DEF N
      <4>2. Len(starts) \in Nat /\ DOMAIN starts = 1..Len(starts) /\ \A l \in 1..Len(starts) : starts[l] \in N
        BY <4>1
      <4> QED
        BY <4>2 DEF N
    <3>2. m \in 1..m
      BY <2>2, <3>1
    <3> HIDE DEF m
    <3> QED
      BY <3>1, <3>2
  <2> QED
    BY <2>1, <2>2, <2>3
<1>12. CASE ~ (text # <<>> /\ all.columns = Width)
  <2>1. w = starts
    BY <1>8, <1>12
  <2> HIDE DEF w, starts
  <2>2. WrappedWell(text, w)
    BY <1>11, <2>1 DEF WrappedWell, n
  <2> QED
    BY <2>2 DEF w
<1>13. CASE text # <<>> /\ all.columns = Width
  <2>1. w = Append(starts, n)
    BY <1>8, <1>13
  <2>2. n > 0
    BY <1>13 DEF n
  <2> HIDE DEF w, starts, last
  <2>3. w \in Seq(0..n) /\ Len(w) = m + 1 /\ w[m + 1] = n /\ \A l \in 1..m : w[l] = starts[l]
    BY <1>1, <1>11, <2>1
  <2>4. \A l \in 1..m : w[l] < w[l + 1] /\ LineFits(text, w[l], w[l + 1])
    <3> TAKE l \in 1..m
    <3>1. CASE l = m
      BY <1>1, <1>11, <2>2, <2>3, <3>1 DEF last
    <3>2. CASE l # m
      <4>1. l \in 1..(m - 1) /\ l + 1 \in 1..m
        BY <1>11, <3>2
      <4> QED
        BY <1>11, <2>3, <4>1
    <3> QED
      BY <3>1, <3>2
  <2>5. LineFits(text, n, n)
    <3>1. n \in 0..Len(text) /\ n <= n
      BY <1>1 DEF n
    <3>2. SubSeq(text, n + 1, n) = <<>>
      BY <3>1, Part
    <3>3. Columns(SubSeq(text, n + 1, n)) = 0
      BY <3>2, ColumnsEmpty
    <3>4. Columns(SubSeq(text, n + 1, n)) <= Width
      BY <3>3, EditorAssumption
    <3> QED
      BY <3>4 DEF LineFits
  <2>6. WrappedWell(text, w)
    <3>1. Len(w) - 1 = m /\ 1 \in 1..m /\ w[1] = 0 /\ w[Len(w)] = n
      BY <1>11, <2>3
    <3> QED
      BY <1>11, <2>3, <2>4, <2>5, <3>1 DEF WrappedWell, n
  <2> QED
    BY <2>6 DEF w
<1> QED
  BY <1>12, <1>13

\* A line ends where the next one starts, and the last one with the text.
LEMMA LineIs ==
  ASSUME NEW text \in Seq(Letter), NEW l \in DOMAIN Wrapped(text)
  PROVE  LET w == Wrapped(text) length == LineLength(text, l) IN
         /\ w[l] \in 0..Len(text) /\ length \in Nat /\ w[l] + length \in 0..Len(text)
         /\ w[l] + length = (IF l = Len(w) THEN Len(text) ELSE w[l + 1]) /\ LineFits(text, w[l], w[l] + length)
<1> DEFINE n == Len(text)
           w == Wrapped(text)
           m == Len(w)
           end == IF l = m THEN n ELSE w[l + 1]
           N == 0..n
           length == LineLength(text, l)
<1>1. n \in Nat
  OBVIOUS
<1>2. length = end - w[l]
  BY DEF LineLength
<1>3. WrappedWell(text, w)
  BY WrappedIs
<1> HIDE DEF n, w, length
<1>4. w \in Seq(N) /\ m >= 1 /\ (\A i \in 1..(m - 1) : w[i] < w[i + 1] /\ LineFits(text, w[i], w[i + 1])) /\ LineFits(text, w[m], n)
  BY <1>3 DEF WrappedWell, n
<1> HIDE DEF N
<1>5. m \in Nat /\ DOMAIN w = 1..m /\ \A i \in 1..m : w[i] \in N
  BY <1>4
<1>6. l \in 1..m
  BY <1>5 DEF w
<1> HIDE DEF m
<1>7. w[l] \in N /\ end \in N /\ LineFits(text, w[l], end) /\ w[l] <= end
  <2>1. CASE l = m
    BY <1>1, <1>4, <1>5, <1>6, <2>1 DEF N
  <2>2. CASE l # m
    <3>1. l \in 1..(m - 1) /\ l + 1 \in 1..m
      BY <1>5, <1>6, <2>2
    <3>2. w[l] \in N /\ w[l + 1] \in N /\ w[l] < w[l + 1] /\ LineFits(text, w[l], w[l + 1])
      BY <1>4, <1>5, <3>1
    <3> QED
      BY <1>1, <2>2, <3>2 DEF N
  <2> QED
    BY <2>1, <2>2
<1> HIDE DEF end
<1>8. length \in Nat /\ w[l] + length = end
  BY <1>1, <1>2, <1>7 DEF N
<1>9. w[l] \in 0..n /\ length \in Nat /\ w[l] + length \in 0..n /\ w[l] + length = end /\ LineFits(text, w[l], w[l] + length)
  BY <1>7, <1>8 DEF N
<1> QED
  BY <1>9 DEF n, w, length, end, m

\* A set of numbers up to some number has a greatest one.
LEMMA GreatestOf ==
  ASSUME NEW n \in Nat, NEW S \in SUBSET (0..n), S # {}
  PROVE  Max(S) \in S /\ \A m \in S : m <= Max(S)
<1> DEFINE T == {n - k : k \in S}
<1>1. T \subseteq Nat /\ T # {}
  <2>1. \A k \in S : n - k \in Nat
    OBVIOUS
  <2>2. T \subseteq Nat
    BY <2>1
  <2> QED
    BY <2>2
<1> HIDE DEF T
<1>2. PICK x \in T : \A y \in T : x <= y
  BY <1>1, LeastNat
<1>3. PICK k \in S : x = n - k
  BY DEF T
<1>4. \A m \in S : m <= k
  <2> TAKE m \in S
  <2>1. n - m \in T
    BY DEF T
  <2>2. n - k <= n - m
    BY <1>2, <1>3, <2>1
  <2>3. m \in 0..n /\ k \in 0..n
    OBVIOUS
  <2> QED
    BY <2>2, <2>3
<1>5. \A m \in S : k >= m
  BY <1>4
<1> DEFINE Top(z) == z \in S /\ \A m \in S : z >= m
<1>6. Top(k)
  BY <1>5
<1>7. Top(CHOOSE z \in S : \A m \in S : z >= m)
  BY <1>6
<1>8. Top(Max(S))
  BY <1>7 DEF Max
<1> QED
  BY <1>8

LEMMA LeastOf ==
  ASSUME NEW S \in SUBSET Nat, S # {}
  PROVE  Min(S) \in S /\ \A m \in S : Min(S) <= m
<1>1. PICK k \in S : \A m \in S : k <= m
  BY LeastNat
<1> QED
  BY <1>1 DEF Min

\* The cursor is in a line that has its column.
LEMMA CursorLine ==
  ASSUME NEW text \in Seq(Letter), NEW cursor \in 0..Len(text)
  PROVE  LET w == Wrapped(text) k == LineOf(text, cursor) IN
         /\ w \in Seq(0..Len(text)) /\ Len(w) \in Nat /\ Len(w) >= 1 /\ DOMAIN w = 1..Len(w)
         /\ k \in 1..Len(w)
         /\ ColumnOf(text, cursor) \in Nat /\ ColumnOf(text, cursor) <= LineLength(text, k)
<1> DEFINE n == Len(text)
           w == Wrapped(text)
           k == LineOf(text, cursor)
           S == {i \in DOMAIN w : w[i] <= cursor}
           N == 0..n
<1>1. n \in Nat /\ w \in Seq(N) /\ Len(w) >= 1 /\ w[1] = 0
  BY WrappedIs DEF WrappedWell
<1>2. k = Max(S)
  BY DEF LineOf
<1>3. ColumnOf(text, cursor) = cursor - w[k]
  BY DEF ColumnOf
<1>4. \A i \in DOMAIN w : /\ w[i] \in 0..n /\ LineLength(text, i) \in Nat
                          /\ w[i] + LineLength(text, i) = (IF i = Len(w) THEN n ELSE w[i + 1])
  BY LineIs
<1> HIDE DEF n, w, k, N
<1>5. Len(w) \in Nat /\ DOMAIN w = 1..Len(w)
  BY <1>1
<1>6. k \in S /\ \A i \in S : i <= k
  <2>1. 1 \in S
    BY <1>1, <1>5 DEF n
  <2>2. S \in SUBSET (0..Len(w))
    BY <1>5
  <2> HIDE DEF S
  <2> QED
    BY <1>2, <1>5, <2>1, <2>2, GreatestOf
<1>7. k \in 1..Len(w) /\ w[k] \in 0..n /\ w[k] <= cursor /\ cursor \in 0..n
  BY <1>4, <1>5, <1>6 DEF n
<1>8. cursor - w[k] \in Nat
  BY <1>1, <1>7
<1>9. cursor <= w[k] + LineLength(text, k)
  <2>1. CASE k = Len(w)
    BY <1>1, <1>4, <1>5, <1>7, <2>1
  <2>2. CASE k # Len(w)
    <3>1. k + 1 \in 1..Len(w) /\ ~ (k + 1 <= k)
      <4> DEFINE m == Len(w)
      <4>1. m \in Nat /\ k \in 1..m /\ k # m
        BY <1>5, <1>7, <2>2
      <4> HIDE DEF m
      <4>2. k + 1 \in 1..m /\ ~ (k + 1 <= k)
        BY <4>1
      <4> QED
        BY <4>2 DEF m
    <3>2. k + 1 \notin S
      BY <1>6, <3>1
    <3>3. ~ (w[k + 1] <= cursor) /\ w[k + 1] \in 0..n
      BY <1>4, <1>5, <3>1, <3>2
    <3>4. w[k] + LineLength(text, k) = w[k + 1]
      BY <1>4, <1>5, <1>7, <2>2
    <3> QED
      BY <1>1, <1>7, <3>3, <3>4
  <2> QED
    BY <2>1, <2>2
<1>10. LineLength(text, k) \in Nat
  BY <1>4, <1>5, <1>7
<1>11. cursor - w[k] <= LineLength(text, k)
  BY <1>1, <1>7, <1>9, <1>10
<1>12. /\ w \in Seq(N) /\ Len(w) \in Nat /\ Len(w) >= 1 /\ DOMAIN w = 1..Len(w) /\ k \in 1..Len(w)
       /\ ColumnOf(text, cursor) \in Nat /\ ColumnOf(text, cursor) <= LineLength(text, k)
  BY <1>1, <1>3, <1>5, <1>7, <1>8, <1>11
<1> QED
  BY <1>12 DEF n, w, k, N

EditorInv ==
  /\ DOMAIN editor = {"buffer", "cursor", "offset", "rendered"}
  /\ editor.buffer \in Seq(Letter) /\ editor.cursor \in 0..Len(editor.buffer) /\ editor.offset \in Int
  /\ editor.rendered => LineOf(editor.buffer, editor.cursor) - 1 \in editor.offset..(editor.offset + Height - 1)

\* A key that leaves the cursor in the text.
LEMMA BecomesStep ==
  ASSUME EditorInv, NEW buffer \in Seq(Letter), NEW cursor \in 0..Len(buffer), Becomes(buffer, cursor)
  PROVE  EditorInv'
<1>1. /\ DOMAIN editor' = {"buffer", "cursor", "offset", "rendered"} /\ editor'.buffer = buffer /\ editor'.cursor = cursor
      /\ editor'.offset = editor.offset /\ editor'.rendered = FALSE
  BY DEF EditorInv, Becomes
<1> QED
  BY <1>1 DEF EditorInv

LEMMA MovesToStep ==
  ASSUME EditorInv, NEW cursor \in 0..Len(editor.buffer), MovesTo(cursor)
  PROVE  EditorInv'
<1>1. editor.buffer \in Seq(Letter) /\ Becomes(editor.buffer, cursor)
  BY DEF EditorInv, MovesTo
<1> QED
  BY <1>1, BecomesStep

\* Words before and after the cursor.
LEMMA WordsIn ==
  ASSUME NEW text \in Seq(Letter), NEW cursor \in 0..Len(text)
  PROVE  WordBackward(text, cursor) \in 0..cursor /\ WordForward(text, cursor) \in 0..Len(text)
<1> DEFINE n == Len(text)
           Before(p) == p = 0 \/ (IsWord(text[p + 1]) /\ ~ IsWord(text[p]))
           After(p) == p = n \/ (p > 0 /\ IsWord(text[p + 1]) /\ ~ IsWord(text[p]))
           behind == {p \in 0..(cursor - 1) : Before(p)}
           ahead == {p \in (cursor + 1)..n : After(p)}
<1>1. n \in Nat /\ cursor \in 0..n
  OBVIOUS
<1>2. WordBackward(text, cursor) = IF cursor = 0 THEN 0 ELSE Max(behind)
  BY DEF WordBackward
<1>3. WordForward(text, cursor) = IF ahead = {} THEN cursor ELSE Min(ahead)
  BY DEF WordForward
<1>4. cursor # 0 => behind # {}
  <2>1. cursor # 0 => 0 \in behind
    BY <1>1
  <2> QED
    BY <2>1
<1>5. behind \subseteq 0..(cursor - 1) /\ ahead \subseteq (cursor + 1)..n
  OBVIOUS
<1> HIDE DEF n, behind, ahead
<1>6. WordBackward(text, cursor) \in 0..cursor
  <2>1. CASE cursor = 0
    BY <1>2, <2>1
  <2>2. CASE cursor # 0
    <3>1. cursor - 1 \in Nat /\ behind \in SUBSET (0..(cursor - 1)) /\ behind # {}
      BY <1>1, <1>4, <1>5, <2>2
    <3>2. Max(behind) \in behind
      BY <3>1, GreatestOf
    <3>3. Max(behind) \in 0..(cursor - 1)
      BY <1>5, <3>2
    <3> QED
      BY <1>1, <1>2, <2>2, <3>3
  <2> QED
    BY <2>1, <2>2
<1>7. WordForward(text, cursor) \in 0..n
  <2>1. CASE ahead = {}
    BY <1>1, <1>3, <2>1
  <2>2. CASE ahead # {}
    <3>1. ahead \in SUBSET Nat
      BY <1>1, <1>5
    <3>2. Min(ahead) \in ahead
      BY <2>2, <3>1, LeastOf
    <3>3. Min(ahead) \in (cursor + 1)..n
      BY <1>5, <3>2
    <3> QED
      BY <1>1, <1>3, <2>2, <3>3
  <2> QED
    BY <2>1, <2>2
<1> QED
  BY <1>6, <1>7 DEF n

\* The column of the cursor in another line is in the text.
LEMMA InLineIn ==
  ASSUME EditorInv, NEW l \in DOMAIN Wrapped(editor.buffer)
  PROVE  InLine(l) \in 0..Len(editor.buffer)
<1> DEFINE text == editor.buffer
           column == ColumnOf(text, editor.cursor)
           length == LineLength(text, l)
           start == Wrapped(text)[l]
<1>1. text \in Seq(Letter) /\ editor.cursor \in 0..Len(text)
  BY DEF EditorInv
<1>2. InLine(l) = start + Min({column, length})
  BY DEF InLine
<1> HIDE DEF text
<1>3. column \in Nat
  BY <1>1, CursorLine
<1>4. start \in 0..Len(text) /\ length \in Nat /\ start + length \in 0..Len(text)
  BY <1>1, LineIs DEF text
<1> HIDE DEF column, length, start
<1>5. Min({column, length}) \in {column, length} /\ Min({column, length}) <= length
  <2>1. {column, length} \in SUBSET Nat /\ {column, length} # {} /\ length \in {column, length}
    BY <1>3, <1>4
  <2> QED
    BY <2>1, LeastOf
<1>6. Len(text) \in Nat
  BY <1>1
<1> QED
  BY <1>2, <1>3, <1>4, <1>5, <1>6 DEF text

\* The text without a part of it, and with another text in its midst.
LEMMA CutIs ==
  ASSUME EditorInv, NEW first \in 0..Len(editor.buffer), NEW last \in 0..Len(editor.buffer), first <= last
  PROVE  Cut(first, last) \in Seq(Letter) /\ first \in 0..Len(Cut(first, last))
<1> DEFINE text == editor.buffer   n == Len(text)
           a == SubSeq(text, 1, first)   b == SubSeq(text, last + 1, n)
<1>1. text \in Seq(Letter)
  BY DEF EditorInv
<1> HIDE DEF text
<1>2. n \in Nat /\ 0 \in 0..n /\ n \in 0..n /\ first \in 0..n /\ last \in 0..n /\ 0 <= first /\ last <= n
  BY <1>1 DEF text
<1>3. a \in Seq(Letter) /\ Len(a) = first
  <2>1. SubSeq(text, 0 + 1, first) \in Seq(Letter) /\ Len(SubSeq(text, 0 + 1, first)) = first - 0
    BY <1>1, <1>2, Part
  <2> QED
    BY <1>2, <2>1
<1>4. b \in Seq(Letter) /\ Len(b) = n - last
  BY <1>1, <1>2, Part
<1> HIDE DEF a, b
<1>5. a \o b \in Seq(Letter) /\ Len(a \o b) = first + (n - last)
  BY <1>2, <1>3, <1>4
<1>6. Cut(first, last) = a \o b
  BY DEF Cut, a, b, text
<1>7. first \in 0..(first + (n - last))
  BY <1>2
<1> QED
  BY <1>5, <1>6, <1>7

LEMMA InsertsStep == ASSUME EditorInv, NEW more \in Paste, Inserts(more) PROVE EditorInv'
<1> DEFINE text == editor.buffer   n == Len(text)   cursor == editor.cursor
           a == SubSeq(text, 1, cursor)   b == SubSeq(text, cursor + 1, n)   new == a \o more \o b
<1>1. text \in Seq(Letter) /\ more \in Seq(Letter) /\ cursor \in 0..n
  BY EditorAssumption DEF EditorInv
<1>2. Becomes(new, cursor + Len(more))
  BY DEF Inserts
<1> HIDE DEF text, cursor
<1>3. n \in Nat /\ 0 \in 0..n /\ n \in 0..n /\ 0 <= cursor /\ cursor <= n /\ cursor \in Nat /\ Len(more) \in Nat
  BY <1>1
<1>4. a \in Seq(Letter) /\ Len(a) = cursor
  <2>1. SubSeq(text, 0 + 1, cursor) \in Seq(Letter) /\ Len(SubSeq(text, 0 + 1, cursor)) = cursor - 0
    BY <1>1, <1>3, Part
  <2> QED
    BY <1>3, <2>1
<1>5. b \in Seq(Letter) /\ Len(b) = n - cursor
  BY <1>1, <1>3, Part
<1> HIDE DEF a, b
<1>6. new \in Seq(Letter) /\ Len(new) = cursor + Len(more) + (n - cursor)
  <2> DEFINE c == a \o more
  <2>1. c \in Seq(Letter) /\ Len(c) = cursor + Len(more)
    BY <1>1, <1>4
  <2> HIDE DEF c
  <2>2. c \o b \in Seq(Letter) /\ Len(c \o b) = Len(c) + Len(b)
    BY <1>5, <2>1
  <2>3. new = c \o b
    BY DEF c
  <2> QED
    BY <1>5, <2>1, <2>2, <2>3
<1> HIDE DEF new
<1>7. cursor + Len(more) \in 0..Len(new)
  BY <1>3, <1>6
<1> QED
  BY <1>2, <1>6, <1>7, BecomesStep

LEMMA DeletesStep == ASSUME EditorInv, Deletes PROVE EditorInv'
<1> DEFINE text == editor.buffer   n == Len(text)   cursor == editor.cursor   word == WordBackward(text, cursor)
<1>1. text \in Seq(Letter) /\ cursor \in 0..n
  BY DEF EditorInv
<1>2. \/ Becomes(Cut(word, cursor), word)
      \/ cursor > 0 /\ Becomes(Cut(cursor - 1, cursor), cursor - 1)
      \/ cursor < n /\ Becomes(Cut(cursor, cursor + 1), cursor)
  BY DEF Deletes
<1>3. word \in 0..cursor
  BY <1>1, WordsIn
<1>4. n \in Nat
  BY <1>1
<1> HIDE DEF word, cursor
<1>5. PICK first \in 0..n, last \in 0..n : first <= last /\ Becomes(Cut(first, last), first)
  <2> HIDE DEF text, n
  <2>1. CASE Becomes(Cut(word, cursor), word)
    <3>1. word \in 0..n /\ word <= cursor
      BY <1>1, <1>3, <1>4
    <3> QED
      BY <1>1, <2>1, <3>1
  <2>2. CASE cursor > 0 /\ Becomes(Cut(cursor - 1, cursor), cursor - 1)
    <3>1. cursor - 1 \in 0..n /\ cursor - 1 <= cursor
      BY <1>1, <1>4, <2>2
    <3> QED
      BY <1>1, <2>2, <3>1
  <2>3. CASE cursor < n /\ Becomes(Cut(cursor, cursor + 1), cursor)
    <3>1. cursor + 1 \in 0..n /\ cursor <= cursor + 1
      BY <1>1, <1>4, <2>3
    <3> QED
      BY <1>1, <2>3, <3>1
  <2> QED
    BY <1>2, <2>1, <2>2, <2>3
<1>6. Cut(first, last) \in Seq(Letter) /\ first \in 0..Len(Cut(first, last))
  BY <1>5, CutIs
<1> QED
  BY <1>5, <1>6, BecomesStep

\* Keys that move the cursor only.
LEMMA MovesStep ==
  ASSUME EditorInv, MovesByWord \/ MovesByCharacter \/ MovesByLine \/ MovesInLine \/ MovesByPage
  PROVE  EditorInv'
<1> DEFINE text == editor.buffer   n == Len(text)   cursor == editor.cursor
           w == Wrapped(text)   m == Len(w)   k == LineOf(text, cursor)
<1>1. text \in Seq(Letter) /\ cursor \in 0..n
  BY DEF EditorInv
<1>2. n \in Nat
  BY <1>1
<1>3. m \in Nat /\ m >= 1 /\ DOMAIN w = 1..m /\ k \in 1..m
  BY <1>1, CursorLine
<1> SUFFICES \E c \in 0..n : MovesTo(c)
  BY MovesToStep
<1>4. CASE MovesByWord
  <2>1. WordBackward(text, cursor) \in 0..cursor /\ WordForward(text, cursor) \in 0..n
    BY <1>1, WordsIn
  <2>2. MovesTo(WordBackward(text, cursor)) \/ MovesTo(WordForward(text, cursor))
    BY <1>4 DEF MovesByWord
  <2> HIDE DEF text, n, cursor
  <2>3. WordBackward(text, cursor) \in 0..n
    <3> DEFINE x == WordBackward(text, cursor)
    <3>1. x \in 0..cursor
      BY <2>1
    <3> HIDE DEF x
    <3>2. x \in 0..n
      BY <1>1, <1>2, <3>1
    <3> QED
      BY <3>2 DEF x
  <2> QED
    BY <2>1, <2>2, <2>3
<1>5. CASE MovesByCharacter
  <2>1. \/ cursor > 0 /\ MovesTo(cursor - 1)
        \/ cursor < n /\ MovesTo(cursor + 1)
    BY <1>5, Zenon DEF MovesByCharacter
  <2> HIDE DEF text, n, cursor
  <2> QED
    BY <1>1, <1>2, <2>1
<1>6. CASE MovesByLine
  <2>1. PICK l \in DOMAIN w : MovesTo(InLine(l))
    BY <1>6 DEF MovesByLine
  <2> QED
    BY <2>1, InLineIn
<1>7. CASE MovesInLine
  <2> DEFINE start == w[k]   length == LineLength(text, k)
  <2>1. start \in 0..n /\ length \in Nat /\ start + length \in 0..n
    BY <1>1, <1>3, LineIs
  <2>2. MovesTo(start) \/ MovesTo(start + length) \/ MovesTo(0) \/ MovesTo(n)
    BY <1>7 DEF MovesInLine
  <2> HIDE DEF text, n, start, length
  <2> QED
    BY <1>2, <2>1, <2>2
<1>8. CASE MovesByPage
  <2> DEFINE up == Max({1, k - Height})   down == Min({m, k + Height})
  <2>1. MovesTo(InLine(up)) \/ MovesTo(InLine(down))
    BY <1>8 DEF MovesByPage
  <2> HIDE DEF w, k, m
  <2>2. up \in 1..m
    <3>1. k - Height \in Int /\ k - Height <= m
      BY <1>3, EditorAssumption
    <3>2. CASE k - Height <= 1
      <4>1. 1 \in {1, k - Height} /\ \A x \in {1, k - Height} : 1 >= x
        BY <3>1, <3>2
      <4>2. up \in {1, k - Height} /\ \A x \in {1, k - Height} : up >= x
        BY <4>1 DEF Max
      <4>3. up = 1
        BY <3>1, <3>2, <4>1, <4>2
      <4> QED
        BY <1>3, <4>3
    <3>3. CASE ~ (k - Height <= 1)
      <4>1. k - Height \in {1, k - Height} /\ \A x \in {1, k - Height} : k - Height >= x
        BY <3>1, <3>3
      <4>2. up \in {1, k - Height} /\ \A x \in {1, k - Height} : up >= x
        BY <4>1 DEF Max
      <4>3. up \in Int /\ up >= 1 /\ up <= m
        BY <1>3, <3>1, <3>3, <4>2
      <4> QED
        BY <1>3, <4>3
    <3> QED
      BY <3>2, <3>3
  <2>3. down \in 1..m
    <3>1. {m, k + Height} \in SUBSET Nat /\ {m, k + Height} # {} /\ k + Height >= 1
      BY <1>3, EditorAssumption
    <3>2. down \in {m, k + Height} /\ \A x \in {m, k + Height} : down <= x
      BY <3>1, LeastOf
    <3>3. down \in Nat /\ down >= 1 /\ down <= m
      BY <1>3, <3>1, <3>2
    <3> QED
      BY <1>3, <3>3
  <2>4. up \in DOMAIN w /\ down \in DOMAIN w
    BY <1>3, <2>2, <2>3
  <2> HIDE DEF up, down
  <2> QED
    BY <2>1, <2>4, InLineIn DEF w
<1> QED
  BY <1>4, <1>5, <1>6, <1>7, <1>8

\* After a rendering the line of the cursor is shown.
LEMMA VisibleIs ==
  ASSUME NEW line \in Nat, NEW offset \in Int
  PROVE  Visible(line, offset) \in Int /\ line \in Visible(line, offset)..(Visible(line, offset) + Height - 1)
<1>1. Height \in Nat \ {0}
  BY EditorAssumption
<1>2. CASE line < offset
  BY <1>1, <1>2 DEF Visible
<1>3. CASE line >= offset + Height
  <2>1. ~ (line < offset)
    BY <1>1, <1>3
  <2>2. Visible(line, offset) = line - Height + 1
    BY <1>3, <2>1 DEF Visible
  <2> QED
    BY <1>1, <2>2
<1>4. CASE ~ (line < offset) /\ ~ (line >= offset + Height)
  <2>1. Visible(line, offset) = offset
    BY <1>4 DEF Visible
  <2> QED
    BY <1>1, <1>4, <2>1
<1> QED
  BY <1>2, <1>3, <1>4

LEMMA RendersStep == ASSUME EditorInv, Renders PROVE EditorInv'
<1> DEFINE line == LineOf(editor.buffer, editor.cursor) - 1
           new == Visible(line, editor.offset)
<1>1. editor.buffer \in Seq(Letter) /\ editor.cursor \in 0..Len(editor.buffer) /\ editor.offset \in Int
  BY DEF EditorInv
<1>2. line \in Nat
  <2>1. LineOf(editor.buffer, editor.cursor) \in 1..Len(Wrapped(editor.buffer)) /\ Len(Wrapped(editor.buffer)) \in Nat
    BY <1>1, CursorLine
  <2> QED
    BY <2>1
<1>3. /\ DOMAIN editor' = {"buffer", "cursor", "offset", "rendered"} /\ editor'.buffer = editor.buffer
      /\ editor'.cursor = editor.cursor /\ editor'.offset = new
  BY DEF EditorInv, Renders
<1>4. LineOf(editor'.buffer, editor'.cursor) - 1 = line
  BY <1>3
<1> HIDE DEF line
<1>5. new \in Int /\ line \in new..(new + Height - 1)
  BY <1>1, <1>2, VisibleIs
<1> HIDE DEF new
<1> QED
  BY <1>1, <1>3, <1>4, <1>5 DEF EditorInv

LEMMA EditorStep == ASSUME EditorInv, UNCHANGED editor \/ EditorNext PROVE EditorInv'
<1>1. CASE UNCHANGED editor
  BY <1>1 DEF EditorInv
<1>2. CASE MovesByWord \/ MovesByCharacter \/ MovesByLine \/ MovesInLine \/ MovesByPage
  BY <1>2, MovesStep
<1>3. CASE Deletes
  BY <1>3, DeletesStep
<1>4. CASE \E text \in Paste : Inserts(text)
  BY <1>4, InsertsStep
<1>5. CASE Renders
  BY <1>5, RendersStep
<1> QED
  BY <1>1, <1>2, <1>3, <1>4, <1>5 DEF EditorNext

LEMMA EditorStart == ASSUME EditorInit PROVE EditorInv
<1>1. PICK text \in Paste : editor = EditorWith(text)
  BY DEF EditorInit
<1>2. text \in Seq(Letter)
  BY EditorAssumption
<1>3. 0 \in 0..Len(text)
  BY <1>2
<1> QED
  BY <1>1, <1>2, <1>3 DEF EditorInv, EditorWith

LEMMA EditorRight == ASSUME EditorInv PROVE EditorHolds
<1> DEFINE text == editor.buffer   cursor == editor.cursor   k == LineOf(text, cursor)   w == Wrapped(text)
<1>1. text \in Seq(Letter) /\ cursor \in 0..Len(text) /\ (editor.rendered => k - 1 \in editor.offset..(editor.offset + Height - 1))
  BY DEF EditorInv
<1>2. ColumnOf(text, cursor) <= LineLength(text, k)
  BY <1>1, CursorLine
<1>3. ASSUME NEW l \in DOMAIN w
      PROVE  LET line == SubSeq(text, w[l] + 1, w[l] + LineLength(text, l)) IN Columns(line) <= Width \/ Len(line) = 1
  <2> DEFINE a == w[l]   b == w[l] + LineLength(text, l)
  <2>1. a \in 0..Len(text) /\ LineLength(text, l) \in Nat /\ b \in 0..Len(text) /\ LineFits(text, a, b)
    BY <1>1, LineIs
  <2>2. a <= b
    <3> HIDE DEF a
    <3> QED
      BY <1>1, <2>1 DEF a
  <2> HIDE DEF a, b
  <2>3. Len(SubSeq(text, a + 1, b)) = b - a
    BY <1>1, <2>1, <2>2, Part
  <2>4. Columns(SubSeq(text, a + 1, b)) <= Width \/ Len(SubSeq(text, a + 1, b)) = 1
    BY <2>1, <2>3 DEF LineFits
  <2> QED
    BY <2>4 DEF a, b
<1> QED
  BY <1>1, <1>2, <1>3 DEF EditorHolds

(********************************* Chunks **********************************)

\* The sizes up to each sentence.
SizeTo(g, s) == g[0] = 0 /\ \A k \in 1..Len(s) : g[k] = g[k - 1] + s[k].size

LEMMA SizeIs ==
  ASSUME NEW s \in Seq(Sentence)
  PROVE  \E g : SizeTo(g, s) /\ (\A k \in 0..Len(s) : g[k] \in Nat) /\ Size(s) = g[Len(s)]
<1> DEFINE n == Len(s)
           F == [p \in Nat \X (1..n) |-> p[1] + s[p[2]].size]
           Right(f) == f = [i \in 0..n |-> IF i = 0 THEN 0 ELSE f[i - 1] + s[i].size]
           to == CHOOSE f : Right(f)
<1>1. n \in Nat /\ \A k \in 1..n : s[k].size \in Nat
  BY ChunkerAssumption
<1> HIDE DEF n
<1>2. \A x \in Nat, k \in 1..n : F[<<x, k>>] = x + s[k].size /\ F[<<x, k>>] \in Nat
  BY <1>1
<1> HIDE DEF F
<1>3. PICK g : Iterates(g, 0, F, n) /\ \A k \in 0..n : g[k] \in Nat
  BY <1>1, <1>2, Iteration
<1>4. Right(g)
  <2>1. \A k \in 0..n : (IF k = 0 THEN 0 ELSE F[<<g[k - 1], k>>]) = IF k = 0 THEN 0 ELSE g[k - 1] + s[k].size
    BY <1>1, <1>2, <1>3
  <2> QED
    BY <1>3, <2>1 DEF Iterates
<1>5. Right(to)
  <2> HIDE DEF Right
  <2> QED
    BY <1>4
<1>6. Size(s) = to[n]
  BY DEF Size, n
<1> HIDE DEF to
<1>7. \A k \in 0..n : to[k] = IF k = 0 THEN 0 ELSE to[k - 1] + s[k].size
  BY <1>5
<1>8. SizeTo(to, s)
  <2>1. to[0] = 0
    BY <1>1, <1>7
  <2>2. \A k \in 1..n : to[k] = to[k - 1] + s[k].size
    BY <1>1, <1>7
  <2> QED
    BY <2>1, <2>2 DEF SizeTo, n
<1>9. \A k \in 0..n : to[k] \in Nat
  <2> DEFINE P == {k \in 0..n : to[k] \in Nat}
  <2>1. 0 \in P
    BY <1>1, <1>7
  <2>2. ASSUME NEW k \in 0..n, k < n, k \in P PROVE k + 1 \in P
    <3>1. k + 1 \in 0..n /\ k + 1 # 0 /\ (k + 1) - 1 = k
      BY <1>1, <2>2
    <3>2. to[k + 1] = to[k] + s[k + 1].size
      BY <1>7, <3>1
    <3> QED
      BY <1>1, <2>2, <3>1, <3>2
  <2>3. \A k \in 0..n : k \in P
    <3> HIDE DEF P
    <3> QED
      BY <1>1, <2>1, <2>2, UpTo
  <2> QED
    BY <2>3
<1> QED
  BY <1>6, <1>8, <1>9 DEF n

LEMMA SizeEmpty == Size(<<>>) = 0
<1>1. <<>> \in Seq(Sentence) /\ Len(<<>>) = 0
  OBVIOUS
<1> QED
  BY <1>1, SizeIs DEF SizeTo

LEMMA SizeAppend ==
  ASSUME NEW s \in Seq(Sentence), NEW x \in Sentence
  PROVE  /\ Size(s) \in Nat /\ x.size \in Nat
         /\ Size(Append(s, x)) = Size(s) + x.size
<1> DEFINE n == Len(s)   longer == Append(s, x)
<1>1. /\ n \in Nat /\ longer \in Seq(Sentence) /\ Len(longer) = n + 1 /\ longer[n + 1] = x
      /\ \A k \in 1..n : longer[k] = s[k]
  OBVIOUS
<1> HIDE DEF longer
<1>2. PICK g : SizeTo(g, s) /\ (\A k \in 0..n : g[k] \in Nat) /\ Size(s) = g[n]
  BY SizeIs
<1>3. PICK h : SizeTo(h, longer) /\ Size(longer) = h[n + 1]
  BY <1>1, SizeIs
<1>4. g[0] = 0 /\ \A k \in 1..n : g[k] = g[k - 1] + s[k].size
  BY <1>2 DEF SizeTo
<1> HIDE DEF n
<1>5. h[0] = 0 /\ \A k \in 1..(n + 1) : h[k] = h[k - 1] + longer[k].size
  BY <1>1, <1>3 DEF SizeTo
<1>6. \A k \in 0..n : h[k] = g[k]
  <2> DEFINE P == {k \in 0..n : h[k] = g[k]}
  <2>1. 0 \in P
    BY <1>1, <1>4, <1>5
  <2>2. ASSUME NEW k \in 0..n, k < n, k \in P PROVE k + 1 \in P
    <3>1. k + 1 \in 1..n /\ k + 1 \in 1..(n + 1) /\ (k + 1) - 1 = k
      BY <1>1, <2>2
    <3>2. h[k + 1] = h[k] + longer[k + 1].size /\ g[k + 1] = g[k] + s[k + 1].size
      BY <1>4, <1>5, <3>1
    <3>3. longer[k + 1] = s[k + 1]
      BY <1>1, <3>1
    <3> QED
      BY <2>2, <3>1, <3>2, <3>3
  <2>3. \A k \in 0..n : k \in P
    <3> HIDE DEF P
    <3> QED
      BY <1>1, <2>1, <2>2, UpTo
  <2> QED
    BY <2>3
<1>7. h[n + 1] = h[n] + x.size
  BY <1>1, <1>5
<1>8. g[n] \in Nat /\ h[n] = g[n] /\ x.size \in Nat
  BY <1>1, <1>2, <1>6, ChunkerAssumption
<1> QED
  BY <1>2, <1>3, <1>7, <1>8 DEF longer

\* The size of two texts in a row is the sum of theirs.
LEMMA SizeConcat ==
  ASSUME NEW a \in Seq(Sentence), NEW b \in Seq(Sentence)
  PROVE  Size(a \o b) = Size(a) + Size(b) /\ Size(a) \in Nat /\ Size(b) \in Nat
<1> DEFINE n == Len(b)
           Begun(k) == SubSeq(b, 1, k)
           P == {k \in 0..n : Size(a \o Begun(k)) = Size(a) + Size(Begun(k)) /\ Size(Begun(k)) \in Nat}
<1>1. n \in Nat /\ Begun(n) = b /\ Begun(0) = <<>>
  BY WholeSeq
<1>2. Size(a) \in Nat
  <2>1. CASE Sentence = {}
    <3>1. a = <<>>
      BY <2>1
    <3> QED
      BY <3>1, SizeEmpty
  <2>2. CASE Sentence # {}
    BY <2>2, SizeAppend
  <2> QED
    BY <2>1, <2>2
<1>3. 0 \in P
  <2>1. a \o <<>> = a /\ 0 \in 0..n
    BY <1>1
  <2>2. Size(a \o <<>>) = Size(a) + Size(<<>>)
    <3>1. Size(a) + 0 = Size(a)
      BY <1>2
    <3> QED
      BY <2>1, <3>1, SizeEmpty
  <2>3. Size(<<>>) \in Nat
    BY SizeEmpty
  <2> QED
    BY <1>1, <2>1, <2>2, <2>3
<1>4. ASSUME NEW k \in 0..n, k < n, k \in P PROVE k + 1 \in P
  <2> DEFINE p == Begun(k)   x == b[k + 1]   c == a \o p
  <2>1. p \in Seq(Sentence) /\ x \in Sentence /\ Begun(k + 1) = Append(p, x)
    BY <1>1, <1>4, OneMore
  <2>2. Size(c) = Size(a) + Size(p) /\ Size(p) \in Nat
    BY <1>4
  <2> HIDE DEF p, x, Begun
  <2>3. c \in Seq(Sentence) /\ a \o Append(p, x) = Append(c, x)
    BY <2>1
  <2> HIDE DEF c
  <2>4. Size(Append(c, x)) = Size(c) + x.size /\ Size(Append(p, x)) = Size(p) + x.size /\ x.size \in Nat
    BY <2>1, <2>3, SizeAppend
  <2>5. Size(a \o Append(p, x)) = Size(a) + Size(Append(p, x)) /\ Size(Append(p, x)) \in Nat
    BY <1>2, <2>2, <2>3, <2>4
  <2>6. k + 1 \in 0..n
    BY <1>1, <1>4
  <2> QED
    BY <2>1, <2>5, <2>6
<1>5. n \in P
  <2> HIDE DEF P
  <2>1. \A k \in 0..n : k \in P
    BY <1>1, <1>3, <1>4, UpTo
  <2> QED
    BY <1>1, <2>1
<1> QED
  BY <1>1, <1>2, <1>5

LEMMA SizeOne == ASSUME NEW x \in Sentence PROVE Size(<<x>>) = x.size /\ x.size \in Nat /\ <<x>> \in Seq(Sentence)
<1>1. <<>> \in Seq(Sentence) /\ Append(<<>>, x) = <<x>> /\ <<x>> \in Seq(Sentence)
  OBVIOUS
<1>2. Size(Append(<<>>, x)) = Size(<<>>) + x.size /\ x.size \in Nat
  BY <1>1, SizeAppend
<1>3. 0 + x.size = x.size
  BY <1>2
<1> QED
  BY <1>1, <1>2, <1>3, SizeEmpty

\* The pieces joined up to each of them.
JoinedTo(g, s) == g[0] = <<>> /\ \A k \in 1..Len(s) : g[k] = g[k - 1] \o s[k]

LEMMA JoinedIs ==
  ASSUME NEW S, NEW s \in Seq(Seq(S))
  PROVE  \E g : JoinedTo(g, s) /\ (\A k \in 0..Len(s) : g[k] \in Seq(S)) /\ Joined(s) = g[Len(s)]
<1> DEFINE n == Len(s)
           T == Seq(S)
           F == [p \in T \X (1..n) |-> p[1] \o s[p[2]]]
           Right(f) == f = [i \in 0..n |-> IF i = 0 THEN <<>> ELSE f[i - 1] \o s[i]]
           to == CHOOSE f : Right(f)
<1>1. n \in Nat /\ (\A k \in 1..n : s[k] \in T) /\ <<>> \in T /\ \A x, y \in T : x \o y \in T
  OBVIOUS
<1> HIDE DEF n, T
<1>2. \A x \in T, k \in 1..n : F[<<x, k>>] = x \o s[k] /\ F[<<x, k>>] \in T
  BY <1>1
<1> HIDE DEF F
<1>3. PICK g : Iterates(g, <<>>, F, n) /\ \A k \in 0..n : g[k] \in T
  BY <1>1, <1>2, Iteration
<1>4. Right(g)
  <2>1. \A k \in 0..n : (IF k = 0 THEN <<>> ELSE F[<<g[k - 1], k>>]) = IF k = 0 THEN <<>> ELSE g[k - 1] \o s[k]
    <3> TAKE k \in 0..n
    <3>1. CASE k # 0
      <4>1. k - 1 \in 0..n /\ k \in 1..n
        BY <1>1, <3>1
      <4> QED
        BY <1>2, <1>3, <3>1, <4>1
    <3> QED
      BY <3>1
  <2> QED
    BY <1>3, <2>1 DEF Iterates
<1>5. Right(to)
  <2> HIDE DEF Right
  <2> QED
    BY <1>4
<1>6. Joined(s) = to[n]
  BY DEF Joined, n
<1> HIDE DEF to
<1>7. \A k \in 0..n : to[k] = IF k = 0 THEN <<>> ELSE to[k - 1] \o s[k]
  BY <1>5
<1>8. JoinedTo(to, s)
  <2>1. to[0] = <<>>
    BY <1>1, <1>7
  <2>2. ASSUME NEW k \in 1..n PROVE to[k] = to[k - 1] \o s[k]
    <3>1. k \in 0..n /\ k # 0
      BY <1>1
    <3> QED
      BY <1>7, <3>1
  <2> QED
    BY <2>1, <2>2 DEF JoinedTo, n
<1>9. \A k \in 0..n : to[k] \in T
  <2> DEFINE P == {k \in 0..n : to[k] \in T}
  <2>1. 0 \in P
    BY <1>1, <1>7
  <2>2. ASSUME NEW k \in 0..n, k < n, k \in P PROVE k + 1 \in P
    <3>1. k + 1 \in 0..n /\ k + 1 # 0 /\ (k + 1) - 1 = k /\ k + 1 \in 1..n
      BY <1>1, <2>2
    <3>2. to[k + 1] = to[k] \o s[k + 1]
      BY <1>7, <3>1
    <3>3. to[k] \in T /\ s[k + 1] \in T
      BY <1>1, <2>2, <3>1
    <3>4. to[k + 1] \in T
      BY <1>1, <3>2, <3>3
    <3> QED
      BY <3>1, <3>4
  <2>3. \A k \in 0..n : k \in P
    <3> HIDE DEF P
    <3> QED
      BY <1>1, <2>1, <2>2, UpTo
  <2> QED
    BY <2>3
<1> QED
  BY <1>6, <1>8, <1>9 DEF n, T

LEMMA JoinedEmpty == Joined(<<>>) = <<>>
<1>1. <<>> \in Seq(Seq({})) /\ Len(<<>>) = 0
  OBVIOUS
<1> QED
  BY <1>1, JoinedIs DEF JoinedTo

LEMMA JoinedAppend ==
  ASSUME NEW S, NEW s \in Seq(Seq(S)), NEW x \in Seq(S)
  PROVE  Joined(Append(s, x)) = Joined(s) \o x
<1> DEFINE n == Len(s)   longer == Append(s, x)
<1>1. /\ n \in Nat /\ longer \in Seq(Seq(S)) /\ Len(longer) = n + 1 /\ longer[n + 1] = x
      /\ \A k \in 1..n : longer[k] = s[k]
  OBVIOUS
<1> HIDE DEF longer
<1>2. PICK g : JoinedTo(g, s) /\ Joined(s) = g[n]
  BY JoinedIs
<1>3. PICK h : JoinedTo(h, longer) /\ Joined(longer) = h[n + 1]
  BY <1>1, JoinedIs
<1>4. g[0] = <<>> /\ \A k \in 1..n : g[k] = g[k - 1] \o s[k]
  BY <1>2 DEF JoinedTo
<1> HIDE DEF n
<1>5. h[0] = <<>> /\ \A k \in 1..(n + 1) : h[k] = h[k - 1] \o longer[k]
  BY <1>1, <1>3 DEF JoinedTo
<1>6. \A k \in 0..n : h[k] = g[k]
  <2> DEFINE P == {k \in 0..n : h[k] = g[k]}
  <2>1. 0 \in P
    BY <1>1, <1>4, <1>5
  <2>2. ASSUME NEW k \in 0..n, k < n, k \in P PROVE k + 1 \in P
    <3>1. k + 1 \in 1..n /\ k + 1 \in 1..(n + 1) /\ (k + 1) - 1 = k
      BY <1>1, <2>2
    <3>2. h[k + 1] = h[k] \o longer[k + 1] /\ g[k + 1] = g[k] \o s[k + 1]
      BY <1>4, <1>5, <3>1
    <3>3. longer[k + 1] = s[k + 1]
      BY <1>1, <3>1
    <3>4. h[k + 1] = g[k + 1]
      BY <2>2, <3>2, <3>3
    <3> QED
      BY <3>1, <3>4
  <2>3. \A k \in 0..n : k \in P
    <3> HIDE DEF P
    <3> QED
      BY <1>1, <2>1, <2>2, UpTo
  <2> QED
    BY <2>3
<1>7. h[n + 1] = h[n] \o x
  <2>1. n + 1 \in 1..(n + 1) /\ (n + 1) - 1 = n
    BY <1>1
  <2> QED
    BY <1>1, <1>5, <2>1
<1>8. h[n] = g[n]
  BY <1>1, <1>6
<1> QED
  BY <1>2, <1>3, <1>7, <1>8 DEF longer

LEMMA JoinedSeq == ASSUME NEW S, NEW s \in Seq(Seq(S)) PROVE Joined(s) \in Seq(S)
<1>1. Len(s) \in 0..Len(s)
  OBVIOUS
<1> QED
  BY <1>1, JoinedIs

LEMMA JoinedOne == ASSUME NEW S, NEW x \in Seq(S) PROVE Joined(<<x>>) = x /\ <<x>> \in Seq(Seq(S))
<1>1. <<>> \in Seq(Seq(S)) /\ Append(<<>>, x) = <<x>> /\ <<x>> \in Seq(Seq(S)) /\ <<>> \o x = x
  OBVIOUS
<1>2. Joined(Append(<<>>, x)) = Joined(<<>>) \o x
  BY <1>1, JoinedAppend
<1> QED
  BY <1>1, <1>2, JoinedEmpty

\* Pieces in a row are joined one row after the other.
LEMMA JoinedConcat ==
  ASSUME NEW S, NEW a \in Seq(Seq(S)), NEW b \in Seq(Seq(S))
  PROVE  Joined(a \o b) = Joined(a) \o Joined(b)
<1> DEFINE n == Len(b)
           B(k) == SubSeq(b, 1, k)
           P == {k \in 0..n : Joined(a \o B(k)) = Joined(a) \o Joined(B(k))}
<1>1. n \in Nat /\ B(n) = b /\ B(0) = <<>>
  BY WholeSeq
<1>2. Joined(a) \in Seq(S)
  BY JoinedSeq
<1>3. 0 \in P
  <2>1. a \o <<>> = a /\ 0 \in 0..n /\ Joined(a) \o <<>> = Joined(a)
    BY <1>1, <1>2
  <2> QED
    BY <1>1, <2>1, JoinedEmpty
<1>4. ASSUME NEW k \in 0..n, k < n, k \in P PROVE k + 1 \in P
  <2> DEFINE p == B(k)   x == b[k + 1]   c == a \o p
  <2>1. p \in Seq(Seq(S)) /\ x \in Seq(S) /\ B(k + 1) = Append(p, x)
    BY <1>1, <1>4, OneMore
  <2>2. Joined(c) = Joined(a) \o Joined(p)
    BY <1>4
  <2> HIDE DEF p, x, B
  <2>3. c \in Seq(Seq(S)) /\ a \o Append(p, x) = Append(c, x)
    <3> DEFINE T == Seq(S)
    <3>1. a \in Seq(T) /\ p \in Seq(T) /\ x \in T
      BY <2>1
    <3> HIDE DEF T
    <3>2. c \in Seq(T) /\ a \o Append(p, x) = Append(c, x)
      BY <3>1
    <3> QED
      BY <3>2 DEF T
  <2> HIDE DEF c
  <2>4. Joined(Append(c, x)) = Joined(c) \o x /\ Joined(Append(p, x)) = Joined(p) \o x
    BY <2>1, <2>3, JoinedAppend
  <2>5. Joined(p) \in Seq(S)
    BY <2>1, JoinedSeq
  <2>6. Joined(a \o Append(p, x)) = Joined(a) \o Joined(Append(p, x))
    <3> DEFINE ja == Joined(a)   jp == Joined(p)
    <3>1. (ja \o jp) \o x = ja \o (jp \o x)
      <4> HIDE DEF ja, jp
      <4>1. ja \in Seq(S) /\ jp \in Seq(S) /\ x \in Seq(S)
        BY <1>2, <2>1, <2>5 DEF ja, jp
      <4> QED
        BY <4>1
    <3> QED
      BY <2>2, <2>3, <2>4, <3>1
  <2>7. k + 1 \in 0..n
    BY <1>1, <1>4
  <2> QED
    BY <2>1, <2>6, <2>7
<1>5. n \in P
  <2> HIDE DEF P
  <2>1. \A k \in 0..n : k \in P
    BY <1>1, <1>3, <1>4, UpTo
  <2> QED
    BY <1>1, <2>1
<1> QED
  BY <1>1, <1>5

\* What two sequences in a row hold.
LEMMA ConcatHolds == ASSUME NEW S, NEW a \in Seq(S), NEW b \in Seq(S) PROVE ToSet(a \o b) = ToSet(a) \cup ToSet(b)
<1> DEFINE m == Len(a)   n == Len(b)   c == a \o b
<1>1. /\ m \in Nat /\ n \in Nat /\ DOMAIN a = 1..m /\ DOMAIN b = 1..n /\ DOMAIN c = 1..(m + n)
      /\ \A i \in 1..m : c[i] = a[i]
      /\ \A i \in 1..n : c[m + i] = b[i]
  BY ConcatProperties
<1> HIDE DEF m, n, c
<1>2. ASSUME NEW x \in ToSet(c) PROVE x \in ToSet(a) \cup ToSet(b)
  <2>1. PICK i \in 1..(m + n) : x = c[i]
    BY <1>1 DEF ToSet
  <2>2. CASE i \in 1..m
    BY <1>1, <2>1, <2>2 DEF ToSet
  <2>3. CASE i \notin 1..m
    <3>1. i - m \in 1..n /\ m + (i - m) = i
      BY <1>1, <2>1, <2>3
    <3> QED
      BY <1>1, <2>1, <3>1 DEF ToSet
  <2> QED
    BY <2>2, <2>3
<1>3. ASSUME NEW x \in ToSet(a) PROVE x \in ToSet(c)
  <2>1. PICK i \in 1..m : x = a[i]
    BY <1>1 DEF ToSet
  <2>2. i \in 1..(m + n)
    BY <1>1
  <2> QED
    BY <1>1, <2>1, <2>2 DEF ToSet
<1>4. ASSUME NEW x \in ToSet(b) PROVE x \in ToSet(c)
  <2>1. PICK i \in 1..n : x = b[i]
    BY <1>1 DEF ToSet
  <2>2. m + i \in 1..(m + n)
    BY <1>1
  <2> QED
    BY <1>1, <2>1, <2>2 DEF ToSet
<1> QED
  BY <1>2, <1>3, <1>4 DEF c

\* Joined pieces hold what the pieces hold.
LEMMA JoinedHolds ==
  ASSUME NEW S, NEW s \in Seq(Seq(S))
  PROVE  \A x : x \in ToSet(Joined(s)) <=> \E i \in DOMAIN s : x \in ToSet(s[i])
<1> DEFINE n == Len(s)
           B(k) == SubSeq(s, 1, k)
           Agree(k) == \A x : x \in ToSet(Joined(B(k))) <=> \E i \in 1..k : x \in ToSet(s[i])
           P == {k \in 0..n : Agree(k)}
<1>1. n \in Nat /\ B(n) = s /\ B(0) = <<>> /\ DOMAIN s = 1..n
  BY WholeSeq
<1>2. 0 \in P
  <2>1. ToSet(<<>>) = {} /\ 1..0 = {} /\ 0 \in 0..n
    BY <1>1 DEF ToSet
  <2>2. ToSet(Joined(B(0))) = {}
    BY <1>1, <2>1, JoinedEmpty
  <2>3. Agree(0)
    <3> HIDE DEF B
    <3> QED
      BY <2>1, <2>2
  <2> HIDE DEF Agree
  <2> QED
    BY <2>1, <2>3
<1>3. ASSUME NEW k \in 0..n, k < n, k \in P PROVE k + 1 \in P
  <2> DEFINE p == B(k)   z == s[k + 1]   jp == Joined(p)   jn == Joined(B(k + 1))
  <2>1. p \in Seq(Seq(S)) /\ z \in Seq(S) /\ B(k + 1) = Append(p, z)
    BY <1>1, <1>3, OneMore
  <2>2. Agree(k)
    BY <1>3
  <2>3. \A x : x \in ToSet(jp) <=> \E i \in 1..k : x \in ToSet(s[i])
    BY <2>2
  <2> HIDE DEF p, B
  <2>4. jn = jp \o z
    BY <2>1, JoinedAppend
  <2>5. jp \in Seq(S)
    BY <2>1, JoinedSeq
  <2> HIDE DEF jp, jn
  <2>6. ToSet(jn) = ToSet(jp) \cup ToSet(z)
    BY <2>1, <2>4, <2>5, ConcatHolds
  <2>7. k + 1 \in 0..n /\ \A i : i \in 1..(k + 1) <=> i \in 1..k \/ i = k + 1
    BY <1>1, <1>3
  <2>8. \A x : x \in ToSet(jn) <=> \E i \in 1..(k + 1) : x \in ToSet(s[i])
    <3> TAKE x
    <3>1. x \in ToSet(jn) <=> (\E i \in 1..k : x \in ToSet(s[i])) \/ x \in ToSet(s[k + 1])
      BY <2>3, <2>6
    <3>2. (\E i \in 1..(k + 1) : x \in ToSet(s[i])) <=> (\E i \in 1..k : x \in ToSet(s[i])) \/ x \in ToSet(s[k + 1])
      BY <2>7, Zenon
    <3> QED
      BY <3>1, <3>2
  <2>9. Agree(k + 1)
    BY <2>8 DEF jn
  <2> HIDE DEF Agree
  <2> QED
    BY <2>7, <2>9
<1>4. n \in P
  <2> HIDE DEF P
  <2>1. \A k \in 0..n : k \in P
    BY <1>1, <1>2, <1>3, UpTo
  <2> QED
    BY <1>1, <2>1
<1>5. Agree(n)
  BY <1>4
<1> QED
  BY <1>1, <1>5

\* Rows of pieces may be joined each for itself first.
LEMMA JoinedRows ==
  ASSUME NEW S, NEW s \in Seq(Seq(Seq(S)))
  PROVE  LET rows == [k \in DOMAIN s |-> Joined(s[k])] IN
         rows \in Seq(Seq(S)) /\ Joined(Joined(s)) = Joined(rows)
<1> DEFINE n == Len(s)
           r == [k \in DOMAIN s |-> Joined(s[k])]
           A(k) == SubSeq(s, 1, k)
           B(k) == SubSeq(r, 1, k)
           P == {k \in 0..n : Joined(Joined(A(k))) = Joined(B(k))}
<1>1. n \in Nat /\ DOMAIN s = 1..n /\ \A k \in 1..n : s[k] \in Seq(Seq(S))
  OBVIOUS
<1>2. r \in Seq(Seq(S)) /\ Len(r) = n /\ \A k \in 1..n : r[k] = Joined(s[k])
  <2>1. \A k \in 1..n : Joined(s[k]) \in Seq(S)
    BY <1>1, JoinedSeq
  <2> QED
    BY <1>1, <2>1
<1> HIDE DEF r
<1>3. A(n) = s /\ A(0) = <<>> /\ B(n) = r /\ B(0) = <<>>
  BY <1>2, WholeSeq
<1>4. 0 \in P
  <2>1. Joined(Joined(A(0))) = Joined(B(0))
    BY <1>3, JoinedEmpty
  <2> HIDE DEF A, B
  <2> QED
    BY <1>1, <2>1
<1>5. ASSUME NEW k \in 0..n, k < n, k \in P PROVE k + 1 \in P
  <2> DEFINE a == A(k)   b == B(k)   x == s[k + 1]
  <2>1. a \in Seq(Seq(Seq(S))) /\ x \in Seq(Seq(S)) /\ A(k + 1) = Append(a, x)
    BY <1>1, <1>5, OneMore
  <2>2. b \in Seq(Seq(S)) /\ B(k + 1) = Append(b, r[k + 1])
    BY <1>2, <1>5, OneMore
  <2>3. k + 1 \in 1..n /\ k + 1 \in 0..n
    BY <1>1, <1>5
  <2>4. r[k + 1] = Joined(x) /\ r[k + 1] \in Seq(S)
    BY <1>2, <2>1, <2>3, JoinedSeq
  <2>5. Joined(Joined(a)) = Joined(b)
    BY <1>5
  <2> HIDE DEF A, B, a, b, x
  <2>6. Joined(Append(a, x)) = Joined(a) \o x /\ Joined(a) \in Seq(Seq(S))
    BY <2>1, JoinedAppend, JoinedSeq
  <2>7. Joined(Joined(a) \o x) = Joined(Joined(a)) \o Joined(x)
    BY <2>1, <2>6, JoinedConcat
  <2>8. Joined(Append(b, r[k + 1])) = Joined(b) \o r[k + 1]
    BY <2>2, <2>4, JoinedAppend
  <2> QED
    BY <2>1, <2>2, <2>3, <2>4, <2>5, <2>6, <2>7, <2>8
<1>6. n \in P
  <2> HIDE DEF P
  <2>1. \A k \in 0..n : k \in P
    BY <1>1, <1>4, <1>5, UpTo
  <2> QED
    BY <1>1, <2>1
<1> QED
  BY <1>2, <1>3, <1>6 DEF r

\* A chunk within the target, or of one sentence; and what is gathered of a text.
WithinTarget(c) == Size(c) <= Target \/ Len(c) = 1
GatheredText(st) == Joined(st.done) \o st.accum
Gathered ==
  {st \in [done : Seq(Seq(Sentence)), accum : Seq(Sentence)] :
     (\A i \in DOMAIN st.done : WithinTarget(st.done[i])) /\ WithinTarget(st.accum)}

LEMMA NothingGathered == Nothing0 \in Gathered /\ GatheredText(Nothing0) = <<>> /\ WithinTarget(<<>>)
<1>1. Nothing0 \in [done : Seq(Seq(Sentence)), accum : Seq(Sentence)] /\ Nothing0.done = <<>> /\ Nothing0.accum = <<>>
  BY DEF Nothing0
<1>2. Size(<<>>) <= Target
  <2>1. 0 <= Target
    BY ChunkerAssumption
  <2> QED
    BY <2>1, SizeEmpty
<1>3. WithinTarget(<<>>)
  BY <1>2 DEF WithinTarget
<1>4. DOMAIN Nothing0.done = {}
  BY <1>1
<1>5. Joined(<<>>) \o <<>> = <<>>
  BY JoinedEmpty
<1> HIDE DEF Nothing0
<1>6. Nothing0 \in Gathered
  BY <1>1, <1>3, <1>4 DEF Gathered
<1>7. GatheredText(Nothing0) = <<>>
  BY <1>1, <1>5 DEF GatheredText
<1> QED
  BY <1>3, <1>6, <1>7

\* Three texts in a row.
LEMMA ThreeTexts ==
  ASSUME NEW S, NEW a \in Seq(S), NEW b \in Seq(S), NEW c \in Seq(S)
  PROVE  (a \o b) \o c = a \o (b \o c) /\ a \o b \in Seq(S) /\ a \o <<>> = a /\ <<>> \o a = a
  OBVIOUS

\* One chunk more keeps all of them within the target.
LEMMA OneMoreWithin ==
  ASSUME NEW s \in Seq(Seq(Sentence)), \A i \in DOMAIN s : WithinTarget(s[i]), NEW c \in Seq(Sentence), WithinTarget(c)
  PROVE  Append(s, c) \in Seq(Seq(Sentence)) /\ \A i \in DOMAIN Append(s, c) : WithinTarget(Append(s, c)[i])
<1> DEFINE T == Seq(Sentence)   n == Len(s)   longer == Append(s, c)
<1>1. s \in Seq(T) /\ c \in T
  OBVIOUS
<1> HIDE DEF T
<1>2. /\ longer \in Seq(T) /\ n \in Nat /\ DOMAIN s = 1..n /\ DOMAIN longer = 1..(n + 1) /\ longer[n + 1] = c
      /\ \A i \in 1..n : longer[i] = s[i]
  BY <1>1
<1> HIDE DEF longer, n
<1>3. ASSUME NEW i \in DOMAIN longer PROVE WithinTarget(longer[i])
  <2>1. CASE i = n + 1
    BY <1>2, <2>1
  <2>2. CASE i # n + 1
    <3>1. i \in 1..n
      BY <1>2, <2>2
    <3> QED
      BY <1>2, <3>1
  <2> QED
    BY <2>1, <2>2
<1> QED
  BY <1>2, <1>3 DEF longer, T

LEMMA BothWithin ==
  ASSUME NEW a \in Seq(Seq(Sentence)), NEW b \in Seq(Seq(Sentence)),
         \A i \in DOMAIN a : WithinTarget(a[i]), \A i \in DOMAIN b : WithinTarget(b[i])
  PROVE  a \o b \in Seq(Seq(Sentence)) /\ \A i \in DOMAIN (a \o b) : WithinTarget((a \o b)[i])
<1> DEFINE m == Len(a)   n == Len(b)   c == a \o b
<1>1. /\ c \in Seq(Seq(Sentence)) /\ m \in Nat /\ n \in Nat /\ DOMAIN a = 1..m /\ DOMAIN b = 1..n /\ DOMAIN c = 1..(m + n)
      /\ \A i \in 1..m : c[i] = a[i]
      /\ \A i \in 1..n : c[m + i] = b[i]
  BY ConcatProperties
<1> HIDE DEF m, n, c
<1>2. ASSUME NEW i \in 1..(m + n) PROVE WithinTarget(c[i])
  <2>1. CASE i \in 1..m
    BY <1>1, <2>1
  <2>2. CASE i \notin 1..m
    <3>1. i - m \in 1..n /\ m + (i - m) = i
      BY <1>1, <2>2
    <3> QED
      BY <1>1, <3>1
  <2> QED
    BY <2>1, <2>2
<1> QED
  BY <1>1, <1>2 DEF c

LEMMA GatheredSeq == ASSUME NEW st \in Gathered PROVE GatheredText(st) \in Seq(Sentence)
<1> DEFINE text == Joined(st.done)   accum == st.accum
<1>1. st.done \in Seq(Seq(Sentence)) /\ accum \in Seq(Sentence)
  BY DEF Gathered
<1>2. text \in Seq(Sentence)
  BY <1>1, JoinedSeq
<1> HIDE DEF text, accum
<1>3. text \o accum \in Seq(Sentence)
  BY <1>1, <1>2
<1> QED
  BY <1>3 DEF GatheredText, text, accum

LEMMA GatherIs ==
  ASSUME NEW st \in Gathered, NEW piece \in Seq(Sentence), WithinTarget(piece)
  PROVE  Gather(st, piece) \in Gathered /\ GatheredText(Gather(st, piece)) = GatheredText(st) \o piece
<1> DEFINE done == st.done   accum == st.accum   new == Gather(st, piece)   text == Joined(done)
<1>1. done \in Seq(Seq(Sentence)) /\ accum \in Seq(Sentence) /\ (\A i \in DOMAIN done : WithinTarget(done[i])) /\ WithinTarget(accum)
  BY DEF Gathered
<1>2. text \in Seq(Sentence)
  BY <1>1, JoinedSeq
<1>3. GatheredText(st) = text \o accum
  BY DEF GatheredText
<1>4. Size(accum \o piece) = Size(accum) + Size(piece)
  BY <1>1, SizeConcat
<1>5. CASE accum # <<>> /\ Size(accum) + Size(piece) > Target
  <2>1. new = [done |-> Append(done, accum), accum |-> piece]
    BY <1>5 DEF Gather
  <2>2. new.done = Append(done, accum) /\ new.accum = piece
    BY <2>1
  <2>3. Append(done, accum) \in Seq(Seq(Sentence)) /\ \A i \in DOMAIN Append(done, accum) : WithinTarget(Append(done, accum)[i])
    BY <1>1, OneMoreWithin
  <2>4. Joined(Append(done, accum)) = text \o accum
    BY <1>1, JoinedAppend
  <2> HIDE DEF done, accum, text
  <2>5. new \in Gathered
    <3> DEFINE more == Append(done, accum)
    <3>1. more \in Seq(Seq(Sentence)) /\ \A i \in DOMAIN more : WithinTarget(more[i])
      BY <2>3
    <3>2. new = [done |-> more, accum |-> piece]
      BY <2>1
    <3> HIDE DEF more, new
    <3>3. new \in [done : Seq(Seq(Sentence)), accum : Seq(Sentence)] /\ new.done = more /\ new.accum = piece
      BY <3>1, <3>2
    <3>4. new \in Gathered
      BY <3>1, <3>3 DEF Gathered
    <3> QED
      BY <3>4 DEF new
  <2>6. GatheredText(new) = (text \o accum) \o piece
    BY <2>2, <2>4 DEF GatheredText
  <2> QED
    BY <1>3, <2>5, <2>6
<1>6. CASE ~ (accum # <<>> /\ Size(accum) + Size(piece) > Target)
  <2>1. new = [done |-> done, accum |-> accum \o piece]
    BY <1>6 DEF Gather
  <2>2. WithinTarget(accum \o piece)
    <3>1. CASE accum = <<>>
      BY <3>1, ThreeTexts
    <3>2. CASE accum # <<>>
      <4>1. Size(accum) + Size(piece) <= Target
        <5>1. Size(accum) \in Nat /\ Size(piece) \in Nat /\ Target \in Nat
          BY <1>1, SizeConcat, ChunkerAssumption
        <5> QED
          BY <1>6, <3>2, <5>1
      <4> QED
        BY <1>4, <4>1 DEF WithinTarget
    <3> QED
      BY <3>1, <3>2
  <2> DEFINE both == accum \o piece
  <2>3. both \in Seq(Sentence) /\ (text \o accum) \o piece = text \o both
    <3> HIDE DEF done, accum, text
    <3> QED
      BY <1>1, <1>2, ThreeTexts
  <2> HIDE DEF both, new, done, accum, text
  <2>4. new \in [done : Seq(Seq(Sentence)), accum : Seq(Sentence)] /\ new.done = done /\ new.accum = both
    BY <1>1, <2>1, <2>3 DEF both
  <2>5. WithinTarget(both)
    BY <2>2 DEF both
  <2>6. new \in Gathered
    BY <1>1, <2>4, <2>5 DEF Gathered
  <2>7. GatheredText(new) = text \o both
    BY <2>4 DEF GatheredText, text
  <2> QED
    BY <1>3, <2>3, <2>6, <2>7 DEF new
<1> QED
  BY <1>5, <1>6

\* What was gathered, in chunks.
LEMMA FlushedIs ==
  ASSUME NEW st \in Gathered
  PROVE  /\ Flushed(st) \in Seq(Seq(Sentence)) /\ Joined(Flushed(st)) = GatheredText(st)
         /\ \A i \in DOMAIN Flushed(st) : WithinTarget(Flushed(st)[i])
<1> DEFINE done == st.done   accum == st.accum
<1>1. done \in Seq(Seq(Sentence)) /\ accum \in Seq(Sentence) /\ (\A i \in DOMAIN done : WithinTarget(done[i])) /\ WithinTarget(accum)
  BY DEF Gathered
<1>2. Flushed(st) = done \o NonEmpty(accum) /\ GatheredText(st) = Joined(done) \o accum
  BY DEF Flushed, GatheredText
<1> HIDE DEF done, accum
<1>3. CASE accum = <<>>
  <2>1. Flushed(st) = done /\ GatheredText(st) = Joined(done)
    <3>1. done \o <<>> = done /\ Joined(done) \o <<>> = Joined(done)
      BY <1>1, JoinedSeq, ThreeTexts
    <3> QED
      BY <1>2, <1>3, <3>1 DEF NonEmpty
  <2> QED
    BY <1>1, <2>1
<1>4. CASE accum # <<>>
  <2>1. Flushed(st) = Append(done, accum)
    <3> DEFINE T == Seq(Sentence)
    <3>1. done \in Seq(T) /\ accum \in T
      BY <1>1
    <3> HIDE DEF T
    <3>2. done \o <<accum>> = Append(done, accum)
      BY <3>1
    <3> QED
      BY <1>2, <1>4, <3>2 DEF NonEmpty
  <2> QED
    BY <1>1, <1>2, <2>1, OneMoreWithin, JoinedAppend
<1> QED
  BY <1>3, <1>4

\* A piece of the sentences of a text, one sentence after the other.
LEMMA SentenceIs ==
  ASSUME NEW st \in Gathered, NEW x \in Sentence
  PROVE  Gather(st, <<x>>) \in Gathered /\ GatheredText(Gather(st, <<x>>)) = Append(GatheredText(st), x)
<1>1. <<x>> \in Seq(Sentence) /\ Len(<<x>>) = 1
  BY SizeOne
<1>2. WithinTarget(<<x>>)
  BY <1>1 DEF WithinTarget
<1>3. Gather(st, <<x>>) \in Gathered /\ GatheredText(Gather(st, <<x>>)) = GatheredText(st) \o <<x>>
  BY <1>1, <1>2, GatherIs
<1>4. GatheredText(st) \in Seq(Sentence)
  BY GatheredSeq
<1>5. GatheredText(st) \o <<x>> = Append(GatheredText(st), x)
  BY <1>4
<1> QED
  BY <1>3, <1>5

\* A paragraph cut by its sentences: all of them, in order.
LEMMA BySentencesIs ==
  ASSUME NEW p \in Seq(Sentence)
  PROVE  /\ BySentences(p) \in Seq(Seq(Sentence)) /\ Joined(BySentences(p)) = p
         /\ \A i \in DOMAIN BySentences(p) : WithinTarget(BySentences(p)[i])
<1> DEFINE n == Len(p)
           T == Gathered
           F == [q \in T \X (1..n) |-> Gather(q[1], <<p[q[2]]>>)]
           Right(f) == f = [i \in 0..n |-> IF i = 0 THEN Nothing0 ELSE Gather(f[i - 1], <<p[i]>>)]
           to == CHOOSE f : Right(f)
<1>1. n \in Nat /\ \A k \in 1..n : p[k] \in Sentence
  OBVIOUS
<1> HIDE DEF n
<1>2. Nothing0 \in T
  BY NothingGathered
<1>3. \A x \in T, k \in 1..n : F[<<x, k>>] = Gather(x, <<p[k]>>) /\ Gather(x, <<p[k]>>) \in T
                               /\ GatheredText(Gather(x, <<p[k]>>)) = Append(GatheredText(x), p[k])
  <2> TAKE x \in T, k \in 1..n
  <2>1. p[k] \in Sentence
    BY <1>1
  <2>2. Gather(x, <<p[k]>>) \in Gathered /\ GatheredText(Gather(x, <<p[k]>>)) = Append(GatheredText(x), p[k])
    BY <2>1, SentenceIs
  <2>3. F[<<x, k>>] = Gather(x, <<p[k]>>)
    OBVIOUS
  <2> QED
    BY <2>2, <2>3
<1> HIDE DEF T, F
<1>4. PICK g : Iterates(g, Nothing0, F, n) /\ \A k \in 0..n : g[k] \in T
  <2>1. \A x \in T, k \in 1..n : F[<<x, k>>] \in T
    BY <1>3
  <2> QED
    BY <1>1, <1>2, <2>1, Iteration
<1>5. Right(g)
  <2>1. \A k \in 0..n : (IF k = 0 THEN Nothing0 ELSE F[<<g[k - 1], k>>]) = IF k = 0 THEN Nothing0 ELSE Gather(g[k - 1], <<p[k]>>)
    <3> TAKE k \in 0..n
    <3>1. CASE k # 0
      <4>1. k - 1 \in 0..n /\ k \in 1..n
        BY <1>1, <3>1
      <4> QED
        BY <1>3, <1>4, <3>1, <4>1
    <3> QED
      BY <3>1
  <2> QED
    BY <1>4, <2>1 DEF Iterates
<1>6. Right(to)
  <2> HIDE DEF Right
  <2> QED
    BY <1>5
<1>7. BySentences(p) = Flushed(to[n])
  BY DEF BySentences, n
<1> HIDE DEF to
<1>8. \A k \in 0..n : to[k] = IF k = 0 THEN Nothing0 ELSE Gather(to[k - 1], <<p[k]>>)
  BY <1>6
<1>9. to[n] \in Gathered /\ GatheredText(to[n]) = p
  <2> DEFINE P == {k \in 0..n : to[k] \in T /\ GatheredText(to[k]) = SubSeq(p, 1, k)}
  <2>1. 0 \in P
    <3>0. 0 \in 0..n
      BY <1>1
    <3>1. to[0] = Nothing0 /\ 0 \in 0..n
      BY <1>8, <3>0
    <3>2. SubSeq(p, 1, 0) = <<>>
      BY WholeSeq
    <3> QED
      BY <1>2, <3>1, <3>2, NothingGathered
  <2>2. ASSUME NEW k \in 0..n, k < n, k \in P PROVE k + 1 \in P
    <3>1. k + 1 \in 0..n /\ k + 1 \in 1..n /\ k + 1 # 0 /\ (k + 1) - 1 = k
      BY <1>1, <2>2
    <3>2. to[k + 1] = Gather(to[k], <<p[k + 1]>>)
      BY <1>8, <3>1
    <3>3. to[k + 1] \in T /\ GatheredText(to[k + 1]) = Append(GatheredText(to[k]), p[k + 1])
      BY <1>3, <2>2, <3>1, <3>2
    <3>4. SubSeq(p, 1, k + 1) = Append(SubSeq(p, 1, k), p[k + 1])
      BY <2>2, OneMore DEF n
    <3> QED
      BY <2>2, <3>1, <3>3, <3>4
  <2>3. \A k \in 0..n : k \in P
    <3> HIDE DEF P
    <3> QED
      BY <1>1, <2>1, <2>2, UpTo
  <2>4. n \in 0..n /\ SubSeq(p, 1, n) = p
    BY <1>1, WholeSeq DEF n
  <2> QED
    BY <2>3, <2>4 DEF T
<1> QED
  BY <1>7, <1>9, FlushedIs

\* A paragraph more.
LEMMA ParagraphIs ==
  ASSUME NEW st \in Gathered, NEW p \in Seq(Sentence)
  PROVE  Paragraph(st, p) \in Gathered /\ GatheredText(Paragraph(st, p)) = GatheredText(st) \o p
<1> DEFINE new == Paragraph(st, p)   a == Flushed(st)   b == BySentences(p)
<1>1. CASE Size(p) > Target
  <2>1. a \in Seq(Seq(Sentence)) /\ Joined(a) = GatheredText(st) /\ \A i \in DOMAIN a : WithinTarget(a[i])
    BY FlushedIs
  <2>2. b \in Seq(Seq(Sentence)) /\ Joined(b) = p /\ \A i \in DOMAIN b : WithinTarget(b[i])
    BY BySentencesIs
  <2> DEFINE all == a \o b
  <2>3. new = [done |-> all, accum |-> <<>>]
    BY <1>1 DEF Paragraph
  <2> HIDE DEF a, b, new
  <2>4. all \in Seq(Seq(Sentence)) /\ (\A i \in DOMAIN all : WithinTarget(all[i])) /\ Joined(all) = GatheredText(st) \o p
    BY <2>1, <2>2, BothWithin, JoinedConcat
  <2> HIDE DEF all
  <2>5. new \in [done : Seq(Seq(Sentence)), accum : Seq(Sentence)] /\ new.done = all /\ new.accum = <<>>
    BY <2>3, <2>4
  <2>6. new \in Gathered
    BY <2>4, <2>5, NothingGathered DEF Gathered
  <2>7. GatheredText(new) = GatheredText(st) \o p
    <3>1. Joined(all) \in Seq(Sentence)
      BY <2>4, JoinedSeq
    <3>2. Joined(all) \o <<>> = Joined(all)
      BY <3>1, ThreeTexts
    <3>3. GatheredText(new) = Joined(all) \o <<>>
      BY <2>5 DEF GatheredText
    <3> QED
      BY <2>4, <3>2, <3>3
  <2> QED
    BY <2>6, <2>7 DEF new
<1>2. CASE ~ (Size(p) > Target)
  <2>1. Paragraph(st, p) = Gather(st, p)
    BY <1>2 DEF Paragraph
  <2>2. WithinTarget(p)
    <3>1. Size(p) \in Nat /\ Target \in Nat
      BY SizeConcat, ChunkerAssumption
    <3> QED
      BY <1>2, <3>1 DEF WithinTarget
  <2> QED
    BY <2>1, <2>2, GatherIs
<1> QED
  BY <1>1, <1>2

\* A section cut into chunks: all of its sentences, in order.
LEMMA OfSectionIs ==
  ASSUME NEW s \in Seq(Seq(Sentence))
  PROVE  /\ OfSection(s) \in Seq(Seq(Sentence)) /\ Joined(OfSection(s)) = Joined(s)
         /\ \A i \in DOMAIN OfSection(s) : WithinTarget(OfSection(s)[i])
<1> DEFINE n == Len(s)
           T == Gathered
           F == [q \in T \X (1..n) |-> Paragraph(q[1], s[q[2]])]
           Right(f) == f = [i \in 0..n |-> IF i = 0 THEN Nothing0 ELSE Paragraph(f[i - 1], s[i])]
           to == CHOOSE f : Right(f)
<1>1. n \in Nat /\ \A k \in 1..n : s[k] \in Seq(Sentence)
  <2> DEFINE S == Seq(Sentence)
  <2>1. s \in Seq(S)
    OBVIOUS
  <2> HIDE DEF S
  <2>2. Len(s) \in Nat /\ \A k \in 1..Len(s) : s[k] \in S
    BY <2>1
  <2> QED
    BY <2>2 DEF S
<1> HIDE DEF n
<1>2. Nothing0 \in T
  BY NothingGathered
<1>3. \A x \in T, k \in 1..n : F[<<x, k>>] = Paragraph(x, s[k]) /\ Paragraph(x, s[k]) \in T
                               /\ GatheredText(Paragraph(x, s[k])) = GatheredText(x) \o s[k]
  <2> TAKE x \in T, k \in 1..n
  <2>1. s[k] \in Seq(Sentence)
    BY <1>1
  <2>2. Paragraph(x, s[k]) \in Gathered /\ GatheredText(Paragraph(x, s[k])) = GatheredText(x) \o s[k]
    BY <2>1, ParagraphIs
  <2>3. F[<<x, k>>] = Paragraph(x, s[k])
    OBVIOUS
  <2> QED
    BY <2>2, <2>3
<1> HIDE DEF T, F
<1>4. PICK g : Iterates(g, Nothing0, F, n) /\ \A k \in 0..n : g[k] \in T
  <2>1. \A x \in T, k \in 1..n : F[<<x, k>>] \in T
    BY <1>3
  <2> QED
    BY <1>1, <1>2, <2>1, Iteration
<1>5. Right(g)
  <2>1. \A k \in 0..n : (IF k = 0 THEN Nothing0 ELSE F[<<g[k - 1], k>>]) = IF k = 0 THEN Nothing0 ELSE Paragraph(g[k - 1], s[k])
    <3> TAKE k \in 0..n
    <3>1. CASE k # 0
      <4>1. k - 1 \in 0..n /\ k \in 1..n
        BY <1>1, <3>1
      <4> QED
        BY <1>3, <1>4, <3>1, <4>1
    <3> QED
      BY <3>1
  <2> QED
    BY <1>4, <2>1 DEF Iterates
<1>6. Right(to)
  <2> HIDE DEF Right
  <2> QED
    BY <1>5
<1>7. OfSection(s) = Flushed(to[n])
  BY DEF OfSection, n
<1> HIDE DEF to
<1>8. \A k \in 0..n : to[k] = IF k = 0 THEN Nothing0 ELSE Paragraph(to[k - 1], s[k])
  BY <1>6
<1>9. to[n] \in Gathered /\ GatheredText(to[n]) = Joined(s)
  <2> DEFINE P == {k \in 0..n : to[k] \in T /\ GatheredText(to[k]) = Joined(SubSeq(s, 1, k))}
  <2>1. 0 \in P
    <3>0. 0 \in 0..n
      BY <1>1
    <3>1. to[0] = Nothing0 /\ 0 \in 0..n
      BY <1>8, <3>0
    <3>2. SubSeq(s, 1, 0) = <<>>
      BY WholeSeq
    <3>3. GatheredText(to[0]) = Joined(SubSeq(s, 1, 0))
      BY <3>1, <3>2, NothingGathered, JoinedEmpty
    <3> QED
      BY <1>2, <3>1, <3>3
  <2>2. ASSUME NEW k \in 0..n, k < n, k \in P PROVE k + 1 \in P
    <3>1. k + 1 \in 0..n /\ k + 1 \in 1..n /\ k + 1 # 0 /\ (k + 1) - 1 = k
      BY <1>1, <2>2
    <3>2. to[k + 1] = Paragraph(to[k], s[k + 1])
      BY <1>8, <3>1
    <3>3. to[k + 1] \in T /\ GatheredText(to[k + 1]) = GatheredText(to[k]) \o s[k + 1]
      BY <1>3, <2>2, <3>1, <3>2
    <3>4. SubSeq(s, 1, k) \in Seq(Seq(Sentence)) /\ s[k + 1] \in Seq(Sentence)
          /\ SubSeq(s, 1, k + 1) = Append(SubSeq(s, 1, k), s[k + 1])
      BY <2>2, OneMore DEF n
    <3>5. Joined(SubSeq(s, 1, k + 1)) = Joined(SubSeq(s, 1, k)) \o s[k + 1]
      BY <3>4, JoinedAppend
    <3> QED
      BY <2>2, <3>1, <3>3, <3>5
  <2>3. \A k \in 0..n : k \in P
    <3> HIDE DEF P
    <3> QED
      BY <1>1, <2>1, <2>2, UpTo
  <2>4. n \in 0..n /\ SubSeq(s, 1, n) = s
    BY <1>1, WholeSeq DEF n
  <2> QED
    BY <2>3, <2>4 DEF T
<1> QED
  BY <1>7, <1>9, FlushedIs

\* The chunks of a document before overlap and joining: its sentences in order, each chunk
\* within the target and of one section.
LEMMA RawIs ==
  ASSUME NEW doc \in Seq(Seq(Seq(Sentence)))
  PROVE  /\ Raw(doc) \in Seq(Seq(Sentence))
         /\ Joined(Raw(doc)) = Joined([k \in DOMAIN doc |-> Joined(doc[k])])
         /\ \A i \in DOMAIN Raw(doc) :
              WithinTarget(Raw(doc)[i]) /\ \E k \in DOMAIN doc : ToSet(Raw(doc)[i]) \subseteq ToSet(Joined(doc[k]))
<1> DEFINE T == Seq(Sentence)
           n == Len(doc)
           cut == [k \in DOMAIN doc |-> OfSection(doc[k])]
           rows == [k \in DOMAIN doc |-> Joined(doc[k])]
           raw == Raw(doc)
<1>1. n \in Nat /\ DOMAIN doc = 1..n /\ \A k \in 1..n : doc[k] \in Seq(T)
  <2> DEFINE S == Seq(T)
  <2>1. doc \in Seq(S)
    OBVIOUS
  <2> HIDE DEF S
  <2>2. Len(doc) \in Nat /\ DOMAIN doc = 1..Len(doc) /\ \A k \in 1..Len(doc) : doc[k] \in S
    BY <2>1
  <2> QED
    BY <2>2 DEF S
<1>2. \A k \in 1..n : /\ OfSection(doc[k]) \in Seq(T) /\ Joined(OfSection(doc[k])) = Joined(doc[k])
                      /\ \A i \in DOMAIN OfSection(doc[k]) : WithinTarget(OfSection(doc[k])[i])
  BY <1>1, OfSectionIs
<1>3. cut \in Seq(Seq(T)) /\ DOMAIN cut = 1..n /\ \A k \in 1..n : cut[k] = OfSection(doc[k])
  <2> DEFINE S == Seq(T)
  <2>1. \A k \in 1..n : OfSection(doc[k]) \in S
    BY <1>2
  <2> HIDE DEF S, n
  <2>2. cut = [k \in 1..n |-> OfSection(doc[k])]
    BY <1>1
  <2>3. cut \in Seq(S)
    BY <1>1, <2>1, <2>2
  <2> QED
    BY <2>2, <2>3 DEF S
<1>4. raw = Joined(cut)
  BY DEF Raw
<1> HIDE DEF n, cut, raw
<1>5. raw \in Seq(T)
  BY <1>3, <1>4, JoinedSeq
<1>6. Joined(raw) = Joined(rows)
  <2> DEFINE r == [k \in DOMAIN cut |-> Joined(cut[k])]
  <2>1. Joined(Joined(cut)) = Joined(r)
    BY <1>3, JoinedRows
  <2>2. r = rows
    <3>1. \A k \in 1..n : Joined(cut[k]) = Joined(doc[k])
      BY <1>2, <1>3
    <3>2. r = [k \in 1..n |-> Joined(cut[k])] /\ rows = [k \in 1..n |-> Joined(doc[k])]
      BY <1>1, <1>3
    <3> QED
      BY <3>1, <3>2
  <2> QED
    BY <1>4, <2>1, <2>2
<1>7. ASSUME NEW i \in DOMAIN raw
      PROVE  WithinTarget(raw[i]) /\ \E k \in DOMAIN doc : ToSet(raw[i]) \subseteq ToSet(Joined(doc[k]))
  <2>1. raw[i] \in ToSet(raw)
    BY <1>7 DEF ToSet
  <2>2. PICK k \in DOMAIN cut : raw[i] \in ToSet(cut[k])
    <3> HIDE DEF T
    <3> QED
      BY <1>3, <1>4, <2>1, JoinedHolds
  <2>3. k \in 1..n /\ cut[k] = OfSection(doc[k]) /\ cut[k] \in Seq(T) /\ Joined(cut[k]) = Joined(doc[k])
    BY <1>2, <1>3, <2>2
  <2>4. PICK j \in DOMAIN cut[k] : raw[i] = cut[k][j]
    BY <2>2 DEF ToSet
  <2>5. WithinTarget(raw[i])
    BY <1>2, <2>3, <2>4
  <2>6. ASSUME NEW x \in ToSet(raw[i]) PROVE x \in ToSet(Joined(doc[k]))
    <3>1. \E l \in DOMAIN cut[k] : x \in ToSet(cut[k][l])
      BY <2>4, <2>6
    <3>2. x \in ToSet(Joined(cut[k]))
      BY <2>3, <3>1, JoinedHolds
    <3> QED
      BY <2>3, <3>2
  <2>7. k \in DOMAIN doc
    BY <1>1, <2>3
  <2> QED
    BY <2>5, <2>6, <2>7
<1> QED
  BY <1>5, <1>6, <1>7 DEF raw

\* What a chunk is after the overlap, the texts of some, and those above the minimum.
Chunk == [text : Seq(Sentence), size : Nat]
ChunkTexts(all) == [i \in DOMAIN all |-> all[i].text]
Large(all) == \A i \in DOMAIN all : i > 1 => all[i].size >= MinTokens

LEMMA OverlappedIs ==
  ASSUME NEW raw \in Seq(Seq(Sentence))
  PROVE  Overlapped(raw) \in Seq(Chunk) /\ ChunkTexts(Overlapped(raw)) = raw
<1> DEFINE n == Len(raw)
           T == Seq(Sentence)
           entry(i) == [text |-> raw[i], size |-> Size(raw[i]) + IF i = 1 THEN 0 ELSE Least(Overlap, Size(raw[i - 1]))]
           all == Overlapped(raw)
<1>1. n \in Nat /\ DOMAIN raw = 1..n /\ \A i \in 1..n : raw[i] \in T
  <2>1. raw \in Seq(T)
    OBVIOUS
  <2> HIDE DEF T
  <2> QED
    BY <2>1
<1> HIDE DEF n
<1>2. ASSUME NEW i \in 1..n PROVE entry(i) \in Chunk /\ entry(i).text = raw[i]
  <2> DEFINE more == IF i = 1 THEN 0 ELSE Least(Overlap, Size(raw[i - 1]))   size == Size(raw[i]) + more
  <2>1. Size(raw[i]) \in Nat
    BY <1>1, <1>2, SizeConcat
  <2>2. more \in Nat
    <3>1. CASE i # 1
      <4>1. i - 1 \in 1..n
        BY <1>1, <1>2, <3>1
      <4>2. Size(raw[i - 1]) \in Nat
        BY <1>1, <4>1, SizeConcat
      <4> QED
        BY <3>1, <4>2, ChunkerAssumption DEF Least
    <3> QED
      BY <3>1
  <2>3. size \in Nat
    <3> HIDE DEF more
    <3> QED
      BY <2>1, <2>2
  <2>4. entry(i) = [text |-> raw[i], size |-> size]
    OBVIOUS
  <2> HIDE DEF size, entry
  <2> QED
    BY <1>1, <2>3, <2>4 DEF Chunk
<1>3. all = [i \in 1..n |-> entry(i)]
  BY <1>1 DEF Overlapped
<1> HIDE DEF all, entry
<1>4. all \in Seq(Chunk)
  BY <1>1, <1>2, <1>3
<1>5. DOMAIN all = 1..n /\ \A i \in 1..n : all[i].text = raw[i]
  BY <1>2, <1>3
<1>6. ChunkTexts(all) = [i \in 1..n |-> raw[i]]
  BY <1>5 DEF ChunkTexts
<1>7. raw = [i \in 1..n |-> raw[i]]
  BY <1>1
<1> QED
  BY <1>4, <1>6, <1>7 DEF all

LEMMA TextsSeq ==
  ASSUME NEW all \in Seq(Chunk)
  PROVE  ChunkTexts(all) \in Seq(Seq(Sentence)) /\ Len(ChunkTexts(all)) = Len(all) /\ \A i \in 1..Len(all) : ChunkTexts(all)[i] = all[i].text
<1> DEFINE n == Len(all)   T == Seq(Sentence)   t == ChunkTexts(all)
<1>1. n \in Nat /\ DOMAIN all = 1..n /\ \A i \in 1..n : all[i] \in Chunk
  OBVIOUS
<1>2. \A i \in 1..n : all[i].text \in T
  BY <1>1 DEF Chunk
<1>3. t = [i \in 1..n |-> all[i].text]
  BY <1>1 DEF ChunkTexts
<1> HIDE DEF n, T, t
<1>4. t \in Seq(T)
  BY <1>1, <1>2, <1>3
<1>5. DOMAIN t = 1..n /\ \A i \in 1..n : t[i] = all[i].text
  BY <1>3
<1>6. Len(t) = n
  BY <1>1, <1>4, <1>5
<1> QED
  BY <1>4, <1>5, <1>6 DEF n, T, t

\* A chunk more, or its text added to the chunk before it.
LEMMA WithChunkIs ==
  ASSUME NEW all \in Seq(Chunk), Large(all), NEW c \in Chunk
  PROVE  /\ WithChunk(all, c) \in Seq(Chunk) /\ Large(WithChunk(all, c))
         /\ Joined(ChunkTexts(WithChunk(all, c))) = Joined(ChunkTexts(all)) \o c.text
<1> DEFINE n == Len(all)   new == WithChunk(all, c)   t == ChunkTexts(all)   u == ChunkTexts(new)   T == Seq(Sentence)
<1>1. n \in Nat /\ DOMAIN all = 1..n /\ \A i \in 1..n : all[i] \in Chunk
  OBVIOUS
<1>2. t \in Seq(T) /\ Len(t) = n /\ \A i \in 1..n : t[i] = all[i].text
  BY TextsSeq
<1>3. c.text \in T /\ c.size \in Nat
  BY DEF Chunk
<1>4. \A i \in 1..n : all[i].text \in T /\ all[i].size \in Nat /\ (i > 1 => all[i].size >= MinTokens)
  BY <1>1 DEF Chunk, Large
<1> HIDE DEF n, t
<1>5. CASE all # <<>> /\ c.size < MinTokens
  <2> DEFINE e == [text |-> all[n].text \o c.text, size |-> all[n].size + c.size]
  <2>1. n >= 1 /\ n \in 1..n
    BY <1>1, <1>5 DEF n
  <2>2. new = [all EXCEPT ![n] = e]
    BY <1>1, <1>5, <2>1 DEF WithChunk, n
  <2>3. e.text = all[n].text \o c.text /\ e.size = all[n].size + c.size /\ e \in Chunk
    <3>1. all[n].text \in T /\ all[n].size \in Nat
      BY <1>4, <2>1
    <3> DEFINE text == all[n].text \o c.text   size == all[n].size + c.size
    <3>2. text \in Seq(Sentence) /\ size \in Nat
      BY <1>3, <3>1
    <3>3. e = [text |-> text, size |-> size]
      OBVIOUS
    <3> HIDE DEF text, size, e
    <3>4. e.text = text /\ e.size = size /\ e \in Chunk
      BY <3>2, <3>3 DEF Chunk
    <3> QED
      BY <3>4 DEF text, size
  <2> HIDE DEF e, new, u
  <2>4. new \in Seq(Chunk) /\ Len(new) = n /\ new[n] = e /\ \A i \in 1..n : i # n => new[i] = all[i]
    <3>1. n \in 1..Len(all)
      BY <2>1 DEF n
    <3>2. /\ new \in Seq(Chunk) /\ Len(new) = Len(all)
          /\ \A i \in 1..Len(all) : new[i] = IF i = n THEN e ELSE all[i]
      BY <2>2, <2>3, <3>1, ExceptSeq
    <3> QED
      BY <2>1, <3>2 DEF n
  <2>5. Large(new)
    <3>1. DOMAIN new = 1..n
      BY <2>4
    <3>2. ASSUME NEW i \in 1..n, i > 1 PROVE new[i].size >= MinTokens
      <4>1. CASE i = n
        <5>1. all[n].size \in Nat /\ all[n].size >= MinTokens /\ MinTokens \in Nat
          BY <1>4, <2>1, <3>2, <4>1, ChunkerAssumption
        <5>2. e.size >= MinTokens
          BY <1>3, <2>3, <5>1
        <5> QED
          BY <2>4, <4>1, <5>2
      <4>2. CASE i # n
        BY <1>4, <2>4, <3>2, <4>2
      <4> QED
        BY <4>1, <4>2
    <3> QED
      BY <3>1, <3>2 DEF Large
  <2>6. u \in Seq(T) /\ Len(u) = n /\ \A i \in 1..n : u[i] = new[i].text
    BY <2>4, TextsSeq DEF u
  <2> DEFINE front == SubSeq(t, 1, n - 1)   last == t[n]
  <2>7. front \in Seq(T) /\ last \in T /\ t = Append(front, last)
    <3>1. n - 1 \in 0..Len(t) /\ n - 1 < Len(t) /\ (n - 1) + 1 = n
      BY <1>1, <1>2, <2>1
    <3>2. SubSeq(t, 1, n - 1) \in Seq(T) /\ t[n] \in T /\ SubSeq(t, 1, n) = Append(SubSeq(t, 1, n - 1), t[n])
      <4> HIDE DEF T
      <4>1. /\ SubSeq(t, 1, n - 1) \in Seq(T) /\ t[(n - 1) + 1] \in T
            /\ SubSeq(t, 1, (n - 1) + 1) = Append(SubSeq(t, 1, n - 1), t[(n - 1) + 1])
        BY <1>2, <3>1, OneMore
      <4> QED
        BY <3>1, <4>1
    <3>3. SubSeq(t, 1, n) = t
      <4> HIDE DEF T
      <4> QED
        BY <1>2, WholeSeq
    <3> QED
      BY <3>2, <3>3
  <2>8. last = all[n].text
    BY <1>2, <2>1
  <2> DEFINE both == last \o c.text
  <2>9. both \in T /\ e.text = both
    BY <1>3, <2>3, <2>7, <2>8
  <2> HIDE DEF T, front, last, both
  <2>10. u = Append(front, both)
    <3> DEFINE v == Append(front, both)
    <3>1. Len(front) = n - 1 /\ \A i \in 1..(n - 1) : front[i] = t[i]
      <4>1. Len(t) = Len(front) + 1 /\ Len(front) \in Nat /\ \A i \in 1..Len(front) : t[i] = front[i]
        BY <2>7
      <4>2. Len(front) = n - 1
        BY <1>1, <1>2, <4>1
      <4> QED
        BY <4>1, <4>2
    <3>2. v \in Seq(T) /\ Len(v) = n /\ v[n] = both /\ \A i \in 1..(n - 1) : v[i] = t[i]
      <4>1. v \in Seq(T) /\ Len(v) = Len(front) + 1 /\ v[Len(front) + 1] = both /\ \A i \in 1..Len(front) : v[i] = front[i]
        BY <2>7, <2>9
      <4>2. Len(front) + 1 = n
        BY <1>1, <3>1
      <4> HIDE DEF v
      <4> QED
        BY <3>1, <4>1, <4>2
    <3> HIDE DEF v
    <3>3. ASSUME NEW i \in 1..n PROVE u[i] = v[i]
      <4>1. CASE i = n
        BY <2>4, <2>6, <2>9, <3>2, <4>1
      <4>2. CASE i # n
        <5>1. i \in 1..(n - 1)
          BY <1>1, <4>2
        <5> QED
          BY <1>2, <2>4, <2>6, <3>2, <4>2, <5>1
      <4> QED
        BY <4>1, <4>2
    <3>4. u = v
      BY <2>6, <3>2, <3>3, SeqEqual
    <3> QED
      BY <3>4 DEF v
  <2>11. Joined(u) = Joined(front) \o both /\ Joined(t) = Joined(front) \o last /\ Joined(front) \in Seq(Sentence)
    BY <2>7, <2>9, <2>10, JoinedAppend, JoinedSeq DEF T
  <2>12. (Joined(front) \o last) \o c.text = Joined(front) \o both
    <3> DEFINE a == Joined(front)   x == c.text
    <3>1. a \in Seq(Sentence) /\ last \in Seq(Sentence) /\ x \in Seq(Sentence)
      BY <1>3, <2>7, <2>11 DEF T
    <3> HIDE DEF a, x
    <3>2. (a \o last) \o x = a \o (last \o x)
      BY <3>1, ThreeTexts
    <3> QED
      BY <3>2 DEF a, x, both
  <2>13. Joined(u) = Joined(t) \o c.text
    BY <2>11, <2>12
  <2> QED
    BY <2>4, <2>5, <2>13 DEF new, u, t
<1>6. CASE ~ (all # <<>> /\ c.size < MinTokens)
  <2>1. new = Append(all, c)
    BY <1>6 DEF WithChunk
  <2>2. new \in Seq(Chunk) /\ Len(new) = n + 1 /\ new[n + 1] = c /\ \A i \in 1..n : new[i] = all[i]
    BY <2>1 DEF n
  <2> HIDE DEF new, u
  <2>3. Large(new)
    <3>1. DOMAIN new = 1..(n + 1)
      BY <2>2
    <3>2. ASSUME NEW i \in 1..(n + 1), i > 1 PROVE new[i].size >= MinTokens
      <4>1. CASE i = n + 1
        <5>1. all # <<>>
          BY <1>1, <3>2, <4>1 DEF n
        <5>2. ~ (c.size < MinTokens) /\ MinTokens \in Nat
          BY <1>6, <5>1, ChunkerAssumption
        <5>3. c.size >= MinTokens
          BY <1>3, <5>2
        <5> QED
          BY <2>2, <4>1, <5>3
      <4>2. CASE i # n + 1
        <5>1. i \in 1..n
          BY <1>1, <4>2
        <5> QED
          BY <1>4, <2>2, <3>2, <5>1
      <4> QED
        BY <4>1, <4>2
    <3> QED
      BY <3>1, <3>2 DEF Large
  <2>4. u \in Seq(T) /\ Len(u) = n + 1 /\ \A i \in 1..(n + 1) : u[i] = new[i].text
    BY <2>2, TextsSeq DEF u
  <2>5. u = Append(t, c.text)
    <3> DEFINE v == Append(t, c.text)   x == c.text
    <3> HIDE DEF T, x
    <3>1. v \in Seq(T) /\ Len(v) = n + 1 /\ v[n + 1] = x /\ \A i \in 1..n : v[i] = t[i]
      BY <1>1, <1>2, <1>3 DEF x
    <3> HIDE DEF v
    <3>2. ASSUME NEW i \in 1..(n + 1) PROVE u[i] = v[i]
      <4>1. CASE i = n + 1
        BY <2>2, <2>4, <3>1, <4>1 DEF x
      <4>2. CASE i # n + 1
        <5>1. i \in 1..n
          BY <1>1, <4>2
        <5> QED
          BY <1>2, <2>2, <2>4, <3>1, <5>1
      <4> QED
        BY <4>1, <4>2
    <3>3. u = v
      BY <2>4, <3>1, <3>2, SeqEqual
    <3> QED
      BY <3>3 DEF v
  <2>6. Joined(u) = Joined(t) \o c.text
    BY <1>2, <1>3, <2>5, JoinedAppend
  <2> QED
    BY <2>2, <2>3, <2>6 DEF new, u, t
<1> QED
  BY <1>5, <1>6

\* Chunks joined where they are small: the same text, and only the first is small.
LEMMA MergedIs ==
  ASSUME NEW cs \in Seq(Chunk)
  PROVE  MergedTiny(cs) \in Seq(Chunk) /\ Large(MergedTiny(cs)) /\ Joined(ChunkTexts(MergedTiny(cs))) = Joined(ChunkTexts(cs))
<1> DEFINE n == Len(cs)
           t == ChunkTexts(cs)
           T == {all \in Seq(Chunk) : Large(all)}
           F == [q \in T \X (1..n) |-> WithChunk(q[1], cs[q[2]])]
           Right(f) == f = [i \in 0..n |-> IF i = 0 THEN <<>> ELSE WithChunk(f[i - 1], cs[i])]
           to == CHOOSE f : Right(f)
<1>1. n \in Nat /\ \A k \in 1..n : cs[k] \in Chunk
  OBVIOUS
<1>2. t \in Seq(Seq(Sentence)) /\ Len(t) = n /\ \A i \in 1..n : t[i] = cs[i].text
  BY TextsSeq
<1> HIDE DEF n, t
<1>3. <<>> \in T /\ Joined(ChunkTexts(<<>>)) = <<>>
  <2>1. <<>> \in Seq(Chunk) /\ Len(<<>>) = 0 /\ DOMAIN <<>> = {}
    OBVIOUS
  <2>2. Large(<<>>)
    BY <2>1 DEF Large
  <2>3. ChunkTexts(<<>>) = <<>>
    BY <2>1 DEF ChunkTexts
  <2> QED
    BY <2>1, <2>2, <2>3, JoinedEmpty
<1>4. \A x \in T, k \in 1..n : F[<<x, k>>] = WithChunk(x, cs[k]) /\ WithChunk(x, cs[k]) \in T
                               /\ Joined(ChunkTexts(WithChunk(x, cs[k]))) = Joined(ChunkTexts(x)) \o cs[k].text
  <2> TAKE x \in T, k \in 1..n
  <2>1. cs[k] \in Chunk /\ x \in Seq(Chunk) /\ Large(x)
    BY <1>1
  <2>2. F[<<x, k>>] = WithChunk(x, cs[k])
    OBVIOUS
  <2> HIDE DEF F
  <2> QED
    BY <2>1, <2>2, WithChunkIs
<1> HIDE DEF T, F
<1>5. PICK g : Iterates(g, <<>>, F, n) /\ \A k \in 0..n : g[k] \in T
  <2>1. \A x \in T, k \in 1..n : F[<<x, k>>] \in T
    BY <1>4
  <2> QED
    BY <1>1, <1>3, <2>1, Iteration
<1>6. Right(g)
  <2>1. \A k \in 0..n : (IF k = 0 THEN <<>> ELSE F[<<g[k - 1], k>>]) = IF k = 0 THEN <<>> ELSE WithChunk(g[k - 1], cs[k])
    <3> TAKE k \in 0..n
    <3>1. CASE k # 0
      <4>1. k - 1 \in 0..n /\ k \in 1..n
        BY <1>1, <3>1
      <4> QED
        BY <1>4, <1>5, <3>1, <4>1
    <3> QED
      BY <3>1
  <2> QED
    BY <1>5, <2>1 DEF Iterates
<1>7. Right(to)
  <2> HIDE DEF Right
  <2> QED
    BY <1>6
<1>8. MergedTiny(cs) = to[n]
  BY DEF MergedTiny, n
<1> HIDE DEF to
<1>9. \A k \in 0..n : to[k] = IF k = 0 THEN <<>> ELSE WithChunk(to[k - 1], cs[k])
  BY <1>7
<1>10. to[n] \in T /\ Joined(ChunkTexts(to[n])) = Joined(t)
  <2> DEFINE P == {k \in 0..n : to[k] \in T /\ Joined(ChunkTexts(to[k])) = Joined(SubSeq(t, 1, k))}
  <2>1. 0 \in P
    <3>1. 0 \in 0..n
      BY <1>1
    <3>2. to[0] = <<>>
      BY <1>9, <3>1
    <3>3. SubSeq(t, 1, 0) = <<>>
      BY <1>2, WholeSeq
    <3>4. Joined(ChunkTexts(to[0])) = Joined(SubSeq(t, 1, 0))
      BY <1>3, <3>2, <3>3, JoinedEmpty
    <3> QED
      BY <1>3, <3>1, <3>2, <3>4
  <2>2. ASSUME NEW k \in 0..n, k < n, k \in P PROVE k + 1 \in P
    <3>1. k + 1 \in 0..n /\ k + 1 \in 1..n /\ k + 1 # 0 /\ (k + 1) - 1 = k
      BY <1>1, <2>2
    <3>2. to[k + 1] = WithChunk(to[k], cs[k + 1])
      BY <1>9, <3>1
    <3>3. to[k + 1] \in T /\ Joined(ChunkTexts(to[k + 1])) = Joined(ChunkTexts(to[k])) \o cs[k + 1].text
      BY <1>4, <2>2, <3>1, <3>2
    <3>4. SubSeq(t, 1, k) \in Seq(Seq(Sentence)) /\ t[k + 1] \in Seq(Sentence)
          /\ SubSeq(t, 1, k + 1) = Append(SubSeq(t, 1, k), t[k + 1])
      <4>1. k \in 0..Len(t) /\ k < Len(t)
        BY <1>2, <2>2
      <4> QED
        BY <1>2, <4>1, OneMore
    <3>5. Joined(SubSeq(t, 1, k + 1)) = Joined(SubSeq(t, 1, k)) \o t[k + 1]
      BY <3>4, JoinedAppend
    <3> QED
      BY <1>2, <2>2, <3>1, <3>3, <3>5
  <2>3. \A k \in 0..n : k \in P
    <3> HIDE DEF P
    <3> QED
      BY <1>1, <2>1, <2>2, UpTo
  <2>4. n \in 0..n /\ SubSeq(t, 1, n) = t
    <3>1. SubSeq(t, 1, Len(t)) = t
      BY <1>2, WholeSeq
    <3> QED
      BY <1>1, <1>2, <3>1
  <2> QED
    BY <2>3, <2>4
<1> QED
  BY <1>8, <1>10 DEF T, t

\* What is cut is a document, and the chunks are those of it.
ChunkerInv ==
  document \in Document /\ (chunks = Pending \/ chunks = MergedTiny(Overlapped(Raw(document))))

LEMMA ChunkerStart == ChunkerInit => ChunkerInv
  BY DEF ChunkerInit, ChunkerInv

LEMMA ChunkerStep == ChunkerInv /\ (UNCHANGED chunkerVars \/ ChunkMarkdown) => ChunkerInv'
<1>1. ChunkerInv /\ UNCHANGED chunkerVars => ChunkerInv'
  BY DEF ChunkerInv, chunkerVars
<1>2. ChunkerInv /\ ChunkMarkdown => ChunkerInv'
  BY DEF ChunkerInv, ChunkMarkdown
<1> QED
  BY <1>1, <1>2

\* The chunks hold the sentences of the document in order.
LEMMA ChunkerRight == ChunkerInv => ChunksHold
<1> SUFFICES ASSUME ChunkerInv, chunks # Pending
             PROVE  /\ Joined(ChunkTexts(chunks)) = Joined([k \in DOMAIN document |-> Joined(document[k])])
                    /\ Large(chunks)
                    /\ \A i \in DOMAIN Raw(document) : LET c == Raw(document)[i] IN
                         /\ Size(c) <= Target \/ Len(c) = 1
                         /\ \E k \in DOMAIN document : ToSet(c) \subseteq ToSet(Joined(document[k]))
  BY DEF ChunksHold, ChunkTexts, Large
<1> DEFINE raw == Raw(document)   cs == Overlapped(raw)
<1>1. document \in Seq(Seq(Seq(Sentence))) /\ chunks = MergedTiny(cs)
  BY ChunkerAssumption DEF ChunkerInv
<1>2. /\ raw \in Seq(Seq(Sentence)) /\ Joined(raw) = Joined([k \in DOMAIN document |-> Joined(document[k])])
      /\ \A i \in DOMAIN raw :
           WithinTarget(raw[i]) /\ \E k \in DOMAIN document : ToSet(raw[i]) \subseteq ToSet(Joined(document[k]))
  BY <1>1, RawIs
<1> HIDE DEF raw
<1>3. cs \in Seq(Chunk) /\ ChunkTexts(cs) = raw
  BY <1>2, OverlappedIs
<1> HIDE DEF cs
<1>4. Large(chunks) /\ Joined(ChunkTexts(chunks)) = Joined(raw)
  BY <1>1, <1>3, MergedIs
<1>5. \A i \in DOMAIN raw : LET c == raw[i] IN
        /\ Size(c) <= Target \/ Len(c) = 1
        /\ \E k \in DOMAIN document : ToSet(c) \subseteq ToSet(Joined(document[k]))
  BY <1>2 DEF WithinTarget
<1> QED
  BY <1>2, <1>4, <1>5 DEF raw
===============================================================================
