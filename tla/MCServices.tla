------------------------------ MODULE MCServices ------------------------------
(***************************************************************************)
(* An instance of Services.                                                *)
(***************************************************************************)
EXTENDS Services
CONSTANTS d1, d2, d3, file1, file2, m1, m2, proc1, proc2, sess1, sess2, v1, v2, v3, ann, bob, j1, j2, j3, k1, k2, c1, c2, c3, s1, s2, s3, f1, f2, f3, w1, w2

MCFileOf == d1 :> file1 @@ d2 :> file1 @@ d3 :> file2
Quiet == [session |-> 0, agent |-> 0, measure |-> 0, compact |-> 0, failure |-> 0, stop |-> 0]
Drafts == [drafts |-> {d1, d3}, merges |-> {m1}, exists |-> TRUE, overlap |-> TRUE, dies |-> FALSE]
Merges == {[Drafts EXCEPT !.drafts = {d1, d2, d3}, !.merges = {m1, m2}, !.overlap = FALSE],
           [Drafts EXCEPT !.drafts = {d1, d2}, !.merges = {m1, m2}],
           [Drafts EXCEPT !.merges = {m1, m2}, !.exists = FALSE, !.overlap = FALSE],
           [Drafts EXCEPT !.merges = {m1, m2}, !.dies = TRUE]}
OneDraft == [Drafts EXCEPT !.drafts = {d1}]
NoMerge == [Drafts EXCEPT !.drafts = {d1}, !.merges = {}]
MCScribePlan == Merges \cup {OneDraft, NoMerge}
Hooks == {[Quiet EXCEPT !.session = 1, !.agent = 1, !.stop = 1], [Quiet EXCEPT !.agent = 2, !.failure = 1]}
Measures == {[Quiet EXCEPT !.session = 1, !.measure = 2, !.stop = 1], [Quiet EXCEPT !.agent = 1, !.measure = 2, !.compact = 1]}
MCRalphPlan == {Quiet} \cup Hooks \cup Measures
MCUpkeep == [scribe : Merges, ralph : {Quiet}] \cup [scribe : {OneDraft}, ralph : Hooks] \cup [scribe : {NoMerge}, ralph : Measures]

MCSessionOf == proc1 :> sess1 @@ proc2 :> sess2
MCProcessOf == v1 :> proc1 @@ v2 :> proc1 @@ v3 :> proc2
MCIdOf == v1 :> k1 @@ v2 :> k1 @@ v3 :> k1
MCMeasure == {<<1, 3>>, <<2, 1>>, <<Nothing, 0>>}
StoreAct(named, samples, upserts, failures, saves, dies) ==
  [named |-> named, samples |-> samples, upserts |-> upserts, failures |-> failures, saves |-> saves, dies |-> dies]
MCStorePlan == {StoreAct(TRUE, 2, 0, 0, {v1}, FALSE), StoreAct(TRUE, 1, 1, 0, {v1, v3}, FALSE),
                StoreAct(TRUE, 0, 0, 1, {v1, v2, v3}, TRUE), StoreAct(FALSE, 0, 1, 1, {v1, v3}, TRUE)}

MCRecoveryInput ==
  [used : {60, 75, 90, 95, 100, 130}, decisions : {0, 9}, digest : {0, 16},
   history : {<<>>, <<8, 3, 3, 3, 3, 3>>, <<40, 24, 3, 3, 3, 3, 3>>},
   latest : {<<>>, <<"none">>, <<"whole", "none">>, <<"none", "torn">>, <<"torn">>}, writable : BOOLEAN]

MCChunksOf == <<2, 0, 1>>
MCIngestionPlan ==
  {[changes |-> 3, failures |-> 1, batch |-> FALSE, stops |-> FALSE],
   [changes |-> 2, failures |-> 1, batch |-> TRUE, stops |-> TRUE]}

\* Documents of at most two sections of at most two paragraphs of one or three sentences.
Sentences(sizes, first) == [i \in DOMAIN sizes |-> [name |-> first + i, size |-> sizes[i]]]
Sizes == {<<1>>, <<3>>, <<9>>, <<4, 4, 4>>}
Sections(first) ==
  {<<Sentences(x, first)>> : x \in Sizes}
    \cup {<<Sentences(x, first), Sentences(y, first + 3)>> : x \in Sizes, y \in Sizes}
MCDocument == {<<>>} \cup {<<x>> : x \in Sections(0)} \cup {<<x, y>> : x \in Sections(0), y \in Sections(6)}

\* A pattern that occurs twice in the first text, once in the second, and not in the third.
Occurrences == 1 :> (0 :> 1 @@ 2 :> 3) @@ 2 :> (1 :> 2) @@ 3 :> <<>>
Row(agent, flag, priority, labels, files) ==
  [found |-> Occurrences, flag |-> flag, agent |-> agent, priority |-> priority, labels |-> labels, files |-> files, custom |-> {}]
Rows == {Row(ann, "none", 0, {}, {}), Row(bob, "y", 0, {}, {}), Row(bob, "g", 1, {}, {}),
         Row(ann, "none", 1, {"l"}, {}), Row(ann, "g", 2, {}, {{"x"}, {"y"}})}
Ruled(rules, members) == [rules |-> rules, members |-> members]
MCTable ==
  {[local |-> Ruled(r, mem), parent |-> Ruled(u, {ann, bob})] :
     r \in {<<x, y, z>> : x \in Rows, y \in Rows, z \in Rows}, u \in {<<>>, <<Row(ann, "none", 0, {}, {})>>}, mem \in {{ann, bob}, {bob}}}
MCSignal == {[text |-> 1, labels |-> {}, paths |-> {"x", "y"}, keys |-> {}],
             [text |-> 1, labels |-> {"l"}, paths |-> {"x"}, keys |-> {}],
             [text |-> 2, labels |-> {}, paths |-> {}, keys |-> {}],
             [text |-> 3, labels |-> {}, paths |-> {}, keys |-> {}]}

\* Words of one letter, blanks and a wide letter.
MCPaste == {<<>>, <<"w">>, <<"-">>, <<"W">>, <<"w", "W", "-", "w">>}

M(provider, id, levels) == [provider |-> provider, id |-> id, levels |-> levels]
MCModels == <<M("p", "big", <<"off", "low", "high">>), M("q", "big", <<"off", "low">>), M("q", "small", <<"off">>), M("q", "deep", <<"low", "high">>)>>
Name(provider, id, level) == [provider |-> provider, id |-> id, level |-> level]
Agent(output, reads, model, thinking) ==
  [output |-> output, reads |-> reads, progress |-> FALSE, skills |-> {"k"}, model |-> model, thinking |-> thinking]
NoWish == [output |-> Unset, reads |-> Unset, progress |-> Unset, skills |-> Unset, model |-> Unset]
Called(mode, agents, calls, chainSkills, opens) ==
  [mode |-> mode, agent |-> agents, call |-> calls, chainSkills |-> chainSkills, opens |-> opens]
Small == Name("q", "small", Nowhere)
Big == Name(Nowhere, "big", "high")
Deep == Name(Nowhere, "deep", "off")
Writer == Agent("x", <<>>, Nowhere, "off")
Passer == Agent("y", <<"x">>, Nowhere, "off")
Reader == Agent(Off, <<"y", "x">>, Big, "high")
MCClarifyPlan ==
  {Called("chain", <<Writer, Passer, Reader>>, <<NoWish, NoWish, NoWish>>, {}, {"output", "reads"}),
   Called("chain", <<Writer, Reader>>, <<[NoWish EXCEPT !.skills = {"l"}], [NoWish EXCEPT !.skills = Off]>>, {"n"}, {"skills", "progress"}),
   Called("parallel", <<Writer, Reader>>, <<[NoWish EXCEPT !.model = Small], NoWish>>, {}, {"output", "model", "thinking"}),
   Called("single", <<Reader>>, <<[NoWish EXCEPT !.output = "z", !.model = Small]>>, {}, {"output", "model", "thinking"}),
   Called("single", <<Agent(Off, <<>>, Deep, "low")>>, <<[NoWish EXCEPT !.skills = {}]>>, {}, {"reads", "model", "thinking", "skills"})}
MCLevels == <<"off", "low", "high">>
MCReading == {<<>>, <<"y">>, <<"z", "x">>}
MCSkills == <<"k", "l">>
MCQuery == {{}, {"big", "small", "deep", "k", "l"}, {"small", "deep", "l"}}

MCUpdatePlan == [newer : BOOLEAN, fits : BOOLEAN, self : BOOLEAN]

Asking(op, kind, scope, name, to) == [op |-> op, kind |-> kind, scope |-> scope, name |-> name, to |-> to]
Askings ==
  <<Asking("create", "agent", "user", 1, 1), Asking("create", "agent", "project", 2, 2), Asking("create", "chain", "project", 2, 2),
    Asking("update", "agent", "any", 1, 1), Asking("update", "agent", "any", 1, 2), Asking("update", "agent", "project", 2, 3),
    Asking("update", "chain", "any", 2, 1), Asking("delete", "agent", "any", 1, 1), Asking("delete", "agent", "project", 2, 2),
    Asking("delete", "chain", "user", 2, 2)>>
\* Files with a name each; a legacy file, a chain in JSON and a second user file that hide another.
Apart ==
  Path("old", 1, "md") :> 1 @@ Path("preferred", 3, "md") :> 2 @@ Path("preferred", 2, "md") :> NoName
    @@ Path("projectChains", 1, "chain.json") :> 1 @@ Path("new", 4, "md") :> 4
Doubled ==
  Path("legacy", 1, "md") :> 1 @@ Path("preferred", 1, "md") :> 1 @@ Path("userChains", 2, "chain.json") :> 2
    @@ Path("userChains", 2, "chain.md") :> 2 @@ Path("old", 2, "md") :> 2 @@ Path("new", 2, "md") :> 2
Ordered(i, j, k) == c1 :> Askings[i] @@ c2 :> Askings[j] @@ c3 :> Askings[k]
DefinitionsOf(files, new, calls, overlap) == [files |-> files, new |-> new, calls |-> calls, overlap |-> overlap, dies |-> TRUE]
Sorted == {x \in (DOMAIN Askings) \X (DOMAIN Askings) \X (DOMAIN Askings) : x[1] <= x[2] /\ x[2] <= x[3]}
MCDefinitionPlan ==
  {DefinitionsOf(x, TRUE, Ordered(y[1], y[2], y[3]), FALSE) : x \in {Apart, Doubled}, y \in Sorted}
    \cup {DefinitionsOf(Apart, FALSE, Ordered(i, j, j), TRUE) : i \in DOMAIN Askings, j \in DOMAIN Askings}

Config(model, tools, guard, disabled) == [model |-> model, tools |-> tools, guard |-> guard, disabled |-> disabled]
Builtin == "x" :> Config("m", Undefined, Undefined, Undefined) @@ "y" :> Config(Undefined, {"t"}, FALSE, Undefined)
Wished == {Config(Undefined, {"t", "u"}, TRUE, TRUE), Config("n", Undefined, FALSE, Undefined), Config("m", {"t"}, Undefined, FALSE)}
Want(op, scope, name, wish) == [op |-> op, scope |-> scope, name |-> name, draft |-> wish]
Filled == [state |-> "whole", bulk |-> TRUE, overrides |-> "y" :> ("model" :> "n"), other |-> "o"]
Switched == [NoSettings EXCEPT !.state = "whole", !.bulk = FALSE]
MCOverridePlan ==
  {[base |-> Builtin, settings |-> "user" :> x @@ "project" :> y, overlap |-> both, dies |-> ~ both,
    wants |-> s1 :> Want("save", i, "x", u) @@ s2 :> Want("save", j, "y", r) @@ s3 :> Want("remove", j, "y", u)] :
     x \in {NoSettings, Filled}, y \in {NoSettings, Filled, Switched}, u \in Wished, r \in Wished,
     i \in {"user", "project"}, j \in {"user", "project"}, both \in BOOLEAN}

Entry(path, name, source) == [path |-> path, name |-> name, source |-> source]
MCSearchOf ==
  w1 :> <<Entry(f3, "y", "user"), Entry(f1, "x", "user"), Entry(f1, "x", "project-settings")>>
    @@ w2 :> <<Entry(f3, "y", "user-package"), Entry(f1, "x", "user"), Entry(f2, "x", "project")>>
Naming(names, cwd, fallback) == [names |-> names, cwd |-> cwd, fallback |-> fallback]
MCSkillRequest == {Naming(<<"x", "y">>, w1, w2), Naming(<<"y", "orchestration", "x">>, w2, NoFile), Naming(<<"x">>, w1, NoFile)}

RunOf(kind, n) == [kind |-> kind, children |-> n, forked |-> n > 1]
Two(x, y) == <<1, 1>> :> x @@ <<1, 2>> :> y
MCResumePlan ==
  {Two(RunOf("async", 1), RunOf("foreground", 1)), Two(RunOf("async", 1), RunOf("async", 1)), Two(RunOf("nested", 1), RunOf("async", 1)),
   Two(RunOf("nested", 1), RunOf("foreground", 1)), Two(RunOf("foreground", 1), RunOf("foreground", 1)),
   <<1>> :> RunOf("foreground", 2), <<1>> :> RunOf("async", 2), <<1>> :> [RunOf("async", 2) EXCEPT !.forked = FALSE]}
=============================================================================
