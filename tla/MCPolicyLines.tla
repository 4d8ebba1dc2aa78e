--------------------------- MODULE MCPolicyLines ----------------------------
\* Instances of PolicyLines for TLC: lines, rules and places.
EXTENDS PolicyLines

\* Words
Word(text) == [form |-> "text", text |-> text, isWrite |-> FALSE]
X == [form |-> "one", text |-> <<>>, isWrite |-> FALSE]          \* "$X"
Xs == [form |-> "split", text |-> <<>>, isWrite |-> FALSE]       \* $X
Home(text) == [form |-> "home", text |-> text, isWrite |-> FALSE]
Into(word) == [word EXCEPT !.isWrite = TRUE]                     \* > word
Joins == [form |-> "none", text |-> <<>>, isWrite |-> TRUE]      \* 2>&1

\* Commands
Simple(id, name, args) ==
    [kind |-> "simple", id |-> id, name |-> name, path |-> <<>>, args |-> args,
     dashes |-> FALSE, redirects |-> <<>>, subs |-> <<>>, inner |-> <<>>, calls |-> <<>>]
Compound(kind, cond, body, else) ==
    [kind |-> kind, cond |-> cond, body |-> body, else |-> else, subs |-> <<>>]

\* Lists
Pipe(stages) == [bang |-> FALSE, stages |-> stages]
Item(commands, ops) ==
    [pipes |-> [i \in DOMAIN commands |-> Pipe(<<commands[i]>>)], ops |-> ops, sep |-> ";"]
One(command) == <<Item(<<command>>, <<>>)>>
And2(a, b) == Item(<<a, b>>, <<"&&">>)
Pipeline(a, b) == <<[pipes |-> <<Pipe(<<a, b>>)>>, ops |-> <<>>, sep |-> ";"]>>

P == <<"/", "p">>
Abs(c) == <<"/", c>>
Cd(id, text) == Simple(id, "cd", <<Word(text)>>)
Rm(id, text) == Simple(id, "rm", <<Word(text)>>)
Cat(id, text) == Simple(id, "cat", <<Word(text)>>)
With(id, name, word, command) ==
    [Simple(id, name, <<word>>) EXCEPT !.inner = One(command)]
F(id, body) == [Simple(id, "f", <<>>) EXCEPT !.calls = body]

MCLines ==
 << One(Rm(1, <<"x">>)),
    One(Simple(1, "rm", <<Word(<<"x">>), Xs>>)),
    One(Simple(1, "rm", <<Word(<<"x">>), Word(<<"..", "etc">>)>>)),
    One([Simple(1, "cat", <<Word(Abs("etc")), X>>) EXCEPT !.dashes = TRUE]),
    One([Rm(1, <<"..", "etc">>) EXCEPT !.redirects = <<Into(X), Joins>>]),
    One(Simple(1, "$", <<Word(<<"x">>)>>)),
    One(And2(Cd(1, <<"..", "etc">>), Rm(2, <<"x">>)).pipes[1].stages[1]),
    <<And2(Cd(1, <<"..", "etc">>), Rm(2, <<"x">>))>>,
    <<Item(<<Cd(1, <<"d">>), Cat(2, <<"x">>), Rm(3, <<"x">>)>>, <<"||", "&&">>)>>,
    <<Item(<<Cd(1, P), Simple(2, "rm", <<Home(<<"x">>)>>)>>, <<"&&">>), Item(<<Rm(3, <<"x">>)>>, <<>>)>>,
    <<[And2(Cd(1, <<"d">>), Rm(2, <<"x">>)) EXCEPT !.sep = "&"], Item(<<Cat(3, <<"x">>)>>, <<>>)>>,
    Pipeline(Compound("brace", <<>>, <<And2(Cd(1, <<"d">>), Cat(2, <<"x">>))>>, <<>>),
             Simple(3, "tee", <<Word(<<"y">>)>>)),
    Pipeline(Cat(1, Abs("etc")), Simple(2, "tee", <<Word(Abs("tmp") \o <<"y">>)>>)),
    <<And2(Compound("subshell", <<>>, <<Item(<<Cd(1, <<"d">>), Rm(2, <<"x">>)>>, <<"&&">>)>>, <<>>),
           Rm(3, <<"x">>))>>,
    <<And2(Cd(1, P), Compound("brace", <<>>, One(Cd(2, <<"d">>)), <<>>)),
      Item(<<Rm(3, <<"x">>)>>, <<>>)>>,
    <<Item(<<Cd(1, P), Compound("brace", <<>>, One(Cd(2, <<"d">>)), <<>>), Rm(3, <<"x">>)>>,
           <<"&&", "&&">>)>>,
    One(Compound("if", One(Cd(1, <<"d">>)), One(Rm(2, <<"x">>)), One(Cat(3, <<"x">>)))),
    One(Compound("loop", One(Cat(1, <<"x">>)), <<And2(Cd(2, <<"..">>), Rm(3, <<"x">>))>>, <<>>)),
    One([Compound("loop", <<>>, <<Item(<<Rm(1, <<"x">>)>>, <<>>), Item(<<Cd(2, <<"d">>)>>, <<>>)>>, <<>>)
           EXCEPT !.subs = <<One(Cat(3, <<"x">>))>>]),
    One([Compound("case", <<>>, <<And2(Cd(2, <<"d">>), Cat(3, <<"x">>))>>, One(Rm(4, <<"x">>)))
           EXCEPT !.subs = <<One(Cd(1, <<"d">>))>>]),
    <<Item(<<Compound("function", <<>>, One(Cd(1, Abs("etc"))), <<>>)>>, <<>>),
      And2(F(2, One(Cd(1, Abs("etc")))), Rm(3, <<"x">>))>>,
    One([Rm(1, <<"x">>) EXCEPT !.subs = <<<<And2(Cd(2, <<"d">>), Cat(3, <<"x">>))>>>>]),
    One(With(1, "sudo", Word(<<"root">>), Simple(2, "rm", <<Home(<<"x">>)>>))),
    One(With(1, "sudo", Word(<<"me">>), Rm(2, <<"x">>))),
    One(With(1, "sudo", X, Simple(2, "cat", <<X>>))),
    One(With(1, "env", Word(Abs("etc")), Simple(2, "rm", <<Word(<<"x">>)>>))),
    One(With(1, "env", Home(<<>>), Simple(2, "rm", <<Xs>>))),
    One(With(1, "ssh", Word(<<"there">>), Simple(2, "rm", <<Home(<<"x">>)>>))),
    One(With(1, "ssh", Word(<<"here">>), Rm(2, <<"x">>))),
    One([Simple(1, "run", <<>>) EXCEPT !.path = <<".">>]),
    One([Simple(1, "run", <<>>) EXCEPT !.path = <<"..", "p">>]),
    One([Simple(1, "run", <<>>) EXCEPT !.path = P]),
    One(Simple(1, "git", <<Word(<<"push">>)>>)),
    One(Simple(1, "git", <<X>>)),
    <<And2(Simple(1, "popd", <<>>), Rm(2, <<"x">>))>>,
    <<And2(Compound("test", <<>>, <<>>, <<>>), Rm(1, <<"x">>))>>,
    <<[And2(Cat(1, <<"x">>), Rm(2, <<"x">>)) EXCEPT !.pipes[1].bang = TRUE]>>,
    One(Simple(1, "", <<>>)) >>

\* Lines that do not run as they were walked: "!" turns a cd that fails into
\* one that succeeds, and a function moves its caller.
MCUnfollowedLines ==
 << <<[And2(Cd(1, P), Rm(2, <<"x">>)) EXCEPT !.pipes[1].bang = TRUE]>>,
    <<Item(<<Compound("function", <<>>, One(Cd(1, Abs("etc"))), <<>>)>>, <<>>),
      Item(<<Cd(2, <<"d">>), F(3, One(Cd(1, Abs("etc")))), Rm(4, <<"x">>)>>, <<"&&", "&&">>)>> >>

\* A line with a substitution in a test.
MCUnwalkedLines ==
 << <<And2(Cat(1, <<"x">>),
           [Compound("test", <<>>, <<>>, <<>>) EXCEPT !.subs = <<One(Rm(2, <<"x">>))>>])>> >>

\* Rules
When(var, op, text) == [var |-> var, op |-> op, text |-> text]
Key(op, text) == [op |-> op, text |-> text]
Rule(id, action, names) ==
    [id |-> id, action |-> action, via |-> {"tmux"}, command |-> {<<n>> : n \in names},
     when |-> When("none", "none", <<>>), path |-> NoKey, write |-> NoKey, host |-> NoKey,
     user |-> NoKey, project |-> FALSE, exempts |-> {}]

allow_read == Rule("allow-read", "Allow", {<<"cat">>, <<"cd">>, <<"tee">>, <<"ls">>})
allow_rm == [Rule("allow-rm", "Allow", {<<"rm">>}) EXCEPT
                !.write = Key("inside", <<>>), !.exempts = {"path-ask"}]
allow_x == [Rule("allow-x", "Allow", {<<"rm">>}) EXCEPT
                !.when = When("args", "alone", <<"x">>), !.exempts = {"rm-ask"}]
rm_ask == [Rule("rm-ask", "Ask", {<<"rm">>}) EXCEPT !.exempts = {"rm-deny"}]
rm_deny == [Rule("rm-deny", "Deny", {<<"rm">>}) EXCEPT !.when = When("args", "in", <<"x">>)]
path_ask == [Rule("path-ask", "Ask", {}) EXCEPT !.path = Key("outside", <<>>)]
path_deny == [Rule("path-deny", "Deny", {}) EXCEPT !.write = Key("outside", <<>>)]
etc_allow == [Rule("etc-allow", "Allow", {}) EXCEPT
                !.path = Key("starts", Abs("etc"))]
root_deny == [Rule("root-deny", "Deny", {<<"rm">>}) EXCEPT !.user = Key("eq", <<"root">>)]
there_allow == [Rule("there-allow", "Allow", {<<"rm">>}) EXCEPT
                  !.host = Key("eq", <<"there">>), !.project = TRUE, !.exempts = {"rm-ask"}]
tool_deny == [Rule("tool-deny", "Deny", {<<".", "run">>}) EXCEPT !.project = TRUE]
push_ask == [Rule("push-ask", "Ask", {}) EXCEPT !.command = {<<<<"git">>, <<"push">>>>}]
pipe_deny == [Rule("pipe-deny", "Deny", {<<"tee">>}) EXCEPT !.when = When("piped", "true", <<>>)]
all_allow == [Rule("all-allow", "Allow", {<<"cat">>}) EXCEPT !.when = When("args", "all", Abs("etc"))]
exists_ask == [Rule("exists-ask", "Ask", {<<"cat">>}) EXCEPT !.when = When("args", "exists", <<"x">>)]
last_deny == [Rule("last-deny", "Deny", {<<"rm">>}) EXCEPT !.when = When("args", "last", <<"x">>)]
bare_allow == [Rule("bare-allow", "Allow", {<<"rm">>}) EXCEPT !.when = When("args", "nothing", <<>>)]
other_ask == [Rule("other-ask", "Ask", {}) EXCEPT !.when = When("name", "ne", <<"cd">>)]
\* an exemption of a rule that is not stricter: a load error
broken == [Rule("broken", "Ask", {<<"cat">>}) EXCEPT !.exempts = {"rm-ask"}]

MCRuleSets ==
    { << >>, <<allow_read>>, <<rm_deny, allow_read>>,
      <<allow_read, allow_rm, path_ask>>,
      <<allow_read, allow_rm, path_ask, path_deny>>,
      <<rm_ask, allow_x, rm_deny>>,
      <<rm_ask, rm_deny>>,
      <<allow_x, rm_ask, push_ask>>,
      <<root_deny, allow_read, push_ask>>,
      <<there_allow, rm_ask, allow_read>>,
      <<tool_deny, pipe_deny, allow_read>>,
      <<all_allow, exists_ask, last_deny>>, <<bare_allow, other_ask, etc_allow>>,
      <<allow_read, broken, rm_ask>> }

MCDirs == {P, Abs("etc")}
MCHosts == {<<"here">>, <<"there">>}
MCThisHost == <<"here">>
MCTexts == {<<"x">>, <<"/", "etc", "x">>}
=============================================================================
