---------------------------- MODULE PolicyRules -----------------------------
(***************************************************************************)
(* How the rules decide one command (policy/rules/, policy/mod.rs): each   *)
(* rule's keys are judged on the command and on each path it touches, in   *)
(* three-valued logic; exemptions remove rules; the strictest of the rest  *)
(* decides.                                                                *)
(*                                                                         *)
(* A rule is a record of its id, its action, the channels (via) it counts  *)
(* on, its command paths, its keys, whether it comes from the project, and *)
(* the ids it exempts.  A key's CEL is one test of one variable.           *)
(***************************************************************************)
EXTENDS TriValues, FiniteSets

Severity(d) ==
    CASE d = "Allow" -> 0 [] d = "Passthrough" -> 1 [] d = "Ask" -> 2 [] OTHER -> 3
Strictest(decisions) ==
    CHOOSE d \in decisions : \A e \in decisions : Severity(e) <= Severity(d)

\* Step of e, with e worked out once.
Once(e, Step(_)) == CHOOSE result \in {Step(value) : value \in {e}} : TRUE

-----------------------------------------------------------------------------
\* Paths as text (rules/identity.rs)

\* normalize: ".." above the root stays at the root.
Normal(path) ==
    FoldLeft(LAMBDA out, c : CASE c = "." -> out
                               [] c = ".." -> IF Len(out) > 1 THEN Front(out) ELSE out
                               [] OTHER -> Append(out, c), <<>>, path)

\* resolve: a word that still starts with ~ leads nobody knows where.
Resolve(word, base) ==
    CASE Head(word) = "~" -> Unknown
      [] Head(word) = "/" -> Text(Normal(word))
      [] Head(word) \notin {"~", "/"} /\ IsText(base) -> Text(Normal(base.v \o word))
      [] OTHER -> Unknown

\* relative: from one absolute path to another.
RelativePath(from, to) ==
    LET common == CHOOSE n \in 0..Len(from) :
                    /\ n <= Len(to) /\ SubSeq(from, 1, n) = SubSeq(to, 1, n)
                    /\ \/ n = Len(from) \/ n = Len(to)
                       \/ from[n + 1] # to[n + 1]
    IN  [i \in 1..(Len(from) - common) |-> ".."] \o SubSeq(to, common + 1, Len(to))

WrittenAbsolute(name) == Head(name) \in {"/", "~"}
WrittenRelative(name) == Len(name) > 1 /\ ~WrittenAbsolute(name)

\* identity: a bare name is itself, a path in the anchor starts with ".", and
\* another absolute path is its last component.
Identity(name, host, anchor, shellDir) ==
    IF ~IsText(name) \/ Len(name.v) = 1 THEN name
    ELSE LET bare == Text(<<Last(name.v)>>)
             path == Resolve(name.v, shellDir)
             inside == IsText(anchor) /\ IsText(path) /\ IsPrefix(anchor.v, path.v)
         IN  CASE host # "here" \/ Head(name.v) = "~" ->
                    IF WrittenAbsolute(name.v) THEN bare ELSE Unknown
               [] host = "here" /\ Head(name.v) # "~" ->
                    CASE IsUnknown(path) -> Unknown
                      [] inside -> Text(<<".">> \o SubSeq(path.v, Len(anchor.v) + 1, Len(path.v)))
                      [] ~IsUnknown(path) /\ ~inside ->
                            IF WrittenAbsolute(name.v) THEN bare
                            ELSE IF IsText(anchor) THEN Text(RelativePath(anchor.v, path.v))
                            ELSE Unknown

-----------------------------------------------------------------------------
\* What one command shows the rules (Facts)

HostOf(host, env) ==
    CASE IsUnknown(host) -> "unknown"
      [] host = Text(env.thisHost) -> "here"
      [] OTHER -> "there"

\* The elements of s at the places in which, in their order.
Those(s, which) ==
    LET upTo[n \in 0..Len(s)] ==
          IF n = 0 THEN <<>>
          ELSE IF n \in which THEN Append(upTo[n - 1], s[n]) ELSE upTo[n - 1]
    IN  upTo[Len(s)]

\* Facts::of: the redirects that open a file are among the paths.
FactsOf(cmd, env) ==
    LET host == HostOf(cmd.context.host, env)
        opened == {i \in DOMAIN cmd.redirects : cmd.redirects[i].target.t # "null"}
        written == {i \in opened : cmd.redirects[i].isWrite}
        targets == [i \in DOMAIN cmd.redirects |-> cmd.redirects[i].target]
        reads == cmd.reads.v
        writes == cmd.writes.v
    IN  [cmd |-> cmd, host |-> host,
         identity |-> Identity(cmd.name, host, env.anchor, cmd.context.cwd),
         relative |-> IsText(cmd.name) /\ WrittenRelative(cmd.name.v),
         paths |-> ListOf(reads.elements \o writes.elements \o Those(targets, opened),
                          reads.exhaustive /\ writes.exhaustive),
         writes |-> ListOf(writes.elements \o Those(targets, written), writes.exhaustive)]

-----------------------------------------------------------------------------
\* Keys

NoKey == [op |-> "none", text |-> <<>>]
Given(key) == key.op # "none"

StartsWith(v, text) == StringTest(v, IsPrefix(text, v.v))

\* A key's CEL over one variable's value v; site is where its paths are.
Holds(key, v, site) ==
    CASE key.op = "eq"       -> EvalEq(v, Text(key.text))
      [] key.op = "ne"       -> EvalNe(v, Text(key.text))
      [] key.op = "in"       -> EvalIn(Text(key.text), v)
      [] key.op = "exists"   -> EvalExists(v, [i \in DOMAIN v.v.elements |->
                                                 EvalEq(v.v.elements[i], Text(key.text))])
      [] key.op = "all"      -> EvalAll(v, [i \in DOMAIN v.v.elements |->
                                              StartsWith(v.v.elements[i], key.text)])
      [] key.op = "starts"   -> StartsWith(v, key.text)
      [] key.op = "last"     -> EvalEq(EvalLast(v), Text(key.text))
      [] key.op = "nothing"  -> EvalEq(v, ListOf(<<>>, TRUE))
      [] key.op = "alone"    -> EvalTernary(EvalLess(EvalSize(v), Number(2)),
                                            EvalEq(EvalIndex(v, 0), Text(key.text)),
                                            Boolean(FALSE))
      [] key.op = "true"     -> v
      [] key.op = "inside"   -> EvalOr(InProject(v, site.host, site.dirs),
                                       IsTemp(v, site.host, site.temp))
      [] key.op = "outside"  -> EvalAnd(EvalNot(InProject(v, site.host, site.dirs)),
                                        EvalNot(IsTemp(v, site.host, site.temp)))
Judge(key, v, site) == Truthy(Holds(key, v, site))

Site(facts, env) == [host |-> facts.host, dirs |-> env.projectDirs, temp |-> env.temp]

\* The subcommand word below the command path, Null past the last one.
Below(cmd, depth) ==
    IF depth <= Len(cmd.subcommands) THEN cmd.subcommands[depth] ELSE Null

\* when_ctx: what the variable of a when key holds.  "piped" stands for
\* command.top && command.op_before == "|" && command.op_after != "|".
WhenValue(rule, facts) ==
    LET cmd == facts.cmd
    IN  CASE rule.when.var = "args" -> cmd.args
          [] rule.when.var = "name" -> facts.identity
          [] rule.when.var = "subcommand" ->
                Below(cmd, Len(CHOOSE path \in rule.command : TRUE))
          [] rule.when.var = "piped" ->
                EvalAnd(EvalAnd(Boolean(cmd.top), EvalEq(cmd.before, Text(<<"|">>))),
                        EvalNe(cmd.after, Text(<<"|">>)))

\* Mutant: a project rule with a host key is judged by the key alone.
HostByKey(rule, facts, env) ==
    CASE ~Given(rule.host) /\ rule.project ->
            CASE facts.host = "there" -> "False" [] facts.host = "unknown" -> "Unknown"
              [] OTHER -> "True"
      [] ~Given(rule.host) /\ ~rule.project ->
            IF rule.action # "Allow" THEN "True"
            ELSE IF facts.host = "unknown" THEN "Unknown" ELSE Of(facts.host = "here")
      [] Given(rule.host) ->
            IF facts.host = "unknown" THEN "Unknown"
            ELSE Judge(rule.host, facts.cmd.context.host, Site(facts, env))

\* host_match: a project rule is for this machine only; an allow rule without
\* the key too.
HostMatch(rule, facts, env) ==
    CASE rule.project /\ facts.host = "there" -> "False"
      [] rule.project /\ facts.host = "unknown" -> "Unknown"
      [] ~(rule.project /\ facts.host # "here") ->
            CASE ~Given(rule.host) /\ rule.action # "Allow" -> "True"
              [] (Given(rule.host) \/ rule.action = "Allow") /\ facts.host = "unknown" -> "Unknown"
              [] ~Given(rule.host) /\ rule.action = "Allow" /\ facts.host # "unknown" ->
                    Of(facts.host = "here")
              [] OTHER -> Judge(rule.host, facts.cmd.context.host, Site(facts, env))

\* user_match: an allow rule without the key is for the shell's own user only.
UserMatch(rule, facts, env) ==
    LET context == facts.cmd.context
    IN  CASE Given(rule.user) -> Judge(rule.user, context.user, Site(facts, env))
          [] ~Given(rule.user) /\ rule.action # "Allow" -> "True"
          [] OTHER -> IF context.own THEN "True"
                      ELSE IF IsUnknown(context.user) THEN "Unknown" ELSE "False"

\* path_match: a name written as a relative path equals no bare name.
PathMatch(path, facts) ==
    IF facts.relative /\ Len(path[1]) = 1 THEN "False"
    ELSE Every({TriEq(facts.identity, Text(path[1]))}
                 \cup {TriEq(Below(facts.cmd, i - 1), Text(path[i])) : i \in 2..Len(path)})

\* command_match: any of the rule's command paths, or any command.
CommandMatch(rule, facts) ==
    IF rule.command = {} THEN "True"
    ELSE Some({PathMatch(path, facts) : path \in rule.command})

-----------------------------------------------------------------------------
\* How one rule meets one command (Meeting)

\* PathTruths::judge
JudgedPaths(key, paths, site) ==
    [given |-> Given(key), paths |-> paths.v.elements, exhaustive |-> paths.v.exhaustive,
     truths |-> IF Given(key)
                  THEN [i \in DOMAIN paths.v.elements |-> Judge(key, paths.v.elements[i], site)]
                  ELSE <<>>]

\* meet: on another channel the rule is False.
Meet(rule, facts, env) ==
    LET site == Site(facts, env)
        onChannel == Of(env.via \in rule.via)
        when == IF Given(rule.when) THEN Judge(rule.when, WhenValue(rule, facts), site) ELSE "True"
    IN  [command |-> Every({onChannel, HostMatch(rule, facts, env), UserMatch(rule, facts, env),
                            CommandMatch(rule, facts), when}),
         path |-> JudgedPaths(rule.path, facts.paths, site),
         write |-> JudgedPaths(rule.write, facts.writes, site)]

PerPath(rule) == Given(rule.path) \/ Given(rule.write)
JudgedKeys(meeting) == {key \in {meeting.path, meeting.write} : key.given}

\* PathTruths::any, over the paths not exempted; True once one surely holds.
AnyPath(key, exempted) ==
    LET counts(i) == ~(IsText(key.paths[i]) /\ key.paths[i].v \in exempted)
        truths == {key.truths[i] : i \in {i \in DOMAIN key.paths : counts(i)}}
    IN  Some(truths \cup IF key.exhaustive THEN {} ELSE {"Unknown"})

\* PathTruths::at: the first of the key's paths that is this one.
AtPath(key, path) ==
    LET here == {i \in DOMAIN key.paths : IsText(key.paths[i]) /\ key.paths[i].v = path}
    IN  IF here = {} THEN "False" ELSE key.truths[CHOOSE i \in here : \A j \in here : i <= j]

\* Meeting::truth, sure_on and sure_on_every
TruthOf(meeting, exempted) ==
    Every({AnyPath(key, exempted) : key \in JudgedKeys(meeting)} \cup {meeting.command})
SureOn(meeting, path) ==
    /\ meeting.command = "True"
    /\ \A key \in JudgedKeys(meeting) : AtPath(key, path) = "True"
SureOnEvery(meeting) ==
    /\ meeting.command = "True"
    /\ \A key \in JudgedKeys(meeting) :
          key.exhaustive /\ \A i \in DOMAIN key.truths : key.truths[i] = "True"

-----------------------------------------------------------------------------
\* Deciding

NotExempted == [whole |-> FALSE, paths |-> {}]

\* A rule exempts only while it surely matches and is not exempted itself.
Exempts(meeting, own) == ~own.whole /\ TruthOf(meeting, own.paths) = "True"

KnownPaths(facts) == {e.v : e \in {e \in Range(facts.paths.v.elements) : IsText(e)}}

\* Mutant: a rule that surely matches exempts every known path.
EveryPath(meeting, own, facts) == KnownPaths(facts) \ own.paths

\* The known paths a rule surely holds on and is not itself exempted on.
SurePaths(meeting, own, facts) ==
    {p \in KnownPaths(facts) : p \notin own.paths /\ SureOn(meeting, p)}

\* What rule i exempts, added to what is exempted already.
ExemptBy(rules, meetings, facts, exempted, i) ==
    LET own == exempted[i]
        m == meetings[i]
        whole == ~PerPath(rules[i]) \/ (own.paths = {} /\ SureOnEvery(m))
    IN  [j \in DOMAIN rules |->
            IF ~Exempts(m, own) \/ rules[j].id \notin rules[i].exempts THEN exempted[j]
            ELSE IF PerPath(rules[j])
                   THEN [exempted[j] EXCEPT !.paths = @ \cup SurePaths(m, own, facts)]
                   ELSE [exempted[j] EXCEPT !.whole = @ \/ whole]]

\* One pass over the rules with one of the actions, in the order of the file,
\* from what is exempted already.
Pass(rules, meetings, facts, start, actions) ==
    LET upTo[n \in 0..Len(rules)] ==
          IF n = 0 THEN start
          ELSE IF rules[n].action \in actions
                 THEN ExemptBy(rules, meetings, facts, upTo[n - 1], n)
                 ELSE upTo[n - 1]
    IN  upTo[Len(rules)]

Unexempted(rules) == [j \in DOMAIN rules |-> NotExempted]

\* Mutant: allows and asks in one pass.
InFileOrder(rules, meetings, facts) ==
    Pass(rules, meetings, facts, Unexempted(rules), {"Allow", "Ask"})

\* exemptions: loosest rules first, the allows and then the asks.
Exemptions(rules, meetings, facts) ==
    Once(Pass(rules, meetings, facts, Unexempted(rules), {"Allow"}), LAMBDA exempted :
        Pass(rules, meetings, facts, exempted, {"Ask"}))

\* Mutant: an Unknown matches no rule.
CountsWhenSure(rule, truth) == truth = "True"

\* rule_match: Unknown matches a deny or an ask, never an allow.
Counts(rule, truth) == truth = "True" \/ (truth = "Unknown" /\ rule.action # "Allow")

\* The actions of the rules that match and are not exempted.
Counted(rules, meetings, exempted) ==
    {rules[i].action : i \in {i \in DOMAIN rules :
        /\ ~exempted[i].whole
        /\ Counts(rules[i], TruthOf(meetings[i], exempted[i].paths))}}

Meetings(rules, facts, env) == [i \in DOMAIN rules |-> Meet(rules[i], facts, env)]
Matched(rules, cmd, env) ==
    Once(FactsOf(cmd, env), LAMBDA facts :
        Once(Meetings(rules, facts, env), LAMBDA meetings :
            Once(Exemptions(rules, meetings, facts), LAMBDA exempted :
                Counted(rules, meetings, exempted))))

\* Mutant: the last rule that matches decides, as in a firewall's table.
LastMatch(rules, cmd, env, default) ==
    LET facts == FactsOf(cmd, env)
        matches == {i \in DOMAIN rules :
                      Counts(rules[i], TruthOf(Meet(rules[i], facts, env), {}))}
    IN  IF matches = {} THEN default
        ELSE rules[CHOOSE i \in matches : \A j \in matches : j <= i].action

\* decide, and unmatched for a command that no rule matches
Decide(rules, cmd, env, default) ==
    Once(Matched(rules, cmd, env), LAMBDA matched :
        IF matched # {} THEN Strictest(matched)
        ELSE IF env.via = "tmux" THEN default ELSE "Passthrough")

-----------------------------------------------------------------------------
\* Compiling the rules of every source (rules/compile.rs): what makes the
\* whole policy a load error.

\* exemption: it exists, is stricter, and is per path only if this one is.
Exemptible(rules, i, id) ==
    \E j \in DOMAIN rules :
        /\ rules[j].id = id
        /\ Severity(rules[j].action) > Severity(rules[i].action)
        /\ PerPath(rules[j]) => PerPath(rules[i])

Compiles(rules) ==
    /\ \A i, j \in DOMAIN rules : rules[i].id = rules[j].id => i = j
    /\ \A i \in DOMAIN rules :
          /\ rules[i].action \in {"Allow", "Ask", "Deny"}
          /\ rules[i].via # {}
          /\ \A p, q \in rules[i].command : Len(p) = Len(q)
          /\ Given(rules[i].when) /\ rules[i].when.var \in {"args", "subcommand"}
                => rules[i].command # {}
          /\ \A id \in rules[i].exempts : Exemptible(rules, i, id)
=============================================================================
