-------------------------- MODULE PolicyDecisions ---------------------------
(***************************************************************************)
(* What the policy promises of a line that was judged (policy/mod.rs), for *)
(* any rules and any commands the line may show: the rules' own promises   *)
(* (ai/decisions.md), and that what is judged is what runs.                 *)
(***************************************************************************)
EXTENDS PolicyRules

CONSTANTS
    ThisHost,     \* the host of the daemon
    ProjectRoot,  \* the project's directory there
    Default       \* the policy's default on tmux

ASSUME DefaultAssumption == Default \in {"Allow", "Ask", "Deny"}

VARIABLES
    rules,   \* the policy's rules
    shell,   \* the shell: directory, host, user
    last     \* the last line judged: its decision, the commands as judged,
             \* and the commands that ran

-----------------------------------------------------------------------------
\* env: the project lies on this machine.
Env(here) ==
    [thisHost |-> ThisHost, anchor |-> IF here THEN Text(ProjectRoot) ELSE Null,
     projectDirs |-> IF here THEN {ProjectRoot} ELSE {},
     temp |-> <<"/", "var", "tmp">>, via |-> "tmux"]

\* structural::check: a command that cannot be known is denied.
Dispatches(commands) == \E i \in DOMAIN commands : IsUnknown(commands[i].name)

\* evaluate_all: the most restrictive decision of any command
LineDecision(commands, env) ==
    IF commands = <<>> THEN Default
    ELSE Strictest({Decide(rules, commands[i], env, Default) : i \in DOMAIN commands})

\* evaluate: a broken policy denies every line.
Evaluate(commands, env) ==
    IF ~Compiles(rules) \/ Dispatches(commands) THEN "Deny" ELSE LineDecision(commands, env)

-----------------------------------------------------------------------------
Judged == {last.commands[i] : i \in DOMAIN last.commands}

\* A command shows words, and lists of words.
IsSequence(s) == s \in Seq(Range(s))
IsWord(v) == v = [t |-> v.t, v |-> v.v] /\ ~IsList(v)
IsListOfWords(v) ==
    /\ IsList(v) /\ IsSequence(v.v.elements) /\ v.v.exhaustive \in BOOLEAN
    /\ \A e \in Range(v.v.elements) : IsWord(e)
Typed(cmd) ==
    /\ IsListOfWords(cmd.args) /\ IsListOfWords(cmd.reads) /\ IsListOfWords(cmd.writes)
    /\ IsSequence(cmd.subcommands) /\ \A word \in Range(cmd.subcommands) : IsWord(word)
    /\ IsSequence(cmd.redirects) /\ \A r \in Range(cmd.redirects) : IsWord(r.target)
    /\ \A v \in {cmd.name, cmd.context.cwd, cmd.context.host, cmd.context.user} : IsWord(v)
    /\ cmd.context.own \in BOOLEAN

\* A rule's command paths are a name and subcommands, and its keys are tests
\* of a variable that there is.
KeyOps == {"none", "eq", "ne", "in", "exists", "all", "starts", "last", "nothing", "alone",
           "true", "inside", "outside"}
IsRule(rule) ==
    /\ \A path \in rule.command : IsSequence(path) /\ path # <<>>
    /\ \A key \in {rule.path, rule.write, rule.host, rule.user} : key.op \in KeyOps
    /\ rule.when.op \in KeyOps
    /\ Given(rule.when) => rule.when.var \in {"args", "name", "subcommand", "piped"}

\* The rules are a sequence, every command is one that the walker may show,
\* and the line was evaluated with the project here, or with none.
TypeOK ==
    /\ IsSequence(rules) /\ \A i \in DOMAIN rules : IsRule(rules[i])
    /\ \A cmd \in Judged \cup last.ran : Typed(cmd)
    /\ last.env \in {Env(TRUE), Env(FALSE)}
    /\ last.decision \in {"none", Evaluate(last.commands, last.env)}

\* info, judged before, shows nothing of a command that is not so when it
\* runs as real.
Shows(info, real) ==
    /\ info.id = real.id
    /\ Resolves(info.name, real.name)
    /\ Resolves(info.args, real.args)
    /\ Len(real.subcommands) <= Len(info.subcommands)
    /\ \A depth \in DOMAIN info.subcommands : Resolves(Below(info, depth), Below(real, depth))
    /\ Resolves(info.reads, real.reads) /\ Resolves(info.writes, real.writes)
    /\ Len(info.redirects) = Len(real.redirects)
    /\ \A i \in DOMAIN info.redirects :
          /\ Resolves(info.redirects[i].target, real.redirects[i].target)
          /\ info.redirects[i].isWrite = real.redirects[i].isWrite
    /\ Resolves(info.cwd, real.cwd)
    /\ Resolves(info.context.cwd, real.context.cwd)
    /\ Resolves(info.context.host, real.context.host)
    /\ Resolves(info.context.user, real.context.user)
    /\ Resolves(info.context.home, real.context.home)
    /\ info.context.own => real.context.own
    /\ info.top = real.top /\ info.before = real.before /\ info.after = real.after

\* The walker promises that a path it resolves is the path the command will
\* touch, a cd that failed and a shell of its own included: every command that
\* runs was judged with nothing known of it that is not so.  This is said of
\* lines where no "!" stands before a command that moves the shell, no
\* function moves its caller, and no test has a substitution.
JudgesWhatRuns ==
    \A real \in last.ran : \E i \in DOMAIN last.commands : Shows(last.commands[i], real)

\* decisions.md, of any line: a cd that failed "keeps the old directory, so
\* `cd nosuch; cat ../secret` must not resolve".
JudgesEveryLine == JudgesWhatRuns

\* No rule that is exempted exempts another one.
Unchained(rs) ==
    \A i, j \in DOMAIN rs : rs[i].id \in rs[j].exempts => rs[i].exempts = {}

\* Where a command was judged to be: on this machine, with the project that
\* is there; and where the host is not known, not by an absolute path, which
\* is then the path's last component and may be a tool of the project.
Placed(info, env, now) ==
    LET host == HostOf(info.context.host, env)
    IN  /\ host = "here" => env = now
        /\ host = "unknown" =>
              ~(IsText(info.name) /\ Len(info.name.v) # 1 /\ Head(info.name.v) = "/")

\* rule_match fails closed: with everything known, no command that ran would
\* have been decided more strictly than the line that showed it was.  An allow
\* that exempts an ask that exempts a deny can make Deny of Ask as more gets
\* known, so this is of rules with no such chain; and with a default of deny,
\* an ask that only may match makes the line less strict than matching nothing
\* does.
JudgedAsRun ==
    Unchained(rules) /\ Default # "Deny" =>
        LET now == Env(shell.host = ThisHost)
        IN  \A real \in last.ran, info \in Judged :
              Shows(info, real) /\ Placed(info, last.env, now) =>
                  Severity(Decide(rules, real, now, Default)) <= Severity(last.decision)

\* The same wherever a command was judged to be.
JudgedAsRunAnywhere ==
    Unchained(rules) /\ Default # "Deny" =>
        \A real \in last.ran :
            Severity(Decide(rules, real, Env(shell.host = ThisHost), Default)) <= Severity(last.decision)

Permuted(p) == [i \in DOMAIN rules |-> rules[p[i]]]
Orders == {p \in [DOMAIN rules -> DOMAIN rules] : \A i, j \in DOMAIN rules : p[i] = p[j] => i = j}

\* "File order decides nothing": the same rules in any order decide every
\* command the same.
OrderDecidesNothing ==
    Compiles(rules) =>
        \A cmd \in Judged, p \in Orders :
            Decide(Permuted(p), cmd, last.env, Default) = Decide(rules, cmd, last.env, Default)

Without(i) == SubSeq(rules, 1, i - 1) \o SubSeq(rules, i + 1, Len(rules))

\* "Adding a rule never loosens": where other rules match, one that exempts
\* nothing leaves the decision as strict, or makes it stricter.
AddingNeverLoosens ==
    \A i \in DOMAIN rules : Compiles(Without(i)) /\ rules[i].exempts = {} =>
        \A cmd \in Judged :
            Matched(Without(i), cmd, last.env) # {} =>
                Severity(Decide(Without(i), cmd, last.env, Default))
                    <= Severity(Decide(rules, cmd, last.env, Default))

\* An exemption is of the paths its own rule surely holds on: a rule that
\* surely holds on another path keeps the line as strict as it is.
ExemptionsKeepToTheirPaths ==
    \A cmd \in Judged :
        LET facts == FactsOf(cmd, last.env)
            sure(i) == {p \in KnownPaths(facts) : SureOn(Meet(rules[i], facts, last.env), p)}
        IN  \A i \in DOMAIN rules :
              /\ PerPath(rules[i])
              /\ \E p \in sure(i) : \A j \in DOMAIN rules :
                    rules[i].id \in rules[j].exempts => p \notin sure(j)
              => Severity(rules[i].action) <= Severity(Decide(rules, cmd, last.env, Default))

\* "A project rule applies only on this machine", by its host key too: for a
\* command that runs elsewhere it neither decides nor exempts.
ProjectStaysHere ==
    \A cmd \in Judged :
        HostOf(cmd.context.host, last.env) = "there" =>
            Matched(rules, cmd, last.env)
                = Matched(Those(rules, {i \in DOMAIN rules : ~rules[i].project}), cmd, last.env)
=============================================================================
