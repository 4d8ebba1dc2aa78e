------------------------------- MODULE Walker -------------------------------
(***************************************************************************)
(* The commands a shell line runs, each in the context the walker gives it *)
(* (policy/parse/walker/), and what a shell really runs of that line.      *)
(*                                                                         *)
(* A line is a syntax tree.  A list is a sequence of items, an item an     *)
(* and-or list: pipes joined by ops ("&&", "||") and ended by sep (";" or  *)
(* "&").  A pipe has its stages and whether "!" negates it.  A command is  *)
(* simple or compound.  A simple command's program takes its words by its  *)
(* grammar; the commands that a program runs in turn are its inner ones.   *)
(***************************************************************************)
EXTENDS PolicyRules

-----------------------------------------------------------------------------
\* Words (parse/word.rs): text, text from ~, one word expanded at run time
\* ("one"), or a word that may become several or none ("split").

Known(word, home) == word.form = "text" \/ (word.form = "home" /\ IsText(home))
TextOf(word, home) == IF word.form = "text" THEN word.text ELSE home.v \o word.text
Value(word, home) == IF Known(word, home) THEN Text(TextOf(word, home)) ELSE Unknown
Values(words, home) == [i \in DOMAIN words |-> Value(words[i], home)]

-----------------------------------------------------------------------------
\* The grammars, as far as the paths, the directory and the inner commands
\* of a command go (policy/grammar/).

\* What a program's words are, and which key of the context its inner
\* commands get from the first of them.
Grammar(name) ==
    CASE name \in {"cat", "ls"} -> [role |-> "read", with |-> "none"]
      [] name \in {"rm", "tee"} -> [role |-> "write", with |-> "none"]
      [] name \in {"cd", "pushd"} -> [role |-> "dir", with |-> "none"]
      [] name = "git" -> [role |-> "subcommand", with |-> "none"]
      [] name = "sudo" -> [role |-> "option", with |-> "user"]
      [] name = "env" -> [role |-> "option", with |-> "cwd"]
      [] name = "ssh" -> [role |-> "option", with |-> "host"]
      [] OTHER -> [role |-> "none", with |-> "none"]

\* A word expanded at run time could be any option, and nothing after it is
\* sure; after "--" one that stays one word is an operand like any other.
Unsure(node, home) ==
    \E i \in DOMAIN node.args :
        ~Known(node.args[i], home) /\ (node.args[i].form = "split" \/ ~node.dashes)

\* The operands of a command: of one unsure, nothing is known.
Operands(node, home) ==
    IF Unsure(node, home) THEN ListOf(<<>>, FALSE)
    ELSE ListOf(Values(node.args, home), TRUE)

NoList == ListOf(<<>>, TRUE)

\* Mutant: where the operands may be anything, the subcommand is a list of them.
SubcommandOfMany(node, home) ==
    IF Unsure(node, home) THEN <<Operands(node, home)>>
    ELSE SubSeq(Values(node.args, home), 1, 1)

\* The subcommand's word: unknown where anything may stand before it.
Subcommand(node, home) ==
    IF Unsure(node, home) THEN <<Unknown>> ELSE SubSeq(Values(node.args, home), 1, 1)

\* Level::parse and Run::finish: a directory is also read.
Parsed(node, home) ==
    LET role == Grammar(node.name).role
        operands == Operands(node, home)
        dir == CASE role # "dir" \/ node.args = <<>> -> Null
                 [] Unsure(node, home) -> Unknown
                 [] OTHER -> Value(node.args[1], home)
    IN  [args |-> IF role = "option" THEN NoList ELSE operands,
         subcommands |-> IF role = "subcommand" THEN Subcommand(node, home) ELSE <<>>,
         reads |-> CASE role = "read" -> operands
                     [] IsText(dir) -> ListOf(<<Text(<<".">>)>>, TRUE)
                     [] role = "dir" /\ IsUnknown(dir) ->
                            ListOf(<<Unknown>>, ~Unsure(node, home))
                     [] OTHER -> NoList,
         writes |-> IF role = "write" THEN operands ELSE NoList,
         cwd |-> dir]

-----------------------------------------------------------------------------
\* Contexts (walker/context.rs)

Join(base, dir) ==
    CASE dir.t = "null" -> base
      [] IsText(dir) -> Resolve(dir.v, base)
      [] OTHER -> Unknown
Resolved(paths, cwd) ==
    ListOf([i \in DOMAIN paths.v.elements |-> Join(cwd, paths.v.elements[i])],
           paths.v.exhaustive)

Same(new, old) == IsText(new) /\ new = old

\* with.user: a user that changes leaves the home unknown, and is not the
\* shell's own any more.
WithUser(context, user) ==
    [context EXCEPT !.user = user,
                    !.home = IF Same(user, context.user) THEN @ ELSE Unknown,
                    !.own = @ /\ Same(user, context.user)]

\* with.host, and then with.cwd = home(with.user)
WithHost(context, host) ==
    LET moved == [context EXCEPT !.host = host,
                                 !.home = IF Same(host, context.host) THEN @ ELSE Unknown]
    IN  [moved EXCEPT !.cwd = EvalHome(context.user, context.user, moved.home)]

\* inner_context
InnerContext(node, context, cwd) ==
    LET with == Grammar(node.name).with
    IN  CASE with = "none" -> context
          [] with = "user" -> WithUser(context, Value(node.args[1], context.home))
          [] with = "host" -> WithHost(context, Value(node.args[1], context.home))
          [] with = "cwd" ->
                [context EXCEPT !.cwd = Join(cwd, Value(node.args[1], context.home))]

\* The file a redirect opens; null for one that opens none (2>&1).
Target(redirect, context) ==
    CASE redirect.form = "none" -> Null
      [] redirect.form # "none" /\ Known(redirect, context.home) ->
            Resolve(TextOf(redirect, context.home), context.cwd)
      [] OTHER -> Unknown

\* CommandInfo, with the command's place in the line
Shown(node, context, place) ==
    LET parsed == Parsed(node, context.home)
        cwd == Join(context.cwd, parsed.cwd)
    IN  [id |-> node.id,
         name |-> CASE node.name = "" -> Null
                    [] node.name = "$" -> Unknown
                    [] OTHER -> Text(node.path \o <<node.name>>),
         subcommands |-> parsed.subcommands, args |-> parsed.args,
         reads |-> Resolved(parsed.reads, cwd), writes |-> Resolved(parsed.writes, cwd),
         redirects |-> [i \in DOMAIN node.redirects |->
                          [target |-> Target(node.redirects[i], context),
                           isWrite |-> node.redirects[i].isWrite]],
         cwd |-> cwd, context |-> context,
         top |-> place.top, before |-> place.before, after |-> place.after]

-----------------------------------------------------------------------------
\* Places (walker/place.rs): where a command stands in the line.

Away == [top |-> FALSE, before |-> Null, after |-> Null]
Operator(op) == Text(<<op>>)

\* Joint::of_part: ops[i] joins part i to the next.
OfPart(joint, i, n, ops) ==
    IF ~joint.top THEN joint
    ELSE [top |-> TRUE,
          before |-> IF i = 1 THEN joint.before ELSE Operator(ops[i - 1]),
          after |-> IF i = n THEN joint.after ELSE Operator(ops[i])]

-----------------------------------------------------------------------------
\* The walk.  w is the walker: its context, whether a cd ran in the and-or
\* list being walked, and the commands so far.

RECURSIVE WalkParts(_, _, _), WalkItem(_, _, _), WalkCommand(_, _, _), WalkRun(_, _, _)

\* compound_list: a list within the line.
WalkList(list, w) == WalkParts(list, FALSE, w)

ForgetsCwd(w) == [w EXCEPT !.context.cwd = Unknown]

\* Mutant: a cd still holds after "||".
StaysInChain(w) == w

\* leave_chain: a cd in it may have failed.
LeaveChain(w) ==
    Once(w, LAMBDA u : [IF u.moved THEN ForgetsCwd(u) ELSE u EXCEPT !.moved = FALSE])

\* subshell: only the commands come out of it.
Subshell(w, inside) == [inside EXCEPT !.context = w.context, !.moved = w.moved]

\* The lists of substitutions, each in a subshell.
WalkEach(lists, w) == FoldLeft(LAMBDA u, list : Subshell(u, WalkList(list, u)), w, lists)

\* repeated: once more, from the context that one pass leaves.
Repeated(w, cond, body) ==
    LET Round(u) == WalkList(body, WalkList(cond, u))
    IN  Once(Round(w), LAMBDA u : IF u.context = w.context THEN u ELSE Round(u))

\* simple_command: a cd moves the rest of its chain.
WalkSimple(node, place, w) ==
    LET to == IF IsText(Parsed(node, w.context.home).cwd)
                THEN Shown(node, w.context, place).cwd ELSE Unknown
    IN  Once(WalkRun(node, place, WalkEach(node.subs, w)), LAMBDA ran :
            IF node.name \notin {"cd", "pushd", "popd"} THEN ran
            ELSE [ran EXCEPT !.moved = TRUE, !.context.cwd = to])

\* An inner command given as words: the outer shell has expanded them, and
\* whether an unknown one could split is lost.  Words that split may be the
\* command itself.
InnerWords(list, home) ==
    LET node == list[1].pipes[1].stages[1]
        Expanded(word) == IF Known(word, home) THEN [word EXCEPT !.form = "text", !.text = TextOf(word, home)]
                          ELSE [word EXCEPT !.form = "split"]
    IN  IF \E i \in DOMAIN node.args : node.args[i].form = "split"
          THEN [node EXCEPT !.name = "$", !.args = <<>>]
          ELSE [node EXCEPT !.args = [i \in DOMAIN @ |-> Expanded(@[i])]]

\* run: one command, then its inner commands in the context it gives them.
\* Those given as words (sudo, env) have no cd of the shell's and no
\* substitution of their own; a shell line (ssh) is walked like any other.
WalkRun(node, place, w) ==
    LET Into(out, shown) ==
            [out EXCEPT !.context = InnerContext(node, w.context, shown.cwd)]
        Inside(out, shown) ==
            CASE node.inner = <<>> -> out
              [] node.inner # <<>> /\ Grammar(node.name).with = "host" ->
                    WalkList(node.inner, Into(out, shown))
              [] OTHER -> WalkRun(InnerWords(node.inner, w.context.home), Away, Into(out, shown))
    IN  Once(Shown(node, w.context, place), LAMBDA shown :
            [Inside([w EXCEPT !.out = Append(@, shown)], shown) EXCEPT !.context = w.context])

\* compound_command.  What a "for" or a "case" expands is walked before its
\* lists.
WalkCompound(node, w) ==
    CASE node.kind = "subshell" -> Subshell(w, WalkList(node.body, w))
      [] node.kind \in {"brace", "if", "case"} ->
            WalkList(node.else, WalkList(node.body, WalkList(node.cond, WalkEach(node.subs, w))))
      [] node.kind = "loop" -> Repeated(WalkEach(node.subs, w), node.cond, node.body)

\* command: of a test, [[ ]] or (( )), nothing is walked.
WalkCommand(node, joint, before) ==
    Once(before, LAMBDA w :
    CASE node.kind = "simple" -> WalkSimple(node, joint, w)
      [] node.kind = "test" -> w
      [] node.kind = "function" ->
            LET after == ForgetsCwd(w) IN Subshell(after, WalkList(node.body, after))
      [] OTHER -> WalkCompound(node, w))

\* pipeline: each stage of several runs in a subshell.
WalkPipe(pipe, joint, w) ==
    LET n == Len(pipe.stages)
        bars == [i \in 1..(n - 1) |-> "|"]
        Out(u, after) == IF n = 1 THEN after ELSE Subshell(u, after)
    IN  FoldLeft(LAMBDA u, i : Out(u, WalkCommand(pipe.stages[i], OfPart(joint, i, n, bars), u)),
                 w, [i \in 1..n |-> i])

\* and_or_list: a cd holds along && only, and not beyond the list.
WalkItem(item, joint, w) ==
    LET n == Len(item.pipes)
        Next1(u, i) == WalkPipe(item.pipes[i], OfPart(joint, i, n, item.ops),
                                IF i > 1 /\ item.ops[i - 1] = "||" THEN LeaveChain(u) ELSE u)
        last == LeaveChain(FoldLeft(Next1, [w EXCEPT !.moved = FALSE], [i \in 1..n |-> i]))
    IN  [last EXCEPT !.moved = w.moved]

\* top: the places of the line's own items, the last of which may
\* end in "&".
TopJoint(line, i) ==
    LET n == Len(line)
        seps == [j \in 1..n |-> line[j].sep]
        whole == [top |-> TRUE, before |-> Null,
                  after |-> IF seps[n] = "&" THEN Operator("&") ELSE Null]
    IN  OfPart(whole, i, n, seps)

\* The items of a list, one after the other; top, the line's own.
WalkParts(list, top, w) ==
    LET At(i) == IF top THEN TopJoint(list, i) ELSE Away
    IN  FoldLeft(LAMBDA u, i : Once(u, LAMBDA v : WalkItem(list[i], At(i), v)),
                 w, [i \in DOMAIN list |-> i])

\* walk
Walk(line, start) ==
    WalkParts(line, TRUE, [context |-> start, moved |-> FALSE, out |-> <<>>]).out

-----------------------------------------------------------------------------
\* What a shell runs.  s is the shell: where it is, on which host and as
\* which user; x is what the words expanded at run time come to.  The
\* outcome of a part is the shell it leaves, whether it succeeded, and
\* the commands that ran, each as it shows when everything is known.  Every
\* command may fail, and a cd that fails moves nothing.

RECURSIVE RealParts(_, _, _, _), RealLoop(_, _, _, _)

\* A list within the line.
RealList(list, s, x) == RealParts(list, FALSE, s, x)

HomeOf(host, user) == <<"/", "home", user[1]>>
RealContext(s) ==
    [cwd |-> Text(s.dir), host |-> Text(s.host), user |-> Text(s.user),
     home |-> Text(HomeOf(s.host, s.user)), own |-> s.own]

RealWord(word, x) ==
    IF word.form \in {"one", "split"} THEN [word EXCEPT !.form = "text", !.text = x] ELSE word

\* A word that splits may also become none.
RealArgs(args, x) ==
    {[i \in DOMAIN kept |-> RealWord(kept[i], x)] :
        kept \in {args, SelectSeq(args, LAMBDA word : word.form # "split")}}

RealNodes(node, x) ==
    {[node EXCEPT !.args = args,
                  !.redirects = [i \in DOMAIN @ |-> RealWord(@[i], x)]] :
        args \in RealArgs(node.args, x)}

Outcome(shell, ok, ran) == [shell |-> shell, ok |-> ok, ran |-> ran]
Nothing(s) == {Outcome(s, TRUE, {})}

\* What follows each outcome in S.
Follow(S, Part(_)) ==
    UNION {{[p EXCEPT !.ran = @ \cup o.ran] : p \in Part(o)} : o \in S}

InnerShell(node, s) ==
    LET with == Grammar(node.name).with
        value == Value(node.args[1], RealContext(s).home).v
    IN  CASE with = "user" -> [s EXCEPT !.user = value, !.own = @ /\ value = s.user]
          [] with = "host" -> [s EXCEPT !.host = value, !.dir = HomeOf(value, s.user)]
          [] OTHER -> [s EXCEPT !.dir = Resolve(value, Text(s.dir)).v]

\* The words of sudo and env are expanded before the user changes.
InnerReal(node, s) ==
    IF Grammar(node.name).with = "host" THEN node.inner
    ELSE LET Home(word) == IF word.form # "home" THEN word
                           ELSE [word EXCEPT !.form = "text",
                                             !.text = HomeOf(s.host, s.user) \o word.text]
         IN  [node.inner EXCEPT ![1].pipes[1].stages[1].args = [i \in DOMAIN @ |-> Home(@[i])]]

\* One command: its inner commands run, and then itself or the function it calls.
RealRun(node, place, s, x) ==
    LET target(shown) ==
            IF node.name \in {"cd", "pushd"} /\ node.args # <<>> THEN shown.cwd.v
            ELSE IF node.name = "cd" THEN HomeOf(s.host, s.user) ELSE s.dir
        inside == IF node.inner = <<>> THEN Nothing(s)
                  ELSE UNION {RealList(InnerReal(node, s), t, x) : t \in {InnerShell(node, s)}}
        body(shown) == IF node.calls = <<>>
                         THEN {Outcome([s EXCEPT !.dir = target(shown)], TRUE, {})}
                         ELSE {[o EXCEPT !.ok = TRUE] : o \in RealList(node.calls, s, x)}
        itself(shown) == {Outcome(s, FALSE, {})} \cup body(shown)
    IN  UNION {{[o EXCEPT !.ran = @ \cup i.ran \cup {shown}] : o \in itself(shown)} :
                  i \in inside, shown \in {Shown(node, RealContext(s), place)}}

Kept(S, s) == {[o EXCEPT !.shell = s] : o \in S}

\* The lists of substitutions, one after the other, each in a subshell.
RealEach(lists, s, x) ==
    FoldLeft(LAMBDA S, list : Follow(S, LAMBDA o : Kept(RealList(list, s, x), s)), Nothing(s), lists)

RealSimple(node, place, s, x) ==
    Follow(RealEach(node.subs, s, x),
           LAMBDA o : UNION {RealRun(real, place, s, x) : real \in RealNodes(node, x)})

RealCommand(node, joint, s, x) ==
    CASE node.kind = "simple" -> RealSimple(node, joint, s, x)
      [] node.kind = "subshell" -> Kept(RealList(node.body, s, x), s)
      [] node.kind = "brace" -> RealList(node.body, s, x)
      [] node.kind = "if" ->
            Follow(RealList(node.cond, s, x),
                   LAMBDA o : RealList(IF o.ok THEN node.body ELSE node.else, o.shell, x))
      [] node.kind = "loop" ->
            Follow(RealEach(node.subs, s, x), LAMBDA o : RealLoop(node, s, x, 2))
      [] node.kind = "case" ->
            Follow(RealEach(node.subs, s, x),
                   LAMBDA o : RealList(node.body, s, x) \cup RealList(node.else, s, x)
                                \cup Nothing(s))
      [] node.kind = "test" ->
            {[o EXCEPT !.ok = ok] : o \in RealEach(node.subs, s, x), ok \in BOOLEAN}
      [] node.kind = "function" -> Nothing(s)

\* A loop goes round twice at most; one with no condition goes over words.
RealLoop(node, s, x, rounds) ==
    Follow(RealList(node.cond, s, x),
           LAMBDA o : (IF o.ok /\ rounds > 0 /\ node.cond # <<>> THEN {} ELSE Nothing(o.shell))
                \cup IF ~o.ok \/ rounds = 0 THEN {}
                      ELSE Follow(RealList(node.body, o.shell, x),
                                  LAMBDA p : RealLoop(node, p.shell, x, rounds - 1)))

RealPipe(pipe, joint, s, x) ==
    LET n == Len(pipe.stages)
        bars == [i \in 1..(n - 1) |-> "|"]
        Out(S) == IF n = 1 THEN S ELSE Kept(S, s)
        Stage(i) == Out(RealCommand(pipe.stages[i], OfPart(joint, i, n, bars), s, x))
        S == FoldLeft(LAMBDA T, i : Follow(T, LAMBDA o : Stage(i)), Nothing(s), [i \in 1..n |-> i])
    IN  {[o EXCEPT !.ok = IF pipe.bang THEN ~@ ELSE @] : o \in S}

RealItem(item, joint, s, x) ==
    LET At(i) == OfPart(joint, i, Len(item.pipes), item.ops)
        Step(S, i) ==
          Follow(S, LAMBDA o : IF i > 1 /\ (o.ok # (item.ops[i - 1] = "&&")) THEN {o}
                               ELSE RealPipe(item.pipes[i], At(i), o.shell, x))
        S == FoldLeft(Step, Nothing(s), [i \in DOMAIN item.pipes |-> i])
    IN  IF item.sep = "&" THEN Kept(S, s) ELSE S

RealParts(list, top, s, x) ==
    LET At(i) == IF top THEN TopJoint(list, i) ELSE Away
    IN  FoldLeft(LAMBDA S, i : Follow(S, LAMBDA o : RealItem(list[i], At(i), o.shell, x)),
                 Nothing(s), [i \in DOMAIN list |-> i])

\* The line itself, in the shell of the pane.
RealLine(line, s, x) == RealParts(line, TRUE, s, x)
=============================================================================
