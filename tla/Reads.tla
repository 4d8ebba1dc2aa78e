------------------------------- MODULE Reads --------------------------------
(***************************************************************************)
(* Reading a command's output: the MCP tools command_run and command_read  *)
(* with the offsets a session keeps (mcp.rs), wait_and_read and            *)
(* apply_read_params in the daemon (daemon/rpc.rs), behind the Transport.  *)
(* The daemon keeps no place in an output: a read sends the session's      *)
(* offset and its reply carries the next one.                              *)
(*                                                                         *)
(* An output is its lines, each a Boolean: whether the search matches it.  *)
(* The last line may be open, with no newline yet, and may still change.   *)
(* Lines are numbered from 0, as in the code.                              *)
(***************************************************************************)
EXTENDS Transport, SequencesExt, FiniteSetsExt

CONSTANTS
    Asks,          \* parameters the tools are called with
    History,       \* commands the pane keeps (MAX_COMMAND_HISTORY)
    OffsetsKept,   \* offsets a session keeps of a pane (OFFSETS_PER_PANE)
    MaxCommands,   \* bound: commands run in the pane
    MaxLines       \* bound: lines of an output

ASSUME ReadsAssumption ==
    /\ Asks \subseteq [cmd : Nat, window : SUBSET ({"next", "head", "tail"} \X Nat),
                       search : BOOLEAN, before : Nat, after : Nat, run : BOOLEAN]
    /\ History \in Nat \ {0} /\ OffsetsKept = History
    /\ MaxCommands \in Nat /\ MaxLines \in Nat

VARIABLES
    commands,      \* outputs of the commands, the newest last; its id is its index
    offsets,       \* the session's Offsets for the pane: command -> line
    seen,          \* command -> whole lines the session was shown or searched
    high,          \* command -> the highest offset the session ever kept
    overlapped     \* whether two calls were ever out at once

paneVars == <<commands>>
sessionVars == <<offsets, seen, high, overlapped>>
vars == <<transportVars, paneVars, sessionVars>>

Cmds == 1..MaxCommands
None == 0
NoOutput == [lines |-> <<>>, open |-> FALSE, done |-> FALSE]
Newest == Len(commands)
Kept(id) == id \in 1..Newest /\ id > Newest - History
Lower(a, b) == IF a < b THEN a ELSE b
Higher(a, b) == IF a > b THEN a ELSE b

Init ==
    /\ TransportInit
    /\ commands = <<>> /\ offsets = <<>>
    /\ seen = [id \in Cmds |-> {}] /\ high = [id \in Cmds |-> 0]
    /\ overlapped = FALSE

-----------------------------------------------------------------------------
\* The pane.  Every chunk is published, and wakes the reads that subscribed.

\* Mutant: only the reads that wait at the moment are woken.
WakesWaiting ==
    [id \in DOMAIN tasks |-> [tasks[id] EXCEPT !.changed = @ \/ tasks[id].pc = "wait"]]

Woken == [id \in DOMAIN tasks |-> [tasks[id] EXCEPT !.changed = TRUE]]
Publish == tasks' = Woken /\ UNCHANGED <<clientVars, down, alive, sessionVars>>

\* push_command_start; the output of the command it drops goes.
Starts ==
    /\ Newest < MaxCommands
    /\ Newest > 0 => commands[Newest].done
    /\ commands' = [id \in 1..(Newest + 1) |->
                       IF id = Newest + 1 \/ id <= Newest + 1 - History
                       THEN NoOutput ELSE commands[id]]
    /\ Publish

\* append_active_output: text that ends the open line or goes on with it, or
\* is a line of its own; more text can make a line match or stop matching.
Prints(hit, ends) ==
    /\ Newest > 0 /\ ~commands[Newest].done
    /\ LET o == commands[Newest]
           at == IF o.open THEN Len(o.lines) ELSE Len(o.lines) + 1
       IN  /\ at <= MaxLines
           /\ commands' = [commands EXCEPT ![Newest] =
                             [o EXCEPT !.lines = SubSeq(@, 1, at - 1) \o <<hit>>,
                                       !.open = ~ends]]
    /\ Publish

\* D, or the B of the next prompt: the output is all there.
Finishes ==
    /\ Newest > 0 /\ ~commands[Newest].done
    /\ commands' = [commands EXCEPT ![Newest].done = TRUE]
    /\ Publish

-----------------------------------------------------------------------------
\* ReadParams and apply_read_params

\* from_json: one of next, head and tail at most, context only with search.
WellFormed(p) ==
    /\ \A v, w \in p.window : v = w
    /\ p.before > 0 \/ p.after > 0 => p.search
Is(p, kind) == \E w \in p.window : w[1] = kind
Count(p) == (CHOOSE w \in p.window : TRUE)[2]
Bare(p) == p.window = {}
HasContext(p) == p.before > 0 \/ p.after > 0

Start(p, id) == IF p.offset.cmd = id THEN p.offset.line ELSE 0

\* Mutant: it is.
ConsumesOpen(out, done) == Len(out.lines)

\* A line without its newline is not consumed until the output is done.
Consumable(out, done) ==
    IF done \/ ~out.open THEN Len(out.lines) ELSE Len(out.lines) - 1
LineRange(from, to) == [i \in 1..(IF to > from THEN to - from ELSE 0) |-> from + i - 1]
Matching(out, from, to) ==
    LET upTo[n \in 0..to] ==
          IF n <= from THEN <<>>
          ELSE IF out.lines[n] THEN Append(upTo[n - 1], n - 1) ELSE upTo[n - 1]
    IN  upTo[to]
TakeFirst(s, n) == SubSeq(s, 1, Lower(n, Len(s)))
TakeLast(s, n) == SubSeq(s, Len(s) - Lower(n, Len(s)) + 1, Len(s))

\* Mutant: ranges that meet are not merged.
KeepsRanges(ranges, range) == Append(ranges, range)

\* merge_context_ranges, over match positions in order.
MergeRange(ranges, range) ==
    IF ranges # <<>> /\ range[1] <= Last(ranges)[2] + 1
    THEN [ranges EXCEPT ![Len(ranges)] = <<@[1], Higher(range[2], @[2])>>]
    ELSE Append(ranges, range)
ContextRange(m, p, total) ==
    <<IF m > p.before THEN m - p.before ELSE 0, Lower(m + p.after, total - 1)>>
ContextRanges(matches, p, total) ==
    LET upTo[n \in 0..Len(matches)] ==
          IF n = 0 THEN <<>>
          ELSE MergeRange(upTo[n - 1], ContextRange(matches[n], p, total))
    IN  upTo[Len(matches)]
\* collect_context_lines, without the separators between the groups.
ContextLines(ranges) ==
    LET upTo[n \in 0..Len(ranges)] ==
          IF n = 0 THEN <<>>
          ELSE upTo[n - 1] \o LineRange(ranges[n][1], ranges[n][2] + 1)
    IN  upTo[Len(ranges)]

\* tail leaves out what next consumed, unless everything was.
TailFrom(cursor, total) == IF cursor > 0 /\ cursor < total THEN cursor ELSE 0

\* With search, a window counts matches.
SearchRead(out, done, cursor, p) ==
    LET total == Len(out.lines)
        whole == Consumable(out, done)
        start == Lower(cursor, whole)
        all == Matching(out, 0, total)
        ahead == Matching(out, start, whole)
        wanted == IF Is(p, "next") THEN Higher(Count(p), 1) ELSE 0
        selected == CASE Is(p, "next") -> TakeFirst(ahead, wanted)
                      [] Is(p, "head") -> TakeFirst(all, Count(p))
                      [] Is(p, "tail") ->
                            TakeLast(Matching(out, TailFrom(cursor, total), total), Count(p))
                      [] OTHER -> all
        ranges == ContextRanges(selected, p, total)
        scanned == IF Len(ahead) >= wanted THEN Last(selected) + 1 ELSE whole
        shownTo == IF ranges = <<>> THEN scanned ELSE Last(ranges)[2] + 1
    IN  [lines |-> IF HasContext(p) THEN ContextLines(ranges) ELSE selected,
         total |-> total,
         matched |-> IF Is(p, "next") THEN Len(selected) ELSE Len(all),
         contextPending |-> /\ selected # <<>> /\ p.after > 0
                            /\ Last(selected) + p.after >= whole,
         cursor |-> CASE Is(p, "next") ->
                            IF HasContext(p) THEN Lower(Higher(scanned, shownTo), whole)
                                             ELSE scanned
                      [] Bare(p) -> whole
                      [] OTHER -> cursor,
         searched |-> CASE Is(p, "next") -> start..(scanned - 1)
                        [] Bare(p) -> 0..(total - 1)
                        [] OTHER -> {}]

\* Without, it counts lines.
PlainRead(out, done, cursor, p) ==
    LET total == Len(out.lines)
        whole == Consumable(out, done)
        start == Lower(cursor, whole)
        window == CASE Is(p, "next") -> <<start, Lower(whole, start + Count(p))>>
                    [] Is(p, "head") -> <<0, Lower(total, Count(p))>>
                    [] Is(p, "tail") ->
                          <<Higher(total - Lower(Count(p), total), TailFrom(cursor, total)), total>>
                    [] OTHER -> <<0, total>>
        lines == LineRange(window[1], window[2])
    IN  [lines |-> lines, total |-> total, matched |-> Len(lines), contextPending |-> FALSE,
         cursor |-> CASE Is(p, "next") -> window[2]
                      [] Bare(p) -> whole
                      [] OTHER -> cursor,
         searched |-> {}]

ApplyReadParams(out, done, cursor, p) ==
    IF p.search THEN SearchRead(out, done, cursor, p) ELSE PlainRead(out, done, cursor, p)
NoResult(cursor) ==
    [lines |-> <<>>, total |-> 0, matched |-> 0, contextPending |-> FALSE,
     cursor |-> cursor, searched |-> {}]

-----------------------------------------------------------------------------
\* wait_and_read, the daemon's task of a read

\* The watch channel is subscribed to before the first look.
NewRead(p) ==
    [pc |-> "look", ask |-> p, cmd |-> None, done |-> FALSE, out |-> NoOutput,
     changed |-> FALSE, late |-> FALSE, settle |-> "unset"]
Step(id, w) == tasks' = [tasks EXCEPT ![id] = w] /\ UNCHANGED <<clientVars, down, alive>>
At(id, pc) == id \in DOMAIN tasks /\ tasks[id].pc = pc
Refused == [ok |-> FALSE]

\* read_reply.  seen is for the properties: the lines that could no longer
\* change of those the reader was shown, or had searched without a match.
Reply(w, status, r) ==
    [ok |-> TRUE, cmd |-> w.cmd, status |-> status, total |-> r.total, line |-> r.cursor,
     seen |-> {i \in 0..(Len(w.out.lines) - 1) :
                 w.out.open /\ ~w.out.done => i < Len(w.out.lines) - 1}
                \cap (Range(r.lines) \cup {i \in r.searched : ~w.out.lines[i + 1]})]

\* Mutant: the output is read before the snapshot.
SeesOutputFirst(w, snapshot) ==
    IF snapshot THEN [w EXCEPT !.out = IF Kept(w.cmd) THEN commands[w.cmd] ELSE NoOutput]
                ELSE [w EXCEPT !.done = Kept(w.cmd) /\ commands[w.cmd].done]

\* The first thing a read sees is the snapshot, and whether its command is
\* done in it; the output comes after, so that of a command shown done is whole.
Sees(w, snapshot) ==
    IF snapshot THEN [w EXCEPT !.done = commands[w.cmd].done]
                ELSE [w EXCEPT !.out = IF Kept(w.cmd) THEN commands[w.cmd] ELSE NoOutput]

\* Which command is read.
Look(id) ==
    /\ At(id, "look")
    /\ LET w == tasks[id]
           cmd == IF w.ask.cmd = None THEN Newest ELSE w.ask.cmd
       IN  IF ~WellFormed(w.ask) \/ ~Kept(cmd)
           THEN Answer(id, Refused)
           ELSE Step(id, Sees([w EXCEPT !.pc = "judge", !.cmd = cmd, !.changed = FALSE], TRUE))
    /\ UNCHANGED <<paneVars, sessionVars>>

\* next and head are satisfied by as many lines or matches, with the context
\* they ask for; a bare read at once, command_run's when the command ends.
Enough(p, r) ==
    IF Is(p, "next") \/ Is(p, "head")
    THEN r.matched >= Count(p) /\ ~r.contextPending
    ELSE Bare(p) /\ ~p.search /\ ~p.run

\* A done command is answered; a filled window waits out its settle first;
\* the deadline ends the read, and tail then returns nothing.
Judge(id) ==
    /\ At(id, "judge")
    /\ LET w == Sees(tasks[id], FALSE)
           p == w.ask
           start == Start(p, w.cmd)
           peeked == ApplyReadParams(w.out, FALSE, start, p)
           enough == Enough(p, peeked)
           Wait == Step(id, [w EXCEPT !.pc = "wait", !.out = NoOutput,
                                      !.settle = IF enough THEN "on" ELSE @])
       IN  IF w.done
           THEN Answer(id, Reply(w, "completed", ApplyReadParams(w.out, TRUE, start, p)))
           ELSE \/ /\ enough /\ (Bare(p) \/ w.settle # "unset")
                   /\ Answer(id, Reply(w, "running", peeked))
                \/ Answer(id, Reply(w, "running", IF Is(p, "tail") THEN NoResult(start) ELSE peeked))
                \/ ~w.late /\ ~(enough /\ (Bare(p) \/ w.settle = "over")) /\ Wait
    /\ UNCHANGED <<paneVars, sessionVars>>

\* A change wakes the read, or the clock: the end of the settle, or the deadline.
Wake(id) ==
    /\ At(id, "wait") /\ tasks[id].changed
    /\ Step(id, [tasks[id] EXCEPT !.pc = "look"])
    /\ UNCHANGED <<paneVars, sessionVars>>
Settles(id) ==
    /\ At(id, "wait") /\ tasks[id].settle # "unset"
    /\ Step(id, [tasks[id] EXCEPT !.pc = "look", !.settle = "over"])
    /\ UNCHANGED <<paneVars, sessionVars>>
Deadline(id) ==
    /\ At(id, "wait")
    /\ Step(id, [tasks[id] EXCEPT !.pc = "look", !.late = TRUE])
    /\ UNCHANGED <<paneVars, sessionVars>>

-----------------------------------------------------------------------------
\* The MCP tools

\* Offsets::for_read: of the command asked for, or of the newest known.
ForRead(cmd) ==
    LET known == IF cmd = None THEN DOMAIN offsets ELSE DOMAIN offsets \cap {cmd}
    IN  IF known = {} THEN [cmd |-> None, line |-> 0]
        ELSE [cmd |-> Max(known), line |-> offsets[Max(known)]]

\* command_run sends no offset and reads the command it started, of which the
\* session had read nothing when it called.
NoOffset == [cmd |-> None, line |-> 0]
Sent(ask) == [cmd |-> ask.cmd, window |-> ask.window, search |-> ask.search,
              before |-> ask.before, after |-> ask.after, run |-> ask.run,
              offset |-> IF ask.run THEN NoOffset ELSE ForRead(ask.cmd)]
Begin(c, ask) ==
    /\ ask.run => ask.cmd \in 1..Newest /\ high[ask.cmd] = 0
    /\ Request(c, Sent(ask))
    /\ overlapped' = (overlapped \/ \E d \in Calls \ {c} : call[d].pc # "idle")
    /\ UNCHANGED <<paneVars, offsets, seen, high>>

\* Mutants: record keeps every offset, or one too few.
EvictsNone(f) == f
EvictsEarly(f) ==
    [id \in {k \in DOMAIN f : Cardinality({j \in DOMAIN f : j > k}) < OffsetsKept - 1} |-> f[id]]

\* Offsets::record, which drops the lowest ids past its limit.
Evicted(f) ==
    LET low == {id \in DOMAIN f : Cardinality({k \in DOMAIN f : k > id}) >= OffsetsKept}
    IN  [id \in DOMAIN f \ low |-> f[id]]
With(f, id, line) == [k \in DOMAIN f \cup {id} |-> IF k = id THEN line ELSE f[k]]
Record(r) == offsets' = Evicted(With(offsets, r.cmd, r.line))

\* The tool returns; an error records nothing.
Return(c) ==
    /\ call[c].pc \in {"answered", "failed"}
    /\ call' = [call EXCEPT ![c] = Idle]
    /\ IF call[c].pc = "answered" /\ call[c].got.value.ok
       THEN LET r == call[c].got.value
            IN  /\ Record(r)
                /\ seen' = [seen EXCEPT ![r.cmd] = @ \cup r.seen]
                /\ high' = [high EXCEPT ![r.cmd] = Higher(@, r.line)]
       ELSE UNCHANGED <<offsets, seen, high>>
    /\ UNCHANGED <<nextId, pending, routing, serverVars, paneVars, overlapped>>

-----------------------------------------------------------------------------
Pane == Starts \/ Finishes \/ \E hit, ends \in BOOLEAN : Prints(hit, ends)
Daemon(id) == Look(id) \/ Judge(id) \/ Wake(id)
Clock(id) == Settles(id) \/ Deadline(id)
Link == Route \/ RouteEnds
Next ==
    \/ Pane
    \/ \E id \in Ids : Daemon(id) \/ Clock(id)
    \/ \E c \in Calls, ask \in Asks : Begin(c, ask)
    \/ \E c \in Calls : Return(c)
    \/ (\E c \in Calls : Write(c, NewRead(call[c].ask))) /\ UNCHANGED <<paneVars, sessionVars>>
    \/ (Link \/ DaemonEnds) /\ UNCHANGED <<paneVars, sessionVars>>
Spec == Init /\ [][Next]_vars

-----------------------------------------------------------------------------
\* The type of the session's and the tasks' state: offsets stay within the
\* limit and within the output of their command.
TypeOK ==
    /\ nextId \in 1..(MaxRequests + 1) /\ pending \subseteq Ids
    /\ Newest <= MaxCommands
    /\ DOMAIN tasks \subseteq Ids
    /\ DOMAIN offsets \subseteq 1..Newest /\ Cardinality(DOMAIN offsets) <= OffsetsKept
    /\ \A id \in DOMAIN offsets : Kept(id) => offsets[id] <= Len(commands[id].lines)

\* Nothing is skipped: every line before a session's offset was shown to the
\* session whole, or searched whole without a match, however its calls
\* overlapped, the command ran on, or replies were lost.
NothingSkipped ==
    \A id \in DOMAIN offsets : \A i \in 0..(offsets[id] - 1) : i \in seen[id]

\* A session that makes one call at a time never loses its place in a command
\* the pane still keeps, so next shows no line twice: the session keeps an
\* offset for as long as the pane keeps the command.
PlaceKept ==
    ~overlapped =>
        \A id \in 1..Newest : Kept(id) /\ high[id] > 0 =>
            id \in DOMAIN offsets /\ offsets[id] = high[id]

\* A reply that says a command completed was made from all of its output.
Replies == Range(down) \cup {call[c].got : c \in {d \in Calls : call[d].pc = "answered"}}
CompletedIsWhole ==
    \A m \in Replies : m.value.ok =>
        (m.value.status = "completed" /\ Kept(m.value.cmd) =>
            m.value.total = Len(commands[m.value.cmd].lines))

\* A read shows each line of its window once and in order: with search, the
\* lines within the context of the matches it selected.
Selected(out, done, cursor, p) ==
    LET matches == {i \in 0..(Len(out.lines) - 1) : out.lines[i + 1]}
        ahead == {i \in matches : i >= cursor /\ i < Consumable(out, done)}
        left == {i \in matches : i >= TailFrom(cursor, Len(out.lines))}
        Before(S, i) == Cardinality({j \in S : j < i})
        After(S, i) == Cardinality({j \in S : j > i})
    IN  CASE Is(p, "next") -> {i \in ahead : Before(ahead, i) < Higher(Count(p), 1)}
          [] Is(p, "head") -> {i \in matches : Before(matches, i) < Count(p)}
          [] Is(p, "tail") -> {i \in left : After(left, i) < Count(p)}
          [] OTHER -> matches
ShowsItsContext ==
    \A id \in DOMAIN tasks : At(id, "judge") /\ tasks[id].ask.search /\ Kept(tasks[id].cmd) =>
        LET w == tasks[id]
            p == w.ask
            out == commands[w.cmd]
            cursor == Start(p, w.cmd)
            lines == ApplyReadParams(out, w.done, cursor, p).lines
        IN  /\ \A i, j \in DOMAIN lines : i < j => lines[i] < lines[j]
            /\ Range(lines) = {i \in 0..(Len(out.lines) - 1) :
                                 \E m \in Selected(out, w.done, cursor, p) :
                                    m <= i + p.before /\ i <= m + p.after}

\* A read does not sleep through the end of its command: one that waits with
\* nothing to wake it read a snapshot in which the command still ran.
EndsWakeReads ==
    \A id \in DOMAIN tasks : At(id, "wait") /\ ~tasks[id].changed =>
        Kept(tasks[id].cmd) /\ ~commands[tasks[id].cmd].done
=============================================================================
