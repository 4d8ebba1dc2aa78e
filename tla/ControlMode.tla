---------------------------- MODULE ControlMode -----------------------------
(***************************************************************************)
(* The control-mode connection to tmux: execute and the calls made of it   *)
(* (tmux/connection.rs), the reader task (tmux/reader.rs) with its line    *)
(* parser (tmux/notification.rs), the event loop that takes notifications  *)
(* from a bounded channel and asks tmux in turn (daemon/mod.rs), and the   *)
(* request tasks that write lines to a pane.                               *)
(*                                                                         *)
(* tmux answers a command with a block of lines and says nothing of which  *)
(* command it answers: the reader gives each block to the command at the   *)
(* head of a queue.  A command is a number here, and so is a notification; *)
(* a reply is the set of commands whose output the block held.             *)
(***************************************************************************)
EXTENDS Naturals, Sequences, SequencesExt

CONSTANTS
    Handlers,      \* request tasks, each with one line to write
    Loop,          \* the event loop's task
    Pieces,        \* tmux commands that make up one line, Enter last
    Capacity,      \* of the notification channel
    MaxNotes,      \* bound: notifications tmux sends
    AttachInTime   \* whether the attach reply comes within connect's sleep

ASSUME ControlAssumption ==
    /\ Loop \notin Handlers
    /\ Pieces \in Nat \ {0} /\ Capacity \in Nat \ {0} /\ MaxNotes \in Nat
    /\ AttachInTime \in BOOLEAN

VARIABLES
    tmux,          \* "attaching", "up", "answering" the head of stdin, "gone"
    stdin,         \* commands written and not yet run
    stdout,        \* lines tmux wrote and the reader has not read
    registered,    \* the command channel to the reader
    pending,       \* pending_commands of the reader
    block,         \* current_block: whether there is one, and of what its lines are
    inbox,         \* the notification channel
    reading,       \* whether the reader task runs
    lock,          \* who holds the connection
    task,          \* task -> where it is
    serving,       \* whether run is past its bootstrap
    issued,        \* commands issued
    notes,         \* notifications tmux sent
    typed          \* pieces that reached the pane, in order

wire == <<tmux, stdin, stdout, notes, typed>>
readerVars == <<registered, pending, block, inbox, reading>>
callVars == <<lock, task, serving, issued>>
vars == <<wire, readerVars, callVars>>

Tasks == Handlers \cup {Loop}
Nobody == "nobody"
ASSUME LockAssumption == Nobody \notin Tasks

Attach == 0                    \* what tmux -C runs of itself
NoBlock == [open |-> FALSE, of |-> {}]
Line(kind, of) == [kind |-> kind, of |-> of]
ReplyKinds == {"end", "error"}

\* "sleep" is connect before its first command; a reply is got in "got".
Places == {"sleep", "idle", "wants", "register", "write", "await", "got", "ended"}
NewTask(pc) == [pc |-> pc, left |-> 0, cmd |-> Attach, reply |-> {}, ok |-> TRUE]

\* connect drains with a display-message, and run asks for the panes.
Init ==
    /\ tmux = "attaching" /\ stdin = <<>> /\ stdout = <<>>
    /\ registered = <<>> /\ pending = <<>> /\ block = NoBlock /\ inbox = <<>>
    /\ reading = TRUE
    /\ lock = Loop
    /\ task = [t \in Tasks |-> IF t = Loop THEN [NewTask("sleep") EXCEPT !.left = 2]
                                           ELSE NewTask("idle")]
    /\ serving = FALSE /\ issued = 0 /\ notes = 0 /\ typed = <<>>

-----------------------------------------------------------------------------
\* tmux

\* The attach runs first and has its own block.
Attaches ==
    /\ tmux = "attaching" /\ tmux' = "up"
    /\ stdout' = stdout \o <<Line("begin", Attach), Line("end", Attach)>>
    /\ UNCHANGED <<stdin, notes, typed, readerVars, callVars>>

Answers ==
    /\ tmux = "up" /\ stdin # <<>>
    /\ tmux' = "answering"
    /\ stdout' = Append(stdout, Line("begin", Head(stdin).cmd))
    /\ UNCHANGED <<stdin, notes, typed, readerVars, callVars>>

\* A piece of a line that tmux runs reaches the pane; one it refuses does not.
Answered(kind) ==
    /\ tmux = "answering" /\ tmux' = "up"
    /\ LET c == Head(stdin)
       IN  /\ stdout' = stdout \o <<Line("data", c.cmd), Line(kind, c.cmd)>>
           /\ typed' = IF kind = "end" /\ c.by \in Handlers THEN Append(typed, c) ELSE typed
    /\ stdin' = Tail(stdin)
    /\ UNCHANGED <<notes, readerVars, callVars>>

\* A notification comes at any time, within a block too.
Notifies ==
    /\ tmux \in {"up", "answering"} /\ notes < MaxNotes
    /\ notes' = notes + 1
    /\ stdout' = Append(stdout, Line("note", notes'))
    /\ UNCHANGED <<tmux, stdin, typed, readerVars, callVars>>

\* tmux or the connection goes away; what it wrote can still be read.
TmuxEnds ==
    /\ tmux # "gone" /\ tmux' = "gone"
    /\ UNCHANGED <<stdin, stdout, notes, typed, readerVars, callVars>>

-----------------------------------------------------------------------------
\* reader_loop

\* Biased: registrations come before lines.
Registers ==
    /\ reading /\ registered # <<>>
    /\ pending' = Append(pending, Head(registered)) /\ registered' = Tail(registered)
    /\ UNCHANGED <<block, inbox, reading, wire, callVars>>

\* Mutant: the reader waits for room in the channel.
SendWaits(note) == Len(inbox) < Capacity /\ inbox' = Append(inbox, note)

\* Mutant: the channel takes whatever comes.
SendUnbounded(note) == inbox' = Append(inbox, note)

\* try_send: a notification that finds the channel full is dropped.
TrySend(note) ==
    inbox' = IF Len(inbox) < Capacity THEN Append(inbox, note) ELSE inbox

\* The task that awaits command c, woken with what its reply holds.
Woken(c, reply, ok) ==
    [t \in Tasks |->
        IF task[t].pc = "await" /\ task[t].cmd = c
        THEN [task[t] EXCEPT !.pc = "got", !.reply = reply, !.ok = ok] ELSE task[t]]

\* One line through parse_line; a block that ends goes to the oldest command.
ReadLine ==
    /\ reading /\ registered = <<>> /\ stdout # <<>>
    /\ stdout' = Tail(stdout)
    /\ LET line == Head(stdout) IN
       \/ /\ line.kind = "begin"
          /\ block' = [open |-> TRUE, of |-> {}]
          /\ UNCHANGED <<pending, inbox, task>>
       \/ /\ line.kind = "data"
          /\ block' = [block EXCEPT !.of = @ \cup {line.of}]
          /\ UNCHANGED <<pending, inbox, task>>
       \/ /\ line.kind \in ReplyKinds
          /\ block' = NoBlock
          /\ IF ~block.open \/ pending = <<>>
             THEN UNCHANGED <<pending, task>>
             ELSE /\ pending' = Tail(pending)
                  /\ task' = Woken(Head(pending), block.of, line.kind = "end")
          /\ UNCHANGED inbox
       \/ /\ line.kind = "note"
          /\ TrySend(line.of)
          /\ UNCHANGED <<block, pending, task>>
    /\ UNCHANGED <<registered, reading, tmux, stdin, notes, typed, lock, serving, issued>>

\* At the end of tmux's output the reader ends: its queues go, and with them
\* every waiting command fails.
ReaderEnds ==
    /\ reading /\ registered = <<>> /\ stdout = <<>> /\ tmux = "gone"
    /\ reading' = FALSE
    /\ pending' = <<>>
    /\ task' = [t \in Tasks |-> IF task[t].pc = "await" /\ task[t].cmd \in ToSet(pending)
                                THEN [task[t] EXCEPT !.pc = "got", !.ok = FALSE] ELSE task[t]]
    /\ UNCHANGED <<registered, block, inbox, wire, lock, serving, issued>>

-----------------------------------------------------------------------------
\* execute, under the connection's mutex

Goes(t, from, to) == task[t].pc = from /\ task' = [task EXCEPT ![t].pc = to]

\* A request task has a line to write; it asks for the connection.
Request(h) ==
    /\ serving /\ task[h].pc = "idle"
    /\ task' = [task EXCEPT ![h].pc = "wants", ![h].left = Pieces]
    /\ UNCHANGED <<lock, serving, issued, wire, readerVars>>

Acquire(t) ==
    /\ lock = Nobody /\ lock' = t
    /\ Goes(t, "wants", "register")
    /\ UNCHANGED <<serving, issued, wire, readerVars>>

\* Mutant: connect sends its first command at once.
NoSleep == TRUE

\* connect's sleep: the attach reply has come and gone, if it comes in time.
Drained == AttachInTime => (tmux # "attaching" /\ stdout = <<>> /\ block = NoBlock)

\* The sleep before the first command of connect is over.
Awakes ==
    /\ Drained
    /\ Goes(Loop, "sleep", "register")
    /\ UNCHANGED <<lock, serving, issued, wire, readerVars>>

\* The response sender is registered before the command is written.
Register(t) ==
    /\ task[t].pc = "register"
    /\ issued' = issued + 1
    /\ IF reading
       THEN /\ registered' = Append(registered, issued')
            /\ task' = [task EXCEPT ![t].pc = "write", ![t].cmd = issued']
       ELSE /\ task' = [task EXCEPT ![t].pc = "got", ![t].cmd = issued', ![t].ok = FALSE]
            /\ UNCHANGED registered
    /\ UNCHANGED <<pending, block, inbox, reading, lock, serving, wire>>

\* A write to a closed pipe fails; the sender stays with the reader.
Write(t) ==
    /\ task[t].pc = "write"
    /\ IF tmux = "gone"
       THEN /\ task' = [task EXCEPT ![t].pc = "got", ![t].ok = FALSE]
            /\ UNCHANGED stdin
       ELSE /\ task' = [task EXCEPT ![t].pc = "await"]
            /\ stdin' = Append(stdin, [cmd |-> task[t].cmd, by |-> t,
                                       piece |-> IF t = Loop THEN 0 ELSE Pieces + 1 - task[t].left])
    /\ UNCHANGED <<tmux, stdout, notes, typed, readerVars, lock, serving, issued>>

\* Mutant: the connection is let go after every command of a line.
DropsEach(t) == /\ lock' = Nobody
                /\ task' = [task EXCEPT ![t].pc = "wants", ![t].left = @ - 1]

\* The next command of a call that holds the connection.
Holds(t) == /\ lock' = lock
            /\ task' = [task EXCEPT ![t].pc = "register", ![t].left = @ - 1]

\* send_keys and send_command stop at the first command that fails; the
\* event loop's own calls log a failure and go on, past what depends on it.
Continues(t) ==
    /\ task[t].pc = "got" /\ task[t].left > 1
    /\ task[t].ok \/ t = Loop
    /\ Holds(t)
    /\ UNCHANGED <<serving, issued, wire, readerVars>>

\* The bootstrap ignores how its first command went and ends run if the
\* second fails.
Finishes(t) ==
    /\ task[t].pc = "got"
    /\ task[t].left = 1 \/ (~task[t].ok /\ (t = Loop => serving))
    /\ lock' = Nobody
    /\ serving' = (serving \/ (t = Loop /\ task[t].ok))
    /\ task' = [task EXCEPT ![t].left = 0, ![t].pc = IF t = Loop /\ serving' THEN "idle" ELSE "ended"]
    /\ UNCHANGED <<issued, wire, readerVars>>

-----------------------------------------------------------------------------
\* event_loop: output is applied at once, %exit ends the loop, a layout or a
\* mode asks tmux.
Take ==
    /\ task[Loop].pc = "idle" /\ inbox # <<>>
    /\ inbox' = Tail(inbox)
    /\ \/ UNCHANGED task
       \/ task' = [task EXCEPT ![Loop].pc = "ended"]
       \/ \E n \in 1..2 : task' = [task EXCEPT ![Loop].pc = "wants", ![Loop].left = n]
    /\ UNCHANGED <<registered, pending, block, reading, lock, serving, issued, wire>>

\* The channel is closed once the reader is gone and it is empty.
LoopEnds ==
    /\ inbox = <<>> /\ ~reading
    /\ Goes(Loop, "idle", "ended")
    /\ UNCHANGED <<lock, serving, issued, wire, readerVars>>

Execute(t) == Acquire(t) \/ Register(t) \/ Write(t) \/ Continues(t) \/ Finishes(t)
Reader == Registers \/ ReadLine \/ ReaderEnds
Tmux == Attaches \/ Answers \/ (\E kind \in ReplyKinds : Answered(kind))

Next ==
    \/ Tmux \/ Notifies \/ TmuxEnds
    \/ Reader
    \/ Awakes \/ Take \/ LoopEnds
    \/ \E h \in Handlers : Request(h)
    \/ \E t \in Tasks : Execute(t)

Spec == Init /\ [][Next]_vars

\* tmux, the reader and every task go on when they can, and the connection's
\* mutex is handed on in the order of the requests.
FairSpec == /\ Spec
            /\ WF_vars(Tmux) /\ WF_vars(Reader) /\ WF_vars(Awakes)
            /\ WF_vars(Take \/ LoopEnds)
            /\ \A t \in Tasks : SF_vars(Execute(t))

-----------------------------------------------------------------------------
\* Properties

TypeOK ==
    /\ tmux \in {"attaching", "up", "answering", "gone"}
    /\ stdin \in Seq([cmd : Nat, by : Tasks, piece : 0..Pieces])
    /\ stdout \in Seq([kind : {"begin", "data", "note"} \cup ReplyKinds, of : Nat])
    /\ registered \in Seq(Nat) /\ pending \in Seq(Nat)
    /\ block \in [open : BOOLEAN, of : SUBSET Nat]
    /\ inbox \in Seq(Nat) /\ Len(inbox) <= Capacity
    /\ reading \in BOOLEAN
    /\ lock \in Tasks \cup {Nobody}
    /\ task \in [Tasks -> [pc : Places, left : Nat, cmd : Nat, reply : SUBSET Nat, ok : BOOLEAN]]
    /\ serving \in BOOLEAN /\ issued \in Nat /\ notes \in 0..MaxNotes
    /\ typed \in Seq([cmd : Nat, by : Handlers, piece : 1..Pieces])

\* What execute returns is the answer to its own command, however tmux's
\* blocks, notifications and end interleave with the registrations: the
\* reader's queue and tmux's order of answering never part.
RepliesMatch ==
    \A t \in Tasks : task[t].pc = "got" /\ task[t].ok => task[t].reply = {task[t].cmd}

\* A line is entered only whole: before the Enter that a pane gets come all
\* the other pieces of the same line, with no other writer's between them
\* (send_command, under the connection's mutex, stopping at a failure).
LinesEnteredWhole ==
    \A i \in DOMAIN typed : typed[i].piece = Pieces =>
        /\ i >= Pieces
        /\ \A k \in 1..Pieces : /\ typed[i - Pieces + k].piece = k
                                /\ typed[i - Pieces + k].by = typed[i].by

\* Every call on the connection comes to its end as long as tmux answers or
\* goes: the reader never waits for the event loop, which may itself be
\* waiting for a reply (connect: "makes deadlock structurally impossible").
CallsReturn == \A t \in Tasks : task[t].pc \in {"wants", "register", "write", "await", "got"}
                                ~> task[t].pc \in {"idle", "ended"}

=============================================================================
