----------------------------- MODULE PaneWrites -----------------------------
(***************************************************************************)
(* Writing to a pane: the optimistic protocol by which RPC handlers decide *)
(* from one pane snapshot and write only while the pane is still at that   *)
(* snapshot's version (daemon/rpc.rs), against the event loop that applies *)
(* what tmux reports (daemon/mod.rs) and the TrackedPane both share        *)
(* (pane/registry.rs), with the approvals of policy/approval.rs.           *)
(*                                                                         *)
(* One tmux pane is modelled.  The registry may drop it and track it anew  *)
(* (it closed, or moved to another window): each time is an incarnation, a *)
(* TrackedPane of its own.  Handlers and the event loop are tasks of a     *)
(* multi-threaded runtime, so their steps interleave at every await.  No   *)
(* code awaits anything while it holds the pane lock, so what happens      *)
(* under it is one step.                                                   *)
(***************************************************************************)
EXTENDS Naturals, Sequences, Functions

CONSTANTS
    Handlers,        \* RPC calls in flight
    Kinds,           \* which methods they call, of "run", "inject", "keys", "approve"
    Commands,        \* command lines of command_run
    Contexts,        \* what OSC 7 may report: host, directory and user
    NoContext,       \* no report since the last command started
    Verdict(_, _),   \* the policy's decision for a command in a context
    PidAnswers,      \* whether tmux may tell, or not tell, a pane's pid
    Programs,        \* what may run in the pane's foreground
    Nobody,          \* no handler, or no incarnation
    MaxVersion,      \* bound: pane events happen while the versions add up to less
    MaxId,           \* bound: commands a pane starts
    MaxIncarnation   \* bound: times the pane is tracked anew

ASSUME ConstantsAssumption ==
    /\ Kinds \subseteq {"run", "inject", "keys", "approve"}
    /\ \A c \in Commands, x \in Contexts \cup {NoContext} :
            Verdict(c, x) \in {"Allow", "Ask", "Deny"}
    /\ MaxVersion \in Nat /\ MaxId \in Nat /\ MaxIncarnation \in Nat
    /\ Nobody \notin Handlers /\ Nobody \notin Nat
    /\ NoContext \notin Contexts
    /\ PidAnswers \subseteq BOOLEAN /\ PidAnswers # {}

VARIABLES
    panes,       \* incarnation -> its TrackedPane
    latest,      \* the last incarnation
    present,     \* whether the registry holds it
    loop,        \* what the event loop is doing, and for which incarnation
    conn,        \* who holds the lock of the tmux connection
    call,        \* handler -> where it is and what it holds
    approvals,   \* the approval pending, 0 when there is none
    grants,      \* history: every approval stored, in order
    expired,     \* the approvals past APPROVAL_TTL_SECS
    program,     \* what runs in the foreground
    sent         \* history: the writes that passed the version check

paneVars == <<panes, latest, present, loop, program>>
askVars == <<approvals, grants, expired>>
vars == <<paneVars, conn, call, askVars, sent>>

Incarnations == 0..MaxIncarnation
Modes == {"Unknown", "Off", "On"}
PhaseFacts == {"Unknown", "Input", "Executing"}
Integrations == {"Unknown", "true", "false"}

-----------------------------------------------------------------------------
\* TrackedPane: facts, and the snapshot published of them

Mk == INSTANCE Markers WITH term <- panes[latest].term

Snapshot(p, version) ==
    [version |-> version, mode |-> p.mode, phase |-> p.phase,
     integration |-> p.integration, input |-> p.input, ctx |-> p.term.ctx,
     newest |-> p.term.id, status |-> p.term.status, pid |-> p.pid]

\* Mutant: a change keeps the version.
Republished(p) == [p EXCEPT !.snap = Snapshot(p, p.snap.version)]

\* publish: a snapshot that differs from the last one gets the next version.
Published(p) ==
    LET next == Snapshot(p, p.snap.version)
    IN  IF next = p.snap
        THEN p
        ELSE [p EXCEPT !.snap = [next EXCEPT !.version = p.snap.version + 1]]

\* TrackedPane::new
Blank ==
    LET p == [term |-> Mk!NewTerminal, mode |-> "Unknown", phase |-> "Unknown",
              integration |-> "Unknown", input |-> FALSE, pid |-> FALSE]
    IN  [term |-> p.term, mode |-> p.mode, phase |-> p.phase,
         integration |-> p.integration, input |-> p.input, pid |-> p.pid,
         snap |-> Snapshot(p, 0)]

\* A pane just tracked, as execute_actions leaves it: its pid and mode as far
\* as tmux gave them.
Fresh(pid, mode) ==
    LET p == Published([Blank EXCEPT !.pid = pid])
    IN  Published([p EXCEPT !.mode = mode])

\* Mutant: the parser's phase is taken as it is.
MarkedRaw(phase) == phase

\* marked_phase
MarkedPhase(phase) == IF phase \in {"Idle", "Prompt"} THEN "Unknown" ELSE phase

\* The typed text a pane may show: some only where a B marker says where
\* input starts (PaneProcessor::read_input).
Inputs(p) == IF p.term.inputStart THEN BOOLEAN ELSE {FALSE}

Idle == [doing |-> "idle", pane |-> Nobody]

\* A call not begun, or over: the other fields hold a blank pane's facts.
Unheld(pc, kind, command) ==
    [pc |-> pc, kind |-> kind, command |-> command, line |-> "main",
     handle |-> 0, snap |-> Blank.snap, target |-> 0, grant |-> 0]

-----------------------------------------------------------------------------
Init ==
    /\ \E pid \in PidAnswers, mode \in Modes :
            panes = [i \in Incarnations |-> IF i = 0 THEN Fresh(pid, mode) ELSE Blank]
    /\ latest = 0 /\ present = TRUE
    /\ loop = Idle
    /\ conn = Nobody
    /\ call \in [Handlers -> {Unheld("idle", k, c) : k \in Kinds, c \in Commands}]
    /\ approvals = 0 /\ grants = <<>> /\ expired = {}
    /\ program \in Programs
    /\ sent = {}

-----------------------------------------------------------------------------
\* The event loop

\* Pane events are bounded by the versions they may raise, in all incarnations.
Versions == FoldFunction(LAMBDA p, n : p.snap.version + n, 0, panes)
PaneEvent == loop = Idle /\ present /\ Versions < MaxVersion

Update(i, p) == panes' = [panes EXCEPT ![i] = Published(p)]

\* What the markers of a chunk may make of a terminal, each with whether an A
\* to D marker was among them: S holds what it may be so far.
Left(term, marked) == [term |-> term, marked |-> marked]
OneMore(S) ==
    UNION {{Left(Mk!MarkA(x.term), TRUE), Left(Mk!MarkB(x.term), TRUE),
            Left(Mk!MarkC(x.term), TRUE)}
             \cup {Left(Mk!MarkD(x.term, text), TRUE) : text \in BOOLEAN}
             \cup {Left(Mk!MarkOsc7(x.term, ctx), x.marked) : ctx \in Contexts} : x \in S}

\* process_chunk goes through the markers of a chunk in order; a prompt cycle,
\* D, OSC 7, A and B, is four of them, and more come in another chunk.
ProcessChunk(t) ==
    LET none  == {Left(t, FALSE)}
        one   == OneMore(none)
        two   == OneMore(one)
        three == OneMore(two)
    IN  none \cup one \cup two \cup three \cup OneMore(three)

\* %output: apply_output goes through the chunk under the pane lock and
\* publishes once, at its end; an A to D marker in it set the phase.
Output ==
    /\ PaneEvent
    /\ \E x \in ProcessChunk(panes[latest].term) :
         LET p == [panes[latest] EXCEPT !.term = x.term]
             q == IF x.marked THEN [p EXCEPT !.phase = MarkedPhase(p.term.phase),
                                        !.integration = "true"]
                          ELSE p
         IN  /\ x.term.id <= MaxId
             /\ \E input \in Inputs(q) : Update(latest, [q EXCEPT !.input = input])
    /\ UNCHANGED <<latest, present, program, loop, conn, call, askVars, sent>>

\* %pane-mode-changed: the mode is Unknown until tmux says which ...
ModeChanges ==
    /\ PaneEvent
    /\ Update(latest, [panes[latest] EXCEPT !.mode = "Unknown"])
    /\ loop' = [doing |-> "mode", pane |-> latest]
    /\ UNCHANGED <<latest, present, program, conn, call, askVars, sent>>

\* ... in an answer to a query under the lock of the connection, ...
ModeAnswered ==
    /\ loop.doing = "mode" /\ conn = Nobody
    /\ loop' = [loop EXCEPT !.doing = "set"]
    /\ UNCHANGED <<panes, latest, present, program, conn, call, askVars, sent>>

\* ... which set_mode notes; the mode stays Unknown when the query failed.
SetMode ==
    /\ loop.doing = "set"
    /\ \E mode \in Modes : Update(loop.pane, [panes[loop.pane] EXCEPT !.mode = mode])
    /\ loop' = Idle
    /\ UNCHANGED <<latest, present, program, conn, call, askVars, sent>>

\* %layout-change: a resize rewraps the line being typed, ...
Placed ==
    /\ PaneEvent /\ conn = Nobody
    /\ \E input \in Inputs(panes[latest]) :
            Update(latest, [panes[latest] EXCEPT !.input = input])
    /\ UNCHANGED <<latest, present, program, loop, conn, call, askVars, sent>>

\* ... a pane its window no longer shows is dropped, ...
Dropped ==
    /\ loop = Idle /\ conn = Nobody /\ present
    /\ present' = FALSE
    /\ UNCHANGED <<panes, latest, program, loop, conn, call, askVars, sent>>

\* ... and one that appears in another window is a pane like any new one.
TrackedAnew ==
    /\ loop = Idle /\ conn = Nobody /\ ~present /\ latest < MaxIncarnation
    /\ \E pid \in PidAnswers, mode \in Modes :
         panes' = [panes EXCEPT ![latest + 1] = Fresh(pid, mode)]
    /\ latest' = latest + 1 /\ present' = TRUE
    /\ UNCHANGED <<program, loop, conn, call, askVars, sent>>

\* Another program comes to the foreground; nothing tells the daemon.
ForegroundChanges ==
    /\ \E p \in Programs \ {program} : program' = p
    /\ UNCHANGED <<panes, latest, present, loop, conn, call, askVars, sent>>

-----------------------------------------------------------------------------
\* The guards of a write

\* check_mode: a mode takes typed keys.
ModeRefuses(s) == s.mode # "Off"

\* check_pane: a command line must reach a shell at an empty prompt.  An
\* Unknown phase passes only while integration is Unknown too.
PaneRefuses(s) ==
    \/ ModeRefuses(s)
    \/ s.phase = "Executing"
    \/ s.phase = "Unknown" /\ s.integration # "Unknown"
    \/ s.phase = "Input" /\ s.input

\* What inject_osc133 returns at once for: a mode, a prompt with markers, or
\* a command line on its way.
InjectReturns(s) ==
    \/ ModeRefuses(s)
    \/ s.phase = "Input"
    \/ s.phase = "Unknown" /\ s.integration = "true"

\* Mutant: the context of the approval is not compared.
CoversAnywhere(a, command, ctx) ==
    a # 0 /\ a \notin expired /\ grants[a].command = command

\* ApprovalStore::verify
Covers(a, command, ctx) ==
    /\ a # 0
    /\ a \notin expired
    /\ grants[a].command = command
    /\ grants[a].ctx = ctx

-----------------------------------------------------------------------------
\* The handlers

At(h, where) == call[h].pc = where
GoTo(h, where) == call' = [call EXCEPT ![h].pc = where]

\* A call that is over holds nothing.
Over(h) == call' = [call EXCEPT ![h] = Unheld("done", @.kind, @.command)]

\* The call goes on with snapshot s of incarnation i.
GoOn(h, where, which, i, s) ==
    call' = [call EXCEPT ![h].pc = where, ![h].line = which,
                         ![h].handle = i, ![h].snap = s]

\* handle_command_run, handle_inject_osc133 and handle_request_approval take
\* the pane's handle and snapshot and judge by it; the version of a press_key
\* is one a model was shown, here.
Begin(h) ==
    LET s == panes[latest].snap
    IN  /\ At(h, "idle")
        /\ \/ ~present /\ Over(h)
           \/ /\ present /\ call[h].kind = "run"
              /\ \/ PaneRefuses(s) /\ Over(h)
                 \/ ~PaneRefuses(s) /\ s.phase = "Unknown" /\ GoOn(h, "lookup", "probe", latest, s)
                 \/ ~PaneRefuses(s) /\ s.phase # "Unknown" /\ GoOn(h, "policy", "main", latest, s)
           \/ /\ present /\ call[h].kind = "inject"
              /\ \/ InjectReturns(s) /\ Over(h)
                 \/ ~InjectReturns(s) /\ s.integration # "false"
                                      /\ GoOn(h, "lookup", "probe", latest, s)
                 \/ ~InjectReturns(s) /\ s.integration = "false"
                                      /\ GoOn(h, "lookup", "main", latest, s)
           \/ /\ present /\ call[h].kind = "keys"
              /\ GoOn(h, "lookup", "main", latest, s)
           \/ /\ present /\ call[h].kind = "approve"
              /\ IF Verdict(call[h].command, s.ctx) = "Ask"
                   THEN GoOn(h, "store", "main", latest, s)
                   ELSE Over(h)
        /\ UNCHANGED <<paneVars, conn, askVars, sent>>

\* check_policy
Policy(h) ==
    LET v == Verdict(call[h].command, call[h].snap.ctx)
    IN  /\ At(h, "policy")
        /\ \/ v = "Allow" /\ GoTo(h, "lookup")
           \/ v = "Deny" /\ Over(h)
           \/ /\ v = "Ask" /\ Covers(approvals, call[h].command, call[h].snap.ctx)
              /\ call' = [call EXCEPT ![h].pc = "lookup", ![h].grant = approvals]
           \/ /\ v = "Ask" /\ ~Covers(approvals, call[h].command, call[h].snap.ctx)
              /\ Over(h)
        /\ UNCHANGED <<paneVars, conn, askVars, sent>>

\* pane_to_write looks the pane up again, before the connection's lock.
Lookup(h) ==
    /\ At(h, "lookup")
    /\ IF present THEN call' = [call EXCEPT ![h].pc = "send", ![h].target = latest]
                  ELSE Over(h)
    /\ UNCHANGED <<paneVars, conn, askVars, sent>>

\* Mutant: the version is not compared.
AnyVersion(h) == TRUE

\* The pane is still at the version the decision read.
Current(h) == panes[call[h].target].snap.version = call[h].snap.version

\* What the history keeps of a write: the snapshot its version check met, the
\* program then in the foreground, and whether the pane written to is the one
\* the call read.
Write(h) == [by |-> h, kind |-> call[h].kind, line |-> call[h].line,
             command |-> call[h].command, grant |-> call[h].grant,
             pane |-> call[h].target, same |-> call[h].target = call[h].handle,
             snap |-> panes[call[h].target].snap, program |-> program]

\* Mutant: a command line leaves the phase as it is.
PhaseKept(p) == Published(p)

\* sending_command's change: the phase is Unknown until a marker answers.
PhaseUnknown(p) == Published([p EXCEPT !.phase = "Unknown"])

\* Mutant: the lock of the connection is kept.
KeepsLock == UNCHANGED conn

\* The guard of the connection is dropped.
ReleasesLock == conn' = Nobody

\* send_command and send_keys take the lock of the connection ...
Acquire(h) ==
    /\ At(h, "send") /\ conn = Nobody
    /\ conn' = h
    /\ GoTo(h, "check")
    /\ UNCHANGED <<paneVars, askVars, sent>>

\* ... and hold it from the version check through the write.  For a command
\* line the check and the phase change are one under the pane lock
\* (sending_command); send_keys reads the snapshot alone.
Check(h) ==
    LET i == call[h].target
    IN  /\ At(h, "check")
        /\ IF Current(h)
             THEN /\ GoTo(h, "write")
                  /\ panes' = IF call[h].kind = "keys" THEN panes
                              ELSE [panes EXCEPT ![i] = PhaseUnknown(@)]
                  /\ sent' = sent \cup {Write(h)}
                  /\ UNCHANGED conn
             ELSE /\ Over(h) /\ ReleasesLock
                  /\ UNCHANGED <<panes, sent>>
        /\ UNCHANGED <<latest, present, loop, program, askVars>>

\* What a call does once tmux took its keys.
AfterWrite(c) ==
    CASE c.kind = "keys" -> "settle"
      [] c.grant # 0 /\ c.line = "main" -> "consume"
      [] OTHER -> "wait"

\* tmux took the keys; a failed write ends the call.
Written(h) ==
    /\ At(h, "write")
    /\ ReleasesLock
    /\ Over(h) \/ GoTo(h, AfterWrite(call[h]))
    /\ UNCHANGED <<paneVars, askVars, sent>>

\* The pane responds to the key, or a second passes.
Settled(h) ==
    /\ At(h, "settle")
    /\ Over(h)
    /\ UNCHANGED <<paneVars, conn, askVars, sent>>

\* ApprovalStore::consume removes whatever approval is pending.
ConsumesApproval == approvals' = 0

Consume(h) ==
    /\ At(h, "consume")
    /\ ConsumesApproval
    /\ GoTo(h, "wait")
    /\ UNCHANGED <<paneVars, conn, grants, expired, sent>>

\* What a call does with the snapshot that answers its probe, or its injection.
Answered(h, s) ==
    \/ /\ call[h].kind = "run"
       /\ IF PaneRefuses(s) THEN Over(h) ELSE GoOn(h, "policy", "main", call[h].handle, s)
    \/ /\ call[h].kind = "inject"
       /\ IF call[h].line = "probe" /\ s.phase # "Input"
            THEN GoOn(h, "lookup", "main", call[h].handle, s)
            ELSE Over(h)

\* The marker a call waits for: started_command wants a newer command than
\* its snapshot's, at_prompt wants Input.
Comes(h) ==
    LET s == panes[call[h].handle].snap
    IN  IF call[h].kind = "run" /\ call[h].line = "main"
          THEN s.newest > call[h].snap.newest
          ELSE s.phase = "Input"

MarkerCame(h) ==
    /\ At(h, "wait") /\ Comes(h)
    /\ IF call[h].kind = "run" /\ call[h].line = "main"
         THEN Over(h)
         ELSE Answered(h, panes[call[h].handle].snap)
    /\ UNCHANGED <<paneVars, conn, askVars, sent>>

\* MARKER_TIMEOUT passes without it.
Timeout(h) ==
    /\ At(h, "wait") /\ ~Comes(h)
    /\ GoTo(h, "give_up")
    /\ UNCHANGED <<paneVars, conn, askVars, sent>>

\* set_integration(false)
GiveUp(h) ==
    LET i == call[h].handle
    IN  /\ At(h, "give_up")
        /\ Update(i, [panes[i] EXCEPT !.integration = "false"])
        /\ IF call[h].kind = "run" /\ call[h].line = "main"
             THEN Over(h)
             ELSE GoTo(h, "reread")
        /\ UNCHANGED <<latest, present, loop, program, conn, askVars, sent>>

Reread(h) ==
    /\ At(h, "reread")
    /\ Answered(h, panes[call[h].handle].snap)
    /\ UNCHANGED <<paneVars, conn, askVars, sent>>

\* ApprovalStore::store: the approval replaces the pending one.  It also
\* notes the foreground program, which the person is shown.
Store(h) ==
    /\ At(h, "store")
    /\ grants' = Append(grants, [command |-> call[h].command, ctx |-> call[h].snap.ctx,
                                 program |-> program])
    /\ approvals' = Len(grants')
    /\ Over(h)
    /\ UNCHANGED <<paneVars, conn, expired, sent>>

\* APPROVAL_TTL_SECS pass for the pending approval.
Expires ==
    /\ approvals # 0 /\ approvals \notin expired
    /\ expired' = expired \cup {approvals}
    /\ UNCHANGED <<paneVars, conn, call, approvals, grants, sent>>

-----------------------------------------------------------------------------
\* A call once begun: everything but its arrival.
GoesOn(h) == \/ Policy(h) \/ Lookup(h) \/ Acquire(h) \/ Check(h) \/ Written(h)
             \/ Settled(h) \/ Consume(h) \/ MarkerCame(h) \/ Timeout(h) \/ GiveUp(h)
             \/ Reread(h) \/ Store(h)

Step(h) == Begin(h) \/ GoesOn(h)

LoopStep == Output \/ ModeChanges \/ ModeAnswered \/ SetMode
            \/ Placed \/ Dropped \/ TrackedAnew

Next == LoopStep \/ ForegroundChanges \/ Expires \/ \E h \in Handlers : Step(h)

Spec == Init /\ [][Next]_vars

\* The runtime polls every task that can go on, its mutexes are handed on in
\* the order they were asked for, so a task that waits for one gets it, and a
\* call's own deadline passes.  The event loop finishes what it began; what
\* tmux and the shell do next is nobody's duty.
Fairness ==
    /\ SF_vars(ModeAnswered) /\ WF_vars(SetMode)
    /\ \A h \in Handlers : SF_vars(GoesOn(h))

FairSpec == Spec /\ Fairness

-----------------------------------------------------------------------------
\* Properties

Snapshots == [version : Nat, mode : Modes, phase : PhaseFacts,
              integration : Integrations, input : BOOLEAN,
              ctx : Contexts \cup {NoContext}, newest : Nat, status : Mk!Statuses,
              pid : BOOLEAN]
TrackedPanes == [term : Mk!Terminal, mode : Modes, phase : PhaseFacts,
                 integration : Integrations, input : BOOLEAN, pid : BOOLEAN,
                 snap : Snapshots]
Places == {"idle", "policy", "lookup", "send", "check", "write", "settle", "consume",
           "wait", "give_up", "reread", "store", "done"}
Calls == [pc : Places, kind : Kinds, command : Commands, line : {"probe", "main"},
          handle : Incarnations, snap : Snapshots, target : Incarnations, grant : Nat]
Writes == [by : Handlers, kind : Kinds, line : {"probe", "main"}, command : Commands,
           grant : Nat, pane : Incarnations, same : BOOLEAN, snap : Snapshots,
           program : Programs]
Grants == [command : Commands, ctx : Contexts \cup {NoContext}, program : Programs]

TypeOK ==
    /\ panes \in [Incarnations -> TrackedPanes]
    /\ latest \in Incarnations /\ present \in BOOLEAN
    /\ loop \in [doing : {"idle", "mode", "set"},
                 pane : Incarnations \cup {Nobody}]
    /\ loop.doing # "idle" => loop.pane \in Incarnations
    /\ conn \in Handlers \cup {Nobody}
    /\ call \in [Handlers -> Calls]
    /\ grants \in Seq(Grants)
    /\ approvals \in 0..Len(grants) /\ expired \subseteq 1..Len(grants)
    /\ \A h \in Handlers : call[h].grant \in 0..Len(grants)
    /\ program \in Programs
    /\ sent \subseteq Writes

\* One version names one snapshot: as long as the version a call decided at
\* is the pane's, every fact it decided from is still the published one, and
\* no call holds a version the pane has not reached (publish).
VersionNamesSnapshot ==
    \A h \in Handlers :
        LET now == panes[call[h].handle].snap
        IN  /\ call[h].snap.version <= now.version
            /\ call[h].snap.version = now.version => call[h].snap = now

\* A command_run's line goes out only while the published facts are the ones
\* its checks want, however the pane changed in between: no mode, and either
\* an empty prompt or, for the probe, nothing known of the shell at all.
RunsReachAnEmptyPrompt ==
    \A w \in sent : w.kind = "run" /\ w.same =>
        /\ w.snap.mode = "Off"
        /\ w.line = "main" => w.snap.phase = "Input" /\ ~w.snap.input
        /\ w.line = "probe" => w.snap.phase = "Unknown" /\ w.snap.integration = "Unknown"

\* The command runs where it was judged: in the context of the moment of the
\* write the policy allows it, or asks and the person approved this command
\* in this very context.
RunsWhereItWasJudged ==
    \A w \in sent : w.kind = "run" /\ w.line = "main" /\ w.same =>
        \/ w.grant = 0 /\ Verdict(w.command, w.snap.ctx) = "Allow"
        \/ /\ w.grant # 0 /\ Verdict(w.command, w.snap.ctx) = "Ask"
           /\ grants[w.grant].command = w.command /\ grants[w.grant].ctx = w.snap.ctx

Lines == {w \in sent : w.kind # "keys"}

\* At a known prompt or a running program, one version takes one command
\* line: the first makes the phase Unknown, so every other call that decided
\* at that version is refused.
OneLineAtAKnownPhase ==
    \A v, w \in Lines : v.pane = w.pane /\ v.snap.version = w.snap.version
                        /\ v.snap.phase # "Unknown" => v = w

\* Every call comes to its end: no lock is kept, and no wait outlasts its
\* deadline, whatever the pane prints or does not print.
CallsEnd == \A h \in Handlers : call[h].pc # "idle" ~> call[h].pc = "done"

\* decisions.md, the mode check reads the snapshot the write is decided from.
LinesAvoidModes == \A w \in Lines : w.same => w.snap.mode = "Off"

\* approval.rs, an approval is consumed once its command is sent: it covers no
\* second command line after the first one was started.
OneRunPerApproval ==
    \A v, w \in sent : v.grant # 0 /\ v.grant = w.grant /\ v.line = w.line
                       => v.snap.newest = w.snap.newest

\* README.md, an approval is bound to the foreground process as well, and a
\* change of it before execution invalidates it.
ApprovalBindsForeground ==
    \A w \in sent : w.grant # 0 => grants[w.grant].program = w.program

\* vocab.md, one version names one snapshot, and a write goes out only at the
\* version its decision read: also when the pane was tracked anew.
RunsReachAnEmptyPromptAlways ==
    \A w \in sent : w.kind = "run" /\ w.line = "main" =>
        w.snap.mode = "Off" /\ w.snap.phase = "Input" /\ ~w.snap.input

=============================================================================
