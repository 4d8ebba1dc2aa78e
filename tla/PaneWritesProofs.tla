-------------------------- MODULE PaneWritesProofs --------------------------
(***************************************************************************)
(* What PaneWrites guarantees for any number of handlers, commands,        *)
(* contexts, versions and incarnations.                                    *)
(*                                                                         *)
(* A version check at the time of the write says nothing by itself about   *)
(* the checks a call made seconds before.  The inductive invariant ties    *)
(* the two: a call past its checks holds a snapshot that passes them       *)
(* (CallOK), and as long as the version is the same so is the snapshot, as *)
(* every change of a pane is a Later of it.                                *)
(***************************************************************************)
EXTENDS PaneWrites, SequenceTheorems, TLAPS

-----------------------------------------------------------------------------
\* The inductive invariant

\* The snapshot of a pane is the one of its facts.
FactsOf(p) == p.snap = Snapshot(p, p.snap.version)

\* What a pane may become: versions never go back, one version is one
\* snapshot, and whether the shell sends markers is not unlearned.
Later(p, q) ==
    /\ p.snap.version <= q.snap.version
    /\ p.snap.version = q.snap.version => p.snap = q.snap
    /\ p.snap.integration # "Unknown" => q.snap.integration # "Unknown"

\* Policy allows the command in the context, or the grant covers it there.
Judged(command, ctx, grant, gs) ==
    \/ grant = 0 /\ Verdict(command, ctx) = "Allow"
    \/ /\ grant \in 1..Len(gs) /\ Verdict(command, ctx) = "Ask"
       /\ gs[grant].command = command /\ gs[grant].ctx = ctx

\* What a call has made sure of by the time it writes.
CallChecked(c, gs) ==
    /\ c.pc = "idle" => c.grant = 0
    /\ c.pc = "policy" =>
         /\ c.kind = "run" /\ c.line = "main" /\ c.grant = 0
         /\ ~PaneRefuses(c.snap) /\ c.snap.phase # "Unknown"
    /\ c.kind = "run" /\ c.pc \in {"lookup", "send", "check"} =>
         /\ ~PaneRefuses(c.snap)
         /\ c.line = "probe" => c.snap.phase = "Unknown"
         /\ c.line = "main" => /\ c.snap.phase # "Unknown"
                               /\ Judged(c.command, c.snap.ctx, c.grant, gs)
    /\ c.kind = "run" /\ c.line = "probe" => c.grant = 0

CallOK(c, ps, gs, last) ==
    /\ c.handle <= last /\ c.target <= last
    /\ c.snap.version <= ps[c.handle].snap.version
    /\ c.snap.version = ps[c.handle].snap.version => c.snap = ps[c.handle].snap
    /\ CallChecked(c, gs)
    /\ c.pc = "reread" => /\ ps[c.handle].snap.integration # "Unknown"
                          /\ c.kind = "run" => c.line = "probe"

\* What is known of a write that went out.
WriteChecked(w, gs) ==
    w.kind = "run" /\ w.same =>
        /\ w.snap.mode = "Off"
        /\ w.line = "main" => /\ w.snap.phase = "Input" /\ ~w.snap.input
                              /\ Judged(w.command, w.snap.ctx, w.grant, gs)
        /\ w.line = "probe" => w.snap.phase = "Unknown" /\ w.snap.integration = "Unknown"

WriteOK(w, ps, gs, last) ==
    /\ w.pane <= last
    /\ w.snap.version <= ps[w.pane].snap.version
    /\ w.snap.version = ps[w.pane].snap.version => w.snap = ps[w.pane].snap
    /\ w.kind # "keys" /\ w.snap.phase # "Unknown" =>
            w.snap.version < ps[w.pane].snap.version
    /\ WriteChecked(w, gs)

PanesOK ==
    /\ \A i \in Incarnations : FactsOf(panes[i])
    /\ panes[0].snap.version = 0 => panes[0].snap = Blank.snap

CallsOK == \A h \in Handlers : CallOK(call[h], panes, grants, latest)
SentOK == \A w \in sent : WriteOK(w, panes, grants, latest)

IInv == TypeOK /\ PanesOK /\ CallsOK /\ SentOK /\ OneLineAtAKnownPhase

-----------------------------------------------------------------------------
\* Markers

\* Each marker makes a terminal of a terminal (Osc133Parser::handle_marker).
LEMMA MarkTypes ==
    ASSUME NEW t \in Mk!Terminal
    PROVE  /\ Mk!MarkA(t) \in Mk!Terminal
           /\ Mk!MarkB(t) \in Mk!Terminal
           /\ Mk!MarkC(t) \in Mk!Terminal
           /\ \A text \in BOOLEAN : Mk!MarkD(t, text) \in Mk!Terminal
           /\ \A ctx \in Contexts : Mk!MarkOsc7(t, ctx) \in Mk!Terminal
<1>1. Mk!MarkA(t) \in Mk!Terminal
  BY DEF Mk!MarkA, Mk!Terminal, Mk!Phases, Mk!Statuses
<1>2. Mk!MarkB(t) \in Mk!Terminal
  BY DEF Mk!MarkB, Mk!Terminal, Mk!Phases, Mk!Statuses
<1>3. Mk!MarkC(t) \in Mk!Terminal
  <2>1. CASE t.phase = "Executing"
    BY <2>1 DEF Mk!MarkC, Mk!Terminal
  <2>2. CASE t.phase # "Executing"
    BY <2>2 DEF Mk!MarkC, Mk!Terminal, Mk!Phases, Mk!Statuses
  <2> QED BY <2>1, <2>2
<1>d. [t EXCEPT !.phase = "Idle", !.id = t.id + 1, !.status = "output_done"] \in Mk!Terminal
  <2>1. t.id + 1 \in Nat
    BY DEF Mk!Terminal
  <2>2. ASSUME NEW n \in Nat
        PROVE  [t EXCEPT !.phase = "Idle", !.id = n, !.status = "output_done"] \in Mk!Terminal
    BY DEF Mk!Terminal, Mk!Phases, Mk!Statuses
  <2> QED BY <2>1, <2>2, Zenon
<1>4. ASSUME NEW text \in BOOLEAN PROVE Mk!MarkD(t, text) \in Mk!Terminal
  <2>1. CASE t.phase = "Executing" \/ ~text
    BY <2>1 DEF Mk!MarkD, Mk!Terminal, Mk!Phases, Mk!Statuses
  <2>2. CASE ~(t.phase = "Executing" \/ ~text)
    <3>1. Mk!MarkD(t, text) = [t EXCEPT !.phase = "Idle", !.id = t.id + 1,
                                        !.status = "output_done"]
      BY <2>2, Zenon DEF Mk!MarkD
    <3> QED BY <3>1, <1>d, Zenon
  <2> QED BY <2>1, <2>2
<1>5. ASSUME NEW ctx \in Contexts PROVE Mk!MarkOsc7(t, ctx) \in Mk!Terminal
  BY DEF Mk!MarkOsc7, Mk!Terminal
<1> QED BY <1>1, <1>2, <1>3, <1>4, <1>5

\* One more marker keeps the type of what a chunk may leave.
LEMMA OneMoreType ==
    ASSUME NEW S, \A x \in S : x.term \in Mk!Terminal
    PROVE  \A x \in OneMore(S) : x.term \in Mk!Terminal
<1> SUFFICES ASSUME NEW x \in OneMore(S)
             PROVE  x.term \in Mk!Terminal
  OBVIOUS
<1>1. PICK y \in S : x \in {Left(Mk!MarkA(y.term), TRUE), Left(Mk!MarkB(y.term), TRUE),
                           Left(Mk!MarkC(y.term), TRUE)}
             \cup {Left(Mk!MarkD(y.term, text), TRUE) : text \in BOOLEAN}
             \cup {Left(Mk!MarkOsc7(y.term, ctx), y.marked) : ctx \in Contexts}
  BY Zenon DEF OneMore
<1>2. y.term \in Mk!Terminal
  OBVIOUS
<1>3. \A u, m : Left(u, m).term = u
  BY DEF Left
<1>4. CASE x \in {Left(Mk!MarkA(y.term), TRUE), Left(Mk!MarkB(y.term), TRUE),
                 Left(Mk!MarkC(y.term), TRUE)}
  BY <1>2, <1>3, <1>4, MarkTypes, Zenon
<1>5. CASE x \in {Left(Mk!MarkD(y.term, text), TRUE) : text \in BOOLEAN}
  <2>1. PICK text \in BOOLEAN : x = Left(Mk!MarkD(y.term, text), TRUE)
    BY <1>5, Zenon
  <2>2. x.term = Mk!MarkD(y.term, text)
    BY <1>3, <2>1, Zenon
  <2>3. Mk!MarkD(y.term, text) \in Mk!Terminal
    BY <1>2, MarkTypes, Zenon
  <2> QED BY <2>2, <2>3, Zenon
<1>6. CASE x \in {Left(Mk!MarkOsc7(y.term, ctx), y.marked) : ctx \in Contexts}
  <2>1. PICK ctx \in Contexts : x = Left(Mk!MarkOsc7(y.term, ctx), y.marked)
    BY <1>6, Zenon
  <2>2. x.term = Mk!MarkOsc7(y.term, ctx)
    BY <1>3, <2>1, Zenon
  <2>3. Mk!MarkOsc7(y.term, ctx) \in Mk!Terminal
    BY <1>2, MarkTypes, Zenon
  <2> QED BY <2>2, <2>3, Zenon
<1> QED BY <1>1, <1>4, <1>5, <1>6

\* A chunk leaves a terminal (PaneProcessor::process_chunk).
LEMMA ChunkType ==
    ASSUME NEW t \in Mk!Terminal
    PROVE  \A x \in ProcessChunk(t) : x.term \in Mk!Terminal
<1> DEFINE none == {Left(t, FALSE)}
           one == OneMore(none)
           two == OneMore(one)
           three == OneMore(two)
           Typed(S) == \A x \in S : x.term \in Mk!Terminal
<1>1. Typed(none) BY DEF Left
<1> HIDE DEF none
<1>2. Typed(one) BY <1>1, OneMoreType
<1> HIDE DEF one
<1>3. Typed(two) BY <1>2, OneMoreType
<1> HIDE DEF two
<1>4. Typed(three) BY <1>3, OneMoreType
<1> HIDE DEF three
<1>5. Typed(OneMore(three)) BY <1>4, OneMoreType
<1>6. ProcessChunk(t) = none \cup one \cup two \cup three \cup OneMore(three)
  BY DEF ProcessChunk, none, one, two, three
<1> QED BY <1>1, <1>2, <1>3, <1>4, <1>5, <1>6

-----------------------------------------------------------------------------
\* Panes

\* The snapshot of a pane's facts is a snapshot (PaneState::snapshot).
LEMMA SnapshotType ==
    ASSUME NEW p \in TrackedPanes, NEW v \in Nat
    PROVE  Snapshot(p, v) \in Snapshots
BY DEF Snapshot, Snapshots, TrackedPanes, Mk!Terminal

\* A pane tracked for the first time (TrackedPane::new).
LEMMA BlankFacts ==
    Blank \in TrackedPanes /\ FactsOf(Blank) /\ Blank.snap \in Snapshots
    /\ Blank.snap.version = 0
<1>1. Mk!NewTerminal \in Mk!Terminal
  BY DEF Mk!NewTerminal, Mk!Terminal, Mk!Phases, Mk!Statuses
<1> QED
  BY <1>1 DEF Blank, Snapshot, Snapshots, TrackedPanes, FactsOf, Modes, PhaseFacts,
              Integrations, Mk!Terminal

\* publish makes the snapshot one of the facts, at the same version exactly
\* when nothing changed.
LEMMA PublishedFacts ==
    ASSUME NEW p \in TrackedPanes, NEW q \in TrackedPanes, q.snap = p.snap,
           FactsOf(p), p.integration # "Unknown" => q.integration # "Unknown"
    PROVE  /\ Published(q) \in TrackedPanes
           /\ FactsOf(Published(q))
           /\ Later(p, Published(q))
           /\ Published(q).snap.integration = q.integration
           /\ Snapshot(q, p.snap.version) # p.snap =>
                    p.snap.version < Published(q).snap.version
<1> DEFINE v == p.snap.version
           next == Snapshot(q, v)
<1>1. v \in Nat /\ p.snap \in Snapshots
  BY DEF TrackedPanes, Snapshots
<1>2. next \in Snapshots /\ next.version = v /\ next.integration = q.integration
  BY <1>1, SnapshotType DEF Snapshot
<1>3. p.snap.integration = p.integration
  BY DEF FactsOf, Snapshot
<1>4. CASE next = p.snap
  <2>1. Published(q) = q
    BY <1>4 DEF Published
  <2> QED
    BY <1>1, <1>2, <1>3, <1>4, <2>1 DEF FactsOf, Later
<1>5. CASE next # p.snap
  <2> DEFINE s == [next EXCEPT !.version = v + 1]
  <2>1. Published(q) = [q EXCEPT !.snap = s]
    BY <1>5 DEF Published
  <2>2. s \in Snapshots /\ s.version = v + 1 /\ s.integration = q.integration
    BY <1>1, <1>2 DEF Snapshots
  <2>3. s = Snapshot(q, v + 1)
    BY DEF Snapshot
  <2> HIDE DEF s, next
  <2>4. [q EXCEPT !.snap = s] \in TrackedPanes
    BY <2>2 DEF TrackedPanes
  <2>5. /\ [q EXCEPT !.snap = s].snap = s
        /\ Snapshot([q EXCEPT !.snap = s], v + 1) = Snapshot(q, v + 1)
    BY DEF TrackedPanes, Snapshot
  <2> QED
    BY <1>1, <1>3, <2>1, <2>2, <2>3, <2>4, <2>5 DEF FactsOf, Later
<1> QED BY <1>4, <1>5

\* A pane as execute_actions leaves it.
LEMMA FreshFacts ==
    ASSUME NEW pid \in BOOLEAN, NEW mode \in Modes
    PROVE  /\ Fresh(pid, mode) \in TrackedPanes
           /\ FactsOf(Fresh(pid, mode))
           /\ Fresh(pid, mode).snap.version = 0 => Fresh(pid, mode).snap = Blank.snap
<1> DEFINE p == [Blank EXCEPT !.pid = pid]
           q == Published(p)
           r == [q EXCEPT !.mode = mode]
<1>1. p \in TrackedPanes /\ p.snap = Blank.snap /\ p.integration = Blank.integration
  BY BlankFacts DEF TrackedPanes
<1> HIDE DEF p
<1>2. q \in TrackedPanes /\ FactsOf(q) /\ Later(Blank, q)
  BY <1>1, BlankFacts, PublishedFacts
<1>3. Fresh(pid, mode) = Published(r)
  BY DEF Fresh, p, q, r
<1> HIDE DEF q
<1>4. r \in TrackedPanes /\ r.snap = q.snap /\ r.integration = q.integration
  BY <1>2 DEF TrackedPanes
<1> HIDE DEF r
<1>5. Published(r) \in TrackedPanes /\ FactsOf(Published(r)) /\ Later(q, Published(r))
  BY <1>2, <1>4, PublishedFacts
<1>6. q.snap.version \in Nat /\ Published(r).snap.version \in Nat
  BY <1>2, <1>5 DEF TrackedPanes, Snapshots
<1> QED BY <1>2, <1>3, <1>5, <1>6, BlankFacts DEF Later

\* A pane that stays as it is may.
LEMMA LaterSelf == ASSUME NEW p \in TrackedPanes PROVE Later(p, p)
BY DEF Later, TrackedPanes, Snapshots

-----------------------------------------------------------------------------
\* What later panes and more approvals leave of a call and a write

\* More approvals: those there were stay as they were.
MoreGrants(gs, hs) ==
    Len(gs) <= Len(hs) /\ \A k \in 1..Len(gs) : hs[k] = gs[k]

\* A verdict stands when approvals are added (ApprovalStore::store).
LEMMA JudgedLater ==
    ASSUME NEW gs \in Seq(Grants), NEW hs \in Seq(Grants), MoreGrants(gs, hs),
           NEW command, NEW ctx, NEW grant, Judged(command, ctx, grant, gs)
    PROVE  Judged(command, ctx, grant, hs)
<1>1. Len(gs) \in Nat /\ Len(hs) \in Nat
  BY LenProperties
<1>2. grant \in 1..Len(gs) => grant \in 1..Len(hs) /\ hs[grant] = gs[grant]
  BY <1>1 DEF MoreGrants
<1> QED BY <1>2 DEF Judged

\* What a call knows stays true when the panes move on without it.
LEMMA CallLater ==
    ASSUME NEW c \in Calls,
           NEW ps \in [Incarnations -> TrackedPanes], NEW qs \in [Incarnations -> TrackedPanes],
           NEW gs \in Seq(Grants), NEW hs \in Seq(Grants), MoreGrants(gs, hs),
           NEW last \in Incarnations, NEW last2 \in Incarnations, last <= last2,
           \A i \in 0..last : Later(ps[i], qs[i]),
           CallOK(c, ps, gs, last)
    PROVE  CallOK(c, qs, hs, last2)
<1>1. MaxIncarnation \in Nat /\ last \in Nat /\ last2 \in Nat
  BY ConstantsAssumption DEF Incarnations
<1>2. c.handle \in Nat /\ c.target \in Nat /\ c.handle \in Incarnations
  BY <1>1 DEF Calls, Incarnations
<1>3. c.handle <= last /\ c.target <= last
  BY DEF CallOK
<1>4. c.handle \in 0..last /\ c.handle <= last2 /\ c.target <= last2
  BY <1>1, <1>2, <1>3
<1>5. Later(ps[c.handle], qs[c.handle])
  BY <1>4
<1>6. /\ ps[c.handle].snap.version \in Nat /\ qs[c.handle].snap.version \in Nat
      /\ c.snap.version \in Nat
  BY <1>2 DEF Calls, TrackedPanes, Snapshots
<1>7. /\ c.snap.version <= qs[c.handle].snap.version
      /\ c.snap.version = qs[c.handle].snap.version => c.snap = qs[c.handle].snap
  BY <1>5, <1>6 DEF CallOK, Later
<1>8. CallChecked(c, hs)
  BY JudgedLater DEF CallOK, CallChecked
<1>9. c.pc = "reread" => /\ qs[c.handle].snap.integration # "Unknown"
                         /\ c.kind = "run" => c.line = "probe"
  BY <1>5 DEF CallOK, Later
<1> QED BY <1>4, <1>7, <1>8, <1>9 DEF CallOK

\* What is known of a write stays true when its pane moves on.
LEMMA WriteLater ==
    ASSUME NEW w \in Writes,
           NEW ps \in [Incarnations -> TrackedPanes], NEW qs \in [Incarnations -> TrackedPanes],
           NEW gs \in Seq(Grants), NEW hs \in Seq(Grants), MoreGrants(gs, hs),
           NEW last \in Incarnations, NEW last2 \in Incarnations, last <= last2,
           \A i \in 0..last : Later(ps[i], qs[i]),
           WriteOK(w, ps, gs, last)
    PROVE  WriteOK(w, qs, hs, last2)
<1>1. MaxIncarnation \in Nat /\ last \in Nat /\ last2 \in Nat
  BY ConstantsAssumption DEF Incarnations
<1>2. w.pane \in Nat /\ w.pane \in Incarnations
  BY <1>1 DEF Writes, Incarnations
<1>3. w.pane <= last
  BY DEF WriteOK
<1>4. w.pane \in 0..last /\ w.pane <= last2
  BY <1>1, <1>2, <1>3
<1>5. Later(ps[w.pane], qs[w.pane])
  BY <1>4
<1>6. /\ ps[w.pane].snap.version \in Nat /\ qs[w.pane].snap.version \in Nat
      /\ w.snap.version \in Nat
  BY <1>2 DEF Writes, TrackedPanes, Snapshots
<1>7. /\ w.snap.version <= qs[w.pane].snap.version
      /\ w.snap.version = qs[w.pane].snap.version => w.snap = qs[w.pane].snap
      /\ w.kind # "keys" /\ w.snap.phase # "Unknown" =>
            w.snap.version < qs[w.pane].snap.version
  BY <1>5, <1>6 DEF WriteOK, Later
<1>8. WriteChecked(w, hs)
  BY JudgedLater DEF WriteOK, WriteChecked
<1> QED BY <1>4, <1>7, <1>8 DEF WriteOK

\* A step that sends nothing keeps the invariant when every pane moves on as
\* it may and every call that moved knows what it should.
LEMMA StepKeeps ==
    ASSUME IInv, TypeOK', PanesOK',
           latest <= latest', \A i \in 0..latest : Later(panes[i], panes'[i]),
           MoreGrants(grants, grants'),
           \A h \in Handlers : \/ call'[h] = call[h]
                               \/ CallOK(call'[h], panes', grants', latest'),
           sent' = sent
    PROVE  IInv'
<1>1. CallsOK'
  <2> SUFFICES ASSUME NEW h \in Handlers
               PROVE  CallOK(call'[h], panes', grants', latest')
    BY DEF CallsOK
  <2>1. CASE call'[h] = call[h]
    <3>1. call[h] \in Calls /\ CallOK(call[h], panes, grants, latest)
      BY DEF IInv, CallsOK, TypeOK
    <3>2. CallOK(call[h], panes', grants', latest')
      BY <3>1, CallLater DEF IInv, TypeOK
    <3> QED BY <2>1, <3>2
  <2> QED BY <2>1
<1>2. SentOK'
  <2> SUFFICES ASSUME NEW w \in sent
               PROVE  WriteOK(w, panes', grants', latest')
    BY DEF SentOK
  <2>1. w \in Writes /\ WriteOK(w, panes, grants, latest)
    BY DEF IInv, SentOK, TypeOK
  <2> QED BY <2>1, WriteLater DEF IInv, TypeOK
<1>3. OneLineAtAKnownPhase'
  BY DEF IInv, OneLineAtAKnownPhase, Lines
<1> QED BY <1>1, <1>2, <1>3 DEF IInv

\* The approvals there are stay as they are.
LEMMA SameGrants == ASSUME NEW gs \in Seq(Grants) PROVE MoreGrants(gs, gs)
BY LenProperties DEF MoreGrants

-----------------------------------------------------------------------------
\* Steps of the panes

\* A pane that publishes moves on, and the others stay.
LEMMA PaneMoves ==
    ASSUME IInv, NEW i \in Incarnations, NEW q \in TrackedPanes,
           q.snap = panes[i].snap,
           panes[i].integration # "Unknown" => q.integration # "Unknown",
           panes' = [panes EXCEPT ![i] = Published(q)]
    PROVE  /\ panes' \in [Incarnations -> TrackedPanes]
           /\ PanesOK'
           /\ \A j \in Incarnations : Later(panes[j], panes'[j])
<1>1. panes \in [Incarnations -> TrackedPanes] /\ panes[i] \in TrackedPanes
  BY DEF IInv, TypeOK
<1>2. FactsOf(panes[i])
  BY DEF IInv, PanesOK
<1>3. Published(q) \in TrackedPanes /\ FactsOf(Published(q)) /\ Later(panes[i], Published(q))
  BY <1>1, <1>2, PublishedFacts
<1>4. panes' \in [Incarnations -> TrackedPanes]
  BY <1>1, <1>3
<1>5. ASSUME NEW j \in Incarnations
      PROVE  Later(panes[j], panes'[j]) /\ FactsOf(panes'[j])
  <2>1. CASE j = i
    BY <1>1, <1>3, <2>1
  <2>2. CASE j # i
    <3>1. panes'[j] = panes[j] /\ panes[j] \in TrackedPanes
      BY <1>1, <2>2
    <3>2. FactsOf(panes[j])
      BY DEF IInv, PanesOK
    <3> QED BY <3>1, <3>2, LaterSelf
  <2> QED BY <2>1, <2>2
<1>6. 0 \in Incarnations
  BY ConstantsAssumption DEF Incarnations
<1>7. panes[0].snap.version \in Nat /\ panes'[0].snap.version \in Nat
  BY <1>1, <1>4, <1>6 DEF TrackedPanes, Snapshots
<1>8. panes'[0].snap.version = 0 => panes'[0].snap = Blank.snap
  BY <1>5, <1>6, <1>7 DEF IInv, PanesOK, Later
<1> QED BY <1>4, <1>5, <1>8 DEF PanesOK

\* A step in which a pane publishes and only the event loop moves.
LEMMA LoopMoves ==
    ASSUME IInv, NEW i \in Incarnations, NEW q \in TrackedPanes,
           q.snap = panes[i].snap,
           panes[i].integration # "Unknown" => q.integration # "Unknown",
           panes' = [panes EXCEPT ![i] = Published(q)],
           loop' \in [doing : {"idle", "mode", "set"}, pane : Incarnations \cup {Nobody}],
           loop'.doing # "idle" => loop'.pane \in Incarnations,
           UNCHANGED <<latest, present, program, conn, call, askVars, sent>>
    PROVE  IInv'
<1>1. /\ panes' \in [Incarnations -> TrackedPanes]
      /\ PanesOK'
      /\ \A j \in Incarnations : Later(panes[j], panes'[j])
  BY PaneMoves
<1>2. TypeOK'
  BY <1>1 DEF IInv, TypeOK, askVars
<1>3. /\ latest <= latest' /\ \A j \in 0..latest : Later(panes[j], panes'[j])
      /\ MoreGrants(grants, grants')
  BY <1>1, ConstantsAssumption, SameGrants DEF IInv, TypeOK, Incarnations, askVars
<1> QED BY <1>1, <1>2, <1>3, StepKeeps

\* %output (TrackedPane::apply_output).
LEMMA OutputStep == ASSUME IInv, Output PROVE IInv'
<1> DEFINE P == panes[latest]
<1>1. P \in TrackedPanes /\ P.term \in Mk!Terminal /\ latest \in Incarnations
  BY DEF IInv, TypeOK, TrackedPanes
<1>2. PICK x \in ProcessChunk(P.term) :
        LET p == [panes[latest] EXCEPT !.term = x.term]
            q == IF x.marked THEN [p EXCEPT !.phase = MarkedPhase(p.term.phase),
                                            !.integration = "true"]
                             ELSE p
        IN  /\ x.term.id <= MaxId
            /\ \E input \in Inputs(q) : Update(latest, [q EXCEPT !.input = input])
  BY Zenon DEF Output
<1>3. x.term \in Mk!Terminal
  BY <1>1, ChunkType
<1> DEFINE p == [P EXCEPT !.term = x.term]
           marked == [p EXCEPT !.phase = MarkedPhase(p.term.phase), !.integration = "true"]
           q == IF x.marked THEN marked ELSE p
<1>4. PICK input \in Inputs(q) : Update(latest, [q EXCEPT !.input = input])
  BY <1>2, Zenon
<1>5. input \in BOOLEAN
  BY <1>4, Zenon DEF Inputs
<1>6. p \in TrackedPanes /\ p.snap = P.snap /\ p.integration = P.integration
      /\ p.term = x.term
  BY <1>1, <1>3 DEF TrackedPanes
<1> HIDE DEF p
<1>7. MarkedPhase(p.term.phase) \in PhaseFacts
  BY <1>3, <1>6 DEF MarkedPhase, PhaseFacts, Mk!Terminal, Mk!Phases
<1>8. marked \in TrackedPanes /\ marked.snap = P.snap /\ marked.integration = "true"
  BY <1>6, <1>7 DEF TrackedPanes, Integrations
<1> HIDE DEF marked
<1>9. /\ q \in TrackedPanes /\ q.snap = P.snap
      /\ P.integration # "Unknown" => q.integration # "Unknown"
  <2>1. CASE x.marked BY <1>8, <2>1, Zenon
  <2>2. CASE ~x.marked BY <1>6, <2>2, Zenon
  <2> QED BY <2>1, <2>2
<1> HIDE DEF q
<1>10. /\ [q EXCEPT !.input = input] \in TrackedPanes
       /\ [q EXCEPT !.input = input].snap = P.snap
       /\ [q EXCEPT !.input = input].integration = q.integration
  BY <1>5, <1>9 DEF TrackedPanes
<1>11. panes' = [panes EXCEPT ![latest] = Published([q EXCEPT !.input = input])]
  BY <1>4 DEF Update
<1>12. UNCHANGED <<latest, present, program, loop, conn, call, askVars, sent>>
  BY DEF Output
<1> QED BY <1>1, <1>9, <1>10, <1>11, <1>12, LoopMoves DEF IInv, TypeOK

\* %pane-mode-changed (TrackedPane::set_mode with Unknown).
LEMMA ModeChangesStep == ASSUME IInv, ModeChanges PROVE IInv'
<1> DEFINE q == [panes[latest] EXCEPT !.mode = "Unknown"]
<1>1. panes[latest] \in TrackedPanes /\ latest \in Incarnations
  BY DEF IInv, TypeOK
<1>2. q \in TrackedPanes /\ q.snap = panes[latest].snap
      /\ q.integration = panes[latest].integration
  BY <1>1 DEF TrackedPanes, Modes
<1>3. panes' = [panes EXCEPT ![latest] = Published(q)]
  BY DEF ModeChanges, Update
<1> HIDE DEF q
<1>4. /\ loop' \in [doing : {"idle", "mode", "set"}, pane : Incarnations \cup {Nobody}]
      /\ loop'.doing # "idle" => loop'.pane \in Incarnations
      /\ UNCHANGED <<latest, present, program, conn, call, askVars, sent>>
  BY <1>1 DEF ModeChanges
<1> QED BY <1>1, <1>2, <1>3, <1>4, LoopMoves

\* The mode tmux answered is set, or Unknown after a failure.
LEMMA SetModeStep == ASSUME IInv, SetMode PROVE IInv'
<1> DEFINE i == loop.pane
<1>1. i \in Incarnations /\ panes[i] \in TrackedPanes
  BY DEF IInv, TypeOK, SetMode
<1>2. PICK mode \in Modes : Update(i, [panes[i] EXCEPT !.mode = mode])
  BY DEF SetMode
<1> DEFINE q == [panes[i] EXCEPT !.mode = mode]
<1>3. q \in TrackedPanes /\ q.snap = panes[i].snap /\ q.integration = panes[i].integration
  BY <1>1 DEF TrackedPanes
<1>4. panes' = [panes EXCEPT ![i] = Published(q)]
  BY <1>2 DEF Update
<1> HIDE DEF q
<1>5. /\ loop' \in [doing : {"idle", "mode", "set"}, pane : Incarnations \cup {Nobody}]
      /\ loop'.doing = "idle"
      /\ UNCHANGED <<latest, present, program, conn, call, askVars, sent>>
  BY DEF SetMode, Idle
<1> HIDE DEF i
<1> QED BY <1>1, <1>3, <1>4, <1>5, LoopMoves

\* A layout places the pane (TrackedPane::place).
LEMMA PlacedStep == ASSUME IInv, Placed PROVE IInv'
<1>1. panes[latest] \in TrackedPanes /\ latest \in Incarnations
  BY DEF IInv, TypeOK
<1>2. PICK input \in Inputs(panes[latest]) :
        Update(latest, [panes[latest] EXCEPT !.input = input])
  BY DEF Placed
<1>3. input \in BOOLEAN
  BY <1>2, Zenon DEF Inputs
<1> DEFINE q == [panes[latest] EXCEPT !.input = input]
<1>4. q \in TrackedPanes /\ q.snap = panes[latest].snap
      /\ q.integration = panes[latest].integration
  BY <1>1, <1>3 DEF TrackedPanes
<1>5. panes' = [panes EXCEPT ![latest] = Published(q)]
  BY <1>2 DEF Update
<1> HIDE DEF q
<1>6. UNCHANGED <<latest, present, program, loop, conn, call, askVars, sent>>
  BY DEF Placed
<1> QED BY <1>1, <1>4, <1>5, <1>6, LoopMoves DEF IInv, TypeOK

\* A pane its window no longer shows is dropped.
LEMMA DroppedStep == ASSUME IInv, Dropped PROVE IInv'
<1>2. TypeOK'
  BY DEF IInv, TypeOK, Dropped, askVars
<1>3. PanesOK' /\ \A i \in 0..latest : Later(panes[i], panes'[i])
  <2>1. latest \in Incarnations /\ MaxIncarnation \in Nat
    BY ConstantsAssumption DEF IInv, TypeOK
  <2>2. \A i \in 0..latest : i \in Incarnations
    BY <2>1 DEF Incarnations
  <2> QED BY <2>2, LaterSelf DEF Dropped, IInv, TypeOK, PanesOK
<1>4. latest <= latest' /\ MoreGrants(grants, grants')
  BY ConstantsAssumption, SameGrants DEF Dropped, IInv, TypeOK, Incarnations, askVars
<1> QED BY <1>2, <1>3, <1>4, StepKeeps DEF Dropped

\* A pane tracked anew is another one: those before it stay as they are.
LEMMA TrackedAnewStep == ASSUME IInv, TrackedAnew PROVE IInv'
<1>1. PICK pid \in PidAnswers, mode \in Modes :
        panes' = [panes EXCEPT ![latest + 1] = Fresh(pid, mode)]
  BY DEF TrackedAnew
<1>2. pid \in BOOLEAN
  BY ConstantsAssumption, Zenon
<1> DEFINE q == Fresh(pid, mode)
<1>3. q \in TrackedPanes /\ FactsOf(q)
  BY <1>2, FreshFacts
<1> HIDE DEF q
<1>4. latest \in Nat /\ MaxIncarnation \in Nat /\ latest < MaxIncarnation /\ latest' = latest + 1
  BY ConstantsAssumption DEF IInv, TypeOK, Incarnations, TrackedAnew
<1>5. latest' \in Incarnations /\ latest <= latest' /\ latest + 1 # 0
      /\ \A i \in 0..latest : i \in Incarnations /\ i # latest + 1
  BY <1>4 DEF Incarnations
<1>6. panes \in [Incarnations -> TrackedPanes]
  BY DEF IInv, TypeOK
<1>7. panes' \in [Incarnations -> TrackedPanes] /\ panes' = [panes EXCEPT ![latest + 1] = q]
  BY <1>1, <1>3, <1>6 DEF q
<1>8. TypeOK'
  BY <1>5, <1>7 DEF IInv, TypeOK, TrackedAnew, askVars
<1>9. PanesOK'
  <2>1. 0 \in Incarnations
    BY <1>4 DEF Incarnations
  <2>2. panes'[0] = panes[0]
    BY <1>5, <1>6, <1>7, <2>1
  <2>3. \A i \in Incarnations : FactsOf(panes'[i])
    BY <1>3, <1>6, <1>7 DEF IInv, PanesOK
  <2> QED BY <2>2, <2>3 DEF IInv, PanesOK
<1>10. \A i \in 0..latest : Later(panes[i], panes'[i])
  <2> SUFFICES ASSUME NEW i \in 0..latest PROVE Later(panes[i], panes'[i])
    OBVIOUS
  <2>1. panes'[i] = panes[i] /\ panes[i] \in TrackedPanes
    BY <1>5, <1>6, <1>7
  <2> QED BY <2>1, LaterSelf
<1>11. MoreGrants(grants, grants') /\ sent' = sent /\ \A h \in Handlers : call'[h] = call[h]
  BY SameGrants DEF TrackedAnew, IInv, TypeOK, askVars
<1> QED BY <1>5, <1>8, <1>9, <1>10, <1>11, StepKeeps

-----------------------------------------------------------------------------
\* Steps that leave the panes alone

\* Panes and approvals as they are: only the calls have something to show.
LEMMA StillPanes ==
    ASSUME IInv, TypeOK', UNCHANGED <<panes, latest, grants, sent>>,
           \A h \in Handlers : \/ call'[h] = call[h]
                               \/ CallOK(call'[h], panes, grants, latest)
    PROVE  IInv'
<1>1. PanesOK' /\ \A i \in 0..latest : Later(panes[i], panes'[i])
  <2>1. latest \in Incarnations /\ MaxIncarnation \in Nat
    BY ConstantsAssumption DEF IInv, TypeOK
  <2>2. \A i \in 0..latest : i \in Incarnations
    BY <2>1 DEF Incarnations
  <2> QED BY <2>2, LaterSelf DEF IInv, TypeOK, PanesOK
<1>2. latest <= latest' /\ MoreGrants(grants, grants')
  BY ConstantsAssumption, SameGrants DEF IInv, TypeOK, Incarnations
<1>3. \A h \in Handlers : \/ call'[h] = call[h]
                          \/ CallOK(call'[h], panes', grants', latest')
  OBVIOUS
<1> QED BY <1>1, <1>2, <1>3, StepKeeps

\* tmux answers the mode query: the pane is as it was until the mode is set.
LEMMA ModeAnsweredStep == ASSUME IInv, ModeAnswered PROVE IInv'
<1>1. loop' = [loop EXCEPT !.doing = "set"]
      /\ UNCHANGED <<panes, latest, present, program, conn, call, askVars, sent>>
  BY DEF ModeAnswered
<1>2. loop.pane \in Incarnations /\ loop \in [doing : {"idle", "mode", "set"},
                                             pane : Incarnations \cup {Nobody}]
  BY DEF IInv, TypeOK, ModeAnswered
<1>3. TypeOK'
  BY <1>1, <1>2 DEF IInv, TypeOK, askVars
<1> QED BY <1>1, <1>3, StillPanes DEF askVars

\* Another program in the foreground.
LEMMA ForegroundStep == ASSUME IInv, ForegroundChanges PROVE IInv'
<1>1. TypeOK'
  BY DEF IInv, TypeOK, ForegroundChanges, askVars
<1> QED BY <1>1, StillPanes DEF ForegroundChanges, askVars

\* An approval expires.
LEMMA ExpiresStep == ASSUME IInv, Expires PROVE IInv'
<1>1. Len(grants) \in Nat /\ approvals \in 1..Len(grants)
  BY LenProperties DEF IInv, TypeOK, Expires
<1>2. TypeOK'
  BY <1>1 DEF IInv, TypeOK, Expires, paneVars
<1> QED BY <1>2, StillPanes DEF Expires, paneVars

\* A call that moves while everything it reads stays: it knows what it should.
LEMMA CallMoves ==
    ASSUME IInv, NEW h \in Handlers, NEW c \in Calls, c.grant \in 0..Len(grants),
           call' = [call EXCEPT ![h] = c],
           CallOK(c, panes, grants, latest),
           UNCHANGED <<paneVars, grants, expired, sent>>,
           conn' \in Handlers \cup {Nobody}, approvals' \in 0..Len(grants)
    PROVE  IInv'
<1>1. call \in [Handlers -> Calls]
  BY DEF IInv, TypeOK
<1>2. call' \in [Handlers -> Calls] /\ \A k \in Handlers : call'[k] = IF k = h THEN c ELSE call[k]
  BY <1>1
<1>3. \A k \in Handlers : call'[k].grant \in 0..Len(grants)
  BY <1>2 DEF IInv, TypeOK
<1>4. TypeOK'
  BY <1>2, <1>3 DEF IInv, TypeOK, paneVars
<1> QED BY <1>2, <1>4, StillPanes DEF paneVars

\* A call that has not begun, or is over, is a call.
LEMMA NothingHeld ==
    ASSUME NEW kind \in Kinds, NEW command \in Commands, NEW pc \in {"idle", "done"}
    PROVE  LET c == Unheld(pc, kind, command)
           IN  /\ c \in Calls /\ c.pc = pc /\ c.grant = 0 /\ c.handle = 0 /\ c.target = 0
               /\ c.snap = Blank.snap
<1>1. Blank.snap \in Snapshots
  BY BlankFacts
<1>2. 0 \in Incarnations
  BY ConstantsAssumption DEF Incarnations
<1> QED BY <1>1, <1>2 DEF Unheld, Calls, Places

\* Such a call knows what it should.
LEMMA NothingHeldOK ==
    ASSUME IInv, NEW c \in Calls, c.pc \in {"idle", "done"}, c.grant = 0,
           c.handle = 0, c.target = 0, c.snap = Blank.snap
    PROVE  CallOK(c, panes, grants, latest)
<1>1. latest \in Nat /\ 0 \in Incarnations
  BY ConstantsAssumption DEF IInv, TypeOK, Incarnations
<1>2. panes[0].snap.version \in Nat /\ c.snap.version = 0
  BY <1>1, BlankFacts DEF IInv, TypeOK, TrackedPanes, Snapshots
<1>3. panes[0].snap.version = 0 => c.snap = panes[0].snap
  BY DEF IInv, PanesOK
<1> QED BY <1>1, <1>2, <1>3 DEF CallOK, CallChecked

\* A call that ends keeps the invariant.
LEMMA OverMoves ==
    ASSUME IInv, NEW h \in Handlers, Over(h),
           UNCHANGED <<paneVars, grants, expired, sent>>,
           conn' \in Handlers \cup {Nobody}, approvals' \in 0..Len(grants)
    PROVE  IInv'
<1> DEFINE c == Unheld("done", call[h].kind, call[h].command)
<1>1. call[h] \in Calls /\ call \in [Handlers -> Calls]
  BY DEF IInv, TypeOK
<1>2. call[h].kind \in Kinds /\ call[h].command \in Commands
  BY <1>1 DEF Calls
<1>3. call' = [call EXCEPT ![h] = c]
  BY <1>1 DEF Over
<1>4. /\ c \in Calls /\ c.pc = "done" /\ c.grant = 0 /\ c.handle = 0 /\ c.target = 0
      /\ c.snap = Blank.snap
  BY <1>2, NothingHeld
<1> HIDE DEF c
<1>5. CallOK(c, panes, grants, latest)
  BY <1>4, NothingHeldOK
<1>6. c.grant \in 0..Len(grants)
  BY <1>4, LenProperties DEF IInv, TypeOK
<1> QED BY <1>3, <1>4, <1>5, <1>6, CallMoves

\* A call that takes a pane's published snapshot now knows it.
LEMMA GoOnMoves ==
    ASSUME IInv, NEW h \in Handlers, NEW where \in Places, NEW which \in {"probe", "main"},
           NEW i \in Incarnations, i <= latest, GoOn(h, where, which, i, panes[i].snap),
           where # "reread", UNCHANGED <<paneVars, conn, askVars, sent>>,
           CallChecked([call[h] EXCEPT !.pc = where, !.line = which, !.handle = i,
                                       !.snap = panes[i].snap], grants)
    PROVE  IInv'
<1> DEFINE s == panes[i].snap
           c == [call[h] EXCEPT !.pc = where, !.line = which, !.handle = i, !.snap = s]
<1>1. call[h] \in Calls /\ call \in [Handlers -> Calls]
  BY DEF IInv, TypeOK
<1>2. s \in Snapshots /\ s.version \in Nat
  BY DEF IInv, TypeOK, TrackedPanes, Snapshots
<1>3. call' = [call EXCEPT ![h] = c]
  BY <1>1 DEF GoOn
<1> HIDE DEF s
<1>4. c \in Calls /\ c.pc = where /\ c.line = which /\ c.handle = i /\ c.snap = s
      /\ c.grant = call[h].grant /\ c.target = call[h].target
  BY <1>1, <1>2 DEF Calls
<1>5. CallChecked(c, grants)
  BY DEF s
<1> HIDE DEF c
<1>6. c.target <= latest
  BY <1>4 DEF IInv, CallsOK, CallOK
<1>7. CallOK(c, panes, grants, latest)
  BY <1>2, <1>4, <1>5, <1>6 DEF CallOK, s
<1>8. /\ c.grant \in 0..Len(grants)
      /\ UNCHANGED <<paneVars, grants, expired, sent>>
      /\ conn' \in Handlers \cup {Nobody} /\ approvals' \in 0..Len(grants)
  BY <1>4 DEF IInv, TypeOK, askVars
<1> QED BY <1>3, <1>4, <1>7, <1>8, CallMoves

\* A call that only goes to another place.
LEMMA GoToMoves ==
    ASSUME IInv, NEW h \in Handlers, NEW where \in Places, GoTo(h, where),
           UNCHANGED <<paneVars, grants, expired, sent>>,
           conn' \in Handlers \cup {Nobody}, approvals' \in 0..Len(grants),
           where # "reread", CallChecked([call[h] EXCEPT !.pc = where], grants)
    PROVE  IInv'
<1> DEFINE c == [call[h] EXCEPT !.pc = where]
<1>1. call[h] \in Calls /\ call \in [Handlers -> Calls] /\ call[h].grant \in 0..Len(grants)
  BY DEF IInv, TypeOK
<1>2. call' = [call EXCEPT ![h] = c]
  BY <1>1 DEF GoTo
<1>3. c \in Calls /\ c.pc = where /\ c.line = call[h].line /\ c.handle = call[h].handle
      /\ c.snap = call[h].snap /\ c.grant = call[h].grant /\ c.target = call[h].target
  BY <1>1 DEF Calls
<1> HIDE DEF c
<1>4. CallOK(call[h], panes, grants, latest)
  BY DEF IInv, CallsOK
<1>5. CallOK(c, panes, grants, latest)
  BY <1>3, <1>4 DEF CallOK, c
<1> QED BY <1>1, <1>2, <1>3, <1>5, CallMoves

-----------------------------------------------------------------------------
\* Steps of the handlers

\* What TypeOK says of a handler's call and of the pane.
LEMMA CallTypes ==
    ASSUME IInv, NEW h \in Handlers
    PROVE  /\ call \in [Handlers -> Calls] /\ call[h] \in Calls
           /\ CallOK(call[h], panes, grants, latest) /\ CallChecked(call[h], grants)
           /\ call[h].handle \in Incarnations /\ call[h].target \in Incarnations
           /\ call[h].handle <= latest /\ call[h].target <= latest
           /\ latest \in Incarnations /\ latest <= latest
           /\ call[h].line \in {"probe", "main"}
           /\ conn \in Handlers \cup {Nobody} /\ approvals \in 0..Len(grants)
           /\ call[h].grant \in 0..Len(grants) /\ 0 \in 0..Len(grants)
<1>1. call \in [Handlers -> Calls] /\ call[h] \in Calls
  BY DEF IInv, TypeOK
<1>2. CallOK(call[h], panes, grants, latest)
  BY DEF IInv, CallsOK
<1>3. latest \in Incarnations /\ latest <= latest
  BY ConstantsAssumption DEF IInv, TypeOK, Incarnations
<1>4. Len(grants) \in Nat
  BY LenProperties DEF IInv, TypeOK
<1> QED BY <1>1, <1>2, <1>3, <1>4 DEF IInv, TypeOK, CallOK, Calls

\* A request arrives and its pane's snapshot is judged.
LEMMA BeginStep == ASSUME IInv, NEW h \in Handlers, Begin(h) PROVE IInv'
<1> DEFINE s == panes[latest].snap
<1>1. UNCHANGED <<paneVars, conn, askVars, sent>> /\ At(h, "idle")
  BY DEF Begin
<1>2. CASE Over(h)
  BY <1>1, <1>2, CallTypes, OverMoves DEF askVars
<1>3. CASE /\ call[h].kind = "run" /\ ~PaneRefuses(s) /\ s.phase = "Unknown"
           /\ GoOn(h, "lookup", "probe", latest, s)
  <2>1. CallChecked([call[h] EXCEPT !.pc = "lookup", !.line = "probe", !.handle = latest,
                                    !.snap = s], grants)
    BY <1>1, <1>3, CallTypes DEF CallChecked, Calls, At
  <2>2. "lookup" \in Places /\ "probe" \in {"probe", "main"} /\ "lookup" # "reread"
    BY DEF Places
  <2> QED BY <1>1, <1>3, <2>1, <2>2, CallTypes, GoOnMoves
<1>4. CASE /\ call[h].kind = "run" /\ ~PaneRefuses(s) /\ s.phase # "Unknown"
           /\ GoOn(h, "policy", "main", latest, s)
  <2>1. CallChecked([call[h] EXCEPT !.pc = "policy", !.line = "main", !.handle = latest,
                                    !.snap = s], grants)
    BY <1>1, <1>4, CallTypes DEF CallChecked, Calls, At
  <2>2. "policy" \in Places /\ "main" \in {"probe", "main"} /\ "policy" # "reread"
    BY DEF Places
  <2> QED BY <1>1, <1>4, <2>1, <2>2, CallTypes, GoOnMoves
<1>5. CASE call[h].kind # "run" /\ \E where \in {"lookup", "store"}, which \in {"probe", "main"} :
                GoOn(h, where, which, latest, s)
  <2>1. PICK where \in {"lookup", "store"}, which \in {"probe", "main"} :
           GoOn(h, where, which, latest, s)
    BY <1>5
  <2>2. CallChecked([call[h] EXCEPT !.pc = where, !.line = which, !.handle = latest,
                                    !.snap = s], grants)
    BY <1>1, <1>5, CallTypes DEF CallChecked, Calls
  <2>3. where \in Places /\ where # "reread"
    BY DEF Places
  <2> QED BY <1>1, <2>1, <2>2, <2>3, CallTypes, GoOnMoves
<1> QED BY <1>2, <1>3, <1>4, <1>5, Zenon DEF Begin

\* The policy's verdict, and an approval where it asks (check_policy).
LEMMA PolicyStep == ASSUME IInv, NEW h \in Handlers, Policy(h) PROVE IInv'
<1>1. UNCHANGED <<paneVars, conn, askVars, sent>> /\ call[h].pc = "policy"
  BY DEF Policy, At
<1>2. CASE Over(h)
  BY <1>1, <1>2, CallTypes, OverMoves DEF askVars
<1>3. CASE Verdict(call[h].command, call[h].snap.ctx) = "Allow" /\ GoTo(h, "lookup")
  <2>1. CallChecked([call[h] EXCEPT !.pc = "lookup"], grants)
    BY <1>1, <1>3, CallTypes DEF CallChecked, Calls, Judged
  <2>2. "lookup" \in Places /\ "lookup" # "reread"
    BY DEF Places
  <2> QED BY <1>1, <1>3, <2>1, <2>2, CallTypes, GoToMoves DEF askVars
<1>4. CASE /\ Verdict(call[h].command, call[h].snap.ctx) = "Ask"
           /\ Covers(approvals, call[h].command, call[h].snap.ctx)
           /\ call' = [call EXCEPT ![h].pc = "lookup", ![h].grant = approvals]
  <2> DEFINE c == [call[h] EXCEPT !.pc = "lookup", !.grant = approvals]
  <2>1. call' = [call EXCEPT ![h] = c]
    BY <1>4, CallTypes
  <2>2. approvals \in Nat /\ approvals \in 1..Len(grants)
    BY <1>4, CallTypes, LenProperties DEF Covers, IInv, TypeOK
  <2>3. /\ c \in Calls /\ c.pc = "lookup" /\ c.line = call[h].line /\ c.handle = call[h].handle
        /\ c.snap = call[h].snap /\ c.grant = approvals /\ c.target = call[h].target
        /\ c.kind = call[h].kind /\ c.command = call[h].command
    BY <2>2, CallTypes DEF Calls, Places
  <2> HIDE DEF c
  <2>4. CallChecked(c, grants)
    BY <1>1, <1>4, <2>2, <2>3, CallTypes DEF CallChecked, Judged, Covers
  <2>5. CallOK(c, panes, grants, latest)
    BY <2>3, <2>4, CallTypes DEF CallOK
  <2> QED BY <1>1, <2>1, <2>3, <2>5, CallTypes, CallMoves DEF askVars
<1> QED BY <1>2, <1>3, <1>4, Zenon DEF Policy

\* The pane to write to is looked up again (pane_to_write).
LEMMA LookupStep == ASSUME IInv, NEW h \in Handlers, Lookup(h) PROVE IInv'
<1>1. UNCHANGED <<paneVars, conn, askVars, sent>> /\ call[h].pc = "lookup"
  BY DEF Lookup, At
<1>2. CASE Over(h)
  BY <1>1, <1>2, CallTypes, OverMoves DEF askVars
<1>3. CASE call' = [call EXCEPT ![h].pc = "send", ![h].target = latest]
  <2> DEFINE c == [call[h] EXCEPT !.pc = "send", !.target = latest]
  <2>1. call' = [call EXCEPT ![h] = c]
    BY <1>3, CallTypes
  <2>2. /\ c \in Calls /\ c.pc = "send" /\ c.line = call[h].line /\ c.handle = call[h].handle
        /\ c.snap = call[h].snap /\ c.grant = call[h].grant /\ c.target = latest
        /\ c.kind = call[h].kind /\ c.command = call[h].command
    BY CallTypes DEF Calls, Places
  <2> HIDE DEF c
  <2>3. CallChecked(c, grants)
    BY <1>1, <2>2, CallTypes DEF CallChecked
  <2>4. CallOK(c, panes, grants, latest)
    BY <2>2, <2>3, CallTypes DEF CallOK
  <2> QED BY <1>1, <2>1, <2>2, <2>4, CallTypes, CallMoves DEF askVars
<1> QED BY <1>2, <1>3, Zenon DEF Lookup

\* The lock of the connection is taken.
LEMMA AcquireStep == ASSUME IInv, NEW h \in Handlers, Acquire(h) PROVE IInv'
<1>1. call[h].pc = "send" /\ GoTo(h, "check") /\ conn' = h /\ UNCHANGED <<paneVars, askVars, sent>>
  BY DEF Acquire, At
<1>2. CallChecked([call[h] EXCEPT !.pc = "check"], grants)
  BY <1>1, CallTypes DEF CallChecked, Calls
<1>3. "check" \in Places /\ "check" # "reread"
  BY DEF Places
<1> QED BY <1>1, <1>2, <1>3, CallTypes, GoToMoves DEF askVars

\* tmux took the keys, or failed.
LEMMA WrittenStep == ASSUME IInv, NEW h \in Handlers, Written(h) PROVE IInv'
<1>1. call[h].pc = "write" /\ conn' = Nobody /\ UNCHANGED <<paneVars, askVars, sent>>
  BY DEF Written, At, ReleasesLock
<1>2. CASE Over(h)
  BY <1>1, <1>2, CallTypes, OverMoves DEF askVars
<1>3. ASSUME GoTo(h, AfterWrite(call[h])) PROVE IInv'
  <2> DEFINE where == AfterWrite(call[h])
  <2>1. where \in {"settle", "consume", "wait"}
    BY DEF AfterWrite
  <2> HIDE DEF where
  <2>2. CallChecked([call[h] EXCEPT !.pc = where], grants)
    BY <1>1, <2>1, CallTypes DEF CallChecked, Calls
  <2>3. where \in Places /\ where # "reread"
    BY <2>1 DEF Places
  <2>4. GoTo(h, where)
    BY <1>3 DEF where
  <2> QED BY <1>1, <2>2, <2>3, <2>4, CallTypes, GoToMoves DEF askVars
<1> QED BY <1>2, <1>3 DEF Written

\* The pane responded to a key, or a second passed.
LEMMA SettledStep == ASSUME IInv, NEW h \in Handlers, Settled(h) PROVE IInv'
<1>1. Over(h) /\ UNCHANGED <<paneVars, conn, askVars, sent>>
  BY DEF Settled
<1> QED BY <1>1, CallTypes, OverMoves DEF askVars, IInv, TypeOK

\* The approval is removed once its command is sent.
LEMMA ConsumeStep == ASSUME IInv, NEW h \in Handlers, Consume(h) PROVE IInv'
<1>1. /\ call[h].pc = "consume" /\ GoTo(h, "wait") /\ approvals' = 0
      /\ UNCHANGED <<paneVars, conn, grants, expired, sent>>
  BY DEF Consume, At, ConsumesApproval
<1>2. CallChecked([call[h] EXCEPT !.pc = "wait"], grants)
  BY <1>1, CallTypes DEF CallChecked, Calls
<1>3. "wait" \in Places /\ "wait" # "reread"
  BY DEF Places
<1> QED BY <1>1, <1>2, <1>3, CallTypes, GoToMoves

\* No marker comes in time.
LEMMA TimeoutStep == ASSUME IInv, NEW h \in Handlers, Timeout(h) PROVE IInv'
<1>1. /\ call[h].pc = "wait" /\ GoTo(h, "give_up")
      /\ UNCHANGED <<paneVars, conn, askVars, sent>>
  BY DEF Timeout, At
<1>2. CallChecked([call[h] EXCEPT !.pc = "give_up"], grants)
  BY <1>1, CallTypes DEF CallChecked, Calls
<1>3. "give_up" \in Places /\ "give_up" # "reread"
  BY DEF Places
<1> QED BY <1>1, <1>2, <1>3, CallTypes, GoToMoves DEF askVars

\* A probe was answered: a run goes on only with a prompt, which the answer
\* or, with integration known, check_pane makes sure of.
LEMMA AnsweredMoves ==
    ASSUME IInv, NEW h \in Handlers, Answered(h, panes[call[h].handle].snap),
           UNCHANGED <<paneVars, conn, askVars, sent>>,
           call[h].kind = "run" =>
              /\ call[h].line = "probe"
              /\ \/ panes[call[h].handle].snap.phase = "Input"
                 \/ panes[call[h].handle].snap.integration # "Unknown"
    PROVE  IInv'
<1> DEFINE i == call[h].handle
           s == panes[i].snap
<1>1. CASE Over(h)
  BY <1>1, CallTypes, OverMoves DEF askVars
<1>2. CASE call[h].kind = "run" /\ ~PaneRefuses(s) /\ GoOn(h, "policy", "main", i, s)
  <2>1. s.phase # "Unknown" /\ call[h].grant = 0
    BY <1>2, CallTypes DEF PaneRefuses, CallChecked
  <2>2. CallChecked([call[h] EXCEPT !.pc = "policy", !.line = "main", !.handle = i,
                                    !.snap = s], grants)
    BY <1>2, <2>1, CallTypes DEF CallChecked, Calls
  <2>3. "policy" \in Places /\ "main" \in {"probe", "main"} /\ "policy" # "reread"
    BY DEF Places
  <2> QED BY <1>2, <2>2, <2>3, CallTypes, GoOnMoves
<1>3. CASE call[h].kind = "inject" /\ GoOn(h, "lookup", "main", i, s)
  <2>1. CallChecked([call[h] EXCEPT !.pc = "lookup", !.line = "main", !.handle = i,
                                    !.snap = s], grants)
    BY <1>3, CallTypes DEF CallChecked, Calls
  <2>2. "lookup" \in Places /\ "main" \in {"probe", "main"} /\ "lookup" # "reread"
    BY DEF Places
  <2> QED BY <1>3, <2>1, <2>2, CallTypes, GoOnMoves
<1> QED BY <1>1, <1>2, <1>3, Zenon DEF Answered

\* The marker a call waits for.
LEMMA MarkerCameStep == ASSUME IInv, NEW h \in Handlers, MarkerCame(h) PROVE IInv'
<1>1. UNCHANGED <<paneVars, conn, askVars, sent>>
  BY DEF MarkerCame
<1>2. CASE call[h].kind = "run" /\ call[h].line = "main"
  <2>1. Over(h)
    BY <1>2 DEF MarkerCame
  <2> QED BY <1>1, <2>1, CallTypes, OverMoves DEF askVars
<1>3. CASE ~(call[h].kind = "run" /\ call[h].line = "main")
  <2>1. Answered(h, panes[call[h].handle].snap) /\ panes[call[h].handle].snap.phase = "Input"
    BY <1>3, Zenon DEF MarkerCame, Comes
  <2>2. call[h].kind = "run" => call[h].line = "probe"
    BY <1>3, CallTypes
  <2> QED BY <1>1, <2>1, <2>2, AnsweredMoves
<1> QED BY <1>2, <1>3

\* Without a marker the snapshot is read again.
LEMMA RereadStep == ASSUME IInv, NEW h \in Handlers, Reread(h) PROVE IInv'
<1>1. /\ UNCHANGED <<paneVars, conn, askVars, sent>> /\ call[h].pc = "reread"
      /\ Answered(h, panes[call[h].handle].snap)
  BY Zenon DEF Reread, At
<1>2. /\ panes[call[h].handle].snap.integration # "Unknown"
      /\ call[h].kind = "run" => call[h].line = "probe"
  BY <1>1, CallTypes DEF CallOK
<1> QED BY <1>1, <1>2, AnsweredMoves

\* The pane is taken to send no markers (TrackedPane::set_integration).
LEMMA GiveUpStep == ASSUME IInv, NEW h \in Handlers, GiveUp(h) PROVE IInv'
<1> DEFINE i == call[h].handle
           q == [panes[i] EXCEPT !.integration = "false"]
<1>1. i \in Incarnations /\ panes[i] \in TrackedPanes /\ FactsOf(panes[i])
  BY CallTypes DEF IInv, TypeOK, PanesOK
<1>2. q \in TrackedPanes /\ q.snap = panes[i].snap /\ q.integration = "false"
  BY <1>1 DEF TrackedPanes, Integrations
<1>3. panes' = [panes EXCEPT ![i] = Published(q)]
  BY DEF GiveUp, Update
<1> HIDE DEF q
<1>4. /\ panes' \in [Incarnations -> TrackedPanes] /\ PanesOK'
      /\ \A j \in Incarnations : Later(panes[j], panes'[j])
  BY <1>1, <1>2, <1>3, PaneMoves
<1>5. panes'[i].snap.integration # "Unknown"
  <2>1. Published(q).snap.integration = "false"
    BY <1>1, <1>2, PublishedFacts
  <2> QED BY <1>1, <1>3, <2>1 DEF IInv, TypeOK
<1>6. UNCHANGED <<latest, present, loop, program, conn, askVars, sent>>
  BY DEF GiveUp
<1>7. \A j \in 0..latest : Later(panes[j], panes'[j])
  BY <1>4, ConstantsAssumption DEF IInv, TypeOK, Incarnations
<1>8. MoreGrants(grants, grants') /\ latest <= latest'
  BY <1>6, SameGrants, CallTypes DEF IInv, TypeOK, askVars
<1>9. PICK c \in Calls : /\ call' = [call EXCEPT ![h] = c] /\ c.grant \in 0..Len(grants)
                         /\ CallOK(c, panes', grants', latest')
  <2>1. CASE Over(h)
    <3> DEFINE c == Unheld("done", call[h].kind, call[h].command)
    <3>1. call' = [call EXCEPT ![h] = c]
      BY <2>1, CallTypes DEF Over
    <3>2. /\ c \in Calls /\ c.pc = "done" /\ c.grant = 0 /\ c.handle = 0 /\ c.target = 0
          /\ c.snap = Blank.snap
      BY CallTypes, NothingHeld DEF Calls
    <3> HIDE DEF c
    <3>3. CallOK(c, panes, grants, latest)
      BY <3>2, NothingHeldOK
    <3>4. CallOK(c, panes', grants', latest')
      BY <1>4, <1>6, <1>7, <1>8, <3>2, <3>3, CallTypes, CallLater DEF IInv, TypeOK, askVars
    <3> QED BY <3>1, <3>2, <3>4, CallTypes
  <2>2. CASE GoTo(h, "reread") /\ ~(call[h].kind = "run" /\ call[h].line = "main")
    <3> DEFINE c == [call[h] EXCEPT !.pc = "reread"]
    <3>1. call' = [call EXCEPT ![h] = c]
      BY <2>2, CallTypes DEF GoTo
    <3>2. /\ c \in Calls /\ c.pc = "reread" /\ c.line = call[h].line /\ c.handle = i
          /\ c.snap = call[h].snap /\ c.grant = call[h].grant /\ c.target = call[h].target
          /\ c.kind = call[h].kind /\ c.command = call[h].command
      BY CallTypes DEF Calls, Places
    <3> HIDE DEF c
    <3>3. CallOK(call[h], panes', grants', latest')
      BY <1>4, <1>6, <1>7, <1>8, CallTypes, CallLater DEF IInv, TypeOK, askVars
    <3>4. CallOK(c, panes', grants', latest')
      BY <1>5, <2>2, <3>2, <3>3, CallTypes DEF CallOK, CallChecked
    <3> QED BY <3>1, <3>2, <3>4, CallTypes
  <2> QED BY <2>1, <2>2, Zenon DEF GiveUp
<1>10. call' \in [Handlers -> Calls] /\ \A k \in Handlers : call'[k] = IF k = h THEN c ELSE call[k]
  BY <1>9, CallTypes
<1>11. \A k \in Handlers : call'[k].grant \in 0..Len(grants)
  BY <1>9, <1>10 DEF IInv, TypeOK
<1>12. TypeOK'
  BY <1>4, <1>6, <1>10, <1>11 DEF IInv, TypeOK, askVars
<1> QED BY <1>4, <1>6, <1>7, <1>8, <1>9, <1>10, <1>12, StepKeeps

\* An approval is stored in place of the pending one.
LEMMA StoreStep == ASSUME IInv, NEW h \in Handlers, Store(h) PROVE IInv'
<1> DEFINE g == [command |-> call[h].command, ctx |-> call[h].snap.ctx, program |-> program]
           c == Unheld("done", call[h].kind, call[h].command)
<1>1. /\ grants' = Append(grants, g) /\ approvals' = Len(grants')
      /\ UNCHANGED <<paneVars, conn, expired, sent>> /\ Over(h)
  BY DEF Store
<1>2. g \in Grants
  BY CallTypes DEF Calls, Snapshots, Grants, IInv, TypeOK
<1> HIDE DEF g
<1>3. grants \in Seq(Grants) /\ Len(grants) \in Nat
  BY LenProperties DEF IInv, TypeOK
<1>4. /\ grants' \in Seq(Grants) /\ Len(grants') = Len(grants) + 1
      /\ \A k \in 1..Len(grants) : grants'[k] = grants[k]
  BY <1>1, <1>2, <1>3, AppendProperties
<1>5. MoreGrants(grants, grants') /\ 0..Len(grants) \subseteq 0..Len(grants')
      /\ 1..Len(grants) \subseteq 1..Len(grants') /\ approvals' \in 0..Len(grants')
  BY <1>1, <1>3, <1>4 DEF MoreGrants
<1>6. call' = [call EXCEPT ![h] = c]
  BY <1>1, CallTypes DEF Over
<1>7. /\ c \in Calls /\ c.pc = "done" /\ c.grant = 0 /\ c.handle = 0 /\ c.target = 0
      /\ c.snap = Blank.snap
  BY CallTypes, NothingHeld DEF Calls
<1> HIDE DEF c
<1>8. PanesOK' /\ latest <= latest' /\ \A i \in 0..latest : Later(panes[i], panes'[i])
  <2>1. latest \in Incarnations /\ MaxIncarnation \in Nat
    BY ConstantsAssumption DEF IInv, TypeOK
  <2>2. \A i \in 0..latest : i \in Incarnations
    BY <2>1 DEF Incarnations
  <2> QED BY <1>1, <2>2, LaterSelf, CallTypes DEF IInv, TypeOK, PanesOK, paneVars
<1>9. CallOK(c, panes', grants', latest')
  <2>1. CallOK(c, panes, grants, latest)
    BY <1>7, NothingHeldOK
  <2> QED BY <1>1, <1>4, <1>5, <1>7, <1>8, <2>1, CallLater DEF IInv, TypeOK, paneVars
<1>10. call' \in [Handlers -> Calls] /\ \A k \in Handlers : call'[k] = IF k = h THEN c ELSE call[k]
  BY <1>6, <1>7, CallTypes
<1>11. \A k \in Handlers : call'[k].grant \in 0..Len(grants')
  BY <1>5, <1>7, <1>10, CallTypes DEF IInv, TypeOK
<1>12. TypeOK'
  BY <1>1, <1>4, <1>5, <1>10, <1>11 DEF IInv, TypeOK, paneVars
<1> QED BY <1>1, <1>5, <1>8, <1>9, <1>10, <1>12, StepKeeps

\* What a command line leaves of the pane it is written to (sending_command).
LEMMA PhaseUnknownMoves ==
    ASSUME IInv, NEW i \in Incarnations, panes' = [panes EXCEPT ![i] = PhaseUnknown(@)]
    PROVE  /\ panes' \in [Incarnations -> TrackedPanes] /\ PanesOK'
           /\ \A j \in Incarnations : Later(panes[j], panes'[j])
           /\ panes[i].snap.phase # "Unknown" =>
                    panes[i].snap.version < panes'[i].snap.version
<1> DEFINE q == [panes[i] EXCEPT !.phase = "Unknown"]
<1>1. panes[i] \in TrackedPanes /\ FactsOf(panes[i]) /\ panes \in [Incarnations -> TrackedPanes]
  BY DEF IInv, TypeOK, PanesOK
<1>2. /\ q \in TrackedPanes /\ q.snap = panes[i].snap /\ q.integration = panes[i].integration
      /\ q.phase = "Unknown"
  BY <1>1 DEF TrackedPanes, PhaseFacts
<1>3. panes' = [panes EXCEPT ![i] = Published(q)]
  BY DEF PhaseUnknown
<1> HIDE DEF q
<1>4. /\ panes' \in [Incarnations -> TrackedPanes] /\ PanesOK'
      /\ \A j \in Incarnations : Later(panes[j], panes'[j])
  BY <1>2, <1>3, PaneMoves
<1>5. panes[i].snap.phase # "Unknown" => panes[i].snap.version < panes'[i].snap.version
  <2> SUFFICES ASSUME panes[i].snap.phase # "Unknown"
               PROVE  panes[i].snap.version < panes'[i].snap.version
    OBVIOUS
  <2>1. Snapshot(q, panes[i].snap.version) # panes[i].snap
    BY <1>2 DEF Snapshot
  <2>2. panes[i].snap.version < Published(q).snap.version
    BY <1>1, <1>2, <2>1, PublishedFacts
  <2> QED BY <1>1, <1>3, <2>2
<1> QED BY <1>4, <1>5

\* The version check and the write it lets out: the pane is at the version
\* the call holds, so what the call checked is what the pane is.
LEMMA CheckStep == ASSUME IInv, NEW h \in Handlers, Check(h) PROVE IInv'
<1> DEFINE i == call[h].target
           w == Write(h)
           c == [call[h] EXCEPT !.pc = "write"]
<1>1. call[h].pc = "check" /\ UNCHANGED <<latest, present, loop, program, askVars>>
  BY DEF Check, At
<1>2. CASE ~Current(h)
  <2>1. Over(h) /\ conn' = Nobody /\ UNCHANGED <<panes, sent>>
    BY <1>2 DEF Check, ReleasesLock
  <2> QED BY <1>1, <2>1, CallTypes, OverMoves DEF paneVars, askVars
<1>3. CASE Current(h)
  <2>1. /\ GoTo(h, "write") /\ sent' = sent \cup {w} /\ UNCHANGED conn
        /\ panes' = IF call[h].kind = "keys" THEN panes
                    ELSE [panes EXCEPT ![i] = PhaseUnknown(@)]
    BY <1>3 DEF Check
  <2>2. /\ i \in Incarnations /\ i <= latest /\ panes[i] \in TrackedPanes
        /\ panes[i].snap \in Snapshots /\ panes[i].snap.version \in Nat
    BY CallTypes DEF IInv, TypeOK, TrackedPanes, Snapshots
  <2>3. /\ panes' \in [Incarnations -> TrackedPanes] /\ PanesOK'
        /\ \A j \in Incarnations : Later(panes[j], panes'[j])
        /\ call[h].kind # "keys" /\ panes[i].snap.phase # "Unknown" =>
                panes[i].snap.version < panes'[i].snap.version
    <3>1. CASE call[h].kind = "keys"
      <4>1. panes' = panes
        BY <2>1, <3>1
      <4> QED BY <3>1, <4>1, LaterSelf DEF IInv, TypeOK, PanesOK
    <3>2. CASE call[h].kind # "keys"
      <4>1. panes' = [panes EXCEPT ![i] = PhaseUnknown(@)]
        BY <2>1, <3>2
      <4> QED BY <2>2, <4>1, PhaseUnknownMoves
    <3> QED BY <3>1, <3>2
  <2>4. /\ w.by = h /\ w.kind = call[h].kind /\ w.line = call[h].line
        /\ w.command = call[h].command /\ w.grant = call[h].grant /\ w.pane = i
        /\ w.same = (i = call[h].handle) /\ w.snap = panes[i].snap
    BY DEF Write
  <2>5. w \in Writes
    <3>1. (i = call[h].handle) \in BOOLEAN
      OBVIOUS
    <3> QED BY <2>2, <3>1, CallTypes DEF Write, Writes, Calls, IInv, TypeOK
  <2> HIDE DEF w
  <2>6. /\ call' = [call EXCEPT ![h] = c]
        /\ c \in Calls /\ c.pc = "write" /\ c.line = call[h].line /\ c.handle = call[h].handle
        /\ c.snap = call[h].snap /\ c.grant = call[h].grant /\ c.target = i
        /\ c.kind = call[h].kind /\ c.command = call[h].command
    BY <2>1, CallTypes DEF GoTo, Calls, Places
  <2> HIDE DEF c
  <2>7. /\ call' \in [Handlers -> Calls]
        /\ \A k \in Handlers : call'[k] = IF k = h THEN c ELSE call[k]
    BY <2>6, CallTypes
  <2>8. TypeOK'
    <3>1. \A k \in Handlers : call'[k].grant \in 0..Len(grants)
      BY <2>6, <2>7 DEF IInv, TypeOK
    <3> QED BY <1>1, <2>1, <2>3, <2>5, <2>7, <3>1 DEF IInv, TypeOK, askVars
  <2>9. /\ \A j \in 0..latest : Later(panes[j], panes'[j])
        /\ MoreGrants(grants, grants) /\ latest <= latest
        /\ grants' = grants /\ latest' = latest
    <3>1. grants \in Seq(Grants) /\ latest \in Incarnations /\ MaxIncarnation \in Nat
      BY ConstantsAssumption DEF IInv, TypeOK
    <3>2. latest <= latest /\ \A j \in 0..latest : j \in Incarnations
      BY <3>1 DEF Incarnations
    <3> QED BY <1>1, <2>3, <3>1, <3>2, SameGrants DEF askVars
  <2>10. CallsOK'
    <3> SUFFICES ASSUME NEW k \in Handlers
                 PROVE  CallOK(call'[k], panes', grants, latest)
      BY <2>9 DEF CallsOK
    <3>1. CallOK(call[k], panes', grants, latest)
      BY <2>3, <2>9, CallTypes, CallLater DEF IInv, TypeOK
    <3>2. k = h => CallOK(c, panes', grants, latest)
      BY <2>6, <3>1, CallTypes DEF CallOK, CallChecked
    <3> QED BY <2>7, <3>1, <3>2
  <2>11. WriteChecked(w, grants)
    <3> SUFFICES ASSUME w.kind = "run", w.same
                 PROVE  /\ w.snap.mode = "Off"
                        /\ w.line = "main" => /\ w.snap.phase = "Input" /\ ~w.snap.input
                                              /\ Judged(w.command, w.snap.ctx, w.grant, grants)
                        /\ w.line = "probe" => /\ w.snap.phase = "Unknown"
                                               /\ w.snap.integration = "Unknown"
      BY DEF WriteChecked
    <3>1. i = call[h].handle /\ call[h].kind = "run"
      BY <2>4
    <3>2. call[h].snap = panes[i].snap
      BY <1>3, <3>1, CallTypes DEF Current, CallOK
    <3>3. /\ ~PaneRefuses(call[h].snap)
          /\ w.line = "probe" => call[h].snap.phase = "Unknown"
          /\ w.line = "main" => /\ call[h].snap.phase # "Unknown"
                                /\ Judged(w.command, call[h].snap.ctx, w.grant, grants)
      BY <1>1, <2>4, <3>1, CallTypes DEF CallChecked
    <3>4. w.snap.phase \in {"Unknown", "Input", "Executing"}
      BY <2>2, <2>4 DEF Snapshots, PhaseFacts
    <3> QED BY <2>4, <3>2, <3>3, <3>4 DEF PaneRefuses, ModeRefuses
  <2>12. WriteOK(w, panes', grants, latest)
    <3>1. Later(panes[i], panes'[i]) /\ panes'[i].snap.version \in Nat
      BY <2>2, <2>3 DEF TrackedPanes, Snapshots
    <3> QED BY <2>2, <2>3, <2>4, <2>11, <3>1 DEF WriteOK, Later
  <2>13. SentOK'
    <3> SUFFICES ASSUME NEW u \in sent'
                 PROVE  WriteOK(u, panes', grants, latest)
      BY <2>9 DEF SentOK
    <3>1. CASE u \in sent
      <4>1. u \in Writes /\ WriteOK(u, panes, grants, latest)
        BY <3>1 DEF IInv, SentOK, TypeOK
      <4> QED BY <2>3, <2>9, <4>1, CallTypes, WriteLater DEF IInv, TypeOK
    <3> QED BY <2>1, <2>12, <3>1
  <2>14. ASSUME NEW u \in sent, u.kind # "keys", w.kind # "keys", u.pane = w.pane,
                u.snap.version = w.snap.version
         PROVE  u.snap.phase = "Unknown" /\ w.snap.phase = "Unknown"
    <3>1. WriteOK(u, panes, grants, latest)
      BY DEF IInv, SentOK
    <3>2. u.snap = panes[i].snap
      BY <2>4, <2>14, <3>1 DEF WriteOK
    <3>3. u.snap.phase = "Unknown"
      BY <2>2, <2>4, <2>14, <3>1, <3>2 DEF WriteOK
    <3> QED BY <2>4, <3>2, <3>3
  <2>15. OneLineAtAKnownPhase'
    <3> SUFFICES ASSUME NEW u \in sent', NEW v \in sent', u.kind # "keys", v.kind # "keys",
                        u.pane = v.pane, u.snap.version = v.snap.version,
                        u.snap.phase # "Unknown"
                 PROVE  u = v
      BY DEF OneLineAtAKnownPhase, Lines
    <3>1. CASE u \in sent /\ v \in sent
      BY <3>1 DEF IInv, OneLineAtAKnownPhase, Lines
    <3>2. CASE u = w /\ v \in sent
      BY <2>14, <3>2
    <3>3. CASE u \in sent /\ v = w
      BY <2>14, <3>3
    <3> QED BY <2>1, <3>1, <3>2, <3>3
  <2> QED BY <2>3, <2>8, <2>10, <2>13, <2>15 DEF IInv
<1> QED BY <1>2, <1>3

-----------------------------------------------------------------------------
\* The theorems

\* The daemon starts with what it should know.
LEMMA InitHolds == Init => IInv
<1> SUFFICES ASSUME Init PROVE IInv
  OBVIOUS
<1>1. PICK pid \in PidAnswers, mode \in Modes :
        panes = [i \in Incarnations |-> IF i = 0 THEN Fresh(pid, mode) ELSE Blank]
  BY DEF Init
<1>2. pid \in BOOLEAN
  BY ConstantsAssumption, Zenon
<1>3. /\ Fresh(pid, mode) \in TrackedPanes /\ FactsOf(Fresh(pid, mode))
      /\ Fresh(pid, mode).snap.version = 0 => Fresh(pid, mode).snap = Blank.snap
  BY <1>2, FreshFacts
<1>4. 0 \in Incarnations /\ latest = 0
  BY ConstantsAssumption DEF Incarnations, Init
<1>5. panes \in [Incarnations -> TrackedPanes]
  BY <1>1, <1>3, BlankFacts
<1>6. PanesOK
  <2>1. \A i \in Incarnations : FactsOf(panes[i])
    BY <1>1, <1>3, BlankFacts
  <2>2. panes[0] = Fresh(pid, mode)
    BY <1>1, <1>4
  <2> QED BY <1>3, <2>1, <2>2 DEF PanesOK
<1>7. ASSUME NEW h \in Handlers
      PROVE  /\ call[h] \in Calls /\ call[h].pc = "idle" /\ call[h].grant = 0
             /\ call[h].handle = 0 /\ call[h].target = 0 /\ call[h].snap = Blank.snap
  <2>1. PICK k \in Kinds, m \in Commands : call[h] = Unheld("idle", k, m)
    BY DEF Init
  <2> QED BY <2>1, NothingHeld
<1>8. grants = <<>> /\ grants \in Seq(Grants) /\ Len(grants) = 0 /\ 0 \in 0..0
  BY EmptySeq DEF Init
<1>9. call \in [Handlers -> Calls] /\ \A h \in Handlers : call[h].grant \in 0..Len(grants)
  <2>1. call = [h \in Handlers |-> call[h]]
    BY DEF Init
  <2> QED BY <1>7, <1>8, <2>1
<1>10. TypeOK
  <2>1. loop \in [doing : {"idle", "mode", "set"}, pane : Incarnations \cup {Nobody}]
        /\ loop.doing = "idle"
    BY DEF Init, Idle
  <2>2. present \in BOOLEAN
    BY Zenon DEF Init
  <2> QED BY <1>4, <1>5, <1>8, <1>9, <2>1, <2>2 DEF Init, TypeOK
<1>11. CallsOK
  <2> SUFFICES ASSUME NEW h \in Handlers PROVE CallOK(call[h], panes, grants, latest)
    BY DEF CallsOK
  <2>1. panes[0].snap.version \in Nat
    BY <1>4, <1>5 DEF TrackedPanes, Snapshots
  <2>2. call[h].snap.version = 0 /\ call[h].snap = Blank.snap
    BY <1>7, BlankFacts
  <2> QED BY <1>4, <1>6, <1>7, <2>1, <2>2 DEF PanesOK, CallOK, CallChecked
<1>12. SentOK /\ OneLineAtAKnownPhase
  BY DEF Init, SentOK, OneLineAtAKnownPhase, Lines
<1> QED BY <1>6, <1>10, <1>11, <1>12 DEF IInv

\* Every step keeps it.
LEMMA NextKeeps == IInv /\ [Next]_vars => IInv'
<1> SUFFICES ASSUME IInv, [Next]_vars PROVE IInv'
  OBVIOUS
<1>1. CASE UNCHANGED vars
  <2>1. TypeOK' /\ UNCHANGED <<panes, latest, grants, sent>> /\ call' = call
    BY <1>1 DEF vars, paneVars, askVars, IInv, TypeOK
  <2> QED BY <2>1, StillPanes
<1>2. CASE LoopStep
  BY <1>2, OutputStep, ModeChangesStep, ModeAnsweredStep, SetModeStep, PlacedStep,
     DroppedStep, TrackedAnewStep DEF LoopStep
<1>3. CASE ForegroundChanges
  BY <1>3, ForegroundStep
<1>4. CASE Expires
  BY <1>4, ExpiresStep
<1>5. ASSUME NEW h \in Handlers, Step(h) PROVE IInv'
  BY <1>5, BeginStep, PolicyStep, LookupStep, AcquireStep, CheckStep, WrittenStep,
     SettledStep, ConsumeStep, MarkerCameStep, TimeoutStep, GiveUpStep, RereadStep, StoreStep
     DEF Step, GoesOn
<1> QED BY <1>1, <1>2, <1>3, <1>4, <1>5 DEF Next

\* The inductive invariant holds in every behaviour.
LEMMA InvariantHolds == Spec => []IInv
BY InitHolds, NextKeeps, PTL DEF Spec

\* Panes, calls, approvals and writes are always well formed: every version a
\* call holds is a number, every approval it took is one that was stored.
THEOREM WritesTypeCorrect == Spec => []TypeOK
<1>1. IInv => TypeOK
  BY DEF IInv
<1> QED BY <1>1, InvariantHolds, PTL

\* One version of a pane names one snapshot, for as long as a call holds it
\* (TrackedPane::publish).
THEOREM VersionsNameSnapshots == Spec => []VersionNamesSnapshot
<1>1. IInv => VersionNamesSnapshot
  BY DEF IInv, CallsOK, CallOK, VersionNamesSnapshot
<1> QED BY <1>1, InvariantHolds, PTL

\* However panes, handlers and tmux interleave, a command line of command_run
\* goes out only to a pane whose published facts show an empty prompt without
\* a mode, and its probe only to one nothing is known of.
THEOREM CommandsReachAnEmptyPrompt == Spec => []RunsReachAnEmptyPrompt
<1>1. IInv => RunsReachAnEmptyPrompt
  BY DEF IInv, SentOK, WriteOK, WriteChecked, RunsReachAnEmptyPrompt
<1> QED BY <1>1, InvariantHolds, PTL

\* A command runs only in the context the policy allowed it in, or a person
\* approved it in.
THEOREM CommandsRunWhereJudged == Spec => []RunsWhereItWasJudged
<1>1. ASSUME IInv PROVE RunsWhereItWasJudged
  <2> SUFFICES ASSUME NEW w \in sent, w.kind = "run", w.line = "main", w.same
               PROVE  \/ w.grant = 0 /\ Verdict(w.command, w.snap.ctx) = "Allow"
                      \/ /\ w.grant # 0 /\ Verdict(w.command, w.snap.ctx) = "Ask"
                         /\ grants[w.grant].command = w.command
                         /\ grants[w.grant].ctx = w.snap.ctx
    BY DEF RunsWhereItWasJudged
  <2>1. Judged(w.command, w.snap.ctx, w.grant, grants)
    BY <1>1 DEF IInv, SentOK, WriteOK, WriteChecked
  <2>2. Len(grants) \in Nat
    BY <1>1, LenProperties DEF IInv, TypeOK
  <2> QED BY <2>1, <2>2 DEF Judged
<1> QED BY <1>1, InvariantHolds, PTL

\* At a known phase one version takes one command line: of any number of
\* calls that decided at it, one is let through (sending_command).
THEOREM OneLineAtAVersion == Spec => []OneLineAtAKnownPhase
<1>1. IInv => OneLineAtAKnownPhase
  BY DEF IInv
<1> QED BY <1>1, InvariantHolds, PTL

=============================================================================
