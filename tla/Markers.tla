------------------------------ MODULE Markers -------------------------------
(***************************************************************************)
(* What the command tracker of a pane promises the rest of the daemon: the *)
(* phase, the newest command's id and status, where input starts, and the  *)
(* place OSC 7 reported since the last command started.  Osc133 implements *)
(* it; PaneWrites builds on it.                                            *)
(***************************************************************************)
EXTENDS Naturals

CONSTANTS
    Contexts,    \* the places OSC 7 may report
    NoContext    \* none reported since the last command started

VARIABLE term

Phases == {"Idle", "Prompt", "Input", "Executing"}
Statuses == {"none", "running", "output_done", "completed"}
Terminal == [phase : Phases, id : Nat, status : Statuses, inputStart : BOOLEAN,
             ctx : Contexts \cup {NoContext}]

NewTerminal == [phase |-> "Idle", id |-> 0, status |-> "none",
                inputStart |-> FALSE, ctx |-> NoContext]

\* A abandons the command that runs.
MarkA(t) == [phase |-> "Prompt", id |-> t.id, inputStart |-> FALSE, ctx |-> t.ctx,
             status |-> IF t.phase = "Executing" THEN "completed" ELSE t.status]

\* B completes the newest command, whatever its status.
MarkB(t) == [phase |-> "Input", id |-> t.id, inputStart |-> TRUE, ctx |-> t.ctx,
             status |-> IF t.status = "none" THEN "none" ELSE "completed"]

\* C starts a command unless one runs; it always forgets the place.
MarkC(t) == IF t.phase = "Executing"
              THEN [t EXCEPT !.inputStart = FALSE, !.ctx = NoContext]
              ELSE [phase |-> "Executing", id |-> t.id + 1, status |-> "running",
                    inputStart |-> FALSE, ctx |-> NoContext]

\* D ends the command that runs; with none, `text` (something was printed or
\* named) becomes a command of its own that is over already.
MarkD(t, text) ==
    IF t.phase = "Executing" \/ ~text
      THEN [t EXCEPT !.phase = "Idle",
                     !.status = IF t.phase = "Executing" THEN "output_done" ELSE @]
      ELSE [t EXCEPT !.phase = "Idle", !.id = @ + 1, !.status = "output_done"]

MarkOsc7(t, ctx) == [t EXCEPT !.ctx = ctx]

-----------------------------------------------------------------------------
Init == term = NewTerminal

A == term' = MarkA(term)
B == term' = MarkB(term)
C == term' = MarkC(term)
D == \E text \in BOOLEAN : term' = MarkD(term, text)
Osc7 == \E ctx \in Contexts : term' = MarkOsc7(term, ctx)

Next == A \/ B \/ C \/ D \/ Osc7

Spec == Init /\ [][Next]_term

=============================================================================
