------------------------------- MODULE Osc133 -------------------------------
(***************************************************************************)
(* The OSC 133 command tracker of one pane: Osc133Parser (pane/osc133.rs)  *)
(* over TerminalState (pane/state.rs), with what PaneProcessor             *)
(* (pane/processor.rs) does around each marker.                            *)
(*                                                                         *)
(* Any stream of markers and text may come out of a pane: a shell with     *)
(* integration, one without, a program that prints escape sequences, two   *)
(* shells one inside the other.  So every action is always enabled.        *)
(*                                                                         *)
(* Printed text is abstracted to numbers: the n-th piece of text the pane  *)
(* prints is n, so a buffer is a sequence of numbers and two buffers share *)
(* text exactly when they share a number.                                  *)
(***************************************************************************)
EXTENDS Naturals, Sequences

CONSTANTS
    Commands,    \* the non-empty command texts
    Codes,       \* the exit codes a D marker may carry
    Places,      \* what an OSC 7 report says: user, host and directory
    None,        \* Rust's None
    MaxHistory   \* MAX_COMMAND_HISTORY

ASSUME MaxHistoryAssumption == MaxHistory \in Nat \ {0}
ASSUME NoneAssumption ==
    /\ None \notin Commands /\ None # ""
    /\ None \notin Codes /\ None # 1
    /\ None \notin Places

VARIABLES
    phase,        \* Osc133Parser.phase, the command text of Executing apart
    executing,    \* the command text phase Executing carries, else None
    pending,      \* pending_command_text
    capture,      \* capture: the text since it was last cleared
    commands,     \* commands, newest first
    outputs,      \* outputs: id -> text
    seq,          \* seq_counter
    inputStart,   \* input_start is Some
    location,     \* user, hostname and cwd
    reported,     \* osc7_since_command
    printed       \* how many pieces of text the pane has printed

vars == <<phase, executing, pending, capture, commands, outputs, seq,
          inputStart, location, reported, printed>>

Phases == {"Idle", "Prompt", "Input", "Executing"}
Text == Commands \cup {""}
ExitCode == Codes \cup {1, None}
CommandRecord == [id : Nat, command : Text, exit_code : ExitCode,
                  output_done : BOOLEAN, completed : BOOLEAN]

Init ==
    /\ phase = "Idle" /\ executing = None
    /\ pending = None
    /\ capture = <<>>
    /\ commands = <<>>
    /\ outputs = [i \in {} |-> <<>>]
    /\ seq = 0
    /\ inputStart = FALSE
    /\ location = None /\ reported = FALSE
    /\ printed = 0

-----------------------------------------------------------------------------
\* TerminalState

\* active_command_mut finds a record: the newest one, while not completed.
HasActive == commands # <<>> /\ ~commands[1].completed

\* Mutant: output accumulates until B.
AccumulatesPastD == HasActive

\* What append_active_output appends to: the active record before its D.
Accumulates == HasActive /\ ~commands[1].output_done

\* Mutant: the eviction loop leaves the outputs alone.
KeepsEveryOutput == DOMAIN outputs

\* The outputs a push leaves: past MaxHistory the oldest record's goes.
KeptOutputs ==
    IF Len(commands) = MaxHistory THEN DOMAIN outputs \ {commands[MaxHistory].id}
                                  ELSE DOMAIN outputs

\* push_command_start, followed by what its caller does to the new record:
\* the exit code and output_done it sets, and the text it appends.  Past
\* MaxHistory the oldest record is dropped.
push_command(command, code, done, text) ==
    LET id     == seq + 1
        length == IF Len(commands) = MaxHistory THEN MaxHistory ELSE Len(commands) + 1
    IN  /\ seq' = id
        /\ commands' = [i \in 1..length |->
                          IF i = 1 THEN [id |-> id, command |-> command, exit_code |-> code,
                                         output_done |-> done, completed |-> FALSE]
                                   ELSE commands[i - 1]]
        /\ outputs' = [i \in KeptOutputs \cup {id} |->
                          IF i = id THEN text ELSE outputs[i]]

-----------------------------------------------------------------------------
\* The marker handlers, with PaneProcessor's own work on each marker

\* Mutant: a C while a command executes starts another.
NeverDuplicate == FALSE

\* A C marker to ignore.
DuplicateC == phase = "Executing"

\* Mutant: any command B completes without an exit code gets 1.
NoExitCode(c) == c.exit_code = None

\* B finds a command that got no D: it failed before it ran.
PreExecFailure(c) == c.exit_code = None /\ phase = "Executing"

\* Mutant: only a C that starts a command makes the report stale.
ForgetAtStart == reported' = (reported /\ phase = "Executing")

\* Every C makes the last OSC 7 report stale.
ForgetReport == reported' = FALSE

\* Mutant: a missing text is recorded as it is.
RawPending == pending

\* pending_command_text.take().unwrap_or_default()
TakenText == IF pending = None THEN "" ELSE pending

\* A: back to the prompt.  A command still executing is abandoned.
handle_a ==
    /\ commands' = IF phase = "Executing" /\ HasActive
                     THEN [commands EXCEPT ![1].completed = TRUE]
                     ELSE commands
    /\ phase' = "Prompt" /\ executing' = None
    /\ pending' = None
    /\ inputStart' = FALSE
    /\ UNCHANGED <<capture, outputs, seq, location, reported, printed>>

\* B: ready for input.  The active command is completed, with exit code 1
\* when neither D nor an exit code came while it was executing.
handle_b ==
    /\ commands' =
         IF HasActive
           THEN [commands EXCEPT
                   ![1].exit_code = IF PreExecFailure(commands[1]) THEN 1 ELSE @,
                   ![1].completed = TRUE]
           ELSE commands
    /\ phase' = "Input" /\ executing' = None
    /\ capture' = <<>>
    /\ inputStart' = TRUE
    /\ UNCHANGED <<pending, outputs, seq, location, reported, printed>>

\* C: a command starts, unless one is executing.  `url` is the cmdline_url
\* parameter and `screen` the input line read from the grid, which is None
\* where no B marker has said where input starts.
handle_c(url, screen) ==
    /\ inputStart \/ screen = None
    /\ IF DuplicateC
         THEN UNCHANGED <<phase, executing, pending, capture, commands, outputs, seq>>
         ELSE LET command == IF pending # None THEN pending
                             ELSE IF url # None THEN url
                             ELSE IF screen # None THEN screen
                             ELSE ""
              IN  /\ push_command(command, None, FALSE, <<>>)
                  /\ phase' = "Executing" /\ executing' = command
                  /\ pending' = None
                  /\ capture' = <<>>
    /\ inputStart' = FALSE
    /\ ForgetReport
    /\ UNCHANGED <<location, printed>>

\* D while a command executes: its output and exit code are settled.
DExecuting(code) ==
    /\ phase = "Executing"
    /\ commands' = IF HasActive
                     THEN [commands EXCEPT ![1].exit_code = code,
                                           ![1].output_done = TRUE]
                     ELSE commands
    /\ UNCHANGED <<pending, capture, outputs, seq>>

\* D after B without C: a command whose start was not marked, recorded with
\* what the pane printed since, unless there is nothing to record.
DInput(code) ==
    /\ phase = "Input"
    /\ pending' = None
    /\ capture' = <<>>
    /\ IF TakenText # "" \/ capture # <<>>
         THEN push_command(TakenText, code, TRUE, capture)
         ELSE UNCHANGED <<commands, outputs, seq>>

\* D out of the blue: what the pane printed becomes a record of no command.
DUnexpected(code) ==
    /\ phase \in {"Idle", "Prompt"}
    /\ capture' = <<>>
    /\ IF capture # <<>>
         THEN push_command("", code, TRUE, capture)
         ELSE UNCHANGED <<commands, outputs, seq>>
    /\ UNCHANGED pending

handle_d(code) ==
    /\ DExecuting(code) \/ DInput(code) \/ DUnexpected(code)
    /\ phase' = "Idle" /\ executing' = None
    /\ UNCHANGED <<inputStart, location, reported, printed>>

\* E: the command's text, for the command executing or the next one.
handle_e(text) ==
    /\ IF phase = "Executing"
         THEN /\ executing' = text
              /\ commands' = IF HasActive THEN [commands EXCEPT ![1].command = text]
                                          ELSE commands
              /\ UNCHANGED pending
         ELSE /\ pending' = text
              /\ UNCHANGED <<executing, commands>>
    /\ UNCHANGED <<phase, capture, outputs, seq, inputStart, location, reported, printed>>

\* Text between markers goes to the capture buffer and the active output.
append_output ==
    /\ printed' = printed + 1
    /\ capture' = Append(capture, printed')
    /\ outputs' = IF Accumulates
                    THEN [outputs EXCEPT ![commands[1].id] = Append(@, printed')]
                    ELSE outputs
    /\ UNCHANGED <<phase, executing, pending, commands, seq, inputStart, location, reported>>

\* OSC 7 says where the shell is.
update_cwd_from_osc7(place) ==
    /\ location' = place /\ reported' = TRUE
    /\ UNCHANGED <<phase, executing, pending, capture, commands, outputs, seq,
                   inputStart, printed>>

Next ==
    \/ handle_a
    \/ handle_b
    \/ \E url \in Text \cup {None}, screen \in Commands \cup {None} : handle_c(url, screen)
    \/ \E code \in Codes \cup {None} : handle_d(code)
    \/ \E text \in Text : handle_e(text)
    \/ append_output
    \/ \E place \in Places : update_cwd_from_osc7(place)

Spec == Init /\ [][Next]_vars

-----------------------------------------------------------------------------
\* Properties

TypeOK ==
    /\ phase \in Phases /\ executing \in Text \cup {None}
    /\ pending \in Text \cup {None}
    /\ capture \in Seq(Nat)
    /\ commands \in Seq(CommandRecord)
    /\ seq \in Nat
    /\ outputs \in [DOMAIN outputs -> Seq(Nat)]
    /\ inputStart \in BOOLEAN
    /\ location \in Places \cup {None} /\ reported \in BOOLEAN
    /\ printed \in Nat

Finished(c) == c.completed \/ c.output_done

\* The history is addressable: ids count down without a gap from seq, so each
\* id names one record, a record's output is there exactly as long as the
\* record, and no more than MaxHistory records are kept
\* (push_command_start and its eviction loop).
HistoryAddressable ==
    /\ Len(commands) \in 0..MaxHistory
    /\ Len(commands) <= seq
    /\ \A i \in 1..Len(commands) : commands[i].id = seq - i + 1
    /\ DOMAIN outputs = {commands[i].id : i \in 1..Len(commands)}

\* Whatever markers are lost, doubled or out of order, a command is running
\* exactly when the phase is Executing, it is the newest one, and the phase
\* carries its text; every older command is finished.  So "the active
\* command" of the handlers is never a command of an earlier cycle.
RunningIsNewest ==
    /\ phase = "Executing" => /\ commands # <<>> /\ ~Finished(commands[1])
                              /\ executing = commands[1].command
    /\ phase # "Executing" => executing = None /\ \A i \in 1..Len(commands) : Finished(commands[i])
    /\ \A i \in 2..Len(commands) : Finished(commands[i])
    /\ phase = "Input" /\ commands # <<>> => commands[1].completed

\* While a command runs the capture buffer and its output agree: C starts
\* both empty, and text goes to both.
CaptureIsOutput ==
    phase = "Executing" => outputs[commands[1].id] = capture

\* What a step may not do to a finished command.
FrozenStep ==
    \A i \in 1..Len(commands), j \in 1..Len(commands') :
        commands[i].id = commands'[j].id /\ Finished(commands[i]) =>
            /\ Finished(commands'[j])
            /\ commands[i].completed => commands'[j].completed
            /\ commands'[j].command = commands[i].command
            /\ commands'[j].exit_code = commands[i].exit_code
            /\ outputs'[commands[i].id] = outputs[commands[i].id]

\* Once D or B has finished a command, no later marker or text changes its
\* command text, output or exit code; completion is not taken back.  A reader
\* that saw the command finished can read it in pieces.
FinishedIsFrozen == [][FrozenStep]_vars

\* osc133.rs, the capture is cleared by C and "D consumes it": no text is shown
\* as the output of two commands.  A D after C and D does show it twice.
TextInOneOutput ==
    \A i, j \in DOMAIN outputs :
        (\E m \in 1..Len(outputs[i]), n \in 1..Len(outputs[j]) :
            outputs[i][m] = outputs[j][n]) => i = j

-----------------------------------------------------------------------------
\* The tracker as the rest of the daemon sees it.
Status(c) == IF c.completed THEN "completed" ELSE IF c.output_done THEN "output_done" ELSE "running"
Newest == IF commands = <<>> THEN "none" ELSE Status(commands[1])
Context == IF reported THEN location ELSE None
Shown == [phase |-> phase, id |-> seq, status |-> Newest, inputStart |-> inputStart,
          ctx |-> Context]

Seen == INSTANCE Markers WITH Contexts <- Places, NoContext <- None, term <- Shown

\* Every step of the tracker is, to the rest of the daemon, the step Markers
\* gives for its marker, or none at all.
ImplementsMarkers == Seen!Spec

=============================================================================
