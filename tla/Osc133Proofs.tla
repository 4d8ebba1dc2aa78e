---------------------------- MODULE Osc133Proofs ----------------------------
(***************************************************************************)
(* The tracker's invariants for every stream, every history bound and      *)
(* every set of commands, exit codes and places.                           *)
(***************************************************************************)
EXTENDS MCOsc133, SequenceTheorems, NatRecursion, TLAPS

\* The invariants together are inductive: the handlers' "active command" is
\* the running one only because every older record is finished, and the
\* capture buffer agrees with its output only while it is the running one.
IInv == TypeOK /\ HistoryAddressable /\ RunningIsNewest /\ CaptureIsOutput

\* What a push leaves: the new record in front, the old ones one place
\* further back, and exactly their outputs.
LEMMA PushLemma ==
    ASSUME TypeOK, HistoryAddressable,
           NEW command \in Text, NEW code \in ExitCode, NEW done \in BOOLEAN,
           NEW text \in Seq(Nat),
           push_command(command, code, done, text)
    PROVE  /\ seq' = seq + 1
           /\ commands' \in Seq(CommandRecord)
           /\ Len(commands') \in 1..MaxHistory
           /\ Len(commands') <= seq'
           /\ commands'[1] = [id |-> seq + 1, command |-> command, exit_code |-> code,
                              output_done |-> done, completed |-> FALSE]
           /\ \A i \in 2..Len(commands') :
                 i - 1 \in 1..Len(commands) /\ commands'[i] = commands[i - 1]
           /\ \A i \in 1..Len(commands') : commands'[i].id = seq' - i + 1
           /\ outputs' \in [DOMAIN outputs' -> Seq(Nat)]
           /\ DOMAIN outputs' = {commands'[i].id : i \in 1..Len(commands')}
           /\ outputs'[seq + 1] = text
           /\ \A i \in DOMAIN outputs' : i # seq + 1 => i \in DOMAIN outputs /\ outputs'[i] = outputs[i]
<1> DEFINE length == IF Len(commands) = MaxHistory THEN MaxHistory ELSE Len(commands) + 1
           new == [id |-> seq + 1, command |-> command, exit_code |-> code,
                   output_done |-> done, completed |-> FALSE]
<1>1. /\ seq \in Nat /\ seq' = seq + 1
      /\ length \in 1..MaxHistory /\ length <= seq + 1 /\ length - 1 <= Len(commands)
      /\ Len(commands) \in Nat
  BY MaxHistoryAssumption DEF TypeOK, HistoryAddressable, push_command
<1>3. commands' = [i \in 1..length |-> IF i = 1 THEN new ELSE commands[i - 1]]
  BY DEF push_command
<1>4. new \in CommandRecord
  BY <1>1 DEF CommandRecord
<1>5. \A i \in 1..length : (IF i = 1 THEN new ELSE commands[i - 1]) \in CommandRecord
  BY <1>1, <1>4 DEF TypeOK
<1> HIDE DEF new, length
<1>6. commands' \in Seq(CommandRecord) /\ Len(commands') = length
  <2>1. commands' \in [1..length -> CommandRecord] /\ length \in Nat
    BY <1>1, <1>3, <1>5
  <2>2. commands' \in Seq(CommandRecord)
    BY <2>1, SeqDef
  <2>3. DOMAIN commands' = 1..Len(commands') /\ Len(commands') \in Nat
    BY <2>2, LenProperties
  <2>4. 1..Len(commands') = 1..length
    BY <2>1, <2>3
  <2>5. QED BY <2>1, <2>2, <2>3, <2>4
<1>7. commands'[1] = new
  BY <1>1, <1>3
<1>8. \A i \in 2..length : i - 1 \in 1..Len(commands) /\ commands'[i] = commands[i - 1]
  BY <1>1, <1>3
<1>9. \A i \in 1..length : commands'[i].id = seq' - i + 1
  <2> TAKE i \in 1..length
  <2>1. CASE i = 1
    BY <2>1, <1>1, <1>7 DEF new
  <2>2. CASE i # 1
    <3>1. i - 1 \in 1..Len(commands) /\ commands'[i] = commands[i - 1]
      BY <2>2, <1>1, <1>8
    <3>2. commands[i - 1].id = seq - (i - 1) + 1
      BY <3>1 DEF HistoryAddressable
    <3>3. QED BY <3>1, <3>2, <1>1
  <2>3. QED BY <2>1, <2>2
<1>10. outputs' = [i \in KeptOutputs \cup {seq + 1} |-> IF i = seq + 1 THEN text ELSE outputs[i]]
  BY DEF push_command
<1>11. KeptOutputs \subseteq DOMAIN outputs
  BY DEF KeptOutputs
<1>12. KeptOutputs = {commands[i].id : i \in 1..(length - 1)}
  <2>1. CASE Len(commands) = MaxHistory
    <3>1. DOMAIN outputs = {commands[i].id : i \in 1..MaxHistory}
      BY <2>1 DEF HistoryAddressable
    <3>2. \A i \in 1..MaxHistory : commands[i].id = seq - i + 1
      BY <2>1 DEF HistoryAddressable
    <3>3. \A i \in 1..(MaxHistory - 1) : commands[i].id # commands[MaxHistory].id
      <4> TAKE i \in 1..(MaxHistory - 1)
      <4>1. commands[i].id = seq - i + 1 /\ commands[MaxHistory].id = seq - MaxHistory + 1
        BY <3>2, MaxHistoryAssumption
      <4>2. QED BY <4>1, <1>1, MaxHistoryAssumption
    <3>4. 1..MaxHistory = 1..(MaxHistory - 1) \cup {MaxHistory}
      BY MaxHistoryAssumption
    <3>5. QED BY <2>1, <3>1, <3>3, <3>4 DEF KeptOutputs, length
  <2>2. CASE Len(commands) # MaxHistory
    BY <2>2, <1>1 DEF KeptOutputs, HistoryAddressable, length
  <2>3. QED BY <2>1, <2>2
<1>13. DOMAIN outputs' = {commands'[i].id : i \in 1..length}
  <2>1. \A i \in 1..(length - 1) : commands'[i + 1].id = commands[i].id
    BY <1>1, <1>8
  <2>2. commands'[1].id = seq + 1
    BY <1>7 DEF new
  <2>3. ASSUME NEW x \in KeptOutputs \cup {seq + 1}
        PROVE  \E i \in 1..length : x = commands'[i].id
    <3>1. CASE x = seq + 1
      BY <3>1, <2>2, <1>1
    <3>2. CASE x # seq + 1
      <4>1. PICK i \in 1..(length - 1) : x = commands[i].id
        BY <2>3, <3>2, <1>12
      <4>2. i + 1 \in 1..length /\ x = commands'[i + 1].id
        BY <4>1, <2>1, <1>1
      <4>3. QED BY <4>2
    <3>3. QED BY <3>1, <3>2
  <2>4. ASSUME NEW i \in 1..length
        PROVE  commands'[i].id \in KeptOutputs \cup {seq + 1}
    <3>1. CASE i = 1
      BY <3>1, <2>2
    <3>2. CASE i # 1
      <4>1. i - 1 \in 1..(length - 1) /\ commands'[i].id = commands[i - 1].id
        BY <3>2, <1>1, <1>8
      <4>2. QED BY <4>1, <1>12
    <3>3. QED BY <3>1, <3>2
  <2>5. QED BY <1>10, <2>3, <2>4
<1>14. outputs' \in [DOMAIN outputs' -> Seq(Nat)]
  BY <1>10, <1>11 DEF TypeOK
<1>15. QED
  BY <1>1, <1>6, <1>7, <1>8, <1>9, <1>10, <1>11, <1>13, <1>14 DEF new

\* What changing the newest record leaves, ids and outputs untouched.
LEMMA TouchLemma ==
    ASSUME TypeOK, HistoryAddressable, commands # <<>>,
           NEW r \in CommandRecord, r.id = commands[1].id,
           commands' = [commands EXCEPT ![1] = r], UNCHANGED <<seq, outputs>>
    PROVE  /\ commands' \in Seq(CommandRecord)
           /\ Len(commands') = Len(commands) /\ Len(commands) \in Nat \ {0}
           /\ commands'[1] = r
           /\ \A i \in 2..Len(commands') : commands'[i] = commands[i]
           /\ HistoryAddressable'
<1>1. Len(commands) \in Nat \ {0} /\ 1 \in 1..Len(commands)
  BY EmptySeq, LenProperties DEF TypeOK
<1>2. /\ commands' \in Seq(CommandRecord) /\ Len(commands') = Len(commands)
      /\ \A i \in 1..Len(commands) : commands'[i] = IF i = 1 THEN r ELSE commands[i]
  BY <1>1, ExceptSeq DEF TypeOK
<1>3. \A i \in 1..Len(commands) : commands'[i].id = commands[i].id
  BY <1>1, <1>2
<1>4. HistoryAddressable'
  BY <1>2, <1>3 DEF HistoryAddressable
<1>5. QED BY <1>1, <1>2, <1>4

LEMMA InitInv == Init => IInv
<1> SUFFICES ASSUME Init PROVE IInv
  OBVIOUS
<1>1. TypeOK
  BY EmptySeq DEF Init, TypeOK, Phases
<1>2. HistoryAddressable /\ RunningIsNewest /\ CaptureIsOutput
  BY MaxHistoryAssumption DEF Init, HistoryAddressable, RunningIsNewest, CaptureIsOutput
<1>3. QED BY <1>1, <1>2 DEF IInv

\* A step that changes at most the newest record leaves finished ones frozen
\* when it leaves that one frozen: ids tell records apart.
LEMMA TouchFrozen ==
    ASSUME HistoryAddressable, HistoryAddressable', seq \in Nat,
           UNCHANGED seq, Len(commands') = Len(commands), Len(commands) \in Nat,
           \A i \in 2..Len(commands) : commands'[i] = commands[i],
           \A i \in 2..Len(commands) : outputs'[commands[i].id] = outputs[commands[i].id],
           commands # <<>> /\ Finished(commands[1]) =>
               /\ Finished(commands'[1])
               /\ commands[1].completed => commands'[1].completed
               /\ commands'[1].command = commands[1].command
               /\ commands'[1].exit_code = commands[1].exit_code
               /\ outputs'[commands[1].id] = outputs[commands[1].id]
    PROVE  FrozenStep
<1> SUFFICES ASSUME NEW i \in 1..Len(commands), NEW j \in 1..Len(commands'),
                    commands[i].id = commands'[j].id, Finished(commands[i])
             PROVE  /\ Finished(commands'[j])
                    /\ commands[i].completed => commands'[j].completed
                    /\ commands'[j].command = commands[i].command
                    /\ commands'[j].exit_code = commands[i].exit_code
                    /\ outputs'[commands[i].id] = outputs[commands[i].id]
  BY DEF FrozenStep
<1>1. commands[i].id = seq - i + 1 /\ commands'[j].id = seq - j + 1
  BY DEF HistoryAddressable
<1>2. i = j
  <2>1. i \in Int /\ j \in Int
    OBVIOUS
  <2>2. seq - i + 1 = seq - j + 1
    BY <1>1
  <2>3. QED BY <2>1, <2>2
<1>3. CASE i = 1
  <2>1. commands # <<>>
    BY <1>3
  <2>2. QED BY <1>2, <1>3, <2>1
<1>4. CASE i # 1
  BY <1>2, <1>4
<1>5. QED BY <1>3, <1>4

LEMMA SameFrozen ==
    ASSUME IInv, UNCHANGED <<commands, outputs, seq>>
    PROVE  FrozenStep
<1>1. Len(commands) \in Nat /\ seq \in Nat
  BY DEF IInv, TypeOK
<1>2. HistoryAddressable /\ HistoryAddressable'
  BY DEF IInv, HistoryAddressable
<1>3. QED BY <1>1, <1>2, TouchFrozen

LEMMA StepA == IInv /\ handle_a => IInv' /\ FrozenStep
<1> SUFFICES ASSUME IInv, handle_a PROVE IInv' /\ FrozenStep
  OBVIOUS
<1> USE DEF IInv
<1>1. CASE phase = "Executing"
  <2>1. commands # <<>> /\ HasActive
    BY <1>1 DEF RunningIsNewest, HasActive, Finished
  <2> DEFINE r == [commands[1] EXCEPT !.completed = TRUE]
  <2>2. commands[1] \in CommandRecord
    BY <2>1, EmptySeq DEF TypeOK
  <2>3. r \in CommandRecord /\ r.id = commands[1].id /\ r.completed
    BY <2>2 DEF CommandRecord
  <2>4. commands' = [commands EXCEPT ![1] = r]
    BY <1>1, <2>1, <2>2 DEF handle_a
  <2>5. UNCHANGED <<seq, outputs>>
    BY DEF handle_a
  <2> HIDE DEF r
  <2>6. /\ commands' \in Seq(CommandRecord)
        /\ Len(commands') = Len(commands) /\ Len(commands) \in Nat \ {0}
        /\ commands'[1] = r
        /\ \A i \in 2..Len(commands') : commands'[i] = commands[i]
        /\ HistoryAddressable'
    BY <2>1, <2>3, <2>4, <2>5, TouchLemma
  <2>7. TypeOK'
    BY <2>6 DEF TypeOK, handle_a, Phases
  <2>8. RunningIsNewest'
    BY <2>3, <2>6 DEF RunningIsNewest, Finished, handle_a
  <2>9. CaptureIsOutput'
    BY DEF CaptureIsOutput, handle_a
  <2>10. FrozenStep
    BY <1>1, <2>5, <2>6, TouchFrozen DEF TypeOK, RunningIsNewest
  <2>11. QED BY <2>6, <2>7, <2>8, <2>9, <2>10
<1>2. CASE phase # "Executing"
  <2>1. UNCHANGED <<commands, outputs, seq>>
    BY <1>2 DEF handle_a
  <2>2. IInv'
    BY <1>2, <2>1 DEF TypeOK, HistoryAddressable, RunningIsNewest, CaptureIsOutput,
                      handle_a, Phases
  <2>3. FrozenStep
    BY <2>1, <2>2, SameFrozen
  <2>4. QED BY <2>2, <2>3
<1>3. QED BY <1>1, <1>2

LEMMA StepB == IInv /\ handle_b => IInv' /\ FrozenStep
<1> SUFFICES ASSUME IInv, handle_b PROVE IInv' /\ FrozenStep
  OBVIOUS
<1> USE DEF IInv
<1>0. UNCHANGED <<seq, outputs, pending, location, reported, printed>>
      /\ phase' = "Input" /\ executing' = None /\ capture' = <<>> /\ inputStart' = TRUE
  BY DEF handle_b
<1>1. CASE HasActive
  <2>1. commands # <<>>
    BY <1>1 DEF HasActive
  <2> DEFINE code == IF PreExecFailure(commands[1]) THEN 1 ELSE commands[1].exit_code
             r == [commands[1] EXCEPT !.exit_code = code, !.completed = TRUE]
  <2>2. commands[1] \in CommandRecord
    BY <2>1, EmptySeq DEF TypeOK
  <2>3. r \in CommandRecord /\ r.id = commands[1].id /\ r.completed
        /\ r.command = commands[1].command /\ r.exit_code = code
    BY <2>2 DEF CommandRecord, ExitCode
  <2>4. commands' = [commands EXCEPT ![1] = r]
    BY <1>1, <2>1, <2>2 DEF handle_b, CommandRecord
  <2>5. Finished(commands[1]) => code = commands[1].exit_code
    BY <2>1 DEF RunningIsNewest, PreExecFailure
  <2> HIDE DEF r, code
  <2>6. /\ commands' \in Seq(CommandRecord)
        /\ Len(commands') = Len(commands) /\ Len(commands) \in Nat \ {0}
        /\ commands'[1] = r
        /\ \A i \in 2..Len(commands') : commands'[i] = commands[i]
        /\ HistoryAddressable'
    BY <1>0, <2>1, <2>3, <2>4, TouchLemma
  <2>7. TypeOK'
    BY <1>0, <2>6, EmptySeq DEF TypeOK, Phases
  <2>8. RunningIsNewest'
    BY <1>0, <2>3, <2>6 DEF RunningIsNewest, Finished
  <2>9. CaptureIsOutput'
    BY <1>0 DEF CaptureIsOutput
  <2>10. FrozenStep
    BY <1>0, <2>3, <2>5, <2>6, TouchFrozen DEF TypeOK, Finished
  <2>11. QED BY <2>6, <2>7, <2>8, <2>9, <2>10
<1>2. CASE ~HasActive
  <2>1. UNCHANGED commands
    BY <1>2 DEF handle_b
  <2>2. TypeOK'
    BY <1>0, <2>1, EmptySeq DEF TypeOK, Phases
  <2>3. HistoryAddressable' /\ CaptureIsOutput'
    BY <1>0, <2>1 DEF HistoryAddressable, CaptureIsOutput
  <2>4. RunningIsNewest'
    BY <1>0, <1>2, <2>1 DEF RunningIsNewest, HasActive, Finished
  <2>5. FrozenStep
    BY <1>0, <2>1, SameFrozen
  <2>6. QED BY <2>2, <2>3, <2>4, <2>5
<1>3. QED BY <1>1, <1>2

\* A push makes an unfinished record only for C, when every older one is
\* finished already.
LEMMA PushInv ==
    ASSUME IInv, phase # "Executing",
           NEW command \in Text, NEW code \in ExitCode, NEW done \in BOOLEAN,
           NEW text \in Seq(Nat),
           push_command(command, code, done, text),
           \/ done /\ phase' = "Idle" /\ executing' = None
           \/ ~done /\ phase' = "Executing" /\ executing' = command /\ capture' = text
    PROVE  HistoryAddressable' /\ RunningIsNewest' /\ CaptureIsOutput' /\ FrozenStep
<1> USE DEF IInv
<1>1. /\ seq' = seq + 1
      /\ commands' \in Seq(CommandRecord)
      /\ Len(commands') \in 1..MaxHistory
      /\ Len(commands') <= seq'
      /\ commands'[1] = [id |-> seq + 1, command |-> command, exit_code |-> code,
                         output_done |-> done, completed |-> FALSE]
      /\ \A i \in 2..Len(commands') :
            i - 1 \in 1..Len(commands) /\ commands'[i] = commands[i - 1]
      /\ \A i \in 1..Len(commands') : commands'[i].id = seq' - i + 1
      /\ DOMAIN outputs' = {commands'[i].id : i \in 1..Len(commands')}
      /\ outputs'[seq + 1] = text
      /\ \A i \in DOMAIN outputs' : i # seq + 1 => i \in DOMAIN outputs /\ outputs'[i] = outputs[i]
  BY PushLemma
<1>2. HistoryAddressable'
  BY <1>1 DEF HistoryAddressable
<1>3. \A i \in 2..Len(commands') : Finished(commands'[i])
  BY <1>1 DEF RunningIsNewest
<1>4. Finished(commands'[1]) <=> done
  BY <1>1 DEF Finished
<1>5. RunningIsNewest'
  <2>1. commands' # <<>> /\ commands'[1].command = command
    BY <1>1
  <2>2. done => \A i \in 1..Len(commands') : Finished(commands'[i])
    BY <1>1, <1>3, <1>4
  <2>3. QED BY <1>3, <1>4, <2>1, <2>2 DEF RunningIsNewest
<1>6. CaptureIsOutput'
  BY <1>1 DEF CaptureIsOutput
<1>7. FrozenStep
  <2> SUFFICES ASSUME NEW i \in 1..Len(commands), NEW j \in 1..Len(commands'),
                      commands[i].id = commands'[j].id
               PROVE  commands'[j] = commands[i] /\ outputs'[commands[i].id] = outputs[commands[i].id]
    BY DEF FrozenStep
  <2>1. commands[i].id = seq - i + 1 /\ commands'[j].id = seq + 1 - j + 1
        /\ seq \in Nat /\ Len(commands) \in Nat
    BY <1>1 DEF HistoryAddressable, TypeOK
  <2>2. j = i + 1
    <3>1. i \in Int /\ j \in Int
      BY <1>1, <2>1
    <3>2. seq - i + 1 = seq + 1 - j + 1
      BY <2>1
    <3>3. QED BY <2>1, <3>1, <3>2
  <2>3. commands'[j] = commands[i]
    BY <1>1, <2>2
  <2>4. commands[i].id \in DOMAIN outputs' /\ commands[i].id # seq + 1
    BY <1>1, <2>1, <2>2
  <2>5. QED BY <1>1, <2>3, <2>4
<1>8. QED BY <1>2, <1>5, <1>6, <1>7

LEMMA StepC ==
    ASSUME IInv, NEW url \in Text \cup {None}, NEW screen \in Commands \cup {None},
           handle_c(url, screen)
    PROVE  IInv' /\ FrozenStep
<1> USE DEF IInv
<1>0. inputStart' = FALSE /\ reported' = FALSE /\ UNCHANGED <<location, printed>>
  BY DEF handle_c, ForgetReport
<1>1. CASE phase = "Executing"
  <2>1. UNCHANGED <<phase, executing, pending, capture, commands, outputs, seq>>
    BY <1>1 DEF handle_c, DuplicateC
  <2>2. TypeOK'
    BY <1>0, <2>1 DEF TypeOK
  <2>3. HistoryAddressable' /\ RunningIsNewest' /\ CaptureIsOutput'
    BY <2>1 DEF HistoryAddressable, RunningIsNewest, CaptureIsOutput
  <2>4. QED BY <2>1, <2>2, <2>3, SameFrozen
<1>2. CASE phase # "Executing"
  <2> DEFINE command == IF pending # None THEN pending
                        ELSE IF url # None THEN url
                        ELSE IF screen # None THEN screen
                        ELSE ""
  <2>1. /\ push_command(command, None, FALSE, <<>>)
        /\ phase' = "Executing" /\ executing' = command
        /\ pending' = None /\ capture' = <<>>
    BY <1>2 DEF handle_c, DuplicateC
  <2>2. command \in Text /\ None \in ExitCode
    BY DEF TypeOK, Text, ExitCode
  <2> HIDE DEF command
  <2>3. <<>> \in Seq(Nat)
    BY EmptySeq
  <2>4. HistoryAddressable' /\ RunningIsNewest' /\ CaptureIsOutput' /\ FrozenStep
    BY <1>2, <2>1, <2>2, <2>3, PushInv
  <2>5. seq' = seq + 1 /\ commands' \in Seq(CommandRecord)
        /\ outputs' \in [DOMAIN outputs' -> Seq(Nat)]
    BY <2>1, <2>2, <2>3, PushLemma
  <2>6. phase' \in Phases /\ executing' \in Text \cup {None} /\ pending' \in Text \cup {None}
        /\ capture' \in Seq(Nat)
    BY <2>1, <2>2, <2>3 DEF Phases
  <2>7. inputStart' \in BOOLEAN /\ reported' \in BOOLEAN
    BY <1>0, Zenon
  <2>8. TypeOK'
    BY <1>0, <2>5, <2>6, <2>7 DEF TypeOK
  <2>9. QED BY <2>4, <2>8
<1>3. QED BY <1>1, <1>2

LEMMA StepD ==
    ASSUME IInv, NEW code \in Codes \cup {None}, handle_d(code)
    PROVE  IInv' /\ FrozenStep
<1> USE DEF IInv
<1>0. /\ phase' = "Idle" /\ executing' = None
      /\ UNCHANGED <<inputStart, location, reported, printed>>
      /\ code \in ExitCode /\ <<>> \in Seq(Nat)
  BY EmptySeq DEF handle_d, ExitCode
<1>1. ASSUME DExecuting(code) PROVE IInv' /\ FrozenStep
  <2>1. phase = "Executing" /\ commands # <<>> /\ HasActive /\ ~Finished(commands[1])
    BY <1>1 DEF DExecuting, RunningIsNewest, HasActive, Finished
  <2> DEFINE r == [commands[1] EXCEPT !.exit_code = code, !.output_done = TRUE]
  <2>2. commands[1] \in CommandRecord
    BY <2>1, EmptySeq DEF TypeOK
  <2>3. r \in CommandRecord /\ r.id = commands[1].id /\ r.output_done
    BY <1>0, <2>2 DEF CommandRecord
  <2>4. commands' = [commands EXCEPT ![1] = r]
    BY <1>1, <2>1, <2>2 DEF DExecuting, CommandRecord
  <2>5. UNCHANGED <<pending, capture, outputs, seq>>
    BY <1>1 DEF DExecuting
  <2> HIDE DEF r
  <2>6. /\ commands' \in Seq(CommandRecord)
        /\ Len(commands') = Len(commands) /\ Len(commands) \in Nat \ {0}
        /\ commands'[1] = r
        /\ \A i \in 2..Len(commands') : commands'[i] = commands[i]
        /\ HistoryAddressable'
    BY <2>1, <2>3, <2>4, <2>5, TouchLemma
  <2>7. TypeOK'
    BY <1>0, <2>5, <2>6 DEF TypeOK, Phases
  <2>8. RunningIsNewest'
    BY <1>0, <2>3, <2>6 DEF RunningIsNewest, Finished
  <2>9. CaptureIsOutput'
    BY <1>0 DEF CaptureIsOutput
  <2>10. FrozenStep
    BY <2>1, <2>5, <2>6, TouchFrozen DEF TypeOK
  <2>11. QED BY <2>6, <2>7, <2>8, <2>9, <2>10
<1>2. ASSUME phase # "Executing", pending' \in Text \cup {None}, capture' = <<>>,
             NEW command \in Text, push_command(command, code, TRUE, capture)
      PROVE  IInv' /\ FrozenStep
  <2>1. capture \in Seq(Nat)
    BY DEF TypeOK
  <2>2. HistoryAddressable' /\ RunningIsNewest' /\ CaptureIsOutput' /\ FrozenStep
    BY <1>0, <1>2, <2>1, PushInv
  <2>3. seq' = seq + 1 /\ commands' \in Seq(CommandRecord)
        /\ outputs' \in [DOMAIN outputs' -> Seq(Nat)]
    BY <1>0, <1>2, <2>1, PushLemma
  <2>4. TypeOK'
    BY <1>0, <1>2, <2>3 DEF TypeOK, Phases
  <2>5. QED BY <2>2, <2>4
<1>3. ASSUME phase # "Executing", pending' \in Text \cup {None}, capture' = <<>>,
             UNCHANGED <<commands, outputs, seq>>
      PROVE  IInv' /\ FrozenStep
  <2>1. TypeOK'
    BY <1>0, <1>3 DEF TypeOK, Phases
  <2>2. HistoryAddressable' /\ CaptureIsOutput'
    BY <1>0, <1>3 DEF HistoryAddressable, CaptureIsOutput
  <2>3. RunningIsNewest'
    BY <1>0, <1>3 DEF RunningIsNewest, Finished
  <2>4. QED BY <1>3, <2>1, <2>2, <2>3, SameFrozen
<1>4. ASSUME DInput(code) PROVE IInv' /\ FrozenStep
  <2>1. TakenText \in Text /\ phase # "Executing" /\ pending' \in Text \cup {None}
        /\ capture' = <<>>
    BY <1>4 DEF DInput, TakenText, TypeOK, Text
  <2>2. \/ push_command(TakenText, code, TRUE, capture)
        \/ UNCHANGED <<commands, outputs, seq>>
    BY <1>4 DEF DInput
  <2>3. QED BY <2>1, <2>2, <1>2, <1>3
<1>5. ASSUME DUnexpected(code) PROVE IInv' /\ FrozenStep
  <2>1. "" \in Text /\ phase # "Executing" /\ pending' \in Text \cup {None}
        /\ capture' = <<>>
    BY <1>5 DEF DUnexpected, TypeOK, Text
  <2>2. \/ push_command("", code, TRUE, capture)
        \/ UNCHANGED <<commands, outputs, seq>>
    BY <1>5 DEF DUnexpected
  <2>3. QED BY <2>1, <2>2, <1>2, <1>3
<1>6. QED BY <1>1, <1>4, <1>5 DEF handle_d

LEMMA StepE ==
    ASSUME IInv, NEW text \in Text, handle_e(text)
    PROVE  IInv' /\ FrozenStep
<1> USE DEF IInv
<1>0. UNCHANGED <<phase, capture, outputs, seq, inputStart, location, reported, printed>>
  BY DEF handle_e
<1>1. CASE phase = "Executing"
  <2>1. commands # <<>> /\ HasActive /\ ~Finished(commands[1])
    BY <1>1 DEF RunningIsNewest, HasActive, Finished
  <2> DEFINE r == [commands[1] EXCEPT !.command = text]
  <2>2. commands[1] \in CommandRecord
    BY <2>1, EmptySeq DEF TypeOK
  <2>3. r \in CommandRecord /\ r.id = commands[1].id /\ r.command = text
        /\ r.completed = commands[1].completed /\ r.output_done = commands[1].output_done
    BY <2>2 DEF CommandRecord
  <2>4. commands' = [commands EXCEPT ![1] = r] /\ executing' = text /\ UNCHANGED pending
    BY <1>1, <2>1, <2>2 DEF handle_e
  <2> HIDE DEF r
  <2>6. /\ commands' \in Seq(CommandRecord)
        /\ Len(commands') = Len(commands) /\ Len(commands) \in Nat \ {0}
        /\ commands'[1] = r
        /\ \A i \in 2..Len(commands') : commands'[i] = commands[i]
        /\ HistoryAddressable'
    BY <1>0, <2>1, <2>3, <2>4, TouchLemma
  <2>7. TypeOK'
    BY <1>0, <2>4, <2>6 DEF TypeOK
  <2>8. RunningIsNewest'
    BY <1>0, <1>1, <2>1, <2>3, <2>4, <2>6 DEF RunningIsNewest, Finished
  <2>9. CaptureIsOutput'
    BY <1>0, <2>3, <2>6 DEF CaptureIsOutput
  <2>10. FrozenStep
    BY <1>0, <2>1, <2>6, TouchFrozen DEF TypeOK
  <2>11. QED BY <2>6, <2>7, <2>8, <2>9, <2>10
<1>2. CASE phase # "Executing"
  <2>1. pending' = text /\ UNCHANGED <<executing, commands>>
    BY <1>2 DEF handle_e
  <2>2. TypeOK'
    BY <1>0, <2>1 DEF TypeOK
  <2>3. HistoryAddressable' /\ RunningIsNewest' /\ CaptureIsOutput'
    BY <1>0, <2>1 DEF HistoryAddressable, RunningIsNewest, CaptureIsOutput
  <2>4. QED BY <1>0, <2>1, <2>2, <2>3, SameFrozen
<1>3. QED BY <1>1, <1>2

LEMMA StepOutput == IInv /\ append_output => IInv' /\ FrozenStep
<1> SUFFICES ASSUME IInv, append_output PROVE IInv' /\ FrozenStep
  OBVIOUS
<1> USE DEF IInv
<1>0. /\ UNCHANGED <<phase, executing, pending, commands, seq, inputStart, location, reported>>
      /\ printed' \in Nat /\ capture' = Append(capture, printed') /\ capture' \in Seq(Nat)
  BY DEF append_output, TypeOK
<1>1. CASE Accumulates
  <2> DEFINE id == commands[1].id
  <2>1. commands # <<>> /\ ~Finished(commands[1]) /\ phase = "Executing"
    BY <1>1, EmptySeq DEF Accumulates, HasActive, Finished, RunningIsNewest, TypeOK
  <2>2. Len(commands) \in Nat \ {0} /\ id \in DOMAIN outputs
    <3>1. Len(commands) \in Nat \ {0}
      BY <2>1, EmptySeq DEF TypeOK
    <3>2. 1 \in 1..Len(commands)
      BY <3>1
    <3>3. QED BY <3>1, <3>2 DEF HistoryAddressable
  <2>3. outputs' = [outputs EXCEPT ![id] = Append(@, printed')]
    BY <1>1 DEF append_output
  <2>4. outputs[id] \in Seq(Nat) /\ Append(outputs[id], printed') \in Seq(Nat)
    BY <1>0, <2>2 DEF TypeOK
  <2>5. /\ DOMAIN outputs' = DOMAIN outputs
        /\ outputs' \in [DOMAIN outputs' -> Seq(Nat)]
        /\ outputs'[id] = Append(outputs[id], printed')
        /\ \A i \in DOMAIN outputs : i # id => outputs'[i] = outputs[i]
    BY <2>2, <2>3, <2>4 DEF TypeOK
  <2>6. TypeOK'
    BY <1>0, <2>5 DEF TypeOK
  <2>7. HistoryAddressable'
    BY <1>0, <2>5 DEF HistoryAddressable
  <2>8. RunningIsNewest'
    BY <1>0 DEF RunningIsNewest
  <2>9. CaptureIsOutput'
    BY <1>0, <2>1, <2>5 DEF CaptureIsOutput
  <2>10. \A i \in 2..Len(commands) : outputs'[commands[i].id] = outputs[commands[i].id]
    <3> TAKE i \in 2..Len(commands)
    <3>1. commands[i].id = seq - i + 1 /\ id = seq - 1 + 1 /\ commands[i].id \in DOMAIN outputs
      BY <2>2 DEF HistoryAddressable
    <3>2. seq \in Int /\ i \in Int /\ i # 1
      BY <2>2 DEF TypeOK
    <3>3. commands[i].id # id
      BY <3>1, <3>2
    <3>4. QED BY <2>5, <3>1, <3>3
  <2>11. FrozenStep
    BY <1>0, <2>1, <2>2, <2>7, <2>10, TouchFrozen DEF TypeOK
  <2>12. QED BY <2>6, <2>7, <2>8, <2>9, <2>11
<1>2. CASE ~Accumulates
  <2>1. UNCHANGED outputs
    BY <1>2 DEF append_output
  <2>2. phase # "Executing"
    BY <1>2 DEF Accumulates, HasActive, RunningIsNewest, Finished
  <2>3. TypeOK'
    BY <1>0, <2>1 DEF TypeOK
  <2>4. HistoryAddressable' /\ RunningIsNewest' /\ CaptureIsOutput'
    BY <1>0, <2>1, <2>2 DEF HistoryAddressable, RunningIsNewest, CaptureIsOutput
  <2>5. QED BY <1>0, <2>1, <2>3, <2>4, SameFrozen
<1>3. QED BY <1>1, <1>2

LEMMA StepOsc7 ==
    ASSUME IInv, NEW place \in Places, update_cwd_from_osc7(place)
    PROVE  IInv' /\ FrozenStep
<1> USE DEF IInv
<1>1. UNCHANGED <<phase, executing, pending, capture, commands, outputs, seq,
                  inputStart, printed>> /\ location' = place /\ reported' = TRUE
  BY DEF update_cwd_from_osc7
<1>2. TypeOK'
  BY <1>1 DEF TypeOK
<1>3. HistoryAddressable' /\ RunningIsNewest' /\ CaptureIsOutput'
  BY <1>1 DEF HistoryAddressable, RunningIsNewest, CaptureIsOutput
<1>4. QED BY <1>1, <1>2, <1>3, SameFrozen

LEMMA StepInv == IInv /\ [Next]_vars => IInv' /\ FrozenStep
<1> SUFFICES ASSUME IInv, [Next]_vars PROVE IInv' /\ FrozenStep
  OBVIOUS
<1>1. ASSUME UNCHANGED vars PROVE IInv' /\ FrozenStep
  <2>1. IInv'
    BY <1>1 DEF vars, IInv, TypeOK, HistoryAddressable, RunningIsNewest, CaptureIsOutput
  <2>2. QED BY <1>1, <2>1, SameFrozen DEF vars
<1>2. QED
  BY <1>1, StepA, StepB, StepC, StepD, StepE, StepOutput, StepOsc7 DEF Next

\* The tracker's state keeps its type (TerminalState, Osc133Parser).
THEOREM TypeCorrect == Spec => []TypeOK
<1>1. IInv => TypeOK
  BY DEF IInv
<1>2. QED BY <1>1, InitInv, StepInv, PTL DEF Spec

\* For any history bound the ids count down from seq_counter and outputs and
\* records come and go together (TerminalState::push_command_start).
THEOREM HistoryIsAddressable == Spec => []HistoryAddressable
<1>1. IInv => HistoryAddressable
  BY DEF IInv
<1>2. QED BY <1>1, InitInv, StepInv, PTL DEF Spec

\* On every stream of markers the running command is the newest record and
\* the only unfinished one (Osc133Parser's handlers).
THEOREM TheRunningCommandIsTheNewest == Spec => []RunningIsNewest
<1>1. IInv => RunningIsNewest
  BY DEF IInv
<1>2. QED BY <1>1, InitInv, StepInv, PTL DEF Spec

\* No marker or text after D or B changes a finished command's text, exit
\* code or output (the handlers and append_active_output).
THEOREM FinishedCommandsAreFrozen == Spec => FinishedIsFrozen
<1>1. IInv /\ [Next]_vars => [FrozenStep]_vars
  BY StepInv
<1>2. QED BY <1>1, InitInv, StepInv, PTL DEF Spec, FinishedIsFrozen

-----------------------------------------------------------------------------
(***************************************************************************)
(* The tracker implements Markers: the facts the rest of the daemon reads  *)
(* of it are a state machine of their own.  The mapping (Shown) keeps the  *)
(* status of the newest record only, so each step needs the inductive      *)
(* invariant above: without RunningIsNewest an A while Executing might     *)
(* find no active record, and B might leave a newest one unfinished.       *)
(***************************************************************************)
\* A sequence with a first record is not empty.
LEMMA NotEmpty ==
    ASSUME NEW s \in Seq(CommandRecord), Len(s) # 0 PROVE s # <<>>
BY EmptySeq

\* The newest record was changed: its status is the one shown.
LEMMA NewestTouched ==
    ASSUME IInv, commands # <<>>, NEW r \in CommandRecord, r.id = commands[1].id,
           commands' = [commands EXCEPT ![1] = r], UNCHANGED <<seq, outputs>>
    PROVE  Newest' = Status(r)
<1>1. commands' \in Seq(CommandRecord) /\ Len(commands') # 0 /\ commands'[1] = r
  BY TouchLemma DEF IInv
<1>2. commands' # <<>>
  BY <1>1, NotEmpty
<1> QED BY <1>1, <1>2 DEF Newest

\* A record was pushed: it is the newest.
LEMMA NewestPushed ==
    ASSUME IInv, NEW command \in Text, NEW code \in ExitCode, NEW done \in BOOLEAN,
           NEW text \in Seq(Nat), push_command(command, code, done, text)
    PROVE  seq' = seq + 1 /\ Newest' = IF done THEN "output_done" ELSE "running"
<1>1. /\ seq' = seq + 1 /\ commands' \in Seq(CommandRecord) /\ Len(commands') \in 1..MaxHistory
      /\ commands'[1] = [id |-> seq + 1, command |-> command, exit_code |-> code,
                         output_done |-> done, completed |-> FALSE]
  BY PushLemma DEF IInv
<1>2. commands' # <<>>
  BY <1>1, NotEmpty, MaxHistoryAssumption
<1>3. commands'[1].completed = FALSE /\ commands'[1].output_done = done
  BY <1>1
<1> QED BY <1>1, <1>2, <1>3, Zenon DEF Newest, Status

\* While the phase is Executing the newest record is running, and active.
LEMMA Running ==
    ASSUME IInv, phase = "Executing"
    PROVE  /\ commands # <<>> /\ HasActive /\ ~commands[1].output_done
           /\ commands[1] \in CommandRecord /\ Newest = "running"
BY EmptySeq DEF IInv, TypeOK, RunningIsNewest, HasActive, Finished, Newest, Status

\* A stands for A.
LEMMA SeenA == ASSUME IInv, handle_a PROVE Seen!A
<1>1. /\ phase' = "Prompt" /\ inputStart' = FALSE /\ seq' = seq /\ Context' = Context
  BY DEF handle_a, Context
<1>2. Newest' = IF phase = "Executing" THEN "completed" ELSE Newest
  <2>1. CASE phase = "Executing"
    <3> DEFINE r == [commands[1] EXCEPT !.completed = TRUE]
    <3>1. r \in CommandRecord /\ r.id = commands[1].id /\ r.completed
      BY <2>1, Running DEF CommandRecord
    <3>2. commands' = [commands EXCEPT ![1] = r] /\ UNCHANGED <<seq, outputs>>
      BY <2>1, Running DEF handle_a
    <3> HIDE DEF r
    <3>3. Newest' = Status(r)
      BY <2>1, <3>1, <3>2, Running, NewestTouched
    <3> QED BY <2>1, <3>1, <3>3 DEF Status
  <2>2. CASE phase # "Executing"
    BY <2>2 DEF handle_a, Newest
  <2> QED BY <2>1, <2>2
<1> QED BY <1>1, <1>2 DEF Shown, Seen!A, Seen!MarkA

\* B stands for B.
LEMMA SeenB == ASSUME IInv, handle_b PROVE Seen!B
<1>1. /\ phase' = "Input" /\ inputStart' = TRUE /\ seq' = seq /\ Context' = Context
  BY DEF handle_b, Context
<1>2. Newest' = IF Newest = "none" THEN "none" ELSE "completed"
  <2>1. CASE HasActive
    <3> DEFINE code == IF PreExecFailure(commands[1]) THEN 1 ELSE commands[1].exit_code
               r == [commands[1] EXCEPT !.exit_code = code, !.completed = TRUE]
    <3>1. commands # <<>> /\ commands[1] \in CommandRecord
      BY <2>1, EmptySeq DEF HasActive, IInv, TypeOK
    <3>2. r \in CommandRecord /\ r.id = commands[1].id /\ r.completed
      BY <3>1 DEF CommandRecord, ExitCode
    <3>3. commands' = [commands EXCEPT ![1] = r] /\ UNCHANGED <<seq, outputs>>
      BY <2>1, <3>1 DEF handle_b, CommandRecord
    <3> HIDE DEF r, code
    <3>4. Newest' = Status(r)
      BY <3>1, <3>2, <3>3, NewestTouched
    <3>5. Newest # "none"
      BY <3>1 DEF Newest, Status
    <3> QED BY <3>2, <3>4, <3>5 DEF Status
  <2>2. CASE ~HasActive
    BY <2>2 DEF handle_b, HasActive, Newest, Status
  <2> QED BY <2>1, <2>2
<1> QED BY <1>1, <1>2 DEF Shown, Seen!B, Seen!MarkB

\* C stands for C, with whatever command text.
LEMMA SeenC ==
    ASSUME IInv, NEW url \in Text \cup {None}, NEW screen \in Commands \cup {None},
           handle_c(url, screen)
    PROVE  Seen!C
<1>1. inputStart' = FALSE /\ Context' = None
  BY DEF handle_c, ForgetReport, Context
<1>2. CASE phase = "Executing"
  <2>1. phase' = phase /\ seq' = seq /\ Newest' = Newest
    BY <1>2 DEF handle_c, DuplicateC, Newest
  <2> QED BY <1>1, <1>2, <2>1 DEF Shown, Seen!C, Seen!MarkC
<1>3. CASE phase # "Executing"
  <2> DEFINE command == IF pending # None THEN pending
                        ELSE IF url # None THEN url
                        ELSE IF screen # None THEN screen
                        ELSE ""
  <2>1. push_command(command, None, FALSE, <<>>) /\ phase' = "Executing"
    BY <1>3 DEF handle_c, DuplicateC
  <2>2. command \in Text /\ None \in ExitCode /\ <<>> \in Seq(Nat) /\ FALSE \in BOOLEAN
    BY EmptySeq DEF IInv, TypeOK, Text, ExitCode
  <2> HIDE DEF command
  <2>3. seq' = seq + 1 /\ Newest' = "running"
    BY <2>1, <2>2, NewestPushed
  <2> QED BY <1>1, <1>3, <2>1, <2>3 DEF Shown, Seen!C, Seen!MarkC
<1> QED BY <1>2, <1>3

\* D stands for D, with text where there is something to record.
LEMMA SeenD == ASSUME IInv, NEW code \in Codes \cup {None}, handle_d(code) PROVE Seen!D
<1>1. phase' = "Idle" /\ inputStart' = inputStart /\ Context' = Context /\ code \in ExitCode
      /\ TRUE \in BOOLEAN
  BY DEF handle_d, Context, ExitCode
<1>2. CASE phase = "Executing"
  <2> DEFINE r == [commands[1] EXCEPT !.exit_code = code, !.output_done = TRUE]
  <2>1. DExecuting(code)
    BY <1>2 DEF handle_d, DInput, DUnexpected
  <2>2. /\ r \in CommandRecord /\ r.id = commands[1].id /\ r.output_done
        /\ r.completed = commands[1].completed
    BY <1>1, <1>2, Running DEF CommandRecord
  <2>3. commands' = [commands EXCEPT ![1] = r] /\ UNCHANGED <<seq, outputs>>
    BY <1>2, <2>1, Running DEF DExecuting, CommandRecord
  <2> HIDE DEF r
  <2>4. Newest' = Status(r)
    BY <1>2, <2>2, <2>3, Running, NewestTouched
  <2>5. Newest' = "output_done" /\ seq' = seq
    BY <1>2, <2>2, <2>3, <2>4, Running DEF Status, HasActive
  <2>6. Shown' = Seen!MarkD(Shown, TRUE)
    BY <1>1, <1>2, <2>5 DEF Shown, Seen!MarkD
  <2> QED BY <2>6, Zenon DEF Seen!D
<1>3. ASSUME phase # "Executing", NEW command \in Text,
             push_command(command, code, TRUE, capture)
      PROVE  Seen!D
  <2>1. seq' = seq + 1 /\ Newest' = "output_done"
    BY <1>1, <1>3, NewestPushed DEF IInv, TypeOK
  <2>2. Shown' = Seen!MarkD(Shown, TRUE)
    BY <1>1, <1>3, <2>1 DEF Shown, Seen!MarkD
  <2> QED BY <2>2, Zenon DEF Seen!D
<1>4. ASSUME phase # "Executing", UNCHANGED <<commands, outputs, seq>> PROVE Seen!D
  <2>1. Newest' = Newest
    BY <1>4 DEF Newest
  <2>2. Shown' = Seen!MarkD(Shown, FALSE)
    BY <1>1, <1>4, <2>1 DEF Shown, Seen!MarkD
  <2> QED BY <2>2, Zenon DEF Seen!D
<1>5. ASSUME DInput(code) PROVE Seen!D
  <2>1. TakenText \in Text /\ phase # "Executing"
    BY <1>5 DEF DInput, TakenText, IInv, TypeOK, Text
  <2> QED BY <1>3, <1>4, <1>5, <2>1 DEF DInput
<1>6. ASSUME DUnexpected(code) PROVE Seen!D
  <2>1. "" \in Text /\ phase # "Executing"
    BY <1>6 DEF DUnexpected, Text
  <2> QED BY <1>3, <1>4, <1>6, <2>1 DEF DUnexpected
<1>7. phase # "Executing" => DInput(code) \/ DUnexpected(code)
  BY DEF handle_d, DExecuting
<1> QED BY <1>2, <1>5, <1>6, <1>7

\* E changes nothing the daemon reads here.
LEMMA SeenE == ASSUME IInv, NEW text \in Text, handle_e(text) PROVE Shown' = Shown
<1>1. UNCHANGED <<phase, seq, inputStart, location, reported, outputs>>
  BY DEF handle_e
<1>2. CASE phase = "Executing"
  <2> DEFINE r == [commands[1] EXCEPT !.command = text]
  <2>1. r \in CommandRecord /\ r.id = commands[1].id /\ Status(r) = Status(commands[1])
    BY <1>2, Running DEF CommandRecord, Status
  <2>2. commands' = [commands EXCEPT ![1] = r]
    BY <1>2, Running DEF handle_e
  <2> HIDE DEF r
  <2>3. Newest' = Newest
    BY <1>1, <1>2, <2>1, <2>2, Running, NewestTouched DEF Newest
  <2> QED BY <1>1, <2>3 DEF Shown, Context
<1>3. CASE phase # "Executing"
  BY <1>1, <1>3 DEF handle_e, Shown, Newest, Context
<1> QED BY <1>2, <1>3

\* The tracker starts as Markers does.
LEMMA SeenInit == Init => Seen!Init
BY DEF Init, Shown, Newest, Context, Seen!Init, Seen!NewTerminal

\* Each step is a step of Markers, or shows nothing.
LEMMA SeenStep == IInv /\ [Next]_vars => [Seen!Next]_Shown
<1> SUFFICES ASSUME IInv, [Next]_vars PROVE Seen!Next \/ Shown' = Shown
  BY DEF Seen!Next
<1>1. CASE UNCHANGED vars
  BY <1>1 DEF vars, Shown, Newest, Context
<1>2. CASE append_output
  BY <1>2 DEF append_output, Shown, Newest, Context
<1>3. ASSUME NEW place \in Places, update_cwd_from_osc7(place) PROVE Seen!Next
  <2>1. Shown' = Seen!MarkOsc7(Shown, place)
    BY <1>3 DEF update_cwd_from_osc7, Shown, Newest, Context, Seen!MarkOsc7
  <2> QED BY <2>1, Zenon DEF Seen!Next, Seen!Osc7
<1> QED BY <1>1, <1>2, <1>3, SeenA, SeenB, SeenC, SeenD, SeenE DEF Next, Seen!Next

\* For every stream of markers, history bound and set of commands, what the
\* daemon reads of a pane's tracker behaves as Markers says: the protocol of
\* PaneWrites, which builds on Markers, may rely on it.
THEOREM TrackerImplementsMarkers == Spec => ImplementsMarkers
<1>1. Spec => []IInv
  BY InitInv, StepInv, PTL DEF Spec
<1> QED BY <1>1, SeenInit, SeenStep, PTL DEF Spec, ImplementsMarkers, Seen!Spec

-----------------------------------------------------------------------------
\* The stream.  MCOsc133 keeps the stream the tracker read beside it; that
\* the outputs are the stream's needs the parts of StreamInv: which records
\* are over and which goes on, and that the capture is the text since a B
\* whenever the stream stands after a B with no other marker.

\* The items of a stream.
Marks == Cycle \cup {"E", "text", "osc7"}

\* Printed and TextBetween of a stream.
PrintedIn(s, n) == Cardinality({k \in 1..n : s[k] = "text"})
Pieces(a, b) == [k \in 1..(b - a) |-> a + k]
TextIn(s, i, j) == Pieces(PrintedIn(s, i), PrintedIn(s, j))

\* A stretch of text that grows by one piece at its end.
LEMMA PiecesLemma ==
    ASSUME NEW a \in Nat, NEW b \in Nat, a <= b
    PROVE  Pieces(a, a) = <<>> /\ Pieces(a, b + 1) = Append(Pieces(a, b), b + 1)
<1> DEFINE u == Pieces(a, b)
           v == Pieces(a, a)
           n == b - a
<1>1. n \in Nat /\ n + 1 = b + 1 - a /\ a + (n + 1) = b + 1
  OBVIOUS
<1>2. u \in [1..n -> Nat] /\ \A k \in 1..n : u[k] = a + k
  BY <1>1 DEF Pieces
<1>3. v \in [1..0 -> Nat]
  BY DEF Pieces
<1> HIDE DEF u, v, n
<1>4. u \in Seq(Nat) /\ Len(u) = n
  BY <1>1, <1>2, SeqDef, LenProperties
<1>5. v = <<>>
  <2>1. v \in Seq(Nat) /\ Len(v) = 0
    BY <1>3, SeqDef, LenProperties
  <2> QED
    BY <2>1, EmptySeq
<1>6. Append(u, b + 1) = [k \in 1..(n + 1) |-> IF k = n + 1 THEN b + 1 ELSE u[k]]
  BY <1>4
<1>7. Pieces(a, b + 1) = [k \in 1..(n + 1) |-> a + k]
  BY <1>1 DEF Pieces
<1>8. \A k \in 1..(n + 1) : a + k = IF k = n + 1 THEN b + 1 ELSE u[k]
  BY <1>1, <1>2
<1> QED
  BY <1>5, <1>6, <1>7, <1>8 DEF u, v

\* How much text a stream holds up to a place is a number, more further on.
LEMMA PrintedType ==
    ASSUME NEW s, NEW n \in Nat
    PROVE  /\ IsFiniteSet({k \in 1..n : s[k] = "text"}) /\ PrintedIn(s, n) \in Nat
           /\ \A m \in 0..n : PrintedIn(s, m) \in Nat /\ PrintedIn(s, m) <= PrintedIn(s, n)
<1> DEFINE T(m) == {k \in 1..m : s[k] = "text"}
<1>1. ASSUME NEW m \in Nat
      PROVE  IsFiniteSet(T(m)) /\ Cardinality(T(m)) \in Nat
  <2>1. IsFiniteSet(1..m) /\ T(m) \in SUBSET (1..m)
    BY FS_Interval
  <2> HIDE DEF T
  <2> QED
    BY <2>1, FS_Subset, FS_CardinalityType
<1>2. ASSUME NEW m \in 0..n
      PROVE  Cardinality(T(m)) <= Cardinality(T(n))
  <2>1. T(m) \in SUBSET T(n)
    OBVIOUS
  <2> HIDE DEF T
  <2> QED
    BY <1>1, <2>1, FS_Subset
<1> QED
  BY <1>1, <1>2 DEF PrintedIn

\* The stream goes on by one item.
Goes(s, t, what) ==
    /\ Len(t) = Len(s) + 1 /\ t[Len(s) + 1] = what
    /\ \A k \in 1..Len(s) : t[k] = s[k]

\* One more item of the stream adds to the text only when it is text.
LEMMA PrintedStep ==
    ASSUME NEW s, Len(s) \in Nat, NEW t, NEW what, Goes(s, t, what)
    PROVE  /\ \A n \in 0..Len(s) : PrintedIn(t, n) = PrintedIn(s, n)
           /\ what # "text" => PrintedIn(t, Len(t)) = PrintedIn(s, Len(s))
           /\ what = "text" => PrintedIn(t, Len(t)) = PrintedIn(s, Len(s)) + 1
<1> DEFINE L == Len(s)
           T(n) == {k \in 1..n : t[k] = "text"}
           S(n) == {k \in 1..n : s[k] = "text"}
<1>1. \A n \in 0..L : T(n) = S(n)
  BY DEF Goes
<1>2. what # "text" => T(L + 1) = S(L)
  BY DEF Goes
<1>3. what = "text" => T(L + 1) = S(L) \cup {L + 1}
  BY DEF Goes
<1>4. L + 1 \notin S(L) /\ IsFiniteSet(S(L)) /\ Len(t) = L + 1
  <2>1. IsFiniteSet(S(L))
    BY PrintedType
  <2> QED
    BY <2>1 DEF Goes
<1> HIDE DEF T, S
<1>5. Cardinality(S(L) \cup {L + 1}) = Cardinality(S(L)) + 1
  BY <1>4, FS_AddElement
<1> QED
  BY <1>1, <1>2, <1>3, <1>4, <1>5 DEF PrintedIn, T, S

\* The text between two places of the stream stays as it was, and the text up to
\* its end grows with it.
LEMMA TextStep ==
    ASSUME NEW s, Len(s) \in Nat, NEW t, NEW what, Goes(s, t, what)
    PROVE  /\ \A i, j \in 0..Len(s) : TextIn(t, i, j) = TextIn(s, i, j)
           /\ what # "text" => \A i \in 0..Len(s) : TextIn(t, i, Len(t)) = TextIn(s, i, Len(s))
           /\ what = "text" =>
                 \A i \in 0..Len(s) :
                    TextIn(t, i, Len(t)) = Append(TextIn(s, i, Len(s)), PrintedIn(s, Len(s)) + 1)
           /\ TextIn(t, Len(t), Len(t)) = <<>>
<1>1. \A n \in 0..Len(s) : PrintedIn(t, n) = PrintedIn(s, n)
  BY PrintedStep
<1>2. Len(s) \in 0..Len(s)
  OBVIOUS
<1>3. \A i, j \in 0..Len(s) : TextIn(t, i, j) = TextIn(s, i, j)
  BY <1>1 DEF TextIn
<1>4. ASSUME what # "text", NEW i \in 0..Len(s)
      PROVE  TextIn(t, i, Len(t)) = TextIn(s, i, Len(s))
  BY <1>1, <1>2, <1>4, PrintedStep DEF TextIn
<1>5. ASSUME what = "text", NEW i \in 0..Len(s)
      PROVE  TextIn(t, i, Len(t)) = Append(TextIn(s, i, Len(s)), PrintedIn(s, Len(s)) + 1)
  <2>1. /\ PrintedIn(s, i) \in Nat /\ PrintedIn(s, Len(s)) \in Nat
        /\ PrintedIn(s, i) <= PrintedIn(s, Len(s))
    BY PrintedType
  <2>2. PrintedIn(t, i) = PrintedIn(s, i) /\ PrintedIn(t, Len(t)) = PrintedIn(s, Len(s)) + 1
    BY <1>1, <1>5, PrintedStep
  <2> QED
    BY <2>1, <2>2, PiecesLemma DEF TextIn
<1>6. TextIn(t, Len(t), Len(t)) = <<>>
  <2>1. Len(t) \in Nat
    BY DEF Goes
  <2>2. PrintedIn(t, Len(t)) \in Nat
    BY <2>1, PrintedType
  <2> QED
    BY <2>2, PiecesLemma DEF TextIn
<1> QED
  BY <1>3, <1>4, <1>5, <1>6

\* Nothing of M from place i to place j of a stream.
Quiet(s, i, j, M) == \A k \in i..j : s[k] \notin M
Ends == Cycle \ {"C"}

\* The text of a record made at a place of the stream: of a command that is
\* over, of one that goes on, and the B that a lone D would refer to.
Settled(s, at, text) ==
    \/ /\ s[at] = "C"
       /\ \E e \in (at + 1)..Len(s) : /\ s[e] \in Ends /\ Quiet(s, at + 1, e - 1, Ends)
                                      /\ text = TextIn(s, at, e)
    \/ /\ s[at] = "D"
       /\ \A b \in 1..(at - 1) : s[b] = "B" /\ Quiet(s, b + 1, at - 1, Cycle) =>
             text = TextIn(s, b, at)
GoesOn(s, at, text) ==
    s[at] = "C" /\ Quiet(s, at + 1, Len(s), Ends) /\ text = TextIn(s, at, Len(s))
AtInput(s, b) == b \in 1..Len(s) /\ s[b] = "B" /\ Quiet(s, b + 1, Len(s), Cycle)

\* What is settled stays so.
LEMMA SettledLater ==
    ASSUME NEW s, Len(s) \in Nat, NEW t, NEW what, Goes(s, t, what),
           NEW at \in 1..Len(s), NEW text, Settled(s, at, text)
    PROVE  Settled(t, at, text)
<1>1. /\ \A k \in 1..Len(s) : t[k] = s[k]
      /\ \A i, j \in 0..Len(s) : TextIn(t, i, j) = TextIn(s, i, j)
      /\ Len(t) = Len(s) + 1
  BY TextStep DEF Goes
<1>2. ASSUME s[at] = "C",
             NEW e \in (at + 1)..Len(s), s[e] \in Ends, Quiet(s, at + 1, e - 1, Ends),
             text = TextIn(s, at, e)
      PROVE  Settled(t, at, text)
  <2>1. e \in (at + 1)..Len(t) /\ t[e] = s[e] /\ t[at] = "C" /\ text = TextIn(t, at, e)
    BY <1>1, <1>2
  <2>2. Quiet(t, at + 1, e - 1, Ends)
    BY <1>1, <1>2 DEF Quiet
  <2> QED
    BY <1>2, <2>1, <2>2 DEF Settled
<1>3. ASSUME s[at] = "D",
             \A b \in 1..(at - 1) : s[b] = "B" /\ Quiet(s, b + 1, at - 1, Cycle) =>
                 text = TextIn(s, b, at)
      PROVE  Settled(t, at, text)
  <2>1. ASSUME NEW b \in 1..(at - 1), t[b] = "B", Quiet(t, b + 1, at - 1, Cycle)
        PROVE  text = TextIn(t, b, at)
    <3>1. b \in 0..Len(s) /\ at \in 0..Len(s) /\ s[b] = "B"
      BY <1>1, <2>1
    <3>2. Quiet(s, b + 1, at - 1, Cycle)
      BY <1>1, <2>1 DEF Quiet
    <3> QED
      BY <1>1, <1>3, <3>1, <3>2
  <2> QED
    BY <1>1, <1>3, <2>1 DEF Settled
<1> QED
  BY <1>2, <1>3 DEF Settled

\* A command goes on, or is over.
LEMMA GoesOnLater ==
    ASSUME NEW s, Len(s) \in Nat, NEW t, NEW what, Goes(s, t, what),
           NEW at \in 1..Len(s), NEW text, GoesOn(s, at, text)
    PROVE  /\ what \in Ends => Settled(t, at, text)
           /\ what \notin Ends /\ what # "text" => GoesOn(t, at, text)
           /\ what = "text" => GoesOn(t, at, Append(text, PrintedIn(s, Len(s)) + 1))
<1>1. /\ \A k \in 1..Len(s) : t[k] = s[k]
      /\ Len(t) = Len(s) + 1 /\ t[Len(t)] = what /\ Len(t) - 1 = Len(s)
  BY DEF Goes
<1>2. /\ what # "text" => text = TextIn(t, at, Len(t))
      /\ what = "text" => TextIn(t, at, Len(t)) = Append(text, PrintedIn(s, Len(s)) + 1)
  BY TextStep DEF GoesOn
<1>3. Quiet(t, at + 1, Len(t) - 1, Ends) /\ t[at] = "C"
  BY <1>1 DEF GoesOn, Quiet
<1>4. what \notin Ends => Quiet(t, at + 1, Len(t), Ends)
  BY <1>1, <1>3 DEF Quiet
<1>5. "text" \notin Ends
  BY DEF Ends, Cycle
<1>6. ASSUME what \in Ends
      PROVE  Settled(t, at, text)
  <2>1. Len(t) \in (at + 1)..Len(t)
    BY <1>1
  <2> QED
    BY <1>1, <1>2, <1>3, <1>5, <1>6, <2>1 DEF Settled
<1> QED
  BY <1>2, <1>3, <1>4, <1>5, <1>6 DEF GoesOn

\* Only a B begins input, and any marker of the cycle ends it.
LEMMA InputLater ==
    ASSUME NEW s, Len(s) \in Nat, NEW t, NEW what, Goes(s, t, what), NEW b
    PROVE  /\ what \notin Cycle => (AtInput(t, b) <=> AtInput(s, b))
           /\ what \in Cycle => (AtInput(t, b) <=> b = Len(t) /\ what = "B")
<1>1. /\ \A k \in 1..Len(s) : t[k] = s[k]
      /\ Len(t) = Len(s) + 1 /\ t[Len(t)] = what /\ Len(t) \in Nat
  BY DEF Goes
<1>2. "B" \in Cycle
  BY DEF Cycle
<1>3. CASE b \in 1..Len(s)
  <2>1. t[b] = s[b] /\ b \in 1..Len(t) /\ b # Len(t)
    BY <1>1, <1>3
  <2>2. Quiet(t, b + 1, Len(t), Cycle) <=> Quiet(s, b + 1, Len(s), Cycle) /\ what \notin Cycle
    <3>1. \A k : k \in (b + 1)..Len(t) <=> k \in (b + 1)..Len(s) \/ k = Len(t)
      BY <1>1, <1>3
    <3>2. \A k \in (b + 1)..Len(s) : t[k] = s[k]
      BY <1>1, <1>3
    <3> QED
      BY <1>1, <3>1, <3>2 DEF Quiet
  <2> QED
    BY <1>3, <2>1, <2>2 DEF AtInput
<1>4. CASE b \notin 1..Len(s)
  <2>1. b \in 1..Len(t) <=> b = Len(t)
    BY <1>1, <1>4
  <2>2. Quiet(t, Len(t) + 1, Len(t), Cycle)
    BY <1>1 DEF Quiet
  <2> QED
    BY <1>1, <1>2, <1>4, <2>1, <2>2 DEF AtInput
<1> QED
  BY <1>3, <1>4

\* A D settles what the pane printed since the B before it.
LEMMA InputSettles ==
    ASSUME NEW s, Len(s) \in Nat, NEW t, Goes(s, t, "D"), NEW text,
           \A b : AtInput(s, b) => text = TextIn(s, b, Len(s))
    PROVE  Settled(t, Len(t), text)
<1>1. /\ \A k \in 1..Len(s) : t[k] = s[k]
      /\ Len(t) = Len(s) + 1 /\ t[Len(t)] = "D" /\ Len(t) - 1 = Len(s)
  BY DEF Goes
<1>2. ASSUME NEW b \in 1..(Len(t) - 1), t[b] = "B", Quiet(t, b + 1, Len(t) - 1, Cycle)
      PROVE  text = TextIn(t, b, Len(t))
  <2>1. AtInput(s, b)
    BY <1>1, <1>2 DEF AtInput, Quiet
  <2>2. TextIn(t, b, Len(t)) = TextIn(s, b, Len(s))
    <3>1. b \in 0..Len(s)
      BY <1>1
    <3> DEFINE what == "D"
    <3>2. Goes(s, t, what) /\ what # "text"
      OBVIOUS
    <3> HIDE DEF what
    <3> QED
      BY <3>1, <3>2, TextStep
  <2> QED
    BY <2>1, <2>2
<1> QED
  BY <1>1, <1>2 DEF Settled

\* What the tracker holds of the stream.
StreamInv ==
    /\ log \in Seq(Marks) /\ printed = PrintedIn(log, Len(log))
    /\ born \in Seq(Nat) /\ Len(born) = seq /\ \A id \in 1..seq : born[id] \in 1..Len(log)
    /\ \A id \in DOMAIN outputs :
          IF phase = "Executing" /\ id = seq THEN GoesOn(log, born[id], outputs[id])
                                             ELSE Settled(log, born[id], outputs[id])
    /\ \A b \in 1..Len(log) :
          AtInput(log, b) => phase = "Input" /\ capture = TextIn(log, b, Len(log))

\* What reading an item leaves of the stream and of the places of the records.
LEMMA ReadsLemma ==
    ASSUME TypeOK, HistoryAddressable, StreamInv, NEW what \in Marks, Reads(what)
    PROVE  /\ Goes(log, log', what) /\ log' \in Seq(Marks) /\ Len(log) \in Nat
           /\ DOMAIN outputs \subseteq 1..seq /\ seq \in Nat
           /\ seq' = seq => born' = born
           /\ seq' = seq + 1 =>
                 /\ born' \in Seq(Nat) /\ Len(born') = seq + 1 /\ born'[seq + 1] = Len(log')
                 /\ \A id \in 1..seq : born'[id] = born[id]
<1>1. log \in Seq(Marks) /\ log' = Append(log, what) /\ born \in Seq(Nat) /\ Len(born) = seq
  BY DEF StreamInv, Reads
<1>2. /\ log' \in Seq(Marks) /\ Len(log) \in Nat /\ Len(log') = Len(log) + 1
      /\ log'[Len(log) + 1] = what /\ \A k \in 1..Len(log) : log'[k] = log[k]
  BY <1>1, AppendProperties, LenProperties
<1>3. seq \in Nat /\ DOMAIN outputs \subseteq 1..seq
  BY DEF TypeOK, HistoryAddressable
<1>4. seq' = seq => born' = born
  BY <1>3 DEF Reads
<1>5. ASSUME seq' = seq + 1
      PROVE  /\ born' \in Seq(Nat) /\ Len(born') = seq + 1 /\ born'[seq + 1] = Len(log')
             /\ \A id \in 1..seq : born'[id] = born[id]
  <2>1. born' = Append(born, Len(log'))
    BY <1>3, <1>5 DEF Reads
  <2>2. Len(log') \in Nat
    BY <1>2
  <2> QED
    BY <1>1, <2>1, <2>2, AppendProperties
<1> QED
  BY <1>1, <1>2, <1>3, <1>4, <1>5 DEF Goes

\* A marker that makes no record.
LEMMA MarkStep ==
    ASSUME TypeOK, HistoryAddressable, StreamInv, NEW what \in Marks \ {"text"}, Reads(what),
           outputs' = outputs, seq' = seq, printed' = printed,
           what \notin Cycle => phase' = phase /\ capture' = capture,
           what \in Ends => phase' # "Executing",
           what = "C" => phase = "Executing" /\ phase' = "Executing",
           what = "B" => phase' = "Input" /\ capture' = <<>>
    PROVE  StreamInv'
<1>1. /\ Goes(log, log', what) /\ log' \in Seq(Marks) /\ Len(log) \in Nat
      /\ DOMAIN outputs \subseteq 1..seq /\ seq \in Nat /\ born' = born
  BY ReadsLemma
<1>2. /\ Len(log') = Len(log) + 1 /\ what # "text"
      /\ \A id \in 1..seq : born[id] \in 1..Len(log)
  BY <1>1 DEF Goes, StreamInv
<1>3. printed' = PrintedIn(log', Len(log'))
  BY <1>1, <1>2, PrintedStep DEF StreamInv
<1>4. ASSUME NEW id \in DOMAIN outputs
      PROVE  IF phase' = "Executing" /\ id = seq THEN GoesOn(log', born[id], outputs[id])
                                                 ELSE Settled(log', born[id], outputs[id])
  <2>1. born[id] \in 1..Len(log)
    BY <1>1, <1>2
  <2>2. CASE phase = "Executing" /\ id = seq
    <3>1. GoesOn(log, born[id], outputs[id])
      BY <2>2 DEF StreamInv
    <3>2. /\ what \in Ends => Settled(log', born[id], outputs[id])
          /\ what \notin Ends => GoesOn(log', born[id], outputs[id])
      BY <1>1, <1>2, <2>1, <3>1, GoesOnLater
    <3> QED
      BY <2>2, <3>2 DEF Ends
  <2>3. CASE ~(phase = "Executing" /\ id = seq)
    <3>1. Settled(log, born[id], outputs[id])
      BY <2>3 DEF StreamInv
    <3>2. Settled(log', born[id], outputs[id])
      BY <1>1, <2>1, <3>1, SettledLater
    <3>3. ~(phase' = "Executing" /\ id = seq)
      BY <2>3 DEF Ends
    <3> QED
      BY <3>2, <3>3
  <2> QED
    BY <2>2, <2>3
<1>5. ASSUME NEW b \in 1..Len(log'), AtInput(log', b)
      PROVE  phase' = "Input" /\ capture' = TextIn(log', b, Len(log'))
  <2>1. CASE what \notin Cycle
    <3>1. AtInput(log, b)
      BY <1>1, <1>5, <2>1, InputLater
    <3>2. b \in 1..Len(log) /\ b \in 0..Len(log)
      BY <3>1 DEF AtInput
    <3>3. phase = "Input" /\ capture = TextIn(log, b, Len(log))
      BY <3>1, <3>2 DEF StreamInv
    <3>4. TextIn(log', b, Len(log')) = TextIn(log, b, Len(log))
      BY <1>1, <1>2, <3>2, TextStep
    <3> QED
      BY <2>1, <3>3, <3>4
  <2>2. CASE what \in Cycle
    <3>1. b = Len(log') /\ what = "B"
      BY <1>1, <1>5, <2>2, InputLater
    <3>2. TextIn(log', b, Len(log')) = <<>>
      BY <1>1, <3>1, TextStep
    <3> QED
      BY <3>1, <3>2
  <2> QED
    BY <2>1, <2>2
<1>6. \A id \in 1..seq : born[id] \in 1..Len(log')
  BY <1>1, <1>2
<1> QED
  BY <1>1, <1>3, <1>4, <1>5, <1>6 DEF StreamInv

\* A marker that makes a record: a C, whose text begins empty, or a D on its own,
\* whose text is the capture.
LEMMA RecordStep ==
    ASSUME TypeOK, HistoryAddressable, StreamInv, NEW what \in {"C", "D"}, Reads(what),
           phase # "Executing", seq' = seq + 1, printed' = printed,
           NEW text, outputs'[seq + 1] = text,
           \A id \in DOMAIN outputs' :
              id # seq + 1 => id \in DOMAIN outputs /\ outputs'[id] = outputs[id],
           what = "C" => phase' = "Executing" /\ text = <<>>,
           what = "D" => phase' # "Executing" /\ text = capture
    PROVE  StreamInv'
<1>1. /\ Goes(log, log', what) /\ log' \in Seq(Marks) /\ Len(log) \in Nat
      /\ DOMAIN outputs \subseteq 1..seq /\ seq \in Nat
      /\ born' \in Seq(Nat) /\ Len(born') = seq + 1 /\ born'[seq + 1] = Len(log')
      /\ \A id \in 1..seq : born'[id] = born[id]
  <2>1. what \in Marks
    BY DEF Marks, Cycle
  <2> QED
    BY <2>1, ReadsLemma
<1>2. /\ Len(log') = Len(log) + 1 /\ what # "text" /\ what \in Cycle /\ log'[Len(log')] = what
      /\ \A id \in 1..seq : born[id] \in 1..Len(log)
  BY <1>1 DEF Goes, StreamInv, Cycle
<1>3. printed' = PrintedIn(log', Len(log'))
  BY <1>1, <1>2, PrintedStep DEF StreamInv
<1>4. what = "C" => GoesOn(log', Len(log'), text)
  <2>1. Quiet(log', Len(log') + 1, Len(log'), Ends)
    BY <1>1, <1>2 DEF Quiet
  <2>2. TextIn(log', Len(log'), Len(log')) = <<>>
    BY <1>1, TextStep
  <2> QED
    BY <1>2, <2>1, <2>2 DEF GoesOn
<1>5. what = "D" => Settled(log', Len(log'), text)
  <2>1. ASSUME NEW b, AtInput(log, b)
        PROVE  capture = TextIn(log, b, Len(log))
    BY <2>1 DEF AtInput, StreamInv
  <2> QED
    BY <1>1, <2>1, InputSettles
<1>6. ASSUME NEW id \in DOMAIN outputs', id # seq + 1
      PROVE  Settled(log', born'[id], outputs'[id])
  <2>1. id \in 1..seq /\ outputs'[id] = outputs[id] /\ id \in DOMAIN outputs
    BY <1>1, <1>6
  <2>2. born'[id] = born[id] /\ born[id] \in 1..Len(log)
    BY <1>1, <1>2, <2>1
  <2>3. Settled(log, born[id], outputs[id])
    BY <2>1 DEF StreamInv
  <2> QED
    BY <1>1, <2>1, <2>2, <2>3, SettledLater
<1>7. \A b \in 1..Len(log') : ~AtInput(log', b)
  BY <1>1, <1>2, InputLater
<1>8. \A id \in 1..(seq + 1) : born'[id] \in 1..Len(log')
  <2>1. \A id \in 1..(seq + 1) : id = seq + 1 \/ id \in 1..seq
    BY <1>1
  <2> QED
    BY <1>1, <1>2, <2>1
<1>9. \A id \in DOMAIN outputs' :
         IF phase' = "Executing" /\ id = seq' THEN GoesOn(log', born'[id], outputs'[id])
                                              ELSE Settled(log', born'[id], outputs'[id])
  BY <1>1, <1>4, <1>5, <1>6
<1> QED
  BY <1>1, <1>3, <1>7, <1>8, <1>9 DEF StreamInv

\* Printed text goes to the running command, or is kept for a lone D.
LEMMA PrintStep ==
    ASSUME TypeOK, HistoryAddressable, RunningIsNewest, StreamInv, append_output, Reads("text")
    PROVE  StreamInv'
<1> DEFINE what == "text"
<1>1. what \in Marks /\ what = "text" /\ what \notin Cycle /\ what \notin Ends /\ Reads(what)
  BY DEF Marks, Cycle, Ends
<1> HIDE DEF what
<1>2. /\ seq' = seq /\ phase' = phase /\ printed' = printed + 1
      /\ capture' = Append(capture, printed + 1)
      /\ outputs' = IF Accumulates
                      THEN [outputs EXCEPT ![commands[1].id] = Append(@, printed + 1)]
                      ELSE outputs
  BY DEF append_output
<1>3. /\ Goes(log, log', what) /\ log' \in Seq(Marks) /\ Len(log) \in Nat
      /\ DOMAIN outputs \subseteq 1..seq /\ seq \in Nat /\ born' = born
  BY <1>1, <1>2, ReadsLemma
<1>4. /\ Len(log') = Len(log) + 1 /\ printed = PrintedIn(log, Len(log))
      /\ \A id \in 1..seq : born[id] \in 1..Len(log)
  BY <1>3 DEF Goes, StreamInv
<1>5. printed' = PrintedIn(log', Len(log'))
  BY <1>1, <1>2, <1>3, <1>4, PrintedStep
<1>6. /\ phase = "Executing" => Accumulates /\ commands[1].id = seq /\ seq \in DOMAIN outputs
      /\ phase # "Executing" => ~Accumulates
  <2>1. commands # <<>> => Len(commands) >= 1 /\ Len(commands) \in Nat
    BY EmptySeq DEF TypeOK
  <2>2. commands # <<>> => commands[1].id = seq /\ seq \in DOMAIN outputs
    BY <1>3, <2>1 DEF HistoryAddressable
  <2>3. phase = "Executing" => Accumulates /\ commands # <<>>
    BY DEF RunningIsNewest, Finished, Accumulates, HasActive
  <2>4. phase # "Executing" => ~Accumulates
    BY <2>1 DEF RunningIsNewest, Finished, Accumulates, HasActive
  <2> QED
    BY <2>2, <2>3, <2>4
<1>7. /\ DOMAIN outputs' = DOMAIN outputs
      /\ \A id \in DOMAIN outputs :
            outputs'[id] = IF phase = "Executing" /\ id = seq THEN Append(outputs[id], printed + 1)
                                                              ELSE outputs[id]
  BY <1>2, <1>6
<1>8. ASSUME NEW id \in DOMAIN outputs
      PROVE  IF phase = "Executing" /\ id = seq THEN GoesOn(log', born[id], outputs'[id])
                                                ELSE Settled(log', born[id], outputs'[id])
  <2>1. born[id] \in 1..Len(log)
    BY <1>3, <1>4
  <2>2. CASE phase = "Executing" /\ id = seq
    <3>1. GoesOn(log, born[id], outputs[id])
      BY <2>2 DEF StreamInv
    <3>2. GoesOn(log', born[id], Append(outputs[id], printed + 1))
      BY <1>1, <1>3, <1>4, <2>1, <3>1, GoesOnLater
    <3> QED
      BY <1>7, <2>2, <3>2
  <2>3. CASE ~(phase = "Executing" /\ id = seq)
    <3>1. Settled(log, born[id], outputs[id]) /\ outputs'[id] = outputs[id]
      BY <1>7, <2>3 DEF StreamInv
    <3>2. Settled(log', born[id], outputs[id])
      BY <1>3, <2>1, <3>1, SettledLater
    <3> QED
      BY <2>3, <3>1, <3>2
  <2> QED
    BY <2>2, <2>3
<1>9. ASSUME NEW b \in 1..Len(log'), AtInput(log', b)
      PROVE  phase' = "Input" /\ capture' = TextIn(log', b, Len(log'))
  <2>1. AtInput(log, b)
    BY <1>1, <1>3, <1>9, InputLater
  <2>2. b \in 1..Len(log) /\ b \in 0..Len(log)
    BY <2>1 DEF AtInput
  <2>3. phase = "Input" /\ capture = TextIn(log, b, Len(log))
    BY <2>1, <2>2 DEF StreamInv
  <2>4. TextIn(log', b, Len(log')) = Append(TextIn(log, b, Len(log)), printed + 1)
    BY <1>1, <1>3, <1>4, <2>2, TextStep
  <2> QED
    BY <1>2, <2>3, <2>4
<1>10. \A id \in 1..seq : born[id] \in 1..Len(log')
  BY <1>3, <1>4
<1> QED
  BY <1>2, <1>3, <1>5, <1>7, <1>8, <1>9, <1>10 DEF StreamInv

\* Each marker's handler, by what it does to the records.
LEMMA StreamStepD ==
    ASSUME IInv, StreamInv, NEW code \in Codes \cup {None}, handle_d(code), Reads("D")
    PROVE  StreamInv'
<1> DEFINE what == "D"
<1>1. /\ what \in Marks \ {"text"} /\ what \in {"C", "D"} /\ what = "D" /\ Reads(what)
      /\ TypeOK /\ HistoryAddressable
  BY DEF Marks, Cycle, IInv
<1> HIDE DEF what
<1>2. phase' = "Idle" /\ printed' = printed
  BY DEF handle_d
<1>3. ASSUME outputs' = outputs, seq' = seq
      PROVE  StreamInv'
  <2>1. /\ what \in Cycle /\ what # "C" /\ what # "B" /\ phase' # "Executing"
    BY <1>1, <1>2 DEF Cycle
  <2> QED
    BY <1>1, <1>2, <1>3, <2>1, MarkStep
<1>4. ASSUME NEW command \in Text, push_command(command, code, TRUE, capture), phase # "Executing"
      PROVE  StreamInv'
  <2>1. code \in ExitCode /\ capture \in Seq(Nat)
    BY <1>1 DEF TypeOK, ExitCode
  <2>2. /\ seq' = seq + 1 /\ outputs'[seq + 1] = capture
        /\ \A i \in DOMAIN outputs' :
              i # seq + 1 => i \in DOMAIN outputs /\ outputs'[i] = outputs[i]
    BY <1>1, <1>4, <2>1, PushLemma
  <2>3. what # "C"
    BY <1>1
  <2> QED
    BY <1>1, <1>2, <1>4, <2>2, <2>3, RecordStep
<1>5. CASE DExecuting(code)
  BY <1>3, <1>5 DEF DExecuting
<1>6. CASE DInput(code)
  <2>1. TakenText \in Text
    BY <1>1 DEF TypeOK, TakenText, Text
  <2> QED
    BY <1>3, <1>4, <1>6, <2>1 DEF DInput
<1>7. CASE DUnexpected(code)
  <2>1. "" \in Text
    BY DEF Text
  <2> QED
    BY <1>3, <1>4, <1>7, <2>1 DEF DUnexpected
<1> QED
  BY <1>5, <1>6, <1>7 DEF handle_d

\* A C: a repeated one changes nothing of the text, any other makes a record.
LEMMA StreamStepC ==
    ASSUME IInv, StreamInv, NEW url \in Text \cup {None}, NEW screen \in Commands \cup {None},
           handle_c(url, screen), Reads("C")
    PROVE  StreamInv'
<1> DEFINE what == "C"
<1>1. /\ what \in Marks \ {"text"} /\ what \in {"C", "D"} /\ what = "C" /\ what \notin Ends
      /\ what \in Cycle /\ Reads(what) /\ TypeOK /\ HistoryAddressable
  BY DEF Marks, Cycle, Ends, IInv
<1> HIDE DEF what
<1>2. printed' = printed
  BY DEF handle_c
<1>3. CASE phase = "Executing"
  <2>1. outputs' = outputs /\ seq' = seq /\ phase' = phase
    BY <1>3 DEF handle_c, DuplicateC
  <2> QED
    BY <1>1, <1>2, <1>3, <2>1, MarkStep
<1>4. CASE phase # "Executing"
  <2> DEFINE command == IF pending # None THEN pending
                        ELSE IF url # None THEN url
                        ELSE IF screen # None THEN screen
                        ELSE ""
  <2>1. push_command(command, None, FALSE, <<>>) /\ phase' = "Executing"
    BY <1>4 DEF handle_c, DuplicateC
  <2>2. TypeOK
    BY <1>1
  <2>3. command \in Text /\ None \in ExitCode
    BY <2>2 DEF TypeOK, Text, ExitCode
  <2> HIDE DEF command
  <2>4. <<>> \in Seq(Nat)
    BY EmptySeq
  <2>5. /\ seq' = seq + 1 /\ outputs'[seq + 1] = <<>>
        /\ \A i \in DOMAIN outputs' :
              i # seq + 1 => i \in DOMAIN outputs /\ outputs'[i] = outputs[i]
    BY <1>1, <2>1, <2>3, <2>4, PushLemma
  <2>6. what # "D"
    BY <1>1
  <2> QED
    BY <1>1, <1>2, <1>4, <2>1, <2>5, <2>6, RecordStep
<1> QED
  BY <1>3, <1>4

\* Every step keeps what the tracker holds of the stream.
LEMMA StreamStep ==
    ASSUME IInv, StreamInv, [MCNext]_mcvars
    PROVE  StreamInv'
<1>1. /\ "A" \in Marks \ {"text"} /\ "B" \in Marks \ {"text"} /\ "E" \in Marks \ {"text"}
      /\ "osc7" \in Marks \ {"text"} /\ "A" \in Cycle /\ "B" \in Cycle /\ "A" \in Ends
      /\ "E" \notin Cycle /\ "osc7" \notin Cycle /\ Ends \subseteq Cycle
      /\ TypeOK /\ HistoryAddressable /\ RunningIsNewest
  BY DEF Marks, Cycle, Ends, IInv
<1>2. CASE handle_a /\ Reads("A")
  <2>1. outputs' = outputs /\ seq' = seq /\ printed' = printed /\ phase' = "Prompt"
    BY <1>2 DEF handle_a
  <2> QED
    BY <1>1, <1>2, <2>1, MarkStep
<1>3. CASE handle_b /\ Reads("B")
  <2>1. /\ outputs' = outputs /\ seq' = seq /\ printed' = printed /\ phase' = "Input"
        /\ capture' = <<>>
    BY <1>3 DEF handle_b
  <2> QED
    BY <1>1, <1>3, <2>1, MarkStep
<1>4. CASE \E url \in Text \cup {None}, screen \in Commands \cup {None} :
              handle_c(url, screen) /\ Reads("C")
  BY <1>4, StreamStepC
<1>5. CASE \E code \in Codes \cup {None} : handle_d(code) /\ Reads("D")
  BY <1>5, StreamStepD
<1>6. ASSUME NEW text \in Text, handle_e(text), Reads("E")
      PROVE  StreamInv'
  <2>1. /\ outputs' = outputs /\ seq' = seq /\ printed' = printed /\ phase' = phase
        /\ capture' = capture
    BY <1>6 DEF handle_e
  <2> QED
    BY <1>1, <1>6, <2>1, MarkStep
<1>7. CASE append_output /\ Reads("text")
  BY <1>1, <1>7, PrintStep
<1>8. ASSUME NEW place \in Places, update_cwd_from_osc7(place), Reads("osc7")
      PROVE  StreamInv'
  <2>1. /\ outputs' = outputs /\ seq' = seq /\ printed' = printed /\ phase' = phase
        /\ capture' = capture
    BY <1>8 DEF update_cwd_from_osc7
  <2> QED
    BY <1>1, <1>8, <2>1, MarkStep
<1>9. CASE UNCHANGED mcvars
  BY <1>9 DEF mcvars, vars, StreamInv
<1> QED
  BY <1>2, <1>3, <1>4, <1>5, <1>6, <1>7, <1>8, <1>9 DEF MCNext

\* The report is the last OSC 7 with no C after it.
LEMMA FreshStep ==
    ASSUME IInv, StreamInv, LocationIsFresh, [MCNext]_mcvars
    PROVE  LocationIsFresh'
<1> DEFINE Fresh(s) == \E k \in 1..Len(s) : s[k] = "osc7" /\ \A j \in (k + 1)..Len(s) : s[j] # "C"
<1>1. ASSUME NEW what \in Marks, Reads(what),
             reported' = (what = "osc7" \/ (what # "C" /\ reported))
      PROVE  LocationIsFresh'
  <2>1. /\ Len(log) \in Nat /\ Len(log') = Len(log) + 1 /\ log'[Len(log')] = what
        /\ \A k \in 1..Len(log) : log'[k] = log[k]
    BY <1>1, ReadsLemma DEF Goes, IInv
  <2>2. CASE what = "osc7"
    <3>1. Fresh(log')
      BY <2>1, <2>2
    <3> QED
      BY <1>1, <2>2, <3>1 DEF LocationIsFresh
  <2>3. CASE what = "C"
    <3>1. ~Fresh(log')
      BY <2>1, <2>3
    <3> QED
      BY <1>1, <2>3, <3>1 DEF LocationIsFresh
  <2>4. CASE what # "osc7" /\ what # "C"
    <3>1. ASSUME NEW k \in 1..Len(log), log[k] = "osc7",
                 \A j \in (k + 1)..Len(log) : log[j] # "C"
          PROVE  Fresh(log')
      <4>1. k \in 1..Len(log') /\ log'[k] = "osc7"
        BY <2>1, <3>1
      <4>2. \A j \in (k + 1)..Len(log') : log'[j] # "C"
        BY <2>1, <2>4, <3>1
      <4> QED
        BY <4>1, <4>2
    <3>2. ASSUME NEW k \in 1..Len(log'), log'[k] = "osc7",
                 \A j \in (k + 1)..Len(log') : log'[j] # "C"
          PROVE  Fresh(log)
      <4>1. k \in 1..Len(log) /\ log[k] = "osc7"
        BY <2>1, <2>4, <3>2
      <4>2. \A j \in (k + 1)..Len(log) : log[j] # "C"
        BY <2>1, <3>2
      <4> QED
        BY <4>1, <4>2
    <3>3. Fresh(log') <=> Fresh(log)
      BY <3>1, <3>2
    <3> QED
      BY <1>1, <2>4, <3>3 DEF LocationIsFresh
  <2> QED
    BY <2>2, <2>3, <2>4
<1>2. \A what \in {"A", "B", "C", "D", "E", "text", "osc7"} : what \in Marks
  BY DEF Marks, Cycle
<1>3. reported \in BOOLEAN
  BY DEF IInv, TypeOK
<1>4. CASE MCNext
  <2>1. ASSUME NEW what \in {"A", "B", "D", "E", "text"}, Reads(what), reported' = reported
        PROVE  LocationIsFresh'
    BY <1>1, <1>2, <1>3, <2>1
  <2>2. ASSUME Reads("C"), reported' = FALSE
        PROVE  LocationIsFresh'
    BY <1>1, <1>2, <1>3, <2>2
  <2>3. ASSUME Reads("osc7"), reported' = TRUE
        PROVE  LocationIsFresh'
    BY <1>1, <1>2, <1>3, <2>3
  <2> QED
    BY <1>4, <2>1, <2>2, <2>3 DEF MCNext, handle_a, handle_b, handle_c, ForgetReport, handle_d,
                                  handle_e, append_output, update_cwd_from_osc7
<1>5. CASE UNCHANGED mcvars
  BY <1>5 DEF mcvars, vars, LocationIsFresh
<1> QED
  BY <1>4, <1>5

\* Nothing was read yet.
LEMMA StreamInit == MCInit => StreamInv /\ LocationIsFresh
<1> SUFFICES ASSUME MCInit
             PROVE  StreamInv /\ LocationIsFresh
  OBVIOUS
<1>1. /\ log = <<>> /\ born = <<>> /\ seq = 0 /\ printed = 0 /\ reported = FALSE
      /\ outputs = [i \in {} |-> <<>>]
  BY DEF MCInit, Init
<1>2. log \in Seq(Marks) /\ Len(log) = 0 /\ born \in Seq(Nat) /\ Len(born) = 0
  BY <1>1
<1>3. PrintedIn(log, Len(log)) = 0
  <2>1. {k \in 1..0 : log[k] = "text"} = {}
    OBVIOUS
  <2> QED
    BY <1>2, <2>1, FS_EmptySet DEF PrintedIn
<1>4. DOMAIN outputs = {}
  BY <1>1
<1>5. StreamInv
  BY <1>1, <1>2, <1>3, <1>4 DEF StreamInv
<1>6. LocationIsFresh
  BY <1>1, <1>2 DEF LocationIsFresh
<1> QED
  BY <1>5, <1>6

\* The inductive invariant of the tracker and the stream it reads.
LEMMA StreamInvariants == MCSpec => [](IInv /\ StreamInv /\ LocationIsFresh)
<1>1. MCInit => IInv /\ StreamInv /\ LocationIsFresh
  BY InitInv, StreamInit DEF MCInit
<1>2. [MCNext]_mcvars => [Next]_vars
  BY DEF MCNext, Next, mcvars
<1>3. (IInv /\ StreamInv /\ LocationIsFresh) /\ [MCNext]_mcvars
         => (IInv /\ StreamInv /\ LocationIsFresh)'
  BY <1>2, StepInv, StreamStep, FreshStep
<1> QED
  BY <1>1, <1>3, PTL DEF MCSpec

\* What a reader is given as a command's output is what the stream says,
\* where OutputsMatchStream speaks of it.
LEMMA OutputsMatch ==
    ASSUME IInv, StreamInv
    PROVE  OutputsMatchStream
<1> SUFFICES ASSUME NEW id \in DOMAIN outputs
             PROVE  LET at == born[id]
                    IN  \/ /\ log[at] = "C"
                           /\ LET ends == {k \in (at + 1)..Len(log) : log[k] \in Cycle \ {"C"}}
                                  end  == IF ends = {} THEN Len(log) ELSE Min(ends)
                              IN  outputs[id] = TextBetween(at, end)
                        \/ /\ log[at] = "D"
                           /\ LET before == {k \in 1..(at - 1) : log[k] \in Cycle}
                              IN  before # {} /\ log[Max(before)] = "B" =>
                                      outputs[id] = TextBetween(Max(before), at)
  BY DEF OutputsMatchStream
<1> DEFINE at == born[id]
           ends == {k \in (at + 1)..Len(log) : log[k] \in Ends}
           before == {k \in 1..(at - 1) : log[k] \in Cycle}
<1>1. at \in 1..Len(log) /\ Len(log) \in Nat
  <2>1. id \in 1..seq
    BY DEF IInv, TypeOK, HistoryAddressable
  <2> QED
    BY <2>1, LenProperties DEF StreamInv
<1>2. \A i, j : TextBetween(i, j) = TextIn(log, i, j)
  BY DEF TextBetween, Printed, TextIn, Pieces, PrintedIn
<1>3. CASE GoesOn(log, at, outputs[id])
  <2>1. ends = {}
    BY <1>3 DEF GoesOn, Quiet
  <2> QED
    BY <1>2, <1>3, <2>1 DEF GoesOn, Ends
<1>4. ASSUME log[at] = "C", NEW e \in (at + 1)..Len(log), log[e] \in Ends,
             Quiet(log, at + 1, e - 1, Ends), outputs[id] = TextIn(log, at, e)
      PROVE  outputs[id] = TextBetween(at, Min(ends)) /\ ends # {}
  <2>1. e \in ends /\ \A k \in ends : e <= k
    BY <1>1, <1>4 DEF Quiet
  <2>2. \A x \in ends : (\A y \in ends : x <= y) => x = e
    BY <1>1, <2>1
  <2> HIDE DEF ends, at
  <2>3. Min(ends) = e
    BY <2>1, <2>2 DEF Min
  <2> QED
    BY <1>2, <1>4, <2>1, <2>3
<1>5. ASSUME \A b \in 1..(at - 1) : log[b] = "B" /\ Quiet(log, b + 1, at - 1, Cycle) =>
                 outputs[id] = TextIn(log, b, at),
             before # {}, log[Max(before)] = "B"
      PROVE  outputs[id] = TextBetween(Max(before), at)
  <2>1. Max(before) \in before /\ \A k \in before : k <= Max(before)
    <3>1. before \in SUBSET (0..Len(log))
      BY <1>1
    <3> HIDE DEF before
    <3> QED
      BY <1>1, <1>5, <3>1, NatMax DEF Max
  <2> DEFINE b == Max(before)
  <2>2. b \in 1..(at - 1) /\ \A k \in before : k <= b
    BY <2>1
  <2> HIDE DEF b
  <2>3. Quiet(log, b + 1, at - 1, Cycle)
    BY <1>1, <2>2 DEF Quiet
  <2> QED
    BY <1>2, <1>5, <2>2, <2>3 DEF b
<1>6. CASE Settled(log, at, outputs[id])
  <2> HIDE DEF at, ends, before
  <2> QED
    BY <1>4, <1>5, <1>6 DEF Settled, at, ends, before, Ends
<1> QED
  BY <1>3, <1>6 DEF StreamInv

\* For every stream and every history bound, the output kept for a command
\* (handle_c, handle_d and append_output with its capture buffer) is exactly
\* the text the stream holds from its C to the next A, B or D, or, for one
\* recorded at a D right after a B, since that B; of a record made at any
\* other D nothing is said.
THEOREM OutputsAreTheStreams == MCSpec => []OutputsMatchStream
BY StreamInvariants, OutputsMatch, PTL

\* The place policy judges by (update_cwd_from_osc7, forgotten by every C) is
\* in force exactly when an OSC 7 came after the last C of the stream.
THEOREM TheReportIsFresh == MCSpec => []LocationIsFresh
BY StreamInvariants, PTL

=============================================================================
