------------------------- MODULE ControlModeProofs --------------------------
(***************************************************************************)
(* For any number of request tasks, pieces and notifications, and with tmux *)
(* gone at any moment: what execute returns answers its own command, and a  *)
(* line is entered whole, once the attach reply was drained.               *)
(***************************************************************************)
EXTENDS ControlMode, SequenceTheorems, TLAPS

LineType == [kind : {"begin", "data", "note"} \cup ReplyKinds, of : Nat]
Command == [cmd : Nat, by : Tasks, piece : 0..Pieces]

\* The piece of its line that a task sends; the event loop has no line.
PieceOf(t) == IF t = Loop THEN 0 ELSE Pieces + 1 - task[t].left

IsReply(i) == stdout[i].kind \in ReplyKinds
IsBody(i) == IsReply(i) \/ stdout[i].kind = "data"
Busy(t) == task[t].pc \in {"sleep", "register", "write", "await", "got"}

\* The mutex: one task at a time is anywhere in execute.
Alone == \A t \in Tasks : Busy(t) => lock = t

\* A handler's place in its line.
Counted ==
    \A h \in Handlers : /\ task[h].pc = "wants" => task[h].left = Pieces
                        /\ Busy(h) => task[h].left \in 1..Pieces

\* Nothing of an answer is anywhere between tmux and the reader's queue.
Quiet ==
    /\ stdin = <<>> /\ tmux # "answering" /\ block.of = {}
    /\ \A i \in DOMAIN stdout : ~IsBody(i)

\* While t awaits its answer, what there is of an answer is of its command:
\* all still to come, or a reply with the data before it.
Awaited(t) ==
    /\ Len(stdin) <= 1 /\ (tmux = "answering" => stdin # <<>>)
    /\ \A i \in DOMAIN stdin : /\ stdin[i].cmd = task[t].cmd /\ stdin[i].by = t
                               /\ stdin[i].piece = PieceOf(t)
    /\ block.of \subseteq {task[t].cmd}
    /\ \A i \in DOMAIN stdout : stdout[i].kind = "data" => stdout[i].of = task[t].cmd
    /\ \A i \in DOMAIN stdout : IsReply(i) =>
          /\ stdin = <<>>
          /\ \A j \in DOMAIN stdout : j > i => ~IsBody(j)
          /\ \/ i = 1 /\ task[t].cmd \in block.of
             \/ i > 1 /\ stdout[i - 1].kind = "data"

\* Between two commands there is nothing on its way, nor once the attach is
\* drained.
Serial ==
    /\ task[Loop].pc = "sleep" => stdin = <<>> /\ tmux # "answering"
    /\ task[Loop].pc # "sleep" => tmux # "attaching"
    /\ task[Loop].pc # "sleep" /\ tmux # "gone" /\ (\A t \in Tasks : task[t].pc # "await") => Quiet
    /\ \A t \in Tasks : task[t].pc = "await" => Awaited(t)

\* The last n pieces entered in s are the first n of t's line.
Entered(s, t, n) ==
    /\ n <= Len(s)
    /\ \A k \in 1..n : /\ s[Len(s) - n + k].piece = k
                       /\ s[Len(s) - n + k].by = t

\* LinesEnteredWhole, of any sequence of pieces.
Whole(s) ==
    \A i \in DOMAIN s : s[i].piece = Pieces =>
        /\ i >= Pieces
        /\ \A k \in 1..Pieces : s[i - Pieces + k].piece = k /\ s[i - Pieces + k].by = s[i].by

\* A handler sends the next piece of its line right after the one before.
InOrder ==
    \A h \in Handlers :
        /\ task[h].pc \in {"register", "write"} => Entered(typed, h, Pieces - task[h].left)
        /\ task[h].pc = "await" /\ stdin # <<>> => Entered(typed, h, Pieces - task[h].left)
        /\ task[h].pc = "await" /\ (\E i \in DOMAIN stdout : stdout[i].kind = "end")
              => Entered(typed, h, Pieces + 1 - task[h].left)
        /\ task[h].pc = "got" /\ task[h].ok => Entered(typed, h, Pieces + 1 - task[h].left)

IInv == /\ TypeOK /\ Alone /\ Counted /\ Serial /\ InOrder
        /\ RepliesMatch /\ LinesEnteredWhole

-----------------------------------------------------------------------------
\* Sequences

LEMMA RestOf ==
    ASSUME NEW S, NEW s \in Seq(S), s # <<>>
    PROVE  /\ Len(s) \in Nat \ {0} /\ DOMAIN s = 1..Len(s) /\ Head(s) = s[1] /\ s[1] \in S
           /\ Tail(s) \in Seq(S) /\ Len(Tail(s)) = Len(s) - 1 /\ DOMAIN Tail(s) = 1..(Len(s) - 1)
           /\ \A i \in 1..(Len(s) - 1) : Tail(s)[i] = s[i + 1]
<1>1. Len(s) \in Nat \ {0} /\ DOMAIN s = 1..Len(s) /\ Head(s) = s[1]
  BY HeadTailProperties, EmptySeq, LenProperties
<1>2. Tail(s) \in Seq(S) /\ Len(Tail(s)) = Len(s) - 1 /\ \A i \in 1..(Len(s) - 1) : Tail(s)[i] = s[i + 1]
  BY HeadTailProperties
<1>3. DOMAIN Tail(s) = 1..(Len(s) - 1)
  BY <1>2, LenProperties
<1>4. s[1] \in S
  BY <1>1, ElementOfSeq
<1> QED
  BY <1>1, <1>2, <1>3, <1>4

LEMMA OneMore ==
    ASSUME NEW S, NEW s \in Seq(S), NEW e \in S
    PROVE  /\ Len(s) \in Nat /\ DOMAIN s = 1..Len(s)
           /\ Append(s, e) \in Seq(S) /\ Len(Append(s, e)) = Len(s) + 1
           /\ DOMAIN Append(s, e) = 1..(Len(s) + 1)
           /\ \A i \in 1..Len(s) : Append(s, e)[i] = s[i]
           /\ Append(s, e)[Len(s) + 1] = e
<1>1. Len(s) \in Nat /\ DOMAIN s = 1..Len(s)
  BY LenProperties
<1>2. /\ Append(s, e) \in Seq(S) /\ Len(Append(s, e)) = Len(s) + 1
      /\ \A i \in 1..Len(s) : Append(s, e)[i] = s[i]
      /\ Append(s, e)[Len(s) + 1] = e
  BY AppendProperties
<1>3. DOMAIN Append(s, e) = 1..(Len(s) + 1)
  BY <1>2, LenProperties
<1> QED
  BY <1>1, <1>2, <1>3

LEMMA TwoMore ==
    ASSUME NEW S, NEW s \in Seq(S), NEW d \in S, NEW e \in S
    PROVE  /\ Len(s) \in Nat /\ DOMAIN s = 1..Len(s)
           /\ s \o <<d, e>> \in Seq(S) /\ Len(s \o <<d, e>>) = Len(s) + 2
           /\ DOMAIN (s \o <<d, e>>) = 1..(Len(s) + 2)
           /\ \A i \in 1..Len(s) : (s \o <<d, e>>)[i] = s[i]
           /\ (s \o <<d, e>>)[Len(s) + 1] = d /\ (s \o <<d, e>>)[Len(s) + 2] = e
<1> DEFINE t == <<d, e>>  u == s \o t
<1>1. Len(s) \in Nat /\ DOMAIN s = 1..Len(s)
  BY LenProperties
<1>2. t \in Seq(S) /\ Len(t) = 2 /\ t[1] = d /\ t[2] = e
  OBVIOUS
<1> HIDE DEF t
<1>3. /\ u \in Seq(S) /\ Len(u) = Len(s) + Len(t)
      /\ \A i \in 1..(Len(s) + Len(t)) : u[i] = IF i <= Len(s) THEN s[i] ELSE t[i - Len(s)]
  BY <1>2, ConcatProperties
<1>4. DOMAIN u = 1..(Len(s) + 2)
  BY <1>2, <1>3, LenProperties
<1> HIDE DEF u
<1>5. \A i \in 1..Len(s) : u[i] = s[i]
  BY <1>1, <1>2, <1>3
<1>6. u[Len(s) + 1] = d
  <2>1. Len(s) + 1 \in 1..(Len(s) + Len(t)) /\ ~(Len(s) + 1 <= Len(s)) /\ (Len(s) + 1) - Len(s) = 1
    BY <1>1, <1>2
  <2> QED
    BY <1>2, <1>3, <2>1
<1>7. u[Len(s) + 2] = e
  <2>1. Len(s) + 2 \in 1..(Len(s) + Len(t)) /\ ~(Len(s) + 2 <= Len(s)) /\ (Len(s) + 2) - Len(s) = 2
    BY <1>1, <1>2
  <2> QED
    BY <1>2, <1>3, <2>1
<1> QED
  BY <1>1, <1>2, <1>3, <1>4, <1>5, <1>6, <1>7 DEF t, u

-----------------------------------------------------------------------------
\* Types

TaskType == [pc : Places, left : Nat, cmd : Nat, reply : SUBSET Nat, ok : BOOLEAN]
PieceType == [cmd : Nat, by : Handlers, piece : 1..Pieces]

LEMMA TypesOf ==
    ASSUME TypeOK
    PROVE  /\ stdin \in Seq(Command) /\ stdout \in Seq(LineType) /\ typed \in Seq(PieceType)
           /\ registered \in Seq(Nat) /\ pending \in Seq(Nat) /\ inbox \in Seq(Nat)
           /\ task \in [Tasks -> TaskType]
           /\ Len(stdin) \in Nat /\ DOMAIN stdin = 1..Len(stdin)
           /\ Len(stdout) \in Nat /\ DOMAIN stdout = 1..Len(stdout)
           /\ Len(typed) \in Nat /\ DOMAIN typed = 1..Len(typed)
           /\ \A i \in DOMAIN stdin : stdin[i] \in Command
           /\ \A i \in DOMAIN stdout : stdout[i] \in LineType
           /\ \A t \in Tasks : task[t] \in TaskType
<1>1. /\ stdin \in Seq(Command) /\ stdout \in Seq(LineType) /\ typed \in Seq(PieceType)
      /\ registered \in Seq(Nat) /\ pending \in Seq(Nat) /\ inbox \in Seq(Nat)
      /\ task \in [Tasks -> TaskType]
  BY DEF TypeOK, Command, LineType, PieceType, TaskType
<1>2. /\ Len(stdin) \in Nat /\ DOMAIN stdin = 1..Len(stdin)
      /\ Len(stdout) \in Nat /\ DOMAIN stdout = 1..Len(stdout)
      /\ Len(typed) \in Nat /\ DOMAIN typed = 1..Len(typed)
  BY <1>1, LenProperties
<1>3. /\ \A i \in DOMAIN stdin : stdin[i] \in Command
      /\ \A i \in DOMAIN stdout : stdout[i] \in LineType
  BY <1>1, <1>2, ElementOfSeq
<1> QED
  BY <1>1, <1>2, <1>3

\* The state as far as the invariant reads it.
View == <<tmux, stdin, stdout, block, lock, task, typed>>

LEMMA SameView ==
    ASSUME IInv, UNCHANGED View, TypeOK'
    PROVE  IInv'
BY DEF View, IInv, Alone, Counted, Serial, InOrder, Busy, Quiet, Awaited, IsBody, IsReply,
       PieceOf, Entered, RepliesMatch, LinesEnteredWhole

LEMMA OneBusy ==
    ASSUME Alone, NEW t \in Tasks, NEW u \in Tasks, Busy(t), Busy(u)
    PROVE  t = u
BY DEF Alone

\* While the attach is awaited, no command is.
LEMMA NoneWhileAttaching ==
    ASSUME IInv, NEW t \in Tasks, task[Loop].pc = "sleep"
    PROVE  task[t].pc # "await"
<1>1. Busy(Loop) /\ Loop \in Tasks
  BY DEF Busy, Tasks
<1>2. SUFFICES ASSUME task[t].pc = "await"
               PROVE  FALSE
  OBVIOUS
<1>3. Busy(t)
  BY <1>2 DEF Busy
<1> QED
  BY <1>1, <1>2, <1>3, OneBusy DEF IInv

\* A line that is no part of an answer disturbs none.
LEMMA AwaitedKept ==
    ASSUME TypeOK, NEW t \in Tasks, Awaited(t), NEW e \in LineType, e.kind \in {"begin", "note"},
           task'[t] = task[t], stdin' = stdin, block' = block,
           tmux' = "answering" => stdin # <<>>,
           stdout' = stdout \/ stdout' = Append(stdout, e)
    PROVE  Awaited(t)'
<1>1. CASE stdout' = stdout
  BY <1>1 DEF Awaited, IsBody, IsReply, PieceOf
<1>2. CASE stdout' = Append(stdout, e)
  <2>1. /\ Len(stdout) \in Nat /\ DOMAIN stdout = 1..Len(stdout)
        /\ DOMAIN stdout' = 1..(Len(stdout) + 1)
        /\ \A i \in 1..Len(stdout) : stdout'[i] = stdout[i]
        /\ stdout'[Len(stdout) + 1] = e
    BY <1>2, TypesOf, OneMore
  <2>2. \A i \in DOMAIN stdout' : \/ i \in DOMAIN stdout /\ stdout'[i] = stdout[i]
                                  \/ stdout'[i].kind \in {"begin", "note"}
    BY <2>1
  <2>3. \A i \in DOMAIN stdout' : IsBody(i)' => i \in DOMAIN stdout /\ IsBody(i)
    BY <2>2 DEF IsBody, IsReply, ReplyKinds
  <2>4. \A i \in DOMAIN stdout' : IsReply(i)' => i \in DOMAIN stdout /\ IsReply(i)
    BY <2>2 DEF IsReply, ReplyKinds
  <2>5. \A i \in DOMAIN stdout : i > 1 => i - 1 \in 1..Len(stdout)
    BY <2>1
  <2>6. ASSUME NEW i \in DOMAIN stdout', IsReply(i)'
        PROVE  /\ stdin' = <<>>
               /\ \A j \in DOMAIN stdout' : j > i => ~(IsBody(j)')
               /\ \/ i = 1 /\ task'[t].cmd \in block'.of
                  \/ i > 1 /\ stdout'[i - 1].kind = "data"
    BY <2>1, <2>3, <2>4, <2>5, <2>6 DEF Awaited
  <2>7. \A i \in DOMAIN stdout' : stdout'[i].kind = "data" => stdout'[i].of = task'[t].cmd
    BY <2>2 DEF Awaited
  <2> QED
    BY <2>6, <2>7 DEF Awaited, PieceOf, IsBody, IsReply
<1> QED
  BY <1>1, <1>2

-----------------------------------------------------------------------------
\* tmux

LEMMA AttachesStep ==
    ASSUME IInv, Attaches
    PROVE  IInv'
<1>1. /\ TypeOK /\ tmux' = "up" /\ stdin' = stdin /\ typed' = typed /\ block' = block
      /\ lock' = lock /\ task' = task /\ tmux = "attaching"
      /\ stdout' = stdout \o <<Line("begin", Attach), Line("end", Attach)>>
  BY DEF IInv, Attaches, readerVars, callVars
<1>2. Line("begin", Attach) \in LineType /\ Line("end", Attach) \in LineType
  BY DEF Line, LineType, Attach, ReplyKinds
<1>3. stdout' \in Seq(LineType)
  BY <1>1, <1>2, TypesOf, TwoMore
<1>4. TypeOK'
  BY <1>1, <1>3 DEF TypeOK, LineType, Attaches, readerVars, callVars
<1>5. task[Loop].pc = "sleep" /\ stdin = <<>>
  BY <1>1 DEF IInv, Serial
<1>6. \A t \in Tasks : task[t].pc # "await"
  BY <1>5, NoneWhileAttaching
<1>7. Serial'
  BY <1>1, <1>5, <1>6 DEF Serial
<1>8. InOrder'
  BY <1>1, <1>6 DEF IInv, InOrder, Entered, Tasks
<1> QED
  BY <1>1, <1>4, <1>7, <1>8
     DEF IInv, Alone, Counted, Busy, RepliesMatch, LinesEnteredWhole

\* Who awaits the command tmux takes.
LEMMA SomeoneAwaits ==
    ASSUME IInv, tmux = "answering" \/ (tmux = "up" /\ stdin # <<>>)
    PROVE  /\ task[Loop].pc # "sleep"
           /\ \E t \in Tasks : task[t].pc = "await" /\ Awaited(t)
BY DEF IInv, Serial, Quiet

LEMMA AnswersStep ==
    ASSUME IInv, Answers
    PROVE  IInv'
<1> DEFINE e == Line("begin", Head(stdin).cmd)
<1>1. /\ TypeOK /\ tmux = "up" /\ stdin # <<>> /\ tmux' = "answering" /\ stdin' = stdin
      /\ typed' = typed /\ block' = block /\ lock' = lock /\ task' = task
      /\ stdout' = Append(stdout, e)
  BY DEF IInv, Answers, readerVars, callVars
<1>2. e \in LineType /\ e.kind \in {"begin", "note"}
  <2>1. Head(stdin) \in Command
    BY <1>1, TypesOf, RestOf
  <2> QED
    BY <2>1 DEF Command, Line, LineType
<1> HIDE DEF e
<1>3. /\ stdout' \in Seq(LineType) /\ Len(stdout) \in Nat /\ DOMAIN stdout' = 1..(Len(stdout) + 1)
      /\ DOMAIN stdout = 1..Len(stdout)
      /\ \A i \in 1..Len(stdout) : stdout'[i] = stdout[i]
      /\ stdout'[Len(stdout) + 1] = e
  BY <1>1, <1>2, TypesOf, OneMore
<1>4. TypeOK'
  BY <1>1, <1>3 DEF TypeOK, LineType, Answers, readerVars, callVars
<1>5. task[Loop].pc # "sleep"
  BY <1>1, SomeoneAwaits
<1>6. \A t \in Tasks : task[t].pc = "await" => Awaited(t)'
  BY <1>1, <1>2, AwaitedKept DEF IInv, Serial
<1>7. Serial'
  <2>1. \E t \in Tasks : task[t].pc = "await"
    BY <1>1, SomeoneAwaits
  <2> QED
    BY <1>1, <1>5, <1>6, <2>1 DEF Serial
<1>8. InOrder'
  <2>1. (\E i \in DOMAIN stdout' : stdout'[i].kind = "end") => \E i \in DOMAIN stdout : stdout[i].kind = "end"
    BY <1>2, <1>3
  <2> QED
    BY <1>1, <2>1 DEF IInv, InOrder, Entered
<1> QED
  BY <1>1, <1>4, <1>7, <1>8
     DEF IInv, Alone, Counted, Busy, RepliesMatch, LinesEnteredWhole

LEMMA NotifiesStep ==
    ASSUME IInv, Notifies
    PROVE  IInv'
<1> DEFINE e == Line("note", notes')
<1>1. /\ TypeOK /\ tmux \in {"up", "answering"} /\ tmux' = tmux /\ stdin' = stdin
      /\ typed' = typed /\ block' = block /\ lock' = lock /\ task' = task
      /\ notes' = notes + 1 /\ notes < MaxNotes
      /\ stdout' = Append(stdout, e)
  BY DEF IInv, Notifies, readerVars, callVars
<1>2. e \in LineType /\ e.kind = "note" /\ notes' \in 0..MaxNotes
  BY <1>1, ControlAssumption DEF TypeOK, Line, LineType
<1> HIDE DEF e
<1>3. /\ stdout' \in Seq(LineType) /\ Len(stdout) \in Nat /\ DOMAIN stdout' = 1..(Len(stdout) + 1)
      /\ DOMAIN stdout = 1..Len(stdout)
      /\ \A i \in 1..Len(stdout) : stdout'[i] = stdout[i]
      /\ stdout'[Len(stdout) + 1] = e
  BY <1>1, <1>2, TypesOf, OneMore
<1>4. TypeOK'
  BY <1>1, <1>2, <1>3 DEF TypeOK, LineType, Notifies, readerVars, callVars
<1>5. \A i \in DOMAIN stdout' : \/ i \in DOMAIN stdout /\ stdout'[i] = stdout[i]
                                \/ stdout'[i].kind = "note"
  BY <1>2, <1>3
<1>6. \A t \in Tasks : task[t].pc = "await" => Awaited(t)'
  <2>1. ASSUME NEW t \in Tasks, task[t].pc = "await"
        PROVE  Awaited(t)'
    <3>1. Awaited(t)
      BY <2>1 DEF IInv, Serial
    <3>2. tmux' = "answering" => stdin # <<>>
      BY <1>1, <3>1 DEF Awaited
    <3> QED
      BY <1>1, <1>2, <3>1, <3>2, AwaitedKept
  <2> QED
    BY <2>1
<1>7. Serial'
  <2>1. Quiet => Quiet'
    BY <1>1, <1>5 DEF Quiet, IsBody, IsReply, ReplyKinds
  <2> QED
    BY <1>1, <1>6, <2>1 DEF IInv, Serial
<1>8. InOrder'
  <2>1. (\E i \in DOMAIN stdout' : stdout'[i].kind = "end") => \E i \in DOMAIN stdout : stdout[i].kind = "end"
    BY <1>5
  <2> QED
    BY <1>1, <2>1 DEF IInv, InOrder, Entered
<1> QED
  BY <1>1, <1>4, <1>7, <1>8
     DEF IInv, Alone, Counted, Busy, RepliesMatch, LinesEnteredWhole

LEMMA TmuxEndsStep ==
    ASSUME IInv, TmuxEnds
    PROVE  IInv'
<1>1. /\ TypeOK /\ tmux' = "gone" /\ stdin' = stdin /\ stdout' = stdout
      /\ typed' = typed /\ block' = block /\ lock' = lock /\ task' = task
  BY DEF IInv, TmuxEnds, readerVars, callVars
<1>2. TypeOK'
  BY <1>1 DEF TypeOK, TmuxEnds, readerVars, callVars
<1>3. Serial'
  BY <1>1 DEF IInv, Serial, Awaited, IsBody, IsReply, PieceOf
<1>4. InOrder'
  BY <1>1 DEF IInv, InOrder, Entered
<1> QED
  BY <1>1, <1>2, <1>3, <1>4
     DEF IInv, Alone, Counted, Busy, RepliesMatch, LinesEnteredWhole

LEMMA OneMoreEntered ==
    ASSUME NEW s \in Seq(PieceType), Whole(s), NEW h, NEW c \in PieceType,
           Entered(s, h, c.piece - 1), c.by = h
    PROVE  Entered(Append(s, c), h, c.piece) /\ Whole(Append(s, c))
<1> DEFINE n == Len(s)  q == c.piece  u == Append(s, c)
<1>1. /\ n \in Nat /\ DOMAIN s = 1..n /\ Len(u) = n + 1 /\ DOMAIN u = 1..(n + 1)
      /\ \A i \in 1..n : u[i] = s[i]
      /\ u[n + 1] = c
  BY OneMore
<1>2. q \in 1..Pieces /\ Pieces \in Nat \ {0}
  BY ControlAssumption DEF PieceType
<1>3. q - 1 <= n /\ \A k \in 1..(q - 1) : s[n - (q - 1) + k].piece = k /\ s[n - (q - 1) + k].by = h
  BY DEF Entered
<1> HIDE DEF n, q, u
<1>4. q <= n + 1 /\ \A k \in 1..q : u[(n + 1) - q + k].piece = k /\ u[(n + 1) - q + k].by = h
  <2>1. ASSUME NEW k \in 1..q, k # q
        PROVE  u[(n + 1) - q + k] = s[n - (q - 1) + k] /\ k \in 1..(q - 1)
    <3>1. (n + 1) - q + k = n - (q - 1) + k /\ n - (q - 1) + k \in 1..n /\ k \in 1..(q - 1)
      BY <1>1, <1>2, <1>3, <2>1
    <3> QED
      BY <1>1, <3>1
  <2>2. (n + 1) - q + q = n + 1
    BY <1>1, <1>2
  <2>3. u[n + 1].piece = q /\ u[n + 1].by = h
    BY <1>1 DEF q
  <2>4. ASSUME NEW k \in 1..q
        PROVE  u[(n + 1) - q + k].piece = k /\ u[(n + 1) - q + k].by = h
    <3>1. CASE k = q
      BY <2>2, <2>3, <3>1
    <3>2. CASE k # q
      BY <1>3, <2>1, <3>2
    <3> QED
      BY <3>1, <3>2
  <2> QED
    BY <1>1, <1>2, <1>3, <2>4
<1>5. Entered(u, h, q)
  BY <1>1, <1>4 DEF Entered
<1>6. ASSUME NEW i \in 1..(n + 1), u[i].piece = Pieces
      PROVE  /\ i >= Pieces
             /\ \A k \in 1..Pieces : u[i - Pieces + k].piece = k /\ u[i - Pieces + k].by = u[i].by
  <2>1. CASE i \in 1..n
    <3>1. i >= Pieces /\ \A k \in 1..Pieces : s[i - Pieces + k].piece = k /\ s[i - Pieces + k].by = s[i].by
      BY <1>1, <1>6, <2>1 DEF Whole
    <3>2. \A k \in 1..Pieces : i - Pieces + k \in 1..n
      BY <1>1, <1>2, <2>1, <3>1
    <3> QED
      BY <1>1, <2>1, <3>1, <3>2
  <2>2. CASE i = n + 1
    <3>1. q = Pieces /\ u[i].by = h
      BY <1>1, <1>6, <2>2 DEF q
    <3> QED
      BY <1>4, <2>2, <3>1
  <2>3. i \in 1..n \/ i = n + 1
    BY <1>1
  <2> QED
    BY <2>1, <2>2, <2>3
<1>7. Whole(u)
  BY <1>1, <1>6 DEF Whole
<1> QED
  BY <1>5, <1>7 DEF q, u

LEMMA AnsweredStep ==
    ASSUME IInv, NEW kind \in ReplyKinds, Answered(kind)
    PROVE  IInv'
<1> DEFINE c == Head(stdin)  d == Line("data", c.cmd)  e == Line(kind, c.cmd)  n == Len(stdout)
<1>1. /\ TypeOK /\ tmux = "answering" /\ tmux' = "up" /\ stdin' = Tail(stdin)
      /\ block' = block /\ lock' = lock /\ task' = task
      /\ stdout' = stdout \o <<d, e>>
      /\ typed' = IF kind = "end" /\ c.by \in Handlers THEN Append(typed, c) ELSE typed
  BY DEF IInv, Answered, readerVars, callVars
<1>2. task[Loop].pc # "sleep" /\ \E t \in Tasks : task[t].pc = "await" /\ Awaited(t)
  BY <1>1, SomeoneAwaits
<1>3. PICK t \in Tasks : task[t].pc = "await" /\ Awaited(t)
  BY <1>2
<1>4. /\ stdin # <<>> /\ c \in Command /\ Len(stdin') = Len(stdin) - 1 /\ stdin' \in Seq(Command)
      /\ Len(stdin) \in Nat \ {0} /\ c = stdin[1] /\ DOMAIN stdin' = 1..(Len(stdin) - 1)
      /\ DOMAIN stdin = 1..Len(stdin)
  <2>1. stdin # <<>>
    BY <1>1, <1>3 DEF Awaited
  <2> QED
    BY <1>1, <2>1, TypesOf, RestOf
<1>5. c.cmd = task[t].cmd /\ c.by = t /\ c.piece = PieceOf(t) /\ stdin' = <<>> /\ DOMAIN stdin' = {}
  <2>1. Len(stdin) = 1
    BY <1>3, <1>4 DEF Awaited
  <2>2. 1 \in DOMAIN stdin
    BY <1>4
  <2>3. stdin' = <<>>
    BY <1>4, <2>1, EmptySeq
  <2> QED
    BY <1>3, <1>4, <2>1, <2>2, <2>3 DEF Awaited
<1>6. /\ d \in LineType /\ e \in LineType /\ d.kind = "data" /\ e.kind = kind
      /\ d.of = task[t].cmd /\ kind # "data"
  BY <1>4, <1>5 DEF Command, LineType, Line, ReplyKinds
<1>7. /\ n \in Nat /\ DOMAIN stdout = 1..n /\ stdout' \in Seq(LineType) /\ DOMAIN stdout' = 1..(n + 2)
      /\ \A i \in 1..n : stdout'[i] = stdout[i]
      /\ stdout'[n + 1] = d /\ stdout'[n + 2] = e
  BY <1>1, <1>6, TypesOf, TwoMore
<1> HIDE DEF c, d, e, n
<1>8. \A i \in DOMAIN stdout : ~IsReply(i)
  BY <1>3, <1>4 DEF Awaited
<1>9. \A u \in Tasks : Busy(u) => u = t
  <2>1. Busy(t)
    BY <1>3 DEF Busy
  <2> QED
    BY <1>3, <2>1, OneBusy DEF IInv
<1>10. TypeOK'
  <2>1. typed' \in Seq(PieceType)
    <3>1. CASE kind = "end" /\ c.by \in Handlers
      <4>1. t \in Handlers /\ task[t].left \in 1..Pieces /\ t # Loop
        BY <1>3, <1>5, <3>1, ControlAssumption DEF IInv, Counted, Busy
      <4>2. c.piece \in 1..Pieces
        BY <1>5, <4>1, ControlAssumption DEF PieceOf
      <4>3. c \in PieceType
        BY <1>4, <3>1, <4>2 DEF Command, PieceType
      <4> QED
        BY <1>1, <3>1, <4>3, TypesOf, OneMore
    <3>2. CASE ~(kind = "end" /\ c.by \in Handlers)
      BY <1>1, <3>2, TypesOf
    <3> QED
      BY <3>1, <3>2
  <2> QED
    BY <1>1, <1>4, <1>7, <2>1 DEF TypeOK, LineType, Command, PieceType, Answered, readerVars, callVars
<1>11. Awaited(t)'
  <2>1. \A i \in DOMAIN stdout' : stdout'[i].kind = "data" => stdout'[i].of = task'[t].cmd
    <3> SUFFICES ASSUME NEW i \in DOMAIN stdout', stdout'[i].kind = "data"
                 PROVE  stdout'[i].of = task[t].cmd
      BY <1>1
    <3>1. i \in 1..n \/ i = n + 1 \/ i = n + 2
      BY <1>7
    <3>2. i \in 1..n => stdout'[i].of = task[t].cmd
      BY <1>3, <1>7 DEF Awaited
    <3>3. i # n + 2
      BY <1>6, <1>7
    <3> QED
      BY <1>6, <1>7, <3>1, <3>2, <3>3
  <2>2. ASSUME NEW i \in DOMAIN stdout', IsReply(i)'
        PROVE  /\ stdin' = <<>>
               /\ \A j \in DOMAIN stdout' : j > i => ~(IsBody(j)')
               /\ i > 1 /\ stdout'[i - 1].kind = "data"
    <3>1. i = n + 2
      <4>1. i \in 1..n \/ i = n + 1 \/ i = n + 2
        BY <1>7
      <4>2. i \notin 1..n
        BY <1>7, <1>8, <2>2 DEF IsReply
      <4>3. i # n + 1
        BY <1>6, <1>7, <2>2 DEF IsReply, ReplyKinds
      <4> QED
        BY <4>1, <4>2, <4>3
    <3>2. i > 1 /\ i - 1 = n + 1 /\ \A j \in DOMAIN stdout' : ~(j > i)
      BY <1>7, <3>1
    <3> QED
      BY <1>5, <1>6, <1>7, <3>2
  <2> QED
    BY <1>1, <1>3, <1>5, <2>1, <2>2, LenProperties DEF Awaited, PieceOf, IsBody, IsReply
<1>12. Serial'
  BY <1>1, <1>2, <1>3, <1>9, <1>11 DEF Serial, Busy
<1>13. InOrder' /\ LinesEnteredWhole'
  <2>1. ASSUME NEW i \in DOMAIN stdout', stdout'[i].kind = "end"
        PROVE  kind = "end"
    <3>1. i \in 1..n \/ i = n + 1 \/ i = n + 2
      BY <1>7
    <3> QED
      BY <1>6, <1>7, <1>8, <2>1, <3>1 DEF IsReply, ReplyKinds
  <2>2. CASE kind = "end" /\ t \in Handlers
    <3>1. task[t].left \in 1..Pieces /\ t # Loop /\ Entered(typed, t, Pieces - task[t].left)
      BY <1>3, <1>4, <2>2, ControlAssumption DEF IInv, Counted, Busy, InOrder
    <3>2. c.piece = Pieces + 1 - task[t].left /\ c.piece \in 1..Pieces
          /\ c.piece - 1 = Pieces - task[t].left
      BY <1>5, <3>1, ControlAssumption DEF PieceOf
    <3>3. c \in PieceType
      BY <1>4, <1>5, <2>2, <3>2 DEF Command, PieceType
    <3>4. typed \in Seq(PieceType) /\ Whole(typed) /\ typed' = Append(typed, c)
      BY <1>1, <1>5, <2>2, TypesOf DEF IInv, LinesEnteredWhole, Whole
    <3>5. Entered(typed', t, Pieces + 1 - task[t].left) /\ Whole(typed')
      <4>1. Entered(typed, t, c.piece - 1)
        BY <3>1, <3>2
      <4>2. Entered(typed', t, c.piece) /\ Whole(typed')
        BY <1>5, <3>3, <3>4, <4>1, OneMoreEntered
      <4> QED
        BY <3>2, <4>2
    <3>6. ASSUME NEW h \in Handlers
          PROVE  /\ task[h].pc \notin {"register", "write", "got"}
                 /\ task[h].pc = "await" => h = t
      BY <1>3, <1>9 DEF Busy, Tasks
    <3> QED
      BY <1>1, <1>5, <3>5, <3>6 DEF InOrder, LinesEnteredWhole, Whole
  <2>3. CASE ~(kind = "end" /\ t \in Handlers)
    <3>1. typed' = typed
      BY <1>1, <1>5, <2>3
    <3>2. ASSUME NEW h \in Handlers
          PROVE  /\ task[h].pc \notin {"register", "write", "got"}
                 /\ task[h].pc = "await" => h = t
      BY <1>3, <1>9 DEF Busy, Tasks
    <3> QED
      <4>1. InOrder'
        BY <1>1, <1>5, <2>1, <2>3, <3>1, <3>2 DEF InOrder
      <4>2. LinesEnteredWhole'
        BY <3>1 DEF IInv, LinesEnteredWhole
      <4> QED
        BY <4>1, <4>2
  <2> QED
    BY <2>2, <2>3
<1> QED
  BY <1>1, <1>10, <1>12, <1>13
     DEF IInv, Alone, Counted, Busy, RepliesMatch

-----------------------------------------------------------------------------
\* The reader

LEMMA RegistersStep ==
    ASSUME IInv, Registers
    PROVE  IInv'
<1>1. TypeOK /\ registered # <<>> /\ UNCHANGED View
  BY DEF IInv, Registers, View, wire, callVars
<1>2. pending' \in Seq(Nat) /\ registered' \in Seq(Nat)
  <2>1. Head(registered) \in Nat /\ Tail(registered) \in Seq(Nat)
    BY <1>1, TypesOf, RestOf
  <2> QED
    BY <2>1, <1>1, TypesOf, OneMore DEF Registers
<1>3. TypeOK'
  BY <1>1, <1>2 DEF TypeOK, Registers, wire, callVars
<1> QED
  BY <1>1, <1>3, SameView

LEMMA ReadLineStep ==
    ASSUME IInv, ReadLine
    PROVE  IInv'
<1> DEFINE n == Len(stdout)  line == stdout[1]
<1>1. /\ TypeOK /\ stdout # <<>> /\ stdout' = Tail(stdout)
      /\ UNCHANGED <<registered, reading, tmux, stdin, notes, typed, lock, serving, issued>>
  BY DEF IInv, ReadLine
<1>2. /\ n \in Nat \ {0} /\ DOMAIN stdout = 1..n /\ Head(stdout) = line /\ line \in LineType
      /\ stdout' \in Seq(LineType) /\ DOMAIN stdout' = 1..(n - 1)
      /\ \A i \in 1..(n - 1) : stdout'[i] = stdout[i + 1]
  BY <1>1, TypesOf, RestOf
<1>3. \/ /\ line.kind = "begin" /\ block' = [open |-> TRUE, of |-> {}]
         /\ UNCHANGED <<pending, inbox, task>>
      \/ /\ line.kind = "data" /\ block' = [block EXCEPT !.of = @ \cup {line.of}]
         /\ UNCHANGED <<pending, inbox, task>>
      \/ /\ line.kind \in ReplyKinds /\ block' = NoBlock /\ UNCHANGED <<pending, inbox, task>>
      \/ /\ line.kind \in ReplyKinds /\ block' = NoBlock /\ pending # <<>>
         /\ pending' = Tail(pending) /\ inbox' = inbox
         /\ task' = Woken(Head(pending), block.of, line.kind = "end")
      \/ line.kind = "note" /\ TrySend(line.of) /\ UNCHANGED <<block, pending, task>>
  BY <1>2 DEF ReadLine
<1> HIDE DEF n, line
<1>4. \A i \in DOMAIN stdout' : i \in 1..n /\ i + 1 \in 1..n /\ stdout'[i] = stdout[i + 1]
  BY <1>2
<1>5. /\ \A i \in DOMAIN stdout' : IsReply(i)' => IsReply(i + 1)
      /\ \A i \in DOMAIN stdout' : IsBody(i)' => IsBody(i + 1)
  BY <1>4 DEF IsReply, IsBody
<1>6. block' \in [open : BOOLEAN, of : SUBSET Nat]
  <2>1. block \in [open : BOOLEAN, of : SUBSET Nat] /\ line.of \in Nat
    BY <1>1, <1>2 DEF TypeOK, LineType
  <2>2. \/ block' = [open |-> TRUE, of |-> {}]
        \/ block' = [block EXCEPT !.of = @ \cup {line.of}]
        \/ block' = NoBlock \/ block' = block
    BY <1>3
  <2>3. [block EXCEPT !.of = @ \cup {line.of}] \in [open : BOOLEAN, of : SUBSET Nat]
    BY <2>1
  <2>4. NoBlock \in [open : BOOLEAN, of : SUBSET Nat]
    BY DEF NoBlock
  <2>5. [open |-> TRUE, of |-> {}] \in [open : BOOLEAN, of : SUBSET Nat]
    OBVIOUS
  <2> QED
    BY <2>1, <2>2, <2>3, <2>4, <2>5, Zenon
<1>7. \A t \in Tasks :
         \/ task'[t] = task[t]
         \/ /\ task[t].pc = "await" /\ task'[t].pc = "got" /\ line.kind \in ReplyKinds
            /\ task'[t] = [task[t] EXCEPT !.pc = "got", !.reply = block.of, !.ok = (line.kind = "end")]
  <2>1. CASE task' = task
    BY <2>1
  <2>2. CASE line.kind \in ReplyKinds /\ task' = Woken(Head(pending), block.of, line.kind = "end")
    <3> SUFFICES ASSUME NEW t \in Tasks, task'[t] # task[t]
                 PROVE  /\ task[t].pc = "await"
                        /\ task'[t].pc = "got"
                        /\ task'[t] = [task[t] EXCEPT !.pc = "got", !.reply = block.of,
                                                     !.ok = (line.kind = "end")]
      BY <2>2
    <3>1. /\ task[t].pc = "await"
          /\ task'[t] = [task[t] EXCEPT !.pc = "got", !.reply = block.of,
                                       !.ok = (line.kind = "end")]
      BY <2>2 DEF Woken
    <3>2. task[t] \in TaskType
      BY <1>1, TypesOf
    <3> QED
      BY <3>1, <3>2 DEF TaskType
  <2> QED
    BY <1>3, <2>1, <2>2
<1>8. \A t \in Tasks :
         \/ task'[t] = task[t]
         \/ /\ task[t].pc = "await" /\ task'[t].pc = "got" /\ line.kind \in ReplyKinds
            /\ task'[t].reply = block.of /\ task'[t].ok = (line.kind = "end")
            /\ task'[t].left = task[t].left /\ task'[t].cmd = task[t].cmd
            /\ task'[t] \in TaskType
  <2> SUFFICES ASSUME NEW t \in Tasks, task'[t] # task[t]
               PROVE  /\ task[t].pc = "await" /\ task'[t].pc = "got" /\ line.kind \in ReplyKinds
                      /\ task'[t].reply = block.of /\ task'[t].ok = (line.kind = "end")
                      /\ task'[t].left = task[t].left /\ task'[t].cmd = task[t].cmd
                      /\ task'[t] \in TaskType
    OBVIOUS
  <2>1. task[t] \in TaskType /\ block.of \subseteq Nat
    BY <1>1, TypesOf DEF TypeOK
  <2>2. task'[t] = [task[t] EXCEPT !.pc = "got", !.reply = block.of, !.ok = (line.kind = "end")]
    BY <1>7
  <2> QED
    BY <1>7, <2>1, <2>2 DEF TaskType, Places
<1>9. task' \in [Tasks -> TaskType]
  <2>1. task' = [t \in Tasks |-> task'[t]]
    <3>1. CASE task' = task
      BY <1>1, <3>1, TypesOf
    <3>2. CASE task' = Woken(Head(pending), block.of, line.kind = "end")
      BY <3>2 DEF Woken
    <3> QED
      BY <1>3, <3>1, <3>2
  <2>2. \A t \in Tasks : task'[t] \in TaskType
    BY <1>1, <1>8, TypesOf
  <2> QED
    BY <2>1, <2>2
<1>10. TypeOK'
  <2>1. pending' \in Seq(Nat)
    <3>1. pending # <<>> => Tail(pending) \in Seq(Nat)
      BY <1>1, TypesOf, RestOf
    <3> QED
      BY <1>1, <1>3, <3>1, TypesOf
  <2>2. inbox' \in Seq(Nat) /\ Len(inbox') <= Capacity
    <3>1. CASE inbox' = inbox
      BY <1>1, <3>1 DEF TypeOK
    <3>2. CASE Len(inbox) < Capacity /\ inbox' = Append(inbox, line.of)
      <4>1. line.of \in Nat
        BY <1>2 DEF LineType
      <4>2. inbox' \in Seq(Nat) /\ Len(inbox') = Len(inbox) + 1 /\ Len(inbox) \in Nat
        BY <1>1, <3>2, <4>1, TypesOf, OneMore
      <4> QED
        BY <3>2, <4>2, ControlAssumption
    <3> QED
      BY <1>3, <3>1, <3>2 DEF TrySend
  <2> QED
    BY <1>1, <1>2, <1>6, <1>9, <2>1, <2>2 DEF TypeOK, LineType, TaskType
\* Whoever still awaits, awaits what is left.
<1>11. ASSUME NEW t \in Tasks, task'[t].pc = "await"
       PROVE  Awaited(t)'
  <2>1. task'[t] = task[t] /\ Awaited(t)
    BY <1>8, <1>11 DEF IInv, Serial
  <2>2. block'.of \subseteq {task[t].cmd}
    <3>1. CASE line.kind = "data"
      <4>1. 1 \in DOMAIN stdout
        BY <1>2
      <4>2. line.of = task[t].cmd
        BY <2>1, <3>1, <4>1 DEF Awaited, line
      <4>3. block'.of = block.of \cup {line.of}
        <5>1. block' = [block EXCEPT !.of = @ \cup {line.of}]
          BY <1>3, <3>1 DEF ReplyKinds
        <5> QED
          BY <1>1, <5>1 DEF TypeOK
      <4> QED
        BY <2>1, <4>2, <4>3 DEF Awaited
    <3>2. CASE line.kind # "data"
      BY <1>3, <2>1, <3>2 DEF Awaited, NoBlock
    <3> QED
      BY <3>1, <3>2
  <2>3. \A i \in DOMAIN stdout' : stdout'[i].kind = "data" => stdout'[i].of = task[t].cmd
    BY <1>2, <1>4, <2>1 DEF Awaited
  <2>4. ASSUME NEW i \in DOMAIN stdout', IsReply(i)'
        PROVE  /\ stdin' = <<>>
               /\ \A j \in DOMAIN stdout' : j > i => ~(IsBody(j)')
               /\ \/ i = 1 /\ task'[t].cmd \in block'.of
                  \/ i > 1 /\ stdout'[i - 1].kind = "data"
    <3>1. i + 1 \in DOMAIN stdout /\ IsReply(i + 1) /\ i \in 1..(n - 1)
      BY <1>2, <1>4, <1>5, <2>4
    <3>2. stdin' = <<>> /\ \A j \in DOMAIN stdout' : j > i => ~(IsBody(j)')
      <4>1. \A j \in DOMAIN stdout' : j > i => j + 1 \in DOMAIN stdout /\ j + 1 > i + 1
        BY <1>2, <3>1
      <4> QED
        BY <1>1, <1>5, <2>1, <3>1, <4>1 DEF Awaited
    <3>3. stdout[i].kind = "data"
      <4>1. i + 1 # 1 /\ (i + 1) - 1 = i
        BY <3>1
      <4> QED
        BY <2>1, <3>1, <4>1 DEF Awaited
    <3>4. CASE i = 1
      <4>1. line.kind = "data" /\ line.of = task[t].cmd
        BY <1>2, <2>1, <3>3, <3>4 DEF Awaited, line
      <4>2. block' = [block EXCEPT !.of = @ \cup {line.of}]
        BY <1>3, <4>1 DEF ReplyKinds
      <4>3. line.of \in block'.of
        BY <1>1, <4>2 DEF TypeOK
      <4> QED
        BY <2>1, <3>2, <3>4, <4>1, <4>3
    <3>5. CASE i # 1
      <4>1. i > 1 /\ i - 1 \in DOMAIN stdout' /\ (i - 1) + 1 = i
        BY <1>2, <3>1, <3>5
      <4> QED
        BY <1>4, <3>2, <3>3, <4>1
    <3> QED
      BY <3>4, <3>5
  <2> QED
    BY <1>1, <2>1, <2>2, <2>3, <2>4 DEF Awaited, PieceOf, IsBody, IsReply
\* A reply that wakes its task is of its command, and the last there is.
<1>12. ASSUME NEW t \in Tasks, task'[t] # task[t]
       PROVE  /\ task[t].pc = "await" /\ task'[t].pc = "got" /\ IsReply(1) /\ Awaited(t)
              /\ block.of = {task[t].cmd} /\ Quiet'
  <2>1. task[t].pc = "await" /\ task'[t].pc = "got" /\ IsReply(1) /\ Awaited(t) /\ 1 \in DOMAIN stdout
    BY <1>2, <1>8, <1>12 DEF IInv, Serial, IsReply, line
  <2>2. block.of = {task[t].cmd} /\ stdin = <<>> /\ tmux # "answering"
    BY <2>1 DEF Awaited
  <2>3. \A i \in DOMAIN stdout' : ~(IsBody(i)')
    <3>1. \A i \in DOMAIN stdout' : i + 1 \in DOMAIN stdout /\ i + 1 > 1
      BY <1>2
    <3> QED
      BY <1>5, <2>1, <3>1 DEF Awaited
  <2>4. block'.of = {}
    <3>1. line.kind \in ReplyKinds
      BY <2>1 DEF IsReply, line
    <3> QED
      BY <1>3, <3>1 DEF ReplyKinds, NoBlock
  <2> QED
    BY <1>1, <2>1, <2>2, <2>3, <2>4 DEF Quiet
<1>13. Serial'
  <2>1. task'[Loop].pc = "sleep" <=> task[Loop].pc = "sleep"
    BY <1>12 DEF Tasks
  <2>2. ASSUME task[Loop].pc # "sleep", tmux # "gone", \A t \in Tasks : task'[t].pc # "await"
        PROVE  Quiet'
    <3>1. CASE \E t \in Tasks : task'[t] # task[t]
      BY <1>12, <3>1
    <3>2. CASE \A t \in Tasks : task'[t] = task[t]
      <4>1. Quiet
        BY <2>2, <3>2 DEF IInv, Serial
      <4>2. ~IsBody(1)
        BY <1>2, <4>1 DEF Quiet
      <4>3. block'.of = {}
        BY <1>3, <4>1, <4>2 DEF Quiet, IsBody, IsReply, line, NoBlock
      <4>4. \A i \in DOMAIN stdout' : ~(IsBody(i)')
        BY <1>2, <1>4, <1>5, <4>1 DEF Quiet
      <4> QED
        BY <1>1, <4>1, <4>3, <4>4 DEF Quiet
    <3> QED
      BY <3>1, <3>2
  <2> QED
    BY <1>1, <1>11, <2>1, <2>2 DEF IInv, Serial
<1>14. InOrder'
  <2>1. (\E i \in DOMAIN stdout' : stdout'[i].kind = "end") => \E i \in DOMAIN stdout : stdout[i].kind = "end"
    BY <1>2, <1>4
  <2>2. ASSUME NEW h \in Handlers, task'[h] = task[h]
        PROVE  /\ task'[h].pc \in {"register", "write"} => Entered(typed', h, Pieces - task'[h].left)
               /\ task'[h].pc = "await" /\ stdin' # <<>> => Entered(typed', h, Pieces - task'[h].left)
               /\ task'[h].pc = "await" /\ (\E i \in DOMAIN stdout' : stdout'[i].kind = "end")
                     => Entered(typed', h, Pieces + 1 - task'[h].left)
               /\ task'[h].pc = "got" /\ task'[h].ok => Entered(typed', h, Pieces + 1 - task'[h].left)
    BY <1>1, <2>1, <2>2 DEF IInv, InOrder, Entered
  <2>3. ASSUME NEW h \in Handlers, task'[h] # task[h]
        PROVE  task'[h].pc = "got" /\ (task'[h].ok => Entered(typed', h, Pieces + 1 - task'[h].left))
    <3>1. /\ h \in Tasks /\ task[h].pc = "await" /\ task'[h].pc = "got"
          /\ task'[h].ok = (line.kind = "end") /\ task'[h].left = task[h].left
      BY <1>8, <2>3 DEF Tasks
    <3>2. task'[h].ok => \E i \in DOMAIN stdout : stdout[i].kind = "end"
      <4>1. 1 \in DOMAIN stdout
        BY <1>2
      <4>2. stdout[1].kind = "end" => \E i \in DOMAIN stdout : stdout[i].kind = "end"
        BY <4>1
      <4> QED
        BY <3>1, <4>2, Zenon DEF line
    <3> QED
      BY <1>1, <3>1, <3>2 DEF IInv, InOrder, Entered
  <2> QED
    BY <2>2, <2>3 DEF InOrder, Entered
<1>15. RepliesMatch'
  BY <1>8, <1>12 DEF IInv, RepliesMatch
<1>16. Alone' /\ Counted'
  <2>1. \A t \in Tasks : /\ Busy(t)' <=> Busy(t)
                         /\ task'[t].left = task[t].left
                         /\ task'[t].pc = "wants" <=> task[t].pc = "wants"
    BY <1>8 DEF Busy
  <2> QED
    BY <1>1, <2>1 DEF IInv, Alone, Counted, Tasks
<1>17. LinesEnteredWhole'
  BY <1>1 DEF IInv, LinesEnteredWhole
<1> QED
  BY <1>10, <1>13, <1>14, <1>15, <1>16, <1>17 DEF IInv

LEMMA ReaderEndsStep ==
    ASSUME IInv, ReaderEnds
    PROVE  IInv'
<1>1. /\ TypeOK /\ tmux = "gone" /\ tmux' = tmux /\ stdin' = stdin /\ stdout' = stdout
      /\ typed' = typed /\ block' = block /\ lock' = lock
  BY DEF IInv, ReaderEnds, wire
<1>2. \A t \in Tasks :
         \/ task'[t] = task[t]
         \/ /\ task[t].pc = "await" /\ task'[t].pc = "got" /\ ~task'[t].ok
            /\ task'[t].left = task[t].left /\ task'[t] \in TaskType
  <2> SUFFICES ASSUME NEW t \in Tasks, task'[t] # task[t]
               PROVE  /\ task[t].pc = "await" /\ task'[t].pc = "got" /\ ~task'[t].ok
                      /\ task'[t].left = task[t].left /\ task'[t] \in TaskType
    OBVIOUS
  <2>1. task[t].pc = "await" /\ task'[t] = [task[t] EXCEPT !.pc = "got", !.ok = FALSE]
    BY DEF ReaderEnds
  <2>2. task[t] \in TaskType
    BY <1>1, TypesOf
  <2> QED
    BY <2>1, <2>2 DEF TaskType, Places
<1>3. TypeOK'
  <2>1. task' = [t \in Tasks |-> task'[t]]
    <3> DEFINE f == [t \in Tasks |->
                        IF task[t].pc = "await" /\ task[t].cmd \in ToSet(pending)
                        THEN [task[t] EXCEPT !.pc = "got", !.ok = FALSE] ELSE task[t]]
    <3>1. task' = f
      BY Zenon DEF ReaderEnds
    <3>2. f = [t \in Tasks |-> f[t]]
      OBVIOUS
    <3> QED
      BY <3>1, <3>2, Zenon
  <2>2. \A t \in Tasks : task'[t] \in TaskType
    BY <1>1, <1>2, TypesOf
  <2>3. task' \in [Tasks -> TaskType]
    BY <2>1, <2>2
  <2>4. pending' \in Seq(Nat)
    <3>1. pending' = <<>>
      BY Zenon DEF ReaderEnds
    <3> QED
      BY <3>1
  <2> QED
    BY <1>1, <2>3, <2>4 DEF TypeOK, TaskType, ReaderEnds, wire
<1>4. Alone' /\ Counted'
  <2>1. \A t \in Tasks : /\ Busy(t)' <=> Busy(t)
                         /\ task'[t].left = task[t].left
                         /\ task'[t].pc = "wants" <=> task[t].pc = "wants"
    BY <1>2 DEF Busy
  <2> QED
    BY <1>1, <2>1 DEF IInv, Alone, Counted, Tasks
<1>5. Serial'
  <2>1. task'[Loop].pc = "sleep" <=> task[Loop].pc = "sleep"
    BY <1>2 DEF Tasks
  <2>2. ASSUME NEW t \in Tasks, task'[t].pc = "await"
        PROVE  Awaited(t)'
    BY <1>1, <1>2, <2>2 DEF IInv, Serial, Awaited, IsBody, IsReply, PieceOf
  <2> QED
    BY <1>1, <2>1, <2>2 DEF IInv, Serial
<1>6. InOrder' /\ RepliesMatch' /\ LinesEnteredWhole'
  BY <1>1, <1>2 DEF IInv, InOrder, RepliesMatch, LinesEnteredWhole, Tasks
<1> QED
  BY <1>3, <1>4, <1>5, <1>6 DEF IInv

-----------------------------------------------------------------------------
\* The tasks

\* A task that goes on by itself, to or from no answer.
LEMMA OwnStep ==
    ASSUME IInv, NEW t \in Tasks,
           UNCHANGED <<tmux, stdin, stdout, block, typed>>,
           \A u \in Tasks \ {t} : task'[u] = task[u],
           task[t].pc \notin {"await", "sleep"}, task'[t].pc \notin {"await", "sleep"},
           task'[t].pc = "got" => ~task'[t].ok,
           task'[t].pc \in {"register", "write"} /\ t \in Handlers =>
               Entered(typed, t, Pieces - task'[t].left)
    PROVE  Serial' /\ InOrder' /\ RepliesMatch' /\ LinesEnteredWhole'
<1>1. task'[Loop].pc = "sleep" <=> task[Loop].pc = "sleep"
  BY DEF Tasks
<1>2. ASSUME NEW u \in Tasks, task'[u].pc = "await"
      PROVE  Awaited(u)'
  <2>1. task'[u] = task[u] /\ Awaited(u)
    BY <1>2 DEF IInv, Serial
  <2> QED
    BY <2>1 DEF Awaited, IsBody, IsReply, PieceOf
<1>3. (\A u \in Tasks : task'[u].pc # "await") => \A u \in Tasks : task[u].pc # "await"
  OBVIOUS
<1>4. Quiet => Quiet'
  BY DEF Quiet, IsBody, IsReply
<1>5. Serial'
  BY <1>1, <1>2, <1>3, <1>4 DEF IInv, Serial
<1>6. InOrder'
  <2>1. ASSUME NEW h \in Handlers, h # t
        PROVE  task'[h] = task[h]
    BY <2>1 DEF Tasks
  <2> QED
    BY <2>1 DEF IInv, InOrder
<1>7. RepliesMatch' /\ LinesEnteredWhole'
  BY DEF IInv, RepliesMatch, LinesEnteredWhole
<1> QED
  BY <1>5, <1>6, <1>7

\* Tasks outside execute.
LEMMA OutsideStep ==
    ASSUME IInv, (\E h \in Handlers : Request(h)) \/ Take \/ LoopEnds
    PROVE  IInv'
<1>1. TypeOK /\ Pieces \in Nat \ {0} /\ Loop \notin Handlers
  BY ControlAssumption DEF IInv
<1>2. ASSUME NEW h \in Handlers, Request(h)
      PROVE  IInv'
  <2>1. h \in Tasks /\ task[h] \in TaskType /\ task \in [Tasks -> TaskType]
    BY <1>1, TypesOf DEF Tasks
  <2>2. /\ task' \in [Tasks -> TaskType] /\ task'[h].pc = "wants" /\ task'[h].left = Pieces
        /\ \A u \in Tasks \ {h} : task'[u] = task[u]
        /\ task[h].pc = "idle" /\ lock' = lock
        /\ UNCHANGED <<tmux, stdin, stdout, block, typed>>
    BY <1>1, <1>2, <2>1 DEF Request, TaskType, Places, wire, readerVars
  <2>3. TypeOK'
    BY <1>1, <1>2, <2>2 DEF TypeOK, TaskType, Request, wire, readerVars
  <2>4. Alone' /\ Counted'
    BY <2>1, <2>2 DEF IInv, Alone, Counted, Busy, Tasks
  <2> QED
    BY <2>1, <2>2, <2>3, <2>4, OwnStep DEF IInv
<1>3. ASSUME Take \/ LoopEnds
      PROVE  IInv'
  <2>1. Loop \in Tasks /\ task[Loop] \in TaskType /\ task \in [Tasks -> TaskType]
    BY <1>1, TypesOf DEF Tasks
  <2>2. /\ task' \in [Tasks -> TaskType] /\ task'[Loop].pc \in {"idle", "wants", "ended"}
        /\ \A u \in Tasks \ {Loop} : task'[u] = task[u]
        /\ task[Loop].pc = "idle" /\ lock' = lock
        /\ UNCHANGED <<tmux, stdin, stdout, block, typed>>
    <3>1. CASE Take
      <4>1. /\ task[Loop].pc = "idle" /\ lock' = lock
            /\ UNCHANGED <<tmux, stdin, stdout, block, typed>>
        BY <3>1 DEF Take, wire
      <4>2. CASE UNCHANGED task
        BY <2>1, <4>1, <4>2
      <4>3. CASE task' = [task EXCEPT ![Loop].pc = "ended"]
        BY <2>1, <4>1, <4>3 DEF TaskType, Places
      <4>4. CASE \E n \in 1..2 : task' = [task EXCEPT ![Loop].pc = "wants", ![Loop].left = n]
        <5>1. PICK n \in 1..2 : task' = [task EXCEPT ![Loop].pc = "wants", ![Loop].left = n]
          BY <4>4
        <5> DEFINE v == [task[Loop] EXCEPT !.pc = "wants", !.left = n]
        <5>2. v \in TaskType /\ v.pc = "wants"
          <6>1. n \in Nat /\ "wants" \in Places
            BY DEF Places
          <6> QED
            BY <2>1, <6>1 DEF TaskType
        <5>3. task' = [task EXCEPT ![Loop] = v]
          BY <2>1, <5>1 DEF TaskType
        <5> HIDE DEF v
        <5> QED
          BY <2>1, <4>1, <5>2, <5>3
      <4> QED
        BY <3>1, <4>2, <4>3, <4>4 DEF Take
    <3>2. CASE LoopEnds
      BY <1>1, <2>1, <3>2 DEF LoopEnds, Goes, TaskType, Places, wire, readerVars
    <3> QED
      BY <1>3, <3>1, <3>2
  <2>3. TypeOK'
    <3>1. CASE Take
      <4>1. inbox' \in Seq(Nat) /\ Len(inbox') <= Capacity
        BY <1>1, <3>1, TypesOf, RestOf, ControlAssumption DEF Take, TypeOK
      <4> QED
        BY <1>1, <2>2, <3>1, <4>1 DEF TypeOK, TaskType, Take, wire
    <3>2. CASE LoopEnds
      BY <1>1, <2>2, <3>2 DEF TypeOK, TaskType, LoopEnds, wire, readerVars
    <3> QED
      BY <1>3, <3>1, <3>2
  <2>4. Alone' /\ Counted'
    BY <1>1, <2>1, <2>2 DEF IInv, Alone, Counted, Busy, Tasks
  <2> QED
    BY <1>1, <2>1, <2>2, <2>3, <2>4, OwnStep DEF IInv
<1> QED
  BY <1>2, <1>3

\* connect's sleep ends with the attach reply drained.
LEMMA AwakesStep ==
    ASSUME AttachInTime, IInv, Awakes
    PROVE  IInv'
<1>1. /\ TypeOK /\ tmux # "attaching" /\ stdout = <<>> /\ block = NoBlock
      /\ UNCHANGED <<tmux, stdin, stdout, block, typed, lock>>
  BY DEF IInv, Awakes, Drained, wire, readerVars
<1>2. /\ Loop \in Tasks /\ Loop \notin Handlers /\ task[Loop] \in TaskType
      /\ task \in [Tasks -> TaskType]
  BY <1>1, TypesOf, ControlAssumption DEF Tasks
<1>3. /\ task' \in [Tasks -> TaskType] /\ task'[Loop].pc = "register" /\ task[Loop].pc = "sleep"
      /\ \A u \in Tasks \ {Loop} : task'[u] = task[u]
  BY <1>2 DEF Awakes, Goes, TaskType, Places
<1>4. TypeOK'
  BY <1>1, <1>3 DEF TypeOK, TaskType, Awakes, wire, readerVars
<1>5. \A t \in Tasks : task'[t].pc # "await"
  BY <1>3, NoneWhileAttaching
<1>6. Serial'
  <2>1. stdin = <<>> /\ tmux # "answering"
    BY <1>3 DEF IInv, Serial
  <2>2. Quiet'
    BY <1>1, <2>1 DEF Quiet, NoBlock
  <2> QED
    BY <1>1, <1>3, <1>5, <2>2 DEF Serial
<1>7. Alone' /\ Counted'
  BY <1>1, <1>2, <1>3 DEF IInv, Alone, Counted, Busy, Tasks
<1>8. InOrder' /\ RepliesMatch' /\ LinesEnteredWhole'
  <2>1. \A h \in Handlers : h \in Tasks \ {Loop}
    BY <1>2 DEF Tasks
  <2> QED
    BY <1>1, <1>2, <1>3, <2>1 DEF IInv, InOrder, RepliesMatch, LinesEnteredWhole
<1> QED
  BY <1>4, <1>6, <1>7, <1>8 DEF IInv

LEMMA AcquireStep ==
    ASSUME IInv, NEW t \in Tasks, Acquire(t)
    PROVE  IInv'
<1>1. /\ TypeOK /\ lock = Nobody /\ lock' = t /\ task[t].pc = "wants"
      /\ UNCHANGED <<tmux, stdin, stdout, block, typed>>
  BY DEF IInv, Acquire, Goes, wire, readerVars
<1>2. task[t] \in TaskType /\ task \in [Tasks -> TaskType]
  BY <1>1, TypesOf
<1>3. /\ task' \in [Tasks -> TaskType] /\ task'[t].pc = "register" /\ task'[t].left = task[t].left
      /\ \A u \in Tasks \ {t} : task'[u] = task[u]
  BY <1>2 DEF Acquire, Goes, TaskType, Places
<1>4. TypeOK'
  BY <1>1, <1>3 DEF TypeOK, TaskType, Acquire, wire, readerVars
<1>5. Alone'
  BY <1>1, <1>3, LockAssumption DEF IInv, Alone, Busy
<1>6. t \in Handlers => task[t].left = Pieces
  BY <1>1 DEF IInv, Counted
<1>7. Counted'
  BY <1>3, <1>6, ControlAssumption DEF IInv, Counted, Busy, Tasks
<1>8. t \in Handlers => Entered(typed, t, Pieces - task'[t].left)
  <2>1. Len(typed) \in Nat /\ Pieces \in Nat
    BY <1>1, TypesOf, ControlAssumption
  <2>2. Entered(typed, t, 0)
    BY <2>1 DEF Entered
  <2> QED
    BY <1>3, <1>6, <2>1, <2>2
<1> QED
  BY <1>1, <1>3, <1>4, <1>5, <1>7, <1>8, OwnStep DEF IInv

LEMMA RegisterStep ==
    ASSUME IInv, NEW t \in Tasks, Register(t)
    PROVE  IInv'
<1>1. /\ TypeOK /\ lock' = lock /\ task[t].pc = "register" /\ issued' = issued + 1
      /\ UNCHANGED <<tmux, stdin, stdout, block, typed>>
  BY DEF IInv, Register, wire
<1>2. task[t] \in TaskType /\ task \in [Tasks -> TaskType] /\ issued' \in Nat
  BY <1>1, TypesOf DEF TypeOK
<1>3. /\ task' \in [Tasks -> TaskType] /\ task'[t].left = task[t].left
      /\ task'[t].pc = "write" \/ (task'[t].pc = "got" /\ ~task'[t].ok)
      /\ \A u \in Tasks \ {t} : task'[u] = task[u]
  <2>1. CASE reading
    <3>1. task' = [task EXCEPT ![t].pc = "write", ![t].cmd = issued']
      BY <2>1 DEF Register
    <3> QED
      BY <1>2, <3>1 DEF TaskType, Places
  <2>2. CASE ~reading
    <3>1. task' = [task EXCEPT ![t].pc = "got", ![t].cmd = issued', ![t].ok = FALSE]
      BY <2>2 DEF Register
    <3> QED
      BY <1>2, <3>1 DEF TaskType, Places
  <2> QED
    BY <2>1, <2>2
<1>4. TypeOK'
  <2>1. registered' \in Seq(Nat)
    <3>1. registered \in Seq(Nat)
      BY <1>1 DEF TypeOK
    <3>2. registered' = Append(registered, issued') \/ registered' = registered
      BY DEF Register
    <3> QED
      BY <1>2, <3>1, <3>2
  <2> QED
    BY <1>1, <1>2, <1>3, <2>1 DEF TypeOK, TaskType, Register, wire
<1>5. Alone' /\ Counted'
  BY <1>1, <1>3 DEF IInv, Alone, Counted, Busy, Tasks
<1>6. t \in Handlers => Entered(typed, t, Pieces - task'[t].left)
  BY <1>1, <1>3 DEF IInv, InOrder
<1> QED
  BY <1>1, <1>3, <1>4, <1>5, <1>6, OwnStep DEF IInv

\* A write is between two commands, where nothing of an answer is anywhere.
LEMMA WriteStep ==
    ASSUME IInv, NEW t \in Tasks, Write(t)
    PROVE  IInv'
<1>1. /\ TypeOK /\ lock' = lock /\ task[t].pc = "write"
      /\ UNCHANGED <<tmux, stdout, block, typed>>
  BY DEF IInv, Write, readerVars
<1>2. task[t] \in TaskType /\ task \in [Tasks -> TaskType]
  BY <1>1, TypesOf
<1>3. CASE tmux = "gone"
  <2>1. /\ task' \in [Tasks -> TaskType] /\ task'[t].left = task[t].left
        /\ task'[t].pc = "got" /\ ~task'[t].ok /\ stdin' = stdin
        /\ \A u \in Tasks \ {t} : task'[u] = task[u]
    BY <1>2, <1>3 DEF Write, TaskType, Places
  <2>2. TypeOK'
    BY <1>1, <2>1 DEF TypeOK, TaskType, Write, readerVars
  <2>3. Alone' /\ Counted'
    BY <1>1, <2>1 DEF IInv, Alone, Counted, Busy, Tasks
  <2> QED
    BY <1>1, <2>1, <2>2, <2>3, OwnStep DEF IInv
<1>4. CASE tmux # "gone"
  <2> DEFINE c == [cmd |-> task[t].cmd, by |-> t, piece |-> PieceOf(t)]
  <2>1. /\ task' \in [Tasks -> TaskType] /\ task'[t].left = task[t].left
        /\ task'[t].cmd = task[t].cmd /\ task'[t].pc = "await" /\ stdin' = Append(stdin, c)
        /\ \A u \in Tasks \ {t} : task'[u] = task[u]
    BY <1>2, <1>4 DEF Write, TaskType, Places, PieceOf
  <2>2. c \in Command
    <3>1. task[t].left \in 1..Pieces \/ t = Loop
      BY <1>1 DEF IInv, Counted, Busy, Tasks
    <3>2. PieceOf(t) \in 0..Pieces
      BY <3>1, ControlAssumption DEF PieceOf
    <3> QED
      BY <1>2, <3>2 DEF Command, TaskType
  <2>3. \A u \in Tasks : Busy(u) => u = t
    <3>1. Busy(t)
      BY <1>1 DEF Busy
    <3> QED
      BY <3>1, OneBusy DEF IInv
  <2>4. task[Loop].pc # "sleep" /\ Quiet
    <3>1. task[Loop].pc # "sleep"
      BY <1>1, <2>3 DEF Busy, Tasks
    <3>2. \A u \in Tasks : task[u].pc # "await"
      BY <1>1, <2>3 DEF Busy
    <3> QED
      BY <1>4, <3>1, <3>2 DEF IInv, Serial
  <2> HIDE DEF c
  <2>5. stdin' \in Seq(Command) /\ Len(stdin') = 1 /\ DOMAIN stdin' = {1} /\ stdin'[1] = c /\ stdin' # <<>>
    <3>1. Len(stdin) = 0
      BY <2>4 DEF Quiet
    <3>2. /\ stdin' \in Seq(Command) /\ Len(stdin') = 1 /\ DOMAIN stdin' = 1..1 /\ stdin'[1] = c
      BY <1>1, <2>1, <2>2, <3>1, TypesOf, OneMore
    <3> QED
      BY <3>2
  <2>6. TypeOK'
    BY <1>1, <2>1, <2>5 DEF TypeOK, TaskType, Command, Write, readerVars
  <2>7. Awaited(t)'
    <3>1. \A i \in DOMAIN stdout' : ~(IsBody(i)')
      BY <1>1, <2>4 DEF Quiet, IsBody, IsReply
    <3>2. \A i \in DOMAIN stdout' : ~(IsReply(i)') /\ stdout'[i].kind # "data"
      BY <3>1 DEF IsBody
    <3>3. \A i \in DOMAIN stdin' : /\ stdin'[i].cmd = task'[t].cmd /\ stdin'[i].by = t
                                   /\ stdin'[i].piece = PieceOf(t)'
      BY <2>1, <2>5 DEF c, PieceOf
    <3>4. block'.of = {} /\ Len(stdin') <= 1
      BY <1>1, <2>4, <2>5 DEF Quiet
    <3> QED
      BY <2>5, <3>2, <3>3, <3>4 DEF Awaited
  <2>8. Serial'
    <3>1. task'[Loop].pc # "sleep"
      BY <2>1, <2>4 DEF Tasks
    <3>2. \A u \in Tasks : task'[u].pc = "await" => u = t
      BY <2>1, <2>3 DEF Busy
    <3> QED
      BY <1>1, <2>1, <2>4, <2>7, <3>1, <3>2 DEF IInv, Serial
  <2>9. Alone' /\ Counted'
    BY <1>1, <2>1 DEF IInv, Alone, Counted, Busy, Tasks
  <2>10. InOrder'
    <3>1. \A i \in DOMAIN stdout' : stdout'[i].kind # "end"
      BY <1>1, <2>4 DEF Quiet, IsBody, IsReply, ReplyKinds
    <3>2. \A h \in Handlers : h # t => task'[h] = task[h] /\ ~Busy(h)
      BY <2>1, <2>3 DEF Tasks
    <3>3. t \in Handlers => Entered(typed', t, Pieces - task'[t].left)
      BY <1>1, <2>1 DEF IInv, InOrder
    <3> QED
      BY <2>1, <3>1, <3>2, <3>3 DEF InOrder, Busy
  <2>11. RepliesMatch' /\ LinesEnteredWhole'
    BY <1>1, <2>1 DEF IInv, RepliesMatch, LinesEnteredWhole
  <2> QED
    BY <2>6, <2>8, <2>9, <2>10, <2>11 DEF IInv
<1> QED
  BY <1>3, <1>4

LEMMA ContinuesStep ==
    ASSUME IInv, NEW t \in Tasks, Continues(t)
    PROVE  IInv'
<1>1. /\ TypeOK /\ lock' = lock /\ task[t].pc = "got" /\ task[t].left > 1
      /\ task[t].ok \/ t = Loop
      /\ UNCHANGED <<tmux, stdin, stdout, block, typed>>
  BY DEF IInv, Continues, Holds, wire, readerVars
<1>2. task[t] \in TaskType /\ task \in [Tasks -> TaskType]
  BY <1>1, TypesOf
<1>3. /\ task' \in [Tasks -> TaskType] /\ task'[t].left = task[t].left - 1
      /\ task'[t].pc = "register"
      /\ \A u \in Tasks \ {t} : task'[u] = task[u]
  <2>1. task[t].left - 1 \in Nat
    BY <1>1, <1>2 DEF TaskType
  <2> QED
    BY <1>2, <2>1 DEF Continues, Holds, TaskType, Places
<1>4. TypeOK'
  BY <1>1, <1>3 DEF TypeOK, TaskType, Continues, wire, readerVars
<1>5. t \in Handlers => task[t].left \in 1..Pieces
  BY <1>1 DEF IInv, Counted, Busy
<1>6. Alone' /\ Counted'
  <2>1. t \in Handlers => task'[t].left \in 1..Pieces
    BY <1>1, <1>3, <1>5, ControlAssumption
  <2> QED
    BY <1>1, <1>3, <2>1 DEF IInv, Alone, Counted, Busy, Tasks
<1>7. t \in Handlers => Entered(typed, t, Pieces - task'[t].left)
  <2>1. t \in Handlers => Entered(typed, t, Pieces + 1 - task[t].left)
    BY <1>1, ControlAssumption DEF IInv, InOrder
  <2>2. t \in Handlers => Pieces - task'[t].left = Pieces + 1 - task[t].left
    BY <1>3, <1>5, ControlAssumption
  <2> QED
    BY <2>1, <2>2
<1> QED
  BY <1>1, <1>3, <1>4, <1>6, <1>7, OwnStep DEF IInv

LEMMA FinishesStep ==
    ASSUME IInv, NEW t \in Tasks, Finishes(t)
    PROVE  IInv'
<1>1. /\ TypeOK /\ lock' = Nobody /\ task[t].pc = "got"
      /\ UNCHANGED <<tmux, stdin, stdout, block, typed>>
  BY DEF IInv, Finishes, wire, readerVars
<1>2. task[t] \in TaskType /\ task \in [Tasks -> TaskType]
  BY <1>1, TypesOf
<1>3. /\ task' \in [Tasks -> TaskType] /\ task'[t].pc \in {"idle", "ended"}
      /\ \A u \in Tasks \ {t} : task'[u] = task[u]
  BY <1>2 DEF Finishes, TaskType, Places
<1>4. TypeOK'
  <2>1. serving' \in BOOLEAN
    BY <1>1 DEF Finishes, TypeOK
  <2> QED
    BY <1>1, <1>3, <2>1 DEF TypeOK, TaskType, Finishes, wire, readerVars
<1>5. Alone' /\ Counted'
  <2>1. \A u \in Tasks : ~(Busy(u)')
    <3>1. Busy(t)
      BY <1>1 DEF Busy
    <3>2. \A u \in Tasks \ {t} : ~Busy(u)
      BY <3>1, OneBusy DEF IInv
    <3> QED
      BY <1>3, <3>2 DEF Busy
  <2> QED
    BY <1>3, <2>1 DEF IInv, Alone, Counted, Tasks
<1> QED
  BY <1>1, <1>3, <1>4, <1>5, OwnStep DEF IInv

-----------------------------------------------------------------------------
\* Theorems

LEMMA InitHolds == Init => IInv
<1> SUFFICES ASSUME Init
             PROVE  IInv
  OBVIOUS
<1>1. /\ tmux = "attaching" /\ stdin = <<>> /\ stdout = <<>> /\ typed = <<>> /\ lock = Loop
      /\ block = NoBlock
  BY DEF Init
<1>2. \A t \in Tasks : task[t].pc = IF t = Loop THEN "sleep" ELSE "idle"
  BY DEF Init, NewTask
<1>3. TypeOK
  <2>1. task \in [Tasks -> TaskType]
    BY DEF Init, NewTask, TaskType, Places, Attach
  <2>2. Len(inbox) <= Capacity /\ notes \in 0..MaxNotes
    BY ControlAssumption DEF Init
  <2>3. block \in [open : BOOLEAN, of : SUBSET Nat]
    BY <1>1 DEF NoBlock
  <2>4. lock \in Tasks \cup {Nobody}
    BY <1>1 DEF Tasks
  <2>5. /\ stdin \in Seq([cmd : Nat, by : Tasks, piece : 0..Pieces])
        /\ stdout \in Seq([kind : {"begin", "data", "note"} \cup ReplyKinds, of : Nat])
        /\ typed \in Seq([cmd : Nat, by : Handlers, piece : 1..Pieces])
        /\ registered \in Seq(Nat) /\ pending \in Seq(Nat) /\ inbox \in Seq(Nat)
    BY <1>1 DEF Init
  <2> QED
    BY <2>1, <2>2, <2>3, <2>4, <2>5 DEF Init, TypeOK, TaskType
<1>4. Alone /\ Counted /\ RepliesMatch /\ InOrder
  BY <1>1, <1>2, ControlAssumption DEF Alone, Counted, RepliesMatch, InOrder, Busy, Tasks
<1>5. Serial /\ LinesEnteredWhole
  BY <1>1, <1>2 DEF Serial, LinesEnteredWhole, Tasks
<1> QED
  BY <1>3, <1>4, <1>5 DEF IInv

\* The strengthening is inductive, with tmux gone at any step and any
\* notification within any block.
THEOREM ControlInvariant ==
    ASSUME AttachInTime
    PROVE  Spec => []IInv
<1>1. IInv /\ [Next]_vars => IInv'
  <2> SUFFICES ASSUME IInv, [Next]_vars
               PROVE  IInv'
    OBVIOUS
  <2>1. CASE Tmux \/ Notifies \/ TmuxEnds
    BY <2>1, AttachesStep, AnswersStep, AnsweredStep, NotifiesStep, TmuxEndsStep DEF Tmux
  <2>2. CASE Reader
    BY <2>2, RegistersStep, ReadLineStep, ReaderEndsStep DEF Reader
  <2>3. CASE Awakes \/ Take \/ LoopEnds \/ \E h \in Handlers : Request(h)
    BY <2>3, AwakesStep, OutsideStep
  <2>4. CASE \E t \in Tasks : Execute(t)
    BY <2>4, AcquireStep, RegisterStep, WriteStep, ContinuesStep, FinishesStep DEF Execute
  <2>5. CASE UNCHANGED vars
    <3>1. TypeOK'
      BY <2>5 DEF IInv, TypeOK, vars, wire, readerVars, callVars
    <3>2. UNCHANGED View
      BY <2>5 DEF View, vars, wire, readerVars, callVars
    <3> QED
      BY <3>1, <3>2, SameView
  <2> QED
    BY <2>1, <2>2, <2>3, <2>4, <2>5 DEF Next
<1> QED
  BY <1>1, InitHolds, PTL DEF Spec

\* Every variable keeps its type, and the notification channel its capacity.
THEOREM ControlTypeCorrect ==
    ASSUME AttachInTime
    PROVE  Spec => []TypeOK
<1>1. IInv => TypeOK
  BY DEF IInv
<1> QED
  BY <1>1, ControlInvariant, PTL

\* execute returns the answer to its own command: matching by order alone is
\* right once the attach reply was drained.
THEOREM RepliesAreMatched ==
    ASSUME AttachInTime
    PROVE  Spec => []RepliesMatch
<1>1. IInv => RepliesMatch
  BY DEF IInv
<1> QED
  BY <1>1, ControlInvariant, PTL

\* send_command's line is entered whole, however many handlers write.
THEOREM LinesAreWhole ==
    ASSUME AttachInTime
    PROVE  Spec => []LinesEnteredWhole
<1>1. IInv => LinesEnteredWhole
  BY DEF IInv
<1> QED
  BY <1>1, ControlInvariant, PTL
=============================================================================
