---------------------------- MODULE ReadsProofs -----------------------------
(***************************************************************************)
(* Reads, for every number of calls, requests, commands and lines, every   *)
(* set of read parameters and every history: no call is lost, no line is   *)
(* skipped, a session that makes one call at a time keeps its place, a     *)
(* reply that says a command completed holds all of its output, and a      *)
(* search shows the context of the matches it selects, once and in order.  *)
(*                                                                         *)
(* Three invariants, each resting on the one before: IInv, the bookkeeping *)
(* of request ids; RInv, what is known of the places that asks, tasks and  *)
(* replies carry; PInv, that with one call at a time these places are the  *)
(* session's own. The rest is about apply_read_params, for every output,   *)
(* offset and parameters: what merge_context_ranges and                    *)
(* collect_context_lines, folds over the matches and the ranges, compute.  *)
(***************************************************************************)
EXTENDS Reads, SequenceTheorems, FunctionTheorems, NatRecursion

-----------------------------------------------------------------------------
\* The transport: the ids of the requests.

Issued == 1..(nextId - 1)
Out(c) == call[c].pc \in {"writing", "waiting"}

\* Types, as far as the ids go: replies and asks are not looked into.
IdsOK ==
    /\ nextId \in Nat \ {0}
    /\ DOMAIN tasks \subseteq Issued
    /\ down \in Seq({down[i] : i \in DOMAIN down})
    /\ \A i \in DOMAIN down : down[i].id \in Issued
    /\ call = [c \in Calls |-> call[c]]
    /\ \A c \in Calls : Out(c) => call[c].id \in Issued
    /\ routing \in BOOLEAN /\ alive \in BOOLEAN

\* An id belongs to one call, and nothing answers it before its request is
\* written.
IdsOnce ==
    /\ \A c, d \in Calls : Out(c) /\ Out(d) /\ call[c].id = call[d].id => c = d
    /\ \A c \in Calls : call[c].pc = "writing" =>
          /\ call[c].id \notin DOMAIN tasks
          /\ \A i \in DOMAIN down : down[i].id # call[c].id

\* The senders are there until the daemon's end is read.
Routed ==
    /\ alive => routing
    /\ ~routing => pending = {}
    /\ routing => \A c \in Calls : call[c].pc = "writing" => call[c].id \in pending

IInv == IdsOK /\ IdsOnce /\ Routed /\ NoLostCall

-----------------------------------------------------------------------------
\* What a step of the session, the pane or a task does to the transport.
TaskSteps == DOMAIN tasks' = DOMAIN tasks /\ UNCHANGED <<clientVars, down, alive>>
CallReturns ==
    \E c \in Calls : /\ ~Out(c) /\ call' = [call EXCEPT ![c] = Idle]
                     /\ UNCHANGED <<nextId, pending, routing, serverVars>>

TransportNext ==
    \/ TaskSteps
    \/ CallReturns
    \/ \E c \in Calls : \E ask : Request(c, ask)
    \/ \E c \in Calls : \E w : Write(c, w)
    \/ \E id \in DOMAIN tasks : \E value : Answer(id, value)
    \/ DaemonEnds \/ Route \/ RouteEnds

\* Every step of Reads is a step of the transport.
LEMMA ReadsStep ==
    ASSUME Next
    PROVE  TransportNext
<1>1. ASSUME Pane
      PROVE  TaskSteps
  <2>1. DOMAIN Woken = DOMAIN tasks
    BY DEF Woken
  <2> QED
    BY <1>1, <2>1 DEF Pane, Starts, Finishes, Prints, Publish, TaskSteps
<1>2. ASSUME NEW id \in Ids, NEW w, At(id, "look") \/ At(id, "judge") \/ At(id, "wait"), Step(id, w)
      PROVE  TaskSteps
  BY <1>2 DEF Step, TaskSteps
<1>3. ASSUME NEW id \in Ids, Look(id)
      PROVE  TransportNext
  <2>1. id \in DOMAIN tasks
    BY <1>3 DEF Look, At
  <2>2. (\E value : Answer(id, value)) \/ (\E w : Step(id, w))
    BY <1>3 DEF Look
  <2> QED
    BY <1>2, <1>3, <2>1, <2>2 DEF TransportNext, Look
<1>4. ASSUME NEW id \in Ids, Judge(id)
      PROVE  TransportNext
  <2>1. id \in DOMAIN tasks
    BY <1>4 DEF Judge, At
  <2>2. (\E value : Answer(id, value)) \/ (\E w : Step(id, w))
    BY <1>4 DEF Judge
  <2> QED
    BY <1>2, <1>4, <2>1, <2>2 DEF TransportNext, Judge
<1>5. ASSUME NEW id \in Ids, Wake(id) \/ Clock(id)
      PROVE  TaskSteps
  BY <1>2, <1>5 DEF Wake, Clock, Settles, Deadline
<1>6. ASSUME NEW c \in Calls, NEW ask \in Asks, Begin(c, ask)
      PROVE  Request(c, Sent(ask))
  BY <1>6 DEF Begin
<1>7. ASSUME NEW c \in Calls, Return(c)
      PROVE  CallReturns
  BY <1>7 DEF Return, CallReturns, Out
<1> QED
  BY <1>1, <1>3, <1>4, <1>5, <1>6, <1>7 DEF Next, Daemon, Link, TransportNext

-----------------------------------------------------------------------------
\* A sequence is one of its own elements.
LEMMA Elements ==
    ASSUME NEW S, NEW s \in Seq(S)
    PROVE  s \in Seq({s[i] : i \in DOMAIN s}) /\ DOMAIN s = 1..Len(s) /\ Len(s) \in Nat
<1>1. s \in [1..Len(s) -> S] /\ Len(s) \in Nat
  BY LenProperties
<1>2. DOMAIN s = 1..Len(s)
  BY <1>1
<1> DEFINE T == {s[i] : i \in DOMAIN s}
<1>3. s \in [1..Len(s) -> T]
  BY <1>1, <1>2
<1> HIDE DEF T
<1>4. s \in Seq(T)
  BY <1>1, <1>3
<1> QED
  BY <1>1, <1>2, <1>4 DEF T

\* The steps that change the replies on their way: a task answers, the daemon
\* ends, a reply is routed.
LEMMA Answered ==
    ASSUME IdsOK, NEW id, NEW value, Answer(id, value)
    PROVE  /\ UNCHANGED clientVars /\ alive' = alive
           /\ DOMAIN tasks' = DOMAIN tasks \ {id}
           /\ \A k \in DOMAIN tasks' : tasks'[k] = tasks[k]
           /\ down' \in Seq({down'[i] : i \in DOMAIN down'}) /\ DOMAIN down \subseteq DOMAIN down'
           /\ Len(down) + 1 \in DOMAIN down' /\ Len(down) + 1 \notin DOMAIN down
           /\ \A i \in DOMAIN down :  down'[i] = down[i]
           /\ \A i \in DOMAIN down' :
                 \/ i \in DOMAIN down /\ down'[i] = down[i]
                 \/ i = Len(down) + 1 /\ down'[i].id = id /\ down'[i].value = value
<1> DEFINE m == [id |-> id, value |-> value]
           S == {down[i] : i \in DOMAIN down} \cup {m}
<1>1. /\ UNCHANGED clientVars /\ alive' = alive /\ tasks' = Drop(tasks, id)
      /\ down' = Append(down, m)
  BY DEF Answer
<1>2. down \in Seq(S) /\ m \in S /\ m.id = id /\ m.value = value
  BY DEF IdsOK
<1> HIDE DEF m, S
<1>3. /\ down' \in Seq(S) /\ Len(down') = Len(down) + 1
      /\ \A i \in 1..Len(down) : down'[i] = down[i]
      /\ down'[Len(down) + 1] = m
  BY <1>1, <1>2, AppendProperties
<1>4. /\ down' \in Seq({down'[i] : i \in DOMAIN down'}) /\ DOMAIN down' = 1..(Len(down) + 1)
      /\ DOMAIN down = 1..Len(down) /\ Len(down) \in Nat
  BY <1>2, <1>3, Elements
<1>5. DOMAIN tasks' = DOMAIN tasks \ {id} /\ \A k \in DOMAIN tasks' : tasks'[k] = tasks[k]
  BY <1>1 DEF Drop
<1> QED
  BY <1>1, <1>2, <1>3, <1>4, <1>5

\* What a daemon that ends leaves: the replies it had sent, and no task.
LEMMA Ended ==
    ASSUME IdsOK, DaemonEnds
    PROVE  /\ UNCHANGED clientVars /\ alive /\ alive' = FALSE /\ DOMAIN tasks' = {}
           /\ down' \in Seq({down'[i] : i \in DOMAIN down'}) /\ DOMAIN down' \subseteq DOMAIN down
           /\ \A i \in DOMAIN down' : down'[i] = down[i]
<1> DEFINE S == {down[i] : i \in DOMAIN down}
<1>1. down \in Seq(S) /\ Len(down) \in Nat /\ DOMAIN down = 1..Len(down)
  BY Elements DEF IdsOK
<1> HIDE DEF S
<1>2. tasks' = <<>> /\ alive /\ alive' = FALSE /\ UNCHANGED clientVars
  BY DEF DaemonEnds
<1>3. PICK n \in 0..Len(down) : down' = SubSeq(down, 1, n)
  BY DEF DaemonEnds
<1>4. n \in Nat /\ n <= Len(down)
  BY <1>1, <1>3
<1>5. \A i \in 1..n : i \in 1..Len(down) /\ down[i] \in S
  BY <1>1, <1>4 DEF S
<1>6. down' \in Seq(S) /\ Len(down') = n /\ \A i \in 1..n : down'[i] = down[i]
  BY <1>1, <1>3, <1>4, <1>5, SubSeqProperties
<1>7. down' \in Seq({down'[i] : i \in DOMAIN down'}) /\ DOMAIN down' = 1..n
  BY <1>6, Elements
<1>8. DOMAIN tasks' = {}
  BY <1>2
<1> QED
  BY <1>1, <1>2, <1>5, <1>6, <1>7, <1>8

\* What the front end's dispatcher takes: the first message, and its id.
LEMMA Routes ==
    ASSUME IdsOK, Route
    PROVE  /\ UNCHANGED <<nextId, routing, tasks, alive>>
           /\ 1 \in DOMAIN down /\ pending' = pending \ {down[1].id}
           /\ down' \in Seq({down'[i] : i \in DOMAIN down'})
           /\ \A i \in DOMAIN down' : /\ i \in Nat /\ i + 1 \in DOMAIN down /\ i + 1 # 1
                                      /\ down'[i] = down[i + 1]
           /\ \A i \in DOMAIN down : i = 1 \/ \E j \in DOMAIN down' : down'[j] = down[i]
           /\ call' = [c \in Calls |-> call'[c]]
           /\ \A c \in Calls : \/ call'[c] = call[c]
                               \/ /\ call'[c].pc = "answered" /\ call'[c].got = down[1]
                                  /\ call[c].pc = "waiting" /\ call[c].id = down[1].id
           /\ \A c \in Calls :
                 call[c].pc = "waiting" /\ call[c].id = down[1].id /\ call[c].id \in pending =>
                    call'[c].pc = "answered"
<1> DEFINE S == {down[i] : i \in DOMAIN down}
<1>1. down \in Seq(S) /\ Len(down) \in Nat /\ DOMAIN down = 1..Len(down)
  BY Elements DEF IdsOK
<1> HIDE DEF S
<1>2. /\ down # <<>> /\ down' = Tail(down) /\ UNCHANGED <<nextId, routing, tasks, alive>>
      /\ pending' = pending \ {Head(down).id}
  BY DEF Route
<1>3. /\ Head(down) = down[1] /\ down' \in Seq(S) /\ Len(down) # 0
      /\ Len(down') = Len(down) - 1
      /\ \A i \in 1..Len(down') : down'[i] = down[i + 1]
  BY <1>1, <1>2, HeadTailProperties, EmptySeq
<1>4. /\ down' \in Seq({down'[i] : i \in DOMAIN down'}) /\ DOMAIN down' = 1..(Len(down) - 1)
      /\ 1 \in DOMAIN down
  BY <1>1, <1>3, Elements
<1>5. \A i \in DOMAIN down' : /\ i \in Nat /\ i + 1 \in DOMAIN down /\ i + 1 # 1
                              /\ down'[i] = down[i + 1]
  BY <1>1, <1>3, <1>4
<1>6. ASSUME NEW i \in DOMAIN down, i # 1
      PROVE  \E j \in DOMAIN down' : down'[j] = down[i]
  <2>1. i - 1 \in DOMAIN down' /\ (i - 1) + 1 = i
    BY <1>1, <1>4, <1>6
  <2> QED
    BY <1>5, <2>1
<1>7. /\ call' = [c \in Calls |-> call'[c]]
      /\ \A c \in Calls : \/ call'[c] = call[c]
                          \/ /\ call'[c].pc = "answered" /\ call'[c].got = down[1]
                             /\ call[c].pc = "waiting" /\ call[c].id = down[1].id
      /\ \A c \in Calls :
            call[c].pc = "waiting" /\ call[c].id = down[1].id /\ call[c].id \in pending =>
               call'[c].pc = "answered"
  BY <1>3 DEF Route, Takes
<1> QED
  BY <1>2, <1>3, <1>4, <1>5, <1>6, <1>7

\* Every step of the transport keeps its ids.
LEMMA TransportStep ==
    ASSUME IInv, TransportNext
    PROVE  IInv'
<1> DEFINE S == {down[i] : i \in DOMAIN down}
<1>1. /\ nextId \in Nat \ {0} /\ down \in Seq(S) /\ Len(down) \in Nat /\ DOMAIN down = 1..Len(down)
      /\ IdsOK /\ IdsOnce /\ Routed /\ NoLostCall
  BY Elements DEF IInv, IdsOK
<1> HIDE DEF S
<1> USE DEF clientVars, serverVars
<1>2. CASE TaskSteps
  BY <1>1, <1>2 DEF TaskSteps, IInv, IdsOK, IdsOnce, Routed, NoLostCall, Issued, Out
<1>3. CASE CallReturns
  <2> USE DEF CallReturns, Out, Idle
  <2>1. /\ nextId' = nextId /\ pending' = pending /\ routing' = routing
        /\ tasks' = tasks /\ down' = down /\ alive' = alive
    BY <1>3
  <2>2. /\ call' = [c \in Calls |-> call'[c]]
        /\ \A c \in Calls : call'[c] = call[c] \/ call'[c].pc = "idle"
    BY <1>1, <1>3 DEF IdsOK
  <2> QED
    BY <1>1, <2>1, <2>2 DEF IInv, IdsOK, IdsOnce, Routed, NoLostCall, Issued
<1>4. ASSUME NEW c \in Calls, NEW ask, Request(c, ask)
      PROVE  IInv'
  <2>1. /\ nextId' = nextId + 1 /\ routing' = routing
        /\ tasks' = tasks /\ down' = down /\ alive' = alive
        /\ pending' = IF routing THEN pending \cup {nextId} ELSE pending
    BY <1>4 DEF Request
  <2>2. /\ call' = [d \in Calls |-> call'[d]]
        /\ \A d \in Calls \ {c} : call'[d] = call[d]
        /\ \/ routing /\ call'[c].pc = "writing" /\ call'[c].id = nextId
           \/ ~routing /\ call'[c].pc = "failed"
    BY <1>1, <1>4 DEF Request, IdsOK
  <2>3. Issued' = Issued \cup {nextId} /\ nextId \notin Issued /\ nextId' \in Nat \ {0}
    BY <1>1, <2>1 DEF Issued
  <2>4. IdsOK'
    BY <1>1, <2>1, <2>2, <2>3 DEF IdsOK, Out
  <2>5. IdsOnce'
    BY <1>1, <2>1, <2>2, <2>3 DEF IdsOK, IdsOnce, Out
  <2>6. Routed' /\ NoLostCall'
    BY <1>1, <2>1, <2>2 DEF Routed, NoLostCall
  <2> QED
    BY <2>4, <2>5, <2>6 DEF IInv
<1>5. ASSUME NEW c \in Calls, NEW w, Write(c, w)
      PROVE  IInv'
  <2>1. /\ nextId' = nextId /\ pending' = pending /\ routing' = routing
        /\ down' = down /\ alive' = alive /\ call[c].pc = "writing"
    BY <1>5 DEF Write
  <2>2. /\ call' = [d \in Calls |-> call'[d]]
        /\ \A d \in Calls \ {c} : call'[d] = call[d]
        /\ call'[c].id = call[c].id
        /\ \/ alive /\ call'[c].pc = "waiting"
           \/ ~alive /\ call'[c].pc = "failed"
           \/ ~alive /\ call'[c].pc = "waiting" /\ call[c].id \in pending
    BY <1>1, <1>5 DEF Write, IdsOK
  <2>3. DOMAIN tasks' = IF alive THEN DOMAIN tasks \cup {call[c].id} ELSE DOMAIN tasks
    BY <1>5 DEF Write
  <2>4. call[c].id \in Issued /\ Issued' = Issued
    BY <1>1, <2>1 DEF IdsOK, Out, Issued
  <2>5. IdsOK'
    BY <1>1, <2>1, <2>2, <2>3, <2>4 DEF IdsOK, Out
  <2>6. IdsOnce'
    BY <1>1, <2>1, <2>2, <2>3 DEF IdsOnce, Out
  <2>7. Routed'
    BY <1>1, <2>1, <2>2 DEF Routed
  <2>8. NoLostCall'
    BY <1>1, <2>1, <2>2, <2>3 DEF NoLostCall, Routed
  <2> QED
    BY <2>5, <2>6, <2>7, <2>8 DEF IInv
<1>6. ASSUME NEW id \in DOMAIN tasks, NEW value, Answer(id, value)
      PROVE  IInv'
  <2>1. /\ nextId' = nextId /\ pending' = pending /\ routing' = routing /\ call' = call
        /\ alive' = alive /\ DOMAIN tasks' = DOMAIN tasks \ {id}
        /\ \A i \in DOMAIN down' : (i \in DOMAIN down /\ down'[i] = down[i]) \/ down'[i].id = id
        /\ \E i \in DOMAIN down' : down'[i].id = id
        /\ \A i \in DOMAIN down : i \in DOMAIN down' /\ down'[i] = down[i]
    BY <1>1, <1>6, Answered
  <2>2. IdsOK'
    BY <1>1, <1>6, Answered DEF IdsOK, Issued, Out
  <2>3. IdsOnce'
    BY <1>1, <2>1 DEF IdsOnce, Out
  <2>4. Routed' /\ NoLostCall'
    BY <1>1, <2>1 DEF Routed, NoLostCall
  <2> QED
    BY <2>2, <2>3, <2>4 DEF IInv
<1>7. CASE DaemonEnds
  <2>1. IdsOK'
    BY <1>1, <1>7, Ended DEF IdsOK, Issued, Out
  <2>2. IdsOnce'
    BY <1>1, <1>7, Ended DEF IdsOnce, Out
  <2>3. Routed' /\ NoLostCall'
    BY <1>1, <1>7, Ended DEF Routed, NoLostCall
  <2> QED
    BY <2>1, <2>2, <2>3 DEF IInv
<1>8. CASE Route
  <2>1. /\ nextId' = nextId /\ routing' = routing /\ tasks' = tasks /\ alive' = alive
        /\ 1 \in DOMAIN down /\ pending' = pending \ {down[1].id}
        /\ \A i \in DOMAIN down' : i + 1 \in DOMAIN down /\ down'[i] = down[i + 1]
        /\ \A i \in DOMAIN down : i = 1 \/ \E j \in DOMAIN down' : down'[j] = down[i]
        /\ \A c \in Calls : call'[c] = call[c] \/ call'[c].pc = "answered"
        /\ \A c \in Calls :
              call[c].pc = "waiting" /\ call[c].id = down[1].id /\ call[c].id \in pending =>
                 call'[c].pc = "answered"
    BY <1>1, <1>8, Routes
  <2>2. IdsOK'
    BY <1>1, <1>8, Routes DEF IdsOK, Issued, Out
  <2>3. IdsOnce'
    BY <1>1, <2>1 DEF IdsOnce, Out
  <2>4. Routed'
    BY <1>1, <2>1 DEF Routed, IdsOnce
  <2>5. NoLostCall'
    BY <1>1, <2>1 DEF NoLostCall
  <2> QED
    BY <2>2, <2>3, <2>4, <2>5 DEF IInv
<1>9. CASE RouteEnds
  <2>1. /\ nextId' = nextId /\ ~routing' /\ routing' \in BOOLEAN /\ pending' = {}
        /\ tasks' = tasks /\ down' = down /\ alive' = alive /\ ~alive
    BY <1>9 DEF RouteEnds
  <2>2. /\ call' = [c \in Calls |-> call'[c]]
        /\ \A c \in Calls : /\ call'[c] = call[c] \/ call'[c].pc = "failed"
                            /\ call'[c].pc # "waiting"
    BY <1>9 DEF RouteEnds
  <2> QED
    BY <1>1, <2>1, <2>2 DEF IInv, IdsOK, IdsOnce, Routed, NoLostCall, Issued, Out
<1> QED
  BY <1>2, <1>3, <1>4, <1>5, <1>6, <1>7, <1>8, <1>9 DEF TransportNext

-----------------------------------------------------------------------------
\* The transport's start.
LEMMA InitIInv == Init => IInv
<1> SUFFICES ASSUME Init
             PROVE  IInv
  OBVIOUS
<1>1. /\ nextId = 1 /\ pending = {} /\ routing = TRUE /\ alive = TRUE
      /\ call = [c \in Calls |-> Idle] /\ DOMAIN tasks = {} /\ down = <<>> /\ DOMAIN down = {}
  BY DEF Init, TransportInit
<1>2. down \in Seq({down[i] : i \in DOMAIN down})
  BY <1>1
<1> QED
  BY <1>1, <1>2 DEF IInv, IdsOK, IdsOnce, Routed, NoLostCall, Idle, Out

\* Reads' steps keep the transport's invariant.
LEMMA IInvStep == IInv /\ [Next]_vars => IInv'
<1>1. ASSUME IInv, Next
      PROVE  IInv'
  BY <1>1, ReadsStep, TransportStep
<1>2. ASSUME IInv, UNCHANGED vars
      PROVE  IInv'
  BY <1>2 DEF vars, transportVars, clientVars, serverVars, IInv, IdsOK, IdsOnce, Routed,
              NoLostCall, Issued, Out
<1> QED
  BY <1>1, <1>2

\* request and route_replies lose no call: whatever the tasks of the daemon
\* do, whenever it ends and whichever replies it still sent.
THEOREM CallsAreNotLost == Spec => []NoLostCall
<1>1. IInv => NoLostCall
  BY DEF IInv
<1> QED
  BY <1>1, InitIInv, IInvStep, PTL DEF Spec

-----------------------------------------------------------------------------
\* Reading: apply_read_params and what it is made of.

\* The lines of out from from to to that match, in order.
Finds(s, out, from, to) ==
    /\ s \in Seq(Nat)
    /\ \A i \in 1..Len(s) : s[i] \in from..(to - 1) /\ out.lines[s[i] + 1]
    /\ \A i, j \in 1..Len(s) : i < j => s[i] < s[j]
    /\ \A m \in from..(to - 1) : out.lines[m + 1] => \E i \in 1..Len(s) : s[i] = m

\* The empty sequence, of any type.
LEMMA EmptySequence ==
    ASSUME NEW S
    PROVE  <<>> \in Seq(S) /\ Len(<<>>) = 0
OBVIOUS

\* Matching finds what matches in the lines it is given, in order.
LEMMA MatchingFinds ==
    ASSUME NEW out, out.lines \in Seq(BOOLEAN), NEW from \in Nat, NEW to \in 0..Len(out.lines)
    PROVE  Finds(Matching(out, from, to), out, from, to)
<1>0. Len(out.lines) \in Nat /\ to \in Nat /\ \A n \in 1..to : out.lines[n] \in BOOLEAN
  BY ElementOfSeq
<1> DEFINE rec(f) == [n \in 0..to |->
                        IF n <= from THEN <<>>
                        ELSE IF out.lines[n] THEN Append(f[n - 1], n - 1) ELSE f[n - 1]]
           step == [n \in 1..to |-> [s \in Seq(Nat) |->
                        IF n <= from THEN <<>>
                        ELSE IF out.lines[n] THEN Append(s, n - 1) ELSE s]]
           g == CHOOSE g : g = rec(g)
<1>1. \E f : f = rec(f)
  <2> DEFINE X == Seq(Nat)
             base == <<>>
  <2>1. base \in X /\ step \in [1..to -> [X -> X]]
    BY <1>0
  <2> HIDE DEF step, X, base
  <2>2. PICK f \in [0..to -> X] : Follows(f, to, base, step)
    BY <1>0, <2>1, Recursion
  <2>3. f[0] = <<>> /\ \A n \in 1..to : n - 1 \in 0..to /\ f[n - 1] \in Seq(Nat) /\ f[n] = step[n][f[n - 1]]
    BY <1>0, <2>2 DEF Follows, base, X
  <2>4. \A n \in 1..to : f[n] = IF n <= from THEN <<>>
                                ELSE IF out.lines[n] THEN Append(f[n - 1], n - 1) ELSE f[n - 1]
    BY <2>3 DEF step
  <2>5. \A n \in 0..to : n = 0 \/ n \in 1..to
    BY <1>0
  <2>6. \A n \in 0..to : f[n] = IF n <= from THEN <<>>
                                ELSE IF out.lines[n] THEN Append(f[n - 1], n - 1) ELSE f[n - 1]
    <3> SUFFICES ASSUME NEW n \in 0..to
                 PROVE  f[n] = IF n <= from THEN <<>>
                                ELSE IF out.lines[n] THEN Append(f[n - 1], n - 1) ELSE f[n - 1]
      OBVIOUS
    <3>1. CASE n = 0
      <4>1. n <= from
        BY <3>1
      <4> QED
        BY <2>3, <3>1, <4>1
    <3>2. CASE n \in 1..to
      BY <2>4, <3>2
    <3> QED
      BY <2>5, <3>1, <3>2
  <2>7. f = [n \in 0..to |-> f[n]]
    OBVIOUS
  <2> QED
    BY <2>6, <2>7
<1>2. g = rec(g)
  <2> HIDE DEF rec
  <2> QED
    BY <1>1
<1>3. Matching(out, from, to) = g[to]
  BY DEF Matching
<1>4. \A n \in 0..to : g[n] = IF n <= from THEN <<>>
                              ELSE IF out.lines[n] THEN Append(g[n - 1], n - 1) ELSE g[n - 1]
  <2>1. \A n \in 0..to : rec(g)[n] = IF n <= from THEN <<>>
                              ELSE IF out.lines[n] THEN Append(g[n - 1], n - 1) ELSE g[n - 1]
    OBVIOUS
  <2> HIDE DEF rec, g
  <2> QED
    BY <1>2, <2>1
<1> HIDE DEF g, rec, step
<1> DEFINE S == {n \in 0..to : Finds(g[n], out, from, n)}
<1>5. 0 \in S
  <2>1. 0 \in 0..to /\ g[0] = <<>>
    BY <1>0, <1>4
  <2> QED
    <3>1. Len(g[0]) = 0 /\ g[0] \in Seq(Nat)
      BY <2>1, EmptySequence
    <3>2. Finds(g[0], out, from, 0)
      BY <3>1 DEF Finds
    <3> QED
      BY <2>1, <3>2
<1>6. ASSUME NEW n \in 1..to, n - 1 \in S
      PROVE  n \in S
  <2> DEFINE s == g[n - 1]
  <2>1. n \in Nat /\ n \in 0..to /\ Finds(s, out, from, n - 1)
    BY <1>0, <1>6
  <2> HIDE DEF s
  <2>2. CASE n <= from
    <3>1. g[n] = <<>>
      BY <1>4, <2>1, <2>2
    <3> QED
      BY <2>1, <2>2, <3>1, EmptySequence DEF Finds
  <2>3. CASE ~(n <= from) /\ out.lines[n]
    <3>1. g[n] = Append(s, n - 1)
      BY <1>4, <2>1, <2>3 DEF s
    <3>2. n - 1 \in Nat /\ n - 1 >= from
      BY <2>1, <2>3
    <3>3. /\ s \in Seq(Nat) /\ Len(s) \in Nat
          /\ \A i \in 1..Len(s) : s[i] \in from..((n - 1) - 1) /\ out.lines[s[i] + 1]
          /\ \A i, j \in 1..Len(s) : i < j => s[i] < s[j]
      <4>1. /\ s \in Seq(Nat)
            /\ \A i \in 1..Len(s) : s[i] \in from..((n - 1) - 1) /\ out.lines[s[i] + 1]
            /\ \A i, j \in 1..Len(s) : i < j => s[i] < s[j]
        BY <2>1, Zenon DEF Finds
      <4>2. Len(s) \in Nat
        BY <4>1, LenProperties
      <4> QED
        BY <4>1, <4>2
    <3>4. /\ g[n] \in Seq(Nat) /\ Len(g[n]) = Len(s) + 1
          /\ g[n][Len(s) + 1] = n - 1
          /\ \A i \in 1..Len(s) : g[n][i] = s[i]
      BY <3>1, <3>2, <3>3, AppendProperties
    <3> HIDE DEF s
    <3>5. \A i \in 1..Len(s) : g[n][i] \in from..((n - 1) - 1) /\ out.lines[g[n][i] + 1]
      BY <3>3, <3>4
    <3>6. \A i \in 1..Len(g[n]) : i \in 1..Len(s) \/ i = Len(s) + 1
      BY <3>3, <3>4
    <3>7. \A i \in 1..Len(g[n]) : g[n][i] \in from..(n - 1) /\ out.lines[g[n][i] + 1]
      BY <2>1, <2>3, <3>2, <3>4, <3>5, <3>6
    <3>8. ASSUME NEW i \in 1..Len(g[n]), NEW j \in 1..Len(g[n]), i < j
          PROVE  g[n][i] < g[n][j]
      <4>1. i \in 1..Len(s)
        BY <3>3, <3>4, <3>8
      <4>2. CASE j \in 1..Len(s)
        BY <3>3, <3>4, <3>8, <4>1, <4>2
      <4>3. CASE j = Len(s) + 1
        BY <2>1, <3>4, <3>5, <4>1, <4>3
      <4> QED
        BY <3>6, <4>2, <4>3
    <3>9. ASSUME NEW m \in from..(n - 1), out.lines[m + 1]
          PROVE  \E i \in 1..Len(g[n]) : g[n][i] = m
      <4>1. CASE m = n - 1
        BY <3>3, <3>4, <4>1
      <4>2. CASE m # n - 1
        <5>1. m \in from..((n - 1) - 1)
          BY <2>1, <4>2
        <5>2. PICK i \in 1..Len(s) : s[i] = m
          BY <2>1, <3>9, <5>1, Zenon DEF Finds
        <5>3. i \in 1..Len(g[n])
          BY <3>3, <3>4
        <5>4. g[n][i] = m
          BY <3>4, <5>2
        <5> QED
          BY <5>3, <5>4
      <4> QED
        BY <4>1, <4>2
    <3>10. Finds(g[n], out, from, n)
      BY <3>4, <3>7, <3>8, <3>9, Zenon DEF Finds
    <3> QED
      BY <2>1, <3>10
  <2>4. CASE ~(n <= from) /\ ~out.lines[n]
    <3>1. g[n] = s
      BY <1>4, <2>1, <2>4 DEF s
    <3>2. \A m \in from..(n - 1) : out.lines[m + 1] => m \in from..((n - 1) - 1)
      BY <2>1, <2>4
    <3>3. \A i \in 1..Len(s) : s[i] \in from..(n - 1)
      <4>1. \A i \in 1..Len(s) : s[i] \in from..((n - 1) - 1)
        BY <2>1, Zenon DEF Finds
      <4> QED
        BY <2>1, <4>1
    <3>4. Finds(s, out, from, n)
      BY <2>1, <3>2, <3>3, Zenon DEF Finds
    <3> QED
      BY <2>1, <3>1, <3>4
  <2> QED
    BY <2>2, <2>3, <2>4
<1>7. \A n \in 0..to : n \in S
  <2> HIDE DEF S
  <2> QED
    BY <1>0, <1>5, <1>6, UpTo
<1>8. to \in S
  <2>1. to \in 0..to
    BY <1>0
  <2> QED
    BY <1>7, <2>1
<1> QED
  BY <1>3, <1>8

\* A range, first and last line.
Pairs == Nat \X Nat

\* A range is added, or the last one grows.
LEMMA MergeInPairs ==
    ASSUME NEW R \in Seq(Pairs), NEW r \in Pairs
    PROVE  MergeRange(R, r) \in Seq(Pairs)
<1>0. /\ Len(R) \in Nat /\ r[2] \in Nat
      /\ \A j \in 1..Len(R) : R[j] \in Pairs /\ R[j][1] \in Nat /\ R[j][2] \in Nat
  <2>1. \A j \in 1..Len(R) : R[j] \in Pairs
    BY ElementOfSeq
  <2>2. \A x \in Pairs : x[1] \in Nat /\ x[2] \in Nat
    BY DEF Pairs
  <2> QED
    BY <2>1, <2>2, LenProperties
<1>1. CASE R # <<>> /\ r[1] <= Last(R)[2] + 1
  <2> DEFINE n == Len(R)
             v == <<R[n][1], Higher(r[2], R[n][2])>>
  <2>1. n \in 1..Len(R)
    BY <1>0, <1>1, EmptySeq
  <2>2. v \in Pairs
    BY <1>0, <2>1 DEF Higher, Pairs
  <2>3. MergeRange(R, r) = [R EXCEPT ![n] = v]
    BY <1>1 DEF MergeRange
  <2> HIDE DEF v
  <2> QED
    BY <2>1, <2>2, <2>3, ExceptSeq
<1>2. CASE ~(R # <<>> /\ r[1] <= Last(R)[2] + 1)
  <2>1. MergeRange(R, r) = Append(R, r)
    BY <1>2, Zenon DEF MergeRange
  <2> QED
    BY <2>1, AppendProperties
<1> QED
  BY <1>1, <1>2

\* The lines of a range.
LEMMA LineRangeLemma ==
    ASSUME NEW from \in Nat, NEW to \in Nat
    PROVE  /\ LineRange(from, to) \in Seq(Nat)
           /\ \A m \in from..(to - 1) :
                 \E x \in 1..Len(LineRange(from, to)) : LineRange(from, to)[x] = m
<1> DEFINE n == IF to > from THEN to - from ELSE 0
           s == LineRange(from, to)
<1>1. n \in Nat /\ s = [i \in 1..n |-> from + i - 1]
  BY DEF LineRange
<1>2. \A i \in 1..n : from + i - 1 \in Nat
  BY <1>1
<1>3. s \in [1..n -> Nat]
  BY <1>1, <1>2
<1>4. s \in Seq(Nat) /\ Len(s) = n
  BY <1>1, <1>3
<1>5. ASSUME NEW m \in from..(to - 1)
      PROVE  \E x \in 1..Len(s) : s[x] = m
  <2>1. m - from + 1 \in 1..n /\ from + (m - from + 1) - 1 = m
    OBVIOUS
  <2>2. s[m - from + 1] = m
    BY <1>1, <2>1
  <2> QED
    BY <1>4, <2>1, <2>2
<1> QED
  BY <1>4, <1>5

\* A range of context is the lines around a match.
LEMMA ContextRangeHolds ==
    ASSUME NEW total \in Nat, NEW m \in 0..(total - 1), NEW p, p.before \in Nat, p.after \in Nat
    PROVE  LET r == ContextRange(m, p, total)
           IN  /\ r \in Pairs /\ r[1] \in Nat /\ r[2] \in Nat /\ r[1] <= m /\ m <= r[2]
               /\ r[1] = (IF m > p.before THEN m - p.before ELSE 0)
               /\ r[1]..r[2] = {i \in 0..(total - 1) : m <= i + p.before /\ i <= m + p.after}
<1> DEFINE lo == IF m > p.before THEN m - p.before ELSE 0
           hi == IF m + p.after < total - 1 THEN m + p.after ELSE total - 1
           r == ContextRange(m, p, total)
<1>1. r = <<lo, hi>>
  BY DEF ContextRange, Lower
<1>2. lo \in Nat /\ hi \in Nat /\ lo <= m /\ m <= hi
  OBVIOUS
<1>3. \A i : i \in lo..hi <=> i \in 0..(total - 1) /\ m <= i + p.before /\ i <= m + p.after
  OBVIOUS
<1> HIDE DEF lo, hi, r
<1>4. r \in Pairs /\ r[1] = lo /\ r[2] = hi
  BY <1>1, <1>2 DEF Pairs
<1>5. r[1]..r[2] = {i \in 0..(total - 1) : m <= i + p.before /\ i <= m + p.after}
  BY <1>3, <1>4
<1> QED
  BY <1>2, <1>4, <1>5 DEF r, lo

\* merge_context_ranges, one match at a time.
LEMMA RangesSteps ==
    ASSUME NEW total \in Nat, NEW s \in Seq(Nat), \A i \in 1..Len(s) : s[i] \in 0..(total - 1),
           NEW p, p.before \in Nat, p.after \in Nat
    PROVE  \E g : /\ g[0] = <<>> /\ ContextRanges(s, p, total) = g[Len(s)]
                  /\ \A n \in 1..Len(s) : g[n] = MergeRange(g[n - 1], ContextRange(s[n], p, total))
<1> DEFINE N == Len(s)
           rec(f) == [n \in 0..N |->
                        IF n = 0 THEN <<>>
                        ELSE MergeRange(f[n - 1], ContextRange(s[n], p, total))]
           step == [n \in 1..N |-> [R \in Seq(Pairs) |-> MergeRange(R, ContextRange(s[n], p, total))]]
           g == CHOOSE g : g = rec(g)
<1>0. N \in Nat /\ \A n \in 1..N : s[n] \in Nat
  BY ElementOfSeq, LenProperties
<1>1. \A n \in 1..N : ContextRange(s[n], p, total) \in Pairs
  BY ContextRangeHolds
<1>2. \A R \in Seq(Pairs), n \in 1..N : MergeRange(R, ContextRange(s[n], p, total)) \in Seq(Pairs)
  BY <1>1, MergeInPairs
<1>3. \E f : f = rec(f)
  <2> DEFINE X == Seq(Pairs)
             base == <<>>
  <2>1. base \in X /\ step \in [1..N -> [X -> X]]
    BY <1>2
  <2> HIDE DEF step, X, base
  <2>2. PICK f \in [0..N -> X] : Follows(f, N, base, step)
    BY <1>0, <2>1, Recursion
  <2>3. f[0] = <<>> /\ \A n \in 1..N : n - 1 \in 0..N /\ f[n - 1] \in Seq(Pairs) /\ f[n] = step[n][f[n - 1]]
    <3>1. f[0] = <<>> /\ \A n \in 1..N : f[n] = step[n][f[n - 1]]
      BY <2>2 DEF Follows, base
    <3>2. \A n \in 1..N : n - 1 \in 0..N
      BY <1>0
    <3>3. \A n \in 0..N : f[n] \in Seq(Pairs)
      BY DEF X
    <3> QED
      BY <3>1, <3>2, <3>3
  <2>4. \A n \in 1..N : f[n] = MergeRange(f[n - 1], ContextRange(s[n], p, total))
    BY <2>3 DEF step
  <2>5. \A n \in 0..N : n = 0 \/ n \in 1..N
    BY <1>0
  <2>6. \A n \in 0..N : f[n] = IF n = 0 THEN <<>>
                               ELSE MergeRange(f[n - 1], ContextRange(s[n], p, total))
    BY <2>3, <2>4, <2>5
  <2>7. f = [n \in 0..N |-> f[n]]
    OBVIOUS
  <2> QED
    BY <2>6, <2>7
<1>4. g = rec(g)
  <2> HIDE DEF rec
  <2> QED
    BY <1>3
<1>5. ContextRanges(s, p, total) = g[N]
  BY DEF ContextRanges
<1>6. \A n \in 0..N : g[n] = IF n = 0 THEN <<>>
                             ELSE MergeRange(g[n - 1], ContextRange(s[n], p, total))
  <2>1. \A n \in 0..N : rec(g)[n] = IF n = 0 THEN <<>>
                             ELSE MergeRange(g[n - 1], ContextRange(s[n], p, total))
    OBVIOUS
  <2> HIDE DEF rec, g
  <2> QED
    BY <1>4, <2>1
<1> HIDE DEF g, rec, step
<1>7. 0 \in 0..N /\ \A n \in 1..N : n \in 0..N /\ n # 0
  BY <1>0
<1>8. g[0] = <<>> /\ \A n \in 1..N : g[n] = MergeRange(g[n - 1], ContextRange(s[n], p, total))
  BY <1>6, <1>7
<1> QED
  BY <1>5, <1>8

\* collect_context_lines, one range at a time.
LEMMA LinesSteps ==
    ASSUME NEW R \in Seq(Pairs)
    PROVE  \E g : /\ g[0] = <<>> /\ ContextLines(R) = g[Len(R)]
                  /\ \A n \in 1..Len(R) : g[n] = g[n - 1] \o LineRange(R[n][1], R[n][2] + 1)
<1> DEFINE N == Len(R)
           rec(f) == [n \in 0..N |-> IF n = 0 THEN <<>>
                                     ELSE f[n - 1] \o LineRange(R[n][1], R[n][2] + 1)]
           step == [n \in 1..N |-> [C \in Seq(Nat) |-> C \o LineRange(R[n][1], R[n][2] + 1)]]
           g == CHOOSE g : g = rec(g)
<1>0. /\ N \in Nat
      /\ \A n \in 1..N : R[n][1] \in Nat /\ R[n][2] \in Nat /\ R[n][2] + 1 \in Nat
  <2>1. \A n \in 1..N : R[n] \in Pairs
    BY ElementOfSeq
  <2>2. \A x \in Pairs : x[1] \in Nat /\ x[2] \in Nat /\ x[2] + 1 \in Nat
    BY DEF Pairs
  <2> QED
    BY <2>1, <2>2, LenProperties
<1>1. \A n \in 1..N : LineRange(R[n][1], R[n][2] + 1) \in Seq(Nat)
  BY <1>0, LineRangeLemma
<1>2. \A C \in Seq(Nat), n \in 1..N : C \o LineRange(R[n][1], R[n][2] + 1) \in Seq(Nat)
  BY <1>1, ConcatProperties
<1>3. \E f : f = rec(f)
  <2> DEFINE X == Seq(Nat)
             base == <<>>
  <2>1. base \in X /\ step \in [1..N -> [X -> X]]
    BY <1>2
  <2> HIDE DEF step, X, base
  <2>2. PICK f \in [0..N -> X] : Follows(f, N, base, step)
    BY <1>0, <2>1, Recursion
  <2>3. f[0] = <<>> /\ \A n \in 1..N : n - 1 \in 0..N /\ f[n - 1] \in Seq(Nat) /\ f[n] = step[n][f[n - 1]]
    <3>1. f[0] = <<>> /\ \A n \in 1..N : f[n] = step[n][f[n - 1]]
      BY <2>2 DEF Follows, base
    <3>2. \A n \in 1..N : n - 1 \in 0..N
      BY <1>0
    <3>3. \A n \in 0..N : f[n] \in Seq(Nat)
      BY DEF X
    <3> QED
      BY <3>1, <3>2, <3>3
  <2>4. \A n \in 1..N : f[n] = f[n - 1] \o LineRange(R[n][1], R[n][2] + 1)
    BY <2>3 DEF step
  <2>5. \A n \in 0..N : n = 0 \/ n \in 1..N
    BY <1>0
  <2>6. \A n \in 0..N : f[n] = IF n = 0 THEN <<>>
                               ELSE f[n - 1] \o LineRange(R[n][1], R[n][2] + 1)
    BY <2>3, <2>4, <2>5
  <2>7. f = [n \in 0..N |-> f[n]]
    OBVIOUS
  <2> QED
    BY <2>6, <2>7
<1>4. g = rec(g)
  <2> HIDE DEF rec
  <2> QED
    BY <1>3
<1>5. ContextLines(R) = g[N]
  BY DEF ContextLines
<1>6. \A n \in 0..N : g[n] = IF n = 0 THEN <<>>
                             ELSE g[n - 1] \o LineRange(R[n][1], R[n][2] + 1)
  <2>1. \A n \in 0..N : rec(g)[n] = IF n = 0 THEN <<>>
                             ELSE g[n - 1] \o LineRange(R[n][1], R[n][2] + 1)
    OBVIOUS
  <2> HIDE DEF rec, g
  <2> QED
    BY <1>4, <2>1
<1> HIDE DEF g, rec, step
<1>7. 0 \in 0..N /\ \A n \in 1..N : n \in 0..N /\ n # 0
  BY <1>0
<1>8. g[0] = <<>> /\ \A n \in 1..N : g[n] = g[n - 1] \o LineRange(R[n][1], R[n][2] + 1)
  BY <1>6, <1>7
<1> QED
  BY <1>5, <1>8

\* s lists S in order.
Lists(s, S) ==
    /\ s \in Seq(Nat)
    /\ \A i, j \in 1..Len(s) : i < j => s[i] < s[j]
    /\ S = {s[i] : i \in 1..Len(s)}

\* The lines that the first k of the ranges R hold.
Held(R, k) == UNION {R[j][1]..R[j][2] : j \in 1..k}

\* Ranges one after the other.
Ordered(R) ==
    /\ R \in Seq(Pairs)
    /\ \A j \in 1..Len(R) : R[j][1] <= R[j][2]
    /\ \A i, j \in 1..Len(R) : i < j => R[i][2] < R[j][1]

\* collect_context_lines lists the lines of ranges that are in order.
LEMMA ContextLinesList ==
    ASSUME NEW R, Ordered(R)
    PROVE  Lists(ContextLines(R), Held(R, Len(R)))
<1> DEFINE N == Len(R)
<1>0. /\ R \in Seq(Pairs) /\ N \in Nat
      /\ \A n \in 1..N : R[n][1] \in Nat /\ R[n][2] \in Nat /\ R[n][1] <= R[n][2]
      /\ \A i, j \in 1..N : i < j => R[i][2] < R[j][1]
  <2>1. R \in Seq(Pairs)
    BY DEF Ordered
  <2>2. \A n \in 1..N : R[n] \in Pairs
    BY <2>1, ElementOfSeq
  <2>3. \A x \in Pairs : x[1] \in Nat /\ x[2] \in Nat
    BY DEF Pairs
  <2> QED
    BY <2>1, <2>2, <2>3, LenProperties DEF Ordered
<1>1. PICK g : /\ g[0] = <<>> /\ ContextLines(R) = g[N]
               /\ \A n \in 1..N : g[n] = g[n - 1] \o LineRange(R[n][1], R[n][2] + 1)
  BY <1>0, LinesSteps
<1> DEFINE S == {n \in 0..N : Lists(g[n], Held(R, n))}
<1>2. 0 \in S
  <2>1. Held(R, 0) = {}
    BY DEF Held
  <2>2. <<>> \in Seq(Nat) /\ Len(<<>>) = 0
    BY EmptySequence
  <2> DEFINE e == g[0]
  <2>3. e \in Seq(Nat) /\ Len(e) = 0
    BY <1>1, <2>2
  <2> HIDE DEF e
  <2>4. Lists(e, Held(R, 0))
    BY <2>1, <2>3 DEF Lists
  <2> QED
    BY <1>0, <2>4 DEF e
<1>3. ASSUME NEW n \in 1..N, n - 1 \in S
      PROVE  n \in S
  <2> DEFINE C == g[n - 1]
             a == R[n][1]
             b == R[n][2]
             D == LineRange(a, b + 1)
             M == g[n]
  <2>1. /\ n \in Nat /\ n \in 0..N /\ Lists(C, Held(R, n - 1)) /\ M = C \o D
        /\ a \in Nat /\ b \in Nat /\ a <= b
    <3>1. n \in Nat /\ n \in 0..N /\ a \in Nat /\ b \in Nat /\ a <= b
      BY <1>0
    <3>2. Lists(C, Held(R, n - 1))
      BY <1>3
    <3>3. M = C \o D
      BY <1>1
    <3> QED
      BY <3>1, <3>2, <3>3
  <2>2. Held(R, n) = Held(R, n - 1) \cup a..b
    <3>1. 1..n = 1..(n - 1) \cup {n}
      BY <2>1
    <3> QED
      BY <3>1 DEF Held
  <2>3. \A m \in Held(R, n - 1) : m \in Nat /\ m < a
    <3> SUFFICES ASSUME NEW m \in Held(R, n - 1)
                 PROVE  m \in Nat /\ m < a
      OBVIOUS
    <3>1. PICK j \in 1..(n - 1) : m \in R[j][1]..R[j][2]
      BY DEF Held
    <3>2. j \in 1..N /\ j < n
      BY <1>0, <2>1
    <3>3. R[j][1] \in Nat /\ R[j][2] \in Nat /\ R[j][2] < a
      BY <1>0, <3>2
    <3> QED
      BY <2>1, <3>1, <3>3
  <2>4. /\ D \in Seq(Nat) /\ Len(D) = b - a + 1 /\ \A x \in 1..Len(D) : D[x] = a + x - 1
    <3> DEFINE k == b - a + 1
    <3>1. k \in Nat /\ D = [i \in 1..k |-> a + i - 1]
      <4>1. (b + 1) - a = k /\ b + 1 > a
        BY <2>1
      <4> QED
        BY <2>1, <4>1 DEF LineRange
    <3>2. \A i \in 1..k : a + i - 1 \in Nat
      BY <2>1
    <3> HIDE DEF k, D, a, b
    <3>3. D \in [1..k -> Nat]
      BY <3>1, <3>2
    <3>4. D \in Seq(Nat) /\ Len(D) = k
      BY <3>1, <3>3
    <3> QED
      BY <3>1, <3>4 DEF k
  <2> HIDE DEF C, D, M, a, b
  <2>5. /\ C \in Seq(Nat) /\ Len(C) \in Nat
        /\ \A i, j \in 1..Len(C) : i < j => C[i] < C[j]
        /\ Held(R, n - 1) = {C[i] : i \in 1..Len(C)}
    BY <2>1, LenProperties DEF Lists
  <2>6. /\ M \in Seq(Nat) /\ Len(M) = Len(C) + Len(D) /\ Len(D) \in Nat
        /\ \A x \in 1..(Len(C) + Len(D)) : M[x] = IF x <= Len(C) THEN C[x] ELSE D[x - Len(C)]
    BY <2>1, <2>4, <2>5, ConcatProperties, LenProperties
  <2>7. \A x \in 1..Len(C) : x \in 1..Len(M) /\ M[x] = C[x] /\ C[x] \in Nat /\ C[x] < a
    <3>1. \A x \in 1..Len(C) : x \in 1..(Len(C) + Len(D)) /\ x <= Len(C)
      BY <2>5, <2>6
    <3>2. \A x \in 1..Len(C) : C[x] \in Nat /\ C[x] < a
      BY <2>3, <2>5
    <3> QED
      BY <2>6, <3>1, <3>2
  <2>8. \A x \in 1..Len(M) : x \notin 1..Len(C) => /\ x - Len(C) \in 1..Len(D)
                                                   /\ M[x] = a + (x - Len(C)) - 1
    <3> SUFFICES ASSUME NEW x \in 1..Len(M), x \notin 1..Len(C)
                 PROVE  x - Len(C) \in 1..Len(D) /\ M[x] = a + (x - Len(C)) - 1
      OBVIOUS
    <3>1. x \in 1..(Len(C) + Len(D)) /\ ~(x <= Len(C)) /\ x - Len(C) \in 1..Len(D)
      BY <2>5, <2>6
    <3>2. M[x] = D[x - Len(C)]
      BY <2>6, <3>1
    <3> QED
      BY <2>4, <3>1, <3>2
  <2>9. \A i, j \in 1..Len(M) : i < j => M[i] < M[j]
    <3> SUFFICES ASSUME NEW i \in 1..Len(M), NEW j \in 1..Len(M), i < j
                 PROVE  M[i] < M[j]
      OBVIOUS
    <3>1. CASE j \in 1..Len(C)
      <4>1. i \in 1..Len(C)
        BY <2>5, <2>6, <3>1
      <4> QED
        BY <2>5, <2>7, <3>1, <4>1
    <3>2. CASE i \in 1..Len(C) /\ j \notin 1..Len(C)
      <4>1. M[i] \in Nat /\ M[i] < a
        BY <2>7, <3>2
      <4>2. M[j] = a + (j - Len(C)) - 1 /\ j - Len(C) \in 1..Len(D)
        BY <2>8, <3>2
      <4>3. M[j] \in Nat /\ a <= M[j]
        BY <2>1, <2>5, <2>6, <4>2
      <4> QED
        BY <2>1, <4>1, <4>3
    <3>3. CASE i \notin 1..Len(C) /\ j \notin 1..Len(C)
      <4>1. M[i] = a + (i - Len(C)) - 1 /\ M[j] = a + (j - Len(C)) - 1
        BY <2>8, <3>3
      <4> QED
        BY <2>1, <2>5, <2>6, <4>1
    <3> QED
      BY <3>1, <3>2, <3>3
  <2>10. Held(R, n) = {M[x] : x \in 1..Len(M)}
    <3>1. \A x \in 1..Len(M) : M[x] \in Held(R, n)
      <4> SUFFICES ASSUME NEW x \in 1..Len(M)
                   PROVE  M[x] \in Held(R, n)
        OBVIOUS
      <4>1. CASE x \in 1..Len(C)
        BY <2>2, <2>5, <2>7, <4>1
      <4>2. CASE x \notin 1..Len(C)
        <5>1. M[x] = a + (x - Len(C)) - 1 /\ x - Len(C) \in 1..Len(D)
          BY <2>8, <4>2
        <5>2. M[x] \in a..b
          BY <2>1, <2>4, <2>5, <5>1
        <5> QED
          BY <2>2, <5>2
      <4> QED
        BY <4>1, <4>2
    <3>2. \A m \in Held(R, n) : \E x \in 1..Len(M) : M[x] = m
      <4> SUFFICES ASSUME NEW m \in Held(R, n)
                   PROVE  \E x \in 1..Len(M) : M[x] = m
        OBVIOUS
      <4>1. CASE m \in Held(R, n - 1)
        BY <2>5, <2>7, <4>1
      <4>2. CASE m \in a..b
        <5> DEFINE x == Len(C) + (m - a + 1)
        <5>1. x \in 1..Len(M) /\ x \notin 1..Len(C) /\ x - Len(C) = m - a + 1
          BY <2>1, <2>4, <2>5, <2>6, <4>2
        <5>2. M[x] = a + (x - Len(C)) - 1
          BY <2>8, <5>1
        <5>3. M[x] = m
          BY <2>1, <4>2, <5>1, <5>2
        <5> QED
          BY <5>1, <5>3
      <4> QED
        BY <2>2, <4>1, <4>2
    <3> QED
      BY <3>1, <3>2
  <2>11. Lists(M, Held(R, n))
    BY <2>6, <2>9, <2>10 DEF Lists
  <2> QED
    BY <2>1, <2>11 DEF M
<1>4. \A n \in 0..N : n \in S
  <2> HIDE DEF S, N
  <2> QED
    BY <1>0, <1>2, <1>3, UpTo
<1> QED
  BY <1>0, <1>1, <1>4
\* Lines of an output that has total, in order.
Increasing(s, total) ==
    /\ s \in Seq(Nat)
    /\ \A i \in 1..Len(s) : s[i] \in 0..(total - 1)
    /\ \A i, j \in 1..Len(s) : i < j => s[i] < s[j]

\* The lines within the context of the first k of the matches s.
Context(s, k, p, total) ==
    {i \in 0..(total - 1) : \E x \in 1..k : s[x] <= i + p.before /\ i <= s[x] + p.after}

\* The last of the ranges starts where the last match's context does, or
\* before, and none ends after.
Ends(R, s, k, p, total) ==
    /\ k = 0 => Len(R) = 0
    /\ k > 0 => Len(R) > 0 /\ R[Len(R)][1] <= ContextRange(s[k], p, total)[1]

\* One more match whose context does not start before the last range: the
\* ranges stay in order, and hold the lines of its context too.
LEMMA MergeHolds ==
    ASSUME NEW R, Ordered(R), NEW r \in Pairs, r[1] <= r[2],
           Len(R) > 0 => R[Len(R)][1] <= r[1]
    PROVE  LET M == MergeRange(R, r)
           IN  /\ Ordered(M) /\ Held(M, Len(M)) = Held(R, Len(R)) \cup r[1]..r[2]
               /\ Len(M) > 0 /\ M[Len(M)][1] <= r[1]
<1> DEFINE M == MergeRange(R, r)
           N == Len(R)
<1>0. /\ R \in Seq(Pairs) /\ N \in Nat /\ r[1] \in Nat /\ r[2] \in Nat
      /\ \A n \in 1..N : R[n] \in Pairs /\ R[n][1] \in Nat /\ R[n][2] \in Nat /\ R[n][1] <= R[n][2]
      /\ \A i, j \in 1..N : i < j => R[i][2] < R[j][1]
  <2>1. R \in Seq(Pairs)
    BY DEF Ordered
  <2>2. \A n \in 1..N : R[n] \in Pairs
    BY <2>1, ElementOfSeq
  <2>3. \A x \in Pairs : x[1] \in Nat /\ x[2] \in Nat
    BY DEF Pairs
  <2> QED
    BY <2>1, <2>2, <2>3, LenProperties DEF Ordered
<1>1. CASE R # <<>> /\ r[1] <= Last(R)[2] + 1
  <2> DEFINE v == <<R[N][1], Higher(r[2], R[N][2])>>
  <2>1. N \in 1..N /\ Last(R) = R[N]
    <3>1. N # 0
      BY <1>0, <1>1, EmptySeq
    <3> QED
      BY <1>0, <3>1 DEF Last
  <2>2. v \in Pairs /\ v[1] = R[N][1] /\ v[2] = Higher(r[2], R[N][2]) /\ v[1] \in Nat /\ v[2] \in Nat
    BY <1>0, <2>1 DEF Higher, Pairs
  <2>3. M = [R EXCEPT ![N] = v]
    BY <1>1 DEF MergeRange
  <2> HIDE DEF v, M
  <2>4. /\ M \in Seq(Pairs) /\ Len(M) = N /\ M[N] = v
        /\ \A j \in 1..N : j # N => M[j] = R[j]
    BY <1>0, <2>1, <2>2, <2>3, ExceptSeq
  <2>5. v[1] <= v[2] /\ R[N][2] <= v[2] /\ v[1] <= r[1] /\ R[N][1] <= r[1] /\ r[1] <= R[N][2] + 1
    BY <1>0, <1>1, <2>1, <2>2 DEF Higher
  <2>6. v[1]..v[2] = R[N][1]..R[N][2] \cup r[1]..r[2]
    <3>1. R[N][1] \in Nat /\ R[N][2] \in Nat
      BY <1>0, <2>1
    <3> QED
      BY <1>0, <2>2, <2>5, <3>1 DEF Higher
  <2>7. Ordered(M)
    <3>1. \A j \in 1..Len(M) : M[j][1] <= M[j][2]
      BY <1>0, <2>4, <2>5
    <3>2. \A i, j \in 1..Len(M) : i < j => M[i][2] < M[j][1]
      <4> SUFFICES ASSUME NEW i \in 1..N, NEW j \in 1..N, i < j
                   PROVE  M[i][2] < M[j][1]
        BY <2>4
      <4>1. i # N /\ M[i] = R[i] /\ R[i][2] < R[j][1]
        BY <1>0, <2>4
      <4>2. M[j][1] = R[j][1]
        BY <2>2, <2>4
      <4> QED
        BY <4>1, <4>2
    <3> QED
      BY <2>4, <3>1, <3>2 DEF Ordered
  <2>8. Held(M, N) = Held(R, N) \cup r[1]..r[2]
    <3>1. \A k \in Nat : 1..(k + 1) = 1..k \cup {k + 1}
      OBVIOUS
    <3>2. 1..N = 1..(N - 1) \cup {N}
      BY <1>0, <2>1
    <3>3. \A j \in 1..(N - 1) : M[j] = R[j]
      BY <1>0, <2>1, <2>4
    <3>4. Held(M, N) = Held(M, N - 1) \cup M[N][1]..M[N][2]
      BY <3>2 DEF Held
    <3>5. Held(R, N) = Held(R, N - 1) \cup R[N][1]..R[N][2]
      BY <3>2 DEF Held
    <3>6. Held(M, N - 1) = Held(R, N - 1)
      BY <3>3 DEF Held
    <3> QED
      BY <2>4, <2>6, <3>4, <3>5, <3>6
  <2> QED
    BY <1>0, <2>1, <2>2, <2>4, <2>5, <2>7, <2>8 DEF M
<1>2. CASE ~(R # <<>> /\ r[1] <= Last(R)[2] + 1)
  <2>1. M = Append(R, r)
    BY <1>2, Zenon DEF MergeRange
  <2> HIDE DEF M
  <2>2. /\ M \in Seq(Pairs) /\ Len(M) = N + 1 /\ M[N + 1] = r
        /\ \A j \in 1..N : M[j] = R[j]
    BY <1>0, <2>1, AppendProperties
  <2>3. N # 0 => R[N][2] < r[1] /\ N \in 1..N
    <3> SUFFICES ASSUME N # 0
                 PROVE  R[N][2] < r[1] /\ N \in 1..N
      OBVIOUS
    <3>1. N \in 1..N /\ R # <<>>
      BY <1>0, EmptySeq
    <3>2. Last(R) = R[N] /\ ~(r[1] <= Last(R)[2] + 1)
      BY <1>2, <3>1 DEF Last
    <3>3. R[N][2] \in Nat
      BY <1>0, <3>1
    <3> QED
      BY <1>0, <3>1, <3>2, <3>3
  <2>4. \A i \in 1..N : R[i][2] < r[1]
    <3> SUFFICES ASSUME NEW i \in 1..N
                 PROVE  R[i][2] < r[1]
      OBVIOUS
    <3>1. N \in 1..N /\ R[N][2] < r[1] /\ R[N][1] \in Nat /\ R[N][2] \in Nat /\ R[i][2] \in Nat
          /\ R[N][1] <= R[N][2]
      BY <1>0, <2>3
    <3>2. CASE i = N
      BY <3>1, <3>2
    <3>3. CASE i # N
      <4>1. R[i][2] < R[N][1]
        BY <1>0, <3>1, <3>3
      <4> QED
        BY <1>0, <3>1, <4>1
    <3> QED
      BY <3>2, <3>3
  <2>5. \A j \in 1..(N + 1) : j \in 1..N \/ j = N + 1
    BY <1>0
  <2>6. \A j \in 1..N : M[j][1] <= M[j][2] /\ M[j][2] < r[1]
    BY <1>0, <2>2, <2>4
  <2>7. \A i, j \in 1..(N + 1) : i < j => M[i][2] < M[j][1]
    <3> SUFFICES ASSUME NEW i \in 1..(N + 1), NEW j \in 1..(N + 1), i < j
                 PROVE  M[i][2] < M[j][1]
      OBVIOUS
    <3>1. i \in 1..N
      BY <1>0
    <3>2. CASE j \in 1..N
      BY <1>0, <2>2, <3>1, <3>2
    <3>3. CASE j = N + 1
      BY <2>2, <2>6, <3>1, <3>3
    <3> QED
      BY <2>5, <3>2, <3>3
  <2>8. Ordered(M)
    BY <2>2, <2>5, <2>6, <2>7 DEF Ordered
  <2>9. Held(M, N + 1) = Held(R, N) \cup r[1]..r[2]
    <3>1. 1..(N + 1) = 1..N \cup {N + 1}
      BY <1>0
    <3>2. Held(M, N + 1) = Held(M, N) \cup M[N + 1][1]..M[N + 1][2]
      BY <3>1 DEF Held
    <3>3. Held(M, N) = Held(R, N)
      BY <2>2 DEF Held
    <3> QED
      BY <2>2, <3>2, <3>3
  <2> QED
    BY <1>0, <2>2, <2>8, <2>9 DEF M
<1> QED
  BY <1>1, <1>2

\* merge_context_ranges: the ranges are in order, hold the context of the
\* matches, and the last one that of the last match.
LEMMA ContextRangesHold ==
    ASSUME NEW total \in Nat, NEW s, Increasing(s, total),
           NEW p, p.before \in Nat, p.after \in Nat
    PROVE  LET R == ContextRanges(s, p, total)
           IN  /\ Ordered(R) /\ Held(R, Len(R)) = Context(s, Len(s), p, total)
               /\ Ends(R, s, Len(s), p, total)
<1> DEFINE N == Len(s)
           c(n) == ContextRange(s[n], p, total)
<1>0. /\ s \in Seq(Nat) /\ N \in Nat
      /\ \A i \in 1..N : s[i] \in 0..(total - 1)
      /\ \A i, j \in 1..N : i < j => s[i] < s[j]
  BY LenProperties, Zenon DEF Increasing
<1>1. PICK g : /\ g[0] = <<>> /\ ContextRanges(s, p, total) = g[N]
               /\ \A n \in 1..N : g[n] = MergeRange(g[n - 1], c(n))
  <2>1. \E g : /\ g[0] = <<>> /\ ContextRanges(s, p, total) = g[Len(s)]
              /\ \A n \in 1..Len(s) : g[n] = MergeRange(g[n - 1], ContextRange(s[n], p, total))
    BY <1>0, RangesSteps
  <2> QED
    BY <2>1
<1>2. \A n \in 1..N :
         /\ c(n) \in Pairs /\ c(n)[1] \in Nat /\ c(n)[2] \in Nat /\ c(n)[1] <= s[n] /\ s[n] <= c(n)[2]
         /\ c(n)[1] = (IF s[n] > p.before THEN s[n] - p.before ELSE 0)
         /\ c(n)[1]..c(n)[2] = {i \in 0..(total - 1) : s[n] <= i + p.before /\ i <= s[n] + p.after}
  <2> SUFFICES ASSUME NEW n \in 1..N
               PROVE  /\ c(n) \in Pairs /\ c(n)[1] \in Nat /\ c(n)[2] \in Nat
                      /\ c(n)[1] <= s[n] /\ s[n] <= c(n)[2]
                      /\ c(n)[1] = (IF s[n] > p.before THEN s[n] - p.before ELSE 0)
                      /\ c(n)[1]..c(n)[2]
                           = {i \in 0..(total - 1) : s[n] <= i + p.before /\ i <= s[n] + p.after}
    OBVIOUS
  <2> DEFINE m == s[n]
  <2>1. m \in 0..(total - 1)
    BY <1>0
  <2> HIDE DEF m
  <2> QED
    BY <2>1, ContextRangeHolds, Zenon DEF m
<1> DEFINE Good(R, n) == /\ Ordered(R) /\ Held(R, Len(R)) = Context(s, n, p, total)
                         /\ Ends(R, s, n, p, total)
           S == {n \in 0..N : Good(g[n], n)}
<1>3. 0 \in S
  <2> DEFINE e == g[0]
  <2>1. e \in Seq(Pairs) /\ Len(e) = 0
    BY <1>1, EmptySequence
  <2> HIDE DEF e
  <2>2. Ordered(e)
    BY <2>1 DEF Ordered
  <2>3. Held(e, Len(e)) = {} /\ Context(s, 0, p, total) = {}
    BY <2>1 DEF Held, Context
  <2>4. Ends(e, s, 0, p, total)
    BY <2>1 DEF Ends
  <2>5. Good(e, 0)
    BY <2>2, <2>3, <2>4
  <2> QED
    BY <1>0, <2>5 DEF e
<1>4. ASSUME NEW n \in 1..N, n - 1 \in S
      PROVE  n \in S
  <2> DEFINE R == g[n - 1]
             r == c(n)
             M == g[n]
  <2>1. Ordered(R) /\ Held(R, Len(R)) = Context(s, n - 1, p, total) /\ Ends(R, s, n - 1, p, total)
    BY <1>4
  <2>2. M = MergeRange(R, r) /\ r \in Pairs /\ r[1] \in Nat /\ r[2] \in Nat /\ r[1] <= r[2]
    <3>1. M = MergeRange(R, r)
      BY <1>1
    <3>2. s[n] \in Nat
      BY <1>0
    <3> HIDE DEF r, M, R
    <3>3. r \in Pairs /\ r[1] \in Nat /\ r[2] \in Nat /\ r[1] <= s[n] /\ s[n] <= r[2]
      BY <1>2 DEF r
    <3> QED
      BY <3>1, <3>2, <3>3
  <2>3. n - 1 > 0 => c(n - 1)[1] <= r[1]
    <3> SUFFICES ASSUME n - 1 > 0
                 PROVE  c(n - 1)[1] <= c(n)[1]
      OBVIOUS
    <3>1. n - 1 \in 1..N /\ n - 1 < n
      BY <1>0
    <3>2. s[n - 1] \in Nat /\ s[n] \in Nat /\ s[n - 1] < s[n]
      BY <1>0, <3>1
    <3>3. /\ c(n - 1)[1] = (IF s[n - 1] > p.before THEN s[n - 1] - p.before ELSE 0)
          /\ c(n)[1] = (IF s[n] > p.before THEN s[n] - p.before ELSE 0)
      BY <1>2, <3>1
    <3> HIDE DEF c
    <3> QED
      BY <3>2, <3>3
  <2>4. \A k \in 1..N : c(k)[1] \in Nat
    BY <1>2
  <2>5. Len(R) > 0 => R[Len(R)][1] <= r[1]
    <3> SUFFICES ASSUME Len(R) > 0
                 PROVE  R[Len(R)][1] <= r[1]
      OBVIOUS
    <3>1. n - 1 > 0 /\ n - 1 \in 1..N
      <4>1. n - 1 # 0
        BY <2>1 DEF Ends
      <4> QED
        BY <1>0, <4>1
    <3>2. R[Len(R)][1] <= c(n - 1)[1]
      BY <2>1, <3>1 DEF Ends
    <3>3. R[Len(R)][1] \in Nat
      <4>1. R \in Seq(Pairs) /\ Len(R) \in 1..Len(R)
        BY <2>1, LenProperties DEF Ordered
      <4>2. R[Len(R)] \in Pairs
        BY <4>1, ElementOfSeq
      <4> QED
        BY <4>2 DEF Pairs
    <3>4. c(n - 1)[1] \in Nat /\ r[1] \in Nat /\ c(n - 1)[1] <= r[1]
      BY <2>2, <2>3, <2>4, <3>1
    <3> HIDE DEF c, r, R
    <3> QED
      BY <3>2, <3>3, <3>4
  <2>6. Context(s, n, p, total) = Context(s, n - 1, p, total) \cup r[1]..r[2]
    <3>1. 1..n = 1..(n - 1) \cup {n}
      BY <1>0
    <3>2. r[1]..r[2] = {i \in 0..(total - 1) : s[n] <= i + p.before /\ i <= s[n] + p.after}
      BY <1>2
    <3> HIDE DEF r
    <3> QED
      BY <3>1, <3>2 DEF Context
  <2>7. n \in Nat /\ n > 0 /\ n \in 0..N
    BY <1>0
  <2> HIDE DEF R, M
  <2>8. /\ Ordered(M) /\ Held(M, Len(M)) = Held(R, Len(R)) \cup r[1]..r[2]
        /\ Len(M) > 0 /\ M[Len(M)][1] <= r[1]
    <3> HIDE DEF r
    <3> QED
      BY <2>1, <2>2, <2>5, MergeHolds
  <2>9. Ends(M, s, n, p, total)
    BY <2>7, <2>8 DEF Ends
  <2>10. Good(M, n)
    BY <2>1, <2>6, <2>8, <2>9
  <2> QED
    BY <2>7, <2>10 DEF M
<1>5. \A n \in 0..N : n \in S
  <2> HIDE DEF S, N
  <2> QED
    BY <1>0, <1>3, <1>4, UpTo
<1> QED
  BY <1>0, <1>1, <1>5

\* What is in a sequence is in its range.
LEMMA InRange ==
    ASSUME NEW S, NEW s \in Seq(S), NEW x \in 1..Len(s)
    PROVE  s[x] \in Range(s)
<1>1. DOMAIN s = 1..Len(s)
  BY LenProperties
<1>2. x \in DOMAIN s
  BY <1>1
<1> QED
  BY <1>2 DEF Range

\* The context of matches shows each of them, and from the last one on every
\* line to the end of the last range.
LEMMA ContextShown ==
    ASSUME NEW total \in Nat, NEW s, Increasing(s, total),
           NEW p, p.before \in Nat, p.after \in Nat
    PROVE  LET R == ContextRanges(s, p, total)
               C == ContextLines(R)
           IN  /\ \A x \in 1..Len(s) : s[x] \in Range(C)
               /\ R # <<>> => /\ Last(R)[2] \in Nat
                             /\ \A m \in Nat : s[Len(s)] <= m /\ m <= Last(R)[2] => m \in Range(C)
<1> DEFINE R == ContextRanges(s, p, total)
           C == ContextLines(R)
<1>1. /\ s \in Seq(Nat) /\ Len(s) \in Nat
      /\ \A i \in 1..Len(s) : s[i] \in 0..(total - 1)
  BY LenProperties DEF Increasing
<1>2. /\ Ordered(R) /\ Held(R, Len(R)) = Context(s, Len(s), p, total)
      /\ Ends(R, s, Len(s), p, total)
  BY ContextRangesHold
<1> HIDE DEF R
<1>3. Lists(C, Held(R, Len(R)))
  BY <1>2, ContextLinesList
<1> HIDE DEF C
<1>4. \A m \in Held(R, Len(R)) : m \in Range(C)
  <2>1. /\ C \in Seq(Nat) /\ \A x \in 1..Len(C) : C[x] \in Range(C)
        /\ Held(R, Len(R)) = {C[i] : i \in 1..Len(C)}
    BY <1>3, InRange DEF Lists
  <2> QED
    BY <2>1
<1>5. ASSUME NEW x \in 1..Len(s)
      PROVE  s[x] \in Range(C)
  <2>1. s[x] \in 0..(total - 1) /\ s[x] <= s[x] + p.before /\ s[x] <= s[x] + p.after
    BY <1>1
  <2>2. s[x] \in Context(s, Len(s), p, total)
    BY <2>1 DEF Context
  <2> QED
    BY <1>2, <1>4, <2>2
<1>6. ASSUME R # <<>>
      PROVE  /\ Last(R)[2] \in Nat
             /\ \A m \in Nat : s[Len(s)] <= m /\ m <= Last(R)[2] => m \in Range(C)
  <2>1. R \in Seq(Pairs) /\ Len(R) \in 1..Len(R) /\ Len(R) > 0
    <3>1. R \in Seq(Pairs)
      BY <1>2, Zenon DEF Ordered
    <3> QED
      BY <1>6, <3>1, EmptySeq, LenProperties
  <2>2. Len(s) \in 1..Len(s) /\ R[Len(R)][1] <= ContextRange(s[Len(s)], p, total)[1]
    BY <1>1, <1>2, <2>1 DEF Ends
  <2>3. R[Len(R)][1] \in Nat /\ R[Len(R)][2] \in Nat /\ Last(R) = R[Len(R)]
    <3>1. R[Len(R)] \in Pairs
      BY <2>1, ElementOfSeq
    <3> QED
      BY <3>1 DEF Pairs, Last
  <2>4. R[Len(R)][1] <= s[Len(s)] /\ s[Len(s)] \in Nat
    <3> DEFINE k == s[Len(s)]
               c == ContextRange(k, p, total)
    <3>1. k \in 0..(total - 1)
      BY <1>1, <2>2
    <3> HIDE DEF k
    <3>2. c[1] \in Nat /\ c[1] <= k
      BY <3>1, ContextRangeHolds
    <3>3. R[Len(R)][1] <= c[1]
      BY <2>2 DEF k
    <3> HIDE DEF c
    <3> QED
      BY <2>3, <3>1, <3>2, <3>3 DEF k
  <2>5. ASSUME NEW m \in Nat, s[Len(s)] <= m, m <= R[Len(R)][2]
        PROVE  m \in Range(C)
    <3>1. m \in R[Len(R)][1]..R[Len(R)][2]
      BY <2>3, <2>4, <2>5
    <3>2. m \in Held(R, Len(R))
      BY <2>1, <3>1 DEF Held
    <3> QED
      BY <1>4, <3>2
  <2> QED
    BY <2>3, <2>5
<1> QED
  BY <1>5, <1>6 DEF C, R

\* The lines within the context of the lines in T, of an output that has total,
\* and what a search shows of the matches it selects.
Around(T, p, total) ==
    {i \in 0..(total - 1) : \E m \in T : m <= i + p.before /\ i <= m + p.after}
ShownOf(s, p, total) ==
    IF HasContext(p) THEN ContextLines(ContextRanges(s, p, total)) ELSE s

\* A search shows the lines around the matches it selects, each of them once
\* and in order.
LEMMA SelectedShown ==
    ASSUME NEW total \in Nat, NEW s, NEW T, Lists(s, T), T \subseteq 0..(total - 1),
           NEW p, p.before \in Nat, p.after \in Nat
    PROVE  Lists(ShownOf(s, p, total), Around(T, p, total))
<1>1. /\ s \in Seq(Nat) /\ Len(s) \in Nat /\ \A i \in 1..Len(s) : s[i] \in T
      /\ \A i, j \in 1..Len(s) : i < j => s[i] < s[j]
      /\ T = {s[i] : i \in 1..Len(s)}
  BY LenProperties DEF Lists
<1>2. Context(s, Len(s), p, total) = Around(T, p, total)
  BY <1>1 DEF Context, Around
<1>3. CASE HasContext(p)
  <2> DEFINE R == ContextRanges(s, p, total)
  <2>1. Increasing(s, total)
    BY <1>1 DEF Increasing
  <2>2. Ordered(R) /\ Held(R, Len(R)) = Context(s, Len(s), p, total)
    BY <2>1, ContextRangesHold
  <2> HIDE DEF R
  <2>3. Lists(ContextLines(R), Held(R, Len(R)))
    BY <2>2, ContextLinesList
  <2> QED
    BY <1>2, <1>3, <2>2, <2>3 DEF R, ShownOf
<1>4. CASE ~HasContext(p)
  <2>1. p.before = 0 /\ p.after = 0
    BY <1>4 DEF HasContext
  <2>2. Around(T, p, total) = T
    <3>1. \A i \in 0..(total - 1), m \in T : m <= i + 0 /\ i <= m + 0 <=> i = m
      OBVIOUS
    <3> QED
      BY <2>1, <3>1 DEF Around
  <2> QED
    BY <1>4, <2>2 DEF ShownOf
<1> QED
  BY <1>3, <1>4

\* The first n of the matches are matches, and come before the others.
LEMMA TakeFirstLemma ==
    ASSUME NEW s \in Seq(Nat), NEW n \in Nat
    PROVE  /\ TakeFirst(s, n) \in Seq(Nat)
           /\ Len(TakeFirst(s, n)) = Lower(n, Len(s)) /\ Lower(n, Len(s)) \in Nat
           /\ \A i \in 1..Lower(n, Len(s)) : i \in 1..Len(s) /\ TakeFirst(s, n)[i] = s[i]
<1> DEFINE k == Lower(n, Len(s))
<1>1. Len(s) \in Nat /\ k \in Nat /\ k <= Len(s)
  BY LenProperties DEF Lower
<1> HIDE DEF k
<1>2. \A i \in 1..k : i \in 1..Len(s) /\ s[i] \in Nat
  <2>1. \A i \in 1..k : i \in 1..Len(s)
    BY <1>1
  <2> QED
    BY <2>1, ElementOfSeq
<1>3. /\ SubSeq(s, 1, k) \in Seq(Nat) /\ Len(SubSeq(s, 1, k)) = IF 1 <= k THEN k - 1 + 1 ELSE 0
      /\ \A i \in 1..(k - 1 + 1) : SubSeq(s, 1, k)[i] = s[1 + i - 1]
  <2>1. 1 \in Int /\ k \in Int
    BY <1>1
  <2> QED
    BY <1>2, <2>1, SubSeqProperties
<1>4. \A i \in 1..k : i \in 1..(k - 1 + 1) /\ 1 + i - 1 = i
  BY <1>1
<1>5. Len(SubSeq(s, 1, k)) = k
  BY <1>1, <1>3
<1>6. TakeFirst(s, n) = SubSeq(s, 1, k)
  BY DEF TakeFirst, k
<1>7. \A i \in 1..k : SubSeq(s, 1, k)[i] = s[i]
  BY <1>3, <1>4
<1>8. k \in Nat /\ \A i \in 1..k : i \in 1..Len(s)
  BY <1>1, <1>2
<1>9. /\ SubSeq(s, 1, k) \in Seq(Nat) /\ Len(SubSeq(s, 1, k)) = k /\ k \in Nat
      /\ \A i \in 1..k : i \in 1..Len(s) /\ SubSeq(s, 1, k)[i] = s[i]
  BY <1>3, <1>5, <1>7, <1>8
<1> QED
  BY <1>6, <1>9 DEF k

\* The matches that next selects, and the line up to which it looked.
LEMMA NextSelects ==
    ASSUME NEW out, out.lines \in Seq(BOOLEAN), NEW start \in Nat, NEW whole \in Nat,
           start <= whole, whole <= Len(out.lines), NEW wanted \in Nat, wanted > 0
    PROVE  LET ahead == Matching(out, start, whole)
               selected == TakeFirst(ahead, wanted)
               scanned == IF Len(ahead) >= wanted THEN Last(selected) + 1 ELSE whole
           IN  /\ Increasing(selected, Len(out.lines)) /\ Len(selected) \in Nat
               /\ scanned \in start..whole
               /\ \A m \in start..(scanned - 1) :
                     out.lines[m + 1] => \E x \in 1..Len(selected) : selected[x] = m
               /\ scanned # whole => Len(selected) > 0 /\ scanned = selected[Len(selected)] + 1
<1> DEFINE ahead == Matching(out, start, whole)
           selected == TakeFirst(ahead, wanted)
           scanned == IF Len(ahead) >= wanted THEN Last(selected) + 1 ELSE whole
           total == Len(out.lines)
<1>1. total \in Nat /\ Finds(ahead, out, start, whole)
  <2>1. total \in Nat
    BY LenProperties
  <2>2. whole \in 0..total
    BY <2>1
  <2> QED
    BY <2>1, <2>2, MatchingFinds
<1> HIDE DEF ahead, total
<1>2. /\ ahead \in Seq(Nat) /\ Len(ahead) \in Nat
      /\ \A i \in 1..Len(ahead) : ahead[i] \in start..(whole - 1)
      /\ \A i, j \in 1..Len(ahead) : i < j => ahead[i] < ahead[j]
      /\ \A m \in start..(whole - 1) : out.lines[m + 1] => \E i \in 1..Len(ahead) : ahead[i] = m
  <2>1. ahead \in Seq(Nat)
    BY <1>1, Zenon DEF Finds
  <2>2. Len(ahead) \in Nat
    BY <2>1, LenProperties
  <2>3. /\ \A i \in 1..Len(ahead) : ahead[i] \in start..(whole - 1)
        /\ \A i, j \in 1..Len(ahead) : i < j => ahead[i] < ahead[j]
        /\ \A m \in start..(whole - 1) : out.lines[m + 1] => \E i \in 1..Len(ahead) : ahead[i] = m
    BY <1>1, Zenon DEF Finds
  <2> QED
    BY <2>1, <2>2, <2>3
<1>3. /\ selected \in Seq(Nat) /\ Len(selected) = Lower(wanted, Len(ahead))
      /\ Len(selected) \in Nat
      /\ \A i \in 1..Len(selected) : i \in 1..Len(ahead) /\ selected[i] = ahead[i]
  BY <1>2, TakeFirstLemma
<1> HIDE DEF selected
<1>4. Increasing(selected, total)
  <2>1. \A i \in 1..Len(selected) : selected[i] \in 0..(total - 1)
    <3>1. \A i \in 1..Len(selected) : selected[i] \in start..(whole - 1)
      BY <1>2, <1>3
    <3>2. \A m \in start..(whole - 1) : m \in 0..(total - 1)
      BY <1>1 DEF total
    <3> QED
      BY <3>1, <3>2
  <2>2. \A i, j \in 1..Len(selected) : i < j => selected[i] < selected[j]
    BY <1>2, <1>3
  <2> QED
    BY <1>3, <2>1, <2>2, Zenon DEF Increasing
<1>5. CASE Len(ahead) >= wanted
  <2>1. /\ Len(selected) = wanted /\ wanted \in 1..Len(selected) /\ wanted \in 1..Len(ahead)
    BY <1>2, <1>3, <1>5 DEF Lower
  <2>2. /\ Last(selected) = selected[wanted] /\ selected[wanted] = ahead[wanted]
    BY <1>3, <2>1 DEF Last
  <2>3. scanned = ahead[wanted] + 1
    BY <1>5, <2>2
  <2>4. ahead[wanted] \in start..(whole - 1)
    BY <1>2, <2>1
  <2> HIDE DEF scanned
  <2>5. scanned \in start..whole
    BY <2>3, <2>4
  <2>6. ASSUME NEW m \in start..(scanned - 1), out.lines[m + 1]
        PROVE  \E x \in 1..Len(selected) : selected[x] = m
    <3>1. m \in start..(whole - 1) /\ m <= ahead[wanted]
      BY <2>3, <2>4
    <3>2. PICK i \in 1..Len(ahead) : ahead[i] = m
      BY <1>2, <2>6, <3>1
    <3>3. ~(wanted < i)
      <4>1. wanted < i => ahead[wanted] < ahead[i]
        BY <1>2, <2>1
      <4> QED
        BY <2>4, <3>1, <3>2, <4>1
    <3>4. i \in 1..Len(selected)
      BY <1>2, <2>1, <3>3
    <3>5. selected[i] = m
      BY <1>3, <3>2, <3>4
    <3> QED
      BY <3>4, <3>5
  <2>7. Len(selected) > 0 /\ scanned = selected[Len(selected)] + 1
    BY <2>1, <2>2, <2>3
  <2> QED
    BY <1>3, <1>4, <2>5, <2>6, <2>7 DEF ahead, selected, scanned, total
<1>6. CASE ~(Len(ahead) >= wanted)
  <2>1. scanned = whole
    BY <1>6
  <2>2. Len(selected) = Len(ahead)
    BY <1>2, <1>3, <1>6 DEF Lower
  <2> HIDE DEF scanned
  <2>3. \A m \in start..(scanned - 1) :
           out.lines[m + 1] => \E x \in 1..Len(selected) : selected[x] = m
    <3> SUFFICES ASSUME NEW m \in start..(whole - 1), out.lines[m + 1]
                 PROVE  \E x \in 1..Len(selected) : selected[x] = m
      BY <2>1
    <3>1. PICK i \in 1..Len(ahead) : ahead[i] = m
      BY <1>2
    <3> QED
      BY <1>3, <2>2, <3>1
  <2>4. scanned \in start..whole
    BY <2>1
  <2> QED
    BY <1>3, <1>4, <2>1, <2>3, <2>4 DEF ahead, selected, scanned, total
<1> QED
  BY <1>5, <1>6

\* An output, and the parameters of a read, as far as the reading goes.
OutputOK(o) == o \in [lines : Seq(BOOLEAN), open : BOOLEAN, done : BOOLEAN]
               /\ (o.open => Len(o.lines) > 0)
ParamsOK(p) == /\ p.window \in SUBSET ({"next", "head", "tail"} \X Nat)
               /\ \A v, w \in p.window : v = w
               /\ p.before \in Nat /\ p.after \in Nat

\* A read does not go back, nor past what may be consumed, and each line it
\* goes past is shown or was searched and does not match.
GoodRead(r, out, done, cursor) ==
    /\ r.cursor \in Nat /\ r.total = Len(out.lines)
    /\ cursor <= Len(out.lines) => r.cursor <= Len(out.lines)
    /\ cursor <= Consumable(out, done) => cursor <= r.cursor /\ r.cursor <= Consumable(out, done)
    /\ \A m \in 0..(r.cursor - 1) :
          \/ m < cursor
          \/ /\ m < Consumable(out, done)
             /\ m \in Range(r.lines) \/ (m \in r.searched /\ ~out.lines[m + 1])

\* The window a read asks for is of one kind at most.
LEMMA Windows ==
    ASSUME NEW p, ParamsOK(p)
    PROVE  /\ Is(p, "next") => /\ Count(p) \in Nat /\ ~Bare(p)
                               /\ ~Is(p, "head") /\ ~Is(p, "tail")
           /\ Bare(p) => ~Is(p, "next") /\ ~Is(p, "head") /\ ~Is(p, "tail")
<1>1. Is(p, "next") => Count(p) \in Nat
  <2> SUFFICES ASSUME Is(p, "next")
               PROVE  Count(p) \in Nat
    OBVIOUS
  <2> DEFINE w == CHOOSE w \in p.window : TRUE
  <2>1. w \in p.window
    BY DEF Is
  <2>2. w \in {"next", "head", "tail"} \X Nat
    BY <2>1 DEF ParamsOK
  <2> HIDE DEF w
  <2>3. w[2] \in Nat
    BY <2>2
  <2> QED
    BY <2>3 DEF Count, w
<1> QED
  BY <1>1 DEF Is, Bare, ParamsOK

\* What may be consumed of an output is a number of its lines.
LEMMA ConsumableLemma ==
    ASSUME NEW out, OutputOK(out), NEW done
    PROVE  /\ Len(out.lines) \in Nat /\ out.lines \in Seq(BOOLEAN)
           /\ Consumable(out, done) \in Nat /\ Consumable(out, done) <= Len(out.lines)
<1>1. out.lines \in Seq(BOOLEAN) /\ Len(out.lines) \in Nat
  BY LenProperties DEF OutputOK
<1> QED
  BY <1>1 DEF Consumable, OutputOK

\* A range of lines shows each of them.
LEMMA LinesShown ==
    ASSUME NEW from \in Nat, NEW to \in Nat, NEW m \in from..(to - 1)
    PROVE  m \in Range(LineRange(from, to))
<1>1. PICK x \in 1..Len(LineRange(from, to)) : LineRange(from, to)[x] = m
  BY LineRangeLemma
<1>2. LineRange(from, to) \in Seq(Nat)
  BY LineRangeLemma
<1> QED
  BY <1>1, <1>2, InRange

\* apply_read_params without search.
LEMMA PlainReadLemma ==
    ASSUME NEW out, OutputOK(out), NEW done, NEW cursor \in Nat, NEW p, ParamsOK(p)
    PROVE  GoodRead(PlainRead(out, done, cursor, p), out, done, cursor)
<1> DEFINE r == PlainRead(out, done, cursor, p)
           total == Len(out.lines)
           whole == Consumable(out, done)
           start == Lower(cursor, whole)
<1>1. total \in Nat /\ whole \in Nat /\ whole <= total
  BY ConsumableLemma
<1>2. /\ start \in Nat /\ start <= whole /\ start <= cursor
      /\ cursor <= whole => start = cursor
  BY <1>1 DEF Lower
<1> HIDE DEF whole, start
<1>3. CASE Is(p, "next")
  <2> DEFINE to == Lower(whole, start + Count(p))
  <2>1. to \in Nat /\ start <= to /\ to <= whole
    BY <1>1, <1>2, <1>3, Windows DEF Lower
  <2>2. r.cursor = to /\ r.total = total /\ r.lines = LineRange(start, to)
    BY <1>3, Windows DEF PlainRead, whole, start
  <2> HIDE DEF r, to
  <2>3. ASSUME NEW m \in 0..(to - 1), ~(m < cursor)
        PROVE  m < whole /\ m \in Range(r.lines)
    <3>1. m \in start..(to - 1)
      BY <1>2, <2>1, <2>3
    <3> QED
      BY <1>1, <1>2, <2>1, <2>2, <3>1, LinesShown
  <2> QED
    BY <1>1, <1>2, <2>1, <2>2, <2>3 DEF GoodRead, whole, r
<1>4. CASE Bare(p)
  <2>1. r.cursor = whole /\ r.total = total /\ r.lines = LineRange(0, total)
    BY <1>4, Windows DEF PlainRead, whole
  <2> HIDE DEF r
  <2>2. ASSUME NEW m \in 0..(whole - 1)
        PROVE  m < whole /\ m \in Range(r.lines)
    BY <1>1, <2>1, LinesShown
  <2> QED
    BY <1>1, <2>1, <2>2 DEF GoodRead, whole, r
<1>5. CASE ~Is(p, "next") /\ ~Bare(p)
  <2>1. r.cursor = cursor /\ r.total = total
    BY <1>5 DEF PlainRead
  <2> QED
    BY <1>1, <2>1 DEF GoodRead, whole
<1> QED
  BY <1>3, <1>4, <1>5

\* apply_read_params with search.
LEMMA SearchReadLemma ==
    ASSUME NEW out, OutputOK(out), NEW done, NEW cursor \in Nat, NEW p, ParamsOK(p)
    PROVE  GoodRead(SearchRead(out, done, cursor, p), out, done, cursor)
<1> DEFINE r == SearchRead(out, done, cursor, p)
           total == Len(out.lines)
           whole == Consumable(out, done)
           start == Lower(cursor, whole)
<1>1. total \in Nat /\ whole \in Nat /\ whole <= total /\ out.lines \in Seq(BOOLEAN)
  BY ConsumableLemma
<1>2. /\ start \in Nat /\ start <= whole /\ start <= cursor
      /\ cursor <= whole => start = cursor
  BY <1>1 DEF Lower
<1>3. p.before \in Nat /\ p.after \in Nat
  BY DEF ParamsOK
<1> HIDE DEF whole, start
<1>4. CASE Is(p, "next")
  <2> DEFINE wanted == Higher(Count(p), 1)
             ahead == Matching(out, start, whole)
             selected == TakeFirst(ahead, wanted)
             scanned == IF Len(ahead) >= wanted THEN Last(selected) + 1 ELSE whole
             ranges == ContextRanges(selected, p, total)
             lines == IF HasContext(p) THEN ContextLines(ranges) ELSE selected
             shownTo == IF ranges = <<>> THEN scanned ELSE Last(ranges)[2] + 1
             to == IF HasContext(p) THEN Lower(Higher(scanned, shownTo), whole) ELSE scanned
  <2>1. wanted \in Nat /\ wanted > 0
    BY <1>4, Windows DEF Higher
  <2>2. /\ r.cursor = to /\ r.total = total /\ r.lines = lines
        /\ r.searched = start..(scanned - 1)
    BY <1>4, Windows DEF SearchRead, whole, start
  <2> HIDE DEF wanted
  <2>3. /\ Increasing(selected, total) /\ Len(selected) \in Nat
        /\ scanned \in start..whole
        /\ \A m \in start..(scanned - 1) :
              out.lines[m + 1] => \E x \in 1..Len(selected) : selected[x] = m
        /\ scanned # whole => Len(selected) > 0 /\ scanned = selected[Len(selected)] + 1
    BY <1>1, <1>2, <2>1, NextSelects
  <2> HIDE DEF r, selected, scanned
  <2>4. /\ \A x \in 1..Len(selected) : selected[x] \in Range(ContextLines(ranges))
        /\ ranges # <<>> =>
             /\ Last(ranges)[2] \in Nat
             /\ \A m \in Nat : selected[Len(selected)] <= m /\ m <= Last(ranges)[2] =>
                    m \in Range(ContextLines(ranges))
    BY <1>1, <1>3, <2>3, ContextShown
  <2>5. selected \in Seq(Nat) /\ \A x \in 1..Len(selected) : selected[x] \in Nat
    <3>1. selected \in Seq(Nat)
      BY <2>3, Zenon DEF Increasing
    <3> QED
      BY <3>1, ElementOfSeq
  <2>6. \A x \in 1..Len(selected) : selected[x] \in Range(lines)
    BY <2>4, <2>5, InRange
  <2>7. \A m \in start..(scanned - 1) :
           m \in Range(r.lines) \/ (m \in r.searched /\ ~out.lines[m + 1])
    <3> SUFFICES ASSUME NEW m \in start..(scanned - 1), out.lines[m + 1]
                 PROVE  m \in Range(lines)
      BY <2>2
    <3>1. PICK x \in 1..Len(selected) : selected[x] = m
      BY <2>3
    <3> QED
      BY <2>6, <3>1
  <2>8. scanned \in Nat /\ start <= scanned /\ scanned <= whole
    BY <1>1, <1>2, <2>3
  <2> HIDE DEF ranges
  <2>9. shownTo \in Nat
    BY <2>4, <2>8
  <2>10. /\ to \in Nat /\ scanned <= to /\ to <= whole
         /\ scanned < to => HasContext(p) /\ scanned # whole /\ ranges # <<>> /\ to <= Last(ranges)[2] + 1
    BY <1>1, <2>4, <2>8, <2>9 DEF Lower, Higher
  <2> HIDE DEF to
  <2>11. ASSUME NEW m \in scanned..(to - 1)
         PROVE  m \in Range(r.lines)
    <3>1. scanned < to /\ m \in Nat
      BY <2>8, <2>10
    <3>2. /\ HasContext(p) /\ ranges # <<>> /\ Last(ranges)[2] \in Nat
          /\ m <= Last(ranges)[2]
      BY <2>4, <2>10, <3>1
    <3>3. scanned = selected[Len(selected)] + 1 /\ selected[Len(selected)] \in Nat
      BY <2>3, <2>5, <2>10, <3>1
    <3>4. selected[Len(selected)] <= m
      BY <3>1, <3>3
    <3>5. m \in Range(ContextLines(ranges))
      BY <2>4, <3>1, <3>2, <3>4
    <3> QED
      BY <2>2, <3>2, <3>5
  <2>12. ASSUME NEW m \in 0..(to - 1), ~(m < cursor)
         PROVE  /\ m < whole
                /\ m \in Range(r.lines) \/ (m \in r.searched /\ ~out.lines[m + 1])
    <3>1. m \in start..(scanned - 1) \/ m \in scanned..(to - 1)
      BY <1>2, <2>8, <2>10, <2>12
    <3>2. m < whole
      BY <1>1, <2>10
    <3> QED
      BY <2>7, <2>11, <3>1, <3>2
  <2> QED
    BY <1>1, <1>2, <2>2, <2>8, <2>10, <2>12 DEF GoodRead, whole, r
<1>5. CASE Bare(p)
  <2> DEFINE all == Matching(out, 0, total)
             lines == IF HasContext(p) THEN ContextLines(ContextRanges(all, p, total)) ELSE all
  <2>1. /\ r.cursor = whole /\ r.total = total /\ r.lines = lines
        /\ r.searched = 0..(total - 1)
    BY <1>5, Windows DEF SearchRead, whole
  <2>2. Finds(all, out, 0, total)
    BY <1>1, MatchingFinds
  <2> HIDE DEF r, all
  <2>3. /\ all \in Seq(Nat) /\ Increasing(all, total)
        /\ \A m \in 0..(total - 1) : out.lines[m + 1] => \E i \in 1..Len(all) : all[i] = m
    <3>1. /\ all \in Seq(Nat)
          /\ \A i \in 1..Len(all) : all[i] \in 0..(total - 1)
          /\ \A i, j \in 1..Len(all) : i < j => all[i] < all[j]
          /\ \A m \in 0..(total - 1) : out.lines[m + 1] => \E i \in 1..Len(all) : all[i] = m
      BY <2>2, Zenon DEF Finds
    <3> QED
      BY <3>1, Zenon DEF Increasing
  <2>4. \A x \in 1..Len(all) : all[x] \in Range(lines)
    BY <1>1, <1>3, <2>3, ContextShown, InRange
  <2>5. ASSUME NEW m \in 0..(whole - 1)
        PROVE  /\ m < whole
               /\ m \in Range(r.lines) \/ (m \in r.searched /\ ~out.lines[m + 1])
    <3>1. m \in 0..(total - 1) /\ m < whole
      BY <1>1
    <3>2. CASE out.lines[m + 1]
      <4>1. PICK i \in 1..Len(all) : all[i] = m
        BY <2>3, <3>1, <3>2
      <4> QED
        BY <2>1, <2>4, <3>1, <4>1
    <3>3. CASE ~out.lines[m + 1]
      BY <2>1, <3>1, <3>3
    <3> QED
      BY <3>2, <3>3
  <2> QED
    BY <1>1, <2>1, <2>5 DEF GoodRead, whole, r
<1>6. CASE ~Is(p, "next") /\ ~Bare(p)
  <2>1. r.cursor = cursor /\ r.total = total
    BY <1>6 DEF SearchRead
  <2> QED
    BY <1>1, <2>1 DEF GoodRead, whole
<1> QED
  BY <1>4, <1>5, <1>6

\* apply_read_params: a read goes past no line that it did not show or search.
LEMMA ReadLemma ==
    ASSUME NEW out, OutputOK(out), NEW done, NEW cursor \in Nat, NEW p, ParamsOK(p)
    PROVE  GoodRead(ApplyReadParams(out, done, cursor, p), out, done, cursor)
BY PlainReadLemma, SearchReadLemma DEF ApplyReadParams

-----------------------------------------------------------------------------
\* What a search shows.

\* In order, the x-th element has x - 1 before it.
LEMMA Rank ==
    ASSUME NEW s, NEW S, Lists(s, S), NEW x \in 1..Len(s)
    PROVE  /\ Cardinality({j \in S : j < s[x]}) = x - 1
           /\ Cardinality({j \in S : j > s[x]}) = Len(s) - x
<1>1. /\ Len(s) \in Nat /\ x \in Nat /\ \A i \in 1..Len(s) : s[i] \in Nat
      /\ \A i, j \in 1..Len(s) : i < j => s[i] < s[j]
      /\ S = {s[i] : i \in 1..Len(s)}
  BY LenProperties, ElementOfSeq DEF Lists
<1>2. ASSUME NEW a \in Int, NEW b \in Int, 1 <= a, b <= Len(s), NEW T, T = {s[i] : i \in a..b}
      PROVE  Cardinality(T) = IF a > b THEN 0 ELSE b - a + 1
  <2> DEFINE f == [i \in a..b |-> s[i]]
  <2>1. f \in Bijection(a..b, T)
    <3>1. \A i \in a..b : i \in 1..Len(s)
      BY <1>1, <1>2
    <3>2. f \in [a..b -> T]
      BY <1>2
    <3>3. \A i, j \in a..b : f[i] = f[j] => i = j
      <4> SUFFICES ASSUME NEW i \in a..b, NEW j \in a..b, s[i] = s[j]
                   PROVE  i = j
        OBVIOUS
      <4>1. i \in 1..Len(s) /\ j \in 1..Len(s) /\ s[i] \in Nat /\ s[j] \in Nat
        BY <1>1, <3>1
      <4>2. ~(i < j) /\ ~(j < i)
        BY <1>1, <4>1
      <4> QED
        BY <4>2
    <3>4. \A t \in T : \E i \in a..b : f[i] = t
      BY <1>2
    <3> HIDE DEF f
    <3>5. f \in Injection(a..b, T)
      BY <3>2, <3>3, Fun_IsInj
    <3> QED
      BY <3>2, <3>4, <3>5, Fun_IsBij
  <2>2. ExistsBijection(a..b, T)
    BY <2>1 DEF ExistsBijection
  <2>3. IsFiniteSet(a..b) /\ Cardinality(a..b) = IF a > b THEN 0 ELSE b - a + 1
    BY FS_Interval
  <2> QED
    BY <2>2, <2>3, FS_Bijection
<1>3. {j \in S : j < s[x]} = {s[i] : i \in 1..(x - 1)}
  <2>1. \A i \in 1..Len(s) : s[i] < s[x] <=> i \in 1..(x - 1)
    <3> SUFFICES ASSUME NEW i \in 1..Len(s)
                 PROVE  s[i] < s[x] <=> i \in 1..(x - 1)
      OBVIOUS
    <3>1. s[i] \in Nat /\ s[x] \in Nat /\ (i < x => s[i] < s[x]) /\ (x < i => s[x] < s[i])
      BY <1>1
    <3> QED
      BY <1>1, <3>1
  <2>2. \A i \in 1..(x - 1) : i \in 1..Len(s)
    BY <1>1
  <2> QED
    BY <1>1, <2>1, <2>2
<1>4. {j \in S : j > s[x]} = {s[i] : i \in (x + 1)..Len(s)}
  <2>1. \A i \in 1..Len(s) : s[i] > s[x] <=> i \in (x + 1)..Len(s)
    <3> SUFFICES ASSUME NEW i \in 1..Len(s)
                 PROVE  s[i] > s[x] <=> i \in (x + 1)..Len(s)
      OBVIOUS
    <3>1. s[i] \in Nat /\ s[x] \in Nat /\ (i < x => s[i] < s[x]) /\ (x < i => s[x] < s[i])
      BY <1>1
    <3> QED
      BY <1>1, <3>1
  <2>2. \A i \in (x + 1)..Len(s) : i \in 1..Len(s)
    BY <1>1
  <2> QED
    BY <1>1, <2>1, <2>2
<1>5. Cardinality({j \in S : j < s[x]}) = x - 1
  <2>1. 1 \in Int /\ x - 1 \in Int /\ 1 <= 1 /\ x - 1 <= Len(s)
    BY <1>1
  <2>2. Cardinality({j \in S : j < s[x]}) = IF 1 > x - 1 THEN 0 ELSE (x - 1) - 1 + 1
    BY <1>2, <1>3, <2>1
  <2> QED
    BY <1>1, <2>2
<1>6. Cardinality({j \in S : j > s[x]}) = Len(s) - x
  <2>1. x + 1 \in Int /\ Len(s) \in Int /\ 1 <= x + 1 /\ Len(s) <= Len(s)
    BY <1>1
  <2>2. Cardinality({j \in S : j > s[x]}) = IF x + 1 > Len(s) THEN 0 ELSE Len(s) - (x + 1) + 1
    BY <1>2, <1>4, <2>1
  <2> QED
    BY <1>1, <2>2
<1> QED
  BY <1>5, <1>6

\* The first n of S.
LEMMA FirstOnes ==
    ASSUME NEW s, NEW S, Lists(s, S), NEW n \in Nat
    PROVE  Lists(TakeFirst(s, n), {i \in S : Cardinality({j \in S : j < i}) < n})
<1> DEFINE k == Lower(n, Len(s))
           t == TakeFirst(s, n)
           T == {i \in S : Cardinality({j \in S : j < i}) < n}
<1>1. /\ s \in Seq(Nat) /\ Len(s) \in Nat /\ S = {s[i] : i \in 1..Len(s)}
      /\ \A i, j \in 1..Len(s) : i < j => s[i] < s[j]
  BY LenProperties DEF Lists
<1>2. /\ t \in Seq(Nat) /\ Len(t) = k /\ k \in Nat
      /\ \A i \in 1..k : i \in 1..Len(s) /\ t[i] = s[i]
  BY <1>1, TakeFirstLemma
<1>3. \A i \in 1..Len(s) : i \in 1..k <=> i - 1 < n
  BY <1>1 DEF Lower
<1> HIDE DEF t, k
<1>4. \A x \in 1..Len(s) : s[x] \in T <=> x \in 1..k
  <2> SUFFICES ASSUME NEW x \in 1..Len(s)
               PROVE  s[x] \in T <=> x \in 1..k
    OBVIOUS
  <2>1. Cardinality({j \in S : j < s[x]}) = x - 1
    BY Rank
  <2> QED
    BY <1>1, <1>3, <2>1
<1>5. T \subseteq {s[i] : i \in 1..Len(s)}
  BY <1>1
<1> HIDE DEF T
<1>6. T = {t[i] : i \in 1..Len(t)}
  BY <1>2, <1>4, <1>5
<1>7. \A i, j \in 1..Len(t) : i < j => t[i] < t[j]
  BY <1>1, <1>2
<1> QED
  BY <1>2, <1>6, <1>7 DEF Lists, t, T

\* The last n of S.
LEMMA LastOnes ==
    ASSUME NEW s, NEW S, Lists(s, S), NEW n \in Nat
    PROVE  Lists(TakeLast(s, n), {i \in S : Cardinality({j \in S : j > i}) < n})
<1> DEFINE k == Lower(n, Len(s))
           b == Len(s) - k
           t == TakeLast(s, n)
           T == {i \in S : Cardinality({j \in S : j > i}) < n}
<1>1. /\ s \in Seq(Nat) /\ Len(s) \in Nat /\ S = {s[i] : i \in 1..Len(s)}
      /\ \A i, j \in 1..Len(s) : i < j => s[i] < s[j]
      /\ \A i \in 1..Len(s) : s[i] \in Nat
  BY LenProperties, ElementOfSeq DEF Lists
<1>2. k \in Nat /\ k <= Len(s) /\ b \in Nat /\ b + k = Len(s)
  BY <1>1 DEF Lower
<1>3. \A i \in 1..Len(s) : i \in (b + 1)..Len(s) <=> Len(s) - i < n
  BY <1>1 DEF Lower
<1>t. t = SubSeq(s, b + 1, Len(s))
  BY DEF TakeLast
<1> HIDE DEF k, b, t
<1>4. /\ t \in Seq(Nat) /\ Len(t) = k
      /\ \A i \in 1..k : i + b \in 1..Len(s) /\ t[i] = s[i + b]
  <2>1. b + 1 \in Int /\ Len(s) \in Int /\ \A i \in (b + 1)..Len(s) : i \in 1..Len(s)
    BY <1>1, <1>2
  <2>2. /\ SubSeq(s, b + 1, Len(s)) \in Seq(Nat)
        /\ Len(SubSeq(s, b + 1, Len(s))) = IF b + 1 <= Len(s) THEN Len(s) - (b + 1) + 1 ELSE 0
        /\ \A i \in 1..(Len(s) - (b + 1) + 1) : SubSeq(s, b + 1, Len(s))[i] = s[(b + 1) + i - 1]
    BY <1>1, <2>1, SubSeqProperties
  <2>3. Len(s) - (b + 1) + 1 = k /\ (IF b + 1 <= Len(s) THEN Len(s) - (b + 1) + 1 ELSE 0) = k
    BY <1>1, <1>2
  <2>4. \A i \in 1..k : (b + 1) + i - 1 = i + b /\ i + b \in 1..Len(s)
    BY <1>1, <1>2
  <2>5. \A i \in 1..k : t[i] = s[(b + 1) + i - 1]
    BY <1>t, <2>2, <2>3
  <2> QED
    BY <1>t, <2>2, <2>3, <2>4, <2>5
<1>5. \A x \in 1..Len(s) : s[x] \in T <=> x \in (b + 1)..Len(s)
  <2> SUFFICES ASSUME NEW x \in 1..Len(s)
               PROVE  s[x] \in T <=> x \in (b + 1)..Len(s)
    OBVIOUS
  <2>1. Cardinality({j \in S : j > s[x]}) = Len(s) - x
    BY Rank
  <2> QED
    BY <1>1, <1>3, <2>1
<1>6. T \subseteq {s[i] : i \in 1..Len(s)}
  BY <1>1
<1> HIDE DEF T
<1>7. T = {t[i] : i \in 1..Len(t)}
  <2>1. \A i \in 1..k : t[i] \in T
    <3> SUFFICES ASSUME NEW i \in 1..k
                 PROVE  t[i] \in T
      OBVIOUS
    <3>1. i + b \in (b + 1)..Len(s) /\ i + b \in 1..Len(s) /\ t[i] = s[i + b]
      BY <1>1, <1>2, <1>4
    <3> QED
      BY <1>5, <3>1
  <2>2. \A u \in T : \E i \in 1..k : t[i] = u
    <3> SUFFICES ASSUME NEW u \in T
                 PROVE  \E i \in 1..k : t[i] = u
      OBVIOUS
    <3>1. PICK x \in 1..Len(s) : u = s[x]
      BY <1>6
    <3>2. x \in (b + 1)..Len(s)
      BY <1>5, <3>1
    <3>3. x - b \in 1..k /\ (x - b) + b = x
      BY <1>1, <1>2, <3>2
    <3>4. t[x - b] = s[(x - b) + b]
      BY <1>4, <3>3
    <3> QED
      BY <3>1, <3>3, <3>4
  <2> QED
    BY <1>4, <2>1, <2>2
<1>8. \A i, j \in 1..Len(t) : i < j => t[i] < t[j]
  <2> SUFFICES ASSUME NEW i \in 1..k, NEW j \in 1..k, i < j
               PROVE  t[i] < t[j]
    BY <1>4
  <2>1. i + b \in 1..Len(s) /\ j + b \in 1..Len(s) /\ i + b < j + b
    BY <1>2, <1>4
  <2> QED
    BY <1>1, <1>4, <2>1
<1> QED
  BY <1>4, <1>7, <1>8 DEF Lists, t, T

\* The lines of an output that match, in a part of it.
Hits(out, from, to) == {i \in from..(to - 1) : out.lines[i + 1]}

\* matching_lines lists the lines that match.
LEMMA MatchingLists ==
    ASSUME NEW out, out.lines \in Seq(BOOLEAN), NEW from \in Nat, NEW to \in 0..Len(out.lines)
    PROVE  Lists(Matching(out, from, to), Hits(out, from, to))
<1> DEFINE s == Matching(out, from, to)
<1>1. Finds(s, out, from, to)
  BY MatchingFinds
<1> HIDE DEF s
<1>2. /\ s \in Seq(Nat)
      /\ \A i \in 1..Len(s) : s[i] \in from..(to - 1) /\ out.lines[s[i] + 1]
      /\ \A i, j \in 1..Len(s) : i < j => s[i] < s[j]
      /\ \A m \in from..(to - 1) : out.lines[m + 1] => \E i \in 1..Len(s) : s[i] = m
  BY <1>1, Zenon DEF Finds
<1>3. Hits(out, from, to) = {s[i] : i \in 1..Len(s)}
  BY <1>2 DEF Hits
<1> QED
  BY <1>2, <1>3 DEF Lists, s

\* What the matches are counted in, and how many are wanted.
LEMMA SelectedIs ==
    ASSUME NEW out, OutputOK(out), NEW done, NEW cursor \in Nat, NEW p, ParamsOK(p)
    PROVE  LET total == Len(out.lines)
               whole == Consumable(out, done)
               start == Lower(cursor, whole)
               ahead == Hits(out, start, whole)
               all == Hits(out, 0, total)
               left == Hits(out, TailFrom(cursor, total), total)
           IN  Selected(out, done, cursor, p) =
                 IF Is(p, "next")
                   THEN {i \in ahead : Cardinality({j \in ahead : j < i}) < Higher(Count(p), 1)}
                 ELSE IF Is(p, "head")
                   THEN {i \in all : Cardinality({j \in all : j < i}) < Count(p)}
                 ELSE IF Is(p, "tail")
                   THEN {i \in left : Cardinality({j \in left : j > i}) < Count(p)}
                 ELSE all
<1> DEFINE total == Len(out.lines)
           whole == Consumable(out, done)
           start == Lower(cursor, whole)
           tail == TailFrom(cursor, total)
           matches == {i \in 0..(total - 1) : out.lines[i + 1]}
           ahead == {i \in matches : i >= cursor /\ i < whole}
           left == {i \in matches : i >= tail}
<1>1. total \in Nat /\ whole \in Nat /\ whole <= total
  BY ConsumableLemma
<1>2. matches = Hits(out, 0, total)
  BY DEF Hits
<1>3. ahead = Hits(out, start, whole)
  <2>1. \A i : i \in 0..(total - 1) /\ i >= cursor /\ i < whole <=> i \in start..(whole - 1)
    BY <1>1 DEF Lower
  <2> HIDE DEF total, whole, start
  <2> QED
    BY <2>1 DEF Hits
<1>4. left = Hits(out, tail, total)
  <2>1. tail \in Nat
    BY <1>1 DEF TailFrom
  <2>2. \A i : i \in 0..(total - 1) /\ i >= tail <=> i \in tail..(total - 1)
    BY <1>1, <2>1
  <2> HIDE DEF total, tail
  <2> QED
    BY <2>2 DEF Hits
<1>5. Selected(out, done, cursor, p) =
        CASE Is(p, "next") -> {i \in ahead : Cardinality({j \in ahead : j < i}) < Higher(Count(p), 1)}
          [] Is(p, "head") -> {i \in matches : Cardinality({j \in matches : j < i}) < Count(p)}
          [] Is(p, "tail") -> {i \in left : Cardinality({j \in left : j > i}) < Count(p)}
          [] OTHER -> matches
  BY DEF Selected
<1>6. ~(Is(p, "next") /\ Is(p, "head")) /\ ~(Is(p, "next") /\ Is(p, "tail"))
      /\ ~(Is(p, "head") /\ Is(p, "tail"))
  BY DEF Is, ParamsOK
<1> HIDE DEF total, whole, start, tail, matches, ahead, left
<1> QED
  BY <1>2, <1>3, <1>4, <1>5, <1>6 DEF total, whole, start, tail

\* apply_read_params with search shows the lines within the context of the
\* matches it selects, in order.
LEMMA SearchShows ==
    ASSUME NEW out, OutputOK(out), NEW done, NEW cursor \in Nat, NEW p, ParamsOK(p)
    PROVE  Lists(SearchRead(out, done, cursor, p).lines,
                 Around(Selected(out, done, cursor, p), p, Len(out.lines)))
<1> DEFINE total == Len(out.lines)
           whole == Consumable(out, done)
           start == Lower(cursor, whole)
           tail == TailFrom(cursor, total)
           r == SearchRead(out, done, cursor, p)
           Shown(s) == ShownOf(s, p, total)
           T == Selected(out, done, cursor, p)
           ahead == Hits(out, start, whole)
           all == Hits(out, 0, total)
           left == Hits(out, tail, total)
           first == {i \in ahead : Cardinality({j \in ahead : j < i}) < Higher(Count(p), 1)}
           head == {i \in all : Cardinality({j \in all : j < i}) < Count(p)}
           last == {i \in left : Cardinality({j \in left : j > i}) < Count(p)}
<1>1. total \in Nat /\ whole \in Nat /\ whole <= total /\ out.lines \in Seq(BOOLEAN)
  BY ConsumableLemma
<1>2. /\ start \in Nat /\ tail \in Nat /\ whole \in 0..total /\ total \in 0..total
  BY <1>1 DEF Lower, TailFrom
<1>3. p.before \in Nat /\ p.after \in Nat
  BY DEF ParamsOK
<1>4. /\ ~(Is(p, "next") /\ Is(p, "head")) /\ ~(Is(p, "next") /\ Is(p, "tail"))
      /\ ~(Is(p, "head") /\ Is(p, "tail"))
  BY DEF Is, ParamsOK
<1>5. p.window # {} => Count(p) \in Nat
  <2> SUFFICES ASSUME p.window # {}
               PROVE  Count(p) \in Nat
    OBVIOUS
  <2> DEFINE w == CHOOSE w \in p.window : TRUE
  <2>1. w \in p.window
    OBVIOUS
  <2>2. w \in {"next", "head", "tail"} \X Nat
    BY <2>1 DEF ParamsOK
  <2> HIDE DEF w
  <2>3. w[2] \in Nat
    BY <2>2
  <2> QED
    BY <2>3 DEF Count, w
<1>6. Is(p, "next") \/ Is(p, "head") \/ Is(p, "tail") => Count(p) \in Nat
  BY <1>5 DEF Is
<1>7. /\ Is(p, "next") => T = first
      /\ Is(p, "head") => T = head
      /\ Is(p, "tail") => T = last
      /\ ~Is(p, "next") /\ ~Is(p, "head") /\ ~Is(p, "tail") => T = all
  <2>1. T = IF Is(p, "next") THEN first ELSE IF Is(p, "head") THEN head
            ELSE IF Is(p, "tail") THEN last ELSE all
    BY SelectedIs
  <2> HIDE DEF T, first, head, last, all
  <2> QED
    BY <1>4, <2>1
<1>8. /\ Is(p, "next") => r.lines = Shown(TakeFirst(Matching(out, start, whole), Higher(Count(p), 1)))
      /\ Is(p, "head") => r.lines = Shown(TakeFirst(Matching(out, 0, total), Count(p)))
      /\ Is(p, "tail") => r.lines = Shown(TakeLast(Matching(out, tail, total), Count(p)))
      /\ ~Is(p, "next") /\ ~Is(p, "head") /\ ~Is(p, "tail") => r.lines = Shown(Matching(out, 0, total))
  <2>1. CASE Is(p, "next")
    BY <1>4, <2>1 DEF SearchRead, ShownOf
  <2>2. CASE Is(p, "head")
    BY <1>4, <2>2 DEF SearchRead, ShownOf
  <2>3. CASE Is(p, "tail")
    BY <1>4, <2>3 DEF SearchRead, ShownOf
  <2>4. CASE ~Is(p, "next") /\ ~Is(p, "head") /\ ~Is(p, "tail")
    BY <2>4 DEF SearchRead, ShownOf
  <2> HIDE DEF r, Shown
  <2> QED
    BY <1>4, <2>1, <2>2, <2>3, <2>4
<1>9. /\ Lists(Matching(out, start, whole), ahead) /\ Lists(Matching(out, 0, total), all)
      /\ Lists(Matching(out, tail, total), left)
  BY <1>1, <1>2, MatchingLists
<1>10. ahead \subseteq 0..(total - 1) /\ all \subseteq 0..(total - 1) /\ left \subseteq 0..(total - 1)
  BY <1>1, <1>2 DEF Hits
<1>11. \E s : r.lines = Shown(s) /\ Lists(s, T) /\ T \subseteq 0..(total - 1)
  <2> HIDE DEF r, Shown, T, ahead, all, left, total, whole, start, tail
  <2>1. CASE Is(p, "next")
    <3> DEFINE n == Higher(Count(p), 1)
    <3>1. n \in Nat
      BY <1>6, <2>1 DEF Higher
    <3> HIDE DEF n
    <3>2. Lists(TakeFirst(Matching(out, start, whole), n), {i \in ahead : Cardinality({j \in ahead : j < i}) < n})
      BY <1>9, <3>1, FirstOnes
    <3>3. Lists(TakeFirst(Matching(out, start, whole), Higher(Count(p), 1)), T)
      BY <1>7, <2>1, <3>2 DEF n
    <3> QED
      BY <1>7, <1>8, <1>10, <2>1, <3>3
  <2>2. CASE Is(p, "head")
    <3> DEFINE n == Count(p)
    <3>1. n \in Nat
      BY <1>6, <2>2
    <3> HIDE DEF n
    <3>2. Lists(TakeFirst(Matching(out, 0, total), n), {i \in all : Cardinality({j \in all : j < i}) < n})
      <4> DEFINE s == Matching(out, 0, total)
      <4>1. Lists(s, all)
        BY <1>9
      <4> HIDE DEF s
      <4>2. Lists(TakeFirst(s, n), {i \in all : Cardinality({j \in all : j < i}) < n})
        BY <3>1, <4>1, FirstOnes
      <4> QED
        BY <4>2 DEF s
    <3>3. Lists(TakeFirst(Matching(out, 0, total), Count(p)), T)
      BY <1>7, <2>2, <3>2 DEF n
    <3> QED
      BY <1>7, <1>8, <1>10, <2>2, <3>3
  <2>3. CASE Is(p, "tail")
    <3> DEFINE n == Count(p)
    <3>1. n \in Nat
      BY <1>6, <2>3
    <3> HIDE DEF n
    <3>2. Lists(TakeLast(Matching(out, tail, total), n), {i \in left : Cardinality({j \in left : j > i}) < n})
      BY <1>9, <3>1, LastOnes
    <3>3. Lists(TakeLast(Matching(out, tail, total), Count(p)), T)
      BY <1>7, <2>3, <3>2 DEF n
    <3> QED
      BY <1>7, <1>8, <1>10, <2>3, <3>3
  <2>4. CASE ~Is(p, "next") /\ ~Is(p, "head") /\ ~Is(p, "tail")
    BY <1>7, <1>8, <1>9, <1>10, <2>4
  <2> QED
    BY <2>1, <2>2, <2>3, <2>4
<1>12. PICK s : r.lines = Shown(s) /\ Lists(s, T) /\ T \subseteq 0..(total - 1)
  BY <1>11
<1> HIDE DEF r, T, total
<1>13. Lists(ShownOf(s, p, total), Around(T, p, total))
  <2>1. total \in Nat /\ Lists(s, T) /\ T \subseteq 0..(total - 1)
    BY <1>1, <1>12
  <2> QED
    BY <1>3, <2>1, SelectedShown
<1> QED
  BY <1>12, <1>13 DEF r, T, total

-----------------------------------------------------------------------------
\* The places of the asks, the tasks and the replies.

\* The record of a task, and the updates that its steps make.
TaskOf(pc, ask, cmd, done, out, changed, late, settle) ==
    [pc |-> pc, ask |-> ask, cmd |-> cmd, done |-> done, out |-> out,
     changed |-> changed, late |-> late, settle |-> settle]
IsTask(w) == w = TaskOf(w.pc, w.ask, w.cmd, w.done, w.out, w.changed, w.late, w.settle)

\* The record after an update, written out; one lemma per update of the tasks' steps.
LEMMA SetChanged ==
    ASSUME NEW w, IsTask(w), NEW x
    PROVE  [w EXCEPT !.changed = x] =
           TaskOf(w.pc, w.ask, w.cmd, w.done, w.out, x, w.late, w.settle)
<1>1. w = TaskOf(w.pc, w.ask, w.cmd, w.done, w.out, w.changed, w.late, w.settle)
  BY DEF IsTask
<1>2. [TaskOf(w.pc, w.ask, w.cmd, w.done, w.out, w.changed, w.late, w.settle)
           EXCEPT !.changed = x] =
         TaskOf(w.pc, w.ask, w.cmd, w.done, w.out, x, w.late, w.settle)
  BY DEF TaskOf
<1> QED
  BY <1>1, <1>2, Zenon

\* A task that looked at a completed command.
LEMMA SetDone ==
    ASSUME NEW w, IsTask(w), NEW x
    PROVE  [w EXCEPT !.done = x] =
           TaskOf(w.pc, w.ask, w.cmd, x, w.out, w.changed, w.late, w.settle)
<1>1. w = TaskOf(w.pc, w.ask, w.cmd, w.done, w.out, w.changed, w.late, w.settle)
  BY DEF IsTask
<1>2. [TaskOf(w.pc, w.ask, w.cmd, w.done, w.out, w.changed, w.late, w.settle)
           EXCEPT !.done = x] =
         TaskOf(w.pc, w.ask, w.cmd, x, w.out, w.changed, w.late, w.settle)
  BY DEF TaskOf
<1> QED
  BY <1>1, <1>2, Zenon

\* A task that has its answer.
LEMMA SetOut ==
    ASSUME NEW w, IsTask(w), NEW x
    PROVE  [w EXCEPT !.out = x] =
           TaskOf(w.pc, w.ask, w.cmd, w.done, x, w.changed, w.late, w.settle)
<1>1. w = TaskOf(w.pc, w.ask, w.cmd, w.done, w.out, w.changed, w.late, w.settle)
  BY DEF IsTask
<1>2. [TaskOf(w.pc, w.ask, w.cmd, w.done, w.out, w.changed, w.late, w.settle)
           EXCEPT !.out = x] =
         TaskOf(w.pc, w.ask, w.cmd, w.done, x, w.changed, w.late, w.settle)
  BY DEF TaskOf
<1> QED
  BY <1>1, <1>2, Zenon

\* A task that read a command.
LEMMA SetJudge ==
    ASSUME NEW w, IsTask(w), NEW x, NEW y
    PROVE  [w EXCEPT !.pc = "judge", !.cmd = x, !.changed = y] =
           TaskOf("judge", w.ask, x, w.done, w.out, y, w.late, w.settle)
<1>1. w = TaskOf(w.pc, w.ask, w.cmd, w.done, w.out, w.changed, w.late, w.settle)
  BY DEF IsTask
<1>2. [TaskOf(w.pc, w.ask, w.cmd, w.done, w.out, w.changed, w.late, w.settle)
           EXCEPT !.pc = "judge"] =
         TaskOf("judge", w.ask, w.cmd, w.done, w.out, w.changed, w.late, w.settle)
  BY DEF TaskOf
<1>3. [w EXCEPT !.pc = "judge"] =
         TaskOf("judge", w.ask, w.cmd, w.done, w.out, w.changed, w.late, w.settle)
  BY <1>1, <1>2, Zenon
<1>4. [TaskOf("judge", w.ask, w.cmd, w.done, w.out, w.changed, w.late, w.settle)
           EXCEPT !.cmd = x] =
         TaskOf("judge", w.ask, x, w.done, w.out, w.changed, w.late, w.settle)
  BY DEF TaskOf
<1>5. [w EXCEPT !.pc = "judge", !.cmd = x] =
         TaskOf("judge", w.ask, x, w.done, w.out, w.changed, w.late, w.settle)
  BY <1>3, <1>4, Zenon
<1>6. [TaskOf("judge", w.ask, x, w.done, w.out, w.changed, w.late, w.settle)
           EXCEPT !.changed = y] =
         TaskOf("judge", w.ask, x, w.done, w.out, y, w.late, w.settle)
  BY DEF TaskOf
<1> QED
  BY <1>5, <1>6, Zenon

\* A task that waits.
Waits(w, x, y) == [w EXCEPT !.pc = "wait", !.out = x, !.settle = y]
\* It stays a task.
LEMMA SetWait ==
    ASSUME NEW w, IsTask(w), NEW x, NEW y
    PROVE  Waits(w, x, y) =
           TaskOf("wait", w.ask, w.cmd, w.done, x, w.changed, w.late, y)
<1>1. w = TaskOf(w.pc, w.ask, w.cmd, w.done, w.out, w.changed, w.late, w.settle)
  BY DEF IsTask
<1>2. [TaskOf(w.pc, w.ask, w.cmd, w.done, w.out, w.changed, w.late, w.settle)
           EXCEPT !.pc = "wait"] =
         TaskOf("wait", w.ask, w.cmd, w.done, w.out, w.changed, w.late, w.settle)
  BY DEF TaskOf
<1>3. [w EXCEPT !.pc = "wait"] =
         TaskOf("wait", w.ask, w.cmd, w.done, w.out, w.changed, w.late, w.settle)
  BY <1>1, <1>2, Zenon
<1>4. [TaskOf("wait", w.ask, w.cmd, w.done, w.out, w.changed, w.late, w.settle)
           EXCEPT !.out = x] =
         TaskOf("wait", w.ask, w.cmd, w.done, x, w.changed, w.late, w.settle)
  BY DEF TaskOf
<1>5. [w EXCEPT !.pc = "wait", !.out = x] =
         TaskOf("wait", w.ask, w.cmd, w.done, x, w.changed, w.late, w.settle)
  BY <1>3, <1>4, Zenon
<1>6. [TaskOf("wait", w.ask, w.cmd, w.done, x, w.changed, w.late, w.settle)
           EXCEPT !.settle = y] =
         TaskOf("wait", w.ask, w.cmd, w.done, x, w.changed, w.late, y)
  BY DEF TaskOf
<1> QED
  BY <1>5, <1>6, Zenon DEF Waits

\* A task that looks again.
LEMMA SetLook ==
    ASSUME NEW w, IsTask(w)
    PROVE  [w EXCEPT !.pc = "look"] =
           TaskOf("look", w.ask, w.cmd, w.done, w.out, w.changed, w.late, w.settle)
<1>1. w = TaskOf(w.pc, w.ask, w.cmd, w.done, w.out, w.changed, w.late, w.settle)
  BY DEF IsTask
<1>2. [TaskOf(w.pc, w.ask, w.cmd, w.done, w.out, w.changed, w.late, w.settle)
           EXCEPT !.pc = "look"] =
         TaskOf("look", w.ask, w.cmd, w.done, w.out, w.changed, w.late, w.settle)
  BY DEF TaskOf
<1> QED
  BY <1>1, <1>2, Zenon

\* A task that looks again, and settles.
LEMMA SetSettle ==
    ASSUME NEW w, IsTask(w), NEW x
    PROVE  [w EXCEPT !.pc = "look", !.settle = x] =
           TaskOf("look", w.ask, w.cmd, w.done, w.out, w.changed, w.late, x)
<1>1. w = TaskOf(w.pc, w.ask, w.cmd, w.done, w.out, w.changed, w.late, w.settle)
  BY DEF IsTask
<1>2. [TaskOf(w.pc, w.ask, w.cmd, w.done, w.out, w.changed, w.late, w.settle)
           EXCEPT !.pc = "look"] =
         TaskOf("look", w.ask, w.cmd, w.done, w.out, w.changed, w.late, w.settle)
  BY DEF TaskOf
<1>3. [w EXCEPT !.pc = "look"] =
         TaskOf("look", w.ask, w.cmd, w.done, w.out, w.changed, w.late, w.settle)
  BY <1>1, <1>2, Zenon
<1>4. [TaskOf("look", w.ask, w.cmd, w.done, w.out, w.changed, w.late, w.settle)
           EXCEPT !.settle = x] =
         TaskOf("look", w.ask, w.cmd, w.done, w.out, w.changed, w.late, x)
  BY DEF TaskOf
<1> QED
  BY <1>3, <1>4, Zenon

\* A task whose deadline passed.
LEMMA SetLate ==
    ASSUME NEW w, IsTask(w), NEW x
    PROVE  [w EXCEPT !.pc = "look", !.late = x] =
           TaskOf("look", w.ask, w.cmd, w.done, w.out, w.changed, x, w.settle)
<1>1. w = TaskOf(w.pc, w.ask, w.cmd, w.done, w.out, w.changed, w.late, w.settle)
  BY DEF IsTask
<1>2. [TaskOf(w.pc, w.ask, w.cmd, w.done, w.out, w.changed, w.late, w.settle)
           EXCEPT !.pc = "look"] =
         TaskOf("look", w.ask, w.cmd, w.done, w.out, w.changed, w.late, w.settle)
  BY DEF TaskOf
<1>3. [w EXCEPT !.pc = "look"] =
         TaskOf("look", w.ask, w.cmd, w.done, w.out, w.changed, w.late, w.settle)
  BY <1>1, <1>2, Zenon
<1>4. [TaskOf("look", w.ask, w.cmd, w.done, w.out, w.changed, w.late, w.settle)
           EXCEPT !.late = x] =
         TaskOf("look", w.ask, w.cmd, w.done, w.out, w.changed, x, w.settle)
  BY DEF TaskOf
<1> QED
  BY <1>3, <1>4, Zenon

\* The fields of a task written out.
LEMMA Fields ==
    ASSUME NEW w, NEW pc, NEW ask, NEW cmd, NEW done, NEW out, NEW changed, NEW late, NEW settle,
           w = TaskOf(pc, ask, cmd, done, out, changed, late, settle)
    PROVE  /\ IsTask(w) /\ w.pc = pc /\ w.ask = ask /\ w.cmd = cmd /\ w.done = done
           /\ w.out = out /\ w.changed = changed /\ w.late = late /\ w.settle = settle
BY DEF IsTask, TaskOf

-----------------------------------------------------------------------------
Outputs == [lines : Seq(BOOLEAN), open : BOOLEAN, done : BOOLEAN]
PaneOK(C) ==
    /\ C \in Seq(Outputs) /\ Len(C) <= MaxCommands
    /\ \A id \in 1..Len(C) : C[id].open => Len(C[id].lines) > 0

\* What the pane keeps of its commands, and how far an output can be read.
KeptIn(C, id) == id \in 1..Len(C) /\ id > Len(C) - History
Whole(o) == Consumable(o, o.done)
Steady(o) == Consumable(o, FALSE)

\* A place in an output: what is before it was seen, or is among the lines
\* that are on their way.
Covered(C, S, id, line, more) ==
    /\ id \in 1..Len(C) /\ line \in Nat
    /\ KeptIn(C, id) => line <= Len(C[id].lines)
    /\ \A m \in 0..(line - 1) : m \in S[id] \/ m \in more

AskOK(C, S, a) ==
    /\ a.window \in SUBSET ({"next", "head", "tail"} \X Nat)
    /\ a.before \in Nat /\ a.after \in Nat /\ a.cmd \in Nat
    /\ a.offset.cmd \in 0..Len(C)
    /\ a.offset.cmd # None => Covered(C, S, a.offset.cmd, a.offset.line, {})

\* A reply that says completed was made when the command was done.
ReplyOK(C, S, v) ==
    v.ok => /\ Covered(C, S, v.cmd, v.line, v.seen) /\ v.seen \in SUBSET Nat
            /\ v.status = "completed" /\ KeptIn(C, v.cmd) =>
                  C[v.cmd].done /\ v.total = Len(C[v.cmd].lines)

\* A task that nothing woke since its look holds what is still so.
TaskOK(C, S, w) ==
    /\ IsTask(w) /\ AskOK(C, S, w.ask) /\ w.pc \in {"look", "judge", "wait"}
    /\ w.pc # "look" =>
          /\ w.cmd \in 1..Len(C) /\ ParamsOK(w.ask) /\ w.done \in BOOLEAN
          /\ w.ask.cmd # None => w.cmd = w.ask.cmd
          /\ ~w.changed => KeptIn(C, w.cmd) /\ C[w.cmd].done = w.done
          /\ w.done /\ KeptIn(C, w.cmd) => C[w.cmd].done
    /\ w.pc = "wait" => ~w.done

SessionOK(C, S, O) ==
    /\ S \in [Cmds -> SUBSET Nat]
    /\ DOMAIN O \subseteq 1..Len(C) /\ Cardinality(DOMAIN O) <= OffsetsKept
    /\ \A id \in DOMAIN O : Covered(C, S, id, O[id], {})

IdBounds == nextId <= MaxRequests + 1 /\ pending \subseteq Issued

RInv ==
    /\ IdBounds /\ PaneOK(commands) /\ SessionOK(commands, seen, offsets)
    /\ \A c \in Calls : call[c].pc = "writing" => AskOK(commands, seen, call[c].ask)
    /\ \A c \in Calls : call[c].pc = "answered" => ReplyOK(commands, seen, call[c].got.value)
    /\ \A id \in DOMAIN tasks : TaskOK(commands, seen, tasks[id])
    /\ \A i \in DOMAIN down : ReplyOK(commands, seen, down[i].value)

-----------------------------------------------------------------------------
\* What is so of a place stays so while the pane goes on.
Grows(C, D) ==
    /\ Len(C) <= Len(D)
    /\ \A id \in 1..Len(C) : KeptIn(D, id) =>
          /\ KeptIn(C, id) /\ Len(C[id].lines) <= Len(D[id].lines)
          /\ C[id].done => D[id] = C[id]
          /\ Whole(C[id]) <= Whole(D[id])
          /\ Steady(C[id]) <= Steady(D[id])
More(S, T) == \A id \in Cmds : S[id] \subseteq T[id]

\* The types in a pane.
LEMMA PaneTypes ==
    ASSUME NEW C, PaneOK(C)
    PROVE  /\ Len(C) \in Nat /\ Len(C) <= MaxCommands /\ 1..Len(C) \subseteq Cmds
           /\ \A id \in 1..Len(C) : /\ OutputOK(C[id]) /\ C[id] \in Outputs
                                    /\ Len(C[id].lines) \in Nat /\ C[id].done \in BOOLEAN
<1>1. C \in Seq(Outputs) /\ Len(C) <= MaxCommands /\ \A id \in 1..Len(C) : C[id].open => Len(C[id].lines) > 0
  BY DEF PaneOK
<1>2. Len(C) \in Nat /\ \A id \in 1..Len(C) : C[id] \in Outputs
  BY <1>1, ElementOfSeq, LenProperties
<1>3. \A o \in Outputs : o.lines \in Seq(BOOLEAN) /\ o.done \in BOOLEAN
  BY DEF Outputs
<1>4. \A id \in 1..Len(C) : Len(C[id].lines) \in Nat
  BY <1>2, <1>3, LenProperties
<1>5. \A id \in 1..Len(C) : OutputOK(C[id])
  BY <1>1, <1>2 DEF OutputOK, Outputs
<1>6. 1..Len(C) \subseteq Cmds
  BY <1>1, <1>2, ReadsAssumption DEF Cmds
<1> QED
  BY <1>1, <1>2, <1>3, <1>4, <1>5, <1>6

\* A place of the session, an ask, a reply and a task stay good while the pane
\* goes on and the session sees more.
LEMMA CoveredLater ==
    ASSUME NEW C, PaneOK(C), NEW D, PaneOK(D), Grows(C, D), NEW S, NEW T, More(S, T),
           NEW id, NEW line, NEW more, Covered(C, S, id, line, more)
    PROVE  Covered(D, T, id, line, more)
<1>1. id \in 1..Len(C) /\ id \in 1..Len(D) /\ id \in Cmds /\ line \in Nat
  BY PaneTypes DEF Covered, Grows
<1>2. KeptIn(D, id) => line <= Len(D[id].lines)
  BY <1>1, PaneTypes DEF Covered, Grows
<1>3. \A m \in 0..(line - 1) : m \in T[id] \/ m \in more
  BY <1>1 DEF Covered, More
<1> QED
  BY <1>1, <1>2, <1>3 DEF Covered

\* What is asked stays in order while the pane grows.
LEMMA AskLater ==
    ASSUME NEW C, PaneOK(C), NEW D, PaneOK(D), Grows(C, D), NEW S, NEW T, More(S, T),
           NEW a, AskOK(C, S, a)
    PROVE  AskOK(D, T, a)
<1>1. a.offset.cmd # None => Covered(D, T, a.offset.cmd, a.offset.line, {})
  BY CoveredLater DEF AskOK
<1>2. a.offset.cmd \in 0..Len(D)
  BY PaneTypes DEF AskOK, Grows
<1> QED
  BY <1>1, <1>2 DEF AskOK

\* So does a reply on its way.
LEMMA ReplyLater ==
    ASSUME NEW C, PaneOK(C), NEW D, PaneOK(D), Grows(C, D), NEW S, NEW T, More(S, T),
           NEW v, ReplyOK(C, S, v)
    PROVE  ReplyOK(D, T, v)
<1> SUFFICES ASSUME v.ok
             PROVE  /\ Covered(D, T, v.cmd, v.line, v.seen) /\ v.seen \in SUBSET Nat
                    /\ v.status = "completed" /\ KeptIn(D, v.cmd) =>
                          D[v.cmd].done /\ v.total = Len(D[v.cmd].lines)
  BY DEF ReplyOK
<1>1. Covered(C, S, v.cmd, v.line, v.seen) /\ v.seen \in SUBSET Nat
  BY DEF ReplyOK
<1>2. Covered(D, T, v.cmd, v.line, v.seen)
  BY <1>1, CoveredLater
<1>3. v.cmd \in 1..Len(C)
  BY <1>1 DEF Covered
<1> QED
  BY <1>1, <1>2, <1>3 DEF ReplyOK, Grows

\* And what a task holds.
LEMMA TaskLater ==
    ASSUME NEW C, PaneOK(C), NEW D, PaneOK(D), Grows(C, D), NEW S, NEW T, More(S, T),
           NEW w, TaskOK(C, S, w)
    PROVE  TaskOK(D, T, [w EXCEPT !.changed = TRUE])
<1> DEFINE v == [w EXCEPT !.changed = TRUE]
<1>1. v = TaskOf(w.pc, w.ask, w.cmd, w.done, w.out, TRUE, w.late, w.settle)
  BY SetChanged DEF TaskOK
<1>2. AskOK(D, T, w.ask)
  BY AskLater DEF TaskOK
<1>3. w.pc # "look" => w.cmd \in 1..Len(C) /\ w.cmd \in 1..Len(D)
  BY PaneTypes DEF TaskOK, Grows
<1>4. w.pc # "look" /\ w.done /\ KeptIn(D, w.cmd) => D[w.cmd].done
  BY <1>3 DEF TaskOK, Grows
<1> HIDE DEF v
<1>5. /\ IsTask(v) /\ v.pc = w.pc /\ v.ask = w.ask /\ v.cmd = w.cmd /\ v.done = w.done
      /\ v.changed = TRUE
  <2> DEFINE yes == TRUE
  <2>1. v = TaskOf(w.pc, w.ask, w.cmd, w.done, w.out, yes, w.late, w.settle)
    BY <1>1
  <2> HIDE DEF yes
  <2>2. /\ IsTask(v) /\ v.pc = w.pc /\ v.ask = w.ask /\ v.cmd = w.cmd /\ v.done = w.done
        /\ v.changed = yes
    BY <2>1, Fields
  <2> QED
    BY <2>2 DEF yes
<1>6. TaskOK(D, T, v)
  BY <1>2, <1>3, <1>4, <1>5 DEF TaskOK
<1> QED
  BY <1>6 DEF v

\* A pane that does not change.
LEMMA GrowsSelf ==
    ASSUME NEW C, PaneOK(C)
    PROVE  Grows(C, C)
BY PaneTypes DEF Grows, Whole, Steady, Consumable, KeptIn

\* A task whose session saw more.
LEMMA TaskSeen ==
    ASSUME NEW C, PaneOK(C), NEW S, NEW T, More(S, T), NEW w, TaskOK(C, S, w)
    PROVE  TaskOK(C, T, w)
<1>1. Grows(C, C)
  BY GrowsSelf
<1>2. AskOK(C, T, w.ask)
  BY <1>1, AskLater DEF TaskOK
<1> QED
  BY <1>2 DEF TaskOK

-----------------------------------------------------------------------------
\* A function from 1..n is a sequence.
LEMMA FunctionSeq ==
    ASSUME NEW S, NEW n \in Nat, NEW f \in [1..n -> S]
    PROVE  f \in Seq(S) /\ Len(f) = n
<1>1. f \in Seq(S)
  BY SeqDef
<1>2. Len(f) \in Nat /\ DOMAIN f = 1..Len(f) /\ DOMAIN f = 1..n
  BY <1>1, LenProperties
<1> QED
  BY <1>1, <1>2

\* The fields of an output written out.
LEMMA OutputFields ==
    ASSUME NEW o \in Outputs
    PROVE  o.lines \in Seq(BOOLEAN) /\ o.open \in BOOLEAN /\ o.done \in BOOLEAN
BY DEF Outputs

\* The pane goes on.
LEMMA PaneGrows ==
    ASSUME PaneOK(commands), Pane
    PROVE  /\ PaneOK(commands') /\ Grows(commands, commands')
           /\ tasks' = Woken /\ UNCHANGED <<clientVars, down, alive, sessionVars>>
<1> DEFINE C == commands
           D == commands'
           N == Len(commands)
<1>1. /\ C \in Seq(Outputs) /\ N \in Nat /\ N <= MaxCommands /\ MaxCommands \in Nat
      /\ History \in Nat /\ History > 0
      /\ \A id \in 1..N : /\ OutputOK(C[id]) /\ C[id] \in Outputs
                          /\ Len(C[id].lines) \in Nat /\ C[id].done \in BOOLEAN
                          /\ C[id].open => Len(C[id].lines) > 0
  BY PaneTypes, ReadsAssumption DEF PaneOK
<1>2. Publish
  BY DEF Pane, Starts, Prints, Finishes
<1>3. CASE Starts
  <2>1. /\ N < MaxCommands
        /\ D = [id \in 1..(N + 1) |->
                  IF id = N + 1 \/ id <= N + 1 - History THEN NoOutput ELSE C[id]]
    BY <1>3 DEF Starts, Newest
  <2>2. NoOutput \in Outputs /\ ~NoOutput.open
    BY EmptySequence DEF NoOutput, Outputs
  <2>3. \A id \in 1..(N + 1) : id = N + 1 \/ id \in 1..N
    BY <1>1
  <2>4. D \in [1..(N + 1) -> Outputs]
    BY <1>1, <2>1, <2>2, <2>3
  <2>5. N + 1 \in Nat
    BY <1>1
  <2>6. D \in Seq(Outputs) /\ Len(D) = N + 1
    BY <2>4, <2>5, FunctionSeq
  <2>7. \A id \in 1..(N + 1) : D[id] = NoOutput \/ (id \in 1..N /\ D[id] = C[id])
    BY <2>1, <2>3
  <2>8. PaneOK(D)
    BY <1>1, <2>1, <2>2, <2>6, <2>7 DEF PaneOK
  <2>9. \A id \in 1..N : KeptIn(D, id) => KeptIn(C, id) /\ D[id] = C[id]
    BY <1>1, <2>1, <2>6 DEF KeptIn
  <2>10. \A id \in 1..N : Whole(C[id]) \in Nat /\ Steady(C[id]) \in Nat
    BY <1>1, ConsumableLemma DEF Whole, Steady
  <2>11. Grows(C, D)
    BY <1>1, <2>6, <2>9, <2>10 DEF Grows
  <2> QED
    BY <1>2, <2>8, <2>11 DEF Publish
<1>4. ASSUME NEW v \in Outputs, N > 0, ~C[N].done, D = [C EXCEPT ![N] = v],
             v.open => Len(v.lines) > 0, Len(C[N].lines) <= Len(v.lines),
             Whole(C[N]) <= Whole(v), Steady(C[N]) <= Steady(v)
      PROVE  PaneOK(D) /\ Grows(C, D)
  <2>1. N \in 1..N
    BY <1>1, <1>4
  <2>2. /\ D \in Seq(Outputs) /\ Len(D) = N /\ D[N] = v
        /\ \A id \in 1..N : id # N => D[id] = C[id]
    BY <1>1, <1>4, <2>1, ExceptSeq
  <2>3. PaneOK(D)
    BY <1>1, <1>4, <2>2 DEF PaneOK
  <2>4. \A id \in 1..N : KeptIn(D, id) <=> KeptIn(C, id)
    BY <2>2 DEF KeptIn
  <2>5. \A id \in 1..N : Whole(C[id]) \in Nat /\ Steady(C[id]) \in Nat
    BY <1>1, ConsumableLemma DEF Whole, Steady
  <2>6. ASSUME NEW id \in 1..N, KeptIn(D, id)
        PROVE  /\ KeptIn(C, id) /\ Len(C[id].lines) <= Len(D[id].lines)
               /\ C[id].done => D[id] = C[id]
               /\ Whole(C[id]) <= Whole(D[id])
               /\ Steady(C[id]) <= Steady(D[id])
    <3>1. CASE id = N
      BY <1>4, <2>2, <2>4, <2>6, <3>1
    <3>2. CASE id # N
      BY <1>1, <2>2, <2>4, <2>5, <2>6, <3>2
    <3> QED
      BY <3>1, <3>2
  <2>7. Grows(C, D)
    BY <1>1, <2>2, <2>6 DEF Grows
  <2> QED
    BY <2>3, <2>7
<1>5. ASSUME NEW hit \in BOOLEAN, NEW ends \in BOOLEAN, Prints(hit, ends)
      PROVE  PaneOK(D) /\ Grows(C, D)
  <2> DEFINE o == C[N]
             at == IF o.open THEN Len(o.lines) ELSE Len(o.lines) + 1
             lines == SubSeq(o.lines, 1, at - 1) \o <<hit>>
             v == [o EXCEPT !.lines = lines, !.open = ~ends]
  <2>1. /\ N > 0 /\ ~o.done /\ D = [C EXCEPT ![N] = v]
    <3>1. N > 0 /\ ~o.done
      BY <1>5 DEF Prints, Newest
    <3>2. D = [C EXCEPT ![N] = v]
      BY <1>5, Zenon DEF Prints, Newest
    <3> QED
      BY <3>1, <3>2
  <2>2. /\ N \in 1..N /\ o \in Outputs /\ o.lines \in Seq(BOOLEAN) /\ o.open \in BOOLEAN
        /\ Len(o.lines) \in Nat /\ (o.open => Len(o.lines) > 0)
    <3>1. N \in 1..N
      BY <1>1, <2>1
    <3>2. o \in Outputs /\ Len(o.lines) \in Nat /\ (o.open => Len(o.lines) > 0)
      BY <1>1, <3>1
    <3> HIDE DEF o
    <3> QED
      BY <3>1, <3>2, OutputFields
  <2> HIDE DEF o
  <2>3. at \in Nat /\ at > 0 /\ at - 1 <= Len(o.lines) /\ at - 1 \in Nat /\ Len(o.lines) <= at
    BY <2>2
  <2> HIDE DEF at
  <2>4. lines \in Seq(BOOLEAN) /\ Len(lines) = at
    <3> DEFINE s == SubSeq(o.lines, 1, at - 1)
               t == <<hit>>
    <3>1. s \in Seq(BOOLEAN) /\ Len(s) = at - 1
      <4>1. \A i \in 1..(at - 1) : o.lines[i] \in BOOLEAN
        BY <2>2, <2>3, ElementOfSeq
      <4> QED
        BY <2>2, <2>3, <4>1, SubSeqProperties
    <3>2. t \in Seq(BOOLEAN) /\ Len(t) = 1
      OBVIOUS
    <3> DEFINE B == BOOLEAN
    <3> HIDE DEF s, t, B
    <3>3. s \o t \in Seq(B) /\ Len(s \o t) = at
      <4>1. s \in Seq(B) /\ t \in Seq(B)
        BY <3>1, <3>2 DEF B
      <4>2. s \o t \in Seq(B) /\ Len(s \o t) = Len(s) + Len(t)
        BY <4>1, ConcatProperties
      <4> QED
        BY <2>3, <3>1, <3>2, <4>2
    <3> QED
      BY <3>3 DEF s, t, B
  <2> HIDE DEF lines
  <2>5. /\ v \in Outputs /\ v.lines = lines /\ v.open = ~ends /\ v.done = o.done
    BY <2>2, <2>4 DEF Outputs
  <2> HIDE DEF v
  <2>6. /\ Whole(o) = at - 1 /\ Whole(v) \in {at - 1, at}
        /\ Steady(o) = at - 1 /\ Steady(v) \in {at - 1, at}
    <3>1. Whole(o) = at - 1 /\ Steady(o) = at - 1
      BY <2>1, <2>2 DEF Whole, Steady, Consumable, at, o
    <3>2. Whole(v) \in {at - 1, at} /\ Steady(v) \in {at - 1, at}
      BY <2>4, <2>5 DEF Whole, Steady, Consumable
    <3> QED
      BY <3>1, <3>2
  <2>7. /\ ~C[N].done /\ Len(C[N].lines) <= Len(v.lines) /\ (v.open => Len(v.lines) > 0)
        /\ Whole(C[N]) <= Whole(v) /\ Steady(C[N]) <= Steady(v)
    BY <2>1, <2>3, <2>4, <2>5, <2>6 DEF o
  <2> QED
    BY <1>4, <2>1, <2>5, <2>7
<1>6. CASE Finishes
  <2> DEFINE o == C[N]
             v == [o EXCEPT !.done = TRUE]
  <2>1. /\ N > 0 /\ ~o.done /\ D = [C EXCEPT ![N] = v]
    BY <1>6 DEF Finishes, Newest
  <2>2. /\ N \in 1..N /\ o \in Outputs /\ o.lines \in Seq(BOOLEAN) /\ o.open \in BOOLEAN
        /\ Len(o.lines) \in Nat /\ (o.open => Len(o.lines) > 0)
    <3>1. N \in 1..N
      BY <1>1, <2>1
    <3>2. o \in Outputs /\ Len(o.lines) \in Nat /\ (o.open => Len(o.lines) > 0)
      BY <1>1, <3>1
    <3> HIDE DEF o
    <3> QED
      BY <3>1, <3>2, OutputFields
  <2> HIDE DEF o
  <2>3. v \in Outputs /\ v.lines = o.lines /\ v.open = o.open /\ v.done = TRUE
    BY <2>2 DEF Outputs
  <2> HIDE DEF v
  <2>4. Whole(o) <= Whole(v) /\ Steady(o) <= Steady(v)
    BY <2>2, <2>3 DEF Whole, Steady, Consumable
  <2>5. /\ ~C[N].done /\ Len(C[N].lines) <= Len(v.lines) /\ (v.open => Len(v.lines) > 0)
        /\ Whole(C[N]) <= Whole(v) /\ Steady(C[N]) <= Steady(v)
    BY <2>1, <2>2, <2>3, <2>4 DEF o
  <2> QED
    BY <1>2, <1>4, <2>1, <2>3, <2>5 DEF Publish
<1> QED
  BY <1>2, <1>3, <1>5, <1>6 DEF Pane, Publish

\* The session's own places, while the pane goes on.
LEMMA SessionLater ==
    ASSUME NEW C, PaneOK(C), NEW D, PaneOK(D), Grows(C, D), NEW S, NEW O, SessionOK(C, S, O)
    PROVE  SessionOK(D, S, O)
<1>1. More(S, S)
  BY DEF More
<1>2. DOMAIN O \subseteq 1..Len(D)
  BY PaneTypes DEF SessionOK, Grows
<1>3. \A id \in DOMAIN O : Covered(D, S, id, O[id], {})
  BY <1>1, CoveredLater DEF SessionOK
<1> QED
  BY <1>2, <1>3 DEF SessionOK

\* The steps of the actions, one lemma each: first the pane.
LEMMA PaneStep ==
    ASSUME IInv, RInv, Pane
    PROVE  RInv'
<1>1. /\ PaneOK(commands) /\ PaneOK(commands') /\ Grows(commands, commands')
      /\ tasks' = Woken /\ nextId' = nextId /\ pending' = pending /\ call' = call /\ down' = down
      /\ offsets' = offsets /\ seen' = seen
  <2>1. PaneOK(commands)
    BY DEF RInv
  <2> QED
    BY <2>1, PaneGrows DEF clientVars, sessionVars
<1>2. More(seen, seen)
  BY DEF More
<1>3. SessionOK(commands', seen, offsets)
  BY <1>1, SessionLater DEF RInv
<1>4. \A id \in DOMAIN tasks : TaskOK(commands', seen, [tasks[id] EXCEPT !.changed = TRUE])
  BY <1>1, <1>2, TaskLater DEF RInv
<1>5. \A id \in DOMAIN tasks' : TaskOK(commands', seen', tasks'[id])
  BY <1>1, <1>4 DEF Woken
<1>6. \A c \in Calls : call[c].pc = "writing" => AskOK(commands', seen, call[c].ask)
  BY <1>1, <1>2, AskLater DEF RInv
<1>7. \A c \in Calls : call[c].pc = "answered" => ReplyOK(commands', seen, call[c].got.value)
  BY <1>1, <1>2, ReplyLater DEF RInv
<1>8. \A i \in DOMAIN down : ReplyOK(commands', seen, down[i].value)
  BY <1>1, <1>2, ReplyLater DEF RInv
<1>9. IdBounds'
  BY <1>1 DEF RInv, IdBounds, Issued
<1> QED
  BY <1>1, <1>3, <1>5, <1>6, <1>7, <1>8, <1>9 DEF RInv

\* A task goes on, with its call and the pane as they were.
LEMMA TaskStep ==
    ASSUME RInv, NEW id \in DOMAIN tasks, NEW w, TaskOK(commands, seen, w), Step(id, w),
           UNCHANGED <<paneVars, sessionVars>>
    PROVE  RInv'
<1>1. /\ tasks' = [tasks EXCEPT ![id] = w] /\ nextId' = nextId /\ pending' = pending
      /\ call' = call /\ down' = down /\ commands' = commands /\ offsets' = offsets /\ seen' = seen
  BY DEF Step, clientVars, paneVars, sessionVars
<1>2. \A i \in DOMAIN tasks' : i \in DOMAIN tasks /\ (tasks'[i] = w \/ tasks'[i] = tasks[i])
  BY <1>1
<1>3. \A i \in DOMAIN tasks' : TaskOK(commands, seen, tasks'[i])
  BY <1>2 DEF RInv
<1> QED
  BY <1>1, <1>3 DEF RInv, IdBounds, Issued

\* A task answers.
LEMMA AnswerStep ==
    ASSUME IInv, RInv, NEW id \in DOMAIN tasks, NEW v, ReplyOK(commands, seen, v),
           Answer(id, v), UNCHANGED <<paneVars, sessionVars>>
    PROVE  RInv'
<1>1. /\ nextId' = nextId /\ pending' = pending /\ call' = call
      /\ commands' = commands /\ offsets' = offsets /\ seen' = seen
  BY DEF Answer, clientVars, paneVars, sessionVars
<1>2. /\ DOMAIN tasks' = DOMAIN tasks \ {id}
      /\ \A k \in DOMAIN tasks' : tasks'[k] = tasks[k]
      /\ \A i \in DOMAIN down' : \/ i \in DOMAIN down /\ down'[i] = down[i]
                                 \/ down'[i].value = v
  BY Answered DEF IInv
<1>3. /\ \A k \in DOMAIN tasks' : TaskOK(commands, seen, tasks'[k])
      /\ \A i \in DOMAIN down' : ReplyOK(commands, seen, down'[i].value)
  BY <1>2 DEF RInv
<1> QED
  BY <1>1, <1>3 DEF RInv, IdBounds, Issued

\* The task once it has seen the snapshot.
Looked(w, cmd) == Sees([w EXCEPT !.pc = "judge", !.cmd = cmd, !.changed = FALSE], TRUE)

\* The fields of a task that has looked.
LEMMA LookFields ==
    ASSUME NEW w, IsTask(w), NEW cmd
    PROVE  LET v == Looked(w, cmd) IN
           /\ IsTask(v) /\ v.pc = "judge" /\ v.ask = w.ask /\ v.cmd = cmd /\ ~v.changed
           /\ v.done = commands[cmd].done
<1> DEFINE no == FALSE
           u == [w EXCEPT !.pc = "judge", !.cmd = cmd, !.changed = no]
           v == [u EXCEPT !.done = commands[u.cmd].done]
<1>1. u = TaskOf("judge", w.ask, cmd, w.done, w.out, no, w.late, w.settle)
  <2> HIDE DEF no
  <2> QED
    BY SetJudge
<1>2. v = Looked(w, cmd)
  BY DEF Sees, Looked
<1> HIDE DEF no, u
<1>3. /\ IsTask(u) /\ u.pc = "judge" /\ u.ask = w.ask /\ u.cmd = cmd /\ u.changed = no
  BY <1>1, Fields
<1>4. v = TaskOf(u.pc, u.ask, u.cmd, commands[u.cmd].done, u.out, u.changed, u.late, u.settle)
  BY <1>3, SetDone
<1> HIDE DEF v
<1>5. /\ IsTask(v) /\ v.pc = u.pc /\ v.ask = u.ask /\ v.cmd = u.cmd /\ v.changed = u.changed
      /\ v.done = commands[u.cmd].done
  BY <1>4, Fields
<1>6. /\ IsTask(v) /\ v.pc = "judge" /\ v.ask = w.ask /\ v.cmd = cmd /\ v.changed = no
      /\ v.done = commands[cmd].done
  BY <1>3, <1>5
<1> QED
  BY <1>2, <1>6 DEF no

\* A task that has looked is still one.
LEMMA LookTask ==
    ASSUME RInv, NEW w, TaskOK(commands, seen, w), WellFormed(w.ask), NEW cmd, Kept(cmd),
           w.ask.cmd # None => cmd = w.ask.cmd
    PROVE  TaskOK(commands, seen,
                  Looked(w, cmd))
<1> DEFINE v == Looked(w, cmd)
<1>1. /\ IsTask(v) /\ v.pc = "judge" /\ v.ask = w.ask /\ v.cmd = cmd /\ ~v.changed
      /\ v.done = commands[cmd].done
  <2>1. IsTask(w)
    BY DEF TaskOK
  <2> QED
    BY <2>1, LookFields
<1> HIDE DEF v
<1>2. KeptIn(commands, cmd) /\ cmd \in 1..Len(commands)
  BY DEF Kept, Newest, KeptIn
<1>3. commands[cmd].done \in BOOLEAN
  BY <1>2, PaneTypes DEF RInv
<1>4. AskOK(commands, seen, w.ask)
  BY DEF TaskOK
<1>5. ParamsOK(w.ask)
  BY <1>4 DEF AskOK, ParamsOK, WellFormed
<1>6. TaskOK(commands, seen, v)
  BY <1>1, <1>2, <1>3, <1>4, <1>5 DEF TaskOK
<1> QED
  BY <1>6 DEF v

\* Look refuses the read, or goes on with the command it found.
LEMMA LookStep ==
    ASSUME IInv, RInv, NEW id \in Ids, Look(id)
    PROVE  RInv'
<1> DEFINE w == tasks[id]
           cmd == IF w.ask.cmd = None THEN Newest ELSE w.ask.cmd
<1>1. /\ id \in DOMAIN tasks /\ TaskOK(commands, seen, w)
      /\ UNCHANGED <<paneVars, sessionVars>>
  BY DEF Look, At, RInv
<1>2. CASE ~WellFormed(w.ask) \/ ~Kept(cmd)
  <2>1. Answer(id, Refused)
    BY <1>2 DEF Look
  <2>2. ReplyOK(commands, seen, Refused)
    BY DEF ReplyOK, Refused
  <2> QED
    BY <1>1, <2>1, <2>2, AnswerStep
<1>3. CASE WellFormed(w.ask) /\ Kept(cmd)
  <2>1. Step(id, Looked(w, cmd))
    BY <1>3, Zenon DEF Look, Looked
  <2>2. w.ask.cmd # None => cmd = w.ask.cmd
    OBVIOUS
  <2> HIDE DEF w, cmd
  <2>3. TaskOK(commands, seen, Looked(w, cmd))
    BY <1>1, <1>3, <2>2, LookTask
  <2> QED
    BY <1>1, <2>1, <2>3, TaskStep
<1> QED
  BY <1>2, <1>3

\* A task that goes on waiting, or looks again.
LEMMA ClockTask ==
    ASSUME RInv, NEW w, TaskOK(commands, seen, w), NEW x
    PROVE  /\ TaskOK(commands, seen, [w EXCEPT !.pc = "look"])
           /\ TaskOK(commands, seen, [w EXCEPT !.pc = "look", !.settle = x])
           /\ TaskOK(commands, seen, [w EXCEPT !.pc = "look", !.late = x])
<1>1. ASSUME NEW v, NEW late, NEW settle,
             v = TaskOf("look", w.ask, w.cmd, w.done, w.out, w.changed, late, settle)
      PROVE  TaskOK(commands, seen, v)
  <2>1. IsTask(v) /\ v.pc = "look" /\ v.ask = w.ask
    BY <1>1, Fields
  <2> QED
    BY <2>1 DEF TaskOK
<1>2. IsTask(w)
  BY DEF TaskOK
<1>3. [w EXCEPT !.pc = "look"] =
         TaskOf("look", w.ask, w.cmd, w.done, w.out, w.changed, w.late, w.settle)
  BY <1>2, SetLook
<1>4. [w EXCEPT !.pc = "look", !.settle = x] =
         TaskOf("look", w.ask, w.cmd, w.done, w.out, w.changed, w.late, x)
  BY <1>2, SetSettle
<1>5. [w EXCEPT !.pc = "look", !.late = x] =
         TaskOf("look", w.ask, w.cmd, w.done, w.out, w.changed, x, w.settle)
  BY <1>2, SetLate
<1> QED
  BY <1>1, <1>3, <1>4, <1>5, Zenon

\* A task wakes, settles, or is late.
LEMMA ClockStep ==
    ASSUME RInv, NEW id \in Ids, Wake(id) \/ Clock(id)
    PROVE  RInv'
<1> DEFINE w == tasks[id]
           yes == TRUE
<1>1. /\ id \in DOMAIN tasks /\ TaskOK(commands, seen, w)
      /\ UNCHANGED <<paneVars, sessionVars>>
  BY DEF Wake, Clock, Settles, Deadline, At, RInv
<1>2. \/ Step(id, [w EXCEPT !.pc = "look"])
      \/ Step(id, [w EXCEPT !.pc = "look", !.settle = "over"])
      \/ Step(id, [w EXCEPT !.pc = "look", !.late = yes])
  BY DEF Wake, Clock, Settles, Deadline
<1> HIDE DEF w, yes
<1>3. TaskOK(commands, seen, [w EXCEPT !.pc = "look"])
  BY <1>1, ClockTask
<1>4. TaskOK(commands, seen, [w EXCEPT !.pc = "look", !.settle = "over"])
  BY <1>1, ClockTask
<1>5. TaskOK(commands, seen, [w EXCEPT !.pc = "look", !.late = yes])
  BY <1>1, ClockTask
<1> QED
  BY <1>1, <1>2, <1>3, <1>4, <1>5, TaskStep

\* The reply to a read has a place that the session may go on from.
LEMMA ReplyCovered ==
    ASSUME NEW C, PaneOK(C), NEW S, NEW w, w.cmd \in 1..Len(C),
           w.out = IF KeptIn(C, w.cmd) THEN C[w.cmd] ELSE NoOutput,
           NEW start, Covered(C, S, w.cmd, start, {}),
           NEW done, done /\ KeptIn(C, w.cmd) => C[w.cmd].done,
           NEW r, GoodRead(r, w.out, done, start),
           NEW status, status = "completed" => done
    PROVE  ReplyOK(C, S, Reply(w, status, r))
<1> DEFINE out == w.out
           v == Reply(w, status, r)
           total == Len(out.lines)
           told == Range(r.lines) \cup {i \in r.searched : ~out.lines[i + 1]}
           steady == {i \in 0..(total - 1) : out.open /\ ~out.done => i < total - 1}
<1>1. /\ v.ok = TRUE /\ v.cmd = w.cmd /\ v.status = status /\ v.total = r.total
      /\ v.line = r.cursor /\ v.seen = steady \cap told
  BY DEF Reply
<1>2. OutputOK(out) /\ total \in Nat
  <2>1. OutputOK(NoOutput)
    BY EmptySequence DEF OutputOK, NoOutput
  <2>2. OutputOK(out)
    BY <2>1, PaneTypes
  <2> QED
    BY <2>2, ConsumableLemma
<1>3. /\ r.cursor \in Nat /\ r.total = total
      /\ start <= total => r.cursor <= total
      /\ \A m \in 0..(r.cursor - 1) :
            \/ m < start
            \/ m < Consumable(out, done) /\ m \in told
  <2>1. /\ r.cursor \in Nat /\ r.total = total
        /\ start <= total => r.cursor <= total
        /\ \A m \in 0..(r.cursor - 1) :
              \/ m < start
              \/ /\ m < Consumable(out, done)
                 /\ m \in Range(r.lines) \/ (m \in r.searched /\ ~out.lines[m + 1])
    BY DEF GoodRead
  <2> HIDE DEF out, total
  <2> QED
    BY <2>1
<1> HIDE DEF v, told
<1>4. start \in Nat /\ \A m \in 0..(start - 1) : m \in S[w.cmd]
  BY DEF Covered
<1>5. \A m \in 0..(r.cursor - 1) : m < Consumable(out, done) => m \in steady
  <2>1. out.open /\ ~out.done => ~done
    BY DEF NoOutput
  <2>2. Consumable(out, done) = IF done \/ ~out.open THEN total ELSE total - 1
    BY DEF Consumable
  <2> HIDE DEF out, total
  <2> QED
    BY <1>2, <1>3, <2>1, <2>2
<1>6. \A m \in 0..(r.cursor - 1) : m \in S[w.cmd] \/ m \in v.seen
  <2> SUFFICES ASSUME NEW m \in 0..(r.cursor - 1), m \notin S[w.cmd]
               PROVE  m \in v.seen
    OBVIOUS
  <2>1. ~(m < start)
    BY <1>3, <1>4
  <2>2. m < Consumable(out, done) /\ m \in told
    BY <1>3, <2>1
  <2>3. m \in steady
    BY <1>5, <2>2
  <2> QED
    BY <1>1, <2>2, <2>3
<1>7. KeptIn(C, w.cmd) => r.cursor <= Len(C[w.cmd].lines)
  BY <1>3 DEF Covered
<1>8. v.seen \in SUBSET Nat
  BY <1>1, <1>2
<1>9. Covered(C, S, v.cmd, v.line, v.seen)
  BY <1>1, <1>3, <1>6, <1>7 DEF Covered
<1>10. v.status = "completed" /\ KeptIn(C, v.cmd) =>
          C[v.cmd].done /\ v.total = Len(C[v.cmd].lines)
  BY <1>1, <1>3
<1> QED
  BY <1>8, <1>9, <1>10 DEF ReplyOK, v

\* The reply of a tail that ran into its deadline.
LEMMA NothingReplied ==
    ASSUME NEW C, NEW S, NEW w, NEW start, Covered(C, S, w.cmd, start, {})
    PROVE  ReplyOK(C, S, Reply(w, "running", NoResult(start)))
<1> DEFINE v == Reply(w, "running", NoResult(start))
<1>1. /\ v.cmd = w.cmd /\ v.status = "running" /\ v.line = start
      /\ v.seen = {}
  BY DEF Reply, NoResult, Range
<1> HIDE DEF v
<1>2. Covered(C, S, v.cmd, v.line, v.seen)
  BY <1>1
<1>3. v.seen \in SUBSET Nat /\ v.status # "completed"
  BY <1>1
<1>4. ReplyOK(C, S, v)
  BY <1>2, <1>3 DEF ReplyOK
<1> QED
  BY <1>4 DEF v

\* A read starts where its session was.
LEMMA StartCovered ==
    ASSUME NEW C, PaneOK(C), NEW S, NEW a, AskOK(C, S, a), NEW cmd \in 1..Len(C)
    PROVE  Covered(C, S, cmd, Start(a, cmd), {})
<1>1. CASE a.offset.cmd = cmd
  <2>1. a.offset.cmd # None
    BY <1>1, PaneTypes DEF None
  <2> QED
    BY <1>1, <2>1 DEF AskOK, Start
<1>2. CASE a.offset.cmd # cmd
  <2>1. Start(a, cmd) = 0
    BY <1>2 DEF Start
  <2>2. Len(C[cmd].lines) \in Nat
    BY PaneTypes
  <2> QED
    BY <2>1, <2>2 DEF Covered
<1> QED
  BY <1>1, <1>2

\* A task that goes on waiting.
LEMMA WaitTask ==
    ASSUME RInv, NEW w, TaskOK(commands, seen, w), w.pc = "judge", ~w.done, NEW x, NEW y
    PROVE  LET v == Waits(w, x, y) IN
           TaskOK(commands, seen, v) /\ v.pc = "wait" /\ v.ask = w.ask /\ v.cmd = w.cmd
<1> DEFINE v == Waits(w, x, y)
<1>1. IsTask(w)
  BY DEF TaskOK
<1>2. v = TaskOf("wait", w.ask, w.cmd, w.done, x, w.changed, w.late, y)
  BY <1>1, SetWait
<1> HIDE DEF v
<1>3. /\ IsTask(v) /\ v.pc = "wait" /\ v.ask = w.ask /\ v.cmd = w.cmd /\ v.done = w.done
      /\ v.changed = w.changed
  BY <1>2, Fields
<1>4. TaskOK(commands, seen, v)
  BY <1>3 DEF TaskOK
<1> QED
  BY <1>3, <1>4 DEF v

\* A reply that goes on from where its read started.
ReadsOn(C, t, v) ==
    LET start == Start(t.ask, t.cmd)
        end == IF t.done THEN Len(C[t.cmd].lines) ELSE Steady(C[t.cmd])
    IN  /\ v.cmd = t.cmd
        /\ KeptIn(C, t.cmd) /\ start <= end => start <= v.line /\ v.line <= end

\* What a read does when it has looked: it answers, or it waits.
LEMMA JudgeCases ==
    ASSUME RInv, NEW id \in Ids, Judge(id)
    PROVE  /\ id \in DOMAIN tasks /\ tasks[id].pc = "judge" /\ UNCHANGED <<paneVars, sessionVars>>
           /\ \/ \E v : /\ Step(id, v) /\ TaskOK(commands, seen, v)
                        /\ v.pc = "wait" /\ v.ask = tasks[id].ask /\ v.cmd = tasks[id].cmd
              \/ \E v : /\ Answer(id, v) /\ ReplyOK(commands, seen, v)
                        /\ ReadsOn(commands, tasks[id], v)
<1> DEFINE t == tasks[id]
           out == IF Kept(t.cmd) THEN commands[t.cmd] ELSE NoOutput
           w == [t EXCEPT !.out = out]
           p == w.ask
           start == Start(p, w.cmd)
           peeked == ApplyReadParams(w.out, FALSE, start, p)
           whole == ApplyReadParams(w.out, TRUE, start, p)
<1>1. /\ id \in DOMAIN tasks /\ TaskOK(commands, seen, t) /\ t.pc = "judge"
      /\ UNCHANGED <<paneVars, sessionVars>>
  BY DEF Judge, At, RInv
<1>2. /\ IsTask(t) /\ AskOK(commands, seen, t.ask) /\ ParamsOK(t.ask)
      /\ t.cmd \in 1..Len(commands)
      /\ t.done /\ KeptIn(commands, t.cmd) => commands[t.cmd].done
  BY <1>1 DEF TaskOK
<1>3. w = TaskOf(t.pc, t.ask, t.cmd, t.done, out, t.changed, t.late, t.settle)
  <2> HIDE DEF out, t
  <2> QED
    BY <1>2, SetOut
<1>4. Sees(t, FALSE) = w
  BY DEF Sees
<1>5. \/ w.done /\ Answer(id, Reply(w, "completed", whole))
      \/ ~w.done /\ Answer(id, Reply(w, "running", peeked))
      \/ ~w.done /\ Answer(id, Reply(w, "running", NoResult(start)))
      \/ \E settle : ~w.done /\ Step(id, Waits(w, NoOutput, settle))
  <2>1. LET v == Sees(tasks[id], FALSE)
            q == v.ask
            from == Start(q, v.cmd)
            r == ApplyReadParams(v.out, FALSE, from, q)
            enough == Enough(q, r)
        IN  IF v.done
            THEN Answer(id, Reply(v, "completed", ApplyReadParams(v.out, TRUE, from, q)))
            ELSE \/ Answer(id, Reply(v, "running", r))
                 \/ Answer(id, Reply(v, "running", IF Is(q, "tail") THEN NoResult(from) ELSE r))
                 \/ \E y : Step(id, Waits(v, NoOutput, y))
    BY Zenon DEF Judge, Waits
  <2> HIDE DEF w
  <2> QED
    BY <1>4, <2>1, Zenon
<1> HIDE DEF w
<1>6. /\ IsTask(w) /\ w.pc = "judge" /\ w.ask = t.ask /\ w.cmd = t.cmd /\ w.done = t.done
      /\ w.out = out /\ w.changed = t.changed
  <2> HIDE DEF out, t
  <2>1. /\ IsTask(w) /\ w.pc = t.pc /\ w.ask = t.ask /\ w.cmd = t.cmd /\ w.done = t.done
        /\ w.out = out /\ w.changed = t.changed
    BY <1>3, Fields
  <2> QED
    BY <1>1, <2>1
<1>7. out = IF KeptIn(commands, t.cmd) THEN commands[t.cmd] ELSE NoOutput
  BY DEF Kept, Newest, KeptIn
<1>8. PaneOK(commands)
  BY DEF RInv
<1>9. TaskOK(commands, seen, w)
  BY <1>1, <1>6 DEF TaskOK
<1> HIDE DEF t, out
<1>10. Covered(commands, seen, w.cmd, start, {}) /\ start \in Nat
  <2>1. Covered(commands, seen, w.cmd, start, {})
    BY <1>2, <1>6, <1>8, StartCovered
  <2> QED
    BY <2>1 DEF Covered
<1>11. OutputOK(w.out)
  <2>1. OutputOK(NoOutput)
    BY EmptySequence DEF OutputOK, NoOutput
  <2> QED
    BY <1>2, <1>6, <1>7, <1>8, <2>1, PaneTypes
<1>12. GoodRead(peeked, w.out, FALSE, start) /\ GoodRead(whole, w.out, TRUE, start)
  BY <1>2, <1>6, <1>10, <1>11, ReadLemma
<1> HIDE DEF start, peeked, whole
<1>13. CASE w.done /\ Answer(id, Reply(w, "completed", whole))
  <2> DEFINE v == Reply(w, "completed", whole)
  <2>1. ReplyOK(commands, seen, v)
    BY <1>2, <1>6, <1>7, <1>8, <1>10, <1>12, <1>13, ReplyCovered
  <2>2. v.cmd = t.cmd /\ v.line = whole.cursor
    BY <1>6 DEF Reply
  <2> HIDE DEF v
  <2>3. start <= Len(w.out.lines) => start <= v.line /\ v.line <= Len(w.out.lines)
    BY <1>12, <2>2 DEF GoodRead, Consumable
  <2>4. ReadsOn(commands, t, v)
    BY <1>6, <1>7, <1>13, <2>2, <2>3 DEF ReadsOn, start
  <2> QED
    BY <1>1, <1>13, <2>1, <2>4 DEF t, v
<1>14. CASE ~w.done /\ Answer(id, Reply(w, "running", peeked))
  <2> DEFINE v == Reply(w, "running", peeked)
  <2>1. ReplyOK(commands, seen, v)
    BY <1>2, <1>6, <1>7, <1>8, <1>10, <1>12, <1>14, ReplyCovered
  <2>2. v.cmd = t.cmd /\ v.line = peeked.cursor
    BY <1>6 DEF Reply
  <2> HIDE DEF v
  <2>3. start <= Steady(w.out) => start <= v.line /\ v.line <= Steady(w.out)
    BY <1>12, <2>2 DEF GoodRead, Steady
  <2>4. ReadsOn(commands, t, v)
    BY <1>6, <1>7, <1>14, <2>2, <2>3 DEF ReadsOn, start
  <2> QED
    BY <1>1, <1>14, <2>1, <2>4 DEF t, v
<1>15. CASE ~w.done /\ Answer(id, Reply(w, "running", NoResult(start)))
  <2> DEFINE v == Reply(w, "running", NoResult(start))
  <2>1. ReplyOK(commands, seen, v)
    BY <1>10, NothingReplied
  <2>2. v.cmd = t.cmd /\ v.line = start
    BY <1>6 DEF Reply, NoResult
  <2> HIDE DEF v
  <2>3. ReadsOn(commands, t, v)
    BY <1>6, <1>10, <2>2 DEF ReadsOn, start
  <2> QED
    BY <1>1, <1>15, <2>1, <2>3 DEF t, v
<1>16. ASSUME NEW settle, ~w.done, Step(id, Waits(w, NoOutput, settle))
       PROVE  \E v : /\ Step(id, v) /\ TaskOK(commands, seen, v)
                     /\ v.pc = "wait" /\ v.ask = t.ask /\ v.cmd = t.cmd
  <2> DEFINE v == Waits(w, NoOutput, settle)
  <2>1. TaskOK(commands, seen, v) /\ v.pc = "wait" /\ v.ask = w.ask /\ v.cmd = w.cmd
    BY <1>6, <1>9, <1>16, WaitTask
  <2> HIDE DEF v
  <2> QED
    BY <1>6, <1>16, <2>1 DEF v
<1> QED
  BY <1>1, <1>5, <1>13, <1>14, <1>15, <1>16 DEF t

\* So Judge keeps the invariant.
LEMMA JudgeStep ==
    ASSUME IInv, RInv, NEW id \in Ids, Judge(id)
    PROVE  RInv'
BY JudgeCases, TaskStep, AnswerStep

\* The greatest of some numbers up to N.
LEMMA MaxIn ==
    ASSUME NEW N \in Nat, NEW T \in SUBSET (0..N), T # {}
    PROVE  Max(T) \in T /\ \A m \in T : m <= Max(T)
<1>1. PICK k \in T : \A m \in T : k >= m
  BY NatMax
<1> QED
  BY <1>1 DEF Max

\* What a session sends with a call is a place it has.
LEMMA SentOK ==
    ASSUME RInv, NEW ask \in Asks
    PROVE  AskOK(commands, seen, Sent(ask))
<1>1. /\ ask.cmd \in Nat /\ ask.window \in SUBSET ({"next", "head", "tail"} \X Nat)
      /\ ask.before \in Nat /\ ask.after \in Nat
  BY ReadsAssumption
<1>2. Len(commands) \in Nat /\ SessionOK(commands, seen, offsets)
  BY PaneTypes DEF RInv
<1> DEFINE a == Sent(ask)
<1>3. ASSUME NEW id \in DOMAIN offsets
      PROVE  id # None /\ id \in 0..Len(commands) /\ Covered(commands, seen, id, offsets[id], {})
  BY <1>2 DEF SessionOK, None
<1>4. ForRead(ask.cmd) = NoOffset \/ \E id \in DOMAIN offsets : ForRead(ask.cmd) = [cmd |-> id, line |-> offsets[id]]
  <2> DEFINE known == IF ask.cmd = None THEN DOMAIN offsets ELSE DOMAIN offsets \cap {ask.cmd}
  <2>1. known \subseteq DOMAIN offsets /\ known \in SUBSET (0..Len(commands))
    BY <1>3
  <2>2. ForRead(ask.cmd) = IF known = {} THEN NoOffset
                           ELSE [cmd |-> Max(known), line |-> offsets[Max(known)]]
    BY DEF ForRead, NoOffset
  <2> HIDE DEF known
  <2>3. known # {} => Max(known) \in known
    BY <1>2, <2>1, MaxIn
  <2> QED
    BY <2>1, <2>2, <2>3
<1>5. /\ a.cmd = ask.cmd /\ a.window = ask.window /\ a.before = ask.before /\ a.after = ask.after
      /\ a.offset = IF ask.run THEN NoOffset ELSE ForRead(ask.cmd)
  BY DEF Sent
<1> HIDE DEF a
<1>6. CASE a.offset = NoOffset
  <2>1. a.offset.cmd = None
    BY <1>6 DEF NoOffset
  <2> QED
    BY <1>1, <1>2, <1>5, <2>1 DEF AskOK, a, None
<1>7. ASSUME NEW id \in DOMAIN offsets, a.offset = [cmd |-> id, line |-> offsets[id]]
      PROVE  AskOK(commands, seen, a)
  <2>1. a.offset.cmd = id /\ a.offset.line = offsets[id]
    BY <1>7
  <2> QED
    BY <1>1, <1>3, <1>5, <2>1 DEF AskOK
<1> QED
  BY <1>4, <1>5, <1>6, <1>7 DEF a

\* A call begins.
LEMMA BeginStep ==
    ASSUME IInv, RInv, NEW c \in Calls, NEW ask \in Asks, Begin(c, ask)
    PROVE  RInv'
<1>1. /\ Request(c, Sent(ask)) /\ commands' = commands /\ offsets' = offsets /\ seen' = seen
  BY DEF Begin, paneVars
<1>2. /\ nextId \in Ids /\ nextId' = nextId + 1 /\ tasks' = tasks /\ down' = down
      /\ pending' \subseteq pending \cup {nextId}
  BY <1>1 DEF Request, serverVars
<1>3. /\ call = [d \in Calls |-> call[d]] /\ nextId \in Nat \ {0}
  BY DEF IInv, IdsOK
<1>4. \A d \in Calls : \/ call'[d] = call[d]
                       \/ call'[d].pc = "failed"
                       \/ call'[d].pc = "writing" /\ call'[d].ask = Sent(ask)
  BY <1>1, <1>3 DEF Request
<1>5. AskOK(commands, seen, Sent(ask))
  BY SentOK
<1>6. IdBounds'
  BY <1>2, <1>3, TransportAssumption DEF RInv, IdBounds, Issued, Ids
<1> QED
  BY <1>1, <1>2, <1>4, <1>5, <1>6 DEF RInv

\* Its request is written.
LEMMA WriteStep ==
    ASSUME IInv, RInv, NEW c \in Calls, Write(c, NewRead(call[c].ask)),
           UNCHANGED <<paneVars, sessionVars>>
    PROVE  RInv'
<1> DEFINE w == NewRead(call[c].ask)
<1>1. /\ commands' = commands /\ offsets' = offsets /\ seen' = seen
      /\ nextId' = nextId /\ pending' = pending /\ down' = down
      /\ call[c].pc = "writing"
  BY DEF Write, paneVars, sessionVars
<1>2. call = [d \in Calls |-> call[d]]
  BY DEF IInv, IdsOK
<1>3. \A d \in Calls : call'[d] = call[d] \/ call'[d].pc \in {"waiting", "failed"}
  BY <1>2 DEF Write
<1>4. \A id \in DOMAIN tasks' : tasks'[id] = w \/ (id \in DOMAIN tasks /\ tasks'[id] = tasks[id])
  BY DEF Write
<1>5. TaskOK(commands, seen, w)
  <2>1. IsTask(w) /\ w.pc = "look" /\ w.ask = call[c].ask
    BY DEF NewRead, IsTask, TaskOf
  <2> HIDE DEF w
  <2> QED
    BY <1>1, <2>1 DEF RInv, TaskOK
<1> HIDE DEF w
<1>6. \A id \in DOMAIN tasks' : TaskOK(commands, seen, tasks'[id])
  BY <1>4, <1>5 DEF RInv
<1> QED
  BY <1>1, <1>3, <1>6 DEF RInv, IdBounds, Issued

\* The daemon ends, or the session reads a reply or the end.
LEMMA LinkStep ==
    ASSUME IInv, RInv, Link \/ DaemonEnds, UNCHANGED <<paneVars, sessionVars>>
    PROVE  RInv'
<1>1. commands' = commands /\ offsets' = offsets /\ seen' = seen /\ IdsOK
  BY DEF IInv, paneVars, sessionVars
<1> USE DEF clientVars, serverVars
<1>2. CASE DaemonEnds
  BY <1>1, <1>2, Ended DEF RInv, IdBounds, Issued
<1>3. CASE Route
  <2>1. /\ nextId' = nextId /\ tasks' = tasks /\ pending' \subseteq pending /\ 1 \in DOMAIN down
        /\ \A i \in DOMAIN down' : i + 1 \in DOMAIN down /\ down'[i] = down[i + 1]
        /\ \A c \in Calls : \/ call'[c] = call[c]
                            \/ call'[c].pc = "answered" /\ call'[c].got = down[1]
    BY <1>1, <1>3, Routes
  <2> QED
    BY <1>1, <2>1 DEF RInv, IdBounds, Issued
<1>4. CASE RouteEnds
  <2>1. /\ nextId' = nextId /\ pending' = {} /\ tasks' = tasks /\ down' = down
    BY <1>4 DEF RouteEnds
  <2>2. \A c \in Calls : call'[c] = call[c] \/ call'[c].pc = "failed"
    BY <1>4 DEF RouteEnds
  <2> QED
    BY <1>1, <2>1, <2>2 DEF RInv, IdBounds, Issued
<1> QED
  BY <1>2, <1>3, <1>4 DEF Link

\* The ids above x in D.
Above(D, x) == {k \in D : k > x}

\* record keeps as many offsets as it may, and never the lowest of more.
LEMMA EvictedKeeps ==
    ASSUME NEW f, NEW N \in Nat, DOMAIN f \subseteq 1..N
    PROVE  /\ Cardinality(DOMAIN Evicted(f)) <= OffsetsKept
           /\ DOMAIN Evicted(f) \subseteq DOMAIN f
           /\ \A id \in DOMAIN Evicted(f) : Evicted(f)[id] = f[id]
           /\ \A id \in DOMAIN f : id + History > N => id \in DOMAIN Evicted(f)
<1> DEFINE D == DOMAIN f
           low == {id \in D : Cardinality(Above(D, id)) >= OffsetsKept}
           E == D \ low
<1>0. OffsetsKept \in Nat \ {0} /\ OffsetsKept = History
  BY ReadsAssumption
<1>1. Evicted(f) = [id \in E |-> f[id]]
  BY DEF Evicted, Above
<1>2. \A S \in SUBSET D : IsFiniteSet(S) /\ Cardinality(S) \in Nat
  <2> SUFFICES ASSUME NEW S \in SUBSET D
               PROVE  IsFiniteSet(S) /\ Cardinality(S) \in Nat
    OBVIOUS
  <2>1. IsFiniteSet(1..N) /\ S \in SUBSET (1..N)
    BY FS_Interval
  <2> QED
    BY <2>1, FS_Subset, FS_CardinalityType
<1>3. \A id \in E : Cardinality(Above(D, id)) < OffsetsKept
  <2>1. \A id \in D : Above(D, id) \in SUBSET D
    BY DEF Above
  <2> QED
    BY <1>0, <1>2, <2>1
<1>4. Cardinality(E) <= OffsetsKept
  <2>1. CASE E = {}
    BY <1>0, <2>1, FS_EmptySet
  <2>2. CASE E # {}
    <3>1. E \in SUBSET Nat
      OBVIOUS
    <3> HIDE DEF E
    <3>2. PICK m \in E : \A n \in E : m <= n
      BY <2>2, <3>1, NatMin
    <3> DEFINE A == Above(D, m)
    <3>3. m \in D /\ A \in SUBSET D /\ A \cup {m} \in SUBSET D /\ E \subseteq D
      BY DEF Above, E
    <3>4. E \in SUBSET (A \cup {m})
      BY <3>1, <3>2, <3>3 DEF Above
    <3>5. Cardinality(A) < OffsetsKept
      BY <1>3, <3>2
    <3> HIDE DEF A
    <3>6. Cardinality(A \cup {m}) <= Cardinality(A) + 1
      <4>1. IsFiniteSet(A) /\ Cardinality(A) \in Nat
        BY <1>2, <3>3
      <4>2. Cardinality(A \cup {m}) = IF m \in A THEN Cardinality(A) ELSE Cardinality(A) + 1
        BY <4>1, FS_AddElement
      <4> QED
        BY <4>1, <4>2
    <3>7. Cardinality(E) <= Cardinality(A \cup {m})
      BY <1>2, <3>3, <3>4, FS_Subset
    <3>8. Cardinality(A) \in Nat /\ Cardinality(A \cup {m}) \in Nat /\ Cardinality(E) \in Nat
      BY <1>2, <3>3
    <3> QED
      BY <1>0, <3>5, <3>6, <3>7, <3>8
  <2> QED
    BY <2>1, <2>2
<1>5. ASSUME NEW id \in D, id + History > N
      PROVE  id \in E
  <2>1. Above(D, id) \in SUBSET ((id + 1)..N) /\ Above(D, id) \in SUBSET D /\ id \in Nat
    BY DEF Above
  <2>2. IsFiniteSet((id + 1)..N) /\ Cardinality((id + 1)..N) = IF id + 1 > N THEN 0 ELSE N - id
    <3>1. id + 1 \in Int /\ N \in Int
      BY <2>1
    <3>2. /\ IsFiniteSet((id + 1)..N)
          /\ Cardinality((id + 1)..N) = IF id + 1 > N THEN 0 ELSE N - (id + 1) + 1
      BY <3>1, FS_Interval
    <3> QED
      BY <2>1, <3>2
  <2>3. Cardinality(Above(D, id)) <= Cardinality((id + 1)..N)
    BY <2>1, <2>2, FS_Subset
  <2>4. Cardinality(Above(D, id)) \in Nat
    BY <1>2, <2>1
  <2>5. Cardinality(Above(D, id)) < OffsetsKept
    BY <1>0, <1>5, <2>1, <2>2, <2>3, <2>4
  <2> QED
    BY <1>0, <2>4, <2>5
<1> HIDE DEF E
<1>6. E \subseteq D
  BY DEF E
<1> QED
  BY <1>1, <1>4, <1>5, <1>6

\* The place a reply carries becomes the session's.
LEMMA RecordOK ==
    ASSUME NEW C, PaneOK(C), NEW S, NEW O, SessionOK(C, S, O),
           NEW r, Covered(C, S, r.cmd, r.line, r.seen), r.seen \in SUBSET Nat
    PROVE  LET T == [S EXCEPT ![r.cmd] = @ \cup r.seen] IN
           More(S, T) /\ SessionOK(C, T, Evicted(With(O, r.cmd, r.line)))
<1> DEFINE T == [S EXCEPT ![r.cmd] = @ \cup r.seen]
           f == With(O, r.cmd, r.line)
           P == Evicted(f)
           N == Len(C)
<1>1. /\ N \in Nat /\ S \in [Cmds -> SUBSET Nat] /\ r.cmd \in 1..N /\ r.cmd \in Cmds
      /\ DOMAIN O \subseteq 1..N /\ \A id \in DOMAIN O : Covered(C, S, id, O[id], {})
  BY PaneTypes DEF SessionOK, Covered
<1>2. T \in [Cmds -> SUBSET Nat] /\ More(S, T) /\ T[r.cmd] = S[r.cmd] \cup r.seen
  BY <1>1 DEF More
<1>3. /\ DOMAIN f = DOMAIN O \cup {r.cmd}
      /\ \A id \in DOMAIN f : f[id] = IF id = r.cmd THEN r.line ELSE O[id]
  BY DEF With
<1> HIDE DEF T, f
<1>4. /\ Cardinality(DOMAIN P) <= OffsetsKept /\ DOMAIN P \subseteq DOMAIN f
      /\ \A id \in DOMAIN P : P[id] = f[id]
  <2>1. DOMAIN f \subseteq 1..N
    BY <1>1, <1>3
  <2> QED
    BY <1>1, <2>1, EvictedKeeps
<1> HIDE DEF P
<1>5. Grows(C, C)
  BY GrowsSelf
<1>6. ASSUME NEW id \in DOMAIN P
      PROVE  Covered(C, T, id, P[id], {})
  <2>1. CASE id = r.cmd
    <3>1. P[id] = r.line
      BY <1>3, <1>4, <2>1
    <3>2. Covered(C, T, r.cmd, r.line, {})
      BY <1>2 DEF Covered
    <3> QED
      BY <2>1, <3>1, <3>2
  <2>2. CASE id # r.cmd
    <3>1. id \in DOMAIN O /\ P[id] = O[id]
      BY <1>3, <1>4, <2>2
    <3>2. Covered(C, S, id, O[id], {})
      BY <1>1, <3>1
    <3> QED
      BY <1>2, <1>5, <3>1, <3>2, CoveredLater
  <2> QED
    BY <2>1, <2>2
<1>7. DOMAIN P \subseteq 1..N
  BY <1>1, <1>3, <1>4
<1>8. SessionOK(C, T, P)
  BY <1>2, <1>4, <1>6, <1>7 DEF SessionOK
<1> QED
  BY <1>2, <1>8 DEF T, f, P

\* A call returns, and its reply is recorded.
LEMMA ReturnStep ==
    ASSUME IInv, RInv, NEW c \in Calls, Return(c)
    PROVE  RInv'
<1>1. /\ nextId' = nextId /\ pending' = pending /\ tasks' = tasks /\ down' = down
      /\ commands' = commands /\ call' = [call EXCEPT ![c] = Idle]
      /\ PaneOK(commands) /\ SessionOK(commands, seen, offsets)
  BY DEF Return, serverVars, paneVars, RInv
<1>2. call = [d \in Calls |-> call[d]]
  BY DEF IInv, IdsOK
<1>3. \A d \in Calls : call'[d] = call[d] \/ call'[d].pc = "idle"
  BY <1>1, <1>2 DEF Idle
<1>4. SessionOK(commands, seen', offsets') /\ More(seen, seen')
  <2>1. CASE call[c].pc = "answered" /\ call[c].got.value.ok
    <3> DEFINE r == call[c].got.value
    <3>1. /\ offsets' = Evicted(With(offsets, r.cmd, r.line))
          /\ seen' = [seen EXCEPT ![r.cmd] = @ \cup r.seen]
      BY <2>1 DEF Return, Record
    <3>2. Covered(commands, seen, r.cmd, r.line, r.seen) /\ r.seen \in SUBSET Nat
      BY <2>1 DEF RInv, ReplyOK
    <3> HIDE DEF r
    <3> QED
      BY <1>1, <3>1, <3>2, RecordOK
  <2>2. CASE ~(call[c].pc = "answered" /\ call[c].got.value.ok)
    <3>1. offsets' = offsets /\ seen' = seen
      BY <2>2 DEF Return
    <3> QED
      BY <1>1, <3>1 DEF More
  <2> QED
    BY <2>1, <2>2
<1>5. Grows(commands, commands)
  BY <1>1, GrowsSelf
<1>6. \A d \in Calls : call'[d].pc = "writing" => AskOK(commands, seen', call'[d].ask)
  BY <1>1, <1>3, <1>4, <1>5, AskLater DEF RInv
<1>7. \A d \in Calls : call'[d].pc = "answered" => ReplyOK(commands, seen', call'[d].got.value)
  BY <1>1, <1>3, <1>4, <1>5, ReplyLater DEF RInv
<1>8. \A id \in DOMAIN tasks : TaskOK(commands, seen', tasks[id])
  BY <1>1, <1>4, TaskSeen DEF RInv
<1>9. \A i \in DOMAIN down : ReplyOK(commands, seen', down[i].value)
  BY <1>1, <1>4, <1>5, ReplyLater DEF RInv
<1>10. IdBounds'
  BY <1>1 DEF RInv, IdBounds, Issued
<1> QED
  BY <1>1, <1>4, <1>6, <1>7, <1>8, <1>9, <1>10 DEF RInv

\* Every step keeps the invariant.
LEMMA RInvStep ==
    ASSUME IInv, RInv, [Next]_vars
    PROVE  RInv'
<1>1. CASE Pane
  BY <1>1, PaneStep
<1>2. ASSUME NEW id \in Ids, Daemon(id) \/ Clock(id)
      PROVE  RInv'
  BY <1>2, LookStep, JudgeStep, ClockStep DEF Daemon
<1>3. ASSUME NEW c \in Calls, NEW ask \in Asks, Begin(c, ask)
      PROVE  RInv'
  BY <1>3, BeginStep
<1>4. ASSUME NEW c \in Calls, Return(c)
      PROVE  RInv'
  BY <1>4, ReturnStep
<1>5. ASSUME NEW c \in Calls, Write(c, NewRead(call[c].ask)), UNCHANGED <<paneVars, sessionVars>>
      PROVE  RInv'
  BY <1>5, WriteStep
<1>6. CASE (Link \/ DaemonEnds) /\ UNCHANGED <<paneVars, sessionVars>>
  BY <1>6, LinkStep
<1>7. CASE UNCHANGED vars
  BY <1>7 DEF vars, transportVars, clientVars, serverVars, paneVars, sessionVars, RInv, IdBounds,
              Issued
<1> QED
  BY <1>1, <1>2, <1>3, <1>4, <1>5, <1>6, <1>7 DEF Next

\* The session starts with nothing to be wrong about.
LEMMA InitRInv == Init => RInv
<1> SUFFICES ASSUME Init
             PROVE  RInv
  OBVIOUS
<1>1. /\ nextId = 1 /\ pending = {} /\ call = [c \in Calls |-> Idle]
      /\ tasks = <<>> /\ down = <<>> /\ commands = <<>> /\ offsets = <<>>
      /\ seen = [id \in Cmds |-> {}]
  BY DEF Init, TransportInit
<1>2. DOMAIN tasks = {} /\ DOMAIN down = {} /\ DOMAIN offsets = {}
  BY <1>1
<1>3. IdBounds
  BY <1>1, TransportAssumption DEF IdBounds
<1>4. PaneOK(commands)
  BY <1>1, EmptySequence, ReadsAssumption DEF PaneOK
<1>5. SessionOK(commands, seen, offsets)
  <2>1. seen \in [Cmds -> SUBSET Nat]
    BY <1>1
  <2>2. Cardinality(DOMAIN offsets) <= OffsetsKept
    BY <1>2, FS_EmptySet, ReadsAssumption
  <2> QED
    BY <1>2, <2>1, <2>2 DEF SessionOK
<1>6. \A c \in Calls : call[c].pc = "idle"
  BY <1>1 DEF Idle
<1> QED
  BY <1>2, <1>3, <1>4, <1>5, <1>6 DEF RInv

\* Both invariants together.
LEMMA Invariants == Spec => [](IInv /\ RInv)
<1>1. Init => IInv /\ RInv
  BY InitIInv, InitRInv
<1>2. IInv /\ RInv /\ [Next]_vars => (IInv /\ RInv)'
  BY IInvStep, RInvStep
<1> QED
  BY <1>1, <1>2, PTL DEF Spec

\* The types of the state: in every reachable state a session's offsets are as
\* many as record keeps, of commands that ran, and within their output.
THEOREM TypesHold == Spec => []TypeOK
<1>1. ASSUME IInv, RInv
      PROVE  TypeOK
  <2>1. nextId \in 1..(MaxRequests + 1) /\ Issued \subseteq Ids
    BY <1>1, TransportAssumption DEF IInv, IdsOK, RInv, IdBounds, Issued, Ids
  <2>2. pending \subseteq Ids /\ DOMAIN tasks \subseteq Ids
    BY <1>1, <2>1 DEF IInv, IdsOK, RInv, IdBounds
  <2>3. Newest <= MaxCommands
    BY <1>1 DEF RInv, PaneOK, Newest
  <2>4. /\ DOMAIN offsets \subseteq 1..Newest /\ Cardinality(DOMAIN offsets) <= OffsetsKept
        /\ \A id \in DOMAIN offsets : Kept(id) => offsets[id] <= Len(commands[id].lines)
    BY <1>1 DEF RInv, SessionOK, Covered, Kept, KeptIn, Newest
  <2> QED
    BY <2>1, <2>2, <2>3, <2>4 DEF TypeOK
<1> QED
  BY <1>1, Invariants, PTL

\* Offsets::record and apply_read_params: whatever calls overlap, whichever
\* replies are lost and however the command goes on, a session never has an
\* offset past a line that it was not shown or that no search went over.
THEOREM NothingIsSkipped == Spec => []NothingSkipped
<1>1. ASSUME RInv
      PROVE  NothingSkipped
  BY <1>1 DEF RInv, SessionOK, Covered, NothingSkipped
<1> QED
  BY <1>1, Invariants, PTL

\* wait_and_read takes the snapshot before the output: a reply that says
\* completed was made from the whole output.
THEOREM CompletedRepliesAreWhole == Spec => []CompletedIsWhole
<1>1. ASSUME RInv
      PROVE  CompletedIsWhole
  <2> SUFFICES ASSUME NEW m \in Replies, m.value.ok, m.value.status = "completed",
                      Kept(m.value.cmd)
               PROVE  m.value.total = Len(commands[m.value.cmd].lines)
    BY DEF CompletedIsWhole
  <2>1. ReplyOK(commands, seen, m.value)
    BY <1>1 DEF Replies, Range, RInv
  <2>2. KeptIn(commands, m.value.cmd)
    BY DEF Kept, KeptIn, Newest
  <2> QED
    BY <2>1, <2>2 DEF ReplyOK
<1> QED
  BY <1>1, Invariants, PTL

\* wait_and_read subscribes before its first look: a read that waits with
\* nothing to wake it is one whose command still runs.
THEOREM ReadsWakeAtTheEnd == Spec => []EndsWakeReads
<1>1. ASSUME RInv
      PROVE  EndsWakeReads
  <2> SUFFICES ASSUME NEW id \in DOMAIN tasks, At(id, "wait"), ~tasks[id].changed
               PROVE  Kept(tasks[id].cmd) /\ ~commands[tasks[id].cmd].done
    BY DEF EndsWakeReads
  <2>1. TaskOK(commands, seen, tasks[id]) /\ tasks[id].pc = "wait"
    BY <1>1 DEF RInv, At
  <2>2. ~tasks[id].done /\ tasks[id].pc # "look"
    BY <2>1 DEF TaskOK
  <2>3. KeptIn(commands, tasks[id].cmd) /\ commands[tasks[id].cmd].done = tasks[id].done
    BY <2>1, <2>2 DEF TaskOK
  <2> QED
    BY <2>2, <2>3 DEF Kept, KeptIn, Newest
<1> QED
  BY <1>1, Invariants, PTL

\* apply_read_params and collect_context_lines: for every output, offset and
\* parameters, a read with search shows each line within the context of the
\* matches it selects once, and in order, whichever ranges meet or overlap.
THEOREM ContextIsShown == Spec => []ShowsItsContext
<1>1. ASSUME RInv
      PROVE  ShowsItsContext
  <2> SUFFICES ASSUME NEW id \in DOMAIN tasks, At(id, "judge"), tasks[id].ask.search,
                      Kept(tasks[id].cmd)
               PROVE  LET w == tasks[id]
                          p == w.ask
                          out == commands[w.cmd]
                          cursor == Start(p, w.cmd)
                          lines == ApplyReadParams(out, w.done, cursor, p).lines
                      IN  /\ \A i, j \in DOMAIN lines : i < j => lines[i] < lines[j]
                          /\ Range(lines) = {i \in 0..(Len(out.lines) - 1) :
                                               \E m \in Selected(out, w.done, cursor, p) :
                                                  m <= i + p.before /\ i <= m + p.after}
    BY Zenon DEF ShowsItsContext
  <2> DEFINE w == tasks[id]
             p == w.ask
             out == commands[w.cmd]
             cursor == Start(p, w.cmd)
             lines == ApplyReadParams(out, w.done, cursor, p).lines
             T == Around(Selected(out, w.done, cursor, p), p, Len(out.lines))
  <2>1. /\ TaskOK(commands, seen, w) /\ w.pc = "judge" /\ PaneOK(commands)
        /\ w.cmd \in 1..Len(commands)
    BY <1>1 DEF RInv, At, Kept, Newest
  <2>2. ParamsOK(p) /\ AskOK(commands, seen, p)
    BY <2>1 DEF TaskOK
  <2>3. OutputOK(out)
    <3>1. out \in Outputs
      BY <2>1, ElementOfSeq DEF PaneOK
    <3> QED
      BY <2>1, <3>1 DEF PaneOK, OutputOK, Outputs
  <2>4. cursor \in Nat
    <3>1. CASE p.offset.cmd = w.cmd
      <4>1. p.offset.cmd # None
        BY <2>1, <3>1 DEF None
      <4> QED
        BY <2>2, <3>1, <4>1 DEF Start, AskOK, Covered
    <3>2. CASE p.offset.cmd # w.cmd
      BY <3>2 DEF Start
    <3> QED
      BY <3>1, <3>2
  <2>5. lines = SearchRead(out, w.done, cursor, p).lines
    BY DEF ApplyReadParams
  <2> HIDE DEF w, p, out, cursor
  <2>6. Lists(lines, T)
    BY <2>2, <2>3, <2>4, <2>5, SearchShows
  <2> HIDE DEF lines, T
  <2>7. /\ lines \in Seq(Nat) /\ DOMAIN lines = 1..Len(lines) /\ T = {lines[i] : i \in 1..Len(lines)}
        /\ \A i, j \in 1..Len(lines) : i < j => lines[i] < lines[j]
    BY <2>6, LenProperties DEF Lists
  <2>8. Range(lines) = T
    BY <2>7 DEF Range
  <2>9. \A i, j \in DOMAIN lines : i < j => lines[i] < lines[j]
    BY <2>7
  <2> QED
    BY <2>8, <2>9, Zenon DEF T, Around, lines, w, p, out, cursor
<1> QED
  BY <1>1, Invariants, PTL

-----------------------------------------------------------------------------
\* One call at a time.

\* A request is answered once at most, and while its task runs, or its reply
\* is on the way, its call waits.
Waiting(c, id) == call[c].pc = "waiting" /\ call[c].id = id
AnsweredOnce ==
    /\ ~alive => DOMAIN tasks = {}
    /\ \A id \in DOMAIN tasks : \E c \in Calls : Waiting(c, id)
    /\ \A i \in DOMAIN down : /\ \E c \in Calls : Waiting(c, down[i].id)
                              /\ down[i].id \notin DOMAIN tasks
    /\ \A i, j \in DOMAIN down : down[i].id = down[j].id => i = j

\* The session's places, of the commands the pane keeps.
Keeps(C, O, H) ==
    \A id \in 1..Len(C) : KeptIn(C, id) =>
        /\ id \in DOMAIN O => O[id] = H[id]
        /\ H[id] > 0 => id \in DOMAIN O
        /\ H[id] <= Whole(C[id])

\* A read starts where the session was, whichever command it will be of.
AskPlace(C, H, a) ==
    \A id \in Cmds :
        /\ a.cmd = id \/ (a.cmd = None /\ id >= a.offset.cmd)
        /\ id > Len(C) \/ KeptIn(C, id)
        => Start(a, id) = H[id]
TaskPlace(C, H, w) ==
    /\ AskPlace(C, H, w.ask)
    /\ w.pc # "look" /\ w.ask.cmd = None => w.cmd >= w.ask.offset.cmd
    /\ w.pc = "judge" /\ KeptIn(C, w.cmd) /\ ~w.done => H[w.cmd] <= Steady(C[w.cmd])
ReplyPlace(C, H, v) ==
    v.ok /\ KeptIn(C, v.cmd) => H[v.cmd] <= v.line /\ v.line <= Whole(C[v.cmd])

HighOK == high \in [Cmds -> Nat] /\ \A id \in Cmds : id > Len(commands) => high[id] = 0
Busy(c) == call[c].pc # "idle"
OneCall == \A c, d \in Calls : Busy(c) /\ Busy(d) => c = d
PlaceInv ==
    /\ Keeps(commands, offsets, high)
    /\ \A c \in Calls : call[c].pc = "writing" => AskPlace(commands, high, call[c].ask)
    /\ \A c \in Calls : call[c].pc = "answered" => ReplyPlace(commands, high, call[c].got.value)
    /\ \A id \in DOMAIN tasks : TaskPlace(commands, high, tasks[id])
    /\ \A i \in DOMAIN down : ReplyPlace(commands, high, down[i].value)
PInv == AnsweredOnce /\ HighOK /\ (~overlapped => OneCall /\ PlaceInv)

\* The steps of the transport keep one answer to one request.
LEMMA AnswersStep ==
    ASSUME IInv, AnsweredOnce, TransportNext
    PROVE  AnsweredOnce'
<1>1. IdsOK /\ IdsOnce /\ Routed /\ NoLostCall
  BY DEF IInv
<1> USE DEF clientVars, serverVars
<1> DEFINE Waits1(c, id) == call'[c].pc = "waiting" /\ call'[c].id = id
<1>2. CASE TaskSteps
  BY <1>1, <1>2 DEF TaskSteps, AnsweredOnce, Waiting
<1>3. CASE CallReturns
  <2>1. tasks' = tasks /\ down' = down /\ alive' = alive
    BY <1>3 DEF CallReturns
  <2>2. \A c \in Calls : call[c].pc = "waiting" => call'[c] = call[c]
    BY <1>1, <1>3 DEF CallReturns, Out, IdsOK
  <2> QED
    BY <2>1, <2>2 DEF AnsweredOnce, Waiting
<1>4. ASSUME NEW c \in Calls, NEW ask, Request(c, ask)
      PROVE  AnsweredOnce'
  <2>1. tasks' = tasks /\ down' = down /\ alive' = alive /\ call[c].pc = "idle"
    BY <1>4 DEF Request
  <2>2. \A d \in Calls : call[d].pc = "waiting" => call'[d] = call[d]
    BY <1>1, <1>4, <2>1 DEF Request, IdsOK
  <2> QED
    BY <2>1, <2>2 DEF AnsweredOnce, Waiting
<1>5. ASSUME NEW c \in Calls, NEW w, Write(c, w)
      PROVE  AnsweredOnce'
  <2>1. down' = down /\ alive' = alive /\ call[c].pc = "writing"
    BY <1>5 DEF Write
  <2>2. /\ \A d \in Calls \ {c} : call'[d] = call[d]
        /\ call'[c].id = call[c].id
        /\ alive => call'[c].pc = "waiting"
    BY <1>1, <1>5 DEF Write, IdsOK
  <2>3. DOMAIN tasks' = IF alive THEN DOMAIN tasks \cup {call[c].id} ELSE DOMAIN tasks
    BY <1>5 DEF Write
  <2>4. \A d \in Calls, id \in Issued : Waiting(d, id) => Waits1(d, id)
    BY <2>1, <2>2 DEF Waiting
  <2>5. /\ DOMAIN tasks \subseteq Issued
        /\ \A i \in DOMAIN down : down[i].id \in Issued /\ down[i].id # call[c].id
    BY <1>1, <2>1 DEF IdsOK, IdsOnce
  <2>6. ~alive' => DOMAIN tasks' = {}
    BY <2>1, <2>3 DEF AnsweredOnce, Waiting
  <2>7. \A id \in DOMAIN tasks' : \E d \in Calls : Waits1(d, id)
    <3>1. \A id \in DOMAIN tasks : \E d \in Calls : Waits1(d, id)
      BY <2>4, <2>5 DEF AnsweredOnce, Waiting
    <3>2. alive => Waits1(c, call[c].id)
      BY <2>2 DEF Waiting
    <3> QED
      BY <2>3, <3>1, <3>2
  <2>8. \A i \in DOMAIN down' : /\ \E d \in Calls : Waits1(d, down'[i].id)
                                /\ down'[i].id \notin DOMAIN tasks'
    BY <2>1, <2>3, <2>4, <2>5 DEF AnsweredOnce, Waiting
  <2> QED
    BY <2>1, <2>6, <2>7, <2>8 DEF AnsweredOnce, Waiting
<1>6. ASSUME NEW id \in DOMAIN tasks, NEW value, Answer(id, value)
      PROVE  AnsweredOnce'
  <2>1. /\ call' = call /\ alive' = alive /\ DOMAIN tasks' = DOMAIN tasks \ {id}
        /\ \A i \in DOMAIN down' : \/ i \in DOMAIN down /\ down'[i] = down[i]
                                   \/ i = Len(down) + 1 /\ down'[i].id = id
    BY <1>1, <1>6, Answered
  <2> QED
    BY <2>1 DEF AnsweredOnce, Waiting
<1>7. CASE DaemonEnds
  <2>1. /\ call' = call /\ DOMAIN tasks' = {} /\ DOMAIN down' \subseteq DOMAIN down
        /\ \A i \in DOMAIN down' : down'[i] = down[i]
    BY <1>1, <1>7, Ended
  <2> QED
    BY <2>1 DEF AnsweredOnce, Waiting
<1>8. CASE Route
  <2>1. /\ tasks' = tasks /\ alive' = alive /\ 1 \in DOMAIN down
        /\ \A i \in DOMAIN down' : /\ i \in Nat /\ i + 1 \in DOMAIN down /\ i + 1 # 1
                                   /\ down'[i] = down[i + 1]
        /\ \A c \in Calls : call[c].id # down[1].id => call'[c] = call[c]
    BY <1>1, <1>8, Routes
  <2>2. \A c \in Calls : \A id : Waiting(c, id) /\ id # down[1].id => Waits1(c, id)
    BY <2>1 DEF Waiting
  <2>3. /\ \A id \in DOMAIN tasks : id # down[1].id
        /\ \A i \in DOMAIN down' : down'[i].id # down[1].id
    BY <2>1 DEF AnsweredOnce, Waiting
  <2>4. \A id \in DOMAIN tasks : \E d \in Calls : Waits1(d, id)
    BY <2>2, <2>3 DEF AnsweredOnce, Waiting
  <2>5. \A i \in DOMAIN down' : /\ \E d \in Calls : Waits1(d, down'[i].id)
                                /\ down'[i].id \notin DOMAIN tasks
    BY <2>1, <2>2, <2>3 DEF AnsweredOnce, Waiting
  <2>6. \A i, j \in DOMAIN down' : down'[i].id = down'[j].id => i = j
    <3> SUFFICES ASSUME NEW i \in DOMAIN down', NEW j \in DOMAIN down', down'[i].id = down'[j].id
                 PROVE  i = j
      OBVIOUS
    <3>1. i + 1 = j + 1
      BY <2>1 DEF AnsweredOnce, Waiting
    <3> QED
      BY <2>1, <3>1
  <2> QED
    BY <2>1, <2>4, <2>5, <2>6 DEF AnsweredOnce, Waiting
<1>9. CASE RouteEnds
  <2>1. tasks' = tasks /\ down' = down /\ alive' = alive /\ ~alive /\ down = <<>>
    BY <1>9 DEF RouteEnds
  <2>2. DOMAIN tasks = {} /\ DOMAIN down = {}
    BY <2>1 DEF AnsweredOnce, Waiting
  <2> QED
    BY <2>1, <2>2 DEF AnsweredOnce, Waiting
<1> QED
  BY <1>2, <1>3, <1>4, <1>5, <1>6, <1>7, <1>8, <1>9 DEF TransportNext

\* A place stays one while the pane goes on.
LEMMA AskPlaceLater ==
    ASSUME NEW C, PaneOK(C), NEW D, PaneOK(D), Grows(C, D), NEW H, NEW a, AskPlace(C, H, a)
    PROVE  AskPlace(D, H, a)
<1> SUFFICES ASSUME NEW id \in Cmds, a.cmd = id \/ (a.cmd = None /\ id >= a.offset.cmd),
                    id > Len(D) \/ KeptIn(D, id)
             PROVE  Start(a, id) = H[id]
  BY DEF AskPlace
<1>1. Len(C) \in Nat /\ Len(D) \in Nat /\ Len(C) <= Len(D) /\ id \in Nat /\ id > 0
  BY PaneTypes DEF Grows, Cmds
<1>2. id > Len(C) \/ KeptIn(C, id)
  <2>1. CASE id > Len(C)
    BY <2>1
  <2>2. CASE ~(id > Len(C))
    <3>1. id \in 1..Len(C) /\ ~(id > Len(D))
      BY <1>1, <2>2
    <3> QED
      BY <3>1 DEF Grows
  <2> QED
    BY <2>1, <2>2
<1> QED
  BY <1>2 DEF AskPlace

\* So does the place a reply carries,
LEMMA ReplyPlaceLater ==
    ASSUME NEW C, PaneOK(C), NEW D, PaneOK(D), Grows(C, D), NEW H, NEW S, NEW v,
           ReplyOK(C, S, v), ReplyPlace(C, H, v)
    PROVE  ReplyPlace(D, H, v)
<1> SUFFICES ASSUME v.ok, KeptIn(D, v.cmd)
             PROVE  H[v.cmd] <= v.line /\ v.line <= Whole(D[v.cmd])
  BY DEF ReplyPlace
<1>1. v.cmd \in 1..Len(C) /\ v.line \in Nat
  BY DEF ReplyOK, Covered
<1>2. KeptIn(C, v.cmd) /\ Whole(C[v.cmd]) <= Whole(D[v.cmd])
  BY <1>1 DEF Grows
<1>3. Whole(C[v.cmd]) \in Nat /\ Whole(D[v.cmd]) \in Nat
  <2>1. v.cmd \in 1..Len(D)
    BY DEF KeptIn
  <2> QED
    BY <1>1, <2>1, PaneTypes, ConsumableLemma DEF Whole
<1> QED
  BY <1>1, <1>2, <1>3 DEF ReplyPlace

\* and that of a task,
LEMMA TaskPlaceLater ==
    ASSUME NEW C, PaneOK(C), NEW D, PaneOK(D), Grows(C, D), NEW S, NEW H, H \in [Cmds -> Nat],
           NEW w, TaskOK(C, S, w), TaskPlace(C, H, w)
    PROVE  TaskPlace(D, H, [w EXCEPT !.changed = TRUE])
<1> DEFINE yes == TRUE
           v == [w EXCEPT !.changed = yes]
<1> HIDE DEF yes
<1>1. v = TaskOf(w.pc, w.ask, w.cmd, w.done, w.out, yes, w.late, w.settle)
  BY SetChanged DEF TaskOK
<1> HIDE DEF v
<1>2. v.pc = w.pc /\ v.ask = w.ask /\ v.cmd = w.cmd /\ v.done = w.done
  BY <1>1, Fields
<1>3. AskPlace(D, H, w.ask)
  BY AskPlaceLater DEF TaskPlace
<1>4. ASSUME w.pc = "judge", KeptIn(D, w.cmd), ~w.done
      PROVE  H[w.cmd] <= Steady(D[w.cmd])
  <2>1. w.cmd \in 1..Len(C) /\ w.cmd \in 1..Len(D)
    BY <1>4 DEF TaskOK, KeptIn
  <2>2. KeptIn(C, w.cmd) /\ Steady(C[w.cmd]) <= Steady(D[w.cmd])
    BY <1>4, <2>1 DEF Grows
  <2>3. H[w.cmd] <= Steady(C[w.cmd])
    BY <1>4, <2>2 DEF TaskPlace
  <2>4. H[w.cmd] \in Nat /\ Steady(C[w.cmd]) \in Nat /\ Steady(D[w.cmd]) \in Nat
    BY <2>1, PaneTypes, ConsumableLemma DEF Steady
  <2> QED
    BY <2>2, <2>3, <2>4
<1>5. TaskPlace(D, H, v)
  BY <1>2, <1>3, <1>4 DEF TaskPlace
<1> QED
  BY <1>5 DEF v, yes

\* and the session's own.
LEMMA KeepsLater ==
    ASSUME NEW C, PaneOK(C), NEW D, PaneOK(D), Grows(C, D), NEW H, H \in [Cmds -> Nat],
           \A id \in Cmds : id > Len(C) => H[id] = 0,
           NEW O, DOMAIN O \subseteq 1..Len(C), Keeps(C, O, H)
    PROVE  Keeps(D, O, H)
<1> SUFFICES ASSUME NEW id \in 1..Len(D), KeptIn(D, id)
             PROVE  /\ id \in DOMAIN O => O[id] = H[id]
                    /\ H[id] > 0 => id \in DOMAIN O
                    /\ H[id] <= Whole(D[id])
  BY DEF Keeps
<1>1. Len(C) \in Nat /\ Len(D) \in Nat /\ id \in Cmds /\ H[id] \in Nat
  BY PaneTypes
<1>2. Whole(D[id]) \in Nat
  BY PaneTypes, ConsumableLemma DEF Whole
<1>3. CASE id \in 1..Len(C)
  <2>1. KeptIn(C, id) /\ Whole(C[id]) <= Whole(D[id])
    BY <1>3 DEF Grows
  <2>2. Whole(C[id]) \in Nat
    BY <1>3, PaneTypes, ConsumableLemma DEF Whole
  <2>3. /\ id \in DOMAIN O => O[id] = H[id]
        /\ H[id] > 0 => id \in DOMAIN O
        /\ H[id] <= Whole(C[id])
    BY <1>3, <2>1 DEF Keeps
  <2> QED
    BY <1>1, <1>2, <2>1, <2>2, <2>3
<1>4. CASE ~(id \in 1..Len(C))
  <2>1. id > Len(C) /\ id \notin DOMAIN O
    BY <1>1, <1>4
  <2>2. H[id] = 0
    BY <1>1, <2>1
  <2> QED
    BY <1>2, <2>1, <2>2
<1> QED
  BY <1>3, <1>4

\* The pane goes on.
LEMMA PanePlace ==
    ASSUME RInv, HighOK, PlaceInv, Pane
    PROVE  PlaceInv'
<1>1. /\ PaneOK(commands) /\ PaneOK(commands') /\ Grows(commands, commands')
      /\ tasks' = Woken /\ call' = call /\ down' = down
      /\ offsets' = offsets /\ high' = high
  <2>1. PaneOK(commands)
    BY DEF RInv
  <2> QED
    BY <2>1, PaneGrows DEF clientVars, sessionVars
<1>2. high \in [Cmds -> Nat] /\ \A id \in Cmds : id > Len(commands) => high[id] = 0
  BY DEF HighOK
<1>3. Keeps(commands', offsets, high)
  <2>1. DOMAIN offsets \subseteq 1..Len(commands)
    BY DEF RInv, SessionOK
  <2> QED
    BY <1>1, <1>2, <2>1, KeepsLater DEF PlaceInv
<1>4. \A id \in DOMAIN tasks : TaskPlace(commands', high, [tasks[id] EXCEPT !.changed = TRUE])
  BY <1>1, <1>2, TaskPlaceLater DEF RInv, PlaceInv
<1>5. \A id \in DOMAIN tasks' : TaskPlace(commands', high, tasks'[id])
  BY <1>1, <1>4 DEF Woken
<1>6. \A c \in Calls : call[c].pc = "writing" => AskPlace(commands', high, call[c].ask)
  BY <1>1, AskPlaceLater DEF PlaceInv
<1>7. \A c \in Calls : call[c].pc = "answered" => ReplyPlace(commands', high, call[c].got.value)
  BY <1>1, ReplyPlaceLater DEF RInv, PlaceInv
<1>8. \A i \in DOMAIN down : ReplyPlace(commands', high, down[i].value)
  BY <1>1, ReplyPlaceLater DEF RInv, PlaceInv
<1> QED
  BY <1>1, <1>3, <1>5, <1>6, <1>7, <1>8 DEF PlaceInv

\* A task goes on.
LEMMA TaskPlaceStep ==
    ASSUME PlaceInv, NEW id \in DOMAIN tasks, NEW w, TaskPlace(commands, high, w), Step(id, w),
           UNCHANGED <<paneVars, sessionVars>>
    PROVE  PlaceInv'
<1>1. /\ tasks' = [tasks EXCEPT ![id] = w] /\ call' = call /\ down' = down
      /\ commands' = commands /\ offsets' = offsets /\ high' = high
  BY DEF Step, clientVars, paneVars, sessionVars
<1>2. \A i \in DOMAIN tasks' : i \in DOMAIN tasks /\ (tasks'[i] = w \/ tasks'[i] = tasks[i])
  BY <1>1
<1>3. \A i \in DOMAIN tasks' : TaskPlace(commands, high, tasks'[i])
  BY <1>2 DEF PlaceInv
<1> QED
  BY <1>1, <1>3 DEF PlaceInv

\* A task answers.
LEMMA AnswerPlaceStep ==
    ASSUME IInv, PlaceInv, NEW id \in DOMAIN tasks, NEW v, ReplyPlace(commands, high, v),
           Answer(id, v), UNCHANGED <<paneVars, sessionVars>>
    PROVE  PlaceInv'
<1>1. call' = call /\ commands' = commands /\ offsets' = offsets /\ high' = high
  BY DEF Answer, clientVars, paneVars, sessionVars
<1>2. /\ DOMAIN tasks' = DOMAIN tasks \ {id}
      /\ \A k \in DOMAIN tasks' : tasks'[k] = tasks[k]
      /\ \A i \in DOMAIN down' : \/ i \in DOMAIN down /\ down'[i] = down[i]
                                 \/ down'[i].value = v
  BY Answered DEF IInv
<1>3. /\ \A k \in DOMAIN tasks' : TaskPlace(commands, high, tasks'[k])
      /\ \A i \in DOMAIN down' : ReplyPlace(commands, high, down'[i].value)
  BY <1>2 DEF PlaceInv
<1> QED
  BY <1>1, <1>3 DEF PlaceInv

\* What may be consumed of a command the pane keeps.
LEMMA KeptTypes ==
    ASSUME NEW C, PaneOK(C), NEW id, KeptIn(C, id)
    PROVE  /\ id \in Cmds /\ id \in 1..Len(C) /\ Len(C[id].lines) \in Nat
           /\ Whole(C[id]) \in Nat /\ Steady(C[id]) \in Nat /\ Steady(C[id]) <= Whole(C[id])
           /\ C[id].done => Whole(C[id]) = Len(C[id].lines)
           /\ ~C[id].done => Whole(C[id]) = Steady(C[id])
<1>1. id \in 1..Len(C) /\ id \in Cmds /\ OutputOK(C[id]) /\ Len(C[id].lines) \in Nat
      /\ C[id].done \in BOOLEAN
  BY PaneTypes DEF KeptIn
<1>2. /\ Whole(C[id]) \in Nat /\ Steady(C[id]) \in Nat
  BY <1>1, ConsumableLemma DEF Whole, Steady
<1>3. /\ C[id].done => Whole(C[id]) = Len(C[id].lines)
      /\ ~C[id].done => Whole(C[id]) = Steady(C[id])
      /\ Steady(C[id]) <= Len(C[id].lines)
  BY <1>1 DEF Whole, Steady, Consumable
<1> QED
  BY <1>1, <1>2, <1>3

\* Look: the command it reads is at or past the place it starts from.
LEMMA LookPlace ==
    ASSUME IInv, RInv, PlaceInv, NEW id \in Ids, Look(id)
    PROVE  PlaceInv'
<1> DEFINE w == tasks[id]
           cmd == IF w.ask.cmd = None THEN Newest ELSE w.ask.cmd
<1>1. /\ id \in DOMAIN tasks /\ TaskOK(commands, seen, w) /\ TaskPlace(commands, high, w)
      /\ UNCHANGED <<paneVars, sessionVars>>
  BY DEF Look, At, RInv, PlaceInv
<1>2. CASE ~WellFormed(w.ask) \/ ~Kept(cmd)
  <2>1. Answer(id, Refused)
    BY <1>2 DEF Look
  <2>2. ReplyPlace(commands, high, Refused)
    BY DEF ReplyPlace, Refused
  <2> QED
    BY <1>1, <2>1, <2>2, AnswerPlaceStep
<1>3. CASE WellFormed(w.ask) /\ Kept(cmd)
  <2>1. Step(id, Looked(w, cmd))
    BY <1>3, Zenon DEF Look, Looked
  <2>2. w.ask.cmd = None => cmd >= w.ask.offset.cmd
    BY <1>1, PaneTypes DEF RInv, TaskOK, AskOK, Newest
  <2>3. KeptIn(commands, cmd)
    BY <1>3 DEF Kept, KeptIn, Newest
  <2> DEFINE v == Looked(w, cmd)
  <2> HIDE DEF w, cmd
  <2>4. /\ v.pc = "judge" /\ v.ask = w.ask /\ v.cmd = cmd /\ v.done = commands[cmd].done
    BY <1>1, LookFields DEF TaskOK
  <2> HIDE DEF v
  <2>5. ~commands[cmd].done => high[cmd] <= Steady(commands[cmd])
    <3>1. high[cmd] <= Whole(commands[cmd])
      BY <2>3 DEF PlaceInv, Keeps, KeptIn
    <3> QED
      BY <2>3, <3>1, KeptTypes DEF RInv
  <2>6. TaskPlace(commands, high, v)
    BY <1>1, <2>2, <2>4, <2>5 DEF TaskPlace
  <2> QED
    BY <1>1, <2>1, <2>6, TaskPlaceStep DEF v
<1> QED
  BY <1>2, <1>3

\* Judge: the reply goes on from where the session was.
LEMMA JudgePlace ==
    ASSUME IInv, RInv, HighOK, PlaceInv, NEW id \in Ids, Judge(id)
    PROVE  PlaceInv'
<1> DEFINE t == tasks[id]
<1>1. /\ id \in DOMAIN tasks /\ t.pc = "judge" /\ UNCHANGED <<paneVars, sessionVars>>
      /\ TaskOK(commands, seen, t) /\ TaskPlace(commands, high, t) /\ PaneOK(commands)
  BY JudgeCases DEF RInv, PlaceInv
<1>2. ASSUME NEW v, Step(id, v), v.pc = "wait", v.ask = t.ask, v.cmd = t.cmd
      PROVE  PlaceInv'
  <2>1. TaskPlace(commands, high, v)
    BY <1>1, <1>2 DEF TaskPlace
  <2> QED
    BY <1>1, <1>2, <2>1, TaskPlaceStep
<1>3. ASSUME NEW v, Answer(id, v), ReplyOK(commands, seen, v), ReadsOn(commands, t, v)
      PROVE  PlaceInv'
  <2> SUFFICES ASSUME v.ok, KeptIn(commands, v.cmd)
               PROVE  high[v.cmd] <= v.line /\ v.line <= Whole(commands[v.cmd])
    BY <1>1, <1>3, AnswerPlaceStep DEF ReplyPlace
  <2> DEFINE cmd == t.cmd
             o == commands[cmd]
             start == Start(t.ask, cmd)
             end == IF t.done THEN Len(o.lines) ELSE Steady(o)
  <2>1. v.cmd = cmd /\ KeptIn(commands, cmd)
    BY <1>3 DEF ReadsOn
  <2>2. start <= end => start <= v.line /\ v.line <= end
    BY <1>3, <2>1 DEF ReadsOn
  <2>3. start = high[cmd]
    <3>1. cmd \in Cmds
      BY <1>1, <2>1, KeptTypes
    <3>2. t.ask.cmd = cmd \/ (t.ask.cmd = None /\ cmd >= t.ask.offset.cmd)
      BY <1>1 DEF TaskOK, TaskPlace
    <3> QED
      BY <1>1, <2>1, <3>1, <3>2 DEF TaskPlace, AskPlace
  <2>4. high[cmd] <= Whole(o)
    BY <2>1 DEF PlaceInv, Keeps, KeptIn
  <2>5. /\ t.done => o.done
        /\ ~t.done => high[cmd] <= Steady(o)
    BY <1>1, <2>1 DEF TaskOK, TaskPlace
  <2>6. start <= end /\ end <= Whole(o) /\ end \in Nat /\ Whole(o) \in Nat /\ start \in Nat
    <3>1. cmd \in Cmds /\ Whole(o) \in Nat /\ Steady(o) \in Nat /\ Steady(o) <= Whole(o)
          /\ (o.done => Whole(o) = Len(o.lines))
      BY <1>1, <2>1, KeptTypes
    <3>2. high[cmd] \in Nat
      BY <3>1 DEF HighOK
    <3> HIDE DEF start, cmd, o, t
    <3>3. CASE t.done
      <4>1. end = Whole(o)
        BY <2>5, <3>1, <3>3
      <4> QED
        BY <2>3, <2>4, <3>1, <3>2, <4>1
    <3>4. CASE ~t.done
      <4>1. end = Steady(o)
        BY <3>4
      <4> QED
        BY <2>3, <2>5, <3>1, <3>2, <3>4, <4>1
    <3> QED
      BY <3>3, <3>4
  <2> HIDE DEF start, end
  <2>7. start <= v.line /\ v.line <= end
    BY <2>2, <2>6
  <2>8. v.line \in Nat
    BY <1>3 DEF ReplyOK, Covered
  <2> QED
    BY <2>1, <2>3, <2>6, <2>7, <2>8
<1> QED
  BY <1>2, <1>3, JudgeCases

\* A task wakes, settles, or is late.
LEMMA ClockPlace ==
    ASSUME RInv, PlaceInv, NEW id \in Ids, Wake(id) \/ Clock(id)
    PROVE  PlaceInv'
<1> DEFINE w == tasks[id]
           yes == TRUE
<1>1. /\ id \in DOMAIN tasks /\ IsTask(w) /\ TaskPlace(commands, high, w)
      /\ UNCHANGED <<paneVars, sessionVars>>
  BY DEF Wake, Clock, Settles, Deadline, At, RInv, TaskOK, PlaceInv
<1>2. \/ Step(id, [w EXCEPT !.pc = "look"])
      \/ Step(id, [w EXCEPT !.pc = "look", !.settle = "over"])
      \/ Step(id, [w EXCEPT !.pc = "look", !.late = yes])
  BY DEF Wake, Clock, Settles, Deadline
<1> HIDE DEF w, yes
<1>3. ASSUME NEW v, NEW late, NEW settle,
             v = TaskOf("look", w.ask, w.cmd, w.done, w.out, w.changed, late, settle)
      PROVE  TaskPlace(commands, high, v)
  <2>1. v.pc = "look" /\ v.ask = w.ask
    BY <1>3, Fields
  <2> QED
    BY <1>1, <2>1 DEF TaskPlace
<1>4. TaskPlace(commands, high, [w EXCEPT !.pc = "look"])
  BY <1>1, <1>3, SetLook
<1>5. TaskPlace(commands, high, [w EXCEPT !.pc = "look", !.settle = "over"])
  BY <1>1, <1>3, SetSettle
<1>6. TaskPlace(commands, high, [w EXCEPT !.pc = "look", !.late = yes])
  BY <1>1, <1>3, SetLate
<1> QED
  BY <1>1, <1>2, <1>4, <1>5, <1>6, TaskPlaceStep

\* A session sends the place it has.
LEMMA SentPlace ==
    ASSUME RInv, HighOK, PlaceInv, NEW ask \in Asks,
           ask.run => ask.cmd \in 1..Newest /\ high[ask.cmd] = 0
    PROVE  AskPlace(commands, high, Sent(ask))
<1> DEFINE a == Sent(ask)
           known == IF ask.cmd = None THEN DOMAIN offsets ELSE DOMAIN offsets \cap {ask.cmd}
<1>1. a.cmd = ask.cmd /\ a.offset = IF ask.run THEN NoOffset ELSE ForRead(ask.cmd)
  BY DEF Sent
<1>2. ForRead(ask.cmd) = IF known = {} THEN NoOffset
                         ELSE [cmd |-> Max(known), line |-> offsets[Max(known)]]
  BY DEF ForRead, NoOffset
<1>3. Len(commands) \in Nat /\ DOMAIN offsets \subseteq 1..Len(commands)
  BY PaneTypes DEF RInv, SessionOK
<1>4. known # {} => Max(known) \in known /\ \A m \in known : m <= Max(known)
  <2>1. known \in SUBSET (0..Len(commands))
    BY <1>3
  <2> HIDE DEF known
  <2> QED
    BY <1>3, <2>1, MaxIn
<1> HIDE DEF a
<1> SUFFICES ASSUME NEW id \in Cmds, a.cmd = id \/ (a.cmd = None /\ id >= a.offset.cmd),
                    id > Len(commands) \/ KeptIn(commands, id)
             PROVE  Start(a, id) = high[id]
  BY DEF AskPlace, a
<1>5. id \in Nat /\ id # None /\ high[id] \in Nat
  BY DEF Cmds, None, HighOK
<1>6. id \notin DOMAIN offsets => high[id] = 0
  BY <1>5 DEF HighOK, PlaceInv, Keeps, KeptIn
<1>7. id \in DOMAIN offsets => offsets[id] = high[id]
  BY <1>3, <1>5 DEF PlaceInv, Keeps, KeptIn
<1>8. CASE ask.run
  <2>1. ask.cmd \in Nat /\ ask.cmd # None
    BY <1>8, ReadsAssumption DEF None, Newest
  <2>2. id = ask.cmd /\ a.offset.line = 0 /\ high[id] = 0
    BY <1>1, <1>8, <2>1 DEF NoOffset
  <2> QED
    BY <2>2 DEF Start
<1>9. CASE ~ask.run /\ known = {}
  <2>1. id \notin DOMAIN offsets
    BY <1>1, <1>9
  <2>2. a.offset.line = 0
    BY <1>1, <1>2, <1>9 DEF NoOffset
  <2> QED
    BY <1>6, <2>1, <2>2 DEF Start
<1>10. CASE ~ask.run /\ known # {}
  <2> DEFINE m == Max(known)
  <2>1. a.offset.cmd = m /\ a.offset.line = offsets[m]
    BY <1>1, <1>2, <1>10
  <2>2. m \in known /\ m \in DOMAIN offsets /\ m \in Nat
    BY <1>3, <1>4, <1>10
  <2>3. id # m => id \notin DOMAIN offsets
    <3> SUFFICES ASSUME id # m, id \in DOMAIN offsets
                 PROVE  FALSE
      OBVIOUS
    <3>1. CASE a.cmd = id
      BY <1>1, <1>5, <2>2, <3>1
    <3>2. CASE a.cmd = None /\ id >= m
      <4>1. id \in known
        BY <1>1, <3>2
      <4>2. id <= m
        BY <1>4, <4>1
      <4> HIDE DEF m
      <4> QED
        BY <1>5, <2>2, <3>2, <4>2
    <3> QED
      BY <2>1, <3>1, <3>2
  <2> HIDE DEF m
  <2> QED
    BY <1>6, <1>7, <2>1, <2>2, <2>3 DEF Start
<1> QED
  BY <1>8, <1>9, <1>10

\* What the calls of a session hold when none overlapped another.
Alone == ~overlapped => OneCall /\ PlaceInv

\* A call begins alone and sends the place the session has.
LEMMA BeginPlace ==
    ASSUME IInv, RInv, HighOK, Alone, NEW c \in Calls, NEW ask \in Asks, Begin(c, ask)
    PROVE  Alone'
<1> SUFFICES ASSUME ~overlapped'
             PROVE  OneCall' /\ PlaceInv'
  BY DEF Alone
<1>1. /\ Request(c, Sent(ask)) /\ commands' = commands /\ offsets' = offsets /\ high' = high
      /\ ask.run => ask.cmd \in 1..Newest /\ high[ask.cmd] = 0
      /\ PlaceInv /\ \A d \in Calls \ {c} : ~Busy(d)
  BY DEF Begin, paneVars, Alone, Busy
<1>2. tasks' = tasks /\ down' = down
  BY <1>1 DEF Request, serverVars
<1>3. call = [d \in Calls |-> call[d]]
  BY DEF IInv, IdsOK
<1>4. /\ \A d \in Calls \ {c} : call'[d] = call[d]
      /\ call'[c].pc = "failed" \/ (call'[c].pc = "writing" /\ call'[c].ask = Sent(ask))
  BY <1>1, <1>3 DEF Request
<1>5. AskPlace(commands, high, Sent(ask))
  BY <1>1, SentPlace
<1>6. OneCall'
  BY <1>1, <1>4 DEF OneCall, Busy
<1>7. PlaceInv'
  BY <1>1, <1>2, <1>4, <1>5 DEF PlaceInv
<1> QED
  BY <1>6, <1>7

\* Its request is written.
LEMMA WritePlace ==
    ASSUME IInv, PlaceInv, NEW c \in Calls, Write(c, NewRead(call[c].ask)),
           UNCHANGED <<paneVars, sessionVars>>
    PROVE  PlaceInv'
<1> DEFINE w == NewRead(call[c].ask)
<1>1. /\ commands' = commands /\ offsets' = offsets /\ high' = high /\ down' = down
      /\ call[c].pc = "writing"
  BY DEF Write, paneVars, sessionVars
<1>2. call = [d \in Calls |-> call[d]]
  BY DEF IInv, IdsOK
<1>3. \A d \in Calls : call'[d] = call[d] \/ call'[d].pc \in {"waiting", "failed"}
  BY <1>2 DEF Write
<1>4. \A id \in DOMAIN tasks' : tasks'[id] = w \/ (id \in DOMAIN tasks /\ tasks'[id] = tasks[id])
  BY DEF Write
<1>5. TaskPlace(commands, high, w)
  <2>1. w.pc = "look" /\ w.ask = call[c].ask
    BY DEF NewRead
  <2> HIDE DEF w
  <2> QED
    BY <1>1, <2>1 DEF PlaceInv, TaskPlace
<1> HIDE DEF w
<1>6. \A id \in DOMAIN tasks' : TaskPlace(commands, high, tasks'[id])
  BY <1>4, <1>5 DEF PlaceInv
<1> QED
  BY <1>1, <1>3, <1>6 DEF PlaceInv

\* The daemon ends, or the session reads a reply or the end.
LEMMA LinkPlace ==
    ASSUME IInv, PlaceInv, Link \/ DaemonEnds, UNCHANGED <<paneVars, sessionVars>>
    PROVE  PlaceInv'
<1>1. commands' = commands /\ offsets' = offsets /\ high' = high /\ IdsOK
  BY DEF IInv, paneVars, sessionVars
<1> USE DEF clientVars, serverVars
<1>2. CASE DaemonEnds
  BY <1>1, <1>2, Ended DEF PlaceInv
<1>3. CASE Route
  <2>1. /\ tasks' = tasks /\ 1 \in DOMAIN down
        /\ \A i \in DOMAIN down' : i + 1 \in DOMAIN down /\ down'[i] = down[i + 1]
        /\ \A c \in Calls : \/ call'[c] = call[c]
                            \/ call'[c].pc = "answered" /\ call'[c].got = down[1]
    BY <1>1, <1>3, Routes
  <2> QED
    BY <1>1, <2>1 DEF PlaceInv
<1>4. CASE RouteEnds
  <2>1. tasks' = tasks /\ down' = down
    BY <1>4 DEF RouteEnds
  <2>2. \A c \in Calls : call'[c] = call[c] \/ call'[c].pc = "failed"
    BY <1>4 DEF RouteEnds
  <2> QED
    BY <1>1, <2>1, <2>2 DEF PlaceInv
<1> QED
  BY <1>2, <1>3, <1>4 DEF Link

\* What the session's place becomes when a call returns.
LEMMA ReturnKeeps ==
    ASSUME NEW C, PaneOK(C), NEW O, DOMAIN O \subseteq 1..Len(C), NEW H, H \in [Cmds -> Nat],
           Keeps(C, O, H), NEW v, v.ok, v.cmd \in 1..Len(C), v.line \in Nat, ReplyPlace(C, H, v)
    PROVE  Keeps(C, Evicted(With(O, v.cmd, v.line)), [H EXCEPT ![v.cmd] = Higher(@, v.line)])
<1> DEFINE f == With(O, v.cmd, v.line)
           P == Evicted(f)
           G == [H EXCEPT ![v.cmd] = Higher(@, v.line)]
           N == Len(C)
<1>1. N \in Nat /\ v.cmd \in Cmds /\ 1..N \subseteq Cmds
  BY PaneTypes
<1>2. /\ DOMAIN f = DOMAIN O \cup {v.cmd}
      /\ \A id \in DOMAIN f : f[id] = IF id = v.cmd THEN v.line ELSE O[id]
  BY DEF With
<1>3. /\ \A id \in Cmds : id # v.cmd => G[id] = H[id]
      /\ G[v.cmd] = Higher(H[v.cmd], v.line)
  BY <1>1
<1> HIDE DEF f, G
<1>4. /\ DOMAIN P \subseteq DOMAIN f
      /\ \A id \in DOMAIN P : P[id] = f[id]
      /\ \A id \in DOMAIN f : id + History > N => id \in DOMAIN P
  <2>1. DOMAIN f \subseteq 1..N
    BY <1>2
  <2> QED
    BY <1>1, <2>1, EvictedKeeps
<1> HIDE DEF P
<1> SUFFICES ASSUME NEW id \in 1..N, KeptIn(C, id)
             PROVE  /\ id \in DOMAIN P => P[id] = G[id]
                    /\ G[id] > 0 => id \in DOMAIN P
                    /\ G[id] <= Whole(C[id])
  BY DEF Keeps, P, G, f
<1>5. id \in DOMAIN f => id \in DOMAIN P
  <2>1. id > N - History /\ History \in Nat /\ id \in Nat
    BY ReadsAssumption DEF KeptIn
  <2> QED
    BY <1>1, <1>4, <2>1
<1>6. /\ id \in DOMAIN O => O[id] = H[id]
      /\ H[id] > 0 => id \in DOMAIN O
      /\ H[id] <= Whole(C[id])
  BY DEF Keeps
<1>7. CASE id = v.cmd
  <2>1. H[v.cmd] <= v.line /\ v.line <= Whole(C[v.cmd]) /\ H[v.cmd] \in Nat
    BY <1>1, <1>7 DEF ReplyPlace
  <2>2. G[id] = v.line
    <3>1. Higher(H[v.cmd], v.line) = v.line
      BY <2>1 DEF Higher
    <3> QED
      BY <1>3, <1>7, <3>1
  <2>3. id \in DOMAIN P /\ P[id] = v.line
    BY <1>2, <1>4, <1>5, <1>7
  <2> QED
    BY <1>7, <2>1, <2>2, <2>3
<1>8. CASE id # v.cmd
  <2>1. G[id] = H[id]
    BY <1>1, <1>3, <1>8
  <2>2. id \in DOMAIN P => id \in DOMAIN O /\ P[id] = O[id]
    BY <1>2, <1>4, <1>8
  <2>3. id \in DOMAIN O => id \in DOMAIN P
    BY <1>2, <1>5
  <2> QED
    BY <1>6, <2>1, <2>2, <2>3
<1> QED
  BY <1>7, <1>8

\* A call returns: with it gone no read is left that started before.
LEMMA ReturnPlace ==
    ASSUME IInv, RInv, AnsweredOnce, HighOK, Alone, NEW c \in Calls, Return(c)
    PROVE  Alone'
<1> SUFFICES ASSUME ~overlapped'
             PROVE  OneCall' /\ PlaceInv'
  BY DEF Alone
<1>1. /\ tasks' = tasks /\ down' = down /\ commands' = commands
      /\ call' = [call EXCEPT ![c] = Idle] /\ call[c].pc \in {"answered", "failed"}
      /\ OneCall /\ PlaceInv
  BY DEF Return, serverVars, paneVars, Alone
<1>2. \A d \in Calls : d # c => call[d].pc = "idle"
  BY <1>1 DEF OneCall, Busy
<1>3. \A d \in Calls : call'[d].pc = "idle"
  <2>1. call = [d \in Calls |-> call[d]]
    BY DEF IInv, IdsOK
  <2> QED
    BY <1>1, <1>2, <2>1 DEF Idle
<1>4. DOMAIN tasks = {} /\ DOMAIN down = {}
  <2>1. \A d \in Calls : \A id : ~Waiting(d, id)
    BY <1>1, <1>2 DEF Waiting
  <2> QED
    BY <2>1 DEF AnsweredOnce
<1>5. Keeps(commands, offsets', high')
  <2>1. CASE call[c].pc = "answered" /\ call[c].got.value.ok
    <3> DEFINE v == call[c].got.value
    <3>1. /\ offsets' = Evicted(With(offsets, v.cmd, v.line))
          /\ high' = [high EXCEPT ![v.cmd] = Higher(@, v.line)]
      BY <2>1 DEF Return, Record
    <3>2. v.ok /\ v.cmd \in 1..Len(commands) /\ v.line \in Nat
      BY <2>1 DEF RInv, ReplyOK, Covered
    <3>3. ReplyPlace(commands, high, v)
      BY <1>1, <2>1 DEF PlaceInv
    <3>4. /\ PaneOK(commands) /\ DOMAIN offsets \subseteq 1..Len(commands)
          /\ high \in [Cmds -> Nat] /\ Keeps(commands, offsets, high)
      BY <1>1 DEF RInv, SessionOK, HighOK, PlaceInv
    <3> HIDE DEF v
    <3> QED
      BY <3>1, <3>2, <3>3, <3>4, ReturnKeeps
  <2>2. CASE ~(call[c].pc = "answered" /\ call[c].got.value.ok)
    BY <1>1, <2>2 DEF Return, PlaceInv
  <2> QED
    BY <2>1, <2>2
<1>6. OneCall'
  BY <1>3 DEF OneCall, Busy
<1>7. PlaceInv'
  BY <1>1, <1>3, <1>4, <1>5 DEF PlaceInv
<1> QED
  BY <1>6, <1>7

\* No command has a place before it has run.
LEMMA HighStep ==
    ASSUME RInv, HighOK, [Next]_vars
    PROVE  HighOK'
<1>1. PaneOK(commands) /\ Len(commands) \in Nat /\ 1..Len(commands) \subseteq Cmds
  BY PaneTypes DEF RInv
<1>2. CASE Pane
  <2>1. high' = high /\ Len(commands') \in Nat /\ Len(commands) <= Len(commands')
    BY <1>1, <1>2, PaneGrows, PaneTypes DEF sessionVars, Grows
  <2>2. \A id \in Cmds : id > Len(commands') => id > Len(commands)
    BY <1>1, <2>1 DEF Cmds
  <2> QED
    BY <2>1, <2>2 DEF HighOK
<1>3. ASSUME NEW c \in Calls, Return(c)
      PROVE  HighOK'
  <2>1. commands' = commands
    BY <1>3 DEF Return, paneVars
  <2>2. CASE call[c].pc = "answered" /\ call[c].got.value.ok
    <3> DEFINE v == call[c].got.value
    <3>1. high' = [high EXCEPT ![v.cmd] = Higher(@, v.line)]
      BY <1>3, <2>2 DEF Return
    <3>2. v.cmd \in 1..Len(commands) /\ v.line \in Nat
      BY <2>2 DEF RInv, ReplyOK, Covered
    <3> HIDE DEF v
    <3>3. v.cmd \in Cmds /\ Higher(high[v.cmd], v.line) \in Nat
      BY <1>1, <3>2 DEF HighOK, Higher
    <3> QED
      BY <1>1, <2>1, <3>1, <3>2, <3>3 DEF HighOK
  <2>3. CASE ~(call[c].pc = "answered" /\ call[c].got.value.ok)
    BY <1>3, <2>1, <2>3 DEF Return, HighOK
  <2> QED
    BY <2>2, <2>3
<1>4. CASE UNCHANGED <<commands, high>>
  BY <1>4 DEF HighOK
<1>5. Pane \/ (\E c \in Calls : Return(c)) \/ UNCHANGED <<commands, high>>
  BY DEF Next, Daemon, Clock, Look, Judge, Wake, Settles, Deadline, Begin, vars, paneVars,
         sessionVars
<1> QED
  BY <1>2, <1>3, <1>4, <1>5

\* Only a call that begins makes one busy that was not.
LEMMA AloneStep ==
    ASSUME IInv, RInv, AnsweredOnce, HighOK, Alone, [Next]_vars
    PROVE  Alone'
<1>1. ASSUME overlapped' = overlapped, \A c \in Calls : Busy(c)' => Busy(c),
             PlaceInv => PlaceInv'
      PROVE  Alone'
  BY <1>1 DEF Alone, OneCall
<1>2. call = [d \in Calls |-> call[d]]
  BY DEF IInv, IdsOK
<1> USE DEF clientVars, serverVars, paneVars, sessionVars
<1>3. CASE Pane
  <2>1. overlapped' = overlapped /\ call' = call
    BY <1>3, PaneGrows DEF RInv
  <2> QED
    BY <1>1, <1>3, <2>1, PanePlace DEF Busy
<1>4. ASSUME NEW id \in Ids, Daemon(id) \/ Clock(id)
      PROVE  Alone'
  <2>1. overlapped' = overlapped /\ call' = call
    BY <1>4 DEF Daemon, Clock, Look, Judge, Wake, Settles, Deadline, Step, Answer
  <2> QED
    BY <1>1, <1>4, <2>1, LookPlace, JudgePlace, ClockPlace DEF Daemon, Busy
<1>5. ASSUME NEW c \in Calls, NEW ask \in Asks, Begin(c, ask)
      PROVE  Alone'
  BY <1>5, BeginPlace
<1>6. ASSUME NEW c \in Calls, Return(c)
      PROVE  Alone'
  BY <1>6, ReturnPlace
<1>7. ASSUME NEW c \in Calls, Write(c, NewRead(call[c].ask)), UNCHANGED <<paneVars, sessionVars>>
      PROVE  Alone'
  <2>1. \A d \in Calls : Busy(d)' => Busy(d)
    BY <1>2, <1>7 DEF Write, Busy
  <2> QED
    BY <1>1, <1>7, <2>1, WritePlace
<1>8. CASE (Link \/ DaemonEnds) /\ UNCHANGED <<paneVars, sessionVars>>
  <2>1. \A d \in Calls : Busy(d)' => Busy(d)
    BY <1>8 DEF Link, Route, Takes, RouteEnds, DaemonEnds, Busy
  <2> QED
    BY <1>1, <1>8, <2>1, LinkPlace
<1>9. CASE UNCHANGED vars
  BY <1>9 DEF vars, transportVars, Alone, OneCall, Busy, PlaceInv
<1> QED
  BY <1>3, <1>4, <1>5, <1>6, <1>7, <1>8, <1>9 DEF Next

\* A session starts with no place.
LEMMA InitPInv == Init => PInv
<1> SUFFICES ASSUME Init
             PROVE  PInv
  OBVIOUS
<1>1. /\ call = [c \in Calls |-> Idle] /\ tasks = <<>> /\ down = <<>> /\ alive = TRUE
      /\ commands = <<>> /\ high = [id \in Cmds |-> 0]
  BY DEF Init, TransportInit
<1>2. DOMAIN tasks = {} /\ DOMAIN down = {} /\ Len(commands) = 0
  BY <1>1
<1>3. \A c \in Calls : call[c].pc = "idle"
  BY <1>1 DEF Idle
<1>4. AnsweredOnce
  BY <1>1, <1>2 DEF AnsweredOnce
<1>5. HighOK
  BY <1>1, <1>2 DEF HighOK
<1>6. OneCall
  BY <1>3 DEF OneCall, Busy
<1>7. Keeps(commands, offsets, high)
  BY <1>2 DEF Keeps
<1>8. PlaceInv
  BY <1>2, <1>3, <1>7 DEF PlaceInv
<1> QED
  BY <1>4, <1>5, <1>6, <1>8 DEF PInv

\* Every step keeps the places.
LEMMA PInvStep ==
    ASSUME IInv, RInv, PInv, [Next]_vars
    PROVE  PInv'
<1>1. AnsweredOnce /\ HighOK /\ Alone
  BY DEF PInv, Alone
<1>2. AnsweredOnce'
  <2>1. CASE Next
    BY <1>1, <2>1, ReadsStep, AnswersStep
  <2>2. CASE UNCHANGED vars
    BY <1>1, <2>2 DEF vars, transportVars, clientVars, serverVars, AnsweredOnce, Waiting
  <2> QED
    BY <2>1, <2>2
<1>3. HighOK' /\ Alone'
  BY <1>1, HighStep, AloneStep
<1> QED
  BY <1>2, <1>3 DEF PInv, Alone

\* The session's offsets and the pane's history hold as many commands: with one
\* call at a time, whichever replies were lost, the session has the place it
\* last reached in every command the pane still keeps.
THEOREM PlaceIsKept == Spec => []PlaceKept
<1>1. ASSUME PInv
      PROVE  PlaceKept
  <2> SUFFICES ASSUME ~overlapped, NEW id \in 1..Newest, Kept(id), high[id] > 0
               PROVE  id \in DOMAIN offsets /\ offsets[id] = high[id]
    BY DEF PlaceKept
  <2>1. Keeps(commands, offsets, high)
    BY <1>1 DEF PInv, PlaceInv
  <2>2. id \in 1..Len(commands) /\ KeptIn(commands, id)
    BY DEF Kept, KeptIn, Newest
  <2> QED
    BY <2>1, <2>2 DEF Keeps
<1>2. Init => IInv /\ RInv /\ PInv
  BY InitIInv, InitRInv, InitPInv
<1>3. (IInv /\ RInv /\ PInv) /\ [Next]_vars => (IInv /\ RInv /\ PInv)'
  BY IInvStep, RInvStep, PInvStep
<1> QED
  BY <1>1, <1>2, <1>3, PTL DEF Spec
=============================================================================
