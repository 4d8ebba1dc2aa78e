----------------------------- MODULE Transport ------------------------------
(***************************************************************************)
(* The connection between one MCP session and the daemon: DaemonClient's   *)
(* request and route_replies (client.rs), handle_client, answer and        *)
(* write_replies (daemon/server.rs).                                       *)
(*                                                                         *)
(* Requests of one client overlap: each has a task of its own in the       *)
(* daemon, replies come in the order the tasks end, and the id in a reply  *)
(* is all that says which request it answers.  What a task does is left to *)
(* the module that extends this one: tasks[id] is its state.  A line       *)
(* written to the daemon is taken as read (a task per line, and lines the  *)
(* daemon never reads are the same as tasks it never ran); the replies on  *)
(* their channel and on the socket are one sequence.                       *)
(***************************************************************************)
EXTENDS Naturals, Sequences

CONSTANTS
    Calls,         \* tool calls of the session that can be out at a time
    MaxRequests    \* bound: requests of a session

ASSUME TransportAssumption == MaxRequests \in Nat \ {0}

VARIABLES
    nextId,        \* Shared.next_id
    pending,       \* ids in Shared.pending
    routing,       \* FALSE once Shared.pending is None
    call,          \* call -> where it is in request
    tasks,         \* id -> state of the daemon's task for it
    down,          \* replies on their way to the client
    alive          \* whether the daemon runs

clientVars == <<nextId, pending, routing, call>>
serverVars == <<tasks, down, alive>>
transportVars == <<clientVars, serverVars>>

Ids == 1..MaxRequests
Idle == [pc |-> "idle"]
Drop(f, x) == [y \in DOMAIN f \ {x} |-> f[y]]

TransportInit ==
    /\ nextId = 1 /\ pending = {} /\ routing = TRUE
    /\ call = [c \in Calls |-> Idle]
    /\ tasks = <<>> /\ down = <<>> /\ alive = TRUE

\* Mutant: request does not ask whether the connection was closed.
RequestAnyway(c, ask) ==
    /\ call[c].pc = "idle" /\ nextId \in Ids
    /\ nextId' = nextId + 1 /\ pending' = pending \cup {nextId}
    /\ call' = [call EXCEPT ![c] = [pc |-> "writing", id |-> nextId, ask |-> ask]]
    /\ UNCHANGED <<routing, serverVars>>

\* request up to its insert: an id of its own, and a place among the pending
\* unless the connection is known to be closed.
Request(c, ask) ==
    /\ call[c].pc = "idle" /\ nextId \in Ids
    /\ nextId' = nextId + 1
    /\ IF routing
       THEN /\ pending' = pending \cup {nextId}
            /\ call' = [call EXCEPT ![c] = [pc |-> "writing", id |-> nextId, ask |-> ask]]
       ELSE /\ call' = [call EXCEPT ![c] = [pc |-> "failed"]]
            /\ UNCHANGED pending
    /\ UNCHANGED <<routing, serverVars>>

\* request's write, which starts the task.  A write into a closed connection
\* fails, or is taken and lost; then the call waits, unless its sender was
\* dropped already.
Write(c, task) ==
    /\ call[c].pc = "writing"
    /\ \/ /\ alive
          /\ tasks' = [id \in DOMAIN tasks \cup {call[c].id} |->
                         IF id = call[c].id THEN task ELSE tasks[id]]
          /\ call' = [call EXCEPT ![c] = [pc |-> "waiting", id |-> @.id]]
       \/ /\ ~alive /\ UNCHANGED tasks
          /\ \E pc \in {"failed"} \cup {p \in {"waiting"} : call[c].id \in pending} :
                call' = [call EXCEPT ![c] = [pc |-> pc, id |-> @.id]]
    /\ UNCHANGED <<nextId, pending, routing, down, alive>>

\* answer: the task ends and its reply goes out with the request's id.
Answer(id, value) ==
    /\ tasks' = Drop(tasks, id)
    /\ down' = Append(down, [id |-> id, value |-> value])
    /\ UNCHANGED <<clientVars, alive>>

\* The daemon ends, on a signal or otherwise: its tasks go with it, and so do
\* the replies it had not sent.
DaemonEnds ==
    /\ alive /\ alive' = FALSE
    /\ tasks' = <<>>
    /\ \E n \in 0..Len(down) : down' = SubSeq(down, 1, n)
    /\ UNCHANGED clientVars

\* route_replies on one line: the reply goes to the call that waits for its id.
Takes(c) == call[c].pc = "waiting" /\ call[c].id = Head(down).id
Route ==
    /\ down # <<>> /\ down' = Tail(down)
    /\ pending' = pending \ {Head(down).id}
    /\ call' = [c \in Calls |->
                  IF Head(down).id \in pending /\ Takes(c)
                  THEN [pc |-> "answered", id |-> call[c].id, got |-> Head(down)]
                  ELSE call[c]]
    /\ UNCHANGED <<nextId, routing, tasks, alive>>

\* The read ends with the connection: dropping the senders fails every call
\* that waits for a reply, and every later request finds none to wait for.
RouteEnds ==
    /\ ~alive /\ down = <<>> /\ routing
    /\ routing' = FALSE /\ pending' = {}
    /\ call' = [c \in Calls |-> IF call[c].pc = "waiting" THEN [pc |-> "failed"] ELSE call[c]]
    /\ UNCHANGED <<nextId, serverVars>>

\* No call waits for ever: while one waits its id is pending, and its task
\* runs, or its reply is on the way, or the connection has ended and the end
\* is still to be read, which fails it.
NoLostCall ==
    \A c \in Calls : call[c].pc = "waiting" =>
        /\ call[c].id \in pending
        /\ \/ call[c].id \in DOMAIN tasks
           \/ \E i \in DOMAIN down : down[i].id = call[c].id
           \/ ~alive /\ routing
=============================================================================
