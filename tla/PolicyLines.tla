---------------------------- MODULE PolicyLines -----------------------------
(***************************************************************************)
(* The policy over a pane's life: lines are judged from what OSC 7 last    *)
(* reported (policy/mod.rs, evaluate), and what is not denied runs in the  *)
(* shell as it really is.                                                  *)
(***************************************************************************)
EXTENDS Walker, PolicyDecisions

CONSTANTS
    Lines,        \* the lines that are sent
    RuleSets,     \* the rules a policy may have
    Dirs,         \* where the shell may be at first
    Hosts,        \* the hosts it may be on
    Texts         \* what a word expanded at run time may come to

ASSUME HostsAssumption == ThisHost \in Hosts

VARIABLE report  \* what OSC 7 told since the last command started

vars == <<rules, shell, report, last>>

-----------------------------------------------------------------------------
\* start: what OSC 7 reported, the home only on this machine
Start ==
    LET told == report # "nothing"
    IN  [cwd |-> IF told THEN Text(shell.dir) ELSE Unknown,
         host |-> IF told THEN Text(shell.host) ELSE Unknown,
         user |-> IF report = "user too" THEN Text(shell.user) ELSE Unknown,
         home |-> IF told /\ shell.host = ThisHost THEN Text(HomeOf(ThisHost, <<"me">>))
                  ELSE Unknown,
         own |-> TRUE]

Here == report # "nothing" /\ shell.host = ThisHost

-----------------------------------------------------------------------------
\* The line's commands as judged with env, and those that ran.
Judgement(decision, commands, ran) ==
    [decision |-> decision, commands |-> commands, env |-> Env(Here), ran |-> ran]
None == [decision |-> "none", commands |-> <<>>, env |-> Env(FALSE), ran |-> {}]

Init ==
    /\ rules \in RuleSets
    /\ shell \in [dir : Dirs, host : Hosts, user : {<<"me">>}, own : {TRUE}]
    /\ report = "nothing"
    /\ last = None

\* The shell's prompt reports where it is, with or without its user.
Report ==
    /\ report = "nothing" /\ last = None
    /\ report' \in {"place", "user too"}
    /\ UNCHANGED <<rules, shell, last>>

\* A line is judged, and runs unless it is denied.  A pane is followed for
\* one line: the next one starts, like the first, from where the shell is
\* and what was reported.
Run(i) ==
    /\ last = None
    /\ \E commands \in {Walk(Lines[i], Start)} : \E decision \in {Evaluate(commands, Env(Here))} :
         /\ decision # "Deny"
         /\ \E x \in Texts : \E o \in RealLine(Lines[i], shell, x) :
              /\ shell' = o.shell
              /\ last' = Judgement(decision, commands, o.ran)
    /\ report' = "nothing"
    /\ UNCHANGED rules

Denied(i) ==
    /\ last = None
    /\ \E commands \in {Walk(Lines[i], Start)} :
         /\ Evaluate(commands, Env(Here)) = "Deny"
         /\ last' = Judgement("Deny", commands, {})
    /\ UNCHANGED <<rules, shell, report>>

Next == Report \/ \E i \in DOMAIN Lines : Run(i) \/ Denied(i)
Spec == Init /\ [][Next]_vars

=============================================================================
