------------------------------ MODULE Registry ------------------------------
(***************************************************************************)
(* Which panes the daemon tracks: PaneRegistry::apply_layout and           *)
(* remove_window (pane/registry.rs) with the commands execute_actions sends *)
(* to tmux for them, and the bootstrap of run (daemon/mod.rs), against the *)
(* windows and panes of the session, of which tmux tells in order through  *)
(* a bounded channel.                                                      *)
(*                                                                         *)
(* A layout is the set of panes parse_layout finds at its leaves; their    *)
(* geometry is part of PaneWrites.  The event loop holds the connection    *)
(* and the registry from a notification to the last command it sends, so   *)
(* handling one is one step.                                               *)
(***************************************************************************)
EXTENDS Naturals, Sequences

CONSTANTS
    Windows, Panes,
    Nowhere,       \* the window of no pane
    Capacity       \* of the notification channel

ASSUME RegistryAssumption == Nowhere \notin Windows /\ Capacity \in Nat \ {0}

VARIABLES
    home,          \* pane -> the window it is in
    used,          \* windows and panes that exist or existed: ids are not reused
    heard,         \* panes whose %output tmux sends
    notes,         \* notifications sent and not yet handled
    tracked,       \* pane -> the window it is tracked under
    pids,          \* tracked panes with a known pid
    running,       \* whether run is past its bootstrap
    moved, lost    \* whether a pane changed windows, a notification was dropped

session == <<home, used, notes, moved, lost>>
registry == <<tracked, pids, heard, running>>
vars == <<session, registry>>

PanesOf(w) == {p \in Panes : home[p] = w}
Alive(p) == home[p] # Nowhere
Tracked == {p \in Panes : tracked[p] # Nowhere}

Layout(w, panes) == [window |-> w, panes |-> panes]

\* Some panes in one window, which tmux has told nobody about yet.
Init ==
    /\ \E w \in Windows, ps \in SUBSET Panes :
         /\ home = [p \in Panes |-> IF p \in ps THEN w ELSE Nowhere]
         /\ used = ps \cup {w}
    /\ heard = Panes
    /\ notes = <<>>
    /\ tracked = [p \in Panes |-> Nowhere] /\ pids = {}
    /\ running = FALSE /\ moved = FALSE /\ lost = FALSE

-----------------------------------------------------------------------------
\* The session (external): what tmux tells of each change

\* Mutant: the channel takes whatever comes.
Unbounded == 2

\* try_send of the reader: what finds the channel full is dropped.
Room == IF Capacity > Len(notes) THEN Capacity - Len(notes) ELSE 0

\* tmux tells the layout of a window, or that it closed: a window with no
\* pane.
Tells(windows) ==
    LET told == [i \in DOMAIN windows |->
                    Layout(windows[i], {p \in Panes : home'[p] = windows[i]})]
    IN  /\ notes' = notes \o SubSeq(told, 1, IF Len(told) < Room THEN Len(told) ELSE Room)
        /\ lost' = IF Len(told) > Room THEN TRUE ELSE lost

Opens(w, p) ==
    /\ p \notin used /\ home' = [home EXCEPT ![p] = w]
    /\ PanesOf(w) # {} \/ w \notin used
    /\ used' = used \cup {w, p}
    /\ Tells(<<w>>)
    /\ UNCHANGED <<moved, registry>>

Closes(p) ==
    /\ Alive(p) /\ home' = [home EXCEPT ![p] = Nowhere]
    /\ Tells(<<home[p]>>)
    /\ UNCHANGED <<used, moved, registry>>

\* move-pane and break-pane: the two windows are told of in either order.
Moves(p, w) ==
    /\ Alive(p) /\ home[p] # w /\ (PanesOf(w) # {} \/ w \notin used)
    /\ home' = [home EXCEPT ![p] = w]
    /\ used' = used \cup {w}
    /\ Tells(<<home[p], w>>) \/ Tells(<<w, home[p]>>)
    /\ moved' = TRUE
    /\ UNCHANGED registry

\* swap-pane between two windows.
Swaps(p, q) ==
    /\ Alive(p) /\ Alive(q) /\ home[p] # home[q]
    /\ home' = [home EXCEPT ![p] = home[q], ![q] = home[p]]
    /\ Tells(<<home[p], home[q]>>)
    /\ moved' = TRUE
    /\ UNCHANGED <<used, registry>>

-----------------------------------------------------------------------------
\* The registry

\* Mutant: a pane is taken for dead in whichever window it is tracked.
DeadAnywhere(w, panes, p) == tracked[p] # Nowhere /\ p \notin panes

\* Mutant: a window that closes keeps its panes.
DeadInLayout(w, panes, p) == tracked[p] = w /\ p \notin panes /\ panes # {}

\* The panes tracked under w that its layout does not show.
Dead(w, panes, p) == tracked[p] = w /\ p \notin panes

\* enable_pane_output and query_pane_pid succeed while the pane exists.
Succeeds(p) == Alive(p)

\* Mutant: output is turned on by the bootstrap only.
NeverEnabled(dead, found) == heard \ dead

\* disable_pane_output for the panes gone, enable_pane_output for the new.
Enabled(dead, found) == (heard \ dead) \cup found

\* apply_layout and the actions it returns: dead panes go and their output is
\* turned off; new ones are tracked under w, their output turned on and their
\* pid asked for.  A pane tracked under another window is only placed.
Apply(w, panes) ==
    LET dead == {p \in Panes : Dead(w, panes, p)}
        added == {p \in panes : tracked[p] = Nowhere}
        found == {p \in added : Succeeds(p)}
    IN  /\ tracked' = [p \in Panes |-> IF p \in dead THEN Nowhere
                                       ELSE IF p \in added THEN w ELSE tracked[p]]
        /\ heard' = Enabled(dead, found)
        /\ pids' = (pids \ dead) \cup found

\* run asks for all windows at once, applies each layout and sets the pids.
Bootstrap ==
    /\ ~running /\ running' = TRUE
    /\ tracked' = home
    /\ pids' = {p \in Panes : Alive(p)}
    /\ UNCHANGED <<heard, session>>

\* %layout-change; with no panes, %window-close and remove_window.
Handle ==
    /\ running /\ notes # <<>>
    /\ notes' = Tail(notes)
    /\ Apply(Head(notes).window, Head(notes).panes)
    /\ UNCHANGED <<home, used, moved, lost, running>>

Next ==
    \/ \E p \in Panes : Closes(p)
    \/ \E p \in Panes, w \in Windows : Opens(w, p) \/ Moves(p, w)
    \/ \E p, q \in Panes : Swaps(p, q)
    \/ Bootstrap
    \/ Handle

Spec == Init /\ [][Next]_vars

-----------------------------------------------------------------------------
\* Properties

TypeOK ==
    /\ home \in [Panes -> Windows \cup {Nowhere}]
    /\ used \subseteq Windows \cup Panes
    /\ heard \subseteq Panes /\ pids \subseteq Panes
    /\ notes \in Seq([window : Windows, panes : SUBSET Panes]) /\ Len(notes) <= Capacity
    /\ tracked \in [Panes -> Windows \cup {Nowhere}]
    /\ running \in BOOLEAN /\ moved \in BOOLEAN /\ lost \in BOOLEAN

Told(w) == \E i \in DOMAIN notes : notes[i].window = w

\* While panes only come and go and no notification is dropped, a window tmux
\* has nothing left to tell of is tracked as it is, however old the layouts
\* were that led there, some told before the bootstrap asked: its panes, each
\* with a pid, and no others.
WindowsUpToDate ==
    running /\ ~moved /\ ~lost =>
        \A w \in Windows : ~Told(w) =>
            \A p \in Panes : /\ tracked[p] = w <=> home[p] = w
                             /\ home[p] = w => p \in pids

\* Whatever moved, once all is told no pane is tracked that is gone: remove
\* and add meet the same pane under two windows in either order.
NoGhosts == running /\ ~lost /\ notes = <<>> => \A p \in Tracked : Alive(p)

\* tmux sends the output of every pane that is tracked and alive: turning it
\* off for a window the pane left never outlasts the pane's new tracking,
\* even with notifications lost.
TrackedIsHeard == \A p \in Tracked : Alive(p) => p \in heard

\* daemon/mod.rs, the daemon "discovers all panes" and reacts "to topology
\* changes via layout-change events": with nothing left to tell, the panes of
\* the session are tracked.
AllTracked == running /\ ~lost /\ notes = <<>> => \A p \in Panes : Alive(p) => p \in Tracked

=============================================================================
