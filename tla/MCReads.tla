------------------------------ MODULE MCReads -------------------------------
(***************************************************************************)
(* Reads for TLC: a session's calls, one per kind of window.               *)
(***************************************************************************)
EXTENDS Reads

Ask(cmd, window, search, before, after) ==
    [cmd |-> cmd, window |-> window, search |-> search, before |-> before,
     after |-> after, run |-> FALSE]
MCAsks ==
    {Ask(None, {<<"next", 1>>}, FALSE, 0, 0),
     Ask(1, {<<"next", 1>>}, TRUE, 1, 1),
     Ask(None, {<<"tail", 2>>}, TRUE, 1, 0),
     [Ask(1, {}, FALSE, 0, 0) EXCEPT !.run = TRUE]}
MCSymmetry == Permutations(Calls)
=============================================================================
