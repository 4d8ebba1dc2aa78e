---------------------------- MODULE MCPaneWrites ----------------------------
EXTENDS PaneWrites, FiniteSets, TLC

\* "ls" is allowed everywhere, and "rm" asks.
MCVerdict(command, ctx) == IF command = "ls" THEN "Allow" ELSE "Ask"

\* An approval is asked for what asks, and an injection has one script.
AptInit ==
    /\ Init
    /\ \A h \in Handlers : /\ call[h].kind = "approve" => call[h].command = "rm"
                          /\ call[h].kind = "inject" => call[h].command = "ls"

AptSpec == AptInit /\ [][Next]_vars

\* One request_approval, the other calls command_run, on a pane with no mode.
OneAskedInit ==
    /\ Init
    /\ Cardinality({h \in Handlers : call[h].kind = "approve"}) = 1
    /\ panes[0].mode = "Off"

OneAskedSpec == OneAskedInit /\ [][Next]_vars

\* A pane first tracked out of any mode.
ShellInit == Init /\ panes[0].mode = "Off"

ShellSpec == ShellInit /\ [][Next]_vars /\ Fairness

\* No verdict of these depends on the context.
Symmetry == Permutations(Handlers) \cup Permutations(Contexts)

=============================================================================
