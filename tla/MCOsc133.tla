------------------------------ MODULE MCOsc133 ------------------------------
(***************************************************************************)
(* Osc133 with the stream it read: `log` holds what came out of the pane,  *)
(* and `born` where in it each command's record was made.  What the        *)
(* tracker shows can then be compared with the stream itself.              *)
(***************************************************************************)
EXTENDS Osc133, FiniteSetsExt

CONSTANT MaxLog    \* bound on the length of the stream

VARIABLES log, born

mcvars == <<vars, log, born>>

MCInit == Init /\ log = <<>> /\ born = <<>>

Reads(what) ==
    /\ Len(log) < MaxLog
    /\ log' = Append(log, what)
    /\ born' = IF seq' > seq THEN Append(born, Len(log')) ELSE born

MCNext ==
    \/ handle_a /\ Reads("A")
    \/ handle_b /\ Reads("B")
    \/ \E url \in Text \cup {None}, screen \in Commands \cup {None} :
            handle_c(url, screen) /\ Reads("C")
    \/ \E code \in Codes \cup {None} : handle_d(code) /\ Reads("D")
    \/ \E text \in Text : handle_e(text) /\ Reads("E")
    \/ append_output /\ Reads("text")
    \/ \E place \in Places : update_cwd_from_osc7(place) /\ Reads("osc7")

MCSpec == MCInit /\ [][MCNext]_mcvars

-----------------------------------------------------------------------------
\* How much text the stream holds up to place n, and the text between two
\* places of it.
Printed(n) == Cardinality({k \in 1..n : log[k] = "text"})
TextBetween(i, j) == [k \in 1..(Printed(j) - Printed(i)) |-> Printed(i) + k]

Cycle == {"A", "B", "C", "D"}

\* What the stream says a command printed: from its C to the next A, B or D,
\* however often C is repeated; or, for a command only its D shows, from the
\* B before it, when no other marker stands between.
\* The output a reader is given of a command recorded at its C, or at a D
\* right after a B, is exactly that: no text of the prompt, the echoed line or
\* another command, and none missing.  Nothing is said of a record made at a
\* D that no B stands right before: there the capture may hold the text of a
\* command that was recorded already (see TextInOneOutput of Osc133).
OutputsMatchStream ==
    \A id \in DOMAIN outputs :
        LET at == born[id]
        IN  \/ /\ log[at] = "C"
               /\ LET ends == {k \in (at + 1)..Len(log) : log[k] \in Cycle \ {"C"}}
                      end  == IF ends = {} THEN Len(log) ELSE Min(ends)
                  IN  outputs[id] = TextBetween(at, end)
            \/ /\ log[at] = "D"
               /\ LET before == {k \in 1..(at - 1) : log[k] \in Cycle}
                  IN  before # {} /\ log[Max(before)] = "B" =>
                          outputs[id] = TextBetween(Max(before), at)

\* The place policy judges a command by is used only when it was reported
\* after the last C, a repeated C included: an older report may stand for
\* the machine a running ssh was started from.
LocationIsFresh ==
    reported <=> \E k \in 1..Len(log) :
                    /\ log[k] = "osc7"
                    /\ \A j \in (k + 1)..Len(log) : log[j] # "C"

=============================================================================
