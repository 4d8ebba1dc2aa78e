--------------------------- MODULE RegistryProofs ---------------------------
(***************************************************************************)
(* For any windows, panes and capacity of the channel: what apply_layout   *)
(* tracks is heard, and with nothing dropped it is what tmux shows.        *)
(***************************************************************************)
EXTENDS Registry, SequenceTheorems, TLAPS

Note == [window : Windows, panes : SUBSET Panes]

\* Ids are not reused: a pane that is not used yet is in no layout.
KnownPanes ==
    /\ \A p \in Panes : Alive(p) => p \in used
    /\ \A p \in Tracked : p \in used
    /\ \A i \in DOMAIN notes : notes[i].panes \subseteq used

\* Every pane is heard at first, and every tracked one later; a pane that is
\* tracked had a pid while it was alive.
Heard ==
    /\ ~running => heard = Panes /\ Tracked = {}
    /\ \A p \in Tracked : Alive(p) => p \in heard /\ p \in pids

\* The last layout on its way of a window shows it as it is.
LastIsTrue ==
    \A i \in DOMAIN notes :
        (\A j \in DOMAIN notes : j > i => notes[j].window # notes[i].window)
        => notes[i].panes = PanesOf(notes[i].window)

\* A window with no layout on its way shows every pane tracked under it.
ShowsTracked ==
    \A p \in Tracked : ~Told(tracked[p]) => home[p] = tracked[p]

\* Where no pane changes windows, a pane alive is told of and tracked under
\* its one window.
OneHome ==
    /\ \A i \in DOMAIN notes, p \in Panes :
          p \in notes[i].panes /\ Alive(p) => home[p] = notes[i].window
    /\ \A p \in Tracked : Alive(p) => home[p] = tracked[p]

\* A window with nothing on its way has all its panes tracked.
AllShown == \A p \in Panes : Alive(p) /\ ~Told(home[p]) => p \in Tracked

IInv == /\ TypeOK /\ KnownPanes /\ Heard
        /\ ~lost => LastIsTrue /\ ShowsTracked
        /\ ~lost /\ ~moved => OneHome
        /\ ~lost /\ ~moved /\ running => AllShown

-----------------------------------------------------------------------------
\* The layout of w in the new state.
NewLayout(w) == Layout(w, {p \in Panes : home'[p] = w})

\* The windows ws are told of, after what was on the channel.
AllTold(ws) ==
    /\ Len(notes') = Len(notes) + Len(ws)
    /\ \A i \in 1..Len(notes) : notes'[i] = notes[i]
    /\ \A j \in 1..Len(ws) : notes'[Len(notes) + j] = NewLayout(ws[j])

\* What Tells leaves on the channel: what was there, then layouts of the new
\* state, all of them where none is dropped.
TellsOf(ws) ==
    /\ notes' \in Seq(Note) /\ Len(notes') <= Capacity
    /\ lost' \in BOOLEAN
    /\ \A i \in 1..Len(notes') :
          \/ i \in 1..Len(notes) /\ notes'[i] = notes[i]
          \/ \E j \in 1..Len(ws) : notes'[i] = NewLayout(ws[j])
    /\ ~lost' => ~lost /\ AllTold(ws)

\* A layout shows its window as it is when it is told.
LEMMA NewLayoutShows ==
    ASSUME NEW w
    PROVE  NewLayout(w).window = w /\ NewLayout(w).panes = {p \in Panes : home'[p] = w}
BY DEF NewLayout, Layout

LEMMA TellsTold ==
    ASSUME TypeOK, NEW ws \in Seq(Windows), Tells(ws)
    PROVE  TellsOf(ws)
<1> DEFINE told == [i \in DOMAIN ws |-> Layout(ws[i], {p \in Panes : home'[p] = ws[i]})]
           n == IF Len(told) < Room THEN Len(told) ELSE Room
<1>1. Len(ws) \in Nat /\ DOMAIN ws = 1..Len(ws) /\ \A i \in 1..Len(ws) : ws[i] \in Windows
  BY LenProperties
<1>2. told \in Seq(Note) /\ Len(told) = Len(ws)
  <2>1. \A i \in 1..Len(ws) : told[i] \in Note
    BY <1>1 DEF Note, Layout
  <2>2. told \in [1..Len(ws) -> Note]
    BY <1>1, <2>1
  <2> QED
    BY <1>1, <2>2
<1>3. notes \in Seq(Note) /\ Len(notes) \in Nat /\ Len(notes) <= Capacity
  BY LenProperties DEF TypeOK, Note
<1>4. Room \in Nat /\ Room + Len(notes) <= Capacity
  BY <1>3, RegistryAssumption DEF Room
<1>5. n \in Nat /\ n <= Len(told) /\ n <= Room /\ (Len(told) > Room \/ n = Len(told))
  <2>1. Len(told) \in Nat /\ Room \in Nat
    BY <1>1, <1>2, <1>4
  <2> HIDE DEF told
  <2> QED
    BY <2>1
<1> DEFINE new == SubSeq(told, 1, n)
<1> HIDE DEF n, told
<1>6. new \in Seq(Note) /\ Len(new) = n /\ \A i \in 1..n : new[i] = told[i]
  <2>1. \A i \in 1..n : told[i] \in Note
    BY <1>2, <1>5, LenProperties
  <2> QED
    BY <1>5, <2>1, SubSeqProperties
<1> HIDE DEF new
<1>7. notes' = notes \o new /\ lost' = IF Len(told) > Room THEN TRUE ELSE lost
  BY DEF Tells, told, n, new
<1>8. /\ notes' \in Seq(Note) /\ Len(notes') = Len(notes) + n
      /\ \A i \in 1..(Len(notes) + n) :
            notes'[i] = IF i <= Len(notes) THEN notes[i] ELSE new[i - Len(notes)]
  BY <1>3, <1>6, <1>7, ConcatProperties
<1>9. \A j \in 1..n : notes'[Len(notes) + j] = NewLayout(ws[j])
  <2>1. ASSUME NEW j \in 1..n
        PROVE  notes'[Len(notes) + j] = new[j]
    <3>1. /\ Len(notes) + j \in 1..(Len(notes) + n) /\ ~(Len(notes) + j <= Len(notes))
          /\ (Len(notes) + j) - Len(notes) = j
      BY <1>3, <1>5
    <3> QED
      BY <1>8, <3>1
  <2>2. \A j \in 1..Len(ws) : told[j] = NewLayout(ws[j])
    BY <1>1, Zenon DEF told, NewLayout
  <2>3. \A j \in 1..n : j \in 1..Len(ws)
    BY <1>2, <1>5
  <2> QED
    BY <1>6, <2>1, <2>2, <2>3
<1>10. \A i \in 1..Len(notes) : notes'[i] = notes[i]
  BY <1>8, <1>3, <1>5
<1>11. ASSUME NEW i \in 1..Len(notes')
       PROVE  \/ i \in 1..Len(notes) /\ notes'[i] = notes[i]
              \/ \E j \in 1..Len(ws) : notes'[i] = NewLayout(ws[j])
  <2>1. CASE i <= Len(notes)
    BY <1>3, <1>10, <2>1
  <2>2. CASE i > Len(notes)
    <3>1. i - Len(notes) \in 1..n /\ i = Len(notes) + (i - Len(notes))
      BY <1>3, <1>5, <1>8, <2>2
    <3>2. i - Len(notes) \in 1..Len(ws)
      BY <1>2, <1>5, <3>1
    <3> QED
      BY <1>9, <3>1, <3>2
  <2> QED
    BY <1>3, <2>1, <2>2
<1>12. ASSUME ~lost'
       PROVE  ~lost /\ AllTold(ws)
  <2>1. ~lost /\ ~(Len(told) > Room)
    BY <1>7, <1>12
  <2>2. n = Len(ws)
    BY <1>2, <1>5, <2>1
  <2> QED
    BY <1>8, <1>9, <1>10, <2>1, <2>2 DEF AllTold
<1>13. lost' \in BOOLEAN
  BY <1>7 DEF TypeOK
<1>14. Len(notes') <= Capacity
  BY <1>8, <1>5, <1>4, <1>3, RegistryAssumption
<1> QED
  BY <1>8, <1>11, <1>12, <1>13, <1>14 DEF TellsOf

-----------------------------------------------------------------------------
\* What the four changes of a session have in common: the windows ws are told
\* of, and only panes of these windows come, go or move.
Changes(ws) ==
    /\ ws \in Seq(Windows) /\ Tells(ws) /\ UNCHANGED registry
    /\ home' \in [Panes -> Windows \cup {Nowhere}]
    /\ used \subseteq used' /\ used' \subseteq Windows \cup Panes
    /\ moved' \in BOOLEAN /\ (moved => moved')
    /\ \A p \in Panes : home'[p] # home[p] =>
          /\ home[p] = Nowhere => p \notin used
          /\ home[p] # Nowhere => \E j \in 1..Len(ws) : ws[j] = home[p]
          /\ home'[p] # Nowhere => p \in used' /\ \E j \in 1..Len(ws) : ws[j] = home'[p]
          /\ home[p] # Nowhere /\ home'[p] # Nowhere => moved'

LEMMA SessionChanges ==
    ASSUME TypeOK, KnownPanes,
           \/ \E p \in Panes : Closes(p)
           \/ \E p \in Panes, w \in Windows : Opens(w, p) \/ Moves(p, w)
           \/ \E p, q \in Panes : Swaps(p, q)
    PROVE  \E ws \in Seq(Windows) : Changes(ws)
<1> USE RegistryAssumption DEF TypeOK, KnownPanes, Alive
<1>1. ASSUME NEW p \in Panes, Closes(p)
      PROVE  Changes(<<home[p]>>)
  <2>1. home[p] \in Windows
    BY <1>1 DEF Closes
  <2> QED
    BY <1>1, <2>1 DEF Closes, Changes
<1>2. ASSUME NEW p \in Panes, NEW w \in Windows, Opens(w, p)
      PROVE  Changes(<<w>>)
  <2>1. home[p] = Nowhere
    BY <1>2 DEF Opens
  <2> QED
    BY <1>2, <2>1 DEF Opens, Changes
<1>3. ASSUME NEW p \in Panes, NEW w \in Windows, Moves(p, w)
      PROVE  Changes(<<home[p], w>>) \/ Changes(<<w, home[p]>>)
  <2>1. home[p] \in Windows
    BY <1>3 DEF Moves
  <2>2. ASSUME Tells(<<home[p], w>>)
        PROVE  Changes(<<home[p], w>>)
    BY <1>3, <2>1, <2>2 DEF Moves, Changes
  <2>3. ASSUME Tells(<<w, home[p]>>)
        PROVE  Changes(<<w, home[p]>>)
    BY <1>3, <2>1, <2>3 DEF Moves, Changes
  <2> QED
    BY <1>3, <2>2, <2>3 DEF Moves
<1>4. ASSUME NEW p \in Panes, NEW q \in Panes, Swaps(p, q)
      PROVE  Changes(<<home[p], home[q]>>)
  <2>1. home[p] \in Windows /\ home[q] \in Windows
    BY <1>4 DEF Swaps
  <2> QED
    BY <1>4, <2>1 DEF Swaps, Changes
<1>5. \A ws : Changes(ws) => ws \in Seq(Windows)
  BY DEF Changes
<1> QED
  BY <1>1, <1>2, <1>3, <1>4, <1>5

\* A change of the session: the layouts told of it are true, and every window
\* it is of is told of.
LEMMA ChangesStep ==
    ASSUME IInv, NEW ws, Changes(ws)
    PROVE  IInv'
<1>1. TypeOK /\ KnownPanes /\ Heard /\ ws \in Seq(Windows) /\ TellsOf(ws)
  BY TellsTold DEF IInv, Changes
<1>2. /\ notes \in Seq(Note) /\ Len(notes) \in Nat /\ DOMAIN notes = 1..Len(notes)
      /\ notes' \in Seq(Note) /\ Len(notes') \in Nat /\ DOMAIN notes' = 1..Len(notes')
  BY <1>1, LenProperties DEF TypeOK, TellsOf, Note
<1>3. Len(ws) \in Nat /\ \A j \in 1..Len(ws) : ws[j] \in Windows
  BY <1>1, LenProperties
<1>4. tracked' = tracked /\ pids' = pids /\ heard' = heard /\ running' = running
  BY DEF Changes, registry
<1>5. \A p \in Panes : home'[p] # Nowhere => p \in used'
  BY <1>1 DEF KnownPanes, Alive, Changes
<1>6. TypeOK'
  BY <1>1, <1>4 DEF TypeOK, Changes, TellsOf, Note
<1>7. KnownPanes'
  <2>1. ASSUME NEW i \in 1..Len(notes')
        PROVE  notes'[i].panes \subseteq used'
    <3>1. CASE i \in 1..Len(notes) /\ notes'[i] = notes[i]
      BY <1>1, <1>2, <3>1 DEF KnownPanes, Changes
    <3>2. CASE \E j \in 1..Len(ws) : notes'[i] = NewLayout(ws[j])
      BY <1>3, <1>5, <3>2, RegistryAssumption DEF NewLayout, Layout
    <3> QED
      BY <1>1, <3>1, <3>2 DEF TellsOf
  <2> QED
    BY <1>1, <1>2, <1>4, <1>5, <2>1 DEF KnownPanes, Changes, Alive, Tracked
<1>8. Heard'
  BY <1>1, <1>4 DEF Heard, KnownPanes, Changes, Alive, Tracked
<1>9. ASSUME ~lost'
      PROVE  ~lost /\ AllTold(ws) /\ LastIsTrue /\ ShowsTracked
  BY <1>1, <1>9 DEF IInv, TellsOf
<1>10. ASSUME ~lost', NEW w, \A i \in 1..Len(notes') : notes'[i].window # w
       PROVE  ~Told(w) /\ \A j \in 1..Len(ws) : ws[j] # w
  <2>1. AllTold(ws)
    BY <1>9, <1>10
  <2>2. ~Told(w)
    BY <1>2, <1>3, <1>10, <2>1 DEF AllTold, Told
  <2>3. ASSUME NEW j \in 1..Len(ws)
        PROVE  ws[j] # w
    <3>1. Len(notes') = Len(notes) + Len(ws)
      BY <2>1 DEF AllTold
    <3>2. Len(notes) + j \in 1..Len(notes')
      BY <1>2, <1>3, <3>1
    <3>3. notes'[Len(notes) + j].window = ws[j]
      BY <2>1, NewLayoutShows DEF AllTold
    <3> QED
      BY <1>10, <3>2, <3>3
  <2> QED
    BY <2>2, <2>3
<1>11. ASSUME ~lost'
       PROVE  LastIsTrue'
  <2> SUFFICES ASSUME NEW i \in 1..Len(notes'),
                      \A j \in 1..Len(notes') : j > i => notes'[j].window # notes'[i].window
               PROVE  notes'[i].panes = {p \in Panes : home'[p] = notes'[i].window}
    BY <1>2 DEF LastIsTrue, PanesOf
  <2>1. AllTold(ws) /\ LastIsTrue
    BY <1>9, <1>11
  <2>2. CASE i > Len(notes)
    <3>1. i - Len(notes) \in 1..Len(ws) /\ i = Len(notes) + (i - Len(notes))
      BY <1>2, <1>3, <2>1, <2>2 DEF AllTold
    <3>2. notes'[i] = NewLayout(ws[i - Len(notes)])
      BY <2>1, <3>1 DEF AllTold
    <3> QED
      BY <3>2 DEF NewLayout, Layout
  <2>3. CASE i <= Len(notes)
    <3> DEFINE w == notes[i].window
    <3>1. i \in 1..Len(notes) /\ notes'[i] = notes[i]
      BY <1>2, <2>1, <2>3 DEF AllTold
    <3>2. \A j \in 1..Len(notes) : j > i => notes[j].window # w
      BY <1>2, <1>3, <2>1, <3>1 DEF AllTold
    <3>3. notes[i].panes = {p \in Panes : home[p] = w}
      BY <1>2, <2>1, <3>1, <3>2 DEF LastIsTrue, PanesOf
    <3>4. ASSUME NEW j \in 1..Len(ws)
          PROVE  ws[j] # w
      <4>1. Len(notes') = Len(notes) + Len(ws)
        BY <2>1 DEF AllTold
      <4>2. Len(notes) + j \in 1..Len(notes') /\ Len(notes) + j > i
        BY <1>2, <1>3, <2>3, <4>1
      <4>3. notes'[Len(notes) + j].window = ws[j]
        BY <2>1, NewLayoutShows DEF AllTold
      <4> QED
        BY <3>1, <4>2, <4>3
    <3>5. w \in Windows
      <4>1. notes[i] \in Note
        BY <1>2, <3>1, ElementOfSeq
      <4> QED
        BY <4>1 DEF Note
    <3>6. \A p \in Panes : home'[p] = w <=> home[p] = w
      BY <3>4, <3>5, RegistryAssumption DEF Changes
    <3> QED
      BY <3>1, <3>3, <3>6
  <2> QED
    BY <1>2, <2>2, <2>3
<1>12. ASSUME ~lost'
       PROVE  ShowsTracked'
  <2> SUFFICES ASSUME NEW p \in Panes, tracked[p] # Nowhere, ~Told(tracked[p])'
               PROVE  home'[p] = tracked[p]
    BY <1>4 DEF ShowsTracked, Tracked, Told
  <2>1. \A i \in 1..Len(notes') : notes'[i].window # tracked[p]
    BY <1>2, <1>4 DEF Told
  <2>2. ~Told(tracked[p]) /\ \A j \in 1..Len(ws) : ws[j] # tracked[p]
    BY <1>10, <1>12, <2>1
  <2>3. home[p] = tracked[p]
    BY <1>9, <1>12, <2>2 DEF ShowsTracked, Tracked
  <2> QED
    BY <2>2, <2>3 DEF Changes
<1>13. ASSUME ~lost', ~moved'
       PROVE  OneHome'
  <2>1. ~lost /\ ~moved /\ OneHome
    BY <1>1, <1>13 DEF IInv, TellsOf, Changes
  <2>2. \A p \in Panes : p \in used /\ home'[p] # Nowhere => home'[p] = home[p]
    BY <1>13 DEF Changes
  <2>3. ASSUME NEW i \in 1..Len(notes'), NEW p \in Panes,
               p \in notes'[i].panes, home'[p] # Nowhere
        PROVE  home'[p] = notes'[i].window
    <3>1. CASE i \in 1..Len(notes) /\ notes'[i] = notes[i]
      <4>1. p \in used
        BY <1>1, <1>2, <2>3, <3>1 DEF KnownPanes
      <4> QED
        BY <1>2, <2>1, <2>2, <2>3, <3>1, <4>1 DEF OneHome, Alive
    <3>2. CASE \E j \in 1..Len(ws) : notes'[i] = NewLayout(ws[j])
      BY <2>3, <3>2 DEF NewLayout, Layout
    <3> QED
      BY <1>1, <3>1, <3>2 DEF TellsOf
  <2>4. ASSUME NEW p \in Panes, tracked[p] # Nowhere, home'[p] # Nowhere
        PROVE  home'[p] = tracked[p]
    BY <1>1, <2>1, <2>2, <2>4 DEF KnownPanes, OneHome, Alive, Tracked
  <2> QED
    BY <1>2, <1>4, <2>3, <2>4 DEF OneHome, Alive, Tracked
<1>14. ASSUME ~lost', ~moved', running'
       PROVE  AllShown'
  <2> SUFFICES ASSUME NEW p \in Panes, home'[p] # Nowhere, ~Told(home[p])'
               PROVE  tracked[p] # Nowhere
    BY <1>4 DEF AllShown, Alive, Tracked, Told
  <2>1. ~lost /\ ~moved /\ AllShown
    BY <1>1, <1>4, <1>14 DEF IInv, TellsOf, Changes
  <2>2. \A i \in 1..Len(notes') : notes'[i].window # home'[p]
    BY <1>2 DEF Told
  <2>3. ~Told(home'[p]) /\ \A j \in 1..Len(ws) : ws[j] # home'[p]
    BY <1>10, <1>14, <2>2
  <2>4. home'[p] = home[p]
    BY <2>3 DEF Changes
  <2> QED
    BY <2>1, <2>3, <2>4 DEF AllShown, Alive, Tracked
<1> QED
  BY <1>6, <1>7, <1>8, <1>11, <1>12, <1>13, <1>14 DEF IInv

-----------------------------------------------------------------------------
\* The registry takes the first layout off the channel.
LEMMA HandleStep ==
    ASSUME IInv, Handle
    PROVE  IInv'
<1> DEFINE n == Len(notes)  w == notes[1].window  panes == notes[1].panes
<1>1. /\ TypeOK /\ KnownPanes /\ Heard /\ running /\ running'
      /\ home' = home /\ used' = used /\ moved' = moved /\ lost' = lost
      /\ notes # <<>> /\ notes' = Tail(notes) /\ Apply(Head(notes).window, Head(notes).panes)
  BY DEF IInv, Handle
<1>2. /\ notes \in Seq(Note) /\ n \in Nat \ {0} /\ DOMAIN notes = 1..n
      /\ notes' \in Seq(Note) /\ Len(notes') = n - 1 /\ DOMAIN notes' = 1..(n - 1)
      /\ Head(notes) = notes[1] /\ \A i \in 1..(n - 1) : notes'[i] = notes[i + 1]
  <2>1. notes \in Seq(Note)
    BY <1>1 DEF TypeOK, Note
  <2>2. /\ Len(notes) \in Nat \ {0} /\ DOMAIN notes = 1..Len(notes) /\ Head(notes) = notes[1]
        /\ Tail(notes) \in Seq(Note) /\ Len(Tail(notes)) = Len(notes) - 1
        /\ \A i \in 1..Len(Tail(notes)) : Tail(notes)[i] = notes[i + 1]
    BY <1>1, <2>1, HeadTailProperties, EmptySeq, LenProperties
  <2>3. DOMAIN Tail(notes) = 1..Len(Tail(notes))
    BY <2>2, LenProperties
  <2> QED
    BY <1>1, <2>1, <2>2, <2>3
<1>3. w \in Windows /\ panes \subseteq Panes
  <2>1. notes[1] \in Note
    BY <1>2, ElementOfSeq
  <2> QED
    BY <2>1 DEF Note
<1> DEFINE dead == {p \in Panes : Dead(w, panes, p)}
           added == {p \in panes : tracked[p] = Nowhere}
           found == {p \in added : Succeeds(p)}
<1>4. /\ tracked' = [p \in Panes |-> IF p \in dead THEN Nowhere
                                     ELSE IF p \in added THEN w ELSE tracked[p]]
      /\ heard' = (heard \ dead) \cup found
      /\ pids' = (pids \ dead) \cup found
  BY <1>1, <1>2 DEF Apply, Enabled
<1> HIDE DEF n
<1>5. \A p \in Panes : tracked'[p] # Nowhere =>
          \/ tracked'[p] = tracked[p] /\ p \notin dead
          \/ tracked'[p] = w /\ p \in panes /\ tracked[p] = Nowhere /\ p \in added
  BY <1>4
<1> DEFINE Left(v) == \E i \in 1..(n - 1) : notes'[i].window = v
<1>6. \A v : v # w /\ ~Left(v) => ~Told(v)
  <2>1. ASSUME NEW v, NEW i \in 1..n, notes[i].window = v, v # w
        PROVE  Left(v)
    <3>1. i - 1 \in 1..(n - 1) /\ (i - 1) + 1 = i
      BY <1>2, <2>1
    <3>2. notes'[i - 1] = notes[i]
      BY <1>2, <3>1
    <3> QED
      BY <2>1, <3>1, <3>2
  <2> QED
    BY <1>2, <2>1 DEF Told
<1>7. TypeOK'
  <2>1. /\ tracked' \in [Panes -> Windows \cup {Nowhere}]
        /\ heard' \subseteq Panes /\ pids' \subseteq Panes
    BY <1>1, <1>3, <1>4 DEF TypeOK
  <2>2. Len(notes') <= Capacity
    BY <1>1, <1>2, RegistryAssumption DEF TypeOK, n
  <2> QED
    BY <1>1, <1>2, <2>1, <2>2 DEF TypeOK, Note
<1>8. KnownPanes'
  <2>1. panes \subseteq used
    BY <1>1, <1>2 DEF KnownPanes
  <2>2. \A i \in 1..(n - 1) : notes'[i].panes \subseteq used
    <3> SUFFICES ASSUME NEW i \in 1..(n - 1)
                 PROVE  notes[i + 1].panes \subseteq used
      BY <1>2
    <3>1. i + 1 \in 1..n
      BY <1>2
    <3> QED
      BY <1>1, <1>2, <3>1 DEF KnownPanes
  <2>3. \A p \in Panes : tracked'[p] # Nowhere => p \in used
    BY <1>1, <1>5, <2>1 DEF KnownPanes, Tracked
  <2> QED
    BY <1>1, <1>2, <2>2, <2>3 DEF KnownPanes, Alive, Tracked
<1>9. Heard'
  <2>1. ASSUME NEW p \in Panes, tracked'[p] # Nowhere, home[p] # Nowhere
        PROVE  p \in heard' /\ p \in pids'
    <3>1. CASE tracked'[p] = tracked[p] /\ p \notin dead
      BY <1>1, <1>4, <2>1, <3>1 DEF Heard, Alive, Tracked
    <3>2. CASE p \in added
      BY <1>4, <2>1, <3>2 DEF Succeeds, Alive
    <3> QED
      BY <1>5, <2>1, <3>1, <3>2
  <2> QED
    BY <1>1, <2>1 DEF Heard, Alive, Tracked
<1>10. ASSUME ~lost'
       PROVE  LastIsTrue'
  <2> SUFFICES ASSUME NEW i \in 1..(n - 1),
                      \A j \in 1..(n - 1) : j > i => notes'[j].window # notes'[i].window
               PROVE  notes'[i].panes = {p \in Panes : home'[p] = notes'[i].window}
    BY <1>2 DEF LastIsTrue, PanesOf
  <2>1. i + 1 \in 1..n /\ notes'[i] = notes[i + 1]
    BY <1>2
  <2>2. ASSUME NEW j \in 1..n, j > i + 1
        PROVE  notes[j].window # notes[i + 1].window
    <3>1. j - 1 \in 1..(n - 1) /\ j - 1 > i /\ (j - 1) + 1 = j
      BY <1>2, <2>2
    <3>2. notes'[j - 1] = notes[j]
      BY <1>2, <3>1
    <3> QED
      BY <2>1, <3>1, <3>2
  <2>3. LastIsTrue
    BY <1>1, <1>10 DEF IInv
  <2> QED
    BY <1>1, <1>2, <2>1, <2>2, <2>3 DEF LastIsTrue, PanesOf
\* The layout handled is the last of its window.
<1>11. ASSUME ~lost, ~Left(w)
       PROVE  panes = {p \in Panes : home[p] = w}
  <2>1. ASSUME NEW j \in 1..n, j > 1
        PROVE  notes[j].window # w
    <3>1. j - 1 \in 1..(n - 1) /\ (j - 1) + 1 = j
      BY <1>2, <2>1
    <3>2. notes'[j - 1] = notes[j]
      BY <1>2, <3>1
    <3> QED
      BY <1>11, <3>1, <3>2
  <2>2. 1 \in 1..n
    BY <1>2
  <2>3. LastIsTrue
    BY <1>11 DEF IInv
  <2> QED
    BY <1>2, <2>1, <2>2, <2>3 DEF LastIsTrue, PanesOf
<1>12. ASSUME ~lost'
       PROVE  ShowsTracked'
  <2> SUFFICES ASSUME NEW p \in Panes, tracked'[p] # Nowhere, ~Left(tracked'[p])
               PROVE  home[p] = tracked'[p]
    BY <1>1, <1>2 DEF ShowsTracked, Tracked, Told
  <2>1. CASE tracked'[p] = w
    <3>1. p \in panes
      BY <1>5, <2>1 DEF Dead
    <3> QED
      BY <1>1, <1>11, <1>12, <2>1, <3>1
  <2>2. CASE tracked'[p] # w
    <3>1. tracked'[p] = tracked[p]
      BY <1>5, <2>2
    <3>2. ~Told(tracked[p])
      BY <1>6, <2>2, <3>1
    <3> QED
      BY <1>1, <1>12, <3>1, <3>2 DEF IInv, ShowsTracked, Tracked
  <2> QED
    BY <2>1, <2>2
<1>13. ASSUME ~lost', ~moved'
       PROVE  OneHome'
  <2>1. OneHome
    BY <1>1, <1>13 DEF IInv
  <2>2. ASSUME NEW i \in 1..(n - 1), NEW p \in Panes,
               p \in notes'[i].panes, home[p] # Nowhere
        PROVE  home[p] = notes'[i].window
    <3>1. i + 1 \in 1..n /\ notes'[i] = notes[i + 1]
      BY <1>2
    <3> QED
      BY <1>2, <2>1, <2>2, <3>1 DEF OneHome, Alive
  <2>3. ASSUME NEW p \in Panes, tracked'[p] # Nowhere, home[p] # Nowhere
        PROVE  home[p] = tracked'[p]
    <3>1. CASE tracked'[p] = tracked[p]
      BY <2>1, <2>3, <3>1 DEF OneHome, Alive, Tracked
    <3>2. CASE tracked'[p] = w /\ p \in panes
      <4>1. 1 \in 1..n
        BY <1>2
      <4> QED
        BY <1>2, <2>1, <2>3, <3>2, <4>1 DEF OneHome, Alive
    <3> QED
      BY <1>5, <2>3, <3>1, <3>2
  <2> QED
    BY <1>1, <1>2, <2>2, <2>3 DEF OneHome, Alive, Tracked
<1>14. ASSUME ~lost', ~moved'
       PROVE  AllShown'
  <2> SUFFICES ASSUME NEW p \in Panes, home[p] # Nowhere, ~Left(home[p])
               PROVE  tracked'[p] # Nowhere
    BY <1>1, <1>2 DEF AllShown, Alive, Tracked, Told
  <2>1. OneHome /\ AllShown
    BY <1>1, <1>14 DEF IInv
  <2>2. CASE home[p] = w
    <3>1. p \in panes
      BY <1>1, <1>11, <1>14, <2>2
    <3>2. p \notin dead
      BY <3>1 DEF Dead
    <3>3. w # Nowhere
      BY <1>3, RegistryAssumption
    <3> QED
      BY <1>4, <3>1, <3>2, <3>3
  <2>3. CASE home[p] # w
    <3>1. tracked[p] # Nowhere
      BY <1>6, <2>1, <2>3 DEF AllShown, Alive, Tracked
    <3>2. tracked[p] = home[p]
      BY <2>1, <3>1 DEF OneHome, Alive, Tracked
    <3>3. p \notin dead /\ p \notin added
      BY <2>3, <3>1, <3>2 DEF Dead
    <3> QED
      BY <1>4, <3>1, <3>3
  <2> QED
    BY <2>2, <2>3
<1> QED
  BY <1>7, <1>8, <1>9, <1>10, <1>12, <1>13, <1>14 DEF IInv

\* The answer of list-windows is of now: it tracks every pane where it is.
LEMMA BootstrapStep ==
    ASSUME IInv, Bootstrap
    PROVE  IInv'
<1> USE DEF Alive, Tracked
<1>1. /\ TypeOK /\ KnownPanes /\ Heard /\ heard = Panes
      /\ tracked' = home /\ pids' = {p \in Panes : Alive(p)} /\ heard' = heard /\ running'
      /\ home' = home /\ used' = used /\ notes' = notes /\ moved' = moved /\ lost' = lost
  BY DEF IInv, Heard, Bootstrap, session
<1>2. TypeOK' /\ KnownPanes' /\ Heard'
  BY <1>1 DEF TypeOK, KnownPanes, Heard, Bootstrap
<1>3. ~lost' => LastIsTrue' /\ ShowsTracked'
  BY <1>1 DEF IInv, LastIsTrue, ShowsTracked, PanesOf
<1>4. ~lost' /\ ~moved' => OneHome' /\ AllShown'
  BY <1>1 DEF IInv, OneHome, AllShown
<1> QED
  BY <1>2, <1>3, <1>4 DEF IInv

-----------------------------------------------------------------------------
LEMMA InitHolds == Init => IInv
<1> SUFFICES ASSUME Init
             PROVE  IInv
  OBVIOUS
<1>1. notes = <<>> /\ DOMAIN notes = {} /\ Len(notes) = 0 /\ notes \in Seq(Note)
  BY DEF Init
<1>2. Tracked = {} /\ ~running /\ heard = Panes
  BY DEF Init, Tracked
<1>3. PICK w \in Windows, ps \in SUBSET Panes :
          home = [p \in Panes |-> IF p \in ps THEN w ELSE Nowhere] /\ used = ps \cup {w}
  BY DEF Init
<1>4. TypeOK
  <2>1. home \in [Panes -> Windows \cup {Nowhere}] /\ used \subseteq Windows \cup Panes
    BY <1>3
  <2>2. tracked \in [Panes -> Windows \cup {Nowhere}] /\ pids \subseteq Panes
    BY DEF Init
  <2>3. Len(notes) <= Capacity
    BY <1>1, RegistryAssumption
  <2> QED
    BY <1>1, <2>1, <2>2, <2>3 DEF Init, TypeOK, Note
<1>5. KnownPanes
  BY <1>1, <1>2, <1>3 DEF KnownPanes, Alive
<1>6. Heard /\ LastIsTrue /\ ShowsTracked /\ OneHome
  BY <1>1, <1>2 DEF Heard, LastIsTrue, ShowsTracked, OneHome
<1> QED
  BY <1>2, <1>4, <1>5, <1>6 DEF IInv

\* The strengthening is inductive: whatever changes the session, whatever is
\* told of it and dropped, and whenever the event loop handles it.
THEOREM RegistryInvariant == Spec => []IInv
<1>1. IInv /\ [Next]_vars => IInv'
  <2> SUFFICES ASSUME IInv, [Next]_vars
               PROVE  IInv'
    OBVIOUS
  <2>1. CASE \/ \E p \in Panes : Closes(p)
             \/ \E p \in Panes, w \in Windows : Opens(w, p) \/ Moves(p, w)
             \/ \E p, q \in Panes : Swaps(p, q)
    <3>1. \E ws \in Seq(Windows) : Changes(ws)
      BY <2>1, SessionChanges DEF IInv
    <3> QED
      BY <3>1, ChangesStep
  <2>2. CASE Bootstrap
    BY <2>2, BootstrapStep
  <2>3. CASE Handle
    BY <2>3, HandleStep
  <2>4. CASE UNCHANGED vars
    <3>1. /\ home' = home /\ used' = used /\ heard' = heard /\ notes' = notes
          /\ tracked' = tracked /\ pids' = pids /\ running' = running
          /\ moved' = moved /\ lost' = lost
      BY <2>4 DEF vars, session, registry
    <3> QED
      BY <3>1 DEF IInv, TypeOK, KnownPanes, Heard, LastIsTrue, ShowsTracked, OneHome,
                  AllShown, Alive, Tracked, Told, PanesOf
  <2> QED
    BY <2>1, <2>2, <2>3, <2>4 DEF Next
<1> QED
  BY <1>1, InitHolds, PTL DEF Spec

\* Every variable keeps its type; the channel never holds more than its capacity.
THEOREM RegistryTypeCorrect == Spec => []TypeOK
<1>1. IInv => TypeOK
  BY DEF IInv
<1> QED
  BY <1>1, RegistryInvariant, PTL

\* apply_layout brings each window up to date, however old the layouts it is
\* given in between.
THEOREM RegistryUpToDate == Spec => []WindowsUpToDate
<1>1. IInv => WindowsUpToDate
  <2> SUFFICES ASSUME IInv, running, ~moved, ~lost, NEW w \in Windows, ~Told(w),
                      NEW p \in Panes
               PROVE  /\ tracked[p] = w <=> home[p] = w
                      /\ home[p] = w => p \in pids
    BY DEF WindowsUpToDate
  <2>1. w # Nowhere
    BY RegistryAssumption
  <2>2. tracked[p] = w => home[p] = w
    BY <2>1 DEF IInv, ShowsTracked, Tracked
  <2>3. home[p] = w => tracked[p] = w /\ p \in pids
    BY <2>1 DEF IInv, AllShown, OneHome, Heard, Alive, Tracked
  <2> QED
    BY <2>2, <2>3
<1> QED
  BY <1>1, RegistryInvariant, PTL

\* remove_window and the layouts leave no pane tracked that is gone.
THEOREM RegistryNoGhosts == Spec => []NoGhosts
<1>1. IInv => NoGhosts
  <2> SUFFICES ASSUME IInv, ~lost, notes = <<>>, NEW p \in Tracked
               PROVE  Alive(p)
    BY DEF NoGhosts
  <2>1. ~Told(tracked[p])
    BY DEF Told
  <2> QED
    BY <2>1 DEF IInv, ShowsTracked, Tracked, Alive
<1> QED
  BY <1>1, RegistryInvariant, PTL

\* The output of a tracked pane is turned on and stays on.
THEOREM RegistryHeard == Spec => []TrackedIsHeard
<1>1. IInv => TrackedIsHeard
  BY DEF IInv, Heard, TrackedIsHeard
<1> QED
  BY <1>1, RegistryInvariant, PTL
=============================================================================
