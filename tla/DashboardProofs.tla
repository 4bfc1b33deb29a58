-------------------------- MODULE DashboardProofs --------------------------
(***************************************************************************)
(* The selection of the dashboard, for every set of containers and         *)
(* interfaces, every window and any number of refreshes under way.         *)
(***************************************************************************)
EXTENDS Dashboard, FiniteSetTheorems, TLAPS

\* A listing is a sequence of names.
LEMMA ListingsType ==
  ASSUME there \in SUBSET Names, NEW m, NEW key, NEW l \in Listings(m, key)
  PROVE  l \in Seq(Names)
<1> DEFINE S == Gathered(m)
<1>1. S \in SUBSET Names
  BY DEF Gathered
<1> HIDE DEF S
<1>2. Cardinality(S) \in Nat
  BY <1>1, NamesAssumption, FS_Subset, FS_CardinalityType
<1>3. l \in [1..Cardinality(S) -> S]
  BY DEF Listings, SetToSeqs, S
<1>4. l \in [1..Cardinality(S) -> Names]
  BY <1>1, <1>3
<1> QED BY <1>2, <1>4

\* A refresh that is asked for reads with a mode and a key.
LEMMA AskType ==
  ASSUME TypeOK, NEW m \in Modes, NEW key \in Keys, Ask(m, key)
  PROVE  refresh' \in [Refreshes -> {Idle} \cup Reading \cup Results]
<1>1. [is |-> "reading", mode |-> m, sortBy |-> key] \in Reading
  BY DEF Reading
<1> QED BY <1>1 DEF Ask, TypeOK

\* The clamp yields a row of the list, when it has one.
LEMMA ClampedRow ==
  ASSUME NEW i \in Nat, NEW n \in Nat
  PROVE  Clamped(i, n) \in Nat /\ (n > 0 => Clamped(i, n) < n)
BY DEF Clamped

-----------------------------------------------------------------------------
(* Type correctness.                                                       *)

\* Whatever the user does and in whichever order results arrive, the list
\* holds names, the selection is a natural number and every refresh under
\* way has a mode and a key.
THEOREM TypeCorrect == Spec => []TypeOK
<1>1. Init => TypeOK
  <2>1. [is |-> "reading", mode |-> "all", sortBy |-> "total"] \in Reading
    BY DEF Reading, Modes, Keys
  <2>2. Init => refresh \in [Refreshes -> {Idle} \cup Reading]
    BY <2>1 DEF Init
  <2>3. Init => refresh \in [Refreshes -> {Idle} \cup Reading \cup Results]
    BY <2>2
  <2>4. Init => entries \in Seq(Names)
    BY DEF Init
  <2>5. Init => /\ there \in SUBSET Names
                /\ mode \in Modes
                /\ sortBy \in Keys
                /\ quitting \in BOOLEAN
    BY Zenon DEF Init, Modes, Keys
  <2>6. Init => selected \in Nat /\ visible \in Windows \cup {0}
    BY DEF Init
  <2> QED BY <2>3, <2>4, <2>5, <2>6 DEF TypeOK
<1>2. TypeOK /\ [Next]_vars => TypeOK'
  <2> SUFFICES ASSUME TypeOK, [Next]_vars PROVE TypeOK'
    OBVIOUS
  <2>1. ASSUME NEW k \in Refreshes, Gather(k)
        PROVE  TypeOK'
    <3>1. PICK l \in Listings(refresh[k].mode, refresh[k].sortBy) :
            refresh' = [refresh EXCEPT ![k] = [is |-> "result", list |-> l]]
      BY <2>1 DEF Gather
    <3>2. l \in Seq(Names)
      BY ListingsType DEF TypeOK
    <3>3. [is |-> "result", list |-> l] \in Results
      BY <3>2 DEF Results
    <3> QED BY <2>1, <3>1, <3>3 DEF Gather, TypeOK, world, screen
  <2>2. ASSUME NEW k \in Refreshes, Handle(k)
        PROVE  TypeOK'
    <3>1. refresh[k] \in Results
      BY <2>2 DEF Handle, TypeOK, Idle, Reading
    <3>2. refresh[k].list \in Seq(Names) /\ Len(refresh[k].list) \in Nat
      BY <3>1 DEF Results
    <3>3. Clamped(selected, Len(refresh[k].list)) \in Nat
      BY <3>2, ClampedRow DEF TypeOK
    <3> QED BY <2>2, <3>2, <3>3 DEF Handle, TypeOK, world
  <2>3. CASE Tick
    BY <2>3, AskType DEF Tick, TypeOK, world, screen
  <2>4. CASE ToggleMode
    <3>1. mode' \in Modes
      BY <2>4 DEF ToggleMode, Modes
    <3>2. refresh' \in [Refreshes -> {Idle} \cup Reading \cup Results]
      BY <2>4, <3>1, AskType DEF ToggleMode, TypeOK
    <3> QED BY <2>4, <3>1, <3>2 DEF ToggleMode, TypeOK, world
  <2>5. CASE ToggleSort
    <3>1. sortBy' \in Keys
      BY <2>5 DEF ToggleSort, TypeOK, Keys, Next3
    <3>2. refresh' \in [Refreshes -> {Idle} \cup Reading \cup Results]
      BY <2>5, <3>1, AskType DEF ToggleSort, TypeOK
    <3> QED BY <2>5, <3>1, <3>2 DEF ToggleSort, TypeOK, world
  <2>6. ASSUME NEW i \in Nat, Select(i)
        PROVE  TypeOK'
    BY <2>6 DEF Select, TypeOK, world
  <2>7. CASE Up \/ Down \/ Top \/ Bottom
    BY <2>6, <2>7 DEF Up, Down, Top, Bottom, TypeOK
  <2>8. ASSUME NEW row \in DOMAIN entries, ClickRow(row - 1)
        PROVE  TypeOK'
    BY <2>6, <2>8 DEF ClickRow, TypeOK
  <2>9. CASE Resize
    BY <2>9 DEF Resize, TypeOK, world
  <2>10. CASE Quit
    BY <2>10 DEF Quit, TypeOK, world, screen
  <2>11. CASE World
    BY <2>11 DEF World, Appear, Vanish, TypeOK, screen
  <2>12. CASE UNCHANGED vars
    BY <2>12 DEF vars, world, screen, TypeOK
  <2> QED BY <2>1, <2>2, <2>3, <2>4, <2>5, <2>7, <2>8, <2>9, <2>10, <2>11, <2>12
          DEF Next, User
<1> QED BY <1>1, <1>2, PTL DEF Spec

-----------------------------------------------------------------------------
(* The selected row.                                                       *)

\* A row of the list is always inside the window drawn around it.
LEMMA RowIsShown ==
  ASSUME TypeOK, selected < Len(entries)
  PROVE  selected \in Shown
<1>1. Window \in Nat \ {0} /\ selected \in Nat /\ Len(entries) \in Nat
  BY WindowsAssumption DEF Window, TypeOK
<1> QED BY <1>1 DEF Shown, FirstRow

\* The selection is a row of the list, when there is one.
Inside == entries # <<>> => selected < Len(entries)

LEMMA NonEmpty ==
  ASSUME NEW s \in Seq(Names)
  PROVE  Len(s) \in Nat /\ (s # <<>> <=> Len(s) > 0)
OBVIOUS

\* Every result, in whichever order it arrives, and every key leaves the
\* selection on a row of the list, and the window is drawn around it.  The
\* invariant behind it is Inside: a shorter list arrives only together with
\* the clamp, and no key leaves the list.
THEOREM SelectionShown == Spec => []SelectionIsShown
<1>1. Init => Inside
  BY DEF Init, Inside
<1>2. TypeOK /\ TypeOK' /\ Inside /\ [Next]_vars => Inside'
  <2> SUFFICES ASSUME TypeOK, TypeOK', Inside, [Next]_vars PROVE Inside'
    OBVIOUS
  <2>1. /\ Len(entries) \in Nat /\ (entries # <<>> <=> Len(entries) > 0)
        /\ selected \in Nat
    BY NonEmpty DEF TypeOK
  <2>2. ASSUME NEW k \in Refreshes, Handle(k)
        PROVE  Inside'
    <3>1. entries' \in Seq(Names) /\ selected' = Clamped(selected, Len(entries'))
      BY <2>2 DEF Handle, TypeOK
    <3>2. Len(entries') \in Nat /\ (entries' # <<>> <=> Len(entries') > 0)
      BY <3>1, NonEmpty
    <3> QED BY <2>1, <3>1, <3>2, ClampedRow DEF Inside
  <2>3. ASSUME UNCHANGED <<selected, entries>>
        PROVE  Inside'
    BY <2>3 DEF Inside
  <2>4. CASE ToggleMode
    BY <2>1, <2>4 DEF ToggleMode, Inside
  <2>5. CASE Up
    BY <2>1, <2>5 DEF Up, Select, Inside
  <2>6. CASE Down
    BY <2>1, <2>6 DEF Down, Select, Inside
  <2>7. CASE Top \/ Bottom
    BY <2>1, <2>7 DEF Top, Bottom, Select, Inside
  <2>8. ASSUME NEW row \in DOMAIN entries, ClickRow(row - 1)
        PROVE  Inside'
    BY <2>8 DEF ClickRow, Select, Inside
  <2>9. CASE Tick \/ ToggleSort \/ Resize \/ Quit \/ World \/ UNCHANGED vars
    <3>1. UNCHANGED <<selected, entries>>
      BY <2>9 DEF Tick, ToggleSort, Resize, Quit, World, Appear, Vanish, vars, screen
    <3> QED BY <2>3, <3>1
  <2>10. ASSUME NEW k \in Refreshes, Gather(k)
         PROVE  Inside'
    BY <2>3, <2>10 DEF Gather, screen
  <2> QED BY <2>2, <2>4, <2>5, <2>6, <2>7, <2>8, <2>9, <2>10 DEF Next, User
<1>3. TypeOK /\ Inside => SelectionIsShown
  BY RowIsShown DEF Inside, SelectionIsShown
<1> QED BY <1>1, <1>2, <1>3, TypeCorrect, PTL DEF Spec
=============================================================================
