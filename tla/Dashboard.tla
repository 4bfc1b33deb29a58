----------------------------- MODULE Dashboard -----------------------------
(***************************************************************************)
(* internal/tui/layout.go: `bandwidth top`.  Update runs in one goroutine, *)
(* one message after the other.  A refresh does not: collect captures the  *)
(* mode and the sort key of the moment and runs in a goroutine of its own, *)
(* for seconds when docker is slow, while the timer and the keys start     *)
(* further refreshes.  Their results reach Update in any order.            *)
(*                                                                         *)
(* The selection is an index into the list of the last result.  Scroll is  *)
(* not a variable: renderSidebar works on a copy of the model, so the      *)
(* Scroll that Update and handleMouse see is never anything but 0.  Focus, *)
(* Period and ShowHelp only colour the screen and are left out.            *)
(***************************************************************************)
EXTENDS Integers, FiniteSets, SequencesExt

CONSTANTS
  Dockers, Nics,  \* names of containers and of interfaces
  Load,           \* of each name, its rx and tx as a refresh reads them
  Windows,        \* how many rows a terminal can show (12 or more in the code)
  Refreshes       \* the refreshes that may be under way at a time

Names == Dockers \cup Nics

ASSUME LoadAssumption == Load \in [Names -> [rx : Nat, tx : Nat]]
ASSUME NamesAssumption == IsFiniteSet(Names)
ASSUME WindowsAssumption == Windows \subseteq Nat \ {0} /\ Windows # {}

VARIABLES
  there,      \* the names that docker stats and /sys/class/net list
  mode,       \* DashboardModel.Mode
  sortBy,     \* DashboardModel.SortBy
  selected,   \* DashboardModel.Selected
  entries,    \* DashboardModel.Entries, as names
  visible,    \* the rows the sidebar has, 0 before the first WindowSizeMsg
  refresh,    \* the refreshes under way
  quitting    \* DashboardModel.Quitting

world == there
screen == <<mode, sortBy, selected, entries, visible>>
vars == <<world, screen, refresh, quitting>>

Modes == {"all", "docker"}
Keys == {"total", "rx", "tx"}

\* No refresh in this place, one that still reads, or its result on the way.
Idle == [is |-> "idle"]
Reading == [is : {"reading"}, mode : Modes, sortBy : Keys]
Results == [is : {"result"}, list : Seq(Names)]

TypeOK ==
  /\ there \in SUBSET Names
  /\ mode \in Modes
  /\ sortBy \in Keys
  /\ selected \in Nat
  /\ entries \in Seq(Names)
  /\ visible \in Windows \cup {0}
  /\ refresh \in [Refreshes -> {Idle} \cup Reading \cup Results]
  /\ quitting \in BOOLEAN

-----------------------------------------------------------------------------
(* collect.                                                                *)

\* The rows of a mode, of those that can be read.
Gathered(m) == there \cap (IF m = "all" THEN Names ELSE Dockers)

Amount(n, key) ==
  CASE key = "rx" -> Load[n].rx
    [] key = "tx" -> Load[n].tx
    [] OTHER -> Load[n].rx + Load[n].tx

Ordered(list, key) ==
  \A j, k \in DOMAIN list : j < k => Amount(list[j], key) >= Amount(list[k], key)

\* sort.Slice leaves the order of equal rows open.
Listings(m, key) == {l \in SetToSeqs(Gathered(m)) : Ordered(l, key)}

\* A new refresh takes the mode and the key of the model that issues it.  That
\* a place must be free is a bound of the model.
Ask(m, key) ==
  \E k \in Refreshes :
    /\ refresh[k] = Idle
    /\ refresh' = [refresh EXCEPT ![k] = [is |-> "reading", mode |-> m, sortBy |-> key]]

\* docker stats (with its 2 s deadline), ls and cat end, the rows are sorted.
Gather(k) ==
  /\ refresh[k].is = "reading"
  /\ \E l \in Listings(refresh[k].mode, refresh[k].sortBy) :
       refresh' = [refresh EXCEPT ![k] = [is |-> "result", list |-> l]]
  /\ UNCHANGED <<world, screen, quitting>>

-----------------------------------------------------------------------------
(* Update.                                                                 *)

Clamped(i, n) == IF i < n THEN i ELSE IF n = 0 THEN 0 ELSE n - 1

\* Mutant: the selection is not adapted to a shorter list.
HandleUnclamped(k) ==
  /\ refresh[k].is = "result"
  /\ entries' = refresh[k].list
  /\ refresh' = [refresh EXCEPT ![k] = Idle]
  /\ UNCHANGED <<world, mode, sortBy, selected, visible, quitting>>

\* RefreshResult.
Handle(k) ==
  /\ refresh[k].is = "result"
  /\ entries' = refresh[k].list
  /\ selected' = Clamped(selected, Len(refresh[k].list))
  /\ refresh' = [refresh EXCEPT ![k] = Idle]
  /\ UNCHANGED <<world, mode, sortBy, visible, quitting>>

\* Mutant: the refresh of Init is issued again, with the mode it captured.
TickAsInit ==
  /\ ~quitting
  /\ Ask("all", "total")
  /\ UNCHANGED <<world, screen, quitting>>

\* The timer, and the keys and buttons for the period.
Tick ==
  /\ ~quitting
  /\ Ask(mode, sortBy)
  /\ UNCHANGED <<world, screen, quitting>>

Resize ==
  /\ ~quitting
  /\ visible' \in Windows
  /\ UNCHANGED <<world, mode, sortBy, selected, entries, refresh, quitting>>

Next3(key) == CASE key = "total" -> "rx" [] key = "rx" -> "tx" [] key = "tx" -> "total"

ToggleMode ==
  /\ ~quitting
  /\ mode' = IF mode = "all" THEN "docker" ELSE "all"
  /\ selected' = 0
  /\ Ask(mode', sortBy)
  /\ UNCHANGED <<world, sortBy, entries, visible, quitting>>

ToggleSort ==
  /\ ~quitting
  /\ sortBy' = Next3(sortBy)
  /\ Ask(mode, sortBy')
  /\ UNCHANGED <<world, mode, selected, entries, visible, quitting>>

Select(i) ==
  /\ ~quitting
  /\ selected' = i
  /\ UNCHANGED <<world, mode, sortBy, entries, visible, refresh, quitting>>

\* Mutant: the guard of the key is missing.
UpUnguarded == Select(selected - 1)

\* Keys and wheel.
Up == selected > 0 /\ Select(selected - 1)
Down == selected < Len(entries) - 1 /\ Select(selected + 1)
Top == Select(0)
Bottom == Select(IF entries = <<>> THEN 0 ELSE Len(entries) - 1)

\* A click on the line of the sidebar that lies row lines below the header.
\* The area ends two lines above the bottom, that is two lines after the
\* rows, and is empty before the size is known.
ClickRow(row) ==
  /\ visible > 0
  /\ row \in 0..(visible + 2)
  /\ row < Len(entries)
  /\ Select(row)

\* tea.Quit: what the refreshes send is no longer received.
Quit ==
  /\ ~quitting
  /\ quitting' = TRUE
  /\ refresh' = [k \in Refreshes |-> Idle]
  /\ UNCHANGED <<world, screen>>

User ==
  \/ Resize \/ ToggleMode \/ ToggleSort \/ Up \/ Down \/ Top \/ Bottom
  \/ \E row \in DOMAIN entries : ClickRow(row - 1)
  \/ Quit

-----------------------------------------------------------------------------
(* Containers and interfaces come and go; while docker does not answer in  *)
(* time, none of its containers is listed.                                 *)

Appear(n) ==
  /\ n \notin there
  /\ there' = there \cup {n}
  /\ UNCHANGED <<screen, refresh, quitting>>

Vanish(S) ==
  /\ S \subseteq there
  /\ S # {}
  /\ there' = there \ S
  /\ UNCHANGED <<screen, refresh, quitting>>

World == ~quitting /\ ((\E n \in Names : Appear(n) \/ Vanish({n})) \/ Vanish(Dockers))

Init ==
  /\ there \in SUBSET Names
  /\ mode = "all"
  /\ sortBy = "total"
  /\ selected = 0
  /\ entries = <<>>
  /\ visible = 0
  /\ \E k \in Refreshes :
       refresh = [r \in Refreshes |->
                    IF r = k THEN [is |-> "reading", mode |-> "all", sortBy |-> "total"]
                             ELSE Idle]
  /\ quitting = FALSE

Next ==
  \/ \E k \in Refreshes : Gather(k) \/ Handle(k)
  \/ Tick
  \/ User
  \/ World

Spec == Init /\ [][Next]_vars

\* The commands of a refresh end, Update gets to every message, the timer
\* fires.  Nothing is assumed of the user and of docker.
Fairness == WF_vars(Tick) /\ \A k \in Refreshes : WF_vars(Gather(k)) /\ WF_vars(Handle(k))

FairSpec == Spec /\ Fairness

-----------------------------------------------------------------------------
(* Properties.                                                             *)

Window == IF visible = 0 THEN 12 ELSE visible

\* The rows renderSidebar draws (counted from 0).
FirstRow == IF selected >= Window THEN selected - Window + 1 ELSE 0
Shown == {i \in FirstRow .. FirstRow + Window - 1 : i < Len(entries)}

\* Whatever the keys did before a shorter or differently filtered list
\* arrives, and in whichever order refreshes and keys come: when there is a
\* list, the selected row is one of its rows and is on the screen.
SelectionIsShown == entries # <<>> => selected \in Shown

Settled(t, m, key) == there = t /\ mode = m /\ sortBy = key /\ ~quitting

\* Stale refreshes of another mode, another key or an earlier world do not
\* stay on the screen: when from some moment on nothing comes or goes and the
\* user leaves mode and key alone, the list ends up as what is there in that
\* mode, in the order of that key, and stays so.
ListSettles ==
  <>[]~quitting /\ <>[][UNCHANGED <<there, mode, sortBy>>]_vars
    => <>[](entries \in Listings(mode, sortBy))

-----------------------------------------------------------------------------
(* What a comment says and the code does not do.                           *)

\* layout.go:18 "Keyboard-first navigation with full mouse support": a click
\* on the list selects a row that is on the screen.
ClickSelectsShown ==
  [][\A i \in DOMAIN entries : ClickRow(i - 1) => i - 1 \in Shown]_vars
=============================================================================
