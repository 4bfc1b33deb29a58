------------------------------- MODULE Logger -------------------------------
(***************************************************************************)
(* internal/logger/logger.go.  log holds Logger.mu from formatting to the  *)
(* end of a rotation, so for the goroutines of the daemon it is one step;  *)
(* a kill may cut it in two.  Lines are numbered, sizes counted in lines.  *)
(***************************************************************************)
EXTENDS Integers, SequencesExt

CONSTANTS
  MaxSize,      \* Logger.maxSize
  PerSecond,    \* bound: the lines logged within one second
  MaxLines,     \* bound: the lines of a behaviour
  MaxTime       \* bound: its seconds

\* A second does not fill a file by itself: rotated files are named by the
\* second, and a second rotation within it would replace the first.
ASSUME LoggerAssumption ==
  /\ MaxSize \in Nat \ {0}
  /\ PerSecond \in 0..MaxSize
  /\ MaxLines \in Nat /\ MaxTime \in Nat \ {0}

VARIABLES
  lines,      \* how many lines were logged
  current,    \* the file at Logger.filePath
  rotated,    \* the file at that path with the stamp of each second
  handle,     \* Logger.file: open, closed, or no process
  now,        \* the second
  recent      \* how many lines were logged in it

logVars == <<lines, current, rotated, handle, now, recent>>

Numbers == 1..MaxLines

LoggerTypeOK ==
  /\ lines \in 0..MaxLines
  /\ current \in Seq(Numbers)
  /\ rotated \in [1..MaxTime -> Seq(Numbers)]
  /\ handle \in {"open", "shut", "down"}
  /\ now \in 1..MaxTime
  /\ recent \in 0..PerSecond

LoggerInit ==
  /\ lines = 0
  /\ current = <<>>
  /\ rotated = [t \in 1..MaxTime |-> <<>>]
  /\ handle = "open"
  /\ now = 1
  /\ recent = 0

-----------------------------------------------------------------------------
(* log and maybeRotate.                                                    *)

\* How a rotation ends: the rename and the reopening may each fail (their
\* errors are dropped), and the process may be killed before either.
Endings == [renamed : BOOLEAN, handle : {"open", "shut", "down"}]

\* Mutant: the full file is renamed before the line is written.
RotateEarly(e) ==
  /\ rotated' = IF e.renamed THEN [rotated EXCEPT ![now] = current] ELSE rotated
  /\ current' = IF e.renamed THEN <<>> ELSE Append(current, lines + 1)
  /\ handle' = e.handle

\* Close, Rename, OpenFile: the name has the stamp of the second, and a file
\* of that name is replaced.
Rotate(e) ==
  /\ rotated' = IF e.renamed THEN [rotated EXCEPT ![now] = Append(current, lines + 1)]
                             ELSE rotated
  /\ current' = IF e.renamed THEN <<>> ELSE Append(current, lines + 1)
  /\ handle' = e.handle

\* A line of an enabled level.
Logged ==
  /\ lines < MaxLines
  /\ recent < PerSecond
  /\ lines' = lines + 1
  /\ recent' = recent + 1
  /\ UNCHANGED now

Log ==
  /\ handle = "open"
  /\ Logged
  /\ IF Len(current) + 1 < MaxSize
     THEN current' = Append(current, lines + 1) /\ UNCHANGED <<rotated, handle>>
     ELSE \E e \in Endings : Rotate(e)

\* Neither Println nor Stat succeeds on a closed file.
LogShut ==
  /\ handle = "shut"
  /\ Logged
  /\ UNCHANGED <<current, rotated, handle>>

\* Mutant: the file is opened without O_APPEND, with O_TRUNC.
NewTruncating ==
  /\ handle = "down"
  /\ handle' = "open"
  /\ current' = <<>>
  /\ UNCHANGED <<lines, rotated, now, recent>>

\* O_CREATE|O_APPEND: what an earlier process wrote stays.
NewLogger ==
  /\ handle = "down"
  /\ handle' = "open"
  /\ UNCHANGED <<lines, current, rotated, now, recent>>

Close ==
  /\ handle # "down"
  /\ handle' = "shut"
  /\ UNCHANGED <<lines, current, rotated, now, recent>>

Kill ==
  /\ handle # "down"
  /\ handle' = "down"
  /\ UNCHANGED <<lines, current, rotated, now, recent>>

Second ==
  /\ now < MaxTime
  /\ now' = now + 1
  /\ recent' = 0
  /\ UNCHANGED <<lines, current, rotated, handle>>

LoggerNext == Log \/ LogShut \/ NewLogger \/ Close \/ Kill \/ Second

LoggerSpec == LoggerInit /\ [][LoggerNext]_logVars

-----------------------------------------------------------------------------
(* Properties.                                                             *)

Abstract == INSTANCE AppendLog WITH
  log     <- FlattenSeq(rotated) \o current,
  working <- handle = "open"

\* Read in the order of their stamps and then the current one, the files are
\* one log to which lines are only added: rotations, also those whose rename
\* or reopening fails, kills in the middle of one and restarts neither lose,
\* repeat nor move a line, and a line is missing only while the handle is
\* closed.
ImplementsAppendLog == Abstract!Spec

\* logger.go:168 "Simple rotation: close current, rename, reopen": logging
\* goes on after a rotation.
RotationReopens ==
  [][handle = "open" /\ rotated' # rotated => handle' # "shut"]_logVars
=============================================================================
