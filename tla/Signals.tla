------------------------------ MODULE Signals ------------------------------
(***************************************************************************)
(* What the Autotrade goroutines of service/analytics.go compute and keep:  *)
(* the reading of the R script's answer (getDirection) and the record of    *)
(* the signals in APPDIR/signals.csv (Signals.Flush), one file for all the  *)
(* bots and for all the lives of the process.  The signal's way to the      *)
(* state machine is in module Bot; the sleep at the end of a round is no    *)
(* step.                                                                   *)
(*                                                                         *)
(* A row of the file is a time and a direction.  Here it also says whose    *)
(* signal it is and which, so that properties can speak of it.             *)
(***************************************************************************)
EXTENDS Naturals, Sequences

CONSTANTS
  Bots,         \* bots, each with an Autotrade of its own
  BatchSize,    \* signals per flush (5 in the code)
  Forecasts,    \* what the script may forecast
  MaxSignals,   \* bound: signals computed per bot
  MaxFailures,  \* bound: failed file operations
  MaxKills      \* bound: deaths of the process

Directions == {"Up", "Stay", "Down"}

ASSUME SignalsAssumption ==
  /\ BatchSize \in Nat \ {0}
  /\ Forecasts \subseteq Directions
  /\ MaxSignals \in Nat /\ MaxFailures \in Nat /\ MaxKills \in Nat

VARIABLES
  up,        \* the process runs
  pc,        \* where an Autotrade is
  signals,   \* its batch
  row,       \* the signal of the batch Flush writes next
  file,      \* the lines of signals.csv
  computed,  \* signals computed so far
  failures,  \* file operations that failed so far
  kills,     \* deaths of the process so far
  \* observation only
  lost,      \* signals neither in a batch nor in the file
  misread    \* forecasts that were taken for another direction

autotradeVars == <<pc, signals, row, computed>>
observedVars == <<lost, misread>>
vars == <<up, autotradeVars, file, failures, kills, observedVars>>

-----------------------------------------------------------------------------
Signal == [n: 1..MaxSignals, dir: Directions]
Line ==
  [kind: {"header"}, by: Bots] \cup [kind: {"row"}, by: Bots, n: 1..MaxSignals]

TypeOK ==
  /\ up \in BOOLEAN
  /\ pc \in [Bots -> {"poll", "flush", "header", "rows", "returned"}]
  /\ signals \in [Bots -> Seq(Signal)]
  /\ row \in [Bots -> 1..(MaxSignals + 1)]
  /\ file \in Seq(Line)
  /\ computed \in [Bots -> 0..MaxSignals]
  /\ failures \in 0..MaxFailures
  /\ kills \in 0..MaxKills
  /\ lost \subseteq (Bots \X (1..MaxSignals))
  /\ misread \subseteq Directions

Init ==
  /\ up = TRUE
  /\ pc = [b \in Bots |-> "poll"]
  /\ signals = [b \in Bots |-> <<>>]
  /\ row = [b \in Bots |-> 1]
  /\ file = <<>>
  /\ computed = [b \in Bots |-> 0]
  /\ failures = 0 /\ kills = 0
  /\ lost = {} /\ misread = {}

-----------------------------------------------------------------------------
At(b, step) == up /\ pc[b] = step
GoTo(b, step) == pc' = [pc EXCEPT ![b] = step]

InBatch(b) == {signals[b][k].n : k \in DOMAIN signals[b]}
RowsOf(b) == {k \in DOMAIN file : file[k].kind = "row" /\ file[k].by = b}
HeadersOf(b) == {k \in DOMAIN file : file[k].kind = "header" /\ file[k].by = b}
InFile(b) == {file[k].n : k \in RowsOf(b)}

\* Signals that die with the batch of b.
Unsaved(b) == {b} \X (InBatch(b) \ InFile(b))

-----------------------------------------------------------------------------
(* getDirection.                                                           *)

\* The lines la1_rf.R prints: paste puts a space on either side of "\n".
Output(forecast) ==
  <<"price min max ",
    CASE forecast = "Up" -> " 1" [] forecast = "Down" -> " -1" [] OTHER -> " 0">>

\* The switch over the second line.
DirectionOrUnknown(line) ==
  CASE line = "1" -> "Up" [] line = "-1" -> "Down" [] line = "0" -> "Stay"
    [] OTHER -> "unknown"
Direction(line) ==
  CASE line = "1" -> "Up" [] line = "-1" -> "Down" [] OTHER -> "Stay"

\* The context is looked at once per round, before the script is run; on return
\* the batch is dropped.
Return(b) ==
  /\ At(b, "poll")
  /\ GoTo(b, "returned")
  /\ signals' = [signals EXCEPT ![b] = <<>>]
  /\ lost' = lost \cup Unsaved(b)
  /\ UNCHANGED <<up, row, computed, file, failures, kills, misread>>

\* append, and the length test of Flush.
FullExactly(n) == n = BatchSize
Full(n) == n >= BatchSize

Record(b, dir) ==
  /\ computed' = [computed EXCEPT ![b] = @ + 1]
  /\ signals' = [signals EXCEPT ![b] = Append(@, [n |-> computed[b] + 1, dir |-> dir])]
  /\ GoTo(b, IF Full(Len(signals'[b])) THEN "flush" ELSE "poll")
  /\ UNCHANGED <<up, row, lost>>

\* Whatever the process held in memory is gone.
Die ==
  /\ up' = FALSE
  /\ pc' = [b \in Bots |-> "poll"]
  /\ signals' = [b \in Bots |-> <<>>]
  /\ row' = [b \in Bots |-> 1]
  /\ lost' = lost \cup UNION {Unsaved(b) : b \in Bots}

\* The script ends with an error, as it does for any interval but 15m: stay.
ScriptFails(b) ==
  /\ At(b, "poll") /\ computed[b] < MaxSignals
  /\ Record(b, "Stay")
  /\ UNCHANGED <<file, failures, kills, misread>>

\* The script ends well: its second line is read.  (It prints both or fails, so
\* the index of getDirection is in range.)
ScriptAnswers(b, forecast) ==
  LET dir == Direction(Output(forecast)[2]) IN
  /\ At(b, "poll") /\ computed[b] < MaxSignals
  /\ Record(b, dir)
  /\ misread' = misread \cup ({forecast} \ {dir})
  /\ UNCHANGED <<file, failures, kills>>

-----------------------------------------------------------------------------
(* Flush, once the batch is full.                                          *)

Fails == failures < MaxFailures /\ failures' = failures + 1

\* OpenFile, Stat or Seek fails: the batch is kept for the next round.
DropsBatch(b) == [signals EXCEPT ![b] = <<>>]
KeepsBatch(b) == signals

FlushFails(b) ==
  /\ At(b, "flush")
  /\ Fails
  /\ signals' = KeepsBatch(b)
  /\ GoTo(b, "poll")
  /\ UNCHANGED <<up, row, computed, file, kills, observedVars>>

\* Stat: only an empty file is given a header.
NeedsHeaderAlways == TRUE
NeedsHeader == file = <<>>

FlushOpens(b) ==
  /\ At(b, "flush")
  /\ GoTo(b, IF NeedsHeader THEN "header" ELSE "rows")
  /\ row' = [row EXCEPT ![b] = 1]
  /\ UNCHANGED <<up, signals, computed, file, failures, kills, observedVars>>

\* A write goes to the end of the file (O_APPEND), or fails and nobody looks.
WriteHeader(b) ==
  /\ At(b, "header")
  /\ \/ /\ file' = Append(file, [kind |-> "header", by |-> b])
        /\ UNCHANGED failures
     \/ /\ Fails
        /\ UNCHANGED file
  /\ GoTo(b, "rows")
  /\ UNCHANGED <<up, signals, row, computed, kills, observedVars>>

WriteRow(b) ==
  LET n == signals[b][row[b]].n IN
  /\ At(b, "rows")
  /\ row[b] <= Len(signals[b])
  /\ \/ /\ file' = Append(file, [kind |-> "row", by |-> b, n |-> n])
        /\ UNCHANGED <<failures, lost>>
     \/ /\ Fails
        /\ lost' = lost \cup {<<b, n>>}
        /\ UNCHANGED file
  /\ row' = [row EXCEPT ![b] = @ + 1]
  /\ UNCHANGED <<up, pc, signals, computed, kills, misread>>

\* All rows are written: *s = (*s)[:0].
EmptiedNot(b) == signals
Emptied(b) == [signals EXCEPT ![b] = <<>>]

FlushEnds(b) ==
  /\ At(b, "rows")
  /\ row[b] > Len(signals[b])
  /\ signals' = Emptied(b)
  /\ GoTo(b, "poll")
  /\ UNCHANGED <<up, row, computed, file, failures, kills, observedVars>>

-----------------------------------------------------------------------------
(* The process is killed and started again; clients run their bots anew.   *)

Kill ==
  /\ up /\ kills < MaxKills
  /\ kills' = kills + 1
  /\ Die
  /\ UNCHANGED <<computed, file, failures, misread>>

Restart ==
  /\ ~up
  /\ up' = TRUE
  /\ UNCHANGED <<autotradeVars, file, failures, kills, observedVars>>

-----------------------------------------------------------------------------
Flush(b) ==
  FlushFails(b) \/ FlushOpens(b) \/ WriteHeader(b) \/ WriteRow(b) \/ FlushEnds(b)

Next ==
  \/ \E b \in Bots :
       \/ Return(b) \/ ScriptFails(b) \/ Flush(b)
       \/ \E forecast \in Forecasts : ScriptAnswers(b, forecast)
  \/ Kill \/ Restart

Spec == Init /\ [][Next]_vars

\* Flush runs on Autotrade's goroutine and waits for nobody.
FairSpec == Spec /\ \A b \in Bots : WF_vars(Flush(b))

-----------------------------------------------------------------------------
\* Rows of one bot are in the order of its signals and none is there twice,
\* although bots append to one file row by row, batches outlive failed flushes,
\* and the process may die in the middle of one (analytics.go:124-152).
RowsInOrder ==
  \A b \in Bots : \A j, k \in RowsOf(b) : j < k => file[j].n < file[k].n

\* Every signal is in the file, or in the batch of a bot that will write it, or
\* was lost to a write that failed, a death of the process or the end of its
\* bot: no path through Flush forgets one (analytics.go:121-153).
SignalsAccounted ==
  \A b \in Bots : \A n \in 1..computed[b] :
    n \in InFile(b) \cup InBatch(b) \/ <<b, n>> \in lost

\* What a death or a stop can cost one bot is a batch, and one signal more for
\* every operation on the file that failed (analytics.go:24, 122-144).
BatchBounded == \A b \in Bots : Len(signals[b]) <= BatchSize + failures

\* The file starts with its header unless a write failed, and no bot adds a
\* second one of its own: what two bots can do together is write one each, when
\* both find the file empty (analytics.go:131-137).
HeaderOnTop ==
  /\ (file # <<>> /\ failures = 0) => file[1].kind = "header"
  /\ \A b \in Bots : \A j, k \in HeadersOf(b) : j = k

\* Once the file can be written again, a batch that grew behind failed flushes
\* is written, unless its bot or the process ends first (analytics.go:121-153).
BatchesAreFlushed ==
  \A b \in Bots :
    (Len(signals[b]) >= BatchSize + MaxFailures) ~> (signals[b] = <<>>)

\* "1" is Up: when the script forecasts a rise, the signal says so
\* (analytics.go:67, la1_rf.R:144-145).
UpIsUp == "Up" \notin misread
=============================================================================
