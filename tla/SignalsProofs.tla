--------------------------- MODULE SignalsProofs ---------------------------
(***************************************************************************)
(* Theorems about module Signals, for any bots, any batch size and any      *)
(* number of failures and deaths: what signals.csv holds of the signals     *)
(* that were computed, and in which order.                                  *)
(***************************************************************************)
EXTENDS Signals, SequenceTheorems, TLAPS

-----------------------------------------------------------------------------
(* The inductive invariant, in layers.                                     *)

\* Signals of the batch of b that Flush has gone past.
Written(b) == IF pc[b] = "rows" THEN row[b] - 1 ELSE 0

\* A batch is the end of what its bot has computed, without a gap.
BatchInv ==
  \A b \in Bots :
    /\ Len(signals[b]) <= computed[b]
    /\ \A k \in 1..Len(signals[b]) :
         signals[b][k].n = (computed[b] - Len(signals[b])) + k
    /\ pc[b] = "header" => row[b] = 1
    /\ pc[b] = "rows" => row[b] \in 1..(Len(signals[b]) + 1)

\* Rows are of signals that Flush has gone past.
FileInv ==
  \A b \in Bots : \A k \in RowsOf(b) :
    file[k].n <= (computed[b] - Len(signals[b])) + Written(b)

\* What Flush has gone past is in the file or lost.
PassedInv ==
  \A b \in Bots : \A k \in 1..Written(b) :
    signals[b][k].n \in InFile(b) \/ <<b, signals[b][k].n>> \in lost

\* A batch that is not being flushed is short of a flush, failures apart.
SizeInv ==
  \A b \in Bots : pc[b] = "poll" => Len(signals[b]) < BatchSize + failures

\* A bot that writes a header has found an empty file, and one that writes rows
\* a header.
HeaderInv ==
  \A b \in Bots :
    /\ pc[b] = "header" => HeadersOf(b) = {}
    /\ pc[b] = "rows" /\ failures = 0 => file # <<>>

-----------------------------------------------------------------------------
(* The steps, and what they do to the two kinds of sequences.              *)

\* A round whose answer is recorded.
Records(b, dir) ==
  /\ At(b, "poll") /\ computed[b] < MaxSignals
  /\ Record(b, dir)
  /\ UNCHANGED <<file, failures, kills>>
  /\ misread' \subseteq misread \cup Directions

\* An answer is recorded as one of the directions.
LEMMA AnswersAreRecorded ==
  ASSUME NEW b \in Bots, NEW forecast \in Forecasts, ScriptAnswers(b, forecast)
  PROVE  \E dir \in Directions : Records(b, dir)
<1> DEFINE dir == Direction(Output(forecast)[2])
<1>1. dir \in Directions
  BY DEF Direction, Directions
<1>2. forecast \in Directions
  BY SignalsAssumption
<1>3. /\ At(b, "poll") /\ computed[b] < MaxSignals
      /\ Record(b, dir)
      /\ misread' = misread \cup ({forecast} \ {dir})
      /\ UNCHANGED <<file, failures, kills>>
  BY DEF ScriptAnswers
<1> HIDE DEF dir
<1> QED
  BY <1>1, <1>2, <1>3 DEF Records

\* The steps of the system.
LEMMA StepCases ==
  ASSUME [Next]_vars
  PROVE  \/ UNCHANGED vars
         \/ \E b \in Bots :
              \/ Return(b) \/ FlushFails(b) \/ FlushOpens(b) \/ WriteHeader(b)
              \/ WriteRow(b) \/ FlushEnds(b)
              \/ \E dir \in Directions : Records(b, dir)
         \/ Kill \/ Restart
<1>1. ASSUME NEW b \in Bots, ScriptFails(b) PROVE Records(b, "Stay")
  BY <1>1 DEF ScriptFails, Records
<1>2. "Stay" \in Directions
  BY DEF Directions
<1> QED
  BY <1>1, <1>2, AnswersAreRecorded DEF Next, Flush

\* A line at the end of the file.
LEMMA LineAppended ==
  ASSUME TypeOK, NEW line \in Line, file' = Append(file, line), NEW b \in Bots
  PROVE  /\ file' \in Seq(Line) /\ file' # <<>>
         /\ DOMAIN file = 1..Len(file) /\ DOMAIN file' = 1..(Len(file) + 1)
         /\ Len(file) \in Nat
         /\ \A k \in 1..Len(file) : file'[k] = file[k]
         /\ file'[Len(file) + 1] = line
         /\ RowsOf(b)' = RowsOf(b) \cup
              {k \in {Len(file) + 1} : line.kind = "row" /\ line.by = b}
         /\ HeadersOf(b)' = HeadersOf(b) \cup
              {k \in {Len(file) + 1} : line.kind = "header" /\ line.by = b}
<1>1. file \in Seq(Line)
  BY DEF TypeOK
<1>2. /\ file' \in Seq(Line) /\ file' # <<>> /\ Len(file') = Len(file) + 1
      /\ \A k \in 1..Len(file) : file'[k] = file[k]
      /\ file'[Len(file) + 1] = line
  BY <1>1, AppendProperties
<1>3. /\ DOMAIN file = 1..Len(file) /\ DOMAIN file' = 1..(Len(file) + 1)
      /\ Len(file) \in Nat
  BY <1>1, <1>2, LenProperties
<1>4. /\ RowsOf(b)' = RowsOf(b) \cup
           {k \in {Len(file) + 1} : line.kind = "row" /\ line.by = b}
      /\ HeadersOf(b)' = HeadersOf(b) \cup
           {k \in {Len(file) + 1} : line.kind = "header" /\ line.by = b}
  BY <1>2, <1>3 DEF RowsOf, HeadersOf
<1> QED
  BY <1>2, <1>3, <1>4

\* A signal at the end of the batch.
LEMMA SignalAppended ==
  ASSUME TypeOK, NEW b \in Bots, NEW dir \in Directions, Records(b, dir)
  PROVE  /\ signals' \in [Bots -> Seq(Signal)]
         /\ computed' \in [Bots -> 0..MaxSignals]
         /\ Len(signals'[b]) = Len(signals[b]) + 1 /\ Len(signals[b]) \in Nat
         /\ \A k \in 1..Len(signals[b]) : signals'[b][k] = signals[b][k]
         /\ signals'[b][Len(signals[b]) + 1].n = computed[b] + 1
         /\ computed'[b] = computed[b] + 1
         /\ \A c \in Bots \ {b} :
              signals'[c] = signals[c] /\ computed'[c] = computed[c] /\ pc'[c] = pc[c]
         /\ pc'[b] \in {"poll", "flush"}
         /\ ~Full(Len(signals'[b])) => pc'[b] = "poll"
         /\ Full(Len(signals'[b])) => pc'[b] = "flush"
<1> DEFINE s == [n |-> computed[b] + 1, dir |-> dir]
<1>1. /\ signals[b] \in Seq(Signal) /\ computed[b] \in 0..MaxSignals
      /\ computed[b] < MaxSignals
  BY DEF TypeOK, Records
<1>2. s \in Signal
  BY <1>1, SignalsAssumption DEF Signal
<1>3. /\ signals' = [signals EXCEPT ![b] = Append(@, s)]
      /\ computed' = [computed EXCEPT ![b] = @ + 1]
      /\ pc' = [pc EXCEPT ![b] = IF Full(Len(signals'[b])) THEN "flush" ELSE "poll"]
  BY DEF Records, Record, GoTo
<1>4. signals'[b] = Append(signals[b], s)
  BY <1>3 DEF TypeOK
<1>5. /\ signals'[b] \in Seq(Signal)
      /\ Len(signals'[b]) = Len(signals[b]) + 1 /\ Len(signals[b]) \in Nat
      /\ \A k \in 1..Len(signals[b]) : signals'[b][k] = signals[b][k]
      /\ signals'[b][Len(signals[b]) + 1] = s
  BY <1>1, <1>2, <1>4, AppendProperties, LenProperties
<1>6. signals' \in [Bots -> Seq(Signal)]
  BY <1>2, <1>3, <1>4, <1>5 DEF TypeOK
<1>7. computed' \in [Bots -> 0..MaxSignals] /\ computed'[b] = computed[b] + 1
  BY <1>1, <1>3, SignalsAssumption DEF TypeOK
<1>8. \A c \in Bots \ {b} :
        signals'[c] = signals[c] /\ computed'[c] = computed[c] /\ pc'[c] = pc[c]
  BY <1>3 DEF TypeOK
<1>9. pc'[b] = IF Full(Len(signals'[b])) THEN "flush" ELSE "poll"
  BY <1>3 DEF TypeOK
<1> QED
  BY <1>5, <1>6, <1>7, <1>8, <1>9

\* What a death leaves of an Autotrade.
LEMMA NothingIsLeft ==
  ASSUME TypeOK, Die, NEW b \in Bots
  PROVE  /\ signals'[b] = <<>> /\ Len(signals'[b]) = 0 /\ pc'[b] = "poll" /\ row'[b] = 1
         /\ \A n \in InBatch(b) : n \in InFile(b) \/ <<b, n>> \in lost'
         /\ lost \subseteq lost'
BY DEF Die, Unsaved, TypeOK

-----------------------------------------------------------------------------
(* Types and batches.                                                      *)

LEMMA TypeInit == Init => TypeOK /\ BatchInv
<1> SUFFICES ASSUME Init PROVE TypeOK /\ BatchInv
  OBVIOUS
<1> USE SignalsAssumption DEF Init
<1>1. /\ pc \in [Bots -> {"poll", "flush", "header", "rows", "returned"}]
      /\ row \in [Bots -> 1..(MaxSignals + 1)]
      /\ computed \in [Bots -> 0..MaxSignals]
  OBVIOUS
<1>2. signals \in [Bots -> Seq(Signal)] /\ file \in Seq(Line)
  OBVIOUS
<1>3. failures \in 0..MaxFailures /\ kills \in 0..MaxKills
  OBVIOUS
<1>4. up \in BOOLEAN
  BY Zenon
<1>5. BatchInv
  <2>1. \A b \in Bots : Len(signals[b]) = 0 /\ computed[b] = 0 /\ pc[b] = "poll"
    OBVIOUS
  <2> HIDE DEF Init
  <2> SUFFICES ASSUME NEW b \in Bots
               PROVE  /\ Len(signals[b]) <= computed[b]
                      /\ \A k \in 1..Len(signals[b]) :
                           signals[b][k].n = (computed[b] - Len(signals[b])) + k
                      /\ pc[b] = "header" => row[b] = 1
                      /\ pc[b] = "rows" => row[b] \in 1..(Len(signals[b]) + 1)
    BY DEF BatchInv
  <2>2. Len(signals[b]) = 0 /\ computed[b] = 0 /\ pc[b] = "poll"
    BY <2>1
  <2>3. \A k \in 1..Len(signals[b]) : FALSE
    BY <2>2
  <2> QED
    BY <2>2, <2>3
<1> QED
  BY <1>1, <1>2, <1>3, <1>4, <1>5 DEF TypeOK

LEMMA FileOfLines ==
  ASSUME TypeOK, NEW line \in Line, file' = Append(file, line) \/ file' = file
  PROVE  file' \in Seq(Line)
<1>1. file \in Seq(Line)
  BY DEF TypeOK
<1> QED
  BY <1>1, AppendProperties

LEMMA BatchOfSignals ==
  ASSUME TypeOK, NEW b \in Bots
  PROVE  /\ Len(signals[b]) \in Nat /\ DOMAIN signals[b] = 1..Len(signals[b])
         /\ \A k \in 1..Len(signals[b]) : signals[b][k].n \in 1..MaxSignals
<1>1. signals[b] \in Seq(Signal)
  BY DEF TypeOK
<1>2. Len(signals[b]) \in Nat /\ DOMAIN signals[b] = 1..Len(signals[b])
  BY <1>1, LenProperties
<1>3. \A k \in 1..Len(signals[b]) : signals[b][k] \in Signal
  BY <1>1, ElementOfSeq
<1> QED
  BY <1>2, <1>3 DEF Signal

\* A row that is written is of a signal.
LEMMA RowIsLine ==
  ASSUME TypeOK, BatchInv, NEW b \in Bots, pc[b] = "rows", row[b] <= Len(signals[b])
  PROVE  /\ row[b] \in 1..Len(signals[b]) /\ signals[b][row[b]] \in Signal
         /\ [kind |-> "row", by |-> b, n |-> signals[b][row[b]].n] \in Line
         /\ row[b] + 1 \in 1..(MaxSignals + 1)
<1>1. signals[b] \in Seq(Signal) /\ Len(signals[b]) \in Nat /\ row[b] \in Nat
  BY LenProperties, SignalsAssumption DEF TypeOK
<1>2. row[b] \in 1..Len(signals[b])
  BY <1>1 DEF BatchInv
<1>3. signals[b][row[b]] \in Signal
  BY <1>1, <1>2, ElementOfSeq
<1>4. row[b] + 1 \in 1..(MaxSignals + 1)
  BY <1>1, <1>2, SignalsAssumption DEF BatchInv, TypeOK
<1> QED
  BY <1>2, <1>3, <1>4 DEF Signal, Line

LEMMA TypeNext == TypeOK /\ BatchInv /\ [Next]_vars => TypeOK'
<1> SUFFICES ASSUME TypeOK, BatchInv, [Next]_vars PROVE TypeOK'
  OBVIOUS
<1> USE SignalsAssumption DEF TypeOK, At, GoTo, observedVars
<1>1. CASE UNCHANGED vars
  BY <1>1 DEF vars, autotradeVars
<1>2. ASSUME NEW b \in Bots, Return(b) PROVE TypeOK'
  <2>1. signals' \in [Bots -> Seq(Signal)]
    BY <1>2 DEF Return
  <2>2. lost' \subseteq (Bots \X (1..MaxSignals))
    <3>1. \A k \in DOMAIN signals[b] : signals[b][k].n \in 1..MaxSignals
      BY BatchOfSignals
    <3> QED
      BY <3>1, <1>2 DEF Return, Unsaved, InBatch
  <2> QED
    BY <1>2, <2>1, <2>2 DEF Return
<1>3. ASSUME NEW b \in Bots, FlushFails(b) PROVE TypeOK'
  BY <1>3 DEF FlushFails, Fails, KeepsBatch
<1>4. ASSUME NEW b \in Bots, FlushOpens(b) PROVE TypeOK'
  BY <1>4 DEF FlushOpens
<1>5. ASSUME NEW b \in Bots, WriteHeader(b) PROVE TypeOK'
  <2>1. [kind |-> "header", by |-> b] \in Line
    BY DEF Line
  <2>2. file' = Append(file, [kind |-> "header", by |-> b]) \/ file' = file
    BY <1>5 DEF WriteHeader
  <2>3. file' \in Seq(Line)
    BY <2>1, <2>2, FileOfLines
  <2>4. failures' \in 0..MaxFailures
    BY <1>5 DEF WriteHeader, Fails
  <2> QED
    BY <1>5, <2>3, <2>4 DEF WriteHeader
<1>6. ASSUME NEW b \in Bots, WriteRow(b) PROVE TypeOK'
  <2> DEFINE n == signals[b][row[b]].n
  <2>1. pc[b] = "rows" /\ row[b] <= Len(signals[b])
    BY <1>6 DEF WriteRow
  <2>2. /\ [kind |-> "row", by |-> b, n |-> n] \in Line /\ n \in 1..MaxSignals
        /\ row[b] + 1 \in 1..(MaxSignals + 1)
    BY <2>1, RowIsLine, BatchOfSignals
  <2>3. file' = Append(file, [kind |-> "row", by |-> b, n |-> n]) \/ file' = file
    BY <1>6 DEF WriteRow
  <2>4. file' \in Seq(Line)
    BY <2>2, <2>3, FileOfLines
  <2>5. failures' \in 0..MaxFailures
    BY <1>6 DEF WriteRow, Fails
  <2>6. row' \in [Bots -> 1..(MaxSignals + 1)]
    BY <1>6, <2>2 DEF WriteRow
  <2>7. lost' = lost \/ lost' = lost \cup {<<b, n>>}
    BY <1>6 DEF WriteRow
  <2>8. lost' \subseteq (Bots \X (1..MaxSignals))
    BY <2>2, <2>7
  <2> QED
    BY <1>6, <2>4, <2>5, <2>6, <2>8 DEF WriteRow
<1>7. ASSUME NEW b \in Bots, FlushEnds(b) PROVE TypeOK'
  BY <1>7 DEF FlushEnds, Emptied
<1>8. ASSUME NEW b \in Bots, NEW dir \in Directions, Records(b, dir) PROVE TypeOK'
  <2>1. signals' \in [Bots -> Seq(Signal)] /\ computed' \in [Bots -> 0..MaxSignals]
    BY <1>8, SignalAppended
  <2>2. pc' \in [Bots -> {"poll", "flush", "header", "rows", "returned"}]
    BY <1>8 DEF Records, Record
  <2> QED
    BY <1>8, <2>1, <2>2 DEF Records, Record
<1>9. ASSUME Die, UNCHANGED <<computed, file, failures, misread>>,
             kills' \in 0..MaxKills
      PROVE  TypeOK'
  <2>1. \A b \in Bots : \A k \in DOMAIN signals[b] : signals[b][k].n \in 1..MaxSignals
    BY BatchOfSignals
  <2>2. lost' \subseteq (Bots \X (1..MaxSignals))
    BY <1>9, <2>1 DEF Die, Unsaved, InBatch
  <2>3. /\ pc' \in [Bots -> {"poll", "flush", "header", "rows", "returned"}]
        /\ signals' \in [Bots -> Seq(Signal)] /\ row' \in [Bots -> 1..(MaxSignals + 1)]
    BY <1>9 DEF Die
  <2>4. up' \in BOOLEAN
    BY <1>9, Zenon DEF Die
  <2> QED
    BY <1>9, <2>2, <2>3, <2>4
<1>10. CASE Kill
  BY <1>10, <1>9 DEF Kill
<1>11. CASE Restart
  <2>1. up' \in BOOLEAN
    BY <1>11, Zenon DEF Restart
  <2> QED
    BY <1>11, <2>1 DEF Restart, autotradeVars
<1> QED
  BY <1>1, <1>2, <1>3, <1>4, <1>5, <1>6, <1>7, <1>8, <1>10, <1>11, StepCases

LEMMA BatchNext == TypeOK /\ BatchInv /\ [Next]_vars => BatchInv'
<1> SUFFICES ASSUME TypeOK, BatchInv, [Next]_vars, NEW c \in Bots
             PROVE  /\ Len(signals'[c]) <= computed'[c]
                    /\ \A k \in 1..Len(signals'[c]) :
                         signals'[c][k].n = (computed'[c] - Len(signals'[c])) + k
                    /\ pc'[c] = "header" => row'[c] = 1
                    /\ pc'[c] = "rows" => row'[c] \in 1..(Len(signals'[c]) + 1)
  BY DEF BatchInv
<1> DEFINE Good == /\ Len(signals'[c]) <= computed'[c]
                   /\ \A k \in 1..Len(signals'[c]) :
                        signals'[c][k].n = (computed'[c] - Len(signals'[c])) + k
                   /\ pc'[c] = "header" => row'[c] = 1
                   /\ pc'[c] = "rows" => row'[c] \in 1..(Len(signals'[c]) + 1)
<1>a. /\ signals[c] \in Seq(Signal) /\ Len(signals[c]) \in Nat
      /\ computed[c] \in Nat /\ row[c] \in Nat
  BY LenProperties, SignalsAssumption DEF TypeOK
<1>b. ASSUME signals'[c] = signals[c], computed'[c] = computed[c],
             pc'[c] \in {"header", "rows"} => pc'[c] = pc[c] /\ row'[c] = row[c]
      PROVE  Good
  BY <1>b DEF BatchInv
<1>c. ASSUME signals'[c] = <<>>, computed'[c] = computed[c], pc'[c] \notin {"header", "rows"}
      PROVE  Good
  BY <1>a, <1>c, SignalsAssumption
<1>1. CASE UNCHANGED vars
  BY <1>1, <1>b DEF vars, autotradeVars
<1>2. ASSUME NEW b \in Bots, Return(b) PROVE Good
  <2>1. CASE c = b
    BY <1>2, <2>1, <1>c DEF Return, GoTo, TypeOK
  <2>2. CASE c # b
    BY <1>2, <2>2, <1>b DEF Return, GoTo, TypeOK
  <2> QED
    BY <2>1, <2>2
<1>3. ASSUME NEW b \in Bots, FlushFails(b) PROVE Good
  BY <1>3, <1>b DEF FlushFails, KeepsBatch, GoTo, TypeOK
<1>4. ASSUME NEW b \in Bots, FlushOpens(b) PROVE Good
  <2>1. CASE c = b
    <3>1. signals'[c] = signals[c] /\ computed'[c] = computed[c] /\ row'[c] = 1
      BY <1>4, <2>1 DEF FlushOpens, TypeOK
    <3> QED
      BY <3>1, <1>a DEF BatchInv
  <2>2. CASE c # b
    BY <1>4, <2>2, <1>b DEF FlushOpens, GoTo, TypeOK
  <2> QED
    BY <2>1, <2>2
<1>5. ASSUME NEW b \in Bots, WriteHeader(b) PROVE Good
  <2>1. CASE c = b
    <3>1. /\ signals'[c] = signals[c] /\ computed'[c] = computed[c] /\ row'[c] = 1
          /\ pc'[c] = "rows"
      BY <1>5, <2>1 DEF WriteHeader, At, GoTo, TypeOK, BatchInv
    <3> QED
      BY <3>1, <1>a DEF BatchInv
  <2>2. CASE c # b
    BY <1>5, <2>2, <1>b DEF WriteHeader, GoTo, TypeOK
  <2> QED
    BY <2>1, <2>2
<1>6. ASSUME NEW b \in Bots, WriteRow(b) PROVE Good
  <2>1. CASE c = b
    <3>1. /\ signals'[c] = signals[c] /\ computed'[c] = computed[c]
          /\ row'[c] = row[c] + 1 /\ row[c] <= Len(signals[c])
          /\ pc'[c] = pc[c] /\ pc[c] = "rows"
      BY <1>6, <2>1 DEF WriteRow, At, TypeOK
    <3> QED
      BY <3>1, <1>a DEF BatchInv
  <2>2. CASE c # b
    BY <1>6, <2>2, <1>b DEF WriteRow, TypeOK
  <2> QED
    BY <2>1, <2>2
<1>7. ASSUME NEW b \in Bots, FlushEnds(b) PROVE Good
  <2>1. CASE c = b
    BY <1>7, <2>1, <1>c DEF FlushEnds, Emptied, GoTo, TypeOK
  <2>2. CASE c # b
    BY <1>7, <2>2, <1>b DEF FlushEnds, Emptied, GoTo, TypeOK
  <2> QED
    BY <2>1, <2>2
<1>8. ASSUME NEW b \in Bots, NEW dir \in Directions, Records(b, dir) PROVE Good
  <2>1. CASE c = b
    <3>1. /\ Len(signals'[c]) = Len(signals[c]) + 1 /\ computed'[c] = computed[c] + 1
          /\ \A k \in 1..Len(signals[c]) : signals'[c][k] = signals[c][k]
          /\ signals'[c][Len(signals[c]) + 1].n = computed[c] + 1
          /\ pc'[c] \in {"poll", "flush"}
      BY <1>8, <2>1, SignalAppended
    <3>2. Len(signals'[c]) = Len(signals[c]) + 1 /\ computed'[c] = computed[c] + 1
      BY <3>1
    <3>3. computed'[c] - Len(signals'[c]) = computed[c] - Len(signals[c])
      BY <3>2, <1>a
    <3>4. \A k \in 1..Len(signals[c]) :
            signals'[c][k].n = (computed'[c] - Len(signals'[c])) + k
      BY <3>1, <3>3 DEF BatchInv
    <3>5. signals'[c][Len(signals[c]) + 1].n =
            (computed'[c] - Len(signals'[c])) + (Len(signals[c]) + 1)
      BY <3>1, <3>3, <1>a
    <3>6. \A k \in 1..Len(signals'[c]) : k \in 1..Len(signals[c]) \/ k = Len(signals[c]) + 1
      BY <3>2, <1>a
    <3>7. \A k \in 1..Len(signals'[c]) :
            signals'[c][k].n = (computed'[c] - Len(signals'[c])) + k
      BY <3>4, <3>5, <3>6
    <3>8. Len(signals'[c]) <= computed'[c]
      BY <3>2, <1>a DEF BatchInv
    <3> QED
      BY <3>1, <3>7, <3>8
  <2>2. CASE c # b
    BY <1>8, <2>2, <1>b, SignalAppended DEF Records, Record
  <2> QED
    BY <2>1, <2>2
<1>9. CASE Kill
  BY <1>9, <1>c, NothingIsLeft DEF Kill
<1>10. CASE Restart
  BY <1>10, <1>b DEF Restart, autotradeVars
<1> QED
  BY <1>1, <1>2, <1>3, <1>4, <1>5, <1>6, <1>7, <1>8, <1>9, <1>10, StepCases

-----------------------------------------------------------------------------
(* The order of rows.                                                      *)

\* The last signal of b that may have a row.
Bound(b) == (computed[b] - Len(signals[b])) + Written(b)

LEMMA BoundIsInt ==
  ASSUME TypeOK, NEW b \in Bots
  PROVE  Bound(b) \in Int
<1>1. Len(signals[b]) \in Nat
  BY BatchOfSignals
<1>2. computed[b] \in Nat /\ Written(b) \in Int
  BY SignalsAssumption DEF TypeOK, Written
<1> QED
  BY <1>1, <1>2 DEF Bound

LEMMA BoundGrows ==
  ASSUME TypeOK, BatchInv, [Next]_vars, NEW c \in Bots
  PROVE  Bound(c) <= Bound(c)'
<1>a. /\ Len(signals[c]) \in Nat /\ computed[c] \in Nat /\ row[c] \in Nat
      /\ pc[c] = "rows" => row[c] <= Len(signals[c]) + 1
  BY BatchOfSignals, SignalsAssumption DEF TypeOK, BatchInv
<1>b. ASSUME signals'[c] = signals[c], computed'[c] = computed[c], Written(c)' = Written(c)
      PROVE  Bound(c) <= Bound(c)'
  <2>1. Bound(c)' = Bound(c)
    BY <1>b DEF Bound
  <2> QED
    BY <2>1, BoundIsInt
<1>c. ASSUME signals'[c] = signals[c], computed'[c] = computed[c], Written(c) = 0,
             Written(c)' = 0
      PROVE  Bound(c) <= Bound(c)'
  BY <1>b, <1>c
<1>d. ASSUME Len(signals'[c]) = 0, computed'[c] = computed[c], pc'[c] # "rows"
      PROVE  Bound(c) <= Bound(c)'
  <2>1. Bound(c)' = computed[c]
    BY <1>a, <1>d DEF Bound, Written
  <2>2. Written(c) <= Len(signals[c])
    BY <1>a DEF Written
  <2> QED
    BY <1>a, <2>1, <2>2 DEF Bound, Written
<1>1. CASE UNCHANGED vars
  BY <1>1, <1>b DEF vars, autotradeVars, Written
<1>2. ASSUME NEW b \in Bots, Return(b) PROVE Bound(c) <= Bound(c)'
  <2>1. CASE c = b
    <3>1. signals'[c] = <<>> /\ computed'[c] = computed[c] /\ pc'[c] # "rows"
      BY <1>2, <2>1 DEF Return, GoTo, TypeOK
    <3> QED
      BY <3>1, <1>d
  <2>2. CASE c # b
    BY <1>2, <2>2, <1>b DEF Return, GoTo, TypeOK, Written
  <2> QED
    BY <2>1, <2>2
<1>3. ASSUME NEW b \in Bots, FlushFails(b) PROVE Bound(c) <= Bound(c)'
  BY <1>3, <1>b DEF FlushFails, KeepsBatch, At, GoTo, TypeOK, Written
<1>4. ASSUME NEW b \in Bots, FlushOpens(b) PROVE Bound(c) <= Bound(c)'
  <2>1. CASE c = b
    <3>1. Written(c) = 0 /\ Written(c)' = 0
      BY <1>4, <2>1 DEF FlushOpens, At, GoTo, TypeOK, Written
    <3> QED
      BY <1>4, <3>1, <1>c DEF FlushOpens
  <2>2. CASE c # b
    BY <1>4, <2>2, <1>b DEF FlushOpens, GoTo, TypeOK, Written
  <2> QED
    BY <2>1, <2>2
<1>5. ASSUME NEW b \in Bots, WriteHeader(b) PROVE Bound(c) <= Bound(c)'
  <2>1. CASE c = b
    <3>1. Written(c) = 0 /\ Written(c)' = 0
      BY <1>5, <2>1 DEF WriteHeader, At, GoTo, TypeOK, Written, BatchInv
    <3> QED
      BY <1>5, <3>1, <1>c DEF WriteHeader
  <2>2. CASE c # b
    BY <1>5, <2>2, <1>b DEF WriteHeader, GoTo, TypeOK, Written
  <2> QED
    BY <2>1, <2>2
<1>6. ASSUME NEW b \in Bots, WriteRow(b) PROVE Bound(c) <= Bound(c)'
  <2>1. CASE c = b
    <3>1. /\ signals'[c] = signals[c] /\ computed'[c] = computed[c]
          /\ Written(c)' = row[c] /\ Written(c) = row[c] - 1
      BY <1>6, <2>1, <1>a DEF WriteRow, At, TypeOK, Written
    <3> QED
      BY <3>1, <1>a DEF Bound
  <2>2. CASE c # b
    BY <1>6, <2>2, <1>b DEF WriteRow, TypeOK, Written
  <2> QED
    BY <2>1, <2>2
<1>7. ASSUME NEW b \in Bots, FlushEnds(b) PROVE Bound(c) <= Bound(c)'
  <2>1. CASE c = b
    <3>1. signals'[c] = <<>> /\ computed'[c] = computed[c] /\ pc'[c] # "rows"
      BY <1>7, <2>1 DEF FlushEnds, Emptied, GoTo, TypeOK
    <3> QED
      BY <3>1, <1>d
  <2>2. CASE c # b
    BY <1>7, <2>2, <1>b DEF FlushEnds, Emptied, GoTo, TypeOK, Written
  <2> QED
    BY <2>1, <2>2
<1>8. ASSUME NEW b \in Bots, NEW dir \in Directions, Records(b, dir)
      PROVE  Bound(c) <= Bound(c)'
  <2>1. CASE c = b
    <3>1. /\ Len(signals'[c]) = Len(signals[c]) + 1 /\ computed'[c] = computed[c] + 1
          /\ pc'[c] # "rows"
      BY <1>8, <2>1, SignalAppended
    <3>2. Written(c) = 0 /\ Written(c)' = 0
      BY <3>1, <1>8, <2>1 DEF Records, At, Written
    <3> QED
      BY <3>1, <3>2, <1>a DEF Bound
  <2>2. CASE c # b
    BY <1>8, <2>2, <1>b, SignalAppended DEF Records, Record, Written
  <2> QED
    BY <2>1, <2>2
<1>9. CASE Kill
  BY <1>9, <1>d, NothingIsLeft DEF Kill
<1>10. CASE Restart
  BY <1>10, <1>b DEF Restart, autotradeVars, Written
<1> QED
  BY <1>1, <1>2, <1>3, <1>4, <1>5, <1>6, <1>7, <1>8, <1>9, <1>10, StepCases

\* How a step may change the file.
LEMMA FileCases ==
  ASSUME TypeOK, BatchInv, [Next]_vars
  PROVE  \/ file' = file
         \/ \E b \in Bots : WriteHeader(b) /\ file' = Append(file, [kind |-> "header", by |-> b])
         \/ \E b \in Bots :
              /\ WriteRow(b)
              /\ file' = Append(file, [kind |-> "row", by |-> b, n |-> signals[b][row[b]].n])
BY StepCases
   DEF vars, Return, FlushFails, FlushOpens, WriteHeader, WriteRow, FlushEnds, Records,
       Kill, Restart

LEMMA FileNext ==
  TypeOK /\ BatchInv /\ FileInv /\ RowsInOrder /\ [Next]_vars
    => FileInv' /\ RowsInOrder'
<1> SUFFICES ASSUME TypeOK, BatchInv, FileInv, RowsInOrder, [Next]_vars, NEW c \in Bots
             PROVE  /\ \A k \in RowsOf(c)' : file'[k].n <= Bound(c)'
                    /\ \A j, k \in RowsOf(c)' : j < k => file'[j].n < file'[k].n
  BY DEF FileInv, RowsInOrder, Bound
<1> DEFINE Good == /\ \A k \in RowsOf(c)' : file'[k].n <= Bound(c)'
                   /\ \A j, k \in RowsOf(c)' : j < k => file'[j].n < file'[k].n
<1>a. Bound(c) <= Bound(c)' /\ Bound(c) \in Int /\ Bound(c)' \in Int
  <2>1. TypeOK'
    BY TypeNext
  <2>2. signals'[c] \in Seq(Signal) /\ computed'[c] \in Nat /\ row'[c] \in Nat
    BY <2>1, SignalsAssumption DEF TypeOK
  <2>3. Len(signals'[c]) \in Nat
    BY <2>2, LenProperties
  <2>4. Bound(c)' \in Int
    BY <2>2, <2>3 DEF Bound, Written
  <2> QED
    BY <2>4, BoundGrows, BoundIsInt
<1>b. \A k \in RowsOf(c) : file[k].n \in Int /\ k \in 1..Len(file)
  <2>1. file \in Seq(Line)
    BY DEF TypeOK
  <2>2. \A k \in RowsOf(c) : k \in 1..Len(file) /\ file[k] \in Line
    BY <2>1, LenProperties, ElementOfSeq DEF RowsOf
  <2> QED
    BY <2>2, SignalsAssumption DEF Line, RowsOf
<1>c. ASSUME RowsOf(c)' = RowsOf(c), \A k \in RowsOf(c) : file'[k] = file[k]
      PROVE  Good
  <2>1. \A k \in RowsOf(c) : file[k].n <= Bound(c)
    BY DEF FileInv, Bound
  <2>2. \A k \in RowsOf(c) : file[k].n <= Bound(c)'
    BY <2>1, <1>a, <1>b
  <2> QED
    BY <2>2, <1>c DEF RowsInOrder
<1>1. CASE file' = file
  BY <1>1, <1>c DEF RowsOf
<1>2. ASSUME NEW b \in Bots, file' = Append(file, [kind |-> "header", by |-> b])
      PROVE  Good
  <2> DEFINE line == [kind |-> "header", by |-> b]
  <2>1. line \in Line /\ line.kind # "row"
    BY DEF Line
  <2>2. /\ \A k \in 1..Len(file) : file'[k] = file[k]
        /\ RowsOf(c)' = RowsOf(c) \cup {k \in {Len(file) + 1} : line.kind = "row" /\ line.by = c}
    <3> HIDE DEF line
    <3> QED
      BY <1>2, <2>1, LineAppended DEF line
  <2>3. RowsOf(c)' = RowsOf(c)
    BY <2>1, <2>2
  <2> QED
    BY <2>2, <2>3, <1>b, <1>c
<1>3. ASSUME NEW b \in Bots, WriteRow(b),
             file' = Append(file, [kind |-> "row", by |-> b, n |-> signals[b][row[b]].n])
      PROVE  Good
  <2> DEFINE n == signals[b][row[b]].n  line == [kind |-> "row", by |-> b, n |-> n]
  <2>1. pc[b] = "rows" /\ row[b] <= Len(signals[b])
    BY <1>3 DEF WriteRow, At
  <2>2. line \in Line /\ row[b] \in 1..Len(signals[b]) /\ n \in 1..MaxSignals
    BY <2>1, RowIsLine, BatchOfSignals
  <2>3. /\ \A k \in 1..Len(file) : file'[k] = file[k]
        /\ file'[Len(file) + 1] = line /\ Len(file) \in Nat
        /\ RowsOf(c)' = RowsOf(c) \cup {k \in {Len(file) + 1} : line.kind = "row" /\ line.by = c}
    BY <1>3, <2>2, LineAppended
  <2>4. CASE c # b
    <3>1. RowsOf(c)' = RowsOf(c)
      BY <2>3, <2>4
    <3> QED
      BY <3>1, <2>3, <1>b, <1>c
  <2>5. CASE c = b
    <3>1. n = Bound(c) + 1 /\ n = Bound(c)'
      <4>1. /\ n = (computed[c] - Len(signals[c])) + row[c]
            /\ Written(c) = row[c] - 1 /\ Written(c)' = row[c]
            /\ signals'[c] = signals[c] /\ computed'[c] = computed[c]
        <5>1. n = (computed[c] - Len(signals[c])) + row[c]
          BY <2>2, <2>5 DEF BatchInv
        <5>2. row'[c] = row[c] + 1 /\ pc'[c] = "rows" /\ row[c] \in Nat
          BY <1>3, <2>1, <2>5, SignalsAssumption DEF WriteRow, TypeOK
        <5> QED
          BY <5>1, <5>2, <1>3, <2>1, <2>5 DEF WriteRow, Written
      <4>2. Len(signals[c]) \in Nat
        BY BatchOfSignals
      <4>3. computed[c] \in Nat /\ row[c] \in Nat
        BY SignalsAssumption DEF TypeOK
      <4> QED
        BY <4>1, <4>2, <4>3 DEF Bound
    <3>2. RowsOf(c)' = RowsOf(c) \cup {Len(file) + 1} /\ file'[Len(file) + 1].n = n
      BY <2>3, <2>5
    <3>3. \A k \in RowsOf(c) : /\ file'[k] = file[k] /\ k < Len(file) + 1
                              /\ file'[k].n < n
      <4>1. \A k \in RowsOf(c) : file[k].n <= Bound(c)
        BY DEF FileInv, Bound
      <4> QED
        BY <4>1, <3>1, <1>a, <1>b, <2>3
    <3>4. \A j, k \in RowsOf(c) : j < k => file'[j].n < file'[k].n
      BY <3>3 DEF RowsInOrder
    <3>5. ~(Len(file) + 1 < Len(file) + 1) /\ \A k \in RowsOf(c) : ~(Len(file) + 1 < k)
      BY <2>3, <1>b
    <3>6. \A j, k \in RowsOf(c)' : j < k => file'[j].n < file'[k].n
      BY <3>2, <3>3, <3>4, <3>5
    <3>7. \A k \in RowsOf(c)' : file'[k].n <= Bound(c)'
      BY <3>1, <3>2, <3>3, <1>a, <1>b
    <3> QED
      BY <3>6, <3>7
  <2> QED
    BY <2>4, <2>5
<1> QED
  BY <1>1, <1>2, <1>3, FileCases

-----------------------------------------------------------------------------
(* No signal is forgotten.                                                 *)

\* The file and what is lost only grow.
LEMMA FileGrows ==
  ASSUME TypeOK, BatchInv, [Next]_vars, NEW c \in Bots
  PROVE  InFile(c) \subseteq InFile(c)' /\ lost \subseteq lost'
<1>1. lost \subseteq lost'
  BY StepCases
     DEF vars, observedVars, Return, FlushFails, FlushOpens, WriteHeader, WriteRow, FlushEnds,
         Records, Record, Kill, Die, Restart
<1>2. CASE file' = file
  BY <1>1, <1>2 DEF InFile, RowsOf
<1>3. ASSUME NEW line \in Line, file' = Append(file, line)
      PROVE  InFile(c) \subseteq InFile(c)'
  <2>1. /\ \A k \in 1..Len(file) : file'[k] = file[k]
        /\ DOMAIN file = 1..Len(file) /\ RowsOf(c) \subseteq RowsOf(c)'
    BY <1>3, LineAppended
  <2> QED
    BY <2>1 DEF InFile, RowsOf
<1>4. ASSUME NEW b \in Bots PROVE [kind |-> "header", by |-> b] \in Line
  BY DEF Line
<1>5. ASSUME NEW b \in Bots, WriteRow(b)
      PROVE  [kind |-> "row", by |-> b, n |-> signals[b][row[b]].n] \in Line
  BY <1>5, RowIsLine DEF WriteRow, At
<1> QED
  BY <1>1, <1>2, <1>3, <1>4, <1>5, FileCases

\* Signal n of bot c is kept, or known to be lost.
Accounted(c, n) == n \in InFile(c) \cup InBatch(c) \/ <<c, n>> \in lost

LEMMA AccountedNext ==
  ASSUME TypeOK, BatchInv, PassedInv, [Next]_vars, NEW c \in Bots, NEW n, Accounted(c, n)
  PROVE  Accounted(c, n)'
<1>a. InFile(c) \subseteq InFile(c)' /\ lost \subseteq lost'
  BY FileGrows
<1>b. ASSUME signals'[c] = signals[c] PROVE Accounted(c, n)'
  BY <1>a, <1>b DEF Accounted, InBatch
<1>c. ASSUME \A m \in InBatch(c) : m \in InFile(c) \/ <<c, m>> \in lost'
      PROVE  Accounted(c, n)'
  BY <1>a, <1>c DEF Accounted
<1>1. CASE UNCHANGED vars
  BY <1>1, <1>b DEF vars, autotradeVars
<1>2. ASSUME NEW b \in Bots, Return(b) PROVE Accounted(c, n)'
  <2>1. CASE c = b
    BY <1>2, <2>1, <1>c DEF Return, Unsaved
  <2>2. CASE c # b
    BY <1>2, <2>2, <1>b DEF Return, TypeOK
  <2> QED
    BY <2>1, <2>2
<1>3. ASSUME NEW b \in Bots, FlushFails(b) \/ FlushOpens(b) \/ WriteHeader(b) \/ WriteRow(b)
      PROVE  Accounted(c, n)'
  BY <1>3, <1>b DEF FlushFails, KeepsBatch, FlushOpens, WriteHeader, WriteRow
<1>4. ASSUME NEW b \in Bots, FlushEnds(b) PROVE Accounted(c, n)'
  <2>1. CASE c = b
    <3>1. Len(signals[c]) \in Nat /\ DOMAIN signals[c] = 1..Len(signals[c])
      BY BatchOfSignals
    <3>2. row[c] \in Nat
      BY SignalsAssumption DEF TypeOK
    <3>3. Written(c) = row[c] - 1 /\ row[c] > Len(signals[c])
      BY <1>4, <2>1 DEF FlushEnds, At, Written
    <3>4. \A k \in DOMAIN signals[c] : k \in 1..Written(c)
      BY <3>1, <3>2, <3>3
    <3>5. \A m \in InBatch(c) : m \in InFile(c) \/ <<c, m>> \in lost
      BY <3>4 DEF PassedInv, InBatch
    <3> QED
      BY <3>5, <1>a, <1>c
  <2>2. CASE c # b
    BY <1>4, <2>2, <1>b DEF FlushEnds, Emptied, TypeOK
  <2> QED
    BY <2>1, <2>2
<1>5. ASSUME NEW b \in Bots, NEW dir \in Directions, Records(b, dir)
      PROVE  Accounted(c, n)'
  <2>1. CASE c = b
    <3>1. /\ Len(signals[c]) \in Nat /\ DOMAIN signals[c] = 1..Len(signals[c])
          /\ signals'[c] \in Seq(Signal) /\ Len(signals'[c]) = Len(signals[c]) + 1
          /\ \A k \in 1..Len(signals[c]) : signals'[c][k] = signals[c][k]
      BY <1>5, <2>1, SignalAppended, BatchOfSignals
    <3>2. DOMAIN signals'[c] = 1..(Len(signals[c]) + 1)
      BY <3>1, LenProperties
    <3>3. InBatch(c) \subseteq InBatch(c)'
      BY <3>1, <3>2 DEF InBatch
    <3> QED
      BY <3>3, <1>a DEF Accounted
  <2>2. CASE c # b
    BY <1>5, <2>2, <1>b, SignalAppended
  <2> QED
    BY <2>1, <2>2
<1>6. CASE Kill
  BY <1>6, <1>c, NothingIsLeft DEF Kill
<1>7. CASE Restart
  BY <1>7, <1>b DEF Restart, autotradeVars
<1> QED
  BY <1>1, <1>2, <1>3, <1>4, <1>5, <1>6, <1>7, StepCases

LEMMA SignalsAccountedNext ==
  TypeOK /\ BatchInv /\ PassedInv /\ SignalsAccounted /\ [Next]_vars => SignalsAccounted'
<1> SUFFICES ASSUME TypeOK, BatchInv, PassedInv, SignalsAccounted, [Next]_vars,
                    NEW c \in Bots, NEW n \in 1..computed'[c]
             PROVE  Accounted(c, n)'
  BY DEF SignalsAccounted, Accounted
<1>1. ASSUME n \in 1..computed[c] PROVE Accounted(c, n)'
  <2>1. Accounted(c, n)
    BY <1>1 DEF SignalsAccounted, Accounted
  <2> QED
    BY <2>1, AccountedNext
<1>2. ASSUME NEW dir \in Directions, Records(c, dir) PROVE Accounted(c, n)'
  <2>1. /\ Len(signals[c]) \in Nat /\ computed[c] \in Nat
        /\ signals'[c] \in Seq(Signal) /\ Len(signals'[c]) = Len(signals[c]) + 1
        /\ signals'[c][Len(signals[c]) + 1].n = computed[c] + 1
        /\ computed'[c] = computed[c] + 1
    <3>1. computed[c] \in Nat
      BY SignalsAssumption DEF TypeOK
    <3> QED
      BY <3>1, <1>2, SignalAppended
  <2>2. Len(signals[c]) + 1 \in DOMAIN signals'[c]
    BY <2>1, LenProperties
  <2>3. computed[c] + 1 \in InBatch(c)'
    BY <2>1, <2>2 DEF InBatch
  <2>4. n \in 1..computed[c] \/ n = computed[c] + 1
    BY <2>1
  <2> QED
    BY <1>1, <2>3, <2>4 DEF Accounted
<1>3. computed'[c] = computed[c] \/ \E dir \in Directions : Records(c, dir)
  <2>1. ASSUME NEW b \in Bots, NEW dir \in Directions, Records(b, dir), b # c
        PROVE  computed'[c] = computed[c]
    BY <2>1, SignalAppended
  <2> QED
    BY <2>1, StepCases
       DEF vars, autotradeVars, Return, FlushFails, FlushOpens, WriteHeader, WriteRow,
           FlushEnds, Kill, Restart
<1> QED
  BY <1>1, <1>2, <1>3

LEMMA PassedNext == TypeOK /\ BatchInv /\ PassedInv /\ [Next]_vars => PassedInv'
<1> SUFFICES ASSUME TypeOK, BatchInv, PassedInv, [Next]_vars, NEW c \in Bots,
                    NEW k \in 1..Written(c)'
             PROVE  signals'[c][k].n \in InFile(c)' \/ <<c, signals'[c][k].n>> \in lost'
  BY DEF PassedInv
<1> DEFINE Good == signals'[c][k].n \in InFile(c)' \/ <<c, signals'[c][k].n>> \in lost'
<1>a. InFile(c) \subseteq InFile(c)' /\ lost \subseteq lost'
  BY FileGrows
<1>b. ASSUME signals'[c] = signals[c], k \in 1..Written(c) PROVE Good
  BY <1>a, <1>b DEF PassedInv
<1>c. Written(c)' # 0
  OBVIOUS
<1>d. pc'[c] = "rows"
  BY <1>c DEF Written
<1>e. ASSUME signals'[c] = signals[c], pc'[c] = pc[c], row'[c] = row[c] PROVE Good
  BY <1>b, <1>e DEF Written
<1>1. CASE UNCHANGED vars
  BY <1>1, <1>e DEF vars, autotradeVars
<1>2. ASSUME NEW b \in Bots, Return(b) PROVE Good
  BY <1>2, <1>d, <1>e DEF Return, GoTo, TypeOK
<1>3. ASSUME NEW b \in Bots, FlushFails(b) PROVE Good
  BY <1>3, <1>d, <1>e DEF FlushFails, KeepsBatch, GoTo, TypeOK
<1>4. ASSUME NEW b \in Bots, FlushOpens(b) PROVE Good
  <2>1. c # b
    BY <1>4, <1>c, <1>d DEF FlushOpens, Written, TypeOK
  <2> QED
    BY <1>4, <2>1, <1>e DEF FlushOpens, GoTo, TypeOK
<1>5. ASSUME NEW b \in Bots, WriteHeader(b) PROVE Good
  <2>1. c # b
    BY <1>5, <1>c, <1>d DEF WriteHeader, At, Written, BatchInv
  <2> QED
    BY <1>5, <2>1, <1>e DEF WriteHeader, GoTo, TypeOK
<1>6. ASSUME NEW b \in Bots, WriteRow(b) PROVE Good
  <2>1. CASE c # b
    BY <1>6, <2>1, <1>e DEF WriteRow, TypeOK
  <2>2. CASE c = b
    <3>1. /\ pc[c] = "rows" /\ row[c] <= Len(signals[c]) /\ signals'[c] = signals[c]
          /\ row'[c] = row[c] + 1 /\ row[c] \in Nat
      BY <1>6, <2>2, SignalsAssumption DEF WriteRow, At, TypeOK
    <3>2. Written(c) = row[c] - 1 /\ Written(c)' = row[c]
      BY <3>1, <1>d DEF Written
    <3>3. k \in 1..Written(c) \/ k = row[c]
      BY <3>1, <3>2
    <3>4. signals[c][row[c]].n \in InFile(c)' \/ <<c, signals[c][row[c]].n>> \in lost'
      <4> DEFINE line == [kind |-> "row", by |-> c, n |-> signals[c][row[c]].n]
      <4>1. CASE file' = Append(file, line)
        <5>1. line \in Line /\ line.kind = "row" /\ line.by = c /\ line.n = signals[c][row[c]].n
          BY <3>1, RowIsLine
        <5>2. Len(file) + 1 \in RowsOf(c)' /\ file'[Len(file) + 1] = line
          <6> HIDE DEF line
          <6> QED
            BY <4>1, <5>1, LineAppended
        <5> QED
          BY <5>1, <5>2 DEF InFile
      <4>2. CASE lost' = lost \cup {<<c, signals[c][row[c]].n>>}
        BY <4>2
      <4> QED
        BY <1>6, <2>2, <4>1, <4>2 DEF WriteRow
    <3> QED
      BY <3>1, <3>3, <3>4, <1>b
  <2> QED
    BY <2>1, <2>2
<1>7. ASSUME NEW b \in Bots, FlushEnds(b) PROVE Good
  BY <1>7, <1>d, <1>e DEF FlushEnds, Emptied, GoTo, TypeOK
<1>8. ASSUME NEW b \in Bots, NEW dir \in Directions, Records(b, dir) PROVE Good
  BY <1>8, <1>d, <1>e, SignalAppended DEF Records, Record
<1>9. CASE Kill
  BY <1>9, <1>d, NothingIsLeft DEF Kill
<1>10. CASE Restart
  BY <1>10, <1>e DEF Restart, autotradeVars
<1> QED
  BY <1>1, <1>2, <1>3, <1>4, <1>5, <1>6, <1>7, <1>8, <1>9, <1>10, StepCases

-----------------------------------------------------------------------------
(* The size of a batch, and the header.                                    *)

LEMMA FailuresCount ==
  ASSUME [Next]_vars
  PROVE  failures' = failures \/ failures' = failures + 1
BY StepCases
   DEF vars, Return, FlushFails, FlushOpens, WriteHeader, WriteRow, FlushEnds, Fails,
       Records, Kill, Restart

LEMMA SizeNext ==
  TypeOK /\ SizeInv /\ BatchBounded /\ [Next]_vars => SizeInv' /\ BatchBounded'
<1> SUFFICES ASSUME TypeOK, SizeInv, BatchBounded, [Next]_vars, NEW c \in Bots
             PROVE  /\ Len(signals'[c]) <= BatchSize + failures'
                    /\ pc'[c] = "poll" => Len(signals'[c]) < BatchSize + failures'
  BY DEF SizeInv, BatchBounded
<1> DEFINE Good == /\ Len(signals'[c]) <= BatchSize + failures'
                   /\ pc'[c] = "poll" => Len(signals'[c]) < BatchSize + failures'
<1>a. /\ Len(signals[c]) \in Nat /\ failures \in Nat /\ BatchSize \in Nat \ {0}
      /\ Len(signals[c]) <= BatchSize + failures
      /\ pc[c] = "poll" => Len(signals[c]) < BatchSize + failures
  BY BatchOfSignals, SignalsAssumption DEF TypeOK, SizeInv, BatchBounded
<1>b. failures' = failures \/ failures' = failures + 1
  BY FailuresCount
<1>c. ASSUME signals'[c] = signals[c], pc'[c] = "poll" => pc[c] = "poll" PROVE Good
  BY <1>a, <1>b, <1>c
<1>d. ASSUME Len(signals'[c]) = 0 PROVE Good
  BY <1>a, <1>b, <1>d
<1>1. CASE UNCHANGED vars
  BY <1>1, <1>c DEF vars, autotradeVars
<1>2. ASSUME NEW b \in Bots, Return(b) PROVE Good
  <2>1. CASE c = b
    <3>1. signals'[c] = <<>>
      BY <1>2, <2>1 DEF Return, TypeOK
    <3> QED
      BY <3>1, <1>d
  <2>2. CASE c # b
    BY <1>2, <2>2, <1>c DEF Return, GoTo, TypeOK
  <2> QED
    BY <2>1, <2>2
<1>3. ASSUME NEW b \in Bots, FlushFails(b) PROVE Good
  <2>1. signals'[c] = signals[c] /\ failures' = failures + 1
    BY <1>3 DEF FlushFails, KeepsBatch, Fails
  <2> QED
    BY <2>1, <1>a
<1>4. ASSUME NEW b \in Bots, FlushOpens(b) PROVE Good
  BY <1>4, <1>c DEF FlushOpens, GoTo, TypeOK
<1>5. ASSUME NEW b \in Bots, WriteHeader(b) \/ WriteRow(b) PROVE Good
  BY <1>5, <1>c DEF WriteHeader, WriteRow, GoTo, TypeOK
<1>6. ASSUME NEW b \in Bots, FlushEnds(b) PROVE Good
  <2>1. CASE c = b
    <3>1. signals'[c] = <<>>
      BY <1>6, <2>1 DEF FlushEnds, Emptied, TypeOK
    <3> QED
      BY <3>1, <1>d
  <2>2. CASE c # b
    BY <1>6, <2>2, <1>c DEF FlushEnds, Emptied, GoTo, TypeOK
  <2> QED
    BY <2>1, <2>2
<1>7. ASSUME NEW b \in Bots, NEW dir \in Directions, Records(b, dir) PROVE Good
  <2>1. CASE c = b
    <3>1. /\ Len(signals'[c]) = Len(signals[c]) + 1 /\ failures' = failures
          /\ pc[c] = "poll"
      BY <1>7, <2>1, SignalAppended DEF Records, At
    <3>2. CASE Full(Len(signals'[c]))
      <4>1. pc'[c] = "flush"
        BY <1>7, <2>1, <3>2, SignalAppended
      <4> QED
        BY <3>1, <4>1, <1>a
    <3>3. CASE ~Full(Len(signals'[c]))
      BY <3>1, <3>3, <1>a DEF Full
    <3> QED
      BY <3>2, <3>3
  <2>2. CASE c # b
    BY <1>7, <2>2, <1>c, SignalAppended
  <2> QED
    BY <2>1, <2>2
<1>8. CASE Kill
  BY <1>8, <1>d, NothingIsLeft DEF Kill
<1>9. CASE Restart
  BY <1>9, <1>c DEF Restart, autotradeVars
<1> QED
  BY <1>1, <1>2, <1>3, <1>4, <1>5, <1>6, <1>7, <1>8, <1>9, StepCases

LEMMA HeaderNext ==
  TypeOK /\ BatchInv /\ HeaderInv /\ HeaderOnTop /\ [Next]_vars => HeaderInv' /\ HeaderOnTop'
<1> SUFFICES ASSUME TypeOK, BatchInv, HeaderInv, HeaderOnTop, [Next]_vars
             PROVE  HeaderInv' /\ HeaderOnTop'
  OBVIOUS
<1>a. failures \in Nat
  BY SignalsAssumption DEF TypeOK
<1>b. failures' = 0 => failures = 0
  BY <1>a, FailuresCount
<1>c. ASSUME file' = file,
             \A c \in Bots : pc'[c] \in {"header", "rows"} => pc'[c] = pc[c]
      PROVE  HeaderInv' /\ HeaderOnTop'
  <2>1. \A c \in Bots : HeadersOf(c)' = HeadersOf(c)
    BY <1>c DEF HeadersOf
  <2> QED
    BY <2>1, <1>b, <1>c DEF HeaderInv, HeaderOnTop
<1>1. CASE UNCHANGED vars
  BY <1>1, <1>c DEF vars, autotradeVars
<1>2. ASSUME NEW b \in Bots, Return(b) \/ FlushFails(b) \/ FlushEnds(b)
      PROVE  HeaderInv' /\ HeaderOnTop'
  BY <1>2, <1>c DEF Return, FlushFails, FlushEnds, GoTo, TypeOK
<1>3. ASSUME NEW b \in Bots, FlushOpens(b) PROVE HeaderInv' /\ HeaderOnTop'
  <2>1. \A c \in Bots : HeadersOf(c)' = HeadersOf(c)
    BY <1>3 DEF FlushOpens, HeadersOf
  <2>2. file = <<>> => HeadersOf(b) = {}
    BY DEF HeadersOf
  <2>3. /\ file' = file /\ failures' = failures
        /\ \A c \in Bots \ {b} : pc'[c] = pc[c]
        /\ pc'[b] = IF file = <<>> THEN "header" ELSE "rows"
    BY <1>3 DEF FlushOpens, NeedsHeader, GoTo, TypeOK
  <2> QED
    BY <2>1, <2>2, <2>3 DEF HeaderInv, HeaderOnTop
<1>4. ASSUME NEW b \in Bots, WriteHeader(b) PROVE HeaderInv' /\ HeaderOnTop'
  <2>1. pc[b] = "header" /\ \A c \in Bots : pc'[c] = IF c = b THEN "rows" ELSE pc[c]
    BY <1>4 DEF WriteHeader, At, GoTo, TypeOK
  <2>2. HeadersOf(b) = {}
    BY <2>1 DEF HeaderInv
  <2> DEFINE line == [kind |-> "header", by |-> b]
  <2>3. line \in Line /\ line.kind = "header" /\ line.by = b
    BY DEF Line
  <2>4. CASE file' = Append(file, line)
    <3>1. /\ file' # <<>> /\ Len(file) \in Nat /\ DOMAIN file = 1..Len(file)
          /\ \A k \in 1..Len(file) : file'[k] = file[k]
          /\ file'[Len(file) + 1] = line
      <4> HIDE DEF line
      <4> QED
        BY <2>3, <2>4, LineAppended
    <3>2. \A c \in Bots : HeadersOf(c)' =
             HeadersOf(c) \cup {k \in {Len(file) + 1} : line.kind = "header" /\ line.by = c}
      <4> HIDE DEF line
      <4> QED
        BY <2>3, <2>4, LineAppended
    <3>3. HeadersOf(b)' = {Len(file) + 1}
          /\ \A c \in Bots \ {b} : HeadersOf(c)' = HeadersOf(c)
      BY <3>2, <2>2, <2>3
    <3>4. \A c \in Bots : \A j, k \in HeadersOf(c)' : j = k
      BY <3>3 DEF HeaderOnTop
    <3>5. failures' = 0 => file'[1].kind = "header"
      <4>1. CASE file = <<>>
        <5>1. file'[1] = line
          BY <3>1, <4>1
        <5> QED
          BY <5>1
      <4>2. CASE file # <<>>
        <5>1. 1 \in 1..Len(file)
          <6>1. file \in Seq(Line)
            BY DEF TypeOK
          <6> QED
            BY <6>1, <4>2, EmptySeq
        <5> QED
          BY <5>1, <3>1, <4>2, <1>b DEF HeaderOnTop
      <4> QED
        BY <4>1, <4>2
    <3>6. HeaderInv'
      BY <2>1, <3>1, <3>3 DEF HeaderInv
    <3> QED
      BY <3>4, <3>5, <3>6 DEF HeaderOnTop
  <2>5. CASE Fails /\ file' = file
    <3>1. failures' # 0
      BY <2>5, <1>a DEF Fails
    <3>2. \A c \in Bots : HeadersOf(c)' = HeadersOf(c)
      BY <2>5 DEF HeadersOf
    <3> QED
      BY <2>1, <3>1, <3>2 DEF HeaderInv, HeaderOnTop
  <2> QED
    BY <1>4, <2>4, <2>5 DEF WriteHeader
<1>5. ASSUME NEW b \in Bots, WriteRow(b) PROVE HeaderInv' /\ HeaderOnTop'
  <2>1. pc[b] = "rows" /\ pc' = pc
    BY <1>5 DEF WriteRow, At
  <2> DEFINE line == [kind |-> "row", by |-> b, n |-> signals[b][row[b]].n]
  <2>2. line \in Line /\ line.kind # "header"
    BY <1>5, RowIsLine DEF WriteRow, At
  <2>3. CASE file' = file
    BY <2>1, <2>3, <1>c
  <2>4. CASE file' = Append(file, line)
    <3>1. /\ file' # <<>> /\ \A k \in 1..Len(file) : file'[k] = file[k]
          /\ \A c \in Bots : HeadersOf(c)' =
               HeadersOf(c) \cup {k \in {Len(file) + 1} : line.kind = "header" /\ line.by = c}
      <4> HIDE DEF line
      <4> QED
        BY <2>2, <2>4, LineAppended
    <3>2. \A c \in Bots : HeadersOf(c)' = HeadersOf(c)
      BY <3>1, <2>2
    <3>3. failures' = 0 => file # <<>>
      BY <1>b, <2>1 DEF HeaderInv
    <3>4. file # <<>> => 1 \in 1..Len(file)
      <4>1. file \in Seq(Line)
        BY DEF TypeOK
      <4> QED
        BY <4>1, EmptySeq
    <3>5. failures' = 0 => file'[1].kind = "header"
      BY <3>1, <3>3, <3>4, <1>b DEF HeaderOnTop
    <3> QED
      BY <3>1, <3>2, <3>5, <2>1 DEF HeaderInv, HeaderOnTop
  <2> QED
    BY <1>5, <2>3, <2>4 DEF WriteRow
<1>6. ASSUME NEW b \in Bots, NEW dir \in Directions, Records(b, dir)
      PROVE  HeaderInv' /\ HeaderOnTop'
  <2>1. \A c \in Bots : pc'[c] \in {"header", "rows"} => pc'[c] = pc[c]
    BY <1>6, SignalAppended
  <2> QED
    BY <1>6, <2>1, <1>c DEF Records
<1>7. CASE Kill
  BY <1>7, <1>c, NothingIsLeft DEF Kill
<1>8. CASE Restart
  BY <1>8, <1>c DEF Restart, autotradeVars
<1> QED
  BY <1>1, <1>2, <1>3, <1>4, <1>5, <1>6, <1>7, <1>8, StepCases

-----------------------------------------------------------------------------
(* The theorems.                                                           *)

SignalsInv ==
  /\ TypeOK /\ BatchInv
  /\ FileInv /\ RowsInOrder
  /\ PassedInv /\ SignalsAccounted
  /\ SizeInv /\ BatchBounded
  /\ HeaderInv /\ HeaderOnTop

LEMMA SignalsInit == Init => SignalsInv
<1> SUFFICES ASSUME Init PROVE SignalsInv
  OBVIOUS
<1>1. TypeOK /\ BatchInv
  BY TypeInit
<1>2. \A b \in Bots : /\ computed[b] = 0 /\ Len(signals[b]) = 0 /\ pc[b] = "poll"
                      /\ Written(b) = 0
  BY DEF Init, Written
<1>3. \A b \in Bots : RowsOf(b) = {} /\ HeadersOf(b) = {}
  <2>1. DOMAIN file = {}
    BY DEF Init
  <2> QED
    BY <2>1 DEF RowsOf, HeadersOf
<1>4. FileInv /\ RowsInOrder
  BY <1>3 DEF FileInv, RowsInOrder
<1>5. PassedInv /\ SignalsAccounted
  BY <1>2 DEF PassedInv, SignalsAccounted
<1>6. SizeInv /\ BatchBounded
  <2>1. failures = 0
    BY DEF Init
  <2> QED
    BY <1>2, <2>1, SignalsAssumption DEF SizeInv, BatchBounded
<1>7. HeaderInv /\ HeaderOnTop
  <2>1. file = <<>>
    BY DEF Init
  <2> QED
    BY <1>2, <1>3, <2>1 DEF HeaderInv, HeaderOnTop
<1> QED
  BY <1>1, <1>4, <1>5, <1>6, <1>7 DEF SignalsInv

\* Everything the run checks of Signals' states, in one inductive invariant.
THEOREM SignalsInvariant == Spec => []SignalsInv
<1>1. SignalsInv /\ [Next]_vars => SignalsInv'
  BY TypeNext, BatchNext, FileNext, PassedNext, SignalsAccountedNext, SizeNext, HeaderNext
     DEF SignalsInv
<1> QED
  BY <1>1, SignalsInit, PTL DEF Spec

\* Every reachable state is well typed: what is written is of a signal.
THEOREM SignalsTypeCorrect == Spec => []TypeOK
<1>1. SignalsInv => TypeOK
  BY DEF SignalsInv
<1> QED
  BY <1>1, SignalsInvariant, PTL

\* Rows of one bot are in order and none is there twice, whatever happens to the
\* process and to the other bots.
THEOREM RowsInOrderHolds == Spec => []RowsInOrder
<1>1. SignalsInv => RowsInOrder
  BY DEF SignalsInv
<1> QED
  BY <1>1, SignalsInvariant, PTL

\* No path through Flush forgets a signal.
THEOREM SignalsAccountedHolds == Spec => []SignalsAccounted
<1>1. SignalsInv => SignalsAccounted
  BY DEF SignalsInv
<1> QED
  BY <1>1, SignalsInvariant, PTL

\* A batch grows past its size by one signal for every operation on the file that
\* failed, and no more.
THEOREM BatchBoundedHolds == Spec => []BatchBounded
<1>1. SignalsInv => BatchBounded
  BY DEF SignalsInv
<1> QED
  BY <1>1, SignalsInvariant, PTL

\* The file begins with a header, and no bot writes a second one.
THEOREM HeaderOnTopHolds == Spec => []HeaderOnTop
<1>1. SignalsInv => HeaderOnTop
  BY DEF SignalsInv
<1> QED
  BY <1>1, SignalsInvariant, PTL
=============================================================================
