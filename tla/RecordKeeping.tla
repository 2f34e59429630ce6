--------------------------- MODULE RecordKeeping ---------------------------
(***************************************************************************)
(* What a backtest run promises about its record, whatever happens to the  *)
(* process that executes it.  The run covers NumBars bars; the rows it     *)
(* stores for a bar (trades, signals, fills, snapshots) are one entry of   *)
(* the record.  The record is at all times an initial segment of the bars, *)
(* each recorded once; it may be cut back when the run is resumed; and a   *)
(* run is complete only when every bar is recorded.                        *)
(*                                                                         *)
(* BacktestRun implements this specification: its property Implements.     *)
(***************************************************************************)
EXTENDS Naturals

CONSTANT NumBars  \* bars of the data set, at least one

VARIABLES
  ledger,  \* the number of times each bar is recorded
  intact,  \* no bar's results were ever given up
  complete \* the run is COMPLETED

Bars == 0 .. NumBars - 1

\* The record of the first n bars.
Segment(n) == [b \in Bars |-> IF b < n THEN 1 ELSE 0]

Init ==
  /\ ledger = Segment(0)
  /\ intact = TRUE
  /\ complete = FALSE

\* Results of further bars are stored, or results are discarded.
Extend == \E m, n \in 0 .. NumBars : m < n /\ ledger = Segment(m) /\ ledger' = Segment(n)

CutBack == \E m, n \in 0 .. NumBars : n < m /\ ledger = Segment(m) /\ ledger' = Segment(n)

Work ==
  /\ intact /\ ~complete
  /\ Extend \/ CutBack
  /\ UNCHANGED <<intact, complete>>

\* The last results and the status are stored together.
Complete ==
  /\ intact /\ ~complete
  /\ ledger' = Segment(NumBars)
  /\ complete' = TRUE
  /\ UNCHANGED intact

\* A run that was complete is executed again.
Reopen ==
  /\ intact /\ complete
  /\ complete' = FALSE
  /\ UNCHANGED <<ledger, intact>>

\* Results of processed bars are given up: nothing is promised from here on.
GiveUp == intact' = FALSE

Next == Work \/ Complete \/ Reopen \/ GiveUp

Spec == Init /\ [][Next]_<<ledger, intact, complete>>
=============================================================================
