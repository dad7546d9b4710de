--------------------------------- MODULE Metrics --------------------------------
(* The counters of internal/metrics/metrics.go: a total and a temporary     *)
(* counter per kind, the temporary one swapped for 0 every second to give   *)
(* the rate.  Every step is one atomic instruction; reads and writes are    *)
(* counted alike, so one kind is modelled.                                  *)
EXTENDS Integers, FiniteSets

CONSTANTS
  Requests,  \* requests that count themselves once
  MaxTicks   \* bound: ticks of the rate calculator

MetricsAssumption == MaxTicks \in Nat

VARIABLES
  reads, tempReads, readRate,
  at,      \* where each request is in IncReads
  ticker,  \* what startRateCalculator has in hand: a number, or -1 between ticks
  ticks,   \* bound
  rates    \* the sum of the rates published (history)

vars == <<reads, tempReads, readRate, at, ticker, ticks, rates>>

Init ==
  /\ reads = 0 /\ tempReads = 0 /\ readRate = 0
  /\ at = [r \in Requests |-> "new"]
  /\ ticker = -1 /\ ticks = 0 /\ rates = 0

IncTotal(r) ==
  /\ at[r] = "new"
  /\ reads' = reads + 1
  /\ at' = [at EXCEPT ![r] = "counted"]
  /\ UNCHANGED <<tempReads, readRate, ticker, ticks, rates>>

IncTemp(r) ==
  /\ at[r] = "counted"
  /\ tempReads' = tempReads + 1
  /\ at' = [at EXCEPT ![r] = "done"]
  /\ UNCHANGED <<reads, readRate, ticker, ticks, rates>>

\* Mutant of Swap: the counter is read here and reset with the store.
SwapLoadOnly ==
  /\ ticker = -1 /\ ticks < MaxTicks
  /\ ticker' = tempReads
  /\ UNCHANGED <<reads, tempReads, readRate, at, ticks, rates>>

Swap ==
  /\ ticker = -1 /\ ticks < MaxTicks
  /\ ticker' = tempReads
  /\ tempReads' = 0
  /\ UNCHANGED <<reads, readRate, at, ticks, rates>>

StoreRate ==
  /\ ticker >= 0
  /\ readRate' = ticker
  /\ rates' = rates + ticker
  /\ ticker' = -1 /\ ticks' = ticks + 1
  /\ UNCHANGED <<reads, tempReads, at>>

Next == Swap \/ StoreRate \/ \E r \in Requests : IncTotal(r) \/ IncTemp(r)

Spec == Init /\ [][Next]_vars

--------------------------------------------------------------------------------

\* Every read counted in the total is counted in exactly one published rate, or waits
\* for the next one, or its request is between the two counters: none is lost or
\* counted twice when the calculator swaps between them.
RatesAddUp ==
  reads = rates + tempReads + (IF ticker >= 0 THEN ticker ELSE 0)
            + Cardinality({r \in Requests : at[r] = "counted"})
================================================================================
