------------------------------ MODULE FlowPolicy -------------------------------
(***************************************************************************)
(* lanes/flow_policy.hpp: the trailing window of signed trade quantities,  *)
(* the warning drawn from it, and the quantile that calibrates the         *)
(* warning.  A window is the sequence of the quantities in it.             *)
(***************************************************************************)
EXTENDS Integers, Sequences, SequencesExt

Magnitude(x) == IF x < 0 THEN -x ELSE x
Sign(x) == IF x > 0 THEN 1 ELSE IF x < 0 THEN -1 ELSE 0

\* observe()
Observe(flow, signed, window) ==
  LET f == Append(flow, signed) IN IF Len(f) > window THEN Tail(f) ELSE f

Warm(flow, window) == Len(flow) >= window

NetFlow(flow) == FoldLeft(LAMBDA a, b : a + b, 0, flow)

\* decide()
Decide(flow, warnAbove) ==
  LET net == NetFlow(flow) IN
  [riskOff |-> Magnitude(net) > warnAbove, direction |-> Sign(net), net |-> net]

\* A quantile, in percent, of the samples: the element at the index that many
\* percent into them once sorted, but never past the last.
QuantileIndex(n, percent) ==
  LET i == (n * percent) \div 100 IN IF i > n - 1 THEN n - 1 ELSE i
Quantile(samples, percent) ==
  SortSeq(samples, LAMBDA a, b : a < b)[QuantileIndex(Len(samples), percent) + 1]
===============================================================================
