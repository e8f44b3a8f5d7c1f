---------------------------- MODULE MCDueDispatch ----------------------------
(* Small instances of DueDispatch for TLC. *)
EXTENDS DueDispatch, TLC

CONSTANTS daily, weekly, pulse, floor, catch

\* The runs are four to five units long: a boundary of the day falls after the
\* first, so that a wake may straddle it, and one of the week after the third.
MCPeriod(m, t) ==
  IF m = daily THEN (t + 2) \div 4 ELSE IF m = weekly THEN t \div 4 ELSE 0

\* The two LaunchAgents run the same script.
SymAgents == Permutations(Agents)
=============================================================================
