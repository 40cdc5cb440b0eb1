-------------------------- MODULE MCTradingEngine --------------------------
(* Small instances of TradingEngine for TLC. *)
EXTENDS TradingEngine

CONSTANTS cron, tool

\* A size within the limits, one above and one below them.
MCSizes == {2, 20, 60}

\* Governance tightens the limit on positions to 10%.
MCGovernedSizes == {10}

\* The sale of a position loses or earns a little.
MCPnLs == {-3, 4}

\* One account.
MCStakes == {100}

\* One strategy, and governance silent: for the runs with many interleavings.
MCOneSize == {60}
MCNoSizes == {}
=============================================================================
