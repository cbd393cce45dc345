--------------------------- MODULE MCPriceUpdates ---------------------------
(***************************************************************************)
(* Two symbols and two timer callbacks beside the handler.  An entry lives *)
(* for two instants and a request takes up to one, so that an entry can be *)
(* hit after others were asked for and answered.                           *)
(***************************************************************************)
EXTENDS PriceUpdates, TLC

CONSTANTS aapl, msft, j1, j2

MCSymbols == {aapl, msft}
MCJobs == {j1, j2}

Symmetric == Permutations(MCJobs)

=============================================================================
