---------------------------- MODULE MCTickerFeed ----------------------------
(* A small instance of TickerFeed for TLC. *)
EXTENDS TickerFeed

\* The primary lists one of the two symbols, the fallback the other.
OneFallback == <<"kraken">>
SplitListing == {<<"binance", "BTC">>, <<"kraken", "ETH">>}
=============================================================================
