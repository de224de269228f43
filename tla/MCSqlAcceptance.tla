-------------------------- MODULE MCSqlAcceptance --------------------------
(* Two tickers with two queries each, two chunks of dump, one row expected. *)
EXTENDS SqlAcceptance

MCCounts == [q \in Query |-> 1]
MCDay    == {0, 1, 2}
=============================================================================
