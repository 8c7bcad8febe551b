---------------------------- MODULE MCEntryPage ----------------------------
(* Two validators, a key of one and an address of both; two currencies, three *)
(* ranges of dates, one of them in the future.                              *)
EXTENDS EntryPage

CONSTANTS key, address, blank, usd, eur
MCIndexes == 1 .. 2
MCSelections == SUBSET MCIndexes
MCCurrencies == {usd, eur}
MCRanges == {1 .. 2, {2}, {3}}
MCPriced == 1 .. 2
MCKeys == {key, address}
MCOwned == [k \in MCKeys |-> IF k = key THEN {1} ELSE {1, 2}]
MCInputs == {<<key>>, <<key, address>>}
MCStatuses == {404}
=============================================================================
