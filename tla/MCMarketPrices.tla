---------------------------- MODULE MCMarketPrices ----------------------------
(* Three fetches of one instrument: with its ticker and ISIN, under another *)
(* ticker of the same ISIN, and without the ISIN.                           *)
EXTENDS MarketPrices, TLC

CONSTANTS f1, f2, f3

MCInstruments == {[ticker |-> "A", isin |-> "I", currency |-> "USD"],
                  [ticker |-> "B", isin |-> "I", currency |-> "EUR"],
                  [ticker |-> "A", isin |-> None, currency |-> "USD"]}

MCUpperOf == [usd |-> "USD"]
MCMonthOf(d) == (d + 1) \div 2

FetchSymmetry == Permutations(Fetches)
=============================================================================
