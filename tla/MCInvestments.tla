---------------------------- MODULE MCInvestments ----------------------------
(* A small instance of Investments: one instrument traded in dollars, spelt *)
(* in two ways, and an imported euro trade, deposit and sale.               *)
EXTENDS Investments, TLC

CONSTANTS r1, r2, s1, s2, b1, t1

Trade(type, date, currency, quantity, amount) ==
    [id |-> 0, batch |-> None, type |-> type, date |-> date, ticker |-> "A", isin |-> "I",
     currency |-> currency, original |-> None, quantity |-> quantity, price |-> 2,
     amount |-> amount, costs |-> 1, fx |-> 0, fxSource |-> None, fxDay |-> 0,
     tx |-> None, matched |-> None, status |-> None, hash |-> None]

MCCreateForms ==
    { Trade("market_buy", 2, "USD", 3, 6),
      [Trade("market_sell", 2, "usd", 1, 3) EXCEPT !.fx = 2, !.tx = t1],
      Trade("market_sell", 1, "USD", 2, 5),
      [Trade("market_sell", 3, "USD", 2, 3) EXCEPT !.tx = t1, !.matched = t1] }

MCImportForms ==
    { [Trade("market_buy", 1, "EUR", 1, 4) EXCEPT !.hash = "h1", !.ticker = "B"],
      [Trade("deposit", 1, "USD", 0, 9) EXCEPT
         !.hash = "h2", !.fxSource = "pending", !.status = "unmatched"],
      [Trade("market_buy", 2, "USD", 3, 4) EXCEPT !.hash = "h3", !.fxSource = "pending"],
      [Trade("market_sell", 3, "USD", 3, 4) EXCEPT !.hash = "h4", !.fxSource = "pending"] }

MCUpperOf == [usd |-> "USD"]
MCMonthOf(d) == (d + 1) \div 2
MCQuotes == [USD |-> (0 :> 3 @@ 2 :> 5)]
MCTxDate == (t1 :> 2)

Close(id, ticker, isin, date, price, currency) ==
    [id |-> id, ticker |-> ticker, isin |-> isin, date |-> date, price |-> price,
     currency |-> currency]

MCPriceTables ==
    { [history |-> {}, latest |-> {}],
      [history |-> {Close(1, "A", "I", 1, 3, "USD"), Close(2, "A", "I", 3, 2, "USD")},
       latest  |-> {Close(1, "A", "I", 7, 2, "USD")}],
      [history |-> {Close(1, "A", None, 2, 3, "EUR"), Close(2, "B", "I", 2, 4, "EUR")},
       latest  |-> {Close(1, "B", "I", 7, 4, "EUR")}] }

Symmetry == Permutations(Requests) \cup Permutations(Resolvers)
=============================================================================
