-------------------------------- MODULE Pages ---------------------------------
(***************************************************************************)
(* The smaller pages and endpoints: each reads the same tables with a      *)
(* query of its own.                                                       *)
(***************************************************************************)
EXTENDS StatsView, TokenView

CONSTANT
  BuyFee, SellFee  \* venue -> fee, in tenths of a percent

----------------------------------------------------------------------------
(* Arbitrage.                                                              *)

PlainAsks(c) == {rows[c].offers[i].ask : i \in {j \in DOMAIN rows[c].offers : rows[c].offers[j].plain}}

(* The cheapest plain offer is what the token costs on Tapswap.            *)
VenuePrices(c) ==
  [v \in {w \in Venues : CASE w = "tapswap" -> PlainAsks(c) # {}
                           [] w = "fex" -> Priced(rows[c].fex) /\ rows[c].fex.price > 0
                           [] OTHER -> Priced(rows[c].cauldron) /\ rows[c].cauldron.price > 0} |->
     CASE v = "tapswap" -> Lowest(PlainAsks(c))
       [] v = "fex" -> rows[c].fex.price
       [] OTHER -> rows[c].cauldron.price]

Traded == {c \in Visible : Cardinality(DOMAIN VenuePrices(c)) >= 2}

(* Buy where it is cheapest, sell where it is dearest, pay both fees.      *)
Spread(c) ==
  LET prices == VenuePrices(c)
      cheapest == CHOOSE v \in DOMAIN prices : \A w \in DOMAIN prices : prices[v] <= prices[w]
      dearest == CHOOSE v \in DOMAIN prices \ {cheapest} :
                   \A w \in DOMAIN prices \ {cheapest} : prices[v] >= prices[w]
      raw == ((prices[dearest] - prices[cheapest]) * 1000) \div prices[cheapest]
  IN [buy |-> cheapest, sell |-> dearest, raw |-> raw, fee |-> BuyFee[cheapest] + SellFee[dearest],
      net |-> raw - BuyFee[cheapest] - SellFee[dearest]]

(* No minimum in the URL reads as zero, not as the default of one percent. *)
MinSpread(min) == IF min = Null THEN 0 ELSE Larger(min, 0)

LoadArbitrage(min) ==
  LET shown == {c \in Traded : Spread(c).raw >= MinSpread(min)}
  IN [rows |-> Top([c \in shown |-> <<-Spread(c).raw, c>>], Cardinality(shown)),
      total |-> Cardinality(Traded), showAll |-> MinSpread(min) = 0]

----------------------------------------------------------------------------
(* Search, and the endpoints about one token.                              *)

SearchTokens(q) ==
  LET found == CASE q = "id" -> Visible \cap {SearchedId}
                 [] q \in {"word", "hex"} -> {c \in Visible : rows[c].words \cap {"name", "symbol"} # {}}
                 [] OTHER -> {}
  IN Top([c \in found |-> <<NullsLastDesc(rows[c].state.holders),
                                NullsLastAsc(rows[c].name.key), c>>], TopSize)

Gone == [status |-> 410]

GetHolders(c, limit, offset) ==
  IF c \notin Visible THEN Gone
  ELSE LET o == rows[c].owners
       IN [status |-> 200, total |-> Len(o),
           holders |-> SubSeq(o, offset + 1, IF offset + limit < Len(o) THEN offset + limit ELSE Len(o))]

GetNfts(c, capability) ==
  IF c \notin Visible THEN Gone
  ELSE [status |-> 200, total |-> IF capability = "all" THEN rows[c].state.nfts
                                  ELSE Larger(rows[c].state.nfts - 1, 0)]

(* Both ends of the period are included.                                   *)
GetHistory(c, from, to) ==
  IF c \notin Visible THEN Gone
  ELSE [status |-> 200, points |-> SelectSeq(rows[c].prices, LAMBDA p :
          /\ from = Null \/ now - (p.age + now) >= from
          /\ to = Null \/ now - (p.age + now) <= to)]

(* The newest version that was verified, as of a block if one is given:    *)
(* one that is in no block yet is not as of any.                           *)
GetBcmrVersion(c, asOfBlock) ==
  IF c \notin Visible THEN Gone
  ELSE LET v == rows[c].versions
           fits == {i \in DOMAIN v : v[i].verified /\ (asOfBlock # Null => v[i].block \in 0..asOfBlock)}
       IN [status |-> 200, version |-> IF fits = {} THEN Null ELSE v[Lowest(fits)].name]

----------------------------------------------------------------------------
(* The watchlist, what was moderated, and the covenant tokens.             *)

WatchlistRow(c) ==
  [id |-> c, tokenType |-> rows[c].type, decimals |-> rows[c].decimals,
   icon |-> IconClearedHash(rows[c].icon), price |-> rows[c].cauldron.price,
   tvl |-> rows[c].cauldron.tvl, offers |-> Len(rows[c].offers),
   fexPrice |-> rows[c].fex.price, fexTvl |-> rows[c].fex.tvl]

LoadWatchlist(u) == {WatchlistRow(c) : c \in watch[u] \cap Visible}

LoadModerated == {c \in Tracked : hidden[c] # Never}

(* These show hidden tokens as well.                                       *)
SymbolsOf(S) == {rows[c].crc20.symbol : c \in S}
FetchCrc20Symbols ==
  {[symbol |-> s, contenders |-> Cardinality(Contenders(s)),
    canonical |-> {c \in Contenders(s) : rows[c].crc20.canonical}] : s \in SymbolsOf(Covenants)}

LoadCrc20 ==
  [symbols |-> FetchCrc20Symbols, totalCategories |-> Cardinality(Covenants),
   canonicalWinners |-> Count(Covenants, LAMBDA c : rows[c].crc20.canonical),
   distinctSymbols |-> Cardinality(SymbolsOf(Covenants)),
   contestedSymbols |-> Count(Covenants, LAMBDA c : Cardinality(Contenders(rows[c].crc20.symbol)) > 1)]
===============================================================================
