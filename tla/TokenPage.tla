------------------------------ MODULE TokenPage -------------------------------
(***************************************************************************)
(* The page of one token: what its load answers at once, what it sends     *)
(* when the queries of each tier are back, and the cards made of it.       *)
(***************************************************************************)
EXTENDS Directory, Reports

CONSTANTS
  OwnerSize,     \* holders shown
  OfferSize,     \* offers shown
  MinOwners,     \* fewer holders have no concentration
  RankSize,      \* ranks beyond this one are not shown
  Global         \* the value locked on Cauldron, all pools

----------------------------------------------------------------------------
(* What is answered at once.                                               *)

PageStatus(c) ==
  CASE c \notin Tracked -> 404
    [] c \in Tracked /\ hidden[c] # Never -> 410
    [] OTHER -> 200

(* The registry document stands in for what the columns do not have, and   *)
(* the covenant for what neither has.                                      *)
FirstOf(xs) ==
  IF \A i \in DOMAIN xs : xs[i] = Null THEN Null
  ELSE xs[CHOOSE i \in DOMAIN xs : xs[i] # Null /\ \A j \in 1..(i - 1) : xs[j] = Null]

TokenHeader(c) ==
  LET r == rows[c]
  IN [api |-> ApiRow(c), name |-> FirstOf(<<r.name.key, r.body, r.crc20.symbol>>),
      symbol |-> FirstOf(<<r.symbol, r.body, r.crc20.symbol>>), genesis |-> r.genesis,
      iconStatus |-> ResolveIconStatus(r.icon), gini |-> r.state.gini]

----------------------------------------------------------------------------
(* The queries of the first tier.                                          *)

SumOf(s) == Total(DOMAIN s, LAMBDA i : s[i].balance)
Holders(c) == SubSeq(rows[c].owners, 1, IF Len(rows[c].owners) < OwnerSize THEN Len(rows[c].owners) ELSE OwnerSize)

Offers(c) ==
  LET o == rows[c].offers
  IN [i \in 1..(IF Len(o) < OfferSize THEN Len(o) ELSE OfferSize) |->
        o[CHOOSE j \in DOMAIN o : Cardinality({k \in DOMAIN o : o[k].ask < o[j].ask
                                                  \/ (o[k].ask = o[j].ask /\ k < j)}) = i - 1]]

WatchlistCount(c) == Cardinality({u \in User : c \in watch[u]})

(* Reports that nobody has dealt with.                                     *)
ReportCount(c) == Cardinality({i \in DOMAIN reports : reports[i].category = c
                                                       /\ reports[i].status \in {"new", "reviewed"}})

InWindow(c, span) == {i \in DOMAIN rows[c].prices : rows[c].prices[i].age + now < span}
Lowest(S) == CHOOSE x \in S : \A y \in S : x <= y
Highest(S) == CHOOSE x \in S : \A y \in S : x >= y
PriceExtremes(c) ==
  [w \in DOMAIN Window |->
     LET prices == {rows[c].prices[i].price : i \in InWindow(c, Window[w])} \ {0, Null}
     IN IF prices = {} THEN [min |-> Null, max |-> Null]
        ELSE [min |-> Lowest(prices), max |-> Highest(prices)]]

(* The moves of the pool's value between two points of the window.         *)
Moves(c, span) == {i \in InWindow(c, span) : i - 1 \in InWindow(c, span)
                                              /\ rows[c].prices[i].tvl # Null /\ rows[c].prices[i - 1].tvl # Null}
Volume(c, span) ==
  Total(Moves(c, span), LAMBDA i : Magnitude(rows[c].prices[i].tvl - rows[c].prices[i - 1].tvl))
RecentTrades(c) ==
  [buckets |-> Cardinality({i \in Moves(c, Day) : rows[c].prices[i].tvl # rows[c].prices[i - 1].tvl}),
   volume |-> Volume(c, Day)]

(* Per thousand of the square of the whole.                                *)
Herfindahl(c) ==
  LET all == SumOf(rows[c].owners)
  IN IF Len(rows[c].owners) < MinOwners \/ all = 0 THEN Null
     ELSE (1000 * Total(DOMAIN rows[c].owners, LAMBDA i : rows[c].owners[i].balance ^ 2)) \div (all ^ 2)

Share(part, whole) ==
  IF part \in {Null, 0} \/ whole \in {Null, 0} THEN Null
  ELSE IF part > whole THEN 100 ELSE (part * 100) \div whole

TvlShare(c) ==
  IF rows[c].cauldron.tvl > 0 /\ Global > 0 THEN (rows[c].cauldron.tvl * 100) \div Global ELSE Null
TopHolderShare(c) == IF rows[c].owners = <<>> THEN Null ELSE Share(rows[c].owners[1].balance, rows[c].state.supply)
Top10HolderShare(c) == Share(SumOf(Holders(c)), rows[c].state.supply)

IndexIn(c, list) ==
  IF \E i \in DOMAIN list : list[i] = c THEN CHOOSE i \in DOMAIN list : list[i] = c ELSE 0
MoverBadges(c) ==
  LET m == GetMovers24h
  IN [gainer |-> IndexIn(c, m.topGainers), loser |-> IndexIn(c, m.topLosers),
      tvl |-> IndexIn(c, m.topTvlMovers)]

(* Two venues with a price: among the offers shown, a plain one is enough. *)
ArbitrageFlag(c) ==
  LET venues == {v \in Venues : CASE v = "tapswap" -> \E i \in DOMAIN Offers(c) : Offers(c)[i].plain
                                  [] v = "fex" -> rows[c].fex.tvl # Null
                                  [] OTHER -> rows[c].cauldron.tvl # Null}
  IN Cardinality(venues) >= 2

----------------------------------------------------------------------------
(* The ranks.                                                              *)

RankOf(c, S, F(_)) == 1 + Cardinality({d \in S : F(d) > F(c)})
ShownRank(rank) == IF rank <= RankSize THEN rank ELSE Null

TvlRank(c) ==
  LET pools == {d \in Visible : rows[d].cauldron.tvl # Null}
  IN IF rows[c].cauldron.tvl = Null THEN Null
     ELSE ShownRank(RankOf(c, pools, LAMBDA d : rows[d].cauldron.tvl))

HoldersRank(c) ==
  IF rows[c].state.holders <= 0 THEN Null
  ELSE ShownRank(RankOf(c, Visible, LAMBDA d : rows[d].state.holders))

(* The price chart: the mean of each bucket of the range.                  *)
PriceRange == [day |-> [span |-> Day, bucket |-> Hour], week |-> [span |-> Week, bucket |-> 6 * Hour],
               month |-> [span |-> Month, bucket |-> Day], quarter |-> [span |-> 90 * Day, bucket |-> Day],
               year |-> [span |-> 365 * Day, bucket |-> Week], all |-> [span |-> 1000 * Day, bucket |-> Week]]
PriceBuckets(c, range) ==
  LET shown == InWindow(c, PriceRange[range].span)
      bucket(i) == (rows[c].prices[i].age + now) \div PriceRange[range].bucket
      of(b) == {i \in shown : bucket(i) = b}
  IN [b \in {bucket(i) : i \in shown} |-> Total(of(b), LAMBDA i : rows[c].prices[i].price) \div Cardinality(of(b))]

(* The versions of the registry, newest first, each with what it changed.  *)
GetBcmrVersions(c) ==
  LET v == rows[c].versions
  IN [i \in DOMAIN v |->
        [name |-> v[i].name, verified |-> v[i].verified,
         changed |-> IF i = Len(v) THEN {} ELSE {f \in {"name", "symbol"} : v[i][f] # v[i + 1][f]}]]

----------------------------------------------------------------------------
(* The covenant and everybody who claims its symbol, hidden ones too.      *)
Covenants == {c \in Category : rows[c].crc20.detected}
Contenders(symbol) == {c \in Covenants : rows[c].crc20.symbol = symbol}
FetchCrc20Detail(c) ==
  IF c \notin Covenants THEN {} ELSE Contenders(rows[c].crc20.symbol)

----------------------------------------------------------------------------
(* The page.  The queries of the first tier come together or not at all;   *)
(* those that catch their own failure leave their card blank.              *)
Guarded == {"herfindahl", "standings"}
FirstTier(c, failed) ==
  IF failed \ Guarded # {} THEN "failed"
  ELSE [holders |-> Holders(c), offers |-> Offers(c), votes |-> GetVoteCounts(c),
        watchlist |-> WatchlistCount(c), badges |-> MoverBadges(c), reports |-> ReportCount(c),
        extremes |-> PriceExtremes(c), trades |-> RecentTrades(c), tvlShare |-> TvlShare(c),
        topShare |-> TopHolderShare(c), top10Share |-> Top10HolderShare(c),
        herfindahl |-> IF "herfindahl" \in failed THEN Null ELSE Herfindahl(c),
        crc20 |-> FetchCrc20Detail(c),
        firstNRank |-> FirstNRankFor(c), fexPrice |-> rows[c].fex.price, arbitrage |-> ArbitrageFlag(c)]

LoadToken(c, range, failed) ==
  IF PageStatus(c) # 200 THEN [status |-> PageStatus(c)]
  ELSE [status |-> 200, token |-> TokenHeader(c), trust |-> ScoreBcmrTrust(rows[c].profile),
        tier1 |-> FirstTier(c, failed), chart |-> PriceBuckets(c, range),
        tvlRank |-> TvlRank(c), holdersRank |-> HoldersRank(c), versions |-> GetBcmrVersions(c)]
===============================================================================
