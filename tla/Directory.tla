------------------------------ MODULE Directory -------------------------------
(***************************************************************************)
(* What the home page and the public API read: the grid with its filters,  *)
(* sorts and rows, and the lists and numbers around it.                    *)
(*                                                                         *)
(* Each operator is one query and the code around it, evaluated on the     *)
(* tables as they are.  Rows that an ORDER BY leaves tied fall in the      *)
(* order of their category; the database may choose another.               *)
(***************************************************************************)
EXTENDS Votes, Icons, TLC

CONSTANTS
  PageSize,      \* rows of one page of the grid
  TopSize,       \* rows of a leaderboard, of the movers and of the other top lists
  FirstSize      \* the first tokens ever, which keep a badge

Week == 7 * Day
Month == 30 * Day
NoPct == -1000

----------------------------------------------------------------------------
(* What a URL asks of the grid.                                            *)

Defaults == [sort |-> "tvl", type |-> "all", venues |-> {}, new |-> {}, listed |-> FALSE,
             tier |-> "all", crc20 |-> "all", search |-> "none", offset |-> 0]

Sorts == {"name", "supply", "holders", "tvl", "recent", "oldest",
          "upvoted", "downvoted", "controversial"}
Venues == {"cauldron", "tapswap", "fex"}
Types == {"FT", "NFT", "FT+NFT"}
Tiers == {"excellent", "good", "fair", "poor", "whale"}
Crc20Modes == {"true", "canonical", "noncanonical"}

(* An unknown sort is the default, an unknown type or mode no filter, and  *)
(* a search of one character no search.                                    *)
Parameters(url) ==
  [url EXCEPT !.sort = IF @ \in Sorts THEN @ ELSE "tvl",
              !.type = IF @ \in Types THEN @ ELSE "all",
              !.tier = IF @ \in Tiers THEN @ ELSE "all",
              !.crc20 = IF @ \in Crc20Modes THEN @ ELSE "all",
              !.search = IF @ = "short" THEN "none" ELSE @,
              !.offset = Larger(@, 0)]

OnVenue(v, c) ==
  CASE v = "cauldron" -> OnCauldron(c) [] v = "fex" -> OnFex(c) [] v = "tapswap" -> OnTapswap(c)

TypeFilter(p, c) == p.type \in {"all", rows[c].type}
VenueFilter(p, c) == \A v \in p.venues : OnVenue(v, c)

Window == [day |-> Day, week |-> Week, month |-> Month]
NewFilter(p, c) == \A w \in p.new : Age(c) < Window[w]

(* Mutant: the filter knows two of the venues.                             *)
ListedFilterOnPools(p, c) == p.listed => \E v \in Venues \ {"tapswap"} : OnVenue(v, c)

ListedFilter(p, c) == p.listed => \E v \in Venues : OnVenue(v, c)

(* In percent; a Gini coefficient of 100 is still a whale.                 *)
GiniRange == [excellent |-> 0..39, good |-> 40..59, fair |-> 60..74, poor |-> 75..89, whale |-> 90..100]
GiniFilter(p, c) == p.tier # "all" => rows[c].state.gini \in GiniRange[p.tier]

Crc20Filter(p, c) ==
  CASE p.crc20 = "true" -> rows[c].crc20.detected
    [] p.crc20 = "canonical" -> rows[c].crc20.canonical
    [] p.crc20 = "noncanonical" -> rows[c].crc20.detected /\ ~rows[c].crc20.canonical
    [] OTHER -> TRUE

(* A pasted id is looked up, a word is looked for in the three texts and   *)
(* compared with the name, and a short piece of hex also with the ids.     *)
SearchedId == CHOOSE c \in Category : \A d \in Category : c <= d
WordHit(c) == rows[c].words # {} \/ rows[c].near > 0
SearchFilter(p, c) ==
  CASE p.search = "id" -> c = SearchedId
    [] p.search = "word" -> WordHit(c)
    [] p.search = "hex" -> c = SearchedId \/ WordHit(c)
    [] OTHER -> TRUE

Matching(p) ==
  {c \in Visible : /\ TypeFilter(p, c) /\ VenueFilter(p, c) /\ NewFilter(p, c) /\ ListedFilter(p, c)
                   /\ GiniFilter(p, c) /\ Crc20Filter(p, c) /\ SearchFilter(p, c)}

----------------------------------------------------------------------------
(* The weight of votes.                                                    *)

Voters(c, way) == {u \in User : ballots[<<u, c>>].vote = way}

(* Distinct days on which the wallet has voted.                            *)
Tenure(u) == Cardinality({d \in Days : actions[<<u, d>>] # 0})

(* 100 times log2(tenure + 2), for a tenure of two days at most, halved    *)
(* for every week, until nothing is left of it.                            *)
Halved == <<1, 2, 4, 8, 16, 32, 64, 128>>
Contribution(u, c) ==
  LET weight == CASE Tenure(u) = 0 -> 100 [] Tenure(u) = 1 -> 158 [] OTHER -> 200
      weeks == (now - ballots[<<u, c>>].at) \div Week
  IN IF weeks + 1 \in DOMAIN Halved THEN weight \div Halved[weeks + 1] ELSE 0

HotScore(c, way) == Total(Voters(c, way), LAMBDA u : Contribution(u, c))
Hot(c) == HotScore(c, "up") - HotScore(c, "down")
Heat(c) == HotScore(c, "up") + HotScore(c, "down")
Contested(c) ==
  (IF HotScore(c, "up") < HotScore(c, "down") THEN HotScore(c, "up") ELSE HotScore(c, "down")) * Heat(c)

GetVoteCounts(c) == [up |-> Cardinality(Voters(c, "up")), down |-> Cardinality(Voters(c, "down"))]

(* Each list has only tokens somebody voted for that way.                  *)
GetVoteLeaderboards ==
  LET voted(way) == {c \in Visible : Voters(c, way) # {}}
  IN [mostUpvoted |-> Top([c \in voted("up") |-> <<-Hot(c), -HotScore(c, "up"), c>>], TopSize),
      mostDownvoted |-> Top([c \in voted("down") |-> <<Hot(c), -HotScore(c, "down"), c>>], TopSize),
      mostControversial |-> Top([c \in voted("up") \cap voted("down") |->
                                 <<-Contested(c), -Heat(c), c>>], TopSize),
      totalVotes |-> Cardinality({x \in User \X Category : ballots[x] # NoVote})]

NoLeaders == [mostUpvoted |-> <<>>, mostDownvoted |-> <<>>, mostControversial |-> <<>>, totalVotes |-> 0]

----------------------------------------------------------------------------
(* The order of the grid.                                                  *)

(* Names that start with a letter, then with a digit, then the others.     *)
NameQuality(c) == rows[c].name.quality
ByName(c) == <<NameQuality(c), NullsLastAsc(rows[c].name.key)>>

SortKey(sort, c) ==
  LET r == rows[c]
  IN CASE sort = "name" -> ByName(c) \o <<r.seen>>
       [] sort = "supply" -> <<NullsLastDesc(r.state.supply)>> \o ByName(c)
       [] sort = "holders" -> <<NullsLastDesc(r.state.holders)>> \o ByName(c)
       [] sort = "recent" -> <<-r.genesis, -r.seen>>
       [] sort = "oldest" -> <<r.genesis, c>>
       [] sort = "upvoted" -> <<-Hot(c), -HotScore(c, "up")>> \o ByName(c)
       [] sort = "downvoted" -> <<Hot(c), -HotScore(c, "down")>> \o ByName(c)
       [] sort = "controversial" -> <<-Contested(c), -Heat(c)>> \o ByName(c)
       [] OTHER -> <<NullsLastDesc(r.cauldron.tvl)>> \o ByName(c)

(* A search puts the closest names first.                                  *)
GridKey(p, c) ==
  (IF p.search \in {"word", "hex"} THEN <<-rows[c].near>> ELSE <<>>) \o SortKey(p.sort, c) \o <<c>>

(* The tables the rows of a page are chosen and ordered from, and those an *)
(* order mentions.                                                         *)
TopTables == {"t", "m", "s", "vl_cauldron", "vl_fex", "vl_tapswap", "c"}
SortTables(sort) ==
  CASE sort \in {"upvoted", "downvoted", "controversial"} -> {"vw", "m"}
    [] sort \in {"supply", "holders"} -> {"s", "m"}
    [] sort = "name" -> {"m", "t"}
    [] sort = "tvl" -> {"vl_cauldron", "m"}
    [] OTHER -> {"t"}

(* The page of the rows in the order of their keys that starts after the   *)
(* offset.                                                                 *)
PageOf(key, offset, size) ==
  LET ordered == Top(key, offset + size)
  IN SubSeq(ordered, offset + 1, Len(ordered))

ComputeGrid(p) ==
  [tokens |-> PageOf([c \in Matching(p) |-> GridKey(p, c)], p.offset, PageSize),
   total |-> Cardinality(Matching(p)), error |-> FALSE]

GridError == [tokens |-> <<>>, total |-> 0, error |-> TRUE]

(* A column that is not there fails the whole query.                       *)
TokenGridData(url) ==
  LET p == Parameters(url)
  IN IF SortTables(p.sort) \subseteq TopTables THEN ComputeGrid(p) ELSE GridError

IsDefaultView(url) == url = Defaults

----------------------------------------------------------------------------
(* One row of it.                                                          *)

(* The newest price that is at least this old.                             *)
PriceAt(c, age) ==
  LET old == {i \in DOMAIN rows[c].prices : rows[c].prices[i].age + now >= age}
  IN IF old = {} THEN Null ELSE rows[c].prices[CHOOSE i \in old : \A j \in old : j <= i].price

Sparkline(c) == SelectSeq(rows[c].prices, LAMBDA p : p.age + now < Week)
Pct(new, old) == IF new = Null \/ old \in {Null, 0} THEN NoPct ELSE ((new - old) * 100) \div old

GetFirstNMap == Top([c \in Tracked |-> <<rows[c].genesis, c>>], FirstSize)
FirstNRankFor(c) ==
  LET ranks == {i \in DOMAIN GetFirstNMap : GetFirstNMap[i] = c}
  IN IF ranks = {} THEN Null ELSE CHOOSE i \in ranks : TRUE

(* How far the registry of a token is to be trusted.                       *)
Since(instant) == now - instant
Warnings(p) ==
  {w \in {"pulled", "never_verified", "authority_moved", "unverified_ratio"} :
     CASE w = "pulled" -> p.pulled
       [] w = "never_verified" -> p.verified = 0
       [] w = "authority_moved" -> p.moved # Null /\ Since(p.moved) <= Month
       [] OTHER -> p.total >= 2 /\ p.total - p.verified > p.verified}

ScoreBcmrTrust(p) ==
  CASE p.total = 0 -> "none"
    [] p.total > 0 /\ Warnings(p) # {} -> "suspicious"
    [] OTHER -> CASE p.first # Null /\ Since(p.first) < 14 * Day -> "new"
                  [] p.versions >= 4 /\ p.changed # Null /\ Since(p.changed) < Month -> "volatile"
                  [] p.versions <= 2 /\ p.changed # Null /\ Since(p.changed) >= 365 * Day -> "stable"
                  [] OTHER -> "established"

BcmrSuspect(c) == ScoreBcmrTrust(rows[c].profile) = "suspicious"

(* The columns that the API gives as well.                                 *)
ApiRow(c) ==
  LET r == rows[c]
  IN [id |-> c, tokenType |-> r.type, icon |-> IconClearedHash(r.icon), decimals |-> r.decimals,
      verified |-> r.state.verified # Never, burned |-> r.state.burned, minting |-> r.state.minting,
      supply |-> r.state.supply, holders |-> r.state.holders, nfts |-> r.state.nfts,
      firstNRank |-> FirstNRankFor(c), crc20 |-> r.crc20,
      updated |-> Larger(r.state.verified, Larger(r.fetched, r.seen))]

GridRow(c) ==
  LET r == rows[c]
  IN [api |-> ApiRow(c), price |-> r.cauldron.price, tvl |-> r.cauldron.tvl,
      offers |-> Len(r.offers), fexPrice |-> r.fex.price, fexTvl |-> r.fex.tvl,
      hourPct |-> Pct(r.cauldron.price, PriceAt(c, Hour)),
      dayPct |-> Pct(r.cauldron.price, PriceAt(c, Day)),
      weekPct |-> Pct(r.cauldron.price, PriceAt(c, Week)),
      spark |-> Len(Sparkline(c)), votes |-> GetVoteCounts(c), suspect |-> BcmrSuspect(c)]

----------------------------------------------------------------------------
(* The lists and numbers around the grid.                                  *)

(* The average over the better half of the pools.                          *)
ComputeMcapTvlThresholdSats ==
  LET pools == {c \in Category : rows[c].cauldron.tvl > 0 /\ hidden[c] = Never}
      half == Top([c \in pools |-> <<-rows[c].cauldron.tvl, c>>], (Cardinality(pools) + 1) \div 2)
  IN IF pools = {} THEN 0
     ELSE Total(DOMAIN half, LAMBDA i : rows[half[i]].cauldron.tvl) \div Len(half)

(* A price of a day ago, within the week, and one of today.                *)
OldPoints(c) == {i \in DOMAIN rows[c].prices :
                   /\ rows[c].prices[i].age + now >= Day - Hour
                   /\ rows[c].prices[i].age + now <= Week}
NewPoints(c) == {i \in DOMAIN rows[c].prices : rows[c].prices[i].age + now <= Day - Hour}
Newest(c, S) == rows[c].prices[CHOOSE i \in S : \A j \in S : j <= i]

Movers ==
  {c \in Visible : /\ OldPoints(c) # {} /\ NewPoints(c) # {}
                   /\ Newest(c, OldPoints(c)).price > 0 /\ Newest(c, NewPoints(c)).price > 0}
PricePct(c) == Pct(Newest(c, NewPoints(c)).price, Newest(c, OldPoints(c)).price)
TvlPct(c) ==
  LET old == Newest(c, OldPoints(c)).tvl new == Newest(c, NewPoints(c)).tvl
  IN IF old \in {Null, 0} \/ new = Null THEN NoPct ELSE Pct(new, old)
Magnitude(x) == IF x < 0 THEN -x ELSE x

GetMovers24h ==
  [topGainers |-> Top([c \in {d \in Movers : PricePct(d) > 0} |-> <<-PricePct(c), c>>], TopSize),
   topLosers |-> Top([c \in {d \in Movers : PricePct(d) < 0} |-> <<PricePct(c), c>>], TopSize),
   topTvlMovers |-> Top([c \in {d \in Movers : TvlPct(d) # NoPct} |-> <<-Magnitude(TvlPct(c)), c>>], TopSize),
   has24hHistory |-> Movers # {}]

NoMovers == [topGainers |-> <<>>, topLosers |-> <<>>, topTvlMovers |-> <<>>, has24hHistory |-> FALSE]

(* The three lists beside the grid: if one query fails, none is shown.     *)
LoadHome(url, failed) ==
  [grid |-> IF "grid" \in failed THEN GridError ELSE TokenGridData(url)]
  @@ (IF "threshold" \in failed
      THEN [threshold |-> 0, movers |-> NoMovers, leaders |-> NoLeaders]
      ELSE [threshold |-> ComputeMcapTvlThresholdSats,
            movers |-> IF "movers" \in failed THEN NoMovers ELSE GetMovers24h,
            leaders |-> IF "leaders" \in failed THEN NoLeaders ELSE GetVoteLeaderboards])

(* The bar on every page; a query that fails leaves a zero.                *)
LoadGlobalMetrics(failed) ==
  LET or0(q, x) == IF q \in failed THEN 0 ELSE x
  IN [tokensTracked |-> or0("tracked", Cardinality(Visible)),
      newIn24h |-> or0("new", Count(Visible, LAMBDA c : Age(c) < Day)),
      fexTvl |-> or0("fex", Total({c \in Visible : OnFex(c)}, LAMBDA c : rows[c].fex.pools)),
      listedCount |-> or0("listed", Count(Visible, LAMBDA c :
                        \/ OnCauldron(c) /\ rows[c].cauldron.price # Null
                        \/ OnFex(c) /\ rows[c].fex.price # Null
                        \/ OnTapswap(c)))]

----------------------------------------------------------------------------
(* The public API.                                                         *)

ApiDefaults == [sort |-> "name", type |-> "all", verified |-> FALSE, burned |-> "any", symbol |-> Null,
                search |-> "none", minSupply |-> Null, crc20 |-> "all", limit |-> PageSize, offset |-> 0]

ApiMatching(p) ==
  {c \in Visible :
     /\ TypeFilter(p, c) /\ Crc20Filter(p, c)
     /\ p.verified => rows[c].state.verified # Never
     /\ p.burned # "any" => rows[c].state.burned = (p.burned = "true")
     /\ p.symbol # Null => p.symbol \in {rows[c].symbol, rows[c].crc20.symbol}
     /\ p.search = "word" => "name" \in rows[c].words
     /\ p.minSupply # Null => rows[c].state.supply # Null /\ rows[c].state.supply >= p.minSupply}

ApiSortKey(sort, c) ==
  LET name == NullsLastAsc(rows[c].name.key)
  IN CASE sort = "supply" -> <<NullsLastDesc(rows[c].state.supply), name>>
       [] sort = "holders" -> <<NullsLastDesc(rows[c].state.holders), name>>
       [] sort \in {"recent", "oldest"} -> SortKey(sort, c)
       [] OTHER -> <<name, rows[c].seen>>

(* The rows are only counted when the page is full.                        *)
ApiTokens(p) ==
  LET page == PageOf([c \in ApiMatching(p) |-> ApiSortKey(p.sort, c) \o <<c>>], p.offset, p.limit)
  IN [tokens |-> page,
      total |-> IF Len(page) < p.limit THEN p.offset + Len(page) ELSE Cardinality(ApiMatching(p))]

----------------------------------------------------------------------------
(* Every order the grid offers is answered with rows: "Vote-driven sorts - *)
(* ranked by WEIGHTED hot scores from `vw`".                               *)
EverySortIsAnswered == \A sort \in Sorts : ~TokenGridData([Defaults EXCEPT !.sort = sort]).error
===============================================================================
