------------------------------ MODULE StatsView -------------------------------
(***************************************************************************)
(* What the statistics page and the bar above every page show of the       *)
(* numbers they load, and the view of the directory each number links to.  *)
(***************************************************************************)
EXTENDS Stats

Card(count, link) == [count |-> count, link |-> link]
Sorted(sort) == [Defaults EXCEPT !.sort = sort]
OnVenues(v, sort) == [Sorted(sort) EXCEPT !.venues = {v}]
NewIn(w) == [Sorted("recent") EXCEPT !.new = {w}]

NewCards(s) ==
  {Card(s.newIn24h, NewIn("day")), Card(s.newIn7d, NewIn("week")), Card(s.newIn30d, NewIn("month"))}

(* Each with its share of the whole, in tenths of a percent, rounded.      *)
ByTypeTotal(s) == Total(Types, LAMBDA t : s.byType[t])
TypeShare(s, t) == IF ByTypeTotal(s) = 0 THEN 0
                   ELSE (2000 * s.byType[t] + ByTypeTotal(s)) \div (2 * ByTypeTotal(s))
TypeCards(s) == {Card(s.byType[t], [Sorted("tvl") EXCEPT !.type = t]) : t \in Types}

VenueCards(s) ==
  {Card(s.cauldronListed, OnVenues("cauldron", "tvl")), Card(s.fexListed, OnVenues("fex", "tvl")),
   Card(s.tapswapListed, OnVenues("tapswap", "recent"))}

(* The slug of a bar is its label in lower case, up to the first dash.     *)
Slug == [Excellent |-> "excellent", Good |-> "good", Fair |-> "fair", Poor |-> "poor",
         Whale_controlled |-> "whale"]
GiniBars(s) == {Card(s.giniBuckets[b].count, [Defaults EXCEPT !.tier = Slug[s.giniBuckets[b].label]]) :
                  b \in DOMAIN s.giniBuckets}

(* The bar on every page.                                                  *)
MetricsBar(metrics) ==
  {Card(metrics.listedCount, [Sorted("tvl") EXCEPT !.listed = TRUE]),
   Card(metrics.newIn24h, NewIn("day"))}

(* A list is not shown when it is empty, and has a link to the whole of it.*)
Section(list, link) == IF list = <<>> THEN {} ELSE {[list |-> list, link |-> link]}
TopHolders(s) == Section(s.topHolders, Sorted("holders"))
TapswapList(s) == Section(s.tapswapTop, OnVenues("tapswap", "recent"))
FirstCreatedList(s) == Section(s.firstCreated, Sorted("oldest"))

(* The charts: the sum written above one, and the bars in it.              *)
GrowthTotal(s) == Total(DOMAIN s.genesisByMonth, LAMBDA m : s.genesisByMonth[m])
DecimalsBars(s) == Total(DOMAIN s.decimals.bars, LAMBDA d : s.decimals.bars[d]) + s.decimals.other
SupplyBars(s) == Total(DOMAIN s.supplyBuckets, LAMBDA b : s.supplyBuckets[b])

(* Seven numbers, one for every way to be on some of the venues.           *)
OverlapCards(s) == [on \in (SUBSET Venues) \ {{}} |-> s.venueOverlap[on]]

(* Per cent of the tokens; nothing to divide on a fresh database.          *)
MetaPct(s, n) == IF s.metadata.total = 0 THEN 0 ELSE (100 * n) \div s.metadata.total
Completeness(s) ==
  IF s.metadata.total = 0 THEN <<>>
  ELSE [f \in {"hasName", "hasSymbol", "hasIcon"} |-> MetaPct(s, s.metadata[f])]

(* Both numbers of the supply are hidden when one of them is not known.    *)
SupplyDynamics(s) == IF s.burned = Null THEN {} ELSE {[burned |-> s.burned, minting |-> s.activeMinting]}

HoldersSection(s) ==
  [unique |-> s.uniqueHolders,
   collectors |-> [i \in DOMAIN s.topCollectors |->
                     [who |-> s.topCollectors[i], held |-> CategoriesHeld(s.topCollectors[i])]]]

(* The images: shown when there is any, the four reasons in one number.    *)
IconSafety(stats) ==
  IF stats.totalUrls = 0 THEN {}
  ELSE {[cleared |-> stats.cleared, review |-> stats.review, pending |-> stats.pendingUrls,
         usedBy |-> stats.tokensWithClearedIcon,
         blocked |-> Total(DOMAIN stats.blocked, LAMBDA r : stats.blocked[r])]}

(* Every number that links to the directory.                               *)
LinkedCards(s, metrics) ==
  NewCards(s) \cup TypeCards(s) \cup VenueCards(s) \cup GiniBars(s) \cup MetricsBar(metrics)
LinkedLists(s) == TopHolders(s) \cup TapswapList(s) \cup FirstCreatedList(s)
===============================================================================
