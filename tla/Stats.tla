-------------------------------- MODULE Stats ---------------------------------
(***************************************************************************)
(* The statistics page: one query per card, all of them sent at once.  A   *)
(* query that fails leaves its own card at zero or empty.                  *)
(***************************************************************************)
EXTENDS Directory

CONSTANTS
  HistogramDecimals,  \* the numbers of decimals with a bar of their own
  SupplyEdge          \* lower edges of the supply buckets, in display units

Priced(venue) == venue.listed /\ venue.price # Null
Fungible == {c \in Visible : rows[c].type \in {"FT", "FT+NFT"}}

TypeCounts == [t \in Types |-> Count(Visible, LAMBDA c : rows[c].type = t)]
NewIn7d == Count(Visible, LAMBDA c : Age(c) < Week)
NewIn30d == Count(Visible, LAMBDA c : Age(c) < Month)
Burned == Count(Visible, LAMBDA c : rows[c].state.burned)
TapswapCategories == Count(Visible, OnTapswap)
CauldronCategories == Count(Visible, LAMBDA c : Priced(rows[c].cauldron))
FexCategories == Count(Visible, LAMBDA c : Priced(rows[c].fex))
GenesisMonths == [m \in {Age(c) \div Month : c \in Visible} |->
                    Count(Visible, LAMBDA c : Age(c) \div Month = m)]

DecimalsCounts == [d \in {rows[c].decimals : c \in Fungible} |->
                     Count(Fungible, LAMBDA c : rows[c].decimals = d)]

(* The bars of the histogram: every other number of decimals is "other".   *)
DecimalsBuckets(counts) ==
  LET sum(S) == Total(S \cap DOMAIN counts, LAMBDA d : counts[d])
  IN [bars |-> [d \in HistogramDecimals |-> sum({d})],
      other |-> sum(DOMAIN counts \ HistogramDecimals)]

(* Which venues a token is on, by the same tests as the cards above.       *)
Presence(c) == {v \in Venues : CASE v = "tapswap" -> OnTapswap(c)
                                 [] v = "fex" -> Priced(rows[c].fex)
                                 [] OTHER -> Priced(rows[c].cauldron)}
VenueOverlap == [on \in (SUBSET Venues) \ {{}} |-> Count(Visible, LAMBDA c : Presence(c) = on)]

Metadata ==
  [hasName |-> Count(Visible, LAMBDA c : rows[c].name.quality < 3),
   hasSymbol |-> Count(Visible, LAMBDA c : rows[c].symbol # Null),
   hasIcon |-> Count(Visible, LAMBDA c : rows[c].icon \in Uri),
   total |-> Cardinality(Visible)]

Moderated == Cardinality({c \in Category : hidden[c] # Never})

(* Every venue's average of the day, summed over the tokens: the hidden    *)
(* ones are not left out here.                                             *)
EcosystemTvl30d ==
  LET point(x) == rows[x[1]].prices[x[2]]
      points(d) == {x \in Category \X (1..4) :
                      /\ x[2] \in DOMAIN rows[x[1]].prices /\ point(x).tvl # Null
                      /\ (point(x).age + now) \div Day = d}
      ofToken(d, c) == {x \in points(d) : x[1] = c}
  IN [d \in 0..29 |-> Total({x[1] : x \in points(d)}, LAMBDA c :
        Total(ofToken(d, c), LAMBDA x : point(x).tvl) \div Cardinality(ofToken(d, c)))]

(* A supply of zero or not yet known has a bucket of its own.              *)
DisplaySupply(c) == rows[c].state.supply \div (10 ^ rows[c].decimals)
SupplyBucket(c) ==
  IF rows[c].state.supply \in {Null, 0} THEN 0
  ELSE 1 + Cardinality({i \in DOMAIN SupplyEdge : SupplyEdge[i] <= DisplaySupply(c)})
SupplyBuckets == [b \in {SupplyBucket(c) : c \in Fungible} |-> Count(Fungible, LAMBDA c : SupplyBucket(c) = b)]

Rated == {c \in Visible : rows[c].state.gini # Null}

(* Twice the median, between the two in the middle.                        *)
GiniMedian ==
  LET n == Cardinality(Rated)
      sorted == Top([c \in Rated |-> <<rows[c].state.gini, c>>], n)
  IN IF n = 0 THEN Null
     ELSE rows[sorted[(n + 1) \div 2]].state.gini + rows[sorted[(n + 2) \div 2]].state.gini

(* The number of edges at or below the coefficient.                        *)
GiniEdges == {0, 40, 60, 75, 90}
WidthBucket(c) == Cardinality({e \in GiniEdges : e <= rows[c].state.gini})
GiniHistogram == [b \in 1..5 |-> Count(Rated, LAMBDA c : WidthBucket(c) = b)]

GiniTierLabels == <<"Excellent", "Good", "Fair", "Poor", "Whale_controlled">>
GiniBuckets(histogram) == [b \in 1..5 |-> [label |-> GiniTierLabels[b], count |-> histogram[b]]]

TapswapTop == Top([c \in {d \in Visible : OnTapswap(d)} |-> <<-Len(rows[c].offers), c>>], TopSize)

Owners(c) == {rows[c].owners[i].who : i \in DOMAIN rows[c].owners}
AllOwners == UNION {Owners(c) : c \in Visible}
UniqueHolders == Cardinality(AllOwners)
CategoriesHeld(who) == Count(Visible, LAMBDA c : who \in Owners(c))
TopCollectors == Top([who \in AllOwners |-> <<-CategoriesHeld(who), who>>], TopSize)

TopHoldersByCount == Top([c \in {d \in Visible : rows[d].state.holders > 0} |->
                            <<-rows[c].state.holders, c>>], TopSize)
ActiveMinting == Count(Visible, LAMBDA c : rows[c].state.minting)
FirstCreated == Top([c \in Visible |-> <<rows[c].genesis, c>>], TopSize)

(* The page.  The number of burned tokens is blank rather than zero when   *)
(* its query fails.                                                        *)
LoadStats(failed) ==
  LET or(q, x, none) == IF q \in failed THEN none ELSE x
  IN [byType |-> or("types", TypeCounts, [t \in Types |-> 0]),
      newIn24h |-> LoadGlobalMetrics(failed).newIn24h,
      newIn7d |-> or("7d", NewIn7d, 0), newIn30d |-> or("30d", NewIn30d, 0),
      burned |-> or("burned", Burned, Null), activeMinting |-> or("minting", ActiveMinting, 0),
      tapswapListed |-> or("tapswap", TapswapCategories, 0),
      cauldronListed |-> or("cauldron", CauldronCategories, 0),
      fexListed |-> or("fex", FexCategories, 0),
      genesisByMonth |-> or("months", GenesisMonths, <<>>),
      decimals |-> DecimalsBuckets(or("decimals", DecimalsCounts, <<>>)),
      venueOverlap |-> or("overlap", VenueOverlap, [on \in (SUBSET Venues) \ {{}} |-> 0]),
      metadata |-> or("metadata", Metadata, [hasName |-> 0, hasSymbol |-> 0, hasIcon |-> 0, total |-> 0]),
      moderated |-> or("moderated", Moderated, 0),
      tvl30d |-> or("tvl30d", EcosystemTvl30d, <<>>),
      supplyBuckets |-> or("supply", SupplyBuckets, <<>>),
      giniMedian |-> or("median", GiniMedian, Null),
      giniBuckets |-> GiniBuckets(or("gini", GiniHistogram, [b \in 1..5 |-> 0])),
      tapswapTop |-> or("offers", TapswapTop, <<>>),
      uniqueHolders |-> or("holders", UniqueHolders, Null),
      topCollectors |-> or("collectors", TopCollectors, <<>>),
      topHolders |-> or("topHolders", TopHoldersByCount, <<>>),
      firstCreated |-> or("first", FirstCreated, <<>>),
      movers |-> IF "movers" \in failed THEN NoMovers ELSE GetMovers24h]
===============================================================================
