------------------------------ MODULE TokenView -------------------------------
(***************************************************************************)
(* What the page of a token and a row of the grid show of what they load:  *)
(* which badges, cards, rows and links there are, and what each says.      *)
(*                                                                         *)
(* `page` is an answer of LoadToken with status 200.                       *)
(***************************************************************************)
EXTENDS TokenPage

CONSTANTS
  ShareBadge,    \* per cent of all value on Cauldron that earns a badge
  MinTop         \* fewer holders than this have no share of the top holders

AgeBadge(c) ==
  CASE Age(c) < Day -> "today"
    [] Age(c) >= Day /\ Age(c) < Week -> "week"
    [] Age(c) >= Week /\ Age(c) < Month -> "month"
    [] OTHER -> "none"

GiniTier(c) ==
  LET g == rows[c].state.gini
  IN CASE g = Null -> "none" [] g \in 0..39 -> "excellent" [] g \in 40..59 -> "good"
       [] g \in 60..74 -> "fair" [] g \in 75..89 -> "poor" [] g >= 90 -> "whale"

----------------------------------------------------------------------------
(* A row of the grid.                                                      *)

CovenantBadge(crc20) == IF ~crc20.detected THEN "none" ELSE IF crc20.canonical THEN "canonical" ELSE "contender"

VenueLogos(row) ==
  {v \in Venues : CASE v = "tapswap" -> row.offers > 0
                    [] v = "fex" -> row.fexPrice # Null
                    [] OTHER -> row.price # Null}

RowBadges(c, row) ==
  [suspect |-> row.suspect, firstN |-> row.api.firstNRank, covenant |-> CovenantBadge(row.api.crc20),
   age |-> AgeBadge(c), venues |-> VenueLogos(row)]

(* The card of a narrow screen: no logos, the price only of a traded one.  *)
CardBadges(c, row) ==
  [suspect |-> row.suspect, firstN |-> row.api.firstNRank, covenant |-> CovenantBadge(row.api.crc20),
   age |-> AgeBadge(c), priced |-> row.price # Null]

----------------------------------------------------------------------------
(* The head of the page.                                                   *)

TrustBadge(page) == page.trust
HeadBadges(c, page) ==
  {b \in {"verified", "burned", "minting", "trust", "covenant"} :
     CASE b = "verified" -> page.token.api.verified
       [] b = "burned" -> page.token.api.burned
       [] b = "minting" -> page.token.api.minting
       [] b = "trust" -> TrustBadge(page) # "none"
       [] OTHER -> page.tier1.crc20 # {}}
PriceHero(c) == rows[c].cauldron.price > 0

(* The covenant: who else claims the symbol, when anybody does.            *)
CovenantCard(c, page) ==
  IF page.tier1.crc20 = {} THEN {}
  ELSE {[marker |-> CovenantBadge(rows[c].crc20),
         contenders |-> IF Cardinality(page.tier1.crc20) > 1
                        THEN {[id |-> d, winner |-> rows[d].crc20.canonical] : d \in page.tier1.crc20}
                        ELSE {}]}

(* The badges below.  A rank alone does not bring them up: the row of      *)
(* badges is there when anything else is.                                  *)
Notable(c, page) ==
  LET t == page.tier1
  IN {b \in {"first", "age", "share", "arbitrage", "watchlist", "gainer", "loser", "tvl"} :
        CASE b = "first" -> t.firstNRank # Null
          [] b = "age" -> AgeBadge(c) # "none"
          [] b = "share" -> t.tvlShare >= ShareBadge
          [] b = "arbitrage" -> t.arbitrage
          [] b = "watchlist" -> t.watchlist > 0
          [] OTHER -> t.badges[b] > 0}
Badges(c, page) ==
  IF Notable(c, page) = {} THEN {}
  ELSE Notable(c, page) \cup {r \in {"tvlRank", "holdersRank"} : page[r] # Null}
RankLink == [tvlRank |-> [Defaults EXCEPT !.sort = "tvl"], holdersRank |-> [Defaults EXCEPT !.sort = "holders"]]

----------------------------------------------------------------------------
(* The cards and tables.                                                   *)

(* The market value is at the price of Fex, and only of a deep pool.       *)
MarketCapShown(c) ==
  /\ rows[c].state.supply > 0 /\ rows[c].fex.price > 0
  /\ Larger(rows[c].fex.tvl, 0) >= ComputeMcapTvlThresholdSats
StatCards(c, page) ==
  [supply |-> page.token.api.supply, holders |-> page.token.api.holders, gini |-> GiniTier(c),
   tvl |-> IF rows[c].cauldron.tvl > 0 THEN rows[c].cauldron.tvl ELSE Null,
   marketCap |-> MarketCapShown(c), nfts |-> page.token.api.nfts]

Profile(c, page) ==
  LET t == page.tier1
  IN [topShare |-> t.topShare, reports |-> t.reports, hhi |-> t.herfindahl,
      top10Share |-> IF Len(t.holders) >= MinTop THEN t.top10Share ELSE Null]

(* Ranges of prices, and the trades of the day.                            *)
Trading(page) ==
  LET t == page.tier1
      ranges == {w \in DOMAIN t.extremes : t.extremes[w].min # Null /\ t.extremes[w].max # Null}
  IN IF ranges = {} /\ t.trades.buckets = 0 THEN {}
     ELSE {[ranges |-> [w \in ranges |-> t.extremes[w]], trades |-> t.trades]}

(* Only the card of Cauldron has a link to trade on.                       *)
VenueCardsOf(c, page) ==
  [cauldron |-> [price |-> rows[c].cauldron.price, trade |-> PriceHero(c)],
   fex |-> [price |-> page.tier1.fexPrice, trade |-> FALSE]]

OfferRows(page) == [i \in DOMAIN page.tier1.offers |-> page.tier1.offers[i].ask]

(* Of the supply, never more than all of it; no supply has no shares.      *)
HolderRows(c, page) ==
  [i \in DOMAIN page.tier1.holders |->
     LET all == rows[c].state.supply bal == page.tier1.holders[i].balance
     IN IF all \in {Null, 0} THEN Null ELSE IF bal > all THEN 100 ELSE (bal * 100) \div all]

(* A version that was verified in a block has a link pinned to that block, *)
(* not to the version: a block may hold two.                               *)
VersionRows(c, page) ==
  [i \in DOMAIN page.versions |->
     [verified |-> page.versions[i].verified, changed |-> page.versions[i].changed,
      pin |-> IF page.versions[i].verified THEN rows[c].versions[i].block ELSE Null]]

(* The notice of an icon that is not shown.                                *)
IconNotice(page) == IF page.token.iconStatus = "cleared" THEN {} ELSE {page.token.iconStatus}
===============================================================================
