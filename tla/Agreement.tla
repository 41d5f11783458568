------------------------------ MODULE Agreement ------------------------------
(***************************************************************************)
(* What the pages must agree on: each reads the same tables with a query   *)
(* of its own, and links to a view of the directory that another query     *)
(* answers.                                                                *)
(***************************************************************************)
EXTENDS Pages

Set(s) == {s[i] : i \in DOMAIN s}
TotalWith(p) == TokenGridData(p).total

(* A number that links to the directory is the number of tokens found      *)
(* there, and what is counted in parts adds up to the whole.               *)
TotalsAgree ==
  LET s == LoadStats({}) bar == LoadGlobalMetrics({})
      all == TotalWith(Defaults)
  IN /\ \A card \in LinkedCards(s, bar) : card.count = TotalWith(card.link)
     /\ ByTypeTotal(s) = all /\ GrowthTotal(s) = all
     /\ DecimalsBars(s) = s.byType["FT"] + s.byType["FT+NFT"] /\ SupplyBars(s) = DecimalsBars(s)
     /\ bar.tokensTracked = all /\ s.metadata.total = all /\ ApiTokens(ApiDefaults).total = all
     /\ s.moderated = Cardinality(LoadModerated)
     /\ LoadCrc20.totalCategories >= TotalWith([Defaults EXCEPT !.crc20 = "true"])
     /\ all > 0 => Total(Types, LAMBDA t : TypeShare(s, t)) \in 998..1002
     /\ \A f \in DOMAIN Completeness(s) : Completeness(s)[f] <= 100

(* The venues a token is counted on are those it is filtered by.           *)
VenuesAgree ==
  LET s == LoadStats({}) overlap == OverlapCards(s)
      on(v) == Total({x \in DOMAIN overlap : v \in x}, LAMBDA x : overlap[x])
  IN /\ \A v \in Venues : on(v) = TotalWith([Defaults EXCEPT !.venues = {v}])
     /\ Total(DOMAIN overlap, LAMBDA x : overlap[x]) = TotalWith([Defaults EXCEPT !.listed = TRUE])

(* So are the tokens counted as burned or minting, and the icons in use.   *)
CountsAgree ==
  LET shown(b) == Count(Visible, LAMBDA c : b \in HeadBadges(c, LoadToken(c, "week", {})))
  IN /\ \A x \in SupplyDynamics(LoadStats({})) : x.burned = shown("burned") /\ x.minting = shown("minting")
     /\ \A x \in IconSafety(GetIconModerationStats) :
          /\ x.usedBy > 0 => x.cleared > 0
          /\ x.usedBy >= Count(Visible, LAMBDA c : IconNotice(LoadToken(c, "week", {})) = {})

(* The whole grid in one order, and the token that is first at its value.  *)
WholeGrid(sort) ==
  PageOf([c \in Visible |-> GridKey([Defaults EXCEPT !.sort = sort], c)], 0, Cardinality(Category))
IsPlace(rank, c, list, F(_)) ==
  /\ rank <= Len(list) /\ F(list[rank]) = F(c)
  /\ \A i \in 1..(rank - 1) : F(list[i]) # F(c)

(* The page of a token and its row in a list say the same of it; a rank on *)
(* the page is its place in the list it links to.                          *)
TokensAgree ==
  \A c \in Category :
    LET page == LoadToken(c, "week", {}) row == GridRow(c)
    IN /\ (page.status = 200) <=> (c \in Visible)
       /\ page.status = 200 =>
            /\ page.token.api = row.api
            /\ (IconNotice(page) = {}) = (row.api.icon # NoHash)
            /\ (TrustBadge(page) = "suspicious") = row.suspect
            /\ page.tier1.votes = row.votes /\ page.tier1.fexPrice = row.fexPrice
            /\ "tvlRank" \in Badges(c, page) =>
                 IsPlace(page.tvlRank, c, WholeGrid(RankLink.tvlRank.sort), LAMBDA d : rows[d].cauldron.tvl)
            /\ "holdersRank" \in Badges(c, page) =>
                 IsPlace(page.holdersRank, c, WholeGrid(RankLink.holdersRank.sort), LAMBDA d : rows[d].state.holders)
       /\ (GetHolders(c, 2, 0).status = 200) = (page.status = 200)
       /\ (GetNfts(c, "all").status = 200) = (page.status = 200)
       /\ (GetHistory(c, Null, Null).status = 200) = (page.status = 200)
       /\ (GetBcmrVersion(c, Null).status = 200) = (page.status = 200)

(* What a badge, a card or a table says is what the directory finds the    *)
(* token by, or what another part of the page says; a link to a version    *)
(* gives the newest verified one of its block.                             *)
ViewsAgree ==
  \A c \in Visible :
    LET page == LoadToken(c, "week", {}) row == GridRow(c)
        says == StatCards(c, page) shares == HolderRows(c, page)
        filtered(p) == c \in Matching(p)
    IN /\ \A t \in Tiers : (says.gini = t) <=> filtered([Defaults EXCEPT !.tier = t])
       /\ \A w \in DOMAIN Window : filtered([Defaults EXCEPT !.new = {w}])
             <=> AgeBadge(c) \in (CASE w = "day" -> {"today"} [] w = "week" -> {"today", "week"}
                                   [] OTHER -> {"today", "week", "month"})
       /\ RowBadges(c, row).age = CardBadges(c, row).age
       /\ ("age" \in Badges(c, page)) = (RowBadges(c, row).age # "none")
       /\ ("first" \in Badges(c, page)) = (RowBadges(c, row).firstN # Null)
       /\ \A v \in Venues : (v \in RowBadges(c, row).venues) <=> filtered([Defaults EXCEPT !.venues = {v}])
       /\ ("covenant" \in HeadBadges(c, page)) <=> filtered([Defaults EXCEPT !.crc20 = "true"])
       /\ (RowBadges(c, row).covenant = "canonical") <=> filtered([Defaults EXCEPT !.crc20 = "canonical"])
       /\ \A card \in CovenantCard(c, page) : card.marker = RowBadges(c, row).covenant
       /\ PriceHero(c) => CardBadges(c, row).priced
       /\ shares # <<>> /\ shares[1] > 0 => shares[1] = Profile(c, page).topShare
       /\ Profile(c, page).topShare # Null /\ Profile(c, page).top10Share # Null
             => Profile(c, page).topShare <= Profile(c, page).top10Share
       /\ \A i \in DOMAIN VersionRows(c, page) :
            LET pin(j) == VersionRows(c, page)[j].pin
                newest == Lowest({j \in DOMAIN VersionRows(c, page) : pin(j) = pin(i)})
            IN pin(i) # Null => GetBcmrVersion(c, pin(i)).version = page.versions[newest].name
       /\ \A i, j \in DOMAIN OfferRows(page) : i < j => OfferRows(page)[i] <= OfferRows(page)[j]
       /\ VenueCardsOf(c, page).fex.price = row.fexPrice
       /\ \A panel \in Trading(page) : \A w \in DOMAIN panel.ranges : panel.ranges[w].min <= panel.ranges[w].max

(* Two pages that show the same list, and a list and the page it links to. *)
ListsAgree ==
  LET s == LoadStats({})
  IN /\ \A section \in LinkedLists(s) : \A c \in Set(section.list) : c \in Matching(section.link)
     /\ s.firstCreated = SubSeq(WholeGrid("oldest"), 1, Len(s.firstCreated))
     /\ \A i \in DOMAIN HoldersSection(s).collectors : HoldersSection(s).collectors[i].held > 0
     /\ \A i \in DOMAIN s.topHolders :
          IsPlace(RankOf(s.topHolders[i], Visible, LAMBDA d : rows[d].state.holders),
                  s.topHolders[i], WholeGrid("holders"), LAMBDA d : rows[d].state.holders)
     /\ \A list \in {"topGainers", "topLosers", "topTvlMovers"} : \A c \in Set(s.movers[list]) :
          IndexIn(c, s.movers[list]) = MoverBadges(c)[CASE list = "topGainers" -> "gainer"
                                                        [] list = "topLosers" -> "loser"
                                                        [] OTHER -> "tvl"]

(* However the rows and the moderator's list are, every page that counts,  *)
(* lists, ranks or describes tokens agrees with the directory: its totals, *)
(* the numbers its filters promise, the places of its sorts, and the row   *)
(* it shows of a token (+page.server.ts, stats, +layout.server.ts,         *)
(* api/tokens, token/[category]).                                          *)
PagesAgree == TotalsAgree /\ VenuesAgree /\ CountsAgree /\ TokensAgree /\ ViewsAgree /\ ListsAgree

(* Every token that a page or an endpoint without a memo would show now.   *)
ShownNow ==
  LET s == LoadStats({}) everything == Cardinality(Category) + 1
  IN UNION {
       Set(WholeGrid("name")), Set(ApiTokens([ApiDefaults EXCEPT !.limit = everything]).tokens),
       Set(SearchTokens("word")), Set(SearchTokens("id")), Set(LoadArbitrage(Null).rows),
       Set(s.tapswapTop), Set(s.topHolders), Set(s.firstCreated),
       UNION {{r.id : r \in LoadWatchlist(u)} : u \in User},
       {c \in Category : LoadToken(c, "week", {}).status = 200}}
===============================================================================
