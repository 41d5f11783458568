--------------------------------- MODULE Site ---------------------------------
(***************************************************************************)
(* The public site: the pages, the votes, the reports, the icons, the memo *)
(* and the home page in a browser, over one set of tables.                 *)
(*                                                                         *)
(* The parts meet in what they read: the rows the workers fill and the     *)
(* moderator's list.  Each behaviour follows one part, or one memoised     *)
(* list, its focus, while the others rest where they start.  The rows are  *)
(* fixed: the workers have modules of their own.                           *)
(***************************************************************************)
EXTENDS Agreement, Memo, Browser

CONSTANTS
  First,         \* focus -> [now, rows, hidden, ballots, decisions]: where it may start
  Buttons,       \* the pages the buttons are on
  Served,        \* what each URL answers at first
  Horizon,       \* focus -> bound on the clock
  MaxModerations \* bound on tokens hidden, and shown again, by hand

(* What the workers write of one token.  An offer is plain only when it    *)
(* asks for something, a venue has a row when it has a price, a covenant   *)
(* wins its symbol only when it was found, and the versions of a registry  *)
(* come newest first, those not yet in a block last.                       *)
Quantity == Nat \cup {Null}
Instant == Int
Point == [age : Int, price : Quantity, tvl : Quantity]
Offer == {o \in [ask : Nat, plain : BOOLEAN] : o.plain => o.ask # 0}
Venue == {v \in [listed : BOOLEAN, price : Quantity, tvl : Quantity] : v.listed <=> v.price # Null}
Pools == {v \in [listed : BOOLEAN, price : Quantity, tvl : Quantity, pools : Nat] : v.listed <=> v.price # Null}
Crc20 == {x \in [detected : BOOLEAN, symbol : Quantity, canonical : BOOLEAN] : x.canonical => x.detected}
Version == [name : Quantity, symbol : Quantity, verified : BOOLEAN, block : Quantity]
Versions ==
  {v \in Seq(Version) : \A i, j \in DOMAIN v : i < j /\ v[j].block # Null =>
                           v[i].block # Null /\ v[i].block >= v[j].block}
TokenRow ==
  [tracked : BOOLEAN, type : Types, name : [quality : 0..3, key : Quantity],
   words : SUBSET {"name", "symbol", "description"}, near : Nat, symbol : Quantity, body : Quantity,
   icon : Uri \cup {"none"}, decimals : Nat, genesis : Nat, age : Int, seen : Instant, fetched : Instant,
   state : [verified : Instant, burned : BOOLEAN, minting : BOOLEAN, supply : Quantity, holders : Quantity,
            gini : 0..100 \cup {Null}, nfts : Quantity],
   cauldron : Venue, fex : Pools,
   prices : Seq(Point), offers : Seq(Offer),
   crc20 : Crc20,
   profile : [total : Nat, verified : Nat, versions : Nat, first : Instant, changed : Instant,
              moved : Instant, pulled : BOOLEAN],
   owners : Seq([who : Int, balance : Nat]), versions : Versions]

(* The limits are numbers, ids are numbers in the order of their bytes,    *)
(* and every page starts with an untouched button.                         *)
ASSUME SiteAssumption ==
  /\ IsFiniteSet(Category) /\ Category \subseteq Int /\ IsFiniteSet(User)
  /\ {DailyVoteLimit, Cooldown, WatchCap, ReportWindow, LimitPerIp, LimitPerCategory} \subseteq Nat
  /\ IsFiniteSet(Image) /\ IsFiniteSet(Uri) /\ NoHash \notin Hash /\ IsFiniteSet(HistogramDecimals)
  /\ {PageSize, TopSize, SlowQuery, FirstSize, OwnerSize, OfferSize, RankSize} \subseteq Nat
  /\ Day \in Nat \ {0}
  /\ Key \subseteq {"grid", "leaders", "movers"} /\ {FreshFor, StaleFor} \subseteq [Key -> Nat]
  /\ Buttons \in [Button -> {Fresh(u, c, kind) : u \in User, c \in Category, kind \in {"vote", "star"}}]

(* The tables start as the code fills them: the votes of the past are      *)
(* within the limits.                                                      *)
Ballots(time) == [User \X Category -> {NoVote} \cup [vote : {"up", "down"}, at : 0..time]]
WithinLimits(standing) ==
  \A u \in User :
    /\ Cardinality({c \in Category : standing[<<u, c>>].vote = "up"}) <= WatchCap
    /\ \A d \in Days : Cardinality(VotedOn(standing, u, d)) <= DailyVoteLimit
ASSUME FirstAssumption ==
  \A f \in DOMAIN First :
    /\ First[f].now \in Nat /\ First[f].rows \subseteq [Category -> TokenRow]
    /\ First[f].decisions \subseteq [Hash -> [state : STRING, reason : STRING]]
    /\ First[f].ballots \subseteq Ballots(First[f].now)
    /\ \A standing \in First[f].ballots : WithinLimits(standing)

VARIABLES focus, moderations

parts == <<votes, reporting, icons, memo, browser>>
vars == <<data, parts, focus, moderations>>

Init ==
  /\ focus \in DOMAIN First
  /\ now = First[focus].now
  /\ rows \in First[focus].rows
  /\ \E S \in First[focus].hidden \cap SUBSET Tracked : hidden = [c \in Category |-> IF c \in S THEN now ELSE Never]
  /\ served = Served /\ buttons = Buttons
  /\ \E standing \in First[focus].ballots : VotesFrom(standing)
  /\ \E standing \in First[focus].decisions : IconsFrom(standing)
  /\ NoReportsYet /\ NothingMemoised /\ FirstVisit
  /\ moderations = 0

(* The endpoint behind every button that hides a token, which has to be    *)
(* one of the table of tokens; hiding one twice leaves it as it was.       *)
Moderate(c) ==
  /\ c \in Tracked
  /\ focus \in {"votes"} \cup Key /\ moderations < MaxModerations
  /\ moderations' = moderations + 1
  /\ hidden' = [hidden EXCEPT ![c] = IF @ = Never THEN now ELSE Never]
  /\ UNCHANGED <<now, rows, parts, focus>>

(* No statement outlasts its timeout.                                      *)
Tick ==
  /\ now < Horizon[focus]
  /\ Quiet /\ ~Filing /\ ~Computing
  /\ now' = now + 1
  /\ UNCHANGED <<rows, hidden, parts, focus, moderations>>

Follows(part) == focus = part /\ UNCHANGED <<focus, moderations>>

Next ==
  \/ Follows("votes") /\ VotesNext /\ UNCHANGED <<reporting, icons, memo, browser>>
  \/ Follows("reports") /\ ReportsNext /\ UNCHANGED <<votes, icons, memo, browser>>
  \/ Follows("icons") /\ IconsNext /\ UNCHANGED <<votes, reporting, memo, browser>>
  \/ \E k \in Key : Follows(k) /\ MemoNext(k) /\ UNCHANGED <<reporting, browser>>
  \/ Follows("browser") /\ BrowserNext /\ UNCHANGED <<reporting, memo>>
  \/ \E c \in Category : Moderate(c)
  \/ Tick

Spec == Init /\ [][Next]_vars

----------------------------------------------------------------------------
(* Votes, watchlists and reports keep within their limits, whatever runs   *)
(* at the same time and whatever fails.                                    *)
SiteLimits == LimitsHold /\ ReportLimits

(* A hidden token is on no page, in no list, in no search and in no answer *)
(* of the API, and leaves a memoised list within the life of its entry     *)
(* (the NOT_MODERATED clause of every query, cached).                      *)
HiddenNowhere ==
  /\ focus = "pages" => \A c \in ShownNow : hidden[c] = Never
  /\ HiddenLeavesMemo

(* Every page that counts, lists, ranks or describes tokens agrees with    *)
(* the directory: the totals, the numbers its filters promise, the places  *)
(* in its sorts and the row it shows of a token (+page.server.ts, stats,   *)
(* +layout.server.ts, api/tokens, token/[category]).                       *)
OnePictureOfTokens == focus = "pages" => PagesAgree
===============================================================================
