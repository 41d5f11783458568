-------------------------------- MODULE MCSite --------------------------------
(* The instance: three tokens, one voter, one reporter, one image, two     *)
(* operators, and seven rows that between them sit on every edge.          *)
EXTENDS Site

CONSTANTS u1, b1, b2, q1, q2, a1, m1, o1, o2

TwoButtons ==
  b1 :> Fresh(u1, 1, "vote") @@ b2 :> Fresh(u1, 1, "star")

Full ==
  [tracked |-> TRUE, type |-> "FT", name |-> [quality |-> 0, key |-> 2],
   words |-> {"name", "symbol"}, near |-> 2, symbol |-> 5, body |-> 7, icon |-> "u1", decimals |-> 0,
   genesis |-> 10, age |-> 28, seen |-> 3, fetched |-> 4,
   state |-> [verified |-> 5, burned |-> FALSE, minting |-> FALSE, supply |-> 20, holders |-> 2,
              gini |-> 40, nfts |-> 0],
   cauldron |-> [listed |-> TRUE, price |-> 4, tvl |-> 30],
   fex |-> [listed |-> TRUE, price |-> 5, tvl |-> 8, pools |-> 9],
   prices |-> <<[age |-> 10, price |-> 2, tvl |-> 20], [age |-> 4, price |-> 3, tvl |-> 24],
                [age |-> 0, price |-> 4, tvl |-> 30]>>,
   offers |-> <<[ask |-> 6, plain |-> TRUE], [ask |-> 3, plain |-> TRUE]>>,
   crc20 |-> NoCrc20,
   profile |-> [total |-> 2, verified |-> 2, versions |-> 2, first |-> -100, changed |-> -90,
                moved |-> Null, pulled |-> FALSE],
   owners |-> <<[who |-> 1, balance |-> 12], [who |-> 2, balance |-> 8]>>,
   versions |-> <<[name |-> 2, symbol |-> 5, verified |-> TRUE, block |-> 12],
                  [name |-> 1, symbol |-> 5, verified |-> TRUE, block |-> 10],
                  [name |-> 4, symbol |-> 5, verified |-> TRUE, block |-> 10],
                  [name |-> 4, symbol |-> 6, verified |-> TRUE, block |-> Null]>>]

(* Not yet enriched, a day old.                                            *)
New == [Full EXCEPT !.name = [quality |-> 3, key |-> Null], !.words = {}, !.near = 0, !.symbol = Null,
          !.body = Null, !.icon = "none", !.genesis = 40, !.age = 4, !.seen = 9, !.state = NoState,
          !.cauldron = NoPool, !.fex = NoPool @@ [pools |-> 0], !.prices = <<>>, !.offers = <<>>,
          !.profile = NoProfile, !.owners = <<>>, !.versions = <<>>]

(* Falling, the same value locked, on the edge between two tiers.          *)
Rival == [Full EXCEPT !.name = [quality |-> 1, key |-> 2], !.genesis = 11, !.age = 3, !.decimals = 1,
            !.state.gini = 90, !.state.holders = 3, !.state.supply = 30, !.fex = NoPool @@ [pools |-> 0],
            !.prices = <<[age |-> 5, price |-> 6, tvl |-> 40], [age |-> 1, price |-> 4, tvl |-> 30]>>,
            !.offers = <<[ask |-> 5, plain |-> FALSE]>>,
            !.profile.verified = 0, !.profile.moved = -1]

Collectible == [New EXCEPT !.type = "NFT", !.name = [quality |-> 2, key |-> 1], !.words = {"description"},
                  !.near = 0, !.age = 120, !.genesis = 5, !.icon = "u1",
                  !.state = [NoState EXCEPT !.nfts = 3, !.holders = 2, !.minting = TRUE],
                  !.offers = <<[ask |-> 2, plain |-> TRUE]>>,
                  !.owners = <<[who |-> 1, balance |-> 2], [who |-> 3, balance |-> 1]>>]

Covenant == [Full EXCEPT !.type = "FT+NFT", !.symbol = Null, !.name.key = Null, !.name.quality = 3,
               !.state.burned = TRUE, !.state.gini = 89, !.state.supply = 0, !.decimals = 3,
               !.crc20 = [detected |-> TRUE, symbol |-> 5, canonical |-> TRUE],
               !.cauldron.tvl = 0, !.profile.versions = 4, !.profile.changed = -3]

Copy == [Covenant EXCEPT !.crc20.canonical = FALSE, !.genesis = 12, !.state.gini = 0, !.age = 27,
           !.cauldron = NoPool, !.fex.price = 2, !.profile = NoProfile]

Unknown == [New EXCEPT !.tracked = FALSE]

SampleRows == <<Full, New, Rival, Collectible, Covenant, Copy, Unknown>>

(* Every three of them, in the order of the list.                          *)
EveryThree ==
  {[c \in Category |-> SampleRows[at[c]]] :
     at \in {f \in [Category -> DOMAIN SampleRows] : \A c, d \in Category : c < d => f[c] <= f[d]}}

Plain(c) == <<Full, Rival, Unknown>>[c]
ThreeRows == {[c \in Category |-> Plain(c)]}

NoBallots == [x \in User \X Category |-> NoVote]
Voted == [x \in User \X Category |->
            IF x[2] = 1 THEN [vote |-> "up", at |-> 0] ELSE IF x[2] = 2 THEN [vote |-> "down", at |-> 0] ELSE NoVote]

Undecided == [h \in Hash |-> NoDecision]
With(decision) == [h \in Hash |-> IF h \in Image THEN decision ELSE NoDecision]

Still == [now |-> 0, rows |-> ThreeRows, hidden |-> {{}}, ballots |-> {NoBallots}, decisions |-> {Undecided}]

FirstStates ==
  [votes |-> [Still EXCEPT !.now = 3], reports |-> Still, icons |-> Still,
   grid |-> Still, leaders |-> [Still EXCEPT !.ballots = {Voted}], movers |-> Still, browser |-> Still,
   pages |-> [now |-> 0, rows |-> EveryThree, hidden |-> SUBSET Category, ballots |-> {Voted},
              decisions |-> {With(As("cleared", "none")), With(As("blocked", "adult"))}]]

Clocks == [votes |-> 5, reports |-> 2, icons |-> 0, grid |-> 8, leaders |-> 11, movers |-> 11,
           browser |-> 0, pages |-> 0]
ServedFirst == [u \in Uri |-> CHOOSE i \in Image : TRUE]
FreshTicks == [grid |-> 1, leaders |-> 2, movers |-> 2]
StaleTicks == [grid |-> 3, leaders |-> 4, movers |-> 4]
Edges == <<1, 10, 100>>
Fees == [v \in Venues |-> IF v = "tapswap" THEN 30 ELSE 3]

Same == Permutations({o1, o2}) \cup Permutations({q1, q2})
===============================================================================
