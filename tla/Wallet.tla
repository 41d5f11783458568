-------------------------------- MODULE Wallet -------------------------------
(***************************************************************************)
(* One wallet's coins, as the node has them and as the web app sees them,  *)
(* and the transactions the two wizards build from them:                   *)
(* lib/server/walletUtxos.ts, lib/server/bcmrPublishBuilder.ts,            *)
(* lib/mint/genesis.ts, lib/client/consolidationBuilder.ts and             *)
(* lib/client/txReadiness.ts.                                              *)
(*                                                                         *)
(* A transaction's id is its place in accepted, a coin is <<id, index>>.   *)
(* Amounts are in units a little above the dust limit, and the source's    *)
(* thresholds are rounded up to them.  Every output of a transaction pays  *)
(* the wallet, except the locator.  Blocks take transactions in order, and *)
(* the tail has processed a block when it is mined here; TailSync is about *)
(* the time in between.                                                    *)
(***************************************************************************)
EXTENDS Integers, Sequences, FiniteSets, Functions

CONSTANTS
  Fund,        \* the payments that reach the wallet: for each, what its coins may be
  MaxTx        \* bound on transactions

VARIABLES
  accepted,    \* the transactions the node took, oldest first
  mined        \* how many of them are in blocks

walletVars == <<accepted, mined>>

Plain == [nft |-> FALSE, ft |-> 0, cat |-> 0]
Data == [nft |-> FALSE, ft |-> 0, cat |-> -1]
Dust == 1
Fee == 1
MinAuth == 2         \* MIN_AUTHNFT_OUTPUT_SATS, and a genesis token output
MinPublish == 4      \* MIN_PUBLISH_COST_SATS
MinFunding == 3      \* MIN_FUNDING_SATS

Tokens == [nft : BOOLEAN, ft : Int, cat : Int]
ASSUME FundAssumption ==
  \A k \in DOMAIN Fund : Fund[k] \subseteq Seq([token : Tokens, sats : Nat])

NoTx == [what |-> "none", s |-> 0, ins |-> {}, outs |-> <<>>, doc |-> 0, whole |-> TRUE]

----------------------------------------------------------------------------
(* The node.                                                               *)

Created(acc) == {c \in (DOMAIN acc) \X (0..2) : c[2] < Len(acc[c[1]].outs)}

Output(acc, c) == acc[c[1]].outs[c[2] + 1]

SpentBy(acc, k) == UNION {acc[t].ins : t \in 1..k}

IsPlain(token) == token = Plain

(* The node takes a transaction whose inputs are all there and unspent; it *)
(* refuses one it has, whose inputs are then spent.                        *)
Acceptable(tx) ==
  /\ Len(accepted) < MaxTx
  /\ tx.ins \subseteq Created(accepted) \ SpentBy(accepted, Len(accepted))

Accept(tx) == accepted' = Append(accepted, tx) /\ UNCHANGED mined

Arrive(k) ==
  /\ k \in DOMAIN Fund
  /\ Len(SelectSeq(accepted, LAMBDA tx : tx.what = "fund")) = k - 1
  /\ Len(accepted) < MaxTx
  /\ \E coins \in Fund[k] : Accept([NoTx EXCEPT !.what = "fund", !.outs = coins])

Mine == mined < Len(accepted) /\ mined' = Len(accepted) /\ UNCHANGED accepted

----------------------------------------------------------------------------
(* What the server sees.                                                   *)

(* Confirmed coins come from live_token_utxo, which holds token coins only *)
(* and not their value; unconfirmed ones from the outputs of the mempool's *)
(* transactions, spent or not.                                             *)
ConfirmedUtxos ==
  {[coin |-> c, token |-> Output(accepted, c).token, sats |-> 0] :
     c \in {d \in Created(accepted) \ SpentBy(accepted, mined) :
              d[1] <= mined /\ Output(accepted, d).token.cat > 0}}

MempoolUtxos ==
  {[coin |-> c, token |-> Output(accepted, c).token, sats |-> Output(accepted, c).sats] :
     c \in {d \in Created(accepted) : d[1] > mined /\ Output(accepted, d).token # Data}}

FetchWalletUtxos == ConfirmedUtxos \cup MempoolUtxos

(* Each transaction is read again; where that read fails the coin loses    *)
(* its token.                                                              *)
VerifyUtxoTokenData(utxos, unread) ==
  {IF u.coin[1] \in unread THEN [u EXCEPT !.token = Plain] ELSE u : u \in utxos}

TotalSats(utxos) == SumFunction([u \in utxos |-> u.sats])
TotalFungible(utxos) == SumFunction([u \in utxos |-> u.token.ft])

BchUtxos(utxos) == {u \in utxos : IsPlain(u.token)}

(* The funding endpoint counts a coin with a zero token amount as plain.   *)
ZeroAmount(token) == ~IsPlain(token) /\ token.ft = 0

PlainUtxos(utxos) == {u \in utxos : (IsPlain(u.token) \/ ZeroAmount(u.token)) /\ u.sats >= Dust}

FundingUtxos(utxos) == {u \in PlainUtxos(utxos) : u.coin[2] = 0 /\ u.sats >= MinFunding}

----------------------------------------------------------------------------
(* The builders.                                                           *)

IsMergeable(u, cat) == u.token.cat = cat /\ ~u.token.nft

(* Smallest first, plain coins before tokens of the category, until the    *)
(* target is covered; nothing when all of them do not cover it.            *)
Before(u, v) ==
  \/ IsPlain(u.token) /\ ~IsPlain(v.token)
  \/ /\ IsPlain(u.token) = IsPlain(v.token)
     /\ \/ u.sats < v.sats
        \/ u.sats = v.sats /\ 3 * u.coin[1] + u.coin[2] < 3 * v.coin[1] + v.coin[2]

PickFundingUtxos(plainPool, mergeablePool, target) ==
  LET pool == plainPool \cup mergeablePool
      earlier(u) == {v \in pool : Before(v, u)}
  IN IF TotalSats(pool) < target THEN {} ELSE {u \in pool : TotalSats(earlier(u)) < target}

(* Mutant: the new authority coin is given its amount and not its NFT.    *)
AuthNftTokenFieldBare(auth, inputs) == [auth.token EXCEPT !.nft = FALSE]

(* The new authority coin keeps its token and takes in the fungible tokens *)
(* of the coins that pay for it.                                           *)
AuthNftTokenField(auth, inputs) ==
  [auth.token EXCEPT !.ft = @ + TotalFungible(inputs)]

(* NoTx stands for a build error.                                          *)
BuildBcmrPublishTx(s, auth, available, doc, whole) ==
  LET out == IF auth.sats > MinAuth THEN auth.sats ELSE MinAuth
      need == out + Fee - auth.sats
      inputs == PickFundingUtxos(BchUtxos(available),
                  {u \in available : IsMergeable(u, auth.token.cat)}, need)
      change == auth.sats + TotalSats(inputs) - out - Fee
      paid == <<[token |-> AuthNftTokenField(auth, inputs), sats |-> out],
                [token |-> Data, sats |-> 0]>>
  IN IF need > 0 /\ inputs = {} THEN NoTx
     ELSE [what |-> "publish", s |-> s, ins |-> {u.coin : u \in inputs \cup {auth}},
           outs |-> IF change >= Dust THEN Append(paid, [token |-> Plain, sats |-> change])
                    ELSE paid,
           doc |-> doc, whole |-> whole]

(* The category is the transaction whose first output pays for it.         *)
BuildGenesisTx(s, out, sats, token) ==
  IF sats < MinAuth + Fee THEN NoTx
  ELSE [what |-> "genesis", s |-> s, ins |-> {<<out, 0>>},
        outs |-> LET minted == <<[token |-> [token EXCEPT !.cat = out], sats |-> MinAuth]>>
                     change == sats - MinAuth - Fee
                 IN IF change >= Dust THEN Append(minted, [token |-> Plain, sats |-> change])
                    ELSE minted,
        doc |-> 0, whole |-> TRUE]

(* Everything it is given becomes one plain coin.                          *)
BuildConsolidationTx(utxos) ==
  IF TotalSats(utxos) - Fee < Dust THEN NoTx
  ELSE [NoTx EXCEPT !.what = "consolidate", !.ins = {u.coin : u \in utxos},
          !.outs = <<[token |-> Plain, sats |-> TotalSats(utxos) - Fee]>>]

----------------------------------------------------------------------------
(* What the pages advise.                                                  *)

(* The publish page: the server's counts become stand-in coins, an owned   *)
(* authority coin among them and without its token, so that it counts as   *)
(* plain and its value twice.                                              *)
PublishReadiness(utxos, auth, owns) ==
  LET plain == TotalSats(BchUtxos(utxos))
      worth == TotalSats(auth)
      standIns == (IF owns THEN auth ELSE {}) \cup {u \in BchUtxos(utxos) : plain > 0}
  IN IF plain + worth + (IF owns THEN worth ELSE 0) < MinPublish
       THEN IF standIns # {} THEN "consolidate-bch" ELSE "send-bch"
       ELSE IF owns /\ auth # {} THEN "ready" ELSE "cant-fix"

----------------------------------------------------------------------------
(* The authchain.                                                          *)

Genesis(cat) ==
  {t \in DOMAIN accepted : accepted[t].what = "genesis" /\ <<cat, 0>> \in accepted[t].ins}

(* The transaction that spends output 0 of t, among the first k.           *)
Child(t, k) == {u \in 1..k : <<t, 0>> \in accepted[u].ins}

(* The last transaction reached from t over the children among the first k *)
Walked(t, k) ==
  LET hop[i \in 0..Len(accepted)] ==
        IF i = 0 THEN t
        ELSE IF Child(hop[i - 1], k) = {} THEN hop[i - 1]
        ELSE CHOOSE u \in Child(hop[i - 1], k) : TRUE
  IN hop[Len(accepted)]

=============================================================================
