------------------------------- MODULE Wizards -------------------------------
(***************************************************************************)
(* Both wizards over one wallet and one node, and what must hold of what   *)
(* they publish and record.                                                *)
(***************************************************************************)
EXTENDS MintWizard

CONSTANT Starts   \* what the wallet starts with: Plain for nothing, or a token minted and in a block

ASSUME StartsAssumption == Starts \subseteq Tokens

MintCoin == [NoTx EXCEPT !.what = "mint-coin", !.outs = <<[token |-> Plain, sats |-> MinAuth + Fee]>>]

WalletInit ==
  \E start \in Starts :
    IF start = Plain THEN accepted = <<>> /\ mined = 0
    ELSE accepted = <<MintCoin, BuildGenesisTx(0, 1, MinAuth + Fee, start)>> /\ mined = 2

Init == WalletInit /\ PublishInit /\ MintInit

Chain ==
  /\ Mine \/ \E k \in DOMAIN Fund : Arrive(k)
  /\ UNCHANGED <<publishVars, mintVars>>

(* Bound: the mint page is open over the wallet that starts with nothing,  *)
(* the publish endpoints are used over the one that starts with a token.   *)
Minting == ~(accepted # <<>> /\ accepted[1] = MintCoin)

(* Bound: once a payment has come that is too small to publish with,       *)
(* requests arrive one at a time.                                          *)
Poor == \E t \in DOMAIN accepted : accepted[t].what = "fund" /\ accepted[t].outs[1].sats < MinPublish
Running(requests) == {r \in Request : requests[r] # Idle}
OneAtATime == Poor => Running(req') \subseteq Running(req) \/ Cardinality(Running(req')) = 1

Next ==
  \/ Chain
  \/ PublishPages /\ UNCHANGED mintVars
  \/ ~Minting /\ PublishRequests /\ OneAtATime /\ UNCHANGED mintVars
  \/ Minting /\ MintPage
  \/ Consolidations

Spec == Init /\ [][Next]_vars

Publications(s) == {t \in DOMAIN accepted : accepted[t].what = "publish" /\ accepted[t].s = s}

TypeOK ==
  /\ mined \in 0..Len(accepted) /\ cachedHead \in 0..Len(accepted)
  /\ \A s \in Session : /\ rows[s].txid \in 0..Len(accepted)
                        /\ rows[s].doc \in 0..docs /\ rows[s].uri \in NoUri..docs
                        /\ held[s] \subseteq 1..docs
  /\ \A r \in Request : req[r].head \in 0..Len(accepted)
  /\ host \in 0..docs /\ hosted \subseteq 1..docs /\ disturbed \subseteq Session
  /\ page.step \in 1..6 /\ signedHex \subseteq {tx \in signedHex : tx.what = "genesis"}

(* No document goes on chain that a verification has not found at the      *)
(* address the session had then, whatever was pinned, hosted or            *)
(* canonicalized since.                                                    *)
PublishedWasHosted ==
  \A s \in Session : \A t \in Publications(s) : accepted[t].doc \in hosted

(* The transaction a session names was sent for it and carries its         *)
(* document.                                                               *)
RecordedMatches ==
  \A s \in Session : rows[s].txid # 0 =>
    /\ rows[s].txid \in Publications(s)
    /\ accepted[rows[s].txid].doc = rows[s].doc

(* A session publishes once, unless a fault or a second broadcast met its  *)
(* first.                                                                  *)
PublishedOnce ==
  \A s \in Session \ disturbed : Cardinality(Publications(s)) <= 1

Amount(coins, f(_)) == SumFunction([c \in coins |-> f(Output(accepted, c).token)])
Outputs(t) == {c \in Created(accepted) : c[1] = t}
Fungible(token) == token.ft
Unique(token) == IF token.nft THEN 1 ELSE 0

KeepsTokens(t) ==
  /\ Amount(accepted[t].ins, Fungible) = Amount(Outputs(t), Fungible)
  /\ Amount(accepted[t].ins, Unique) = Amount(Outputs(t), Unique)

(* A publication spends no token away, when every coin could be read.      *)
PublishKeepsTokens ==
  \A t \in DOMAIN accepted :
    accepted[t].what = "publish" /\ accepted[t].whole => KeepsTokens(t)

(* "a token UTXO misreported as plain here would get consolidated into a   *)
(* plain output and BURN the tokens": no consolidation does.               *)
ConsolidationKeepsTokens ==
  \A t \in DOMAIN accepted : accepted[t].what = "consolidate" => KeepsTokens(t)

(* The owner of the authority coin is not told that it is another's: it is *)
(* not so (README 6).                                                      *)
OwnerNotRefused == ~refused

(* A mint session names the category its transaction created: not so when  *)
(* the outpoint was changed meanwhile (README 6).                          *)
MintRecorded ==
  \A i \in MintSession : mints[i].txid # 0 =>
    <<mints[i].cat, 0>> \in accepted[mints[i].txid].ins

PublishLife == INSTANCE SessionLifecycle WITH
  NoTxid <- 0, state <- [s \in Session |-> rows[s].state], txid <- [s \in Session |-> rows[s].txid]

MintLife == INSTANCE SessionLifecycle WITH
  Session <- MintSession, NoTxid <- 0,
  state <- [i \in MintSession |-> mints[i].state], txid <- [i \in MintSession |-> mints[i].txid]

(* Both tables implement the lifecycle their modules state: rows only move *)
(* forward, whichever requests, tabs and faults met them.                  *)
SessionsRefine == PublishLife!Spec /\ MintLife!Spec

=============================================================================
