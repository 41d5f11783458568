------------------------------ MODULE MintWizard -----------------------------
(***************************************************************************)
(* The mint wizard: the page routes/mint, its sessions table               *)
(* (lib/server/mintSessions.ts), the broadcast endpoint, and the           *)
(* consolidation both wizards offer a wallet without a coin to pay from.   *)
(*                                                                         *)
(* The page is one browser tab; it may be closed at any moment and opened  *)
(* again.  Its unsigned genesis follows its fields while step 4 is shown   *)
(* and stays as it was on the other steps.  A kind of token is the token   *)
(* it creates, without its category.                                       *)
(*                                                                         *)
(* Simplifications.  Name, ticker, decimals, supply and icon are checked   *)
(* by the page and stored; they decide nothing else.  The owner pastes     *)
(* back what this page showed.  The cap on drafts is not met by two.       *)
(***************************************************************************)
EXTENDS PublishWizard

CONSTANTS
  MintSession,   \* mint session ids
  Kinds          \* the kinds of token that are minted

ASSUME KindsAssumption == Kinds \subseteq Tokens

VARIABLES
  mints,         \* user_mint_sessions
  page,          \* the open tab
  signedHex,     \* genesis transactions the wallet has signed for it
  mintCooling,   \* recentBroadcasts of the mint endpoint
  consolidation  \* the consolidation being signed, or NoTx

mintVars == <<mints, page, signedHex, mintCooling, consolidation>>
vars == <<walletVars, publishVars, mintVars>>

NoMint == [state |-> "absent", kind |-> Plain, out |-> 0, txid |-> 0, cat |-> 0]

NewPage == [step |-> 1, sid |-> 0, kind |-> Plain, out |-> 0, sats |-> 0, funds |-> {},
            plains |-> {}, build |-> NoTx, signed |-> NoTx, busy |-> "no", txid |-> 0, cat |-> 0]

MintInit ==
  /\ mints = [i \in MintSession |-> NoMint]
  /\ page = NewPage /\ signedHex = {} /\ mintCooling = FALSE /\ consolidation = NoTx

----------------------------------------------------------------------------
(* The table.                                                              *)

(* Mutant: a session that is not absent takes any state.                   *)
MintWritableAnyState(row, patch) == row.state # "absent"

MintWritable(row, patch) ==
  /\ row.state # "absent"
  /\ Sets(patch, "state") => row.state \in Allowed(patch.state)
  /\ Sets(patch, "txid") => row.txid = 0
  /\ Sets(patch, "cat") => row.cat = 0

PatchMint(i, patch) ==
  mints' = IF MintWritable(mints[i], patch) THEN [mints EXCEPT ![i] = Patched(@, patch)] ELSE mints

----------------------------------------------------------------------------
(* The page.                                                               *)

(* buildGenesisTx, or nothing while a field is missing.                    *)
RebuildGenesis(p) ==
  IF p.step # 4 THEN p
  ELSE [p EXCEPT !.build = IF p.kind = Plain \/ p.out = 0 THEN NoTx
                           ELSE BuildGenesisTx(p.sid, p.out, p.sats, p.kind)]

Show(p) == page' = RebuildGenesis(p)

(* A draft is taken up again: from the link of /mints, which does not give *)
(* the outpoint back, or the newest draft, which does.                     *)
Resume ==
  /\ page.step = 1 /\ page.sid = 0
  /\ \E i \in MintSession, linked \in BOOLEAN :
       /\ mints[i].state = "drafting"
       /\ page' = [NewPage EXCEPT !.sid = i, !.kind = mints[i].kind,
                     !.out = IF linked THEN 0 ELSE mints[i].out,
                     !.sats = IF mints[i].out = 0 THEN MinAuth ELSE Output(accepted, <<mints[i].out, 0>>).sats]
  /\ UNCHANGED <<walletVars, publishVars, mints, signedHex, mintCooling, consolidation>>

PickType ==
  /\ page.step = 1
  /\ \E k \in Kinds : k # page.kind /\ page' = [page EXCEPT !.kind = k]
  /\ UNCHANGED <<walletVars, publishVars, mints, signedHex, mintCooling, consolidation>>

(* The session exists from the first step on; its fields are saved on each *)
(* step, and a save that fails is only reported.                           *)
EnsureSession ==
  IF page.sid # 0 THEN page.sid
  ELSE CHOOSE i \in MintSession : mints[i].state = "absent"

SaveSession(i, saved) ==
  LET row == IF mints[i].state = "absent" THEN [NoMint EXCEPT !.state = "drafting"] ELSE mints[i]
  IN mints' = [mints EXCEPT ![i] =
                 IF saved THEN [row EXCEPT !.kind = page.kind, !.out = page.out] ELSE row]

CanLeave(p) == p.kind # Plain /\ (p.step = 4 => p.build # NoTx)

Forward ==
  /\ page.step < 5 /\ CanLeave(page)
  /\ page.sid # 0 \/ \E i \in MintSession : mints[i].state = "absent"
  /\ LET i == EnsureSession IN
       /\ \/ SaveSession(i, TRUE) /\ UNCHANGED faults
          \/ faults < MaxFaults /\ faults' = faults + 1 /\ SaveSession(i, FALSE)
       /\ Show([page EXCEPT !.sid = i, !.step = @ + 1])
  /\ UNCHANGED <<walletVars, server, req, pages, outside, docs, history, signedHex,
                 mintCooling, consolidation>>

(* The stepper goes back from any step, also while a request runs.         *)
Back ==
  /\ page.step > 1
  /\ Show([page EXCEPT !.step = @ - 1])
  /\ UNCHANGED <<walletVars, publishVars, mints, signedHex, mintCooling, consolidation>>

(* The answer selects the largest coin when none is.                       *)
FetchFundingUtxos ==
  /\ page.step = 4
  /\ LET seen == FetchWalletUtxos
         funds == FundingUtxos(seen)
         best == CHOOSE u \in funds : \A v \in funds : v.sats <= u.sats
         got == [page EXCEPT !.funds = funds, !.plains = PlainUtxos(seen)]
     IN Show(IF funds # {} /\ page.out = 0
             THEN [got EXCEPT !.out = best.coin[1], !.sats = best.sats] ELSE got)
  /\ UNCHANGED <<walletVars, publishVars, mints, signedHex, mintCooling, consolidation>>

SelectOutpoint ==
  /\ page.step = 4
  /\ \E u \in page.funds : Show([page EXCEPT !.out = u.coin[1], !.sats = u.sats])
  /\ UNCHANGED <<walletVars, publishVars, mints, signedHex, mintCooling, consolidation>>

(* The wallet signs what step 5 shows, or an earlier signature is pasted.  *)
SignGenesis ==
  /\ page.step = 5 /\ page.busy = "no" /\ page.build # NoTx
  /\ signedHex' = signedHex \cup {page.build}
  /\ page' = [page EXCEPT !.signed = page.build]
  /\ UNCHANGED <<walletVars, publishVars, mints, mintCooling, consolidation>>

PasteSigned ==
  /\ page.step = 5 /\ page.busy = "no"
  /\ \E tx \in signedHex : tx # page.signed /\ page' = [page EXCEPT !.signed = tx]
  /\ UNCHANGED <<walletVars, publishVars, mints, signedHex, mintCooling, consolidation>>

PostGenesis ==
  /\ page.step = 5 /\ page.busy = "no" /\ page.signed # NoTx /\ ~mintCooling
  /\ page' = [page EXCEPT !.busy = "sending"]
  /\ UNCHANGED <<walletVars, publishVars, mints, signedHex, mintCooling, consolidation>>

(* The endpoint: any transaction the node takes.                           *)
SendGenesis ==
  /\ page.busy = "sending"
  /\ mintCooling' = TRUE
  /\ \/ /\ Acceptable(page.signed) /\ Accept(page.signed)
        /\ page' = [page EXCEPT !.busy = "answered", !.txid = Len(accepted) + 1]
        /\ UNCHANGED faults
     \/ /\ Acceptable(page.signed) /\ Accept(page.signed)
        /\ faults < MaxFaults /\ faults' = faults + 1
        /\ page' = [page EXCEPT !.busy = "no"]
     \/ /\ ~Acceptable(page.signed) /\ UNCHANGED <<walletVars, faults>>
        /\ page' = [page EXCEPT !.busy = "no"]
  /\ UNCHANGED <<server, req, pages, outside, docs, history, mints, signedHex, consolidation>>

(* The page names the category of the genesis it shows now, not of the one *)
(* it sent.                                                                *)
MintedCategory == IF page.build = NoTx THEN 0 ELSE CHOOSE c \in 1..MaxTx : <<c, 0>> \in page.build.ins

Recorded == [state |-> "broadcast", txid |-> page.txid, cat |-> page.cat]

NameCategory ==
  /\ page.busy = "answered"
  /\ page' = [page EXCEPT !.cat = MintedCategory,
                !.busy = IF MintedCategory = 0 \/ page.sid = 0 THEN "done" ELSE "recording"]
  /\ UNCHANGED <<walletVars, publishVars, mints, signedHex, mintCooling, consolidation>>

RecordGenesis ==
  /\ page.busy = "recording"
  /\ \/ page.sid # 0 /\ PatchMint(page.sid, Recorded) /\ UNCHANGED faults
     \/ faults < MaxFaults /\ faults' = faults + 1 /\ UNCHANGED mints
  /\ page' = [page EXCEPT !.busy = "publishing"]
  /\ UNCHANGED <<walletVars, server, req, pages, outside, docs, history, signedHex, mintCooling,
                 consolidation>>

(* A publish session is opened for the category.  Its name is saved, its   *)
(* ticker is not: the page calls the field symbol and the endpoint does    *)
(* not know that one.                                                      *)
OpenPublishSession ==
  /\ page.busy = "publishing"
  /\ \/ \E s \in Session : CreateSession(s, page.cat)
     \/ /\ Drafts(page.cat) # {} \/ \A s \in Session : rows[s].state # "absent"
        /\ UNCHANGED rows
  /\ page' = [page EXCEPT !.busy = "done"]
  /\ UNCHANGED <<walletVars, cachedHead, req, cooling, pages, outside, docs, history, faults,
                 mints, signedHex, mintCooling, consolidation>>

Receipt ==
  /\ page.busy = "done"
  /\ page' = [page EXCEPT !.busy = "no", !.step = 6]
  /\ UNCHANGED <<walletVars, publishVars, mints, signedHex, mintCooling, consolidation>>

DiscardDraft ==
  /\ page.step # 6 /\ page.busy = "no"
  /\ IF page.sid = 0 THEN page' = NewPage /\ UNCHANGED mints
     ELSE LET patch == [state |-> "abandoned"] IN
          /\ PatchMint(page.sid, patch)
          /\ page' = IF MintWritable(mints[page.sid], patch) THEN NewPage ELSE page
  /\ UNCHANGED <<walletVars, publishVars, signedHex, mintCooling, consolidation>>

CloseTab ==
  /\ page # NewPage
  /\ faults < MaxFaults /\ faults' = faults + 1
  /\ page' = NewPage /\ signedHex' = {} /\ consolidation' = NoTx
  /\ UNCHANGED <<walletVars, server, req, pages, outside, docs, history, mints, mintCooling>>

----------------------------------------------------------------------------
(* The consolidation.                                                      *)

(* The mint page offers it when no coin can pay for a genesis, over the    *)
(* coins it fetched; the publish page when its wallet check says so, over  *)
(* the coins it fetches then.                                              *)
PrepareFunding ==
  /\ consolidation = NoTx
  /\ page.step = 4 /\ page.funds = {} /\ page.plains # {}
  /\ consolidation' = BuildConsolidationTx(page.plains)
  /\ consolidation' # NoTx
  /\ UNCHANGED <<walletVars, publishVars, mints, page, signedHex, mintCooling>>

AuthCoin(s) ==
  {u \in FetchWalletUtxos : u.coin = <<AuthHead(rows[s].cat).head, 0>>}

PrepareFundingConsolidation(s) ==
  /\ consolidation = NoTx
  /\ MaxStepForState(rows[s]) >= 5 /\ Genesis(rows[s].cat) \cap 1..mined # {}
  /\ PublishReadiness(FetchWalletUtxos, AuthCoin(s), AuthHead(rows[s].cat).says = "owner")
       = "consolidate-bch"
  /\ consolidation' = BuildConsolidationTx(PlainUtxos(FetchWalletUtxos))
  /\ consolidation' # NoTx
  /\ UNCHANGED <<walletVars, publishVars, mints, page, signedHex, mintCooling>>

SendConsolidation ==
  /\ consolidation # NoTx /\ ~mintCooling
  /\ consolidation' = NoTx /\ mintCooling' = TRUE
  /\ IF Acceptable(consolidation) THEN Accept(consolidation) ELSE UNCHANGED walletVars
  /\ UNCHANGED <<publishVars, mints, page, signedHex>>

MintCooldownEnds ==
  /\ mintCooling /\ mintCooling' = FALSE
  /\ UNCHANGED <<walletVars, publishVars, mints, page, signedHex, consolidation>>

MintPage ==
  \/ Resume \/ PickType \/ Forward \/ Back \/ FetchFundingUtxos \/ SelectOutpoint
  \/ SignGenesis \/ PasteSigned \/ PostGenesis \/ SendGenesis \/ NameCategory
  \/ RecordGenesis \/ OpenPublishSession \/ Receipt \/ DiscardDraft \/ CloseTab

Consolidations ==
  \/ PrepareFunding \/ (\E s \in Session : PrepareFundingConsolidation(s))
  \/ SendConsolidation \/ MintCooldownEnds

=============================================================================
