---------------------------- MODULE BcmrWatchdog ----------------------------
(***************************************************************************)
(* The metadata watchdog of one token category: the hourly walker          *)
(* sync-bcmr-onchain, the drainer sync-bcmr-events, the daily registry     *)
(* import sync-bcmr-otr and the nudge of the publish wizard, over their    *)
(* Postgres tables.                                                        *)
(*                                                                         *)
(* The category's authchain is a list of hops, numbered from the genesis   *)
(* transaction; hop h may publish a document by its hash and the address   *)
(* of the host that serves it.  A host serves the right document, a wrong  *)
(* one or nothing, and changes its mind.  The walker reads the chain from  *)
(* the edges sync-tail indexed, fetches every document again, archives it  *)
(* and notes what changed as events, which the drainer posts to a webhook. *)
(*                                                                         *)
(* One action is one SQL statement or transaction, with the reads that     *)
(* precede it: the advisory locks leave one walker and one drainer.        *)
(* Hours are counted as ages of rows and pass between walks only.          *)
(***************************************************************************)
EXTENDS Naturals, Sequences, FiniteSets

CONSTANTS
    NHops,         \* length the authchain can reach
    MaxHops,       \* hops one walk follows, BCMR_ONCHAIN_MAX_HOPS
    Doc,           \* documents, identified with their hashes
    HopDoc,        \* the document each hop publishes, or None
    Addr,          \* addresses that may hold the authority
    HopAddr,       \* who holds the authority at each hop, or None
    HopHeight,     \* the block of each hop
    Parsing,       \* the documents that parse as a token's metadata
    Big,           \* the documents above the inline cap
    Claimed,       \* what a forged document says
    Listed,        \* what the community registry says, or None
    None,
    PulledAfter,   \* hours until a failing head counts as pulled
    StaleAfter,    \* hours until a category is walked again
    FastCeiling,   \* failures up to which a failing head is walked hourly
    MaxAttempts,   \* deliveries tried per event
    MaxChanges,    \* bound: changes of a host
    MaxFaults      \* bound: failed statements, crashes, lost answers

Hops == 1..NHops
MaybeDoc == Doc \union {None}
Fields == Doc \union {None, Claimed}
Source == {"none", "onchain", "onchain-empty", "otr"}
HostState == {"good", "forged", "garbage", "down"}

ASSUME WatchdogConstants ==
    /\ NHops \in Nat \ {0} /\ MaxHops \in Nat \ {0}
    /\ HopDoc \in [Hops -> MaybeDoc]
    /\ HopAddr \in [Hops -> Addr \union {None}]
    /\ HopHeight \in [Hops -> Nat]
    /\ \A h \in 1..(NHops - 1) : HopHeight[h] <= HopHeight[h + 1]
    /\ Parsing \subseteq Doc /\ Big \subseteq Doc
    /\ Claimed \notin Doc /\ None \notin Doc \union Addr /\ Claimed # None
    /\ None \notin Nat
    /\ {PulledAfter, StaleAfter, FastCeiling, MaxAttempts} \subseteq Nat \ {0}
    /\ MaxChanges \in Nat /\ MaxFaults \in Nat

VARIABLES
    onchain,    \* hops that are confirmed
    indexed,    \* hops authchain_edge knows
    host,       \* what each hop's host serves
    history,    \* token_metadata_history, one row or None per hop
    observed,   \* the hops with a row, in the order of observed_at
    meta,       \* the category's token_metadata row
    headCache,  \* tokens.authchain_head_txid, 0 when unset
    profile,    \* token_bcmr_profile, or None
    iconQueue,  \* the documents whose icon was queued for scanning
    events,     \* bcmr_change_events in the order of their ids
    walk,       \* the walker's local state
    batch,      \* ids the drainer still has to post
    changes, faults,   \* environment steps so far
    announced,  \* history: the outage of hop h in progress was noted
    cut         \* history: hops a walk left between verifying and noting it

tables == <<history, observed, meta, headCache, profile, iconQueue, events>>
vars == <<onchain, indexed, host, history, observed, meta, headCache, profile,
          iconQueue, events, walk, batch, changes, faults, announced, cut>>

-----------------------------------------------------------------------------
(* Rows *)

Lesser(a, b) == IF a < b THEN a ELSE b
NoRow == [seen |-> FALSE, height |-> None, verified |-> FALSE, body |-> None,
          unverified |-> FALSE, fields |-> None, addr |-> None, oversize |-> FALSE,
          fails |-> 0, lastAge |-> None, due |-> FALSE, epoch |-> 0]
RowSet == [seen : BOOLEAN, height : Nat \union {None}, verified : BOOLEAN,
           body : MaybeDoc, unverified : BOOLEAN, fields : Fields,
           addr : Addr \union {None}, oversize : BOOLEAN,
           fails : 0..(FastCeiling + 1), lastAge : 0..PulledAfter \union {None},
           due : BOOLEAN, epoch : Nat]
Idle == [pc |-> "idle", n |-> 0, head |-> 0, hop |-> 0, blind |-> 0,
         inserted |-> FALSE, restores |-> FALSE, matched |-> "none", best |-> 0]

(* Mutant: the latest capture replaces the first. *)
KeepLatest(old, new) == IF new # None THEN new ELSE old

(* COALESCE(existing, EXCLUDED) *)
Keep(old, new) == IF old # None THEN old ELSE new

Seen == {h \in Hops : history[h].seen}
Verified == {h \in Seen : history[h].verified}
Locators(n) == {h \in 1..n : HopDoc[h] # None}
IsHead(h) == h = onchain /\ h = indexed /\ h <= MaxHops
PositionOf(h) == CHOOSE i \in DOMAIN observed : observed[i] = h

(* ORDER BY block_height DESC NULLS LAST, observed_at DESC *)
Later(g, h) ==
    LET hg == history[g].height
        hh == history[h].height
    IN \/ hg # None /\ hh = None
       \/ hg # None /\ hh # None /\ hg > hh
       \/ hg = hh /\ PositionOf(g) > PositionOf(h)

(* get_prior_verified_version: the verified version before hop h, 0 if none *)
PriorVerified(h) ==
    LET others == Verified \ {h}
    IN IF others = {} THEN 0
       ELSE CHOOSE g \in others : \A k \in others \ {g} : Later(g, k)

EventOf(h, type, epoch, prior) ==
    [hop |-> h, type |-> type, epoch |-> epoch, prior |-> prior,
     delivered |-> FALSE, attempts |-> 0, got |-> 0]
Noted(h, type, epoch) ==
    \E i \in DOMAIN events :
        events[i].hop = h /\ events[i].type = type /\ events[i].epoch = epoch

(* insert_bcmr_change_event: the unique indexes drop a second one *)
Insert(e) ==
    events' = IF Noted(e.hop, e.type, e.epoch) THEN events ELSE Append(events, e)

(* recompute_token_bcmr_profile *)
Summary ==
    [versions |-> Cardinality({HopDoc[h] : h \in Seen}),
     verified |-> Cardinality(Verified),
     total |-> Cardinality(Seen),
     moved |-> \E i \in DOMAIN events : events[i].type = "authority_moved",
     everPulled |-> \E i \in DOMAIN events : events[i].type = "version_pulled"]

-----------------------------------------------------------------------------
(* The world: blocks, hosts, time, the other writers *)

WorldVars == <<walk, batch, faults, announced, cut>>

(* The publisher appends a hop to the authchain; *)
ChainGrows ==
    /\ onchain < NHops /\ onchain' = onchain + 1
    /\ UNCHANGED <<indexed, host, changes, tables, WorldVars>>

(* sync-tail records its edge; *)
EdgeIndexed ==
    /\ indexed < onchain /\ indexed' = indexed + 1
    /\ UNCHANGED <<onchain, host, changes, tables, WorldVars>>

(* a host starts serving something else; *)
HostChanges ==
    /\ changes < MaxChanges /\ changes' = changes + 1
    /\ \E h \in Locators(NHops), s \in HostState \ {"good"} :
          host' = [host EXCEPT ![h] = IF @ = "good" THEN s ELSE "good"]
    /\ UNCHANGED <<onchain, indexed, tables, WorldVars>>

(* an hour passes between two walks. *)
Hour ==
    /\ walk = Idle
    /\ history' = [h \in Hops |->
          IF ~history[h].seen THEN history[h]
          ELSE [history[h] EXCEPT !.due = TRUE,
                    !.lastAge = IF @ = None THEN None ELSE Lesser(@ + 1, PulledAfter)]]
    /\ meta' = [meta EXCEPT !.age = Lesser(@ + 1, StaleAfter)]
    /\ UNCHANGED <<onchain, indexed, host, changes, observed, headCache, profile,
                   iconQueue, events, WorldVars>>

(* The publish wizard after a broadcast: two updates, the second may fail. *)
NudgeBcmrIndexer ==
    /\ headCache # onchain
    /\ headCache' = onchain
    /\ \/ meta' = [meta EXCEPT !.age = StaleAfter]
       \/ UNCHANGED meta
    /\ UNCHANGED <<onchain, indexed, host, changes, history, observed, profile,
                   iconQueue, events, WorldVars>>

(* Mutant: the registry import overwrites on-chain metadata. *)
FillAnyFromRegistry ==
    /\ Listed # None /\ meta.source # "none"
    /\ meta' = [meta EXCEPT !.source = "otr", !.doc = Listed]
    /\ iconQueue' = iconQueue \union {Listed}
    /\ UNCHANGED <<onchain, indexed, host, changes, history, observed, headCache,
                   profile, events, WorldVars>>

(* sync-bcmr-otr: fills what no on-chain document fills, never the age. *)
FillFromRegistry ==
    /\ Listed # None
    /\ meta.source \notin {"none", "onchain"}
    /\ meta' = [meta EXCEPT !.source = "otr", !.doc = Listed]
    /\ iconQueue' = iconQueue \union {Listed}
    /\ UNCHANGED <<onchain, indexed, host, changes, history, observed, headCache,
                   profile, events, WorldVars>>

-----------------------------------------------------------------------------
(* The walker *)

Outside == <<onchain, indexed, host, changes, batch>>

(* pick_bcmr_onchain_batch, priority 0: the newest version failed lately *)
FailingHead ==
    \E h \in Seen :
        /\ ~history[h].verified /\ history[h].lastAge # None
        /\ history[h].fails \in 1..FastCeiling
        /\ history[h].due
        /\ history[h].height # None
        /\ \A g \in Seen :
              history[g].height # None => history[g].height <= history[h].height

(* Mutant: categories already walked are not walked again. *)
PickUnlessWalked ==
    /\ walk = Idle
    /\ FailingHead \/ meta.source = "none"
    /\ walk' = [Idle EXCEPT !.pc = "chain"]
    /\ UNCHANGED <<Outside, tables, faults, announced, cut>>

Pick ==
    /\ walk = Idle
    /\ FailingHead \/ meta.source = "none" \/ meta.age = StaleAfter
    /\ walk' = [Idle EXCEPT !.pc = "chain"]
    /\ UNCHANGED <<Outside, tables, faults, announced, cut>>

(* walk_authchain: one read of each hop's edge; a head the index shows unspent *)
(* and the node does not is an error.  A header call that fails leaves one hop *)
(* without its height.                                                         *)
WalkAuthchain ==
    /\ walk.pc = "chain"
    /\ IF indexed <= MaxHops /\ indexed < onchain
       THEN walk' = Idle /\ UNCHANGED faults
       ELSE LET n == Lesser(indexed, MaxHops)
            IN \E b \in 0..n :
                 /\ IF b = 0 THEN UNCHANGED faults
                    ELSE faults < MaxFaults /\ faults' = faults + 1
                 /\ walk' = [walk EXCEPT !.pc = "head", !.n = n, !.blind = b,
                                !.head = IF indexed <= MaxHops THEN n ELSE 0]
    /\ UNCHANGED <<Outside, tables, announced, cut>>

(* The next hop with a publication, or what follows the loop *)
NextHop(w) ==
    LET rest == {h \in Locators(w.n) : h > w.hop}
    IN IF rest # {}
       THEN [w EXCEPT !.pc = "fetch", !.matched = "none",
                      !.inserted = FALSE, !.restores = FALSE,
                      !.hop = CHOOSE h \in rest : \A g \in rest : h <= g]
       ELSE [w EXCEPT !.pc = IF w.best # 0 THEN "icon" ELSE "mark",
                      !.matched = "none", !.inserted = FALSE, !.restores = FALSE]

(* update_token_authchain_head, only for a head that was reached *)
CacheHead ==
    /\ walk.pc = "head"
    /\ headCache' = IF walk.head = 0 THEN headCache ELSE walk.head
    /\ walk' = NextHop(walk)
    /\ UNCHANGED <<Outside, history, observed, meta, profile, iconQueue, events,
                   faults, announced, cut>>

(* fetch_and_verify_bcmr: the right bytes, others that do or do not parse, none *)
Fetched(h) == host[h]

(* What one fetch of hop h's document adds to its row *)
Capture(h, s) ==
    LET d == HopDoc[h]
    IN [body |-> IF s = "good" /\ d \notin Big THEN d ELSE None,
        oversize |-> s = "good" /\ d \in Big,
        unverified |-> s = "forged",
        fields |-> CASE s = "good" /\ d \in Parsing -> d
                     [] s = "forged" -> Claimed
                     [] OTHER -> None]

(* fetch_and_verify_bcmr and upsert_token_metadata_history.  What was *)
(* captured first is kept; a success resets the counter and the clock. *)
RecordVersion ==
    LET h == walk.hop
        s == Fetched(h)
        c == Capture(h, s)
        r == history[h]
        good == s = "good"
    IN /\ walk.pc = "fetch"
       /\ history' = [history EXCEPT ![h] =
            [seen |-> TRUE,
             height |-> IF walk.blind = h THEN None ELSE HopHeight[h],
             verified |-> good,
             body |-> Keep(r.body, c.body),
             unverified |-> r.unverified \/ c.unverified,
             fields |-> Keep(r.fields, c.fields),
             addr |-> Keep(r.addr, HopAddr[h]),
             oversize |-> r.oversize \/ c.oversize,
             fails |-> IF good THEN 0 ELSE Lesser(r.fails + 1, FastCeiling + 1),
             lastAge |-> IF good THEN 0 ELSE r.lastAge,
             due |-> FALSE,
             epoch |-> r.epoch]]
       /\ observed' = IF r.seen THEN observed ELSE Append(observed, h)
       /\ walk' = [walk EXCEPT !.pc = "version", !.inserted = ~r.seen,
                     !.restores = good /\ r.seen /\ ~r.verified, !.matched = s,
                     !.best = IF good /\ HopDoc[h] \in Parsing THEN h ELSE @]
       /\ announced' = [announced EXCEPT ![h] = @ /\ ~good]
       /\ UNCHANGED <<Outside, meta, headCache, profile, iconQueue, events, faults, cut>>

Emitting == <<Outside, history, observed, meta, headCache, profile, iconQueue, faults>>

(* detect_and_emit_events, a hop seen for the first time: a verified version *)
(* that differs from the one before it, or a body that is not the published  *)
(* one.  A document that could not be fetched is not announced.              *)
EmitVersion ==
    LET h == walk.hop
        p == PriorVerified(h)
        changed == walk.matched = "good" /\ p # 0 /\ HopDoc[p] # HopDoc[h]
    IN /\ walk.pc = "version"
       /\ CASE walk.inserted /\ changed -> Insert(EventOf(h, "new_version", 0, p))
            [] walk.inserted /\ walk.matched \in {"forged", "garbage"}
                 -> Insert(EventOf(h, "version_mismatch", 0, p))
            [] OTHER -> UNCHANGED events
       /\ walk' = [walk EXCEPT !.pc = "moved"]
       /\ UNCHANGED <<Emitting, announced, cut>>

(* authority_moved: both holders known and different *)
EmitMoved ==
    LET h == walk.hop
        p == PriorVerified(h)
        moved == /\ walk.inserted /\ walk.matched = "good" /\ p # 0
                 /\ history[p].addr # None /\ HopAddr[h] # None
                 /\ history[p].addr # HopAddr[h]
    IN /\ walk.pc = "moved"
       /\ IF moved THEN Insert(EventOf(h, "authority_moved", 0, p))
                   ELSE UNCHANGED events
       /\ walk' = [walk EXCEPT !.pc = "outage"]
       /\ UNCHANGED <<Emitting, announced, cut>>

(* Mutant: a restore is announced whether or not its pull was. *)
PullNotedAlways(h) == TRUE

(* pulled_event_exists *)
PullNoted(h) == Noted(h, "version_pulled", history[h].epoch)

(* The head: a body that has not verified for PulledAfter hours was pulled; *)
(* one that verifies again was restored, if the pull was noted.            *)
EmitOutage ==
    LET h == walk.hop
        r == history[h]
        head == h = walk.head
        pulled == head /\ ~r.verified /\ r.lastAge = PulledAfter
        restored == head /\ walk.restores /\ PullNoted(h)
    IN /\ walk.pc = "outage"
       /\ CASE pulled -> /\ Insert(EventOf(h, "version_pulled", r.epoch, 0))
                         /\ announced' = [announced EXCEPT
                                ![h] = @ \/ ~Noted(h, "version_pulled", r.epoch)]
            [] restored -> /\ Insert(EventOf(h, "version_restored", r.epoch, 0))
                           /\ UNCHANGED announced
            [] OTHER -> UNCHANGED <<events, announced>>
       /\ walk' = IF restored THEN [walk EXCEPT !.pc = "bump"] ELSE NextHop(walk)
       /\ UNCHANGED <<Emitting, cut>>

(* Mutant: the epoch stays. *)
BumpNothing ==
    /\ walk.pc = "bump"
    /\ walk' = NextHop(walk)
    /\ UNCHANGED <<Outside, history, observed, meta, headCache, profile, iconQueue,
                   events, faults, announced, cut>>

(* bump_pull_epoch *)
BumpPullEpoch ==
    /\ walk.pc = "bump"
    /\ history' = [history EXCEPT ![walk.hop].epoch = @ + 1]
    /\ walk' = NextHop(walk)
    /\ UNCHANGED <<Outside, observed, meta, headCache, profile, iconQueue, events,
                   faults, announced, cut>>

(* ensure_icon_url_scan_row for the icon of the version that will be shown *)
QueueIcon ==
    /\ walk.pc = "icon"
    /\ iconQueue' = iconQueue \union {HopDoc[walk.best]}
    /\ walk' = [walk EXCEPT !.pc = "show"]
    /\ UNCHANGED <<Outside, history, observed, meta, headCache, profile, events,
                   faults, announced, cut>>

(* upsert_token_metadata_onchain *)
ShowVersion ==
    /\ walk.pc = "show"
    /\ meta' = [source |-> "onchain", doc |-> HopDoc[walk.best], age |-> 0]
    /\ walk' = [walk EXCEPT !.pc = "profile"]
    /\ UNCHANGED <<Outside, history, observed, headCache, profile, iconQueue, events,
                   faults, announced, cut>>

(* mark_no_locator_walked: a new row is a sentinel, an old one only gets its age *)
MarkWalked ==
    /\ walk.pc = "mark"
    /\ meta' = IF meta.source = "none"
               THEN [source |-> "onchain-empty", doc |-> None, age |-> 0]
               ELSE [meta EXCEPT !.age = 0]
    /\ walk' = [walk EXCEPT !.pc = "profile"]
    /\ UNCHANGED <<Outside, history, observed, headCache, profile, iconQueue, events,
                   faults, announced, cut>>

RecomputeProfile ==
    /\ walk.pc = "profile"
    /\ profile' = IF Locators(walk.n) = {} THEN profile ELSE Summary
    /\ walk' = Idle
    /\ UNCHANGED <<Outside, history, observed, meta, headCache, iconQueue, events,
                   faults, announced, cut>>

(* A hop whose outage transition a walk will not come back to *)
Unnoted == IF walk.pc \in {"version", "moved", "outage", "bump"} /\ walk.restores
           THEN {walk.hop} ELSE {}

(* A statement fails: the hop's remaining events are given up, best-effort    *)
(* statements are skipped, and the metadata upsert or the walk of the chain   *)
(* give up the category.                                                      *)
StatementFails ==
    /\ walk.pc # "idle"
    /\ faults < MaxFaults /\ faults' = faults + 1
    /\ walk' = CASE walk.pc \in {"chain", "show", "profile"} -> Idle
                 [] walk.pc \in {"head", "fetch", "version", "moved", "outage", "bump"}
                      -> NextHop(walk)
                 [] walk.pc = "icon" -> [walk EXCEPT !.pc = "show"]
                 [] walk.pc = "mark" -> [walk EXCEPT !.pc = "profile"]
    /\ cut' = cut \union Unnoted
    /\ UNCHANGED <<Outside, tables, announced>>

(* The process dies, or is restarted with the machine. *)
Crash ==
    /\ walk # Idle
    /\ faults < MaxFaults /\ faults' = faults + 1
    /\ walk' = Idle
    /\ cut' = cut \union Unnoted
    /\ UNCHANGED <<Outside, tables, announced>>

-----------------------------------------------------------------------------
(* The drainer *)

DrainFrame == <<onchain, indexed, host, changes, history, observed, meta, headCache,
                profile, iconQueue, walk, announced, cut>>

(* Mutant: delivered events again. *)
UndeliveredOrNot == {i \in DOMAIN events : events[i].attempts < MaxAttempts}

(* pick_undelivered_events: oldest first, the exhausted ones never again *)
Undelivered == {i \in DOMAIN events : ~events[i].delivered /\ events[i].attempts < MaxAttempts}

PickUndelivered ==
    /\ batch = {} /\ Undelivered # {}
    /\ batch' = Undelivered
    /\ UNCHANGED <<DrainFrame, events, faults>>

Oldest(i) == i \in batch /\ \A j \in batch : i <= j

(* deliver and mark_event_delivered *)
Deliver(i) ==
    /\ Oldest(i)
    /\ events' = [events EXCEPT ![i].delivered = TRUE, ![i].got = @ + 1]
    /\ batch' = batch \ {i}
    /\ UNCHANGED <<DrainFrame, faults>>

(* Mutant: a refused delivery is not counted. *)
RefuseUncounted(i) ==
    /\ Oldest(i)
    /\ batch' = batch \ {i}
    /\ UNCHANGED <<DrainFrame, events, faults>>

(* The webhook refuses: mark_event_delivery_failed. *)
Refuse(i) ==
    /\ Oldest(i)
    /\ events' = [events EXCEPT ![i].attempts = @ + 1]
    /\ batch' = batch \ {i}
    /\ UNCHANGED <<DrainFrame, faults>>

(* It accepts, and either the answer is lost or the mark is. *)
DeliverUnmarked(i) ==
    /\ Oldest(i)
    /\ faults < MaxFaults /\ faults' = faults + 1
    /\ events' = [events EXCEPT ![i].got = @ + 1]
    /\ \/ batch' = batch \ {i}
       \/ batch' = {}
    /\ UNCHANGED DrainFrame
DeliverTimesOut(i) ==
    /\ Oldest(i)
    /\ faults < MaxFaults /\ faults' = faults + 1
    /\ events' = [events EXCEPT ![i].got = @ + 1, ![i].attempts = @ + 1]
    /\ batch' = batch \ {i}
    /\ UNCHANGED DrainFrame

-----------------------------------------------------------------------------
Init ==
    /\ onchain = 1 /\ indexed = 1
    /\ host = [h \in Hops |-> "good"]
    /\ history = [h \in Hops |-> NoRow]
    /\ observed = <<>>
    /\ meta = [source |-> "none", doc |-> None, age |-> 0]
    /\ headCache = 0 /\ profile = None /\ iconQueue = {}
    /\ events = <<>>
    /\ walk = Idle /\ batch = {}
    /\ changes = 0 /\ faults = 0
    /\ announced = [h \in Hops |-> FALSE] /\ cut = {}

WalkStep ==
    \/ Pick \/ WalkAuthchain \/ CacheHead \/ RecordVersion \/ EmitVersion
    \/ EmitMoved \/ EmitOutage \/ BumpPullEpoch \/ QueueIcon \/ ShowVersion
    \/ MarkWalked \/ RecomputeProfile
DrainStep ==
    \/ PickUndelivered
    \/ \E i \in batch : Deliver(i) \/ Refuse(i)
World == ChainGrows \/ EdgeIndexed \/ HostChanges \/ NudgeBcmrIndexer \/ FillFromRegistry
Lapse ==
    \/ StatementFails \/ Crash
    \/ \E i \in batch : DeliverUnmarked(i) \/ DeliverTimesOut(i)
Next == WalkStep \/ DrainStep \/ World \/ Hour \/ Lapse

(* The timers of the walker and the drainer fire for ever, time passes, and *)
(* sync-tail indexes what is confirmed.  Nothing is assumed of hosts.       *)
Fairness ==
    /\ WF_vars(WalkStep) /\ WF_vars(DrainStep) /\ WF_vars(Hour) /\ WF_vars(EdgeIndexed)
Spec == Init /\ [][Next]_vars /\ Fairness

-----------------------------------------------------------------------------
(* Properties *)

EventSet == [hop : Hops, epoch : Nat, prior : 0..NHops,
             type : {"new_version", "version_mismatch", "authority_moved",
                     "version_pulled", "version_restored"},
             delivered : BOOLEAN, attempts : 0..MaxAttempts, got : 0..(MaxFaults + 1)]
WalkSet == [pc : {"idle", "chain", "head", "fetch", "version", "moved", "outage",
                  "bump", "icon", "show", "mark", "profile"},
            n : 0..NHops, head : 0..NHops, hop : 0..NHops, blind : 0..NHops,
            inserted : BOOLEAN, restores : BOOLEAN,
            matched : HostState \union {"none"}, best : 0..NHops]

TypeOK ==
    /\ onchain \in Hops /\ indexed \in 1..onchain
    /\ host \in [Hops -> HostState]
    /\ history \in [Hops -> RowSet]
    /\ observed \in Seq(Hops)
    /\ meta \in [source : Source, doc : MaybeDoc \union {Listed}, age : 0..StaleAfter]
    /\ headCache \in 0..onchain
    /\ profile = None \/ profile \in [versions : 0..NHops, verified : 0..NHops,
                             total : 0..NHops, moved : BOOLEAN, everPulled : BOOLEAN]
    /\ iconQueue \subseteq Doc \union {Listed}
    /\ events \in Seq(EventSet)
    /\ walk \in WalkSet
    /\ batch \subseteq DOMAIN events
    /\ changes \in 0..MaxChanges /\ faults \in 0..MaxFaults
    /\ announced \in [Hops -> BOOLEAN] /\ cut \subseteq Hops

(* What the directory shows as on-chain metadata was fetched from a hop of the   *)
(* authchain and matched its hash, and its icon was queued unless that failed;   *)
(* once there, it never gives way to registry data or to the sentinel, whatever  *)
(* the order of the importer, the walker and failures in between.                *)
Trusted ==
    meta.source = "onchain" =>
        \E h \in Seen : /\ HopDoc[h] = meta.doc /\ meta.doc \in Parsing
                        /\ history[h].lastAge # None
                        /\ meta.doc \in iconQueue \/ faults > 0
CanonicalMeta ==
    [][Trusted' /\ (meta.source = "onchain" => meta'.source = "onchain")]_vars

(* What was archived of a version at first sight stays: the body, the fields   *)
(* and the authority's address of a row never change again (the watchdog's     *)
(* promise), and a body in the archive is the one the chain committed to.      *)
ArchiveKept ==
    [][\A h \in Hops :
        /\ history[h].body # None => history'[h].body = history[h].body
        /\ history[h].fields # None => history'[h].fields = history[h].fields
        /\ history[h].addr # None => history'[h].addr = history[h].addr
        /\ history'[h].body \in {None, HopDoc[h]}]_vars

(* Outages alternate: a restored event follows the pulled event of its epoch, *)
(* and a further pulled event follows the restored event of the epoch before. *)
OutageProtocol ==
    \A i \in DOMAIN events :
        LET e == events[i]
            Before(type, epoch) == \E j \in 1..(i - 1) :
                /\ events[j].hop = e.hop
                /\ events[j].type = type /\ events[j].epoch = epoch
        IN /\ e.type = "version_restored" => Before("version_pulled", e.epoch)
           /\ e.type = "version_pulled" /\ e.epoch > 0
                 => Before("version_restored", e.epoch - 1)

(* An event marked delivered was accepted by the webhook, and the webhook gets *)
(* it twice only if an answer or a mark was lost.                              *)
DeliveredOnce ==
    \A i \in DOMAIN events :
        /\ events[i].delivered => events[i].got > 0
        /\ events[i].got <= 1 + faults

(* Every event is delivered or given up after MaxAttempts. *)
EventsSettle == <>[](Undelivered = {})

(* A head that verified once and now stays bad is announced as pulled, unless a *)
(* walk was cut off between a restore and its epoch.                            *)
Failing(h) == IsHead(h) /\ host[h] # "good" /\ history[h].lastAge # None /\ h \notin cut
OutageAnnounced ==
    \A h \in Hops : Failing(h) ~> (announced[h] \/ ~Failing(h))

(* As bump_pull_epoch has it, every genuine pull is a fresh crossing: without *)
(* the exception for walks that were cut off. It does not hold: README 6.     *)
Pulled(h) == IsHead(h) /\ host[h] # "good" /\ history[h].lastAge # None
NoPullSwallowed == \A h \in Hops : Pulled(h) ~> (announced[h] \/ ~Pulled(h))

(* When hosts and the chain come to rest, the directory shows the newest version *)
(* that its host serves, the cached head is the head, the profile is that of the *)
(* archive.                                                                      *)
Shown ==
    LET good == {h \in Locators(Lesser(onchain, MaxHops)) :
                    host[h] = "good" /\ HopDoc[h] \in Parsing}
    IN /\ good # {} =>
            /\ meta.source = "onchain"
            /\ \E h \in good : (\A g \in good : g <= h) /\ meta.doc = HopDoc[h]
       /\ onchain <= MaxHops => headCache = onchain
       /\ Seen # {} => profile = Summary
DirectorySettles == <>[]Shown
=============================================================================
