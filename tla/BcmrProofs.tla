----------------------------- MODULE BcmrProofs -----------------------------
(***************************************************************************)
(* Theorems about the metadata watchdog, for every authchain, every        *)
(* document, every behaviour of the hosts and every bound on failures.     *)
(*                                                                         *)
(*   Typing               Spec => []TypeOK                                 *)
(*   EventsDeliveredOnce  Spec => []DeliveredOnce                          *)
(*   OutagesAlternate     Spec => []OutageProtocol                         *)
(*   ArchiveStays         Spec => ArchiveKept                              *)
(*   MetadataTrusted      Spec => CanonicalMeta                            *)
(*                                                                         *)
(* Typing needs to know where the walker stands (WalkOK), which hops have  *)
(* a row (RowsObserved) and what the drainer still has to post (Drained).  *)
(* The rest adds one invariant each: what the journal of events says of a  *)
(* hop's outages (OutageInv), what a body in the archive is (Committed),   *)
(* and what the version a walk will show is (BestInv).                     *)
(***************************************************************************)
EXTENDS BcmrWatchdog, FiniteSetTheorems, WellFoundedInduction, TLAPS

AtHop == {"fetch", "version", "moved", "outage", "bump"}

(* The walker works on a hop of the chain it read; the version it will show *)
(* matched its hash and parsed.                                             *)
WalkSound(w, idx) ==
    /\ w.head <= idx
    /\ w.pc \in AtHop => w.hop \in Locators(w.n)
    /\ w.pc \in {"icon", "show"} => w.best # 0
    /\ w.best # 0 => w.best \in Hops /\ HopDoc[w.best] \in Parsing
WalkOK == WalkSound(walk, indexed)

RowsObserved ==
    \A h \in Hops : history[h].seen <=> \E i \in DOMAIN observed : observed[i] = h

(* Every delivery the webhook got beyond the first cost a fault.            *)
Accepted(e, n) ==
    /\ e.delivered => e.got \in 1..(n + 1)
    /\ ~e.delivered => e.got <= n
Drained ==
    /\ \A i \in batch : ~events[i].delivered /\ events[i].attempts < MaxAttempts
    /\ \A i \in DOMAIN events : Accepted(events[i], faults)

ControlOK == WalkOK /\ RowsObserved /\ Drained

(* The outages the journal of events tells of.                              *)
NotedIn(evs, n, h, type, epoch) ==
    \E i \in 1..n : evs[i].hop = h /\ evs[i].type = type /\ evs[i].epoch = epoch
InTurn(evs, i) ==
    /\ evs[i].type = "version_restored"
         => NotedIn(evs, i - 1, evs[i].hop, "version_pulled", evs[i].epoch)
    /\ evs[i].type = "version_pulled" /\ evs[i].epoch > 0
         => NotedIn(evs, i - 1, evs[i].hop, "version_restored", evs[i].epoch - 1)

OutageInv ==
    /\ \A i \in DOMAIN events : InTurn(events, i)
    /\ \A h \in Hops : \A k \in Nat :
          k < history[h].epoch => NotedIn(events, Len(events), h, "version_restored", k)
    /\ walk.pc = "bump" =>
          NotedIn(events, Len(events), walk.hop, "version_restored", history[walk.hop].epoch)

(* The archive holds what the chain committed to.                           *)
Committed == \A h \in Hops : history[h].body \in {None, HopDoc[h]}

(* What is shown, or about to be, was fetched and matched.                  *)
Shows(hist, h) ==
    h \in Hops /\ hist[h].seen /\ HopDoc[h] \in Parsing /\ hist[h].lastAge # None
BestInv ==
    /\ walk.best # 0 => Shows(history, walk.best)
    /\ walk.pc = "show" => HopDoc[walk.best] \in iconQueue \/ faults > 0
TrustInv == Trusted /\ BestInv

-----------------------------------------------------------------------------
(* The operators of the model.                                             *)

LEMMA Constants ==
    /\ NHops \in Nat /\ MaxHops \in Nat /\ PulledAfter \in Nat /\ StaleAfter \in Nat
    /\ FastCeiling \in Nat /\ MaxAttempts \in Nat /\ MaxChanges \in Nat /\ MaxFaults \in Nat
    /\ NHops > 0 /\ MaxHops > 0 /\ PulledAfter > 0 /\ MaxAttempts > 0
BY WatchdogConstants

LEMMA LesserIs ==
    ASSUME NEW a \in Nat, NEW b \in Nat
    PROVE  /\ Lesser(a, b) \in Nat /\ Lesser(a, b) <= a /\ Lesser(a, b) <= b
           /\ Lesser(a, b) \in {a, b}
BY DEF Lesser

LEMMA LeastNat ==
    ASSUME NEW K \in SUBSET Nat, K # {}
    PROVE  \E k \in K : \A j \in K : k <= j
<1> DEFINE R == {ss \in Nat \X Nat : ss[1] < ss[2]}
<1>1. OpToRel(<, Nat) = R
    BY Zenon DEF OpToRel
<1>2. IsWellFoundedOn(R, Nat)
    BY <1>1, NatLessThanWellFounded
<1>3. PICK k \in K : \A j \in K : ~(<<j, k>> \in R)
    <2> HIDE DEF R
    <2> QED  BY <1>2, WFMin
<1>4. ASSUME NEW j \in K, ~(k <= j)
      PROVE  FALSE
    <2>1. <<j, k>> \in R
        BY <1>4
    <2> QED  BY <1>3, <2>1
<1> QED  BY <1>4

(* A finite stretch of numbers has a member above all the others, in any   *)
(* total and transitive order.                                             *)
LEMMA Topmost ==
    ASSUME NEW N \in Nat, NEW S \in SUBSET (1..N), S # {}, NEW R,
           \A g, h \in S : g # h => <<g, h>> \in R \/ <<h, g>> \in R,
           \A g, h, k \in S : <<g, h>> \in R /\ <<h, k>> \in R => <<g, k>> \in R
    PROVE  \E g \in S : \A k \in S \ {g} : <<g, k>> \in R
<1> DEFINE Top(n) == \E g \in S \cap (1..n) : \A k \in (S \cap (1..n)) \ {g} : <<g, k>> \in R
<1> DEFINE Bad == {n \in Nat : S \cap (1..n) # {} /\ ~Top(n)}
<1>1. SUFFICES Bad = {}
    <2>1. S \cap (1..N) = S /\ N \notin Bad
        BY <1>1
    <2> QED  BY <2>1
<1>2. SUFFICES ASSUME Bad # {} PROVE FALSE
    OBVIOUS
<1>3. PICK n \in Bad : \A m \in Bad : n <= m
    <2>1. Bad \in SUBSET Nat
        OBVIOUS
    <2> HIDE DEF Bad
    <2> QED  BY <1>2, <2>1, LeastNat
<1>4. n \in Nat /\ n # 0 /\ S \cap (1..n) # {} /\ ~Top(n)
    BY <1>3
<1>5. n - 1 \in Nat /\ n - 1 \notin Bad
    <2> HIDE DEF Bad
    <2> QED  BY <1>3, <1>4
<1>6. \A k \in S \cap (1..n) : k \in S \cap (1..(n - 1)) \/ k = n
    BY <1>4
<1>7. CASE S \cap (1..(n - 1)) = {}
    BY <1>4, <1>6, <1>7
<1>8. CASE S \cap (1..(n - 1)) # {}
    <2>1. PICK g \in S \cap (1..(n - 1)) : \A k \in (S \cap (1..(n - 1))) \ {g} : <<g, k>> \in R
        BY <1>5, <1>8
    <2>2. g \in S \cap (1..n) /\ g # n
        BY <1>4, <2>1
    <2>3. CASE n \in S /\ <<n, g>> \in R
        <3>1. \A k \in (S \cap (1..n)) \ {n} : <<n, k>> \in R
            BY <1>6, <2>1, <2>2, <2>3
        <3>2. n \in S \cap (1..n)
            BY <1>4, <2>3
        <3> QED  BY <1>4, <3>1, <3>2
    <2>4. CASE ~(n \in S /\ <<n, g>> \in R)
        <3>1. \A k \in (S \cap (1..n)) \ {g} : <<g, k>> \in R
            BY <1>6, <2>1, <2>2, <2>4
        <3> QED  BY <1>4, <2>2, <3>1
    <2> QED  BY <2>3, <2>4
<1> QED  BY <1>7, <1>8

LEMMA RecordedAt ==
    ASSUME RowsObserved, NEW h \in Seen
    PROVE  PositionOf(h) \in DOMAIN observed /\ observed[PositionOf(h)] = h
BY DEF RowsObserved, Seen, PositionOf

(* The version get_prior_verified_version returns is one that verified, of  *)
(* another hop, and no verified one is later.                              *)
LEMMA PriorIs ==
    ASSUME history \in [Hops -> RowSet], observed \in Seq(Hops), RowsObserved, NEW h,
           Verified \ {h} # {}
    PROVE  /\ PriorVerified(h) \in Verified \ {h}
           /\ \A k \in (Verified \ {h}) \ {PriorVerified(h)} : Later(PriorVerified(h), k)
<1> DEFINE S == Verified \ {h}
           R == {gk \in S \X S : Later(gk[1], gk[2])}
<1>1. S \in SUBSET (1..NHops) /\ S # {}
    BY DEF Verified, Seen, Hops
<1>2. \A g \in S : /\ PositionOf(g) \in Nat /\ observed[PositionOf(g)] = g
                   /\ history[g].height \in Nat \/ history[g].height = None
    <2> TAKE g \in S
    <2>1. g \in Seen /\ g \in Hops
        BY DEF Verified, Seen
    <2>2. PositionOf(g) \in DOMAIN observed /\ observed[PositionOf(g)] = g
        BY <2>1, RecordedAt
    <2>3. DOMAIN observed \subseteq Nat
        OBVIOUS
    <2>4. history[g].height \in Nat \union {None}
        BY <2>1 DEF RowSet
    <2> QED  BY <2>2, <2>3, <2>4
<1>3. ASSUME NEW g \in S, NEW k \in S, g # k
      PROVE  <<g, k>> \in R \/ <<k, g>> \in R
    <2>1. PositionOf(g) # PositionOf(k)
        BY <1>2, <1>3
    <2>2. PICK hg, hk, pg, pk : /\ hg = history[g].height /\ pg = PositionOf(g)
                                /\ hk = history[k].height /\ pk = PositionOf(k)
        OBVIOUS
    <2>3. /\ hg \in Nat \/ hg = None
          /\ hk \in Nat \/ hk = None
          /\ pg \in Nat /\ pk \in Nat /\ pg # pk /\ None \notin Nat
        BY <1>2, <2>1, <2>2, WatchdogConstants
    <2>4. Later(g, k) \/ Later(k, g)
        BY <2>2, <2>3 DEF Later
    <2> QED  BY <2>4
<1>4. ASSUME NEW g \in S, NEW k \in S, NEW m \in S, <<g, k>> \in R, <<k, m>> \in R
      PROVE  <<g, m>> \in R
    <2>1. Later(g, k) /\ Later(k, m)
        BY <1>4
    <2>2. PICK hg, hk, hm, pg, pk, pm :
            /\ hg = history[g].height /\ pg = PositionOf(g)
            /\ hk = history[k].height /\ pk = PositionOf(k)
            /\ hm = history[m].height /\ pm = PositionOf(m)
        OBVIOUS
    <2>3. /\ hg \in Nat \/ hg = None
          /\ hk \in Nat \/ hk = None
          /\ hm \in Nat \/ hm = None
          /\ pg \in Nat /\ pk \in Nat /\ pm \in Nat /\ None \notin Nat
        BY <1>2, <2>2, WatchdogConstants
    <2>4. /\ \/ hg # None /\ hk = None
             \/ hg # None /\ hk # None /\ hg > hk
             \/ hg = hk /\ pg > pk
          /\ \/ hk # None /\ hm = None
             \/ hk # None /\ hm # None /\ hk > hm
             \/ hk = hm /\ pk > pm
        BY <2>1, <2>2 DEF Later
    <2>5. \/ hg # None /\ hm = None
          \/ hg # None /\ hm # None /\ hg > hm
          \/ hg = hm /\ pg > pm
        BY <2>3, <2>4
    <2> QED  BY <2>2, <2>5 DEF Later
<1>5. PICK g \in S : \A k \in S \ {g} : <<g, k>> \in R
    <2> HIDE DEF S, R
    <2> QED  BY <1>1, <1>3, <1>4, Constants, Topmost
<1>6. \A k \in S \ {g} : Later(g, k)
    BY <1>5
<1> QED  BY <1>6 DEF PriorVerified

LEMMA PriorIn ==
    ASSUME history \in [Hops -> RowSet], observed \in Seq(Hops), RowsObserved, NEW h
    PROVE  PriorVerified(h) \in 0..NHops
<1>1. CASE Verified \ {h} = {}
    BY <1>1, Constants DEF PriorVerified
<1>2. CASE Verified \ {h} # {}
    BY <1>2, PriorIs DEF Verified, Seen, Hops
<1> QED  BY <1>1, <1>2

(* What follows a hop: the next publication of the chain the walker read,  *)
(* or the metadata.                                                        *)
LEMMA NextHopIs ==
    ASSUME NEW w \in WalkSet
    PROVE  /\ NextHop(w) \in WalkSet
           /\ NextHop(w).pc \in {"fetch", "icon", "mark"}
           /\ NextHop(w).pc = "fetch" => NextHop(w).hop \in Locators(w.n)
           /\ NextHop(w).pc = "icon" => w.best # 0
           /\ NextHop(w).n = w.n /\ NextHop(w).best = w.best /\ NextHop(w).restores = FALSE
<1> DEFINE rest == {h \in Locators(w.n) : h > w.hop}
<1>1. w.n \in Nat /\ w.n <= NHops /\ rest \in SUBSET Nat /\ rest \subseteq 0..NHops
    BY Constants DEF WalkSet, Locators
<1>2. CASE rest # {}
    <2> DEFINE least == CHOOSE h \in rest : \A g \in rest : h <= g
    <2>1. least \in rest
        <3> HIDE DEF rest
        <3> QED  BY <1>1, <1>2, LeastNat
    <2>2. NextHop(w) = [w EXCEPT !.pc = "fetch", !.matched = "none", !.inserted = FALSE,
                                 !.restores = FALSE, !.hop = least]
        BY <1>2 DEF NextHop
    <2>3. least \in Locators(w.n) /\ least \in 0..NHops
        BY <1>1, <2>1
    <2> HIDE DEF least, rest
    <2> QED  BY <2>2, <2>3 DEF WalkSet
<1>3. CASE rest = {}
    <2>1. NextHop(w) = [w EXCEPT !.pc = IF w.best # 0 THEN "icon" ELSE "mark",
                                 !.matched = "none", !.inserted = FALSE, !.restores = FALSE]
        BY <1>3 DEF NextHop
    <2> HIDE DEF rest
    <2> QED  BY <2>1 DEF WalkSet
<1> QED  BY <1>2, <1>3


-----------------------------------------------------------------------------
(* Typing, one lemma per table.                                            *)

LEMMA HopsIn ==
    ASSUME TypeOK, ControlOK
    PROVE  /\ walk.n \in 0..NHops /\ walk.n \in Nat /\ Locators(walk.n) \subseteq Hops
           /\ walk.pc \in AtHop => walk.hop \in Hops /\ HopDoc[walk.hop] \in Doc
           /\ walk.best # 0 => walk.best \in Hops /\ HopDoc[walk.best] \in Doc
           /\ onchain \in Nat /\ onchain <= NHops /\ indexed \in Nat /\ indexed <= onchain
<1>1. walk.n \in 0..NHops /\ onchain \in 1..NHops /\ indexed \in 1..onchain
    BY DEF TypeOK, WalkSet, Hops
<1>2. /\ walk.n \in Nat /\ walk.n <= NHops
      /\ onchain \in Nat /\ onchain <= NHops /\ indexed \in Nat /\ indexed <= onchain
    BY <1>1, Constants
<1>3. Locators(walk.n) \subseteq Hops
    BY <1>2, Constants DEF Locators, Hops
<1>4. walk.pc \in AtHop => HopDoc[walk.hop] # None /\ walk.hop \in Hops
    BY <1>3 DEF ControlOK, WalkOK, WalkSound, Locators
<1> QED  BY <1>1, <1>2, <1>3, <1>4, WatchdogConstants DEF ControlOK, WalkOK, WalkSound, MaybeDoc

LEMMA WorldTyped ==
    ASSUME TypeOK, ControlOK, [Next]_vars
    PROVE  /\ onchain' \in Hops /\ indexed' \in 1..(onchain') /\ host' \in [Hops -> HostState]
           /\ changes' \in 0..MaxChanges /\ faults' \in 0..MaxFaults /\ faults <= faults'
           /\ headCache' \in 0..(onchain')
<1>1. /\ onchain \in Nat /\ onchain >= 1 /\ onchain <= NHops
      /\ indexed \in Nat /\ indexed >= 1 /\ indexed <= onchain
      /\ changes \in Nat /\ changes <= MaxChanges /\ faults \in Nat /\ faults <= MaxFaults
      /\ headCache \in Nat /\ headCache <= onchain /\ host \in [Hops -> HostState]
    BY Constants DEF TypeOK, Hops
<1>2. CASE ChainGrows
    BY <1>1, <1>2, Constants DEF ChainGrows, WorldVars, tables, Hops
<1>3. CASE EdgeIndexed
    BY <1>1, <1>3, Constants DEF EdgeIndexed, WorldVars, tables, Hops
<1>4. CASE HostChanges
    <2>1. PICK h \in Locators(NHops), s \in HostState :
              host' = [host EXCEPT ![h] = IF @ = "good" THEN s ELSE "good"]
        BY <1>4 DEF HostChanges
    <2>2. host' \in [Hops -> HostState]
        BY <1>1, <2>1 DEF HostState
    <2> QED  BY <1>1, <1>4, <2>2, Constants DEF HostChanges, WorldVars, tables, Hops
<1>5. CASE NudgeBcmrIndexer
    BY <1>1, <1>5, Constants DEF NudgeBcmrIndexer, WorldVars, Hops
<1>6. CASE CacheHead
    <2>1. walk.head \in Nat /\ walk.head <= onchain
        BY <1>1 DEF ControlOK, WalkOK, WalkSound, TypeOK, WalkSet
    <2> QED  BY <1>1, <1>6, <2>1, Constants DEF CacheHead, Outside, Hops
<1>7. CASE UNCHANGED <<onchain, indexed, host, changes, headCache>>
           /\ (UNCHANGED faults \/ (faults < MaxFaults /\ faults' = faults + 1))
    BY <1>1, <1>7, Constants DEF Hops
<1>8. \/ ChainGrows \/ EdgeIndexed \/ HostChanges \/ NudgeBcmrIndexer \/ CacheHead
      \/ UNCHANGED <<onchain, indexed, host, changes, headCache>>
         /\ (UNCHANGED faults \/ (faults < MaxFaults /\ faults' = faults + 1))
    <2>1. CASE WalkStep
        BY <2>1 DEF WalkStep, tables, Outside, Emitting, Pick, WalkAuthchain, RecordVersion,
                    EmitVersion, EmitMoved, EmitOutage, BumpPullEpoch, QueueIcon, ShowVersion,
                    MarkWalked, RecomputeProfile
    <2>2. CASE DrainStep \/ Lapse
        BY <2>2 DEF DrainStep, Lapse, tables, Outside, DrainFrame, StatementFails, Crash,
                    PickUndelivered, Deliver, Refuse, DeliverUnmarked, DeliverTimesOut
    <2>3. CASE World \/ Hour \/ UNCHANGED vars
        BY <2>3 DEF World, vars, tables, WorldVars, Hour, FillFromRegistry
    <2> QED  BY <2>1, <2>2, <2>3 DEF Next
<1> QED  BY <1>2, <1>3, <1>4, <1>5, <1>6, <1>7, <1>8

LEMMA HistoryTyped ==
    ASSUME TypeOK, ControlOK, [Next]_vars
    PROVE  history' \in [Hops -> RowSet] /\ observed' \in Seq(Hops) /\ RowsObserved'
<1>1. history \in [Hops -> RowSet] /\ observed \in Seq(Hops) /\ RowsObserved
    BY DEF TypeOK, ControlOK
<1>2. CASE Hour
    <2> DEFINE aged(r) == [r EXCEPT !.due = TRUE,
                               !.lastAge = IF @ = None THEN None ELSE Lesser(@ + 1, PulledAfter)]
    <2>1. /\ history' = [h \in Hops |-> IF ~history[h].seen THEN history[h] ELSE aged(history[h])]
          /\ UNCHANGED observed
        BY <1>2 DEF Hour
    <2>2. ASSUME NEW r \in RowSet
          PROVE  aged(r) \in RowSet /\ aged(r).seen = r.seen
        <3>1. r.lastAge # None => r.lastAge \in Nat
            BY Constants DEF RowSet
        <3>2. r.lastAge # None => Lesser(r.lastAge + 1, PulledAfter) \in 0..PulledAfter
            BY <3>1, Constants DEF Lesser
        <3> QED  BY <3>2 DEF RowSet
    <2>3. \A h \in Hops : history'[h] \in RowSet /\ history'[h].seen = history[h].seen
        <3> HIDE DEF aged
        <3> QED  BY <1>1, <2>1, <2>2
    <2> HIDE DEF aged
    <2> QED  BY <1>1, <2>1, <2>3 DEF RowsObserved
<1>3. CASE RecordVersion
    <2> PICK h \in Hops : h = walk.hop
        BY <1>3, HopsIn DEF RecordVersion, AtHop
    <2> PICK r \in RowSet : r = history[h]
        BY <1>1
    <2> DEFINE s == Fetched(h)
               c == Capture(h, s)
               row == [seen |-> TRUE,
                       height |-> IF walk.blind = h THEN None ELSE HopHeight[h],
                       verified |-> s = "good",
                       body |-> Keep(r.body, c.body),
                       unverified |-> r.unverified \/ c.unverified,
                       fields |-> Keep(r.fields, c.fields),
                       addr |-> Keep(r.addr, HopAddr[h]),
                       oversize |-> r.oversize \/ c.oversize,
                       fails |-> IF s = "good" THEN 0 ELSE Lesser(r.fails + 1, FastCeiling + 1),
                       lastAge |-> IF s = "good" THEN 0 ELSE r.lastAge,
                       due |-> FALSE,
                       epoch |-> r.epoch]
    <2>1. history' = [history EXCEPT ![h] = row]
        BY <1>3 DEF RecordVersion
    <2>2. observed' = IF r.seen THEN observed ELSE Append(observed, h)
        BY <1>3 DEF RecordVersion
    <2>3. HopDoc[h] \in Doc /\ HopHeight[h] \in Nat /\ HopAddr[h] \in Addr \union {None}
        BY <1>3, HopsIn, WatchdogConstants DEF RecordVersion, AtHop
    <2>4. /\ c.body \in MaybeDoc /\ c.fields \in Fields
          /\ c.unverified \in BOOLEAN /\ c.oversize \in BOOLEAN
        BY <2>3 DEF Capture, MaybeDoc, Fields
    <2>5. Lesser(r.fails + 1, FastCeiling + 1) \in 0..(FastCeiling + 1)
        BY Constants DEF RowSet, Lesser
    <2>6. row \in RowSet
        <3>1. /\ r.unverified \in BOOLEAN /\ r.oversize \in BOOLEAN /\ r.epoch \in Nat
              /\ r.body \in MaybeDoc /\ r.fields \in Fields /\ r.addr \in Addr \union {None}
              /\ r.lastAge \in 0..PulledAfter \union {None} /\ 0 \in 0..PulledAfter
              /\ 0 \in 0..(FastCeiling + 1)
            BY Constants DEF RowSet
        <3>2. Keep(r.body, c.body) \in MaybeDoc /\ Keep(r.fields, c.fields) \in Fields
              /\ Keep(r.addr, HopAddr[h]) \in Addr \union {None}
            BY <2>3, <2>4, <3>1 DEF Keep
        <3> HIDE DEF s, c
        <3> QED  BY <2>3, <2>4, <2>5, <3>1, <3>2 DEF RowSet
    <2>7. row.seen = TRUE
        OBVIOUS
    <2> HIDE DEF row
    <2>8. history' \in [Hops -> RowSet] /\ observed' \in Seq(Hops)
        BY <1>1, <2>1, <2>2, <2>6
    <2>9. ASSUME NEW g \in Hops
          PROVE  history'[g].seen <=> \E i \in DOMAIN observed' : observed'[i] = g
        <3>1. CASE r.seen
            BY <1>1, <2>1, <2>2, <2>7, <3>1 DEF RowsObserved
        <3>2. CASE ~r.seen
            <4>1. observed' = Append(observed, h) /\ Len(observed) \in Nat
                BY <1>1, <2>2, <3>2
            <4>2. /\ DOMAIN observed' = 1..(Len(observed) + 1) /\ DOMAIN observed = 1..Len(observed)
                  /\ observed'[Len(observed) + 1] = h
                  /\ \A i \in 1..Len(observed) : observed'[i] = observed[i]
                BY <1>1, <4>1
            <4>3. CASE g = h
                BY <1>1, <2>1, <2>7, <4>1, <4>2, <4>3
            <4>4. CASE g # h
                BY <1>1, <2>1, <4>1, <4>2, <4>4 DEF RowsObserved
            <4> QED  BY <4>3, <4>4
        <3> QED  BY <3>1, <3>2
    <2> QED  BY <2>8, <2>9 DEF RowsObserved
<1>4. CASE BumpPullEpoch
    <2> PICK h \in Hops : h = walk.hop
        BY <1>4, HopsIn DEF BumpPullEpoch, AtHop
    <2> PICK r \in RowSet : r = history[h]
        BY <1>1
    <2>1. history' = [history EXCEPT ![h] = [r EXCEPT !.epoch = @ + 1]] /\ UNCHANGED observed
        BY <1>1, <1>4 DEF BumpPullEpoch
    <2>2. [r EXCEPT !.epoch = @ + 1] \in RowSet /\ [r EXCEPT !.epoch = @ + 1].seen = r.seen
        BY DEF RowSet
    <2> QED  BY <1>1, <2>1, <2>2 DEF RowsObserved
<1>5. CASE UNCHANGED <<history, observed>>
    BY <1>1, <1>5 DEF RowsObserved
<1>6. Hour \/ RecordVersion \/ BumpPullEpoch \/ UNCHANGED <<history, observed>>
    BY DEF Next, WalkStep, DrainStep, World, Lapse, vars, tables, Outside, WorldVars, Emitting,
           DrainFrame, ChainGrows, EdgeIndexed, HostChanges, NudgeBcmrIndexer, FillFromRegistry, Pick,
           WalkAuthchain, CacheHead, EmitVersion, EmitMoved, EmitOutage, QueueIcon, ShowVersion,
           MarkWalked, RecomputeProfile, StatementFails, Crash, PickUndelivered, Deliver, Refuse,
           DeliverUnmarked, DeliverTimesOut
<1> QED  BY <1>2, <1>3, <1>4, <1>5, <1>6

LEMMA MetaTyped ==
    ASSUME TypeOK, ControlOK, [Next]_vars
    PROVE  /\ meta' \in [source : Source, doc : MaybeDoc \union {Listed}, age : 0..StaleAfter]
           /\ iconQueue' \subseteq Doc \union {Listed}
<1> USE DEF Source, MaybeDoc
<1>1. /\ meta \in [source : Source, doc : MaybeDoc \union {Listed}, age : 0..StaleAfter]
      /\ iconQueue \subseteq Doc \union {Listed}
      /\ 0 \in 0..StaleAfter /\ StaleAfter \in 0..StaleAfter
    BY Constants DEF TypeOK
<1>2. Lesser(meta.age + 1, StaleAfter) \in 0..StaleAfter
    BY <1>1, Constants DEF Lesser
<1>3. CASE Hour
    BY <1>1, <1>2, <1>3 DEF Hour
<1>4. CASE NudgeBcmrIndexer
    BY <1>1, <1>4 DEF NudgeBcmrIndexer
<1>5. CASE FillFromRegistry
    BY <1>1, <1>5 DEF FillFromRegistry
<1>6. CASE QueueIcon
    <2>1. HopDoc[walk.best] \in Doc
        BY <1>6, HopsIn DEF QueueIcon, ControlOK, WalkOK, WalkSound
    <2> QED  BY <1>1, <1>6, <2>1 DEF QueueIcon
<1>7. CASE ShowVersion
    <2>1. HopDoc[walk.best] \in Doc
        BY <1>7, HopsIn DEF ShowVersion, ControlOK, WalkOK, WalkSound
    <2> QED  BY <1>1, <1>7, <2>1 DEF ShowVersion
<1>8. CASE MarkWalked
    BY <1>1, <1>8 DEF MarkWalked
<1>9. CASE UNCHANGED <<meta, iconQueue>>
    BY <1>1, <1>9
<1>10. \/ Hour \/ NudgeBcmrIndexer \/ FillFromRegistry \/ QueueIcon \/ ShowVersion \/ MarkWalked
       \/ UNCHANGED <<meta, iconQueue>>
    BY DEF Next, WalkStep, DrainStep, World, Lapse, vars, tables, Outside, WorldVars, Emitting,
           DrainFrame, ChainGrows, EdgeIndexed, HostChanges, Pick, WalkAuthchain, CacheHead,
           RecordVersion, EmitVersion, EmitMoved, EmitOutage, BumpPullEpoch, RecomputeProfile,
           StatementFails, Crash, PickUndelivered, Deliver, Refuse, DeliverUnmarked, DeliverTimesOut
<1> QED  BY <1>3, <1>4, <1>5, <1>6, <1>7, <1>8, <1>9, <1>10


(* The steps of the walker, as functions of where it stood.                *)
LEMMA WalkSteps ==
    ASSUME NEW w \in WalkSet, NEW idx \in Nat, WalkSound(w, idx)
    PROVE  /\ Idle \in WalkSet /\ WalkSound(Idle, idx)
           /\ [Idle EXCEPT !.pc = "chain"] \in WalkSet /\ WalkSound([Idle EXCEPT !.pc = "chain"], idx)
           /\ NextHop(w) \in WalkSet /\ WalkSound(NextHop(w), idx)
           /\ \A p \in {"moved", "outage", "bump", "show", "profile"} :
                 (p \in AtHop => w.pc \in AtHop) /\ (p = "show" => w.pc = "icon")
                   => [w EXCEPT !.pc = p] \in WalkSet /\ WalkSound([w EXCEPT !.pc = p], idx)
           /\ \A n, b, m \in 0..NHops : m <= idx =>
                 LET v == [w EXCEPT !.pc = "head", !.n = n, !.blind = b, !.head = m]
                 IN  v \in WalkSet /\ WalkSound(v, idx)
           /\ \A x, y \in BOOLEAN, s \in HostState, b \in 0..NHops :
                 w.pc = "fetch" /\ (b = w.best \/ (b = w.hop /\ HopDoc[b] \in Parsing)) =>
                 LET v == [w EXCEPT !.pc = "version", !.inserted = x, !.restores = y, !.matched = s,
                                    !.best = b]
                 IN  v \in WalkSet /\ WalkSound(v, idx)
<1> USE DEF AtHop
<1>1. /\ Idle \in WalkSet /\ WalkSound(Idle, idx)
      /\ [Idle EXCEPT !.pc = "chain"] \in WalkSet /\ WalkSound([Idle EXCEPT !.pc = "chain"], idx)
    <2>0. PICK v : v = Idle
        OBVIOUS
    <2>1. /\ v \in WalkSet /\ v.pc = "idle" /\ v.best = 0 /\ v.head = 0
        BY <2>0, Constants DEF Idle, WalkSet
    <2>2. [v EXCEPT !.pc = "chain"] \in WalkSet
        BY <2>1 DEF WalkSet
    <2>3. WalkSound([v EXCEPT !.pc = "chain"], idx)
        BY <2>1 DEF WalkSound, WalkSet
    <2>4. WalkSound(v, idx)
        BY <2>1 DEF WalkSound, AtHop
    <2>5. Idle \in WalkSet /\ WalkSound(Idle, idx)
        BY <2>0, <2>1, <2>4
    <2>6. [Idle EXCEPT !.pc = "chain"] \in WalkSet /\ WalkSound([Idle EXCEPT !.pc = "chain"], idx)
        BY <2>0, <2>2, <2>3, Zenon
    <2> QED  BY <2>5, <2>6
<1>2. NextHop(w) \in WalkSet /\ WalkSound(NextHop(w), idx)
    <2> PICK v : v = NextHop(w)
        OBVIOUS
    <2>1. v.head = w.head
        BY DEF NextHop, WalkSet
    <2>2. /\ v \in WalkSet /\ v.pc \in {"fetch", "icon", "mark"} /\ v.n = w.n /\ v.best = w.best
          /\ v.pc = "fetch" => v.hop \in Locators(w.n)
          /\ v.pc = "icon" => w.best # 0
        BY NextHopIs
    <2> QED  BY <2>1, <2>2 DEF WalkSound
<1>3. ASSUME NEW p \in {"moved", "outage", "bump", "show", "profile"},
             p \in AtHop => w.pc \in AtHop, p = "show" => w.pc = "icon"
      PROVE  [w EXCEPT !.pc = p] \in WalkSet /\ WalkSound([w EXCEPT !.pc = p], idx)
    BY <1>3 DEF WalkSound, WalkSet
<1>4. ASSUME NEW n \in 0..NHops, NEW b \in 0..NHops, NEW m \in 0..NHops, m <= idx
      PROVE  LET v == [w EXCEPT !.pc = "head", !.n = n, !.blind = b, !.head = m]
             IN  v \in WalkSet /\ WalkSound(v, idx)
    BY <1>4 DEF WalkSound, WalkSet
<1>5. ASSUME NEW x \in BOOLEAN, NEW y \in BOOLEAN, NEW s \in HostState, NEW b \in 0..NHops,
             w.pc = "fetch", b = w.best \/ (b = w.hop /\ HopDoc[b] \in Parsing)
      PROVE  LET v == [w EXCEPT !.pc = "version", !.inserted = x, !.restores = y, !.matched = s,
                                !.best = b]
             IN  v \in WalkSet /\ WalkSound(v, idx)
    <2> DEFINE v == [w EXCEPT !.pc = "version", !.inserted = x, !.restores = y, !.matched = s, !.best = b]
    <2>1. /\ v \in WalkSet /\ v.pc = "version" /\ v.best = b /\ v.head = w.head /\ v.hop = w.hop
          /\ v.n = w.n
        BY DEF WalkSet
    <2>2. w.hop \in Locators(w.n) /\ Locators(w.n) \subseteq Hops
        BY <1>5, Constants DEF WalkSound, WalkSet, Locators, Hops
    <2> HIDE DEF v
    <2>3. WalkSound(v, idx)
        BY <1>5, <2>1, <2>2 DEF WalkSound
    <2> QED  BY <2>1, <2>3 DEF v
<1>6. \A p \in {"moved", "outage", "bump", "show", "profile"} :
         (p \in AtHop => w.pc \in AtHop) /\ (p = "show" => w.pc = "icon") =>
           [w EXCEPT !.pc = p] \in WalkSet /\ WalkSound([w EXCEPT !.pc = p], idx)
    BY <1>3, Zenon
<1>7. \A n, b, m \in 0..NHops : m <= idx =>
         LET v == [w EXCEPT !.pc = "head", !.n = n, !.blind = b, !.head = m]
         IN  v \in WalkSet /\ WalkSound(v, idx)
    BY <1>4, Zenon
<1>8. \A x, y \in BOOLEAN, s \in HostState, b \in 0..NHops :
         w.pc = "fetch" /\ (b = w.best \/ (b = w.hop /\ HopDoc[b] \in Parsing)) =>
         LET v == [w EXCEPT !.pc = "version", !.inserted = x, !.restores = y, !.matched = s,
                            !.best = b]
         IN  v \in WalkSet /\ WalkSound(v, idx)
    BY <1>5, Zenon
<1> HIDE DEF AtHop
<1> QED  BY <1>1, <1>2, <1>6, <1>7, <1>8, Zenon

LEMMA WalkTyped ==
    ASSUME TypeOK, ControlOK, [Next]_vars
    PROVE  walk' \in WalkSet /\ WalkOK'
<1> PICK idx \in Nat : idx = indexed' /\ indexed \in Nat /\ indexed <= idx
    <2>1. indexed \in Nat
        BY HopsIn
    <2>2. indexed' \in {indexed, indexed + 1}
        BY DEF Next, WalkStep, DrainStep, World, Lapse, vars, tables, Outside, WorldVars, Emitting,
               DrainFrame, ChainGrows, EdgeIndexed, HostChanges, NudgeBcmrIndexer, FillFromRegistry, Pick,
               WalkAuthchain, CacheHead, RecordVersion, EmitVersion, EmitMoved, EmitOutage, BumpPullEpoch,
               QueueIcon, ShowVersion, MarkWalked, RecomputeProfile, StatementFails, Crash, PickUndelivered,
               Deliver, Refuse, DeliverUnmarked, DeliverTimesOut, Hour
    <2> QED  BY <2>1, <2>2
<1>1. walk \in WalkSet /\ WalkSound(walk, idx)
    BY Constants DEF TypeOK, ControlOK, WalkOK, WalkSound, WalkSet
<1>2. SUFFICES walk' \in WalkSet /\ WalkSound(walk', idx)
    BY DEF WalkOK
<1>3. ASSUME walk' = Idle PROVE walk' \in WalkSet /\ WalkSound(walk', idx)
    BY <1>1, <1>3, WalkSteps
<1>4. ASSUME walk' = NextHop(walk) PROVE walk' \in WalkSet /\ WalkSound(walk', idx)
    BY <1>1, <1>4, WalkSteps
<1>5. ASSUME NEW p \in {"moved", "outage", "bump", "show", "profile"}, walk' = [walk EXCEPT !.pc = p],
             p \in AtHop => walk.pc \in AtHop, p = "show" => walk.pc = "icon"
      PROVE  walk' \in WalkSet /\ WalkSound(walk', idx)
    BY <1>1, <1>5, WalkSteps
<1>6. CASE WalkAuthchain
    <2>1. CASE walk' = Idle
        BY <1>3, <2>1
    <2>2. ASSUME NEW b \in 0..Lesser(indexed, MaxHops),
                 walk' = [walk EXCEPT !.pc = "head", !.n = Lesser(indexed, MaxHops), !.blind = b,
                                !.head = IF indexed <= MaxHops THEN Lesser(indexed, MaxHops) ELSE 0]
          PROVE  walk' \in WalkSet /\ WalkSound(walk', idx)
        <3> DEFINE n == Lesser(indexed, MaxHops)
                   m == IF indexed <= MaxHops THEN n ELSE 0
        <3>1. n \in 0..NHops /\ n <= idx
            <4>1. indexed <= NHops
                BY HopsIn, Constants
            <4> QED  BY <4>1, Constants DEF Lesser
        <3> HIDE DEF n
        <3>2. m \in 0..NHops /\ m <= idx /\ b \in 0..NHops
            BY <2>2, <3>1, Constants DEF n
        <3>3. walk' = [walk EXCEPT !.pc = "head", !.n = n, !.blind = b, !.head = m]
            BY <2>2 DEF n
        <3> HIDE DEF m
        <3> QED  BY <1>1, <3>1, <3>2, <3>3, WalkSteps
    <2> QED  BY <1>6, <2>1, <2>2 DEF WalkAuthchain
<1>7. CASE RecordVersion
    <2>1. walk.hop \in Hops /\ Fetched(walk.hop) \in HostState /\ walk.hop \in 0..NHops
        <3>1. walk.hop \in Hops
            BY <1>7, HopsIn DEF RecordVersion, AtHop
        <3> QED  BY <3>1, Constants DEF Fetched, TypeOK, Hops
    <2>2. history[walk.hop].seen \in BOOLEAN /\ history[walk.hop].verified \in BOOLEAN
        BY <2>1 DEF TypeOK, RowSet
    <2> DEFINE s == Fetched(walk.hop)
               x == ~history[walk.hop].seen
               y == s = "good" /\ history[walk.hop].seen /\ ~history[walk.hop].verified
               b == IF s = "good" /\ HopDoc[walk.hop] \in Parsing THEN walk.hop ELSE walk.best
    <2>3. walk' = [walk EXCEPT !.pc = "version", !.inserted = x, !.restores = y, !.matched = s, !.best = b]
        BY <1>1, <1>7 DEF RecordVersion
    <2>4. /\ x \in BOOLEAN /\ y \in BOOLEAN /\ s \in HostState /\ b \in 0..NHops
          /\ b = walk.best \/ (b = walk.hop /\ HopDoc[b] \in Parsing)
          /\ walk.pc = "fetch"
        BY <1>1, <1>7, <2>1, <2>2 DEF WalkSet, RecordVersion
    <2> HIDE DEF s, x, y, b
    <2> QED  BY <1>1, <2>3, <2>4, WalkSteps
<1>8. CASE Pick
    BY <1>1, <1>8, WalkSteps DEF Pick
<1>9. CASE CacheHead \/ BumpPullEpoch
    BY <1>4, <1>9 DEF CacheHead, BumpPullEpoch
<1>10. CASE EmitVersion \/ EmitMoved
    BY <1>5, <1>10 DEF EmitVersion, EmitMoved, AtHop
<1>11. CASE EmitOutage
    BY <1>4, <1>5, <1>11 DEF EmitOutage, AtHop
<1>12. CASE QueueIcon \/ ShowVersion \/ MarkWalked
    BY <1>5, <1>12 DEF QueueIcon, ShowVersion, MarkWalked, AtHop
<1>13. CASE RecomputeProfile \/ Crash
    BY <1>3, <1>13 DEF RecomputeProfile, Crash
<1>14. CASE StatementFails
    <2>1. \/ walk' = Idle
          \/ walk' = NextHop(walk)
          \/ walk.pc = "icon" /\ walk' = [walk EXCEPT !.pc = "show"]
          \/ walk.pc = "mark" /\ walk' = [walk EXCEPT !.pc = "profile"]
        BY <1>1, <1>14 DEF StatementFails, WalkSet
    <2> QED  BY <1>3, <1>4, <1>5, <2>1 DEF AtHop
<1>15. CASE UNCHANGED walk
    BY <1>1, <1>15
<1>16. \/ Pick \/ WalkAuthchain \/ CacheHead \/ RecordVersion \/ EmitVersion \/ EmitMoved \/ EmitOutage
       \/ BumpPullEpoch \/ QueueIcon \/ ShowVersion \/ MarkWalked \/ RecomputeProfile \/ StatementFails
       \/ Crash \/ UNCHANGED walk
    BY DEF Next, WalkStep, DrainStep, World, Lapse, vars, WorldVars, DrainFrame, ChainGrows, EdgeIndexed,
           HostChanges, NudgeBcmrIndexer, FillFromRegistry, Hour, PickUndelivered, Deliver, Refuse,
           DeliverUnmarked, DeliverTimesOut
<1> QED  BY <1>3, <1>6, <1>7, <1>8, <1>9, <1>10, <1>11, <1>12, <1>13, <1>14, <1>15, <1>16

(* Events are only appended, or get a field of the delivery.               *)
SameStory(e, f) == f.hop = e.hop /\ f.type = e.type /\ f.epoch = e.epoch /\ f.prior = e.prior

LEMMA InsertIs ==
    ASSUME TypeOK, NEW e \in EventSet, Insert(e)
    PROVE  /\ events' \in Seq(EventSet)
           /\ \/ UNCHANGED events /\ Noted(e.hop, e.type, e.epoch)
              \/ /\ ~Noted(e.hop, e.type, e.epoch)
                 /\ Len(events) \in Nat /\ DOMAIN events = 1..Len(events)
                 /\ Len(events') = Len(events) + 1 /\ DOMAIN events' = 1..(Len(events) + 1)
                 /\ \A i \in DOMAIN events : events'[i] = events[i]
                 /\ events'[Len(events) + 1] = e
<1>1. events \in Seq(EventSet)
    BY DEF TypeOK
<1>2. CASE Noted(e.hop, e.type, e.epoch)
    BY <1>1, <1>2 DEF Insert
<1>3. CASE ~Noted(e.hop, e.type, e.epoch)
    <2>1. events' = Append(events, e) /\ Len(events) \in Nat
        BY <1>1, <1>3 DEF Insert
    <2> QED  BY <1>1, <1>3, <2>1
<1> QED  BY <1>2, <1>3


LEMMA EventIs ==
    ASSUME TypeOK, ControlOK, NEW h \in Hops, NEW epoch \in Nat, NEW prior \in 0..NHops,
           NEW type \in {"new_version", "version_mismatch", "authority_moved",
                         "version_pulled", "version_restored"}
    PROVE  /\ EventOf(h, type, epoch, prior) \in EventSet
           /\ Accepted(EventOf(h, type, epoch, prior), faults)
BY Constants DEF EventOf, EventSet, Accepted, TypeOK

(* The three statements that write an event.                               *)
Emits == EmitVersion \/ EmitMoved \/ EmitOutage

LEMMA EmitsInsert ==
    ASSUME TypeOK, ControlOK, Emits
    PROVE  /\ UNCHANGED events \/ (\E e \in EventSet : Insert(e) /\ Accepted(e, faults))
           /\ UNCHANGED <<history, batch, faults>>
<1> PICK h \in Hops : h = walk.hop
    BY HopsIn DEF Emits, EmitVersion, EmitMoved, EmitOutage, AtHop
<1>1. PriorVerified(h) \in 0..NHops /\ history[h].epoch \in Nat /\ 0 \in Nat /\ 0 \in 0..NHops
    BY PriorIn, Constants DEF TypeOK, ControlOK, RowSet
<1>2. UNCHANGED <<history, batch, faults>>
    BY DEF Emits, EmitVersion, EmitMoved, EmitOutage, Emitting, Outside
<1>3. CASE EmitVersion
    <2>1. \/ UNCHANGED events
          \/ Insert(EventOf(h, "new_version", 0, PriorVerified(h)))
          \/ Insert(EventOf(h, "version_mismatch", 0, PriorVerified(h)))
        BY <1>3 DEF EmitVersion
    <2> QED  BY <1>1, <1>2, <2>1, EventIs
<1>4. CASE EmitMoved
    <2>1. \/ UNCHANGED events
          \/ Insert(EventOf(h, "authority_moved", 0, PriorVerified(h)))
        BY <1>4 DEF EmitMoved
    <2> QED  BY <1>1, <1>2, <2>1, EventIs
<1>5. CASE EmitOutage
    <2>1. \/ UNCHANGED events
          \/ Insert(EventOf(h, "version_pulled", history[h].epoch, 0))
          \/ Insert(EventOf(h, "version_restored", history[h].epoch, 0))
        BY <1>5 DEF EmitOutage
    <2> QED  BY <1>1, <1>2, <2>1, EventIs
<1> QED  BY <1>3, <1>4, <1>5 DEF Emits

(* A delivery, refused, accepted or in doubt, changes one event.           *)
LEMMA Delivering ==
    ASSUME TypeOK, ControlOK, NEW i \in batch,
           Deliver(i) \/ Refuse(i) \/ DeliverUnmarked(i) \/ DeliverTimesOut(i)
    PROVE  \E e, f \in EventSet :
             /\ i \in DOMAIN events /\ e = events[i] /\ events' = [events EXCEPT ![i] = f]
             /\ SameStory(e, f) /\ Accepted(f, faults')
             /\ batch' \subseteq batch \ {i}
             /\ faults' \in {faults, faults + 1} /\ faults' <= MaxFaults
<1>1. i \in DOMAIN events /\ events \in Seq(EventSet) /\ faults \in Nat /\ faults <= MaxFaults
    BY Constants DEF TypeOK
<1>2. PICK e \in EventSet : e = events[i]
    BY <1>1
<1>3. ~e.delivered /\ e.attempts < MaxAttempts /\ Accepted(e, faults)
    BY <1>1, <1>2 DEF ControlOK, Drained
<1>4. /\ e.got \in Nat /\ e.got <= faults /\ e.attempts \in Nat
      /\ e.got + 1 \in 0..(MaxFaults + 1) /\ e.attempts + 1 \in 0..MaxAttempts
      /\ e.got + 1 \in 1..(faults + 1) /\ e.delivered = FALSE
    <2>1. e.got \in Nat /\ e.got <= faults /\ e.attempts \in Nat /\ e.delivered \in BOOLEAN
        BY <1>3, Constants DEF Accepted, EventSet
    <2> QED  BY <1>1, <1>3, <2>1, Constants
<1>5. CASE Deliver(i)
    <2> DEFINE f == [e EXCEPT !.delivered = TRUE, !.got = @ + 1]
    <2>1. events' = [events EXCEPT ![i] = f] /\ batch' = batch \ {i} /\ faults' = faults
        BY <1>1, <1>2, <1>5 DEF Deliver
    <2>2. f \in EventSet /\ SameStory(e, f) /\ Accepted(f, faults)
        <3>1. f \in EventSet /\ SameStory(e, f) /\ f.delivered = TRUE /\ f.got = e.got + 1
            BY <1>4 DEF EventSet, SameStory
        <3> HIDE DEF f
        <3> QED  BY <1>4, <3>1 DEF Accepted
    <2> HIDE DEF f
    <2> QED  BY <1>1, <1>2, <2>1, <2>2
<1>6. CASE Refuse(i)
    <2> DEFINE f == [e EXCEPT !.attempts = @ + 1]
    <2>1. events' = [events EXCEPT ![i] = f] /\ batch' = batch \ {i} /\ faults' = faults
        BY <1>1, <1>2, <1>6 DEF Refuse
    <2>2. f \in EventSet /\ SameStory(e, f) /\ Accepted(f, faults)
        <3>1. f \in EventSet /\ SameStory(e, f) /\ f.delivered = FALSE /\ f.got = e.got
            BY <1>4 DEF EventSet, SameStory
        <3> HIDE DEF f
        <3> QED  BY <1>4, <3>1 DEF Accepted
    <2> HIDE DEF f
    <2> QED  BY <1>1, <1>2, <2>1, <2>2
<1>7. CASE DeliverUnmarked(i)
    <2> DEFINE f == [e EXCEPT !.got = @ + 1]
    <2>1. /\ events' = [events EXCEPT ![i] = f] /\ batch' \subseteq batch \ {i}
          /\ faults < MaxFaults /\ faults' = faults + 1
        BY <1>1, <1>2, <1>7 DEF DeliverUnmarked
    <2>2. f \in EventSet /\ SameStory(e, f) /\ Accepted(f, faults + 1)
        <3>1. f \in EventSet /\ SameStory(e, f) /\ f.delivered = FALSE /\ f.got = e.got + 1
            BY <1>4 DEF EventSet, SameStory
        <3> HIDE DEF f
        <3> QED  BY <1>1, <1>4, <3>1 DEF Accepted
    <2>3. faults' \in {faults, faults + 1} /\ faults' <= MaxFaults
        BY <1>1, <2>1, Constants
    <2>4. Accepted(f, faults')
        BY <2>1, <2>2
    <2> HIDE DEF f
    <2> QED  BY <1>1, <1>2, <2>1, <2>2, <2>3, <2>4
<1>8. CASE DeliverTimesOut(i)
    <2> DEFINE f == [e EXCEPT !.got = @ + 1, !.attempts = @ + 1]
    <2>1. /\ events' = [events EXCEPT ![i] = f] /\ batch' \subseteq batch \ {i}
          /\ faults < MaxFaults /\ faults' = faults + 1
        BY <1>1, <1>2, <1>8 DEF DeliverTimesOut
    <2>2. f \in EventSet /\ SameStory(e, f) /\ Accepted(f, faults + 1)
        <3>1. f \in EventSet /\ SameStory(e, f) /\ f.delivered = FALSE /\ f.got = e.got + 1
            BY <1>4 DEF EventSet, SameStory
        <3> HIDE DEF f
        <3> QED  BY <1>1, <1>4, <3>1 DEF Accepted
    <2>3. faults' \in {faults, faults + 1} /\ faults' <= MaxFaults
        BY <1>1, <2>1, Constants
    <2>4. Accepted(f, faults')
        BY <2>1, <2>2
    <2> HIDE DEF f
    <2> QED  BY <1>1, <1>2, <2>1, <2>2, <2>3, <2>4
<1> QED  BY <1>5, <1>6, <1>7, <1>8

(* What a step does to the events.                                         *)
LEMMA EventSteps ==
    ASSUME [Next]_vars
    PROVE  \/ Emits
           \/ \E i \in batch : Deliver(i) \/ Refuse(i) \/ DeliverUnmarked(i) \/ DeliverTimesOut(i)
           \/ PickUndelivered
           \/ UNCHANGED <<events, batch>>
<1>1. CASE WalkStep
    BY <1>1 DEF WalkStep, Emits, tables, Outside, Pick, WalkAuthchain, CacheHead, RecordVersion,
                BumpPullEpoch, QueueIcon, ShowVersion, MarkWalked, RecomputeProfile
<1>2. CASE DrainStep \/ Lapse
    BY <1>2 DEF DrainStep, Lapse, tables, Outside, StatementFails, Crash
<1>3. CASE World \/ Hour \/ UNCHANGED vars
    BY <1>3 DEF World, vars, tables, WorldVars, Hour, ChainGrows, EdgeIndexed, HostChanges,
                NudgeBcmrIndexer, FillFromRegistry
<1> QED  BY <1>1, <1>2, <1>3 DEF Next

LEMMA EventsTyped ==
    ASSUME TypeOK, ControlOK, [Next]_vars
    PROVE  events' \in Seq(EventSet) /\ batch' \subseteq DOMAIN events' /\ Drained'
<1>1. /\ events \in Seq(EventSet) /\ batch \subseteq DOMAIN events
      /\ faults \in Nat /\ faults' \in Nat /\ faults <= faults'
      /\ \A i \in batch : ~events[i].delivered /\ events[i].attempts < MaxAttempts
      /\ \A i \in DOMAIN events : Accepted(events[i], faults) /\ events[i] \in EventSet
    BY WorldTyped, Constants DEF TypeOK, ControlOK, Drained
<1>2. \A e \in EventSet : Accepted(e, faults) => Accepted(e, faults')
    <2> PICK n \in Nat : n = faults'
        BY <1>1
    <2> TAKE e \in EventSet
    <2>1. e.got \in Nat
        BY Constants DEF EventSet
    <2> QED  BY <1>1, <2>1 DEF Accepted
<1>3. CASE Emits
    <2>1. UNCHANGED <<batch, faults>>
        BY <1>3, EmitsInsert
    <2>2. CASE UNCHANGED events
        BY <1>1, <2>1, <2>2 DEF Drained
    <2>3. ASSUME NEW e \in EventSet, Insert(e), Accepted(e, faults)
          PROVE  events' \in Seq(EventSet) /\ batch' \subseteq DOMAIN events' /\ Drained'
        <3>1. CASE UNCHANGED events
            BY <1>1, <2>1, <3>1 DEF Drained
        <3>2. CASE ~UNCHANGED events
            <4>1. /\ events' \in Seq(EventSet) /\ DOMAIN events' = 1..(Len(events) + 1)
                  /\ DOMAIN events = 1..Len(events) /\ Len(events) \in Nat
                  /\ \A i \in DOMAIN events : events'[i] = events[i]
                  /\ events'[Len(events) + 1] = e
                BY <2>3, <3>2, InsertIs
            <4>2. \A i \in DOMAIN events' : i \in DOMAIN events \/ i = Len(events) + 1
                BY <4>1
            <4>3. \A i \in DOMAIN events' : Accepted(events'[i], faults)
                BY <1>1, <2>3, <4>1, <4>2
            <4>4. batch \subseteq DOMAIN events'
                BY <1>1, <4>1
            <4>5. \A i \in batch : ~events'[i].delivered /\ events'[i].attempts < MaxAttempts
                BY <1>1, <4>1
            <4> QED  BY <2>1, <4>1, <4>3, <4>4, <4>5 DEF Drained
        <3> QED  BY <3>1, <3>2
    <2> QED  BY <1>3, <2>2, <2>3, EmitsInsert
<1>4. ASSUME NEW i \in batch, Deliver(i) \/ Refuse(i) \/ DeliverUnmarked(i) \/ DeliverTimesOut(i)
      PROVE  events' \in Seq(EventSet) /\ batch' \subseteq DOMAIN events' /\ Drained'
    <2>1. PICK f \in EventSet :
             /\ i \in DOMAIN events /\ events' = [events EXCEPT ![i] = f] /\ Accepted(f, faults')
             /\ batch' \subseteq batch \ {i}
        BY <1>4, Delivering
    <2>2. events' \in Seq(EventSet) /\ DOMAIN events' = DOMAIN events
        BY <1>1, <2>1
    <2>3. \A k \in DOMAIN events : k # i => events'[k] = events[k]
        BY <1>1, <2>1
    <2>4. events'[i] = f
        BY <1>1, <2>1
    <2>5. \A k \in DOMAIN events : Accepted(events'[k], faults')
        BY <1>1, <1>2, <2>1, <2>3, <2>4
    <2>6. \A k \in batch' : ~events'[k].delivered /\ events'[k].attempts < MaxAttempts
        BY <1>1, <2>1, <2>3
    <2> QED  BY <1>1, <2>1, <2>2, <2>5, <2>6 DEF Drained
<1>5. CASE PickUndelivered
    BY <1>1, <1>2, <1>5 DEF PickUndelivered, Undelivered, Drained, DrainFrame
<1>6. CASE UNCHANGED <<events, batch>>
    BY <1>1, <1>2, <1>6 DEF Drained
<1> QED  BY <1>3, <1>4, <1>5, <1>6, EventSteps

LEMMA ProfileTyped ==
    ASSUME TypeOK, ControlOK, [Next]_vars
    PROVE  \/ profile' = None
           \/ profile' \in [versions : 0..NHops, verified : 0..NHops, total : 0..NHops,
                            moved : BOOLEAN, everPulled : BOOLEAN]
<1>1. IsFiniteSet(Hops) /\ Cardinality(Hops) = NHops
    BY FS_Interval, Constants DEF Hops
<1>2. ASSUME NEW S \in SUBSET Hops
      PROVE  IsFiniteSet(S) /\ Cardinality(S) \in 0..NHops
    <2>1. IsFiniteSet(S) /\ Cardinality(S) <= NHops
        BY <1>1, FS_Subset
    <2> QED  BY <2>1, FS_CardinalityType, Constants
<1>3. Seen \in SUBSET Hops /\ Verified \in SUBSET Hops
    BY DEF Seen, Verified
<1>4. Cardinality({HopDoc[h] : h \in Seen}) \in 0..NHops
    <2> DEFINE T == {HopDoc[h] : h \in Seen}
               f == [h \in Seen |-> HopDoc[h]]
    <2>1. f \in Surjection(Seen, T)
        BY DEF Surjection
    <2>2. IsFiniteSet(Seen) /\ Cardinality(Seen) \in 0..NHops
        BY <1>2, <1>3
    <2>3. IsFiniteSet(T) /\ Cardinality(T) <= Cardinality(Seen)
        <3> HIDE DEF f, T
        <3> QED  BY <2>1, <2>2, FS_Surjection
    <2>4. Cardinality(T) \in Nat
        <3> HIDE DEF T
        <3> QED  BY <2>3, FS_CardinalityType
    <2> HIDE DEF T
    <2>5. Cardinality(T) \in 0..NHops
        BY <2>2, <2>3, <2>4, Constants
    <2> QED  BY <2>5 DEF T
<1>5. Summary \in [versions : 0..NHops, verified : 0..NHops, total : 0..NHops,
                   moved : BOOLEAN, everPulled : BOOLEAN]
    <2>1. Cardinality(Seen) \in 0..NHops /\ Cardinality(Verified) \in 0..NHops
        BY <1>2, <1>3
    <2> QED  BY <1>4, <2>1 DEF Summary
<1>6. profile' \in {profile, Summary}
    BY DEF Next, WalkStep, DrainStep, World, Lapse, vars, tables, Outside, WorldVars, Emitting,
           DrainFrame, ChainGrows, EdgeIndexed, HostChanges, NudgeBcmrIndexer, FillFromRegistry, Pick,
           WalkAuthchain, CacheHead, RecordVersion, EmitVersion, EmitMoved, EmitOutage, BumpPullEpoch,
           QueueIcon, ShowVersion, MarkWalked, RecomputeProfile, StatementFails, Crash, PickUndelivered,
           Deliver, Refuse, DeliverUnmarked, DeliverTimesOut, Hour
<1> QED  BY <1>5, <1>6 DEF TypeOK

LEMMA AnnouncedTyped ==
    ASSUME TypeOK, ControlOK, [Next]_vars
    PROVE  announced' \in [Hops -> BOOLEAN] /\ cut' \subseteq Hops
<1>1. announced \in [Hops -> BOOLEAN] /\ cut \subseteq Hops /\ walk.restores \in BOOLEAN
    BY DEF TypeOK, WalkSet
<1>2. CASE RecordVersion
    <2>1. walk.hop \in Hops
        BY <1>2, HopsIn DEF RecordVersion, AtHop
    <2>2. announced' = [announced EXCEPT ![walk.hop] = @ /\ ~(Fetched(walk.hop) = "good")] /\ cut' = cut
        BY <1>2 DEF RecordVersion
    <2> QED  BY <1>1, <2>1, <2>2
<1>3. CASE EmitOutage
    <2>1. \/ UNCHANGED announced
          \/ announced' = [announced EXCEPT ![walk.hop] =
                              @ \/ ~Noted(walk.hop, "version_pulled", history[walk.hop].epoch)]
        BY <1>3 DEF EmitOutage
    <2>2. Noted(walk.hop, "version_pulled", history[walk.hop].epoch) \in BOOLEAN
        BY DEF Noted
    <2>3. cut' = cut
        BY <1>3 DEF EmitOutage
    <2> QED  BY <1>1, <2>1, <2>2, <2>3
<1>4. CASE StatementFails \/ Crash
    <2>1. Unnoted \subseteq Hops
        BY HopsIn DEF Unnoted, AtHop
    <2> QED  BY <1>1, <1>4, <2>1 DEF StatementFails, Crash
<1>5. CASE UNCHANGED <<announced, cut>>
    BY <1>1, <1>5
<1>6. RecordVersion \/ EmitOutage \/ StatementFails \/ Crash \/ UNCHANGED <<announced, cut>>
    BY DEF Next, WalkStep, DrainStep, World, Lapse, vars, WorldVars, DrainFrame, ChainGrows, EdgeIndexed,
           HostChanges, NudgeBcmrIndexer, FillFromRegistry, Pick, WalkAuthchain, CacheHead, EmitVersion,
           EmitMoved, BumpPullEpoch, QueueIcon, ShowVersion, MarkWalked, RecomputeProfile,
           PickUndelivered, Deliver, Refuse, DeliverUnmarked, DeliverTimesOut, Hour
<1> QED  BY <1>2, <1>3, <1>4, <1>5, <1>6

LEMMA Started == Init => TypeOK /\ ControlOK
<1> SUFFICES ASSUME Init PROVE TypeOK /\ ControlOK
    OBVIOUS
<1>1. NoRow \in RowSet /\ NoRow.seen = FALSE
    BY Constants DEF NoRow, RowSet, MaybeDoc, Fields
<1>2. Idle \in WalkSet /\ WalkSound(Idle, 1)
    BY Constants DEF Idle, WalkSet, WalkSound, AtHop
<1>3. meta \in [source : Source, doc : MaybeDoc \union {Listed}, age : 0..StaleAfter]
    BY Constants DEF Init, Source, MaybeDoc
<1>4. 1 \in Hops /\ 0 \in 0..1 /\ 0 \in 0..MaxChanges /\ 0 \in 0..MaxFaults
    BY Constants DEF Hops
<1>5. events \in Seq(EventSet) /\ DOMAIN events = {} /\ observed \in Seq(Hops) /\ DOMAIN observed = {}
    BY DEF Init
<1>6. TypeOK
    BY <1>1, <1>2, <1>3, <1>4, <1>5 DEF Init, TypeOK, HostState
<1>7. ControlOK
    BY <1>1, <1>2, <1>5 DEF Init, ControlOK, WalkOK, RowsObserved, Drained
<1> QED  BY <1>6, <1>7

LEMMA Stays == TypeOK /\ ControlOK /\ [Next]_vars => TypeOK' /\ ControlOK'
BY WorldTyped, HistoryTyped, MetaTyped, WalkTyped, EventsTyped, ProfileTyped, AnnouncedTyped
   DEF TypeOK, ControlOK

LEMMA Typed == Spec => [](TypeOK /\ ControlOK)
BY Started, Stays, PTL DEF Spec

(* The tables, the walker and the drainer hold values of their types, in   *)
(* particular no counter passes its bound and every hop and event the two  *)
(* processes hold on to exists.                                            *)
THEOREM Typing == Spec => []TypeOK
BY Typed, PTL

-----------------------------------------------------------------------------
(* An event marked delivered was accepted by the webhook, and the webhook  *)
(* gets it twice only if an answer or a mark was lost (pick_undelivered_   *)
(* events, mark_event_delivered), whatever the walker appends meanwhile.   *)
THEOREM EventsDeliveredOnce == Spec => []DeliveredOnce
<1>1. TypeOK /\ ControlOK => DeliveredOnce
    <2> SUFFICES ASSUME TypeOK, ControlOK, NEW i \in DOMAIN events
                 PROVE  /\ events[i].delivered => events[i].got > 0
                        /\ events[i].got <= 1 + faults
        BY DEF DeliveredOnce
    <2>1. events[i].got \in Nat /\ faults \in Nat /\ Accepted(events[i], faults)
        <3>1. events[i] \in EventSet /\ faults \in 0..MaxFaults
            BY DEF TypeOK
        <3> QED  BY <3>1, Constants DEF ControlOK, Drained, EventSet
    <2> QED  BY <2>1 DEF Accepted
<1> QED  BY <1>1, Typed, PTL


-----------------------------------------------------------------------------
(* Outages.                                                                *)

LEMMA StoryKept ==
    ASSUME TypeOK, ControlOK, [Next]_vars
    PROVE  /\ Len(events) \in Nat /\ DOMAIN events = 1..Len(events)
           /\ Len(events') \in Nat /\ DOMAIN events' = 1..Len(events')
           /\ Len(events) <= Len(events')
           /\ ~Emits => Len(events') = Len(events)
           /\ \A i \in 1..Len(events) : SameStory(events[i], events'[i])
<1>1. /\ events \in Seq(EventSet) /\ Len(events) \in Nat /\ DOMAIN events = 1..Len(events)
      /\ events' \in Seq(EventSet) /\ Len(events') \in Nat /\ DOMAIN events' = 1..Len(events')
    BY EventsTyped DEF TypeOK
<1>2. CASE UNCHANGED events
    BY <1>1, <1>2 DEF SameStory
<1>3. CASE Emits
    <2>1. ASSUME NEW e \in EventSet, Insert(e), ~UNCHANGED events
          PROVE  /\ Len(events') = Len(events) + 1
                 /\ \A i \in DOMAIN events : events'[i] = events[i]
        BY <2>1, InsertIs
    <2>2. CASE ~UNCHANGED events
        <3>1. \E e \in EventSet : Insert(e)
            BY <1>3, <2>2, EmitsInsert
        <3>2. /\ Len(events') = Len(events) + 1
              /\ \A i \in 1..Len(events) : events'[i] = events[i]
            BY <1>1, <2>1, <2>2, <3>1
        <3>3. \A i \in 1..Len(events) : SameStory(events[i], events'[i])
            BY <3>2 DEF SameStory
        <3>4. Len(events) <= Len(events')
            BY <1>1, <3>2
        <3> QED  BY <1>1, <1>3, <3>3, <3>4
    <2> QED  BY <1>2, <2>2
<1>4. ASSUME NEW i \in batch, Deliver(i) \/ Refuse(i) \/ DeliverUnmarked(i) \/ DeliverTimesOut(i)
      PROVE  /\ Len(events') = Len(events)
             /\ \A k \in 1..Len(events) : SameStory(events[k], events'[k])
    <2>1. PICK f \in EventSet :
             /\ i \in DOMAIN events /\ events' = [events EXCEPT ![i] = f] /\ SameStory(events[i], f)
        BY <1>4, Delivering
    <2>2. Len(events') = Len(events)
        BY <1>1, <2>1
    <2>3. \A k \in DOMAIN events : events'[k] = events[k] \/ (k = i /\ events'[k] = f)
        BY <1>1, <2>1
    <2> QED  BY <1>1, <2>1, <2>2, <2>3 DEF SameStory
<1>5. PickUndelivered \/ UNCHANGED <<events, batch>> => UNCHANGED events
    BY DEF PickUndelivered
<1>6. ASSUME NEW i \in batch, Deliver(i) \/ Refuse(i) \/ DeliverUnmarked(i) \/ DeliverTimesOut(i)
      PROVE  /\ Len(events') = Len(events) /\ Len(events) <= Len(events')
             /\ \A k \in 1..Len(events) : SameStory(events[k], events'[k])
    <2>1. /\ Len(events') = Len(events)
          /\ \A k \in 1..Len(events) : SameStory(events[k], events'[k])
        BY <1>4, <1>6
    <2>2. Len(events) <= Len(events')
        BY <1>1, <2>1
    <2> QED  BY <2>1, <2>2
<1> QED  BY <1>1, <1>2, <1>3, <1>5, <1>6, EventSteps

(* What the journal tells stays told, and in the same order.               *)
LEMMA ToldStays ==
    ASSUME TypeOK, ControlOK, [Next]_vars
    PROVE  /\ \A n \in 0..Len(events) : \A h, type, k :
                 NotedIn(events, n, h, type, k) => NotedIn(events', n, h, type, k)
           /\ \A i \in 1..Len(events) : InTurn(events, i) => InTurn(events', i)
           /\ \A h, type, k : NotedIn(events, Len(events), h, type, k)
                                => NotedIn(events', Len(events'), h, type, k)
<1> PICK n \in Nat : n = Len(events)
    BY StoryKept
<1> PICK m \in Nat : m = Len(events') /\ n <= m
    BY StoryKept
<1> PICK f : f = events'
    OBVIOUS
<1>1. \A i \in 1..n : SameStory(events[i], f[i])
    BY StoryKept
<1>2. ASSUME NEW p \in 0..n, NEW h, NEW type, NEW k, NotedIn(events, p, h, type, k)
      PROVE  NotedIn(f, p, h, type, k)
    <2>1. PICK i \in 1..p : events[i].hop = h /\ events[i].type = type /\ events[i].epoch = k
        BY <1>2 DEF NotedIn
    <2>2. f[i].hop = h /\ f[i].type = type /\ f[i].epoch = k
        BY <1>1, <2>1 DEF SameStory
    <2> QED  BY <2>2 DEF NotedIn
<1>3. ASSUME NEW i \in 1..n, InTurn(events, i)
      PROVE  InTurn(f, i)
    <2>1. SameStory(events[i], f[i]) /\ i - 1 \in 0..n
        BY <1>1
    <2> QED  BY <1>2, <1>3, <2>1 DEF InTurn, SameStory
<1>4. ASSUME NEW h, NEW type, NEW k, NotedIn(events, n, h, type, k)
      PROVE  NotedIn(f, m, h, type, k)
    <2>1. NotedIn(f, n, h, type, k)
        BY <1>2, <1>4
    <2>2. 1..n \subseteq 1..m
        OBVIOUS
    <2> QED  BY <2>1, <2>2 DEF NotedIn
<1> QED  BY <1>2, <1>3, <1>4

LEMMA OutageStep ==
    ASSUME TypeOK, ControlOK, OutageInv, [Next]_vars
    PROVE  OutageInv'
<1> PICK n \in Nat : n = Len(events) /\ DOMAIN events = 1..n
    BY StoryKept
<1>1. /\ \A i \in 1..n : InTurn(events', i)
      /\ \A h, type, k : NotedIn(events, n, h, type, k) => NotedIn(events', Len(events'), h, type, k)
      /\ \A h, type, k : NotedIn(events, n, h, type, k) => NotedIn(events', n, h, type, k)
    BY ToldStays DEF OutageInv
<1>2. \A h, type, k : Noted(h, type, k) <=> NotedIn(events, n, h, type, k)
    BY DEF Noted, NotedIn
<1>3. \A h \in Hops : history[h].epoch \in Nat /\ history[h] \in RowSet
    BY DEF TypeOK, RowSet
<1>4. walk \in WalkSet
    BY DEF TypeOK
<1>5. DOMAIN events' = 1..Len(events') /\ (~Emits => Len(events') = n)
    BY StoryKept
<1>6. CASE Emits
    <2> PICK h \in Hops : h = walk.hop
        BY <1>6, HopsIn DEF Emits, EmitVersion, EmitMoved, EmitOutage, AtHop
    <2>1. UNCHANGED history
        BY <1>6, EmitsInsert
    <2>2. \A g \in Hops : \A k \in Nat :
              k < history'[g].epoch => NotedIn(events', Len(events'), g, "version_restored", k)
        BY <1>1, <2>1 DEF OutageInv
    <2>3. ASSUME NEW type \in {"new_version", "version_mismatch", "authority_moved",
                               "version_pulled", "version_restored"},
                 NEW k \in Nat, NEW prior \in 0..NHops, Insert(EventOf(h, type, k, prior)),
                 type = "version_restored" => NotedIn(events, n, h, "version_pulled", k),
                 type = "version_pulled" /\ k > 0 => NotedIn(events, n, h, "version_restored", k - 1)
          PROVE  /\ \A i \in DOMAIN events' : InTurn(events', i)
                 /\ NotedIn(events', Len(events'), h, type, k)
        <3> PICK e \in EventSet : e = EventOf(h, type, k, prior) /\ e.hop = h /\ e.type = type /\ e.epoch = k
            <4>1. EventOf(h, type, k, prior) \in EventSet
                BY EventIs
            <4> QED  BY <4>1 DEF EventOf
        <3>1. CASE UNCHANGED events /\ Noted(h, type, k)
            BY <1>1, <1>2, <3>1
        <3>2. CASE /\ DOMAIN events' = 1..(n + 1) /\ Len(events') = n + 1
                   /\ events'[n + 1] = e
            <4>1. \A i \in DOMAIN events' : i \in 1..n \/ i = n + 1
                BY <3>2
            <4>2. InTurn(events', n + 1)
                <5>1. /\ type = "version_restored" => NotedIn(events', n, h, "version_pulled", k)
                      /\ type = "version_pulled" /\ k > 0
                           => NotedIn(events', n, h, "version_restored", k - 1)
                    BY <1>1, <2>3
                <5>2. (n + 1) - 1 = n
                    OBVIOUS
                <5> QED  BY <3>2, <5>1, <5>2 DEF InTurn
            <4>3. NotedIn(events', n + 1, h, type, k)
                BY <3>2 DEF NotedIn
            <4> QED  BY <1>1, <3>2, <4>1, <4>2, <4>3
        <3> QED  BY <2>3, <3>1, <3>2, InsertIs
    <2>4. CASE EmitVersion \/ EmitMoved
        <3>1. PriorVerified(h) \in 0..NHops /\ 0 \in Nat
            BY PriorIn DEF TypeOK, ControlOK
        <3>2. \/ UNCHANGED events
              \/ Insert(EventOf(h, "new_version", 0, PriorVerified(h)))
              \/ Insert(EventOf(h, "version_mismatch", 0, PriorVerified(h)))
              \/ Insert(EventOf(h, "authority_moved", 0, PriorVerified(h)))
            BY <2>4 DEF EmitVersion, EmitMoved
        <3>3. \A i \in DOMAIN events' : InTurn(events', i)
            BY <1>1, <2>3, <3>1, <3>2
        <3>4. walk'.pc # "bump"
            BY <1>4, <2>4 DEF EmitVersion, EmitMoved, WalkSet
        <3> QED  BY <2>2, <3>3, <3>4 DEF OutageInv
    <2>5. CASE EmitOutage
        <3> DEFINE k == history[h].epoch
        <3>1. k \in Nat /\ 0 \in 0..NHops
            BY <1>3, Constants
        <3>2. k > 0 => NotedIn(events, n, h, "version_restored", k - 1)
            BY <3>1 DEF OutageInv
        <3>3. \/ Insert(EventOf(h, "version_pulled", k, 0)) /\ walk' = NextHop(walk)
              \/ /\ PullNoted(h) /\ Insert(EventOf(h, "version_restored", k, 0))
                 /\ walk'.hop = h
              \/ UNCHANGED events /\ walk' = NextHop(walk)
            BY <1>3, <1>4, <2>5 DEF EmitOutage, WalkSet, RowSet
        <3>4. NextHop(walk).pc # "bump"
            BY <1>4, NextHopIs
        <3>5. PullNoted(h) => NotedIn(events, n, h, "version_pulled", k)
            BY <1>2 DEF PullNoted
        <3> HIDE DEF k
        <3>6. CASE Insert(EventOf(h, "version_pulled", k, 0)) /\ walk' = NextHop(walk)
            BY <2>2, <2>3, <3>1, <3>2, <3>4, <3>6 DEF OutageInv
        <3>7. CASE /\ PullNoted(h) /\ Insert(EventOf(h, "version_restored", k, 0))
                   /\ walk'.hop = h
            <4>1. /\ \A i \in DOMAIN events' : InTurn(events', i)
                  /\ NotedIn(events', Len(events'), h, "version_restored", k)
                BY <2>3, <3>1, <3>5, <3>7
            <4>2. history'[walk'.hop].epoch = k
                BY <2>1, <3>7 DEF k
            <4> QED  BY <2>2, <3>7, <4>1, <4>2 DEF OutageInv
        <3>8. CASE UNCHANGED events /\ walk' = NextHop(walk)
            BY <1>1, <2>2, <3>4, <3>8 DEF OutageInv
        <3> QED  BY <3>3, <3>6, <3>7, <3>8
    <2> QED  BY <1>6, <2>4, <2>5 DEF Emits
<1>7. CASE BumpPullEpoch
    <2> PICK h \in Hops : h = walk.hop
        BY <1>7, HopsIn DEF BumpPullEpoch, AtHop
    <2>1. /\ history' = [history EXCEPT ![h].epoch = @ + 1] /\ walk' = NextHop(walk) /\ UNCHANGED events
          /\ walk.pc = "bump"
        BY <1>7 DEF BumpPullEpoch
    <2>2. history'[h].epoch = history[h].epoch + 1 /\ \A g \in Hops \ {h} : history'[g] = history[g]
        BY <1>3, <2>1 DEF TypeOK, RowSet
    <2>3. ASSUME NEW g \in Hops, NEW k \in Nat, k < history'[g].epoch
          PROVE  NotedIn(events, n, g, "version_restored", k)
        <3>1. k < history[g].epoch \/ (g = h /\ k = history[h].epoch)
            BY <1>3, <2>2, <2>3
        <3> QED  BY <2>1, <3>1 DEF OutageInv
    <2>4. walk'.pc # "bump"
        BY <1>4, <2>1, NextHopIs
    <2> QED  BY <2>1, <2>3, <2>4 DEF OutageInv
<1>8. CASE /\ ~Emits /\ (walk'.pc = "bump" => UNCHANGED walk)
           /\ \A h \in Hops : history'[h].epoch = history[h].epoch
    <2>1. \A i \in DOMAIN events' : InTurn(events', i)
        BY <1>1, <1>5, <1>8
    <2>2. \A h \in Hops : \A k \in Nat :
             k < history'[h].epoch => NotedIn(events', Len(events'), h, "version_restored", k)
        BY <1>1, <1>8 DEF OutageInv
    <2>3. walk'.pc = "bump" =>
             NotedIn(events', Len(events'), walk'.hop, "version_restored", history'[walk'.hop].epoch)
        <3> SUFFICES ASSUME walk'.pc = "bump"
                     PROVE  NotedIn(events', Len(events'), walk'.hop, "version_restored",
                                    history'[walk'.hop].epoch)
            OBVIOUS
        <3> PICK h \in Hops : h = walk.hop /\ walk' = walk
            BY <1>8, HopsIn DEF AtHop
        <3>1. NotedIn(events, n, h, "version_restored", history[h].epoch)
            BY DEF OutageInv
        <3> QED  BY <1>1, <1>8, <3>1
    <2> QED  BY <2>1, <2>2, <2>3 DEF OutageInv
<1>9. \A h \in Hops : (Hour \/ RecordVersion \/ UNCHANGED history) => history'[h].epoch = history[h].epoch
    <2> TAKE h \in Hops
    <2>1. CASE Hour
        BY <1>3, <2>1 DEF Hour, RowSet
    <2>2. CASE RecordVersion
        <3>1. walk.hop \in Hops
            BY <2>2, HopsIn DEF RecordVersion, AtHop
        <3> PICK g \in Hops : g = walk.hop
            BY <3>1
        <3>2. history'[g].epoch = history[g].epoch
            BY <2>2 DEF RecordVersion, TypeOK
        <3>3. h # g => history'[h] = history[h]
            BY <2>2 DEF RecordVersion, TypeOK
        <3> QED  BY <3>2, <3>3
    <2> QED  BY <2>1, <2>2
<1>10. walk'.pc = "bump" => UNCHANGED walk \/ Emits
    <2>1. NextHop(walk).pc # "bump" /\ Idle.pc # "bump"
        BY <1>4, NextHopIs DEF Idle
    <2>2. CASE WalkStep
        BY <1>4, <2>1, <2>2 DEF WalkStep, Emits, Pick, WalkAuthchain, CacheHead, RecordVersion,
                    BumpPullEpoch, QueueIcon, ShowVersion, MarkWalked, RecomputeProfile, Idle, WalkSet
    <2>3. CASE StatementFails \/ Crash
        BY <1>4, <2>1, <2>3 DEF StatementFails, Crash, WalkSet
    <2>4. CASE ~WalkStep /\ ~StatementFails /\ ~Crash
        BY <2>4 DEF Next, DrainStep, World, Lapse, vars, WorldVars, DrainFrame, ChainGrows, EdgeIndexed,
               HostChanges, NudgeBcmrIndexer, FillFromRegistry, PickUndelivered, Deliver, Refuse,
               DeliverUnmarked, DeliverTimesOut, Hour
    <2> QED  BY <2>2, <2>3, <2>4
<1>11. Emits \/ BumpPullEpoch \/ Hour \/ RecordVersion \/ UNCHANGED history
    BY DEF Emits, Next, WalkStep, DrainStep, World, Lapse, vars, tables, DrainFrame, ChainGrows, EdgeIndexed,
           HostChanges, NudgeBcmrIndexer, FillFromRegistry, Pick, WalkAuthchain, CacheHead, QueueIcon,
           ShowVersion, MarkWalked, RecomputeProfile, StatementFails, Crash, PickUndelivered, Deliver,
           Refuse, DeliverUnmarked, DeliverTimesOut
<1> QED  BY <1>6, <1>7, <1>8, <1>9, <1>10, <1>11

(* Outages alternate: a restored event follows the pulled event of its     *)
(* epoch, and a further pulled event follows the restored event of the     *)
(* epoch before (pulled_event_exists, bump_pull_epoch), through every      *)
(* failed statement and crash between a restore and its epoch.             *)
THEOREM OutagesAlternate == Spec => []OutageProtocol
<1>1. Init => OutageInv
    BY Constants DEF Init, OutageInv, NoRow, Idle
<1>2. TypeOK /\ ControlOK /\ OutageInv => OutageProtocol
    BY DEF OutageInv, InTurn, NotedIn, OutageProtocol
<1> QED  BY <1>1, <1>2, OutageStep, Typed, PTL DEF Spec


-----------------------------------------------------------------------------
(* The archive and what is shown from it.                                  *)

(* Fetching hop h again: what was captured first is kept.                  *)
LEMMA Refetched ==
    ASSUME TypeOK, ControlOK, RecordVersion
    PROVE  \E h \in Hops :
             /\ h = walk.hop /\ HopDoc[h] \in Doc
             /\ \A g \in Hops \ {h} : history'[g] = history[g]
             /\ history'[h].body = Keep(history[h].body, Capture(h, Fetched(h)).body)
             /\ history'[h].fields = Keep(history[h].fields, Capture(h, Fetched(h)).fields)
             /\ history'[h].addr = Keep(history[h].addr, HopAddr[h])
             /\ history'[h].seen
             /\ history'[h].lastAge = IF Fetched(h) = "good" THEN 0 ELSE history[h].lastAge
<1> PICK h \in Hops : h = walk.hop /\ HopDoc[h] \in Doc
    BY HopsIn DEF RecordVersion, AtHop
<1> DEFINE c == Capture(h, Fetched(h))
<1>1. /\ history'[h].body = Keep(history[h].body, c.body)
      /\ history'[h].fields = Keep(history[h].fields, c.fields)
      /\ history'[h].addr = Keep(history[h].addr, HopAddr[h])
      /\ history'[h].seen
      /\ history'[h].lastAge = IF Fetched(h) = "good" THEN 0 ELSE history[h].lastAge
    <2> HIDE DEF c
    <2> QED  BY DEF RecordVersion, TypeOK, c
<1>2. \A g \in Hops \ {h} : history'[g] = history[g]
    BY DEF RecordVersion, TypeOK
<1> QED  BY <1>1, <1>2

(* The other statements that write the archive.                            *)
LEMMA Aged ==
    ASSUME TypeOK, ControlOK, [Next]_vars, ~RecordVersion, NEW h \in Hops
    PROVE  /\ history'[h].body = history[h].body /\ history'[h].fields = history[h].fields
           /\ history'[h].addr = history[h].addr /\ history'[h].seen = history[h].seen
           /\ history[h].lastAge # None => history'[h].lastAge # None
<1>1. history \in [Hops -> RowSet] /\ history[h] \in RowSet
    BY DEF TypeOK
<1>2. CASE Hour
    <2>1. history[h].lastAge # None => Lesser(history[h].lastAge + 1, PulledAfter) # None
        <3>1. history[h].lastAge # None => history[h].lastAge \in Nat
            BY <1>1, Constants DEF RowSet
        <3> QED  BY <3>1, Constants, WatchdogConstants DEF Lesser
    <2> QED  BY <1>1, <1>2, <2>1 DEF Hour, RowSet
<1>3. CASE BumpPullEpoch
    <2> PICK g \in Hops : g = walk.hop
        BY <1>3, HopsIn DEF BumpPullEpoch, AtHop
    <2> PICK r \in RowSet : r = history[g]
        BY <1>1
    <2>1. history' = [history EXCEPT ![g] = [r EXCEPT !.epoch = @ + 1]]
        BY <1>1, <1>3 DEF BumpPullEpoch
    <2>2. history'[h] = IF h = g THEN [r EXCEPT !.epoch = @ + 1] ELSE history[h]
        BY <1>1, <2>1
    <2> QED  BY <2>2 DEF RowSet
<1>4. CASE UNCHANGED history
    BY <1>4
<1>5. Hour \/ BumpPullEpoch \/ UNCHANGED history
    BY DEF Next, WalkStep, DrainStep, World, Lapse, vars, tables, DrainFrame, Emitting, ChainGrows,
           EdgeIndexed, HostChanges, NudgeBcmrIndexer, FillFromRegistry, Pick, WalkAuthchain, CacheHead,
           EmitVersion, EmitMoved, EmitOutage, QueueIcon, ShowVersion, MarkWalked, RecomputeProfile,
           StatementFails, Crash, PickUndelivered, Deliver, Refuse, DeliverUnmarked, DeliverTimesOut
<1> QED  BY <1>2, <1>3, <1>4, <1>5

LEMMA Kept ==
    ASSUME TypeOK, ControlOK, Committed, [Next]_vars, NEW h \in Hops
    PROVE  /\ history[h].body # None => history'[h].body = history[h].body
           /\ history[h].fields # None => history'[h].fields = history[h].fields
           /\ history[h].addr # None => history'[h].addr = history[h].addr
           /\ history'[h].body \in {None, HopDoc[h]}
<1>1. history[h].body \in {None, HopDoc[h]}
    BY DEF Committed
<1>2. CASE RecordVersion
    BY <1>1, <1>2, Refetched DEF Keep, Capture
<1>3. CASE ~RecordVersion
    BY <1>1, <1>3, Aged
<1> QED  BY <1>2, <1>3

(* What was archived of a version at first sight stays: the body, the      *)
(* fields and the authority's address of a row never change again, and a   *)
(* body in the archive is the one the chain committed to, whatever the     *)
(* hosts serve later (upsert_token_metadata_history).                      *)
THEOREM ArchiveStays == Spec => ArchiveKept
<1>1. Init => Committed
    BY DEF Init, Committed, NoRow
<1>2. TypeOK /\ ControlOK /\ Committed /\ [Next]_vars => Committed'
    BY Kept DEF Committed
<1>3. TypeOK /\ ControlOK /\ Committed /\ [Next]_vars =>
        [\A h \in Hops :
          /\ history[h].body # None => history'[h].body = history[h].body
          /\ history[h].fields # None => history'[h].fields = history[h].fields
          /\ history[h].addr # None => history'[h].addr = history[h].addr
          /\ history'[h].body \in {None, HopDoc[h]}]_vars
    BY Kept
<1> QED  BY <1>1, <1>2, <1>3, Typed, PTL DEF Spec, ArchiveKept

LEMMA ShownStays ==
    ASSUME TypeOK, ControlOK, [Next]_vars, NEW h, Shows(history, h)
    PROVE  Shows(history', h)
<1>1. h \in Hops /\ history[h].seen /\ HopDoc[h] \in Parsing /\ history[h].lastAge # None
    BY DEF Shows
<1>2. CASE RecordVersion
    BY <1>1, <1>2, Refetched, WatchdogConstants DEF Shows
<1>3. CASE ~RecordVersion
    BY <1>1, <1>3, Aged DEF Shows
<1> QED  BY <1>2, <1>3

LEMMA BestStep ==
    ASSUME TypeOK, ControlOK, TrustInv, [Next]_vars
    PROVE  BestInv'
<1>1. walk \in WalkSet /\ walk.best \in Nat /\ faults \in Nat /\ faults <= faults' /\ faults' \in Nat
    BY WorldTyped, Constants DEF TypeOK, WalkSet
<1>2. iconQueue \subseteq iconQueue'
    BY DEF Next, WalkStep, DrainStep, World, Lapse, vars, tables, Emitting, DrainFrame, ChainGrows,
           EdgeIndexed, HostChanges, NudgeBcmrIndexer, FillFromRegistry, Hour, Pick, WalkAuthchain,
           CacheHead, RecordVersion, EmitVersion, EmitMoved, EmitOutage, BumpPullEpoch, QueueIcon,
           ShowVersion, MarkWalked, RecomputeProfile, StatementFails, Crash, PickUndelivered, Deliver,
           Refuse, DeliverUnmarked, DeliverTimesOut
<1>3. walk.best # 0 => Shows(history', walk.best)
    BY ShownStays DEF TrustInv, BestInv
<1>4. /\ NextHop(walk).best = walk.best /\ NextHop(walk).pc # "show"
      /\ Idle.best = 0 /\ Idle.pc # "show"
    BY <1>1, NextHopIs DEF Idle
<1>5. CASE RecordVersion
    <2> PICK h \in Hops : /\ h = walk.hop /\ history'[h].seen
                          /\ history'[h].lastAge = IF Fetched(h) = "good" THEN 0 ELSE history[h].lastAge
        BY <1>5, Refetched
    <2>1. walk'.best = IF Fetched(h) = "good" /\ HopDoc[h] \in Parsing THEN h ELSE walk.best
        BY <1>1, <1>5 DEF RecordVersion, WalkSet
    <2>2. walk'.pc = "version" /\ h \in Hops
        BY <1>1, <1>5, HopsIn DEF RecordVersion, WalkSet, AtHop
    <2>3. CASE Fetched(h) = "good" /\ HopDoc[h] \in Parsing
        BY <2>1, <2>3, <2>2, WatchdogConstants DEF Shows, BestInv
    <2>4. CASE ~(Fetched(h) = "good" /\ HopDoc[h] \in Parsing)
        BY <1>3, <2>1, <2>4, <2>2 DEF BestInv
    <2> QED  BY <2>3, <2>4
<1>6. CASE QueueIcon
    <2>1. walk'.best = walk.best /\ HopDoc[walk.best] \in iconQueue'
        BY <1>1, <1>6 DEF QueueIcon, WalkSet
    <2> QED  BY <1>3, <2>1 DEF BestInv
<1>7. CASE StatementFails
    <2>1. walk'.best \in {0, walk.best} /\ faults' = faults + 1
        BY <1>1, <1>4, <1>7 DEF StatementFails, WalkSet
    <2> QED  BY <1>1, <1>3, <2>1 DEF BestInv
<1>8. CASE walk'.best \in {0, walk.best} /\ walk'.pc # "show"
    BY <1>3, <1>8 DEF BestInv
<1>9. CASE UNCHANGED walk
    BY <1>1, <1>2, <1>3, <1>9 DEF TrustInv, BestInv
<1>10. \/ RecordVersion \/ QueueIcon \/ StatementFails \/ UNCHANGED walk
       \/ walk'.best \in {0, walk.best} /\ walk'.pc # "show"
    <2>1. CASE WalkStep
        BY <1>1, <1>4, <2>1 DEF WalkStep, Pick, WalkAuthchain, CacheHead, EmitVersion, EmitMoved,
           EmitOutage, BumpPullEpoch, ShowVersion, MarkWalked, RecomputeProfile, WalkSet, Idle
    <2>2. CASE Crash
        BY <1>4, <2>2 DEF Crash
    <2>3. CASE ~WalkStep /\ ~Crash
        BY <2>3 DEF Next, DrainStep, World, Lapse, vars, WorldVars, DrainFrame, ChainGrows, EdgeIndexed,
               HostChanges, NudgeBcmrIndexer, FillFromRegistry, PickUndelivered, Deliver, Refuse,
               DeliverUnmarked, DeliverTimesOut, Hour
    <2> QED  BY <2>1, <2>2, <2>3
<1> QED  BY <1>5, <1>6, <1>7, <1>8, <1>9, <1>10

LEMMA TrustStep ==
    ASSUME TypeOK, ControlOK, TrustInv, [Next]_vars
    PROVE  TrustInv' /\ (meta.source = "onchain" => meta'.source = "onchain")
<1>1. /\ meta \in [source : Source, doc : MaybeDoc \union {Listed}, age : 0..StaleAfter]
      /\ faults \in Nat /\ faults <= faults' /\ faults' \in Nat
    BY WorldTyped, Constants DEF TypeOK
<1>2. CASE ShowVersion
    <2>1. /\ walk.best # 0 /\ meta'.source = "onchain" /\ meta'.doc = HopDoc[walk.best]
          /\ UNCHANGED <<iconQueue, faults>> /\ walk.pc = "show"
        BY <1>2 DEF ShowVersion, ControlOK, WalkOK, WalkSound
    <2>2. Shows(history, walk.best) /\ (HopDoc[walk.best] \in iconQueue \/ faults > 0)
        BY <2>1 DEF TrustInv, BestInv
    <2>3. Shows(history', walk.best)
        BY <2>2, ShownStays
    <2>4. Trusted'
        BY <2>1, <2>2, <2>3 DEF Trusted, Shows, Seen
    <2> QED  BY <2>1, <2>4, BestStep DEF TrustInv
<1>3. CASE /\ meta'.source = "onchain" <=> meta.source = "onchain"
           /\ meta.source = "onchain" => meta'.doc = meta.doc
    <2>1. iconQueue \subseteq iconQueue'
        BY DEF Next, WalkStep, DrainStep, World, Lapse, vars, tables, Emitting, DrainFrame, ChainGrows,
               EdgeIndexed, HostChanges, NudgeBcmrIndexer, FillFromRegistry, Hour, Pick, WalkAuthchain,
               CacheHead, RecordVersion, EmitVersion, EmitMoved, EmitOutage, BumpPullEpoch, QueueIcon,
               ShowVersion, MarkWalked, RecomputeProfile, StatementFails, Crash, PickUndelivered, Deliver,
               Refuse, DeliverUnmarked, DeliverTimesOut
    <2>2. Trusted'
        <3> SUFFICES ASSUME meta.source = "onchain"
                     PROVE  \E h \in Seen' : /\ HopDoc[h] = meta.doc /\ meta.doc \in Parsing
                                             /\ history'[h].lastAge # None
                                             /\ meta.doc \in iconQueue' \/ faults' > 0
            BY <1>3 DEF Trusted
        <3> PICK h \in Seen : /\ HopDoc[h] = meta.doc /\ meta.doc \in Parsing
                              /\ history[h].lastAge # None
                              /\ meta.doc \in iconQueue \/ faults > 0
            BY DEF TrustInv, Trusted
        <3>1. Shows(history', h)
            BY ShownStays DEF Shows, Seen
        <3> QED  BY <1>1, <2>1, <3>1 DEF Shows, Seen
    <2> QED  BY <1>3, <2>2, BestStep DEF TrustInv
<1>4. \/ ShowVersion
      \/ /\ meta'.source = "onchain" <=> meta.source = "onchain"
         /\ meta.source = "onchain" => meta'.doc = meta.doc
    <2>1. CASE Hour
        BY <1>1, <2>1 DEF Hour
    <2>2. CASE World
        BY <1>1, <2>2 DEF World, ChainGrows, EdgeIndexed, HostChanges, NudgeBcmrIndexer, FillFromRegistry,
           tables
    <2>3. CASE MarkWalked
        BY <1>1, <2>3 DEF MarkWalked
    <2>4. UNCHANGED meta \/ Hour \/ World \/ MarkWalked \/ ShowVersion
        BY DEF Next, WalkStep, DrainStep, Lapse, vars, tables, Emitting, DrainFrame, Pick, WalkAuthchain,
               CacheHead, RecordVersion, EmitVersion, EmitMoved, EmitOutage, BumpPullEpoch, QueueIcon,
               RecomputeProfile, StatementFails, Crash, PickUndelivered, Deliver, Refuse,
               DeliverUnmarked, DeliverTimesOut
    <2> QED  BY <2>1, <2>2, <2>3, <2>4
<1> QED  BY <1>2, <1>3, <1>4

(* What the directory shows as on-chain metadata was fetched from a hop of *)
(* the authchain and matched its hash, and its icon was queued unless that *)
(* failed; once there, it never gives way to registry data or to the       *)
(* sentinel, whatever the order of the importer, the walker and failures   *)
(* (upsert_token_metadata_onchain, sync-bcmr-otr, mark_no_locator_walked). *)
THEOREM MetadataTrusted == Spec => CanonicalMeta
<1>1. Init => TrustInv
    BY DEF Init, TrustInv, BestInv, Trusted, Idle
<1>2. TypeOK /\ ControlOK /\ TrustInv /\ [Next]_vars => TrustInv'
    BY TrustStep
<1>3. TypeOK /\ ControlOK /\ TrustInv /\ [Next]_vars =>
        [Trusted' /\ (meta.source = "onchain" => meta'.source = "onchain")]_vars
    BY TrustStep DEF TrustInv
<1> QED  BY <1>1, <1>2, <1>3, Typed, PTL DEF Spec, CanonicalMeta

=============================================================================
