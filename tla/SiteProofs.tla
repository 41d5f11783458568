------------------------------ MODULE SiteProofs ------------------------------
(***************************************************************************)
(* Proofs about the site: the home page in a browser, the icons, the       *)
(* limits of votes, watchlists and reports, what a hidden token is hidden  *)
(* from, and what the pages agree on, for any number of loads, operators,  *)
(* images, requests, wallets, reporters and tokens, any rows, and any      *)
(* faults.                                                                 *)
(***************************************************************************)
EXTENDS Site, Counting, FiniteSetTheorems, SequenceTheorems, TLAPS

IsSequence(s) == Len(s) \in Nat /\ s = [t \in 1..Len(s) |-> s[t]]

LEMMA Appended ==
  ASSUME NEW s, IsSequence(s), NEW e
  PROVE  /\ IsSequence(Append(s, e)) /\ Len(Append(s, e)) = Len(s) + 1
         /\ DOMAIN s = 1..Len(s) /\ DOMAIN Append(s, e) = 1..(Len(s) + 1)
         /\ Append(s, e)[Len(s) + 1] = e
         /\ \A t \in 1..Len(s) : Append(s, e)[t] = s[t]
<1> DEFINE T == {s[t] : t \in 1..Len(s)} \cup {e}
<1>1. s \in Seq(T) /\ e \in T /\ DOMAIN s = 1..Len(s) /\ Len(s) \in Nat
  BY DEF IsSequence
<1> HIDE DEF T
<1>2. PICK new : new = Append(s, e)
  OBVIOUS
<1>3. new \in Seq(T) /\ Len(new) = Len(s) + 1 /\ new[Len(s) + 1] = e
      /\ \A t \in 1..Len(s) : new[t] = s[t]
  BY <1>1, <1>2
<1>4. new \in [1..Len(new) -> T] /\ Len(new) \in Nat
  BY <1>3
<1>5. IsSequence(new) /\ DOMAIN new = 1..(Len(s) + 1)
  BY <1>3, <1>4 DEF IsSequence
<1> QED BY <1>1, <1>2, <1>3, <1>5

(* A sequence with one of its elements replaced.                           *)
LEMMA Replaced ==
  ASSUME NEW s, IsSequence(s), NEW r, DOMAIN r = DOMAIN s, r = [t \in DOMAIN r |-> r[t]]
  PROVE  IsSequence(r) /\ Len(r) = Len(s) /\ DOMAIN r = 1..Len(s)
<1> DEFINE T == {r[t] : t \in 1..Len(s)}
<1>1. Len(s) \in Nat /\ DOMAIN s = 1..Len(s)
  BY DEF IsSequence
<1>2. r \in [1..Len(s) -> T]
  BY <1>1
<1> HIDE DEF T
<1>3. r \in Seq(T) /\ Len(r) = Len(s)
  BY <1>1, <1>2
<1> QED BY <1>1, <1>2, <1>3 DEF IsSequence

----------------------------------------------------------------------------
(* The home page in a browser.                                             *)

BoxFields(b) == b = [input |-> b.input, committed |-> b.committed, debounce |-> b.debounce]
LoadFields(l) == l = [url |-> l.url, pc |-> l.pc]

(* The page is on a load that was made for its URL; what is in the search  *)
(* box has been committed unless it is being typed, and what is committed  *)
(* is in the URL unless a load is on its way.                              *)
BrowserInv ==
  /\ IsSequence(loads) /\ current \in 1..Len(loads)
  /\ \A i \in 1..Len(loads) : LoadFields(loads[i])
  /\ BoxFields(box)
  /\ loads[current].url = url
  /\ loads[current].pc = "arrived" => liveGrid = current
  /\ ~box.debounce => box.input = box.committed
  /\ loads[Latest].pc # "loading" => url.search = box.committed
LEMMA Synced ==
  ASSUME NEW b, BoxFields(b), NEW u
  PROVE  /\ BoxFields(SyncSearch(b, u)) /\ SyncSearch(b, u).debounce = b.debounce
         /\ SyncSearch(b, u).committed = u.search
         /\ b.input = b.committed => SyncSearch(b, u).input = SyncSearch(b, u).committed
<1>1. PICK x, y, z : b = [input |-> x, committed |-> y, debounce |-> z]
  BY DEF BoxFields
<1>2. CASE u.search # y
  <2>1. SyncSearch(b, u) = [input |-> u.search, committed |-> u.search, debounce |-> z]
    BY <1>1, <1>2 DEF SyncSearch
  <2> QED BY <1>1, <2>1 DEF BoxFields
<1>3. CASE u.search = y
  <2>1. SyncSearch(b, u) = b
    BY <1>1, <1>3 DEF SyncSearch
  <2> QED BY <1>1, <1>3, <2>1 DEF BoxFields
<1> QED BY <1>2, <1>3

(* A load more, on its way.                                                *)
LEMMA Going ==
  ASSUME BrowserInv, NEW u, Goto(u), UNCHANGED <<url, current, liveGrid>>,
         BoxFields(box'), ~box'.debounce => box'.input = box'.committed
  PROVE  BrowserInv'
<1>1. PICK l : l = [url |-> u, pc |-> "loading"]
  OBVIOUS
<1>2. loads' = Append(loads, l)
  BY <1>1 DEF Goto
<1>3. /\ IsSequence(loads') /\ Len(loads') = Len(loads) + 1 /\ Len(loads) \in Nat
      /\ loads'[Len(loads) + 1] = l
      /\ \A t \in 1..Len(loads) : loads'[t] = loads[t]
  BY <1>2, Appended DEF BrowserInv, IsSequence
<1>4. current \in 1..Len(loads') /\ loads'[current] = loads[current]
  BY <1>3 DEF BrowserInv
<1>5. \A i \in 1..Len(loads') : LoadFields(loads'[i])
  <2> TAKE i \in 1..Len(loads')
  <2>1. CASE i = Len(loads) + 1
    BY <1>1, <1>3, <2>1 DEF LoadFields
  <2>2. CASE i # Len(loads) + 1
    <3>1. i \in 1..Len(loads)
      BY <1>3, <2>2
    <3> QED BY <1>3, <3>1 DEF BrowserInv
  <2> QED BY <2>1, <2>2
<1>6. loads'[Len(loads')].pc = "loading"
  BY <1>1, <1>3
<1> QED BY <1>3, <1>4, <1>5, <1>6 DEF BrowserInv, Latest

(* A load that is on its way or whose grid is comes a step further.        *)
LEMMA Moved ==
  ASSUME BrowserInv, NEW i \in DOMAIN loads, NEW pc,
         loads' = [loads EXCEPT ![i].pc = pc]
  PROVE  /\ IsSequence(loads') /\ Len(loads') = Len(loads) /\ Len(loads) \in Nat /\ i \in 1..Len(loads)
         /\ \A t \in 1..Len(loads) : LoadFields(loads'[t]) /\ loads'[t].url = loads[t].url
         /\ loads'[i].pc = pc
         /\ \A t \in 1..Len(loads) : t # i => loads'[t].pc = loads[t].pc
<1>1. IsSequence(loads) /\ Len(loads) \in Nat /\ DOMAIN loads = 1..Len(loads)
  BY DEF BrowserInv, IsSequence
<1>2. i \in 1..Len(loads) /\ LoadFields(loads[i])
  BY <1>1 DEF BrowserInv
<1>3. PICK l : l = [loads[i] EXCEPT !.pc = pc]
  OBVIOUS
<1>4. LoadFields(l) /\ l.url = loads[i].url /\ l.pc = pc
  BY <1>2, <1>3 DEF LoadFields
<1>5. loads' = [loads EXCEPT ![i] = l]
  BY <1>3
<1>6. /\ IsSequence(loads') /\ Len(loads') = Len(loads)
      /\ loads'[i] = l /\ \A t \in 1..Len(loads) : t # i => loads'[t] = loads[t]
  <2>1. /\ DOMAIN loads' = DOMAIN loads /\ loads' = [t \in DOMAIN loads' |-> loads'[t]]
        /\ loads'[i] = l /\ \A t \in 1..Len(loads) : t # i => loads'[t] = loads[t]
    BY <1>1, <1>2, <1>5
  <2> QED BY <1>1, <2>1, Replaced
<1>7. \A t \in 1..Len(loads) : LoadFields(loads'[t]) /\ loads'[t].url = loads[t].url
  <2> TAKE t \in 1..Len(loads)
  <2>1. CASE t = i
    BY <1>4, <1>6, <2>1
  <2>2. CASE t # i
    BY <1>6, <2>2 DEF BrowserInv
  <2> QED BY <2>1, <2>2
<1> QED BY <1>1, <1>2, <1>4, <1>6, <1>7

LEMMA BrowserStep == ASSUME BrowserInv, BrowserNext PROVE BrowserInv'
<1>1. BoxFields(box) /\ (~box.debounce => box.input = box.committed)
  BY DEF BrowserInv
<1>2. ASSUME NEW u, Goto(u), UNCHANGED <<url, box, current, liveGrid>> PROVE BrowserInv'
  BY <1>1, <1>2, Going
<1>3. ASSUME NEW sort, SetSort(sort) PROVE BrowserInv'
  BY <1>2, <1>3 DEF SetSort, PushParam
<1>4. ASSUME NEW type, SetType(type) PROVE BrowserInv'
  BY <1>2, <1>4 DEF SetType, PushParam
<1>5. ASSUME NEW v, ToggleVenue(v) PROVE BrowserInv'
  BY <1>2, <1>5 DEF ToggleVenue, PushParam
<1>6. CASE SetPage
  BY <1>2, <1>6 DEF SetPage
<1>7. CASE GoBack
  BY <1>2, <1>7 DEF GoBack
<1>8. CASE Refresh
  BY <1>2, <1>8 DEF Refresh
<1>9. CASE Debounced
  <2>1. PICK b : b = [box EXCEPT !.committed = box.input, !.debounce = FALSE]
    OBVIOUS
  <2>2. BoxFields(b) /\ b.input = b.committed
    BY <1>1, <2>1 DEF BoxFields
  <2>3. box' = SyncSearch(b, url)
    BY <1>9, <2>1 DEF Debounced
  <2>4. BoxFields(box') /\ box'.input = box'.committed
    BY <2>2, <2>3, Synced
  <2>5. \E u : Goto(u)
    BY <1>9 DEF Debounced, PushParam
  <2>6. UNCHANGED <<url, current, liveGrid>>
    BY <1>9 DEF Debounced
  <2> QED BY <2>4, <2>5, <2>6, Going
<1>10. ASSUME NEW words, OnSearchInput(words) PROVE BrowserInv'
  <2>1. box' = [box EXCEPT !.input = words, !.debounce = TRUE] /\ UNCHANGED <<url, loads, current, liveGrid>>
    BY <1>10 DEF OnSearchInput
  <2>2. BoxFields(box') /\ box'.debounce /\ box'.committed = box.committed
    BY <1>1, <2>1 DEF BoxFields
  <2> QED BY <2>1, <2>2 DEF BrowserInv, Latest
<1>11. CASE LoadAnswers
  <2>1. /\ loads' = [loads EXCEPT ![Latest].pc = "streaming"]
        /\ current' = Latest /\ url' = loads[Latest].url
        /\ box' = SyncSearch(box, loads[Latest].url) /\ liveGrid' = liveGrid
    BY <1>11 DEF LoadAnswers
  <2>2. Latest \in 1..Len(loads) /\ DOMAIN loads = 1..Len(loads) /\ Latest = Len(loads)
    BY DEF BrowserInv, IsSequence, Latest
  <2>3. /\ IsSequence(loads') /\ Len(loads') = Len(loads)
        /\ \A t \in 1..Len(loads) : LoadFields(loads'[t]) /\ loads'[t].url = loads[t].url
        /\ loads'[Latest].pc = "streaming"
    BY <2>1, <2>2, Moved
  <2>4. /\ BoxFields(box') /\ box'.debounce = box.debounce /\ box'.committed = url'.search
        /\ box.input = box.committed => box'.input = box'.committed
    <3>1. PICK b, u : b = box /\ u = loads[Latest].url
      OBVIOUS
    <3>2. BoxFields(b)
      BY <1>1, <3>1
    <3>3. /\ BoxFields(SyncSearch(b, u)) /\ SyncSearch(b, u).debounce = b.debounce
          /\ SyncSearch(b, u).committed = u.search
          /\ b.input = b.committed => SyncSearch(b, u).input = SyncSearch(b, u).committed
      BY <3>2, Synced
    <3>4. box' = SyncSearch(b, u) /\ url' = u
      BY <2>1, <3>1
    <3> QED BY <3>1, <3>3, <3>4
  <2>5. ~box'.debounce => box'.input = box'.committed
    BY <1>1, <2>4
  <2>6. loads'[current'].url = url' /\ loads'[current'].pc = "streaming" /\ current' \in 1..Len(loads')
    BY <2>1, <2>2, <2>3
  <2> QED BY <2>3, <2>4, <2>5, <2>6 DEF BrowserInv
<1>12. ASSUME NEW i \in DOMAIN loads, GridArrives(i) \/ GridFails(i) PROVE BrowserInv'
  <2>1. PICK pc \in {"arrived", "failed"} :
          /\ loads' = [loads EXCEPT ![i].pc = pc] /\ loads[i].pc = "streaming"
          /\ UNCHANGED <<url, box, current>>
          /\ liveGrid' = IF pc = "arrived" /\ i = current THEN i ELSE liveGrid
    BY <1>12 DEF GridArrives, GridFails
  <2>2. /\ IsSequence(loads') /\ Len(loads') = Len(loads) /\ Len(loads) \in Nat
        /\ \A t \in 1..Len(loads) : LoadFields(loads'[t]) /\ loads'[t].url = loads[t].url
        /\ loads'[i].pc = pc
        /\ \A t \in 1..Len(loads) : t # i => loads'[t].pc = loads[t].pc
    BY <2>1, Moved
  <2>3. current \in 1..Len(loads) /\ Len(loads) \in 1..Len(loads)
    BY DEF BrowserInv, IsSequence
  <2>4. loads'[current].url = url
    BY <2>2, <2>3 DEF BrowserInv
  <2>5. loads'[current].pc = "arrived" => liveGrid' = current
    <3>1. CASE i = current
      BY <2>1, <2>2, <3>1
    <3>2. CASE i # current
      BY <2>1, <2>2, <2>3, <3>2 DEF BrowserInv
    <3> QED BY <3>1, <3>2
  <2>6. loads'[Len(loads)].pc # "loading" => url.search = box.committed
    <3>1. loads[Len(loads)].pc # "loading" => url.search = box.committed
      BY DEF BrowserInv, Latest
    <3>2. CASE i = Len(loads)
      BY <2>1, <3>1, <3>2
    <3>3. CASE i # Len(loads)
      BY <2>2, <2>3, <3>1, <3>3
    <3> QED BY <3>2, <3>3
  <2> QED BY <1>1, <2>1, <2>2, <2>3, <2>4, <2>5, <2>6 DEF BrowserInv, Latest
<1> QED BY <1>3, <1>4, <1>5, <1>6, <1>7, <1>8, <1>9, <1>10, <1>11, <1>12 DEF BrowserNext

(* +page.svelte and TokenGrid.svelte: in whatever order loads, grids,      *)
(* polls and the debounce come, the grid on screen is that of the URL once *)
(* it has arrived, and a search box at rest says what is searched for.     *)
THEOREM TheGridOfTheUrl == Spec => []GridMatchesUrl
<1>1. Init => BrowserInv
  <2>1. SUFFICES ASSUME FirstVisit PROVE BrowserInv
    BY DEF Init
  <2>2. PICK l : l = [url |-> Defaults, pc |-> "streaming"]
    OBVIOUS
  <2>3. loads = <<l>> /\ url = Defaults /\ box = [input |-> "none", committed |-> "none", debounce |-> FALSE]
        /\ current = 1
    BY <2>1, <2>2 DEF FirstVisit
  <2>4. IsSequence(loads) /\ Len(loads) = 1 /\ loads[1] = l
    BY <2>3 DEF IsSequence
  <2>5. LoadFields(l) /\ l.url = Defaults /\ l.pc = "streaming"
    BY <2>2 DEF LoadFields
  <2>6. BoxFields(box) /\ box.input = "none" /\ box.committed = "none" /\ ~box.debounce
    BY <2>3 DEF BoxFields
  <2>7. Defaults.search = "none"
    BY DEF Defaults
  <2> QED BY <2>3, <2>4, <2>5, <2>6, <2>7 DEF BrowserInv, Latest
<1>2. BrowserInv /\ [Next]_vars => BrowserInv'
  <2> SUFFICES ASSUME BrowserInv, [Next]_vars PROVE BrowserInv'
    OBVIOUS
  <2>1. CASE UNCHANGED browser
    BY <2>1 DEF BrowserInv, browser, Latest
  <2>2. CASE BrowserNext
    BY <2>2, BrowserStep
  <2>3. Next => UNCHANGED browser \/ BrowserNext
    BY DEF Next, Moderate, Tick, parts
  <2>4. UNCHANGED vars => UNCHANGED browser
    BY DEF vars, parts
  <2> QED BY <2>1, <2>2, <2>3, <2>4
<1>3. BrowserInv => GridMatchesUrl
  BY DEF BrowserInv, GridMatchesUrl
<1> QED BY <1>1, <1>2, <1>3, PTL DEF Spec

----------------------------------------------------------------------------
(* Icons.  A hash an operator could list was decided about, and stays so   *)
(* unless its format was given another chance: the worker writes a file or *)
(* a decision of its own only for a hash that nobody's decision stands     *)
(* for.                                                                    *)

Known(h) == Decided(h) \/ verdicts[h] = "reopened"

BenchFields(b) == b = [list |-> b.list, ask |-> b.ask]
WorkerFields(w) == w = [pc |-> w.pc, uri |-> w.uri, hash |-> w.hash, verdict |-> w.verdict]

(* What the worker is about to write is its own decision.                  *)
WorkerInv ==
  /\ WorkerFields(worker)
  /\ worker.pc \in {"write", "decide"} => worker.verdict.state \in {"blocked", "review", "cleared"}
  /\ worker.pc = "write" \/ (worker.pc = "decide" /\ worker.verdict.state # "blocked")
       => \A h \in Hash : h = worker.hash => ~Standing(h)

(* Between the file and the row of a block the file does not come back.    *)
BenchInv(b) ==
  /\ BenchFields(b)
  /\ \A h \in Hash : b.list[h].state # "none" => Known(h)
  /\ b.ask.kind = "block" => \A h \in Hash : h \in b.ask.hashes => Known(h) /\ (Standing(h) => h \notin files)

IconsInv ==
  /\ decisions = [h \in Hash |-> decisions[h]]
  /\ verdicts = [h \in Hash |-> verdicts[h]]
  /\ benches = [o \in Operator |-> benches[o]]
  /\ WorkerInv
  /\ \A o \in Operator : BenchInv(benches[o])
  /\ BlockStands

(* What a step may do to the tables: nothing decided about is forgotten,   *)
(* no old decision comes to stand, and none that stands gets a file.       *)
Keeps ==
  /\ decisions' = [h \in Hash |-> decisions'[h]]
  /\ verdicts' = [h \in Hash |-> verdicts'[h]]
  /\ \A h \in Hash : Known(h) => Known(h)'
  /\ \A h \in Hash : Known(h) /\ Standing(h)' => Standing(h) /\ (h \in files' => h \in files)

LEMMA BenchKept ==
  ASSUME Keeps, NEW b, BenchInv(b)
  PROVE  BenchInv(b)'
BY DEF BenchInv, Keeps
LEMMA WorkerKept ==
  ASSUME WorkerInv, UNCHANGED worker, \A h \in Hash : h = worker.hash /\ Standing(h)' => Standing(h)
  PROVE  WorkerInv'
BY DEF WorkerInv, WorkerFields

(* A step that touches no table: only the worker, or the links.            *)
LEMMA TablesRest ==
  ASSUME IconsInv, UNCHANGED <<decisions, verdicts, files>>
  PROVE  /\ Keeps /\ BlockStands'
         /\ \A h \in Hash : Standing(h)' = Standing(h)
         /\ UNCHANGED benches => \A o \in Operator : BenchInv(benches[o])'
BY DEF IconsInv, Keeps, BlockStands, Known, Standing, Decided, BenchInv

LEMMA WorkerMoves ==
  ASSUME IconsInv, UNCHANGED <<decisions, verdicts, files, benches>>, WorkerInv'
  PROVE  IconsInv'
<1>1. /\ BlockStands' /\ \A o \in Operator : BenchInv(benches[o])'
  BY TablesRest
<1> QED BY <1>1 DEF IconsInv

LEMMA WorkerSteps ==
  ASSUME IconsInv,
         (\E u \in Uri : FetchIcon(u) \/ RescanIcon(u) \/ Republish(u)) \/ ScreenIcon \/ LinkIcon \/ WorkerStops
  PROVE  IconsInv'
<1>1. UNCHANGED <<decisions, verdicts, files, benches>>
  BY Zenon DEF FetchIcon, RescanIcon, Republish, ScreenIcon, LinkIcon, WorkerStops, iconTables
<1>2. WorkerInv /\ \A h \in Hash : Standing(h)' = Standing(h)
  BY <1>1, TablesRest DEF IconsInv
<1>3. CASE UNCHANGED worker
  BY <1>1, <1>2, <1>3, WorkerKept, WorkerMoves
<1>4. CASE worker' = Resting
  BY <1>1, <1>4, WorkerMoves DEF WorkerInv, WorkerFields, Resting
<1>5. CASE \E u \in Uri : FetchIcon(u) /\ worker' # worker
  <2>1. PICK u \in Uri : FetchIcon(u)
    BY <1>5
  <2>2. \/ UNCHANGED worker
        \/ worker' = [pc |-> "decide", uri |-> u, hash |-> u, verdict |-> As("blocked", "oversize")]
        \/ \E image : worker' = [Resting EXCEPT !.pc = "screen", !.uri = u, !.hash = image]
    BY <2>1, Zenon DEF FetchIcon
  <2>3. CASE worker' = [pc |-> "decide", uri |-> u, hash |-> u, verdict |-> As("blocked", "oversize")]
    BY <1>1, <2>3, WorkerMoves DEF WorkerInv, WorkerFields, As
  <2>4. CASE \E image : worker' = [Resting EXCEPT !.pc = "screen", !.uri = u, !.hash = image]
    BY <1>1, <2>4, WorkerMoves DEF WorkerInv, WorkerFields, Resting
  <2> QED BY <1>3, <2>2, <2>3, <2>4, Zenon
<1>6. CASE ScreenIcon
  <2>1. PICK p, u, k, v : worker = [pc |-> p, uri |-> u, hash |-> k, verdict |-> v]
    BY <1>2 DEF WorkerInv, WorkerFields
  <2>2. \/ worker' = [worker EXCEPT !.pc = "link"]
        \/ worker' = Resting
        \/ worker' = [worker EXCEPT !.pc = "decide", !.verdict = As("blocked", "adult")]
        \/ /\ ~Decided(worker.hash)
           /\ \E state \in {"review", "cleared"} :
                worker' = [worker EXCEPT !.pc = "write", !.verdict = As(state, "none")]
    BY <1>6 DEF ScreenIcon
  <2>3. CASE worker' = [worker EXCEPT !.pc = "link"]
    BY <1>1, <2>1, <2>3, WorkerMoves DEF WorkerInv, WorkerFields
  <2>4. CASE worker' = [worker EXCEPT !.pc = "decide", !.verdict = As("blocked", "adult")]
    BY <1>1, <2>1, <2>4, WorkerMoves DEF WorkerInv, WorkerFields, As
  <2>5. CASE /\ ~Decided(worker.hash)
             /\ \E state \in {"review", "cleared"} :
                  worker' = [worker EXCEPT !.pc = "write", !.verdict = As(state, "none")]
    <3>1. PICK state \in {"review", "cleared"} :
            worker' = [pc |-> "write", uri |-> u, hash |-> k, verdict |-> As(state, "none")]
      BY <2>1, <2>5
    <3>2. ~Standing(k)
      BY <2>1, <2>5 DEF Standing
    <3>3. \A h \in Hash : h = k => ~Standing(h)'
      BY <1>2, <3>2
    <3>4. WorkerInv'
      BY <3>1, <3>3 DEF WorkerInv, WorkerFields, As
    <3> QED BY <1>1, <3>4, WorkerMoves
  <2> QED BY <1>4, <2>2, <2>3, <2>4, <2>5
<1>7. CASE LinkIcon \/ WorkerStops
  BY <1>4, <1>7 DEF LinkIcon, WorkerStops
<1>8. CASE \E u \in Uri : RescanIcon(u) \/ Republish(u)
  BY <1>3, <1>8 DEF RescanIcon, Republish
<1> QED BY <1>3, <1>5, <1>6, <1>7, <1>8

LEMMA WriteStep == ASSUME IconsInv, WriteIcon PROVE IconsInv'
<1>1. /\ worker.pc = "write" /\ files' = files \cup {worker.hash}
      /\ worker' = [worker EXCEPT !.pc = "decide"]
      /\ UNCHANGED <<decisions, verdicts, benches>>
  BY DEF WriteIcon
<1>2. \A h \in Hash : Standing(h)' = Standing(h) /\ Known(h)' = Known(h)
  BY <1>1 DEF Standing, Decided, Known
<1>3. \A h \in Hash : h = worker.hash => ~Standing(h)
  BY <1>1 DEF IconsInv, WorkerInv
<1>4. Keeps
  BY <1>1, <1>2, <1>3 DEF Keeps, IconsInv
<1>5. WorkerInv'
  <2>1. PICK p, u, k, v : worker = [pc |-> p, uri |-> u, hash |-> k, verdict |-> v]
    BY DEF IconsInv, WorkerInv, WorkerFields
  <2>2. worker' = [pc |-> "decide", uri |-> u, hash |-> k, verdict |-> v]
    BY <1>1, <2>1
  <2>3. v.state \in {"blocked", "review", "cleared"} /\ \A h \in Hash : h = k => ~Standing(h)'
    BY <1>1, <1>2, <1>3, <2>1 DEF IconsInv, WorkerInv
  <2> QED BY <2>2, <2>3 DEF WorkerInv, WorkerFields
<1>6. \A o \in Operator : BenchInv(benches[o])'
  BY <1>1, <1>4, BenchKept DEF IconsInv
<1>7. BlockStands'
  <2> SUFFICES ASSUME NEW h \in Hash, verdicts[h] = "blocked" PROVE decisions[h].state = "blocked" /\ h \notin files'
    BY <1>1 DEF BlockStands
  <2>1. decisions[h].state = "blocked" /\ h \notin files
    BY DEF IconsInv, BlockStands
  <2>2. Standing(h)
    BY <2>1 DEF Standing, Decided, NoDecision
  <2> QED BY <1>1, <1>3, <2>1, <2>2
<1> QED BY <1>1, <1>5, <1>6, <1>7 DEF IconsInv

LEMMA DecideStep == ASSUME IconsInv, UpsertDecision PROVE IconsInv'
<1>1. /\ worker.pc = "decide" /\ decisions' = [decisions EXCEPT ![worker.hash] = worker.verdict]
      /\ worker' = [worker EXCEPT !.pc = "link"]
      /\ UNCHANGED <<files, verdicts, benches>>
  BY DEF UpsertDecision
<1>2. PICK v : v = worker.verdict
  OBVIOUS
<1>3. v.state \in {"blocked", "review", "cleared"} /\ v # NoDecision
  BY <1>1, <1>2 DEF IconsInv, WorkerInv, NoDecision
<1>4. \A h \in Hash : decisions'[h] = IF h = worker.hash THEN v ELSE decisions[h]
  BY <1>1, <1>2 DEF IconsInv
<1>5. decisions' = [h \in Hash |-> decisions'[h]]
  BY <1>1 DEF IconsInv
<1>6. Keeps
  <2>1. \A h \in Hash : Known(h) => Known(h)'
    BY <1>1, <1>3, <1>4 DEF Known, Decided
  <2>2. \A h \in Hash : Known(h) /\ Standing(h)' => Standing(h)
    BY <1>1 DEF Known, Standing
  <2> QED BY <1>1, <1>5, <2>1, <2>2 DEF Keeps, IconsInv
<1>7. WorkerInv'
  <2>1. PICK p, u, k, w : worker = [pc |-> p, uri |-> u, hash |-> k, verdict |-> w]
    BY DEF IconsInv, WorkerInv, WorkerFields
  <2>2. worker' = [pc |-> "link", uri |-> u, hash |-> k, verdict |-> w]
    BY <1>1, <2>1
  <2> QED BY <2>2 DEF WorkerInv, WorkerFields
<1>8. \A o \in Operator : BenchInv(benches[o])'
  BY <1>1, <1>6, BenchKept DEF IconsInv
<1>9. BlockStands'
  <2> SUFFICES ASSUME NEW h \in Hash, verdicts[h] = "blocked" PROVE decisions'[h].state = "blocked" /\ h \notin files
    BY <1>1 DEF BlockStands
  <2>1. decisions[h].state = "blocked" /\ h \notin files
    BY DEF IconsInv, BlockStands
  <2>2. Standing(h)
    BY <2>1 DEF Standing, Decided, NoDecision
  <2>3. CASE h = worker.hash
    <3>1. v.state = "blocked"
      BY <1>1, <1>2, <2>2, <2>3 DEF IconsInv, WorkerInv
    <3> QED BY <1>4, <2>1, <2>3, <3>1
  <2>4. CASE h # worker.hash
    BY <1>4, <2>1, <2>4
  <2> QED BY <2>3, <2>4
<1> QED BY <1>1, <1>5, <1>7, <1>8, <1>9 DEF IconsInv

LEMMA RehealStep == ASSUME IconsInv, Reheal PROVE IconsInv'
<1>1. PICK again :
        /\ worker.pc = "idle" /\ UNCHANGED <<files, worker, benches>>
        /\ decisions' = [h \in Hash |-> IF h \in again THEN NoDecision ELSE decisions[h]]
        /\ verdicts' = [h \in Hash |-> IF h \in again THEN "reopened" ELSE verdicts[h]]
  BY DEF Reheal
<1>2. \A h \in Hash : h \in again => Known(h)' /\ ~Standing(h)' /\ verdicts'[h] = "reopened"
  BY <1>1 DEF Known, Standing
<1>3. \A h \in Hash : h \notin again =>
        /\ Known(h)' = Known(h) /\ Standing(h)' = Standing(h)
        /\ verdicts'[h] = verdicts[h] /\ decisions'[h] = decisions[h]
  BY <1>1 DEF Known, Standing, Decided
<1>4. Keeps
  BY <1>1, <1>2, <1>3 DEF Keeps
<1>5. \A o \in Operator : BenchInv(benches[o])'
  BY <1>1, <1>4, BenchKept DEF IconsInv
<1>6. BlockStands'
  BY <1>1, <1>2, <1>3 DEF BlockStands, IconsInv
<1>7. WorkerInv'
  BY <1>1 DEF WorkerInv, IconsInv, WorkerFields
<1> QED BY <1>1, <1>4, <1>5, <1>6, <1>7 DEF IconsInv, Keeps

(* An operator's step: its own bench is as it should be, the others are as *)
(* they were.                                                              *)
LEMMA BenchMoves ==
  ASSUME IconsInv, Keeps, UNCHANGED worker, BlockStands', \A h \in Hash : Standing(h)' => Standing(h),
         NEW o \in Operator, NEW b, benches' = [benches EXCEPT ![o] = b], BenchInv(b)'
  PROVE  IconsInv'
<1>1. WorkerInv'
  BY WorkerKept DEF IconsInv
<1>2. \A p \in Operator : BenchInv(benches[p])'
  <2> TAKE p \in Operator
  <2>1. CASE p = o
    <3>1. PICK c : c = benches'[p]
      OBVIOUS
    <3>2. c = b
      BY <2>1, <3>1 DEF IconsInv
    <3>3. BenchInv(c)'
      BY <3>2
    <3> QED BY <3>1, <3>3 DEF BenchInv
  <2>2. CASE p # o
    <3>1. PICK c : c = benches[p]
      OBVIOUS
    <3>2. c = benches'[p]
      BY <2>2, <3>1 DEF IconsInv
    <3>3. BenchInv(c)
      BY <3>1 DEF IconsInv
    <3>4. BenchInv(c)'
      BY <3>3, BenchKept
    <3> QED BY <3>2, <3>4 DEF BenchInv
  <2> QED BY <2>1, <2>2
<1>3. benches' = [p \in Operator |-> benches'[p]]
  BY DEF IconsInv
<1> QED BY <1>1, <1>2, <1>3 DEF IconsInv, Keeps

LEMMA NothingListed ==
  \A h \in Hash : ListIconModeration[h].state # "none" => Known(h)
BY DEF ListIconModeration, Known, Decided, NoDecision

(* The steps that change no table, or only take a file away.               *)
LEMMA AskSteps ==
  ASSUME IconsInv, NEW o \in Operator,
         \/ OpenIcons(o) \/ ApproveSelected(o) \/ AskFails(o)
         \/ \E h \in Hash, reason \in {"adult", "oversize"} : DeleteFile(o, h, reason)
  PROVE  IconsInv'
<1>0. PICK list, ask : benches[o] = [list |-> list, ask |-> ask] /\ BenchInv([list |-> list, ask |-> ask])
  BY DEF IconsInv, BenchInv, BenchFields
<1>1. /\ UNCHANGED <<decisions, verdicts, worker>> /\ files' \subseteq files
  BY DEF OpenIcons, ApproveSelected, AskFails, DeleteFile, iconTables, iconCounts
<1>2. \A h \in Hash : Standing(h)' = Standing(h) /\ Known(h)' = Known(h)
  BY <1>1 DEF Standing, Known, Decided
<1>3. Keeps /\ BlockStands'
  BY <1>1, <1>2 DEF Keeps, BlockStands, IconsInv
<1>4. ASSUME NEW b, benches' = [benches EXCEPT ![o] = b], BenchInv(b)' PROVE IconsInv'
  BY <1>1, <1>2, <1>3, <1>4, BenchMoves
<1>5. \A h \in Hash : list[h].state # "none" => Known(h)
  BY <1>0 DEF BenchInv
<1>6. CASE OpenIcons(o)
  <2>1. PICK b : b = [list |-> ListIconModeration, ask |-> NoAsk]
    OBVIOUS
  <2>2. benches' = [benches EXCEPT ![o] = b]
    <3>1. benches' = [benches EXCEPT ![o].list = ListIconModeration] /\ ask = NoAsk
      BY <1>0, <1>6 DEF OpenIcons
    <3>2. [benches[o] EXCEPT !.list = ListIconModeration] = b
      BY <1>0, <2>1, <3>1
    <3> QED BY <3>1, <3>2
  <2>3. b.ask.kind = "none" /\ b.list = ListIconModeration /\ BenchFields(b)
    BY <2>1 DEF NoAsk, BenchFields
  <2>4. BenchInv(b)'
    BY <1>2, <2>3, NothingListed DEF BenchInv, BenchFields
  <2> QED BY <1>4, <2>2, <2>4
<1>7. ASSUME NEW a, benches' = [benches EXCEPT ![o].ask = a],
             a.kind = "block" => \A h \in Hash : h \in a.hashes => Known(h) /\ h \notin files'
      PROVE  IconsInv'
  <2>1. PICK b : b = [list |-> list, ask |-> a]
    OBVIOUS
  <2>2. benches' = [benches EXCEPT ![o] = b]
    <3>1. [benches[o] EXCEPT !.ask = a] = b
      BY <1>0, <2>1
    <3> QED BY <1>7, <3>1
  <2>3. BenchFields(b) /\ b.list = list /\ b.ask = a
    BY <2>1 DEF BenchFields
  <2>4. BenchInv(b)'
    BY <1>2, <1>5, <1>7, <2>3 DEF BenchInv, BenchFields
  <2> QED BY <1>4, <2>2, <2>4
<1>8. CASE ApproveSelected(o)
  <2>1. PICK hashes : benches' = [benches EXCEPT ![o].ask = [kind |-> "clear", hashes |-> hashes, reason |-> "none"]]
    BY <1>8 DEF ApproveSelected, Ask
  <2>2. PICK a : a = [kind |-> "clear", hashes |-> hashes, reason |-> "none"]
    OBVIOUS
  <2>3. benches' = [benches EXCEPT ![o].ask = a] /\ a.kind = "clear"
    BY <2>1, <2>2
  <2> QED BY <1>7, <2>3
<1>9. CASE AskFails(o)
  <2>1. benches' = [benches EXCEPT ![o].ask = NoAsk] /\ NoAsk.kind = "none"
    BY <1>9 DEF AskFails, NoAsk
  <2> QED BY <1>7, <2>1
<1>10. ASSUME NEW h \in Hash, NEW reason, DeleteFile(o, h, reason) PROVE IconsInv'
  <2>1. PICK a : a = [kind |-> "block", hashes |-> {h}, reason |-> reason]
    OBVIOUS
  <2>2. benches' = [benches EXCEPT ![o].ask = a] /\ h \in Listed(o) /\ files' = files \ {h}
    BY <1>10, <2>1 DEF DeleteFile, Ask
  <2>3. a.hashes = {h}
    BY <2>1
  <2>4. Known(h)
    BY <1>0, <1>5, <2>2 DEF Listed
  <2> QED BY <1>7, <2>2, <2>3, <2>4
<1> QED BY <1>6, <1>8, <1>9, <1>10

(* The rows of a decision.  Those without one are left alone, so nothing   *)
(* that did not stand comes to stand; what is blocked has lost its file.   *)
LEMMA RowSteps ==
  ASSUME IconsInv, NEW o \in Operator, ClearIcon(o) \/ BlockIcon(o)
  PROVE  IconsInv'
<1>1. PICK asked, d, v :
        /\ decisions' = [h \in Hash |-> IF h \in asked /\ Decided(h) THEN d ELSE decisions[h]]
        /\ verdicts' = [h \in Hash |-> IF h \in asked /\ Standing(h) THEN v ELSE verdicts[h]]
        /\ UNCHANGED <<files, worker>>
        /\ benches' = [benches EXCEPT ![o] = [list |-> ListIconModeration', ask |-> NoAsk]]
        /\ v \in {"cleared", "blocked"} /\ d.state = v
        /\ v = "blocked" => \A h \in Hash : h \in asked /\ Standing(h) => h \notin files
  <2>1. CASE ClearIcon(o)
    <3>1. As("cleared", "none").state = "cleared"
      BY DEF As
    <3> QED BY <2>1, <3>1 DEF ClearIcon
  <2>2. CASE BlockIcon(o)
    <3>1. PICK ask : ask = benches[o].ask
      OBVIOUS
    <3>2. \A h \in Hash : h \in ask.hashes /\ Standing(h) => h \notin files
      BY <2>2, <3>1 DEF IconsInv, BenchInv, BlockIcon
    <3>3. As("blocked", ask.reason).state = "blocked"
      BY DEF As
    <3> QED BY <2>2, <3>1, <3>2, <3>3, SMTT(30) DEF BlockIcon
  <2> QED BY <2>1, <2>2
<1>2. d # NoDecision
  BY <1>1 DEF NoDecision
<1>3. \A h \in Hash : /\ decisions'[h] = IF h \in asked /\ Decided(h) THEN d ELSE decisions[h]
                      /\ verdicts'[h] = IF h \in asked /\ Standing(h) THEN v ELSE verdicts[h]
  BY <1>1
<1>4. \A h \in Hash : Decided(h)' = Decided(h)
  BY <1>2, <1>3 DEF Decided
<1>5. \A h \in Hash : (verdicts'[h] = "reopened") = (verdicts[h] = "reopened")
  BY <1>1, <1>3 DEF Standing
<1>6. \A h \in Hash : Standing(h)' = Standing(h) /\ Known(h)' = Known(h)
  BY <1>4, <1>5 DEF Standing, Known
<1>7. Keeps
  BY <1>1, <1>6 DEF Keeps
<1>8. BlockStands'
  <2> SUFFICES ASSUME NEW h \in Hash, verdicts'[h] = "blocked" PROVE decisions'[h].state = "blocked" /\ h \notin files
    BY <1>1 DEF BlockStands
  <2>1. CASE h \in asked /\ Standing(h)
    BY <1>1, <1>3, <2>1 DEF Standing
  <2>2. CASE ~(h \in asked /\ Standing(h))
    <3>1. verdicts[h] = "blocked"
      BY <1>3, <2>2
    <3>2. decisions[h].state = "blocked" /\ h \notin files
      BY <3>1 DEF IconsInv, BlockStands
    <3>3. Standing(h)
      BY <3>1, <3>2 DEF Standing, Decided, NoDecision
    <3>4. decisions'[h] = decisions[h]
      BY <1>3, <2>2, <3>3
    <3> QED BY <3>2, <3>4
  <2> QED BY <2>1, <2>2
<1>9. PICK b : b = [list |-> ListIconModeration', ask |-> NoAsk]
  OBVIOUS
<1>10. BenchInv(b)'
  <2>1. BenchFields(b) /\ b.list = ListIconModeration' /\ b.ask.kind = "none"
    BY <1>9 DEF BenchFields, NoAsk
  <2>2. \A h \in Hash : ListIconModeration'[h].state # "none" => Known(h)'
    BY <1>4, <1>6 DEF ListIconModeration, Known, Decided, NoDecision
  <2> QED BY <2>1, <2>2 DEF BenchInv, BenchFields
<1> QED BY <1>1, <1>6, <1>7, <1>8, <1>9, <1>10, BenchMoves

LEMMA IconsStep == ASSUME IconsInv, IconsNext PROVE IconsInv'
BY WorkerSteps, WriteStep, DecideStep, RehealStep, AskSteps, RowSteps DEF IconsNext

(* blockIcon: whatever the worker is in the middle of, whichever operator  *)
(* works from an old queue, and whatever fails: what an operator blocked   *)
(* stays blocked, without a file, until an operator clears it.             *)
THEOREM BlocksStand == Spec => []BlockStands
<1>1. Init => IconsInv
  <2>1. SUFFICES ASSUME Init PROVE IconsInv
    OBVIOUS
  <2>2. PICK f \in DOMAIN First : \E standing \in First[f].decisions : IconsFrom(standing)
    BY <2>1 DEF Init
  <2>3. PICK standing \in First[f].decisions : IconsFrom(standing)
    BY <2>2
  <2>4. decisions \in [Hash -> [state : STRING, reason : STRING]]
    BY <2>3, FirstAssumption DEF IconsFrom
  <2>5. /\ worker = Resting /\ verdicts = [h \in Hash |-> "none"]
        /\ benches = [o \in Operator |-> [list |-> ListIconModeration, ask |-> NoAsk]]
    BY <2>3 DEF IconsFrom
  <2>6. WorkerInv
    BY <2>5 DEF WorkerInv, WorkerFields, Resting
  <2>7. ASSUME NEW o \in Operator PROVE BenchInv(benches[o])
    <3>1. PICK b : b = [list |-> ListIconModeration, ask |-> NoAsk]
      OBVIOUS
    <3>2. b.list = ListIconModeration /\ b.ask.kind = "none" /\ BenchFields(b)
      BY <3>1 DEF NoAsk, BenchFields
    <3>3. BenchInv(b)
      BY <3>2, NothingListed DEF BenchInv
    <3> QED BY <2>5, <3>1, <3>3
  <2>8. BlockStands
    BY <2>5 DEF BlockStands
  <2> QED BY <2>4, <2>5, <2>6, <2>7, <2>8 DEF IconsInv
<1>2. IconsInv /\ [Next]_vars => IconsInv'
  <2> SUFFICES ASSUME IconsInv, [Next]_vars PROVE IconsInv'
    OBVIOUS
  <2>1. CASE UNCHANGED icons
    <3>1. UNCHANGED <<decisions, verdicts, files, benches, worker>>
      BY <2>1 DEF icons, iconTables
    <3>2. WorkerInv'
      BY <3>1, WorkerKept DEF IconsInv, Standing, Decided
    <3> QED BY <3>1, <3>2, WorkerMoves
  <2>2. CASE IconsNext
    BY <2>2, IconsStep
  <2>3. Next => UNCHANGED icons \/ IconsNext
    <3>1. ASSUME NEW k \in Key, MemoNext(k) PROVE UNCHANGED icons
      BY <3>1 DEF MemoNext, AskStale, AskMissing, Computed, ComputationFails
    <3>2. BrowserNext => UNCHANGED icons
      BY DEF BrowserNext, SetSort, SetType, ToggleVenue, SetPage, Debounced, GoBack, Refresh, LoadAnswers,
             OnSearchInput, GridArrives, GridFails
    <3> QED BY <3>1, <3>2 DEF Next, Moderate, Tick, parts
  <2>4. UNCHANGED vars => UNCHANGED icons
    BY DEF vars, parts
  <2> QED BY <2>1, <2>2, <2>3, <2>4
<1>3. IconsInv => BlockStands
  BY DEF IconsInv
<1> QED BY <1>1, <1>2, <1>3, PTL DEF Spec

----------------------------------------------------------------------------
(* Votes and watchlists.  While a request holds a lock nobody else changes *)
(* what it has read: its wallet's last vote on the token from the cool-    *)
(* down on, the day's count from there on, the watchlist from its reading. *)

Fixed == {"user", "category", "kind"}

ButtonInv ==
  /\ DOMAIN buttons = Button
  /\ \A b \in Button : Fixed \subseteq DOMAIN buttons[b] /\ \A x \in Fixed : buttons[b][x] = Buttons[b][x]

RequestInv ==
  /\ DOMAIN requests = Request
  /\ \A r \in Request :
       /\ {"pc", "button", "heard", "next", "seen", "full"} \subseteq DOMAIN requests[r]
       /\ requests[r].pc # "free" => requests[r].button \in Button

HoldsVote(r) == Voting(r) /\ requests[r].pc \in {"count", "write"}
HoldsDay(r) == Voting(r) /\ requests[r].pc = "write"
HoldsList(r) == Toggling(r) /\ requests[r].pc = "write"

Cooled(u, c) == times[<<u, c>>] = Never \/ now - times[<<u, c>>] >= Cooldown

(* Each lock has one holder, and what the holder has checked is still so.  *)
LockInv ==
  /\ \A r, q \in Request : r # q =>
       /\ HoldsVote(r) /\ HoldsVote(q) => Asking(r) # Asking(q) \/ About(r) # About(q)
       /\ HoldsDay(r) /\ HoldsDay(q) => Asking(r) # Asking(q)
       /\ HoldsList(r) /\ HoldsList(q) => Asking(r) # Asking(q)
  /\ \A r \in Request :
       /\ HoldsVote(r) => Cooled(Asking(r), About(r))
       /\ HoldsDay(r) /\ Today \in Days => actions[<<Asking(r), Today>>] + 1 <= DailyVoteLimit
       /\ HoldsList(r) /\ ~requests[r].full => Cardinality(watch[Asking(r)]) + 1 <= WatchCap

CastOn(u, d) == {i \in DOMAIN cast : cast[i].user = u /\ cast[i].at \div Day = d}

(* The count of a day has all of its votes, and the instant of a wallet's  *)
(* last vote on a token is the last.                                       *)
TallyInv ==
  /\ IsSequence(cast)
  /\ DOMAIN actions = User \X Days /\ DOMAIN times = User \X Category
  /\ \A x \in User \X Category : times[x] \in {Never} \cup 0..now
  /\ \A u \in User, d \in Days :
       actions[<<u, d>>] \in 0..DailyVoteLimit /\ Cardinality(CastOn(u, d)) <= actions[<<u, d>>]
  /\ \A i \in 1..Len(cast) :
       /\ cast[i].user \in User /\ cast[i].category \in Category /\ cast[i].at \in Nat
       /\ times[<<cast[i].user, cast[i].category>>] # Never
       /\ cast[i].at <= times[<<cast[i].user, cast[i].category>>]
  /\ \A i, j \in 1..Len(cast) :
       (i < j /\ cast[i].user = cast[j].user /\ cast[i].category = cast[j].category)
         => cast[j].at - cast[i].at >= Cooldown

ListInv ==
  /\ DOMAIN watch = User
  /\ \A u \in User : watch[u] \subseteq Category /\ Cardinality(watch[u]) <= WatchCap

VoteInv == now \in Nat /\ ButtonInv /\ RequestInv /\ LockInv /\ TallyInv /\ ListInv

LEMMA Constants ==
  /\ {DailyVoteLimit, Cooldown, WatchCap, ReportWindow, LimitPerIp, LimitPerCategory} \subseteq Nat
  /\ Day \in Nat /\ Day > 0 /\ IsFiniteSet(Category) /\ DOMAIN Buttons = Button
  /\ \A b \in Button : Buttons[b].user \in User /\ Buttons[b].category \in Category
<1>1. ASSUME NEW b \in Button PROVE Buttons[b].user \in User /\ Buttons[b].category \in Category
  <2>1. PICK u \in User, c \in Category, kind \in {"vote", "star"} : Buttons[b] = Fresh(u, c, kind)
    BY SiteAssumption
  <2> QED BY <2>1 DEF Fresh
<1> QED BY <1>1, SiteAssumption

LEMMA WhoAsks ==
  ASSUME ButtonInv, RequestInv, NEW r \in Request, requests[r].pc # "free"
  PROVE  /\ Asking(r) = Buttons[requests[r].button].user /\ Asking(r) \in User
         /\ About(r) = Buttons[requests[r].button].category /\ About(r) \in Category
         /\ Voting(r) = (Buttons[requests[r].button].kind = "vote")
         /\ Toggling(r) = (Buttons[requests[r].button].kind # "vote")
<1>1. PICK b \in Button : b = requests[r].button
  BY DEF RequestInv
<1>2. /\ buttons[b].user = Buttons[b].user /\ buttons[b].category = Buttons[b].category
      /\ buttons[b].kind = Buttons[b].kind
  BY DEF ButtonInv, Fixed
<1>3. Buttons[b].user \in User /\ Buttons[b].category \in Category
  BY Constants
<1> QED BY <1>1, <1>2, <1>3 DEF Asking, About, Holder, On, Voting, Toggling, IsVote

(* A request that is where it was holds what it held.                      *)
Stays(q) ==
  /\ requests'[q].pc = requests[q].pc
  /\ requests'[q].button = requests[q].button
  /\ requests'[q].full = requests[q].full

LEMMA StaysIs ==
  ASSUME ButtonInv, ButtonInv', RequestInv, RequestInv', NEW q \in Request, Stays(q), requests[q].pc # "free"
  PROVE  /\ Asking(q)' = Asking(q) /\ About(q)' = About(q)
         /\ HoldsVote(q)' = HoldsVote(q) /\ HoldsDay(q)' = HoldsDay(q) /\ HoldsList(q)' = HoldsList(q)
         /\ Voting(q)' = Voting(q) /\ Toggling(q)' = Toggling(q)
<1>1. PICK b, p : b = requests[q].button /\ p = requests[q].pc
  OBVIOUS
<1>2. requests'[q].button = b /\ requests'[q].pc = p /\ p # "free"
  BY <1>1 DEF Stays
<1>3. /\ Asking(q) = Buttons[b].user /\ About(q) = Buttons[b].category
      /\ Voting(q) = (Buttons[b].kind = "vote") /\ Toggling(q) = (Buttons[b].kind # "vote")
  BY <1>1, WhoAsks
<1>4. /\ Asking(q)' = Buttons[b].user /\ About(q)' = Buttons[b].category
      /\ Voting(q)' = (Buttons[b].kind = "vote") /\ Toggling(q)' = (Buttons[b].kind # "vote")
  <2>1. b \in Button
    BY <1>1 DEF RequestInv
  <2>2. /\ buttons'[b].user = Buttons[b].user /\ buttons'[b].category = Buttons[b].category
        /\ buttons'[b].kind = Buttons[b].kind
    BY <2>1 DEF ButtonInv, Fixed
  <2> QED BY <1>2, <2>2 DEF Asking, About, Holder, On, Voting, Toggling, IsVote
<1> QED BY <1>1, <1>2, <1>3, <1>4 DEF HoldsVote, HoldsDay, HoldsList

Waits(q) == requests'[q].pc \notin {"count", "write"}

LEMMA WaitsIs ==
  ASSUME NEW q \in Request, Waits(q)
  PROVE  ~HoldsVote(q)' /\ ~HoldsDay(q)' /\ ~HoldsList(q)'
BY DEF Waits, HoldsVote, HoldsDay, HoldsList

LEMMA Held ==
  ASSUME ButtonInv, ButtonInv', RequestInv, RequestInv', NEW q \in Request, Stays(q) \/ Waits(q)
  PROVE  \/ ~HoldsVote(q)' /\ ~HoldsDay(q)' /\ ~HoldsList(q)'
         \/ /\ Asking(q)' = Asking(q) /\ About(q)' = About(q) /\ Stays(q)
            /\ HoldsVote(q)' = HoldsVote(q) /\ HoldsDay(q)' = HoldsDay(q) /\ HoldsList(q)' = HoldsList(q)
<1>1. CASE Waits(q)
  BY <1>1, WaitsIs
<1>2. CASE Stays(q) /\ requests[q].pc = "free"
  <2>1. Waits(q)
    BY <1>2 DEF Stays, Waits
  <2> QED BY <2>1, WaitsIs
<1>3. CASE Stays(q) /\ requests[q].pc # "free"
  BY <1>3, StaysIs
<1> QED BY <1>1, <1>2, <1>3

(* The tally and the lists say what they said while their tables stand.    *)
LEMMA TablesKeep ==
  ASSUME VoteInv, UNCHANGED <<now, actions, times, watch, cast>>
  PROVE  TallyInv' /\ ListInv' /\ now' \in Nat
<1>1. TallyInv /\ ListInv /\ now \in Nat
  BY DEF VoteInv
<1>2. cast' = cast /\ actions' = actions /\ times' = times /\ watch' = watch /\ now' = now
  OBVIOUS
<1>3. \A u, d : CastOn(u, d)' = CastOn(u, d)
  BY <1>2 DEF CastOn
<1>4. TallyInv'
  BY <1>1, <1>2, <1>3 DEF TallyInv
<1>5. ListInv'
  BY <1>1, <1>2 DEF ListInv
<1> QED BY <1>1, <1>2, <1>4, <1>5

(* A step of the pages: no table changes and no request takes a lock.      *)
LEMMA PageKeeps ==
  ASSUME VoteInv, UNCHANGED <<now, ballots, actions, times, watch, cast>>, ButtonInv', RequestInv',
         \A q \in Request : Stays(q) \/ Waits(q)
  PROVE  VoteInv'
<1>1. LockInv /\ ButtonInv /\ RequestInv
  BY DEF VoteInv
<1>2. ASSUME NEW q \in Request
      PROVE  \/ ~HoldsVote(q)' /\ ~HoldsDay(q)' /\ ~HoldsList(q)'
             \/ /\ Asking(q)' = Asking(q) /\ About(q)' = About(q) /\ Stays(q)
                /\ HoldsVote(q)' = HoldsVote(q) /\ HoldsDay(q)' = HoldsDay(q) /\ HoldsList(q)' = HoldsList(q)
  BY <1>1, Held
<1>3. Today' = Today /\ \A u, c : Cooled(u, c)' = Cooled(u, c)
  BY DEF Today, Cooled
<1>4. ASSUME NEW r \in Request, NEW q \in Request, r # q
      PROVE  /\ (HoldsVote(r) /\ HoldsVote(q))' => (Asking(r) # Asking(q) \/ About(r) # About(q))'
             /\ (HoldsDay(r) /\ HoldsDay(q))' => (Asking(r) # Asking(q))'
             /\ (HoldsList(r) /\ HoldsList(q))' => (Asking(r) # Asking(q))'
  BY <1>1, <1>2, <1>4 DEF LockInv
<1>5. ASSUME NEW r \in Request
      PROVE  /\ HoldsVote(r)' => Cooled(Asking(r), About(r))'
             /\ (HoldsDay(r) /\ Today \in Days)' => (actions[<<Asking(r), Today>>] + 1 <= DailyVoteLimit)'
             /\ (HoldsList(r) /\ ~requests[r].full)' => (Cardinality(watch[Asking(r)]) + 1 <= WatchCap)'
  <2>1. CASE ~HoldsVote(r)' /\ ~HoldsDay(r)' /\ ~HoldsList(r)'
    BY <2>1
  <2>2. CASE /\ Asking(r)' = Asking(r) /\ About(r)' = About(r) /\ Stays(r)
             /\ HoldsVote(r)' = HoldsVote(r) /\ HoldsDay(r)' = HoldsDay(r) /\ HoldsList(r)' = HoldsList(r)
    <3>1. HoldsVote(r)' => Cooled(Asking(r), About(r))'
      BY <1>1, <1>3, <2>2 DEF LockInv, Cooled
    <3>2. (HoldsDay(r) /\ Today \in Days)' => (actions[<<Asking(r), Today>>] + 1 <= DailyVoteLimit)'
      BY <1>1, <1>3, <2>2 DEF LockInv
    <3>3. (HoldsList(r) /\ ~requests[r].full)' => (Cardinality(watch[Asking(r)]) + 1 <= WatchCap)'
      BY <1>1, <2>2 DEF LockInv, Stays
    <3> QED BY <3>1, <3>2, <3>3
  <2> QED BY <1>2, <2>1, <2>2
<1>6. LockInv'
  BY <1>4, <1>5 DEF LockInv
<1>7. TallyInv' /\ ListInv' /\ now' \in Nat
  BY TablesKeep
<1> QED BY <1>6, <1>7 DEF VoteInv

LEMMA RequestMoves ==
  ASSUME RequestInv, NEW r \in Request, NEW x, requests' = [requests EXCEPT ![r] = x],
         {"pc", "button", "heard", "next", "seen", "full"} \subseteq DOMAIN x,
         x.pc # "free" => x.button \in Button
  PROVE  /\ RequestInv' /\ requests'[r] = x
         /\ \A q \in Request : q # r => Stays(q)
BY DEF RequestInv, Stays

LEMMA PcMoves ==
  ASSUME RequestInv, NEW r \in Request, NEW pc, Step(r, pc), requests[r].pc # "free"
  PROVE  /\ RequestInv' /\ requests'[r].pc = pc
         /\ requests'[r].button = requests[r].button /\ requests'[r].full = requests[r].full
         /\ \A q \in Request : q # r => Stays(q)
BY DEF RequestInv, Stays, Step

LEMMA SetFree ==
  ASSUME RequestInv, NEW r \in Request, requests' = [requests EXCEPT ![r] = Free]
  PROVE  RequestInv' /\ \A q \in Request : Stays(q) \/ Waits(q)
<1>1. /\ {"pc", "button", "heard", "next", "seen", "full"} \subseteq DOMAIN Free
      /\ Free.pc = "free"
  BY DEF Free
<1>2. /\ RequestInv' /\ requests'[r] = Free
      /\ \A q \in Request : q # r => Stays(q)
  BY <1>1, RequestMoves
<1>3. Waits(r)
  BY <1>1, <1>2 DEF Waits
<1> QED BY <1>2, <1>3

LEMMA ButtonMoves ==
  ASSUME ButtonInv, NEW b \in Button, NEW x, buttons' = [buttons EXCEPT ![b] = x],
         Fixed \subseteq DOMAIN x, \A f \in Fixed : x[f] = buttons[b][f]
  PROVE  ButtonInv'
BY DEF ButtonInv

LEMMA RolledBack ==
  ASSUME ButtonInv, NEW b \in Button, buttons' = Rollback(b)
  PROVE  ButtonInv'
BY DEF ButtonInv, Fixed, Rollback

pageTables == <<now, ballots, actions, times, watch, cast>>

LEMMA PageSteps ==
  ASSUME VoteInv,
         \/ \E b \in Button : TimerFires(b) \/ \E r \in Request : CastVote(b, r)
         \/ \E r \in Request :
              SignedOut(r) \/ StatementFails(r) \/ Refused(r) \/ Answered(r) \/ Reload(r) \/ Unheard(r)
  PROVE  VoteInv'
<1>1. UNCHANGED pageTables
  BY Zenon DEF TimerFires, CastVote, SignedOut, StatementFails, Refused, Answered, Reload, Unheard, pageTables, data,
         voteTables
<1>2. ButtonInv /\ RequestInv
  BY DEF VoteInv
<1>3. ASSUME ButtonInv', RequestInv', \A q \in Request : Stays(q) \/ Waits(q)
      PROVE  VoteInv'
  BY <1>1, <1>3, PageKeeps DEF pageTables
<1>4. ASSUME NEW b \in Button, TimerFires(b) PROVE VoteInv'
  <2>1. ButtonInv'
    BY <1>2, <1>4 DEF TimerFires, ButtonInv, Fixed
  <2>2. RequestInv' /\ \A q \in Request : Stays(q)
    BY <1>2, <1>4 DEF TimerFires, RequestInv, Stays
  <2> QED BY <1>3, <2>1, <2>2
<1>5. ASSUME NEW b \in Button, NEW r \in Request, CastVote(b, r) PROVE VoteInv'
  <2>1. ButtonInv'
    <3>1. PICK before, shown :
            buttons' = [buttons EXCEPT ![b].busy = TRUE, ![b].before = before, ![b].shown = shown]
      BY <1>5, Zenon DEF CastVote
    <3> QED BY <1>2, <3>1 DEF ButtonInv, Fixed
  <2>2. PICK next : requests' = [requests EXCEPT ![r] = [Free EXCEPT !.pc = "sent", !.button = b,
                                                                      !.heard = TRUE, !.next = next]]
    BY <1>5, Zenon DEF CastVote
  <2>3. PICK x : x = [Free EXCEPT !.pc = "sent", !.button = b, !.heard = TRUE, !.next = next]
    OBVIOUS
  <2>4. /\ {"pc", "button", "heard", "next", "seen", "full"} \subseteq DOMAIN x
        /\ x.pc = "sent" /\ x.button = b
    BY <2>3 DEF Free
  <2>5. /\ RequestInv' /\ requests'[r] = x
        /\ \A q \in Request : q # r => Stays(q)
    BY <1>2, <2>2, <2>3, <2>4, RequestMoves
  <2>6. Waits(r)
    BY <2>4, <2>5 DEF Waits
  <2> QED BY <1>3, <2>1, <2>5, <2>6
<1>6. ASSUME NEW r \in Request, requests' = [requests EXCEPT ![r] = Free], ButtonInv' PROVE VoteInv'
  BY <1>2, <1>3, <1>6, SetFree, ZenonT(40)
<1>7. ASSUME NEW r \in Request, SignedOut(r) PROVE VoteInv'
  <2>1. requests[r].button \in Button
    BY <1>2, <1>7, Zenon DEF SignedOut, RequestInv
  <2>2. ButtonInv'
    <3>1. PICK b, shown : /\ b = requests[r].button
            /\ buttons' = [buttons EXCEPT ![b].busy = FALSE, ![b].left = TRUE, ![b].shown = shown]
      BY <1>7, Zenon DEF SignedOut
    <3>2. PICK x : x = [buttons[b] EXCEPT !.busy = FALSE, !.left = TRUE, !.shown = shown]
      OBVIOUS
    <3>3. b \in Button /\ buttons' = [buttons EXCEPT ![b] = x]
      BY <1>2, <2>1, <3>1, <3>2 DEF ButtonInv
    <3>4. Fixed \subseteq DOMAIN x /\ \A f \in Fixed : x[f] = buttons[b][f]
      BY <1>2, <2>1, <3>1, <3>2 DEF ButtonInv, Fixed
    <3> QED BY <1>2, <3>3, <3>4, ButtonMoves, Zenon
  <2> QED BY <1>6, <1>7, <2>2, Zenon DEF SignedOut
<1>8. ASSUME NEW r \in Request, StatementFails(r) PROVE VoteInv'
  <2>1. Step(r, "refused") /\ requests[r].pc # "free" /\ UNCHANGED buttons
    BY <1>8 DEF StatementFails
  <2>2. RequestInv' /\ requests'[r].pc = "refused" /\ \A q \in Request : q # r => Stays(q)
    BY <1>2, <2>1, PcMoves
  <2>3. ButtonInv'
    BY <1>2, <2>1 DEF ButtonInv
  <2>4. Waits(r)
    BY <2>2 DEF Waits
  <2> QED BY <1>3, <2>2, <2>3, <2>4
<1>9. ASSUME NEW r \in Request, Refused(r) PROVE VoteInv'
  <2>1. requests[r].button \in Button
    BY <1>2, <1>9 DEF Refused, RequestInv
  <2>2. buttons' = Rollback(requests[r].button) \/ buttons' = buttons
    BY <1>9 DEF Refused
  <2>3. ButtonInv'
    BY <1>2, <2>1, <2>2, RolledBack DEF ButtonInv
  <2> QED BY <1>6, <1>9, <2>3 DEF Refused
<1>10. ASSUME NEW r \in Request, Answered(r) PROVE VoteInv'
  <2>1. requests[r].button \in Button /\ requests[r].pc = "done"
    BY <1>2, <1>10 DEF Answered, RequestInv
  <2>2. ButtonInv'
    <3>1. \/ buttons' = buttons
          \/ buttons' = [buttons EXCEPT ![requests[r].button].shown = requests[r].next]
      BY <1>10 DEF Answered
    <3> QED BY <1>2, <2>1, <3>1 DEF ButtonInv, Fixed
  <2>3. \/ requests' = [requests EXCEPT ![r] = Free]
        \/ Step(r, "reload")
    BY <1>10 DEF Answered, Step
  <2>4. CASE Step(r, "reload")
    <3>1. RequestInv' /\ requests'[r].pc = "reload" /\ \A q \in Request : q # r => Stays(q)
      BY <1>2, <2>1, <2>4, PcMoves
    <3>2. Waits(r)
      BY <3>1, SMTT(20) DEF Waits
    <3> QED BY <1>3, <2>2, <3>1, <3>2
  <2> QED BY <1>6, <2>2, <2>3, <2>4
<1>11. ASSUME NEW r \in Request, Reload(r) PROVE VoteInv'
  <2>1. requests[r].button \in Button
    BY <1>2, <1>11, ZenonT(40) DEF Reload, RequestInv
  <2>2. PICK b, loaded : /\ b = requests[r].button
          /\ buttons' = [buttons EXCEPT ![b].loaded = loaded, ![b].shown = Unset, ![b].busy = FALSE]
    BY <1>11, Zenon DEF Reload
  <2>3. ButtonInv'
    <3>1. PICK x : x = [buttons[b] EXCEPT !.loaded = loaded, !.shown = Unset, !.busy = FALSE]
      OBVIOUS
    <3>2. b \in Button /\ buttons' = [buttons EXCEPT ![b] = x]
      BY <1>2, <2>1, <2>2, <3>1 DEF ButtonInv
    <3>3. Fixed \subseteq DOMAIN x /\ \A f \in Fixed : x[f] = buttons[b][f]
      BY <1>2, <2>1, <2>2, <3>1 DEF ButtonInv, Fixed
    <3> QED BY <1>2, <3>2, <3>3, ButtonMoves, Zenon
  <2> QED BY <1>6, <1>11, <2>3, ZenonT(40) DEF Reload
<1>12. ASSUME NEW r \in Request, Unheard(r) PROVE VoteInv'
  <2>1. requests[r].button \in Button
    BY <1>2, <1>12 DEF Unheard, RequestInv
  <2>2. ButtonInv'
    BY <1>2, <1>12, <2>1, RolledBack DEF Unheard
  <2>3. \/ requests' = [requests EXCEPT ![r] = Free]
        \/ requests' = [requests EXCEPT ![r].heard = FALSE]
    BY <1>12 DEF Unheard
  <2>4. CASE requests' = [requests EXCEPT ![r].heard = FALSE]
    <3>1. RequestInv' /\ \A q \in Request : Stays(q)
      BY <1>2, <2>4 DEF RequestInv, Stays
    <3> QED BY <1>3, <2>2, <3>1
  <2> QED BY <1>6, <2>2, <2>3, <2>4
<1> QED BY <1>4, <1>5, <1>7, <1>8, <1>9, <1>10, <1>11, <1>12, SMTT(20)

LEMMA CastFinite ==
  ASSUME TallyInv, NEW u, NEW d
  PROVE  IsFiniteSet(CastOn(u, d)) /\ Cardinality(CastOn(u, d)) \in Nat
<1>1. DOMAIN cast = 1..Len(cast) /\ Len(cast) \in Nat
  BY SMTT(20) DEF TallyInv, IsSequence
<1>2. PICK n \in Nat : n = Len(cast)
  BY <1>1, Zenon
<1>3. 1 \in Int /\ n \in Int
  OBVIOUS
<1>4. IsFiniteSet(1..n)
  BY <1>3, FS_Interval
<1>5. CastOn(u, d) \subseteq 1..n
  BY <1>1, <1>2 DEF CastOn
<1> QED BY <1>4, <1>5, FS_Subset, FS_CardinalityType

(* A statement of the server: one request moves on, with what it has       *)
(* checked, and nobody else loses what it has checked.                     *)
LEMMA LockMoves ==
  ASSUME VoteInv, ButtonInv', RequestInv', NEW r \in Request, now' = now,
         requests[r].pc # "free", requests'[r].pc # "free", requests'[r].button = requests[r].button,
         \A q \in Request : q # r => Stays(q),
         \A q \in Request \ {r} :
           /\ HoldsVote(r)' /\ HoldsVote(q) => Asking(r) # Asking(q) \/ About(r) # About(q)
           /\ HoldsDay(r)' /\ HoldsDay(q) => Asking(r) # Asking(q)
           /\ HoldsList(r)' /\ HoldsList(q) => Asking(r) # Asking(q)
           /\ HoldsVote(q) => times'[<<Asking(q), About(q)>>] = times[<<Asking(q), About(q)>>]
           /\ HoldsDay(q) /\ Today \in Days => actions'[<<Asking(q), Today>>] = actions[<<Asking(q), Today>>]
           /\ HoldsList(q) => watch'[Asking(q)] = watch[Asking(q)],
         HoldsVote(r)' => times'[<<Asking(r), About(r)>>] = Never
                          \/ now - times'[<<Asking(r), About(r)>>] >= Cooldown,
         HoldsDay(r)' /\ Today \in Days => actions'[<<Asking(r), Today>>] + 1 <= DailyVoteLimit,
         HoldsList(r)' /\ ~requests'[r].full => Cardinality(watch'[Asking(r)]) + 1 <= WatchCap
  PROVE  LockInv'
<1>1. LockInv /\ ButtonInv /\ RequestInv
  BY DEF VoteInv
<1>2. ASSUME NEW q \in Request, q # r
      PROVE  \/ ~HoldsVote(q)' /\ ~HoldsDay(q)' /\ ~HoldsList(q)'
             \/ /\ Asking(q)' = Asking(q) /\ About(q)' = About(q) /\ Stays(q)
                /\ HoldsVote(q)' = HoldsVote(q) /\ HoldsDay(q)' = HoldsDay(q) /\ HoldsList(q)' = HoldsList(q)
  BY <1>1, <1>2, Held
<1>3. Asking(r)' = Asking(r) /\ About(r)' = About(r)
  <2>1. PICK b : b = requests[r].button /\ b = requests'[r].button /\ b \in Button
    BY <1>1 DEF RequestInv
  <2>2. buttons'[b].user = buttons[b].user /\ buttons'[b].category = buttons[b].category
    BY <1>1, <2>1 DEF ButtonInv, Fixed
  <2> QED BY <2>1, <2>2 DEF Asking, About, Holder, On
<1>4. Today' = Today
  BY DEF Today
<1>5. ASSUME NEW p \in Request, NEW q \in Request, p # q
      PROVE  /\ (HoldsVote(p) /\ HoldsVote(q))' => (Asking(p) # Asking(q) \/ About(p) # About(q))'
             /\ (HoldsDay(p) /\ HoldsDay(q))' => (Asking(p) # Asking(q))'
             /\ (HoldsList(p) /\ HoldsList(q))' => (Asking(p) # Asking(q))'
  <2>1. CASE p # r /\ q # r
    BY <1>1, <1>2, <1>5, <2>1 DEF LockInv
  <2>2. CASE p = r
    BY <1>2, <1>3, <1>5, <2>2
  <2>3. CASE q = r
    BY <1>2, <1>3, <1>5, <2>3
  <2> QED BY <2>1, <2>2, <2>3
<1>6. ASSUME NEW q \in Request
      PROVE  /\ HoldsVote(q)' => Cooled(Asking(q), About(q))'
             /\ (HoldsDay(q) /\ Today \in Days)' => (actions[<<Asking(q), Today>>] + 1 <= DailyVoteLimit)'
             /\ (HoldsList(q) /\ ~requests[q].full)' => (Cardinality(watch[Asking(q)]) + 1 <= WatchCap)'
  <2>1. CASE q = r
    BY <1>3, <1>4, <2>1 DEF Cooled
  <2>2. CASE q # r /\ ~HoldsVote(q)' /\ ~HoldsDay(q)' /\ ~HoldsList(q)'
    BY <2>2
  <2>3. CASE /\ q # r /\ Asking(q)' = Asking(q) /\ About(q)' = About(q) /\ Stays(q)
             /\ HoldsVote(q)' = HoldsVote(q) /\ HoldsDay(q)' = HoldsDay(q) /\ HoldsList(q)' = HoldsList(q)
    <3>1. HoldsVote(q)' => Cooled(Asking(q), About(q))'
      BY <1>1, <2>3 DEF LockInv, Cooled
    <3>2. (HoldsDay(q) /\ Today \in Days)' => (actions[<<Asking(q), Today>>] + 1 <= DailyVoteLimit)'
      BY <1>1, <1>4, <2>3 DEF LockInv
    <3>3. (HoldsList(q) /\ ~requests[q].full)' => (Cardinality(watch[Asking(q)]) + 1 <= WatchCap)'
      BY <1>1, <2>3 DEF LockInv, Stays
    <3> QED BY <3>1, <3>2, <3>3
  <2> QED BY <1>2, <2>1, <2>2, <2>3
<1> QED BY <1>5, <1>6 DEF LockInv

LEMMA CooldownStep == ASSUME VoteInv, NEW r \in Request, CheckCooldown(r) PROVE VoteInv'
<1>1. ButtonInv /\ RequestInv /\ TallyInv
  BY DEF VoteInv
<1>2. /\ Voting(r) /\ requests[r].pc = "sent" /\ ~Locked(r)
      /\ UNCHANGED <<now, ballots, actions, times, watch, cast, buttons>>
  BY DEF CheckCooldown, data, voteTables
<1>3. PICK last : last = times[<<Asking(r), About(r)>>]
  OBVIOUS
<1>4. Step(r, IF last # Never /\ now - last < Cooldown THEN "refused" ELSE "count")
  BY <1>3 DEF CheckCooldown
<1>5. ButtonInv'
  BY <1>1, <1>2 DEF ButtonInv
<1>6. CASE last # Never /\ now - last < Cooldown
  <2>1. Step(r, "refused")
    BY <1>4, <1>6
  <2>2. RequestInv' /\ requests'[r].pc = "refused" /\ \A q \in Request : q # r => Stays(q)
    BY <1>1, <1>2, <2>1, PcMoves
  <2>3. Waits(r)
    BY <2>2 DEF Waits
  <2> QED BY <1>2, <1>5, <2>2, <2>3, PageKeeps
<1>7. CASE ~(last # Never /\ now - last < Cooldown)
  <2>1. Step(r, "count")
    BY <1>4, <1>7
  <2>2. /\ RequestInv' /\ requests'[r].pc = "count" /\ requests'[r].button = requests[r].button
        /\ \A q \in Request : q # r => Stays(q)
    BY <1>1, <1>2, <2>1, PcMoves
  <2>3. ~HoldsDay(r)' /\ ~HoldsList(r)'
    BY <2>2 DEF HoldsDay, HoldsList
  <2>4. \A q \in Request \ {r} : HoldsVote(q) => Asking(r) # Asking(q) \/ About(r) # About(q)
    BY <1>2 DEF Locked, HoldsVote
  <2>5. times'[<<Asking(r), About(r)>>] = Never \/ now - times'[<<Asking(r), About(r)>>] >= Cooldown
    <3>1. Asking(r) \in User /\ About(r) \in Category
      BY <1>1, <1>2, WhoAsks
    <3>2. last \in {Never} \cup 0..now /\ now \in Nat /\ Cooldown \in Nat
      BY <1>1, <1>3, <3>1, Constants DEF TallyInv, VoteInv
    <3>3. last = Never \/ now - last >= Cooldown
      BY <1>7, <3>2 DEF Never
    <3> QED BY <1>2, <1>3, <3>3
  <2>6. LockInv'
    BY <1>2, <1>5, <2>2, <2>3, <2>4, <2>5, LockMoves
  <2>7. TallyInv' /\ ListInv' /\ now' \in Nat
    BY <1>2, TablesKeep
  <2> QED BY <1>5, <2>2, <2>6, <2>7 DEF VoteInv
<1> QED BY <1>6, <1>7

LEMMA CountStep == ASSUME VoteInv, NEW r \in Request, CountAction(r) PROVE VoteInv'
<1>1. ButtonInv /\ RequestInv /\ TallyInv /\ LockInv
  BY DEF VoteInv
<1>2. /\ Voting(r) /\ requests[r].pc = "count"
      /\ \A q \in Request \ {r} : ~(Voting(q) /\ requests[q].pc = "write" /\ Asking(q) = Asking(r))
      /\ UNCHANGED <<now, ballots, actions, times, watch, cast, buttons>>
  BY DEF CountAction, data, voteTables
<1>3. PICK count : count = actions[<<Asking(r), Today>>]
  OBVIOUS
<1>4. Step(r, IF count + 1 > DailyVoteLimit THEN "refused" ELSE "write")
  BY <1>3 DEF CountAction
<1>5. ButtonInv'
  BY <1>1, <1>2 DEF ButtonInv
<1>6. CASE count + 1 > DailyVoteLimit
  <2>1. Step(r, "refused")
    BY <1>4, <1>6
  <2>2. RequestInv' /\ requests'[r].pc = "refused" /\ \A q \in Request : q # r => Stays(q)
    BY <1>1, <1>2, <2>1, PcMoves
  <2>3. Waits(r)
    BY <2>2 DEF Waits
  <2> QED BY <1>2, <1>5, <2>2, <2>3, PageKeeps
<1>7. CASE ~(count + 1 > DailyVoteLimit)
  <2>1. Step(r, "write")
    BY <1>4, <1>7
  <2>2. /\ RequestInv' /\ requests'[r].pc = "write" /\ requests'[r].button = requests[r].button
        /\ \A q \in Request : q # r => Stays(q)
    BY <1>1, <1>2, <2>1, PcMoves
  <2>3. ~HoldsList(r)'
    <3>1. PICK b \in Button : b = requests[r].button
      BY <1>1, <1>2 DEF RequestInv
    <3>2. IsVote(b) /\ IsVote(b)'
      BY <1>2, <3>1 DEF Voting, IsVote
    <3> QED BY <2>2, <3>1, <3>2 DEF HoldsList, Toggling, IsVote
  <2>4. HoldsVote(r)
    BY <1>2 DEF HoldsVote
  <2>5. \A q \in Request \ {r} :
          /\ HoldsVote(q) => Asking(r) # Asking(q) \/ About(r) # About(q)
          /\ HoldsDay(q) => Asking(r) # Asking(q)
    BY <1>1, <1>2, <2>4 DEF LockInv, HoldsDay
  <2>6. times'[<<Asking(r), About(r)>>] = Never \/ now - times'[<<Asking(r), About(r)>>] >= Cooldown
    BY <1>1, <1>2, <2>4 DEF LockInv, Cooled
  <2>7. Today \in Days => actions'[<<Asking(r), Today>>] + 1 <= DailyVoteLimit
    <3>1. Asking(r) \in User
      BY <1>1, <1>2, WhoAsks
    <3>2. ASSUME Today \in Days PROVE count \in Nat
      <4>1. count \in 0..DailyVoteLimit
        BY <1>1, <1>3, <3>1, <3>2 DEF TallyInv
      <4> QED BY <4>1
    <3> QED BY <1>2, <1>3, <1>7, <3>2, Constants
  <2>8. LockInv'
    BY <1>2, <1>5, <2>2, <2>3, <2>5, <2>6, <2>7, LockMoves
  <2>9. TallyInv' /\ ListInv' /\ now' \in Nat
    BY <1>2, TablesKeep
  <2> QED BY <1>5, <2>2, <2>8, <2>9 DEF VoteInv
<1> QED BY <1>6, <1>7


(* An accepted vote: the tables and the record of it agree again.          *)
LEMMA VoteCounted ==
  ASSUME VoteInv, NEW u \in User, NEW c \in Category, now' = now,
         actions' = [actions EXCEPT ![<<u, Today>>] = @ + 1],
         times' = [times EXCEPT ![<<u, c>>] = now],
         cast' = Append(cast, [user |-> u, category |-> c, at |-> now]),
         Cooled(u, c), Today \in Days => actions[<<u, Today>>] + 1 <= DailyVoteLimit
  PROVE  TallyInv'
<1>1. TallyInv /\ now \in Nat
  BY DEF VoteInv
<1>2. PICK e : e = [user |-> u, category |-> c, at |-> now]
  OBVIOUS
<1>3. e.user = u /\ e.category = c /\ e.at = now
  BY <1>2
<1>4. PICK n \in Nat : n = Len(cast)
  BY <1>1 DEF TallyInv, IsSequence
<1>5. PICK new : new = cast'
  OBVIOUS
<1>6. /\ IsSequence(new) /\ Len(new) = n + 1
      /\ DOMAIN cast = 1..n /\ DOMAIN new = 1..(n + 1)
      /\ new[n + 1] = e
      /\ \A t \in 1..n : new[t] = cast[t]
  <2>1. IsSequence(cast) /\ new = Append(cast, e)
    BY <1>1, <1>2, <1>5 DEF TallyInv
  <2> QED BY <1>4, <2>1, Appended
<1>7. /\ DOMAIN times' = User \X Category /\ times'[<<u, c>>] = now
      /\ \A x \in User \X Category : x # <<u, c>> => times'[x] = times[x]
  BY <1>1 DEF TallyInv
<1>8. \A x \in User \X Category : times'[x] \in {Never} \cup 0..now'
  BY <1>1, <1>7 DEF TallyInv
<1>9. ASSUME NEW v \in User, NEW d \in Days
      PROVE  actions'[<<v, d>>] \in 0..DailyVoteLimit /\ Cardinality(CastOn(v, d)') <= actions'[<<v, d>>]
  <2>1. PICK old : old = CastOn(v, d)
    OBVIOUS
  <2>2. IsFiniteSet(old) /\ Cardinality(old) \in Nat /\ n + 1 \notin old
    <3>1. IsFiniteSet(old) /\ Cardinality(old) \in Nat
      BY <1>1, <2>1, CastFinite
    <3>2. old \subseteq 1..n
      BY <1>6, <2>1 DEF CastOn
    <3> QED BY <1>4, <3>1, <3>2
  <2>3. actions[<<v, d>>] \in 0..DailyVoteLimit /\ Cardinality(old) <= actions[<<v, d>>] /\ DailyVoteLimit \in Nat
    BY <1>1, <2>1, Constants DEF TallyInv
  <2>4. PICK today : today = Today
    OBVIOUS
  <2>5. e.at \div Day = today
    BY <1>3, <2>4 DEF Today
  <2>6. CastOn(v, d)' = {i \in DOMAIN new : new[i].user = v /\ new[i].at \div Day = d}
    BY <1>5 DEF CastOn
  <2>7. CASE v = u /\ d = today
    <3>1. CastOn(v, d)' = old \cup {n + 1}
      BY <1>3, <1>6, <2>1, <2>5, <2>6, <2>7 DEF CastOn
    <3>2. Cardinality(CastOn(v, d)') = Cardinality(old) + 1
      BY <2>2, <3>1, FS_AddElement
    <3>3. actions'[<<v, d>>] = actions[<<v, d>>] + 1
      <4>1. <<u, today>> \in DOMAIN actions
        BY <1>1, <2>7 DEF TallyInv
      <4> QED BY <2>4, <2>7, <4>1
    <3>4. actions[<<v, d>>] + 1 <= DailyVoteLimit
      BY <2>4, <2>7
    <3> QED BY <2>2, <2>3, <3>2, <3>3, <3>4
  <2>8. CASE ~(v = u /\ d = today)
    <3>1. CastOn(v, d)' = old
      BY <1>3, <1>6, <2>1, <2>5, <2>6, <2>8 DEF CastOn
    <3>2. actions'[<<v, d>>] = actions[<<v, d>>]
      <4>1. <<v, d>> # <<u, today>> /\ <<v, d>> \in DOMAIN actions
        BY <1>1, <2>8 DEF TallyInv
      <4> QED BY <2>4, <4>1
    <3> QED BY <2>3, <3>1, <3>2
  <2> QED BY <2>7, <2>8
<1>10. ASSUME NEW i \in 1..(n + 1)
       PROVE  /\ new[i].user \in User /\ new[i].category \in Category /\ new[i].at \in Nat
              /\ times'[<<new[i].user, new[i].category>>] # Never
              /\ new[i].at <= times'[<<new[i].user, new[i].category>>]
  <2>1. CASE i = n + 1
    BY <1>1, <1>3, <1>6, <1>7, <2>1 DEF Never
  <2>2. CASE i \in 1..n
    <3>1. PICK x : x = cast[i] /\ x = new[i]
      BY <1>6, <2>2
    <3>2. /\ x.user \in User /\ x.category \in Category /\ x.at \in Nat
          /\ times[<<x.user, x.category>>] # Never
          /\ x.at <= times[<<x.user, x.category>>]
      BY <1>1, <1>4, <2>2, <3>1 DEF TallyInv
    <3>3. times[<<x.user, x.category>>] \in {Never} \cup 0..now
      BY <1>1, <3>2 DEF TallyInv
    <3>4. times'[<<x.user, x.category>>] = times[<<x.user, x.category>>] \/ times'[<<x.user, x.category>>] = now
      BY <1>7, <3>2
    <3> QED BY <1>1, <3>1, <3>2, <3>3, <3>4 DEF Never
  <2> QED BY <1>4, <2>1, <2>2
<1>11. ASSUME NEW i \in 1..(n + 1), NEW j \in 1..(n + 1),
              i < j, new[i].user = new[j].user, new[i].category = new[j].category
       PROVE  new[j].at - new[i].at >= Cooldown
  <2>1. i \in 1..n
    BY <1>4, <1>11
  <2>2. CASE j \in 1..n
    <3>1. new[i] = cast[i] /\ new[j] = cast[j]
      BY <1>6, <2>1, <2>2
    <3> QED BY <1>1, <1>4, <1>11, <2>1, <2>2, <3>1 DEF TallyInv
  <2>3. CASE j = n + 1
    <3>1. PICK x : x = cast[i] /\ x = new[i]
      BY <1>6, <2>1
    <3>2. /\ x.user = u /\ x.category = c /\ x.at \in Nat
          /\ times[<<u, c>>] # Never /\ x.at <= times[<<u, c>>]
      BY <1>1, <1>3, <1>4, <1>6, <1>11, <2>1, <2>3, <3>1 DEF TallyInv
    <3>3. times[<<u, c>>] \in {Never} \cup 0..now
      BY <1>1 DEF TallyInv
    <3>4. now - times[<<u, c>>] >= Cooldown
      BY <3>2 DEF Cooled
    <3>5. now - x.at >= Cooldown
      BY <1>1, <3>2, <3>3, <3>4, Constants DEF Never
    <3> QED BY <1>3, <1>6, <2>3, <3>1, <3>5
  <2> QED BY <1>4, <2>2, <2>3
<1>12. DOMAIN actions' = User \X Days
  BY <1>1 DEF TallyInv
<1>13. Len(new) = n + 1 /\ IsSequence(new) /\ now' = now
  BY <1>6
<1> QED BY <1>5, <1>7, <1>8, <1>9, <1>10, <1>11, <1>12, <1>13 DEF TallyInv

LEMMA VoteStep == ASSUME VoteInv, NEW r \in Request, WriteVote(r) PROVE VoteInv'
<1>1. ButtonInv /\ RequestInv /\ TallyInv /\ LockInv /\ ListInv
  BY DEF VoteInv
<1>2. Voting(r) /\ requests[r].pc = "write" /\ UNCHANGED <<now, buttons>>
  BY DEF WriteVote, data
<1>3. ButtonInv'
  BY <1>1, <1>2 DEF ButtonInv
<1>4. CASE Step(r, "refused") /\ UNCHANGED <<voteTables, cast>>
  <2>1. RequestInv' /\ requests'[r].pc = "refused" /\ \A q \in Request : q # r => Stays(q)
    BY <1>1, <1>2, <1>4, PcMoves
  <2>2. Waits(r)
    BY <2>1 DEF Waits
  <2> QED BY <1>2, <1>3, <1>4, <2>1, <2>2, PageKeeps DEF voteTables
<1>5. PICK u, c : u = Asking(r) /\ c = About(r)
  OBVIOUS
<1>6. CASE /\ Step(r, "done") /\ UNCHANGED watch
           /\ actions' = [actions EXCEPT ![<<u, Today>>] = @ + 1]
           /\ times' = [times EXCEPT ![<<u, c>>] = now]
           /\ cast' = Append(cast, [user |-> u, category |-> c, at |-> now])
  <2>1. /\ RequestInv' /\ requests'[r].pc = "done" /\ requests'[r].button = requests[r].button
        /\ \A q \in Request : q # r => Stays(q)
    BY <1>1, <1>2, <1>6, PcMoves
  <2>2. HoldsVote(r) /\ HoldsDay(r) /\ ~HoldsVote(r)' /\ ~HoldsDay(r)' /\ ~HoldsList(r)'
    BY <1>2, <2>1 DEF HoldsVote, HoldsDay, HoldsList
  <2>3. u \in User /\ c \in Category
    BY <1>1, <1>2, <1>5, WhoAsks
  <2>4. Cooled(u, c) /\ (Today \in Days => actions[<<u, Today>>] + 1 <= DailyVoteLimit)
    BY <1>1, <1>5, <2>2 DEF LockInv
  <2>5. TallyInv'
    BY <1>2, <1>6, <2>3, <2>4, VoteCounted
  <2>6. ASSUME NEW q \in Request \ {r}
        PROVE  /\ HoldsVote(q) => times'[<<Asking(q), About(q)>>] = times[<<Asking(q), About(q)>>]
               /\ HoldsDay(q) /\ Today \in Days => actions'[<<Asking(q), Today>>] = actions[<<Asking(q), Today>>]
    <3>1. ASSUME HoldsVote(q) PROVE times'[<<Asking(q), About(q)>>] = times[<<Asking(q), About(q)>>]
      <4>1. <<Asking(q), About(q)>> # <<u, c>>
        BY <1>1, <1>5, <2>2, <3>1 DEF LockInv
      <4>2. <<Asking(q), About(q)>> \in DOMAIN times
        BY <1>1, <3>1, WhoAsks DEF TallyInv, HoldsVote
      <4> QED BY <1>6, <4>1, <4>2
    <3>2. ASSUME HoldsDay(q), Today \in Days
          PROVE  actions'[<<Asking(q), Today>>] = actions[<<Asking(q), Today>>]
      <4>1. <<Asking(q), Today>> # <<u, Today>>
        BY <1>1, <1>5, <2>2, <3>2 DEF LockInv
      <4>2. <<Asking(q), Today>> \in DOMAIN actions
        BY <1>1, <3>2, WhoAsks DEF TallyInv, HoldsDay, Voting
      <4>3. PICK today : today = Today
        OBVIOUS
      <4> QED BY <1>6, <4>1, <4>2, <4>3
    <3> QED BY <3>1, <3>2
  <2>7. LockInv'
    BY <1>2, <1>3, <1>6, <2>1, <2>2, <2>6, LockMoves
  <2> QED BY <1>1, <1>2, <1>3, <1>6, <2>1, <2>5, <2>7 DEF VoteInv, ListInv
<1> QED BY <1>4, <1>5, <1>6 DEF WriteVote

LEMMA ReadStep == ASSUME VoteInv, NEW r \in Request, ReadWatchlist(r) PROVE VoteInv'
<1>1. ButtonInv /\ RequestInv /\ LockInv /\ ListInv
  BY DEF VoteInv
<1>2. /\ Toggling(r) /\ requests[r].pc = "sent"
      /\ \A q \in Request \ {r} : ~(Toggling(q) /\ requests[q].pc = "write" /\ Asking(q) = Asking(r))
      /\ UNCHANGED <<now, ballots, actions, times, watch, cast, buttons>>
  BY DEF ReadWatchlist, data, voteTables
<1>3. ButtonInv'
  BY <1>1, <1>2 DEF ButtonInv
<1>4. CASE Step(r, "refused")
  <2>1. RequestInv' /\ requests'[r].pc = "refused" /\ \A q \in Request : q # r => Stays(q)
    BY <1>1, <1>2, <1>4, PcMoves
  <2>2. Waits(r)
    BY <2>1 DEF Waits
  <2> QED BY <1>2, <1>3, <2>1, <2>2, PageKeeps
<1>5. PICK seen, full : /\ seen = ListWatchlist(Asking(r), About(r))
                        /\ full = (Cardinality(watch[Asking(r)]) >= WatchCap)
  OBVIOUS
<1>6. CASE requests' = [requests EXCEPT ![r].pc = "write", ![r].seen = seen, ![r].full = full]
  <2>1. /\ RequestInv' /\ requests'[r].pc = "write" /\ requests'[r].full = full
        /\ requests'[r].button = requests[r].button
        /\ \A q \in Request : q # r => Stays(q)
    BY <1>1, <1>2, <1>6 DEF RequestInv, Stays, Toggling
  <2>2. ~HoldsVote(r)' /\ ~HoldsDay(r)'
    <3>1. PICK b \in Button : b = requests[r].button
      BY <1>1, <1>2 DEF RequestInv, Toggling
    <3>2. ~IsVote(b) /\ ~IsVote(b)'
      BY <1>2, <3>1 DEF Toggling, IsVote
    <3> QED BY <2>1, <3>1, <3>2 DEF HoldsVote, HoldsDay, Voting, IsVote
  <2>3. \A q \in Request \ {r} : HoldsList(q) => Asking(r) # Asking(q)
    BY <1>2 DEF HoldsList
  <2>4. ~requests'[r].full => Cardinality(watch'[Asking(r)]) + 1 <= WatchCap
    <3>1. Asking(r) \in User
      BY <1>1, <1>2, WhoAsks DEF Toggling
    <3>2. Cardinality(watch[Asking(r)]) \in Nat
      BY <1>1, <3>1, Constants, FS_Subset, FS_CardinalityType DEF ListInv
    <3>3. Cardinality(watch[Asking(r)]) >= WatchCap \/ Cardinality(watch[Asking(r)]) + 1 <= WatchCap
      BY <3>2, Constants
    <3>4. watch' = watch
      BY <1>2
    <3>5. CASE full
      BY <2>1, <3>5
    <3>6. CASE ~full
      BY <1>5, <3>3, <3>4, <3>6
    <3> QED BY <3>5, <3>6
  <2>5. LockInv'
    BY <1>2, <1>3, <2>1, <2>2, <2>3, <2>4, LockMoves DEF Toggling
  <2>6. TallyInv' /\ ListInv' /\ now' \in Nat
    BY <1>2, TablesKeep
  <2> QED BY <1>3, <2>1, <2>5, <2>6 DEF VoteInv
<1> QED BY <1>4, <1>5, <1>6 DEF ReadWatchlist

LEMMA ToggleStep == ASSUME VoteInv, NEW r \in Request, ToggleWatchlist(r) PROVE VoteInv'
<1>1. ButtonInv /\ RequestInv /\ LockInv /\ ListInv
  BY DEF VoteInv
<1>2. /\ Toggling(r) /\ requests[r].pc = "write" /\ HoldsList(r)
      /\ UNCHANGED <<now, ballots, actions, times, cast, buttons>>
  BY DEF ToggleWatchlist, data, HoldsList
<1>3. ButtonInv'
  BY <1>1, <1>2 DEF ButtonInv
<1>4. CASE Step(r, "refused") /\ UNCHANGED watch
  <2>1. RequestInv' /\ requests'[r].pc = "refused" /\ \A q \in Request : q # r => Stays(q)
    BY <1>1, <1>2, <1>4, PcMoves DEF Toggling
  <2>2. Waits(r)
    BY <2>1 DEF Waits
  <2> QED BY <1>2, <1>3, <1>4, <2>1, <2>2, PageKeeps
<1>5. PICK u, c : u = Asking(r) /\ c = About(r)
  OBVIOUS
<1>6. u \in User /\ c \in Category
  BY <1>1, <1>2, <1>5, WhoAsks DEF Toggling
<1>7. ASSUME NEW list, NEW next, list \subseteq Category, Cardinality(list) <= WatchCap,
             watch' = [watch EXCEPT ![u] = list],
             requests' = [requests EXCEPT ![r].pc = "done", ![r].next = next]
      PROVE  VoteInv'
  <2>1. /\ RequestInv' /\ requests'[r].pc = "done" /\ requests'[r].button = requests[r].button
        /\ \A q \in Request : q # r => Stays(q)
    BY <1>1, <1>2, <1>7 DEF RequestInv, Stays, Toggling
  <2>2. ~HoldsVote(r)' /\ ~HoldsDay(r)' /\ ~HoldsList(r)'
    BY <2>1 DEF HoldsVote, HoldsDay, HoldsList
  <2>3. \A q \in Request \ {r} : HoldsList(q) => watch'[Asking(q)] = watch[Asking(q)]
    <3> SUFFICES ASSUME NEW q \in Request \ {r}, HoldsList(q)
                 PROVE  watch'[Asking(q)] = watch[Asking(q)]
      OBVIOUS
    <3>1. Asking(q) # u
      BY <1>1, <1>2, <1>5 DEF LockInv
    <3>2. Asking(q) \in DOMAIN watch
      BY <1>1, WhoAsks DEF ListInv, HoldsList, Toggling
    <3> QED BY <1>7, <3>1, <3>2
  <2>4. LockInv'
    BY <1>2, <1>3, <2>1, <2>2, <2>3, LockMoves DEF Toggling
  <2>5. ListInv'
    BY <1>1, <1>7 DEF ListInv
  <2> QED BY <1>2, <1>3, <2>1, <2>4, <2>5 DEF VoteInv, TallyInv, CastOn
<1>8. IsFiniteSet(watch[u]) /\ watch[u] \subseteq Category /\ Cardinality(watch[u]) <= WatchCap
  BY <1>1, <1>6, Constants, FS_Subset DEF ListInv
<1>9. CASE /\ watch' = [watch EXCEPT ![u] = @ \ {c}]
           /\ requests' = [requests EXCEPT ![r].pc = "done", ![r].next = "none"]
  <2>1. Cardinality(watch[u] \ {c}) <= Cardinality(watch[u]) /\ Cardinality(watch[u]) \in Nat
        /\ Cardinality(watch[u] \ {c}) \in Nat
    BY <1>8, FS_Subset, FS_CardinalityType
  <2>2. PICK list : list = watch[u] \ {c}
    OBVIOUS
  <2>3. list \subseteq Category /\ Cardinality(list) <= WatchCap
    BY <1>8, <2>1, <2>2, Constants
  <2> QED BY <1>7, <1>9, <2>2, <2>3
<1>10. CASE /\ ~requests[r].full
            /\ watch' = [watch EXCEPT ![u] = @ \cup {c}]
            /\ requests' = [requests EXCEPT ![r].pc = "done", ![r].next = "on"]
  <2>1. Cardinality(watch[u]) + 1 <= WatchCap
    BY <1>1, <1>2, <1>5, <1>10 DEF LockInv
  <2>2. PICK list : list = watch[u] \cup {c}
    OBVIOUS
  <2>3. Cardinality(list) <= WatchCap
    <3>1. CASE c \in watch[u]
      BY <1>8, <2>2, <3>1
    <3>2. CASE c \notin watch[u]
      BY <1>8, <2>1, <2>2, <3>2, FS_AddElement
    <3> QED BY <3>1, <3>2
  <2>4. list \subseteq Category
    BY <1>6, <1>8, <2>2
  <2> QED BY <1>7, <1>10, <2>2, <2>3, <2>4
<1> QED BY <1>4, <1>5, <1>9, <1>10 DEF ToggleWatchlist

(* Time passes only while no request runs.                                 *)
LEMMA TickStep == ASSUME VoteInv, Quiet, now' = now + 1, UNCHANGED votes PROVE VoteInv'
<1>1. /\ UNCHANGED <<ballots, actions, times, watch, buttons, requests, cast>>
      /\ now \in Nat
  BY DEF votes, voteTables, VoteInv
<1>2. ButtonInv' /\ RequestInv' /\ ListInv' /\ now' \in Nat
  BY <1>1 DEF VoteInv, ButtonInv, RequestInv, ListInv
<1>3. \A q \in Request : ~HoldsVote(q)' /\ ~HoldsDay(q)' /\ ~HoldsList(q)'
  BY <1>1 DEF Quiet, HoldsVote, HoldsDay, HoldsList
<1>4. LockInv'
  BY <1>3 DEF LockInv
<1>5. TallyInv'
  <2>1. 0..now \subseteq 0..now'
    BY <1>1
  <2>2. TallyInv
    BY DEF VoteInv
  <2>3. \A x \in User \X Category : times'[x] \in {Never} \cup 0..now'
    BY <1>1, <2>1, <2>2 DEF TallyInv
  <2>4. \A u \in User, d \in Days : CastOn(u, d)' = CastOn(u, d)
    BY <1>1 DEF CastOn
  <2> QED BY <1>1, <2>2, <2>3, <2>4 DEF TallyInv
<1> QED BY <1>2, <1>4, <1>5 DEF VoteInv

LEMMA VotesStep == ASSUME VoteInv, VotesNext PROVE VoteInv'
BY PageSteps, CooldownStep, CountStep, VoteStep, ReadStep, ToggleStep DEF VotesNext

LEMMA VotesRest == ASSUME VoteInv, now' = now, UNCHANGED votes PROVE VoteInv'
<1>1. UNCHANGED <<ballots, actions, times, watch, buttons, requests, cast>>
  BY DEF votes, voteTables
<1>2. ButtonInv' /\ RequestInv' /\ \A q \in Request : Stays(q)
  BY <1>1 DEF VoteInv, ButtonInv, RequestInv, Stays
<1> QED BY <1>1, <1>2, PageKeeps

LEMMA VotesKeepWithin == ASSUME VoteInv PROVE LimitsHold
<1>1. TallyInv /\ ListInv
  BY DEF VoteInv
<1>2. DOMAIN cast = 1..Len(cast)
  BY <1>1 DEF TallyInv, IsSequence
<1>3. ASSUME NEW u \in User, NEW d \in Days PROVE Cardinality(CastOn(u, d)) <= DailyVoteLimit
  <2>1. PICK count : count = Cardinality(CastOn(u, d))
    OBVIOUS
  <2>2. count \in Nat /\ count <= actions[<<u, d>>] /\ actions[<<u, d>>] \in 0..DailyVoteLimit
    BY <1>1, <2>1, CastFinite DEF TallyInv
  <2> QED BY <2>1, <2>2, Constants
<1> QED BY <1>1, <1>2, <1>3 DEF LimitsHold, TallyInv, ListInv, CastOn

LEMMA VotesStart == Init => VoteInv
<1> SUFFICES ASSUME Init PROVE VoteInv
  OBVIOUS
<1>f. PICK f \in DOMAIN First : now = First[f].now /\ \E standing \in First[f].ballots : VotesFrom(standing)
  BY DEF Init
<1>1. PICK standing \in First[f].ballots : VotesFrom(standing)
  BY <1>f
<1>2. now \in Nat /\ buttons = Buttons /\ requests = [r \in Request |-> Free]
      /\ \A r \in Request : requests[r].pc = "free"
  BY <1>f, <1>1, FirstAssumption DEF Init, VotesFrom, Free
<1>3. ButtonInv
  <2>1. ASSUME NEW b \in Button PROVE Fixed \subseteq DOMAIN Buttons[b]
    <3>1. PICK u \in User, c \in Category, kind \in {"vote", "star"} : Buttons[b] = Fresh(u, c, kind)
      BY SiteAssumption
    <3> QED BY <3>1 DEF Fresh, Fixed
  <2> QED BY <1>2, <2>1, Constants DEF ButtonInv
<1>4. RequestInv
  BY <1>2 DEF RequestInv, Free
<1>5. \A r \in Request : ~HoldsVote(r) /\ ~HoldsDay(r) /\ ~HoldsList(r)
  BY <1>2 DEF HoldsVote, HoldsDay, HoldsList
<1>6. LockInv
  BY <1>5 DEF LockInv
<1>7. TallyInv
  <2>1. /\ cast = <<>> /\ actions = [x \in User \X Days |-> Cardinality(VotedOn(standing, x[1], x[2]))]
        /\ times = [x \in User \X Category |-> standing[x].at]
    BY <1>1 DEF VotesFrom
  <2>2. IsSequence(cast) /\ Len(cast) = 0 /\ DOMAIN cast = {}
    BY <2>1 DEF IsSequence
  <2>3. \A u \in User, d \in Days : CastOn(u, d) = {}
    BY <2>2 DEF CastOn
  <2>4. Cardinality({}) = 0
    BY FS_EmptySet
  <2>5. \A u \in User, d \in Days :
          actions[<<u, d>>] \in 0..DailyVoteLimit /\ Cardinality(CastOn(u, d)) <= actions[<<u, d>>]
    <3> TAKE u \in User, d \in Days
    <3>1. PICK voted : voted = VotedOn(standing, u, d)
      OBVIOUS
    <3>2. actions[<<u, d>>] = Cardinality(voted)
      BY <2>1, <3>1
    <3>3. Cardinality(voted) \in Nat
      <4>1. voted \subseteq Category /\ IsFiniteSet(Category)
        BY <3>1, Constants DEF VotedOn
      <4> QED BY <4>1, FS_Subset, FS_CardinalityType
    <3>4. Cardinality(voted) <= DailyVoteLimit
      <4>1. \A s \in First[f].ballots : \A v \in User, e \in Days : Cardinality(VotedOn(s, v, e)) <= DailyVoteLimit
        BY FirstAssumption DEF WithinLimits
      <4> QED BY <1>1, <3>1, <4>1
    <3>5. Cardinality(CastOn(u, d)) = 0 /\ DailyVoteLimit \in Nat
      BY <2>3, <2>4, Constants
    <3> QED BY <3>2, <3>3, <3>4, <3>5
  <2>6. 1..Len(cast) = {}
    BY <2>2
  <2>7. \A x \in User \X Category : times[x] \in {Never} \cup 0..now
    <3> TAKE x \in User \X Category
    <3>1. standing \in [User \X Category -> {NoVote} \cup [vote : {"up", "down"}, at : 0..now]]
      <4>1. First[f].ballots \subseteq Ballots(First[f].now)
        BY FirstAssumption
      <4> QED BY <1>f, <1>1, <4>1 DEF Ballots
    <3>2. standing[x] = NoVote \/ standing[x] \in [vote : {"up", "down"}, at : 0..now]
      BY <3>1
    <3>3. standing[x].at = Never \/ standing[x].at \in 0..now
      BY <3>2 DEF NoVote
    <3> QED BY <2>1, <3>3
  <2> QED BY <2>1, <2>2, <2>5, <2>6, <2>7 DEF TallyInv
<1>8. ListInv
  <2>1. watch = [u \in User |-> {c \in Category : standing[<<u, c>>].vote = "up"}]
    BY <1>1 DEF VotesFrom
  <2> QED BY <1>1, <2>1, FirstAssumption DEF ListInv, WithinLimits
<1> QED BY <1>2, <1>3, <1>4, <1>6, <1>7, <1>8 DEF VoteInv

(* What the parts of the site do to votes and to time.                     *)
LEMMA OthersRest ==
  ASSUME Next
  PROVE  \/ VotesNext
         \/ now' = now /\ UNCHANGED votes
         \/ Quiet /\ now' = now + 1 /\ UNCHANGED votes
<1>1. ASSUME NEW k \in Key, MemoNext(k) PROVE now' = now /\ UNCHANGED votes
  BY <1>1 DEF MemoNext, AskStale, AskMissing, Computed, ComputationFails, data
<1>2. BrowserNext => now' = now /\ UNCHANGED votes
  BY DEF BrowserNext, SetSort, SetType, ToggleVenue, SetPage, Debounced, GoBack, Refresh, LoadAnswers,
         OnSearchInput, GridArrives, GridFails, data
<1>3. ReportsNext => now' = now
  BY Zenon DEF ReportsNext, SubmitReport, CheckToken, InsertReport, DispatchAlert, FilingFails, OpenQueue, DeskSettles,
         HideToken, UnhideToken, SetReportStatus, data
<1>4. IconsNext => now' = now
  BY Zenon DEF IconsNext, FetchIcon, RescanIcon, Republish, ScreenIcon, WriteIcon, UpsertDecision, LinkIcon,
               WorkerStops, Reheal, OpenIcons, ApproveSelected, ClearIcon, BlockIcon, AskFails, DeleteFile, data
<1> QED BY <1>1, <1>2, <1>3, <1>4 DEF Next, Moderate, Tick, parts

----------------------------------------------------------------------------
(* Reports.  The forms that counted against a bucket since an instant are  *)
(* no more than the hits it holds since then, as long as the instant is in *)
(* the window: what has aged out is older.                                 *)

Counts(form, key, x, t) == form[key] = x /\ form.at >= t
FiledOf(s, key, x, t) == {j \in DOMAIN s : Counts(s[j], key, x, t)}

BucketInv ==
  /\ now \in Nat /\ IsSequence(filed)
  /\ ipHits \in [Reporter -> Seq(Nat)] /\ catHits \in [Category -> Seq(Nat)]
  /\ \A j \in 1..Len(filed) : filed[j].at \in Nat /\ filed[j].at <= now
  /\ \A a \in Reporter, t \in Int : t > now - ReportWindow =>
       Cardinality(FiledOf(filed, "ip", a, t)) <= Cardinality(HitsSince(ipHits[a], t))
  /\ \A c \in Category, t \in Int : t > now - ReportWindow =>
       Cardinality(FiledOf(filed, "category", c, t)) <= Cardinality(HitsSince(catHits[c], t))
  /\ ReportLimits

(* Any part of a finite sequence of forms is finite.                       *)
LEMMA FiledFinite ==
  ASSUME NEW s, IsSequence(s), NEW S, S \subseteq 1..Len(s)
  PROVE  IsFiniteSet(S) /\ Cardinality(S) \in Nat
<1>1. PICK n \in Nat : n = Len(s)
  BY DEF IsSequence
<1>2. 1 \in Int /\ n \in Int
  OBVIOUS
<1>3. IsFiniteSet(1..n)
  BY <1>2, FS_Interval
<1> QED BY <1>1, <1>3, FS_Subset, FS_CardinalityType

(* checkRateLimit drops the hits that have aged out, and no others.        *)
LEMMA WithinIs ==
  ASSUME now \in Nat, NEW h \in Seq(Nat)
  PROVE  /\ Within(h) \in Seq(Nat) /\ Len(Within(h)) \in Nat
         /\ \A t \in Int : t > now - ReportWindow =>
              /\ IsFiniteSet(HitsSince(Within(h), t)) /\ IsFiniteSet(HitsSince(h, t))
              /\ Cardinality(HitsSince(h, t)) <= Cardinality(HitsSince(Within(h), t))
              /\ Cardinality(HitsSince(Within(h), t)) <= Len(Within(h))
<1>1. PICK limit \in Int : limit = now - ReportWindow
  BY Constants
<1>2. PICK oldest \in Int : oldest = limit + 1
  OBVIOUS
<1>3. \E d \in 0..Len(h) : (\A k \in 1..d : h[k] <= limit) /\ (d < Len(h) => h[d + 1] > limit)
  <2>1. PICK d \in 0..Len(h) : (\A k \in 1..d : h[k] < oldest) /\ (d < Len(h) => h[d + 1] >= oldest)
    BY FrontEnds
  <2>2. d \in Nat /\ \A k \in 1..Len(h) : h[k] \in Nat
    OBVIOUS
  <2>3. \A k \in 1..d : h[k] <= limit
    BY <1>2, <2>1, <2>2
  <2>4. d < Len(h) => h[d + 1] > limit
    BY <1>2, <2>1, <2>2
  <2> QED BY <2>3, <2>4, Zenon
<1>4. PICK d \in 0..Len(h) : d = AgedOut(h) /\ \A k \in 1..d : h[k] <= limit
  BY <1>1, <1>3 DEF AgedOut
<1>5. PICK g : g = SubSeq(h, d + 1, Len(h)) /\ g = Within(h)
  BY <1>4 DEF Within
<1>6. ASSUME NEW t \in Int, t > limit
      PROVE  /\ g \in Seq(Nat) /\ IsFiniteSet(HitsSince(g, t)) /\ IsFiniteSet(HitsSince(h, t))
             /\ Cardinality(HitsSince(h, t)) <= Cardinality(HitsSince(g, t))
             /\ Cardinality(HitsSince(g, t)) <= Len(g)
  <2>1. \A k \in 1..d : h[k] < t
    <3> TAKE k \in 1..d
    <3>1. h[k] <= limit /\ h[k] \in Nat
      BY <1>4
    <3> QED BY <1>6, <3>1
  <2> QED BY <1>5, <2>1, OnlyOldDropped, SinceType
<1>7. g \in Seq(Nat) /\ Len(g) \in Nat
  <2>1. limit + 1 \in Int /\ limit + 1 > limit
    OBVIOUS
  <2>2. g \in Seq(Nat)
    BY <1>6, <2>1
  <2> QED BY <2>2
<1> QED BY <1>1, <1>5, <1>6, <1>7

(* A bucket that ages keeps what it has counted, and one more hit counts.  *)
LEMMA Counted ==
  ASSUME now \in Nat, NEW h \in Seq(Nat), NEW t \in Int, t > now - ReportWindow,
         NEW n \in Nat, n <= Cardinality(HitsSince(h, t))
  PROVE  /\ n <= Cardinality(HitsSince(Within(h), t)) /\ n <= Len(Within(h))
         /\ n + (IF now >= t THEN 1 ELSE 0) <= Cardinality(HitsSince(Append(Within(h), now), t))
         /\ n <= Cardinality(HitsSince(Append(Within(h), now), t))
<1>1. PICK g : g = Within(h)
  OBVIOUS
<1>2. /\ g \in Seq(Nat) /\ Len(g) \in Nat /\ IsFiniteSet(HitsSince(g, t))
      /\ Cardinality(HitsSince(h, t)) <= Cardinality(HitsSince(g, t))
      /\ Cardinality(HitsSince(g, t)) <= Len(g)
  BY <1>1, WithinIs
<1>3. Cardinality(HitsSince(h, t)) \in Nat /\ Cardinality(HitsSince(g, t)) \in Nat
  BY <1>2, SinceType
<1>4. Cardinality(HitsSince(Append(g, now), t)) = Cardinality(HitsSince(g, t)) + (IF now >= t THEN 1 ELSE 0)
  BY <1>2, OneMoreHit
<1> QED BY <1>1, <1>2, <1>3, <1>4

(* A step that counts nothing and drops old hits only.                     *)
LEMMA NothingFiled ==
  ASSUME BucketInv, now' = now, filed' = filed,
         DOMAIN ipHits' = Reporter, DOMAIN catHits' = Category,
         ipHits' = [a \in Reporter |-> ipHits'[a]], catHits' = [c \in Category |-> catHits'[c]],
         \A a \in Reporter : ipHits'[a] \in {ipHits[a], Within(ipHits[a]), Append(Within(ipHits[a]), now)},
         \A c \in Category : catHits'[c] \in {catHits[c], Within(catHits[c]), Append(Within(catHits[c]), now)}
  PROVE  BucketInv'
<1>1. /\ now \in Nat /\ IsSequence(filed)
      /\ ipHits \in [Reporter -> Seq(Nat)] /\ catHits \in [Category -> Seq(Nat)]
      /\ DOMAIN filed = 1..Len(filed)
  BY DEF BucketInv, IsSequence
<1>2. ASSUME NEW h \in Seq(Nat), NEW g \in {h, Within(h), Append(Within(h), now)}
      PROVE  /\ g \in Seq(Nat)
             /\ \A t \in Int, n \in Nat :
                  t > now - ReportWindow /\ n <= Cardinality(HitsSince(h, t)) => n <= Cardinality(HitsSince(g, t))
  <2>1. Within(h) \in Seq(Nat) /\ Append(Within(h), now) \in Seq(Nat)
    <3>1. PICK w : w = Within(h)
      OBVIOUS
    <3>2. w \in Seq(Nat)
      BY <1>1, <3>1, WithinIs
    <3> QED BY <1>1, <3>1, <3>2
  <2>2. ASSUME NEW t \in Int, NEW n \in Nat, t > now - ReportWindow, n <= Cardinality(HitsSince(h, t))
        PROVE  n <= Cardinality(HitsSince(g, t))
    <3>1. /\ n <= Cardinality(HitsSince(Within(h), t))
          /\ n <= Cardinality(HitsSince(Append(Within(h), now), t))
      BY <1>1, <2>2, Counted
    <3> QED BY <1>2, <2>2, <3>1
  <2> QED BY <1>2, <2>1, <2>2
<1>3. \A key, x, t : /\ FiledOf(filed', key, x, t) = FiledOf(filed, key, x, t)
                     /\ Cardinality(FiledOf(filed, key, x, t)) \in Nat
  <2> TAKE key, x, t
  <2>1. FiledOf(filed', key, x, t) = FiledOf(filed, key, x, t) /\ FiledOf(filed, key, x, t) \subseteq 1..Len(filed)
    BY <1>1 DEF FiledOf
  <2> QED BY <1>1, <2>1, FiledFinite
<1>4. ASSUME NEW a \in Reporter
      PROVE  /\ ipHits'[a] \in Seq(Nat)
             /\ \A t \in Int : t > now - ReportWindow =>
                  Cardinality(FiledOf(filed', "ip", a, t)) <= Cardinality(HitsSince(ipHits'[a], t))
  <2>1. PICK h, g : h = ipHits[a] /\ g = ipHits'[a]
    OBVIOUS
  <2>2. h \in Seq(Nat) /\ g \in {h, Within(h), Append(Within(h), now)}
    BY <1>1, <2>1
  <2>3. \A t \in Int : t > now - ReportWindow =>
          Cardinality(FiledOf(filed, "ip", a, t)) <= Cardinality(HitsSince(h, t))
    BY <2>1 DEF BucketInv
  <2> QED BY <1>2, <1>3, <2>1, <2>2, <2>3
<1>5. ASSUME NEW c \in Category
      PROVE  /\ catHits'[c] \in Seq(Nat)
             /\ \A t \in Int : t > now - ReportWindow =>
                  Cardinality(FiledOf(filed', "category", c, t)) <= Cardinality(HitsSince(catHits'[c], t))
  <2>1. PICK h, g : h = catHits[c] /\ g = catHits'[c]
    OBVIOUS
  <2>2. h \in Seq(Nat) /\ g \in {h, Within(h), Append(Within(h), now)}
    BY <1>1, <2>1
  <2>3. \A t \in Int : t > now - ReportWindow =>
          Cardinality(FiledOf(filed, "category", c, t)) <= Cardinality(HitsSince(h, t))
    BY <2>1 DEF BucketInv
  <2> QED BY <1>2, <1>3, <2>1, <2>2, <2>3
<1>6. ReportLimits'
  BY DEF BucketInv, ReportLimits
<1>7. /\ IsSequence(filed)' /\ now' \in Nat
      /\ \A j \in 1..Len(filed') : filed'[j].at \in Nat /\ filed'[j].at <= now'
  BY <1>1 DEF BucketInv
<1>8. ipHits' \in [Reporter -> Seq(Nat)] /\ catHits' \in [Category -> Seq(Nat)]
  BY <1>4, <1>5
<1>9. /\ \A a \in Reporter, t \in Int : t > now' - ReportWindow =>
            Cardinality(FiledOf(filed', "ip", a, t)) <= Cardinality(HitsSince(ipHits'[a], t))
      /\ \A c \in Category, t \in Int : t > now' - ReportWindow =>
            Cardinality(FiledOf(filed', "category", c, t)) <= Cardinality(HitsSince(catHits'[c], t))
  BY <1>4, <1>5
<1> QED BY <1>6, <1>7, <1>8, <1>9 DEF BucketInv, HitsSince

(* What one more accepted form adds to the count of a bucket.              *)
LEMMA FiledMore ==
  ASSUME NEW s, IsSequence(s), NEW new, DOMAIN new = 1..(Len(s) + 1), \A j \in 1..Len(s) : new[j] = s[j],
         NEW e, new[Len(s) + 1] = e, NEW key, NEW x, NEW t
  PROVE  /\ Cardinality(FiledOf(s, key, x, t)) \in Nat
         /\ Counts(e, key, x, t) => Cardinality(FiledOf(new, key, x, t)) = Cardinality(FiledOf(s, key, x, t)) + 1
         /\ ~Counts(e, key, x, t) => Cardinality(FiledOf(new, key, x, t)) = Cardinality(FiledOf(s, key, x, t))
<1>1. PICK n : n = Len(s)
  OBVIOUS
<1>2. /\ n \in Nat /\ DOMAIN s = 1..n /\ DOMAIN new = 1..(n + 1) /\ new[n + 1] = e
      /\ \A j \in 1..n : new[j] = s[j]
  BY <1>1 DEF IsSequence
<1>3. PICK old : old = FiledOf(s, key, x, t)
  OBVIOUS
<1>4. old \subseteq 1..n
  BY <1>2, <1>3 DEF FiledOf
<1>5. IsFiniteSet(old) /\ Cardinality(old) \in Nat /\ n + 1 \notin old
  <2>1. IsFiniteSet(old) /\ Cardinality(old) \in Nat
    BY <1>1, <1>4, FiledFinite
  <2>2. n + 1 \notin 1..n
    BY <1>2
  <2> QED BY <1>4, <2>1, <2>2
<1>6. FiledOf(new, key, x, t) = {j \in 1..(n + 1) : Counts(new[j], key, x, t)}
  BY <1>1, <1>2 DEF FiledOf
<1>7. ASSUME Counts(e, key, x, t) PROVE Cardinality(FiledOf(new, key, x, t)) = Cardinality(old) + 1
  <2>1. FiledOf(new, key, x, t) = old \cup {n + 1}
    BY <1>2, <1>3, <1>6, <1>7 DEF FiledOf
  <2> QED BY <1>5, <2>1, FS_AddElement
<1>8. ASSUME ~Counts(e, key, x, t) PROVE FiledOf(new, key, x, t) = old
  BY <1>2, <1>3, <1>6, <1>8 DEF FiledOf
<1> QED BY <1>1, <1>3, <1>5, <1>7, <1>8, Zenon

(* A form that both buckets have room for.                                 *)
Accepted(a, c) ==
  /\ Admits(ipHits[a], LimitPerIp) /\ Admits(catHits[c], LimitPerCategory)
  /\ ipHits' = [ipHits EXCEPT ![a] = Append(Within(@), now)]
  /\ catHits' = [catHits EXCEPT ![c] = Append(Within(@), now)]
  /\ filed' = Append(filed, [ip |-> a, category |-> c, at |-> now])

LEMMA FormFiled ==
  ASSUME BucketInv, now' = now, NEW a \in Reporter, NEW c \in Category, Accepted(a, c)
  PROVE  BucketInv'
<1>1. /\ now \in Nat /\ IsSequence(filed)
      /\ ipHits \in [Reporter -> Seq(Nat)] /\ catHits \in [Category -> Seq(Nat)]
  BY DEF BucketInv
<1>2. PICK e : e = [ip |-> a, category |-> c, at |-> now]
  OBVIOUS
<1>3. e.ip = a /\ e.category = c /\ e.at = now /\ e["ip"] = a /\ e["category"] = c
  BY <1>2
<1>4. PICK new, n : new = filed' /\ n = Len(filed)
  OBVIOUS
<1>5. /\ n \in Nat /\ Len(new) = n + 1 /\ DOMAIN filed = 1..n /\ DOMAIN new = 1..(n + 1)
      /\ new[n + 1] = e /\ IsSequence(new)
      /\ \A j \in 1..n : new[j] = filed[j]
  <2>1. new = Append(filed, e)
    BY <1>2, <1>4 DEF Accepted
  <2>2. /\ IsSequence(Append(filed, e)) /\ Len(Append(filed, e)) = Len(filed) + 1
        /\ DOMAIN filed = 1..Len(filed) /\ DOMAIN Append(filed, e) = 1..(Len(filed) + 1)
        /\ Append(filed, e)[Len(filed) + 1] = e
        /\ \A t \in 1..Len(filed) : Append(filed, e)[t] = filed[t]
    BY <1>1, Appended
  <2>3. n \in Nat
    BY <1>1, <1>4 DEF IsSequence
  <2> QED BY <1>4, <2>1, <2>2, <2>3
<1>11. ASSUME NEW key, NEW x, NEW t \in Int
       PROVE  /\ Cardinality(FiledOf(filed, key, x, t)) \in Nat
              /\ Cardinality(FiledOf(filed', key, x, t)) =
                   Cardinality(FiledOf(filed, key, x, t)) + (IF e[key] = x /\ now >= t THEN 1 ELSE 0)
  <2>1. /\ IsSequence(filed) /\ DOMAIN new = 1..(Len(filed) + 1) /\ \A j \in 1..Len(filed) : new[j] = filed[j]
        /\ new[Len(filed) + 1] = e
    BY <1>1, <1>4, <1>5
  <2>2. Cardinality(FiledOf(filed, key, x, t)) \in Nat
    BY <2>1, FiledMore
  <2>3. Counts(e, key, x, t) = (e[key] = x /\ now >= t)
    BY <1>3 DEF Counts
  <2>4. CASE Counts(e, key, x, t)
    <3>1. Cardinality(FiledOf(new, key, x, t)) = Cardinality(FiledOf(filed, key, x, t)) + 1
      BY <2>1, <2>4, FiledMore
    <3>2. (IF e[key] = x /\ now >= t THEN 1 ELSE 0) = 1
      BY <2>3, <2>4
    <3>3. new = filed'
      BY <1>4
    <3> QED BY <2>2, <3>1, <3>2, <3>3
  <2>5. CASE ~Counts(e, key, x, t)
    <3>1. Cardinality(FiledOf(new, key, x, t)) = Cardinality(FiledOf(filed, key, x, t))
      BY <2>1, <2>5, FiledMore
    <3>2. (IF e[key] = x /\ now >= t THEN 1 ELSE 0) = 0
      BY <2>3, <2>5
    <3>3. new = filed'
      BY <1>4
    <3>4. \A k \in Nat : k = k + 0
      OBVIOUS
    <3> QED BY <2>2, <3>1, <3>2, <3>3, <3>4
  <2> QED BY <2>4, <2>5
<1>6. PICK h \in Seq(Nat), g \in Seq(Nat) : h = ipHits[a] /\ g = catHits[c]
  BY <1>1
<1>7. Within(h) \in Seq(Nat) /\ Len(Within(h)) \in Nat /\ Within(g) \in Seq(Nat) /\ Len(Within(g)) \in Nat
  BY <1>1, WithinIs
<1>8. PICK h1, g1 : h1 = Append(Within(h), now) /\ g1 = Append(Within(g), now)
  OBVIOUS
<1>9. /\ ipHits' = [ipHits EXCEPT ![a] = h1]
      /\ catHits' = [catHits EXCEPT ![c] = g1]
  BY <1>6, <1>8 DEF Accepted
<1>10. ipHits' \in [Reporter -> Seq(Nat)] /\ catHits' \in [Category -> Seq(Nat)]
  <2>1. \A k \in Seq(Nat) : Append(k, now) \in Seq(Nat)
    BY <1>1
  <2>2. h1 \in Seq(Nat) /\ g1 \in Seq(Nat)
    BY <1>7, <1>8, <2>1
  <2> QED BY <1>1, <1>9, <2>2
<1>12. ASSUME NEW b \in Reporter, NEW t \in Int, t > now - ReportWindow
       PROVE  Cardinality(FiledOf(filed', "ip", b, t)) <= Cardinality(HitsSince(ipHits'[b], t))
  <2>1. PICK m \in Nat : m = Cardinality(FiledOf(filed, "ip", b, t))
    BY <1>11
  <2>2. m <= Cardinality(HitsSince(ipHits[b], t))
    BY <1>12, <2>1 DEF BucketInv
  <2>3. CASE b = a
    <3>1. m + (IF now >= t THEN 1 ELSE 0) <= Cardinality(HitsSince(h1, t))
      BY <1>1, <1>6, <1>8, <1>12, <2>2, <2>3, Counted
    <3>2. Cardinality(FiledOf(filed', "ip", b, t)) = m + (IF now >= t THEN 1 ELSE 0)
      BY <1>3, <1>11, <2>1, <2>3
    <3>3. ipHits'[b] = h1
      BY <1>1, <1>9, <2>3
    <3> QED BY <3>1, <3>2, <3>3
  <2>4. CASE b # a
    <3>1. Cardinality(FiledOf(filed', "ip", b, t)) = m
      BY <1>3, <1>11, <2>1, <2>4
    <3>2. ipHits'[b] = ipHits[b]
      BY <1>1, <1>9, <2>4
    <3> QED BY <2>2, <3>1, <3>2
  <2> QED BY <2>3, <2>4
<1>13. ASSUME NEW d \in Category, NEW t \in Int, t > now - ReportWindow
       PROVE  Cardinality(FiledOf(filed', "category", d, t)) <= Cardinality(HitsSince(catHits'[d], t))
  <2>1. PICK m \in Nat : m = Cardinality(FiledOf(filed, "category", d, t))
    BY <1>11
  <2>2. m <= Cardinality(HitsSince(catHits[d], t))
    BY <1>13, <2>1 DEF BucketInv
  <2>3. CASE d = c
    <3>1. m + (IF now >= t THEN 1 ELSE 0) <= Cardinality(HitsSince(g1, t))
      BY <1>1, <1>6, <1>8, <1>13, <2>2, <2>3, Counted
    <3>2. Cardinality(FiledOf(filed', "category", d, t)) = m + (IF now >= t THEN 1 ELSE 0)
      BY <1>3, <1>11, <2>1, <2>3
    <3>3. catHits'[d] = g1
      BY <1>1, <1>9, <2>3
    <3> QED BY <3>1, <3>2, <3>3
  <2>4. CASE d # c
    <3>1. Cardinality(FiledOf(filed', "category", d, t)) = m
      BY <1>3, <1>11, <2>1, <2>4
    <3>2. catHits'[d] = catHits[d]
      BY <1>1, <1>9, <2>4
    <3> QED BY <2>2, <3>1, <3>2
  <2> QED BY <2>3, <2>4
<1>14. ASSUME NEW key \in {"ip", "category"}, NEW x, NEW k \in Seq(Nat), NEW cap \in Nat, Len(Within(k)) < cap,
              \A t \in Int : t > now - ReportWindow =>
                Cardinality(FiledOf(filed, key, x, t)) <= Cardinality(HitsSince(k, t)),
              NEW R, R = {j \in 1..(n + 1) : new[j].at > now - ReportWindow /\ new[j][key] = x}
       PROVE  Cardinality(R) <= cap
  <2>0. PICK limit \in Int : limit = now - ReportWindow
    BY <1>1, Constants
  <2>1. PICK t \in Int : t = limit + 1
    OBVIOUS
  <2>2. R = FiledOf(filed', key, x, t)
    <3>1. FiledOf(filed', key, x, t) = {j \in 1..(n + 1) : Counts(new[j], key, x, t)}
      BY <1>4, <1>5 DEF FiledOf
    <3>2. ASSUME NEW j \in 1..(n + 1) PROVE new[j].at >= t <=> new[j].at > now - ReportWindow
      <4>1. new[j].at \in Nat
        <5>1. CASE j = n + 1
          BY <1>1, <1>3, <1>5, <5>1
        <5>2. CASE j \in 1..n
          BY <1>4, <1>5, <5>2 DEF BucketInv
        <5> QED BY <1>5, <5>1, <5>2
      <4> QED BY <2>0, <2>1, <4>1
    <3> QED BY <1>14, <3>1, <3>2 DEF Counts
  <2>3. PICK m \in Nat : m = Cardinality(FiledOf(filed, key, x, t))
    BY <1>11
  <2>4. m <= Len(Within(k)) /\ Len(Within(k)) \in Nat
    <3>1. t > now - ReportWindow
      BY <2>0, <2>1
    <3>2. m <= Cardinality(HitsSince(k, t))
      BY <1>14, <2>3, <3>1
    <3> QED BY <1>1, <3>1, <3>2, Counted, WithinIs
  <2>5. Cardinality(R) = m \/ Cardinality(R) = m + 1
    BY <1>11, <2>2, <2>3
  <2> QED BY <1>14, <2>4, <2>5
<1>15. ReportLimits'
  <2>1. ASSUME NEW i \in 1..n
        PROVE  LET recent == {j \in 1..i : new[j].at > new[i].at - ReportWindow}
               IN /\ Cardinality({j \in recent : new[j].ip = new[i].ip}) <= LimitPerIp
                  /\ Cardinality({j \in recent : new[j].category = new[i].category}) <= LimitPerCategory
    <3>1. \A j \in 1..i : new[j] = filed[j]
      <4>1. \A j \in 1..i : j \in 1..n
        BY <1>5
      <4> QED BY <1>5, <4>1
    <3>2. i \in 1..i /\ new[i] = filed[i]
      BY <1>5
    <3>3. PICK recent : recent = {j \in 1..i : new[j].at > new[i].at - ReportWindow}
      OBVIOUS
    <3>4. recent = {j \in 1..i : filed[j].at > filed[i].at - ReportWindow}
      BY <3>1, <3>2, <3>3
    <3>5. /\ {j \in recent : new[j].ip = new[i].ip} = {j \in recent : filed[j].ip = filed[i].ip}
          /\ {j \in recent : new[j].category = new[i].category}
               = {j \in recent : filed[j].category = filed[i].category}
      BY <3>1, <3>2, <3>3
    <3>6. /\ Cardinality({j \in recent : filed[j].ip = filed[i].ip}) <= LimitPerIp
          /\ Cardinality({j \in recent : filed[j].category = filed[i].category}) <= LimitPerCategory
      BY <1>5, <3>4 DEF BucketInv, ReportLimits
    <3> QED BY <3>3, <3>5, <3>6
  <2>2. LET recent == {j \in 1..(n + 1) : new[j].at > now - ReportWindow}
        IN /\ Cardinality({j \in recent : new[j].ip = a}) <= LimitPerIp
           /\ Cardinality({j \in recent : new[j].category = c}) <= LimitPerCategory
    <3>1. PICK recent : recent = {j \in 1..(n + 1) : new[j].at > now - ReportWindow}
      OBVIOUS
    <3>2. PICK R, S : /\ R = {j \in recent : new[j].ip = a}
                      /\ S = {j \in recent : new[j].category = c}
      OBVIOUS
    <3>3. /\ R = {j \in 1..(n + 1) : new[j].at > now - ReportWindow /\ new[j]["ip"] = a}
          /\ S = {j \in 1..(n + 1) : new[j].at > now - ReportWindow /\ new[j]["category"] = c}
      BY <3>1, <3>2
    <3>4. /\ \A t \in Int : t > now - ReportWindow =>
               Cardinality(FiledOf(filed, "ip", a, t)) <= Cardinality(HitsSince(h, t))
          /\ \A t \in Int : t > now - ReportWindow =>
               Cardinality(FiledOf(filed, "category", c, t)) <= Cardinality(HitsSince(g, t))
      BY <1>6 DEF BucketInv
    <3>5. Len(Within(h)) < LimitPerIp /\ Len(Within(g)) < LimitPerCategory
      BY <1>6 DEF Accepted, Admits
    <3>6. Cardinality(R) <= LimitPerIp
      BY <1>14, <3>3, <3>4, <3>5, Constants
    <3>7. Cardinality(S) <= LimitPerCategory
      BY <1>14, <3>3, <3>4, <3>5, Constants
    <3> QED BY <3>1, <3>2, <3>6, <3>7
  <2>3. ASSUME NEW i \in 1..(n + 1)
        PROVE  LET recent == {j \in 1..i : new[j].at > new[i].at - ReportWindow}
               IN /\ Cardinality({j \in recent : new[j].ip = new[i].ip}) <= LimitPerIp
                  /\ Cardinality({j \in recent : new[j].category = new[i].category}) <= LimitPerCategory
    <3>1. CASE i \in 1..n
      BY <2>1, <3>1
    <3>2. CASE i = n + 1
      <4>1. new[i].at = now /\ new[i].ip = a /\ new[i].category = c
        BY <1>3, <1>5, <3>2
      <4>2. PICK recent : recent = {j \in 1..(n + 1) : new[j].at > now - ReportWindow}
        OBVIOUS
      <4>3. recent = {j \in 1..i : new[j].at > new[i].at - ReportWindow}
        BY <3>2, <4>1, <4>2
      <4>4. /\ {j \in recent : new[j].ip = new[i].ip} = {j \in recent : new[j].ip = a}
            /\ {j \in recent : new[j].category = new[i].category} = {j \in recent : new[j].category = c}
        BY <4>1
      <4>5. /\ Cardinality({j \in recent : new[j].ip = a}) <= LimitPerIp
            /\ Cardinality({j \in recent : new[j].category = c}) <= LimitPerCategory
        BY <2>2, <4>2
      <4>6. /\ Cardinality({j \in recent : new[j].ip = new[i].ip}) <= LimitPerIp
            /\ Cardinality({j \in recent : new[j].category = new[i].category}) <= LimitPerCategory
        BY <4>4, <4>5
      <4> QED BY <4>3, <4>6
    <3>3. i \in 1..n \/ i = n + 1
      BY <1>5
    <3> QED BY <3>1, <3>2, <3>3, Zenon
  <2> QED BY <1>4, <1>5, <2>3 DEF ReportLimits
<1>16. ASSUME NEW j \in 1..(n + 1) PROVE new[j].at \in Nat /\ new[j].at <= now
  <2>1. CASE j = n + 1
    BY <1>1, <1>3, <1>5, <2>1
  <2>2. CASE j \in 1..n
    BY <1>4, <1>5, <2>2 DEF BucketInv
  <2> QED BY <1>5, <2>1, <2>2
<1> QED BY <1>1, <1>4, <1>5, <1>10, <1>12, <1>13, <1>15, <1>16 DEF BucketInv, HitsSince

LEMMA SubmitStep ==
  ASSUME BucketInv, NEW a \in Reporter, NEW c \in Category, SubmitReport(a, c)
  PROVE  BucketInv'
<1>1. now' = now
  BY DEF SubmitReport, data
<1>2. ipHits \in [Reporter -> Seq(Nat)] /\ catHits \in [Category -> Seq(Nat)]
  BY DEF BucketInv
<1>3. ASSUME NEW h \in [Reporter -> Seq(Nat)], NEW g, NEW x, g = [h EXCEPT ![a] = x]
      PROVE  /\ DOMAIN g = Reporter /\ g = [b \in Reporter |-> g[b]]
             /\ \A b \in Reporter : g[b] \in {h[b], IF b = a THEN x ELSE h[b]}
  BY <1>3
<1>4. ASSUME NEW h \in [Category -> Seq(Nat)], NEW g, NEW x, g = [h EXCEPT ![c] = x]
      PROVE  /\ DOMAIN g = Category /\ g = [b \in Category |-> g[b]]
             /\ \A b \in Category : g[b] \in {h[b], IF b = c THEN x ELSE h[b]}
  BY <1>4
<1>5. ASSUME NEW x \in {Within(ipHits[a]), Append(Within(ipHits[a]), now)},
             ipHits' = [ipHits EXCEPT ![a] = x],
             filed' = filed, catHits' = catHits \/ catHits' = [catHits EXCEPT ![c] = Within(catHits[c])]
      PROVE  BucketInv'
  <2>1. /\ DOMAIN ipHits' = Reporter /\ ipHits' = [b \in Reporter |-> ipHits'[b]]
        /\ \A b \in Reporter : ipHits'[b] \in {ipHits[b], Within(ipHits[b]), Append(Within(ipHits[b]), now)}
    BY <1>2, <1>3, <1>5
  <2>2. /\ DOMAIN catHits' = Category /\ catHits' = [b \in Category |-> catHits'[b]]
        /\ \A b \in Category : catHits'[b] \in {catHits[b], Within(catHits[b]), Append(Within(catHits[b]), now)}
    BY <1>2, <1>4, <1>5
  <2> QED BY <1>1, <1>5, <2>1, <2>2, NothingFiled
<1>6. CASE ~Admits(ipHits[a], LimitPerIp)
  BY <1>5, <1>6 DEF SubmitReport
<1>7. CASE Admits(ipHits[a], LimitPerIp) /\ ~Admits(catHits[c], LimitPerCategory)
  BY <1>5, <1>7 DEF SubmitReport
<1>8. CASE Admits(ipHits[a], LimitPerIp) /\ Admits(catHits[c], LimitPerCategory)
  <2>1. Accepted(a, c)
    BY <1>8 DEF SubmitReport, Accepted
  <2> QED BY <1>1, <2>1, FormFiled
<1> QED BY <1>6, <1>7, <1>8

(* Time only shortens what a bucket has to account for.                    *)
LEMMA BucketsRest ==
  ASSUME BucketInv, now' = now \/ now' = now + 1, UNCHANGED <<filed, ipHits, catHits>>
  PROVE  BucketInv'
<1>1. now \in Nat /\ now' \in Nat /\ now <= now' /\ now' - ReportWindow >= now - ReportWindow
  BY Constants DEF BucketInv
<1>2. ASSUME NEW t \in Int, t > now' - ReportWindow PROVE t > now - ReportWindow
  BY <1>1, <1>2, Constants
<1>3. \A j \in 1..Len(filed) : filed[j].at \in Nat /\ filed[j].at <= now'
  <2> TAKE j \in 1..Len(filed)
  <2>1. filed[j].at \in Nat /\ filed[j].at <= now
    BY DEF BucketInv
  <2> QED BY <1>1, <2>1
<1>4. ReportLimits'
  BY DEF BucketInv, ReportLimits
<1> QED BY <1>1, <1>2, <1>3, <1>4 DEF BucketInv

LEMMA BucketsStart == Init => BucketInv
<1> SUFFICES ASSUME Init PROVE BucketInv
  OBVIOUS
<1>1. PICK f \in DOMAIN First : now = First[f].now
  BY DEF Init
<1>2. now \in Nat
  BY <1>1, FirstAssumption
<1>3. /\ filed = <<>> /\ ipHits = [a \in Reporter |-> <<>>] /\ catHits = [c \in Category |-> <<>>]
  BY DEF Init, NoReportsYet
<1>4. IsSequence(filed) /\ Len(filed) = 0 /\ DOMAIN filed = {} /\ 1..Len(filed) = {}
  BY <1>3 DEF IsSequence
<1>5. \A key, x, t : Cardinality(FiledOf(filed, key, x, t)) = 0
  BY <1>4, FS_EmptySet DEF FiledOf
<1>6. \A t : HitsSince(<<>>, t) = {}
  BY DEF HitsSince
<1>7. ASSUME NEW t \in Int
      PROVE  /\ \A a \in Reporter : Cardinality(HitsSince(ipHits[a], t)) = 0
             /\ \A c \in Category : Cardinality(HitsSince(catHits[c], t)) = 0
  BY <1>3, <1>6, FS_EmptySet
<1>8. ipHits \in [Reporter -> Seq(Nat)] /\ catHits \in [Category -> Seq(Nat)]
  BY <1>3
<1>9. ReportLimits
  BY <1>4 DEF ReportLimits
<1> QED BY <1>2, <1>4, <1>5, <1>7, <1>8, <1>9 DEF BucketInv

LEMMA ReportsStep ==
  ASSUME BucketInv, Next
  PROVE  BucketInv'
<1>1. ASSUME ReportsNext PROVE BucketInv'
  <2>1. ASSUME NEW a \in Reporter, CheckToken(a) \/ InsertReport(a) \/ DispatchAlert(a) \/ FilingFails(a)
        PROVE  now' = now /\ UNCHANGED <<filed, ipHits, catHits>>
    BY <2>1 DEF CheckToken, InsertReport, DispatchAlert, FilingFails, data, limiter
  <2>2. ASSUME NEW o \in Moderator, OpenQueue(o) \/ DeskSettles(o)
        PROVE  now' = now /\ UNCHANGED <<filed, ipHits, catHits>>
    BY <2>2 DEF OpenQueue, DeskSettles, data, limiter
  <2>3. ASSUME NEW o \in Moderator, NEW i, NEW status,
               HideToken(o, i) \/ UnhideToken(o, i) \/ SetReportStatus(o, i, status)
        PROVE  now' = now /\ UNCHANGED <<filed, ipHits, catHits>>
    BY <2>3 DEF HideToken, UnhideToken, SetReportStatus, data, limiter
  <2>4. ASSUME NEW o \in Moderator, NEW i, HideToken(o, i) \/ UnhideToken(o, i)
        PROVE  now' = now /\ UNCHANGED <<filed, ipHits, catHits>>
    BY <2>3, <2>4
  <2>5. \/ \E a \in Reporter, c \in Category : SubmitReport(a, c)
        \/ now' = now /\ UNCHANGED <<filed, ipHits, catHits>>
    BY <1>1, <2>1, <2>2, <2>3, <2>4 DEF ReportsNext
  <2> QED BY <2>5, SubmitStep, BucketsRest
<1>2. ASSUME ~ReportsNext
      PROVE  (now' = now \/ now' = now + 1) /\ UNCHANGED reporting
  <2>1. VotesNext => now' = now
    BY ZenonT(40) DEF VotesNext, TimerFires, CastVote, SignedOut, CheckCooldown, CountAction, WriteVote, ReadWatchlist,
           ToggleWatchlist, StatementFails, Refused, Answered, Reload, Unheard, data
  <2>2. IconsNext => now' = now
    BY Zenon DEF IconsNext, FetchIcon, RescanIcon, Republish, ScreenIcon, WriteIcon, UpsertDecision, LinkIcon,
                 WorkerStops, Reheal, OpenIcons, ApproveSelected, ClearIcon, BlockIcon, AskFails, DeleteFile, data
  <2>3. ASSUME NEW k \in Key, MemoNext(k) PROVE now' = now
    BY <2>3 DEF MemoNext, AskStale, AskMissing, Computed, ComputationFails, data
  <2>4. BrowserNext => now' = now
    BY DEF BrowserNext, SetSort, SetType, ToggleVenue, SetPage, Debounced, GoBack, Refresh, LoadAnswers,
           OnSearchInput, GridArrives, GridFails, data
  <2> QED BY <1>2, <2>1, <2>2, <2>3, <2>4, SMTT(20) DEF Next, Moderate, Tick, parts
<1>3. UNCHANGED reporting => UNCHANGED <<filed, ipHits, catHits>>
  BY DEF reporting, limiter
<1> QED BY <1>1, <1>2, <1>3, BucketsRest

(* setVote, toggleWatchlist, checkRateLimit: however many tabs, requests   *)
(* and retries of however many wallets and addresses run together, and     *)
(* whatever fails between two statements: no day of a wallet has more      *)
(* votes than the limit, two on one token are a cooldown apart, no         *)
(* watchlist is over its cap, and no address or token has more reports in  *)
(* any span of the window than its own.                                    *)
THEOREM TheLimitsHold == Spec => []SiteLimits
<1>1. Init => VoteInv /\ BucketInv
  BY VotesStart, BucketsStart
<1>2. VoteInv /\ BucketInv /\ [Next]_vars => (VoteInv /\ BucketInv)'
  <2> SUFFICES ASSUME VoteInv, BucketInv, [Next]_vars PROVE VoteInv' /\ BucketInv'
    OBVIOUS
  <2>1. CASE Next
    <3>1. VoteInv'
      <4>1. Quiet /\ now' = now + 1 /\ UNCHANGED votes => VoteInv'
        BY TickStep
      <4>2. now' = now /\ UNCHANGED votes => VoteInv'
        BY VotesRest
      <4> QED BY <2>1, <4>1, <4>2, OthersRest, VotesStep
    <3> QED BY <2>1, <3>1, ReportsStep
  <2>2. CASE UNCHANGED vars
    <3>1. now' = now /\ UNCHANGED votes /\ UNCHANGED <<filed, ipHits, catHits>>
      BY <2>2 DEF vars, parts, data, reporting, limiter
    <3>2. VoteInv'
      BY <3>1, VotesRest
    <3> QED BY <3>1, <3>2, BucketsRest
  <2> QED BY <2>1, <2>2
<1>3. VoteInv /\ BucketInv => SiteLimits
  BY VotesKeepWithin DEF SiteLimits, BucketInv
<1> QED BY <1>1, <1>2, <1>3, PTL DEF Spec

----------------------------------------------------------------------------
(* What a query shows: a list in the order of its keys is made of the rows *)
(* it orders, so that a list of visible tokens shows visible tokens only.  *)

(* Keys of one width, in the order of their columns, are a strict order,   *)
(* total where they differ.                                                *)
IsKey(a, w) == a \in Seq(Int) /\ Len(a) = w

LEMMA BeforeIsTotal ==
  ASSUME NEW w \in Nat, NEW a, NEW b, IsKey(a, w), IsKey(b, w)
  PROVE  ~Before(a, a) /\ (a # b => Before(a, b) \/ Before(b, a))
<1>1. /\ DOMAIN a = 1..w /\ DOMAIN b = 1..w
      /\ \A i \in 1..w : a[i] \in Int /\ b[i] \in Int
  BY DEF IsKey
<1>2. ~Before(a, a)
  BY <1>1 DEF Before
<1>3. ASSUME a # b PROVE Before(a, b) \/ Before(b, a)
  <2> DEFINE K == {i \in 1..w : a[i] # b[i]}
  <2>1. K # {} /\ K \in SUBSET Nat
    <3>1. \E i \in 1..w : a[i] # b[i]
      BY <1>1, <1>3 DEF IsKey
    <3> QED BY <3>1
  <2>2. PICK i \in K : \A j \in K : i <= j
    <3> HIDE DEF K
    <3> QED BY <2>1, LeastNat
  <2>3. \A j \in 1..(i - 1) : a[j] = b[j]
    BY <2>2
  <2>4. i \in 1..w /\ (a[i] < b[i] \/ b[i] < a[i])
    BY <1>1, <2>2
  <2> HIDE DEF K
  <2>5. CASE a[i] < b[i]
    BY <1>1, <2>3, <2>4, <2>5 DEF Before
  <2>6. CASE b[i] < a[i]
    BY <1>1, <2>3, <2>4, <2>6 DEF Before
  <2> QED BY <2>4, <2>5, <2>6
<1> QED BY <1>2, <1>3

LEMMA BeforeIsTransitive ==
  ASSUME NEW w \in Nat, NEW a, NEW b, NEW c, IsKey(a, w), IsKey(b, w), IsKey(c, w),
         Before(a, b), Before(b, c)
  PROVE  Before(a, c)
<1>1. /\ DOMAIN a = 1..w /\ DOMAIN b = 1..w
      /\ \A i \in 1..w : a[i] \in Int /\ b[i] \in Int /\ c[i] \in Int
  BY DEF IsKey
<1>2. PICK i \in 1..w : a[i] < b[i] /\ \A j \in 1..(i - 1) : a[j] = b[j]
  BY <1>1 DEF Before
<1>3. PICK k \in 1..w : b[k] < c[k] /\ \A j \in 1..(k - 1) : b[j] = c[j]
  BY <1>1 DEF Before
<1>4. CASE i <= k
  <2>1. a[i] < c[i]
    <3>1. CASE i = k
      BY <1>1, <1>2, <1>3, <3>1
    <3>2. CASE i # k
      <4>1. b[i] = c[i]
        BY <1>3, <1>4, <3>2
      <4> QED BY <1>2, <4>1
    <3> QED BY <3>1, <3>2
  <2>2. \A j \in 1..(i - 1) : a[j] = c[j]
    BY <1>2, <1>3, <1>4
  <2> QED BY <1>1, <2>1, <2>2 DEF Before
<1>5. CASE k < i
  <2>1. a[k] < c[k]
    BY <1>2, <1>3, <1>5
  <2>2. \A j \in 1..(k - 1) : a[j] = c[j]
    BY <1>2, <1>3, <1>5
  <2> QED BY <1>1, <2>1, <2>2 DEF Before
<1> QED BY <1>4, <1>5

(* Keys of one width that end in what they are the keys of.                *)
IsOrder(key, w) ==
  /\ IsFiniteSet(DOMAIN key) /\ w \in Nat \ {0}
  /\ \A c \in DOMAIN key : IsKey(key[c], w) /\ key[c][w] = c

(* Every place is somebody's.                                              *)
LEMMA PlacesTaken ==
  ASSUME NEW key, NEW w, IsOrder(key, w)
  PROVE  /\ \A c \in DOMAIN key : Place(c, key) \in 1..Cardinality(DOMAIN key)
         /\ \A c, d \in DOMAIN key : Place(c, key) = Place(d, key) => c = d
         /\ \A i \in 1..Cardinality(DOMAIN key) : \E c \in DOMAIN key : Place(c, key) = i
<1> DEFINE S == DOMAIN key
           Less(c) == {d \in S : Before(key[d], key[c])}
           n == Cardinality(S)
<1>1. w \in Nat /\ IsFiniteSet(S) /\ n \in Nat
  BY FS_CardinalityType DEF IsOrder
<1>2. \A c \in S : Less(c) \in SUBSET (S \ {c})
  BY BeforeIsTotal DEF IsOrder
<1>3. ASSUME NEW c \in S
      PROVE  IsFiniteSet(Less(c)) /\ Cardinality(Less(c)) \in Nat /\ Cardinality(Less(c)) <= n - 1
  <2>1. IsFiniteSet(S \ {c}) /\ Cardinality(S \ {c}) = n - 1
    BY <1>1, FS_RemoveElement
  <2>2. IsFiniteSet(Less(c)) /\ Cardinality(Less(c)) <= Cardinality(S \ {c})
    BY <1>2, <2>1, FS_Subset
  <2>3. Cardinality(Less(c)) \in Nat
    BY <2>2, FS_CardinalityType
  <2> QED BY <2>1, <2>2, <2>3
<1>4. ASSUME NEW c \in S, NEW d \in S, Before(key[c], key[d])
      PROVE  Cardinality(Less(c)) < Cardinality(Less(d))
  <2>1. Less(c) \in SUBSET Less(d)
    <3> SUFFICES ASSUME NEW e \in S, Before(key[e], key[c]) PROVE Before(key[e], key[d])
      OBVIOUS
    <3> QED BY <1>1, <1>4, BeforeIsTransitive DEF IsOrder
  <2>2. c \in Less(d) /\ c \notin Less(c)
    BY <1>2, <1>4
  <2>3. Less(c) # Less(d)
    BY <2>2
  <2>4. Cardinality(Less(c)) <= Cardinality(Less(d)) /\ Cardinality(Less(c)) # Cardinality(Less(d))
    <3> HIDE DEF Less
    <3> QED BY <1>3, <2>1, <2>3, FS_Subset
  <2> QED BY <1>3, <2>4
<1>5. \A c \in S : Place(c, key) = 1 + Cardinality(Less(c))
  BY DEF Place
<1>6. \A c \in S : Place(c, key) \in 1..n
  <2> HIDE DEF Less
  <2> QED BY <1>1, <1>3, <1>5
<1>7. ASSUME NEW c \in S, NEW d \in S, Place(c, key) = Place(d, key) PROVE c = d
  <2> SUFFICES ASSUME c # d PROVE FALSE
    OBVIOUS
  <2>1. key[c] # key[d]
    BY DEF IsOrder
  <2>2. Before(key[c], key[d]) \/ Before(key[d], key[c])
    BY <2>1, <1>1, BeforeIsTotal DEF IsOrder
  <2>3. Cardinality(Less(c)) = Cardinality(Less(d))
    <3> HIDE DEF Less
    <3> QED BY <1>3, <1>5, <1>7
  <2> HIDE DEF Less
  <2> QED BY <1>3, <1>4, <2>2, <2>3
<1>8. \A i \in 1..n : \E c \in S : Place(c, key) = i
  <2>1. PICK f : f = [c \in S |-> Place(c, key)]
    OBVIOUS
  <2>2. f \in Injection(S, 1..n)
    BY <2>1, <1>6, <1>7 DEF Injection, IsInjective
  <2>3. IsFiniteSet(1..n) /\ Cardinality(1..n) = n
    BY <1>1, FS_Interval
  <2>4. f \in Surjection(S, 1..n)
    BY <2>2, <2>3, FS_Injection
  <2> QED BY <2>1, <2>4 DEF Surjection
<1> QED BY <1>6, <1>7, <1>8

(* A list is of the rows it orders, as many as there are room for.         *)
LEMMA TopLists ==
  ASSUME NEW key, NEW w, IsOrder(key, w), NEW n \in Nat
  PROVE  /\ Top(key, n) \in Seq(DOMAIN key)
         /\ Len(Top(key, n)) = (IF Cardinality(DOMAIN key) < n THEN Cardinality(DOMAIN key) ELSE n)
         /\ \A i \in 1..Len(Top(key, n)) : Place(Top(key, n)[i], key) = i
<1>1. PICK m : m = (IF Cardinality(DOMAIN key) < n THEN Cardinality(DOMAIN key) ELSE n)
  OBVIOUS
<1>2. m \in Nat /\ m <= Cardinality(DOMAIN key) /\ Cardinality(DOMAIN key) \in Nat
  BY <1>1, FS_CardinalityType DEF IsOrder
<1>3. PICK t : t = Top(key, n)
  OBVIOUS
<1>4. t = [i \in 1..m |-> CHOOSE c \in DOMAIN key : Place(c, key) = i]
  BY <1>1, <1>3 DEF Top
<1>5. \A i \in 1..m : t[i] \in DOMAIN key /\ Place(t[i], key) = i
  <2> TAKE i \in 1..m
  <2>1. i \in 1..Cardinality(DOMAIN key)
    BY <1>2
  <2>2. \E c \in DOMAIN key : Place(c, key) = i
    BY <2>1, PlacesTaken
  <2>3. t[i] = CHOOSE c \in DOMAIN key : Place(c, key) = i
    BY <1>4
  <2> QED BY <2>2, <2>3
<1>6. t \in [1..m -> DOMAIN key]
  BY <1>4, <1>5
<1>7. t \in Seq(DOMAIN key) /\ Len(t) = m
  BY <1>2, <1>6
<1> QED BY <1>1, <1>3, <1>5, <1>7

(* A page of a list is of the rows that the list orders.                   *)
LEMMA PageLists ==
  ASSUME NEW key, NEW w, IsOrder(key, w), NEW offset \in Nat, NEW size \in Nat
  PROVE  /\ PageOf(key, offset, size) \in Seq(DOMAIN key)
         /\ offset = 0 => PageOf(key, offset, size) = Top(key, size)
<1>1. offset + size \in Nat
  OBVIOUS
<1>2. PICK t : t = Top(key, offset + size)
  OBVIOUS
<1>3. t \in Seq(DOMAIN key) /\ Len(t) \in Nat
  BY <1>1, <1>2, TopLists
<1>4. \A i \in (offset + 1)..Len(t) : t[i] \in DOMAIN key
  BY <1>3
<1>5. SubSeq(t, offset + 1, Len(t)) \in Seq(DOMAIN key)
  <2>1. offset + 1 \in Int /\ Len(t) \in Int
    BY <1>3
  <2> QED BY <1>4, <2>1, SubSeqProperties
<1>6. PageOf(key, offset, size) = SubSeq(t, offset + 1, Len(t))
  BY <1>2 DEF PageOf
<1>7. offset = 0 => SubSeq(t, offset + 1, Len(t)) = t
  BY <1>3, SubSeqFull
<1>8. offset = 0 => offset + size = size
  OBVIOUS
<1> QED BY <1>2, <1>5, <1>6, <1>7, <1>8

LEMMA ShownOf ==
  ASSUME NEW T, NEW s \in Seq(T)
  PROVE  Set(s) \subseteq T /\ ShownIn(s) \subseteq T
BY DEF Set, ShownIn

(* A column more.                                                          *)
LEMMA Extended ==
  ASSUME NEW w \in Nat, NEW s, IsKey(s, w), NEW c \in Int
  PROVE  IsKey(s \o <<c>>, w + 1) /\ (s \o <<c>>)[w + 1] = c
<1>1. <<c>> \in Seq(Int) /\ Len(<<c>>) = 1 /\ <<c>>[1] = c
  OBVIOUS
<1>2. s \in Seq(Int) /\ Len(s) = w
  BY DEF IsKey
<1>3. PICK t : t = <<c>>
  OBVIOUS
<1>4. t \in Seq(Int) /\ Len(t) = 1 /\ t[1] = c
  BY <1>1, <1>3
<1>5. PICK r : r = s \o t
  OBVIOUS
<1>6. /\ r \in Seq(Int) /\ Len(r) = Len(s) + Len(t)
      /\ \A i \in 1..(Len(s) + Len(t)) : r[i] = IF i <= Len(s) THEN s[i] ELSE t[i - Len(s)]
  BY <1>2, <1>4, <1>5, ConcatProperties
<1>7. w + 1 \in 1..(Len(s) + Len(t)) /\ ~(w + 1 <= Len(s)) /\ w + 1 - Len(s) = 1
  BY <1>2, <1>4
<1>8. r[w + 1] = t[1]
  BY <1>6, <1>7
<1> QED BY <1>2, <1>3, <1>4, <1>5, <1>6, <1>8 DEF IsKey

LEMMA Joined ==
  ASSUME NEW w \in Nat, NEW v \in Nat, NEW s, NEW t, IsKey(s, w), IsKey(t, v)
  PROVE  IsKey(s \o t, w + v)
BY ConcatProperties DEF IsKey

----------------------------------------------------------------------------
(* What the columns hold.                                                  *)

TablesTyped == now \in Int /\ rows \in [Category -> TokenRow] /\ hidden \in [Category -> Int]

LEMMA Columns ==
  ASSUME TablesTyped, NEW c \in Category
  PROVE  /\ rows[c].name.quality \in Int /\ rows[c].name.key \in Int /\ rows[c].near \in Int
         /\ rows[c].seen \in Int /\ rows[c].genesis \in Int /\ rows[c].state.supply \in Int
         /\ rows[c].state.holders \in Int /\ rows[c].state.gini \in Int /\ rows[c].cauldron.tvl \in Int
         /\ rows[c].cauldron.price \in Int /\ rows[c].fex.price \in Int
         /\ rows[c].prices \in Seq(Point) /\ rows[c].offers \in Seq(Offer)
<1>1. rows[c] \in TokenRow
  BY DEF TablesTyped
<1>2. PICK r : r = rows[c]
  OBVIOUS
<1>3. /\ r.name \in [quality : 0..3, key : Quantity] /\ r.near \in Nat /\ r.genesis \in Nat
      /\ r.seen \in Instant /\ r.cauldron \in Venue
  BY <1>1, <1>2 DEF TokenRow
<1>4. /\ r.fex \in Pools
      /\ r.state \in [verified : Instant, burned : BOOLEAN, minting : BOOLEAN, supply : Quantity,
                      holders : Quantity, gini : 0..100 \cup {Null}, nfts : Quantity]
  BY <1>1, <1>2 DEF TokenRow
<1>5. \A x \in Quantity : x \in Int
  BY DEF Quantity, Null
<1>6. \A x \in 0..100 \cup {Null} : x \in Int
  BY DEF Null
<1>7. /\ r.name.quality \in Int /\ r.name.key \in Int /\ r.near \in Int
      /\ r.seen \in Int /\ r.genesis \in Int
  BY <1>3, <1>5 DEF Instant
<1>8. /\ r.state.supply \in Int /\ r.state.holders \in Int /\ r.state.gini \in Int
      /\ r.cauldron.tvl \in Int /\ r.cauldron.price \in Int /\ r.fex.price \in Int
  <2>1. /\ r.cauldron \in [listed : BOOLEAN, price : Quantity, tvl : Quantity]
        /\ r.fex \in [listed : BOOLEAN, price : Quantity, tvl : Quantity, pools : Nat]
    BY <1>3, <1>4 DEF Venue, Pools
  <2> QED BY <1>4, <1>5, <1>6, <2>1
<1>9. rows[c].prices \in Seq(Point) /\ rows[c].offers \in Seq(Offer)
  BY <1>1 DEF TokenRow
<1> QED BY <1>7, <1>8, <1>9, <1>2

LEMMA Sizes ==
  /\ IsFiniteSet(Category) /\ Category \subseteq Int /\ IsFiniteSet(User)
  /\ PageSize \in Nat /\ TopSize \in Nat /\ SlowQuery \in Nat /\ Key \subseteq {"grid", "leaders", "movers"}
BY SiteAssumption

LEMMA FiniteParts ==
  ASSUME NEW S \in SUBSET Category
  PROVE  IsFiniteSet(S) /\ Cardinality(S) \in Nat /\ \A c \in S : c \in Int
<1>1. IsFiniteSet(Category) /\ Category \subseteq Int
  BY Sizes
<1>2. IsFiniteSet(S)
  BY <1>1, FS_Subset
<1> QED BY <1>1, <1>2, FS_CardinalityType

LEMMA Scored ==
  ASSUME NEW c, NEW way
  PROVE  HotScore(c, way) \in Int
<1> DEFINE V == Voters(c, way)
           F == [u \in V |-> Contribution(u, c)]
<1>1. V \subseteq User /\ IsFiniteSet(V)
  <2>1. IsFiniteSet(User)
    BY Sizes
  <2>2. V \subseteq User
    BY DEF Voters
  <2> HIDE DEF V
  <2> QED BY <2>1, <2>2, FS_Subset
<1>2. ASSUME NEW u PROVE Contribution(u, c) \in Int
  <2>1. PICK weight : weight = (CASE Tenure(u) = 0 -> 100 [] Tenure(u) = 1 -> 158 [] OTHER -> 200)
    OBVIOUS
  <2>2. weight \in {100, 158, 200}
    BY <2>1
  <2>3. PICK weeks : weeks = (now - ballots[<<u, c>>].at) \div Week
    OBVIOUS
  <2>4. Contribution(u, c) = IF weeks + 1 \in DOMAIN Halved THEN weight \div Halved[weeks + 1] ELSE 0
    BY <2>1, <2>3 DEF Contribution
  <2>5. \A i \in DOMAIN Halved : Halved[i] \in 1..128
    BY DEF Halved
  <2>6. \A d \in 1..128 : weight \div d \in Int
    BY <2>2
  <2> QED BY <2>4, <2>5, <2>6
<1>3. \A u \in V : F[u] \in Int
  BY <1>2
<1>4. HotScore(c, way) = SumFunctionOnSet(F, V)
  BY DEF HotScore, Total, SumFunction
<1> HIDE DEF V, F
<1> QED BY <1>1, <1>3, <1>4, SumType

LEMMA Weighed ==
  ASSUME NEW c
  PROVE  Hot(c) \in Int /\ Heat(c) \in Int /\ Contested(c) \in Int
<1>1. PICK u, d : u = HotScore(c, "up") /\ d = HotScore(c, "down") /\ u \in Int /\ d \in Int
  BY Scored
<1>2. Hot(c) = u - d /\ Heat(c) = u + d /\ Contested(c) = (IF u < d THEN u ELSE d) * Heat(c)
  BY <1>1 DEF Hot, Heat, Contested
<1>3. \A x \in Int, y \in Int : x * y \in Int
  OBVIOUS
<1>4. (IF u < d THEN u ELSE d) \in Int /\ u + d \in Int /\ u - d \in Int
  BY <1>1
<1> QED BY <1>2, <1>3, <1>4


----------------------------------------------------------------------------
(* The keys of the lists.                                                  *)

LEMMA NullsLast ==
  ASSUME NEW x \in Int
  PROVE  NullsLastDesc(x) \in Int /\ NullsLastAsc(x) \in Int
BY DEF NullsLastDesc, NullsLastAsc

LEMMA NameKey ==
  ASSUME TablesTyped, NEW c \in Category
  PROVE  IsKey(ByName(c), 2)
<1>1. PICK q, k : q = NameQuality(c) /\ k = NullsLastAsc(rows[c].name.key)
  OBVIOUS
<1>2. q \in Int /\ k \in Int
  BY <1>1, Columns, NullsLast DEF NameQuality
<1>3. ByName(c) = <<q, k>>
  BY <1>1 DEF ByName
<1> QED BY <1>2, <1>3 DEF IsKey

OneWidth(sort) == \E w \in Nat : \A c \in Category : IsKey(SortKey(sort, c), w)

LEMMA SortKeys ==
  ASSUME TablesTyped, NEW sort
  PROVE  OneWidth(sort)
<1> SUFFICES \E w \in Nat : \A c \in Category : IsKey(SortKey(sort, c), w)
  BY DEF OneWidth
<1> DEFINE Wide(w) == \A c \in Category : IsKey(SortKey(sort, c), w)
<1>1. ASSUME NEW x \in Int, NEW c \in Category
      PROVE  IsKey(<<x>> \o ByName(c), 3) /\ IsKey(ByName(c) \o <<x>>, 3)
  <2>1. IsKey(<<x>>, 1)
    BY DEF IsKey
  <2>2. IsKey(<<x>> \o ByName(c), 1 + 2) /\ IsKey(ByName(c) \o <<x>>, 2 + 1)
    BY <2>1, NameKey, Joined
  <2> QED BY <2>2
<1>2. ASSUME NEW x \in Int, NEW y \in Int, NEW c \in Category
      PROVE  IsKey(<<x, y>> \o ByName(c), 4)
  <2>1. IsKey(<<x, y>>, 2)
    BY DEF IsKey
  <2>2. IsKey(<<x, y>> \o ByName(c), 2 + 2)
    BY <2>1, NameKey, Joined
  <2> QED BY <2>2
<1>3. CASE sort = "name"
  <2>1. \A c \in Category : SortKey(sort, c) = ByName(c) \o <<rows[c].seen>>
    BY <1>3 DEF SortKey
  <2>2. Wide(3)
    BY <2>1, <1>1, Columns
  <2> QED BY <2>2
<1>4. CASE sort = "supply"
  <2>1. \A c \in Category : SortKey(sort, c) = <<NullsLastDesc(rows[c].state.supply)>> \o ByName(c)
    BY <1>4 DEF SortKey
  <2>2. Wide(3)
    BY <2>1, <1>1, Columns, NullsLast
  <2> QED BY <2>2
<1>5. CASE sort = "holders"
  <2>1. \A c \in Category : SortKey(sort, c) = <<NullsLastDesc(rows[c].state.holders)>> \o ByName(c)
    BY <1>5 DEF SortKey
  <2>2. Wide(3)
    BY <2>1, <1>1, Columns, NullsLast
  <2> QED BY <2>2
<1>6. CASE sort = "recent"
  <2>1. \A c \in Category : SortKey(sort, c) = <<-rows[c].genesis, -rows[c].seen>>
    BY <1>6 DEF SortKey
  <2>2. Wide(2)
    <3> TAKE c \in Category
    <3>1. PICK x, y : x = rows[c].genesis /\ y = rows[c].seen /\ x \in Int /\ y \in Int
      BY Columns
    <3>2. IsKey(<<-x, -y>>, 2)
      BY <3>1 DEF IsKey
    <3> QED BY <2>1, <3>1, <3>2
  <2> QED BY <2>2
<1>7. CASE sort = "oldest"
  <2>1. \A c \in Category : SortKey(sort, c) = <<rows[c].genesis, c>>
    BY <1>7 DEF SortKey
  <2>2. Wide(2)
    <3> TAKE c \in Category
    <3>1. PICK x : x = rows[c].genesis /\ x \in Int
      BY Columns
    <3>2. c \in Int
      BY FiniteParts
    <3>3. IsKey(<<x, c>>, 2)
      BY <3>1, <3>2 DEF IsKey
    <3> QED BY <2>1, <3>1, <3>3
  <2> QED BY <2>2
<1>8. \A x \in Int : -x \in Int
  OBVIOUS
<1>9. CASE sort \in {"upvoted", "downvoted", "controversial"}
  <2>1. \A c \in Category : \E x \in Int, y \in Int : SortKey(sort, c) = <<x, y>> \o ByName(c)
    <3> TAKE c \in Category
    <3>1. CASE sort = "upvoted"
      <4>1. SortKey(sort, c) = <<-Hot(c), -HotScore(c, "up")>> \o ByName(c)
        BY <3>1 DEF SortKey
      <4>2. -Hot(c) \in Int /\ -HotScore(c, "up") \in Int
        BY <1>8, Weighed, Scored
      <4> QED BY <4>1, <4>2
    <3>2. CASE sort = "downvoted"
      <4>1. SortKey(sort, c) = <<Hot(c), -HotScore(c, "down")>> \o ByName(c)
        BY <3>2 DEF SortKey
      <4>2. Hot(c) \in Int /\ -HotScore(c, "down") \in Int
        BY <1>8, Weighed, Scored
      <4> QED BY <4>1, <4>2
    <3>3. CASE sort = "controversial"
      <4>1. SortKey(sort, c) = <<-Contested(c), -Heat(c)>> \o ByName(c)
        BY <3>3 DEF SortKey
      <4>2. -Contested(c) \in Int /\ -Heat(c) \in Int
        BY <1>8, Weighed
      <4> QED BY <4>1, <4>2
    <3> QED BY <1>9, <3>1, <3>2, <3>3
  <2>2. Wide(4)
    BY <2>1, <1>2
  <2> QED BY <2>2
<1>10. CASE sort \notin {"name", "supply", "holders", "recent", "oldest", "upvoted", "downvoted", "controversial"}
  <2>1. \A c \in Category : SortKey(sort, c) = <<NullsLastDesc(rows[c].cauldron.tvl)>> \o ByName(c)
    BY <1>10 DEF SortKey
  <2>2. Wide(3)
    BY <2>1, <1>1, Columns, NullsLast
  <2> QED BY <2>2
<1>11. \/ sort = "name" \/ sort = "supply" \/ sort = "holders" \/ sort = "recent" \/ sort = "oldest"
       \/ sort \in {"upvoted", "downvoted", "controversial"}
       \/ sort \notin {"name", "supply", "holders", "recent", "oldest", "upvoted", "downvoted", "controversial"}
  BY Zenon
<1> QED BY <1>3, <1>4, <1>5, <1>6, <1>7, <1>9, <1>10, <1>11, Zenon

(* The grid, whatever it is asked for.                                     *)
GridOrdered(p, S) == \E w \in Nat : IsOrder([c \in S |-> GridKey(p, c)], w)

LEMMA GridOrders ==
  ASSUME TablesTyped, NEW p, NEW S \in SUBSET Category
  PROVE  GridOrdered(p, S)
<1> SUFFICES \E w \in Nat : IsOrder([c \in S |-> GridKey(p, c)], w)
  BY DEF GridOrdered
<1>0. OneWidth(p.sort)
  BY SortKeys
<1>1. PICK w \in Nat : \A c \in Category : IsKey(SortKey(p.sort, c), w)
  BY <1>0 DEF OneWidth
<1>2. PICK searched : searched = (p.search \in {"word", "hex"})
  OBVIOUS
<1>3. \E v \in Nat : \A c \in Category : IsKey((IF searched THEN <<-rows[c].near>> ELSE <<>>) \o SortKey(p.sort, c), v)
  <2>1. CASE searched
    <3>1. ASSUME NEW c \in Category
          PROVE  IsKey((IF searched THEN <<-rows[c].near>> ELSE <<>>) \o SortKey(p.sort, c), 1 + w)
      <4>1. PICK x : x = -rows[c].near /\ x \in Int
        BY Columns
      <4>2. IsKey(<<x>>, 1)
        BY <4>1 DEF IsKey
      <4>3. IsKey(<<x>> \o SortKey(p.sort, c), 1 + w)
        BY <4>2, <1>1, Joined
      <4> QED BY <2>1, <4>1, <4>3
    <3> QED BY <3>1
  <2>2. CASE ~searched
    <3>1. ASSUME NEW c \in Category
          PROVE  IsKey((IF searched THEN <<-rows[c].near>> ELSE <<>>) \o SortKey(p.sort, c), 0 + w)
      <4>1. IsKey(<<>>, 0)
        BY DEF IsKey
      <4>2. IsKey(<<>> \o SortKey(p.sort, c), 0 + w)
        BY <4>1, <1>1, Joined
      <4> QED BY <2>2, <4>2
    <3> QED BY <3>1
  <2> QED BY <2>1, <2>2
<1>4. PICK v \in Nat :
        \A c \in Category : IsKey((IF searched THEN <<-rows[c].near>> ELSE <<>>) \o SortKey(p.sort, c), v)
  BY <1>3
<1>5. ASSUME NEW c \in Category PROVE IsKey(GridKey(p, c), v + 1) /\ GridKey(p, c)[v + 1] = c
  <2>1. PICK s : s = (IF searched THEN <<-rows[c].near>> ELSE <<>>) \o SortKey(p.sort, c)
    OBVIOUS
  <2>2. IsKey(s, v) /\ c \in Int
    BY <1>4, <2>1, FiniteParts
  <2>3. GridKey(p, c) = s \o <<c>>
    BY <1>2, <2>1 DEF GridKey
  <2>4. IsKey(s \o <<c>>, v + 1) /\ (s \o <<c>>)[v + 1] = c
    BY <2>2, Extended
  <2> QED BY <2>3, <2>4, Zenon
<1>6. IsFiniteSet(S)
  BY FiniteParts
<1>7. PICK key : key = [c \in S |-> GridKey(p, c)]
  OBVIOUS
<1>8. DOMAIN key = S /\ \A c \in S : key[c] = GridKey(p, c)
  BY <1>7
<1>9. v + 1 \in Nat \ {0} /\ v + 1 \in Nat
  OBVIOUS
<1>10. \A c \in DOMAIN key : IsKey(key[c], v + 1) /\ key[c][v + 1] = c
  BY <1>5, <1>8
<1>11. IsOrder(key, v + 1)
  BY <1>6, <1>8, <1>9, <1>10, Zenon DEF IsOrder
<1> QED BY <1>7, <1>9, <1>11

(* Lists ordered by one column, or by two, are of what they order.         *)
Paired(key) == DOMAIN key \in SUBSET Category /\ \A c \in DOMAIN key : \E x \in Int : key[c] = <<x, c>>

Tripled(key) ==
  DOMAIN key \in SUBSET Category /\ \A c \in DOMAIN key : \E x \in Int, y \in Int : key[c] = <<x, y, c>>

LEMMA KeyedOrder ==
  ASSUME NEW key, Paired(key) \/ Tripled(key)
  PROVE  \E w \in Nat : IsOrder(key, w)
<1>1. PICK S : S = DOMAIN key
  OBVIOUS
<1>2. S \in SUBSET Category
  BY <1>1 DEF Paired, Tripled
<1>3. IsFiniteSet(S) /\ \A c \in S : c \in Int
  BY <1>2, FiniteParts
<1>4. CASE Paired(key)
  <2>1. ASSUME NEW c \in S PROVE IsKey(key[c], 2) /\ key[c][2] = c
    <3>1. PICK x \in Int : key[c] = <<x, c>>
      BY <1>1, <1>4 DEF Paired
    <3> QED BY <1>3, <3>1 DEF IsKey
  <2>2. 2 \in Nat \ {0}
    OBVIOUS
  <2>3. IsOrder(key, 2)
    BY <1>1, <1>3, <2>1, <2>2, Zenon DEF IsOrder
  <2> QED BY <2>2, <2>3
<1>5. CASE Tripled(key)
  <2>1. ASSUME NEW c \in S PROVE IsKey(key[c], 3) /\ key[c][3] = c
    <3>1. PICK x \in Int, y \in Int : key[c] = <<x, y, c>>
      BY <1>1, <1>5 DEF Tripled
    <3> QED BY <1>3, <3>1 DEF IsKey
  <2>2. 3 \in Nat \ {0}
    OBVIOUS
  <2>3. IsOrder(key, 3)
    BY <1>1, <1>3, <2>1, <2>2, Zenon DEF IsOrder
  <2> QED BY <2>2, <2>3
<1> QED BY <1>4, <1>5

LEMMA KeyedList ==
  ASSUME NEW key, Paired(key) \/ Tripled(key), NEW n \in Nat, NEW T, DOMAIN key \in SUBSET T
  PROVE  Top(key, n) \in Seq(T)
<1>1. PICK w \in Nat : IsOrder(key, w)
  BY KeyedOrder
<1>2. Top(key, n) \in Seq(DOMAIN key)
  BY <1>1, TopLists
<1>3. PICK list : list = Top(key, n)
  OBVIOUS
<1>4. Len(list) \in Nat /\ list \in [1..Len(list) -> T]
  BY <1>2, <1>3
<1> QED BY <1>3, <1>4

LEMMA Minus == ASSUME NEW x \in Int PROVE -x \in Int
OBVIOUS

(* The lists of the statistics page.                                       *)
LEMMA StatsLists ==
  ASSUME TablesTyped
  PROVE  TapswapTop \in Seq(Visible) /\ TopHoldersByCount \in Seq(Visible) /\ FirstCreated \in Seq(Visible)
<1>1. Visible \in SUBSET Category /\ TopSize \in Nat
  BY Sizes DEF Visible, Tracked
<1>2. TapswapTop \in Seq(Visible)
  <2>1. PICK S : S = {d \in Visible : OnTapswap(d)}
    OBVIOUS
  <2>2. PICK key : key = [c \in S |-> <<-Len(rows[c].offers), c>>]
    OBVIOUS
  <2>3. \A c \in S : \E x \in Int : key[c] = <<x, c>>
    <3> TAKE c \in S
    <3>1. rows[c].offers \in Seq(Offer)
      BY <1>1, <2>1, Columns
    <3>2. -Len(rows[c].offers) \in Int
      BY <3>1
    <3> QED BY <2>2, <3>2
  <2>4. S \in SUBSET Category /\ S \in SUBSET Visible /\ DOMAIN key = S
    BY <1>1, <2>1, <2>2
  <2>5. Top(key, TopSize) \in Seq(Visible)
    <3>1. Paired(key)
      BY <2>3, <2>4 DEF Paired
    <3>2. DOMAIN key \in SUBSET Visible
      BY <2>4
    <3> QED BY <1>1, <3>1, <3>2, KeyedList
  <2>6. TapswapTop = Top(key, TopSize)
    BY <2>1, <2>2 DEF TapswapTop
  <2> QED BY <2>5, <2>6
<1>3. TopHoldersByCount \in Seq(Visible)
  <2>1. PICK S : S = {d \in Visible : rows[d].state.holders > 0}
    OBVIOUS
  <2>2. PICK key : key = [c \in S |-> <<-rows[c].state.holders, c>>]
    OBVIOUS
  <2>3. \A c \in S : \E x \in Int : key[c] = <<x, c>>
    BY <1>1, <2>1, <2>2, Columns, Minus
  <2>4. S \in SUBSET Category /\ S \in SUBSET Visible /\ DOMAIN key = S
    BY <1>1, <2>1, <2>2
  <2>5. Top(key, TopSize) \in Seq(Visible)
    <3>1. Paired(key)
      BY <2>3, <2>4 DEF Paired
    <3>2. DOMAIN key \in SUBSET Visible
      BY <2>4
    <3> QED BY <1>1, <3>1, <3>2, KeyedList
  <2>6. TopHoldersByCount = Top(key, TopSize)
    BY <2>1, <2>2 DEF TopHoldersByCount
  <2> QED BY <2>5, <2>6
<1>4. FirstCreated \in Seq(Visible)
  <2>1. PICK S : S = Visible
    OBVIOUS
  <2>2. PICK key : key = [c \in S |-> <<rows[c].genesis, c>>]
    OBVIOUS
  <2>3. \A c \in S : \E x \in Int : key[c] = <<x, c>>
    BY <1>1, <2>1, <2>2, Columns
  <2>4. Top(key, TopSize) \in Seq(Visible)
    <3>1. S \in SUBSET Category /\ DOMAIN key = S
      BY <1>1, <2>1, <2>2
    <3>2. Paired(key)
      BY <2>3, <3>1 DEF Paired
    <3> QED BY <1>1, <2>1, <3>1, <3>2, KeyedList
  <2>5. FirstCreated = Top(key, TopSize)
    BY <2>1, <2>2 DEF FirstCreated
  <2> QED BY <2>1, <2>4, <2>5
<1> QED BY <1>2, <1>3, <1>4

(* The leaderboards: every list is of tokens that are visible.             *)
LEMMA Leaders ==
  ASSUME TablesTyped
  PROVE  /\ GetVoteLeaderboards.mostUpvoted \in Seq(Visible)
         /\ GetVoteLeaderboards.mostDownvoted \in Seq(Visible)
<1>1. Visible \in SUBSET Category /\ TopSize \in Nat
  BY Sizes DEF Visible, Tracked
<1>2. GetVoteLeaderboards.mostUpvoted \in Seq(Visible)
  <2>1. PICK S : S = {c \in Visible : Voters(c, "up") # {}}
    OBVIOUS
  <2>2. PICK key : key = [c \in S |-> <<-Hot(c), -HotScore(c, "up"), c>>]
    OBVIOUS
  <2>3. \A c \in S : \E x \in Int, y \in Int : key[c] = <<x, y, c>>
    <3> TAKE c \in S
    <3>1. -Hot(c) \in Int /\ -HotScore(c, "up") \in Int
      BY Weighed, Scored, Minus
    <3> QED BY <2>2, <3>1
  <2>4. S \in SUBSET Category /\ S \in SUBSET Visible /\ DOMAIN key = S
    BY <1>1, <2>1, <2>2
  <2>5. Top(key, TopSize) \in Seq(Visible)
    <3>1. Tripled(key)
      BY <2>3, <2>4 DEF Tripled
    <3>2. DOMAIN key \in SUBSET Visible
      BY <2>4
    <3> QED BY <1>1, <3>1, <3>2, KeyedList
  <2>6. GetVoteLeaderboards.mostUpvoted = Top(key, TopSize)
    BY <2>1, <2>2 DEF GetVoteLeaderboards
  <2> QED BY <2>5, <2>6
<1>3. GetVoteLeaderboards.mostDownvoted \in Seq(Visible)
  <2>1. PICK S : S = {c \in Visible : Voters(c, "down") # {}}
    OBVIOUS
  <2>2. PICK key : key = [c \in S |-> <<Hot(c), -HotScore(c, "down"), c>>]
    OBVIOUS
  <2>3. \A c \in S : \E x \in Int, y \in Int : key[c] = <<x, y, c>>
    <3> TAKE c \in S
    <3>1. Hot(c) \in Int /\ -HotScore(c, "down") \in Int
      BY Weighed, Scored, Minus
    <3> QED BY <2>2, <3>1
  <2>4. S \in SUBSET Category /\ S \in SUBSET Visible /\ DOMAIN key = S
    BY <1>1, <2>1, <2>2
  <2>5. Top(key, TopSize) \in Seq(Visible)
    <3>1. Tripled(key)
      BY <2>3, <2>4 DEF Tripled
    <3>2. DOMAIN key \in SUBSET Visible
      BY <2>4
    <3> QED BY <1>1, <3>1, <3>2, KeyedList
  <2>6. GetVoteLeaderboards.mostDownvoted = Top(key, TopSize)
    BY <2>1, <2>2 DEF GetVoteLeaderboards
  <2> QED BY <2>5, <2>6
<1> QED BY <1>2, <1>3

(* The last of some points.                                                *)
LEMMA LastOne ==
  ASSUME NEW n \in Nat, NEW K \in SUBSET (1..n), K # {}
  PROVE  \E k \in K : \A j \in K : j <= k
<1> DEFINE M == {n - k : k \in K}
<1>1. M \in SUBSET Nat /\ M # {}
  <2>1. \A k \in K : k \in Int /\ 1 <= k /\ k <= n
    OBVIOUS
  <2>2. \A k \in K : n - k \in Nat
    BY <2>1
  <2> QED BY <2>2
<1>2. PICK m \in M : \A j \in M : m <= j
  <2> HIDE DEF M
  <2> QED BY <1>1, LeastNat
<1>3. PICK k \in K : m = n - k
  OBVIOUS
<1>4. \A j \in K : n - k <= n - j
  BY <1>2, <1>3
<1>5. k \in Int /\ \A j \in K : j \in Int
  <2>1. \A j \in 1..n : j \in Int
    OBVIOUS
  <2> QED BY <2>1
<1>6. \A j \in K : j <= k
  BY <1>4, <1>5
<1> QED BY <1>6


(* The movers.                                                             *)
LEMMA PercentType ==
  ASSUME NEW new \in Int, NEW old \in Nat
  PROVE  Pct(new, old) \in Int
<1>1. CASE new = Null \/ old \in {Null, 0}
  BY <1>1 DEF Pct, NoPct
<1>2. CASE ~(new = Null \/ old \in {Null, 0})
  <2>1. Pct(new, old) = ((new - old) * 100) \div old
    BY <1>2 DEF Pct
  <2>2. old \in Nat \ {0} /\ (new - old) * 100 \in Int
    BY <1>2
  <2>3. \A x \in Int, y \in Nat \ {0} : x \div y \in Int
    OBVIOUS
  <2> QED BY <2>1, <2>2, <2>3
<1> QED BY <1>1, <1>2

LEMMA NewestType ==
  ASSUME TablesTyped, NEW c \in Category, NEW S \in SUBSET (DOMAIN rows[c].prices), S # {},
         Newest(c, S).price > 0
  PROVE  Newest(c, S).price \in Nat
<1>1. PICK p : p = rows[c].prices
  OBVIOUS
<1>2. p \in Seq(Point) /\ Len(p) \in Nat
  BY <1>1, Columns
<1>3. S \in SUBSET (1..Len(p))
  BY <1>1, <1>2
<1>4. \E i \in S : \A j \in S : j <= i
  BY <1>2, <1>3, LastOne
<1>5. PICK i : i = CHOOSE k \in S : \A j \in S : j <= k
  OBVIOUS
<1>6. i \in S
  BY <1>4, <1>5
<1>7. p[i] \in Point
  BY <1>2, <1>3, <1>6
<1>8. Newest(c, S) = p[i]
  BY <1>1, <1>5 DEF Newest
<1>9. p[i].price \in Int
  BY <1>7 DEF Point, Quantity, Null
<1> QED BY <1>8, <1>9

LEMMA MoversType ==
  ASSUME TablesTyped, NEW c \in Movers
  PROVE  c \in Visible /\ PricePct(c) \in Int
<1>1. /\ c \in Visible /\ c \in Category
      /\ OldPoints(c) # {} /\ NewPoints(c) # {}
      /\ Newest(c, OldPoints(c)).price > 0 /\ Newest(c, NewPoints(c)).price > 0
  BY DEF Movers, Visible, Tracked
<1>2. OldPoints(c) \in SUBSET (DOMAIN rows[c].prices) /\ NewPoints(c) \in SUBSET (DOMAIN rows[c].prices)
  BY DEF OldPoints, NewPoints
<1>3. PICK old, new : old = Newest(c, OldPoints(c)).price /\ new = Newest(c, NewPoints(c)).price
  OBVIOUS
<1>4. old \in Nat /\ new \in Nat
  BY <1>1, <1>2, <1>3, NewestType
<1>5. PricePct(c) = Pct(new, old)
  BY <1>3 DEF PricePct
<1> QED BY <1>1, <1>4, <1>5, PercentType

LEMMA MoverLists ==
  ASSUME TablesTyped
  PROVE  GetMovers24h.topGainers \in Seq(Visible) /\ GetMovers24h.topLosers \in Seq(Visible)
<1>1. Visible \in SUBSET Category /\ TopSize \in Nat /\ Movers \in SUBSET Visible
  BY Sizes DEF Visible, Tracked, Movers
<1>2. GetMovers24h.topGainers \in Seq(Visible)
  <2>1. PICK S : S = {d \in Movers : PricePct(d) > 0}
    OBVIOUS
  <2>2. PICK key : key = [c \in S |-> <<-PricePct(c), c>>]
    OBVIOUS
  <2>3. \A c \in S : \E x \in Int : key[c] = <<x, c>>
    BY <2>1, <2>2, MoversType, Minus
  <2>4. S \in SUBSET Category /\ S \in SUBSET Visible /\ DOMAIN key = S
    BY <1>1, <2>1, <2>2
  <2>5. Top(key, TopSize) \in Seq(Visible)
    <3>1. Paired(key)
      BY <2>3, <2>4 DEF Paired
    <3>2. DOMAIN key \in SUBSET Visible
      BY <2>4
    <3> QED BY <1>1, <3>1, <3>2, KeyedList
  <2>6. GetMovers24h.topGainers = Top(key, TopSize)
    BY <2>1, <2>2 DEF GetMovers24h
  <2> QED BY <2>5, <2>6
<1>3. GetMovers24h.topLosers \in Seq(Visible)
  <2>1. PICK S : S = {d \in Movers : PricePct(d) < 0}
    OBVIOUS
  <2>2. PICK key : key = [c \in S |-> <<PricePct(c), c>>]
    OBVIOUS
  <2>3. \A c \in S : \E x \in Int : key[c] = <<x, c>>
    BY <2>1, <2>2, MoversType
  <2>4. S \in SUBSET Category /\ S \in SUBSET Visible /\ DOMAIN key = S
    BY <1>1, <2>1, <2>2
  <2>5. Top(key, TopSize) \in Seq(Visible)
    <3>1. Paired(key)
      BY <2>3, <2>4 DEF Paired
    <3>2. DOMAIN key \in SUBSET Visible
      BY <2>4
    <3> QED BY <1>1, <3>1, <3>2, KeyedList
  <2>6. GetMovers24h.topLosers = Top(key, TopSize)
    BY <2>1, <2>2 DEF GetMovers24h
  <2> QED BY <2>5, <2>6
<1> QED BY <1>2, <1>3

(* The prices of a token on the venues it can be bought on.                *)
LEMMA VenuePricesType ==
  ASSUME TablesTyped, NEW c \in Category
  PROVE  /\ DOMAIN VenuePrices(c) \in SUBSET Venues
         /\ \A v \in DOMAIN VenuePrices(c) : VenuePrices(c)[v] \in Nat \ {0}
<1>1. PICK D : D = {w \in Venues : CASE w = "tapswap" -> PlainAsks(c) # {}
                                     [] w = "fex" -> Priced(rows[c].fex) /\ rows[c].fex.price > 0
                                     [] OTHER -> Priced(rows[c].cauldron) /\ rows[c].cauldron.price > 0}
  OBVIOUS
<1>2. VenuePrices(c) = [v \in D |-> CASE v = "tapswap" -> Lowest(PlainAsks(c))
                                      [] v = "fex" -> rows[c].fex.price
                                      [] OTHER -> rows[c].cauldron.price]
  BY <1>1 DEF VenuePrices
<1>3. PlainAsks(c) \in SUBSET (Nat \ {0})
  <2>1. PICK o : o = rows[c].offers /\ o \in Seq(Offer)
    BY Columns
  <2>2. \A i \in DOMAIN o : o[i] \in Offer
    BY <2>1
  <2>3. \A i \in DOMAIN o : o[i].plain => o[i].ask \in Nat \ {0}
    BY <2>2 DEF Offer
  <2> QED BY <2>1, <2>3 DEF PlainAsks
<1>4. PlainAsks(c) # {} => Lowest(PlainAsks(c)) \in Nat \ {0}
  <2> SUFFICES ASSUME PlainAsks(c) # {} PROVE Lowest(PlainAsks(c)) \in Nat \ {0}
    OBVIOUS
  <2>1. PICK S : S = PlainAsks(c)
    OBVIOUS
  <2>2. S \in SUBSET Nat /\ S # {} /\ S \in SUBSET (Nat \ {0})
    BY <1>3, <2>1
  <2>3. \E x \in S : \A y \in S : x <= y
    BY <2>2, LeastNat
  <2>4. Lowest(S) \in S
    BY <2>3 DEF Lowest
  <2> QED BY <2>1, <2>2, <2>4
<1>5. rows[c].fex.price \in Int /\ rows[c].cauldron.price \in Int
  BY Columns
<1>6. D \in SUBSET Venues
  BY <1>1
<1>7. ASSUME NEW v \in D PROVE VenuePrices(c)[v] \in Nat \ {0}
  <2>1. CASE v = "tapswap"
    <3>1. PlainAsks(c) # {}
      BY <1>1, <2>1
    <3> QED BY <1>2, <1>4, <2>1, <3>1
  <2>2. CASE v = "fex"
    <3>1. rows[c].fex.price > 0
      BY <1>1, <2>2
    <3> QED BY <1>2, <1>5, <2>2, <3>1
  <2>3. CASE v # "tapswap" /\ v # "fex"
    <3>1. rows[c].cauldron.price > 0
      BY <1>1, <2>3
    <3> QED BY <1>2, <1>5, <2>3, <3>1
  <2> QED BY <2>1, <2>2, <2>3
<1> QED BY <1>2, <1>6, <1>7

LEMMA DearestOf ==
  ASSUME NEW D \in SUBSET Venues, D # {}, NEW p, \A v \in D : p[v] \in Int
  PROVE  \E v \in D : \A w \in D : p[v] >= p[w]
<1> SUFFICES ASSUME \A v \in D : \E w \in D : p[w] > p[v] PROVE FALSE
  OBVIOUS
<1>1. PICK a \in D : TRUE
  OBVIOUS
<1>2. PICK b \in D : p[b] > p[a]
  OBVIOUS
<1>3. PICK d \in D : p[d] > p[b]
  OBVIOUS
<1>4. PICK e \in D : p[e] > p[d]
  OBVIOUS
<1>5. a # b /\ a # d /\ a # e /\ b # d /\ b # e /\ d # e
  BY <1>2, <1>3, <1>4
<1> QED BY <1>5 DEF Venues

LEMMA CheapestOf ==
  ASSUME NEW D \in SUBSET Venues, D # {}, NEW p, \A v \in D : p[v] \in Int
  PROVE  \E v \in D : \A w \in D : p[v] <= p[w]
<1> SUFFICES ASSUME \A v \in D : \E w \in D : p[w] < p[v] PROVE FALSE
  OBVIOUS
<1>1. PICK a \in D : TRUE
  OBVIOUS
<1>2. PICK b \in D : p[b] < p[a]
  OBVIOUS
<1>3. PICK d \in D : p[d] < p[b]
  OBVIOUS
<1>4. PICK e \in D : p[e] < p[d]
  OBVIOUS
<1>5. a # b /\ a # d /\ a # e /\ b # d /\ b # e /\ d # e
  BY <1>2, <1>3, <1>4
<1> QED BY <1>5 DEF Venues

LEMMA SpreadType ==
  ASSUME TablesTyped, NEW c \in Traded
  PROVE  c \in Visible /\ Spread(c).raw \in Int
<1>1. c \in Visible /\ c \in Category /\ Cardinality(DOMAIN VenuePrices(c)) >= 2
  BY DEF Traded, Visible, Tracked
<1>2. PICK p, D : p = VenuePrices(c) /\ D = DOMAIN p
  OBVIOUS
<1>3. D \in SUBSET Venues /\ \A v \in D : p[v] \in Nat \ {0}
  BY <1>1, <1>2, VenuePricesType
<1>4. D # {} /\ \A v \in D : D # {v}
  <2>1. Cardinality(D) >= 2
    BY <1>1, <1>2
  <2>2. Cardinality({}) = 0 /\ \A v : Cardinality({v}) = 1
    BY FS_EmptySet, FS_Singleton
  <2> QED BY <2>1, <2>2
<1>5. PICK low : low = CHOOSE v \in D : \A w \in D : p[v] <= p[w]
  OBVIOUS
<1>6. low \in D
  <2>1. \E v \in D : \A w \in D : p[v] <= p[w]
    <3>1. \A v \in D : p[v] \in Int
      BY <1>3
    <3> QED BY <1>3, <1>4, <3>1, CheapestOf
  <2> QED BY <1>5, <2>1
<1>7. PICK E : E = D \ {low}
  OBVIOUS
<1>8. PICK high : high = CHOOSE v \in E : \A w \in E : p[v] >= p[w]
  OBVIOUS
<1>9. high \in D
  <2>1. E \in SUBSET Venues /\ E # {} /\ \A v \in E : p[v] \in Int
    BY <1>3, <1>4, <1>6, <1>7
  <2>2. \E v \in E : \A w \in E : p[v] >= p[w]
    BY <2>1, DearestOf
  <2>3. high \in E
    BY <1>8, <2>2
  <2> QED BY <1>7, <2>3
<1>10. Spread(c).raw = ((p[high] - p[low]) * 1000) \div p[low]
  BY <1>2, <1>5, <1>7, <1>8 DEF Spread
<1>11. \A x \in Int, y \in Nat \ {0} : x \div y \in Int
  OBVIOUS
<1>12. p[low] \in Nat \ {0} /\ (p[high] - p[low]) * 1000 \in Int
  BY <1>3, <1>6, <1>9
<1> QED BY <1>1, <1>10, <1>11, <1>12


----------------------------------------------------------------------------
(* Whatever a page or an endpoint without a memo shows is visible.         *)

LEMMA WholeGridShows ==
  ASSUME TablesTyped, NEW sort
  PROVE  WholeGrid(sort) \in Seq(Visible)
<1>1. PICK S, p, n : S = Visible /\ p = [Defaults EXCEPT !.sort = sort] /\ n = Cardinality(Category)
  OBVIOUS
<1>2. S \in SUBSET Category /\ n \in Nat
  BY <1>1, FS_CardinalityType, Sizes DEF Visible, Tracked
<1>0. GridOrdered(p, S)
  BY <1>2, GridOrders
<1>3. PICK w \in Nat : IsOrder([c \in S |-> GridKey(p, c)], w)
  BY <1>0 DEF GridOrdered
<1>4. PICK key : key = [c \in S |-> GridKey(p, c)]
  OBVIOUS
<1>5. DOMAIN key = S /\ IsOrder(key, w)
  BY <1>3, <1>4
<1>6. PageOf(key, 0, n) \in Seq(DOMAIN key)
  BY <1>2, <1>5, PageLists
<1>7. WholeGrid(sort) = PageOf(key, 0, n)
  BY <1>1, <1>4 DEF WholeGrid
<1> QED BY <1>1, <1>5, <1>6, <1>7

LEMMA ApiOrder ==
  ASSUME TablesTyped, NEW p, p.sort = "name", NEW key,
         key = [c \in ApiMatching(p) |-> ApiSortKey(p.sort, c) \o <<c>>]
  PROVE  IsOrder(key, 3)
<1>1. PICK S : S = ApiMatching(p)
  OBVIOUS
<1>2. S \in SUBSET Category
  BY <1>1 DEF ApiMatching, Visible, Tracked
<1>3. ASSUME NEW c \in S PROVE IsKey(key[c], 3) /\ key[c][3] = c
  <2>1. PICK x, y : x = NullsLastAsc(rows[c].name.key) /\ y = rows[c].seen
    OBVIOUS
  <2>2. x \in Int /\ y \in Int /\ c \in Int
    <3>1. c \in Category
      BY <1>2
    <3>2. x \in Int /\ y \in Int
      BY <2>1, <3>1, Columns, NullsLast
    <3>3. c \in Int
      BY <1>2, FiniteParts
    <3> QED BY <3>2, <3>3
  <2>3. PICK s : s = ApiSortKey(p.sort, c)
    OBVIOUS
  <2>4. s = <<x, y>>
    BY <2>1, <2>3 DEF ApiSortKey
  <2>5. IsKey(s, 2)
    BY <2>2, <2>4 DEF IsKey
  <2>6. IsKey(s \o <<c>>, 3) /\ (s \o <<c>>)[3] = c
    <3>1. IsKey(s \o <<c>>, 2 + 1) /\ (s \o <<c>>)[2 + 1] = c
      BY <2>2, <2>5, Extended
    <3>2. 2 + 1 = 3
      OBVIOUS
    <3> QED BY <3>1, <3>2
  <2>7. key[c] = s \o <<c>>
    BY <1>1, <2>3
  <2> QED BY <2>6, <2>7
<1>4. IsFiniteSet(S) /\ DOMAIN key = S /\ 3 \in Nat \ {0}
  BY <1>1, <1>2, FiniteParts
<1> QED BY <1>3, <1>4, Zenon DEF IsOrder

LEMMA ApiShows ==
  ASSUME TablesTyped, NEW limit \in Nat
  PROVE  ApiTokens([ApiDefaults EXCEPT !.limit = limit]).tokens \in Seq(Visible)
<1>1. PICK p : p = [ApiDefaults EXCEPT !.limit = limit]
  OBVIOUS
<1>2. p.sort = "name" /\ p.offset = 0 /\ p.limit = limit
  BY <1>1 DEF ApiDefaults
<1>3. PICK key : key = [c \in ApiMatching(p) |-> ApiSortKey(p.sort, c) \o <<c>>]
  OBVIOUS
<1>4. DOMAIN key \in SUBSET Visible
  BY <1>3 DEF ApiMatching
<1>5. IsOrder(key, 3)
  BY <1>2, <1>3, ApiOrder
<1>6. PICK list : list = PageOf(key, 0, limit)
  OBVIOUS
<1>7. list \in Seq(DOMAIN key)
  BY <1>5, <1>6, PageLists
<1>8. ApiTokens(p).tokens = list
  BY <1>2, <1>3, <1>6 DEF ApiTokens
<1>9. Len(list) \in Nat /\ list \in [1..Len(list) -> DOMAIN key]
  BY <1>7
<1>10. list \in [1..Len(list) -> Visible]
  BY <1>4, <1>9
<1>11. list \in Seq(Visible)
  BY <1>9, <1>10
<1> QED BY <1>1, <1>8, <1>11

LEMMA SearchShows ==
  ASSUME TablesTyped, NEW q \in {"word", "id"}
  PROVE  SearchTokens(q) \in Seq(Visible)
<1>1. PICK S : S = (CASE q = "id" -> Visible \cap {SearchedId}
                      [] q \in {"word", "hex"} -> {c \in Visible : rows[c].words \cap {"name", "symbol"} # {}}
                      [] OTHER -> {})
  OBVIOUS
<1>2. S \in SUBSET Visible /\ S \in SUBSET Category /\ TopSize \in Nat
  <2>1. Visible \in SUBSET Category /\ TopSize \in Nat
    BY Sizes DEF Visible, Tracked
  <2> QED BY <1>1, <2>1
<1>3. PICK key : key = [c \in S |-> <<NullsLastDesc(rows[c].state.holders), NullsLastAsc(rows[c].name.key), c>>]
  OBVIOUS
<1>4. \A c \in S : \E x \in Int, y \in Int : key[c] = <<x, y, c>>
  <2> TAKE c \in S
  <2>1. NullsLastDesc(rows[c].state.holders) \in Int /\ NullsLastAsc(rows[c].name.key) \in Int
    BY <1>2, Columns, NullsLast
  <2> QED BY <1>3, <2>1
<1>5. DOMAIN key = S
  BY <1>3
<1>6. Tripled(key) /\ DOMAIN key \in SUBSET Visible
  BY <1>2, <1>4, <1>5 DEF Tripled
<1>7. Top(key, TopSize) \in Seq(Visible)
  BY <1>2, <1>6, KeyedList
<1>8. SearchTokens(q) = Top(key, TopSize)
  BY <1>1, <1>3 DEF SearchTokens
<1> QED BY <1>7, <1>8

LEMMA ArbitrageShows ==
  ASSUME TablesTyped, NEW min
  PROVE  LoadArbitrage(min).rows \in Seq(Visible)
<1>1. PICK S : S = {c \in Traded : Spread(c).raw >= MinSpread(min)}
  OBVIOUS
<1>2. S \in SUBSET Visible /\ S \in SUBSET Category
  BY <1>1 DEF Traded, Visible, Tracked
<1>3. PICK n : n = Cardinality(S)
  OBVIOUS
<1>4. n \in Nat
  BY <1>2, <1>3, FiniteParts
<1>5. PICK key : key = [c \in S |-> <<-Spread(c).raw, c>>]
  OBVIOUS
<1>6. \A c \in S : \E x \in Int : key[c] = <<x, c>>
  <2> TAKE c \in S
  <2>1. Spread(c).raw \in Int
    BY <1>1, SpreadType
  <2>2. -Spread(c).raw \in Int
    BY <2>1, Minus
  <2> QED BY <1>5, <2>2
<1>7. DOMAIN key = S
  BY <1>5
<1>8. Paired(key) /\ DOMAIN key \in SUBSET Visible
  BY <1>2, <1>6, <1>7 DEF Paired
<1>9. Top(key, n) \in Seq(Visible)
  BY <1>4, <1>8, KeyedList
<1>10. LoadArbitrage(min).rows = Top(key, n)
  BY <1>1, <1>3, <1>5 DEF LoadArbitrage
<1> QED BY <1>9, <1>10

LEMMA PageIsOf ==
  ASSUME NEW c, LoadToken(c, "week", {}).status = 200
  PROVE  c \in Visible
<1>1. PageStatus(c) = 200
  BY DEF LoadToken
<1> QED BY <1>1 DEF PageStatus, Visible

LEMMA ShownIsVisible ==
  ASSUME TablesTyped
  PROVE  ShownNow \subseteq Visible
<1>1. PICK s, n : s = LoadStats({}) /\ n = Cardinality(Category) + 1
  OBVIOUS
<1>2. n \in Nat
  BY <1>1, FS_CardinalityType, Sizes
<1>3. s.tapswapTop = TapswapTop /\ s.topHolders = TopHoldersByCount /\ s.firstCreated = FirstCreated
  BY <1>1 DEF LoadStats
<1>4. /\ Set(s.tapswapTop) \subseteq Visible /\ Set(s.topHolders) \subseteq Visible
      /\ Set(s.firstCreated) \subseteq Visible
  BY <1>3, StatsLists, ShownOf
<1>5. Set(WholeGrid("name")) \subseteq Visible
  BY WholeGridShows, ShownOf
<1>6. Set(ApiTokens([ApiDefaults EXCEPT !.limit = n]).tokens) \subseteq Visible
  <2>1. PICK list : list = ApiTokens([ApiDefaults EXCEPT !.limit = n]).tokens
    OBVIOUS
  <2>2. list \in Seq(Visible)
    BY <1>2, <2>1, ApiShows
  <2> QED BY <2>1, <2>2, ShownOf
<1>7. Set(SearchTokens("word")) \subseteq Visible /\ Set(SearchTokens("id")) \subseteq Visible
  BY SearchShows, ShownOf
<1>8. Set(LoadArbitrage(Null).rows) \subseteq Visible
  <2>1. PICK list : list = LoadArbitrage(Null).rows
    OBVIOUS
  <2>2. list \in Seq(Visible)
    BY <2>1, ArbitrageShows
  <2> QED BY <2>1, <2>2, ShownOf
<1>9. UNION {{r.id : r \in LoadWatchlist(u)} : u \in User} \subseteq Visible
  <2>1. \A c : WatchlistRow(c).id = c
    BY DEF WatchlistRow
  <2>2. \A u : \A r \in LoadWatchlist(u) : r.id \in Visible
    BY <2>1 DEF LoadWatchlist
  <2> QED BY <2>2
<1>10. {c \in Category : LoadToken(c, "week", {}).status = 200} \subseteq Visible
  BY PageIsOf
<1>11. PICK a, b, d, e, f, g, h, i, j, k :
         /\ a = Set(WholeGrid("name")) /\ b = Set(ApiTokens([ApiDefaults EXCEPT !.limit = n]).tokens)
         /\ d = Set(SearchTokens("word")) /\ e = Set(SearchTokens("id")) /\ f = Set(LoadArbitrage(Null).rows)
         /\ g = Set(s.tapswapTop) /\ h = Set(s.topHolders) /\ i = Set(s.firstCreated)
         /\ j = UNION {{r.id : r \in LoadWatchlist(u)} : u \in User}
         /\ k = {c \in Category : LoadToken(c, "week", {}).status = 200}
  OBVIOUS
<1>12. ShownNow = UNION {a, b, d, e, f, g, h, i, j, k}
  BY <1>1, <1>11, Zenon DEF ShownNow
<1>13. /\ a \subseteq Visible /\ b \subseteq Visible /\ d \subseteq Visible /\ e \subseteq Visible
       /\ f \subseteq Visible /\ g \subseteq Visible /\ h \subseteq Visible /\ i \subseteq Visible
       /\ j \subseteq Visible /\ k \subseteq Visible
  BY <1>4, <1>5, <1>6, <1>7, <1>8, <1>9, <1>10, <1>11, Zenon
<1> QED BY <1>12, <1>13

----------------------------------------------------------------------------
(* A memoised list is computed from the tables as they are, so it shows    *)
(* nothing that was hidden before its computation began; the computation   *)
(* is over within SlowQuery, and the entry counts from its end.            *)

HidTimes ==
  /\ now \in Nat /\ TablesTyped
  /\ \A c \in Category : hidden[c] = Never \/ (hidden[c] \in Nat /\ hidden[c] <= now)

Entry(k) ==
  /\ store[k].hard \in Int /\ store[k].hard <= now + FreshFor[k] + StaleFor[k] /\ store[k].value \subseteq Category
  /\ \A c \in store[k].value :
       hidden[c] # Never => store[k].hard - hidden[c] <= FreshFor[k] + StaleFor[k] + SlowQuery

Run(k) ==
  inflight[k] # NotRunning =>
    /\ inflight[k].at \in 0..now /\ now - inflight[k].at <= SlowQuery
    /\ inflight[k].value \subseteq Category
    /\ \A c \in inflight[k].value : hidden[c] # Never => hidden[c] >= inflight[k].at

MemoInv ==
  /\ HidTimes
  /\ store = [k \in Key |-> store[k]] /\ inflight = [k \in Key |-> inflight[k]]
  /\ \A k \in Key : DOMAIN store[k] = {"value", "soft", "hard", "refreshing"} /\ Entry(k) /\ Run(k)

LEMMA MemoLimits == FreshFor \in [Key -> Nat] /\ StaleFor \in [Key -> Nat] /\ SlowQuery \in Nat
BY SiteAssumption

(* What a computation finds is visible when it begins.                     *)
LEMMA ComputeShows ==
  ASSUME TablesTyped, NEW k \in Key
  PROVE  Compute(k) \subseteq Visible
<1>1. k \in {"grid", "leaders", "movers"}
  BY Sizes
<1>2. CASE k = "grid"
  <2>1. PICK list : list = TokenGridData(Defaults).tokens
    OBVIOUS
  <2>2. list \in Seq(Visible)
    <3>1. PICK p, S : p = Parameters(Defaults) /\ S = Matching(p)
      OBVIOUS
    <3>2. p.offset = 0
      BY <3>1 DEF Parameters, Defaults, Larger
    <3>3. S \in SUBSET Visible /\ S \in SUBSET Category /\ PageSize \in Nat
      BY <3>1, Sizes DEF Matching, Visible, Tracked
    <3>4. GridOrdered(p, S)
      BY <3>3, GridOrders
    <3>5. PICK key : key = [c \in S |-> GridKey(p, c)]
      OBVIOUS
    <3>6. PICK w \in Nat : IsOrder(key, w)
      BY <3>4, <3>5 DEF GridOrdered
    <3>7. PageOf(key, 0, PageSize) \in Seq(DOMAIN key)
      BY <3>3, <3>6, PageLists
    <3>8. PICK page : page = PageOf(key, 0, PageSize)
      OBVIOUS
    <3>9. page \in Seq(S)
      BY <3>5, <3>7, <3>8
    <3>10. Len(page) \in Nat /\ page \in [1..Len(page) -> S]
      BY <3>9
    <3>11. page \in [1..Len(page) -> Visible]
      BY <3>3, <3>10
    <3>12. page \in Seq(Visible)
      BY <3>10, <3>11
    <3>13. CASE SortTables(p.sort) \subseteq TopTables
      <4>1. TokenGridData(Defaults) = ComputeGrid(p)
        BY <3>1, <3>13 DEF TokenGridData
      <4>2. ComputeGrid(p).tokens = page
        BY <3>1, <3>2, <3>5, <3>8 DEF ComputeGrid
      <4> QED BY <2>1, <3>12, <4>1, <4>2
    <3>14. CASE ~(SortTables(p.sort) \subseteq TopTables)
      <4>1. TokenGridData(Defaults) = GridError
        BY <3>1, <3>14 DEF TokenGridData
      <4>2. GridError.tokens = <<>>
        BY DEF GridError
      <4>3. <<>> \in Seq(Visible)
        OBVIOUS
      <4> QED BY <2>1, <4>1, <4>2, <4>3
    <3> QED BY <3>13, <3>14
  <2>3. Compute(k) = ShownIn(list)
    BY <1>2, <2>1 DEF Compute
  <2> QED BY <2>2, <2>3, ShownOf
<1>3. CASE k = "leaders"
  <2>1. PICK up, down : up = GetVoteLeaderboards.mostUpvoted /\ down = GetVoteLeaderboards.mostDownvoted
    OBVIOUS
  <2>2. up \in Seq(Visible) /\ down \in Seq(Visible)
    BY <2>1, Leaders
  <2>3. Compute(k) = ShownIn(up) \cup ShownIn(down)
    BY <1>3, <2>1 DEF Compute
  <2>4. ShownIn(up) \subseteq Visible /\ ShownIn(down) \subseteq Visible
    BY <2>2, ShownOf
  <2> QED BY <2>3, <2>4
<1>4. CASE k = "movers"
  <2>1. PICK up, down : up = GetMovers24h.topGainers /\ down = GetMovers24h.topLosers
    OBVIOUS
  <2>2. up \in Seq(Visible) /\ down \in Seq(Visible)
    BY <2>1, MoverLists
  <2>3. Compute(k) = ShownIn(up) \cup ShownIn(down)
    BY <1>4, <2>1 DEF Compute
  <2>4. ShownIn(up) \subseteq Visible /\ ShownIn(down) \subseteq Visible
    BY <2>2, ShownOf
  <2> QED BY <2>3, <2>4
<1> QED BY <1>1, <1>2, <1>3, <1>4

(* A token is hidden at the time it is, or shown again.                    *)
Hides ==
  /\ now' = now /\ rows' = rows /\ hidden' \in [Category -> Int]
  /\ \A c \in Category : hidden'[c] \in {hidden[c], Never, now}

LEMMA Hidden ==
  ASSUME HidTimes, NEW c, NEW h \in {Never, now}, now' = now, rows' = rows,
         hidden' = [hidden EXCEPT ![c] = h] \/ hidden' = hidden
  PROVE  Hides
<1>1. hidden \in [Category -> Int] /\ h \in Int
  BY DEF HidTimes, TablesTyped, Never
<1> QED BY <1>1 DEF Hides

LEMMA ReportsHide ==
  ASSUME HidTimes, ReportsNext
  PROVE  Hides
<1>1. UNCHANGED data => Hides
  BY DEF Hides, HidTimes, TablesTyped, data
<1>2. ASSUME NEW o \in Moderator, NEW i, HideToken(o, i) PROVE Hides
  <2>1. PICK c : c = Row(o, i).category
    OBVIOUS
  <2>2. hidden' = [hidden EXCEPT ![c] = IF @ = Never THEN now ELSE @] /\ now' = now /\ rows' = rows
    BY <1>2, <2>1 DEF HideToken
  <2>3. hidden \in [Category -> Int]
    BY DEF HidTimes, TablesTyped
  <2>4. hidden' = [hidden EXCEPT ![c] = now] \/ hidden' = hidden
    BY <2>2, <2>3
  <2> QED BY <2>2, <2>4, Hidden
<1>3. ASSUME NEW o \in Moderator, NEW i, UnhideToken(o, i) PROVE Hides
  <2>1. PICK c : c = Row(o, i).category
    OBVIOUS
  <2>2. hidden' = [hidden EXCEPT ![c] = Never] /\ now' = now /\ rows' = rows
    BY <1>3, <2>1 DEF UnhideToken
  <2> QED BY <2>2, Hidden
<1>4. \/ UNCHANGED data
      \/ \E o \in Moderator : \E i \in 1..PageOfReports : HideToken(o, i) \/ UnhideToken(o, i)
  BY DEF ReportsNext, SubmitReport, CheckToken, InsertReport, DispatchAlert, FilingFails, OpenQueue, DeskSettles,
         SetReportStatus
<1> QED BY <1>1, <1>2, <1>3, <1>4

LEMMA ModerateHides ==
  ASSUME HidTimes, NEW c \in Category, Moderate(c)
  PROVE  Hides /\ UNCHANGED memo
<1>1. UNCHANGED memo /\ now' = now /\ rows' = rows
  BY DEF Moderate, parts
<1>2. hidden' = [hidden EXCEPT ![c] = now] \/ hidden' = [hidden EXCEPT ![c] = Never]
  BY DEF Moderate
<1> QED BY <1>1, <1>2, Hidden

(* However tokens are hidden and shown meanwhile, an entry stays good.     *)
LEMMA HidesKeep ==
  ASSUME MemoInv, Hides, UNCHANGED memo
  PROVE  MemoInv'
<1>1. /\ now \in Nat /\ now' = now /\ rows' = rows /\ hidden' \in [Category -> Int]
      /\ store' = store /\ inflight' = inflight
  BY DEF MemoInv, HidTimes, Hides, memo
<1>2. HidTimes'
  BY <1>1 DEF MemoInv, HidTimes, Hides, TablesTyped, Never
<1>3. ASSUME NEW k \in Key PROVE Entry(k)' /\ Run(k)'
  <2>1. Entry(k) /\ Run(k)
    BY DEF MemoInv
  <2>2. FreshFor[k] \in Nat /\ StaleFor[k] \in Nat /\ SlowQuery \in Nat
    <3>1. FreshFor \in [Key -> Nat] /\ StaleFor \in [Key -> Nat] /\ SlowQuery \in Nat
      BY MemoLimits
    <3> QED BY <3>1
  <2>3. \A c \in Category : hidden'[c] = Never \/ hidden'[c] = hidden[c] \/ hidden'[c] = now
    BY DEF Hides
  <2>4. \A c \in Category : hidden[c] = Never \/ hidden[c] \in Nat
    BY DEF MemoInv, HidTimes
  <2>5. Entry(k)'
    <3>1. PICK hard, limit : hard = store[k].hard /\ limit = FreshFor[k] + StaleFor[k]
      OBVIOUS
    <3>2. hard \in Int /\ limit \in Nat /\ hard <= now + limit /\ store[k].value \subseteq Category
      BY <1>1, <2>1, <2>2, <3>1 DEF Entry
    <3>3. ASSUME NEW c \in store[k].value, hidden'[c] # Never
          PROVE  hard - hidden'[c] <= limit + SlowQuery
      <4>1. c \in Category
        BY <3>2, <3>3
      <4>2. CASE hidden'[c] = now
        BY <1>1, <2>2, <3>2, <4>2
      <4>3. CASE hidden'[c] = hidden[c]
        BY <2>1, <2>2, <3>1, <3>3, <4>3 DEF Entry
      <4> QED BY <2>3, <3>3, <4>1, <4>2, <4>3
    <3> QED BY <1>1, <2>2, <3>1, <3>2, <3>3 DEF Entry
  <2>6. Run(k)'
    <3> SUFFICES ASSUME inflight[k] # NotRunning
                 PROVE  Run(k)'
      BY <1>1 DEF Run
    <3>1. PICK at, value : at = inflight[k].at /\ value = inflight[k].value
      OBVIOUS
    <3>2. /\ at \in 0..now /\ now - at <= SlowQuery /\ value \subseteq Category
          /\ \A c \in value : hidden[c] # Never => hidden[c] >= at
      BY <2>1, <3>1 DEF Run
    <3>3. ASSUME NEW c \in value, hidden'[c] # Never
          PROVE  hidden'[c] >= at
      <4>1. c \in Category
        BY <3>2, <3>3
      <4>2. CASE hidden'[c] = now
        <5>1. at <= now
          BY <2>1, <3>1 DEF Run
        <5> QED BY <1>1, <3>2, <4>2, <5>1
      <4>3. CASE hidden'[c] = hidden[c]
        BY <3>2, <3>3, <4>3
      <4> QED BY <2>3, <3>3, <4>1, <4>2, <4>3
    <3> QED BY <1>1, <3>1, <3>2, <3>3 DEF Run
  <2> QED BY <2>5, <2>6
<1>4. store = [k \in Key |-> store[k]] /\ inflight = [k \in Key |-> inflight[k]]
      /\ \A k \in Key : DOMAIN store[k] = {"value", "soft", "hard", "refreshing"}
  BY DEF MemoInv
<1> QED BY <1>1, <1>2, <1>3, <1>4 DEF MemoInv

(* The clock waits for a computation that has taken as long as it may.     *)
LEMMA TickKeeps ==
  ASSUME MemoInv, Tick
  PROVE  MemoInv'
<1>1. /\ now \in Nat /\ now' = now + 1 /\ rows' = rows /\ hidden' = hidden
      /\ store' = store /\ inflight' = inflight /\ ~Computing
  BY DEF MemoInv, HidTimes, Tick, parts, memo
<1>2. HidTimes'
  <2>1. \A c \in Category : hidden'[c] = Never \/ (hidden'[c] \in Nat /\ hidden'[c] <= now')
    BY <1>1 DEF MemoInv, HidTimes
  <2>2. TablesTyped'
    BY <1>1 DEF MemoInv, HidTimes, TablesTyped
  <2> QED BY <1>1, <2>1, <2>2 DEF HidTimes
<1>3. ASSUME NEW k \in Key PROVE Entry(k)' /\ Run(k)'
  <2>1. Entry(k) /\ Run(k)
    BY DEF MemoInv
  <2>2. FreshFor[k] \in Nat /\ StaleFor[k] \in Nat /\ SlowQuery \in Nat
    <3>1. FreshFor \in [Key -> Nat] /\ StaleFor \in [Key -> Nat] /\ SlowQuery \in Nat
      BY MemoLimits
    <3> QED BY <3>1
  <2>3. inflight[k] # NotRunning => ~(now - inflight[k].at >= SlowQuery)
    BY <1>1 DEF Computing
  <2>4. Entry(k)'
    BY <1>1, <2>1, <2>2 DEF Entry
  <2>5. Run(k)'
    <3>1. inflight[k] # NotRunning => now' - inflight[k].at <= SlowQuery /\ inflight[k].at \in 0..now'
      BY <1>1, <2>1, <2>2, <2>3 DEF Run
    <3> QED BY <1>1, <2>1, <3>1 DEF Run
  <2> QED BY <2>4, <2>5
<1>4. store = [k \in Key |-> store[k]] /\ inflight = [k \in Key |-> inflight[k]]
      /\ \A k \in Key : DOMAIN store[k] = {"value", "soft", "hard", "refreshing"}
  BY DEF MemoInv
<1> QED BY <1>1, <1>2, <1>3, <1>4 DEF MemoInv

LEMMA MemoRests == ASSUME MemoInv, UNCHANGED data, UNCHANGED memo PROVE MemoInv'
BY DEF MemoInv, HidTimes, TablesTyped, Entry, Run, data, memo

(* A step of one key leaves the others as they are.                        *)
LEMMA OtherKeys ==
  ASSUME MemoInv, UNCHANGED data, NEW k \in Key, NEW e, NEW r,
         store' = [store EXCEPT ![k] = e], inflight' = [inflight EXCEPT ![k] = r],
         DOMAIN e = {"value", "soft", "hard", "refreshing"}, Entry(k)', Run(k)'
  PROVE  MemoInv'
<1>1. store' = [j \in Key |-> store'[j]] /\ inflight' = [j \in Key |-> inflight'[j]]
      /\ \A j \in Key : DOMAIN store'[j] = {"value", "soft", "hard", "refreshing"}
  BY DEF MemoInv
<1>2. ASSUME NEW j \in Key PROVE Entry(j)' /\ Run(j)'
  <2>1. CASE j = k
    BY <2>1
  <2>2. CASE j # k
    <3>1. store'[j] = store[j] /\ inflight'[j] = inflight[j] /\ now' = now /\ hidden' = hidden
      BY <2>2 DEF MemoInv, data
    <3> QED BY <3>1 DEF MemoInv, Entry, Run
  <2> QED BY <2>1, <2>2
<1>3. HidTimes'
  BY DEF MemoInv, HidTimes, TablesTyped, data
<1> QED BY <1>1, <1>2, <1>3 DEF MemoInv

(* A computation that begins now runs well.                                *)
LEMMA StartRuns ==
  ASSUME MemoInv, UNCHANGED data, NEW k \in Key, NEW background,
         NEW r, r = [value |-> Compute(k), at |-> now, background |-> background],
         inflight'[k] = r
  PROVE  Run(k)'
<1>1. Compute(k) \subseteq Visible
  BY ComputeShows DEF MemoInv, HidTimes
<1>2. \A c \in Compute(k) : c \in Category /\ hidden[c] = Never
  BY <1>1 DEF Visible, Tracked
<1>3. now \in Nat /\ now' = now /\ hidden' = hidden /\ SlowQuery \in Nat
  BY Sizes DEF MemoInv, HidTimes, data
<1>4. r.value = Compute(k) /\ r.at = now
  OBVIOUS
<1> QED BY <1>2, <1>3, <1>4 DEF Run

LEMMA MemoStep ==
  ASSUME MemoInv, NEW k \in Key, MemoNext(k)
  PROVE  MemoInv'
<1>1. /\ now \in Nat /\ store = [j \in Key |-> store[j]] /\ inflight = [j \in Key |-> inflight[j]]
      /\ DOMAIN store[k] = {"value", "soft", "hard", "refreshing"} /\ Entry(k) /\ Run(k)
  BY DEF MemoInv, HidTimes
<1>2. FreshFor[k] \in Nat /\ StaleFor[k] \in Nat /\ SlowQuery \in Nat
  <2>1. FreshFor \in [Key -> Nat] /\ StaleFor \in [Key -> Nat] /\ SlowQuery \in Nat
    BY MemoLimits
  <2> QED BY <2>1
<1>3. ASSUME UNCHANGED data PROVE now' = now /\ hidden' = hidden
  BY <1>3 DEF data
<1>4. CASE AskStale(k)
  <2>1. PICK e, r : e = [store[k] EXCEPT !.refreshing = TRUE]
                    /\ r = [value |-> Compute(k), at |-> now, background |-> TRUE]
    OBVIOUS
  <2>2. /\ UNCHANGED data /\ store' = [store EXCEPT ![k] = e] /\ inflight' = [inflight EXCEPT ![k] = r]
    BY <1>4, <2>1 DEF AskStale, Start
  <2>3. e.value = store[k].value /\ e.hard = store[k].hard /\ DOMAIN e = {"value", "soft", "hard", "refreshing"}
    BY <1>1, <2>1
  <2>4. store'[k] = e /\ inflight'[k] = r
    BY <1>1, <2>2
  <2>5. Entry(k)'
    BY <1>1, <1>3, <2>2, <2>3, <2>4 DEF Entry
  <2>6. Run(k)'
    BY <2>1, <2>2, <2>4, StartRuns
  <2> QED BY <2>2, <2>3, <2>5, <2>6, OtherKeys
<1>5. CASE AskMissing(k)
  <2>1. PICK e, r : e = store[k] /\ r = [value |-> Compute(k), at |-> now, background |-> FALSE]
    OBVIOUS
  <2>2. /\ UNCHANGED data /\ store' = [store EXCEPT ![k] = e] /\ inflight' = [inflight EXCEPT ![k] = r]
        /\ store' = store
    <3>1. UNCHANGED data /\ store' = store /\ inflight' = [inflight EXCEPT ![k] = r]
      BY <1>5, <2>1 DEF AskMissing, Start
    <3>2. store = [j \in Key |-> store[j]]
      BY <1>5 DEF MemoInv
    <3> QED BY <2>1, <3>1, <3>2
  <2>3. inflight'[k] = r
    BY <1>1, <2>2
  <2>4. Entry(k)'
    BY <1>1, <1>3, <2>2 DEF Entry
  <2>5. Run(k)'
    BY <2>1, <2>2, <2>3, StartRuns
  <2> QED BY <1>1, <2>1, <2>2, <2>4, <2>5, OtherKeys
<1>6. ASSUME UNCHANGED data, NEW value \in SUBSET Category,
             \A c \in value : hidden[c] # Never => now - hidden[c] <= SlowQuery,
             store' = Stamp(k, value), inflight' = [inflight EXCEPT ![k] = NotRunning]
      PROVE  MemoInv'
  <2>1. PICK e : e = [value |-> value, soft |-> now + FreshFor[k],
                      hard |-> now + FreshFor[k] + StaleFor[k], refreshing |-> FALSE]
    OBVIOUS
  <2>2. store' = [store EXCEPT ![k] = e]
    BY <1>6, <2>1 DEF Stamp
  <2>3. e.value = value /\ e.hard = now + FreshFor[k] + StaleFor[k]
        /\ DOMAIN e = {"value", "soft", "hard", "refreshing"}
    BY <2>1
  <2>4. store'[k] = e /\ inflight'[k] = NotRunning
    BY <1>1, <1>6, <2>2
  <2>5. Entry(k)'
    <3>1. \A c \in Category : hidden[c] \in Int
      BY DEF MemoInv, HidTimes, TablesTyped
    <3>2. PICK hard, limit : hard = e.hard /\ limit = FreshFor[k] + StaleFor[k]
      OBVIOUS
    <3>3. hard = now + limit /\ limit \in Nat /\ hard \in Int
      BY <1>1, <1>2, <2>3, <3>2
    <3>4. ASSUME NEW c \in value, hidden[c] # Never
          PROVE  hard - hidden[c] <= limit + SlowQuery
      <4>1. hidden[c] \in Int /\ now - hidden[c] <= SlowQuery
        BY <1>6, <3>1, <3>4
      <4> QED BY <1>1, <1>2, <3>3, <4>1
    <3>5. hard <= now + FreshFor[k] + StaleFor[k]
      BY <1>1, <1>2, <3>2, <3>3
    <3>6. \A c \in value : hidden[c] # Never => hard - hidden[c] <= FreshFor[k] + StaleFor[k] + SlowQuery
      BY <3>2, <3>4
    <3>7. now' = now /\ hidden' = hidden /\ store'[k].hard = hard /\ store'[k].value = value
      BY <1>3, <1>6, <2>3, <2>4, <3>2
    <3> QED BY <1>6, <3>3, <3>5, <3>6, <3>7 DEF Entry
  <2>6. Run(k)'
    BY <2>4 DEF Run
  <2> QED BY <1>6, <2>2, <2>3, <2>5, <2>6, OtherKeys
<1>7. CASE Computed(k)
  <2>1. /\ inflight[k] # NotRunning /\ UNCHANGED data
        /\ store' = Stamp(k, inflight[k].value) /\ inflight' = [inflight EXCEPT ![k] = NotRunning]
    BY <1>7 DEF Computed
  <2>2. PICK value, at : value = inflight[k].value /\ at = inflight[k].at
    OBVIOUS
  <2>3. /\ at \in 0..now /\ now - at <= SlowQuery /\ value \in SUBSET Category
        /\ \A c \in value : hidden[c] # Never => hidden[c] >= at
    BY <1>1, <2>1, <2>2 DEF Run
  <2>4. \A c \in Category : hidden[c] \in Int
    BY DEF MemoInv, HidTimes, TablesTyped
  <2>5. \A c \in value : hidden[c] # Never => now - hidden[c] <= SlowQuery
    BY <1>1, <1>2, <2>3, <2>4
  <2> QED BY <1>6, <2>1, <2>2, <2>3, <2>5
<1>8. CASE ComputationFails(k)
  <2>1. UNCHANGED data /\ inflight' = [inflight EXCEPT ![k] = NotRunning]
    BY <1>8 DEF ComputationFails
  <2>2. CASE store' = Stamp(k, {})
    BY <1>6, <2>1, <2>2
  <2>3. ASSUME NEW e, e = store[k] \/ e = [store[k] EXCEPT !.refreshing = FALSE],
               store' = [store EXCEPT ![k] = e]
        PROVE  MemoInv'
    <3>1. e.value = store[k].value /\ e.hard = store[k].hard /\ DOMAIN e = {"value", "soft", "hard", "refreshing"}
      BY <1>1, <2>3
    <3>2. store'[k] = e /\ inflight'[k] = NotRunning
      BY <1>1, <2>1, <2>3
    <3>3. Entry(k)'
      BY <1>1, <1>3, <2>1, <3>1, <3>2 DEF Entry
    <3>4. Run(k)'
      BY <3>2 DEF Run
    <3> QED BY <2>1, <2>3, <3>1, <3>3, <3>4, OtherKeys
  <2>4. \/ store' = Stamp(k, {})
        \/ \E e : (e = store[k] \/ e = [store[k] EXCEPT !.refreshing = FALSE]) /\ store' = [store EXCEPT ![k] = e]
    <3>1. store = [j \in Key |-> store[j]]
      BY DEF MemoInv
    <3>2. \/ store' = Stamp(k, {})
          \/ store' = [store EXCEPT ![k].refreshing = FALSE]
          \/ store' = store
      BY <1>8 DEF ComputationFails
    <3>3. store' = store => store' = [store EXCEPT ![k] = store[k]]
      BY <3>1
    <3>4. store' = [store EXCEPT ![k].refreshing = FALSE]
            => store' = [store EXCEPT ![k] = [store[k] EXCEPT !.refreshing = FALSE]]
      OBVIOUS
    <3> QED BY <3>2, <3>3, <3>4
  <2> QED BY <2>2, <2>3, <2>4
<1> QED BY <1>4, <1>5, <1>7, <1>8 DEF MemoNext

LEMMA MemoStart == Init => MemoInv
<1> SUFFICES ASSUME Init PROVE MemoInv
  OBVIOUS
<1>1. PICK f \in DOMAIN First, S \in SUBSET Tracked :
        now = First[f].now /\ rows \in First[f].rows /\ hidden = [c \in Category |-> IF c \in S THEN now ELSE Never]
  BY DEF Init
<1>2. now \in Nat /\ rows \in [Category -> TokenRow]
  BY <1>1, FirstAssumption
<1>3. hidden \in [Category -> Int] /\ \A c \in Category : hidden[c] \in {now, Never}
  BY <1>1, <1>2 DEF Never
<1>4. HidTimes
  BY <1>2, <1>3 DEF HidTimes, TablesTyped
<1>5. store = [k \in Key |-> NoEntry] /\ inflight = [k \in Key |-> NotRunning]
  BY DEF Init, NothingMemoised
<1>6. ASSUME NEW k \in Key
      PROVE  DOMAIN store[k] = {"value", "soft", "hard", "refreshing"} /\ Entry(k) /\ Run(k)
  <2>1. store[k] = NoEntry /\ inflight[k] = NotRunning
    BY <1>5
  <2>2. DOMAIN NoEntry = {"value", "soft", "hard", "refreshing"} /\ NoEntry.value = {} /\ NoEntry.hard = -1
    BY DEF NoEntry, Never
  <2>3. FreshFor[k] \in Nat /\ StaleFor[k] \in Nat
    <3>1. FreshFor \in [Key -> Nat] /\ StaleFor \in [Key -> Nat]
      BY MemoLimits
    <3> QED BY <3>1
  <2>4. Entry(k)
    BY <1>2, <2>1, <2>2, <2>3 DEF Entry
  <2> QED BY <2>1, <2>2, <2>4 DEF Run
<1>7. store = [k \in Key |-> store[k]] /\ inflight = [k \in Key |-> inflight[k]]
  BY <1>5
<1> QED BY <1>4, <1>6, <1>7 DEF MemoInv

(* Votes, icons and browsers neither hide a token nor touch the memo.      *)
LEMMA MemoOthers ==
  ASSUME Next
  PROVE  \/ UNCHANGED data /\ UNCHANGED memo
         \/ ReportsNext /\ UNCHANGED memo
         \/ \E k \in Key : MemoNext(k)
         \/ \E c \in Category : Moderate(c)
         \/ Tick
<1>1. VotesNext => UNCHANGED data
  BY ZenonT(40) DEF VotesNext, TimerFires, CastVote, SignedOut, CheckCooldown, CountAction, WriteVote, ReadWatchlist,
         ToggleWatchlist, StatementFails, Refused, Answered, Reload, Unheard
<1>2. IconsNext => UNCHANGED data
  BY Zenon DEF IconsNext, FetchIcon, RescanIcon, Republish, ScreenIcon, WriteIcon, UpsertDecision, LinkIcon,
               WorkerStops, Reheal, OpenIcons, ApproveSelected, ClearIcon, BlockIcon, AskFails, DeleteFile
<1>3. BrowserNext => UNCHANGED data
  BY DEF BrowserNext, SetSort, SetType, ToggleVenue, SetPage, Debounced, GoBack, Refresh, LoadAnswers,
         OnSearchInput, GridArrives, GridFails
<1> QED BY <1>1, <1>2, <1>3, SMTT(20) DEF Next

(* Every step keeps the tables and the memo as MemoInv has them.           *)
LEMMA MemoKept == MemoInv /\ [Next]_vars => MemoInv'
<1> SUFFICES ASSUME MemoInv, [Next]_vars PROVE MemoInv'
  OBVIOUS
<1>1. CASE UNCHANGED vars
  <2>1. UNCHANGED data /\ UNCHANGED memo
    BY <1>1 DEF vars, parts
  <2> QED BY <2>1, MemoRests
<1>2. CASE Next
  <2>1. CASE UNCHANGED data /\ UNCHANGED memo
    BY <2>1, MemoRests
  <2>2. CASE ReportsNext /\ UNCHANGED memo
    <3>1. HidTimes
      BY DEF MemoInv
    <3>2. Hides
      BY <2>2, <3>1, ReportsHide
    <3> QED BY <2>2, <3>2, HidesKeep
  <2>3. ASSUME NEW k \in Key, MemoNext(k) PROVE MemoInv'
    BY <2>3, MemoStep
  <2>4. ASSUME NEW c \in Category, Moderate(c) PROVE MemoInv'
    <3>1. HidTimes
      BY DEF MemoInv
    <3>2. Hides /\ UNCHANGED memo
      BY <2>4, <3>1, ModerateHides
    <3> QED BY <3>2, HidesKeep
  <2>5. CASE Tick
    BY <2>5, TickKeeps
  <2> QED BY <1>2, <2>1, <2>2, <2>3, <2>4, <2>5, MemoOthers
<1> QED BY <1>1, <1>2

(* What the memo gives at once is younger than the life of its entry and   *)
(* the computation it came from.                                           *)
LEMMA MemoForgets ==
  ASSUME MemoInv
  PROVE  HiddenLeavesMemo
<1> SUFFICES ASSUME NEW k \in Key, NEW c \in Serves(k), hidden[c] # Never
             PROVE  now - hidden[c] < FreshFor[k] + StaleFor[k] + SlowQuery
  BY DEF HiddenLeavesMemo
<1>1. now < store[k].hard /\ c \in store[k].value
  BY DEF Serves
<1>2. PICK hard, limit : hard = store[k].hard /\ limit = FreshFor[k] + StaleFor[k] + SlowQuery
  OBVIOUS
<1>3. Entry(k) /\ now \in Nat /\ hidden \in [Category -> Int]
  BY DEF MemoInv, HidTimes, TablesTyped
<1>4. hard \in Int /\ c \in Category /\ hard - hidden[c] <= limit
  BY <1>1, <1>2, <1>3 DEF Entry
<1>5. limit \in Nat
  <2>1. FreshFor \in [Key -> Nat] /\ StaleFor \in [Key -> Nat] /\ SlowQuery \in Nat
    BY MemoLimits
  <2> QED BY <1>2, <2>1
<1>6. hidden[c] \in Int
  BY <1>3, <1>4
<1>7. now - hidden[c] < limit
  BY <1>1, <1>2, <1>3, <1>4, <1>5, <1>6
<1> QED BY <1>2, <1>7

(* The NOT_MODERATED clause of every query, cached: whatever operators     *)
(* hide and show again, and however requests, refreshes in the background  *)
(* and failures follow each other, a hidden token is in no list, page,     *)
(* search, row or count's samples, and it has left every memoised list     *)
(* when the life of an entry and one computation are over.                 *)
THEOREM HiddenStaysHidden == Spec => []HiddenNowhere
<1>1. Init => MemoInv
  BY MemoStart
<1>2. MemoInv /\ [Next]_vars => MemoInv'
  BY MemoKept
<1>3. MemoInv => HiddenNowhere
  <2> SUFFICES ASSUME MemoInv PROVE HiddenNowhere
    OBVIOUS
  <2>1. HiddenLeavesMemo
    BY MemoForgets
  <2>2. TablesTyped
    BY DEF MemoInv, HidTimes
  <2>3. ASSUME NEW c \in ShownNow PROVE hidden[c] = Never
    <3>1. c \in Visible
      BY <2>2, ShownIsVisible
    <3> QED BY <3>1 DEF Visible
  <2> QED BY <2>1, <2>3 DEF HiddenNowhere
<1> QED BY <1>1, <1>2, <1>3, PTL DEF Spec

----------------------------------------------------------------------------
(* What the pages agree on, whatever is in the tables.                     *)

(* The tables as the pages find them.                                      *)
Tables ==
  /\ TablesTyped
  /\ \A c \in Category : hidden[c] # Never => c \in Tracked
  /\ \A u \in Uri : links[u].hash # NoHash => links[u].hash \in Hash

LEMMA RowHolds ==
  ASSUME Tables, NEW c \in Category
  PROVE  /\ rows[c].type \in Types
         /\ OnCauldron(c) = (rows[c].cauldron.price # Null) /\ OnFex(c) = (rows[c].fex.price # Null)
         /\ rows[c].cauldron.price \in Quantity /\ rows[c].fex.price \in Quantity
         /\ rows[c].crc20.canonical => rows[c].crc20.detected
         /\ rows[c].crc20.canonical \in BOOLEAN /\ rows[c].crc20.detected \in BOOLEAN
         /\ rows[c].state.gini \in 0..100 \cup {Null}
         /\ rows[c].state.holders \in Quantity /\ rows[c].state.supply \in Quantity
         /\ rows[c].cauldron.tvl \in Quantity /\ Age(c) \in Int
         /\ rows[c].state.minting \in BOOLEAN /\ rows[c].state.burned \in BOOLEAN
         /\ rows[c].decimals \in Nat
<1>0. rows[c] \in TokenRow
  BY DEF Tables, TablesTyped
<1>1. PICK r : r = rows[c] /\ r \in TokenRow
  BY <1>0
<1>2. /\ r.type \in Types /\ r.cauldron \in Venue /\ r.fex \in Pools /\ r.crc20 \in Crc20 /\ r.age \in Int
      /\ r.decimals \in Nat
  BY <1>1 DEF TokenRow
<1>3. r.state \in [verified : Instant, burned : BOOLEAN, minting : BOOLEAN, supply : Quantity,
                   holders : Quantity, gini : 0..100 \cup {Null}, nfts : Quantity]
  BY <1>1 DEF TokenRow
<1>4. /\ r.cauldron.listed = (r.cauldron.price # Null)
      /\ r.cauldron.price \in Quantity /\ r.cauldron.tvl \in Quantity
  BY <1>2 DEF Venue
<1>5. r.fex.listed = (r.fex.price # Null) /\ r.fex.price \in Quantity
  BY <1>2 DEF Pools
<1>6. r.crc20.canonical \in BOOLEAN /\ r.crc20.detected \in BOOLEAN /\ (r.crc20.canonical => r.crc20.detected)
  BY <1>2 DEF Crc20
<1>7. Age(c) \in Int
  BY <1>1, <1>2 DEF Age, Tables, TablesTyped
<1>8. /\ r.state.gini \in 0..100 \cup {Null} /\ r.state.holders \in Quantity /\ r.state.supply \in Quantity
      /\ r.state.minting \in BOOLEAN /\ r.state.burned \in BOOLEAN
  BY <1>3
<1>9. OnCauldron(c) = (r.cauldron.price # Null) /\ OnFex(c) = (r.fex.price # Null)
  BY <1>1, <1>4, <1>5 DEF OnCauldron, OnFex
<1>10. r.type \in Types /\ r.decimals \in Nat
  BY <1>2
<1> QED BY <1>1, <1>10, <1>4, <1>5, <1>6, <1>7, <1>8, <1>9

(* A view of the directory without a search, from its first row.           *)
View(sort, type, venues, new, listed, tier, crc20) ==
  [sort |-> sort, type |-> type, venues |-> venues, new |-> new, listed |-> listed, tier |-> tier,
   crc20 |-> crc20, search |-> "none", offset |-> 0]

(* A truth to hand on.                                                     *)
No == FALSE
Yes == TRUE

LEMMA ViewTotal ==
  ASSUME NEW sort \in {"tvl", "recent", "oldest", "holders"}, NEW type \in Types \cup {"all"}, NEW venues, NEW new,
         NEW listed, NEW tier \in Tiers \cup {"all"}, NEW crc20 \in Crc20Modes \cup {"all"}
  PROVE  TotalWith(View(sort, type, venues, new, listed, tier, crc20))
           = Cardinality(Matching(View(sort, type, venues, new, listed, tier, crc20)))
<1>1. PICK p : p = View(sort, type, venues, new, listed, tier, crc20)
  OBVIOUS
<1>2. /\ p = [sort |-> p.sort, type |-> p.type, venues |-> p.venues, new |-> p.new, listed |-> p.listed,
              tier |-> p.tier, crc20 |-> p.crc20, search |-> p.search, offset |-> p.offset]
      /\ p.sort = sort /\ p.type = type /\ p.tier = tier /\ p.crc20 = crc20 /\ p.search = "none" /\ p.offset = 0
  BY <1>1 DEF View
<1>3. Parameters(p) = p
  <2>1. Larger(0, 0) = 0
    BY DEF Larger
  <2>2. sort \in Sorts
    BY DEF Sorts
  <2> QED BY <1>2, <2>1, <2>2 DEF Parameters
<1>4. SortTables(p.sort) \subseteq TopTables
  BY <1>2 DEF SortTables, TopTables
<1>5. TokenGridData(p) = ComputeGrid(p)
  BY <1>3, <1>4, Zenon DEF TokenGridData
<1>6. ComputeGrid(p).total = Cardinality(Matching(p))
  BY DEF ComputeGrid
<1> QED BY <1>1, <1>5, <1>6 DEF TotalWith

Fits(c, type, venues, new, listed, tier, crc20) ==
  /\ c \in Visible
  /\ type = "all" \/ rows[c].type = type
  /\ \A v \in venues : OnVenue(v, c)
  /\ \A w \in new : Age(c) < Window[w]
  /\ listed => \E v \in Venues : OnVenue(v, c)
  /\ tier # "all" => rows[c].state.gini \in GiniRange[tier]
  /\ crc20 = "true" => rows[c].crc20.detected
  /\ crc20 = "canonical" => rows[c].crc20.canonical
  /\ crc20 = "noncanonical" => rows[c].crc20.detected /\ ~rows[c].crc20.canonical

LEMMA ViewMatches ==
  ASSUME NEW sort, NEW type, NEW venues, NEW new, NEW listed, NEW tier, NEW crc20
  PROVE  Matching(View(sort, type, venues, new, listed, tier, crc20))
           = {c \in Visible : Fits(c, type, venues, new, listed, tier, crc20)}
<1>1. PICK p : p = View(sort, type, venues, new, listed, tier, crc20)
  OBVIOUS
<1>2. /\ p.type = type /\ p.venues = venues /\ p.new = new /\ p.listed = listed /\ p.tier = tier
      /\ p.crc20 = crc20 /\ p.search = "none"
  BY <1>1 DEF View
<1>3. ASSUME NEW c \in Visible
      PROVE  Fits(c, type, venues, new, listed, tier, crc20) <=>
               /\ TypeFilter(p, c) /\ VenueFilter(p, c) /\ NewFilter(p, c) /\ ListedFilter(p, c)
               /\ GiniFilter(p, c) /\ Crc20Filter(p, c) /\ SearchFilter(p, c)
  <2>1. TypeFilter(p, c) <=> (type = "all" \/ rows[c].type = type)
    BY <1>2 DEF TypeFilter
  <2>2. VenueFilter(p, c) <=> \A v \in venues : OnVenue(v, c)
    BY <1>2 DEF VenueFilter
  <2>3. NewFilter(p, c) <=> \A w \in new : Age(c) < Window[w]
    BY <1>2 DEF NewFilter
  <2>4. ListedFilter(p, c) <=> (listed => \E v \in Venues : OnVenue(v, c))
    BY <1>2 DEF ListedFilter
  <2>5. GiniFilter(p, c) <=> (tier # "all" => rows[c].state.gini \in GiniRange[tier])
    BY <1>2 DEF GiniFilter
  <2>6. Crc20Filter(p, c) <=>
          /\ crc20 = "true" => rows[c].crc20.detected
          /\ crc20 = "canonical" => rows[c].crc20.canonical
          /\ crc20 = "noncanonical" => rows[c].crc20.detected /\ ~rows[c].crc20.canonical
    BY <1>2 DEF Crc20Filter
  <2>7. SearchFilter(p, c)
    BY <1>2 DEF SearchFilter
  <2> QED BY <2>1, <2>2, <2>3, <2>4, <2>5, <2>6, <2>7, Zenon DEF Fits, No, Yes
<1>4. Matching(p) = {c \in Visible : Fits(c, type, venues, new, listed, tier, crc20)}
  BY <1>3, Zenon DEF Matching
<1> QED BY <1>1, <1>4

(* The views that ask for one thing only.                                  *)
LEMMA FitsAll == ASSUME NEW c \in Visible PROVE Fits(c, "all", {}, {}, No, "all", "all")
BY DEF Fits, No, Yes

LEMMA FitsType ==
  ASSUME NEW c \in Visible, NEW t, t # "all"
  PROVE  Fits(c, t, {}, {}, No, "all", "all") <=> rows[c].type = t
BY DEF Fits, No, Yes

LEMMA FitsVenue == ASSUME NEW c \in Visible, NEW v PROVE Fits(c, "all", {v}, {}, No, "all", "all") <=> OnVenue(v, c)
BY Zenon DEF Fits, No, Yes

LEMMA FitsNew == ASSUME NEW c \in Visible, NEW w PROVE Fits(c, "all", {}, {w}, No, "all", "all") <=> Age(c) < Window[w]
BY DEF Fits, No, Yes

LEMMA FitsListed ==
  ASSUME NEW c \in Visible
  PROVE  Fits(c, "all", {}, {}, Yes, "all", "all") <=> \E u \in Venues : OnVenue(u, c)
BY Zenon DEF Fits, No, Yes

LEMMA FitsTier ==
  ASSUME NEW c \in Visible, NEW g, g # "all"
  PROVE  Fits(c, "all", {}, {}, No, g, "all") <=> rows[c].state.gini \in GiniRange[g]
BY DEF Fits, No, Yes

LEMMA FitsCrc20 == ASSUME NEW c \in Visible PROVE Fits(c, "all", {}, {}, No, "all", "true") <=> rows[c].crc20.detected
BY Zenon DEF Fits, No, Yes

LEMMA FitsCanonical ==
  ASSUME NEW c \in Visible
  PROVE  Fits(c, "all", {}, {}, No, "all", "canonical") <=> rows[c].crc20.canonical
BY Zenon DEF Fits, No, Yes

(* What the statistics page loads when no query fails.                     *)
LEMMA LoadedNumbers ==
  /\ LoadStats({}).byType = TypeCounts
  /\ LoadStats({}).newIn24h = LoadGlobalMetrics({}).newIn24h
  /\ LoadStats({}).newIn7d = NewIn7d /\ LoadStats({}).newIn30d = NewIn30d
  /\ LoadStats({}).burned = Burned /\ LoadStats({}).activeMinting = ActiveMinting
  /\ LoadStats({}).tapswapListed = TapswapCategories /\ LoadStats({}).cauldronListed = CauldronCategories
  /\ LoadStats({}).fexListed = FexCategories /\ LoadStats({}).moderated = Moderated
BY DEF LoadStats

LEMMA LoadedCharts ==
  /\ LoadStats({}).genesisByMonth = GenesisMonths /\ LoadStats({}).decimals = DecimalsBuckets(DecimalsCounts)
  /\ LoadStats({}).venueOverlap = VenueOverlap /\ LoadStats({}).metadata = Metadata
  /\ LoadStats({}).supplyBuckets = SupplyBuckets /\ LoadStats({}).giniBuckets = GiniBuckets(GiniHistogram)
BY DEF LoadStats

LEMMA LoadedLists ==
  /\ LoadStats({}).tapswapTop = TapswapTop /\ LoadStats({}).topCollectors = TopCollectors
  /\ LoadStats({}).topHolders = TopHoldersByCount /\ LoadStats({}).firstCreated = FirstCreated
  /\ LoadStats({}).movers = GetMovers24h
BY DEF LoadStats

LEMMA LoadedBar ==
  /\ LoadGlobalMetrics({}).tokensTracked = Cardinality(Visible)
  /\ LoadGlobalMetrics({}).newIn24h = Cardinality({c \in Visible : Age(c) < Day})
  /\ LoadGlobalMetrics({}).listedCount =
       Cardinality({c \in Visible : \/ OnCauldron(c) /\ rows[c].cauldron.price # Null
                                    \/ OnFex(c) /\ rows[c].fex.price # Null
                                    \/ OnTapswap(c)})
BY DEF LoadGlobalMetrics, Count

(* Where the numbers link to.                                              *)
LEMMA DefaultView == Defaults = View("tvl", "all", {}, {}, No, "all", "all")
BY DEF Defaults, View, No

LEMMA EditedSort ==
  ASSUME NEW a, NEW b, NEW c, NEW d, NEW e, NEW f, NEW g, NEW p, p = View(a, b, c, d, e, f, g), NEW x
  PROVE  [p EXCEPT !.sort = x] = View(x, b, c, d, e, f, g)
BY DEF View

LEMMA EditedType ==
  ASSUME NEW a, NEW b, NEW c, NEW d, NEW e, NEW f, NEW g, NEW p, p = View(a, b, c, d, e, f, g), NEW x
  PROVE  [p EXCEPT !.type = x] = View(a, x, c, d, e, f, g)
BY DEF View

LEMMA EditedVenues ==
  ASSUME NEW a, NEW b, NEW c, NEW d, NEW e, NEW f, NEW g, NEW p, p = View(a, b, c, d, e, f, g), NEW x
  PROVE  [p EXCEPT !.venues = x] = View(a, b, x, d, e, f, g)
BY DEF View

LEMMA EditedNew ==
  ASSUME NEW a, NEW b, NEW c, NEW d, NEW e, NEW f, NEW g, NEW p, p = View(a, b, c, d, e, f, g), NEW x
  PROVE  [p EXCEPT !.new = x] = View(a, b, c, x, e, f, g)
BY DEF View

LEMMA EditedListed ==
  ASSUME NEW a, NEW b, NEW c, NEW d, NEW e, NEW f, NEW g, NEW p, p = View(a, b, c, d, e, f, g), NEW x
  PROVE  [p EXCEPT !.listed = x] = View(a, b, c, d, x, f, g)
BY DEF View

LEMMA EditedTier ==
  ASSUME NEW a, NEW b, NEW c, NEW d, NEW e, NEW f, NEW g, NEW p, p = View(a, b, c, d, e, f, g), NEW x
  PROVE  [p EXCEPT !.tier = x] = View(a, b, c, d, e, x, g)
BY DEF View

LEMMA EditedCrc20 ==
  ASSUME NEW a, NEW b, NEW c, NEW d, NEW e, NEW f, NEW g, NEW p, p = View(a, b, c, d, e, f, g), NEW x
  PROVE  [p EXCEPT !.crc20 = x] = View(a, b, c, d, e, f, x)
BY DEF View

LEMMA SortedView == ASSUME NEW sort PROVE Sorted(sort) = View(sort, "all", {}, {}, No, "all", "all")
<1>1. PICK p : p = Defaults
  OBVIOUS
<1>2. [p EXCEPT !.sort = sort] = View(sort, "all", {}, {}, No, "all", "all")
  BY <1>1, DefaultView, EditedSort
<1> QED BY <1>1, <1>2 DEF Sorted

LEMMA Links ==
  ASSUME NEW sort, NEW x
  PROVE  /\ NewIn(x) = View("recent", "all", {}, {x}, No, "all", "all")
         /\ OnVenues(x, sort) = View(sort, "all", {x}, {}, No, "all", "all")
         /\ [Sorted("tvl") EXCEPT !.type = x] = View("tvl", x, {}, {}, No, "all", "all")
         /\ [Sorted("tvl") EXCEPT !.listed = TRUE] = View("tvl", "all", {}, {}, Yes, "all", "all")
<1>1. PICK p, q, r : p = Sorted("tvl") /\ q = Sorted("recent") /\ r = Sorted(sort)
  OBVIOUS
<1>2. /\ p = View("tvl", "all", {}, {}, No, "all", "all")
      /\ q = View("recent", "all", {}, {}, No, "all", "all")
      /\ r = View(sort, "all", {}, {}, No, "all", "all")
  BY <1>1, SortedView
<1>3. PICK y : y = {x}
  OBVIOUS
<1>4. [q EXCEPT !.new = y] = View("recent", "all", {}, y, No, "all", "all")
  BY <1>2, EditedNew
<1>5. [r EXCEPT !.venues = y] = View(sort, "all", y, {}, No, "all", "all")
  BY <1>2, EditedVenues
<1>6. [p EXCEPT !.type = x] = View("tvl", x, {}, {}, No, "all", "all")
  BY <1>2, EditedType
<1>7. [p EXCEPT !.listed = Yes] = View("tvl", "all", {}, {}, Yes, "all", "all")
  BY <1>2, EditedListed
<1> QED BY <1>1, <1>3, <1>4, <1>5, <1>6, <1>7 DEF NewIn, OnVenues, Yes

LEMMA VisibleFinite ==
  /\ Visible \in SUBSET Category /\ IsFiniteSet(Visible) /\ Cardinality(Visible) \in Nat
<1>1. Visible \in SUBSET Category
  BY DEF Visible, Tracked
<1> QED BY <1>1, FiniteParts

(* A view finds what fits what it asks for.                                *)
Finds(S, type, venues, new, listed, tier, crc20) ==
  S \in SUBSET Visible /\ \A c \in Visible : c \in S <=> Fits(c, type, venues, new, listed, tier, crc20)

LEMMA ViewCounts ==
  ASSUME NEW sort \in {"tvl", "recent", "oldest", "holders"}, NEW type \in Types \cup {"all"}, NEW venues, NEW new,
         NEW listed, NEW tier \in Tiers \cup {"all"}, NEW crc20 \in Crc20Modes \cup {"all"},
         NEW S, Finds(S, type, venues, new, listed, tier, crc20)
  PROVE  TotalWith(View(sort, type, venues, new, listed, tier, crc20)) = Cardinality(S)
<1>1. {c \in Visible : Fits(c, type, venues, new, listed, tier, crc20)} = S
  BY DEF Finds
<1>2. PICK p : p = View(sort, type, venues, new, listed, tier, crc20)
  OBVIOUS
<1>3. TotalWith(p) = Cardinality(Matching(p))
  BY <1>2, ViewTotal
<1>4. Matching(p) = {c \in Visible : Fits(c, type, venues, new, listed, tier, crc20)}
  BY <1>2, ViewMatches
<1> QED BY <1>1, <1>2, <1>3, <1>4, Zenon

LEMMA NewCardsAgree ==
  ASSUME NEW w
  PROVE  TotalWith(NewIn(w)) = Cardinality({c \in Visible : Age(c) < Window[w]})
<1>1. PICK S : S = {c \in Visible : Age(c) < Window[w]}
  OBVIOUS
<1>2. Finds(S, "all", {}, {w}, No, "all", "all")
  BY <1>1, FitsNew DEF Finds
<1>3. TotalWith(View("recent", "all", {}, {w}, No, "all", "all")) = Cardinality(S)
  BY <1>2, ViewCounts
<1> QED BY <1>1, <1>3, Links

LEMMA TypeCardsAgree ==
  ASSUME NEW t \in Types
  PROVE  TotalWith([Sorted("tvl") EXCEPT !.type = t]) = Cardinality({c \in Visible : rows[c].type = t})
<1>1. PICK S : S = {c \in Visible : rows[c].type = t}
  OBVIOUS
<1>2. t # "all"
  BY DEF Types
<1>3. Finds(S, t, {}, {}, No, "all", "all")
  BY <1>1, <1>2, FitsType DEF Finds
<1>4. TotalWith(View("tvl", t, {}, {}, No, "all", "all")) = Cardinality(S)
  BY <1>3, ViewCounts
<1> QED BY <1>1, <1>4, Links

LEMMA VenueViews ==
  ASSUME NEW sort \in {"tvl", "recent"}, NEW v
  PROVE  TotalWith(View(sort, "all", {v}, {}, No, "all", "all")) = Cardinality({c \in Visible : OnVenue(v, c)})
<1>1. PICK S : S = {c \in Visible : OnVenue(v, c)}
  OBVIOUS
<1>2. Finds(S, "all", {v}, {}, No, "all", "all")
  BY <1>1, FitsVenue DEF Finds
<1>3. TotalWith(View(sort, "all", {v}, {}, No, "all", "all")) = Cardinality(S)
  BY <1>2, ViewCounts
<1> QED BY <1>1, <1>3

LEMMA TierViews ==
  ASSUME NEW t \in Tiers
  PROVE  TotalWith([Defaults EXCEPT !.tier = t]) = Cardinality({c \in Visible : rows[c].state.gini \in GiniRange[t]})
<1>1. PICK S : S = {c \in Visible : rows[c].state.gini \in GiniRange[t]}
  OBVIOUS
<1>2. t # "all"
  BY DEF Tiers
<1>3. Finds(S, "all", {}, {}, No, t, "all")
  BY <1>1, <1>2, FitsTier DEF Finds
<1>4. TotalWith(View("tvl", "all", {}, {}, No, t, "all")) = Cardinality(S)
  BY <1>3, ViewCounts
<1>5. PICK p : p = Defaults
  OBVIOUS
<1>6. [p EXCEPT !.tier = t] = View("tvl", "all", {}, {}, No, t, "all")
  BY <1>5, DefaultView, EditedTier
<1> QED BY <1>1, <1>4, <1>5, <1>6

LEMMA ListedView ==
  TotalWith(View("tvl", "all", {}, {}, Yes, "all", "all"))
    = Cardinality({c \in Visible : \E v \in Venues : OnVenue(v, c)})
<1>1. PICK S : S = {c \in Visible : \E v \in Venues : OnVenue(v, c)}
  OBVIOUS
<1>2. Finds(S, "all", {}, {}, Yes, "all", "all")
  BY <1>1, FitsListed DEF Finds
<1>3. TotalWith(View("tvl", "all", {}, {}, Yes, "all", "all")) = Cardinality(S)
  BY <1>2, ViewCounts
<1> QED BY <1>1, <1>3

LEMMA AllView == TotalWith(Defaults) = Cardinality(Visible)
<1>1. Finds(Visible, "all", {}, {}, No, "all", "all")
  BY FitsAll DEF Finds
<1>2. TotalWith(View("tvl", "all", {}, {}, No, "all", "all")) = Cardinality(Visible)
  BY <1>1, ViewCounts
<1> QED BY <1>2, DefaultView
CardHolds(card) == card.count = TotalWith(card.link)

LEMMA CardIs == ASSUME NEW count, NEW link, count = TotalWith(link) PROVE CardHolds(Card(count, link))
BY DEF Card, CardHolds

LEMMA NewCardsHold == \A card \in NewCards(LoadStats({})) : CardHolds(card)
<1>1. LoadStats({}).newIn24h = TotalWith(NewIn("day"))
  BY LoadedNumbers, LoadedBar, NewCardsAgree DEF Window
<1>2. LoadStats({}).newIn7d = TotalWith(NewIn("week"))
  BY LoadedNumbers, NewCardsAgree DEF Window, NewIn7d, Count
<1>3. LoadStats({}).newIn30d = TotalWith(NewIn("month"))
  BY LoadedNumbers, NewCardsAgree DEF Window, NewIn30d, Count
<1> QED BY <1>1, <1>2, <1>3, CardIs DEF NewCards

LEMMA TypeCardsHold == \A card \in TypeCards(LoadStats({})) : CardHolds(card)
<1> SUFFICES ASSUME NEW t \in Types
             PROVE  CardHolds(Card(LoadStats({}).byType[t], [Sorted("tvl") EXCEPT !.type = t]))
  BY DEF TypeCards
<1>1. LoadStats({}).byType[t] = Cardinality({c \in Visible : rows[c].type = t})
  BY LoadedNumbers DEF TypeCounts, Count
<1>2. PICK link : link = [Sorted("tvl") EXCEPT !.type = t]
  OBVIOUS
<1>3. LoadStats({}).byType[t] = TotalWith(link)
  BY <1>1, <1>2, TypeCardsAgree
<1> QED BY <1>2, <1>3, CardIs

(* The two tests of a venue are the same: its row has a price.             *)
LEMMA OnVenueIs ==
  ASSUME Tables, NEW c \in Visible
  PROVE  /\ OnVenue("cauldron", c) <=> rows[c].cauldron.price # Null
         /\ OnVenue("fex", c) <=> rows[c].fex.price # Null
         /\ OnVenue("tapswap", c) <=> OnTapswap(c)
         /\ OnVenue("cauldron", c) <=> Priced(rows[c].cauldron)
         /\ OnVenue("fex", c) <=> Priced(rows[c].fex)
<1>1. /\ OnVenue("cauldron", c) = OnCauldron(c)
      /\ OnVenue("fex", c) = OnFex(c) /\ OnVenue("tapswap", c) = OnTapswap(c)
  BY DEF OnVenue
<1>2. c \in Category
  BY DEF Visible, Tracked
<1>3. OnCauldron(c) = (rows[c].cauldron.price # Null) /\ OnFex(c) = (rows[c].fex.price # Null)
  BY <1>2, RowHolds
<1>4. Priced(rows[c].cauldron) = (OnCauldron(c) /\ rows[c].cauldron.price # Null)
  BY DEF Priced, OnCauldron
<1>5. Priced(rows[c].fex) = (OnFex(c) /\ rows[c].fex.price # Null)
  BY DEF Priced, OnFex
<1>6. OnTapswap(c) \in BOOLEAN
  BY DEF OnTapswap
<1> QED BY <1>1, <1>3, <1>4, <1>5, <1>6, Zenon

LEMMA VenueCardsHold == ASSUME Tables PROVE \A card \in VenueCards(LoadStats({})) : CardHolds(card)
<1>1. LoadStats({}).cauldronListed = TotalWith(OnVenues("cauldron", "tvl"))
  <2>1. {c \in Visible : OnVenue("cauldron", c)} = {c \in Visible : Priced(rows[c].cauldron)}
    BY OnVenueIs
  <2>2. TotalWith(OnVenues("cauldron", "tvl")) = Cardinality({c \in Visible : OnVenue("cauldron", c)})
    BY Links, VenueViews DEF Venues
  <2> QED BY <2>1, <2>2, LoadedNumbers DEF CauldronCategories, Count
<1>2. LoadStats({}).fexListed = TotalWith(OnVenues("fex", "tvl"))
  <2>1. {c \in Visible : OnVenue("fex", c)} = {c \in Visible : Priced(rows[c].fex)}
    BY OnVenueIs
  <2>2. TotalWith(OnVenues("fex", "tvl")) = Cardinality({c \in Visible : OnVenue("fex", c)})
    BY Links, VenueViews DEF Venues
  <2> QED BY <2>1, <2>2, LoadedNumbers DEF FexCategories, Count
<1>3. LoadStats({}).tapswapListed = TotalWith(OnVenues("tapswap", "recent"))
  <2>1. {c \in Visible : OnVenue("tapswap", c)} = {c \in Visible : OnTapswap(c)}
    BY OnVenueIs
  <2>2. TotalWith(OnVenues("tapswap", "recent")) = Cardinality({c \in Visible : OnVenue("tapswap", c)})
    BY Links, VenueViews DEF Venues
  <2> QED BY <2>1, <2>2, LoadedNumbers DEF TapswapCategories, Count
<1> QED BY <1>1, <1>2, <1>3, CardIs DEF VenueCards

LEMMA BarHolds == ASSUME Tables PROVE \A card \in MetricsBar(LoadGlobalMetrics({})) : CardHolds(card)
<1>1. LoadGlobalMetrics({}).newIn24h = TotalWith(NewIn("day"))
  BY LoadedBar, NewCardsAgree DEF Window
<1>2. PICK link : link = [Sorted("tvl") EXCEPT !.listed = TRUE]
  OBVIOUS
<1>3. LoadGlobalMetrics({}).listedCount = TotalWith(link)
  <2>1. \A c \in Visible : (\E v \in Venues : OnVenue(v, c))
          <=> (OnVenue("cauldron", c) \/ OnVenue("tapswap", c) \/ OnVenue("fex", c))
    BY DEF Venues
  <2>2. ASSUME NEW c \in Visible
        PROVE  (\E v \in Venues : OnVenue(v, c))
                 <=> \/ OnCauldron(c) /\ rows[c].cauldron.price # Null
                     \/ OnFex(c) /\ rows[c].fex.price # Null
                     \/ OnTapswap(c)
    <3>1. Priced(rows[c].cauldron) = (OnCauldron(c) /\ rows[c].cauldron.price # Null)
      BY DEF Priced, OnCauldron
    <3>2. Priced(rows[c].fex) = (OnFex(c) /\ rows[c].fex.price # Null)
      BY DEF Priced, OnFex
    <3> QED BY <2>1, <3>1, <3>2, OnVenueIs
  <2>3. {c \in Visible : \E v \in Venues : OnVenue(v, c)} =
          {c \in Visible : \/ OnCauldron(c) /\ rows[c].cauldron.price # Null
                           \/ OnFex(c) /\ rows[c].fex.price # Null
                           \/ OnTapswap(c)}
    BY <2>2
  <2> QED BY <1>2, <2>3, LoadedBar, ListedView, Links, Zenon
<1> QED BY <1>1, <1>2, <1>3, CardIs DEF MetricsBar

(* A set with one element more.                                            *)
LEMMA AddedOne ==
  ASSUME NEW S, IsFiniteSet(S), NEW n \in Nat, Cardinality(S) = n, NEW x, x \notin S, NEW T, T = S \cup {x}
  PROVE  IsFiniteSet(T) /\ Cardinality(T) = n + 1
<1>1. PICK U : U = S \cup {x}
  OBVIOUS
<1>2. IsFiniteSet(U) /\ Cardinality(U) = Cardinality(S) + 1
  BY <1>1, FS_AddElement
<1> QED BY <1>1, <1>2

(* The bars count from edge to edge what the filters ask for as ranges.    *)
LEMMA TierOf ==
  ASSUME NEW c, rows[c].state.gini \in 0..100, NEW b \in 1..5
  PROVE  WidthBucket(c) = b <=> rows[c].state.gini \in GiniRange[Slug[GiniTierLabels[b]]]
<1>1. PICK g : g = rows[c].state.gini /\ g \in 0..100
  OBVIOUS
<1>2. PICK E : E = {e \in GiniEdges : e <= g}
  OBVIOUS
<1>3. WidthBucket(c) = Cardinality(E)
  BY <1>1, <1>2 DEF WidthBucket
<1>5. Cardinality({0}) = 1 /\ Cardinality({0, 40}) = 2 /\ Cardinality({0, 40, 60}) = 3
      /\ Cardinality({0, 40, 60, 75}) = 4 /\ Cardinality({0, 40, 60, 75, 90}) = 5
  <2>1. PICK A1, A2, A3, A4, A5 : /\ A1 = {0} /\ A2 = {0, 40} /\ A3 = {0, 40, 60} /\ A4 = {0, 40, 60, 75}
                                  /\ A5 = {0, 40, 60, 75, 90}
    OBVIOUS
  <2>2. /\ A2 = A1 \cup {40} /\ A3 = A2 \cup {60} /\ A4 = A3 \cup {75} /\ A5 = A4 \cup {90}
        /\ 40 \notin A1 /\ 60 \notin A2 /\ 75 \notin A3 /\ 90 \notin A4
    BY <2>1
  <2>3. IsFiniteSet(A1) /\ Cardinality(A1) = 1
    BY <2>1, FS_Singleton
  <2>4. IsFiniteSet(A2) /\ Cardinality(A2) = 2
    BY <2>2, <2>3, AddedOne
  <2>5. IsFiniteSet(A3) /\ Cardinality(A3) = 3
    BY <2>2, <2>4, AddedOne
  <2>6. IsFiniteSet(A4) /\ Cardinality(A4) = 4
    BY <2>2, <2>5, AddedOne
  <2>7. IsFiniteSet(A5) /\ Cardinality(A5) = 5
    BY <2>2, <2>6, AddedOne
  <2> QED BY <2>1, <2>3, <2>4, <2>5, <2>6, <2>7
<1>6. /\ g \in 0..39 => E = {0}
      /\ g \in 40..59 => E = {0, 40}
      /\ g \in 60..74 => E = {0, 40, 60}
      /\ g \in 75..89 => E = {0, 40, 60, 75}
      /\ g \in 90..100 => E = {0, 40, 60, 75, 90}
  BY <1>1, <1>2 DEF GiniEdges
<1>7. g \in 0..39 \/ g \in 40..59 \/ g \in 60..74 \/ g \in 75..89 \/ g \in 90..100
  BY <1>1
<1>8. /\ GiniRange[Slug[GiniTierLabels[1]]] = 0..39 /\ GiniRange[Slug[GiniTierLabels[2]]] = 40..59
      /\ GiniRange[Slug[GiniTierLabels[3]]] = 60..74 /\ GiniRange[Slug[GiniTierLabels[4]]] = 75..89
      /\ GiniRange[Slug[GiniTierLabels[5]]] = 90..100
  BY DEF GiniRange, Slug, GiniTierLabels
<1>9. b = 1 \/ b = 2 \/ b = 3 \/ b = 4 \/ b = 5
  OBVIOUS
<1>10. /\ g \in 0..39 <=> Cardinality(E) = 1
       /\ g \in 40..59 <=> Cardinality(E) = 2
       /\ g \in 60..74 <=> Cardinality(E) = 3
       /\ g \in 75..89 <=> Cardinality(E) = 4
       /\ g \in 90..100 <=> Cardinality(E) = 5
  BY <1>1, <1>5, <1>6, <1>7
<1> QED BY <1>1, <1>3, <1>8, <1>9, <1>10

LEMMA SlugsAreTiers == \A b \in 1..5 : Slug[GiniTierLabels[b]] \in Tiers
<1>1. TAKE b \in 1..5
<1>2. b = 1 \/ b = 2 \/ b = 3 \/ b = 4 \/ b = 5
  OBVIOUS
<1> QED BY <1>2 DEF Slug, GiniTierLabels, Tiers

LEMMA NullHasNoTier == \A t \in Tiers : Null \notin GiniRange[t]
BY DEF Tiers, GiniRange, Null

LEMMA GiniBarsHold == ASSUME Tables PROVE \A card \in GiniBars(LoadStats({})) : CardHolds(card)
<1>1. PICK buckets : buckets = LoadStats({}).giniBuckets
  OBVIOUS
<1>2. buckets = [b \in 1..5 |-> [label |-> GiniTierLabels[b], count |-> GiniHistogram[b]]]
  BY <1>1, LoadedCharts DEF GiniBuckets
<1>3. ASSUME NEW b \in 1..5
      PROVE  CardHolds(Card(buckets[b].count, [Defaults EXCEPT !.tier = Slug[buckets[b].label]]))
  <2>1. PICK t : t = Slug[GiniTierLabels[b]] /\ t \in Tiers
    BY SlugsAreTiers
  <2>2. buckets[b].count = GiniHistogram[b] /\ Slug[buckets[b].label] = t
    BY <1>2, <2>1
  <2>3. GiniHistogram[b] = Cardinality({c \in Rated : WidthBucket(c) = b})
    BY DEF GiniHistogram, Count
  <2>4. ASSUME NEW c \in Visible
        PROVE  (c \in Rated /\ WidthBucket(c) = b) <=> rows[c].state.gini \in GiniRange[t]
    <3>1. c \in Category
      BY DEF Visible, Tracked
    <3>2. rows[c].state.gini \in 0..100 \/ rows[c].state.gini = Null
      BY <3>1, RowHolds
    <3>3. CASE rows[c].state.gini \in 0..100
      <4>1. rows[c].state.gini # Null
        BY <3>3 DEF Null
      <4> QED BY <2>1, <3>3, <4>1, TierOf DEF Rated
    <3>4. CASE rows[c].state.gini = Null
      BY <2>1, <3>4, NullHasNoTier DEF Rated
    <3> QED BY <3>2, <3>3, <3>4
  <2>5. {c \in Rated : WidthBucket(c) = b} = {c \in Visible : rows[c].state.gini \in GiniRange[t]}
    BY <2>4 DEF Rated
  <2>6. PICK link : link = [Defaults EXCEPT !.tier = t]
    OBVIOUS
  <2>7. buckets[b].count = TotalWith(link)
    BY <2>1, <2>2, <2>3, <2>5, <2>6, TierViews
  <2> QED BY <2>2, <2>6, <2>7, CardIs
<1>4. DOMAIN buckets = 1..5
  BY <1>2
<1> QED BY <1>1, <1>3, <1>4 DEF GiniBars

LEMMA EveryCardHolds ==
  ASSUME Tables
  PROVE  \A card \in LinkedCards(LoadStats({}), LoadGlobalMetrics({})) : CardHolds(card)
BY NewCardsHold, TypeCardsHold, VenueCardsHold, GiniBarsHold, BarHolds DEF LinkedCards

(* What is counted by a value adds up over the values.                     *)
LEMMA CountedBy ==
  ASSUME NEW S, IsFiniteSet(S), NEW I, IsFiniteSet(I), NEW f, NEW g, CountsBy(g, f, S, I), \A c \in S : f[c] \in I
  PROVE  SumFunctionOnSet(g, I) = Cardinality(S)
<1>1. S = {c \in S : f[c] \in I}
  OBVIOUS
<1> QED BY <1>1, SumOfCounts

LEMMA SumFunctionIs == ASSUME NEW g, NEW I, DOMAIN g = I PROVE SumFunction(g) = SumFunctionOnSet(g, I)
BY Zenon DEF SumFunction, SumFunctionOnSet, FoldFunction

LEMMA TypesFinite == IsFiniteSet(Types) /\ Cardinality(Types) = 3
<1>1. IsFiniteSet({"FT"}) /\ Cardinality({"FT"}) = 1
  BY FS_Singleton
<1>2. IsFiniteSet({"FT"} \cup {"NFT"}) /\ Cardinality({"FT"} \cup {"NFT"}) = 2
  BY <1>1, FS_AddElement
<1>3. IsFiniteSet({"FT"} \cup {"NFT"} \cup {"FT+NFT"}) /\ Cardinality({"FT"} \cup {"NFT"} \cup {"FT+NFT"}) = 3
  BY <1>2, FS_AddElement
<1>4. Types = {"FT"} \cup {"NFT"} \cup {"FT+NFT"}
  BY DEF Types
<1> QED BY <1>3, <1>4

LEMMA ByTypeAdds == ASSUME Tables PROVE ByTypeTotal(LoadStats({})) = Cardinality(Visible)
<1>1. PICK type : type = [c \in Visible |-> rows[c].type]
  OBVIOUS
<1>2. PICK g : g = [t \in Types |-> LoadStats({}).byType[t]]
  OBVIOUS
<1>3. \A t \in Types : g[t] = Cardinality({c \in Visible : type[c] = t})
  <2>1. TAKE t \in Types
  <2>2. g[t] = Cardinality({c \in Visible : rows[c].type = t})
    BY <1>2, LoadedNumbers DEF TypeCounts, Count
  <2>3. {c \in Visible : rows[c].type = t} = {c \in Visible : type[c] = t}
    BY <1>1
  <2> QED BY <2>2, <2>3
<1>4. \A c \in Visible : type[c] \in Types
  BY <1>1, RowHolds DEF Visible, Tracked
<1>5. SumFunctionOnSet(g, Types) = Cardinality(Visible)
  BY <1>3, <1>4, VisibleFinite, TypesFinite, CountedBy DEF CountsBy
<1>6. ByTypeTotal(LoadStats({})) = SumFunction(g)
  BY <1>2 DEF ByTypeTotal, Total
<1>7. DOMAIN g = Types
  BY <1>2
<1> QED BY <1>5, <1>6, <1>7, SumFunctionIs

(* A chart with a bar for every value there is.                            *)
LEMMA ChartAdds ==
  ASSUME NEW S, IsFiniteSet(S), NEW f, NEW I, I = {f[c] : c \in S}, NEW g,
         CountsBy(g, f, S, I), NEW h, h = [x \in I |-> g[x]]
  PROVE  SumFunction(h) = Cardinality(S)
<1>1. PICK e : e = [c \in S |-> f[c]]
  OBVIOUS
<1>2. e \in Surjection(S, I)
  BY <1>1 DEF Surjection
<1>3. IsFiniteSet(I)
  BY <1>2, FS_Surjection
<1>4. SumFunctionOnSet(g, I) = Cardinality(S)
  BY <1>3, CountedBy
<1>7. SumFunction(h) = SumFunctionOnSet(h, I)
  BY SumFunctionIs
<1>8. SumFunctionOnSet(h, I) = SumFunctionOnSet(g, I)
  <2>1. \A x \in I : g[x] \in Int /\ h[x] = g[x]
    <3>1. TAKE x \in I
    <3>2. PICK C : C = {c \in S : f[c] = x}
      OBVIOUS
    <3>3. C \in SUBSET S
      BY <3>2
    <3>4. Cardinality(C) \in Nat
      BY <3>3, FS_Subset, FS_CardinalityType
    <3>5. g[x] = Cardinality(C)
      BY <3>2 DEF CountsBy
    <3> QED BY <3>4, <3>5
  <2> QED BY <1>3, <2>1, SumSame
<1> QED BY <1>4, <1>7, <1>8

LEMMA GrowthAdds == GrowthTotal(LoadStats({})) = Cardinality(Visible)
<1>1. PICK month : month = [c \in Visible |-> Age(c) \div Month]
  OBVIOUS
<1>2. PICK g : g = LoadStats({}).genesisByMonth
  OBVIOUS
<1>3. g = [m \in {Age(c) \div Month : c \in Visible} |-> Cardinality({c \in Visible : Age(c) \div Month = m})]
  BY <1>2, LoadedCharts DEF GenesisMonths, Count
<1>4. PICK months : months = {month[c] : c \in Visible}
  OBVIOUS
<1>5. months = {Age(c) \div Month : c \in Visible}
  BY <1>1, <1>4
<1>6. CountsBy(g, month, Visible, months) /\ DOMAIN g = months
  <2>1. ASSUME NEW m \in months PROVE g[m] = Cardinality({c \in Visible : month[c] = m})
    <3>1. {c \in Visible : Age(c) \div Month = m} = {c \in Visible : month[c] = m}
      BY <1>1
    <3> QED BY <1>3, <1>5, <3>1
  <2> QED BY <1>3, <1>5, <2>1 DEF CountsBy
<1>7. PICK h : h = [m \in months |-> g[m]]
  OBVIOUS
<1>8. SumFunction(h) = Cardinality(Visible)
  BY <1>4, <1>6, <1>7, VisibleFinite, ChartAdds
<1> QED BY <1>2, <1>6, <1>7, <1>8 DEF GrowthTotal, Total

LEMMA FungibleFinite == Fungible \in SUBSET Visible /\ IsFiniteSet(Fungible) /\ Cardinality(Fungible) \in Nat
<1>1. Fungible \in SUBSET Visible
  BY DEF Fungible
<1> QED BY <1>1, VisibleFinite, FS_Subset, FS_CardinalityType

LEMMA SupplyAdds == SupplyBars(LoadStats({})) = Cardinality(Fungible)
<1>1. PICK f : f = [c \in Fungible |-> SupplyBucket(c)]
  OBVIOUS
<1>2. PICK g : g = LoadStats({}).supplyBuckets
  OBVIOUS
<1>3. g = [b \in {SupplyBucket(c) : c \in Fungible} |-> Cardinality({c \in Fungible : SupplyBucket(c) = b})]
  BY <1>2, LoadedCharts DEF SupplyBuckets, Count
<1>4. PICK I : I = {f[c] : c \in Fungible}
  OBVIOUS
<1>5. I = {SupplyBucket(c) : c \in Fungible}
  BY <1>1, <1>4
<1>6. CountsBy(g, f, Fungible, I) /\ DOMAIN g = I
  <2>1. ASSUME NEW b \in I PROVE g[b] = Cardinality({c \in Fungible : f[c] = b})
    <3>1. {c \in Fungible : SupplyBucket(c) = b} = {c \in Fungible : f[c] = b}
      BY <1>1
    <3> QED BY <1>3, <1>5, <3>1
  <2> QED BY <1>3, <1>5, <2>1 DEF CountsBy
<1>7. PICK h : h = [b \in I |-> g[b]]
  OBVIOUS
<1>8. SumFunction(h) = Cardinality(Fungible)
  BY <1>4, <1>6, <1>7, FungibleFinite, ChartAdds
<1> QED BY <1>2, <1>6, <1>7, <1>8 DEF SupplyBars, Total

(* Some of the bars of a count, in one.                                    *)
LEMMA PartAdds ==
  ASSUME NEW S, IsFiniteSet(S), NEW f, NEW I, IsFiniteSet(I), NEW g,
         CountsBy(g, f, S, I), NEW C, C = {c \in S : f[c] \in I}, NEW h, h = [x \in I |-> g[x]]
  PROVE  SumFunction(h) = Cardinality(C)
<1>1. SumFunction(h) = SumFunctionOnSet(h, I)
  BY SumFunctionIs
<1>2. CountsBy(h, f, S, I)
  BY DEF CountsBy
<1> QED BY <1>1, <1>2, SumOfCounts

LEMMA DecimalsAdd == DecimalsBars(LoadStats({})) = Cardinality(Fungible)
<1>1. PICK f : f = [c \in Fungible |-> rows[c].decimals]
  OBVIOUS
<1>2. PICK D : D = {f[c] : c \in Fungible}
  OBVIOUS
<1>3. PICK g : g = DecimalsCounts
  OBVIOUS
<1>4. D = {rows[c].decimals : c \in Fungible}
  BY <1>1, <1>2
<1>5. g = [d \in D |-> Cardinality({c \in Fungible : rows[c].decimals = d})]
  BY <1>3, <1>4 DEF DecimalsCounts, Count
<1>6. IsFiniteSet(D)
  <2>1. f \in Surjection(Fungible, D)
    BY <1>1, <1>2 DEF Surjection
  <2> QED BY <2>1, FungibleFinite, FS_Surjection
<1>7. ASSUME NEW d \in D PROVE g[d] = Cardinality({c \in Fungible : f[c] = d})
  <2>1. {c \in Fungible : rows[c].decimals = d} = {c \in Fungible : f[c] = d}
    BY <1>1
  <2> QED BY <1>5, <2>1
<1>8. PICK bars, other : /\ bars = [d \in HistogramDecimals |-> SumFunction([x \in {d} \cap DOMAIN g |-> g[x]])]
                         /\ other = SumFunction([x \in (DOMAIN g \ HistogramDecimals) \cap DOMAIN g |-> g[x]])
  OBVIOUS
<1>9. LoadStats({}).decimals = [bars |-> bars, other |-> other]
  BY <1>3, <1>8, LoadedCharts DEF DecimalsBuckets, Total
<1>10. ASSUME NEW d \in HistogramDecimals PROVE bars[d] = Cardinality({c \in Fungible : f[c] = d})
  <2>1. PICK I : I = {d} \cap DOMAIN g
    OBVIOUS
  <2>2. PICK C : C = {c \in Fungible : f[c] \in I}
    OBVIOUS
  <2>3. I \in SUBSET D /\ IsFiniteSet(I)
    BY <1>5, <1>6, <2>1, FS_Subset
  <2>4. CountsBy(g, f, Fungible, I)
    BY <1>7, <2>3 DEF CountsBy
  <2>5. SumFunction([x \in I |-> g[x]]) = Cardinality(C)
    BY <2>2, <2>3, <2>4, FungibleFinite, PartAdds
  <2>6. C = {c \in Fungible : f[c] = d}
    BY <1>2, <1>5, <2>1, <2>2
  <2> QED BY <1>8, <2>1, <2>5, <2>6
<1>11. PICK A, B : A = {c \in Fungible : f[c] \in HistogramDecimals} /\ B = Fungible \ A
  OBVIOUS
<1>12. SumFunction([d \in DOMAIN bars |-> bars[d]]) = Cardinality(A)
  <2>1. CountsBy(bars, f, Fungible, HistogramDecimals)
    BY <1>10 DEF CountsBy
  <2>2. SumFunction([x \in HistogramDecimals |-> bars[x]]) = Cardinality(A)
    BY <1>11, <2>1, FungibleFinite, SiteAssumption, PartAdds
  <2>3. DOMAIN bars = HistogramDecimals
    BY <1>8
  <2> QED BY <2>2, <2>3
<1>13. other = Cardinality(B)
  <2>1. PICK I : I = (DOMAIN g \ HistogramDecimals) \cap DOMAIN g
    OBVIOUS
  <2>2. I \in SUBSET D /\ IsFiniteSet(I)
    BY <1>5, <1>6, <2>1, FS_Subset
  <2>3. CountsBy(g, f, Fungible, I)
    BY <1>7, <2>2 DEF CountsBy
  <2>4. B = {c \in Fungible : f[c] \in I}
    BY <1>2, <1>5, <1>11, <2>1
  <2>5. SumFunction([x \in I |-> g[x]]) = Cardinality(B)
    BY <2>2, <2>3, <2>4, FungibleFinite, PartAdds
  <2> QED BY <1>8, <2>1, <2>5
<1>14. Cardinality(A) + Cardinality(B) = Cardinality(Fungible)
  <2>1. A \in SUBSET Fungible /\ B \in SUBSET Fungible /\ A \cup B = Fungible /\ A \cap B = {}
    BY <1>11
  <2>2. IsFiniteSet(A) /\ IsFiniteSet(B) /\ Cardinality(A) \in Nat /\ Cardinality(B) \in Nat
    BY <2>1, FungibleFinite, FS_Subset, FS_CardinalityType
  <2>3. Cardinality(A \cup B) = Cardinality(A) + Cardinality(B) - Cardinality(A \cap B)
    BY <2>2, FS_Union
  <2>4. Cardinality(A \cap B) = 0
    BY <2>1, FS_EmptySet
  <2>5. Cardinality(A \cup B) = Cardinality(Fungible)
    BY <2>1, Zenon
  <2> QED BY <2>2, <2>3, <2>4, <2>5
<1> QED BY <1>9, <1>12, <1>13, <1>14 DEF DecimalsBars, Total

LEMMA FungibleTypes == LoadStats({}).byType["FT"] + LoadStats({}).byType["FT+NFT"] = Cardinality(Fungible)
<1>1. PICK A, B : A = {c \in Visible : rows[c].type = "FT"} /\ B = {c \in Visible : rows[c].type = "FT+NFT"}
  OBVIOUS
<1>2. LoadStats({}).byType["FT"] = Cardinality(A) /\ LoadStats({}).byType["FT+NFT"] = Cardinality(B)
  BY <1>1, LoadedNumbers DEF TypeCounts, Count, Types
<1>3. A \in SUBSET Visible /\ B \in SUBSET Visible /\ A \cap B = {} /\ A \cup B = Fungible
  BY <1>1 DEF Fungible
<1>4. IsFiniteSet(A) /\ IsFiniteSet(B) /\ Cardinality(A) \in Nat /\ Cardinality(B) \in Nat
  BY <1>3, VisibleFinite, FS_Subset, FS_CardinalityType
<1>5. Cardinality(A \cup B) = Cardinality(A) + Cardinality(B) - Cardinality(A \cap B)
  BY <1>4, FS_Union
<1>6. Cardinality(A \cap B) = 0
  BY <1>3, FS_EmptySet
<1>7. Cardinality(A \cup B) = Cardinality(Fungible)
  BY <1>3, Zenon
<1> QED BY <1>2, <1>4, <1>5, <1>6, <1>7

(* The first page of the API counts every visible token.                   *)
LEMMA ApiCounts == ASSUME Tables PROVE ApiTokens(ApiDefaults).total = Cardinality(Visible)
<1>1. PICK p : p = ApiDefaults
  OBVIOUS
<1>2. /\ p.sort = "name" /\ p.offset = 0 /\ p.limit = PageSize /\ p.type = "all" /\ p.crc20 = "all"
      /\ p.verified = FALSE /\ p.burned = "any" /\ p.symbol = Null /\ p.search = "none" /\ p.minSupply = Null
  BY <1>1 DEF ApiDefaults
<1>3. ApiMatching(p) = Visible
  BY <1>2 DEF ApiMatching, TypeFilter, Crc20Filter
<1>4. PICK key : key = [c \in ApiMatching(p) |-> ApiSortKey(p.sort, c) \o <<c>>]
  OBVIOUS
<1>5. IsOrder(key, 3) /\ DOMAIN key = Visible
  BY <1>2, <1>3, <1>4, ApiOrder DEF Tables
<1>6. PICK list : list = PageOf(key, 0, PageSize)
  OBVIOUS
<1>7. list = Top(key, PageSize)
  BY <1>5, <1>6, Sizes, PageLists
<1>8. Len(list) = (IF Cardinality(DOMAIN key) < PageSize THEN Cardinality(DOMAIN key) ELSE PageSize)
  BY <1>5, <1>7, Sizes, TopLists
<1>9. ApiTokens(p).total = IF Len(list) < PageSize THEN 0 + Len(list) ELSE Cardinality(Visible)
  BY <1>2, <1>3, <1>4, <1>6 DEF ApiTokens
<1>10. Cardinality(Visible) \in Nat /\ PageSize \in Nat
  BY VisibleFinite, Sizes
<1> QED BY <1>1, <1>5, <1>8, <1>9, <1>10

(* Rounded shares of the three types make up the whole, but for a          *)
(* thousandth each.                                                        *)
LEMMA ThreeTypes ==
  ASSUME NEW f, \A t \in Types : f[t] \in Int
  PROVE  SumFunctionOnSet(f, Types) = f["FT"] + f["NFT"] + f["FT+NFT"]
<1>1. PICK A, B, C : A = {"FT"} /\ B = {"FT", "NFT"} /\ C = Types
  OBVIOUS
<1>2. IsFiniteSet(A) /\ IsFiniteSet(B) /\ IsFiniteSet(C)
  <2>1. B \in SUBSET C /\ A \in SUBSET C
    BY <1>1 DEF Types
  <2> QED BY <1>1, <2>1, TypesFinite, FS_Subset
<1>3. SumFunctionOnSet(f, C) = f["FT+NFT"] + SumFunctionOnSet(f, B)
  <2>1. "FT+NFT" \in C /\ C \ {"FT+NFT"} = B
    BY <1>1 DEF Types
  <2> QED BY <1>1, <1>2, <2>1, SumTakeOut
<1>4. SumFunctionOnSet(f, B) = f["NFT"] + SumFunctionOnSet(f, A)
  <2>1. "NFT" \in B /\ B \ {"NFT"} = A /\ \A x \in B : f[x] \in Int
    BY <1>1 DEF Types
  <2> QED BY <1>2, <2>1, SumTakeOut
<1>5. SumFunctionOnSet(f, A) = f["FT"] + SumFunctionOnSet(f, {})
  <2>1. "FT" \in A /\ A \ {"FT"} = {} /\ \A x \in A : f[x] \in Int
    BY <1>1 DEF Types
  <2> QED BY <1>2, <2>1, SumTakeOut
<1>6. SumFunctionOnSet(f, {}) = 0
  BY SumEmpty
<1>7. f["FT"] \in Int /\ f["NFT"] \in Int /\ f["FT+NFT"] \in Int
  BY DEF Types
<1> QED BY <1>1, <1>3, <1>4, <1>5, <1>6, <1>7

LEMMA Rounded ==
  ASSUME NEW n \in Nat \ {0}, NEW a \in Nat
  PROVE  LET q == (2000 * a + n) \div (2 * n)
         IN q \in Int /\ 2 * n * q <= 2000 * a + n /\ 2000 * a + n < 2 * n * q + 2 * n
<1>1. PICK x, y : x = 2000 * a + n /\ y = 2 * n
  OBVIOUS
<1>2. x \in Int /\ y \in Nat \ {0}
  BY <1>1
<1>3. x \div y \in Int /\ y * (x \div y) <= x /\ x < y * (x \div y) + y
  BY <1>2
<1> QED BY <1>1, <1>3

LEMMA Monotone ==
  ASSUME NEW n \in Nat \ {0}, NEW a \in Int, NEW b \in Int, n * a < n * b
  PROVE  a < b
OBVIOUS

LEMMA SharesAdd ==
  ASSUME NEW n \in Nat \ {0}, NEW a \in Nat, NEW b \in Nat, NEW c \in Nat, a + b + c = n,
         NEW x \in Int, NEW y \in Int, NEW z \in Int,
         2 * n * x <= 2000 * a + n, 2000 * a + n < 2 * n * x + 2 * n,
         2 * n * y <= 2000 * b + n, 2000 * b + n < 2 * n * y + 2 * n,
         2 * n * z <= 2000 * c + n, 2000 * c + n < 2 * n * z + 2 * n
  PROVE  x + y + z \in 998..1002
<1>1. PICK s : s = x + y + z /\ s \in Int
  OBVIOUS
<1>2. 2 * n * s = 2 * n * x + 2 * n * y + 2 * n * z
  BY <1>1
<1>3. 2 * n * s <= 2003 * n /\ 2003 * n < 2 * n * s + 6 * n
  BY <1>2
<1>4. n * (2 * s) < n * 2004 /\ n * 2002 < n * (2 * s + 6)
  BY <1>1, <1>3
<1>5. 2 * s < 2004 /\ 2002 < 2 * s + 6
  BY <1>1, <1>4, Monotone
<1> QED BY <1>1, <1>5

LEMMA SharesHold ==
  ASSUME Tables, Cardinality(Visible) > 0
  PROVE  Total(Types, LAMBDA t : TypeShare(LoadStats({}), t)) \in 998..1002
<1>1. PICK n, by : n = Cardinality(Visible) /\ by = LoadStats({}).byType
  OBVIOUS
<1>2. n \in Nat \ {0}
  BY <1>1, VisibleFinite
<1>3. ByTypeTotal(LoadStats({})) = n
  BY <1>1, ByTypeAdds
<1>4. ASSUME NEW t \in Types PROVE by[t] \in Nat
  <2>1. PICK S : S = {c \in Visible : rows[c].type = t}
    OBVIOUS
  <2>2. S \in SUBSET Visible
    BY <2>1
  <2>3. Cardinality(S) \in Nat
    BY <2>2, VisibleFinite, FS_Subset, FS_CardinalityType
  <2> QED BY <1>1, <2>1, <2>3, LoadedNumbers DEF TypeCounts, Count
<1>5. PICK h : h = [t \in Types |-> TypeShare(LoadStats({}), t)]
  OBVIOUS
<1>6. \A t \in Types : h[t] = (2000 * by[t] + n) \div (2 * n)
  BY <1>1, <1>2, <1>3, <1>5 DEF TypeShare
<1>7. \A t \in Types : /\ h[t] \in Int /\ 2 * n * h[t] <= 2000 * by[t] + n
                       /\ 2000 * by[t] + n < 2 * n * h[t] + 2 * n
  BY <1>2, <1>4, <1>6, Rounded
<1>8. by["FT"] + by["NFT"] + by["FT+NFT"] = n
  <2>1. PICK g : g = [t \in Types |-> by[t]]
    OBVIOUS
  <2>2. ByTypeTotal(LoadStats({})) = SumFunction(g)
    BY <1>1, <2>1 DEF ByTypeTotal, Total
  <2>3. SumFunction(g) = SumFunctionOnSet(g, Types)
    BY <2>1, SumFunctionIs
  <2>4. \A t \in Types : g[t] \in Int
    BY <1>4, <2>1
  <2>5. SumFunctionOnSet(g, Types) = g["FT"] + g["NFT"] + g["FT+NFT"]
    BY <2>4, ThreeTypes
  <2>6. g["FT"] = by["FT"] /\ g["NFT"] = by["NFT"] /\ g["FT+NFT"] = by["FT+NFT"]
    BY <2>1 DEF Types
  <2> QED BY <1>3, <2>2, <2>3, <2>5, <2>6
<1>9. "FT" \in Types /\ "NFT" \in Types /\ "FT+NFT" \in Types
  BY DEF Types
<1>10. h["FT"] + h["NFT"] + h["FT+NFT"] \in 998..1002
  <2>1. PICK a, b, c, x, y, z : /\ a = by["FT"] /\ b = by["NFT"] /\ c = by["FT+NFT"]
                                /\ x = h["FT"] /\ y = h["NFT"] /\ z = h["FT+NFT"]
    OBVIOUS
  <2>2. a \in Nat /\ b \in Nat /\ c \in Nat /\ a + b + c = n /\ x \in Int /\ y \in Int /\ z \in Int
    BY <1>4, <1>7, <1>8, <1>9, <2>1
  <2>3. /\ 2 * n * x <= 2000 * a + n /\ 2000 * a + n < 2 * n * x + 2 * n
        /\ 2 * n * y <= 2000 * b + n /\ 2000 * b + n < 2 * n * y + 2 * n
        /\ 2 * n * z <= 2000 * c + n /\ 2000 * c + n < 2 * n * z + 2 * n
    BY <1>7, <1>9, <2>1
  <2>4. x + y + z \in 998..1002
    BY <1>2, <2>2, <2>3, SharesAdd
  <2> QED BY <2>1, <2>4
<1>11. SumFunctionOnSet(h, Types) = h["FT"] + h["NFT"] + h["FT+NFT"]
  BY <1>7, ThreeTypes
<1>12. Total(Types, LAMBDA t : TypeShare(LoadStats({}), t)) = SumFunction(h)
  BY <1>5 DEF Total
<1>13. SumFunction(h) = SumFunctionOnSet(h, Types)
  BY <1>5, SumFunctionIs
<1> QED BY <1>10, <1>11, <1>12, <1>13

LEMMA OfTheWhole ==
  ASSUME NEW n \in Nat \ {0}, NEW a \in 0..n
  PROVE  (100 * a) \div n <= 100
<1>1. PICK x : x = 100 * a /\ x \in Int /\ x <= n * 100
  OBVIOUS
<1>2. PICK q : q = x \div n
  OBVIOUS
<1>3. q \in Int /\ n * q <= x
  BY <1>1, <1>2
<1>4. n * q < n * 101
  BY <1>1, <1>3
<1>5. q < 101
  BY <1>3, <1>4, Monotone
<1> QED BY <1>1, <1>2, <1>3, <1>5

LEMMA CompletenessHolds == \A f \in DOMAIN Completeness(LoadStats({})) : Completeness(LoadStats({}))[f] <= 100
<1>1. PICK m : m = LoadStats({}).metadata
  OBVIOUS
<1>2. /\ m.hasName = Cardinality({c \in Visible : rows[c].name.quality < 3})
      /\ m.hasSymbol = Cardinality({c \in Visible : rows[c].symbol # Null})
      /\ m.hasIcon = Cardinality({c \in Visible : rows[c].icon \in Uri})
      /\ m.total = Cardinality(Visible)
  <2>1. m = [hasName |-> Cardinality({c \in Visible : rows[c].name.quality < 3}),
             hasSymbol |-> Cardinality({c \in Visible : rows[c].symbol # Null}),
             hasIcon |-> Cardinality({c \in Visible : rows[c].icon \in Uri}),
             total |-> Cardinality(Visible)]
    BY <1>1, LoadedCharts, Zenon DEF Metadata, Count
  <2> QED BY <2>1
<1>3. ASSUME NEW S \in SUBSET Visible PROVE Cardinality(S) \in 0..Cardinality(Visible)
  BY VisibleFinite, FS_Subset, FS_CardinalityType
<1>4. m.hasName \in 0..m.total /\ m.hasSymbol \in 0..m.total /\ m.hasIcon \in 0..m.total
  <2>1. /\ {c \in Visible : rows[c].name.quality < 3} \in SUBSET Visible
        /\ {c \in Visible : rows[c].symbol # Null} \in SUBSET Visible
        /\ {c \in Visible : rows[c].icon \in Uri} \in SUBSET Visible
    OBVIOUS
  <2> QED BY <1>2, <1>3, <2>1
<1>5. CASE m.total = 0
  BY <1>1, <1>5 DEF Completeness
<1>6. CASE m.total # 0
  <2>1. Completeness(LoadStats({})) = [f \in {"hasName", "hasSymbol", "hasIcon"} |-> (100 * m[f]) \div m.total]
    BY <1>1, <1>6 DEF Completeness, MetaPct
  <2>2. m.total \in Nat \ {0}
    BY <1>2, <1>6, VisibleFinite
  <2>3. ASSUME NEW f \in {"hasName", "hasSymbol", "hasIcon"} PROVE m[f] \in 0..m.total
    BY <1>4
  <2> QED BY <2>1, <2>2, <2>3, OfTheWhole
<1> QED BY <1>5, <1>6

LEMMA ModeratedAgree == ASSUME Tables PROVE LoadStats({}).moderated = Cardinality(LoadModerated)
<1>1. {c \in Category : hidden[c] # Never} = {c \in Tracked : hidden[c] # Never}
  BY DEF Tables, Tracked
<1> QED BY <1>1, LoadedNumbers DEF Moderated, LoadModerated

LEMMA Crc20View ==
  ASSUME NEW mode \in {"true", "canonical"}, NEW S, Finds(S, "all", {}, {}, No, "all", mode)
  PROVE  TotalWith([Defaults EXCEPT !.crc20 = mode]) = Cardinality(S)
<1>1. PICK p : p = Defaults
  OBVIOUS
<1>2. [p EXCEPT !.crc20 = mode] = View("tvl", "all", {}, {}, No, "all", mode)
  BY <1>1, DefaultView, EditedCrc20
<1>3. mode \in Crc20Modes \cup {"all"}
  BY DEF Crc20Modes
<1>4. TotalWith(View("tvl", "all", {}, {}, No, "all", mode)) = Cardinality(S)
  BY <1>3, ViewCounts
<1> QED BY <1>1, <1>2, <1>4

LEMMA CovenantsAgree == LoadCrc20.totalCategories >= TotalWith([Defaults EXCEPT !.crc20 = "true"])
<1>1. PICK S : S = {c \in Visible : rows[c].crc20.detected}
  OBVIOUS
<1>2. Finds(S, "all", {}, {}, No, "all", "true")
  BY <1>1, FitsCrc20 DEF Finds
<1>3. PICK p : p = [Defaults EXCEPT !.crc20 = "true"]
  OBVIOUS
<1>4. TotalWith(p) = Cardinality(S)
  BY <1>2, <1>3, Crc20View
<1>5. S \in SUBSET Covenants /\ Covenants \in SUBSET Category
  BY <1>1 DEF Covenants, Visible, Tracked
<1>6. Cardinality(S) \in Nat /\ Cardinality(Covenants) \in Nat /\ Cardinality(S) <= Cardinality(Covenants)
  BY <1>5, FiniteParts, FS_Subset
<1> QED BY <1>3, <1>4, <1>6 DEF LoadCrc20

(* A number that links to the directory is the number of tokens found      *)
(* there, and what is counted in parts adds up to the whole: every visible *)
(* token has one type, one month and one age, and one place in each chart. *)
LEMMA TotalsHold == ASSUME Tables PROVE TotalsAgree
<1> DEFINE s == LoadStats({})
           bar == LoadGlobalMetrics({})
           all == TotalWith(Defaults)
<1>2. all = Cardinality(Visible)
  BY AllView
<1>3. \A card \in LinkedCards(s, bar) : card.count = TotalWith(card.link)
  BY EveryCardHolds DEF CardHolds
<1>4. ByTypeTotal(s) = all /\ GrowthTotal(s) = all
  BY <1>2, ByTypeAdds, GrowthAdds
<1>5. DecimalsBars(s) = s.byType["FT"] + s.byType["FT+NFT"] /\ SupplyBars(s) = DecimalsBars(s)
  BY DecimalsAdd, SupplyAdds, FungibleTypes
<1>6. bar.tokensTracked = all /\ s.metadata.total = all /\ ApiTokens(ApiDefaults).total = all
  BY <1>2, LoadedBar, LoadedCharts, ApiCounts DEF Metadata
<1>7. s.moderated = Cardinality(LoadModerated)
  BY ModeratedAgree
<1>8. LoadCrc20.totalCategories >= TotalWith([Defaults EXCEPT !.crc20 = "true"])
  BY CovenantsAgree
<1>9. all > 0 => Total(Types, LAMBDA t : TypeShare(s, t)) \in 998..1002
  BY <1>2, SharesHold
<1>10. \A f \in DOMAIN Completeness(s) : Completeness(s)[f] <= 100
  BY CompletenessHolds
<1> QED BY <1>3, <1>4, <1>5, <1>6, <1>7, <1>8, <1>9, <1>10, ZenonT(40) DEF TotalsAgree

LEMMA PresenceIs ==
  ASSUME Tables, NEW c \in Visible
  PROVE  Presence(c) \in SUBSET Venues /\ \A v \in Venues : v \in Presence(c) <=> OnVenue(v, c)
<1>1. Presence(c) \in SUBSET Venues
  BY DEF Presence
<1>2. "cauldron" \in Presence(c) <=> Priced(rows[c].cauldron)
  BY DEF Presence, Venues
<1>3. "fex" \in Presence(c) <=> Priced(rows[c].fex)
  BY DEF Presence, Venues
<1>4. "tapswap" \in Presence(c) <=> OnTapswap(c)
  BY DEF Presence, Venues
<1>5. \A v \in Venues : v = "cauldron" \/ v = "fex" \/ v = "tapswap"
  BY DEF Venues
<1> QED BY <1>1, <1>2, <1>3, <1>4, <1>5, OnVenueIs

LEMMA WaysFinite == IsFiniteSet(SUBSET Venues)
<1>1. IsFiniteSet({"cauldron"})
  BY FS_Singleton
<1>2. IsFiniteSet({"cauldron"} \cup {"tapswap"})
  BY <1>1, FS_AddElement
<1>3. IsFiniteSet({"cauldron"} \cup {"tapswap"} \cup {"fex"})
  BY <1>2, FS_AddElement
<1>4. Venues = {"cauldron"} \cup {"tapswap"} \cup {"fex"}
  BY DEF Venues
<1> QED BY <1>3, <1>4, FS_SUBSET

(* The venues a token is counted on are those it is filtered by.           *)
LEMMA VenuesHold == ASSUME Tables PROVE VenuesAgree
<1>1. PICK ways : ways = (SUBSET Venues) \ {{}}
  OBVIOUS
<1>2. PICK overlap : overlap = [x \in ways |-> Cardinality({c \in Visible : Presence(c) = x})]
  OBVIOUS
<1>3. OverlapCards(LoadStats({})) = overlap
  BY <1>1, <1>2, LoadedCharts DEF OverlapCards, VenueOverlap, Count
<1>4. PICK f : f = [c \in Visible |-> Presence(c)]
  OBVIOUS
<1>5. \A x \in ways : overlap[x] = Cardinality({c \in Visible : f[c] = x})
  <2>1. TAKE x \in ways
  <2>2. {c \in Visible : Presence(c) = x} = {c \in Visible : f[c] = x}
    BY <1>4
  <2> QED BY <1>2, <2>2
<1>6. \A c \in Visible : f[c] \in SUBSET Venues /\ \A v \in Venues : v \in f[c] <=> OnVenue(v, c)
  BY <1>4, PresenceIs
<1>0. \A x \in SUBSET Venues : x \in ways <=> x # {}
  BY <1>1
<1>7. ASSUME NEW I \in SUBSET ways
      PROVE  SumFunction([x \in I |-> overlap[x]]) = Cardinality({c \in Visible : f[c] \in I})
  <2>1. IsFiniteSet(I)
    BY <1>1, WaysFinite, FS_Subset
  <2>2. CountsBy(overlap, f, Visible, I)
    BY <1>5 DEF CountsBy
  <2>3. PICK C, h : C = {c \in Visible : f[c] \in I} /\ h = [x \in I |-> overlap[x]]
    OBVIOUS
  <2>4. SumFunction(h) = Cardinality(C)
    BY <2>1, <2>2, <2>3, VisibleFinite, PartAdds
  <2> QED BY <2>3, <2>4
<1>8. ASSUME NEW v \in Venues
      PROVE  Total({x \in DOMAIN overlap : v \in x}, LAMBDA x : overlap[x])
               = TotalWith([Defaults EXCEPT !.venues = {v}])
  <2>1. PICK I : I = {x \in DOMAIN overlap : v \in x}
    OBVIOUS
  <2>2. I \in SUBSET ways
    BY <1>2, <2>1
  <2>3. Total(I, LAMBDA x : overlap[x]) = Cardinality({c \in Visible : f[c] \in I})
    BY <1>7, <2>2 DEF Total
  <2>4. {c \in Visible : f[c] \in I} = {c \in Visible : OnVenue(v, c)}
    <3>1. ASSUME NEW c \in Visible PROVE f[c] \in I <=> OnVenue(v, c)
      <4>1. f[c] \in I <=> f[c] \in ways /\ v \in f[c]
        BY <1>2, <2>1
      <4>2. v \in f[c] => f[c] \in ways
        BY <1>0, <1>6
      <4> QED BY <1>6, <4>1, <4>2
    <3> QED BY <3>1
  <2>5. PICK p, y : p = Defaults /\ y = {v}
    OBVIOUS
  <2>6. [p EXCEPT !.venues = y] = View("tvl", "all", y, {}, No, "all", "all")
    BY <2>5, DefaultView, EditedVenues
  <2>7. TotalWith(View("tvl", "all", {v}, {}, No, "all", "all")) = Cardinality({c \in Visible : OnVenue(v, c)})
    BY VenueViews
  <2> QED BY <2>1, <2>3, <2>4, <2>5, <2>6, <2>7
<1>9. Total(DOMAIN overlap, LAMBDA x : overlap[x]) = TotalWith([Defaults EXCEPT !.listed = TRUE])
  <2>1. Total(DOMAIN overlap, LAMBDA x : overlap[x]) = Cardinality({c \in Visible : f[c] \in ways})
    BY <1>2, <1>7 DEF Total
  <2>2. {c \in Visible : f[c] \in ways} = {c \in Visible : \E v \in Venues : OnVenue(v, c)}
    <3>1. ASSUME NEW c \in Visible PROVE f[c] \in ways <=> \E v \in Venues : OnVenue(v, c)
      <4>1. f[c] \in ways <=> f[c] # {}
        BY <1>0, <1>6
      <4>2. f[c] # {} <=> \E v \in Venues : v \in f[c]
        BY <1>6
      <4> QED BY <1>6, <4>1, <4>2
    <3> QED BY <3>1
  <2>3. PICK p : p = Defaults
    OBVIOUS
  <2>4. [p EXCEPT !.listed = Yes] = View("tvl", "all", {}, {}, Yes, "all", "all")
    BY <2>3, DefaultView, EditedListed
  <2>5. [p EXCEPT !.listed = TRUE] = [p EXCEPT !.listed = Yes]
    BY DEF Yes
  <2> QED BY <2>1, <2>2, <2>3, <2>4, <2>5, ListedView
<1> DEFINE shown == OverlapCards(LoadStats({}))
<1>10. \A v \in Venues : Total({x \in DOMAIN shown : v \in x}, LAMBDA x : shown[x])
                          = TotalWith([Defaults EXCEPT !.venues = {v}])
  BY <1>3, <1>8 DEF Total
<1>11. Total(DOMAIN shown, LAMBDA x : shown[x]) = TotalWith([Defaults EXCEPT !.listed = TRUE])
  BY <1>3, <1>9 DEF Total
<1> QED BY <1>10, <1>11, Zenon DEF VenuesAgree

(* The page of a visible token, when no query fails.                       *)
LEMMA PageIs ==
  ASSUME NEW c \in Visible, NEW page, page = LoadToken(c, "week", {})
  PROVE  /\ page.status = 200 /\ page.token = TokenHeader(c) /\ page.trust = ScoreBcmrTrust(rows[c].profile)
         /\ page.tier1 = FirstTier(c, {}) /\ page.tvlRank = TvlRank(c) /\ page.holdersRank = HoldersRank(c)
         /\ page.versions = GetBcmrVersions(c)
<1>1. PageStatus(c) = 200
  BY DEF PageStatus, Visible
<1>2. page = [status |-> 200, token |-> TokenHeader(c), trust |-> ScoreBcmrTrust(rows[c].profile),
              tier1 |-> FirstTier(c, {}), chart |-> PriceBuckets(c, "week"),
              tvlRank |-> TvlRank(c), holdersRank |-> HoldersRank(c), versions |-> GetBcmrVersions(c)]
  BY <1>1, Zenon DEF LoadToken
<1> QED BY <1>2

LEMMA NoPage ==
  ASSUME NEW c \in Category, c \notin Visible
  PROVE  LoadToken(c, "week", {}).status # 200
<1>1. PageStatus(c) # 200
  BY DEF PageStatus, Visible
<1>2. LoadToken(c, "week", {}) = [status |-> PageStatus(c)]
  BY <1>1, Zenon DEF LoadToken
<1>3. PICK page : page = LoadToken(c, "week", {})
  OBVIOUS
<1>4. page.status = PageStatus(c)
  BY <1>2, <1>3
<1> QED BY <1>1, <1>3, <1>4

LEMMA HeaderIs ==
  ASSUME NEW c
  PROVE  TokenHeader(c).api = ApiRow(c) /\ TokenHeader(c).iconStatus = ResolveIconStatus(rows[c].icon)
BY DEF TokenHeader

LEMMA ApiRowIs ==
  ASSUME NEW c, NEW r, r = ApiRow(c)
  PROVE  /\ r.icon = IconClearedHash(rows[c].icon) /\ r.burned = rows[c].state.burned
         /\ r.minting = rows[c].state.minting /\ r.crc20 = rows[c].crc20 /\ r.firstNRank = FirstNRankFor(c)
         /\ r.holders = rows[c].state.holders /\ r.supply = rows[c].state.supply
BY DEF ApiRow

LEMMA TierIs ==
  ASSUME NEW c, NEW t, t = FirstTier(c, {})
  PROVE  /\ t.holders = Holders(c) /\ t.offers = Offers(c) /\ t.votes = GetVoteCounts(c)
         /\ t.badges = MoverBadges(c) /\ t.extremes = PriceExtremes(c) /\ t.topShare = TopHolderShare(c)
         /\ t.top10Share = Top10HolderShare(c) /\ t.crc20 = FetchCrc20Detail(c)
         /\ t.firstNRank = FirstNRankFor(c) /\ t.fexPrice = rows[c].fex.price
         /\ t.trades = RecentTrades(c)
BY DEF FirstTier

LEMMA StatusIs == ASSUME NEW u PROVE ResolveIconStatus(u) = "cleared" <=> IconClearedHash(u) # NoHash
<1>1. PICK state : state = IF links[u].hash = NoHash THEN "none" ELSE decisions[links[u].hash].state
  OBVIOUS
<1>2. ResolveIconStatus(u) = CASE u \notin Uri -> "no_uri"
                               [] IconClearedHash(u) # NoHash -> "cleared"
                               [] links[u].failed /\ state = "none" -> "fetch_failed"
                               [] state \in {"blocked", "review"} -> state
                               [] OTHER -> "pending_scan"
  BY <1>1, Zenon DEF ResolveIconStatus
<1>3. u \notin Uri => IconClearedHash(u) = NoHash
  BY DEF IconClearedHash
<1>4. IconClearedHash(u) # NoHash => state = "cleared"
  BY <1>1 DEF IconClearedHash
<1> QED BY <1>2, <1>3, <1>4

LEMMA HeadBadgesAre ==
  ASSUME Tables, NEW c \in Visible, NEW page, page = LoadToken(c, "week", {})
  PROVE  /\ "burned" \in HeadBadges(c, page) <=> rows[c].state.burned
         /\ "minting" \in HeadBadges(c, page) <=> rows[c].state.minting
         /\ "covenant" \in HeadBadges(c, page) <=> FetchCrc20Detail(c) # {}
         /\ IconNotice(page) = {} <=> IconClearedHash(rows[c].icon) # NoHash
<1>1. page.token = TokenHeader(c) /\ page.tier1 = FirstTier(c, {})
  BY PageIs
<1>2. page.token.api.burned = rows[c].state.burned /\ page.token.api.minting = rows[c].state.minting
  BY <1>1, HeaderIs, ApiRowIs
<1>3. page.tier1.crc20 = FetchCrc20Detail(c)
  BY <1>1, TierIs
<1>4. rows[c].state.minting \in BOOLEAN /\ rows[c].state.burned \in BOOLEAN
  BY RowHolds DEF Visible, Tracked
<1>5. "burned" \in HeadBadges(c, page) <=> page.token.api.burned
  BY <1>2, <1>4 DEF HeadBadges
<1>6. "minting" \in HeadBadges(c, page) <=> page.token.api.minting
  BY <1>2, <1>4 DEF HeadBadges
<1>7. "covenant" \in HeadBadges(c, page) <=> page.tier1.crc20 # {}
  BY DEF HeadBadges
<1>8. IconNotice(page) = {} <=> page.token.iconStatus = "cleared"
  BY DEF IconNotice
<1>9. page.token.iconStatus = "cleared" <=> IconClearedHash(rows[c].icon) # NoHash
  BY <1>1, HeaderIs, StatusIs
<1> QED BY <1>2, <1>3, <1>5, <1>6, <1>7, <1>8, <1>9

(* So are the tokens counted as burned or minting, and the icons in use:   *)
(* an icon in use is an image that was cleared.                            *)
LEMMA CountsHold == ASSUME Tables PROVE CountsAgree
<1> DEFINE shown(b) == Count(Visible, LAMBDA c : b \in HeadBadges(c, LoadToken(c, "week", {})))
<1>1. \A x \in SupplyDynamics(LoadStats({})) : x.burned = shown("burned") /\ x.minting = shown("minting")
  <2>1. {c \in Visible : "burned" \in HeadBadges(c, LoadToken(c, "week", {}))} = {c \in Visible : rows[c].state.burned}
    BY HeadBadgesAre
  <2>2. {c \in Visible : "minting" \in HeadBadges(c, LoadToken(c, "week", {}))}
         = {c \in Visible : rows[c].state.minting}
    BY HeadBadgesAre
  <2>3. shown("burned") = Burned /\ shown("minting") = ActiveMinting
    BY <2>1, <2>2 DEF Count, Burned, ActiveMinting
  <2> HIDE DEF shown
  <2>4. \A x \in SupplyDynamics(LoadStats({})) :
         x = [burned |-> LoadStats({}).burned, minting |-> LoadStats({}).activeMinting]
    BY DEF SupplyDynamics
  <2> QED BY <2>3, <2>4, LoadedNumbers
<1>2. ASSUME NEW x \in IconSafety(GetIconModerationStats)
      PROVE  /\ x.usedBy > 0 => x.cleared > 0
             /\ x.usedBy >= Count(Visible, LAMBDA c : IconNotice(LoadToken(c, "week", {})) = {})
  <2>1. PICK U, C, V : /\ U = {c \in Tracked : IconClearedHash(rows[c].icon) # NoHash}
                       /\ C = {h \in Hash : decisions[h].state = "cleared"}
                       /\ V = {c \in Visible : IconNotice(LoadToken(c, "week", {})) = {}}
    OBVIOUS
  <2>2. PICK stats : stats = GetIconModerationStats
    OBVIOUS
  <2>3. stats.tokensWithClearedIcon = Cardinality(U) /\ stats.cleared = Cardinality(C)
    BY <2>1, <2>2 DEF GetIconModerationStats, Count
  <2>4. x.usedBy = stats.tokensWithClearedIcon /\ x.cleared = stats.cleared
    BY <2>2 DEF IconSafety
  <2>5. U \in SUBSET Category /\ V \in SUBSET U
    <3>1. \A c \in Visible : IconNotice(LoadToken(c, "week", {})) = {} <=> IconClearedHash(rows[c].icon) # NoHash
      BY HeadBadgesAre
    <3> QED BY <2>1, <3>1 DEF Visible, Tracked
  <2>6. IsFiniteSet(U) /\ Cardinality(U) \in Nat /\ Cardinality(V) \in Nat /\ Cardinality(V) <= Cardinality(U)
    BY <2>5, FiniteParts, FS_Subset, FS_CardinalityType
  <2>7. Cardinality(U) > 0 => Cardinality(C) > 0
    <3>1. SUFFICES ASSUME Cardinality(U) > 0 PROVE Cardinality(C) > 0
      OBVIOUS
    <3>2. U # {}
      BY <3>1, FS_EmptySet
    <3>3. PICK c \in U : TRUE
      BY <3>2
    <3>4. PICK u : u = rows[c].icon /\ u \in Uri /\ links[u].hash # NoHash
                   /\ decisions[links[u].hash].state = "cleared"
      BY <2>1, <3>3 DEF IconClearedHash
    <3>5. links[u].hash \in C
      BY <2>1, <3>4 DEF Tables
    <3>6. IsFiniteSet(Hash)
      <4>1. IsFiniteSet(Image) /\ IsFiniteSet(Uri)
        BY SiteAssumption
      <4>2. IsFiniteSet(Image \cup Uri)
        BY <4>1, FS_Union
      <4> QED BY <4>2, Zenon DEF Hash
    <3>7. IsFiniteSet(C) /\ C # {}
      BY <2>1, <3>5, <3>6, FS_Subset
    <3>8. Cardinality(C) \in Nat /\ Cardinality(C) # 0
      BY <3>7, FS_EmptySet, FS_CardinalityType
    <3> QED BY <3>8
  <2>8. Count(Visible, LAMBDA c : IconNotice(LoadToken(c, "week", {})) = {}) = Cardinality(V)
    BY <2>1 DEF Count
  <2> QED BY <2>3, <2>4, <2>6, <2>7, <2>8
<1> QED BY <1>1, <1>2, Zenon DEF CountsAgree

(* The list of everything in one order.                                    *)
LEMMA WholeGridIs ==
  ASSUME TablesTyped, NEW sort, NEW p, p = [Defaults EXCEPT !.sort = sort],
         NEW key, key = [c \in Visible |-> GridKey(p, c)]
  PROVE  /\ \E w \in Nat : IsOrder(key, w)
         /\ WholeGrid(sort) = Top(key, Cardinality(Category)) /\ DOMAIN key = Visible
         /\ Cardinality(Category) \in Nat /\ Cardinality(Visible) <= Cardinality(Category)
         /\ WholeGrid(sort) \in Seq(Visible) /\ Len(WholeGrid(sort)) = Cardinality(Visible)
<1>1. Visible \in SUBSET Category
  BY VisibleFinite
<1>2. /\ Cardinality(Category) \in Nat /\ Cardinality(Visible) \in Nat /\ Cardinality(Visible) <= Cardinality(Category)
  BY <1>1, Sizes, FS_Subset, FS_CardinalityType
<1>3. GridOrdered(p, Visible)
  BY <1>1, GridOrders
<1>4. PICK w \in Nat : IsOrder(key, w)
  BY <1>3 DEF GridOrdered
<1>5. PICK n : n = Cardinality(Category)
  OBVIOUS
<1>6. WholeGrid(sort) = PageOf(key, 0, n)
  BY <1>5 DEF WholeGrid
<1>7. PageOf(key, 0, n) = Top(key, n)
  BY <1>2, <1>4, <1>5, PageLists
<1>8. Len(Top(key, n)) = Cardinality(Visible)
  BY <1>2, <1>4, <1>5, TopLists
<1> QED BY <1>2, <1>4, <1>5, <1>6, <1>7, <1>8, WholeGridShows

(* The first to have its value in a list that goes down in it comes right  *)
(* after all that have more.                                               *)
LEMMA Ranked ==
  ASSUME NEW key, NEW w, IsOrder(key, w), NEW n \in Nat, Cardinality(DOMAIN key) <= n,
         NEW f, \A d \in DOMAIN key : f[d] \in Int,
         \A d, e \in DOMAIN key : f[d] > f[e] => Before(key[d], key[e]),
         NEW c \in DOMAIN key, NEW G, G = {d \in DOMAIN key : f[d] > f[c]},
         NEW list, list = Top(key, n)
  PROVE  /\ Cardinality(G) \in Nat /\ Cardinality(G) + 1 <= Len(list)
         /\ f[list[Cardinality(G) + 1]] = f[c]
         /\ \A i \in 1..Cardinality(G) : f[list[i]] # f[c]
<1>1. PICK S, g : S = DOMAIN key /\ g = Cardinality(G)
  OBVIOUS
<1>2. IsFiniteSet(S) /\ Cardinality(S) \in Nat /\ w \in Nat /\ \A d \in S : IsKey(key[d], w)
  BY <1>1, FS_CardinalityType DEF IsOrder
<1>3. /\ Len(list) = Cardinality(S) /\ Len(list) \in Nat
      /\ \A i \in 1..Len(list) : list[i] \in S /\ Place(list[i], key) = i
  <2>1. /\ list \in Seq(DOMAIN key) /\ \A i \in 1..Len(list) : Place(list[i], key) = i
        /\ Len(list) = (IF Cardinality(DOMAIN key) < n THEN Cardinality(DOMAIN key) ELSE n)
    BY TopLists
  <2>2. Len(list) = Cardinality(S)
    BY <1>1, <1>2, <2>1
  <2> QED BY <1>1, <1>2, <2>1, <2>2
<1>4. G \in SUBSET S /\ c \in S \ G /\ IsFiniteSet(G) /\ g \in Nat
  BY <1>1, <1>2, FS_Subset, FS_CardinalityType
<1>5. g + 1 <= Cardinality(S)
  <2>1. IsFiniteSet(G \cup {c}) /\ Cardinality(G \cup {c}) = g + 1
    BY <1>1, <1>4, FS_AddElement
  <2>2. G \cup {c} \in SUBSET S
    BY <1>4
  <2> QED BY <1>2, <2>1, <2>2, FS_Subset
<1> DEFINE Ahead(d) == {e \in S : Before(key[e], key[d])}
<1>6. ASSUME NEW d \in S PROVE /\ Place(d, key) = 1 + Cardinality(Ahead(d)) /\ IsFiniteSet(Ahead(d))
                               /\ Cardinality(Ahead(d)) \in Nat /\ d \notin Ahead(d)
  <2>1. Ahead(d) \in SUBSET S
    OBVIOUS
  <2>2. ~Before(key[d], key[d])
    BY <1>2, BeforeIsTotal
  <2>3. Place(d, key) = 1 + Cardinality(Ahead(d))
    BY <1>1 DEF Place
  <2>4. IsFiniteSet(Ahead(d)) /\ Cardinality(Ahead(d)) \in Nat
    <3> HIDE DEF Ahead
    <3> QED BY <1>2, <2>1, FS_Subset, FS_CardinalityType
  <2> QED BY <2>2, <2>3, <2>4
<1>7. ASSUME NEW d \in S, f[d] <= f[c] PROVE Place(d, key) >= g + 1
  <2>1. \A e \in G : f[e] > f[d]
    BY <1>1, <1>4, <1>7
  <2>2. G \in SUBSET Ahead(d)
    BY <1>1, <1>4, <2>1
  <2>3. g <= Cardinality(Ahead(d))
    <3> HIDE DEF Ahead
    <3> QED BY <1>1, <1>6, <2>2, FS_Subset
  <2> HIDE DEF Ahead
  <2> QED BY <1>4, <1>6, <2>3
<1>8. ASSUME NEW d \in S, f[d] < f[c] PROVE Place(d, key) >= g + 2
  <2>1. \A e \in G \cup {c} : f[e] > f[d]
    BY <1>1, <1>4, <1>8
  <2>2. G \cup {c} \in SUBSET Ahead(d)
    BY <1>1, <1>4, <2>1
  <2>3. IsFiniteSet(G \cup {c}) /\ Cardinality(G \cup {c}) = g + 1
    BY <1>1, <1>4, FS_AddElement
  <2>4. g + 1 <= Cardinality(Ahead(d))
    <3> HIDE DEF Ahead
    <3> QED BY <1>6, <2>2, <2>3, FS_Subset
  <2> HIDE DEF Ahead
  <2> QED BY <1>4, <1>6, <2>4
<1>9. ASSUME NEW d \in S, f[d] > f[c] PROVE Place(d, key) <= g
  <2>1. \A e \in Ahead(d) : f[e] >= f[d]
    <3>1. SUFFICES ASSUME NEW e \in S, Before(key[e], key[d]), f[d] > f[e] PROVE FALSE
      BY <1>1
    <3>2. Before(key[d], key[e])
      BY <1>1, <3>1
    <3>3. Before(key[d], key[d])
      BY <1>2, <3>1, <3>2, BeforeIsTransitive
    <3> QED BY <1>2, <3>3, BeforeIsTotal
  <2>2. Ahead(d) \in SUBSET (G \ {d})
    <3>1. ASSUME NEW e \in Ahead(d) PROVE e \in G \ {d}
      <4>1. e \in S /\ f[e] \in Int /\ f[e] >= f[d] /\ f[d] \in Int /\ f[c] \in Int
        BY <1>1, <2>1
      <4>2. f[e] > f[c]
        BY <1>9, <4>1
      <4> QED BY <1>1, <1>6, <4>1, <4>2
    <3> QED BY <3>1
  <2>3. d \in G /\ IsFiniteSet(G \ {d}) /\ Cardinality(G \ {d}) = g - 1
    BY <1>1, <1>4, <1>9, FS_RemoveElement
  <2>4. Cardinality(Ahead(d)) <= g - 1
    <3> HIDE DEF Ahead
    <3> QED BY <2>2, <2>3, FS_Subset
  <2> HIDE DEF Ahead
  <2> QED BY <1>4, <1>6, <2>4
<1>10. \A d \in S : f[d] \in Int
  BY <1>1
<1>11. f[list[g + 1]] = f[c]
  <2>1. PICK d \in S : d = list[g + 1] /\ Place(d, key) = g + 1
    BY <1>3, <1>4, <1>5
  <2> QED BY <1>4, <1>8, <1>9, <1>10, <2>1
<1>12. \A i \in 1..g : f[list[i]] # f[c]
  <2>1. SUFFICES ASSUME NEW i \in 1..g, f[list[i]] = f[c] PROVE FALSE
    OBVIOUS
  <2>2. PICK d \in S : d = list[i] /\ Place(d, key) = i
    BY <1>2, <1>3, <1>4, <1>5
  <2> QED BY <1>4, <1>7, <1>10, <2>1, <2>2
<1> QED BY <1>1, <1>3, <1>4, <1>5, <1>11, <1>12

(* The column a grid is ordered by comes first in its keys.                *)
LEMMA HeadStays ==
  ASSUME NEW s \in Seq(Int), NEW t \in Seq(Int), Len(s) # 0, NEW r, r = s \o t
  PROVE  r[1] = s[1]
<1>1. /\ Len(r) = Len(s) + Len(t)
      /\ \A i \in 1..(Len(s) + Len(t)) : r[i] = IF i <= Len(s) THEN s[i] ELSE t[i - Len(s)]
  BY ConcatProperties
<1>2. 1 \in 1..(Len(s) + Len(t)) /\ 1 <= Len(s)
  OBVIOUS
<1> QED BY <1>1, <1>2

LEMMA NothingBefore == ASSUME NEW w \in Nat, NEW s, IsKey(s, w) PROVE <<>> \o s = s
<1>1. s \in Seq(Int)
  BY DEF IsKey
<1> QED BY <1>1, ConcatEmptySeq

LEMMA RankColumn ==
  ASSUME TablesTyped, NEW c \in Category, NEW sort, NEW x \in Int,
         SortKey(sort, c) = <<NullsLastDesc(x)>> \o ByName(c), NEW p, p = [Defaults EXCEPT !.sort = sort]
  PROVE  GridKey(p, c)[1] = NullsLastDesc(x) /\ 1 \in DOMAIN GridKey(p, c)
<1>1. p.search = "none" /\ p.sort = sort
  BY DEF Defaults
<1>2. PICK y : y = NullsLastDesc(x) /\ y \in Int
  BY NullsLast
<1>3. PICK a, b, t : a = <<y>> /\ b = ByName(c) /\ t = <<c>>
  OBVIOUS
<1>4. IsKey(a, 1) /\ a[1] = y
  BY <1>2, <1>3 DEF IsKey
<1>5. IsKey(b, 2)
  BY <1>3, NameKey
<1>6. c \in Int
  BY Sizes
<1>7. IsKey(t, 1)
  BY <1>3, <1>6 DEF IsKey
<1>8. PICK s : s = a \o b
  OBVIOUS
<1>9. IsKey(s, 3) /\ s[1] = y
  <2>1. IsKey(a \o b, 1 + 2)
    BY <1>4, <1>5, Joined
  <2>2. a \in Seq(Int) /\ b \in Seq(Int) /\ Len(a) # 0
    BY <1>4, <1>5 DEF IsKey
  <2>3. s[1] = a[1]
    BY <1>8, <2>2, HeadStays
  <2> QED BY <1>4, <1>8, <2>1, <2>3
<1>15. PICK r : r = s \o t
  OBVIOUS
<1>10. IsKey(r, 4) /\ r[1] = y
  <2>1. IsKey(s \o t, 3 + 1)
    BY <1>7, <1>9, Joined
  <2>2. s \in Seq(Int) /\ t \in Seq(Int) /\ Len(s) # 0
    BY <1>7, <1>9 DEF IsKey
  <2>3. r[1] = s[1]
    BY <1>15, <2>2, HeadStays
  <2> QED BY <1>9, <1>15, <2>1, <2>3
<1>11. GridKey(p, c) = <<>> \o s \o t
  BY <1>1, <1>2, <1>3, <1>8 DEF GridKey
<1>12. <<>> \o s = s
  BY <1>9, NothingBefore
<1>13. GridKey(p, c) = s \o t
  BY <1>11, <1>12
<1>14. 1 \in DOMAIN r
  BY <1>10 DEF IsKey
<1> QED BY <1>2, <1>10, <1>13, <1>14, <1>15

LEMMA MoreComesFirst ==
  ASSUME NEW x \in Quantity, NEW y \in Quantity, x > y
  PROVE  NullsLastDesc(x) < NullsLastDesc(y)
BY DEF Quantity, NullsLastDesc, Null

(* A rank by a quantity is a place in the grid in the order of it.         *)
RanksBy(sort, f) ==
  /\ \A c \in Category : f[c] \in Quantity
  /\ \A c \in Category : SortKey(sort, c) = <<NullsLastDesc(f[c])>> \o ByName(c)

LEMMA RankIsPlace ==
  ASSUME TablesTyped, NEW sort, NEW f, RanksBy(sort, f), NEW c \in Visible,
         NEW g, g = Cardinality({d \in Visible : f[d] > f[c]}), NEW list, list = WholeGrid(sort)
  PROVE  /\ g \in Nat /\ g + 1 <= Len(list) /\ f[list[g + 1]] = f[c]
         /\ \A i \in 1..g : f[list[i]] # f[c]
<1>1. PICK p : p = [Defaults EXCEPT !.sort = sort]
  OBVIOUS
<1>2. PICK key : key = [d \in Visible |-> GridKey(p, d)]
  OBVIOUS
<1>3. PICK n : n = Cardinality(Category)
  OBVIOUS
<1>4. /\ \E w \in Nat : IsOrder(key, w)
      /\ list = Top(key, n) /\ DOMAIN key = Visible /\ n \in Nat /\ Cardinality(Visible) <= n
  BY <1>1, <1>2, <1>3, WholeGridIs
<1>5. PICK w \in Nat : IsOrder(key, w)
  BY <1>4
<1>6. ASSUME NEW d \in Visible
      PROVE  f[d] \in Quantity /\ f[d] \in Int /\ key[d][1] = NullsLastDesc(f[d]) /\ 1 \in DOMAIN key[d]
  <2>1. d \in Category /\ f[d] \in Quantity
    BY DEF RanksBy, Visible, Tracked
  <2>2. f[d] \in Int
    BY <2>1 DEF Quantity, Null
  <2>3. SortKey(sort, d) = <<NullsLastDesc(f[d])>> \o ByName(d)
    BY <2>1 DEF RanksBy
  <2>4. PICK x : x = f[d]
    OBVIOUS
  <2>5. GridKey(p, d)[1] = NullsLastDesc(x) /\ 1 \in DOMAIN GridKey(p, d)
    BY <1>1, <2>1, <2>2, <2>3, <2>4, RankColumn
  <2> QED BY <1>2, <2>1, <2>2, <2>4, <2>5
<1>7. ASSUME NEW d \in Visible, NEW e \in Visible, f[d] > f[e] PROVE Before(key[d], key[e])
  <2>1. key[d][1] < key[e][1] /\ 1 \in DOMAIN key[d]
    BY <1>6, <1>7, MoreComesFirst
  <2>2. \A j \in 1..(1 - 1) : key[d][j] = key[e][j]
    OBVIOUS
  <2> QED BY <2>1, <2>2 DEF Before
<1>8. PICK G : G = {d \in Visible : f[d] > f[c]}
  OBVIOUS
<1>9. g = Cardinality(G) /\ \A d \in DOMAIN key : f[d] \in Int
  BY <1>4, <1>6, <1>8
<1>10. G = {d \in DOMAIN key : f[d] > f[c]} /\ c \in DOMAIN key
  BY <1>4, <1>8
<1>11. \A d, e \in DOMAIN key : f[d] > f[e] => Before(key[d], key[e])
  BY <1>4, <1>7
<1>12. /\ Cardinality(G) \in Nat /\ Cardinality(G) + 1 <= Len(list)
       /\ f[list[Cardinality(G) + 1]] = f[c]
       /\ \A i \in 1..Cardinality(G) : f[list[i]] # f[c]
  BY <1>4, <1>5, <1>9, <1>10, <1>11, Ranked
<1> QED BY <1>9, <1>12

LEMMA RankedBy ==
  ASSUME Tables
  PROVE  /\ RanksBy("tvl", [c \in Category |-> rows[c].cauldron.tvl])
         /\ RanksBy("holders", [c \in Category |-> rows[c].state.holders])
<1>1. \A c \in Category : rows[c].cauldron.tvl \in Quantity /\ rows[c].state.holders \in Quantity
  BY RowHolds
<1>2. \A c \in Category : /\ SortKey("tvl", c) = <<NullsLastDesc(rows[c].cauldron.tvl)>> \o ByName(c)
                          /\ SortKey("holders", c) = <<NullsLastDesc(rows[c].state.holders)>> \o ByName(c)
  BY DEF SortKey
<1> QED BY <1>1, <1>2 DEF RanksBy

LEMMA TvlPlaces ==
  ASSUME Tables, NEW c \in Visible, NEW page, page = LoadToken(c, "week", {}), page.tvlRank # Null
  PROVE  IsPlace(page.tvlRank, c, WholeGrid("tvl"), LAMBDA d : rows[d].cauldron.tvl)
<1>1. PICK f : f = [d \in Category |-> rows[d].cauldron.tvl]
  OBVIOUS
<1>2. RanksBy("tvl", f) /\ \A d \in Category : f[d] = rows[d].cauldron.tvl
  BY <1>1, RankedBy
<1>3. Visible \in SUBSET Category
  BY VisibleFinite
<1>4. rows[c].cauldron.tvl # Null
  <2>1. TvlRank(c) # Null
    <3>1. page.tvlRank = TvlRank(c)
      BY PageIs
    <3> QED BY <3>1
  <2> QED BY <2>1 DEF TvlRank
<1>5. PICK list : list = WholeGrid("tvl")
  OBVIOUS
<1>6. PICK g : g = Cardinality({d \in Visible : f[d] > f[c]})
  OBVIOUS
<1>7. /\ g \in Nat /\ g + 1 <= Len(list) /\ f[list[g + 1]] = f[c]
      /\ \A i \in 1..g : f[list[i]] # f[c]
  BY <1>2, <1>5, <1>6, RankIsPlace DEF Tables
<1>8. page.tvlRank = g + 1
  <2>1. PICK pools : pools = {d \in Visible : rows[d].cauldron.tvl # Null}
    OBVIOUS
  <2>2. \A d \in Visible : d \in pools /\ rows[d].cauldron.tvl > rows[c].cauldron.tvl <=> f[d] > f[c]
    <3>1. TAKE d \in Visible
    <3>2. rows[d].cauldron.tvl \in Quantity /\ rows[c].cauldron.tvl \in Quantity
      BY <1>3, RowHolds
    <3>3. rows[d].cauldron.tvl > rows[c].cauldron.tvl => rows[d].cauldron.tvl # Null
      BY <1>4, <3>2 DEF Quantity, Null
    <3> QED BY <1>2, <1>3, <2>1, <3>3
  <2>3. {d \in pools : rows[d].cauldron.tvl > rows[c].cauldron.tvl} = {d \in Visible : f[d] > f[c]}
    BY <2>1, <2>2
  <2>4. RankOf(c, pools, LAMBDA d : rows[d].cauldron.tvl) = 1 + g
    BY <1>6, <2>3 DEF RankOf
  <2>5. TvlRank(c) = ShownRank(RankOf(c, pools, LAMBDA d : rows[d].cauldron.tvl))
    BY <1>4, <2>1 DEF TvlRank
  <2>6. page.tvlRank = ShownRank(1 + g)
    BY <2>4, <2>5, PageIs
  <2>7. page.tvlRank = 1 + g
    BY <2>6 DEF ShownRank
  <2> QED BY <1>7, <2>7
<1>9. list[g + 1] \in Category /\ \A i \in 1..g : list[i] \in Category
  <2>1. list \in Seq(Visible)
    BY <1>5, WholeGridShows DEF Tables
  <2> QED BY <1>3, <1>7, <2>1
<1>10. /\ rows[list[g + 1]].cauldron.tvl = rows[c].cauldron.tvl
       /\ \A i \in 1..g : rows[list[i]].cauldron.tvl # rows[c].cauldron.tvl
  BY <1>2, <1>3, <1>7, <1>9
<1>11. 1..(page.tvlRank - 1) = 1..g
  BY <1>7, <1>8
<1> QED BY <1>5, <1>7, <1>8, <1>10, <1>11 DEF IsPlace

LEMMA HoldersPlaces ==
  ASSUME Tables, NEW c \in Visible, NEW rank, rank = RankOf(c, Visible, LAMBDA d : rows[d].state.holders)
  PROVE  IsPlace(rank, c, WholeGrid("holders"), LAMBDA d : rows[d].state.holders)
<1>1. PICK f : f = [d \in Category |-> rows[d].state.holders]
  OBVIOUS
<1>2. RanksBy("holders", f) /\ \A d \in Category : f[d] = rows[d].state.holders
  BY <1>1, RankedBy
<1>3. Visible \in SUBSET Category
  BY VisibleFinite
<1>5. PICK list : list = WholeGrid("holders")
  OBVIOUS
<1>6. PICK g : g = Cardinality({d \in Visible : f[d] > f[c]})
  OBVIOUS
<1>7. /\ g \in Nat /\ g + 1 <= Len(list) /\ f[list[g + 1]] = f[c]
      /\ \A i \in 1..g : f[list[i]] # f[c]
  BY <1>2, <1>5, <1>6, RankIsPlace DEF Tables
<1>8. rank = g + 1
  <2>1. {d \in Visible : rows[d].state.holders > rows[c].state.holders} = {d \in Visible : f[d] > f[c]}
    BY <1>2, <1>3
  <2>2. rank = 1 + Cardinality({d \in Visible : rows[d].state.holders > rows[c].state.holders})
    BY DEF RankOf
  <2>3. rank = 1 + g
    BY <1>6, <2>1, <2>2
  <2> QED BY <1>7, <2>3
<1>9. list[g + 1] \in Category /\ \A i \in 1..g : list[i] \in Category
  <2>1. list \in Seq(Visible)
    BY <1>5, WholeGridShows DEF Tables
  <2> QED BY <1>3, <1>7, <2>1
<1>10. /\ rows[list[g + 1]].state.holders = rows[c].state.holders
       /\ \A i \in 1..g : rows[list[i]].state.holders # rows[c].state.holders
  BY <1>2, <1>3, <1>7, <1>9
<1>11. 1..(rank - 1) = 1..g
  BY <1>7, <1>8
<1> QED BY <1>5, <1>7, <1>8, <1>10, <1>11 DEF IsPlace

LEMMA HoldersRanks ==
  ASSUME Tables, NEW c \in Visible, NEW page, page = LoadToken(c, "week", {}), page.holdersRank # Null
  PROVE  IsPlace(page.holdersRank, c, WholeGrid("holders"), LAMBDA d : rows[d].state.holders)
<1>1. PICK rank : rank = RankOf(c, Visible, LAMBDA d : rows[d].state.holders)
  OBVIOUS
<1>2. page.holdersRank = HoldersRank(c)
  BY PageIs
<1>3. HoldersRank(c) = ShownRank(rank)
  BY <1>1, <1>2 DEF HoldersRank
<1>4. page.holdersRank = rank
  BY <1>2, <1>3 DEF ShownRank
<1> QED BY <1>1, <1>4, HoldersPlaces

LEMMA RowIs ==
  ASSUME NEW c, NEW row, row = GridRow(c)
  PROVE  /\ row.api = ApiRow(c) /\ row.price = rows[c].cauldron.price /\ row.fexPrice = rows[c].fex.price
         /\ row.offers = Len(rows[c].offers) /\ row.votes = GetVoteCounts(c)
         /\ row.suspect = (ScoreBcmrTrust(rows[c].profile) = "suspicious")
BY DEF GridRow, BcmrSuspect

LEMMA BadgesNeedRanks ==
  ASSUME NEW c, NEW page
  PROVE  /\ "tvlRank" \in Badges(c, page) => page.tvlRank # Null
         /\ "holdersRank" \in Badges(c, page) => page.holdersRank # Null
<1>1. "tvlRank" \notin Notable(c, page) /\ "holdersRank" \notin Notable(c, page)
  BY DEF Notable
<1>2. \A b \in Badges(c, page) : b \in Notable(c, page) \/ b \in {r \in {"tvlRank", "holdersRank"} : page[r] # Null}
  BY DEF Badges
<1> QED BY <1>1, <1>2

LEMMA EndpointsAnswer ==
  ASSUME NEW c
  PROVE  /\ (GetHolders(c, 2, 0).status = 200) = (c \in Visible) /\ (GetNfts(c, "all").status = 200) = (c \in Visible)
         /\ (GetHistory(c, Null, Null).status = 200) = (c \in Visible)
         /\ (GetBcmrVersion(c, Null).status = 200) = (c \in Visible)
<1>1. CASE c \in Visible
  BY <1>1 DEF GetHolders, GetNfts, GetHistory, GetBcmrVersion
<1>2. CASE c \notin Visible
  BY <1>2 DEF GetHolders, GetNfts, GetHistory, GetBcmrVersion, Gone
<1> QED BY <1>1, <1>2

(* The page of a token and its row in a list say the same of it; a rank on *)
(* the page is its place in the list it links to.                          *)
LEMMA TokensHold == ASSUME Tables PROVE TokensAgree
<1> DEFINE page(c) == LoadToken(c, "week", {})
           row(c) == GridRow(c)
<1>1. ASSUME NEW c \in Category PROVE page(c).status = 200 <=> c \in Visible
  BY PageIs, NoPage
<1>2. ASSUME NEW c \in Visible
      PROVE  /\ page(c).token.api = row(c).api
             /\ (IconNotice(page(c)) = {}) = (row(c).api.icon # NoHash)
             /\ (TrustBadge(page(c)) = "suspicious") = row(c).suspect
             /\ page(c).tier1.votes = row(c).votes /\ page(c).tier1.fexPrice = row(c).fexPrice
             /\ "tvlRank" \in Badges(c, page(c)) =>
                  IsPlace(page(c).tvlRank, c, WholeGrid(RankLink.tvlRank.sort), LAMBDA d : rows[d].cauldron.tvl)
             /\ "holdersRank" \in Badges(c, page(c)) =>
                  IsPlace(page(c).holdersRank, c, WholeGrid(RankLink.holdersRank.sort),
                          LAMBDA d : rows[d].state.holders)
  <2>1. PICK p, r : p = page(c) /\ r = row(c)
    OBVIOUS
  <2>2. /\ p.token = TokenHeader(c) /\ p.tier1 = FirstTier(c, {}) /\ p.trust = ScoreBcmrTrust(rows[c].profile)
    BY <2>1, PageIs
  <2>3. /\ r.api = ApiRow(c) /\ r.fexPrice = rows[c].fex.price /\ r.votes = GetVoteCounts(c)
        /\ r.suspect = (ScoreBcmrTrust(rows[c].profile) = "suspicious")
    BY <2>1, RowIs
  <2>4. p.token.api = r.api /\ p.tier1.votes = r.votes /\ p.tier1.fexPrice = r.fexPrice
    BY <2>2, <2>3, HeaderIs, TierIs
  <2>5. (TrustBadge(p) = "suspicious") = r.suspect
    BY <2>2, <2>3 DEF TrustBadge
  <2>6. (IconNotice(p) = {}) = (r.api.icon # NoHash)
    BY <2>1, <2>3, HeadBadgesAre, ApiRowIs
  <2>7. RankLink.tvlRank.sort = "tvl" /\ RankLink.holdersRank.sort = "holders"
    BY DEF RankLink, Defaults
  <2>8. "tvlRank" \in Badges(c, p) => IsPlace(p.tvlRank, c, WholeGrid("tvl"), LAMBDA d : rows[d].cauldron.tvl)
    BY <2>1, BadgesNeedRanks, TvlPlaces
  <2>9. "holdersRank" \in Badges(c, p) =>
          IsPlace(p.holdersRank, c, WholeGrid("holders"), LAMBDA d : rows[d].state.holders)
    BY <2>1, BadgesNeedRanks, HoldersRanks
  <2> QED BY <2>1, <2>4, <2>5, <2>6, <2>7, <2>8, <2>9
<1>3. ASSUME NEW c \in Category
      PROVE  /\ (GetHolders(c, 2, 0).status = 200) = (page(c).status = 200)
             /\ (GetNfts(c, "all").status = 200) = (page(c).status = 200)
             /\ (GetHistory(c, Null, Null).status = 200) = (page(c).status = 200)
             /\ (GetBcmrVersion(c, Null).status = 200) = (page(c).status = 200)
  BY <1>1, EndpointsAnswer
<1> QED BY <1>1, <1>2, <1>3, ZenonT(40) DEF TokensAgree

(* Whether a view of one thing finds a token.                              *)
LEMMA Filtered ==
  ASSUME NEW c \in Visible, NEW sort, NEW type, NEW venues, NEW new, NEW listed, NEW tier, NEW crc20
  PROVE  c \in Matching(View(sort, type, venues, new, listed, tier, crc20))
           <=> Fits(c, type, venues, new, listed, tier, crc20)
<1>1. PICK M : M = Matching(View(sort, type, venues, new, listed, tier, crc20))
  OBVIOUS
<1>2. M = {d \in Visible : Fits(d, type, venues, new, listed, tier, crc20)}
  BY <1>1, ViewMatches
<1> QED BY <1>1, <1>2

LEMMA FilteredBy ==
  ASSUME NEW c \in Visible
  PROVE  /\ \A t \in Tiers : c \in Matching([Defaults EXCEPT !.tier = t]) <=> rows[c].state.gini \in GiniRange[t]
         /\ \A w : c \in Matching([Defaults EXCEPT !.new = {w}]) <=> Age(c) < Window[w]
         /\ \A v : c \in Matching([Defaults EXCEPT !.venues = {v}]) <=> OnVenue(v, c)
         /\ c \in Matching([Defaults EXCEPT !.crc20 = "true"]) <=> rows[c].crc20.detected
         /\ c \in Matching([Defaults EXCEPT !.crc20 = "canonical"]) <=> rows[c].crc20.canonical
<1>1. PICK p : p = Defaults
  OBVIOUS
<1>2. p = View("tvl", "all", {}, {}, No, "all", "all")
  BY <1>1, DefaultView
<1>3. ASSUME NEW t \in Tiers PROVE c \in Matching([p EXCEPT !.tier = t]) <=> rows[c].state.gini \in GiniRange[t]
  <2>1. PICK q : q = [p EXCEPT !.tier = t]
    OBVIOUS
  <2>2. t # "all"
    BY DEF Tiers
  <2>3. q = View("tvl", "all", {}, {}, No, t, "all")
    BY <1>2, <2>1, EditedTier
  <2>4. c \in Matching(q) <=> Fits(c, "all", {}, {}, No, t, "all")
    BY <2>3, Filtered, Zenon
  <2>5. Fits(c, "all", {}, {}, No, t, "all") <=> rows[c].state.gini \in GiniRange[t]
    BY <2>2, FitsTier
  <2> QED BY <2>1, <2>4, <2>5
<1>4. ASSUME NEW w PROVE c \in Matching([p EXCEPT !.new = {w}]) <=> Age(c) < Window[w]
  <2>1. PICK q : q = [p EXCEPT !.new = {w}]
    OBVIOUS
  <2>2. PICK y : y = {w}
    OBVIOUS
  <2>3. [p EXCEPT !.new = y] = View("tvl", "all", {}, y, No, "all", "all")
    BY <1>2, EditedNew
  <2>4. q = [p EXCEPT !.new = y]
    BY <2>1, <2>2
  <2>5. q = View("tvl", "all", {}, y, No, "all", "all")
    BY <2>3, <2>4
  <2>6. c \in Matching(q) <=> Fits(c, "all", {}, y, No, "all", "all")
    BY <2>5, Filtered, Zenon
  <2>7. Fits(c, "all", {}, {w}, No, "all", "all") <=> Age(c) < Window[w]
    BY FitsNew
  <2>8. Fits(c, "all", {}, y, No, "all", "all") <=> Age(c) < Window[w]
    BY <2>2, <2>7
  <2> QED BY <2>1, <2>6, <2>8
<1>5. ASSUME NEW v PROVE c \in Matching([p EXCEPT !.venues = {v}]) <=> OnVenue(v, c)
  <2>1. PICK q : q = [p EXCEPT !.venues = {v}]
    OBVIOUS
  <2>2. PICK y : y = {v}
    OBVIOUS
  <2>3. [p EXCEPT !.venues = y] = View("tvl", "all", y, {}, No, "all", "all")
    BY <1>2, EditedVenues
  <2>4. q = [p EXCEPT !.venues = y]
    BY <2>1, <2>2
  <2>5. q = View("tvl", "all", y, {}, No, "all", "all")
    BY <2>3, <2>4
  <2>6. c \in Matching(q) <=> Fits(c, "all", y, {}, No, "all", "all")
    BY <2>5, Filtered, Zenon
  <2>7. Fits(c, "all", {v}, {}, No, "all", "all") <=> OnVenue(v, c)
    BY FitsVenue
  <2>8. Fits(c, "all", y, {}, No, "all", "all") <=> OnVenue(v, c)
    BY <2>2, <2>7
  <2> QED BY <2>1, <2>6, <2>8
<1>6. c \in Matching([p EXCEPT !.crc20 = "true"]) <=> rows[c].crc20.detected
  <2>1. PICK q : q = [p EXCEPT !.crc20 = "true"]
    OBVIOUS
  <2>3. q = View("tvl", "all", {}, {}, No, "all", "true")
    BY <1>2, <2>1, EditedCrc20
  <2>4. c \in Matching(q) <=> Fits(c, "all", {}, {}, No, "all", "true")
    BY <2>3, Filtered, Zenon
  <2>5. Fits(c, "all", {}, {}, No, "all", "true") <=> rows[c].crc20.detected
    BY FitsCrc20
  <2> QED BY <2>1, <2>4, <2>5
<1>7. c \in Matching([p EXCEPT !.crc20 = "canonical"]) <=> rows[c].crc20.canonical
  <2>1. PICK q : q = [p EXCEPT !.crc20 = "canonical"]
    OBVIOUS
  <2>3. q = View("tvl", "all", {}, {}, No, "all", "canonical")
    BY <1>2, <2>1, EditedCrc20
  <2>4. c \in Matching(q) <=> Fits(c, "all", {}, {}, No, "all", "canonical")
    BY <2>3, Filtered, Zenon
  <2>5. Fits(c, "all", {}, {}, No, "all", "canonical") <=> rows[c].crc20.canonical
    BY FitsCanonical
  <2> QED BY <2>1, <2>4, <2>5
<1> QED BY <1>1, <1>3, <1>4, <1>5, <1>6, <1>7, Zenon

LEMMA TierBadge ==
  ASSUME Tables, NEW c \in Visible, NEW t \in Tiers
  PROVE  GiniTier(c) = t <=> rows[c].state.gini \in GiniRange[t]
<1>1. PICK g : g = rows[c].state.gini
  OBVIOUS
<1>2. g \in 0..100 \/ g = Null
  BY <1>1, RowHolds DEF Visible, Tracked
<1>3. /\ GiniRange["excellent"] = 0..39 /\ GiniRange["good"] = 40..59 /\ GiniRange["fair"] = 60..74
      /\ GiniRange["poor"] = 75..89 /\ GiniRange["whale"] = 90..100
  BY DEF GiniRange
<1>4. GiniTier(c) = CASE g = Null -> "none" [] g \in 0..39 -> "excellent" [] g \in 40..59 -> "good"
                      [] g \in 60..74 -> "fair" [] g \in 75..89 -> "poor" [] g >= 90 -> "whale"
  BY <1>1 DEF GiniTier
<1>5. t = "excellent" \/ t = "good" \/ t = "fair" \/ t = "poor" \/ t = "whale"
  BY DEF Tiers
<1>6. CASE g = Null
  <2>1. GiniTier(c) = "none"
    BY <1>4, <1>6 DEF Null
  <2>2. g \notin GiniRange[t]
    BY <1>6, NullHasNoTier
  <2> QED BY <1>1, <1>5, <2>1, <2>2
<1>7. CASE g \in 0..100
  <2>1. /\ g \in 0..39 => GiniTier(c) = "excellent"
        /\ g \in 40..59 => GiniTier(c) = "good"
        /\ g \in 60..74 => GiniTier(c) = "fair"
        /\ g \in 75..89 => GiniTier(c) = "poor"
        /\ g \in 90..100 => GiniTier(c) = "whale"
    BY <1>4, <1>7 DEF Null
  <2>2. g \in 0..39 \/ g \in 40..59 \/ g \in 60..74 \/ g \in 75..89 \/ g \in 90..100
    BY <1>7
  <2> QED BY <1>1, <1>3, <1>5, <2>1, <2>2
<1> QED BY <1>2, <1>6, <1>7

LEMMA WindowBadge ==
  ASSUME Tables, NEW c \in Visible, NEW w \in DOMAIN Window
  PROVE  Age(c) < Window[w] <=> AgeBadge(c) \in (CASE w = "day" -> {"today"} [] w = "week" -> {"today", "week"}
                                                   [] OTHER -> {"today", "week", "month"})
<1>1. PICK a, d : a = Age(c) /\ d = Day /\ a \in Int /\ d \in Nat \ {0}
  BY RowHolds, SiteAssumption DEF Visible, Tracked
<1>2. AgeBadge(c) = CASE a < d -> "today" [] a >= d /\ a < 7 * d -> "week"
                      [] a >= 7 * d /\ a < 30 * d -> "month" [] OTHER -> "none"
  BY <1>1 DEF AgeBadge, Week, Month
<1>3. /\ a < d => AgeBadge(c) = "today"
      /\ a >= d /\ a < 7 * d => AgeBadge(c) = "week"
      /\ a >= 7 * d /\ a < 30 * d => AgeBadge(c) = "month"
      /\ a >= 30 * d => AgeBadge(c) = "none"
  BY <1>1, <1>2
<1>4. w = "day" \/ w = "week" \/ w = "month"
  BY DEF Window
<1>5. Window["day"] = d /\ Window["week"] = 7 * d /\ Window["month"] = 30 * d
  BY <1>1 DEF Window, Week, Month
<1>6. CASE w = "day"
  BY <1>1, <1>3, <1>5, <1>6
<1>7. CASE w = "week"
  BY <1>1, <1>3, <1>5, <1>7
<1>8. CASE w = "month"
  BY <1>1, <1>3, <1>5, <1>8
<1> QED BY <1>4, <1>6, <1>7, <1>8

(* A tier or an age is a badge of the tokens that the view of it finds.    *)
LEMMA BadgesAreFilters ==
  ASSUME Tables, NEW c \in Visible, NEW page, page = LoadToken(c, "week", {})
  PROVE  /\ \A t \in Tiers : (StatCards(c, page).gini = t) <=> c \in Matching([Defaults EXCEPT !.tier = t])
         /\ \A w \in DOMAIN Window : c \in Matching([Defaults EXCEPT !.new = {w}])
               <=> AgeBadge(c) \in (CASE w = "day" -> {"today"} [] w = "week" -> {"today", "week"}
                                     [] OTHER -> {"today", "week", "month"})
<1>1. StatCards(c, page).gini = GiniTier(c)
  BY DEF StatCards
<1>2. \A t \in Tiers : (GiniTier(c) = t) <=> c \in Matching([Defaults EXCEPT !.tier = t])
  BY TierBadge, FilteredBy, Zenon
<1>3. \A w \in DOMAIN Window : c \in Matching([Defaults EXCEPT !.new = {w}])
               <=> AgeBadge(c) \in (CASE w = "day" -> {"today"} [] w = "week" -> {"today", "week"}
                                     [] OTHER -> {"today", "week", "month"})
  BY WindowBadge, FilteredBy, Zenon
<1> QED BY <1>1, <1>2, <1>3, Zenon

(* The row of the grid, its card and the page show the same badges.        *)
LEMMA SameBadges ==
  ASSUME NEW c \in Visible, NEW page, page = LoadToken(c, "week", {}), NEW row, row = GridRow(c)
  PROVE  /\ RowBadges(c, row).age = CardBadges(c, row).age
         /\ ("age" \in Badges(c, page)) = (RowBadges(c, row).age # "none")
         /\ ("first" \in Badges(c, page)) = (RowBadges(c, row).firstN # Null)
         /\ RowBadges(c, row).venues = VenueLogos(row)
         /\ RowBadges(c, row).covenant = CovenantBadge(rows[c].crc20)
<1>1. /\ RowBadges(c, row).age = AgeBadge(c) /\ CardBadges(c, row).age = AgeBadge(c)
      /\ RowBadges(c, row).venues = VenueLogos(row)
  BY DEF RowBadges, CardBadges
<1>2. row.api.firstNRank = FirstNRankFor(c) /\ row.api.crc20 = rows[c].crc20
  BY RowIs, ApiRowIs
<1>3. RowBadges(c, row).firstN = FirstNRankFor(c) /\ RowBadges(c, row).covenant = CovenantBadge(rows[c].crc20)
  BY <1>2 DEF RowBadges
<1>4. page.tier1.firstNRank = FirstNRankFor(c)
  BY PageIs, TierIs
<1>5. "age" \in Notable(c, page) <=> AgeBadge(c) # "none"
  BY DEF Notable
<1>6. "first" \in Notable(c, page) <=> page.tier1.firstNRank # Null
  BY DEF Notable
<1>7. \A b \in {"age", "first"} : b \in Badges(c, page) <=> b \in Notable(c, page)
  BY DEF Badges
<1>8. ("age" \in Badges(c, page)) = (AgeBadge(c) # "none")
  BY <1>5, <1>7
<1>9. ("first" \in Badges(c, page)) = (FirstNRankFor(c) # Null)
  BY <1>4, <1>6, <1>7
<1> QED BY <1>1, <1>3, <1>8, <1>9

(* The logos of a row are the venues it is found by.                       *)
LEMMA LogosAreFilters ==
  ASSUME Tables, NEW c \in Visible, NEW row, row = GridRow(c)
  PROVE  \A v \in Venues : (v \in VenueLogos(row)) <=> c \in Matching([Defaults EXCEPT !.venues = {v}])
<1>1. row.price = rows[c].cauldron.price /\ row.fexPrice = rows[c].fex.price /\ row.offers = Len(rows[c].offers)
  BY RowIs
<1>2. rows[c].offers \in Seq(Offer)
  <2>1. c \in Category
    BY DEF Visible, Tracked
  <2>2. PICK r : r = rows[c] /\ r \in TokenRow
    BY <2>1 DEF Tables, TablesTyped
  <2> QED BY <2>2 DEF TokenRow
<1>3. "tapswap" \in VenueLogos(row) <=> OnVenue("tapswap", c)
  <2>1. "tapswap" \in VenueLogos(row) <=> row.offers > 0
    BY DEF VenueLogos, Venues
  <2>2. Len(rows[c].offers) > 0 <=> rows[c].offers # <<>>
    BY <1>2
  <2> QED BY <1>1, <2>1, <2>2, OnVenueIs DEF OnTapswap
<1>4. "fex" \in VenueLogos(row) <=> OnVenue("fex", c)
  <2>1. "fex" \in VenueLogos(row) <=> row.fexPrice # Null
    BY DEF VenueLogos, Venues
  <2> QED BY <1>1, <2>1, OnVenueIs
<1>5. "cauldron" \in VenueLogos(row) <=> OnVenue("cauldron", c)
  <2>1. "cauldron" \in VenueLogos(row) <=> row.price # Null
    BY DEF VenueLogos, Venues
  <2> QED BY <1>1, <2>1, OnVenueIs
<1>6. \A v \in Venues : v = "cauldron" \/ v = "fex" \/ v = "tapswap"
  BY DEF Venues
<1>7. \A v \in Venues : (v \in VenueLogos(row)) <=> OnVenue(v, c)
  BY <1>3, <1>4, <1>5, <1>6, Zenon
<1> QED BY <1>7, FilteredBy, Zenon

(* So are the badge of a covenant and the one of the winner of its symbol. *)
LEMMA CovenantsAreFilters ==
  ASSUME Tables, NEW c \in Visible, NEW page, page = LoadToken(c, "week", {})
  PROVE  /\ ("covenant" \in HeadBadges(c, page)) <=> c \in Matching([Defaults EXCEPT !.crc20 = "true"])
         /\ (CovenantBadge(rows[c].crc20) = "canonical") <=> c \in Matching([Defaults EXCEPT !.crc20 = "canonical"])
         /\ \A card \in CovenantCard(c, page) : card.marker = CovenantBadge(rows[c].crc20)
<1>1. c \in Category
  BY DEF Visible, Tracked
<1>2. FetchCrc20Detail(c) # {} <=> rows[c].crc20.detected
  <2>1. c \in Covenants <=> rows[c].crc20.detected
    BY <1>1 DEF Covenants
  <2>2. c \in Covenants => c \in Contenders(rows[c].crc20.symbol)
    BY DEF Contenders
  <2> QED BY <2>1, <2>2 DEF FetchCrc20Detail
<1>3. "covenant" \in HeadBadges(c, page) <=> rows[c].crc20.detected
  BY <1>2, HeadBadgesAre
<1>4. (CovenantBadge(rows[c].crc20) = "canonical") <=> rows[c].crc20.canonical
  BY <1>1, RowHolds DEF CovenantBadge
<1>5. \A card \in CovenantCard(c, page) : card.marker = CovenantBadge(rows[c].crc20)
  BY DEF CovenantCard
<1> QED BY <1>3, <1>4, <1>5, FilteredBy, Zenon

(* Who comes first has the lower place.                                    *)
LEMMA ComesEarlier ==
  ASSUME NEW key, NEW w, IsOrder(key, w), NEW c \in DOMAIN key, NEW d \in DOMAIN key, Before(key[c], key[d])
  PROVE  Place(c, key) < Place(d, key)
<1> DEFINE Less(e) == {x \in DOMAIN key : Before(key[x], key[e])}
<1>1. /\ w \in Nat /\ IsFiniteSet(DOMAIN key) /\ \A e \in DOMAIN key : IsKey(key[e], w)
  BY DEF IsOrder
<1>2. Less(c) \in SUBSET Less(d)
  <2> SUFFICES ASSUME NEW e \in DOMAIN key, Before(key[e], key[c]) PROVE Before(key[e], key[d])
    OBVIOUS
  <2> QED BY <1>1, BeforeIsTransitive
<1>3. c \in Less(d) /\ c \notin Less(c)
  BY <1>1, BeforeIsTotal
<1>4. Less(c) \in SUBSET (DOMAIN key) /\ Less(d) \in SUBSET (DOMAIN key) /\ Less(c) # Less(d)
  BY <1>3
<1>5. Place(c, key) = 1 + Cardinality(Less(c)) /\ Place(d, key) = 1 + Cardinality(Less(d))
  BY DEF Place
<1> HIDE DEF Less
<1>6. IsFiniteSet(Less(c)) /\ IsFiniteSet(Less(d))
  BY <1>1, <1>4, FS_Subset
<1>7. Cardinality(Less(c)) \in Nat /\ Cardinality(Less(d)) \in Nat
  BY <1>6, FS_CardinalityType
<1>8. Cardinality(Less(c)) <= Cardinality(Less(d)) /\ Cardinality(Less(c)) # Cardinality(Less(d))
  BY <1>2, <1>4, <1>6, FS_Subset
<1> QED BY <1>5, <1>7, <1>8

(* The least and the greatest of some numbers.                             *)
LEMMA Extremes ==
  ASSUME NEW S \in SUBSET Int, IsFiniteSet(S), S # {}
  PROVE  /\ Lowest(S) \in S /\ \A y \in S : Lowest(S) <= y
         /\ Highest(S) \in S /\ \A y \in S : Highest(S) >= y
<1>1. PICK key : key = [x \in S |-> <<x>>]
  OBVIOUS
<1>2. IsOrder(key, 1)
  <2>1. \A x \in S : IsKey(<<x>>, 1)
    BY DEF IsKey
  <2> QED BY <1>1, <2>1 DEF IsOrder
<1>3. PICK n : n = Cardinality(S) /\ n \in Nat \ {0}
  BY FS_CardinalityType, FS_EmptySet
<1>4. DOMAIN key = S /\ 1 \in 1..n /\ n \in 1..n
  BY <1>1, <1>3
<1>5. \A x, y \in S : x < y => Before(key[x], key[y])
  <2> SUFFICES ASSUME NEW x \in S, NEW y \in S, x < y PROVE Before(key[x], key[y])
    OBVIOUS
  <2>1. \A j \in 1..(1 - 1) : <<x>>[j] = <<y>>[j]
    OBVIOUS
  <2>2. 1 \in DOMAIN <<x>> /\ <<x>>[1] < <<y>>[1]
    OBVIOUS
  <2>3. Before(<<x>>, <<y>>)
    BY <2>1, <2>2 DEF Before
  <2>4. key[x] = <<x>> /\ key[y] = <<y>>
    BY <1>1
  <2> QED BY <2>3, <2>4
<1>6. \A x, y \in S : x < y => Place(x, key) < Place(y, key)
  BY <1>2, <1>4, <1>5, ComesEarlier
<1>7. \A x \in S : Place(x, key) \in 1..n
  BY <1>2, <1>3, <1>4, PlacesTaken
<1>8. PICK a \in S : Place(a, key) = 1
  BY <1>2, <1>3, <1>4, PlacesTaken
<1>9. PICK b \in S : Place(b, key) = n
  BY <1>2, <1>3, <1>4, PlacesTaken
<1>10. \A y \in S : a <= y
  <2> SUFFICES ASSUME NEW y \in S, y < a PROVE FALSE
    OBVIOUS
  <2>1. Place(y, key) < Place(a, key) /\ Place(y, key) \in 1..n
    BY <1>6, <1>7
  <2> QED BY <1>8, <2>1
<1>11. \A y \in S : b >= y
  <2> SUFFICES ASSUME NEW y \in S, b < y PROVE FALSE
    OBVIOUS
  <2>1. Place(b, key) < Place(y, key) /\ Place(y, key) \in 1..n
    BY <1>6, <1>7
  <2> QED BY <1>3, <1>9, <2>1
<1>12. Lowest(S) \in S /\ \A y \in S : Lowest(S) <= y
  BY <1>10 DEF Lowest
<1>13. Highest(S) \in S /\ \A y \in S : Highest(S) >= y
  BY <1>11 DEF Highest
<1> QED BY <1>12, <1>13

LEMMA UpTo == ASSUME NEW n \in Nat PROVE IsFiniteSet(1..n) /\ Cardinality(1..n) = n
BY FS_Interval

(* Keys of two columns.                                                    *)
LEMMA PairsCompare ==
  ASSUME NEW a \in Int, NEW b \in Int, NEW k \in Int, NEW j \in Int
  PROVE  Before(<<a, k>>, <<b, j>>) <=> a < b \/ (a = b /\ k < j)
<1>1. PICK p, q : p = <<a, k>> /\ q = <<b, j>>
  OBVIOUS
<1>2. DOMAIN p = {1, 2} /\ p[1] = a /\ p[2] = k /\ q[1] = b /\ q[2] = j
  BY <1>1
<1>3. Before(p, q) <=> \E i \in {1, 2} : p[i] < q[i] /\ \A m \in 1..(i - 1) : p[m] = q[m]
  BY <1>2 DEF Before
<1>4. 1..(1 - 1) = {} /\ 1..(2 - 1) = {1}
  OBVIOUS
<1> QED BY <1>1, <1>2, <1>3, <1>4

(* A last column that repeats the one before changes nothing.              *)
LEMMA TriplesCompare ==
  ASSUME NEW a \in Int, NEW b \in Int, NEW k \in Int, NEW j \in Int
  PROVE  Before(<<a, k, k>>, <<b, j, j>>) <=> a < b \/ (a = b /\ k < j)
<1>1. PICK p, q : p = <<a, k, k>> /\ q = <<b, j, j>>
  OBVIOUS
<1>2. /\ DOMAIN p = {1, 2, 3} /\ p[1] = a /\ p[2] = k /\ p[3] = k
      /\ q[1] = b /\ q[2] = j /\ q[3] = j
  BY <1>1
<1>3. Before(p, q) <=> \E i \in {1, 2, 3} : p[i] < q[i] /\ \A m \in 1..(i - 1) : p[m] = q[m]
  BY <1>2 DEF Before
<1>4. 1..(1 - 1) = {} /\ 1..(2 - 1) = {1} /\ 1..(3 - 1) = {1, 2}
  OBVIOUS
<1>5. Before(p, q) <=> \/ p[1] < q[1]
                       \/ p[2] < q[2] /\ p[1] = q[1]
                       \/ p[3] < q[3] /\ p[1] = q[1] /\ p[2] = q[2]
  BY <1>3, <1>4
<1> QED BY <1>1, <1>2, <1>5

(* Offers are listed from the cheapest.                                    *)
LEMMA OffersRise ==
  ASSUME Tables, NEW c \in Visible, NEW page, page = LoadToken(c, "week", {})
  PROVE  \A i, j \in DOMAIN OfferRows(page) : i < j => OfferRows(page)[i] <= OfferRows(page)[j]
<1>1. PICK o : o = rows[c].offers
  OBVIOUS
<1>2. o \in Seq(Offer) /\ Len(o) \in Nat
  <2>1. c \in Category /\ TablesTyped
    BY DEF Visible, Tracked, Tables
  <2>2. o \in Seq(Offer)
    BY <1>1, <2>1, Columns
  <2> QED BY <2>2
<1>3. DOMAIN o = 1..Len(o) /\ \A j \in DOMAIN o : o[j].ask \in Nat
  BY <1>2 DEF Offer
<1>4. PICK key : key = [j \in DOMAIN o |-> <<o[j].ask, j>>]
  OBVIOUS
<1>5. DOMAIN key = DOMAIN o /\ \A j \in DOMAIN o : key[j] = <<o[j].ask, j>> /\ j \in Int
  BY <1>3, <1>4
<1>6. IsOrder(key, 2)
  <2>1. IsFiniteSet(DOMAIN o)
    BY <1>2, <1>3, FS_Interval
  <2>2. ASSUME NEW j \in DOMAIN o PROVE IsKey(key[j], 2) /\ key[j][2] = j
    <3>1. PICK x : x = o[j].ask /\ x \in Int
      BY <1>3
    <3>2. key[j] = <<x, j>> /\ j \in Int
      BY <1>5, <3>1
    <3> QED BY <3>1, <3>2 DEF IsKey
  <2> QED BY <1>5, <2>1, <2>2 DEF IsOrder
<1>7. ASSUME NEW j \in DOMAIN o, NEW k \in DOMAIN o
      PROVE  Before(key[k], key[j]) <=> o[k].ask < o[j].ask \/ (o[k].ask = o[j].ask /\ k < j)
  <2>1. PICK a, b : a = o[k].ask /\ b = o[j].ask /\ a \in Nat /\ b \in Nat
    BY <1>3
  <2>2. k \in Int /\ j \in Int /\ key[k] = <<a, k>> /\ key[j] = <<b, j>>
    BY <1>5, <2>1
  <2> QED BY <2>1, <2>2, PairsCompare
<1> DEFINE Cheaper(j) == {k \in DOMAIN o : o[k].ask < o[j].ask \/ (o[k].ask = o[j].ask /\ k < j)}
<1>8. ASSUME NEW j \in DOMAIN o PROVE Place(j, key) = 1 + Cardinality(Cheaper(j))
  <2>1. {k \in DOMAIN key : Before(key[k], key[j])} = Cheaper(j)
    BY <1>5, <1>7
  <2> QED BY <2>1 DEF Place
<1>9. PICK m : m = (IF Len(o) < OfferSize THEN Len(o) ELSE OfferSize)
  OBVIOUS
<1>10. m \in Nat /\ m <= Len(o)
  <2>1. OfferSize \in Nat
    BY SiteAssumption
  <2> QED BY <1>2, <1>9, <2>1
<1>11. ASSUME NEW i \in 1..m
       PROVE  \E j \in DOMAIN o : Offers(c)[i] = o[j] /\ Place(j, key) = i
  <2>1. Cardinality(DOMAIN key) = Len(o)
    <3>1. PICK n : n = Len(o) /\ n \in Nat
      BY <1>2
    <3>2. Cardinality(1..n) = n
      BY <3>1, UpTo
    <3> QED BY <1>3, <1>5, <3>1, <3>2
  <2>2. PICK k \in DOMAIN o : Place(k, key) = i
    <3>1. i \in 1..Cardinality(DOMAIN key)
      BY <1>10, <1>2, <2>1
    <3> QED BY <1>5, <1>6, <3>1, PlacesTaken
  <2>3. ASSUME NEW j \in DOMAIN o PROVE Cardinality(Cheaper(j)) = i - 1 <=> Place(j, key) = i
    <3>1. IsFiniteSet(DOMAIN o) /\ Cheaper(j) \in SUBSET (DOMAIN o)
      BY <1>5, <1>6 DEF IsOrder
    <3> HIDE DEF Cheaper
    <3>2. Cardinality(Cheaper(j)) \in Nat
      BY <3>1, FS_Subset, FS_CardinalityType
    <3> QED BY <1>8, <3>2
  <2>4. PICK j : j = CHOOSE x \in DOMAIN o : Cardinality(Cheaper(x)) = i - 1
    OBVIOUS
  <2>5. j \in DOMAIN o /\ Cardinality(Cheaper(j)) = i - 1
    <3> HIDE DEF Cheaper
    <3>1. \E x \in DOMAIN o : Cardinality(Cheaper(x)) = i - 1
      BY <2>2, <2>3
    <3> QED BY <2>4, <3>1
  <2>6. Offers(c)[i] = o[j]
    BY <1>1, <1>9, <2>4, Zenon DEF Offers
  <2> QED BY <2>3, <2>5, <2>6
<1> HIDE DEF Cheaper
<1>12. DOMAIN Offers(c) = 1..m
  BY <1>1, <1>9 DEF Offers
<1>13. page.tier1.offers = Offers(c)
  BY PageIs, TierIs
<1>14. DOMAIN OfferRows(page) = 1..m /\ \A i \in 1..m : OfferRows(page)[i] = Offers(c)[i].ask
  BY <1>12, <1>13 DEF OfferRows
<1>15. SUFFICES ASSUME NEW i \in 1..m, NEW j \in 1..m, i < j PROVE OfferRows(page)[i] <= OfferRows(page)[j]
  BY <1>14
<1>16. PICK a \in DOMAIN o : Offers(c)[i] = o[a] /\ Place(a, key) = i
  BY <1>11
<1>17. PICK b \in DOMAIN o : Offers(c)[j] = o[b] /\ Place(b, key) = j
  BY <1>11
<1>18. ~(o[b].ask < o[a].ask)
  <2> SUFFICES ASSUME o[b].ask < o[a].ask PROVE FALSE
    OBVIOUS
  <2>1. Before(key[b], key[a])
    BY <1>7
  <2>2. Place(b, key) < Place(a, key)
    BY <1>5, <1>6, <2>1, ComesEarlier
  <2> QED BY <1>10, <1>15, <1>16, <1>17, <2>2
<1>19. OfferRows(page)[i] = o[a].ask /\ OfferRows(page)[j] = o[b].ask /\ o[a].ask \in Nat /\ o[b].ask \in Nat
  BY <1>3, <1>14, <1>16, <1>17
<1> QED BY <1>18, <1>19

(* No range of prices ends below where it starts.                          *)
LEMMA RangesHold ==
  ASSUME Tables, NEW c \in Visible, NEW page, page = LoadToken(c, "week", {})
  PROVE  \A panel \in Trading(page) : \A w \in DOMAIN panel.ranges : panel.ranges[w].min <= panel.ranges[w].max
<1>1. page.tier1.extremes = PriceExtremes(c)
  BY PageIs, TierIs
<1>2. PICK p : p = rows[c].prices
  OBVIOUS
<1>3. p \in Seq(Point) /\ Len(p) \in Nat
  <2>1. c \in Category /\ TablesTyped
    BY DEF Visible, Tracked, Tables
  <2>2. p \in Seq(Point)
    BY <1>2, <2>1, Columns
  <2> QED BY <2>2
<1>4. DOMAIN p = 1..Len(p) /\ \A i \in DOMAIN p : p[i].price \in Quantity
  <2>1. \A i \in DOMAIN p : p[i] \in Point
    BY <1>3
  <2>2. DOMAIN p = 1..Len(p)
    BY <1>3
  <2> QED BY <2>1, <2>2 DEF Point
<1>5. ASSUME NEW w \in DOMAIN Window, NEW x, x = PriceExtremes(c)[w], x.min # Null PROVE x.min <= x.max
  <2>1. PICK I : I = InWindow(c, Window[w])
    OBVIOUS
  <2>2. I \in SUBSET (DOMAIN p)
    BY <1>2, <2>1 DEF InWindow
  <2>3. PICK S : S = {p[i].price : i \in I} \ {0, Null}
    OBVIOUS
  <2>4. S \in SUBSET Int
    BY <1>4, <2>2, <2>3 DEF Quantity, Null
  <2>5. IsFiniteSet(S)
    <3>1. IsFiniteSet(I)
      BY <1>3, <1>4, <2>2, UpTo, FS_Subset
    <3>2. PICK f : f = [i \in I |-> p[i].price]
      OBVIOUS
    <3>3. PICK T : T = {p[i].price : i \in I}
      OBVIOUS
    <3>4. f \in Surjection(I, T)
      BY <3>2, <3>3 DEF Surjection
    <3>5. IsFiniteSet(T)
      BY <3>1, <3>4, FS_Surjection
    <3> QED BY <2>3, <3>3, <3>5, FS_Difference
  <2>6. x = IF S = {} THEN [min |-> Null, max |-> Null] ELSE [min |-> Lowest(S), max |-> Highest(S)]
    BY <1>2, <1>5, <2>1, <2>3, Zenon DEF PriceExtremes
  <2>7. S # {}
    BY <1>5, <2>6
  <2>8. x.min = Lowest(S) /\ x.max = Highest(S)
    BY <2>6, <2>7
  <2>9. Lowest(S) \in S /\ \A y \in S : Highest(S) >= y
    BY <2>4, <2>5, <2>7, Extremes
  <2>10. Highest(S) >= Lowest(S) /\ Highest(S) \in Int /\ Lowest(S) \in Int
    BY <2>4, <2>5, <2>7, <2>9, Extremes
  <2> QED BY <2>8, <2>10
<1>6. DOMAIN PriceExtremes(c) = DOMAIN Window
  BY DEF PriceExtremes
<1>7. SUFFICES ASSUME NEW panel \in Trading(page), NEW w \in DOMAIN panel.ranges
               PROVE  panel.ranges[w].min <= panel.ranges[w].max
  OBVIOUS
<1>8. PICK e : e = PriceExtremes(c)
  OBVIOUS
<1>9. PICK R : R = {v \in DOMAIN e : e[v].min # Null /\ e[v].max # Null}
  OBVIOUS
<1>10. panel = [ranges |-> [v \in R |-> e[v]], trades |-> page.tier1.trades]
  <2>1. R = {v \in DOMAIN page.tier1.extremes : page.tier1.extremes[v].min # Null /\ page.tier1.extremes[v].max # Null}
    BY <1>1, <1>8, <1>9
  <2>2. [v \in R |-> e[v]] = [v \in R |-> page.tier1.extremes[v]]
    BY <1>1, <1>8
  <2> QED BY <1>7, <2>1, <2>2 DEF Trading
<1>11. w \in R /\ panel.ranges[w] = e[w]
  BY <1>7, <1>10
<1>12. w \in DOMAIN Window /\ e[w].min # Null
  BY <1>6, <1>8, <1>9, <1>11
<1> QED BY <1>5, <1>8, <1>11, <1>12

(* A share is a whole percentage, and grows with the part.                 *)
LEMMA SharesGrow ==
  ASSUME NEW a \in Nat, NEW b \in Nat, a <= b, NEW all \in Quantity, Share(a, all) # Null, Share(b, all) # Null
  PROVE  Share(a, all) <= Share(b, all)
<1>1. a # 0 /\ all \in Nat \ {0} /\ b # 0
  BY DEF Share, Quantity, Null
<1>2. /\ Share(a, all) = IF a > all THEN 100 ELSE (a * 100) \div all
      /\ Share(b, all) = IF b > all THEN 100 ELSE (b * 100) \div all
  BY <1>1 DEF Share, Null
<1>3. CASE b <= all
  <2>1. PICK q, r : q = (a * 100) \div all /\ r = (b * 100) \div all
    OBVIOUS
  <2>2. q \in Int /\ all * q <= a * 100
    BY <1>1, <2>1
  <2>3. r \in Int /\ b * 100 < all * (r + 1)
    BY <1>1, <2>1
  <2>4. all * q < all * (r + 1) /\ r + 1 \in Int
    BY <1>1, <2>2, <2>3
  <2>5. q < r + 1
    BY <1>1, <2>2, <2>4, Monotone
  <2>6. Share(a, all) = q /\ Share(b, all) = r
    BY <1>1, <1>2, <1>3, <2>1
  <2> QED BY <2>2, <2>3, <2>5, <2>6
<1>4. CASE b > all /\ a <= all
  <2>1. PICK q : q = (a * 100) \div all
    OBVIOUS
  <2>2. (100 * a) \div all <= 100 /\ 100 * a = a * 100
    BY <1>1, <1>4, OfTheWhole
  <2> QED BY <1>2, <1>4, <2>1, <2>2
<1>5. CASE a > all
  <2>1. Share(a, all) = 100 /\ Share(b, all) = 100
    BY <1>1, <1>2, <1>5
  <2> QED BY <2>1
<1>6. b <= all \/ (b > all /\ a <= all) \/ a > all
  BY <1>1
<1> QED BY <1>3, <1>4, <1>5, <1>6

(* The first holder: his share in the table is the one of the card, and no *)
(* more than that of the first ten.                                        *)
LEMMA SharesAgree ==
  ASSUME Tables, NEW c \in Visible, NEW page, page = LoadToken(c, "week", {})
  PROVE  /\ HolderRows(c, page) # <<>> /\ HolderRows(c, page)[1] > 0
               => HolderRows(c, page)[1] = Profile(c, page).topShare
         /\ Profile(c, page).topShare # Null /\ Profile(c, page).top10Share # Null
               => Profile(c, page).topShare <= Profile(c, page).top10Share
<1>1. PICK o, h, all : o = rows[c].owners /\ h = Holders(c) /\ all = rows[c].state.supply
  OBVIOUS
<1>2. o \in Seq([who : Int, balance : Nat]) /\ Len(o) \in Nat /\ all \in Quantity
  <2>1. c \in Category
    BY DEF Visible, Tracked
  <2>2. PICK r : r = rows[c] /\ r \in TokenRow
    BY <2>1 DEF Tables, TablesTyped
  <2>3. r.owners \in Seq([who : Int, balance : Nat])
    BY <2>2 DEF TokenRow
  <2>4. all \in Quantity
    BY <1>1, <2>1, RowHolds
  <2> QED BY <1>1, <2>2, <2>3, <2>4
<1>3. PICK m : m = (IF Len(o) < OwnerSize THEN Len(o) ELSE OwnerSize)
  OBVIOUS
<1>4. m \in Nat /\ m <= Len(o)
  <2>1. OwnerSize \in Nat
    BY SiteAssumption
  <2> QED BY <1>2, <1>3, <2>1
<1>5. h = SubSeq(o, 1, m)
  BY <1>1, <1>3 DEF Holders
<1>6. DOMAIN h = 1..m /\ \A i \in 1..m : h[i] = o[i] /\ h[i].balance \in Nat
  <2>1. \A i \in 1..m : o[i] \in [who : Int, balance : Nat]
    <3>1. PICK T : T = [who : Int, balance : Nat]
      OBVIOUS
    <3>2. o \in Seq(T) /\ \A i \in 1..m : i \in 1..Len(o)
      BY <1>2, <1>4, <3>1
    <3>3. \A i \in 1..m : o[i] \in T
      BY <3>2
    <3> QED BY <3>1, <3>3
  <2>2. Len(h) = m /\ h \in Seq([who : Int, balance : Nat]) /\ \A i \in 1..m : h[i] = o[i]
    BY <1>2, <1>4, <1>5, <2>1
  <2>3. DOMAIN h = 1..m
    BY <2>2
  <2> QED BY <2>1, <2>2, <2>3
<1>7. /\ page.tier1.holders = h /\ page.tier1.topShare = TopHolderShare(c)
      /\ page.tier1.top10Share = Top10HolderShare(c)
  BY <1>1, PageIs, TierIs
<1>8. Profile(c, page).topShare = TopHolderShare(c)
  BY <1>7 DEF Profile
<1>9. Profile(c, page).top10Share # Null => Profile(c, page).top10Share = Top10HolderShare(c)
  BY <1>7 DEF Profile
<1>10. TopHolderShare(c) = IF o = <<>> THEN Null ELSE Share(o[1].balance, all)
  BY <1>1 DEF TopHolderShare
<1>11. ASSUME HolderRows(c, page) # <<>>, HolderRows(c, page)[1] > 0
       PROVE  HolderRows(c, page)[1] = Profile(c, page).topShare
  <2>1. HolderRows(c, page) = [i \in 1..m |-> IF all \in {Null, 0} THEN Null
                                 ELSE IF h[i].balance > all THEN 100 ELSE (h[i].balance * 100) \div all]
    BY <1>1, <1>6, <1>7 DEF HolderRows
  <2>2. m # 0
    BY <1>11, <2>1
  <2>3. 1 \in 1..m /\ o # <<>>
    BY <1>2, <1>4, <2>2
  <2>4. PICK b : b = o[1].balance /\ b \in Nat /\ h[1].balance = b
    BY <1>6, <2>3
  <2>5. HolderRows(c, page)[1] = IF all \in {Null, 0} THEN Null ELSE IF b > all THEN 100 ELSE (b * 100) \div all
    <3>1. HolderRows(c, page)[1] = IF all \in {Null, 0} THEN Null
                                   ELSE IF h[1].balance > all THEN 100 ELSE (h[1].balance * 100) \div all
      BY <2>1, <2>3, Zenon
    <3> QED BY <2>4, <3>1
  <2>6. all \notin {Null, 0}
    BY <1>11, <2>5 DEF Null
  <2>7. all \in Nat \ {0}
    BY <1>2, <2>6 DEF Quantity
  <2>8. b # 0
    <3>1. (0 * 100) \div all = 0
      BY <2>7
    <3> QED BY <1>11, <2>5, <2>6, <2>7, <3>1
  <2>9. Share(b, all) = HolderRows(c, page)[1]
    BY <2>4, <2>5, <2>6, <2>8 DEF Share, Null
  <2> QED BY <1>8, <1>10, <2>3, <2>4, <2>9
<1>12. ASSUME Profile(c, page).topShare # Null, Profile(c, page).top10Share # Null
       PROVE  Profile(c, page).topShare <= Profile(c, page).top10Share
  <2>1. o # <<>> /\ Profile(c, page).topShare = Share(o[1].balance, all)
    BY <1>8, <1>10, <1>12
  <2>2. Profile(c, page).top10Share = Share(SumOf(h), all)
    BY <1>1, <1>9, <1>12 DEF Top10HolderShare
  <2>3. PICK f : f = [i \in 1..m |-> h[i].balance]
    OBVIOUS
  <2>4. SumOf(h) = SumFunctionOnSet(f, 1..m)
    <3>1. SumOf(h) = SumFunction([i \in DOMAIN h |-> h[i].balance])
      BY DEF SumOf, Total
    <3>2. SumOf(h) = SumFunction(f)
      BY <1>6, <2>3, <3>1
    <3>3. DOMAIN f = 1..m
      BY <2>3
    <3> QED BY <3>2, <3>3, SumFunctionIs
  <2>5. m # 0
    <3> SUFFICES ASSUME m = 0 PROVE FALSE
      OBVIOUS
    <3>1. 1..m = {}
      OBVIOUS
    <3>2. SumOf(h) = 0
      BY <2>4, <3>1, SumEmpty
    <3> QED BY <1>12, <2>2, <3>2 DEF Share
  <2>6. 1 \in 1..m /\ f[1] = o[1].balance /\ f[1] \in Nat /\ \A i \in 1..m : f[i] \in Nat /\ f[i] \in Int
    BY <1>4, <1>6, <2>3, <2>5
  <2>7. IsFiniteSet(1..m)
    BY <1>4, UpTo
  <2>8. SumFunctionOnSet(f, 1..m) \in Nat /\ f[1] <= SumFunctionOnSet(f, 1..m)
    BY <2>6, <2>7, SumOfPart
  <2>9. SumOf(h) \in Nat /\ o[1].balance \in Nat /\ o[1].balance <= SumOf(h)
    BY <2>4, <2>6, <2>8
  <2> QED BY <1>2, <1>12, <2>1, <2>2, <2>9, SharesGrow
<1> QED BY <1>11, <1>12

LEMMA LowestIs ==
  ASSUME NEW S \in SUBSET Int, NEW x \in S, \A y \in S : x <= y
  PROVE  Lowest(S) = x
<1>1. Lowest(S) \in S /\ \A y \in S : Lowest(S) <= y
  BY DEF Lowest
<1>2. Lowest(S) <= x /\ x <= Lowest(S) /\ Lowest(S) \in Int /\ x \in Int
  BY <1>1
<1> QED BY <1>2

(* The versions that have the same link as one.                            *)
PinnedAlike(R, i) == {j \in DOMAIN R : R[j].pin = R[i].pin}

(* The link of a version gives the newest that was verified in its block.  *)
LEMMA PinsHold ==
  ASSUME Tables, NEW c \in Visible, NEW page, page = LoadToken(c, "week", {}), NEW R, R = VersionRows(c, page),
         NEW i \in DOMAIN R, R[i].pin # Null
  PROVE  GetBcmrVersion(c, R[i].pin).version = page.versions[Lowest(PinnedAlike(R, i))].name
<1>0. PICK S : S = PinnedAlike(R, i) /\ S = {j \in DOMAIN R : R[j].pin = R[i].pin}
  BY DEF PinnedAlike
<1>1. PICK v : v = rows[c].versions
  OBVIOUS
<1>2. v \in Versions
  <2>1. c \in Category
    BY DEF Visible, Tracked
  <2>2. PICK r : r = rows[c] /\ r \in TokenRow
    BY <2>1 DEF Tables, TablesTyped
  <2> QED BY <1>1, <2>2 DEF TokenRow
<1>3. /\ v \in Seq(Version)
      /\ \A k, j \in DOMAIN v : k < j /\ v[j].block # Null => v[k].block # Null /\ v[k].block >= v[j].block
  BY <1>2 DEF Versions
<1>4. DOMAIN v = 1..Len(v) /\ Len(v) \in Nat
  BY <1>3
<1>5. \A j \in DOMAIN v : v[j].verified \in BOOLEAN /\ v[j].block \in Quantity
  <2>1. \A j \in DOMAIN v : v[j] \in Version
    <3>1. PICK T : T = Version
      OBVIOUS
    <3>2. v \in Seq(T)
      BY <1>3, <3>1
    <3>3. \A j \in DOMAIN v : v[j] \in T
      BY <3>2
    <3> QED BY <3>1, <3>3
  <2> QED BY <2>1 DEF Version
<1>6. PICK p : p = page.versions
  OBVIOUS
<1>7. DOMAIN p = DOMAIN v /\ \A j \in DOMAIN v : p[j].name = v[j].name /\ p[j].verified = v[j].verified
  <2>1. p = GetBcmrVersions(c)
    BY <1>6, PageIs
  <2> QED BY <1>1, <2>1 DEF GetBcmrVersions
<1>8. DOMAIN R = DOMAIN v /\ \A j \in DOMAIN v : R[j].pin = IF v[j].verified THEN v[j].block ELSE Null
  <2>1. DOMAIN R = DOMAIN p /\ \A j \in DOMAIN p : R[j].pin = IF p[j].verified THEN v[j].block ELSE Null
    BY <1>1, <1>6 DEF VersionRows
  <2> QED BY <1>7, <2>1
<1>9. PICK b : b = R[i].pin
  OBVIOUS
<1>10. i \in DOMAIN v /\ v[i].verified /\ v[i].block = b /\ b \in Nat
  <2>1. i \in DOMAIN v /\ b = IF v[i].verified THEN v[i].block ELSE Null
    BY <1>8, <1>9
  <2>2. v[i].verified /\ v[i].block = b
    BY <1>9, <2>1
  <2> QED BY <1>5, <1>9, <2>1, <2>2 DEF Quantity
<1>11. PICK F : F = {k \in DOMAIN v : v[k].verified /\ (b # Null => v[k].block \in 0..b)}
  OBVIOUS
<1>12. F \in SUBSET Nat /\ i \in F /\ S \in SUBSET F
  <2>1. F \in SUBSET Nat
    BY <1>4, <1>11
  <2>2. b \in 0..b
    BY <1>10
  <2>3. i \in F
    BY <1>10, <1>11, <2>2
  <2>4. ASSUME NEW j \in S PROVE j \in F
    <3>1. j \in DOMAIN v /\ b = (IF v[j].verified THEN v[j].block ELSE Null)
      BY <1>0, <1>8, <1>9
    <3>2. v[j].verified /\ v[j].block = b
      BY <1>9, <3>1
    <3> QED BY <1>11, <2>2, <3>1, <3>2
  <2> QED BY <2>1, <2>3, <2>4
<1>13. PICK x \in F : \A y \in F : x <= y
  BY <1>12, LeastNat
<1>14. Lowest(F) = x
  <2>1. F \in SUBSET Int
    BY <1>12
  <2> QED BY <1>13, <2>1, LowestIs
<1>15. x \in DOMAIN v /\ v[x].verified /\ v[x].block \in 0..b /\ x <= i
  BY <1>10, <1>11, <1>12, <1>13 DEF Null
<1>16. v[x].block = b
  <2>1. CASE x = i
    BY <1>10, <2>1
  <2>2. CASE x < i
    <3>1. v[x].block >= b
      BY <1>3, <1>10, <1>15, <2>2 DEF Null
    <3> QED BY <1>10, <1>15, <3>1
  <2> QED BY <1>4, <1>10, <1>15, <2>1, <2>2
<1>17. x \in S
  BY <1>0, <1>8, <1>9, <1>15, <1>16
<1>18. Lowest(S) = x
  <2>1. \A y \in S : y \in F /\ y \in Nat /\ x <= y
    BY <1>12, <1>13
  <2>2. S \in SUBSET Int
    BY <2>1
  <2> QED BY <1>17, <2>1, <2>2, LowestIs
<1>19. GetBcmrVersion(c, b).version = v[x].name
  <2>1. F # {}
    BY <1>13
  <2>2. GetBcmrVersion(c, b) = [status |-> 200, version |-> IF F = {} THEN Null ELSE v[Lowest(F)].name]
    BY <1>1, <1>11, ZenonT(40) DEF GetBcmrVersion
  <2> QED BY <1>14, <2>1, <2>2
<1> QED BY <1>0, <1>6, <1>7, <1>9, <1>15, <1>18, <1>19

LEMMA ViewsHold == ASSUME Tables PROVE ViewsAgree
<1> DEFINE page(c) == LoadToken(c, "week", {})
           row(c) == GridRow(c)
           says(c) == StatCards(c, page(c))
           shares(c) == HolderRows(c, page(c))
           filtered(c, p) == c \in Matching(p)
           R(c) == VersionRows(c, page(c))
<1>1. ASSUME NEW c \in Visible
      PROVE  /\ \A t \in Tiers : (says(c).gini = t) <=> filtered(c, [Defaults EXCEPT !.tier = t])
             /\ \A w \in DOMAIN Window : filtered(c, [Defaults EXCEPT !.new = {w}])
                   <=> AgeBadge(c) \in (CASE w = "day" -> {"today"} [] w = "week" -> {"today", "week"}
                                         [] OTHER -> {"today", "week", "month"})
  BY BadgesAreFilters, Zenon
<1>2. ASSUME NEW c \in Visible
      PROVE  /\ RowBadges(c, row(c)).age = CardBadges(c, row(c)).age
             /\ ("age" \in Badges(c, page(c))) = (RowBadges(c, row(c)).age # "none")
             /\ ("first" \in Badges(c, page(c))) = (RowBadges(c, row(c)).firstN # Null)
             /\ RowBadges(c, row(c)).venues = VenueLogos(row(c))
             /\ RowBadges(c, row(c)).covenant = CovenantBadge(rows[c].crc20)
  BY SameBadges, Zenon
<1>3. ASSUME NEW c \in Visible
      PROVE  \A v \in Venues : (v \in RowBadges(c, row(c)).venues) <=> filtered(c, [Defaults EXCEPT !.venues = {v}])
  <2>1. RowBadges(c, row(c)).venues = VenueLogos(row(c))
    BY <1>2
  <2>2. \A v \in Venues : (v \in VenueLogos(row(c))) <=> filtered(c, [Defaults EXCEPT !.venues = {v}])
    BY LogosAreFilters, Zenon
  <2> QED BY <2>1, <2>2, Zenon
<1>4. ASSUME NEW c \in Visible
      PROVE  /\ ("covenant" \in HeadBadges(c, page(c))) <=> filtered(c, [Defaults EXCEPT !.crc20 = "true"])
             /\ (RowBadges(c, row(c)).covenant = "canonical") <=> filtered(c, [Defaults EXCEPT !.crc20 = "canonical"])
             /\ \A card \in CovenantCard(c, page(c)) : card.marker = RowBadges(c, row(c)).covenant
  <2>1. RowBadges(c, row(c)).covenant = CovenantBadge(rows[c].crc20)
    BY <1>2
  <2>2. /\ ("covenant" \in HeadBadges(c, page(c))) <=> filtered(c, [Defaults EXCEPT !.crc20 = "true"])
        /\ (CovenantBadge(rows[c].crc20) = "canonical") <=> filtered(c, [Defaults EXCEPT !.crc20 = "canonical"])
        /\ \A card \in CovenantCard(c, page(c)) : card.marker = CovenantBadge(rows[c].crc20)
    BY CovenantsAreFilters, Zenon
  <2> QED BY <2>1, <2>2, Zenon
<1>5. ASSUME NEW c \in Visible
      PROVE  /\ PriceHero(c) => CardBadges(c, row(c)).priced
             /\ VenueCardsOf(c, page(c)).fex.price = row(c).fexPrice
  <2>1. PICK p, r : p = page(c) /\ r = row(c)
    OBVIOUS
  <2>2. r.price = rows[c].cauldron.price /\ r.fexPrice = rows[c].fex.price
    BY <2>1, RowIs
  <2>3. CardBadges(c, r).priced = (r.price # Null)
    BY DEF CardBadges
  <2>4. PriceHero(c) => CardBadges(c, r).priced
    <3>1. ASSUME NEW x, x > 0 PROVE x # Null
      BY <3>1 DEF Null
    <3>2. PriceHero(c) => r.price # Null
      BY <2>2, <3>1 DEF PriceHero
    <3> QED BY <2>3, <3>2
  <2>5. p.tier1.fexPrice = rows[c].fex.price
    BY <2>1, PageIs, TierIs
  <2>6. VenueCardsOf(c, p).fex.price = p.tier1.fexPrice
    BY DEF VenueCardsOf
  <2> QED BY <2>1, <2>2, <2>4, <2>5, <2>6
<1>6. ASSUME NEW c \in Visible
      PROVE  /\ shares(c) # <<>> /\ shares(c)[1] > 0 => shares(c)[1] = Profile(c, page(c)).topShare
             /\ Profile(c, page(c)).topShare # Null /\ Profile(c, page(c)).top10Share # Null
                   => Profile(c, page(c)).topShare <= Profile(c, page(c)).top10Share
  BY SharesAgree, Zenon
<1>7. ASSUME NEW c \in Visible
      PROVE  \A i \in DOMAIN R(c) : R(c)[i].pin # Null =>
               GetBcmrVersion(c, R(c)[i].pin).version
                 = page(c).versions[Lowest({j \in DOMAIN R(c) : R(c)[j].pin = R(c)[i].pin})].name
  <2>1. PICK p, v : p = page(c) /\ v = R(c)
    OBVIOUS
  <2>2. SUFFICES ASSUME NEW i \in DOMAIN v, v[i].pin # Null
                 PROVE  GetBcmrVersion(c, v[i].pin).version
                          = p.versions[Lowest({j \in DOMAIN v : v[j].pin = v[i].pin})].name
    BY <2>1, Zenon
  <2>3. PinnedAlike(v, i) = {j \in DOMAIN v : v[j].pin = v[i].pin}
    BY DEF PinnedAlike
  <2>4. v = VersionRows(c, p) /\ p = LoadToken(c, "week", {})
    BY <2>1
  <2>5. GetBcmrVersion(c, v[i].pin).version = p.versions[Lowest(PinnedAlike(v, i))].name
    <3>1. i \in DOMAIN VersionRows(c, p) /\ VersionRows(c, p)[i].pin # Null
      BY <2>2, <2>4
    <3> QED BY <2>4, <3>1, PinsHold, SMTT(30)
  <2> QED BY <2>3, <2>5, Zenon
<1>8. ASSUME NEW c \in Visible
      PROVE  /\ \A i, j \in DOMAIN OfferRows(page(c)) : i < j => OfferRows(page(c))[i] <= OfferRows(page(c))[j]
             /\ \A panel \in Trading(page(c)) :
                  \A w \in DOMAIN panel.ranges : panel.ranges[w].min <= panel.ranges[w].max
  BY OffersRise, RangesHold, Zenon
<1> QED BY <1>1, <1>2, <1>3, <1>4, <1>5, <1>6, <1>7, <1>8, Zenon DEF ViewsAgree

----------------------------------------------------------------------------
(* Lists, and the pages they link to.                                      *)

(* The tokens with offers that are shown have offers.                      *)
LEMMA OfferedOnly ==
  ASSUME TablesTyped
  PROVE  \A i \in DOMAIN TapswapTop : TapswapTop[i] \in Visible /\ OnTapswap(TapswapTop[i])
<1>1. PICK S : S = {d \in Visible : OnTapswap(d)}
  OBVIOUS
<1>2. PICK key : key = [c \in S |-> <<-Len(rows[c].offers), c>>]
  OBVIOUS
<1>3. Visible \in SUBSET Category /\ TopSize \in Nat
  BY Sizes, VisibleFinite
<1>4. \A c \in S : \E x \in Int : key[c] = <<x, c>>
  <2> TAKE c \in S
  <2>1. rows[c].offers \in Seq(Offer)
    BY <1>1, <1>3, Columns
  <2>2. -Len(rows[c].offers) \in Int
    BY <2>1
  <2> QED BY <1>2, <2>2
<1>5. DOMAIN key = S /\ S \in SUBSET Category
  BY <1>1, <1>2, <1>3
<1>6. Paired(key)
  BY <1>4, <1>5 DEF Paired
<1>7. PICK t : t = Top(key, TopSize)
  OBVIOUS
<1>8. t \in Seq(S)
  BY <1>3, <1>5, <1>6, <1>7, KeyedList
<1>9. \A i \in DOMAIN t : t[i] \in S
  BY <1>8
<1>10. TapswapTop = t
  BY <1>1, <1>2, <1>7 DEF TapswapTop
<1> QED BY <1>1, <1>9, <1>10

(* Every token of a list is found by the view the list links to.           *)
LEMMA SectionsHold ==
  ASSUME Tables
  PROVE  \A section \in LinkedLists(LoadStats({})) : \A c \in Set(section.list) : c \in Matching(section.link)
<1>0. TablesTyped
  BY DEF Tables
<1>1. PICK s : s = LoadStats({})
  OBVIOUS
<1>2. s.tapswapTop = TapswapTop /\ s.topHolders = TopHoldersByCount /\ s.firstCreated = FirstCreated
  BY <1>1, LoadedLists
<1>3. \A sort : Sorted(sort) = View(sort, "all", {}, {}, No, "all", "all")
  BY SortedView
<1>4. \A sort : \A c \in Visible : c \in Matching(Sorted(sort))
  <2> TAKE sort
  <2> TAKE c \in Visible
  <2>1. PICK q : q = Sorted(sort)
    OBVIOUS
  <2>2. q = View(sort, "all", {}, {}, No, "all", "all")
    BY <1>3, <2>1
  <2>3. c \in Matching(q) <=> Fits(c, "all", {}, {}, No, "all", "all")
    BY <2>2, Filtered, Zenon
  <2> QED BY <2>1, <2>3, FitsAll
<1>5. \A c \in Visible : OnTapswap(c) => c \in Matching(OnVenues("tapswap", "recent"))
  <2> TAKE c \in Visible
  <2>1. PICK q : q = OnVenues("tapswap", "recent")
    OBVIOUS
  <2>2. q = View("recent", "all", {"tapswap"}, {}, No, "all", "all")
    BY <2>1, Links
  <2>3. c \in Matching(q) <=> Fits(c, "all", {"tapswap"}, {}, No, "all", "all")
    BY <2>2, Filtered, Zenon
  <2>4. c \in Matching(q) <=> OnVenue("tapswap", c)
    BY <2>3, FitsVenue
  <2> QED BY <2>1, <2>4, OnVenueIs
<1>6. \A section \in TopHolders(s) : section.list = TopHoldersByCount /\ section.link = Sorted("holders")
  BY <1>2 DEF TopHolders, Section
<1>7. \A section \in TapswapList(s) : section.list = TapswapTop /\ section.link = OnVenues("tapswap", "recent")
  BY <1>2 DEF TapswapList, Section
<1>8. \A section \in FirstCreatedList(s) : section.list = FirstCreated /\ section.link = Sorted("oldest")
  BY <1>2 DEF FirstCreatedList, Section
<1>9. Set(TopHoldersByCount) \subseteq Visible /\ Set(FirstCreated) \subseteq Visible
  BY <1>0, StatsLists, ShownOf
<1>10. \A c \in Set(TapswapTop) : c \in Visible /\ OnTapswap(c)
  BY <1>0, OfferedOnly DEF Set
<1>11. \A section \in TopHolders(s) : \A c \in Set(section.list) : c \in Matching(section.link)
  BY <1>4, <1>6, <1>9
<1>12. \A section \in TapswapList(s) : \A c \in Set(section.list) : c \in Matching(section.link)
  BY <1>5, <1>7, <1>10
<1>13. \A section \in FirstCreatedList(s) : \A c \in Set(section.list) : c \in Matching(section.link)
  BY <1>4, <1>8, <1>9
<1> QED BY <1>1, <1>11, <1>12, <1>13 DEF LinkedLists

LEMMA OneMore == ASSUME NEW x \in Int, NEW c \in Int PROVE <<x, c>> \o <<c>> = <<x, c, c>>
<1>1. PICK s, t, r : s = <<x, c>> /\ t = <<c>> /\ r = s \o t
  OBVIOUS
<1>2. s \in Seq(Int) /\ t \in Seq(Int) /\ Len(s) = 2 /\ Len(t) = 1 /\ s[1] = x /\ s[2] = c /\ t[1] = c
  BY <1>1
<1>3. /\ r \in Seq(Int) /\ Len(r) = 3
      /\ \A i \in 1..3 : r[i] = IF i <= 2 THEN s[i] ELSE t[i - 2]
  BY <1>1, <1>2, ConcatProperties
<1>4. r[1] = x /\ r[2] = c /\ r[3] = c
  BY <1>2, <1>3
<1>5. r = <<x, c, c>>
  BY <1>3, <1>4
<1> QED BY <1>1, <1>5

(* The oldest tokens are the start of the grid that is sorted by age.      *)
LEMMA OldestFirst ==
  ASSUME TablesTyped
  PROVE  FirstCreated = SubSeq(WholeGrid("oldest"), 1, Len(FirstCreated))
<1>1. PICK k, p : k = [c \in Visible |-> <<rows[c].genesis, c>>] /\ p = [Defaults EXCEPT !.sort = "oldest"]
  OBVIOUS
<1>2. PICK h : h = [c \in Visible |-> GridKey(p, c)]
  OBVIOUS
<1>3. PICK f, g, n, m : f = FirstCreated /\ g = WholeGrid("oldest") /\ n = TopSize /\ m = Cardinality(Category)
  OBVIOUS
<1>4. Visible \in SUBSET Category /\ IsFiniteSet(Visible) /\ Cardinality(Visible) \in Nat /\ n \in Nat
  BY <1>3, VisibleFinite, Sizes
<1>5. /\ \E w \in Nat : IsOrder(h, w)
      /\ g = Top(h, m) /\ DOMAIN h = Visible /\ m \in Nat /\ g \in Seq(Visible) /\ Len(g) = Cardinality(Visible)
  BY <1>1, <1>2, <1>3, WholeGridIs
<1>6. ASSUME NEW c \in Visible
      PROVE  k[c] = <<rows[c].genesis, c>> /\ h[c] = <<rows[c].genesis, c, c>> /\ rows[c].genesis \in Int /\ c \in Int
  <2>1. rows[c].genesis \in Int /\ c \in Int
    BY <1>4, Columns, Sizes
  <2>2. p.search = "none" /\ p.sort = "oldest"
    BY <1>1 DEF Defaults
  <2>3. SortKey("oldest", c) = <<rows[c].genesis, c>>
    BY DEF SortKey
  <2>4. GridKey(p, c) = <<>> \o <<rows[c].genesis, c>> \o <<c>>
    BY <2>2, <2>3 DEF GridKey
  <2>5. PICK x : x = rows[c].genesis /\ x \in Int
    BY <2>1
  <2>6. <<>> \o <<x, c>> = <<x, c>>
    <3>1. IsKey(<<x, c>>, 2)
      BY <2>1, <2>5 DEF IsKey
    <3> QED BY <3>1, NothingBefore
  <2>7. <<x, c>> \o <<c>> = <<x, c, c>>
    BY <2>1, <2>5, OneMore
  <2>8. GridKey(p, c) = <<x, c, c>>
    BY <2>4, <2>5, <2>6, <2>7
  <2>9. k[c] = <<rows[c].genesis, c>> /\ h[c] = GridKey(p, c)
    BY <1>1, <1>2
  <2> QED BY <2>1, <2>5, <2>8, <2>9
<1>7. IsOrder(k, 2)
  <2>1. DOMAIN k = Visible
    BY <1>1
  <2>2. ASSUME NEW c \in Visible PROVE IsKey(k[c], 2) /\ k[c][2] = c
    <3>1. PICK x : x = rows[c].genesis /\ x \in Int
      BY <1>6
    <3>2. k[c] = <<x, c>> /\ c \in Int
      BY <1>6, <3>1
    <3> QED BY <3>1, <3>2 DEF IsKey
  <2> QED BY <1>4, <2>1, <2>2 DEF IsOrder
<1>8. DOMAIN k = Visible
  BY <1>1
<1>9. ASSUME NEW c \in Visible, NEW d \in Visible PROVE Before(k[d], k[c]) <=> Before(h[d], h[c])
  <2>1. PICK a, b : a = rows[d].genesis /\ b = rows[c].genesis /\ a \in Int /\ b \in Int
    BY <1>6
  <2>2. k[d] = <<a, d>> /\ k[c] = <<b, c>> /\ h[d] = <<a, d, d>> /\ h[c] = <<b, c, c>> /\ c \in Int /\ d \in Int
    BY <1>6, <2>1
  <2> QED BY <2>1, <2>2, PairsCompare, TriplesCompare
<1>10. ASSUME NEW c \in Visible PROVE Place(c, k) = Place(c, h)
  <2>1. {d \in DOMAIN k : Before(k[d], k[c])} = {d \in DOMAIN h : Before(h[d], h[c])}
    BY <1>5, <1>8, <1>9
  <2> QED BY <2>1 DEF Place
<1>11. f = Top(k, n)
  BY <1>1, <1>3 DEF FirstCreated
<1>12. /\ f \in Seq(Visible) /\ Len(f) <= Cardinality(Visible) /\ Len(f) \in Nat
       /\ \A i \in 1..Len(f) : Place(f[i], k) = i
  <2>1. /\ f \in Seq(DOMAIN k) /\ \A i \in 1..Len(f) : Place(f[i], k) = i
        /\ Len(f) = (IF Cardinality(DOMAIN k) < n THEN Cardinality(DOMAIN k) ELSE n)
    BY <1>4, <1>7, <1>11, TopLists
  <2>2. f \in Seq(Visible) /\ Len(f) \in Nat
    BY <1>8, <2>1
  <2>3. Len(f) <= Cardinality(Visible)
    BY <1>4, <1>8, <2>1
  <2> QED BY <2>1, <2>2, <2>3
<1>13. \A i \in 1..Len(g) : Place(g[i], h) = i
  BY <1>5, TopLists
<1>14. ASSUME NEW i \in 1..Len(f) PROVE f[i] = g[i]
  <2>1. i \in 1..Len(g)
    BY <1>4, <1>5, <1>12
  <2>2. PICK x, y : x = f[i] /\ y = g[i] /\ x \in Visible /\ y \in Visible
    BY <1>5, <1>12, <2>1
  <2>3. Place(x, k) = i /\ Place(y, h) = i
    BY <1>12, <1>13, <2>1, <2>2
  <2>4. Place(x, k) = Place(y, k)
    BY <1>10, <2>2, <2>3
  <2>5. x = y
    BY <1>7, <1>8, <2>2, <2>4, PlacesTaken
  <2> QED BY <2>2, <2>5
<1>15. f = SubSeq(g, 1, Len(f))
  <2>1. PICK t : t = SubSeq(g, 1, Len(f))
    OBVIOUS
  <2>2. t = [i \in 1..Len(f) |-> g[i]]
    <3>1. t = [i \in 1..(Len(f) - 1 + 1) |-> g[i + 1 - 1]]
      BY <2>1
    <3>2. Len(f) - 1 + 1 = Len(f) /\ \A i \in 1..Len(f) : i + 1 - 1 = i
      BY <1>12
    <3> QED BY <3>1, <3>2
  <2>3. f = [i \in 1..Len(f) |-> f[i]]
    BY <1>12
  <2> QED BY <1>14, <2>1, <2>2, <2>3
<1> QED BY <1>3, <1>15

(* Who is listed as a collector holds something.                           *)
LEMMA CollectorsHold ==
  ASSUME Tables
  PROVE  \A i \in DOMAIN TopCollectors : CategoriesHeld(TopCollectors[i]) > 0
<1>1. Visible \in SUBSET Category /\ IsFiniteSet(Visible) /\ TopSize \in Nat
  BY VisibleFinite, Sizes
<1>2. ASSUME NEW c \in Visible PROVE IsFiniteSet(Owners(c)) /\ Owners(c) \in SUBSET Int
  <2>1. PICK o : o = rows[c].owners
    OBVIOUS
  <2>2. o \in Seq([who : Int, balance : Nat])
    <3>1. PICK r : r = rows[c] /\ r \in TokenRow
      BY <1>1 DEF Tables, TablesTyped
    <3> QED BY <2>1, <3>1 DEF TokenRow
  <2>3. PICK T : T = [who : Int, balance : Nat]
    OBVIOUS
  <2>4. o \in Seq(T) /\ Len(o) \in Nat /\ DOMAIN o = 1..Len(o)
    BY <2>2, <2>3
  <2>5. \A i \in DOMAIN o : o[i] \in T
    BY <2>4
  <2>6. \A i \in DOMAIN o : o[i].who \in Int
    BY <2>3, <2>5
  <2>7. PICK f, W : f = [i \in DOMAIN o |-> o[i].who] /\ W = {o[i].who : i \in DOMAIN o}
    OBVIOUS
  <2>8. f \in Surjection(DOMAIN o, W)
    BY <2>7 DEF Surjection
  <2>9. IsFiniteSet(DOMAIN o)
    BY <2>4, UpTo
  <2>10. IsFiniteSet(W)
    BY <2>8, <2>9, FS_Surjection
  <2>11. Owners(c) = W
    BY <2>1, <2>7 DEF Owners
  <2> QED BY <2>6, <2>7, <2>10, <2>11
<1>3. PICK A, P : A = AllOwners /\ P = {Owners(c) : c \in Visible}
  OBVIOUS
<1>4. A = UNION P
  BY <1>3 DEF AllOwners
<1>5. IsFiniteSet(A)
  <2>1. PICK f : f = [c \in Visible |-> Owners(c)]
    BY Zenon
  <2>2. f \in Surjection(Visible, P)
    BY <1>3, <2>1 DEF Surjection
  <2>3. IsFiniteSet(P)
    BY <1>1, <2>2, FS_Surjection
  <2>4. \A T \in P : IsFiniteSet(T)
    BY <1>2, <1>3
  <2>5. IsFiniteSet(UNION P)
    BY <2>3, <2>4, FS_UNION
  <2> QED BY <1>4, <2>5
<1>6. ASSUME NEW who \in A PROVE who \in Int /\ CategoriesHeld(who) \in Nat /\ CategoriesHeld(who) > 0
  <2>1. PICK c \in Visible : who \in Owners(c)
    BY <1>3, <1>4
  <2>2. PICK H : H = {d \in Visible : who \in Owners(d)}
    OBVIOUS
  <2>3. H \in SUBSET Visible /\ c \in H
    BY <2>1, <2>2
  <2>4. IsFiniteSet(H) /\ Cardinality(H) \in Nat /\ Cardinality(H) # 0
    BY <1>1, <2>3, FS_Subset, FS_CardinalityType, FS_EmptySet
  <2>5. CategoriesHeld(who) = Cardinality(H)
    BY <2>2 DEF CategoriesHeld, Count
  <2>6. who \in Int
    BY <1>2, <2>1
  <2> QED BY <2>4, <2>5, <2>6
<1>7. PICK key : key = [who \in A |-> <<-CategoriesHeld(who), who>>]
  OBVIOUS
<1>8. DOMAIN key = A
  BY <1>7
<1>9. IsOrder(key, 2)
  <2>1. ASSUME NEW who \in A PROVE IsKey(key[who], 2) /\ key[who][2] = who
    <3>1. PICK x : x = -CategoriesHeld(who) /\ x \in Int
      BY <1>6
    <3>2. key[who] = <<x, who>> /\ who \in Int
      BY <1>6, <1>7, <3>1
    <3> QED BY <3>1, <3>2 DEF IsKey
  <2> QED BY <1>5, <1>8, <2>1 DEF IsOrder
<1>10. PICK t : t = Top(key, TopSize)
  OBVIOUS
<1>11. t \in Seq(A)
  BY <1>1, <1>8, <1>9, <1>10, TopLists
<1>12. \A i \in DOMAIN t : t[i] \in A
  BY <1>11
<1>13. TopCollectors = t
  BY <1>3, <1>7, <1>10 DEF TopCollectors
<1> QED BY <1>6, <1>12, <1>13

(* Two pages that show the same list, and a list and the page it links to. *)
LEMMA ListsHold == ASSUME Tables PROVE ListsAgree
<1>0. TablesTyped
  BY DEF Tables
<1> DEFINE s == LoadStats({})
<1>1. /\ s.topCollectors = TopCollectors /\ s.topHolders = TopHoldersByCount
      /\ s.firstCreated = FirstCreated /\ s.movers = GetMovers24h
  BY LoadedLists
<1>2. \A section \in LinkedLists(s) : \A c \in Set(section.list) : c \in Matching(section.link)
  BY SectionsHold
<1>3. s.firstCreated = SubSeq(WholeGrid("oldest"), 1, Len(s.firstCreated))
  <2>1. FirstCreated = SubSeq(WholeGrid("oldest"), 1, Len(FirstCreated))
    BY <1>0, OldestFirst
  <2> QED BY <1>1, <2>1, Zenon
<1>4. \A i \in DOMAIN HoldersSection(s).collectors : HoldersSection(s).collectors[i].held > 0
  <2>1. PICK C : C = HoldersSection(s).collectors
    OBVIOUS
  <2>2. C = [i \in DOMAIN s.topCollectors |->
               [who |-> s.topCollectors[i], held |-> CategoriesHeld(s.topCollectors[i])]]
    BY <2>1 DEF HoldersSection
  <2>3. DOMAIN C = DOMAIN TopCollectors /\ \A i \in DOMAIN TopCollectors : C[i].held = CategoriesHeld(TopCollectors[i])
    BY <1>1, <2>2
  <2> QED BY <2>1, <2>3, CollectorsHold
<1>5. \A i \in DOMAIN s.topHolders :
        IsPlace(RankOf(s.topHolders[i], Visible, LAMBDA d : rows[d].state.holders),
                s.topHolders[i], WholeGrid("holders"), LAMBDA d : rows[d].state.holders)
  <2>1. SUFFICES ASSUME NEW i \in DOMAIN TopHoldersByCount
                 PROVE  IsPlace(RankOf(TopHoldersByCount[i], Visible, LAMBDA d : rows[d].state.holders),
                                TopHoldersByCount[i], WholeGrid("holders"), LAMBDA d : rows[d].state.holders)
    BY <1>1, Zenon
  <2>2. PICK c : c = TopHoldersByCount[i]
    OBVIOUS
  <2>3. c \in Visible
    <3>1. PICK t : t = TopHoldersByCount
      OBVIOUS
    <3>2. t \in Seq(Visible)
      BY <1>0, <3>1, StatsLists
    <3> QED BY <2>2, <3>1, <3>2
  <2>4. PICK rank : rank = RankOf(c, Visible, LAMBDA d : rows[d].state.holders)
    OBVIOUS
  <2>5. IsPlace(rank, c, WholeGrid("holders"), LAMBDA d : rows[d].state.holders)
    BY <2>3, <2>4, HoldersPlaces
  <2> QED BY <2>2, <2>4, <2>5
<1>6. \A list \in {"topGainers", "topLosers", "topTvlMovers"} : \A c \in Set(s.movers[list]) :
        IndexIn(c, s.movers[list]) = MoverBadges(c)[CASE list = "topGainers" -> "gainer"
                                                      [] list = "topLosers" -> "loser"
                                                      [] OTHER -> "tvl"]
  <2>1. PICK m : m = GetMovers24h
    OBVIOUS
  <2>2. \A c : /\ MoverBadges(c)["gainer"] = IndexIn(c, m["topGainers"])
               /\ MoverBadges(c)["loser"] = IndexIn(c, m["topLosers"])
               /\ MoverBadges(c)["tvl"] = IndexIn(c, m["topTvlMovers"])
    BY <2>1 DEF MoverBadges
  <2>3. s.movers = m
    BY <1>1, <2>1
  <2>4. ASSUME NEW list \in {"topGainers", "topLosers", "topTvlMovers"}, NEW c
        PROVE  IndexIn(c, m[list]) = MoverBadges(c)[CASE list = "topGainers" -> "gainer"
                                                      [] list = "topLosers" -> "loser"
                                                      [] OTHER -> "tvl"]
    <3>1. CASE list = "topGainers"
      BY <2>2, <3>1
    <3>2. CASE list = "topLosers"
      BY <2>2, <3>2
    <3>3. CASE list = "topTvlMovers"
      BY <2>2, <3>3
    <3> QED BY <3>1, <3>2, <3>3
  <2> QED BY <2>3, <2>4, Zenon
<1> QED BY <1>2, <1>3, <1>4, <1>5, <1>6, Zenon DEF ListsAgree

LEMMA EveryPageAgrees == ASSUME Tables PROVE PagesAgree
BY TotalsHold, VenuesHold, CountsHold, TokensHold, ViewsHold, ListsHold DEF PagesAgree

(* While the pages are looked at, only the clock moves: what is hidden is  *)
(* a token of the table, and a link leads to the hash of an image.         *)
PagesInv ==
  focus = "pages" =>
    /\ \A c \in Category : hidden[c] # Never => c \in Tracked
    /\ \A u \in Uri : links[u].hash # NoHash => links[u].hash \in Hash

LEMMA PagesStart == Init => PagesInv
<1> SUFFICES ASSUME Init PROVE PagesInv
  OBVIOUS
<1>1. PICK S \in SUBSET Tracked : hidden = [c \in Category |-> IF c \in S THEN now ELSE Never]
  BY DEF Init
<1>2. \A c \in Category : hidden[c] # Never => c \in Tracked
  BY <1>1
<1>3. links = [u \in Uri |-> IF served[u] \in Image /\ Decided(served[u])
                             THEN [hash |-> served[u], failed |-> FALSE]
                             ELSE [hash |-> NoHash, failed |-> FALSE]]
  BY DEF Init, IconsFrom
<1>4. \A u \in Uri : links[u].hash # NoHash => links[u].hash \in Hash
  BY <1>3 DEF Hash
<1> QED BY <1>2, <1>4 DEF PagesInv

(* No part but the clock acts while the pages are looked at.               *)
LEMMA PagesRest ==
  ASSUME [Next]_vars
  PROVE  focus' = focus /\ (focus = "pages" => rows' = rows /\ hidden' = hidden /\ links' = links)
<1>1. "pages" \notin Key
  BY Sizes
<1>2. CASE UNCHANGED vars
  BY <1>2 DEF vars, data, parts, icons, iconTables
<1>3. CASE Tick
  BY <1>3 DEF Tick, parts, icons, iconTables
<1>4. ASSUME NEW part, Follows(part), part # "pages"
      PROVE  focus' = focus /\ focus # "pages"
  BY <1>4 DEF Follows
<1>5. ASSUME NEW c \in Category, Moderate(c)
      PROVE  focus' = focus /\ focus # "pages"
  BY <1>1, <1>5 DEF Moderate
<1> QED BY <1>1, <1>2, <1>3, <1>4, <1>5 DEF Next

LEMMA PagesKept == PagesInv /\ [Next]_vars => PagesInv'
BY PagesRest DEF PagesInv, Tracked

(* Whatever rows the workers have written, whatever is hidden and whatever *)
(* the operators decided about the icons: every page that counts, lists,   *)
(* ranks or describes tokens agrees with the directory, on the totals, on  *)
(* how many tokens each filter, badge and bar promises, on the places in   *)
(* its sorts, and on the row of a token (getDirectoryStats, loadStats,     *)
(* getMovers24h, loadRanks, sparklines and the routes that call them).     *)
THEOREM PagesShowOnePicture == Spec => []OnePictureOfTokens
<1>1. Init => MemoInv /\ PagesInv
  BY MemoStart, PagesStart
<1>2. MemoInv /\ PagesInv /\ [Next]_vars => (MemoInv /\ PagesInv)'
  BY MemoKept, PagesKept
<1>3. MemoInv /\ PagesInv => OnePictureOfTokens
  <2> SUFFICES ASSUME MemoInv, PagesInv, focus = "pages" PROVE PagesAgree
    BY DEF OnePictureOfTokens
  <2>1. TablesTyped
    BY DEF MemoInv, HidTimes
  <2>2. Tables
    BY <2>1 DEF PagesInv, Tables
  <2> QED BY <2>2, EveryPageAgrees
<1> QED BY <1>1, <1>2, <1>3, PTL DEF Spec
===============================================================================
