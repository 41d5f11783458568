-------------------------------- MODULE Browser -------------------------------
(***************************************************************************)
(* The home page in one browser tab: the filters, the search box and the   *)
(* pager write the URL, a load of the page answers a shell at once and the *)
(* grid later, the grid is polled, and what has arrived is kept on screen. *)
(*                                                                         *)
(* Of the router: the newest load supersedes those that have not answered, *)
(* a navigation and a poll alike, and an effect runs with the assignment   *)
(* that triggers it.                                                       *)
(***************************************************************************)
EXTENDS Directory

CONSTANTS
  MaxLoads,      \* bound on loads of the page
  MaxTyped,      \* bound on edits of the search box
  MaxGridFaults  \* bound on grids that fail on their way

VARIABLES
  url,           \* page.url: what the controls show
  box,           \* the search box: [input, committed, debounce]
  loads,         \* loads of the page, in order: [url, pc]
  current,       \* data: the load whose shell the page has
  liveGrid,      \* the load whose grid is on screen, or 0
  typed, gridFaults

browser == <<url, box, loads, current, liveGrid, typed, gridFaults>>

Latest == Len(loads)
Goto(u) == loads' = Append(loads, [url |-> u, pc |-> "loading"])

(* The box follows the URL when it differs from what was committed last.   *)
SyncSearch(b, u) ==
  IF u.search # b.committed THEN [b EXCEPT !.input = u.search, !.committed = u.search] ELSE b

----------------------------------------------------------------------------
(* The controls start from the URL the page has, also while another one is *)
(* being loaded; every filter and sort goes back to the first page.        *)

PushParam(u) == Latest < MaxLoads /\ Goto([u EXCEPT !.offset = 0])

SetSort(sort) ==
  /\ PushParam([url EXCEPT !.sort = IF sort = "name" THEN Defaults.sort ELSE sort])
  /\ UNCHANGED <<data, votes, icons, url, box, current, liveGrid, typed, gridFaults>>

SetType(type) ==
  /\ PushParam([url EXCEPT !.type = type])
  /\ UNCHANGED <<data, votes, icons, url, box, current, liveGrid, typed, gridFaults>>

ToggleVenue(v) ==
  /\ PushParam([url EXCEPT !.venues = IF v \in @ THEN @ \ {v} ELSE @ \cup {v}])
  /\ UNCHANGED <<data, votes, icons, url, box, current, liveGrid, typed, gridFaults>>

(* The pager goes by the grid on screen.                                   *)
Grid == TokenGridData(loads[liveGrid].url)
HasPrev == liveGrid # 0 /\ loads[liveGrid].url.offset > 0
HasNext == liveGrid # 0 /\ loads[liveGrid].url.offset + PageSize < Grid.total

SetPage ==
  /\ Latest < MaxLoads
  /\ \/ HasPrev /\ Goto([url EXCEPT !.offset = Larger(loads[liveGrid].url.offset - PageSize, 0)])
     \/ HasNext /\ Goto([url EXCEPT !.offset = loads[liveGrid].url.offset + PageSize])
  /\ UNCHANGED <<data, votes, icons, url, box, current, liveGrid, typed, gridFaults>>

OnSearchInput(words) ==
  /\ typed < MaxTyped /\ typed' = typed + 1
  /\ box' = [box EXCEPT !.input = words, !.debounce = TRUE]
  /\ UNCHANGED <<data, votes, icons, url, loads, current, liveGrid, gridFaults>>

(* What was typed becomes the search, and the box falls back to the URL's  *)
(* until the page of the new one is there.                                 *)
Debounced ==
  /\ box.debounce
  /\ PushParam([url EXCEPT !.search = box.input])
  /\ box' = SyncSearch([box EXCEPT !.committed = box.input, !.debounce = FALSE], url)
  /\ UNCHANGED <<data, votes, icons, url, current, liveGrid, typed, gridFaults>>

(* The browser's own buttons.                                              *)
GoBack ==
  /\ Latest < MaxLoads
  /\ \E i \in DOMAIN loads : loads[i].url # url /\ loads[i].pc # "loading" /\ Goto(loads[i].url)
  /\ UNCHANGED <<data, votes, icons, url, box, current, liveGrid, typed, gridFaults>>

(* Every thirty seconds, and when the tab is looked at again.              *)
Refresh ==
  /\ Latest < MaxLoads
  /\ Goto(url)
  /\ UNCHANGED <<data, votes, icons, url, box, current, liveGrid, typed, gridFaults>>

----------------------------------------------------------------------------
(* The shell is there: the URL changes, and the effects run.               *)
LoadAnswers ==
  /\ loads[Latest].pc = "loading"
  /\ loads' = [loads EXCEPT ![Latest].pc = "streaming"]
  /\ current' = Latest
  /\ url' = loads[Latest].url
  /\ box' = SyncSearch(box, loads[Latest].url)
  /\ UNCHANGED <<data, votes, icons, liveGrid, typed, gridFaults>>

(* Mutant: a grid is shown whenever it comes.                              *)
GridArrivesLate(i) ==
  /\ loads[i].pc = "streaming"
  /\ loads' = [loads EXCEPT ![i].pc = "arrived"]
  /\ liveGrid' = i
  /\ UNCHANGED <<data, votes, icons, url, box, current, typed, gridFaults>>

(* Grids arrive in any order; that of an earlier load is not shown.        *)
GridArrives(i) ==
  /\ loads[i].pc = "streaming"
  /\ loads' = [loads EXCEPT ![i].pc = "arrived"]
  /\ liveGrid' = IF i = current THEN i ELSE liveGrid
  /\ UNCHANGED <<data, votes, icons, url, box, current, typed, gridFaults>>

(* The last grid stays.                                                    *)
GridFails(i) ==
  /\ loads[i].pc = "streaming" /\ gridFaults < MaxGridFaults
  /\ gridFaults' = gridFaults + 1
  /\ loads' = [loads EXCEPT ![i].pc = "failed"]
  /\ UNCHANGED <<data, votes, icons, url, box, current, liveGrid, typed>>

----------------------------------------------------------------------------
FirstVisit ==
  /\ url = Defaults
  /\ box = [input |-> "none", committed |-> "none", debounce |-> FALSE]
  /\ loads = <<[url |-> Defaults, pc |-> "streaming"]>>
  /\ current = 1 /\ liveGrid = 0 /\ typed = 0 /\ gridFaults = 0

BrowserNext ==
  \/ SetSort("oldest") \/ SetSort("name") \/ SetType("FT") \/ SetType("all") \/ ToggleVenue("fex")
  \/ SetPage \/ Debounced \/ GoBack \/ Refresh \/ LoadAnswers
  \/ \E words \in {"none", "word"} : OnSearchInput(words)
  \/ \E i \in DOMAIN loads : GridArrives(i) \/ GridFails(i)

----------------------------------------------------------------------------
(* In whatever order loads and grids come back: once the grid of the page  *)
(* the tab is on has arrived, the grid on screen is that of the URL, of    *)
(* the latest load of it, and with nothing under way the search box says   *)
(* what the URL searches for (+page.svelte, TokenGrid.svelte).             *)
GridMatchesUrl ==
  /\ loads[current].url = url
  /\ loads[current].pc = "arrived" => liveGrid = current
  /\ loads[Latest].pc # "loading" /\ ~box.debounce => box.input = url.search
===============================================================================
