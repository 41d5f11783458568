-------------------------------- MODULE Icons ---------------------------------
(***************************************************************************)
(* Token icons: the worker that fetches, screens and stores them, the      *)
(* operators who clear and block them, and what a page may show.           *)
(*                                                                         *)
(* One worker runs at a time, under an advisory lock; each of its          *)
(* statements and file writes is a step, and so is each of an operator's.  *)
(* An image is what its bytes hash to; an oversized one is never read and  *)
(* gets a hash made from its URL.                                          *)
(***************************************************************************)
EXTENDS SiteData

CONSTANTS
  Uri, Image, Operator,
  MaxIconFaults, \* bound on crashes, failed statements and failed file operations
  MaxChanges,    \* bound on images replaced at their source
  MaxDecisions   \* bound on what the operators do

VARIABLES
  served,        \* what a URL answers: an image, TooBig or Nothing
  links,         \* icon_url_scan: url -> [hash, failed]
  decisions,     \* icon_moderation: hash -> [state, reason], or NoDecision
  files,         \* hashes with a WebP on disk
  worker,        \* [pc, uri, hash, verdict]
  benches,       \* operator -> the queue it looks at and what it has asked for
  iconFaults, changes, decided,
  verdicts       \* hash -> what an operator last decided, or that its format got another chance

iconTables == <<links, decisions, files>>
iconCounts == <<iconFaults, changes, decided>>
icons == <<served, iconTables, worker, benches, iconCounts, verdicts>>

TooBig == "too big"
Nothing == "nothing"
NoHash == "no hash"
Hash == Image \cup Uri
NoDecision == [state |-> "none", reason |-> "none"]
Resting == [pc |-> "idle", uri |-> Nothing, hash |-> NoHash, verdict |-> NoDecision]
NoAsk == [kind |-> "none", hashes |-> {}, reason |-> "none"]

As(state, reason) == [state |-> state, reason |-> reason]
Decided(h) == decisions[h] # NoDecision
Standing(h) == Decided(h) /\ verdicts[h] # "reopened"

----------------------------------------------------------------------------
(* The worker.                                                             *)

Pending(u) == links[u].hash = NoHash \/ links[u].failed

(* Any bytes may be too big, undecodable or refused by the screening, and  *)
(* without a key for it every image is left to the operators.              *)
FetchIcon(u) ==
  /\ worker.pc = "idle" /\ Pending(u)
  /\ CASE served[u] = Nothing ->
            /\ links' = [links EXCEPT ![u].failed = TRUE]
            /\ UNCHANGED worker
       [] served[u] = TooBig ->
            /\ worker' = [pc |-> "decide", uri |-> u, hash |-> u, verdict |-> As("blocked", "oversize")]
            /\ UNCHANGED links
       [] OTHER ->
            /\ worker' = [Resting EXCEPT !.pc = "screen", !.uri = u, !.hash = served[u]]
            /\ UNCHANGED links
  /\ UNCHANGED <<data, served, decisions, files, benches, iconCounts, verdicts>>

(* A hash somebody decided about is only linked.                           *)
ScreenIcon ==
  /\ worker.pc = "screen"
  /\ IF Decided(worker.hash)
     THEN worker' = [worker EXCEPT !.pc = "link"]
     ELSE \/ worker' = Resting
          \/ worker' = [worker EXCEPT !.pc = "decide", !.verdict = As("blocked", "adult")]
          \/ \E state \in {"review", "cleared"} :
               worker' = [worker EXCEPT !.pc = "write", !.verdict = As(state, "none")]
  /\ UNCHANGED <<data, served, iconTables, benches, iconCounts, verdicts>>

WriteIcon ==
  /\ worker.pc = "write"
  /\ files' = files \cup {worker.hash}
  /\ worker' = [worker EXCEPT !.pc = "decide"]
  /\ UNCHANGED <<data, served, links, decisions, benches, iconCounts, verdicts>>

UpsertDecision ==
  /\ worker.pc = "decide"
  /\ decisions' = [decisions EXCEPT ![worker.hash] = worker.verdict]
  /\ worker' = [worker EXCEPT !.pc = "link"]
  /\ UNCHANGED <<data, served, links, files, benches, iconCounts, verdicts>>

LinkIcon ==
  /\ worker.pc = "link"
  /\ links' = [links EXCEPT ![worker.uri] = [hash |-> worker.hash, failed |-> FALSE]]
  /\ worker' = Resting
  /\ UNCHANGED <<data, served, decisions, files, benches, iconCounts, verdicts>>

(* The run ends, or the statement or the file write of this URL fails.     *)
WorkerStops ==
  /\ worker.pc # "idle" /\ iconFaults < MaxIconFaults
  /\ worker' = Resting
  /\ iconFaults' = iconFaults + 1
  /\ UNCHANGED <<data, served, iconTables, benches, changes, decided, verdicts>>

(* A rescan notices that the bytes behind a URL have changed.              *)
RescanIcon(u) ==
  /\ worker.pc = "idle" /\ links[u].hash # NoHash /\ served[u] # links[u].hash
  /\ links' = [links EXCEPT ![u] = IF served[u] \in {Nothing, TooBig}
                                   THEN [@ EXCEPT !.failed = TRUE]
                                   ELSE [hash |-> NoHash, failed |-> FALSE]]
  /\ UNCHANGED <<data, served, decisions, files, worker, benches, iconCounts, verdicts>>

Rehealable == {"oversize", "unsupported_format"}

(* Once in a while the blocks that were about the format are tried again.  *)
Reheal ==
  LET again == {h \in Hash : decisions[h].state = "blocked" /\ decisions[h].reason \in Rehealable}
  IN /\ worker.pc = "idle" /\ \E u \in Uri : links[u].hash \in again
     /\ links' = [u \in Uri |-> IF links[u].hash \in again THEN [hash |-> NoHash, failed |-> FALSE]
                                ELSE links[u]]
     /\ decisions' = [h \in Hash |-> IF h \in again THEN NoDecision ELSE decisions[h]]
     /\ verdicts' = [h \in Hash |-> IF h \in again THEN "reopened" ELSE verdicts[h]]
     /\ UNCHANGED <<data, served, files, worker, benches, iconCounts>>

Republish(u) ==
  /\ changes < MaxChanges
  /\ \E what \in Image \cup {TooBig, Nothing} : served' = [served EXCEPT ![u] = what]
  /\ changes' = changes + 1
  /\ UNCHANGED <<data, iconTables, worker, benches, iconFaults, decided, verdicts>>

----------------------------------------------------------------------------
(* The operators.  Their queue is as old as its last load.                 *)

GetIconStateCounts ==
  [s \in {"pending", "cleared", "blocked", "review"} |-> Count(Hash, LAMBDA h : decisions[h].state = s)]

ListIconModeration ==
  [h \in Hash |-> [state |-> decisions[h].state, hasFile |-> h \in files]]

OpenIcons(o) ==
  /\ benches[o].ask = NoAsk /\ benches[o].list # ListIconModeration
  /\ benches' = [benches EXCEPT ![o].list = ListIconModeration]
  /\ UNCHANGED <<data, served, iconTables, worker, iconCounts, verdicts>>

IsClearable(row) == row.hasFile /\ row.state \notin {"none", "cleared"}
Clearable(o) == {h \in Hash : IsClearable(benches[o].list[h])}
Listed(o) == {h \in Hash : benches[o].list[h].state # "none"}

Ask(o, ask) ==
  /\ decided < MaxDecisions
  /\ decided' = decided + 1
  /\ benches' = [benches EXCEPT ![o].ask = ask]

(* Clearing needs the file, so that no page links to one that is missing.  *)
(* Of a selection, the images without one are skipped.                     *)
ApproveSelected(o) ==
  /\ benches[o].ask = NoAsk
  /\ \E hashes \in SUBSET Clearable(o) :
       /\ hashes \cap files # {}
       /\ Ask(o, [kind |-> "clear", hashes |-> hashes \cap files, reason |-> "none"])
  /\ UNCHANGED <<data, served, iconTables, worker, iconFaults, changes, verdicts>>

ClearIcon(o) ==
  LET ask == benches[o].ask
  IN /\ ask.kind = "clear"
     /\ decisions' = [h \in Hash |-> IF h \in ask.hashes /\ Decided(h) THEN As("cleared", "none")
                                     ELSE decisions[h]]
     /\ verdicts' = [h \in Hash |-> IF h \in ask.hashes /\ Standing(h) THEN "cleared" ELSE verdicts[h]]
     /\ UNCHANGED <<data, served, links, files, worker, iconCounts>>
     /\ benches' = [benches EXCEPT ![o] = [list |-> ListIconModeration', ask |-> NoAsk]]

(* Mutant: a file that cannot be removed does not stop the block.          *)
DeleteFileAnyway(o, h, reason) ==
  /\ benches[o].ask = NoAsk /\ h \in Listed(o)
  /\ \/ files' = files \ {h} /\ UNCHANGED iconFaults
     \/ iconFaults < MaxIconFaults /\ iconFaults' = iconFaults + 1 /\ UNCHANGED files
  /\ Ask(o, [kind |-> "block", hashes |-> {h}, reason |-> reason])
  /\ UNCHANGED <<data, served, links, decisions, worker, changes, verdicts>>

(* Blocking removes the file first; if that fails it goes no further.      *)
DeleteFile(o, h, reason) ==
  /\ benches[o].ask = NoAsk /\ h \in Listed(o)
  /\ files' = files \ {h}
  /\ Ask(o, [kind |-> "block", hashes |-> {h}, reason |-> reason])
  /\ UNCHANGED <<data, served, links, decisions, worker, iconFaults, changes, verdicts>>

BlockIcon(o) ==
  LET ask == benches[o].ask
  IN /\ ask.kind = "block"
     /\ decisions' = [h \in Hash |-> IF h \in ask.hashes /\ Decided(h) THEN As("blocked", ask.reason)
                                     ELSE decisions[h]]
     /\ verdicts' = [h \in Hash |-> IF h \in ask.hashes /\ Standing(h) THEN "blocked" ELSE verdicts[h]]
     /\ UNCHANGED <<data, served, links, files, worker, iconCounts>>
     /\ benches' = [benches EXCEPT ![o] = [list |-> ListIconModeration', ask |-> NoAsk]]

(* The file is gone, or was looked for, and the row stays as it was.       *)
AskFails(o) ==
  /\ benches[o].ask # NoAsk /\ iconFaults < MaxIconFaults
  /\ benches' = [benches EXCEPT ![o].ask = NoAsk]
  /\ iconFaults' = iconFaults + 1
  /\ UNCHANGED <<data, served, iconTables, worker, changes, decided, verdicts>>

----------------------------------------------------------------------------
(* What a page shows.                                                      *)

IconClearedHash(u) ==
  IF u \in Uri /\ links[u].hash # NoHash /\ decisions[links[u].hash].state = "cleared"
  THEN links[u].hash ELSE NoHash

(* The placeholder, unless the image was cleared.                          *)
IconHrefFor(u) == IF IconClearedHash(u) # NoHash THEN IconClearedHash(u) ELSE "placeholder"

ResolveIconStatus(u) ==
  LET state == IF links[u].hash = NoHash THEN "none" ELSE decisions[links[u].hash].state
  IN CASE u \notin Uri -> "no_uri"
       [] IconClearedHash(u) # NoHash -> "cleared"
       [] links[u].failed /\ state = "none" -> "fetch_failed"
       [] state \in {"blocked", "review"} -> state
       [] OTHER -> "pending_scan"

GetIconModerationStats ==
  [cleared |-> Count(Hash, LAMBDA h : decisions[h].state = "cleared"),
   review |-> Count(Hash, LAMBDA h : decisions[h].state = "review"),
   blocked |-> [r \in {"adult", "oversize", "unsupported_format", "csam"} |->
                  Count(Hash, LAMBDA h : decisions[h] = As("blocked", r))],
   pendingUrls |-> Count(Uri, Pending), totalUrls |-> Cardinality(Uri),
   tokensWithClearedIcon |-> Count(Tracked, LAMBDA c : IconClearedHash(rows[c].icon) # NoHash)]

----------------------------------------------------------------------------
(* An image somebody has decided about is linked where it is served.       *)
IconsFrom(standing) ==
  /\ decisions = standing
  /\ links = [u \in Uri |-> IF served[u] \in Image /\ Decided(served[u])
                            THEN [hash |-> served[u], failed |-> FALSE]
                            ELSE [hash |-> NoHash, failed |-> FALSE]]
  /\ files = {h \in Hash : decisions[h].state \in {"cleared", "review"}}
  /\ worker = Resting
  /\ benches = [o \in Operator |-> [list |-> ListIconModeration, ask |-> NoAsk]]
  /\ iconFaults = 0 /\ changes = 0 /\ decided = 0
  /\ verdicts = [h \in Hash |-> "none"]

IconsNext ==
  \/ \E u \in Uri : FetchIcon(u) \/ RescanIcon(u) \/ Republish(u)
  \/ ScreenIcon \/ WriteIcon \/ UpsertDecision \/ LinkIcon \/ WorkerStops \/ Reheal
  \/ \E o \in Operator :
       \/ OpenIcons(o) \/ ApproveSelected(o) \/ ClearIcon(o) \/ BlockIcon(o) \/ AskFails(o)
       \/ \E h \in Hash, reason \in {"adult", "oversize"} : DeleteFile(o, h, reason)

----------------------------------------------------------------------------
(* What an operator has blocked stays blocked, with no file to serve, until *)
(* an operator clears it, whatever the worker is in the middle of, whichever *)
(* operator works from an old list, and however often the worker starts    *)
(* again (blockIcon).  An image whose format was given another chance is   *)
(* out of this: a worker may be storing it while it is blocked again.      *)
BlockStands ==
  \A h \in Hash : verdicts[h] = "blocked" => decisions[h].state = "blocked" /\ h \notin files
===============================================================================
