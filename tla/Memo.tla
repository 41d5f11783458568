--------------------------------- MODULE Memo ---------------------------------
(***************************************************************************)
(* The process-local memo in front of the lists that every visitor gets:   *)
(* stale-while-revalidate, with one computation of a key at a time.        *)
(*                                                                         *)
(* A computation sees the tables as they are when it starts; it is over    *)
(* within SlowQuery.  A value is known by the tokens it shows.             *)
(***************************************************************************)
EXTENDS Directory

CONSTANTS
  Key,           \* the memoised lists
  FreshFor, StaleFor, \* key -> ticks
  SlowQuery,     \* in ticks
  MaxMemoFaults  \* bound on failed queries

VARIABLES
  store,         \* key -> its entry, or NoEntry
  inflight,      \* key -> [value, at, background], or NotRunning
  memoFaults

memo == <<store, inflight, memoFaults>>

NoEntry == [value |-> {}, soft |-> Never, hard |-> Never, refreshing |-> FALSE]
NotRunning == [value |-> {}, at |-> Never, background |-> FALSE]

ShownIn(list) == {list[i] : i \in DOMAIN list}

Compute(k) ==
  CASE k = "grid" -> ShownIn(TokenGridData(Defaults).tokens)
    [] k = "leaders" -> LET l == GetVoteLeaderboards
                        IN ShownIn(l.mostUpvoted) \cup ShownIn(l.mostDownvoted)
    [] k = "movers" -> LET m == GetMovers24h IN ShownIn(m.topGainers) \cup ShownIn(m.topLosers)

Start(k, background) ==
  inflight' = [inflight EXCEPT ![k] = [value |-> Compute(k), at |-> now, background |-> background]]

(* A fresh value costs nothing; a stale one is served all the same, and    *)
(* the first to see it starts a refresh; without either the request waits  *)
(* for a computation, the one under way if there is one.                   *)
AskStale(k) ==
  /\ store[k] # NoEntry /\ store[k].soft <= now /\ now < store[k].hard /\ ~store[k].refreshing
  /\ inflight[k] = NotRunning
  /\ store' = [store EXCEPT ![k].refreshing = TRUE]
  /\ Start(k, TRUE)
  /\ UNCHANGED <<data, votes, icons, memoFaults>>

AskMissing(k) ==
  /\ now >= store[k].hard /\ inflight[k] = NotRunning
  /\ Start(k, FALSE)
  /\ UNCHANGED <<data, votes, icons, store, memoFaults>>

(* The entry is as old as the end of its computation.                      *)
Stamp(k, value) ==
  [store EXCEPT ![k] = [value |-> value, soft |-> now + FreshFor[k],
                        hard |-> now + FreshFor[k] + StaleFor[k], refreshing |-> FALSE]]

Computed(k) ==
  /\ inflight[k] # NotRunning
  /\ store' = Stamp(k, inflight[k].value)
  /\ inflight' = [inflight EXCEPT ![k] = NotRunning]
  /\ UNCHANGED <<data, votes, icons, memoFaults>>

(* Mutant: a failure counts as a refresh of the value there is.            *)
ComputationFailsFresh(k) ==
  /\ inflight[k] # NotRunning /\ memoFaults < MaxMemoFaults
  /\ memoFaults' = memoFaults + 1
  /\ inflight' = [inflight EXCEPT ![k] = NotRunning]
  /\ store' = Stamp(k, store[k].value)
  /\ UNCHANGED <<data, votes, icons>>

(* A failed query of the grid leaves the old entry, free to be refreshed;  *)
(* the other lists answer a failure with an empty list, and keep that.     *)
ComputationFails(k) ==
  /\ inflight[k] # NotRunning /\ memoFaults < MaxMemoFaults
  /\ memoFaults' = memoFaults + 1
  /\ inflight' = [inflight EXCEPT ![k] = NotRunning]
  /\ store' = (IF k # "grid" THEN Stamp(k, {})
               ELSE IF inflight[k].background /\ store[k] # NoEntry
                    THEN [store EXCEPT ![k].refreshing = FALSE] ELSE store)
  /\ UNCHANGED <<data, votes, icons>>

----------------------------------------------------------------------------
NothingMemoised ==
  /\ store = [k \in Key |-> NoEntry]
  /\ inflight = [k \in Key |-> NotRunning]
  /\ memoFaults = 0

(* A computation may take no longer than a statement may.                  *)
Computing == \E k \in Key : inflight[k] # NotRunning /\ now - inflight[k].at >= SlowQuery

MemoNext(k) == AskStale(k) \/ AskMissing(k) \/ Computed(k) \/ ComputationFails(k)

----------------------------------------------------------------------------
(* What a request would be given at once.                                  *)
Serves(k) == IF now < store[k].hard THEN store[k].value ELSE {}

(* A list from the memo shows a hidden token no longer than an entry and   *)
(* the computation it came from can last (cached), however requests,       *)
(* background refreshes and failures follow each other.                    *)
HiddenLeavesMemo ==
  \A k \in Key : \A c \in Serves(k) :
    hidden[c] # Never => now - hidden[c] < FreshFor[k] + StaleFor[k] + SlowQuery
===============================================================================
