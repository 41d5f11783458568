-------------------------------- MODULE Votes ---------------------------------
(***************************************************************************)
(* Votes and watchlists: the buttons on a token, the two endpoints behind  *)
(* them, and the transactions that keep the limits.                        *)
(*                                                                         *)
(* A request is a step of the page, then one step per statement of the     *)
(* server that another transaction can come between, then the answer.  A   *)
(* page that stops waiting leaves its request running.  A transaction is   *)
(* over within statement_timeout, so the clock stands still under one: a   *)
(* tick is a minute or more.  A page has one button; the counts beside it  *)
(* are left out.                                                           *)
(***************************************************************************)
EXTENDS SiteData

CONSTANTS
  User, Button, Request,
  DailyVoteLimit, Cooldown, WatchCap, ToggleWindow, ToggleLimit,
  MaxClicks,     \* bound on clicks
  MaxVoteFaults  \* bound on failed statements and answers that are not heard

VARIABLES
  ballots,       \* user_votes: <<user, category>> -> [vote, at]
  actions,       \* user_vote_actions: <<user, day>> -> count
  times,         \* user_vote_action_times: <<user, category>> -> instant, or Never
  watch,         \* user_watchlist: user -> categories
  toggles,       \* watchlistToggleLimiter: user -> instants
  buttons,       \* button -> its page
  requests,      \* request -> where it is
  clicks, voteFaults,
  cast           \* every vote action committed, in order

voteTables == <<ballots, actions, times, watch>>
votes == <<voteTables, toggles, buttons, requests, clicks, voteFaults, cast>>

NoVote == [vote |-> "none", at |-> Never]
Unset == "unset"
Free == [pc |-> "free", button |-> CHOOSE b \in Button : TRUE, heard |-> FALSE,
         next |-> "none", seen |-> "none", full |-> FALSE]
Days == 0..(MaxTime \div Day)
Today == now \div Day

----------------------------------------------------------------------------
(* The buttons.                                                            *)

Holder(b) == buttons[b].user
On(b) == buttons[b].category
IsVote(b) == buttons[b].kind = "vote"

ListUserVotes(u, c) == IF c \in Visible THEN ballots[<<u, c>>].vote ELSE "none"
ListWatchlist(u, c) == IF c \in watch[u] THEN "on" ELSE "none"

(* What the layout load would give the button now.                         *)
Loads(b) == IF IsVote(b) THEN ListUserVotes(Holder(b), On(b)) ELSE ListWatchlist(Holder(b), On(b))

Current(b) == IF buttons[b].shown # Unset THEN buttons[b].shown ELSE buttons[b].loaded
Targets(b) == IF IsVote(b) THEN {"up", "down"} ELSE {"on"}

(* A click on the direction that is lit takes the vote back.               *)
CastVote(b, r) ==
  /\ ~buttons[b].busy /\ ~buttons[b].left /\ requests[r].pc = "free" /\ clicks < MaxClicks
  /\ clicks' = clicks + 1
  /\ \E target \in Targets(b) :
       LET next == IF Current(b) = target THEN "none" ELSE target
       IN /\ buttons' = [buttons EXCEPT ![b].busy = TRUE, ![b].before = Current(b), ![b].shown = next]
          /\ requests' = [requests EXCEPT ![r] = [Free EXCEPT !.pc = "sent", !.button = b,
                                                              !.heard = TRUE, !.next = next]]
  /\ UNCHANGED <<data, voteTables, toggles, voteFaults, cast>>

(* The button falls back, and forgets that after a second and a half: also *)
(* when it has been clicked again since.                                   *)
Rollback(b) == [buttons EXCEPT ![b].busy = FALSE, ![b].shown = buttons[b].before,
                               ![b].timers = @ + 1]

TimerFires(b) ==
  /\ buttons[b].timers > 0
  /\ buttons' = [buttons EXCEPT ![b].timers = @ - 1, ![b].shown = Unset]
  /\ UNCHANGED <<data, voteTables, toggles, requests, clicks, voteFaults, cast>>

(* A session that ended since the page was loaded sends it to the login    *)
(* page.                                                                   *)
SignedOut(r) ==
  LET b == requests[r].button
  IN /\ requests[r].pc = "sent" /\ requests[r].heard
     /\ requests' = [requests EXCEPT ![r] = Free]
     /\ buttons' = [buttons EXCEPT ![b].busy = FALSE, ![b].left = TRUE,
                                   ![b].shown = IF IsVote(b) THEN buttons[b].before ELSE Unset]
     /\ UNCHANGED <<data, voteTables, toggles, clicks, voteFaults, cast>>

----------------------------------------------------------------------------
(* setVote and toggleWatchlist, statement by statement.                    *)

Asking(r) == Holder(requests[r].button)
About(r) == On(requests[r].button)
Step(r, pc) == requests' = [requests EXCEPT ![r].pc = pc]
Voting(r) == requests[r].pc # "free" /\ IsVote(requests[r].button)
Toggling(r) == requests[r].pc # "free" /\ ~IsVote(requests[r].button)

(* Mutant: nobody waits for the lock.                                      *)
LockedByNobody(r) == FALSE

(* Who has taken the advisory lock of this wallet and token.               *)
Locked(r) ==
  \E q \in Request \ {r} :
    /\ Voting(q) /\ requests[q].pc \in {"count", "write"}
    /\ Asking(q) = Asking(r) /\ About(q) = About(r)

CheckCooldown(r) ==
  LET last == times[<<Asking(r), About(r)>>]
  IN /\ Voting(r) /\ requests[r].pc = "sent" /\ ~Locked(r)
     /\ Step(r, IF last # Never /\ now - last < Cooldown THEN "refused" ELSE "count")
     /\ UNCHANGED <<data, voteTables, toggles, buttons, clicks, voteFaults, cast>>

(* Another uncommitted count of the same day keeps the row.                *)
CountAction(r) ==
  /\ Voting(r) /\ requests[r].pc = "count"
  /\ \A q \in Request \ {r} : ~(Voting(q) /\ requests[q].pc = "write" /\ Asking(q) = Asking(r))
  /\ Step(r, IF actions[<<Asking(r), Today>>] + 1 > DailyVoteLimit THEN "refused" ELSE "write")
  /\ UNCHANGED <<data, voteTables, toggles, buttons, clicks, voteFaults, cast>>

(* Only a token that is tracked and not hidden takes a vote; any vote can  *)
(* be taken back.  The counter, the instant and the vote commit together.  *)
WriteVote(r) ==
  LET u == Asking(r) c == About(r) next == requests[r].next
  IN /\ Voting(r) /\ requests[r].pc = "write"
     /\ IF next # "none" /\ c \notin Visible
        THEN Step(r, "refused") /\ UNCHANGED <<voteTables, cast>>
        ELSE /\ Step(r, "done")
             /\ actions' = [actions EXCEPT ![<<u, Today>>] = @ + 1]
             /\ times' = [times EXCEPT ![<<u, c>>] = now]
             /\ ballots' = [ballots EXCEPT ![<<u, c>>] =
                              IF next = "none" THEN NoVote ELSE [vote |-> next, at |-> now]]
             /\ cast' = Append(cast, [user |-> u, category |-> c, at |-> now])
             /\ UNCHANGED watch
     /\ UNCHANGED <<data, toggles, buttons, clicks, voteFaults>>

RecentToggles(u) == SelectSeq(toggles[u], LAMBDA t : t >= now - ToggleWindow)

(* One lock per wallet.  The statement sees the list once, then writes.    *)
ReadWatchlist(r) ==
  LET u == Asking(r)
  IN /\ Toggling(r) /\ requests[r].pc = "sent"
     /\ \A q \in Request \ {r} : ~(Toggling(q) /\ requests[q].pc = "write" /\ Asking(q) = u)
     /\ IF Len(RecentToggles(u)) >= ToggleLimit
        THEN Step(r, "refused") /\ UNCHANGED toggles
        ELSE /\ toggles' = [toggles EXCEPT ![u] = Append(RecentToggles(u), now)]
             /\ requests' = [requests EXCEPT ![r].pc = "write", ![r].seen = ListWatchlist(u, About(r)),
                                             ![r].full = Cardinality(watch[u]) >= WatchCap]
     /\ UNCHANGED <<data, voteTables, buttons, clicks, voteFaults, cast>>

ToggleWatchlist(r) ==
  LET u == Asking(r) c == About(r) q == requests[r]
  IN /\ Toggling(r) /\ q.pc = "write"
     /\ \/ /\ q.seen = "on"
           /\ watch' = [watch EXCEPT ![u] = @ \ {c}]
           /\ requests' = [requests EXCEPT ![r].pc = "done", ![r].next = "none"]
        \/ /\ q.seen = "none" /\ ~q.full /\ c \in Tracked
           /\ watch' = [watch EXCEPT ![u] = @ \cup {c}]
           /\ requests' = [requests EXCEPT ![r].pc = "done", ![r].next = "on"]
        \/ /\ q.seen = "none" /\ (q.full \/ c \notin Tracked)
           /\ Step(r, "refused") /\ UNCHANGED watch
     /\ UNCHANGED <<data, ballots, actions, times, toggles, buttons, clicks, voteFaults, cast>>

(* A statement fails or times out: the transaction is rolled back.         *)
StatementFails(r) ==
  /\ requests[r].pc \in {"sent", "count", "write"} /\ voteFaults < MaxVoteFaults
  /\ Step(r, "refused")
  /\ voteFaults' = voteFaults + 1
  /\ UNCHANGED <<data, voteTables, toggles, buttons, clicks, cast>>

----------------------------------------------------------------------------
(* The answer.                                                             *)

Refused(r) ==
  /\ requests[r].pc = "refused"
  /\ requests' = [requests EXCEPT ![r] = Free]
  /\ buttons' = (IF requests[r].heard THEN Rollback(requests[r].button) ELSE buttons)
  /\ UNCHANGED <<data, voteTables, toggles, clicks, voteFaults, cast>>

Answered(r) ==
  LET b == requests[r].button
  IN /\ requests[r].pc = "done"
     /\ requests' = [requests EXCEPT ![r] = IF @.heard THEN [@ EXCEPT !.pc = "reload"] ELSE Free]
     /\ buttons' = (IF requests[r].heard THEN [buttons EXCEPT ![b].shown = requests[r].next] ELSE buttons)
     /\ UNCHANGED <<data, voteTables, toggles, clicks, voteFaults, cast>>

Reload(r) ==
  LET b == requests[r].button
  IN /\ requests[r].pc = "reload"
     /\ requests' = [requests EXCEPT ![r] = Free]
     /\ buttons' = [buttons EXCEPT ![b].loaded = Loads(b), ![b].shown = Unset, ![b].busy = FALSE]
     /\ UNCHANGED <<data, voteTables, toggles, clicks, voteFaults, cast>>

(* The page stops waiting: the call failed on its way, or the reload did.  *)
Unheard(r) ==
  /\ requests[r].pc # "free" /\ requests[r].heard /\ voteFaults < MaxVoteFaults
  /\ requests' = [requests EXCEPT ![r] = IF @.pc = "reload" THEN Free ELSE [@ EXCEPT !.heard = FALSE]]
  /\ buttons' = Rollback(requests[r].button)
  /\ voteFaults' = voteFaults + 1
  /\ UNCHANGED <<data, voteTables, toggles, clicks, cast>>

----------------------------------------------------------------------------
(* A wallet watches what it has voted up; each standing vote was counted   *)
(* on its day, and is the last of its wallet on its token.                 *)
VotedOn(standing, u, d) ==
  {c \in Category : standing[<<u, c>>] # NoVote /\ standing[<<u, c>>].at \div Day = d}
VotesFrom(standing) ==
  /\ ballots = standing
  /\ actions = [x \in User \X Days |-> Cardinality(VotedOn(standing, x[1], x[2]))]
  /\ times = [x \in User \X Category |-> standing[x].at]
  /\ watch = [u \in User |-> {c \in Category : standing[<<u, c>>].vote = "up"}]
  /\ toggles = [u \in User |-> <<>>]
  /\ requests = [r \in Request |-> Free]
  /\ clicks = 0 /\ voteFaults = 0 /\ cast = <<>>

Fresh(u, c, kind) ==
  [user |-> u, category |-> c, kind |-> kind, loaded |-> "none", shown |-> Unset,
   before |-> "none", busy |-> FALSE, left |-> FALSE, timers |-> 0]

Quiet == \A r \in Request : requests[r].pc = "free"

VotesNext ==
  \/ \E b \in Button : TimerFires(b) \/ \E r \in Request : CastVote(b, r)
  \/ \E r \in Request :
       \/ SignedOut(r) \/ CheckCooldown(r) \/ CountAction(r) \/ WriteVote(r)
       \/ ReadWatchlist(r) \/ ToggleWatchlist(r) \/ StatementFails(r)
       \/ Refused(r) \/ Answered(r) \/ Reload(r) \/ Unheard(r)

----------------------------------------------------------------------------
(* However tabs, retries and failures interleave: a wallet's accepted vote *)
(* actions of one day stay within the daily limit, two on one token are a  *)
(* cooldown apart, and a watchlist stays within its cap (setVote,          *)
(* toggleWatchlist).                                                       *)
LimitsHold ==
  /\ \A u \in User, d \in Days :
       Cardinality({i \in DOMAIN cast : cast[i].user = u /\ cast[i].at \div Day = d}) <= DailyVoteLimit
  /\ \A i, j \in DOMAIN cast :
       (i < j /\ cast[i].user = cast[j].user /\ cast[i].category = cast[j].category)
         => cast[j].at - cast[i].at >= Cooldown
  /\ \A u \in User : Cardinality(watch[u]) <= WatchCap
===============================================================================
