------------------------------- MODULE Reports --------------------------------
(***************************************************************************)
(* Reports about a token and what the operators do with them: the form of  *)
(* the token page, the endpoint that files a report, the queue the         *)
(* operators work from, and token_moderation, which every page reads.      *)
(*                                                                         *)
(* A reporter is the address its requests count for.  Reasons, notes and   *)
(* the text of a report decide nothing and are left out; so are inputs the *)
(* endpoints refuse by their form.                                         *)
(***************************************************************************)
EXTENDS SiteData

CONSTANTS
  Reporter, Moderator,
  ReportWindow, LimitPerIp, LimitPerCategory,
  PageOfReports, \* rows of the queue on one page
  MaxReports,    \* bound on reports
  MaxSends,      \* bound on forms sent
  MaxReportFaults \* bound on failed statements and lost answers

VARIABLES
  reports,       \* token_reports, by id: [category, status, at]
  ipHits, catHits, \* rateBuckets: instants, oldest first
  forms,         \* reporter -> the form it has open
  desks,         \* moderator -> the queue it looks at
  sends, reportFaults,
  filed          \* every form that passed the limits: [ip, category, at]

limiter == <<ipHits, catHits>>
reporting == <<reports, limiter, forms, desks, sends, reportFaults, filed>>

Status == {"new", "reviewed", "actioned", "dismissed"}
NoForm == [pc |-> "idle", category |-> CHOOSE c \in Category : TRUE]
NoDesk == [state |-> "new", offset |-> 0, list |-> <<>>, counts |-> [s \in Status |-> 0],
           more |-> FALSE, busy |-> 0, open |-> FALSE]

----------------------------------------------------------------------------
(* Filing one.                                                             *)

(* A bucket's hits are in the order of time, so that filtering it drops    *)
(* those at the front.                                                     *)
AgedOut(hits) ==
  CHOOSE d \in 0..Len(hits) :
    /\ \A k \in 1..d : hits[k] <= now - ReportWindow
    /\ d < Len(hits) => hits[d + 1] > now - ReportWindow
Within(hits) == SubSeq(hits, AgedOut(hits) + 1, Len(hits))

(* Mutant: the bucket takes one hit more than its cap.                     *)
AdmitsOneMore(hits, cap) == Len(Within(hits)) <= cap

Admits(hits, cap) == Len(Within(hits)) < cap

(* An address over its cap does not use up the token's; the other way      *)
(* round it has used its own.  A form answered "ok" is not sent again.     *)
SubmitReport(a, c) ==
  /\ forms[a].pc \in {"idle", "ratelimited", "error"} /\ sends < MaxSends
  /\ sends' = sends + 1
  /\ IF ~Admits(ipHits[a], LimitPerIp)
     THEN /\ ipHits' = [ipHits EXCEPT ![a] = Within(@)]
          /\ forms' = [forms EXCEPT ![a] = [pc |-> "ratelimited", category |-> c]]
          /\ UNCHANGED <<catHits, filed>>
     ELSE /\ ipHits' = [ipHits EXCEPT ![a] = Append(Within(@), now)]
          /\ IF ~Admits(catHits[c], LimitPerCategory)
             THEN /\ catHits' = [catHits EXCEPT ![c] = Within(@)]
                  /\ forms' = [forms EXCEPT ![a] = [pc |-> "ratelimited", category |-> c]]
                  /\ UNCHANGED filed
             ELSE /\ catHits' = [catHits EXCEPT ![c] = Append(Within(@), now)]
                  /\ forms' = [forms EXCEPT ![a] = [pc |-> "check", category |-> c]]
                  /\ filed' = Append(filed, [ip |-> a, category |-> c, at |-> now])
  /\ UNCHANGED <<data, reports, desks, reportFaults>>

FormShows(a, pc) == forms' = [forms EXCEPT ![a].pc = pc]

(* A token that is not tracked, or hidden, takes no report.                *)
CheckToken(a) ==
  /\ forms[a].pc = "check"
  /\ FormShows(a, IF forms[a].category \in Visible THEN "insert" ELSE "error")
  /\ UNCHANGED <<data, reports, limiter, desks, sends, reportFaults, filed>>

(* By now the token may have been hidden.                                  *)
InsertReport(a) ==
  /\ forms[a].pc = "insert" /\ Len(reports) < MaxReports
  /\ reports' = Append(reports, [category |-> forms[a].category, status |-> "new", at |-> now])
  /\ FormShows(a, "alert")
  /\ UNCHANGED <<data, limiter, desks, sends, reportFaults, filed>>

(* The operator's webhook may fail; the report is kept.                    *)
DispatchAlert(a) ==
  /\ forms[a].pc = "alert"
  /\ FormShows(a, "ok")
  /\ UNCHANGED <<data, reports, limiter, desks, sends, reportFaults, filed>>

(* A statement fails, or the page does not hear the answer: it may send    *)
(* the report again.                                                       *)
FilingFails(a) ==
  /\ forms[a].pc \in {"check", "insert", "alert"} /\ reportFaults < MaxReportFaults
  /\ FormShows(a, "error")
  /\ reportFaults' = reportFaults + 1
  /\ UNCHANGED <<data, reports, limiter, desks, sends, filed>>

----------------------------------------------------------------------------
(* The operators' queue.                                                   *)

GetReportStatusCounts == [s \in Status |-> Len(SelectSeq(reports, LAMBDA r : r.status = s))]
StatusesOf(state) == IF state = "all" THEN Status ELSE {state}

(* Newest first; a report is known by its number.                          *)
ListReports(state, limit, offset) ==
  LET of == {i \in DOMAIN reports : reports[i].status \in StatusesOf(state)}
      page == {i \in of : LET place == Cardinality({j \in of : j > i})
                          IN place >= offset /\ place < offset + limit}
      nth(k) == CHOOSE i \in page : Cardinality({j \in page : j > i}) = k - 1
  IN [k \in 1..Cardinality(page) |->
        [id |-> nth(k), category |-> reports[nth(k)].category, status |-> reports[nth(k)].status,
         hidden |-> hidden[reports[nth(k)].category] # Never]]

LoadQueue(state, offset) ==
  LET found == ListReports(state, PageOfReports + 1, offset)
  IN [state |-> state, offset |-> offset, more |-> Len(found) > PageOfReports,
      list |-> SubSeq(found, 1, IF Len(found) > PageOfReports THEN PageOfReports ELSE Len(found)),
      counts |-> GetReportStatusCounts, busy |-> 0, open |-> TRUE]

(* A tab of the page, or its links to newer and older reports.             *)
OpenQueue(o) ==
  /\ desks[o].busy = 0
  /\ \E state \in Status \cup {"all"}, offset \in {0, desks[o].offset + PageOfReports} :
       /\ offset = 0 \/ (desks[o].more /\ state = desks[o].state)
       /\ desks' = [desks EXCEPT ![o] = LoadQueue(state, offset)]
  /\ UNCHANGED <<data, reports, limiter, forms, sends, reportFaults, filed>>

Row(o, i) == desks[o].list[i]
At(o, i) == desks[o].busy = 0 /\ i \in DOMAIN desks[o].list

(* A label only; it hides nothing.  The row may have changed since it was  *)
(* listed.                                                                 *)
SetReportStatus(o, i, status) ==
  /\ At(o, i) /\ Row(o, i).status # status
  /\ reports' = [reports EXCEPT ![Row(o, i).id].status = status]
  /\ desks' = [desks EXCEPT ![o].busy = Row(o, i).id]
  /\ UNCHANGED <<data, limiter, forms, sends, reportFaults, filed>>

(* Hiding takes the report with it, in one transaction.                    *)
HideToken(o, i) ==
  LET r == Row(o, i)
  IN /\ At(o, i) /\ ~r.hidden
     /\ hidden' = [hidden EXCEPT ![r.category] = IF @ = Never THEN now ELSE @]
     /\ reports' = [reports EXCEPT ![r.id].status = "actioned"]
     /\ desks' = [desks EXCEPT ![o].busy = r.id]
     /\ UNCHANGED <<now, rows, limiter, forms, sends, reportFaults, filed>>

UnhideToken(o, i) ==
  /\ At(o, i) /\ Row(o, i).hidden
  /\ hidden' = [hidden EXCEPT ![Row(o, i).category] = Never]
  /\ desks' = [desks EXCEPT ![o].busy = Row(o, i).id]
  /\ UNCHANGED <<now, rows, reports, limiter, forms, sends, reportFaults, filed>>

(* The queue is loaded again; when the call or the reload fails it stays   *)
(* as it was.                                                              *)
DeskSettles(o) ==
  /\ desks[o].busy # 0
  /\ \/ /\ desks' = [desks EXCEPT ![o] = LoadQueue(desks[o].state, desks[o].offset)]
        /\ UNCHANGED reportFaults
     \/ /\ reportFaults < MaxReportFaults
        /\ reportFaults' = reportFaults + 1
        /\ desks' = [desks EXCEPT ![o].busy = 0]
  /\ UNCHANGED <<data, reports, limiter, forms, sends, filed>>

----------------------------------------------------------------------------
NoReportsYet ==
  /\ reports = <<>>
  /\ ipHits = [a \in Reporter |-> <<>>] /\ catHits = [c \in Category |-> <<>>]
  /\ forms = [a \in Reporter |-> NoForm]
  /\ desks = [o \in Moderator |-> NoDesk]
  /\ sends = 0 /\ reportFaults = 0 /\ filed = <<>>

Filing == \E a \in Reporter : forms[a].pc \in {"check", "insert", "alert"}

ReportsNext ==
  \/ \E a \in Reporter :
       \/ \E c \in Category : SubmitReport(a, c)
       \/ CheckToken(a) \/ InsertReport(a) \/ DispatchAlert(a) \/ FilingFails(a)
  \/ \E o \in Moderator :
       \/ OpenQueue(o) \/ DeskSettles(o)
       \/ \E i \in 1..PageOfReports :
            \/ HideToken(o, i) \/ UnhideToken(o, i)
            \/ \E status \in Status : SetReportStatus(o, i, status)

----------------------------------------------------------------------------
(* In any span of the window, no address has had more forms accepted than  *)
(* its cap, and no token either (checkRateLimit), however many are being   *)
(* filed at a time and whatever their answers.                             *)
ReportLimits ==
  \A i \in DOMAIN filed :
    LET recent == {j \in 1..i : filed[j].at > filed[i].at - ReportWindow}
    IN /\ Cardinality({j \in recent : filed[j].ip = filed[i].ip}) <= LimitPerIp
       /\ Cardinality({j \in recent : filed[j].category = filed[i].category}) <= LimitPerCategory
===============================================================================
