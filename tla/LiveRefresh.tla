------------------------------ MODULE LiveRefresh ------------------------------
(***************************************************************************)
(* Live pages and live reports.  A browser polls what it shows, naming the *)
(* ETag it has; the server answers 304 or sends the content anew.  The     *)
(* ETag of a report is a hash of the report itself (report_state_etag of   *)
(* reports.py).  The ETag of an application page is the number of the last *)
(* audit event (live_page_etag of routes.py), and most handlers commit     *)
(* their data first and their audit event in a second transaction.         *)
(*                                                                         *)
(* What a page shows is read by several queries, the parts, and stands     *)
(* here by the number of changes each part has seen.                       *)
(***************************************************************************)
EXTENDS Naturals

CONSTANTS
    Parts,          \* what a page reads separately
    Kind,           \* "page" or "report"
    AuditMayFail,   \* whether a second transaction may be lost
    NoTag,          \* a browser that has not loaded the page
    NoRequest,
    MaxWrites       \* bound of the changes

LiveAssumption ==
    /\ Kind \in {"page", "report"}
    /\ AuditMayFail \in BOOLEAN
    /\ MaxWrites \in Nat

VARIABLES
    data,        \* the committed data of each part
    revision,    \* max(audit_event.id)
    unaudited,   \* committed changes whose audit event is not committed yet
    shown,       \* what the browser shows
    etag,        \* the ETag the browser has for it
    request,     \* the poll in progress
    editing,     \* whether the user is at work inside a live region
    overtaken    \* whether the data changed while what is shown was prepared

vars == <<data, revision, unaudited, shown, etag, request, editing, overtaken>>

serverVars == <<data, revision, unaudited>>
browserVars == <<shown, etag, editing, overtaken>>

Fresh(tag) == [tag |-> tag, stage |-> "read", read |-> [p \in {} |-> 0]]

(* The browser has asked for the page for the first time. *)
Init ==
    /\ data = [p \in Parts |-> 0]
    /\ revision = 0
    /\ unaudited = 0
    /\ shown = [p \in {} |-> 0]
    /\ etag = NoTag
    /\ request = Fresh(NoTag)
    /\ editing = FALSE
    /\ overtaken = FALSE

-----------------------------------------------------------------------------
(* Writers *)

Write(p) ==
    /\ data[p] < MaxWrites
    /\ data' = [data EXCEPT ![p] = data[p] + 1]
    /\ UNCHANGED <<browserVars, request>>

(* A handler that calls audit() after its commit *)
CommitData(p) ==
    /\ Write(p)
    /\ unaudited' = unaudited + 1
    /\ UNCHANGED revision

CommitAudit ==
    /\ unaudited > 0
    /\ unaudited' = unaudited - 1
    /\ revision' = revision + 1
    /\ UNCHANGED <<data, browserVars, request>>

(* audit() is best effort; and the process may die before it. *)
LoseAudit ==
    /\ AuditMayFail
    /\ unaudited > 0
    /\ unaudited' = unaudited - 1
    /\ UNCHANGED <<data, revision, browserVars, request>>

(* Invoices and disbursements audit in the transaction of the change. *)
CommitAuditedData(p) ==
    /\ Write(p)
    /\ revision' = revision + 1
    /\ UNCHANGED unaudited

-----------------------------------------------------------------------------
(* The server *)

(* live_page_etag, report_state_etag *)
TagOf(read) == IF Kind = "page" THEN <<revision>> ELSE read

(* unchanged_live_page_response: only pages, and only polls *)
CheckEtag ==
    /\ request # NoRequest /\ request.stage = "check"
    /\ request' = [request EXCEPT !.stage =
                      IF request.tag = <<revision>> THEN "unchanged" ELSE "read"]
    /\ UNCHANGED <<serverVars, browserVars>>

ReadPart(p) ==
    /\ request # NoRequest /\ request.stage = "read"
    /\ p \notin DOMAIN request.read
    /\ request' = [request EXCEPT !.read =
                      [q \in DOMAIN request.read \cup {p} |->
                          IF q = p THEN data[p] ELSE request.read[q]]]
    /\ UNCHANGED <<serverVars, browserVars>>

(* conditional_live_page_response, live_report_response *)
Respond ==
    /\ request # NoRequest /\ request.stage = "read"
    /\ DOMAIN request.read = Parts
    /\ LET tag == TagOf(request.read)
       IN  request' = IF request.tag = tag
                      THEN [request EXCEPT !.stage = "unchanged"]
                      ELSE [stage |-> "changed", tag |-> tag, read |-> request.read,
                            overtaken |-> request.read # data]
    /\ UNCHANGED <<serverVars, browserVars>>

-----------------------------------------------------------------------------
(* The browser (static/app.js) *)

(* reconcileLivePage, reconcileLiveReport: one poll at a time *)
Poll ==
    /\ request = NoRequest
    /\ request' = IF Kind = "page" /\ etag # NoTag
                  THEN [tag |-> etag, stage |-> "check", read |-> [p \in {} |-> 0]]
                  ELSE Fresh(etag)
    /\ UNCHANGED <<serverVars, browserVars>>

ReceiveUnchanged ==
    /\ request # NoRequest /\ request.stage = "unchanged"
    /\ request' = NoRequest
    /\ UNCHANGED <<serverVars, browserVars>>

Show(content) ==
    /\ shown' = content
    /\ overtaken' = request.overtaken

(* Mutant: the new ETag is kept although the replacement was deferred. *)
ReceiveKeepingTag ==
    /\ request # NoRequest /\ request.stage = "changed"
    /\ etag' = request.tag
    /\ IF editing THEN UNCHANGED <<shown, overtaken>> ELSE Show(request.read)
    /\ request' = NoRequest
    /\ UNCHANGED <<serverVars, editing>>

(* replaceLiveRegions does nothing while the user is at work; a report has *)
(* no such regions.                                                        *)
ReceiveChanged ==
    /\ request # NoRequest /\ request.stage = "changed"
    /\ IF editing
       THEN UNCHANGED <<shown, etag, overtaken>>
       ELSE Show(request.read) /\ etag' = request.tag
    /\ request' = NoRequest
    /\ UNCHANGED <<serverVars, editing>>

(* The poll fails: a later poll is the retry.  The server only reads, so   *)
(* a request that never reaches it is as good as an answer that is lost.   *)
LosePoll ==
    /\ request # NoRequest /\ request.stage \in {"unchanged", "changed"}
    /\ request' = NoRequest
    /\ UNCHANGED <<serverVars, browserVars>>

Edit ==
    /\ Kind = "page" /\ etag # NoTag
    /\ editing' = ~editing
    /\ UNCHANGED <<serverVars, shown, etag, overtaken, request>>

-----------------------------------------------------------------------------
Server == CheckEtag \/ Respond \/ \E p \in Parts : ReadPart(p)

Receive == ReceiveUnchanged \/ ReceiveChanged

Next ==
    \/ \E p \in Parts : CommitData(p) \/ CommitAuditedData(p)
    \/ CommitAudit \/ LoseAudit
    \/ Server \/ Receive
    \/ Poll \/ LosePoll \/ Edit

(* Polls recur (setInterval) and handlers end.  Of the network we assume   *)
(* that not every answer is lost for ever.  Nothing is assumed of users:   *)
(* the properties below are of those who stop editing at last.             *)
Fairness ==
    /\ WF_vars(Poll) /\ WF_vars(CommitAudit)
    /\ WF_vars(Server)
    /\ SF_vars(ReceiveUnchanged)
    /\ SF_vars(ReceiveChanged)

Spec == Init /\ [][Next]_vars /\ Fairness

-----------------------------------------------------------------------------
(* Whatever the interleaving of its queries with other requests, a report  *)
(* comes to show what is recorded; and so would a page be expected to when *)
(* its user stops editing, since an unchanged page need not be sent again. *)
CatchesUp == <>[]~editing => []<>(shown = data)

(* A page comes to show what is recorded when its user stops editing,      *)
(* unless the data changed while what it shows was prepared: no deferred   *)
(* replacement, lost poll or commit between polls makes it miss a change.  *)
CatchesUpUnlessOvertaken == <>[]~editing => []<>(shown = data \/ overtaken)
=============================================================================
