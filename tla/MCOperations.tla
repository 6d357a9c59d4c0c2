---------------------------- MODULE MCOperations ----------------------------
(* What runs beside the handlers, for TLC: the start of the application,    *)
(* the maintenance of its database, and the refresh of what browsers show.  *)
(* They share no state.  Each scenario exercises one of them, and the       *)
(* others rest in an initial state.                                         *)
EXTENDS Startup, Maintenance

CONSTANTS
    p1, p2,                 \* processes that start
    part1, part2,           \* what a page reads separately
    NoTag, NoRequest

VARIABLES
    scenario,
    data, revision, unaudited, shown,               \* of LiveRefresh
    etag, request, editing, overtaken

(* Of two processes at once, one may die. *)
OverlapCrashes == 1

(* A report of two parts, whatever is audited; and an application page,    *)
(* whose changes are audited at last.                                      *)
Report == INSTANCE LiveRefresh WITH
    Parts <- {part1, part2}, Kind <- "report", AuditMayFail <- TRUE, MaxWrites <- 2
Page == INSTANCE LiveRefresh WITH
    Parts <- {part1, part2}, Kind <- "page", AuditMayFail <- FALSE, MaxWrites <- 2

ASSUME /\ Processes = {p1, p2} /\ StartupAssumption
       /\ MaintenanceAssumption
       /\ Report!LiveAssumption /\ Page!LiveAssumption

liveVars == <<data, revision, unaudited, shown, etag, request, editing, overtaken>>
allVars == <<scenario, vars, maintenanceVars, liveVars>>

MCInit ==
    /\ scenario \in {"crashes", "overlap", "upkeep", "report", "page"}
    /\ Init
    /\ scenario \notin {"crashes", "overlap"} => db = Empty
    /\ MaintenanceInit
    /\ Page!Init

(* One process, which dies up to MaxCrashes times; or two of them *)
Starting ==
    \/ scenario = "crashes" /\ (Step(p1) \/ Crash(p1))
    \/ scenario = "overlap" /\ Next /\ crashes' <= OverlapCrashes

Refreshing ==
    \/ scenario = "report" /\ Report!Next
    \/ scenario = "page" /\ Page!Next

MCNext ==
    /\ \/ Starting /\ UNCHANGED <<maintenanceVars, liveVars>>
       \/ scenario = "upkeep" /\ MaintenanceNext /\ UNCHANGED <<vars, liveVars>>
       \/ Refreshing /\ UNCHANGED <<vars, maintenanceVars>>
    /\ UNCHANGED scenario

(* The fairness of Startup and of LiveRefresh, of the component that the   *)
(* scenario exercises.                                                     *)
Live(report, page) == (scenario = "report" /\ report) \/ (scenario = "page" /\ page)

MCFairness ==
    /\ WF_vars(scenario = "crashes" /\ Step(p1))
    /\ WF_liveVars(Live(Report!Poll, Page!Poll))
    /\ WF_liveVars(Live(Report!CommitAudit, Page!CommitAudit))
    /\ WF_liveVars(Live(Report!Server, Page!Server))
    /\ SF_liveVars(Live(Report!ReceiveUnchanged, Page!ReceiveUnchanged))
    /\ SF_liveVars(Live(Report!ReceiveChanged, Page!ReceiveChanged))

MCSpec == MCInit /\ [][MCNext]_allVars /\ MCFairness

-----------------------------------------------------------------------------
(* However often it is interrupted, the application serves at last, and a  *)
(* legacy invoice is converted once, as long as one process starts at a    *)
(* time.                                                                   *)
ServesAtLast == scenario = "crashes" => EventuallyServes /\ []ConvertedOnce

(* A report comes to show what is recorded, whatever the interleaving of   *)
(* its queries with commits, lost audit events and lost polls; and so does *)
(* a page whose user stops editing, unless the data changed while what it  *)
(* shows was prepared.                                                     *)
BrowsersCatchUp ==
    /\ scenario = "report" => Report!CatchesUp
    /\ scenario = "page" => Page!CatchesUpUnlessOvertaken
=============================================================================
