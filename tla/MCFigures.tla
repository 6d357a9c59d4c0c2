------------------------------ MODULE MCFigures ------------------------------
(* The computations of an invoice, for TLC: its range, the days of its time, *)
(* the cents of its sessions, and its due date.  They share no state.  Each  *)
(* scenario exercises one of them, and the others rest in an initial state.  *)
(* The clock of the ranges and that of the days have half seconds.           *)
EXTENDS InvoiceRanges, DailySeconds, EntryCosts, DueDate, TLC

VARIABLE scenario

(* A normal, a short and a long day *)
ThreeDays == [d \in 0..3 |-> <<0, 4, 7, 12>>[d + 1]]

MCInit ==
    /\ scenario \in {"ranges", "daily", "costs", "due"}
    /\ Init
    /\ scenario # "daily" =>
          dayLines = [i \in 1..MaxSessions |-> [start |-> 0, stop |-> 0, total |-> 0]]
    /\ DailyInit
    /\ scenario # "costs" => workerLines = <<0>>
    /\ CostsInit
    /\ scenario # "due" => issued = Day(2021, 1, 1) /\ terms = 0
    /\ DueInit

MCNext ==
    /\ \/ /\ scenario = "ranges" /\ Next
          /\ UNCHANGED <<dailyVars, costVars, dueVars>>
       \/ /\ scenario = "daily" /\ DailyNext
          /\ UNCHANGED <<vars, costVars, dueVars>>
       \/ /\ scenario = "costs" /\ CostsNext
          /\ UNCHANGED <<vars, dailyVars, dueVars>>
       \/ /\ scenario = "due" /\ DueNext
          /\ UNCHANGED <<vars, dailyVars, costVars>>
    /\ UNCHANGED scenario

MCSpec == MCInit /\ [][MCNext]_<<scenario, vars, dailyVars, costVars, dueVars>>

(* Nothing orders sessions or tabs. *)
Symmetric == Permutations(Sessions) \cup Permutations(Tabs)
=============================================================================
