------------------------------- MODULE EntryCosts -------------------------------
(***************************************************************************)
(* What each session of an invoice costs in a report: the cents of one     *)
(* worker, rounded once from quarter hours, are divided among the worker's *)
(* lines, first down to whole cents, then by the largest remainders        *)
(* (invoice_entry_costs of reports.py).                                    *)
(***************************************************************************)
EXTENDS Integers, Sequences, Functions

CONSTANTS
    MaxLines,    \* bound of the lines of a worker
    MaxSeconds,  \* bound of the seconds of a line
    MaxCents     \* bound of what an invoice bills for a worker

ASSUME CostsAssumption == {MaxLines, MaxSeconds, MaxCents} \subseteq Nat

VARIABLES
    workerLines,  \* the seconds of each line, in the order of their ids
    workerCents,  \* invoice_total_cents, see InvoiceTime
    amounts,      \* the cents given to each line so far
    remainders,   \* the lines that have been divided, with what remained
    residual      \* the cents still to give, once all are divided

costVars == <<workerLines, workerCents, amounts, remainders, residual>>

(* worker_seconds *)
Seconds == SumFunction(workerLines)

Undivided == -1

(* No time costs nothing; otherwise the days over which the lines are      *)
(* spread decide what their time costs.                                    *)
CostsInit ==
    /\ workerLines \in UNION {[1..n -> 0..MaxSeconds] : n \in 1..MaxLines}
    /\ workerCents \in (IF Seconds = 0 THEN {0} ELSE 0..MaxCents)
    /\ amounts = [i \in DOMAIN workerLines |-> 0]
    /\ remainders = <<>>
    /\ residual = Undivided

-----------------------------------------------------------------------------
(* divmod of the line's share *)
Divide ==
    LET i == Len(remainders) + 1
        share == workerCents * workerLines[i]
    IN  /\ Seconds # 0 /\ residual = Undivided /\ i \in DOMAIN workerLines
        /\ amounts' = [amounts EXCEPT ![i] = share \div Seconds]
        /\ remainders' = Append(remainders, share % Seconds)
        /\ UNCHANGED <<workerLines, workerCents, residual>>

Subtract ==
    /\ residual = Undivided
    /\ Seconds = 0 \/ Len(remainders) = Len(workerLines)
    /\ residual' = IF Seconds = 0 THEN 0 ELSE workerCents - SumFunction(amounts)
    /\ UNCHANGED <<workerLines, workerCents, amounts, remainders>>

(* Mutant: the cents go to the first lines. *)
FirstBefore(i, j) == i <= j

(* sorted by -remainder, then by id *)
Before(i, j) ==
    remainders[i] > remainders[j] \/ (remainders[i] = remainders[j] /\ i <= j)

Given == -1

Open == {i \in DOMAIN remainders : remainders[i] # Given}

(* The next of the first residual lines; a remainder is used once. *)
Spread ==
    /\ residual > 0
    /\ \E i \in Open :
          /\ \A j \in Open : Before(i, j)
          /\ amounts' = [amounts EXCEPT ![i] = @ + 1]
          /\ remainders' = [remainders EXCEPT ![i] = Given]
    /\ residual' = residual - 1
    /\ UNCHANGED <<workerLines, workerCents>>

CostsNext == Divide \/ Subtract \/ Spread

CostsSpec == CostsInit /\ [][CostsNext]_costVars

-----------------------------------------------------------------------------
Divided == residual = 0 \/ (residual > 0 /\ Open = {})

(* The costs of a worker's sessions are cents that add up to what the      *)
(* invoice bills for the worker.                                           *)
CostsAreComplete ==
    /\ residual >= Undivided
    /\ Divided => SumFunction(amounts) = workerCents

(* Each cost is less than a cent from the exact share of the session; no   *)
(* session costs more than a longer one, and one without time nothing.     *)
CostsAreFair ==
    Divided =>
        /\ \A i \in DOMAIN workerLines :
              /\ Seconds # 0 =>
                    /\ (amounts[i] - 1) * Seconds < workerCents * workerLines[i]
                    /\ workerCents * workerLines[i] < (amounts[i] + 1) * Seconds
              /\ workerLines[i] = 0 => amounts[i] = 0
        /\ \A i, j \in DOMAIN workerLines :
              workerLines[i] < workerLines[j] => amounts[i] <= amounts[j]

(* Both of them, in every state *)
CostsAddUp == CostsAreComplete /\ CostsAreFair
=============================================================================
