---------------------------- MODULE BudgetLedger ----------------------------
(***************************************************************************)
(* What mandate enforcement promises: a ledger that charges a budget for a *)
(* period only while a cap set on the budget allows it.  A budget is what  *)
(* the signer capped (a mandate id, or the hash of an intent); a period is *)
(* the stretch the cap counts over.  An amount that is no number voids the *)
(* budget: from then on the cap says nothing.                              *)
(***************************************************************************)
EXTENDS Integers

CONSTANTS Budgets,   \* the ids spending is counted under
          Periods,   \* the periods it is counted over
          Caps(_),   \* the caps the signed mandates set on a budget
          Prices,    \* the amounts that may be charged, NaN perhaps among them
          NaN        \* no number

VARIABLE charged     \* what each budget was charged in each period

Init == charged = [b \in Budgets |-> [p \in Periods |-> 0]]

Voided(b) == \E p \in Periods : charged[b][p] = NaN

\* The budget is charged, within one of its caps or void.
Charge(b, p, amount) ==
    /\ charged[b][p] # NaN
    /\ Voided(b) \/ \E cap \in Caps(b) : charged[b][p] + amount <= cap
    /\ charged' = [charged EXCEPT ![b][p] = @ + amount]

Void(b, p) ==
    /\ NaN \in Prices
    /\ charged' = [charged EXCEPT ![b][p] = NaN]

Next ==
    \E b \in Budgets, p \in Periods :
        \/ \E amount \in Prices \ {NaN} : Charge(b, p, amount)
        \/ Void(b, p)

Spec == Init /\ [][Next]_charged

\* No budget is ever overdrawn, as long as it is charged numbers.
WithinCap ==
    \A b \in Budgets, p \in Periods :
        Voided(b) \/ charged[b][p] = 0 \/ \E cap \in Caps(b) : charged[b][p] <= cap
=============================================================================
