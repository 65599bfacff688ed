----------------------------- MODULE FillBudget -----------------------------
(***************************************************************************)
(* What a chain of retried orders promises its caller, whoever manages it: *)
(* at any time at most one order of the chain is exposed to the venue, and *)
(* what it could still fill plus what has been filled never exceeds the    *)
(* size the caller asked for.                                              *)
(***************************************************************************)
EXTENDS Integers

CONSTANTS Chains,   \* the original client ids
          Size      \* the size the caller asked for, in atomic units

VARIABLES bought,   \* bought[c]: units filled for chain c so far
          exposed   \* exposed[c]: units the venue may still fill for c

budgetVars == <<bought, exposed>>

BudgetInit == /\ bought  = [c \in Chains |-> 0]
              /\ exposed = [c \in Chains |-> 0]

\* Expose q units to the venue: only when none are, and within the budget.
Commit(c, q) == /\ exposed[c] = 0
                /\ bought[c] + q <= Size
                /\ exposed' = [exposed EXCEPT ![c] = q]
                /\ UNCHANGED bought

\* The venue is done with the exposed order, having filled q units of it.
Settle(c, q) == /\ q <= exposed[c]
                /\ bought'  = [bought EXCEPT ![c] = @ + q]
                /\ exposed' = [exposed EXCEPT ![c] = 0]

BudgetNext == \E c \in Chains :
                 \/ \E q \in 1..Size : Commit(c, q)
                 \/ \E q \in 0..Size : Settle(c, q)

BudgetSpec == BudgetInit /\ [][BudgetNext]_budgetVars
=============================================================================
