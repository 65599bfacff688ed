---------------------------- MODULE PartialRetry ----------------------------
(***************************************************************************)
(* The partial-fill retry manager (src/execution/partial_retry.py) and the *)
(* executor hooks that feed it (src/execution/live_executor.py), composed  *)
(* with a venue that fills orders and reports what it filled.              *)
(*                                                                         *)
(* Sizes are integers (atomic units).  A fee is the exponent of the fee    *)
(* multiplier in it: 0 is the base fee, n is base * multiplier^n.  Time is *)
(* one flag per chain, raised when the chain outlives its TTL.             *)
(***************************************************************************)
EXTENDS Integers

CONSTANTS Chains,      \* original client ids
          Size,        \* original_size of every chain
          MaxAttempts, \* config.partial_retry_max_attempts
          Target,      \* Target[n] = int(Size * size_decay ** n)
          Redelivery,  \* may a fill report reach the executor again?
          MaxCopies    \* bound: orders ever sent with one client id

ASSUME SizeAssumption     == Size \in Nat \ {0}
ASSUME AttemptsAssumption == MaxAttempts \in Nat \ {0}
ASSUME TargetAssumption   == Target \in [1..MaxAttempts -> 0..Size]
ASSUME ModeAssumption     == Redelivery \in BOOLEAN /\ MaxCopies \in Nat

Attempts == 0..MaxAttempts

(***************************************************************************)
(* An order names its chain and its attempt (together its client_id), and  *)
(* carries what the chain had filled before it.                            *)
(***************************************************************************)
Order  == [chain : Chains, attempt : Attempts, amount : 1..Size,
           cumulative : Nat, boost : Nat]
Report == [order : Order, filled : Nat]

ChainState  == [open : BOOLEAN, filled : Nat, base : Nat]
ClosedChain == [open |-> FALSE, filled |-> 0, base |-> 0]

VARIABLES chainStates, \* the manager's _chain_states
          expired,     \* expired[c]: now - created_at > ttl
          live,        \* orders the venue may still fill
          reports,     \* fill reports not yet (or, redelivered, ever) handled
          bought,      \* bought[c]: what the venue has filled for chain c
          issued,      \* issued[c][n]: orders sent with client id (c, n)
          dropped      \* chains of which the venue dropped an order unfilled

vars == <<chainStates, expired, live, reports, bought, issued, dropped>>

Init == /\ chainStates = [c \in Chains |-> ClosedChain]
        /\ expired     = [c \in Chains |-> FALSE]
        /\ live        = {}
        /\ reports     = {}
        /\ bought      = [c \in Chains |-> 0]
        /\ issued      = [c \in Chains |-> [n \in Attempts |-> 0]]
        /\ dropped     = {}

-----------------------------------------------------------------------------
(* The caller and the venue.                                               *)

\* The caller sends the initial order of a chain.
Submit(c) ==
  /\ issued[c][0] = 0
  /\ live' = live \cup {[chain |-> c, attempt |-> 0, amount |-> Size,
                         cumulative |-> 0, boost |-> 0]}
  /\ issued' = [issued EXCEPT ![c][0] = 1]
  /\ UNCHANGED <<chainStates, expired, reports, bought, dropped>>

\* The venue fills q units of an order, cancels the rest and reports.
VenueFill(o, q) ==
  /\ o \in live
  /\ live'    = live \ {o}
  /\ bought'  = [bought EXCEPT ![o.chain] = @ + q]
  /\ reports' = reports \cup {[order |-> o, filled |-> q]}
  /\ UNCHANGED <<chainStates, expired, issued, dropped>>

\* The venue drops an order unfilled; the code has no handler for that.
VenueDrop(o) ==
  /\ o \in live
  /\ live'    = live \ {o}
  /\ dropped' = dropped \cup {o.chain}
  /\ UNCHANGED <<chainStates, expired, reports, bought, issued>>

\* The chain outlives partial_retry_ttl_sec.
Expire(c) ==
  /\ ~expired[c]
  /\ expired' = [expired EXCEPT ![c] = TRUE]
  /\ UNCHANGED <<chainStates, live, reports, bought, issued, dropped>>

Consumed(r) == IF Redelivery THEN reports ELSE reports \ {r}

-----------------------------------------------------------------------------
(* The manager.                                                            *)

\* _get_or_create_chain
ChainOf(o) ==
  IF chainStates[o.chain].open
    THEN chainStates[o.chain]
    ELSE [open |-> TRUE, filled |-> o.cumulative, base |-> o.boost]

\* int(original_size * 0.99)
AlmostFull == (Size * 99) \div 100

\* Variant: the fill just reported is not added.
FilledBefore(r) == ChainOf(r.order).filled

\* The chain's cumulative_filled once report r is counted.
FilledAfter(r) == ChainOf(r.order).filled + r.filled

LeastOf(a, b) == IF a <= b THEN a ELSE b

\* Variant: the budget that remains is not looked at.
TargetSize(r) == Target[r.order.attempt + 1]

\* min(target_size, remaining) of the next attempt
AttemptSize(r) == LeastOf(Target[r.order.attempt + 1], Size - FilledAfter(r))

\* The early returns of on_partial_fill, in their order.
Stops(r) ==
  \/ FilledAfter(r) >= AlmostFull
  \/ r.order.attempt >= MaxAttempts
  \/ expired[r.order.chain]
  \/ r.order.attempt < MaxAttempts /\ AttemptSize(r) <= 0

\* The chain's state once report r is counted.
ChainAfter(r) ==
  [open |-> TRUE, filled |-> FilledAfter(r), base |-> ChainOf(r.order).base]

\* Variant: the attempt, and with it the client id, is not incremented.
RetryOrderSameId(r) ==
  [chain |-> r.order.chain, attempt |-> r.order.attempt,
   amount |-> AttemptSize(r), cumulative |-> FilledAfter(r),
   boost |-> ChainOf(r.order).base + r.order.attempt + 1]

\* The order on_partial_fill returns.
RetryOrder(r) ==
  [chain |-> r.order.chain, attempt |-> r.order.attempt + 1,
   amount |-> AttemptSize(r), cumulative |-> FilledAfter(r),
   boost |-> ChainOf(r.order).base + r.order.attempt + 1]

\* Variant: a limit stops the retries but leaves the chain in _chain_states.
PartialFillStopsOpen(r) ==
  /\ r \in reports
  /\ r.filled < r.order.amount
  /\ Stops(r)
  /\ chainStates' = [chainStates EXCEPT ![r.order.chain] = ChainAfter(r)]
  /\ reports' = Consumed(r)
  /\ UNCHANGED <<expired, live, bought, issued, dropped>>

\* on_partial_fill, stopped by a limit: the chain is cancelled.
PartialFillStops(r) ==
  /\ r \in reports
  /\ r.filled < r.order.amount
  /\ Stops(r)
  /\ chainStates' = [chainStates EXCEPT ![r.order.chain] = ClosedChain]
  /\ reports' = Consumed(r)
  /\ UNCHANGED <<expired, live, bought, issued, dropped>>

\* on_partial_fill, issuing the next attempt, which the caller sends.
PartialFillRetries(r) ==
  /\ r \in reports
  /\ r.filled < r.order.amount
  /\ ~Stops(r)
  /\ issued[r.order.chain][RetryOrder(r).attempt] < MaxCopies
  /\ chainStates' = [chainStates EXCEPT ![r.order.chain] = ChainAfter(r)]
  /\ live' = live \cup {RetryOrder(r)}
  /\ issued' = [issued EXCEPT ![r.order.chain][RetryOrder(r).attempt] = @ + 1]
  /\ reports' = Consumed(r)
  /\ UNCHANGED <<expired, bought, dropped>>

\* on_full_fill: the chain is cancelled.
FullFill(r) ==
  /\ r \in reports
  /\ r.filled = r.order.amount
  /\ chainStates' = [chainStates EXCEPT ![r.order.chain] = ClosedChain]
  /\ reports' = Consumed(r)
  /\ UNCHANGED <<expired, live, bought, issued, dropped>>

Handle(r) == PartialFillStops(r) \/ PartialFillRetries(r) \/ FullFill(r)

Next ==
  \/ \E c \in Chains : Submit(c) \/ Expire(c)
  \/ \E o \in live : VenueDrop(o) \/ \E q \in 1..o.amount : VenueFill(o, q)
  \/ \E r \in reports : Handle(r)

Spec == Init /\ [][Next]_vars

(***************************************************************************)
(* The venue answers for every order in the end, and the executor handles  *)
(* every report: a report is a synchronous call in the code.               *)
(***************************************************************************)
VenueAnswers == \E o \in live : VenueDrop(o) \/ \E q \in 1..o.amount : VenueFill(o, q)

FairSpec == Spec /\ WF_vars(VenueAnswers) /\ WF_vars(\E r \in reports : Handle(r))

-----------------------------------------------------------------------------
(* Properties.                                                             *)

TypeOK ==
  /\ chainStates \in [Chains -> ChainState]
  /\ expired \in [Chains -> BOOLEAN]
  /\ live \subseteq Order
  /\ reports \subseteq Report
  /\ bought \in [Chains -> Nat]
  /\ issued \in [Chains -> [Attempts -> Nat]]
  /\ dropped \subseteq Chains

\* "Budget protection: cumulative + attempt <= original" (partial_retry.py:9):
\* an order the venue may fill never takes its chain past the size asked for,
\* counted in what the venue has really filled and not in the manager's books.
NoOverfill ==
  /\ \A c \in Chains : bought[c] <= Size
  /\ \A o \in live : bought[o.chain] + o.amount <= Size

\* The manager's books agree with the venue: while a chain is open and no
\* report for it is in flight, cumulative_filled is what has been filled.
BooksMatchVenue ==
  \A c \in Chains :
    chainStates[c].open /\ (\A r \in reports : r.order.chain # c)
      => chainStates[c].filled = bought[c]

\* "priority_fee = base * (mult ** attempt)" (partial_retry.py:11): a retry's
\* fee is boosted from the base fee, never from an already boosted one.
FeeFollowsAttempt == \A o \in live : o.boost = o.attempt

\* "Idempotency via client_id chaining" (partial_retry.py:8): a client id is
\* used for one order only.
NoDuplicateClientId ==
  \A c \in Chains, n \in Attempts : issued[c][n] <= 1

\* "Cleanup: Full fill or cancellation clears chain state" (PR_PARTIAL_RETRY.md):
\* every chain leaves _chain_states in the end, whatever the fills were, unless
\* the venue dropped one of its orders without reporting a fill.
ChainsEnd == <>[](\A c \in Chains : chainStates[c].open => c \in dropped)

-----------------------------------------------------------------------------
(* The chain of orders implements the abstract budget.                     *)

Exposed == [c \in Chains |->
              IF \E o \in live : o.chain = c
                THEN (CHOOSE o \in live : o.chain = c).amount ELSE 0]

Budget == INSTANCE FillBudget WITH exposed <- Exposed

\* Every behaviour of the manager and its venue is one of FillBudget.
ImplementsBudget == Budget!BudgetSpec
=============================================================================
