----------------------------- MODULE FillProofs -----------------------------
(***************************************************************************)
(* Proofs about fills: of the partial-fill retry manager, for every set of *)
(* chains, size, number of attempts and size decay, when each fill is      *)
(* reported to the manager once (Redelivery = FALSE), and of the partial-  *)
(* fill handler and the reorg guard, for any transactions, amounts and     *)
(* depths.                                                                 *)
(***************************************************************************)
EXTENDS PartialRetry, FillTracking, TLAPS

(***************************************************************************)
(* The retry manager.  NoOverfill and the rest are not inductive by        *)
(* themselves.  What carries them is that a chain has one outstanding      *)
(* order (at the venue, or filled and about to be reported) whose          *)
(* `cumulative` snapshot still says what the chain had filled before it.   *)
(***************************************************************************)
\* An order is outstanding from its submission until its report is handled.
Outstanding == live \cup {r.order : r \in reports}

\* A chain has one outstanding order, in one place.
OneOutstanding ==
  /\ \A o, p \in live : o.chain = p.chain => o = p
  /\ \A r, q \in reports : r.order.chain = q.order.chain => r = q
  /\ \A o \in live, r \in reports : o.chain # r.order.chain

\* The snapshots of outstanding orders and the venue's count agree.
SnapshotsAgree ==
  /\ \A o \in live : /\ bought[o.chain] = o.cumulative
                     /\ o.cumulative + o.amount <= Size
  /\ \A r \in reports : /\ bought[r.order.chain] = r.order.cumulative + r.filled
                        /\ r.order.cumulative + r.order.amount <= Size
                        /\ r.filled <= r.order.amount

\* The chain of an outstanding order is open with the order's snapshot and the
\* base fee, or the order is the initial one.
ChainsAgree ==
  \A o \in Outstanding :
    /\ o.boost = o.attempt
    /\ IF chainStates[o.chain].open
         THEN /\ chainStates[o.chain].filled = o.cumulative
              /\ chainStates[o.chain].base = 0
         ELSE o.attempt = 0

\* Client ids after the outstanding order's have not been used.
IdsFresh ==
  /\ \A c \in Chains : issued[c][0] = 0 => /\ \A o \in Outstanding : o.chain # c
                                           /\ ~chainStates[c].open
                                           /\ bought[c] = 0
                                           /\ \A n \in Attempts : issued[c][n] = 0
  /\ \A o \in Outstanding, n \in Attempts : n > o.attempt => issued[o.chain][n] = 0

IInv == /\ TypeOK
        /\ OneOutstanding
        /\ SnapshotsAgree
        /\ ChainsAgree
        /\ IdsFresh
        /\ \A c \in Chains : bought[c] <= Size
        /\ BooksMatchVenue
        /\ NoDuplicateClientId

-----------------------------------------------------------------------------
(* Types.                                                                  *)

\* The chain state the manager works on when a report arrives is well formed.
LEMMA ChainOfType ==
  ASSUME TypeOK, NEW o \in Order
  PROVE  ChainOf(o) \in ChainState /\ ChainOf(o).open
BY DEF TypeOK, ChainOf, ChainState, Order

\* A retry the manager issues is an order of the next attempt, within the budget
\* its books leave.
LEMMA RetryOrderType ==
  ASSUME TypeOK, NEW r \in reports, ~Stops(r)
  PROVE  /\ RetryOrder(r) \in Order
         /\ RetryOrder(r).attempt = r.order.attempt + 1
         /\ FilledAfter(r) + RetryOrder(r).amount <= Size
<1>1. r \in Report /\ r.order \in Order
  BY DEF TypeOK, Report
<1>2. ChainOf(r.order) \in ChainState
  BY <1>1, ChainOfType
<1>3. FilledAfter(r) \in Nat
  BY <1>1, <1>2 DEF FilledAfter, Report, ChainState
<1>4. r.order.attempt \in 0..MaxAttempts /\ r.order.attempt + 1 \in 1..MaxAttempts
  BY <1>1, AttemptsAssumption DEF Stops, Order, Attempts
<1>5. Target[r.order.attempt + 1] \in 0..Size
  BY <1>4, TargetAssumption
<1>6. ~(AttemptSize(r) <= 0)
  <2>1. r.order.attempt < MaxAttempts
    BY <1>4, AttemptsAssumption
  <2> QED
    BY <2>1, Zenon DEF Stops
<1>7. AttemptSize(r) \in 1..Size /\ FilledAfter(r) + AttemptSize(r) <= Size
  BY <1>3, <1>5, <1>6, SizeAssumption DEF AttemptSize, LeastOf
<1>8. ChainOf(r.order).base + r.order.attempt + 1 \in Nat
  BY <1>2, <1>4 DEF ChainState
<1> QED
  BY <1>1, <1>3, <1>4, <1>7, <1>8, AttemptsAssumption
  DEF RetryOrder, Order, Attempts

\* Every step keeps the types, whatever the venue and the deliveries do.
LEMMA TypeStep == TypeOK /\ [Next]_vars => TypeOK'
<1> SUFFICES ASSUME TypeOK, [Next]_vars PROVE TypeOK'
  OBVIOUS
<1> USE AttemptsAssumption, SizeAssumption
<1>1. ASSUME NEW c \in Chains, Submit(c) PROVE TypeOK'
  BY <1>1 DEF Submit, TypeOK, Order, Attempts
<1>2. ASSUME NEW c \in Chains, Expire(c) PROVE TypeOK'
  BY <1>2 DEF Expire, TypeOK
<1>3. ASSUME NEW o \in live, VenueDrop(o) PROVE TypeOK'
  BY <1>3 DEF VenueDrop, TypeOK, Order
<1>4. ASSUME NEW o \in live, NEW q \in 1..o.amount, VenueFill(o, q) PROVE TypeOK'
  <2>1. o \in Order /\ o.chain \in Chains /\ o.amount \in 1..Size /\ q \in Nat
    BY <1>4 DEF TypeOK, Order
  <2>2. [order |-> o, filled |-> q] \in Report
    BY <2>1 DEF Report
  <2> QED
    BY <1>4, <2>1, <2>2 DEF VenueFill, TypeOK
<1>5. ASSUME NEW r \in reports, PartialFillStops(r) PROVE TypeOK'
  BY <1>5 DEF PartialFillStops, TypeOK, Consumed, ClosedChain, ChainState
<1>6. ASSUME NEW r \in reports, PartialFillRetries(r) PROVE TypeOK'
  <2>1. r.order \in Order /\ r.order.chain \in Chains /\ r.filled \in Nat
    BY DEF TypeOK, Report, Order
  <2>2. RetryOrder(r) \in Order
    BY <1>6, RetryOrderType DEF PartialFillRetries
  <2>3. ChainOf(r.order) \in ChainState
    BY <2>1, ChainOfType
  <2>4. ChainAfter(r) \in ChainState
    BY <2>1, <2>3 DEF ChainState, ChainAfter, FilledAfter
  <2>5. issued' \in [Chains -> [Attempts -> Nat]]
    BY <1>6, <2>1, <2>2 DEF PartialFillRetries, TypeOK, Order
  <2> QED
    BY <1>6, <2>1, <2>2, <2>4, <2>5 DEF PartialFillRetries, TypeOK, Consumed
<1>7. ASSUME NEW r \in reports, FullFill(r) PROVE TypeOK'
  BY <1>7 DEF FullFill, TypeOK, Consumed, ClosedChain, ChainState
<1>8. CASE UNCHANGED vars
  BY <1>8 DEF vars, TypeOK
<1> QED
  BY <1>1, <1>2, <1>3, <1>4, <1>5, <1>6, <1>7, <1>8 DEF Next, Handle

\* The manager's books, the orders and the reports keep their types, also when
\* reports are delivered again.
THEOREM TypeCorrect == Spec => []TypeOK
<1>1. Init => TypeOK
  BY AttemptsAssumption DEF Init, TypeOK, ClosedChain, ChainState, Attempts
<1> QED
  BY <1>1, TypeStep, PTL DEF Spec

-----------------------------------------------------------------------------
(* The budget, for reports delivered once.                                 *)

\* IInv for the steps that add no order: expiry, and the venue's.
LEMMA VenueStep ==
  ASSUME IInv,
         \/ \E c \in Chains : Expire(c)
         \/ \E o \in live : VenueDrop(o) \/ \E q \in 1..o.amount : VenueFill(o, q)
  PROVE  /\ OneOutstanding' /\ SnapshotsAgree' /\ ChainsAgree' /\ IdsFresh'
         /\ (\A c \in Chains : bought[c] <= Size)'
         /\ BooksMatchVenue' /\ NoDuplicateClientId'
<1> USE DEF IInv
<1>1. ASSUME NEW c \in Chains, Expire(c)
      PROVE  /\ OneOutstanding' /\ SnapshotsAgree' /\ ChainsAgree' /\ IdsFresh'
             /\ (\A x \in Chains : bought[x] <= Size)'
             /\ BooksMatchVenue' /\ NoDuplicateClientId'
  BY <1>1 DEF Expire, OneOutstanding, SnapshotsAgree, ChainsAgree, IdsFresh,
              Outstanding, BooksMatchVenue, NoDuplicateClientId
<1>2. ASSUME NEW o \in live, VenueDrop(o)
      PROVE  /\ OneOutstanding' /\ SnapshotsAgree' /\ ChainsAgree' /\ IdsFresh'
             /\ (\A x \in Chains : bought[x] <= Size)'
             /\ BooksMatchVenue' /\ NoDuplicateClientId'
  BY <1>2 DEF VenueDrop, OneOutstanding, SnapshotsAgree, ChainsAgree, IdsFresh,
              Outstanding, BooksMatchVenue, NoDuplicateClientId
<1>3. ASSUME NEW o \in live, NEW q \in 1..o.amount, VenueFill(o, q)
      PROVE  /\ OneOutstanding' /\ SnapshotsAgree' /\ ChainsAgree' /\ IdsFresh'
             /\ (\A x \in Chains : bought[x] <= Size)'
             /\ BooksMatchVenue' /\ NoDuplicateClientId'
  <2> DEFINE new == [order |-> o, filled |-> q]
  <2>1. o \in Order /\ o.chain \in Chains /\ o.amount \in 1..Size /\ o.cumulative \in Nat
        /\ q \in Nat /\ q <= o.amount
    BY SizeAssumption DEF TypeOK, Order
  <2>2. new.order = o /\ new.filled = q
    OBVIOUS
  <2>3. live' = live \ {o} /\ reports' = reports \cup {new}
        /\ chainStates' = chainStates /\ issued' = issued
        /\ bought' = [bought EXCEPT ![o.chain] = @ + q]
    BY <1>3 DEF VenueFill
  <2>4. Outstanding' = Outstanding
    BY <2>2, <2>3 DEF Outstanding
  <2>5. bought[o.chain] = o.cumulative /\ o.cumulative + o.amount <= Size
    BY DEF SnapshotsAgree
  <2>6. bought' \in [Chains -> Nat] /\ bought'[o.chain] = o.cumulative + q
        /\ \A x \in Chains : x # o.chain => bought'[x] = bought[x]
    BY <2>1, <2>3, <2>5 DEF TypeOK
  <2>7. OneOutstanding'
    BY <2>2, <2>3 DEF OneOutstanding
  <2>8. SnapshotsAgree'
    <3>1. ASSUME NEW p \in live' PROVE p.chain # o.chain /\ p.chain \in Chains /\ p \in live
      BY <2>3 DEF OneOutstanding, TypeOK, Order
    <3>2. ASSUME NEW r \in reports, r # new
          PROVE  r.order.chain # o.chain /\ r.order.chain \in Chains
      BY DEF OneOutstanding, TypeOK, Order, Report
    <3> QED
      BY <2>1, <2>2, <2>3, <2>5, <2>6, <3>1, <3>2 DEF SnapshotsAgree
  <2>9. ChainsAgree'
    BY <2>3, <2>4 DEF ChainsAgree
  <2>10. IdsFresh'
    <3>1. o \in Outstanding
      BY DEF Outstanding
    <3> QED
      BY <2>3, <2>4, <2>6, <3>1 DEF IdsFresh
  <2>11. (\A x \in Chains : bought[x] <= Size)'
    BY <2>1, <2>5, <2>6, SizeAssumption
  <2>12. BooksMatchVenue'
    BY <2>2, <2>3, <2>6 DEF BooksMatchVenue
  <2>13. NoDuplicateClientId'
    BY <2>3 DEF NoDuplicateClientId
  <2> QED
    BY <2>7, <2>8, <2>9, <2>10, <2>11, <2>12, <2>13
<1> QED
  BY <1>1, <1>2, <1>3

\* IInv for the submission of a chain's initial order.
LEMMA SubmitStep ==
  ASSUME IInv, NEW c \in Chains, Submit(c)
  PROVE  /\ OneOutstanding' /\ SnapshotsAgree' /\ ChainsAgree' /\ IdsFresh'
         /\ (\A x \in Chains : bought[x] <= Size)'
         /\ BooksMatchVenue' /\ NoDuplicateClientId'
<1> USE DEF IInv
<1> DEFINE new == [chain |-> c, attempt |-> 0, amount |-> Size,
                   cumulative |-> 0, boost |-> 0]
<1>1. new.chain = c /\ new.attempt = 0 /\ new.amount = Size /\ new.cumulative = 0
      /\ new.boost = 0
  OBVIOUS
<1>2. live' = live \cup {new} /\ reports' = reports /\ chainStates' = chainStates
      /\ bought' = bought /\ issued' = [issued EXCEPT ![c][0] = 1]
  BY DEF Submit
<1>3. Outstanding' = Outstanding \cup {new}
  BY <1>2 DEF Outstanding
<1>4. 0 \in Attempts /\ \A n \in Attempts : n \in Nat
  BY AttemptsAssumption DEF Attempts
<1>5. /\ issued[c][0] = 0
      /\ \A o \in Outstanding : o.chain # c
      /\ ~chainStates[c].open
      /\ bought[c] = 0
      /\ \A n \in Attempts : issued[c][n] = 0
  BY <1>4 DEF Submit, IdsFresh
<1>6. /\ \A o \in live : o.chain # c
      /\ \A r \in reports : r.order.chain # c
  BY <1>5 DEF Outstanding
<1>7. OneOutstanding'
  BY <1>1, <1>2, <1>6 DEF OneOutstanding
<1>8. SnapshotsAgree'
  BY <1>1, <1>2, <1>5, SizeAssumption DEF SnapshotsAgree
<1>9. ChainsAgree'
  BY <1>1, <1>2, <1>3, <1>5 DEF ChainsAgree
<1>10. /\ issued'[c][0] = 1
       /\ \A n \in Attempts : n # 0 => issued'[c][n] = 0
       /\ \A x \in Chains : x # c => issued'[x] = issued[x]
  BY <1>2, <1>4, <1>5 DEF TypeOK
<1>11. IdsFresh'
  <2>1. \A o \in Outstanding : o.chain \in Chains
    BY DEF Outstanding, TypeOK, Order, Report
  <2> QED
    BY <1>1, <1>2, <1>3, <1>4, <1>5, <1>10, <2>1 DEF IdsFresh
<1>12. (\A x \in Chains : bought[x] <= Size)' /\ BooksMatchVenue'
  BY <1>2 DEF BooksMatchVenue
<1>13. NoDuplicateClientId'
  BY <1>4, <1>10 DEF NoDuplicateClientId
<1> QED
  BY <1>7, <1>8, <1>9, <1>11, <1>12, <1>13

\* IInv for a report that ends its chain: a full fill, or a limit reached.
LEMMA CloseStep ==
  ASSUME IInv, ~Redelivery, NEW r \in reports, PartialFillStops(r) \/ FullFill(r)
  PROVE  /\ OneOutstanding' /\ SnapshotsAgree' /\ ChainsAgree' /\ IdsFresh'
         /\ (\A x \in Chains : bought[x] <= Size)'
         /\ BooksMatchVenue' /\ NoDuplicateClientId'
<1> USE DEF IInv
<1>1. r.order.chain \in Chains /\ \A o \in Outstanding : o.chain \in Chains
  BY DEF Outstanding, TypeOK, Order, Report
<1>2. /\ chainStates' = [chainStates EXCEPT ![r.order.chain] = ClosedChain]
      /\ reports' = reports \ {r}
      /\ live' = live /\ bought' = bought /\ issued' = issued
  BY DEF PartialFillStops, FullFill, Consumed
<1>3. /\ ~chainStates'[r.order.chain].open
      /\ \A x \in Chains : x # r.order.chain => chainStates'[x] = chainStates[x]
  BY <1>1, <1>2 DEF TypeOK, ClosedChain
<1>4. \A o \in Outstanding' : o \in Outstanding /\ o.chain # r.order.chain
  BY <1>2 DEF Outstanding, OneOutstanding
<1>5. OneOutstanding' /\ SnapshotsAgree'
  BY <1>2 DEF OneOutstanding, SnapshotsAgree
<1>6. ChainsAgree'
  BY <1>1, <1>3, <1>4 DEF ChainsAgree
<1>7. IdsFresh'
  BY <1>1, <1>2, <1>3, <1>4 DEF IdsFresh
<1>8. (\A x \in Chains : bought[x] <= Size)' /\ NoDuplicateClientId'
  BY <1>2 DEF NoDuplicateClientId
<1>9. BooksMatchVenue'
  BY <1>1, <1>2, <1>3 DEF BooksMatchVenue
<1> QED
  BY <1>5, <1>6, <1>7, <1>8, <1>9

\* IInv for a report that issues the next attempt.
LEMMA RetryStep ==
  ASSUME IInv, ~Redelivery, NEW r \in reports, PartialFillRetries(r)
  PROVE  /\ OneOutstanding' /\ SnapshotsAgree' /\ ChainsAgree' /\ IdsFresh'
         /\ (\A x \in Chains : bought[x] <= Size)'
         /\ BooksMatchVenue' /\ NoDuplicateClientId'
<1> USE DEF IInv
<1> DEFINE c   == r.order.chain
           new == RetryOrder(r)
<1>1. /\ c \in Chains /\ \A o \in Outstanding : o.chain \in Chains
      /\ r.order \in Order /\ r.order \in Outstanding /\ r.order.attempt \in Nat
  BY AttemptsAssumption DEF Outstanding, TypeOK, Order, Report, Attempts
<1>2. ChainOf(r.order).filled = r.order.cumulative /\ ChainOf(r.order).base = 0
  BY <1>1 DEF ChainsAgree, ChainOf
<1>3. FilledAfter(r) = bought[c]
  BY <1>2 DEF FilledAfter, SnapshotsAgree
<1>4. /\ new \in Order /\ new.attempt = r.order.attempt + 1
      /\ bought[c] + new.amount <= Size
  BY <1>3, RetryOrderType DEF PartialFillRetries
<1>5. new.chain = c /\ new.cumulative = bought[c] /\ new.boost = new.attempt
  BY <1>1, <1>2, <1>3 DEF RetryOrder
<1>6. /\ live' = live \cup {new}
      /\ reports' = reports \ {r}
      /\ bought' = bought
      /\ chainStates' = [chainStates EXCEPT ![c] = ChainAfter(r)]
      /\ issued' = [issued EXCEPT ![c][new.attempt] = @ + 1]
  BY DEF PartialFillRetries, Consumed
<1>7. /\ chainStates'[c].open
      /\ chainStates'[c].filled = bought[c]
      /\ chainStates'[c].base = 0
      /\ \A x \in Chains : x # c => chainStates'[x] = chainStates[x]
  BY <1>1, <1>2, <1>3, <1>6 DEF TypeOK, ChainAfter
<1>8. \A o \in Outstanding' : o = new \/ (o \in Outstanding /\ o.chain # c)
  BY <1>6 DEF Outstanding, OneOutstanding
<1>9. OneOutstanding'
  BY <1>5, <1>6 DEF OneOutstanding
<1>10. SnapshotsAgree'
  BY <1>4, <1>5, <1>6 DEF SnapshotsAgree
<1>11. ChainsAgree'
  BY <1>1, <1>5, <1>7, <1>8 DEF ChainsAgree
<1>12. /\ new.attempt \in Attempts /\ new.attempt # 0
       /\ issued[c][new.attempt] = 0
       /\ \A n \in Attempts : n \in Nat /\ (n > new.attempt => issued[c][n] = 0)
  BY <1>1, <1>4, AttemptsAssumption DEF IdsFresh, Order, Attempts
<1>13. /\ issued'[c][new.attempt] = 1
       /\ \A n \in Attempts : n # new.attempt => issued'[c][n] = issued[c][n]
       /\ \A x \in Chains : x # c => issued'[x] = issued[x]
  BY <1>1, <1>6, <1>12 DEF TypeOK
<1>14. IdsFresh'
  <2>1. issued[c][0] # 0
    BY <1>1 DEF IdsFresh
  <2>2. 0 \in Attempts
    BY AttemptsAssumption DEF Attempts
  <2>3. issued'[c][0] # 0
    BY <1>12, <1>13, <2>1, <2>2
  <2>4. ASSUME NEW x \in Chains, issued'[x][0] = 0
        PROVE  /\ \A o \in Outstanding' : o.chain # x
               /\ ~chainStates'[x].open
               /\ bought'[x] = 0
               /\ \A n \in Attempts : issued'[x][n] = 0
    BY <1>5, <1>6, <1>7, <1>8, <1>13, <2>3, <2>4 DEF IdsFresh
  <2>5. ASSUME NEW o \in Outstanding', NEW n \in Attempts, n > o.attempt
        PROVE  issued'[o.chain][n] = 0
    <3>1. CASE o = new
      BY <1>4, <1>5, <1>12, <1>13, <2>5, <3>1
    <3>2. CASE o \in Outstanding /\ o.chain # c
      BY <1>1, <1>13, <2>5, <3>2 DEF IdsFresh
    <3> QED
      BY <1>8, <3>1, <3>2
  <2> QED
    BY <2>4, <2>5 DEF IdsFresh
<1>15. (\A x \in Chains : bought[x] <= Size)'
  BY <1>6
<1>16. BooksMatchVenue'
  BY <1>6, <1>7 DEF BooksMatchVenue
<1>17. NoDuplicateClientId'
  BY <1>13 DEF NoDuplicateClientId
<1> QED
  BY <1>9, <1>10, <1>11, <1>14, <1>15, <1>16, <1>17

\* The invariant is inductive when reports are delivered once.
LEMMA InvariantStep == ASSUME ~Redelivery PROVE IInv /\ [Next]_vars => IInv'
<1> SUFFICES ASSUME IInv, [Next]_vars PROVE IInv'
  OBVIOUS
<1>1. TypeOK'
  BY TypeStep DEF IInv
<1>2. CASE \E c \in Chains : Submit(c)
  BY <1>1, <1>2, SubmitStep DEF IInv
<1>3. CASE \/ \E c \in Chains : Expire(c)
           \/ \E o \in live : VenueDrop(o) \/ \E q \in 1..o.amount : VenueFill(o, q)
  BY <1>1, <1>3, VenueStep DEF IInv
<1>4. CASE \E r \in reports : Handle(r)
  <2>1. PICK r \in reports : Handle(r)
    BY <1>4
  <2>2. CASE PartialFillStops(r) \/ FullFill(r)
    BY <1>1, <2>2, CloseStep DEF IInv
  <2>3. CASE PartialFillRetries(r)
    BY <1>1, <2>3, RetryStep DEF IInv
  <2> QED
    BY <2>1, <2>2, <2>3 DEF Handle
<1>5. CASE UNCHANGED vars
  BY <1>1, <1>5 DEF vars, IInv, OneOutstanding, SnapshotsAgree, ChainsAgree, IdsFresh,
                    Outstanding, BooksMatchVenue, NoDuplicateClientId
<1> QED
  BY <1>2, <1>3, <1>4, <1>5 DEF Next

LEMMA InvariantHolds == ASSUME ~Redelivery PROVE Spec => []IInv
<1>1. Init => IInv
  BY AttemptsAssumption, SizeAssumption
  DEF Init, IInv, TypeOK, ClosedChain, ChainState, Attempts, Outstanding, OneOutstanding,
      SnapshotsAgree, ChainsAgree, IdsFresh, BooksMatchVenue, NoDuplicateClientId
<1> QED
  BY <1>1, InvariantStep, PTL DEF Spec

\* "Budget protection: cumulative + attempt <= original": no order the venue may
\* still fill takes its chain past the size the caller asked for.
THEOREM BudgetProtected == ASSUME ~Redelivery PROVE Spec => []NoOverfill
<1>1. IInv => NoOverfill
  BY DEF IInv, SnapshotsAgree, NoOverfill
<1> QED
  BY <1>1, InvariantHolds, PTL

\* "Idempotency via client_id chaining": no two orders share a client id.
THEOREM ClientIdsUnique == ASSUME ~Redelivery PROVE Spec => []NoDuplicateClientId
<1>1. IInv => NoDuplicateClientId
  BY DEF IInv
<1> QED
  BY <1>1, InvariantHolds, PTL

\* An open chain's cumulative_filled is what the venue has filled.
THEOREM BooksCorrect == ASSUME ~Redelivery PROVE Spec => []BooksMatchVenue
<1>1. IInv => BooksMatchVenue
  BY DEF IInv
<1> QED
  BY <1>1, InvariantHolds, PTL

\* "priority_fee = base * (mult ** attempt)": fee boosts never compound.
THEOREM FeesNotCompounded == ASSUME ~Redelivery PROVE Spec => []FeeFollowsAttempt
<1>1. IInv => FeeFollowsAttempt
  BY DEF IInv, ChainsAgree, Outstanding, FeeFollowsAttempt
<1> QED
  BY <1>1, InvariantHolds, PTL

-----------------------------------------------------------------------------
(* The chain implements FillBudget: exposed[c] is the amount of the one    *)
(* order of c that the venue may still fill.                               *)

ExposedOf(orders, c) ==
  IF \E o \in orders : o.chain = c THEN (CHOOSE o \in orders : o.chain = c).amount ELSE 0

OnePerChain(orders) == \A o, p \in orders : o.chain = p.chain => o = p

\* A chain whose only order is o exposes o's amount.
LEMMA ExposedByOne ==
  ASSUME NEW orders, OnePerChain(orders), NEW o \in orders
  PROVE  ExposedOf(orders, o.chain) = o.amount
<1> DEFINE chosen == CHOOSE p \in orders : p.chain = o.chain
<1>1. chosen \in orders /\ chosen.chain = o.chain
  OBVIOUS
<1>2. chosen = o
  BY <1>1 DEF OnePerChain
<1>3. ExposedOf(orders, o.chain) = chosen.amount
  BY DEF ExposedOf
<1> QED
  BY <1>2, <1>3

LEMMA ExposedByNone ==
  ASSUME NEW orders, NEW c, \A o \in orders : o.chain # c
  PROVE  ExposedOf(orders, c) = 0
BY DEF ExposedOf

\* Orders of other chains do not matter to what a chain exposes.
LEMMA ExposedByOwn ==
  ASSUME NEW orders, NEW others, OnePerChain(orders), OnePerChain(others), NEW c,
         \A o : o.chain = c => (o \in orders <=> o \in others)
  PROVE  ExposedOf(orders, c) = ExposedOf(others, c)
<1>1. CASE \E o \in orders : o.chain = c
  <2>1. PICK o \in orders : o.chain = c
    BY <1>1
  <2>2. o \in others
    BY <2>1
  <2> QED
    BY <2>1, <2>2, ExposedByOne
<1>2. CASE \A o \in orders : o.chain # c
  BY <1>2, ExposedByNone
<1> QED
  BY <1>1, <1>2

\* What the chains expose after a step that touches the orders of one of them.
LEMMA ExposedAfter ==
  ASSUME OneOutstanding, OneOutstanding', NEW c \in Chains, NEW q,
         ExposedOf(live', c) = q,
         \A o : o.chain # c => (o \in live <=> o \in live')
  PROVE  Exposed' = [Exposed EXCEPT ![c] = q]
<1>1. OnePerChain(live) /\ OnePerChain(live')
  BY DEF OneOutstanding, OnePerChain
<1>2. \A x \in Chains : x # c => ExposedOf(live', x) = ExposedOf(live, x)
  <2>1. ASSUME NEW x \in Chains, x # c
        PROVE  ExposedOf(live', x) = ExposedOf(live, x)
    <3>1. \A o : o.chain = x => (o \in live' <=> o \in live)
      BY <2>1
    <3> QED
      BY <1>1, <3>1, ExposedByOwn
  <2> QED
    BY <2>1
<1>3. Exposed = [x \in Chains |-> ExposedOf(live, x)]
  BY DEF Exposed, ExposedOf
<1>4. Exposed' = [x \in Chains |-> ExposedOf(live', x)]
  BY DEF Exposed, ExposedOf
<1> QED
  BY <1>2, <1>3, <1>4

LEMMA ExposedAt ==
  ASSUME NEW c \in Chains
  PROVE  Exposed[c] = ExposedOf(live, c)
BY DEF Exposed, ExposedOf

\* The caller's submission and a retry commit an order of the budget.
LEMMA CommitStep ==
  ASSUME IInv, OneOutstanding', NEW new \in Order,
         \A o \in live : o.chain # new.chain, bought[new.chain] + new.amount <= Size,
         live' = live \cup {new}, bought' = bought
  PROVE  Budget!BudgetNext
<1>1. new.chain \in Chains /\ new.amount \in 1..Size
  BY DEF Order
<1>2. Exposed[new.chain] = 0
  BY <1>1, ExposedAt, ExposedByNone
<1>3. ExposedOf(live', new.chain) = new.amount
  <2>1. OnePerChain(live') /\ new \in live'
    BY DEF OneOutstanding, OnePerChain
  <2> QED
    BY <2>1, ExposedByOne
<1>4. Exposed' = [Exposed EXCEPT ![new.chain] = new.amount]
  <2>1. \A o : o.chain # new.chain => (o \in live <=> o \in live')
    OBVIOUS
  <2> QED
    BY <1>1, <1>3, <2>1, ExposedAfter DEF IInv
<1>5. Budget!Commit(new.chain, new.amount)
  BY <1>2, <1>4 DEF Budget!Commit
<1> QED
  BY <1>1, <1>5 DEF Budget!BudgetNext

\* The venue settles an order, having filled none of it or some.
LEMMA SettleStep ==
  ASSUME IInv, OneOutstanding', NEW o \in live, NEW q \in 0..o.amount,
         live' = live \ {o}, bought' = [bought EXCEPT ![o.chain] = @ + q]
  PROVE  Budget!BudgetNext
<1>1. o.chain \in Chains /\ o.amount \in 1..Size /\ q \in 0..Size /\ q <= o.amount
  BY SizeAssumption DEF IInv, TypeOK, Order
<1>2. Exposed[o.chain] = o.amount
  <2>1. OnePerChain(live)
    BY DEF IInv, OneOutstanding, OnePerChain
  <2> QED
    BY <1>1, <2>1, ExposedAt, ExposedByOne
<1>3. ExposedOf(live', o.chain) = 0
  <2>1. \A p \in live' : p.chain # o.chain
    BY DEF IInv, OneOutstanding
  <2> QED
    BY <2>1, ExposedByNone
<1>4. Exposed' = [Exposed EXCEPT ![o.chain] = 0]
  <2>1. \A p : p.chain # o.chain => (p \in live <=> p \in live')
    OBVIOUS
  <2> QED
    BY <1>1, <1>3, <2>1, ExposedAfter DEF IInv
<1>5. Budget!Settle(o.chain, q)
  BY <1>1, <1>2, <1>4 DEF Budget!Settle
<1> QED
  BY <1>1, <1>5 DEF Budget!BudgetNext

\* A step that touches neither the orders at the venue nor the fills stutters.
LEMMA BudgetStutter ==
  ASSUME live' = live, bought' = bought
  PROVE  UNCHANGED Budget!budgetVars
BY DEF Budget!budgetVars, Exposed

\* Every behaviour of the manager and its venue is one of FillBudget, for any
\* chains, size, decay and number of attempts.
THEOREM BudgetImplemented == ASSUME ~Redelivery PROVE Spec => ImplementsBudget
<1>1. Init => Budget!BudgetInit
  <2>1. Init => Exposed = [c \in Chains |-> 0]
    BY DEF Init, Exposed
  <2> QED
    BY <2>1 DEF Init, Budget!BudgetInit
<1>2. IInv /\ IInv' /\ [Next]_vars => [Budget!BudgetNext]_(Budget!budgetVars)
  <2> SUFFICES ASSUME IInv, IInv', [Next]_vars
               PROVE  Budget!BudgetNext \/ UNCHANGED Budget!budgetVars
    OBVIOUS
  <2>0. OneOutstanding'
    BY DEF IInv
  <2>1. ASSUME NEW c \in Chains, Submit(c) PROVE Budget!BudgetNext
    <3> DEFINE new == [chain |-> c, attempt |-> 0, amount |-> Size,
                       cumulative |-> 0, boost |-> 0]
    <3>1. new \in Order
      BY SizeAssumption, AttemptsAssumption DEF Order, Attempts
    <3>2. issued[c][0] = 0 /\ live' = live \cup {new} /\ bought' = bought
      BY <2>1 DEF Submit
    <3>3. (\A o \in live : o.chain # c) /\ bought[c] = 0
      BY <3>2 DEF IInv, IdsFresh, Outstanding
    <3>4. bought[c] + new.amount <= Size
      BY <3>3, SizeAssumption
    <3> QED
      BY <2>0, <3>1, <3>2, <3>3, <3>4, CommitStep
  <2>2. ASSUME NEW o \in live, VenueDrop(o) PROVE Budget!BudgetNext
    <3>1. live' = live \ {o} /\ bought' = bought
      BY <2>2 DEF VenueDrop
    <3>2. 0 \in 0..o.amount /\ bought' = [bought EXCEPT ![o.chain] = @ + 0]
      BY <3>1, SizeAssumption DEF IInv, TypeOK, Order
    <3> QED
      BY <2>0, <3>1, <3>2, SettleStep
  <2>3. ASSUME NEW o \in live, NEW q \in 1..o.amount, VenueFill(o, q) PROVE Budget!BudgetNext
    <3>1. live' = live \ {o} /\ bought' = [bought EXCEPT ![o.chain] = @ + q]
      BY <2>3 DEF VenueFill
    <3>2. q \in 0..o.amount
      BY SizeAssumption DEF IInv, TypeOK, Order
    <3> QED
      BY <2>0, <3>1, <3>2, SettleStep
  <2>4. ASSUME NEW r \in reports, PartialFillRetries(r) PROVE Budget!BudgetNext
    <3>1. /\ RetryOrder(r) \in Order /\ FilledAfter(r) + RetryOrder(r).amount <= Size
      BY <2>4, RetryOrderType DEF IInv, PartialFillRetries
    <3>2. RetryOrder(r).chain = r.order.chain
      BY DEF RetryOrder
    <3>3. FilledAfter(r) = bought[r.order.chain]
      <4>1. r.order \in Order /\ r.order \in Outstanding
        BY DEF IInv, TypeOK, Report, Outstanding
      <4>2. ChainOf(r.order).filled = r.order.cumulative
        BY <4>1 DEF IInv, ChainsAgree, ChainOf
      <4> QED
        BY <4>2 DEF IInv, FilledAfter, SnapshotsAgree
    <3>4. live' = live \cup {RetryOrder(r)} /\ bought' = bought
      BY <2>4 DEF PartialFillRetries
    <3>5. \A o \in live : o.chain # RetryOrder(r).chain
      BY <3>2 DEF IInv, OneOutstanding
    <3> QED
      BY <2>0, <3>1, <3>2, <3>3, <3>4, <3>5, CommitStep
  <2>5. ASSUME NEW r \in reports, PartialFillStops(r) \/ FullFill(r)
        PROVE  UNCHANGED Budget!budgetVars
    BY <2>5, BudgetStutter DEF PartialFillStops, FullFill
  <2>6. ASSUME NEW c \in Chains, Expire(c) PROVE UNCHANGED Budget!budgetVars
    BY <2>6, BudgetStutter DEF Expire
  <2>7. CASE UNCHANGED vars
    BY <2>7, BudgetStutter DEF vars
  <2> QED
    BY <2>1, <2>2, <2>3, <2>4, <2>5, <2>6, <2>7 DEF Next, Handle
<1> QED
  BY <1>1, <1>2, InvariantHolds, PTL DEF Spec, ImplementsBudget, Budget!BudgetSpec

-----------------------------------------------------------------------------
(***************************************************************************)
(* The fate of reported fills: a verdict given across two reads of the     *)
(* node is right, and a closed record stays closed.                        *)
(***************************************************************************)
\* Heights are ordered: a block lies below the height and its slot is not behind it, and the
\* height that a check has read is at most the present one.
HeightsOrdered ==
  /\ height \in Nat /\ ahead \in Nat
  /\ chain \in [Txs -> [block : Nat, slot : Nat, err : BOOLEAN]]
  /\ \A t \in Txs : /\ chain[t].block <= height
                    /\ chain[t].block <= chain[t].slot /\ chain[t].slot <= height + ahead
  /\ check \in SUBSET [tx : Txs, height : Nat]
  /\ \A c \in check : c.height <= height
  /\ tracked \in [Txs -> {"none", "pending", "dropped", "finalized"}]

FinalityInv == HeightsOrdered /\ FinalizedStands

-----------------------------------------------------------------------------
(* The two questions of a check.                                           *)

\* FINALIZED is only answered for a transaction in a rooted block that succeeded, although
\* the height was read before the status, blocks came and went in between, and it is a slot
\* that the height is compared with.
LEMMA FinalizedMeansRooted ==
  ASSUME HeightsOrdered, NEW c \in check, NEW answer \in Answers(c.tx),
         Status(KnownHeight(c), answer) = "FINALIZED"
  PROVE  Rooted(c.tx) /\ ~chain[c.tx].err
  <1>1. c.tx \in Txs /\ InBlock(c.tx)
    BY DEF HeightsOrdered, Answers
  <1>2. PICK ok \in BOOLEAN : answer = [found |-> TRUE, err |-> chain[c.tx].err, ok |-> ok,
                                        rooted |-> Rooted(c.tx), slot |-> chain[c.tx].slot]
    BY DEF Answers
  <1>3. /\ answer.found = TRUE /\ answer.err = chain[c.tx].err
        /\ answer.ok = ok /\ answer.rooted = Rooted(c.tx) /\ answer.slot = chain[c.tx].slot
    BY <1>2
  <1>4. ~chain[c.tx].err
    BY <1>3 DEF Status
  <1>5. Rooted(c.tx) \/ (c.height # Unknown /\ c.height - chain[c.tx].slot > FinalityDepth)
    BY <1>3, <1>4 DEF Status, KnownHeight
  <1>6. CASE c.height - chain[c.tx].slot > FinalityDepth
    <2>1. /\ c.height \in Nat /\ c.height <= height /\ height \in Nat
          /\ chain[c.tx].slot \in Nat /\ chain[c.tx].block \in Nat
          /\ chain[c.tx].block <= chain[c.tx].slot
      BY <1>1 DEF HeightsOrdered
    <2>2. height - chain[c.tx].block >= RootDepth
      BY <1>6, <2>1, DepthAssumption
    <2> QED BY <1>1, <1>4, <2>2 DEF Rooted
  <1> QED BY <1>4, <1>5, <1>6

\* Without an answer there is no verdict.
LEMMA NoAnswerNoVerdict == ASSUME NEW h PROVE Status(h, NoAnswer) = "PENDING"
  <1>1. NoAnswer.found = FALSE
    BY DEF NoAnswer
  <1> QED BY <1>1 DEF Status

\* Both ends of a check come down to a verdict on an answer or on none.
LEMMA CheckConcludes ==
  ASSUME NEW c \in check, ReadStatus(c)
  PROVE  \E answer \in Answers(c.tx) \cup {NoAnswer} :
           Conclude(c, Status(KnownHeight(c), answer))
  BY DEF ReadStatus, StatusFound, StatusMissing

-----------------------------------------------------------------------------
(* A finalized transaction stands.                                         *)

\* What changes neither heights nor verdicts.
LEMMA StillStep ==
  ASSUME FinalityInv, UNCHANGED <<height, ahead, chain, tracked, check>>
  PROVE  FinalityInv'
  BY DEF FinalityInv, HeightsOrdered, FinalizedStands, Rooted, InBlock

LEMMA FillsAreStill ==
  ASSUME Fills \/ UNCHANGED ftVars
  PROVE  UNCHANGED <<height, ahead, chain, check>>
  BY DEF Fills, ReportFill, ForceClose, Cancel, CheckTimeouts, ftVars, node, guard

LEMMA FinalityStep == FinalityInv /\ [FtNext]_ftVars => FinalityInv'
  <1> SUFFICES ASSUME FinalityInv, [FtNext]_ftVars PROVE FinalityInv'
    OBVIOUS
  <1>0. RootDepth \in Nat
    BY DepthAssumption
  <1>1. CASE Grow
    <2>1. height' = height + 1 /\ UNCHANGED <<ahead, chain, tracked, check>>
      BY <1>1 DEF Grow, guard
    <2> QED BY <1>0, <2>1 DEF FinalityInv, HeightsOrdered, FinalizedStands, Rooted, InBlock
  <1>2. ASSUME NEW t \in Txs, NEW err \in BOOLEAN, Land(t, err) PROVE FinalityInv'
    <2>1. /\ ~InBlock(t)
          /\ chain' = [chain EXCEPT ![t] =
                          [block |-> height, slot |-> height + ahead, err |-> err]]
          /\ UNCHANGED <<height, ahead, tracked, check>>
      BY <1>2 DEF Land, guard
    <2>2. tracked[t] # "finalized"
      BY <2>1 DEF FinalityInv, FinalizedStands, Rooted
    <2> QED BY <2>1, <2>2 DEF FinalityInv, HeightsOrdered, FinalizedStands, Rooted, InBlock
  <1>3. ASSUME NEW t \in Txs, Reorg(t) PROVE FinalityInv'
    <2>1. /\ ~Rooted(t)
          /\ chain' = [chain EXCEPT ![t] = [block |-> 0, slot |-> 0, err |-> FALSE]]
          /\ UNCHANGED <<height, ahead, tracked, check>>
      BY <1>3 DEF Reorg, guard, Nowhere
    <2>2. tracked[t] # "finalized"
      BY <2>1 DEF FinalityInv, FinalizedStands
    <2> QED BY <2>1, <2>2 DEF FinalityInv, HeightsOrdered, FinalizedStands, Rooted, InBlock
  <1>4. ASSUME NEW t \in Txs, ReportFill(t) PROVE FinalityInv'
    <2>1. tracked' = [tracked EXCEPT ![t] = "pending"] /\ UNCHANGED <<height, ahead, chain, check>>
      BY <1>4 DEF ReportFill, node
    <2> QED BY <2>1 DEF FinalityInv, HeightsOrdered, FinalizedStands, Rooted, InBlock
  <1>5. ASSUME NEW s \in Signals, ForceClose(s) \/ Cancel(s) PROVE FinalityInv'
    BY <1>5, StillStep DEF ForceClose, Cancel, node, guard
  <1>6. ASSUME NEW k \in DOMAIN order, CheckTimeouts(k) PROVE FinalityInv'
    BY <1>6, StillStep DEF CheckTimeouts, node, guard
  <1>7. ASSUME NEW t \in Txs, NEW works \in BOOLEAN, ReadHeight(t, works) PROVE FinalityInv'
    <2>1. /\ check' = {[tx |-> t, height |-> IF works THEN height ELSE Unknown]}
          /\ UNCHANGED <<height, ahead, chain, tracked>>
      BY <1>7 DEF ReadHeight, node
    <2> QED BY <2>1 DEF FinalityInv, HeightsOrdered, FinalizedStands, Rooted, InBlock, Unknown
  <1>8. ASSUME NEW c \in check, ReadStatus(c) PROVE FinalityInv'
    <2>1. PICK answer \in Answers(c.tx) \cup {NoAnswer} :
                 Conclude(c, Status(KnownHeight(c), answer))
      BY <1>8, CheckConcludes
    <2>2. c.tx \in Txs
      BY DEF FinalityInv, HeightsOrdered
    <2>3. CASE Status(KnownHeight(c), answer) = "FINALIZED"
      <3>1. Rooted(c.tx) /\ ~chain[c.tx].err
        BY <2>3, FinalizedMeansRooted, NoAnswerNoVerdict DEF FinalityInv
      <3>2. /\ tracked' = [tracked EXCEPT ![c.tx] = "finalized"] /\ check' = {}
            /\ UNCHANGED <<height, ahead, chain>>
        BY <2>1, <2>3 DEF Conclude, node
      <3> QED BY <2>2, <3>1, <3>2
          DEF FinalityInv, HeightsOrdered, FinalizedStands, Rooted, InBlock
    <2>4. CASE Status(KnownHeight(c), answer) # "FINALIZED"
      <3>1. /\ tracked' \in {tracked, [tracked EXCEPT ![c.tx] = "dropped"]} /\ check' = {}
            /\ UNCHANGED <<height, ahead, chain>>
        BY <2>1, <2>2, <2>4 DEF Conclude, node, FinalityInv, HeightsOrdered
      <3> QED BY <2>2, <3>1
          DEF FinalityInv, HeightsOrdered, FinalizedStands, Rooted, InBlock
    <2> QED BY <2>3, <2>4
  <1>9. CASE UNCHANGED ftVars
    BY <1>9, StillStep DEF ftVars
  <1> QED BY <1>1, <1>2, <1>3, <1>4, <1>5, <1>6, <1>7, <1>8, <1>9
      DEF FtNext, Cluster, Fills, Checks

LEMMA FinalityStart == FtInit => FinalityInv
  BY DEF FtInit, Nowhere, FinalityInv, HeightsOrdered, FinalizedStands

\* Whatever the depths, as long as the node roots a block no later than the guard trusts
\* it: what is marked finalized has succeeded in a block that is never abandoned.
THEOREM FinalityHolds == FtSpec => []FinalizedStands
  <1>1. FinalityInv => FinalizedStands
    BY DEF FinalityInv
  <1> QED BY <1>1, FinalityStart, FinalityStep, PTL DEF FtSpec

-----------------------------------------------------------------------------
(* A closed record stays closed.                                           *)

FillTypes == fills \in [Signals -> [status : {"none", "pending", "completed", "closed"},
                                    filled : Nat]]

LEMMA ForceClosedType ==
  ASSUME FillTypes, NEW s \in Signals
  PROVE  /\ ForceClosed(s) \in [status : {"none", "pending", "completed", "closed"},
                                filled : Nat]
         /\ Closed(fills[s]) \in [status : {"none", "pending", "completed", "closed"},
                                  filled : Nat]
  BY DEF FillTypes, ForceClosed, Closed

LEMMA FillTypesStep == FillTypes /\ [FtNext]_ftVars => FillTypes'
  <1> SUFFICES ASSUME FillTypes, [FtNext]_ftVars PROVE FillTypes'
    OBVIOUS
  <1>1. ASSUME NEW t \in Txs, ReportFill(t) PROVE FillTypes'
    <2>1. /\ SignalOf[t] \in Signals /\ Amount[t] \in Nat
          /\ fills' = [fills EXCEPT ![SignalOf[t]] = AfterFill(@, t)]
      BY <1>1, FillAssumption DEF ReportFill
    <2>2. AfterFill(fills[SignalOf[t]], t) \in
            [status : {"none", "pending", "completed", "closed"}, filled : Nat]
      BY <2>1 DEF AfterFill, FillTypes
    <2> QED BY <2>1, <2>2 DEF FillTypes
  <1>2. ASSUME NEW s \in Signals, ForceClose(s) \/ Cancel(s) PROVE FillTypes'
    BY <1>2, ForceClosedType DEF ForceClose, Cancel, FillTypes
  <1>3. ASSUME NEW k \in DOMAIN order, CheckTimeouts(k) PROVE FillTypes'
    <2>1. /\ fills' = [s \in Signals |-> fills'[s]]
          /\ \A s \in Signals : fills'[s] = fills[s] \/ fills'[s] = ForceClosed(s)
      BY <1>3 DEF CheckTimeouts, Resolved
    <2>2. \A s \in Signals : fills'[s] \in
            [status : {"none", "pending", "completed", "closed"}, filled : Nat]
      BY <2>1, ForceClosedType DEF FillTypes
    <2> QED BY <2>1, <2>2 DEF FillTypes
  <1>4. CASE Cluster \/ Checks \/ UNCHANGED ftVars
    BY <1>4 DEF Cluster, Grow, Land, Reorg, Checks, ReadStatus, StatusFound, StatusMissing,
                Conclude, ReadHeight, ftVars, handler, FillTypes
  <1> QED BY <1>1, <1>2, <1>3, <1>4 DEF FtNext, Fills

LEMMA FillTypesStart == FtInit => FillTypes
  BY DEF FtInit, NoFill, FillTypes

\* Of any number of fills, timeouts, forced closes and cancellations, in any order, none
\* reopens a record or closes it a second time.
THEOREM ClosedForGood == FtSpec => ClosedOnce
  <1>1. FillTypes /\ [FtNext]_ftVars =>
          \A s \in Signals : fills[s].status \in {"closed", "completed"}
                             => fills'[s].status \in {fills[s].status, "completed"}
    <2> SUFFICES ASSUME FillTypes, [FtNext]_ftVars, NEW s \in Signals,
                        fills[s].status \in {"closed", "completed"}
                 PROVE  fills'[s].status \in {fills[s].status, "completed"}
      OBVIOUS
    <2>1. ASSUME NEW t \in Txs, ReportFill(t)
          PROVE  fills'[s].status \in {fills[s].status, "completed"}
      <3>1. AfterFill(fills[s], t).status \in {fills[s].status, "completed"}
        BY DEF AfterFill, FillTypes
      <3>2. fills'[s] \in {fills[s], AfterFill(fills[s], t)}
        BY <2>1 DEF ReportFill, FillTypes
      <3> QED BY <3>1, <3>2
    <2>2. ASSUME NEW u \in Signals, ForceClose(u) \/ Cancel(u)
          PROVE  fills'[s].status \in {fills[s].status, "completed"}
      <3>1. u # s
        BY <2>2 DEF ForceClose, Cancel
      <3> QED BY <2>2, <3>1 DEF ForceClose, Cancel, FillTypes
    <2>3. ASSUME NEW k \in DOMAIN order, CheckTimeouts(k)
          PROVE  fills'[s].status \in {fills[s].status, "completed"}
      BY <2>3 DEF CheckTimeouts
    <2>4. CASE Cluster \/ Checks \/ UNCHANGED ftVars
      BY <2>4 DEF Cluster, Grow, Land, Reorg, Checks, ReadStatus, StatusFound, StatusMissing,
                  Conclude, ReadHeight, ftVars, handler
    <2> QED BY <2>1, <2>2, <2>3, <2>4 DEF FtNext, Fills
  <1>2. FtSpec => []FillTypes
    BY FillTypesStart, FillTypesStep, PTL DEF FtSpec
  <1> QED BY <1>1, <1>2, PTL DEF FtSpec, ClosedOnce

-----------------------------------------------------------------------------
(* Types.                                                                  *)

OtherTypes ==
  /\ height \in 1..MaxHeight
  /\ ahead \in 0..MaxAhead
  /\ broken \in BOOLEAN
  /\ order \in Seq(Signals)

LEMMA OtherTypesStep == OtherTypes /\ [FtNext]_ftVars => OtherTypes'
  <1> SUFFICES ASSUME OtherTypes, [FtNext]_ftVars PROVE OtherTypes'
    OBVIOUS
  <1>1. (height \in 1..MaxHeight)'
    <2>1. height' = height \/ (height < MaxHeight /\ height' = height + 1)
      BY DEF FtNext, Cluster, Grow, Land, Reorg, Fills, ReportFill, ForceClose, Cancel,
             CheckTimeouts, Checks, ReadStatus, StatusFound, StatusMissing, Conclude, ReadHeight,
             ftVars, node
    <2> QED BY <2>1, BoundAssumption DEF OtherTypes
  <1>2. (ahead \in 0..MaxAhead)'
    <2>1. ahead' = ahead
      BY DEF FtNext, Cluster, Grow, Land, Reorg, Fills, ReportFill, ForceClose, Cancel,
             CheckTimeouts, Checks, ReadStatus, StatusFound, StatusMissing, Conclude,
             ReadHeight, ftVars, node
    <2> QED BY <2>1 DEF OtherTypes
  <1>3. (broken \in BOOLEAN)'
    <2>1. broken' = broken
      BY DEF FtNext, Cluster, Grow, Land, Reorg, Fills, ReportFill, ForceClose, Cancel,
             CheckTimeouts, Checks, ReadStatus, StatusFound, StatusMissing, Conclude, ReadHeight,
             ftVars, handler
    <2> QED BY <2>1 DEF OtherTypes
  <1>4. (order \in Seq(Signals))'
    <2>1. ASSUME NEW t \in Txs, ReportFill(t) PROVE order' \in Seq(Signals)
      <3>1. SignalOf[t] \in Signals
        BY FillAssumption
      <3> QED BY <2>1, <3>1 DEF ReportFill, OtherTypes
    <2>2. (\E t \in Txs : ReportFill(t)) \/ order' = order
      BY DEF FtNext, Cluster, Grow, Land, Reorg, Fills, ForceClose, Cancel,
             CheckTimeouts, Checks, ReadStatus, StatusFound, StatusMissing, Conclude, ReadHeight,
             ftVars, handler
    <2> QED BY <2>1, <2>2 DEF OtherTypes
  <1> QED BY <1>1, <1>2, <1>3, <1>4 DEF OtherTypes

LEMMA OtherTypesStart == FtInit => OtherTypes
  <1> SUFFICES ASSUME FtInit PROVE OtherTypes
    OBVIOUS
  <1>1. height \in 1..MaxHeight /\ ahead \in 0..MaxAhead
    BY BoundAssumption DEF FtInit
  <1>2. broken \in BOOLEAN /\ order \in Seq(Signals)
    BY DEF FtInit
  <1> QED BY <1>1, <1>2 DEF OtherTypes

\* The chain, the guard's verdicts and the fill records keep their types: no block lies
\* above the height, and no check compares with a height that was never reached.
THEOREM FtTypeCorrect == FtSpec => []FtTypeOK
  <1>1. FinalityInv /\ FillTypes /\ OtherTypes => FtTypeOK
    <2> SUFFICES ASSUME FinalityInv, FillTypes, OtherTypes PROVE FtTypeOK
      OBVIOUS
    <2>1. chain \in [Txs -> [block : 0..height, slot : 0 .. height + ahead, err : BOOLEAN]]
      BY DEF FinalityInv, HeightsOrdered
    <2>2. \A c \in check : c \in [tx : Txs, height : 0..height]
      BY DEF FinalityInv, HeightsOrdered
    <2> QED BY <2>1, <2>2 DEF FinalityInv, HeightsOrdered, FillTypes, OtherTypes, FtTypeOK
  <1> QED
    BY <1>1, FinalityStart, FinalityStep, FillTypesStart, FillTypesStep,
       OtherTypesStart, OtherTypesStep, PTL DEF FtSpec
=============================================================================
