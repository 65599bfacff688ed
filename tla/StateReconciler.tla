--------------------------- MODULE StateReconciler ---------------------------
(***************************************************************************)
(* The balance watchdog (src/monitoring/state_reconciler.py and            *)
(* state_reconciler_worker.py): a loop that asks the chain for the         *)
(* wallet's balance, overwrites the local balance when the two differ by   *)
(* more than a threshold, alerts, and sleeps or backs off.                 *)
(*                                                                         *)
(* Around it, trades change the balance on chain, and the portfolio books  *)
(* each of them later or misses it.  The answer of the RPC node is a value *)
(* of some moment between the request and the answer.  Balances are small  *)
(* integers, and a tick of the clock is the ten seconds the worker sleeps  *)
(* at a time.                                                              *)
(***************************************************************************)
EXTENDS Integers

CONSTANTS InitialBalance, \* the balance both sides start with
          Amounts,    \* what a trade may change the balance by
          Threshold,  \* config.max_delta_without_alert_lamports
          DryRun,     \* dry_run
          Base,       \* config.interval_seconds, in ticks
          MaxDelay,   \* the cap of the backoff, in ticks
          Alert,      \* "callback" (alert_callback is given) or "send_alert"
          NoAnswer,   \* the RPC node has not answered
          MaxTrades,  \* bound: trades
          MaxFaults   \* bound: RPC calls and alert callbacks that raise

ASSUME BalanceAssumption == InitialBalance \in Int /\ Amounts \subseteq Int /\ NoAnswer \notin Int
ASSUME ConfigAssumption  == /\ Threshold \in Nat /\ DryRun \in BOOLEAN
                            /\ Base \in Nat \ {0} /\ MaxDelay \in Nat
                            /\ Alert \in {"callback", "send_alert"}
ASSUME BoundAssumption   == MaxTrades \in Nat /\ MaxFaults \in Nat

VARIABLES onchain,    \* the wallet's balance on chain
          local,      \* portfolio_state.bankroll_lamports
          unbooked,   \* trades on chain the portfolio has not booked, in order
          pc,         \* where the worker's loop is
          answer,     \* what get_balance will return
          errors,     \* _consecutive_errors
          delay,      \* ticks left to sleep
          shutdown,   \* _shutdown_requested
          booked,     \* a history: the sum of the trades booked
          adjusted,   \* a history: the sum of the deltas of applied adjustments
          trades, faults

market == <<onchain, local, unbooked, booked, trades>>
srVars == <<onchain, local, unbooked, pc, answer, errors, delay, shutdown,
            booked, adjusted, trades, faults>>

Places == {"check", "rpc", "alert", "sleep", "backoff", "stopped"}

SrInit == /\ onchain = InitialBalance /\ local = InitialBalance /\ unbooked = {}
          /\ pc = "check" /\ answer = NoAnswer
          /\ errors = 0 /\ delay = 0 /\ shutdown = FALSE
          /\ booked = 0 /\ adjusted = 0
          /\ trades = 0 /\ faults = 0

-----------------------------------------------------------------------------
(* The market and the portfolio.                                           *)

\* A trade of the wallet lands on chain.
Land(d) == /\ trades < MaxTrades
           /\ onchain' = onchain + d
           /\ unbooked' = unbooked \cup {[nth |-> trades, amount |-> d]}
           /\ trades' = trades + 1
           /\ UNCHANGED <<local, pc, answer, errors, delay, shutdown,
                          booked, adjusted, faults>>

\* The portfolio books a trade.
Book(t) == /\ t \in unbooked
           /\ unbooked' = unbooked \ {t}
           /\ local' = local + t.amount
           /\ booked' = booked + t.amount
           /\ UNCHANGED <<onchain, pc, answer, errors, delay, shutdown,
                          adjusted, trades, faults>>

\* The portfolio never hears of it.
Miss(t) == /\ t \in unbooked
           /\ unbooked' = unbooked \ {t}
           /\ UNCHANGED <<onchain, local, pc, answer, errors, delay, shutdown,
                          booked, adjusted, trades, faults>>

-----------------------------------------------------------------------------
(* StateReconciler.check_and_reconcile and the worker's loop.              *)

\* Variant: the flag is not looked at.
LoopHeadUnchecked ==
  /\ pc = "check"
  /\ pc' = "rpc"
  /\ UNCHANGED <<market, answer, errors, delay, shutdown, adjusted, faults>>

\* The loop's head: another check, or the end.
LoopHead ==
  /\ pc = "check"
  /\ pc' = IF shutdown THEN "stopped" ELSE "rpc"
  /\ UNCHANGED <<market, answer, errors, delay, shutdown, adjusted, faults>>

\* The RPC node reads the balance; the answer is on its way.
NodeReads ==
  /\ pc = "rpc" /\ answer = NoAnswer
  /\ answer' = onchain
  /\ UNCHANGED <<market, pc, errors, delay, shutdown, adjusted, faults>>

\* The exponential backoff: base * 2 ** min(errors, 5), an hour at most.
Backoff(n) ==
  LET wait == Base * 2^(IF n < 5 THEN n ELSE 5)
  IN IF wait < MaxDelay THEN wait ELSE MaxDelay

\* An iteration that ends well, and one that raised.
Succeed == /\ errors' = 0 /\ delay' = Base /\ pc' = "sleep"
Fail    == /\ errors' = errors + 1 /\ delay' = Backoff(errors + 1) /\ pc' = "backoff"

\* get_onchain_balance raises.
RpcFails ==
  /\ pc = "rpc" /\ faults < MaxFaults
  /\ faults' = faults + 1
  /\ answer' = NoAnswer
  /\ Fail
  /\ UNCHANGED <<market, shutdown, adjusted>>

\* The local balance the answer is compared with: read after the await.
LocalBalance == local

Delta == answer - LocalBalance

\* Variant: the delta's absolute value is not taken.
BelowThreshold == Delta <= Threshold

WithinThreshold == -Threshold <= Delta /\ Delta <= Threshold

\* The answer is close enough to the local balance.
Agree ==
  /\ pc = "rpc" /\ answer # NoAnswer
  /\ WithinThreshold
  /\ answer' = NoAnswer
  /\ Succeed
  /\ UNCHANGED <<market, shutdown, adjusted, faults>>

\* Variant: the chain is read again when the adjustment is applied.
BalanceReread == onchain

\* The balance _apply_adjustment sets.
AdjustedBalance == answer

\* It is not: an adjustment record is made and, unless this is a dry run,
\* applied.  Nothing is awaited between the answer and this.
Adjust ==
  /\ pc = "rpc" /\ answer # NoAnswer
  /\ ~WithinThreshold
  /\ local' = IF DryRun THEN local ELSE AdjustedBalance
  /\ adjusted' = IF DryRun THEN adjusted ELSE adjusted + Delta
  /\ answer' = NoAnswer
  /\ pc' = "alert"
  /\ UNCHANGED <<onchain, unbooked, booked, trades, errors, delay, shutdown, faults>>

\* _handle_adjustment with an alert_callback that delivers the alert.
AlertDelivered ==
  /\ pc = "alert" /\ Alert = "callback"
  /\ Succeed
  /\ UNCHANGED <<market, answer, shutdown, adjusted, faults>>

\* The callback raises.  Without one, send_alert is called with arguments it
\* does not take, and raises a TypeError every time.
AlertFails ==
  /\ pc = "alert"
  /\ IF Alert = "callback" THEN faults < MaxFaults /\ faults' = faults + 1
                           ELSE UNCHANGED faults
  /\ Fail
  /\ UNCHANGED <<market, answer, shutdown, adjusted>>

\* _sleep_with_shutdown looks at the flag at every tick ...
Sleep ==
  /\ pc = "sleep"
  /\ IF delay > 0 /\ ~shutdown THEN delay' = delay - 1 /\ UNCHANGED pc
                               ELSE delay' = 0 /\ pc' = "check"
  /\ UNCHANGED <<market, answer, errors, shutdown, adjusted, faults>>

\* ... and the backoff's asyncio.sleep does not.
SleepInBackoff ==
  /\ pc = "backoff"
  /\ IF delay > 0 THEN delay' = delay - 1 /\ UNCHANGED pc
                  ELSE delay' = 0 /\ pc' = "check"
  /\ UNCHANGED <<market, answer, errors, shutdown, adjusted, faults>>

\* _on_shutdown and stop.
RequestShutdown ==
  /\ ~shutdown
  /\ shutdown' = TRUE
  /\ UNCHANGED <<market, pc, answer, errors, delay, adjusted, faults>>

Worker == \/ LoopHead \/ NodeReads \/ Agree \/ Adjust \/ AlertDelivered \/ AlertFails
          \/ Sleep \/ SleepInBackoff

SrNext == \/ \E d \in Amounts : Land(d)
          \/ \E t \in unbooked : Book(t) \/ Miss(t)
          \/ Worker \/ RpcFails
          \/ RequestShutdown

SrSpec == SrInit /\ [][SrNext]_srVars

(***************************************************************************)
(* The event loop runs the worker, the RPC node answers when it does not   *)
(* fail, and the portfolio books or misses every trade.                    *)
(***************************************************************************)
SrFairSpec == SrSpec /\ WF_srVars(Worker) /\ WF_srVars(\E t \in unbooked : Book(t) \/ Miss(t))

-----------------------------------------------------------------------------
(* Properties.                                                             *)

SrTypeOK ==
  /\ onchain \in Int /\ local \in Int /\ booked \in Int /\ adjusted \in Int
  /\ unbooked \subseteq [nth : Nat, amount : Amounts]
  /\ pc \in Places
  /\ answer \in Int \cup {NoAnswer}
  /\ errors \in Nat /\ delay \in Nat /\ trades \in Nat /\ faults \in Nat
  /\ shutdown \in BOOLEAN

\* "All balance changes go through explicit Adjustment Record"
\* (state_reconciler.py:11): whatever is booked while the RPC call is under way,
\* the trades booked and the adjustments recorded add up to the local balance.
BooksExplained == local = InitialBalance + booked + adjusted

\* The balances agree up to the threshold.
Agreed == onchain - local \in -Threshold..Threshold

\* What the watchdog is for: however trades, their bookings and stale answers
\* interleave, including an adjustment that counts a trade the portfolio then
\* books again, the balances agree for good once trading has stopped.
Converges == <>[](Agreed \/ shutdown)

\* "Graceful shutdown on signals" (state_reconciler_worker.py:10): the loop ends.
ShutdownEnds == shutdown ~> pc = "stopped"
=============================================================================
