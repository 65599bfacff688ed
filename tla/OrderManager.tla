---------------------------- MODULE OrderManager ----------------------------
(***************************************************************************)
(* The order manager (src/execution/order_manager.py and                   *)
(* order_state_machine.py): positions registered on fills, closed by TTL,  *)
(* take-profit, stop-loss or by force, and the close actions its caller    *)
(* hands to the executor afterwards.                                       *)
(*                                                                         *)
(* The venue and the caller are around it: the venue fills each signal     *)
(* once, the caller delivers the fill, ticks prices and executes the close *)
(* actions one await at a time.  Prices are small integers compared with   *)
(* the brackets; time is a bounded clock.                                  *)
(***************************************************************************)
EXTENDS Integers, FiniteSets

CONSTANTS Signals,      \* signal ids
          Mints,        \* token mints
          Params,       \* Params[s]: the signal's mint, size, ttl, tp and sl
          Prices,       \* prices a tick may carry
          NoPrice,      \* tp_price or sl_price = None
          MaxPositions, \* config.max_positions
          Executor,     \* "live", "none" (executor is None) or "dry" (dry_run)
          Redelivery,   \* may a fill reach the caller again?
          MaxTime,      \* bound: the clock
          MaxCloses     \* bound: close actions ever created for one signal

SignalParams == [mint : Mints, size : Nat \ {0}, ttl : Nat,
                 tp : Prices \cup {NoPrice}, sl : Prices \cup {NoPrice}]

ASSUME PricesAssumption   == Prices \subseteq Int /\ NoPrice \notin Prices
ASSUME ParamsAssumption   == Params \in [Signals -> SignalParams]
ASSUME CapacityAssumption == MaxPositions \in Nat \ {0}
ASSUME ModeAssumption     == Executor \in {"live", "none", "dry"} /\ Redelivery \in BOOLEAN
ASSUME BoundAssumption    == MaxTime \in Nat /\ MaxCloses \in Nat

Time    == 0..MaxTime
Reasons == {"ttl_expired", "tp_hit", "sl_hit", "manual_close"}
Status  == {"ACTIVE", "PARTIAL"}   \* a CLOSED position is in no dictionary

Position == [remaining : Nat, status : Status, ttlExpiresAt : Nat]
\* size is what the executor is told (0.0 stands for a None size_usd), amount
\* what the action takes off the books.
Action   == [signal : Signals, reason : Reasons, size : Nat, amount : Nat, nth : Nat]

VARIABLES positions, \* _positions: a function from some signals to Position
          now,       \* the clock
          fills,     \* fills the venue reported: [signal, ts]
          handled,   \* fills delivered to on_fill at least once
          closing,   \* close actions returned and not yet executed
          closes,    \* closes[s]: how often a position of s was closed (_history)
          held,      \* held[s]: what the venue holds of signal s
          lost,      \* signals an action of which the executor failed
          refused    \* signals whose fill raised "Max positions reached"

omVars == <<positions, now, fills, handled, closing, closes, held, lost, refused>>

Fill == [signal : Signals, ts : Time]

Init == /\ positions = [s \in {} |-> 0]
        /\ now = 0
        /\ fills = {}
        /\ handled = {}
        /\ closing = {}
        /\ closes = [s \in Signals |-> 0]
        /\ held = [s \in Signals |-> 0]
        /\ lost = {}
        /\ refused = {}

-----------------------------------------------------------------------------
(* Registering fills.                                                      *)

\* The venue fills a signal, once, and reports it.
VenueFill(s) ==
  /\ \A f \in fills : f.signal # s
  /\ now + Params[s].ttl <= MaxTime   \* bound: every TTL falls inside the clock
  /\ fills' = fills \cup {[signal |-> s, ts |-> now]}
  /\ held' = [held EXCEPT ![s] = Params[s].size]
  /\ UNCHANGED <<positions, now, handled, closing, closes, lost, refused>>

Deliverable(f) == f \in fills /\ (Redelivery \/ f.signal \notin handled)

NewPosition(f) == [remaining    |-> Params[f.signal].size,
                   status       |-> "ACTIVE",
                   ttlExpiresAt |-> f.ts + Params[f.signal].ttl]

\* on_fill: an id already held is skipped, a full book raises.
OnFill(f) ==
  /\ Deliverable(f)
  /\ closes[f.signal] < MaxCloses
  /\ handled' = handled \cup {f.signal}
  /\ IF f.signal \in DOMAIN positions
       THEN UNCHANGED <<positions, refused>>
       ELSE IF Cardinality(DOMAIN positions) >= MaxPositions
         THEN /\ refused' = refused \cup {f.signal}
              /\ UNCHANGED positions
         ELSE /\ positions' = [s \in DOMAIN positions \cup {f.signal} |->
                                 IF s = f.signal THEN NewPosition(f) ELSE positions[s]]
              /\ UNCHANGED refused
  /\ UNCHANGED <<now, fills, closing, closes, held, lost>>

-----------------------------------------------------------------------------
(* Closing positions.                                                      *)

IsActive(s) == s \in DOMAIN positions /\ positions[s].status = "ACTIVE"

CheckTtl(s) == now >= positions[s].ttlExpiresAt

CheckTp(s, price, side) ==
  /\ Params[s].tp # NoPrice
  /\ IF side = "BUY" THEN price >= Params[s].tp ELSE price <= Params[s].tp

CheckSl(s, price, side) ==
  /\ Params[s].sl # NoPrice
  /\ IF side = "BUY" THEN price <= Params[s].sl ELSE price >= Params[s].sl

\* Variant: the TTL is not checked.
DueByPrice(mint, price, side) ==
  {s \in DOMAIN positions :
     /\ Params[s].mint = mint
     /\ IsActive(s)
     /\ CheckTp(s, price, side) \/ CheckSl(s, price, side)}

\* The positions a tick closes, and why: TTL first, then TP, then SL.
Due(mint, price, side) ==
  {s \in DOMAIN positions :
     /\ Params[s].mint = mint
     /\ IsActive(s)
     /\ CheckTtl(s) \/ CheckTp(s, price, side) \/ CheckSl(s, price, side)}

ReasonOf(s, price, side) ==
  IF CheckTtl(s) THEN "ttl_expired"
  ELSE IF CheckTp(s, price, side) THEN "tp_hit" ELSE "sl_hit"

\* _create_close_action without a size: CLOSE, the whole position.
FullClose(s, reason, size) ==
  [signal |-> s, reason |-> reason, size |-> size,
   amount |-> positions[s].remaining, nth |-> closes[s] + 1]

\* Variant: the position is marked, and stays in the dictionary.
WithoutNone(gone) == positions

\* del self._positions[...] for every signal of a set.
Without(gone) == [s \in DOMAIN positions \ gone |-> positions[s]]

\* Variant: each action replaces the one before it in the list returned.
OnTickLastAction(mint, price, side) ==
  LET due == Due(mint, price, side) IN
  /\ due # {}
  /\ positions' = Without(due)
  /\ \E s \in due : closing' = closing \cup {FullClose(s, ReasonOf(s, price, side), 0)}
  /\ closes' = [s \in Signals |-> IF s \in due THEN closes[s] + 1 ELSE closes[s]]
  /\ UNCHANGED <<now, fills, handled, held, lost, refused>>

\* on_tick: no await inside, so the whole scan is one step.
OnTick(mint, price, side) ==
  LET due == Due(mint, price, side) IN
  /\ due # {}
  /\ positions' = Without(due)
  /\ closing' = closing \cup {FullClose(s, ReasonOf(s, price, side), 0) : s \in due}
  /\ closes' = [s \in Signals |-> IF s \in due THEN closes[s] + 1 ELSE closes[s]]
  /\ UNCHANGED <<now, fills, handled, held, lost, refused>>

\* force_close without size_usd, or with one that is not below what remains.
ForceClose(s, size) ==
  /\ IsActive(s)
  /\ size = 0 \/ size >= positions[s].remaining
  /\ positions' = Without({s})
  /\ closing' = closing \cup {FullClose(s, "manual_close", size)}
  /\ closes' = [closes EXCEPT ![s] = @ + 1]
  /\ UNCHANGED <<now, fills, handled, held, lost, refused>>

\* Variant: a partial close leaves the remaining size as it was.
PartlyClosedWhole(s, size) == [remaining    |-> positions[s].remaining,
                               status       |-> "PARTIAL",
                               ttlExpiresAt |-> positions[s].ttlExpiresAt]

\* _create_close_action's effect, with a size, on the position it leaves behind.
PartlyClosed(s, size) == [remaining    |-> positions[s].remaining - size,
                          status       |-> "PARTIAL",
                          ttlExpiresAt |-> positions[s].ttlExpiresAt]

\* force_close with a size_usd below what remains: the position stays, PARTIAL.
ForcePartialClose(s, size) ==
  /\ IsActive(s)
  /\ 0 < size /\ size < positions[s].remaining
  /\ positions' = [positions EXCEPT ![s] = PartlyClosed(s, size)]
  /\ closing' = closing \cup {[signal |-> s, reason |-> "manual_close", size |-> size,
                               amount |-> size, nth |-> closes[s] + 1]}
  /\ UNCHANGED <<now, fills, handled, closes, held, lost, refused>>

-----------------------------------------------------------------------------
(* Executing close actions.                                                *)

\* What the venue sells for an action: the executor is given only a size, and
\* no size means the whole holding.
Sold(a) == IF a.size = 0 \/ a.size > held[a.signal] THEN held[a.signal] ELSE a.size

\* execute_close returning True: the venue sold, or the run is dry.
ExecuteClose(a) ==
  /\ a \in closing
  /\ Executor \in {"live", "dry"}
  /\ closing' = closing \ {a}
  /\ held' = IF Executor = "live" THEN [held EXCEPT ![a.signal] = @ - Sold(a)] ELSE held
  /\ UNCHANGED <<positions, now, fills, handled, closes, lost, refused>>

\* execute_close returning False: no executor, or it raised or refused.
ExecuteCloseFails(a) ==
  /\ a \in closing
  /\ Executor \in {"live", "none"}
  /\ closing' = closing \ {a}
  /\ lost' = lost \cup {a.signal}
  /\ UNCHANGED <<positions, now, fills, handled, closes, held, refused>>

Advance == /\ now < MaxTime
           /\ now' = now + 1
           /\ UNCHANGED <<positions, fills, handled, closing, closes, held, lost, refused>>

Tick(m) == \E p \in Prices, side \in {"BUY", "SELL"} : OnTick(m, p, side)

Execute(a) == ExecuteClose(a) \/ ExecuteCloseFails(a)

OmNext ==
  \/ Advance
  \/ \E m \in Mints : Tick(m)
  \/ \E f \in fills : OnFill(f)
  \/ \E a \in closing : Execute(a)
  \/ \E s \in Signals : \/ VenueFill(s)
                        \/ ForceClose(s, 0)
                        \/ \E size \in 1..Params[s].size : ForceClose(s, size) \/ ForcePartialClose(s, size)

Spec == Init /\ [][OmNext]_omVars

-----------------------------------------------------------------------------
(* Properties.                                                             *)

TypeOK ==
  /\ DOMAIN positions \subseteq Signals
  /\ \A s \in DOMAIN positions : positions[s] \in Position
  /\ now \in Time
  /\ fills \subseteq Fill
  /\ handled \subseteq Signals
  /\ closing \subseteq Action
  /\ closes \in [Signals -> Nat]
  /\ held \in [Signals -> Nat]
  /\ lost \subseteq Signals
  /\ refused \subseteq Signals

\* "Force close (TTL/TP/SL) must be idempotent" (order_state_machine.py:9):
\* whatever ticks, forced and partial closes compete, the position of one fill
\* is closed at most once.
CloseOnce == \A s \in Signals : closes[s] <= 1

\* The book never holds more positions than config.max_positions.
CapacityRespected == Cardinality(DOMAIN positions) <= MaxPositions

PendingActions(s) == {a \in closing : a.signal = s}

\* What the manager has on its books, or has handed out to be sold.
Booked(s) == (IF s \in DOMAIN positions THEN positions[s].remaining ELSE 0)
             + (IF PendingActions(s) = {} THEN 0 ELSE (CHOOSE a \in PendingActions(s) : TRUE).amount)

\* A holding the manager does not account for has a failed close or a refused
\* fill behind it: partial closes, ticks and executed actions never lose track.
HoldingsTracked ==
  \A s \in handled \ (lost \cup refused) : held[s] = Booked(s)

\* A position leaves the book only together with an action that closes it.
ClosedByAction ==
  [][\A s \in DOMAIN positions \ DOMAIN positions' :
       \E a \in closing' \ closing : a.signal = s /\ a.amount = positions[s].remaining]_omVars
=============================================================================
