------------------------------ MODULE Portfolio ------------------------------
(***************************************************************************)
(* The portfolio manager (src/integration/portfolio_manager.py) over the   *)
(* pure transitions of src/strategy/state.py and state_update.py: fills    *)
(* change the state, the daily-loss cooldown gates entries, and every      *)
(* accepted fill rewrites the checkpoint file in place.  The process may   *)
(* crash at any point and restarts from the checkpoint.                    *)
(*                                                                         *)
(* st.realized is a history: the sum of the results of the exits in st.    *)
(* A position holds what Trade says of its signal, so positions is the set *)
(* of the signals that have one.  Money is an integer.                     *)
(* open_position_count is the number of positions and last_updated_ts is   *)
(* left out: nothing decides on it.                                        *)
(***************************************************************************)
EXTENDS Integers, FiniteSets, Functions

CONSTANTS Signals,        \* signal ids, each traded at most once
          Tokens, Wallets,
          Trade,          \* Trade[s]: token, wallet and size of a signal
          Pnls,           \* realised results an exit may report
          Initial,        \* initial_bankroll_usd
          MaxPositions,   \* params.max_positions
          MaxTokenPct,    \* params.max_token_concentration_pct, in percent
          MaxWalletPct,   \* params.max_wallet_concentration_pct, in percent
          MaxDailyLoss,   \* params.max_daily_loss_usd
          Duration,       \* params.cooldown_duration_sec
          NoTime,         \* cooldown_until_ts = None
          NoFile, Torn,   \* no checkpoint file; one whose write did not finish
          Crashes,        \* bound: crashes of the process
          MaxTime         \* bound: the clock

ASSUME TradeAssumption ==
  Trade \in [Signals -> [token : Tokens, wallet : Wallets, size : Nat \ {0}]]
ASSUME MoneyAssumption == Pnls \subseteq Int /\ Initial \in Nat
ASSUME LimitsAssumption ==
  /\ MaxPositions \in Nat /\ MaxDailyLoss \in Nat /\ Duration \in Nat \ {0}
  /\ MaxTokenPct \in Nat /\ MaxWalletPct \in Nat
ASSUME TimeAssumption  == MaxTime \in Nat /\ NoTime \notin Int
ASSUME FaultAssumption == Crashes \in Nat

Time == 0..MaxTime

VARIABLES st,       \* self._state
          file,     \* the checkpoint file
          phase,    \* "idle", "save" (state changed), "write" (file truncated), "down"
          acked,    \* the state the last on_fill returned success for
          now,      \* the clock, which fill events carry as ts
          bought,   \* signals whose entry was accepted
          missed,   \* a history: has a save failed since the last one that did not?
          crashes   \* crashes so far

vars == <<st, file, phase, acked, now, bought, missed, crashes>>

-----------------------------------------------------------------------------
(* strategy/state.py and strategy/state_update.py: pure functions.         *)

States ==
  [bankroll : Int, realized : Int, dailyPnl : Int, peak : Int,
   positions : SUBSET Signals, byToken : [Tokens -> Nat], byWallet : [Wallets -> Nat],
   cooldown : BOOLEAN, until : Nat \cup {NoTime}]

ASSUME FileAssumption == NoFile \notin States /\ Torn \notin States

\* PortfolioState.initial
InitialState ==
  [bankroll |-> Initial, realized |-> 0, dailyPnl |-> 0, peak |-> Initial,
   positions |-> {},
   byToken |-> [t \in Tokens |-> 0], byWallet |-> [w \in Wallets |-> 0],
   cooldown |-> FALSE, until |-> NoTime]

TotalExposure(state) == SumFunction(state.byToken)

CanOpenPosition(state) ==
  /\ ~state.cooldown
  /\ Cardinality(state.positions) < MaxPositions

\* The portfolio value the limits are measured against.
PortfolioValue(state, size) == state.bankroll + TotalExposure(state) + size

CanIncreaseExposure(state, trade) ==
  LET value == PortfolioValue(state, trade.size) IN
  value > 0 =>
    /\ 100 * (state.byToken[trade.token] + trade.size) <= MaxTokenPct * value
    /\ 100 * (state.byWallet[trade.wallet] + trade.size) <= MaxWalletPct * value

\* transition_on_entry
AfterEntry(state, s) ==
  LET t == Trade[s] IN
  [bankroll  |-> state.bankroll - t.size, realized |-> state.realized,
   dailyPnl  |-> state.dailyPnl, peak |-> state.peak,
   positions |-> state.positions \cup {s},
   byToken   |-> [state.byToken EXCEPT ![t.token] = @ + t.size],
   byWallet  |-> [state.byWallet EXCEPT ![t.wallet] = @ + t.size],
   cooldown  |-> state.cooldown, until |-> state.until]

MaxOf(a, b) == IF a >= b THEN a ELSE b

\* What an exit brings back to the bankroll; variant: the result alone.
ReturnedResult(s, pnl) == pnl
Returned(s, pnl) == Trade[s].size + pnl

\* The peak after an exit; variant: it is not moved.
PeakKept(peak, bankroll) == peak
PeakAfter(peak, bankroll) == MaxOf(peak, bankroll)

\* An exposure table without a closed position; variant: it keeps it.
NotReduced(table, key, size) == table
Reduced(table, key, size) == [table EXCEPT ![key] = MaxOf(0, @ - size)]

\* transition_on_exit; the caller names the position's own token and wallet.
AfterExit(state, s, pnl) ==
  LET t == Trade[s]
      bankroll == state.bankroll + Returned(s, pnl)
  IN [bankroll  |-> bankroll, realized |-> state.realized + pnl,
      dailyPnl  |-> state.dailyPnl + pnl, peak |-> PeakAfter(state.peak, bankroll),
      positions |-> state.positions \ {s},
      byToken   |-> Reduced(state.byToken, t.token, t.size),
      byWallet  |-> Reduced(state.byWallet, t.wallet, t.size),
      cooldown  |-> state.cooldown, until |-> state.until]

LossLimitHit(state) == state.dailyPnl < -MaxDailyLoss

Cooled(state, on, until) ==
  [bankroll |-> state.bankroll, realized |-> state.realized,
   dailyPnl |-> state.dailyPnl, peak |-> state.peak, positions |-> state.positions,
   byToken |-> state.byToken, byWallet |-> state.byWallet,
   cooldown |-> on, until |-> until]

\* Variant: the cooldown ends by the clock alone.
UpdateCooldownByClock(state) ==
  IF LossLimitHit(state) /\ ~state.cooldown
    THEN Cooled(state, TRUE, now + Duration)
  ELSE IF state.cooldown /\ now >= state.until
    THEN Cooled(state, FALSE, NoTime)
  ELSE state

\* update_cooldown, with the fill's timestamp
UpdateCooldown(state) ==
  IF LossLimitHit(state) /\ ~state.cooldown
    THEN Cooled(state, TRUE, now + Duration)
  ELSE IF ~LossLimitHit(state) /\ state.cooldown /\ now >= state.until
    THEN Cooled(state, FALSE, NoTime)
  ELSE state

-----------------------------------------------------------------------------
(* integration/portfolio_manager.py                                        *)

Init == /\ st = InitialState
        /\ file = NoFile
        /\ phase = "idle"
        /\ acked = InitialState
        /\ now = 0
        /\ bought = {}
        /\ missed = FALSE
        /\ crashes = 0

\* on_fill of a BUY that passes both checks.  One that fails them returns the
\* old state with an error, before update_cooldown: it changes nothing.
OnEntry(s) ==
  /\ phase = "idle"
  /\ s \notin bought
  /\ CanOpenPosition(st) /\ CanIncreaseExposure(st, Trade[s])
  /\ st' = UpdateCooldown(AfterEntry(st, s))
  /\ phase' = "save"
  /\ bought' = bought \cup {s}
  /\ UNCHANGED <<file, acked, now, missed, crashes>>

\* on_fill of a SELL; one for an unknown signal changes nothing either.
OnExit(s, pnl) ==
  /\ phase = "idle"
  /\ s \in st.positions
  /\ pnl < 0 => now + Duration <= MaxTime  \* bound: a cooldown can run out
  /\ st' = UpdateCooldown(AfterExit(st, s, pnl))
  /\ phase' = "save"
  /\ UNCHANGED <<file, acked, now, bought, missed, crashes>>

NewDay(state) ==
  [bankroll |-> state.bankroll, realized |-> state.realized,
   dailyPnl |-> 0, peak |-> state.peak, positions |-> state.positions,
   byToken |-> state.byToken, byWallet |-> state.byWallet,
   cooldown |-> state.cooldown, until |-> state.until]

\* reset_daily_pnl at the start of a trading day.
ResetDailyPnl ==
  /\ phase = "idle"
  /\ st.dailyPnl # 0
  /\ st' = NewDay(st)
  /\ phase' = "save"
  /\ UNCHANGED <<file, acked, now, bought, missed, crashes>>

\* _save_checkpoint: open(path, "w") truncates the file ...
Truncate ==
  /\ phase = "save"
  /\ file' = Torn
  /\ phase' = "write"
  /\ UNCHANGED <<st, acked, now, bought, missed, crashes>>

\* Variant: to_dict leaves the cooldown out.
WriteWithoutCooldown ==
  /\ phase = "write"
  /\ file' = Cooled(st, FALSE, NoTime)
  /\ phase' = "idle"
  /\ acked' = st
  /\ missed' = FALSE
  /\ UNCHANGED <<st, now, bought, crashes>>

\* ... json.dump fills it, and on_fill returns.
Write ==
  /\ phase = "write"
  /\ file' = st
  /\ phase' = "idle"
  /\ acked' = st
  /\ missed' = FALSE
  /\ UNCHANGED <<st, now, bought, crashes>>

\* An exception of open or json.dump is logged and swallowed: on_fill returns
\* success all the same.
SaveFails ==
  /\ phase \in {"save", "write"}
  /\ phase' = "idle"
  /\ acked' = st
  /\ missed' = TRUE
  /\ UNCHANGED <<st, file, now, bought, crashes>>

\* The process dies; what only memory held is gone, the history with it.
Crash ==
  /\ phase # "down" /\ crashes < Crashes
  /\ phase' = "down"
  /\ crashes' = crashes + 1
  /\ UNCHANGED <<st, file, acked, now, bought, missed>>

Loaded(f) == IF f = NoFile THEN InitialState ELSE f

\* __init__: load the checkpoint if there is one.  A torn one raises.
Restart ==
  /\ phase = "down"
  /\ file # Torn
  /\ st' = Loaded(file)
  /\ phase' = "idle"
  /\ UNCHANGED <<file, acked, now, bought, missed, crashes>>

Advance == /\ now < MaxTime
           /\ now' = now + 1
           /\ UNCHANGED <<st, file, phase, acked, bought, missed, crashes>>

Next ==
  \/ \E s \in Signals : OnEntry(s) \/ \E pnl \in Pnls : OnExit(s, pnl)
  \/ ResetDailyPnl
  \/ Truncate \/ Write \/ SaveFails
  \/ Crash \/ Restart
  \/ Advance

Spec == Init /\ [][Next]_vars

(***************************************************************************)
(* Time passes, trading days begin, and the caller keeps offering fills    *)
(* that the manager accepts whenever it can.                               *)
(***************************************************************************)
Saving == Truncate \/ Write

FairSpec == /\ Spec
            /\ WF_vars(Advance) /\ WF_vars(ResetDailyPnl) /\ WF_vars(Saving)
            /\ WF_vars(\E s \in Signals : OnEntry(s))
            /\ WF_vars(\E s \in Signals, pnl \in Pnls : OnExit(s, pnl))

-----------------------------------------------------------------------------
(* Properties.                                                             *)

WellFormed(state) ==
  state \in States /\ (state.cooldown <=> state.until # NoTime)

TypeOK ==
  /\ WellFormed(st) /\ WellFormed(acked)
  /\ file \in {NoFile, Torn} \/ WellFormed(file)
  /\ phase \in {"idle", "save", "write", "down"}
  /\ now \in Time /\ bought \subseteq Signals /\ missed \in BOOLEAN /\ crashes \in 0..Crashes

Sizes(signals) == SumFunctionOnSet([s \in Signals |-> Trade[s].size], signals)

\* Money is neither made nor lost in the books: what is in the bankroll and in
\* open positions is the initial bankroll and the results of the exits.
EquityConserved ==
  st.bankroll + Sizes(st.positions) = Initial + st.realized

\* The two exposure tables, kept incrementally, agree with the positions.
ExposureMatchesPositions ==
  /\ \A t \in Tokens : st.byToken[t] = Sizes({s \in st.positions : Trade[s].token = t})
  /\ \A w \in Wallets : st.byWallet[w] = Sizes({s \in st.positions : Trade[s].wallet = w})

\* The peak is a high-water mark although only exits move it.
PeakIsHighWater == st.peak >= st.bankroll

\* A day's loss past the limit always has the cooldown on, also after a restart
\* and however the cooldown's clock stands: no entry slips in between.
LossMeansCooldown == LossLimitHit(st) => st.cooldown

\* A restart that finds a readable checkpoint comes back with the last
\* acknowledged state, or with the one the process died saving, unless the last
\* save was swallowed: no acknowledged fill, exposure or cooldown is forgotten.
RestartKeepsAcked ==
  [][phase = "down" /\ phase' = "idle" /\ ~missed => st' \in {acked, st}]_vars

\* "cooldown_duration_sec: int = 3600  # 1 hour cooldown" (state.py:142): with
\* days passing and a BUY still on offer, a cooldown comes to an end.
CooldownEnds == st.cooldown ~> (~st.cooldown \/ bought = Signals)

=============================================================================
