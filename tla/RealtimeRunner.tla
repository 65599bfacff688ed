--------------------------- MODULE RealtimeRunner ---------------------------
(***************************************************************************)
(* The realtime paper runner (src/integration/realtime_runner.py) and the  *)
(* source it polls (src/ingestion/sources/rpc_source.py).                  *)
(*                                                                         *)
(* The trades of a wallet are numbered in the order in which they happen,  *)
(* and the number stands for the signature.  The runner asks for those     *)
(* after its cursor and gets the newest ones first, takes each through the *)
(* entry decision and the risk limits, and books what it enters in a       *)
(* portfolio that nothing ever reduces.  What the entry decision says is   *)
(* left open: it depends on snapshots that change between two polls.       *)
(***************************************************************************)
EXTENDS Integers, FiniteSets, Sequences, Functions

CONSTANTS Tracked,      \* tracked_wallets: the wallets in the order of polling
          Mints, Modes,
          Sizes,        \* sizes of trades, in USD
          Limit,        \* records per poll (50)
          Equity,       \* equity_usd at the start
          MaxPositions, \* risk.limits.max_open_positions
          ModeLimits,   \* risk.limits.mode_limits[mode].max_open_positions
          MaxExposure,  \* risk.limits.max_exposure_usd, for one token
          MaxTrades,    \* bound: MaxTrades[w] trades of wallet w
          MaxFaults     \* bound: failing polls

Wallets == {Tracked[i] : i \in DOMAIN Tracked}

ASSUME TrackedAssumption == Tracked \in Seq(Wallets) /\ Tracked # <<>>
ASSUME SizesAssumption   == Sizes \subseteq Nat /\ Sizes # {}
ASSUME LimitAssumption   == Limit \in Nat \ {0}
ASSUME RiskAssumption    == /\ MaxPositions \in Nat /\ MaxExposure \in Nat
                            /\ IsFiniteSet(Modes) /\ ModeLimits \in [Modes -> Nat]
ASSUME EquityAssumption  == Equity \in Nat
ASSUME BoundAssumption   == MaxTrades \in [Wallets -> Nat] /\ MaxFaults \in Nat

\* What the runner reads of a trade record.  rpc_source fills in placeholders for what it has
\* not parsed (an empty mint, size 0): they are one more mint and one more size.
Trades == [mint : Mints, size : Sizes]
Ids == UNION {{<<w, n>> : n \in 1..MaxTrades[w]} : w \in Wallets}

VARIABLES chain,     \* chain[w]: the trades of wallet w, the newest last
          running,   \* FALSE once an exception has left run_loop
          turn,      \* which tracked wallet is polled or being processed
          batch,     \* signatures of the poll that are still to be processed
          cursor,    \* last_signatures[w], 0 for none
          portfolio, \* the PortfolioStub
          faults,    \* failed polls (a bound)
          entries,   \* history: entries[<<w, n>>], how often trade n of wallet w was entered
          seen,      \* history: the trades that were processed
          overrun    \* history: did a poll find more than Limit new trades?

histories == <<entries, seen, overrun>>
vars == <<chain, running, turn, batch, cursor, portfolio, faults, entries, seen, overrun>>

Init == /\ chain = [w \in Wallets |-> <<>>]
        /\ running = TRUE
        /\ turn = 1
        /\ batch = {}
        /\ cursor = [w \in Wallets |-> 0]
        /\ portfolio = [equity |-> Equity, open |-> 0,
                        exposure |-> [m \in Mints |-> 0],
                        modeCounts |-> [m \in Modes |-> 0]]
        /\ faults = 0
        /\ entries = [x \in Ids |-> 0]
        /\ seen = {}
        /\ overrun = FALSE

Wallet == Tracked[turn]

-----------------------------------------------------------------------------
(* The wallets and the node.                                               *)

WalletTrades(w, t) ==
  /\ Len(chain[w]) < MaxTrades[w]
  /\ chain' = [chain EXCEPT ![w] = Append(@, t)]
  /\ UNCHANGED <<running, turn, batch, cursor, portfolio, faults, histories>>

-----------------------------------------------------------------------------
(* run_loop and _process_wallet.                                           *)

NextTurn == IF turn = Len(Tracked) THEN 1 ELSE turn + 1

\* Variant: one record more is taken for granted than is returned.
FreshOneShort(w) == {n \in cursor[w] + 1 .. Len(chain[w]) : n > Len(chain[w]) - Limit + 1}

\* poll_new_records: from the newest to the cursor, and at most Limit of them.
Fresh(w) == {n \in cursor[w] + 1 .. Len(chain[w]) : n > Len(chain[w]) - Limit}

\* last_signatures[w] is the last element of a list that begins with the newest.
CursorAfter(w, records) == CHOOSE n \in records : \A o \in records : n <= o

\* An RPC error, caught in the source or in the runner.
PollFails ==
  /\ running /\ batch = {}
  /\ faults < MaxFaults
  /\ faults' = faults + 1
  /\ turn' = NextTurn
  /\ UNCHANGED <<chain, running, batch, cursor, portfolio, histories>>

PollEmpty ==
  /\ running /\ batch = {}
  /\ Fresh(Wallet) = {}
  /\ turn' = NextTurn
  /\ UNCHANGED <<chain, running, batch, cursor, portfolio, faults, histories>>

\* The cursor is moved before anything is processed.
Poll ==
  /\ running /\ batch = {}
  /\ Fresh(Wallet) # {}
  /\ batch' = Fresh(Wallet)
  /\ cursor' = [cursor EXCEPT ![Wallet] = CursorAfter(Wallet, Fresh(Wallet))]
  /\ overrun' = (overrun \/ Len(chain[Wallet]) - cursor[Wallet] > Limit)
  /\ UNCHANGED <<chain, running, turn, portfolio, faults, entries, seen>>

-----------------------------------------------------------------------------
(* _process_trade, for each record, the newest first.                      *)

IsNext(n) == \A o \in batch : o <= n

\* The record is done with; after the last one the next wallet is polled.
Done(n) == /\ batch' = batch \ {n}
           /\ seen' = seen \cup {<<Wallet, n>>}
           /\ turn' = IF batch' = {} THEN NextTurn ELSE turn

\* Variant: the token's exposure is not looked at.
RiskAllowsAnyToken(p, t, mode) ==
  p.modeCounts[mode] < ModeLimits[mode] /\ p.open < MaxPositions

\* _apply_risk_limits; cooldown_until is never set by the runner.
RiskAllows(p, t, mode) ==
  /\ p.modeCounts[mode] < ModeLimits[mode]
  /\ p.open < MaxPositions
  /\ p.exposure[t.mint] < MaxExposure

\* Variant: the mode is counted, the position is not.
BookedByMode(p, t, mode) ==
  [equity |-> p.equity - t.size, open |-> p.open,
   exposure |-> [p.exposure EXCEPT ![t.mint] = @ + t.size],
   modeCounts |-> [p.modeCounts EXCEPT ![mode] = @ + 1]]

\* _execute_paper_trade; equity never exceeds its peak, so the peak stays.
Booked(p, t, mode) ==
  [equity |-> p.equity - t.size, open |-> p.open + 1,
   exposure |-> [p.exposure EXCEPT ![t.mint] = @ + t.size],
   modeCounts |-> [p.modeCounts EXCEPT ![mode] = @ + 1]]

\* The record is malformed, or decide_entry says no.
SignalRejected(n) ==
  /\ running /\ IsNext(n)
  /\ Done(n)
  /\ UNCHANGED <<chain, running, cursor, portfolio, faults, entries, overrun>>

Enter(n, mode) ==
  LET trade == chain[Wallet][n] IN
  /\ running /\ IsNext(n)
  /\ RiskAllows(portfolio, trade, mode)
  /\ portfolio' = Booked(portfolio, trade, mode)
  /\ entries' = [entries EXCEPT ![<<Wallet, n>>] = @ + 1]
  /\ Done(n)
  /\ UNCHANGED <<chain, running, cursor, faults, overrun>>

\* The reasons are spelled "RISK_MODE_LIMIT" and so on, which assert_reason_known
\* does not know: it raises, nothing catches the exception, and the loop is over.
RiskRejected(n, mode) ==
  /\ running /\ IsNext(n)
  /\ ~RiskAllows(portfolio, chain[Wallet][n], mode)
  /\ running' = FALSE
  /\ UNCHANGED <<chain, turn, batch, cursor, portfolio, faults, histories>>

ProcessTrade == \E n \in batch : \/ SignalRejected(n)
                                 \/ \E mode \in Modes : Enter(n, mode) \/ RiskRejected(n, mode)

Next == \/ \E w \in Wallets, t \in Trades : WalletTrades(w, t)
        \/ PollFails \/ PollEmpty \/ Poll
        \/ ProcessTrade

Spec == Init /\ [][Next]_vars

\* The loop runs by itself: it polls, sleeps and processes.
FairSpec == Spec /\ WF_vars(PollEmpty \/ Poll \/ ProcessTrade)

-----------------------------------------------------------------------------
(* Properties.                                                             *)

TypeOK ==
  /\ chain \in [Wallets -> Seq(Trades)]
  /\ running \in BOOLEAN
  /\ turn \in DOMAIN Tracked
  /\ batch \in SUBSET (1..Len(chain[Wallet]))
  /\ cursor \in [Wallets -> Nat]
  /\ \A w \in Wallets : cursor[w] <= Len(chain[w])
  /\ portfolio \in [equity : Int, open : Nat, exposure : [Mints -> Nat],
                    modeCounts : [Modes -> Nat]]
  /\ faults \in 0..MaxFaults
  /\ entries \in [Ids -> Nat]
  /\ seen \in SUBSET Ids
  /\ overrun \in BOOLEAN

\* The limits checked before an entry still hold after any number of entries, with
\* one trade to spare for the exposure, which is compared before the trade is added.
LimitsKept ==
  /\ portfolio.open <= MaxPositions
  /\ \A m \in Modes : portfolio.modeCounts[m] <= ModeLimits[m]
  /\ \A m \in Mints : \E s \in Sizes : portfolio.exposure[m] < MaxExposure + s
                                       \/ portfolio.exposure[m] = 0

Known == {x \in Ids : x[2] <= Len(chain[x[1]])}
TradeOf(x) == chain[x[1]][x[2]]
KnownOf(m) == {x \in Known : TradeOf(x).mint = m}

\* What was spent on a trade: its size, as often as it was entered.
Spent == [x \in Known |-> entries[x] * TradeOf(x).size]

\* Equity, number of positions, exposures and mode counts describe one and the same
\* list of entries, however often the cursor sends the runner over a trade.
BooksAgree ==
  /\ portfolio.open = SumFunctionOnSet(entries, Known)
  /\ portfolio.open = SumFunction(portfolio.modeCounts)
  /\ portfolio.equity = Equity - SumFunction(Spent)
  /\ \A m \in Mints : portfolio.exposure[m] = SumFunctionOnSet(Spent, KnownOf(m))

\* The cursor stops before nothing that was not fetched: as long as no poll finds more
\* than Limit new trades, each trade up to the cursor was processed or is in the batch.
SkippedOnlyByOverrun ==
  overrun \/ \A w \in Wallets : \A n \in 1..cursor[w] :
               <<w, n>> \in seen \/ (w = Wallet /\ n \in batch)

\* Every trade is processed in the end, unless more than Limit came between two polls
\* or a risk rejection has ended the loop.
EveryTradeReached ==
  \A x \in Ids : x \in Known ~> x \in seen \/ overrun \/ ~running

\* "Update last signature to the most recent processed" (realtime_runner.py:104): a
\* signature that was processed is not processed again, so no trade is entered twice.
EnteredOnce == \A x \in Ids : entries[x] <= 1
=============================================================================
