------------------------ MODULE RealtimeRunnerProofs ------------------------
(***************************************************************************)
(* Proofs about the realtime runner, for any wallets, limits and number of *)
(* trades: its types, its limits, and what the cursor may skip.            *)
(***************************************************************************)
EXTENDS RealtimeRunner, Sums, SequenceTheorems

\* The chain's bound, without which a trade would have no place in the histories.
ChainBounded == \A w \in Wallets : Len(chain[w]) <= MaxTrades[w]

TypeInv == TypeOK /\ ChainBounded

-----------------------------------------------------------------------------
(* Lemmas.                                                                 *)

\* The loop always polls a tracked wallet.
LEMMA TurnStays ==
  ASSUME turn \in DOMAIN Tracked
  PROVE  NextTurn \in DOMAIN Tracked /\ Wallet \in Wallets
  <1>1. /\ Tracked \in Seq(Wallets) /\ Tracked # <<>>
        /\ DOMAIN Tracked = 1..Len(Tracked) /\ Len(Tracked) \in Nat
    BY TrackedAssumption
  <1>2. Len(Tracked) >= 1
    BY <1>1, EmptySeq, SMT
  <1>3. NextTurn \in DOMAIN Tracked
    BY <1>1, <1>2 DEF NextTurn
  <1>4. Wallet \in Wallets
    BY DEF Wallet, Wallets
  <1> QED BY <1>3, <1>4

\* poll_new_records returns a run of the newest trades, and the cursor becomes the first
\* of them.
LEMMA CursorIsOldest ==
  ASSUME NEW w \in Wallets, Len(chain[w]) \in Nat, cursor[w] \in Nat, Fresh(w) # {}
  PROVE  /\ CursorAfter(w, Fresh(w)) \in Fresh(w)
         /\ \A o \in Fresh(w) : CursorAfter(w, Fresh(w)) <= o
         /\ Fresh(w) \subseteq 1..Len(chain[w])
         /\ Len(chain[w]) - cursor[w] <= Limit =>
              CursorAfter(w, Fresh(w)) = cursor[w] + 1
  <1> DEFINE L == Len(chain[w])
             c == cursor[w]
             F == Fresh(w)
  <1>1. L \in Nat /\ c \in Nat /\ Limit \in Nat \ {0}
    BY LimitAssumption
  <1>2. F = {n \in c + 1 .. L : n > L - Limit}
    BY DEF Fresh
  <1>0. F # {}
    OBVIOUS
  <1> HIDE DEF L, c, F
  <1>3. PICK k \in F : TRUE
    BY <1>0
  <1>4. \E n \in F : \A o \in F : n <= o
    <2>1. CASE c + 1 > L - Limit
      <3>1. c + 1 \in F /\ \A o \in F : c + 1 <= o
        BY <1>1, <1>2, <1>3, <2>1
      <3> QED BY <3>1
    <2>2. CASE ~(c + 1 > L - Limit)
      <3>1. L - Limit + 1 \in F /\ \A o \in F : L - Limit + 1 <= o
        BY <1>1, <1>2, <1>3, <2>2
      <3> QED BY <3>1
    <2> QED BY <2>1, <2>2
  <1>5. CursorAfter(w, F) \in F /\ \A o \in F : CursorAfter(w, F) <= o
    BY <1>4 DEF CursorAfter
  <1>6. F \subseteq 1..L
    BY <1>1, <1>2
  <1>7. ASSUME L - c <= Limit PROVE CursorAfter(w, F) = c + 1
    <2>1. c + 1 \in F
      BY <1>1, <1>2, <1>3, <1>7
    <2>2. CursorAfter(w, F) \in c + 1 .. L /\ CursorAfter(w, F) <= c + 1
      BY <1>2, <1>5, <2>1
    <2> QED BY <1>1, <2>2
  <1> QED BY <1>5, <1>6, <1>7 DEF F, L, c

-----------------------------------------------------------------------------
(* Types.                                                                  *)

\* A record in the batch is a trade of the wallet in turn, with a place in the histories.
LEMMA BatchTypes ==
  ASSUME TypeInv, NEW n \in batch
  PROVE  /\ Wallet \in Wallets
         /\ n \in 1..Len(chain[Wallet])
         /\ <<Wallet, n>> \in Ids
         /\ chain[Wallet][n] \in Trades
  <1>1. Wallet \in Wallets
    BY TurnStays DEF TypeInv, TypeOK
  <1>2. chain[Wallet] \in Seq(Trades) /\ n \in 1..Len(chain[Wallet])
    BY <1>1 DEF TypeInv, TypeOK
  <1>3. MaxTrades[Wallet] \in Nat /\ Len(chain[Wallet]) <= MaxTrades[Wallet]
    BY <1>1, BoundAssumption DEF TypeInv, ChainBounded
  <1>4. n \in 1..MaxTrades[Wallet]
    BY <1>2, <1>3
  <1> QED BY <1>1, <1>2, <1>4 DEF Ids

\* What Done does, for every way of being done with a record.
LEMMA DoneTypes ==
  ASSUME TypeInv, NEW n \in batch, Done(n), UNCHANGED chain
  PROVE  /\ turn' \in DOMAIN Tracked
         /\ batch' \in SUBSET (1..Len(chain[Wallet]))'
         /\ seen' \in SUBSET Ids
  <1>1. <<Wallet, n>> \in Ids /\ NextTurn \in DOMAIN Tracked
    BY BatchTypes, TurnStays DEF TypeInv, TypeOK
  <1>2. turn' \in DOMAIN Tracked
    BY <1>1 DEF Done, TypeInv, TypeOK
  <1>3. seen' \in SUBSET Ids
    BY <1>1 DEF Done, TypeInv, TypeOK
  <1>4. batch' \in SUBSET (1..Len(chain[Wallet]))'
    <2>1. CASE batch' = {}
      BY <2>1
    <2>2. CASE batch' # {}
      <3>1. turn' = turn /\ batch' \subseteq batch
        BY <2>2 DEF Done
      <3>2. Wallet' = Wallet
        BY <3>1 DEF Wallet
      <3> QED BY <3>1, <3>2 DEF TypeInv, TypeOK
    <2> QED BY <2>1, <2>2
  <1> QED BY <1>2, <1>3, <1>4

LEMMA BookedTypes ==
  ASSUME TypeInv, NEW t \in Trades, NEW mode \in Modes
  PROVE  /\ Booked(portfolio, t, mode) \in
              [equity : Int, open : Nat, exposure : [Mints -> Nat], modeCounts : [Modes -> Nat]]
         /\ Booked(portfolio, t, mode).open = portfolio.open + 1
         /\ Booked(portfolio, t, mode).exposure =
              [m \in Mints |-> IF m = t.mint THEN portfolio.exposure[m] + t.size
                                             ELSE portfolio.exposure[m]]
         /\ Booked(portfolio, t, mode).modeCounts =
              [m \in Modes |-> IF m = mode THEN portfolio.modeCounts[m] + 1
                                           ELSE portfolio.modeCounts[m]]
  <1>1. /\ portfolio.equity \in Int /\ portfolio.open \in Nat
        /\ portfolio.exposure \in [Mints -> Nat] /\ portfolio.modeCounts \in [Modes -> Nat]
        /\ t.mint \in Mints /\ t.size \in Nat
    BY SizesAssumption DEF TypeInv, TypeOK, Trades
  <1> DEFINE e == [m \in Mints |-> IF m = t.mint THEN portfolio.exposure[m] + t.size
                                                 ELSE portfolio.exposure[m]]
             c == [m \in Modes |-> IF m = mode THEN portfolio.modeCounts[m] + 1
                                               ELSE portfolio.modeCounts[m]]
  <1>2. [portfolio.exposure EXCEPT ![t.mint] = @ + t.size] = e
    BY <1>1
  <1>3. [portfolio.modeCounts EXCEPT ![mode] = @ + 1] = c
    BY <1>1
  <1>4. e \in [Mints -> Nat] /\ c \in [Modes -> Nat]
    BY <1>1
  <1>5. portfolio.equity - t.size \in Int /\ portfolio.open + 1 \in Nat
    BY <1>1
  <1>6. Booked(portfolio, t, mode) = [equity |-> portfolio.equity - t.size,
          open |-> portfolio.open + 1, exposure |-> e, modeCounts |-> c]
    BY <1>2, <1>3 DEF Booked
  <1> HIDE DEF e, c
  <1> QED BY <1>4, <1>5, <1>6 DEF e, c

LEMMA StepKeepsTypes == TypeInv /\ [Next]_vars => TypeInv'
  <1> SUFFICES ASSUME TypeInv, [Next]_vars PROVE TypeInv'
    OBVIOUS
  <1>0. NextTurn \in DOMAIN Tracked /\ Wallet \in Wallets
    BY TurnStays DEF TypeInv, TypeOK
  <1>1. ASSUME NEW w \in Wallets, NEW t \in Trades, WalletTrades(w, t) PROVE TypeInv'
    <2>1. /\ chain[w] \in Seq(Trades) /\ Append(chain[w], t) \in Seq(Trades)
          /\ Len(Append(chain[w], t)) = Len(chain[w]) + 1 /\ Len(chain[w]) \in Nat
          /\ Len(chain[w]) < MaxTrades[w] /\ MaxTrades[w] \in Nat
      <3>1. chain[w] \in Seq(Trades)
        BY DEF TypeInv, TypeOK
      <3>2. MaxTrades[w] \in Nat /\ Len(chain[w]) < MaxTrades[w]
        BY <1>1, BoundAssumption DEF WalletTrades
      <3> QED BY <3>1, <3>2
    <2>2. /\ chain' = [chain EXCEPT ![w] = Append(@, t)]
          /\ UNCHANGED <<running, turn, batch, cursor, portfolio, faults, histories>>
      BY <1>1 DEF WalletTrades
    <2>3. \A v \in Wallets : /\ chain'[v] \in Seq(Trades)
                             /\ Len(chain[v]) \in Nat
                             /\ Len(chain[v]) <= Len(chain'[v])
                             /\ Len(chain'[v]) <= MaxTrades[v]
      BY <2>1, <2>2 DEF TypeInv, TypeOK, ChainBounded
    <2>4. chain' \in [Wallets -> Seq(Trades)]
      BY <2>2, <2>3 DEF TypeInv, TypeOK
    <2>5. Wallet' = Wallet /\ batch' \in SUBSET (1..Len(chain'[Wallet]))
      <3>1. Wallet' = Wallet
        BY <2>2 DEF Wallet
      <3>2. batch \in SUBSET (1..Len(chain[Wallet]))
        BY DEF TypeInv, TypeOK
      <3>3. Len(chain[Wallet]) \in Nat /\ Len(chain[Wallet]) <= Len(chain'[Wallet])
            /\ Len(chain'[Wallet]) \in Nat
        BY <1>0, <2>3, LenProperties
      <3> QED BY <2>2, <3>1, <3>2, <3>3
    <2>6. \A v \in Wallets : cursor'[v] <= Len(chain'[v])
      <3> SUFFICES ASSUME NEW v \in Wallets PROVE cursor'[v] <= Len(chain'[v])
        OBVIOUS
      <3>1. cursor'[v] = cursor[v] /\ cursor[v] \in Nat /\ cursor[v] <= Len(chain[v])
        BY <2>2 DEF TypeInv, TypeOK
      <3>2. Len(chain'[v]) \in Nat
        BY <2>3, LenProperties
      <3> QED BY <2>3, <3>1, <3>2
    <2> QED BY <2>2, <2>3, <2>4, <2>5, <2>6 DEF TypeInv, TypeOK, ChainBounded, histories
  <1>2. CASE PollFails
    BY <1>0, <1>2, BoundAssumption DEF PollFails, TypeInv, TypeOK, ChainBounded, histories
  <1>3. CASE PollEmpty
    BY <1>0, <1>3 DEF PollEmpty, TypeInv, TypeOK, ChainBounded, histories
  <1>4. CASE Poll
    <2>1. Len(chain[Wallet]) \in Nat /\ cursor[Wallet] \in Nat
      BY <1>0 DEF TypeInv, TypeOK
    <2>2. /\ CursorAfter(Wallet, Fresh(Wallet)) \in Fresh(Wallet)
          /\ Fresh(Wallet) \subseteq 1..Len(chain[Wallet])
      BY <1>0, <1>4, <2>1, CursorIsOldest DEF Poll
    <2>3. /\ batch' = Fresh(Wallet)
          /\ cursor' = [cursor EXCEPT ![Wallet] = CursorAfter(Wallet, Fresh(Wallet))]
          /\ overrun' \in BOOLEAN
          /\ UNCHANGED <<chain, running, turn, portfolio, faults, entries, seen>>
      BY <1>4 DEF Poll, TypeInv, TypeOK
    <2>4. CursorAfter(Wallet, Fresh(Wallet)) \in Nat
          /\ CursorAfter(Wallet, Fresh(Wallet)) <= Len(chain[Wallet])
      BY <2>1, <2>2
    <2>5. cursor' \in [Wallets -> Nat] /\ \A v \in Wallets : cursor'[v] <= Len(chain[v])
      BY <2>3, <2>4 DEF TypeInv, TypeOK
    <2>6. Wallet' = Wallet
      BY <2>3 DEF Wallet
    <2> QED BY <2>2, <2>3, <2>5, <2>6 DEF TypeInv, TypeOK, ChainBounded
  <1>5. ASSUME NEW n \in batch, SignalRejected(n) PROVE TypeInv'
    <2>1. Done(n) /\ UNCHANGED <<chain, running, cursor, portfolio, faults, entries, overrun>>
      BY <1>5 DEF SignalRejected
    <2> QED BY <2>1, DoneTypes DEF TypeInv, TypeOK, ChainBounded
  <1>6. ASSUME NEW n \in batch, NEW mode \in Modes, Enter(n, mode) PROVE TypeInv'
    <2>1. /\ Done(n) /\ UNCHANGED <<chain, running, cursor, faults, overrun>>
          /\ portfolio' = Booked(portfolio, chain[Wallet][n], mode)
          /\ entries' = [entries EXCEPT ![<<Wallet, n>>] = @ + 1]
      BY <1>6 DEF Enter
    <2>2. entries' \in [Ids -> Nat]
      BY <2>1, BatchTypes DEF TypeInv, TypeOK
    <2>3. portfolio' \in [equity : Int, open : Nat, exposure : [Mints -> Nat],
                          modeCounts : [Modes -> Nat]]
      BY <2>1, BatchTypes, BookedTypes
    <2> QED BY <2>1, <2>2, <2>3, DoneTypes DEF TypeInv, TypeOK, ChainBounded
  <1>7. ASSUME NEW n \in batch, NEW mode \in Modes, RiskRejected(n, mode) PROVE TypeInv'
    BY <1>7 DEF RiskRejected, TypeInv, TypeOK, ChainBounded, histories, Wallet
  <1>8. CASE UNCHANGED vars
    BY <1>8 DEF vars, TypeInv, TypeOK, ChainBounded, Wallet
  <1> QED BY <1>1, <1>2, <1>3, <1>4, <1>5, <1>6, <1>7, <1>8 DEF Next, ProcessTrade

\* The runner starts at the first wallet with an empty portfolio.
LEMMA StartTypes == Init => TypeInv
  <1> SUFFICES ASSUME Init PROVE TypeInv
    OBVIOUS
  <1>1. Tracked # <<>> /\ Tracked \in Seq(Wallets) /\ Len(Tracked) \in Nat
    BY TrackedAssumption
  <1>2. 1 \in DOMAIN Tracked
    BY <1>1, EmptySeq, SMT
  <1>3. \A w \in Wallets : /\ chain[w] = <<>> /\ chain[w] \in Seq(Trades) /\ Len(chain[w]) = 0
                           /\ cursor[w] = 0 /\ MaxTrades[w] \in Nat
    BY BoundAssumption DEF Init
  <1>4. chain \in [Wallets -> Seq(Trades)] /\ cursor \in [Wallets -> Nat]
    BY <1>3 DEF Init
  <1>5. portfolio \in [equity : Int, open : Nat, exposure : [Mints -> Nat],
                       modeCounts : [Modes -> Nat]]
    BY EquityAssumption DEF Init
  <1>6. \A w \in Wallets : Len(chain[w]) <= MaxTrades[w] /\ cursor[w] <= Len(chain[w])
    BY <1>3
  <1>7. entries \in [Ids -> Nat] /\ faults \in 0..MaxFaults
    BY BoundAssumption DEF Init
  <1> QED BY <1>2, <1>4, <1>5, <1>6, <1>7 DEF Init, TypeInv, TypeOK, ChainBounded

\* The batch and the histories only ever name trades that happened, the cursor never passes
\* the newest trade, and no chain outgrows its bound, so every record that is processed is one.
THEOREM TypeCorrect == Spec => [](TypeOK /\ ChainBounded)
  <1>1. Spec => []TypeInv
    BY StartTypes, StepKeepsTypes, PTL DEF Spec
  <1> QED BY <1>1 DEF TypeInv

-----------------------------------------------------------------------------
(* The limits.                                                             *)

\* Every action but Enter leaves the portfolio alone.
LEMMA OnlyEnterBooks ==
  ASSUME [Next]_vars,
         \A n \in batch, mode \in Modes : ~Enter(n, mode)
  PROVE  portfolio' = portfolio
  BY DEF Next, ProcessTrade, WalletTrades, PollFails, PollEmpty, Poll, SignalRejected,
         RiskRejected, vars

\* However many entries are made, by however many wallets and however often one trade is
\* entered, positions and mode counts stay within their limits, and the exposure to a token
\* passes its limit by less than one trade.
THEOREM LimitsHold == Spec => []LimitsKept
  <1>1. Init => LimitsKept
    <2> SUFFICES ASSUME Init PROVE LimitsKept
      OBVIOUS
    <2>1. /\ portfolio.open = 0
          /\ portfolio.exposure = [m \in Mints |-> 0]
          /\ portfolio.modeCounts = [m \in Modes |-> 0]
      BY DEF Init
    <2>2. PICK s \in Sizes : TRUE
      BY SizesAssumption
    <2>3. \A m \in Mints : portfolio.exposure[m] = 0
      BY <2>1
    <2>4. \A m \in Modes : portfolio.modeCounts[m] <= ModeLimits[m]
      BY <2>1, RiskAssumption
    <2>5. portfolio.open <= MaxPositions
      BY <2>1, RiskAssumption
    <2> QED BY <2>2, <2>3, <2>4, <2>5 DEF LimitsKept
  <1>2. TypeInv /\ LimitsKept /\ [Next]_vars => LimitsKept'
    <2> SUFFICES ASSUME TypeInv, LimitsKept, [Next]_vars PROVE LimitsKept'
      OBVIOUS
    <2>1. ASSUME NEW n \in batch, NEW mode \in Modes, Enter(n, mode) PROVE LimitsKept'
      <3> DEFINE t == chain[Wallet][n]
      <3>1. t \in Trades
        BY BatchTypes
      <3>2. /\ portfolio.modeCounts[mode] < ModeLimits[mode]
            /\ portfolio.open < MaxPositions
            /\ portfolio.exposure[t.mint] < MaxExposure
            /\ portfolio' = Booked(portfolio, t, mode)
        BY <2>1 DEF Enter, RiskAllows
      <3> HIDE DEF t
      <3>3. /\ portfolio'.open = portfolio.open + 1
            /\ portfolio'.exposure =
                 [m \in Mints |-> IF m = t.mint THEN portfolio.exposure[m] + t.size
                                                ELSE portfolio.exposure[m]]
            /\ portfolio'.modeCounts =
                 [m \in Modes |-> IF m = mode THEN portfolio.modeCounts[m] + 1
                                              ELSE portfolio.modeCounts[m]]
        BY <3>1, <3>2, BookedTypes
      <3>4. /\ portfolio.open \in Nat /\ portfolio.exposure \in [Mints -> Nat]
            /\ portfolio.modeCounts \in [Modes -> Nat]
            /\ t.mint \in Mints /\ t.size \in Sizes /\ t.size \in Nat
        BY <3>1, SizesAssumption DEF TypeInv, TypeOK, Trades
      <3>5. portfolio'.open <= MaxPositions
        BY <3>2, <3>3, <3>4, RiskAssumption
      <3>6. \A m \in Modes : portfolio'.modeCounts[m] <= ModeLimits[m]
        BY <3>2, <3>3, <3>4, RiskAssumption DEF LimitsKept
      <3>7. \A m \in Mints : \E s \in Sizes : portfolio'.exposure[m] < MaxExposure + s
                                              \/ portfolio'.exposure[m] = 0
        <4> SUFFICES ASSUME NEW m \in Mints
                     PROVE  \E s \in Sizes : portfolio'.exposure[m] < MaxExposure + s
                                             \/ portfolio'.exposure[m] = 0
          OBVIOUS
        <4>1. CASE m = t.mint
          <5>1. portfolio'.exposure[m] < MaxExposure + t.size
            BY <3>2, <3>3, <3>4, <4>1, RiskAssumption
          <5> QED BY <3>4, <5>1
        <4>2. CASE m # t.mint
          <5>1. portfolio'.exposure[m] = portfolio.exposure[m]
            BY <3>3, <4>2
          <5> QED BY <5>1 DEF LimitsKept
        <4> QED BY <4>1, <4>2
      <3> QED BY <3>5, <3>6, <3>7 DEF LimitsKept
    <2>2. CASE \A n \in batch, mode \in Modes : ~Enter(n, mode)
      <3>1. portfolio' = portfolio
        BY <2>2, OnlyEnterBooks
      <3> QED BY <3>1 DEF LimitsKept
    <2> QED BY <2>1, <2>2
  <1>3. Spec => []TypeInv
    BY StartTypes, StepKeepsTypes, PTL DEF Spec
  <1> QED BY <1>1, <1>2, <1>3, PTL DEF Spec

-----------------------------------------------------------------------------
(* The cursor.                                                             *)

\* Processing a record neither loses nor adds one: it moves from the batch to seen.
LEMMA DoneSkipsNothing ==
  ASSUME TypeInv, SkippedOnlyByOverrun, NEW n \in batch, Done(n),
         UNCHANGED <<cursor, overrun>>
  PROVE  SkippedOnlyByOverrun'
  <1> SUFFICES ASSUME ~overrun, NEW w \in Wallets, NEW k \in 1..cursor[w]
               PROVE  (<<w, k>> \in seen)' \/ (w = Wallet /\ k \in batch)'
    BY DEF SkippedOnlyByOverrun
  <1>1. <<w, k>> \in seen \/ (w = Wallet /\ k \in batch)
    BY DEF SkippedOnlyByOverrun
  <1>2. seen' = seen \cup {<<Wallet, n>>} /\ batch' = batch \ {n}
    BY DEF Done
  <1>3. CASE w = Wallet /\ k \in batch /\ k # n
    <2>1. batch' # {} /\ k \in batch'
      BY <1>2, <1>3
    <2>2. Wallet' = Wallet
      BY <2>1 DEF Done, Wallet
    <2> QED BY <1>3, <2>1, <2>2
  <1> QED BY <1>1, <1>2, <1>3

\* A trade up to the cursor is processed, or waits in the batch, unless some poll found
\* more trades than it can return; a poll that fails or is empty, a rejected record and
\* an exception that ends the loop lose none.
THEOREM NothingElseSkips == Spec => []SkippedOnlyByOverrun
  <1>1. Init => SkippedOnlyByOverrun
    BY DEF Init, SkippedOnlyByOverrun
  <1>2. TypeInv /\ SkippedOnlyByOverrun /\ [Next]_vars => SkippedOnlyByOverrun'
    <2> SUFFICES ASSUME TypeInv, SkippedOnlyByOverrun, [Next]_vars
                 PROVE  SkippedOnlyByOverrun'
      OBVIOUS
    <2>1. CASE \E w \in Wallets, t \in Trades : WalletTrades(w, t)
      BY <2>1 DEF WalletTrades, SkippedOnlyByOverrun, histories, Wallet
    <2>2. CASE PollFails \/ PollEmpty
      BY <2>2 DEF PollFails, PollEmpty, SkippedOnlyByOverrun, histories
    <2>3. CASE Poll
      <3>1. Wallet \in Wallets /\ Wallet' = Wallet
        BY <2>3, TurnStays DEF Poll, TypeInv, TypeOK, Wallet
      <3>2. Len(chain[Wallet]) \in Nat /\ cursor[Wallet] \in Nat
        BY <3>1 DEF TypeInv, TypeOK
      <3> DEFINE c == CursorAfter(Wallet, Fresh(Wallet))
      <3>3. /\ batch = {} /\ Fresh(Wallet) # {} /\ batch' = Fresh(Wallet)
            /\ cursor' = [cursor EXCEPT ![Wallet] = c]
            /\ overrun' = (overrun \/ Len(chain[Wallet]) - cursor[Wallet] > Limit)
            /\ seen' = seen
        BY <2>3 DEF Poll
      <3> SUFFICES ASSUME ~overrun', NEW w \in Wallets, NEW k \in 1..cursor'[w]
                   PROVE  <<w, k>> \in seen' \/ (w = Wallet' /\ k \in batch')
        BY DEF SkippedOnlyByOverrun
      <3>4. ~overrun /\ ~(Len(chain[Wallet]) - cursor[Wallet] > Limit)
        BY <3>3
      <3>5. c = cursor[Wallet] + 1 /\ c \in Fresh(Wallet)
        BY <3>1, <3>2, <3>3, <3>4, CursorIsOldest, LimitAssumption
      <3> HIDE DEF c
      <3>6. CASE w # Wallet
        <4>1. cursor'[w] = cursor[w]
          BY <3>3, <3>6 DEF TypeInv, TypeOK
        <4> QED BY <3>3, <3>4, <3>6, <4>1 DEF SkippedOnlyByOverrun
      <3>7. CASE w = Wallet
        <4>1. cursor'[w] = c
          BY <3>3, <3>7 DEF TypeInv, TypeOK
        <4>2. k = c \/ k \in 1..cursor[Wallet]
          BY <3>2, <3>5, <4>1
        <4> QED BY <3>1, <3>3, <3>4, <3>5, <3>7, <4>2 DEF SkippedOnlyByOverrun
      <3> QED BY <3>6, <3>7
    <2>4. ASSUME NEW n \in batch, SignalRejected(n) PROVE SkippedOnlyByOverrun'
      BY <2>4, DoneSkipsNothing DEF SignalRejected
    <2>5. ASSUME NEW n \in batch, NEW mode \in Modes, Enter(n, mode)
          PROVE  SkippedOnlyByOverrun'
      BY <2>5, DoneSkipsNothing DEF Enter
    <2>6. ASSUME NEW n \in batch, NEW mode \in Modes, RiskRejected(n, mode)
          PROVE  SkippedOnlyByOverrun'
      BY <2>6 DEF RiskRejected, SkippedOnlyByOverrun, histories, Wallet
    <2>7. CASE UNCHANGED vars
      BY <2>7 DEF vars, SkippedOnlyByOverrun, Wallet
    <2> QED BY <2>1, <2>2, <2>3, <2>4, <2>5, <2>6, <2>7 DEF Next, ProcessTrade
  <1>3. Spec => []TypeInv
    BY StartTypes, StepKeepsTypes, PTL DEF Spec
  <1> QED BY <1>1, <1>2, <1>3, PTL DEF Spec

-----------------------------------------------------------------------------
(* The books.                                                              *)

LEMMA FiniteIds == IsFiniteSet(Ids) /\ IsFiniteSet(Known)
  <1>1. Tracked \in Seq(Wallets) /\ DOMAIN Tracked = 1..Len(Tracked) /\ Len(Tracked) \in Nat
    BY TrackedAssumption
  <1>2. IsFiniteSet(DOMAIN Tracked)
    BY <1>1, FS_Interval
  <1>3. IsFiniteSet(Wallets)
    BY <1>2, FiniteValues DEF Wallets
  <1> DEFINE its(w) == {<<w, n>> : n \in 1..MaxTrades[w]}
             all == [w \in Wallets |-> its(w)]
  <1>4. ASSUME NEW w \in Wallets PROVE IsFiniteSet(its(w))
    <2>1. IsFiniteSet(1..MaxTrades[w])
      BY FS_Interval, BoundAssumption
    <2> DEFINE f == [n \in 1..MaxTrades[w] |-> <<w, n>>]
    <2>2. its(w) = {f[n] : n \in 1..MaxTrades[w]}
      OBVIOUS
    <2> HIDE DEF f, its
    <2> QED BY <2>1, <2>2, FiniteValues
  <1>5. Ids = UNION {all[w] : w \in Wallets}
    BY DEF Ids
  <1>6. IsFiniteSet({all[w] : w \in Wallets})
    <2> HIDE DEF all
    <2> QED BY <1>3, FiniteValues
  <1>7. \A T \in {all[w] : w \in Wallets} : IsFiniteSet(T)
    <2> HIDE DEF its
    <2> QED BY <1>4
  <1>8. IsFiniteSet(Ids)
    <2> HIDE DEF all
    <2> QED BY <1>5, <1>6, <1>7, FS_UNION
  <1> QED BY <1>8, FS_Subset DEF Known

\* An id is a wallet and a number within that wallet's bound.
LEMMA IdParts ==
  ASSUME NEW x \in Ids
  PROVE  /\ x[1] \in Wallets /\ x[2] \in 1..MaxTrades[x[1]] /\ MaxTrades[x[1]] \in Nat
         /\ x = <<x[1], x[2]>>
  <1>1. PICK w \in Wallets : \E n \in 1..MaxTrades[w] : x = <<w, n>>
    BY DEF Ids
  <1>2. PICK n \in 1..MaxTrades[w] : x = <<w, n>>
    BY <1>1
  <1> QED BY <1>2, BoundAssumption

\* What a known trade is.
LEMMA KnownTypes ==
  ASSUME TypeInv, NEW x \in Known
  PROVE  /\ x[1] \in Wallets /\ x[2] \in 1..Len(chain[x[1]]) /\ x = <<x[1], x[2]>>
         /\ TradeOf(x) \in Trades /\ TradeOf(x).size \in Nat /\ TradeOf(x).mint \in Mints
         /\ entries[x] \in Nat /\ Spent[x] \in Nat
  <1>1. PICK w \in Wallets, n \in Nat : n \in 1..MaxTrades[w] /\ x = <<w, n>>
    BY IdParts DEF Known
  <1>2. n <= Len(chain[w]) /\ chain[w] \in Seq(Trades) /\ Len(chain[w]) \in Nat
    <2>1. x[1] = w /\ x[2] = n
      BY <1>1
    <2>2. chain[w] \in Seq(Trades)
      BY DEF TypeInv, TypeOK
    <2> QED BY <2>1, <2>2 DEF Known
  <1>3. n \in 1..Len(chain[w])
    BY <1>1, <1>2
  <1>4. chain[w][n] \in Trades
    BY <1>2, <1>3
  <1>5. TradeOf(x) = chain[w][n]
    BY <1>1 DEF TradeOf
  <1>6. TradeOf(x).size \in Nat /\ TradeOf(x).mint \in Mints
    BY <1>4, <1>5, SizesAssumption DEF Trades
  <1>7. entries[x] \in Nat
    BY DEF Known, TypeInv, TypeOK
  <1>8. Spent[x] = entries[x] * TradeOf(x).size
    BY DEF Spent
  <1>9. Spent[x] \in Nat
    BY <1>6, <1>7, <1>8
  <1> QED BY <1>1, <1>3, <1>4, <1>5, <1>6, <1>7, <1>9

\* A trade that did not happen was not entered.
NothingEnteredAhead == \A x \in Ids \ Known : entries[x] = 0

\* A trade that happens is known from then on, counts for nothing yet, and leaves the
\* other trades what they are.
LEMMA NewTradeIsFree ==
  ASSUME TypeInv, NothingEnteredAhead, BooksAgree,
         NEW w \in Wallets, NEW t \in Trades, WalletTrades(w, t)
  PROVE  BooksAgree' /\ NothingEnteredAhead'
  <1>0. PICK new : new = <<w, Len(chain[w]) + 1>>
    OBVIOUS
  <1>1. /\ chain[w] \in Seq(Trades) /\ Len(chain[w]) \in Nat
        /\ Len(chain[w]) < MaxTrades[w] /\ MaxTrades[w] \in Nat
        /\ chain' = [chain EXCEPT ![w] = Append(@, t)]
        /\ chain \in [Wallets -> Seq(Trades)]
        /\ portfolio' = portfolio /\ entries' = entries
    <2>1. chain \in [Wallets -> Seq(Trades)]
      BY DEF TypeInv, TypeOK
    <2>2. chain[w] \in Seq(Trades) /\ Len(chain[w]) \in Nat
      BY <2>1
    <2> QED BY <2>1, <2>2, BoundAssumption DEF WalletTrades, histories
  <1>2. new \in Ids /\ new \notin Known /\ new[1] = w /\ new[2] = Len(chain[w]) + 1
    <2>1. Len(chain[w]) + 1 \in 1..MaxTrades[w]
      BY <1>1
    <2>2. new \in Ids
      BY <1>0, <2>1 DEF Ids
    <2>3. new[1] = w /\ new[2] = Len(chain[w]) + 1
      BY <1>0
    <2>4. new \notin Known
      BY <1>1, <2>3 DEF Known
    <2> QED BY <2>2, <2>3, <2>4
  <1>3. chain'[w] = Append(chain[w], t) /\ Len(chain'[w]) = Len(chain[w]) + 1
    BY <1>1
  <1>4. ASSUME NEW x \in Ids PROVE x \in Known' <=> x \in Known \cup {new}
    <2>1. PICK v \in Wallets, n \in Nat : n \in 1..MaxTrades[v] /\ x = <<v, n>>
      BY IdParts
    <2>2. x[1] = v /\ x[2] = n /\ n \in Nat
      BY <2>1
    <2>3. x \in Known <=> n <= Len(chain[v])
      BY <2>2 DEF Known
    <2>4. x \in Known' <=> n <= Len(chain'[v])
      BY <2>2 DEF Known
    <2>5. x = new <=> v = w /\ n = Len(chain[w]) + 1
      BY <1>0, <2>1
    <2>6. CASE v = w
      BY <1>1, <1>3, <2>2, <2>3, <2>4, <2>5, <2>6
    <2>7. CASE v # w
      <3>1. chain'[v] = chain[v]
        BY <1>1, <2>7
      <3> QED BY <2>3, <2>4, <2>5, <2>7, <3>1
    <2> QED BY <2>6, <2>7
  <1>5. Known' = Known \cup {new}
    <2>1. Known \subseteq Ids /\ Known' \subseteq Ids
      BY DEF Known
    <2> QED BY <1>2, <1>4, <2>1
  <1>6. ASSUME NEW x \in Known PROVE TradeOf(x)' = TradeOf(x)
    <2>1. x[1] \in Wallets /\ x[2] \in 1..Len(chain[x[1]])
      BY KnownTypes
    <2>2. CASE x[1] = w
      <3>1. Append(chain[w], t)[x[2]] = chain[w][x[2]]
        BY <1>1, <2>1, <2>2
      <3> QED BY <1>3, <2>2, <3>1 DEF TradeOf
    <2>3. CASE x[1] # w
      <3>1. chain'[x[1]] = chain[x[1]]
        BY <1>1, <2>1, <2>3
      <3> QED BY <3>1 DEF TradeOf
    <2> QED BY <2>2, <2>3
  <1>7. TradeOf(new)' = t
    <2>1. Append(chain[w], t)[Len(chain[w]) + 1] = t
      BY <1>1
    <2> QED BY <1>2, <1>3, <2>1 DEF TradeOf
  <1>8. entries[new] = 0
    BY <1>2 DEF NothingEnteredAhead
  <1>9. \A x \in Known : Spent'[x] = Spent[x]
    BY <1>1, <1>5, <1>6 DEF Spent
  <1>10. Spent'[new] = 0
    <2>1. Spent'[new] = entries[new] * t.size
      BY <1>1, <1>5, <1>7 DEF Spent
    <2>2. t.size \in Nat
      BY SizesAssumption DEF Trades
    <2> QED BY <1>8, <2>1, <2>2
  <1>11. \A x \in Known : entries[x] \in Int /\ Spent[x] \in Int
    BY KnownTypes
  <1>12. SumFunctionOnSet(entries, Known') = SumFunctionOnSet(entries, Known)
    <2>1. SumFunctionOnSet(entries, Known) \in Int
      BY <1>11, FiniteIds, SumByAny
    <2>2. SumFunctionOnSet(entries, Known \cup {new})
            = SumFunctionOnSet(entries, Known) + entries[new]
      BY <1>2, <1>8, <1>11, FiniteIds, SumWith
    <2> QED BY <1>5, <1>8, <2>1, <2>2
  <1>13. ASSUME NEW S \in SUBSET Known
         PROVE  /\ SumFunctionOnSet(Spent', S) = SumFunctionOnSet(Spent, S)
                /\ SumFunctionOnSet(Spent', S \cup {new}) = SumFunctionOnSet(Spent, S)
    <2>1. IsFiniteSet(S)
      BY FiniteIds, FS_Subset
    <2>2. SumFunctionOnSet(Spent', S) = SumFunctionOnSet(Spent, S)
      BY <1>9, <2>1, SumOfSame
    <2>3. SumFunctionOnSet(Spent, S) \in Int
      BY <1>11, <2>1, SumByAny
    <2>4. SumFunctionOnSet(Spent', S \cup {new}) = SumFunctionOnSet(Spent', S) + Spent'[new]
      <3>1. \A x \in S \cup {new} : Spent'[x] \in Int
        BY <1>9, <1>10, <1>11
      <3> QED BY <1>2, <2>1, <3>1, SumWith
    <2> QED BY <1>10, <2>2, <2>3, <2>4
  <1>14. SumFunction(Spent') = SumFunction(Spent)
    <2>1. DOMAIN Spent = Known /\ DOMAIN Spent' = Known \cup {new}
      BY <1>5 DEF Spent
    <2> QED BY <1>13, <2>1 DEF SumFunction
  <1>15. ASSUME NEW m \in Mints
         PROVE  SumFunctionOnSet(Spent', KnownOf(m)') = SumFunctionOnSet(Spent, KnownOf(m))
    <2>1. KnownOf(m) \in SUBSET Known
      BY DEF KnownOf
    <2>2. KnownOf(m)' = KnownOf(m) \/ KnownOf(m)' = KnownOf(m) \cup {new}
      <3>1. KnownOf(m)' = {x \in Known \cup {new} : TradeOf(x)'.mint = m}
        BY <1>5 DEF KnownOf
      <3>2. KnownOf(m) = {x \in Known : TradeOf(x)'.mint = m}
        BY <1>6 DEF KnownOf
      <3> QED BY <3>1, <3>2
    <2> QED BY <1>13, <2>1, <2>2
  <1>16. BooksAgree'
    BY <1>1, <1>12, <1>14, <1>15 DEF BooksAgree
  <1>17. NothingEnteredAhead'
    BY <1>1, <1>5 DEF NothingEnteredAhead
  <1> QED BY <1>16, <1>17

\* An entry adds one to the count of its trade, its mode and the positions, and its size
\* to what was spent on it and on its token.
LEMMA EntryIsBooked ==
  ASSUME TypeInv, NothingEnteredAhead, BooksAgree,
         NEW n \in batch, NEW mode \in Modes, Enter(n, mode)
  PROVE  BooksAgree' /\ NothingEnteredAhead'
  <1> DEFINE x == <<Wallet, n>>
             t == chain[Wallet][n]
  <1>1. /\ portfolio' = Booked(portfolio, t, mode) /\ chain' = chain
        /\ entries' = [entries EXCEPT ![x] = @ + 1]
    BY DEF Enter
  <1>2. x \in Known /\ TradeOf(x) = t /\ t \in Trades /\ x \in Ids
    BY BatchTypes DEF Known, TradeOf
  <1>3. entries \in [Ids -> Nat]
    BY DEF TypeInv, TypeOK
  <1>4. Known' = Known /\ \A y : TradeOf(y)' = TradeOf(y)
    BY <1>1 DEF Known, TradeOf
  <1>5. /\ entries'[x] = entries[x] + 1 /\ entries[x] \in Nat
        /\ \A y \in Known \ {x} : entries'[y] = entries[y]
    BY <1>1, <1>2, <1>3 DEF Known
  <1>6. /\ Spent[x] = entries[x] * t.size /\ Spent'[x] = entries'[x] * t.size
        /\ \A y \in Known \ {x} : Spent'[y] = Spent[y]
    BY <1>2, <1>4, <1>5 DEF Spent
  <1>7. \A y \in Known : entries[y] \in Int /\ Spent[y] \in Int
    BY KnownTypes
  <1>8. t.size \in Nat /\ t.mint \in Mints
    BY <1>2, SizesAssumption DEF Trades
  <1> HIDE DEF x, t
  <1>9. Spent'[x] = Spent[x] + t.size
    <2>1. \A a, b \in Nat : (a + 1) * b = a * b + b
      OBVIOUS
    <2> QED BY <1>5, <1>6, <1>8, <2>1
  <1>10. \A y \in Known : entries'[y] \in Int /\ Spent'[y] \in Int
    <2>1. entries'[x] \in Int /\ Spent'[x] \in Int
      BY <1>2, <1>5, <1>7, <1>8, <1>9
    <2> QED BY <1>5, <1>6, <1>7, <2>1
  <1>11. SumFunctionOnSet(entries', Known) = SumFunctionOnSet(entries, Known) + 1
    <2>1. SumFunctionOnSet(entries', Known)
            = SumFunctionOnSet(entries, Known) + (entries'[x] - entries[x])
      BY <1>2, <1>5, <1>7, <1>10, FiniteIds, SumChanged
    <2>2. SumFunctionOnSet(entries, Known) \in Int
      BY <1>7, FiniteIds, SumByAny
    <2> QED BY <1>5, <2>1, <2>2
  <1>12. ASSUME NEW S \in SUBSET Known
         PROVE  /\ x \in S => SumFunctionOnSet(Spent', S)
                                 = SumFunctionOnSet(Spent, S) + t.size
                /\ x \notin S => SumFunctionOnSet(Spent', S) = SumFunctionOnSet(Spent, S)
                /\ SumFunctionOnSet(Spent, S) \in Int
    <2>1. IsFiniteSet(S)
      BY FiniteIds, FS_Subset
    <2>2. SumFunctionOnSet(Spent, S) \in Int
      BY <1>7, <2>1, SumByAny
    <2>3. ASSUME x \in S
          PROVE  SumFunctionOnSet(Spent', S) = SumFunctionOnSet(Spent, S) + t.size
      <3>1. SumFunctionOnSet(Spent', S)
              = SumFunctionOnSet(Spent, S) + (Spent'[x] - Spent[x])
        BY <1>6, <1>7, <1>10, <2>1, <2>3, SumChanged
      <3>2. Spent[x] \in Int
        BY <1>2, <1>7
      <3> QED BY <1>8, <1>9, <2>2, <3>1, <3>2
    <2>4. ASSUME x \notin S PROVE SumFunctionOnSet(Spent', S) = SumFunctionOnSet(Spent, S)
      <3>1. \A y \in S : Spent'[y] = Spent[y]
        BY <1>6, <2>4
      <3> QED BY <2>1, <3>1, SumOfSame
    <2> QED BY <2>2, <2>3, <2>4
  <1>13. /\ portfolio.equity \in Int /\ portfolio.open \in Nat
         /\ portfolio.exposure \in [Mints -> Nat] /\ portfolio.modeCounts \in [Modes -> Nat]
    BY DEF TypeInv, TypeOK
  <1>14. /\ portfolio'.open = portfolio.open + 1
         /\ portfolio'.equity = portfolio.equity - t.size
         /\ portfolio'.exposure = [portfolio.exposure EXCEPT ![t.mint] = @ + t.size]
         /\ portfolio'.modeCounts = [portfolio.modeCounts EXCEPT ![mode] = @ + 1]
    BY <1>1 DEF Booked
  <1>15. portfolio'.open = SumFunctionOnSet(entries', Known')
    BY <1>4, <1>11, <1>14 DEF BooksAgree
  <1>16. portfolio'.open = SumFunction(portfolio'.modeCounts)
    <2> DEFINE f == portfolio.modeCounts
               g == portfolio'.modeCounts
    <2>1. DOMAIN f = Modes /\ DOMAIN g = Modes
      BY <1>13, <1>14
    <2>2. /\ g[mode] = f[mode] + 1 /\ f[mode] \in Int
          /\ \A m \in Modes \ {mode} : g[m] = f[m]
          /\ \A m \in Modes : f[m] \in Int /\ g[m] \in Int
      BY <1>13, <1>14
    <2>3. portfolio.open = SumFunctionOnSet(f, Modes)
      BY <2>1 DEF BooksAgree, SumFunction
    <2>4. SumFunction(g) = SumFunctionOnSet(g, Modes)
      BY <2>1 DEF SumFunction
    <2> HIDE DEF f, g
    <2>5. SumFunctionOnSet(g, Modes) = SumFunctionOnSet(f, Modes) + (g[mode] - f[mode])
      BY <2>2, RiskAssumption, SumChanged
    <2> QED BY <1>13, <1>14, <2>2, <2>3, <2>4, <2>5 DEF g
  <1>17. portfolio'.equity = Equity - SumFunction(Spent')
    <2>1. DOMAIN Spent = Known /\ DOMAIN Spent' = Known
      BY <1>4 DEF Spent
    <2>2. /\ SumFunctionOnSet(Spent', Known) = SumFunctionOnSet(Spent, Known) + t.size
          /\ SumFunctionOnSet(Spent, Known) \in Int
      BY <1>2, <1>12
    <2>3. portfolio.equity = Equity - SumFunctionOnSet(Spent, Known)
      BY <2>1 DEF BooksAgree, SumFunction
    <2>4. SumFunction(Spent') = SumFunctionOnSet(Spent', Known)
      BY <2>1 DEF SumFunction
    <2> QED BY <1>8, <1>14, <2>2, <2>3, <2>4, EquityAssumption
  <1>18. ASSUME NEW m \in Mints
         PROVE  portfolio'.exposure[m] = SumFunctionOnSet(Spent', KnownOf(m)')
    <2>1. KnownOf(m)' = KnownOf(m) /\ KnownOf(m) \in SUBSET Known
      BY <1>4 DEF KnownOf
    <2>2. portfolio.exposure[m] = SumFunctionOnSet(Spent, KnownOf(m))
      BY DEF BooksAgree
    <2>3. x \in KnownOf(m) <=> m = t.mint
      BY <1>2 DEF KnownOf
    <2>4. CASE m = t.mint
      BY <1>12, <1>13, <1>14, <2>1, <2>2, <2>3, <2>4
    <2>5. CASE m # t.mint
      BY <1>12, <1>13, <1>14, <2>1, <2>2, <2>3, <2>5
    <2> QED BY <2>4, <2>5
  <1>19. NothingEnteredAhead'
    BY <1>1, <1>2, <1>3, <1>4 DEF NothingEnteredAhead
  <1> QED BY <1>15, <1>16, <1>17, <1>18, <1>19 DEF BooksAgree

\* Nothing else touches trades, entries or the portfolio.
LEMMA RestLeavesBooks ==
  ASSUME BooksAgree, NothingEnteredAhead, UNCHANGED <<chain, portfolio, entries>>
  PROVE  BooksAgree' /\ NothingEnteredAhead'
  <1>1. /\ Known' = Known /\ Spent' = Spent /\ \A m : KnownOf(m)' = KnownOf(m)
    BY DEF Known, Spent, KnownOf, TradeOf
  <1> QED BY <1>1 DEF BooksAgree, NothingEnteredAhead

\* Equity, positions, exposures and mode counts tell the same story after any number of
\* trades, entries and repetitions of an entry.
THEOREM BooksHold == Spec => []BooksAgree
  <1>1. Init => BooksAgree /\ NothingEnteredAhead
    <2> SUFFICES ASSUME Init PROVE BooksAgree /\ NothingEnteredAhead
      OBVIOUS
    <2>1. Known = {}
      <3> SUFFICES ASSUME NEW x \in Known PROVE FALSE
        OBVIOUS
      <3>1. PICK w \in Wallets, n \in Nat : n \in 1..MaxTrades[w] /\ x = <<w, n>>
        BY IdParts DEF Known
      <3>2. x[1] = w /\ x[2] = n /\ n >= 1
        BY <3>1
      <3>3. n <= Len(chain[w]) /\ chain[w] = <<>>
        BY <3>2 DEF Known, Init
      <3> QED BY <3>2, <3>3
    <2>2. SumFunctionOnSet(entries, Known) = 0
      BY <2>1, SumOfNothing
    <2>3. SumFunction(Spent) = 0
      <3>1. DOMAIN Spent = {}
        BY <2>1 DEF Spent
      <3> QED BY <3>1, SumOfNothing DEF SumFunction
    <2>4. \A m : SumFunctionOnSet(Spent, KnownOf(m)) = 0
      <3>1. \A m : KnownOf(m) = {}
        BY <2>1 DEF KnownOf
      <3> QED BY <3>1, SumOfNothing
    <2>5. SumFunction(portfolio.modeCounts) = 0
      <3>1. portfolio.modeCounts = [m \in Modes |-> 0]
        BY DEF Init
      <3>2. SumFunctionOnSet([m \in Modes |-> 0], Modes) = 0
        BY RiskAssumption, SumOfZeros
      <3> QED BY <3>1, <3>2 DEF SumFunction
    <2>6. /\ portfolio.open = 0 /\ portfolio.equity = Equity
          /\ \A m \in Mints : portfolio.exposure[m] = 0
      BY DEF Init
    <2>7. NothingEnteredAhead
      BY DEF Init, NothingEnteredAhead
    <2> QED BY <2>2, <2>3, <2>4, <2>5, <2>6, <2>7, EquityAssumption DEF BooksAgree
  <1>2. TypeInv /\ BooksAgree /\ NothingEnteredAhead /\ [Next]_vars
          => BooksAgree' /\ NothingEnteredAhead'
    <2> SUFFICES ASSUME TypeInv, BooksAgree, NothingEnteredAhead, [Next]_vars
                 PROVE  BooksAgree' /\ NothingEnteredAhead'
      OBVIOUS
    <2>1. CASE \E w \in Wallets, t \in Trades : WalletTrades(w, t)
      BY <2>1, NewTradeIsFree
    <2>2. CASE \E n \in batch, mode \in Modes : Enter(n, mode)
      BY <2>2, EntryIsBooked
    <2>3. CASE UNCHANGED <<chain, portfolio, entries>>
      BY <2>3, RestLeavesBooks
    <2>4. \/ \E w \in Wallets, t \in Trades : WalletTrades(w, t)
          \/ \E n \in batch, mode \in Modes : Enter(n, mode)
          \/ UNCHANGED <<chain, portfolio, entries>>
      BY DEF Next, ProcessTrade, PollFails, PollEmpty, Poll, SignalRejected, RiskRejected,
             histories, vars
    <2> QED BY <2>1, <2>2, <2>3, <2>4
  <1>3. Spec => []TypeInv
    BY StartTypes, StepKeepsTypes, PTL DEF Spec
  <1> QED BY <1>1, <1>2, <1>3, PTL DEF Spec
=============================================================================
