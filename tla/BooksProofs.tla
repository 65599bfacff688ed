----------------------------- MODULE BooksProofs -----------------------------
(***************************************************************************)
(* Proofs about the two books of money.                                    *)
(*                                                                         *)
(* Portfolio, for every set of signals, trades, limits and number of       *)
(* crashes.  Every state the manager holds, acknowledged or wrote is       *)
(* sound: of the right type, with a cooldown exactly when there is an      *)
(* expiry, the peak no lower than the bankroll, and the cooldown on        *)
(* whenever the day's loss is past the limit.  Each of them is booked too: *)
(* its money and its tables are those of its positions.  A readable        *)
(* checkpoint holds the acknowledged state unless the last save was        *)
(* swallowed.                                                              *)
(*                                                                         *)
(* StateReconciler, the balance watchdog, for every threshold, interval    *)
(* and set of trades.                                                      *)
(***************************************************************************)
EXTENDS Portfolio, StateReconciler, Sums

Sound(state) ==
  /\ WellFormed(state)
  /\ state.peak >= state.bankroll
  /\ LossLimitHit(state) => state.cooldown

SoundInv ==
  /\ Sound(st) /\ Sound(acked)
  /\ file \in {NoFile, Torn} \/ Sound(file)

\* A readable checkpoint that was not left behind holds what was acknowledged.
SavedInv == ~missed /\ file # Torn => Loaded(file) = acked

Control ==
  /\ phase \in {"idle", "save", "write", "down"}
  /\ now \in Time /\ bought \subseteq Signals /\ missed \in BOOLEAN /\ crashes \in 0..Crashes

-----------------------------------------------------------------------------
(* The pure transitions keep a state sound.                                *)

LEMMA InitialSound == Sound(InitialState)
  <1>1. InitialState \in States
    BY MoneyAssumption DEF InitialState, States
  <1>2. InitialState.cooldown <=> InitialState.until # NoTime
    BY DEF InitialState
  <1>3. InitialState.peak >= InitialState.bankroll
    BY MoneyAssumption DEF InitialState
  <1>4. ~LossLimitHit(InitialState)
    BY LimitsAssumption DEF InitialState, LossLimitHit
  <1> QED BY <1>1, <1>2, <1>3, <1>4 DEF Sound, WellFormed

\* update_cooldown makes a well-formed state sound.
LEMMA UpdateCooldownSound ==
  ASSUME NEW state, WellFormed(state), state.peak >= state.bankroll, now \in Nat
  PROVE  Sound(UpdateCooldown(state))
  <1>1. state \in States /\ (state.cooldown <=> state.until # NoTime)
    BY DEF WellFormed
  <1>2. now + Duration \in Nat /\ now + Duration # NoTime
    BY LimitsAssumption, TimeAssumption
  <1>3. CASE LossLimitHit(state) /\ ~state.cooldown
    <2>1. UpdateCooldown(state) = Cooled(state, TRUE, now + Duration)
      BY <1>3 DEF UpdateCooldown
    <2> DEFINE cooled == Cooled(state, TRUE, now + Duration)
    <2>2. cooled \in States
      BY <1>1, <1>2 DEF Cooled, States
    <2>3. cooled.cooldown /\ cooled.until # NoTime
      BY <1>2 DEF Cooled
    <2>4. cooled.peak >= cooled.bankroll
      BY DEF Cooled
    <2> QED BY <2>1, <2>2, <2>3, <2>4 DEF Sound, WellFormed
  <1>4. CASE ~LossLimitHit(state) /\ state.cooldown /\ now >= state.until
    <2>1. UpdateCooldown(state) = Cooled(state, FALSE, NoTime)
      BY <1>4 DEF UpdateCooldown
    <2> DEFINE cooled == Cooled(state, FALSE, NoTime)
    <2>2. cooled \in States
      BY <1>1 DEF Cooled, States
    <2>3. ~cooled.cooldown /\ cooled.until = NoTime
      BY DEF Cooled
    <2>4. cooled.peak >= cooled.bankroll
      BY DEF Cooled
    <2>5. ~LossLimitHit(cooled)
      BY <1>4 DEF Cooled, LossLimitHit
    <2> QED BY <2>1, <2>2, <2>3, <2>4, <2>5 DEF Sound, WellFormed
  <1>5. CASE /\ ~(LossLimitHit(state) /\ ~state.cooldown)
             /\ ~(~LossLimitHit(state) /\ state.cooldown /\ now >= state.until)
    <2>1. UpdateCooldown(state) = state
      BY <1>5 DEF UpdateCooldown
    <2> QED BY <1>5, <2>1 DEF Sound
  <1> QED BY <1>3, <1>4, <1>5

LEMMA TradeFields ==
  ASSUME NEW s \in Signals
  PROVE  Trade[s].token \in Tokens /\ Trade[s].wallet \in Wallets /\ Trade[s].size \in Nat \ {0}
  BY TradeAssumption

\* A raised exposure is an exposure table.
LEMMA RaisedTable ==
  ASSUME NEW K, NEW table \in [K -> Nat], NEW k \in K, NEW size \in Nat
  PROVE  [table EXCEPT ![k] = @ + size] \in [K -> Nat]
  OBVIOUS

LEMMA ReducedTable ==
  ASSUME NEW K, NEW table \in [K -> Nat], NEW k \in K, NEW size \in Nat
  PROVE  Reduced(table, k, size) \in [K -> Nat]
  BY DEF Reduced, MaxOf

LEMMA EntryKeeps ==
  ASSUME NEW state, Sound(state), NEW s \in Signals
  PROVE  WellFormed(AfterEntry(state, s)) /\ AfterEntry(state, s).peak >= AfterEntry(state, s).bankroll
  <1> DEFINE t == Trade[s]
  <1>1. t.token \in Tokens /\ t.wallet \in Wallets /\ t.size \in Nat \ {0}
    BY TradeFields
  <1>2. state \in States /\ (state.cooldown <=> state.until # NoTime) /\ state.peak >= state.bankroll
    BY DEF Sound, WellFormed
  <1>3. /\ [state.byToken EXCEPT ![t.token] = @ + t.size] \in [Tokens -> Nat]
        /\ [state.byWallet EXCEPT ![t.wallet] = @ + t.size] \in [Wallets -> Nat]
    <2>1. state.byToken \in [Tokens -> Nat] /\ state.byWallet \in [Wallets -> Nat]
      BY <1>2 DEF States
    <2> QED BY <1>1, <2>1, RaisedTable
  <1>4. AfterEntry(state, s) \in States
    BY <1>1, <1>2, <1>3 DEF AfterEntry, States
  <1>5. AfterEntry(state, s).cooldown <=> AfterEntry(state, s).until # NoTime
    BY <1>2 DEF AfterEntry
  <1>6. AfterEntry(state, s).peak >= AfterEntry(state, s).bankroll
    BY <1>1, <1>2 DEF AfterEntry, States
  <1> QED BY <1>4, <1>5, <1>6 DEF WellFormed

LEMMA ExitKeeps ==
  ASSUME NEW state, Sound(state), NEW s \in Signals, NEW pnl \in Int
  PROVE  WellFormed(AfterExit(state, s, pnl)) /\ AfterExit(state, s, pnl).peak >= AfterExit(state, s, pnl).bankroll
  <1> DEFINE t == Trade[s]
             bankroll == state.bankroll + Returned(s, pnl)
  <1>1. t.token \in Tokens /\ t.wallet \in Wallets /\ t.size \in Nat \ {0}
    BY TradeFields
  <1>2. state \in States /\ (state.cooldown <=> state.until # NoTime)
    BY DEF Sound, WellFormed
  <1>3. bankroll \in Int
    BY <1>1, <1>2 DEF Returned, States
  <1>4. PeakAfter(state.peak, bankroll) \in Int /\ PeakAfter(state.peak, bankroll) >= bankroll
    BY <1>2, <1>3 DEF PeakAfter, MaxOf, States
  <1>5. /\ Reduced(state.byToken, t.token, t.size) \in [Tokens -> Nat]
        /\ Reduced(state.byWallet, t.wallet, t.size) \in [Wallets -> Nat]
    <2>1. state.byToken \in [Tokens -> Nat] /\ state.byWallet \in [Wallets -> Nat]
      BY <1>2 DEF States
    <2> QED BY <1>1, <2>1, ReducedTable
  <1>6. AfterExit(state, s, pnl) \in States
    BY <1>2, <1>3, <1>4, <1>5 DEF AfterExit, States
  <1>7. AfterExit(state, s, pnl).cooldown <=> AfterExit(state, s, pnl).until # NoTime
    BY <1>2 DEF AfterExit
  <1>8. AfterExit(state, s, pnl).peak >= AfterExit(state, s, pnl).bankroll
    BY <1>4 DEF AfterExit
  <1> QED BY <1>6, <1>7, <1>8 DEF WellFormed

LEMMA NewDaySound ==
  ASSUME NEW state, Sound(state)
  PROVE  Sound(NewDay(state))
  <1>1. state \in States /\ (state.cooldown <=> state.until # NoTime) /\ state.peak >= state.bankroll
    BY DEF Sound, WellFormed
  <1>2. NewDay(state) \in States
    BY <1>1 DEF NewDay, States
  <1>3. NewDay(state).cooldown <=> NewDay(state).until # NoTime
    BY <1>1 DEF NewDay
  <1>4. NewDay(state).peak >= NewDay(state).bankroll
    BY <1>1 DEF NewDay
  <1>5. ~LossLimitHit(NewDay(state))
    BY LimitsAssumption DEF NewDay, LossLimitHit
  <1> QED BY <1>2, <1>3, <1>4, <1>5 DEF Sound, WellFormed

LEMMA LoadedSound ==
  ASSUME SoundInv, file # Torn
  PROVE  Sound(Loaded(file))
  BY InitialSound DEF SoundInv, Loaded

-----------------------------------------------------------------------------
(* The invariants.                                                         *)

LEMMA ControlKept ==
  ASSUME Control, [Next]_vars
  PROVE  Control'
  <1>1. ASSUME NEW s \in Signals, OnEntry(s)
        PROVE  Control'
    BY <1>1 DEF Control, OnEntry
  <1>2. ASSUME NEW s \in Signals, NEW pnl \in Pnls, OnExit(s, pnl)
        PROVE  Control'
    BY <1>2 DEF Control, OnExit
  <1>3. CASE ResetDailyPnl BY <1>3 DEF Control, ResetDailyPnl
  <1>4. CASE Truncate      BY <1>4 DEF Control, Truncate
  <1>5. CASE Write         BY <1>5 DEF Control, Write
  <1>6. CASE SaveFails     BY <1>6 DEF Control, SaveFails
  <1>7. CASE Crash
    BY <1>7, FaultAssumption DEF Control, Crash
  <1>8. CASE Restart       BY <1>8 DEF Control, Restart
  <1>9. CASE Advance
    BY <1>9, TimeAssumption DEF Control, Advance, Time
  <1>10. CASE UNCHANGED vars BY <1>10 DEF Control, vars
  <1> QED
    BY <1>1, <1>2, <1>3, <1>4, <1>5, <1>6, <1>7, <1>8, <1>9, <1>10 DEF Next

LEMMA SoundKept ==
  ASSUME Control, SoundInv, [Next]_vars
  PROVE  SoundInv'
  <1>0. now \in Nat
    BY TimeAssumption DEF Control, Time
  <1>a. Sound(st) /\ Sound(acked) /\ (file \in {NoFile, Torn} \/ Sound(file))
    BY DEF SoundInv
  <1>b. ASSUME Sound(st'), acked' = acked, file' = file
        PROVE  SoundInv'
    BY <1>a, <1>b DEF SoundInv
  <1>1. ASSUME NEW s \in Signals, OnEntry(s)
        PROVE  SoundInv'
    <2>1. st' = UpdateCooldown(AfterEntry(st, s)) /\ acked' = acked /\ file' = file
      BY <1>1 DEF OnEntry
    <2>2. Sound(UpdateCooldown(AfterEntry(st, s)))
      BY <1>0, <1>a, EntryKeeps, UpdateCooldownSound
    <2> QED BY <1>b, <2>1, <2>2
  <1>2. ASSUME NEW s \in Signals, NEW pnl \in Pnls, OnExit(s, pnl)
        PROVE  SoundInv'
    <2>1. st' = UpdateCooldown(AfterExit(st, s, pnl)) /\ acked' = acked /\ file' = file
      BY <1>2 DEF OnExit
    <2>2. pnl \in Int
      BY MoneyAssumption
    <2>3. Sound(UpdateCooldown(AfterExit(st, s, pnl)))
      BY <1>0, <1>a, <2>2, ExitKeeps, UpdateCooldownSound
    <2> QED BY <1>b, <2>1, <2>3
  <1>3. CASE ResetDailyPnl
    <2>1. st' = NewDay(st) /\ acked' = acked /\ file' = file
      BY <1>3 DEF ResetDailyPnl
    <2> QED BY <1>a, <1>b, <2>1, NewDaySound
  <1>4. CASE Truncate
    BY <1>4, <1>a DEF SoundInv, Truncate
  <1>5. CASE Write
    BY <1>5, <1>a DEF SoundInv, Write
  <1>6. CASE SaveFails
    BY <1>6, <1>a DEF SoundInv, SaveFails
  <1>7. CASE Crash
    BY <1>7, <1>a DEF SoundInv, Crash
  <1>8. CASE Restart
    <2>1. file # Torn /\ st' = Loaded(file) /\ acked' = acked /\ file' = file
      BY <1>8 DEF Restart
    <2> QED BY <1>b, <2>1, LoadedSound
  <1>9. CASE Advance
    BY <1>9, <1>a DEF SoundInv, Advance
  <1>10. CASE UNCHANGED vars
    BY <1>10, <1>a DEF SoundInv, vars
  <1> QED
    BY <1>1, <1>2, <1>3, <1>4, <1>5, <1>6, <1>7, <1>8, <1>9, <1>10 DEF Next

\* The file changes only when it is truncated and when it is written.
LEMMA SavedKept ==
  ASSUME SoundInv, SavedInv, [Next]_vars
  PROVE  SavedInv'
  <1>1. ASSUME file' = file, acked' = acked, missed' = missed
        PROVE  SavedInv'
    BY <1>1 DEF SavedInv, Loaded
  <1>2. CASE Truncate BY <1>2 DEF Truncate, SavedInv
  <1>3. CASE Write
    <2>1. file' = st /\ acked' = st
      BY <1>3 DEF Write
    <2>2. st # NoFile
      BY FileAssumption DEF SoundInv, Sound, WellFormed
    <2> QED BY <2>1, <2>2 DEF SavedInv, Loaded
  <1>4. CASE SaveFails BY <1>4 DEF SaveFails, SavedInv
  <1>5. ASSUME NEW s \in Signals, OnEntry(s)
        PROVE  SavedInv'
    BY <1>1, <1>5 DEF OnEntry
  <1>6. ASSUME NEW s \in Signals, NEW pnl \in Pnls, OnExit(s, pnl)
        PROVE  SavedInv'
    BY <1>1, <1>6 DEF OnExit
  <1>7. CASE ResetDailyPnl BY <1>1, <1>7 DEF ResetDailyPnl
  <1>8. CASE Crash         BY <1>1, <1>8 DEF Crash
  <1>9. CASE Restart       BY <1>1, <1>9 DEF Restart
  <1>10. CASE Advance      BY <1>1, <1>10 DEF Advance
  <1>11. CASE UNCHANGED vars BY <1>1, <1>11 DEF vars
  <1> QED
    BY <1>2, <1>3, <1>4, <1>5, <1>6, <1>7, <1>8, <1>9, <1>10, <1>11 DEF Next

LEMMA InvHolds == Spec => [](Control /\ SoundInv /\ SavedInv)
  <1>1. Init => Control /\ SoundInv /\ SavedInv
    <2> SUFFICES ASSUME Init PROVE Control /\ SoundInv /\ SavedInv
      OBVIOUS
    <2>1. Control
      <3>1. now \in Time
        BY TimeAssumption DEF Init, Time
      <3>2. crashes \in 0..Crashes
        BY FaultAssumption DEF Init
      <3>3. phase \in {"idle", "save", "write", "down"} /\ bought \subseteq Signals /\ missed \in BOOLEAN
        BY DEF Init
      <3> QED BY <3>1, <3>2, <3>3 DEF Control
    <2>2. SoundInv
      BY InitialSound DEF Init, SoundInv
    <2>3. SavedInv
      BY DEF Init, SavedInv, Loaded
    <2> QED BY <2>1, <2>2, <2>3
  <1>2. Control /\ SoundInv /\ SavedInv /\ [Next]_vars => (Control /\ SoundInv /\ SavedInv)'
    BY ControlKept, SoundKept, SavedKept
  <1> QED BY <1>1, <1>2, PTL DEF Spec

-----------------------------------------------------------------------------
(* The money in the books.  What holds of st has to hold of every state a   *)
(* restart may come back to, so it is said of a state.                      *)

InToken(state, t)  == {s \in state.positions : Trade[s].token = t}
InWallet(state, w) == {s \in state.positions : Trade[s].wallet = w}

\* A state's bankroll and tables are those of its positions.
Booked(state) ==
  /\ IsFiniteSet(state.positions)
  /\ state.bankroll + Sizes(state.positions) = Initial + state.realized
  /\ \A t \in Tokens : state.byToken[t] = Sizes(InToken(state, t))
  /\ \A w \in Wallets : state.byWallet[w] = Sizes(InWallet(state, w))

BookedInv ==
  /\ Booked(st) /\ Booked(acked)
  /\ file \in {NoFile, Torn} \/ Booked(file)

\* Only what was bought is a position, in memory and in the file: a signal that
\* is bought has none yet, also after a restart.
OpenedInv ==
  /\ st.positions \subseteq bought
  /\ file \in {NoFile, Torn} \/ file.positions \subseteq bought

\* What positions are worth: nothing when there is none, one more or one less
\* with a position more or less.
LEMMA SizesOfNone == Sizes({}) = 0
  BY SumOfNothing DEF Sizes

LEMMA SizesType ==
  ASSUME NEW P \in SUBSET Signals, IsFiniteSet(P)
  PROVE  Sizes(P) \in Nat /\ \A s \in P : Trade[s].size <= Sizes(P)
  <1> DEFINE f == [s \in Signals |-> Trade[s].size]
  <1>1. \A s \in P : f[s] = Trade[s].size /\ f[s] \in Nat
    BY TradeFields
  <1>2. Sizes(P) = SumFunctionOnSet(f, P)
    BY DEF Sizes
  <1> HIDE DEF f
  <1> QED BY <1>1, <1>2, SumOfNaturals

LEMMA SizesWith ==
  ASSUME NEW P \in SUBSET Signals, IsFiniteSet(P), NEW s \in Signals, s \notin P
  PROVE  Sizes(P \cup {s}) = Sizes(P) + Trade[s].size
  <1> DEFINE f == [x \in Signals |-> Trade[x].size]
  <1>1. \A x \in P \cup {s} : f[x] = Trade[x].size /\ f[x] \in Int
    BY TradeFields
  <1>2. Sizes(P) = SumFunctionOnSet(f, P) /\ Sizes(P \cup {s}) = SumFunctionOnSet(f, P \cup {s})
    BY DEF Sizes
  <1> HIDE DEF f
  <1> QED BY <1>1, <1>2, SumWith

LEMMA SizesWithout ==
  ASSUME NEW P \in SUBSET Signals, IsFiniteSet(P), NEW s \in P
  PROVE  Sizes(P \ {s}) = Sizes(P) - Trade[s].size
  <1> DEFINE f == [x \in Signals |-> Trade[x].size]
  <1>1. \A x \in P : f[x] = Trade[x].size /\ f[x] \in Int
    BY TradeFields
  <1>2. Sizes(P) = SumFunctionOnSet(f, P) /\ Sizes(P \ {s}) = SumFunctionOnSet(f, P \ {s})
    BY DEF Sizes
  <1> HIDE DEF f
  <1> QED BY <1>1, <1>2, SumWithout

\* The positions that a table counts under a key, Of[k] for short, when one is
\* opened or closed: the other keys' are the same.
LEMMA TableAfterEntry ==
  ASSUME NEW K, NEW table \in [K -> Nat], NEW key \in [Signals -> K],
         NEW P \in SUBSET Signals, IsFiniteSet(P), NEW s \in Signals, s \notin P,
         \A k \in K : table[k] = Sizes({x \in P : key[x] = k})
  PROVE  \A k \in K : [table EXCEPT ![key[s]] = @ + Trade[s].size][k]
                        = Sizes({x \in P \cup {s} : key[x] = k})
  <1> SUFFICES ASSUME NEW k \in K
               PROVE  [table EXCEPT ![key[s]] = @ + Trade[s].size][k]
                        = Sizes({x \in P \cup {s} : key[x] = k})
    OBVIOUS
  <1>1. CASE key[s] = k
    <2>1. {x \in P \cup {s} : key[x] = k} = {x \in P : key[x] = k} \cup {s}
      BY <1>1
    <2>2. IsFiniteSet({x \in P : key[x] = k})
      BY FS_Subset
    <2>3. Sizes({x \in P : key[x] = k} \cup {s})
            = Sizes({x \in P : key[x] = k}) + Trade[s].size
      BY <2>2, SizesWith
    <2> QED BY <1>1, <2>1, <2>3
  <1>2. CASE key[s] # k
    <2>1. {x \in P \cup {s} : key[x] = k} = {x \in P : key[x] = k}
      BY <1>2
    <2> QED BY <1>2, <2>1
  <1> QED BY <1>1, <1>2

LEMMA TableAfterExit ==
  ASSUME NEW K, NEW table \in [K -> Nat], NEW key \in [Signals -> K],
         NEW P \in SUBSET Signals, IsFiniteSet(P), NEW s \in P,
         \A k \in K : table[k] = Sizes({x \in P : key[x] = k})
  PROVE  \A k \in K : Reduced(table, key[s], Trade[s].size)[k]
                        = Sizes({x \in P \ {s} : key[x] = k})
  <1> SUFFICES ASSUME NEW k \in K
               PROVE  Reduced(table, key[s], Trade[s].size)[k]
                        = Sizes({x \in P \ {s} : key[x] = k})
    OBVIOUS
  <1>1. CASE key[s] = k
    <2> DEFINE its == {x \in P : key[x] = k}
    <2>1. {x \in P \ {s} : key[x] = k} = its \ {s} /\ s \in its
      BY <1>1
    <2>2. its \in SUBSET Signals /\ IsFiniteSet(its)
      BY FS_Subset
    <2>3. table[k] = Sizes(its)
      OBVIOUS
    <2> HIDE DEF its
    <2>4. Sizes(its \ {s}) = Sizes(its) - Trade[s].size
      BY <2>1, <2>2, SizesWithout
    <2>5. Trade[s].size <= Sizes(its) /\ Sizes(its) \in Nat /\ Trade[s].size \in Nat
      BY <2>1, <2>2, SizesType, TradeFields
    <2>6. Reduced(table, key[s], Trade[s].size)[k] = MaxOf(0, table[k] - Trade[s].size)
      BY <1>1 DEF Reduced
    <2>7. MaxOf(0, table[k] - Trade[s].size) = Sizes(its) - Trade[s].size
      BY <2>3, <2>5 DEF MaxOf
    <2> QED BY <2>1, <2>4, <2>6, <2>7
  <1>2. CASE key[s] # k
    <2>1. {x \in P \ {s} : key[x] = k} = {x \in P : key[x] = k}
      BY <1>2
    <2> QED BY <1>2, <2>1 DEF Reduced
  <1> QED BY <1>1, <1>2

\* The pure transitions keep the books.
LEMMA InitialBooked == Booked(InitialState)
  <1>1. InitialState.positions = {} /\ IsFiniteSet({})
    BY FS_EmptySet DEF InitialState
  <1>2. InitialState.bankroll + Sizes({}) = Initial + InitialState.realized
    BY SizesOfNone, MoneyAssumption DEF InitialState
  <1>3. \A t \in Tokens : InToken(InitialState, t) = {} /\ InitialState.byToken[t] = 0
    BY DEF InToken, InitialState
  <1>4. \A w \in Wallets : InWallet(InitialState, w) = {} /\ InitialState.byWallet[w] = 0
    BY DEF InWallet, InitialState
  <1> QED BY <1>1, <1>2, <1>3, <1>4, SizesOfNone DEF Booked

LEMMA EntryBooked ==
  ASSUME NEW state \in States, Booked(state), NEW s \in Signals, s \notin state.positions
  PROVE  Booked(AfterEntry(state, s))
  <1> DEFINE P == state.positions
             after == AfterEntry(state, s)
             token == [x \in Signals |-> Trade[x].token]
             wallet == [x \in Signals |-> Trade[x].wallet]
  <1>1. P \in SUBSET Signals /\ IsFiniteSet(P)
    BY DEF States, Booked
  <1>2. token \in [Signals -> Tokens] /\ wallet \in [Signals -> Wallets]
    BY TradeFields
  <1>3. /\ state.byToken \in [Tokens -> Nat] /\ state.byWallet \in [Wallets -> Nat]
        /\ state.bankroll \in Int /\ state.realized \in Int
    BY DEF States
  <1>4. /\ after.positions = P \cup {s} /\ after.realized = state.realized
        /\ after.bankroll = state.bankroll - Trade[s].size
        /\ after.byToken = [state.byToken EXCEPT ![Trade[s].token] = @ + Trade[s].size]
        /\ after.byWallet = [state.byWallet EXCEPT ![Trade[s].wallet] = @ + Trade[s].size]
    BY DEF AfterEntry
  <1>5. IsFiniteSet(after.positions)
    BY <1>1, <1>4, FS_AddElement
  <1>6. after.bankroll + Sizes(after.positions) = Initial + after.realized
    <2>1. Sizes(P \cup {s}) = Sizes(P) + Trade[s].size
      BY <1>1, SizesWith
    <2>2. state.bankroll + Sizes(P) = Initial + state.realized
      BY DEF Booked
    <2>3. Sizes(P) \in Int /\ Trade[s].size \in Int /\ Initial \in Int
      BY <1>1, SizesType, TradeFields, MoneyAssumption
    <2> QED BY <1>3, <1>4, <2>1, <2>2, <2>3
  <1>7. ASSUME NEW t \in Tokens PROVE after.byToken[t] = Sizes(InToken(after, t))
    <2>1. \A x \in Tokens : state.byToken[x] = Sizes({y \in P : token[y] = x})
      <3>1. \A x \in Tokens : InToken(state, x) = {y \in P : token[y] = x}
        BY <1>1 DEF InToken
      <3> QED BY <3>1 DEF Booked
    <2>2. InToken(after, t) = {x \in P \cup {s} : token[x] = t}
      BY <1>1, <1>4 DEF InToken
    <2>3. token[s] = Trade[s].token
      OBVIOUS
    <2> HIDE DEF token, P
    <2>4. [state.byToken EXCEPT ![token[s]] = @ + Trade[s].size][t]
            = Sizes({x \in P \cup {s} : token[x] = t})
      BY <1>1, <1>2, <1>3, <2>1, TableAfterEntry DEF P
    <2> QED BY <1>4, <2>2, <2>3, <2>4
  <1>8. ASSUME NEW w \in Wallets PROVE after.byWallet[w] = Sizes(InWallet(after, w))
    <2>1. \A x \in Wallets : state.byWallet[x] = Sizes({y \in P : wallet[y] = x})
      <3>1. \A x \in Wallets : InWallet(state, x) = {y \in P : wallet[y] = x}
        BY <1>1 DEF InWallet
      <3> QED BY <3>1 DEF Booked
    <2>2. InWallet(after, w) = {x \in P \cup {s} : wallet[x] = w}
      BY <1>1, <1>4 DEF InWallet
    <2>3. wallet[s] = Trade[s].wallet
      OBVIOUS
    <2> HIDE DEF wallet, P
    <2>4. [state.byWallet EXCEPT ![wallet[s]] = @ + Trade[s].size][w]
            = Sizes({x \in P \cup {s} : wallet[x] = w})
      BY <1>1, <1>2, <1>3, <2>1, TableAfterEntry DEF P
    <2> QED BY <1>4, <2>2, <2>3, <2>4
  <1> QED BY <1>5, <1>6, <1>7, <1>8 DEF Booked

LEMMA ExitBooked ==
  ASSUME NEW state \in States, Booked(state), NEW s \in state.positions, NEW pnl \in Int
  PROVE  Booked(AfterExit(state, s, pnl))
  <1> DEFINE P == state.positions
             after == AfterExit(state, s, pnl)
             token == [x \in Signals |-> Trade[x].token]
             wallet == [x \in Signals |-> Trade[x].wallet]
  <1>1. P \in SUBSET Signals /\ IsFiniteSet(P) /\ s \in Signals
    BY DEF States, Booked
  <1>2. token \in [Signals -> Tokens] /\ wallet \in [Signals -> Wallets]
    BY TradeFields
  <1>3. /\ state.byToken \in [Tokens -> Nat] /\ state.byWallet \in [Wallets -> Nat]
        /\ state.bankroll \in Int /\ state.realized \in Int
    BY DEF States
  <1>4. /\ after.positions = P \ {s} /\ after.realized = state.realized + pnl
        /\ after.bankroll = state.bankroll + (Trade[s].size + pnl)
        /\ after.byToken = Reduced(state.byToken, Trade[s].token, Trade[s].size)
        /\ after.byWallet = Reduced(state.byWallet, Trade[s].wallet, Trade[s].size)
    BY DEF AfterExit, Returned
  <1>5. IsFiniteSet(after.positions)
    BY <1>1, <1>4, FS_RemoveElement
  <1>6. after.bankroll + Sizes(after.positions) = Initial + after.realized
    <2>1. Sizes(P \ {s}) = Sizes(P) - Trade[s].size
      BY <1>1, SizesWithout
    <2>2. state.bankroll + Sizes(P) = Initial + state.realized
      BY DEF Booked
    <2>3. Sizes(P) \in Int /\ Trade[s].size \in Int /\ Initial \in Int
      BY <1>1, SizesType, TradeFields, MoneyAssumption
    <2> QED BY <1>3, <1>4, <2>1, <2>2, <2>3
  <1>7. ASSUME NEW t \in Tokens PROVE after.byToken[t] = Sizes(InToken(after, t))
    <2>1. \A x \in Tokens : state.byToken[x] = Sizes({y \in P : token[y] = x})
      <3>1. \A x \in Tokens : InToken(state, x) = {y \in P : token[y] = x}
        BY <1>1 DEF InToken
      <3> QED BY <3>1 DEF Booked
    <2>2. InToken(after, t) = {x \in P \ {s} : token[x] = t}
      BY <1>1, <1>4 DEF InToken
    <2>3. token[s] = Trade[s].token
      BY <1>1
    <2>4. s \in P
      OBVIOUS
    <2> HIDE DEF token, P
    <2>5. Reduced(state.byToken, token[s], Trade[s].size)[t] = Sizes({x \in P \ {s} : token[x] = t})
      BY <1>1, <1>2, <1>3, <2>1, <2>4, TableAfterExit
    <2> QED BY <1>4, <2>2, <2>3, <2>5
  <1>8. ASSUME NEW w \in Wallets PROVE after.byWallet[w] = Sizes(InWallet(after, w))
    <2>1. \A x \in Wallets : state.byWallet[x] = Sizes({y \in P : wallet[y] = x})
      <3>1. \A x \in Wallets : InWallet(state, x) = {y \in P : wallet[y] = x}
        BY <1>1 DEF InWallet
      <3> QED BY <3>1 DEF Booked
    <2>2. InWallet(after, w) = {x \in P \ {s} : wallet[x] = w}
      BY <1>1, <1>4 DEF InWallet
    <2>3. wallet[s] = Trade[s].wallet
      BY <1>1
    <2>4. s \in P
      OBVIOUS
    <2> HIDE DEF wallet, P
    <2>5. Reduced(state.byWallet, wallet[s], Trade[s].size)[w] = Sizes({x \in P \ {s} : wallet[x] = w})
      BY <1>1, <1>2, <1>3, <2>1, <2>4, TableAfterExit
    <2> QED BY <1>4, <2>2, <2>3, <2>5
  <1> QED BY <1>5, <1>6, <1>7, <1>8 DEF Booked

\* The cooldown and the new day leave money, positions and tables alone.
LEMMA CooldownBooked ==
  ASSUME NEW state
  PROVE  /\ Booked(state) => Booked(UpdateCooldown(state)) /\ Booked(NewDay(state))
         /\ UpdateCooldown(state).positions = state.positions
         /\ NewDay(state).positions = state.positions
  <1>1. ASSUME NEW on, NEW until
        PROVE  /\ Booked(state) => Booked(Cooled(state, on, until))
               /\ Cooled(state, on, until).positions = state.positions
    BY DEF Cooled, Booked, InToken, InWallet
  <1>2. /\ Booked(state) => Booked(NewDay(state))
        /\ NewDay(state).positions = state.positions
    BY DEF NewDay, Booked, InToken, InWallet
  <1>3. \/ UpdateCooldown(state) = state
        \/ \E on, until : UpdateCooldown(state) = Cooled(state, on, until)
    BY DEF UpdateCooldown
  <1> QED BY <1>1, <1>2, <1>3

LEMMA BookedKept ==
  ASSUME Control, SoundInv, BookedInv, OpenedInv, [Next]_vars
  PROVE  BookedInv' /\ OpenedInv'
  <1>a. /\ Booked(st) /\ Booked(acked) /\ (file \in {NoFile, Torn} \/ Booked(file))
        /\ st \in States
    BY DEF BookedInv, SoundInv, Sound, WellFormed
  <1>b. ASSUME Booked(st'), acked' = acked, file' = file
        PROVE  BookedInv'
    BY <1>a, <1>b DEF BookedInv
  <1>1. ASSUME NEW s \in Signals, OnEntry(s)
        PROVE  BookedInv' /\ OpenedInv'
    <2>1. /\ st' = UpdateCooldown(AfterEntry(st, s)) /\ acked' = acked /\ file' = file
          /\ s \notin bought /\ bought' = bought \cup {s}
      BY <1>1 DEF OnEntry
    <2>2. s \notin st.positions
      BY <2>1 DEF OpenedInv
    <2>3. Booked(st')
      BY <1>a, <2>1, <2>2, EntryBooked, CooldownBooked
    <2>4. st'.positions = st.positions \cup {s}
      BY <2>1, CooldownBooked DEF AfterEntry
    <2>5. OpenedInv'
      BY <2>1, <2>4 DEF OpenedInv
    <2> QED BY <1>b, <2>1, <2>3, <2>5
  <1>2. ASSUME NEW s \in Signals, NEW pnl \in Pnls, OnExit(s, pnl)
        PROVE  BookedInv' /\ OpenedInv'
    <2>1. /\ st' = UpdateCooldown(AfterExit(st, s, pnl)) /\ acked' = acked /\ file' = file
          /\ s \in st.positions /\ bought' = bought
      BY <1>2 DEF OnExit
    <2>2. pnl \in Int
      BY MoneyAssumption
    <2>3. Booked(st')
      BY <1>a, <2>1, <2>2, ExitBooked, CooldownBooked
    <2>4. st'.positions = st.positions \ {s}
      BY <2>1, CooldownBooked DEF AfterExit
    <2>5. OpenedInv'
      BY <2>1, <2>4 DEF OpenedInv
    <2> QED BY <1>b, <2>1, <2>3, <2>5
  <1>3. CASE ResetDailyPnl
    <2>1. st' = NewDay(st) /\ acked' = acked /\ file' = file /\ bought' = bought
      BY <1>3 DEF ResetDailyPnl
    <2>2. Booked(st') /\ st'.positions = st.positions
      BY <1>a, <2>1, CooldownBooked
    <2> QED BY <1>b, <2>1, <2>2 DEF OpenedInv
  <1>4. CASE Truncate
    BY <1>4, <1>a DEF Truncate, BookedInv, OpenedInv
  <1>5. CASE Write
    BY <1>5, <1>a DEF Write, BookedInv, OpenedInv
  <1>6. CASE SaveFails
    BY <1>6, <1>a DEF SaveFails, BookedInv, OpenedInv
  <1>7. CASE Crash
    BY <1>7, <1>a DEF Crash, BookedInv, OpenedInv
  <1>8. CASE Restart
    <2>1. /\ file # Torn /\ st' = Loaded(file) /\ acked' = acked /\ file' = file
          /\ bought' = bought
      BY <1>8 DEF Restart
    <2>2. InitialState.positions = {}
      BY DEF InitialState
    <2>3. Booked(st') /\ st'.positions \subseteq bought
      BY <1>a, <2>1, <2>2, InitialBooked DEF Loaded, OpenedInv
    <2> QED BY <1>b, <2>1, <2>3 DEF OpenedInv
  <1>9. CASE Advance
    BY <1>9, <1>a DEF Advance, BookedInv, OpenedInv
  <1>10. CASE UNCHANGED vars
    BY <1>10, <1>a DEF vars, BookedInv, OpenedInv
  <1> QED
    BY <1>1, <1>2, <1>3, <1>4, <1>5, <1>6, <1>7, <1>8, <1>9, <1>10 DEF Next

LEMMA BookedHolds == Spec => [](BookedInv /\ OpenedInv)
  <1>1. Init => BookedInv /\ OpenedInv
    <2>1. InitialState.positions = {}
      BY DEF InitialState
    <2> QED BY <2>1, InitialBooked DEF Init, BookedInv, OpenedInv
  <1>2. Control /\ SoundInv /\ BookedInv /\ OpenedInv /\ [Next]_vars
          => BookedInv' /\ OpenedInv'
    BY BookedKept
  <1> QED BY <1>1, <1>2, InvHolds, PTL DEF Spec

-----------------------------------------------------------------------------

\* The books, the checkpoint and the manager's control keep their types, and a
\* cooldown is on exactly while it has an expiry.
THEOREM TypeCorrect == Spec => []TypeOK
  <1>1. Control /\ SoundInv => TypeOK
    BY DEF Control, SoundInv, Sound, TypeOK
  <1> QED BY <1>1, InvHolds, PTL

\* The peak never falls below the bankroll, across exits, failed saves, crashes
\* and restarts.
THEOREM PeakHolds == Spec => []PeakIsHighWater
  <1>1. SoundInv => PeakIsHighWater
    BY DEF SoundInv, Sound, PeakIsHighWater
  <1> QED BY <1>1, InvHolds, PTL

\* A day's loss past the limit always has the cooldown on, also in a state that
\* comes back from a checkpoint.
THEOREM LossCools == Spec => []LossMeansCooldown
  <1>1. SoundInv => LossMeansCooldown
    BY DEF SoundInv, Sound, LossMeansCooldown
  <1> QED BY <1>1, InvHolds, PTL

\* A restart comes back with the last acknowledged state unless the last save
\* was swallowed, whatever the number and the moments of the crashes.
THEOREM AckedSurvives == Spec => RestartKeepsAcked
  <1>1. SavedInv /\ [Next]_vars
          => [phase = "down" /\ phase' = "idle" /\ ~missed => st' \in {acked, st}]_vars
    <2> SUFFICES ASSUME SavedInv, Next, phase = "down", phase' = "idle", ~missed
                 PROVE  st' \in {acked, st}
      OBVIOUS
    <2>1. CASE Restart
      BY <2>1 DEF Restart, SavedInv
    <2>2. CASE Advance
      BY <2>2 DEF Advance
    <2> QED
      BY <2>1, <2>2 DEF Next, OnEntry, OnExit, ResetDailyPnl, Truncate, Write, SaveFails, Crash
  <1> QED BY <1>1, InvHolds, PTL DEF Spec, RestartKeepsAcked

\* Money is neither made nor lost in the books, whatever the fills, the swallowed
\* saves, the crashes and the checkpoints a restart comes back to.
THEOREM EquityHolds == Spec => []EquityConserved
  <1>1. BookedInv => EquityConserved
    BY DEF BookedInv, Booked, EquityConserved
  <1> QED BY <1>1, BookedHolds, PTL

\* The exposure tables, which entries and exits move by increments and an exit
\* clips at zero, are at every moment the sums over the open positions.
THEOREM ExposureHolds == Spec => []ExposureMatchesPositions
  <1>1. BookedInv => ExposureMatchesPositions
    BY DEF BookedInv, Booked, InToken, InWallet, ExposureMatchesPositions
  <1> QED BY <1>1, BookedHolds, PTL


-----------------------------------------------------------------------------
(* The balance watchdog.                                                   *)

LEMMA PowerIsNat == ASSUME NEW k \in 0..5 PROVE 2^k \in Nat
<1>1. 2^0 = 1 /\ 2^1 = 2 /\ 2^2 = 4 /\ 2^3 = 8 /\ 2^4 = 16 /\ 2^5 = 32
  OBVIOUS
<1>2. 2^k = 1 \/ 2^k = 2 \/ 2^k = 4 \/ 2^k = 8 \/ 2^k = 16 \/ 2^k = 32
  <2>1. k = 0 \/ k = 1 \/ k = 2 \/ k = 3 \/ k = 4 \/ k = 5
    OBVIOUS
  <2> QED
    BY <1>1, <2>1, Zenon
<1> QED
  BY <1>2

\* The backoff is a number of ticks: its exponent is capped at five.
LEMMA BackoffIsNat == ASSUME NEW n \in Nat PROVE Backoff(n) \in Nat
<1> DEFINE k == IF n < 5 THEN n ELSE 5
<1>1. k \in 0..5
  OBVIOUS
<1>2. Backoff(n) = IF Base * 2^k < MaxDelay THEN Base * 2^k ELSE MaxDelay
  BY DEF Backoff
<1> HIDE DEF k
<1>3. 2^k \in Nat
  BY <1>1, PowerIsNat
<1>4. Base * 2^k \in Nat
  BY <1>3, ConfigAssumption
<1> QED
  BY <1>2, <1>4, ConfigAssumption

LEMMA SucceedType == ASSUME Succeed PROVE errors' \in Nat /\ delay' \in Nat /\ pc' \in Places
BY ConfigAssumption DEF Succeed, Places

LEMMA FailType ==
  ASSUME Fail, errors \in Nat
  PROVE  errors' \in Nat /\ delay' \in Nat /\ pc' \in Places
BY BackoffIsNat DEF Fail, Places

LEMMA TypeStep == SrTypeOK /\ [SrNext]_srVars => SrTypeOK'
<1> SUFFICES ASSUME SrTypeOK, [SrNext]_srVars PROVE SrTypeOK'
  OBVIOUS
<1> USE DEF SrTypeOK
<1>1. ASSUME NEW d \in Amounts, Land(d) PROVE SrTypeOK'
  <2>1. d \in Int
    BY BalanceAssumption
  <2> QED
    BY <1>1, <2>1 DEF Land
<1>2. ASSUME NEW t \in unbooked, Book(t) PROVE SrTypeOK'
  <2>1. t.amount \in Int
    BY BalanceAssumption
  <2> QED
    BY <1>2, <2>1 DEF Book
<1>3. ASSUME NEW t \in unbooked, Miss(t) PROVE SrTypeOK'
  BY <1>3 DEF Miss
<1>4. CASE LoopHead
  BY <1>4 DEF LoopHead, market, Places
<1>5. CASE NodeReads
  BY <1>5 DEF NodeReads, market
<1>6. CASE Agree
  BY <1>6, SucceedType DEF Agree, market
<1>7. CASE Adjust
  <2>1. Delta \in Int /\ answer \in Int
    BY <1>7 DEF Adjust, Delta, LocalBalance
  <2>2. local' \in Int /\ adjusted' \in Int
    BY <1>7, <2>1 DEF Adjust, AdjustedBalance
  <2> QED
    BY <1>7, <2>2 DEF Adjust, Places
<1>8. CASE AlertDelivered
  BY <1>8, SucceedType DEF AlertDelivered, market
<1>9. CASE AlertFails
  <2>1. faults' \in Nat
    BY <1>9 DEF AlertFails
  <2> QED
    BY <1>9, <2>1, FailType DEF AlertFails, market
<1>10. CASE Sleep
  BY <1>10 DEF Sleep, market, Places
<1>11. CASE SleepInBackoff
  BY <1>11 DEF SleepInBackoff, market, Places
<1>12. CASE RpcFails
  BY <1>12, FailType DEF RpcFails, market
<1>13. CASE RequestShutdown
  BY <1>13 DEF RequestShutdown, market
<1>14. CASE UNCHANGED srVars
  BY <1>14 DEF srVars
<1> QED
  BY <1>1, <1>2, <1>3, <1>4, <1>5, <1>6, <1>7, <1>8, <1>9, <1>10, <1>11, <1>12, <1>13, <1>14
  DEF SrNext, Worker

LEMMA BooksStep == SrTypeOK /\ BooksExplained /\ [SrNext]_srVars => BooksExplained'
<1> SUFFICES ASSUME SrTypeOK, BooksExplained, [SrNext]_srVars PROVE BooksExplained'
  OBVIOUS
<1> USE DEF SrTypeOK, BooksExplained
<1>1. ASSUME NEW d \in Amounts, Land(d) PROVE BooksExplained'
  BY <1>1 DEF Land
<1>2. ASSUME NEW t \in unbooked, Book(t) PROVE BooksExplained'
  <2>1. t.amount \in Int
    BY BalanceAssumption
  <2> QED
    BY <1>2, <2>1, BalanceAssumption DEF Book
<1>3. ASSUME NEW t \in unbooked, Miss(t) PROVE BooksExplained'
  BY <1>3 DEF Miss
<1>4. CASE Adjust
  <2>1. Delta \in Int /\ answer \in Int
    BY <1>4 DEF Adjust, Delta, LocalBalance
  <2>2. CASE DryRun
    BY <1>4, <2>2 DEF Adjust
  <2>3. CASE ~DryRun
    <3>1. local' = answer /\ adjusted' = adjusted + (answer - local) /\ UNCHANGED booked
      BY <1>4, <2>3 DEF Adjust, AdjustedBalance, Delta, LocalBalance
    <3> QED
      BY <2>1, <3>1, BalanceAssumption
  <2> QED
    BY <2>2, <2>3
<1>5. CASE LoopHead \/ NodeReads \/ Agree
  BY <1>5 DEF LoopHead, NodeReads, Agree, market
<1>6. CASE AlertDelivered \/ AlertFails
  BY <1>6 DEF AlertDelivered, AlertFails, market
<1>7. CASE Sleep \/ SleepInBackoff
  BY <1>7 DEF Sleep, SleepInBackoff, market
<1>8. CASE RpcFails \/ RequestShutdown
  BY <1>8 DEF RpcFails, RequestShutdown, market
<1>9. CASE UNCHANGED srVars
  BY <1>9 DEF srVars
<1> QED
  BY <1>1, <1>2, <1>3, <1>4, <1>5, <1>6, <1>7, <1>8, <1>9 DEF SrNext, Worker

LEMMA InitHolds == SrInit => SrTypeOK /\ BooksExplained
<1> SUFFICES ASSUME SrInit PROVE SrTypeOK /\ BooksExplained
  OBVIOUS
<1>1. /\ onchain \in Int /\ local \in Int /\ booked \in Int /\ adjusted \in Int
      /\ errors \in Nat /\ delay \in Nat /\ trades \in Nat /\ faults \in Nat
  BY BalanceAssumption DEF SrInit
<1>2. unbooked \subseteq [nth : Nat, amount : Amounts] /\ pc \in Places /\ shutdown \in BOOLEAN
  BY DEF SrInit, Places
<1>3. answer \in Int \cup {NoAnswer}
  BY DEF SrInit
<1>4. BooksExplained
  BY BalanceAssumption DEF SrInit, BooksExplained
<1> QED
  BY <1>1, <1>2, <1>3, <1>4 DEF SrTypeOK

\* Balances, answers, delays and the worker's place keep their types; in
\* particular the backoff always is a number of ticks.
THEOREM SrTypeCorrect == SrSpec => []SrTypeOK
<1> QED
  BY InitHolds, TypeStep, PTL DEF SrSpec

\* Every lamport of the local balance is explained by the initial balance, a
\* booked trade or a recorded adjustment, whatever is booked during the RPC call.
THEOREM BalanceExplained == SrSpec => []BooksExplained
<1> QED
  BY InitHolds, TypeStep, BooksStep, PTL DEF SrSpec
=============================================================================
