------------------------- MODULE OrderManagerProofs -------------------------
(***************************************************************************)
(* Proofs about the order manager, for every set of signals, mints, prices *)
(* and brackets and every capacity, by itself and in the loop that the     *)
(* kill switch guards.                                                     *)
(***************************************************************************)
EXTENDS KillSwitch, FiniteSetTheorems, TLAPS

\* A signal whose position is held, or that was never delivered, has not been
\* closed.
Unclosed ==
  /\ \A s \in DOMAIN positions : closes[s] = 0 /\ s \in handled
  /\ \A s \in Signals \ handled : closes[s] = 0

CloseInv == TypeOK /\ Unclosed /\ CloseOnce

\* The book stays finite, which makes its size meaningful.
CapacityInv == IsFiniteSet(DOMAIN positions) /\ CapacityRespected

-----------------------------------------------------------------------------
(* Types.                                                                  *)

\* An action that closes a whole position is well formed.
LEMMA FullCloseType ==
  ASSUME TypeOK, NEW s \in DOMAIN positions, NEW reason \in Reasons, NEW size \in Nat
  PROVE  FullClose(s, reason, size) \in Action
BY DEF TypeOK, FullClose, Action, Position

\* on_tick names one of the three reasons.
LEMMA ReasonType ==
  ASSUME NEW s, NEW price, NEW side
  PROVE  ReasonOf(s, price, side) \in Reasons
BY Zenon DEF ReasonOf, Reasons

\* Every step keeps the types, with fills delivered again or not.
LEMMA TypeStep == TypeOK /\ [OmNext]_omVars => TypeOK'
<1> SUFFICES ASSUME TypeOK, [OmNext]_omVars PROVE TypeOK'
  OBVIOUS
<1>1. ASSUME Advance PROVE TypeOK'
  BY <1>1, BoundAssumption DEF Advance, TypeOK, Time
<1>2. ASSUME NEW m \in Mints, NEW p \in Prices, NEW side \in {"BUY", "SELL"}, OnTick(m, p, side)
      PROVE  TypeOK'
  <2> DEFINE due == Due(m, p, side)
  <2>1. due \subseteq DOMAIN positions /\ due \subseteq Signals
    BY DEF Due, TypeOK
  <2>2. positions' = [s \in DOMAIN positions \ due |-> positions[s]]
        /\ closing' = closing \cup {FullClose(s, ReasonOf(s, p, side), 0) : s \in due}
        /\ closes' = [s \in Signals |-> IF s \in due THEN closes[s] + 1 ELSE closes[s]]
        /\ UNCHANGED <<now, fills, handled, held, lost, refused>>
    BY <1>2 DEF OnTick, Without
  <2>3. \A s \in due : FullClose(s, ReasonOf(s, p, side), 0) \in Action
    BY <2>1, ReasonType, FullCloseType
  <2>4. closing' \subseteq Action
    BY <2>2, <2>3 DEF TypeOK
  <2>5. closes' \in [Signals -> Nat]
    BY <2>2 DEF TypeOK
  <2>6. DOMAIN positions' \subseteq Signals /\ \A s \in DOMAIN positions' : positions'[s] \in Position
    BY <2>2 DEF TypeOK
  <2> QED
    BY <2>2, <2>4, <2>5, <2>6 DEF TypeOK
<1>3. ASSUME NEW f \in fills, OnFill(f) PROVE TypeOK'
  <2>1. f.signal \in Signals /\ NewPosition(f) \in Position
    BY ParamsAssumption DEF TypeOK, Fill, NewPosition, Position, Status, SignalParams, Time
  <2>2. /\ handled' = handled \cup {f.signal}
        /\ UNCHANGED <<now, fills, closing, closes, held, lost>>
    BY <1>3 DEF OnFill
  <2>3. CASE UNCHANGED positions /\ refused' \in {refused, refused \cup {f.signal}}
    BY <2>1, <2>2, <2>3 DEF TypeOK
  <2>4. CASE /\ positions' = [s \in DOMAIN positions \cup {f.signal} |->
                               IF s = f.signal THEN NewPosition(f) ELSE positions[s]]
             /\ UNCHANGED refused
    <3>1. DOMAIN positions' = DOMAIN positions \cup {f.signal}
      BY <2>4
    <3>2. \A s \in DOMAIN positions' : positions'[s] \in Position
      BY <2>1, <2>4, <3>1 DEF TypeOK
    <3> QED
      BY <2>1, <2>2, <2>4, <3>1, <3>2 DEF TypeOK
  <2> QED
    BY <1>3, <2>3, <2>4 DEF OnFill
<1>4. ASSUME NEW a \in closing, Execute(a) PROVE TypeOK'
  <2>1. a \in Action /\ a.signal \in Signals /\ a.size \in Nat
    BY DEF TypeOK, Action
  <2>2. held[a.signal] - Sold(a) \in Nat
    BY <2>1 DEF TypeOK, Sold
  <2>3. /\ closing' = closing \ {a}
        /\ UNCHANGED <<positions, now, fills, handled, closes, refused>>
        /\ held' \in {held, [held EXCEPT ![a.signal] = @ - Sold(a)]}
        /\ lost' \in {lost, lost \cup {a.signal}}
    BY <1>4, Zenon DEF Execute, ExecuteClose, ExecuteCloseFails
  <2>4. held' \in [Signals -> Nat]
    BY <2>1, <2>2, <2>3 DEF TypeOK
  <2> QED
    BY <2>1, <2>3, <2>4 DEF TypeOK
<1>5. ASSUME NEW s \in Signals, VenueFill(s) PROVE TypeOK'
  <2>1. Params[s].size \in Nat
    BY ParamsAssumption DEF SignalParams
  <2>2. held' \in [Signals -> Nat]
    BY <1>5, <2>1 DEF VenueFill, TypeOK
  <2>3. fills' \subseteq Fill
    BY <1>5 DEF VenueFill, TypeOK, Fill
  <2> QED
    BY <1>5, <2>2, <2>3 DEF VenueFill, TypeOK
<1>6. ASSUME NEW s \in Signals, NEW size \in Nat, ForceClose(s, size) PROVE TypeOK'
  <2>1. s \in DOMAIN positions /\ "manual_close" \in Reasons
    BY <1>6 DEF ForceClose, IsActive, Reasons
  <2>2. FullClose(s, "manual_close", size) \in Action
    BY <2>1, FullCloseType
  <2> QED
    BY <1>6, <2>2 DEF ForceClose, Without, TypeOK
<1>7. ASSUME NEW s \in Signals, NEW size \in Nat, ForcePartialClose(s, size) PROVE TypeOK'
  <2>1. s \in DOMAIN positions /\ "manual_close" \in Reasons /\ size < positions[s].remaining
    BY <1>7 DEF ForcePartialClose, IsActive, Reasons
  <2>2. PartlyClosed(s, size) \in Position
    BY <2>1 DEF TypeOK, PartlyClosed, Position, Status
  <2>3. [signal |-> s, reason |-> "manual_close", size |-> size,
         amount |-> size, nth |-> closes[s] + 1] \in Action
    BY <2>1 DEF TypeOK, Action
  <2>4. DOMAIN positions' = DOMAIN positions /\ \A t \in DOMAIN positions' : positions'[t] \in Position
    BY <1>7, <2>2 DEF ForcePartialClose, TypeOK
  <2>5. closing' \subseteq Action /\ closes' \in [Signals -> Nat]
    BY <1>7, <2>3 DEF ForcePartialClose, TypeOK
  <2> QED
    BY <1>7, <2>4, <2>5 DEF ForcePartialClose, TypeOK
<1>8. CASE UNCHANGED omVars
  BY <1>8 DEF omVars, TypeOK
<1>9. \A s \in Signals : Params[s].size \in Nat
  BY ParamsAssumption DEF SignalParams
<1> QED
  BY <1>1, <1>2, <1>3, <1>4, <1>5, <1>6, <1>7, <1>8, <1>9 DEF OmNext, Tick

\* Positions, close actions and the venue's holdings keep their types.
THEOREM TypeCorrect == Spec => []TypeOK
<1>1. Init => TypeOK
  BY BoundAssumption DEF Init, TypeOK, Time
<1> QED
  BY <1>1, TypeStep, PTL DEF Spec

-----------------------------------------------------------------------------
(* Closing at most once.                                                   *)

\* What a step that closes the positions in gone does to the close counters.
LEMMA ClosingStep ==
  ASSUME CloseInv, NEW gone \in SUBSET (DOMAIN positions),
         DOMAIN positions' = DOMAIN positions \ gone,
         closes' = [s \in Signals |-> IF s \in gone THEN closes[s] + 1 ELSE closes[s]],
         handled' = handled
  PROVE  (Unclosed /\ CloseOnce)'
<1>1. \A s \in gone : closes[s] = 0 /\ s \in handled /\ s \in Signals
  BY DEF CloseInv, Unclosed, TypeOK
<1>2. \A s \in Signals : closes'[s] <= 1
  BY <1>1 DEF CloseInv, CloseOnce
<1>3. \A s \in DOMAIN positions' : closes'[s] = 0 /\ s \in handled'
  BY DEF CloseInv, Unclosed, TypeOK
<1>4. \A s \in Signals \ handled' : closes'[s] = 0
  BY <1>1 DEF CloseInv, Unclosed
<1> QED
  BY <1>2, <1>3, <1>4, Zenon DEF Unclosed, CloseOnce

\* A step that closes no position and delivers no fill.
LEMMA IdleStep ==
  ASSUME CloseInv, DOMAIN positions' = DOMAIN positions, UNCHANGED <<closes, handled>>
  PROVE  (Unclosed /\ CloseOnce)'
BY DEF CloseInv, Unclosed, CloseOnce

LEMMA CloseStep ==
  ASSUME ~Redelivery
  PROVE  CloseInv /\ [OmNext]_omVars => CloseInv'
<1> SUFFICES ASSUME CloseInv, [OmNext]_omVars PROVE (Unclosed /\ CloseOnce)'
  BY TypeStep DEF CloseInv
<1>1. ASSUME Advance PROVE (Unclosed /\ CloseOnce)'
  BY <1>1, IdleStep DEF Advance
<1>2. ASSUME NEW m \in Mints, NEW p \in Prices, NEW side \in {"BUY", "SELL"}, OnTick(m, p, side)
      PROVE  (Unclosed /\ CloseOnce)'
  <2> DEFINE due == Due(m, p, side)
  <2>1. due \in SUBSET (DOMAIN positions)
    BY DEF Due
  <2>2. DOMAIN positions' = DOMAIN positions \ due
        /\ closes' = [s \in Signals |-> IF s \in due THEN closes[s] + 1 ELSE closes[s]]
        /\ handled' = handled
    BY <1>2 DEF OnTick, Without
  <2> HIDE DEF due
  <2> QED
    BY <2>1, <2>2, ClosingStep
<1>3. ASSUME NEW f \in fills, OnFill(f) PROVE (Unclosed /\ CloseOnce)'
  <2>1. f.signal \in Signals /\ f.signal \notin handled
    BY <1>3 DEF OnFill, Deliverable, CloseInv, TypeOK, Fill
  <2>2. closes' = closes /\ handled' = handled \cup {f.signal}
    BY <1>3 DEF OnFill
  <2>3. closes[f.signal] = 0
    BY <2>1 DEF CloseInv, Unclosed
  <2>4. DOMAIN positions' \subseteq DOMAIN positions \cup {f.signal}
    BY <1>3 DEF OnFill
  <2> QED
    BY <2>2, <2>3, <2>4 DEF CloseInv, Unclosed, CloseOnce
<1>4. ASSUME NEW a \in closing, Execute(a) PROVE (Unclosed /\ CloseOnce)'
  BY <1>4, IdleStep DEF Execute, ExecuteClose, ExecuteCloseFails
<1>5. ASSUME NEW s \in Signals, VenueFill(s) PROVE (Unclosed /\ CloseOnce)'
  BY <1>5, IdleStep DEF VenueFill
<1>6. ASSUME NEW s \in Signals, NEW size \in Nat, ForceClose(s, size)
      PROVE  (Unclosed /\ CloseOnce)'
  <2>1. {s} \in SUBSET (DOMAIN positions)
    BY <1>6 DEF ForceClose, IsActive
  <2>2. DOMAIN positions' = DOMAIN positions \ {s} /\ handled' = handled
    BY <1>6 DEF ForceClose, Without
  <2>3. closes' = [t \in Signals |-> IF t \in {s} THEN closes[t] + 1 ELSE closes[t]]
    BY <1>6 DEF ForceClose, CloseInv, TypeOK
  <2> QED
    BY <2>1, <2>2, <2>3, ClosingStep
<1>7. ASSUME NEW s \in Signals, NEW size \in Nat, ForcePartialClose(s, size)
      PROVE  (Unclosed /\ CloseOnce)'
  BY <1>7, IdleStep DEF ForcePartialClose
<1>8. CASE UNCHANGED omVars
  BY <1>8, IdleStep DEF omVars
<1>9. \A s \in Signals : Params[s].size \in Nat
  BY ParamsAssumption DEF SignalParams
<1> QED
  BY <1>1, <1>2, <1>3, <1>4, <1>5, <1>6, <1>7, <1>8, <1>9 DEF OmNext, Tick

\* While fills are delivered once, ticks and forced closes between them never
\* close the position of one signal twice.
THEOREM ClosedAtMostOnce == ASSUME ~Redelivery PROVE Spec => []CloseOnce
<1>1. Init => CloseInv
  BY BoundAssumption DEF Init, CloseInv, Unclosed, CloseOnce, TypeOK, Time
<1>2. CloseInv => CloseOnce
  BY DEF CloseInv
<1> QED
  BY <1>1, <1>2, CloseStep, PTL DEF Spec

-----------------------------------------------------------------------------
(* Capacity.                                                               *)

\* A step that adds no position keeps the book within its capacity.
LEMMA ShrinkingStep ==
  ASSUME CapacityInv, DOMAIN positions' \subseteq DOMAIN positions
  PROVE  CapacityInv'
<1>1. /\ IsFiniteSet(DOMAIN positions')
      /\ Cardinality(DOMAIN positions') <= Cardinality(DOMAIN positions)
  BY FS_Subset DEF CapacityInv
<1>2. Cardinality(DOMAIN positions) \in Nat /\ Cardinality(DOMAIN positions') \in Nat
  BY <1>1, FS_CardinalityType DEF CapacityInv
<1> QED
  BY <1>1, <1>2, CapacityAssumption DEF CapacityInv, CapacityRespected

LEMMA CapacityStep == CapacityInv /\ [OmNext]_omVars => CapacityInv'
<1> SUFFICES ASSUME CapacityInv, [OmNext]_omVars PROVE CapacityInv'
  OBVIOUS
<1>1. ASSUME NEW f \in fills, OnFill(f) PROVE CapacityInv'
  <2>1. CASE Cardinality(DOMAIN positions) < MaxPositions /\ f.signal \notin DOMAIN positions
             /\ DOMAIN positions' = DOMAIN positions \cup {f.signal}
    <3>1. IsFiniteSet(DOMAIN positions')
          /\ Cardinality(DOMAIN positions') = Cardinality(DOMAIN positions) + 1
      BY <2>1, FS_AddElement DEF CapacityInv
    <3>2. Cardinality(DOMAIN positions) \in Nat
      BY FS_CardinalityType DEF CapacityInv
    <3> QED
      BY <2>1, <3>1, <3>2, CapacityAssumption DEF CapacityInv, CapacityRespected
  <2>2. CASE positions' = positions
    BY <2>2, ShrinkingStep
  <2>3. Cardinality(DOMAIN positions) \in Nat
    BY FS_CardinalityType DEF CapacityInv
  <2> QED
    BY <1>1, <2>1, <2>2, <2>3, CapacityAssumption DEF OnFill
<1>2. ASSUME NEW m \in Mints, NEW p \in Prices, NEW side \in {"BUY", "SELL"}, OnTick(m, p, side)
      PROVE  DOMAIN positions' \subseteq DOMAIN positions
  BY <1>2 DEF OnTick, Without
<1>3. ASSUME NEW a \in closing, Execute(a) PROVE DOMAIN positions' \subseteq DOMAIN positions
  BY <1>3 DEF Execute, ExecuteClose, ExecuteCloseFails
<1>4. ASSUME NEW s \in Signals, NEW size \in Nat,
             VenueFill(s) \/ ForceClose(s, size) \/ ForcePartialClose(s, size)
      PROVE  DOMAIN positions' \subseteq DOMAIN positions
  BY <1>4 DEF VenueFill, ForceClose, ForcePartialClose, Without
<1>5. CASE Advance \/ UNCHANGED omVars
  BY <1>5, ShrinkingStep DEF Advance, omVars
<1>6. \A s \in Signals : Params[s].size \in Nat
  BY ParamsAssumption DEF SignalParams
<1> QED
  BY <1>1, <1>2, <1>3, <1>4, <1>5, <1>6, ShrinkingStep DEF OmNext, Tick

\* on_fill never lets the book grow beyond max_positions, with fills delivered
\* again or not.
THEOREM CapacityKept == Spec => []CapacityRespected
<1>1. Init => CapacityInv
  BY FS_EmptySet, CapacityAssumption DEF Init, CapacityInv, CapacityRespected
<1>2. CapacityInv => CapacityRespected
  BY DEF CapacityInv
<1> QED
  BY <1>1, <1>2, CapacityStep, PTL DEF Spec

-----------------------------------------------------------------------------
(* What the venue holds is accounted for.                                  *)

Left(s) == IF s \in DOMAIN positions THEN positions[s].remaining ELSE 0

\* A signal has at most one action waiting: that of a partial close, with the position it
\* left behind, or that of a full close, which sells all there is.
OnePending ==
  /\ \A a, b \in closing : a.signal = b.signal => a = b
  /\ \A a \in closing :
       /\ a.signal \in handled
       /\ a.signal \in DOMAIN positions =>
            positions[a.signal].status = "PARTIAL" /\ a.size = a.amount /\ a.size > 0
       /\ a.signal \notin DOMAIN positions => a.size = 0 \/ a.size >= a.amount

FillsHeld ==
  /\ \A s \in handled : \E f \in fills : f.signal = s
  /\ \A f \in fills : f.signal \notin handled => held[f.signal] = Params[f.signal].size

\* HoldingsTracked, without having to choose the one action.
Accounted ==
  \A s \in handled \ (lost \cup refused) :
    /\ (\A a \in closing : a.signal # s) => held[s] = Left(s)
    /\ \A a \in closing : a.signal = s => held[s] = Left(s) + a.amount

TrackInv == CloseInv /\ OnePending /\ FillsHeld /\ Accounted

\* The types a step of the books needs.
LEMMA TrackTypes ==
  ASSUME TrackInv
  PROVE  /\ DOMAIN positions \subseteq Signals
         /\ \A s \in DOMAIN positions : positions[s].remaining \in Nat /\ s \in handled
         /\ \A a \in closing : a.signal \in Signals /\ a.size \in Nat /\ a.amount \in Nat
         /\ \A f \in fills : f.signal \in Signals
         /\ held \in [Signals -> Nat] /\ handled \subseteq Signals
BY DEF TrackInv, CloseInv, Unclosed, TypeOK, Position, Action, Fill

\* Closing whole positions hands out one action for each, with all that it holds.
LEMMA TrackClosing ==
  ASSUME TrackInv, NEW gone \in SUBSET (DOMAIN positions), NEW new,
         \A s \in gone : positions[s].status = "ACTIVE" /\ \E a \in new : a.signal = s,
         \A a \in new : /\ a.signal \in gone /\ a.amount = positions[a.signal].remaining
                        /\ a.size = 0 \/ a.size >= a.amount,
         \A a, b \in new : a.signal = b.signal => a = b,
         positions' = [s \in DOMAIN positions \ gone |-> positions[s]],
         closing' = closing \cup new,
         UNCHANGED <<fills, handled, held, lost, refused>>
  PROVE  OnePending' /\ FillsHeld' /\ Accounted'
<1>1. \A a \in closing : a.signal \notin gone
  BY DEF TrackInv, OnePending
<1>2. \A s \in gone : s \in handled
  BY TrackTypes
<1>3. OnePending'
  BY <1>1, <1>2 DEF TrackInv, OnePending
<1>4. FillsHeld'
  BY DEF TrackInv, FillsHeld
<1>5. Accounted'
  <2> SUFFICES ASSUME NEW s \in handled \ (lost \cup refused)
               PROVE  /\ (\A a \in closing' : a.signal # s) => held[s] = Left(s)'
                      /\ \A a \in closing' : a.signal = s => held[s] = Left(s)' + a.amount
    BY DEF Accounted
  <2>1. CASE s \in gone
    <3>1. Left(s)' = 0 /\ held[s] = positions[s].remaining /\ held[s] \in Nat
      BY <1>1, <2>1, TrackTypes DEF TrackInv, Accounted, Left
    <3>2. \A a \in closing' : a.signal = s => a.amount = positions[s].remaining
      BY <1>1, <2>1
    <3>3. \E a \in closing' : a.signal = s
      BY <2>1
    <3> QED
      BY <3>1, <3>2, <3>3
  <2>2. CASE s \notin gone
    <3>1. Left(s)' = Left(s)
      BY <2>2 DEF Left
    <3>2. \A a \in closing' : a.signal = s => a \in closing
      BY <2>2
    <3> QED
      BY <3>1, <3>2 DEF TrackInv, Accounted
  <2> QED
    BY <2>1, <2>2
<1> QED
  BY <1>3, <1>4, <1>5

LEMMA TrackOnFill ==
  ASSUME TrackInv, ~Redelivery, NEW f \in fills, OnFill(f)
  PROVE  OnePending' /\ FillsHeld' /\ Accounted'
<1> DEFINE s == f.signal
<1>1. /\ s \notin handled /\ s \in Signals /\ s \notin DOMAIN positions
      /\ \A a \in closing : a.signal # s
      /\ held[s] = Params[s].size
  BY TrackTypes DEF OnFill, Deliverable, TrackInv, OnePending, FillsHeld
<1>2. handled' = handled \cup {s} /\ UNCHANGED <<fills, closing, held, lost>>
  BY DEF OnFill
<1>3. \/ refused' = refused \cup {s} /\ positions' = positions
      \/ /\ positions' = [x \in DOMAIN positions \cup {s} |->
                            IF x = s THEN NewPosition(f) ELSE positions[x]]
         /\ refused' = refused
  BY <1>1 DEF OnFill
<1>4. NewPosition(f).remaining = held[s]
  BY <1>1 DEF NewPosition
<1> HIDE DEF s
<1>5. OnePending'
  BY <1>1, <1>2, <1>3 DEF TrackInv, OnePending
<1>6. FillsHeld'
  BY <1>2 DEF TrackInv, FillsHeld, s
<1>7. Accounted'
  <2> SUFFICES ASSUME NEW t \in handled' \ (lost' \cup refused')
               PROVE  /\ (\A a \in closing : a.signal # t) => held[t] = Left(t)'
                      /\ \A a \in closing : a.signal = t => held[t] = Left(t)' + a.amount
    BY <1>2 DEF Accounted
  <2>1. CASE t = s
    BY <1>1, <1>3, <1>4, <2>1 DEF Left
  <2>2. CASE t # s
    <3>1. t \in handled \ (lost \cup refused) /\ Left(t)' = Left(t)
      BY <1>2, <1>3, <2>2 DEF Left
    <3> QED
      BY <3>1 DEF TrackInv, Accounted
  <2> QED
    BY <2>1, <2>2
<1> QED
  BY <1>5, <1>6, <1>7

LEMMA TrackPartialClose ==
  ASSUME TrackInv, NEW s \in Signals, NEW size \in Nat, ForcePartialClose(s, size)
  PROVE  OnePending' /\ FillsHeld' /\ Accounted'
<1> DEFINE new == [signal |-> s, reason |-> "manual_close", size |-> size,
                   amount |-> size, nth |-> closes[s] + 1]
<1>1. /\ s \in DOMAIN positions /\ positions[s].status = "ACTIVE"
      /\ 0 < size /\ size < positions[s].remaining
      /\ positions' = [positions EXCEPT ![s] = PartlyClosed(s, size)]
      /\ closing' = closing \cup {new}
      /\ UNCHANGED <<fills, handled, held, lost, refused>>
  BY DEF ForcePartialClose, IsActive
<1>2. /\ new.signal = s /\ new.size = size /\ new.amount = size
      /\ PartlyClosed(s, size).remaining = positions[s].remaining - size
      /\ PartlyClosed(s, size).status = "PARTIAL"
  BY DEF PartlyClosed
<1> HIDE DEF new
<1>3. \A a \in closing : a.signal # s
  BY <1>1 DEF TrackInv, OnePending
<1>4. DOMAIN positions' = DOMAIN positions /\ positions'[s] = PartlyClosed(s, size)
      /\ \A t \in DOMAIN positions \ {s} : positions'[t] = positions[t]
  BY <1>1, TrackTypes DEF TrackInv, CloseInv, TypeOK
<1>5. OnePending'
  BY <1>1, <1>2, <1>3, <1>4, TrackTypes DEF TrackInv, OnePending
<1>6. FillsHeld'
  BY <1>1 DEF TrackInv, FillsHeld
<1>7. Accounted'
  <2> SUFFICES ASSUME NEW t \in handled \ (lost \cup refused)
               PROVE  /\ (\A a \in closing' : a.signal # t) => held[t] = Left(t)'
                      /\ \A a \in closing' : a.signal = t => held[t] = Left(t)' + a.amount
    BY <1>1 DEF Accounted
  <2>1. CASE t = s
    <3>1. held[s] = positions[s].remaining /\ positions[s].remaining \in Nat
      BY <1>1, <1>3, <2>1, TrackTypes DEF TrackInv, Accounted, Left
    <3>2. Left(s)' = positions[s].remaining - size
      BY <1>1, <1>2, <1>4 DEF Left
    <3>3. \A a \in closing' : a.signal = s => a = new
      BY <1>1, <1>3
    <3> QED
      BY <1>1, <1>2, <2>1, <3>1, <3>2, <3>3
  <2>2. CASE t # s
    <3>1. Left(t)' = Left(t)
      BY <1>4, <2>2 DEF Left
    <3>2. \A a \in closing' : a.signal = t => a \in closing
      BY <1>1, <1>2, <2>2
    <3> QED
      BY <1>1, <3>1, <3>2 DEF TrackInv, Accounted
  <2> QED
    BY <2>1, <2>2
<1> QED
  BY <1>5, <1>6, <1>7

LEMMA TrackExecute ==
  ASSUME TrackInv, Executor # "dry", NEW a \in closing, Execute(a)
  PROVE  OnePending' /\ FillsHeld' /\ Accounted'
<1> DEFINE s == a.signal
<1>1. closing' = closing \ {a} /\ UNCHANGED <<positions, fills, handled, refused>>
  BY DEF Execute, ExecuteClose, ExecuteCloseFails
<1>2. \/ held' = [held EXCEPT ![s] = @ - Sold(a)] /\ lost' = lost
      \/ held' = held /\ lost' = lost \cup {s}
  BY DEF Execute, ExecuteClose, ExecuteCloseFails
<1>3. /\ s \in Signals /\ s \in handled /\ \A b \in closing' : b.signal # s
      /\ a.size \in Nat /\ a.amount \in Nat
  BY <1>1, TrackTypes DEF TrackInv, OnePending
<1>4. s \notin lost \cup refused => held[s] = Left(s) + a.amount
  BY <1>3 DEF TrackInv, Accounted
<1>5. s \notin lost \cup refused => Sold(a) = a.amount
  <2> SUFFICES ASSUME s \notin lost \cup refused PROVE Sold(a) = a.amount
    OBVIOUS
  <2>1. CASE s \in DOMAIN positions
    <3>1. a.size = a.amount /\ a.size > 0 /\ Left(s) \in Nat
      BY <2>1, TrackTypes DEF TrackInv, OnePending, Left
    <3> QED
      BY <1>3, <1>4, <3>1 DEF Sold
  <2>2. CASE s \notin DOMAIN positions
    <3>1. held[s] = a.amount /\ (a.size = 0 \/ a.size >= a.amount)
      BY <1>3, <1>4, <2>2 DEF TrackInv, OnePending, Left
    <3> QED
      BY <1>3, <3>1 DEF Sold
  <2> QED
    BY <2>1, <2>2
<1> HIDE DEF s
<1>6. \A t \in Signals \ {s} : held'[t] = held[t]
  BY <1>2, TrackTypes
<1>7. OnePending'
  BY <1>1 DEF TrackInv, OnePending
<1>8. FillsHeld'
  BY <1>1, <1>3, <1>6, TrackTypes DEF TrackInv, FillsHeld
<1>9. Accounted'
  <2> SUFFICES ASSUME NEW t \in handled \ (lost' \cup refused)
               PROVE  /\ (\A b \in closing' : b.signal # t) => held'[t] = Left(t)
                      /\ \A b \in closing' : b.signal = t => held'[t] = Left(t) + b.amount
    BY <1>1 DEF Accounted, Left
  <2>1. CASE t = s
    <3>1. /\ held' = [held EXCEPT ![s] = @ - Sold(a)] /\ s \notin lost \cup refused
          /\ Left(s) \in Nat /\ held \in [Signals -> Nat]
      BY <1>2, <2>1, TrackTypes DEF Left
    <3>2. held'[s] = held[s] - a.amount
      BY <1>3, <1>5, <3>1
    <3> QED
      BY <1>3, <1>4, <2>1, <3>1, <3>2
  <2>2. CASE t # s
    <3>1. t \in Signals /\ t \notin lost \cup refused /\ held'[t] = held[t]
      BY <1>2, <1>6, <2>2, TrackTypes
    <3>2. (\A b \in closing' : b.signal # t) => \A b \in closing : b.signal # t
      BY <1>1, <2>2 DEF s
    <3> QED
      BY <1>1, <3>1, <3>2 DEF TrackInv, Accounted
  <2> QED
    BY <2>1, <2>2
<1> QED
  BY <1>7, <1>8, <1>9

LEMMA TrackVenueFill ==
  ASSUME TrackInv, NEW s \in Signals, VenueFill(s)
  PROVE  OnePending' /\ FillsHeld' /\ Accounted'
<1>1. /\ \A f \in fills : f.signal # s
      /\ fills' = fills \cup {[signal |-> s, ts |-> now]}
      /\ held' = [held EXCEPT ![s] = Params[s].size]
      /\ UNCHANGED <<positions, handled, closing, lost, refused>>
  BY DEF VenueFill
<1>2. s \notin handled
  BY <1>1 DEF TrackInv, FillsHeld
<1>3. held'[s] = Params[s].size /\ \A t \in Signals \ {s} : held'[t] = held[t]
  BY <1>1, TrackTypes
<1>4. OnePending'
  BY <1>1 DEF TrackInv, OnePending
<1>5. FillsHeld'
  BY <1>1, <1>3, TrackTypes DEF TrackInv, FillsHeld
<1>6. Accounted'
  <2>1. \A t \in handled : held'[t] = held[t] /\ Left(t)' = Left(t)
    BY <1>1, <1>2, <1>3, TrackTypes DEF Left
  <2> QED
    BY <1>1, <2>1 DEF TrackInv, Accounted
<1> QED
  BY <1>4, <1>5, <1>6

LEMMA TrackStep ==
  ASSUME ~Redelivery, Executor # "dry"
  PROVE  TrackInv /\ [OmNext]_omVars => TrackInv'
<1> SUFFICES ASSUME TrackInv, [OmNext]_omVars PROVE OnePending' /\ FillsHeld' /\ Accounted'
  BY CloseStep DEF TrackInv
<1>1. ASSUME NEW m \in Mints, NEW p \in Prices, NEW side \in {"BUY", "SELL"}, OnTick(m, p, side)
      PROVE  OnePending' /\ FillsHeld' /\ Accounted'
  <2> DEFINE due == Due(m, p, side)
             new == {FullClose(s, ReasonOf(s, p, side), 0) : s \in due}
  <2>1. due \in SUBSET (DOMAIN positions) /\ \A s \in due : positions[s].status = "ACTIVE"
    BY DEF Due, IsActive
  <2>2. \A s \in due : LET a == FullClose(s, ReasonOf(s, p, side), 0) IN
          a \in new /\ a.signal = s /\ a.amount = positions[s].remaining /\ a.size = 0
    BY DEF FullClose
  <2>3. \A a \in new : \E s \in due : a = FullClose(s, ReasonOf(s, p, side), 0)
    OBVIOUS
  <2>4. /\ positions' = [s \in DOMAIN positions \ due |-> positions[s]]
        /\ closing' = closing \cup new
        /\ UNCHANGED <<fills, handled, held, lost, refused>>
    BY <1>1 DEF OnTick, Without
  <2> HIDE DEF due, new
  <2>5. /\ \A s \in due : \E a \in new : a.signal = s
        /\ \A a \in new : a.signal \in due /\ a.amount = positions[a.signal].remaining /\ a.size = 0
        /\ \A a, b \in new : a.signal = b.signal => a = b
    BY <2>2, <2>3
  <2>6. /\ \A s \in due : positions[s].status = "ACTIVE" /\ \E a \in new : a.signal = s
        /\ \A a \in new : /\ a.signal \in due /\ a.amount = positions[a.signal].remaining
                          /\ a.size = 0 \/ a.size >= a.amount
    BY <2>1, <2>5
  <2>7. due \in SUBSET (DOMAIN positions)
    BY <2>1
  <2> QED
    BY <2>4, <2>5, <2>6, <2>7, TrackClosing
<1>2. ASSUME NEW s \in Signals, NEW size \in Nat, ForceClose(s, size)
      PROVE  OnePending' /\ FillsHeld' /\ Accounted'
  <2> DEFINE a == FullClose(s, "manual_close", size)
  <2>1. /\ s \in DOMAIN positions /\ positions[s].status = "ACTIVE"
        /\ size = 0 \/ size >= positions[s].remaining
        /\ positions' = [t \in DOMAIN positions \ {s} |-> positions[t]]
        /\ closing' = closing \cup {a}
        /\ UNCHANGED <<fills, handled, held, lost, refused>>
    BY <1>2 DEF ForceClose, IsActive, Without
  <2>2. a.signal = s /\ a.amount = positions[s].remaining /\ a.size = size
    BY DEF FullClose
  <2> HIDE DEF a
  <2>3. /\ {s} \in SUBSET (DOMAIN positions)
        /\ \A t \in {s} : positions[t].status = "ACTIVE" /\ \E b \in {a} : b.signal = t
        /\ \A b \in {a} : /\ b.signal \in {s} /\ b.amount = positions[b.signal].remaining
                          /\ b.size = 0 \/ b.size >= b.amount
        /\ \A b, c \in {a} : b.signal = c.signal => b = c
    BY <2>1, <2>2
  <2> QED
    BY <2>1, <2>3, TrackClosing
<1>3. CASE Advance \/ UNCHANGED omVars
  BY <1>3 DEF Advance, omVars, TrackInv, OnePending, FillsHeld, Accounted, Left
<1>4. \A s \in Signals : Params[s].size \in Nat
  BY ParamsAssumption DEF SignalParams
<1> QED
  BY <1>1, <1>2, <1>3, <1>4, TrackOnFill, TrackPartialClose, TrackExecute, TrackVenueFill
  DEF OmNext, Tick

LEMMA TrackStart == Init => TrackInv
<1> SUFFICES ASSUME Init PROVE TrackInv
  OBVIOUS
<1>1. CloseInv
  BY BoundAssumption DEF Init, CloseInv, Unclosed, CloseOnce, TypeOK, Time
<1> QED
  BY <1>1 DEF Init, TrackInv, OnePending, FillsHeld, Accounted

\* While fills are delivered once and closes are really executed or fail, what the venue
\* holds of a signal is what the position and the one action waiting for it amount to,
\* unless a fill was refused or a close has failed.
THEOREM HoldingsAccounted ==
  ASSUME ~Redelivery, Executor # "dry" PROVE Spec => []HoldingsTracked
<1>1. TrackInv => HoldingsTracked
  <2> SUFFICES ASSUME TrackInv, NEW s \in handled \ (lost \cup refused) PROVE held[s] = Booked(s)
    BY DEF HoldingsTracked
  <2>1. CASE \A a \in closing : a.signal # s
    <3>1. PendingActions(s) = {}
      BY <2>1 DEF PendingActions
    <3>2. Left(s) \in Nat /\ held[s] = Left(s)
      BY <2>1, TrackTypes DEF TrackInv, Accounted, Left
    <3> QED
      BY <3>1, <3>2 DEF Booked, Left
  <2>2. ASSUME NEW a \in closing, a.signal = s PROVE held[s] = Booked(s)
    <3>1. PendingActions(s) = {a}
      BY <2>2 DEF PendingActions, TrackInv, OnePending
    <3>2. (CHOOSE b \in PendingActions(s) : TRUE) = a
      BY <3>1
    <3>3. held[s] = Left(s) + a.amount
      BY <2>2 DEF TrackInv, Accounted
    <3> QED
      BY <3>1, <3>2, <3>3 DEF Booked, Left
  <2> QED
    BY <2>1, <2>2
<1> QED
  BY <1>1, TrackStart, TrackStep, PTL DEF Spec

\* A position never leaves the book without an action, new in that very step, which sells
\* all that was left of it.
THEOREM ClosedOnlyByAction ==
  ASSUME ~Redelivery, Executor # "dry" PROVE Spec => ClosedByAction
<1>1. TrackInv /\ [OmNext]_omVars =>
        \A s \in DOMAIN positions \ DOMAIN positions' :
          \E a \in closing' \ closing : a.signal = s /\ a.amount = positions[s].remaining
  <2> SUFFICES ASSUME TrackInv, [OmNext]_omVars, NEW s \in DOMAIN positions \ DOMAIN positions'
               PROVE  \E a \in closing' \ closing :
                        a.signal = s /\ a.amount = positions[s].remaining
    OBVIOUS
  <2>1. ASSUME NEW a \in closing', a.signal = s, a.amount = positions[s].remaining,
               positions[s].status = "ACTIVE"
        PROVE  \E b \in closing' \ closing : b.signal = s /\ b.amount = positions[s].remaining
    BY <2>1 DEF TrackInv, OnePending
  <2>2. ASSUME NEW m \in Mints, NEW p \in Prices, NEW side \in {"BUY", "SELL"}, OnTick(m, p, side)
        PROVE  \E a \in closing' \ closing : a.signal = s /\ a.amount = positions[s].remaining
    <3>1. s \in Due(m, p, side)
      BY <2>2 DEF OnTick, Without
    <3>2. FullClose(s, ReasonOf(s, p, side), 0) \in closing'
      BY <2>2, <3>1 DEF OnTick
    <3> QED
      BY <2>1, <3>1, <3>2 DEF Due, IsActive, FullClose
  <2>3. ASSUME NEW t \in Signals, NEW size \in Nat, ForceClose(t, size)
        PROVE  \E a \in closing' \ closing : a.signal = s /\ a.amount = positions[s].remaining
    <3>1. t = s
      BY <2>3 DEF ForceClose, Without
    <3>2. FullClose(s, "manual_close", size) \in closing' /\ positions[s].status = "ACTIVE"
      BY <2>3, <3>1 DEF ForceClose, IsActive
    <3> QED
      BY <2>1, <3>2 DEF FullClose
  <2>4. ASSUME NEW t \in Signals, NEW size \in Nat, ForcePartialClose(t, size) PROVE FALSE
    BY <2>4 DEF ForcePartialClose
  <2>5. CASE Advance \/ UNCHANGED omVars \/ \E t \in Signals : VenueFill(t)
    BY <2>5 DEF Advance, omVars, VenueFill
  <2>6. ASSUME NEW f \in fills, OnFill(f) PROVE FALSE
    BY <2>6 DEF OnFill
  <2>7. ASSUME NEW a \in closing, Execute(a) PROVE FALSE
    BY <2>7 DEF Execute, ExecuteClose, ExecuteCloseFails
  <2>8. \A t \in Signals : Params[t].size \in Nat
    BY ParamsAssumption DEF SignalParams
  <2> QED
    BY <2>2, <2>3, <2>4, <2>5, <2>6, <2>7, <2>8 DEF OmNext, Tick
<1> QED
  BY <1>1, TrackStart, TrackStep, PTL DEF Spec, ClosedByAction

-----------------------------------------------------------------------------
(* The loop around the manager.                                            *)

\* The dictionary of positions is a function, so that removing nothing changes nothing.
BookIsFunction == positions = [s \in DOMAIN positions |-> positions[s]]

BookInv == TypeOK /\ BookIsFunction

LEMMA BookStep == BookInv /\ [OmNext]_omVars => BookInv'
<1> SUFFICES ASSUME BookInv, [OmNext]_omVars PROVE BookIsFunction'
  BY TypeStep DEF BookInv
<1>1. ASSUME NEW gone, positions' = Without(gone) PROVE BookIsFunction'
  BY <1>1 DEF Without, BookIsFunction
<1>2. ASSUME NEW f \in fills, OnFill(f) PROVE BookIsFunction'
  BY <1>2 DEF OnFill, BookInv, BookIsFunction
<1>3. ASSUME NEW s \in Signals, NEW size \in Nat, ForcePartialClose(s, size) PROVE BookIsFunction'
  BY <1>3 DEF ForcePartialClose, BookInv, BookIsFunction
<1>4. CASE positions' = positions
  BY <1>4 DEF BookInv, BookIsFunction
<1>5. ASSUME NEW m \in Mints, Tick(m) PROVE BookIsFunction'
  BY <1>1, <1>5 DEF Tick, OnTick
<1>6. ASSUME NEW s \in Signals, NEW size \in Nat, ForceClose(s, size) PROVE BookIsFunction'
  BY <1>1, <1>6 DEF ForceClose
<1>7. ASSUME NEW a \in closing, Execute(a) PROVE BookIsFunction'
  BY <1>4, <1>7 DEF Execute, ExecuteClose, ExecuteCloseFails
<1>8. CASE Advance \/ (\E s \in Signals : VenueFill(s)) \/ UNCHANGED omVars
  BY <1>4, <1>8 DEF Advance, VenueFill, omVars
<1>9. \A s \in Signals : Params[s].size \in Nat
  BY ParamsAssumption DEF SignalParams
<1> QED
  BY <1>2, <1>3, <1>5, <1>6, <1>7, <1>8, <1>9 DEF OmNext

\* The emergency shutdown finds no position, for none has the status it looks for.
LEMMA ShutdownFindsNothing ==
  ASSUME BookInv, EmergencyShutdown
  PROVE  UNCHANGED omVars
<1>1. OpenPositions = {}
  BY DEF OpenPositions, OpenStatus, BookInv, TypeOK, Position, Status
<1>2. positions' = positions
  BY <1>1 DEF EmergencyShutdown, Without, BookInv, BookIsFunction
<1>3. closing' = closing
  BY <1>1 DEF EmergencyShutdown
<1>4. closes' = closes
  BY <1>1 DEF EmergencyShutdown, BookInv, TypeOK
<1> QED
  BY <1>2, <1>3, <1>4 DEF EmergencyShutdown, omVars

\* What the loop does to the manager is a step of the manager, or nothing.
LEMMA LoopStep == BookInv /\ [KsNext]_allVars => [OmNext]_omVars
<1> SUFFICES ASSUME BookInv, [KsNext]_allVars PROVE [OmNext]_omVars
  OBVIOUS
<1>1. CASE ManagerStep
  <2>1. ASSUME NEW s \in Signals, NEW size \in 0..Params[s].size,
               ForceClose(s, size) \/ ForcePartialClose(s, size)
        PROVE  OmNext
    <3>1. size = 0 \/ size \in 1..Params[s].size
      BY ParamsAssumption DEF SignalParams
    <3>2. size = 0 => ~ForcePartialClose(s, size)
      BY DEF ForcePartialClose
    <3> QED
      BY <2>1, <3>1, <3>2 DEF OmNext
  <2> QED
    BY <1>1, <2>1 DEF ManagerStep, OmNext
<1>2. CASE EmergencyShutdown
  BY <1>2, ShutdownFindsNothing
<1>3. CASE RaiseFlag \/ ClearFlag \/ Check \/ LoopIdle \/ UNCHANGED allVars
  BY <1>3 DEF RaiseFlag, ClearFlag, Check, LoopCheck, LoopIdle, allVars
<1>4. CASE Outside
  BY <1>4 DEF Outside, OmNext
<1> QED
  BY <1>1, <1>2, <1>3, <1>4 DEF KsNext, LoopAct, InLoop

\* The loop under the kill switch is one of the ways to use the order manager, so all that
\* is proved of the manager holds in it, panics and shutdowns included.
THEOREM LoopUsesManager == KsSpec => Spec
<1>1. KsInit => Init /\ BookInv
  <2>1. Init => BookIsFunction
    BY DEF Init, BookIsFunction
  <2>2. Init => TypeOK
    BY BoundAssumption DEF Init, TypeOK, Time
  <2> QED
    BY <2>1, <2>2 DEF KsInit, BookInv
<1>2. KsInit /\ [][KsNext]_allVars => Spec
  BY <1>1, LoopStep, BookStep, PTL DEF Spec
<1>3. KsSpec => KsInit /\ [][KsNext]_allVars
  BY PTL DEF KsSpec
<1> QED
  BY <1>2, <1>3, PTL

\* How far the loop may have got since the flag was raised, or last went unseen.
PanicInv ==
  /\ late = 0 \/ (flag /\ late = 1)
  /\ phase = "act" => late = 0

\* With the kill switch enabled, and whenever the flag is raised, cleared or unreadable, at
\* most one step of the manager is taken after it went up, and one after each look at it
\* that failed.
THEOREM PanicWithinOneStep == ASSUME Enabled PROVE KsSpec => []OneStepAfterPanic
<1>1. KsInit => PanicInv
  BY Zenon DEF KsInit, PanicInv
<1>2. PanicInv /\ [KsNext]_allVars => PanicInv'
  <2> SUFFICES ASSUME PanicInv, [KsNext]_allVars PROVE PanicInv'
    OBVIOUS
  <2>1. CASE RaiseFlag \/ ClearFlag
    BY <2>1 DEF RaiseFlag, ClearFlag, PanicInv
  <2>2. ASSUME NEW readable \in BOOLEAN, LoopCheck(readable) PROVE PanicInv'
    <3>1. CASE readable
      BY <2>2, <3>1 DEF LoopCheck, IsPanicActive, PanicInv
    <3>2. CASE ~readable
      BY <2>2, <3>2 DEF LoopCheck, PanicInv
    <3> QED
      BY <3>1, <3>2
  <2>3. CASE LoopAct
    <3>1. late = 0 /\ phase' = "check" /\ late' = (IF flag THEN late + 1 ELSE late)
          /\ flag' = flag
      BY <2>3 DEF LoopAct, InLoop, AfterIteration, PanicInv
    <3>2. late + 1 = 1
      BY <3>1
    <3> QED
      BY <3>1, <3>2 DEF PanicInv
  <2>4. CASE LoopIdle
    BY <2>4 DEF LoopIdle, AfterIteration, PanicInv
  <2>5. CASE EmergencyShutdown
    BY <2>5 DEF EmergencyShutdown, PanicInv
  <2>6. CASE Outside \/ UNCHANGED allVars
    BY <2>6 DEF Outside, ksVars, allVars, PanicInv
  <2> QED
    BY <2>1, <2>2, <2>3, <2>4, <2>5, <2>6 DEF KsNext, Check
<1>3. PanicInv => OneStepAfterPanic
  <2> SUFFICES ASSUME PanicInv PROVE late <= 1
    BY DEF OneStepAfterPanic
  <2>1. late = 0 \/ late = 1
    BY DEF PanicInv
  <2> QED
    BY <2>1
<1>4. KsSpec => KsInit /\ [][KsNext]_allVars
  BY PTL DEF KsSpec
<1> QED
  BY <1>1, <1>2, <1>3, <1>4, PTL
=============================================================================
