----------------------------- MODULE KillSwitch -----------------------------
(***************************************************************************)
(* The panic flag and the kill switch (src/ops/panic.py and                *)
(* src/ops/kill_switch.py) around the order manager: a main loop that      *)
(* checks the flag at the start of each iteration, lets the manager do one *)
(* thing, and runs the emergency shutdown when the check raises, as the    *)
(* class documents its use.                                                *)
(***************************************************************************)
EXTENDS OrderManager

CONSTANT Enabled  \* KillSwitchConfig.enabled

ASSUME EnabledAssumption == Enabled \in BOOLEAN

VARIABLES flag,   \* does the panic flag file exist?
          phase,  \* where the main loop is
          late    \* manager steps taken since the flag was raised, or a check missed it

ksVars  == <<flag, phase, late>>
allVars == <<omVars, ksVars>>

Phases == {"check", "act", "panic", "stopped"}

KsInit == Init /\ flag = FALSE /\ phase = "check" /\ late = 0

\* create_panic_flag and clear_panic_flag, by an operator at any time.
RaiseFlag == /\ ~flag
             /\ flag' = TRUE
             /\ late' = 0
             /\ UNCHANGED <<omVars, phase>>

ClearFlag == /\ flag
             /\ flag' = FALSE
             /\ late' = 0
             /\ UNCHANGED <<omVars, phase>>

\* Variant: a cached answer from before the flag was raised.
StaleAnswer(readable) == FALSE

\* is_panic_active as require_no_panic calls it: the default cache_ttl_seconds
\* of 0 looks at the file every time, whatever the configuration says.  A flag
\* that cannot be looked at counts as none.
IsPanicActive(readable) == flag /\ readable

\* KillSwitch.check at the start of an iteration.
LoopCheck(readable) ==
  /\ phase = "check"
  /\ phase' = IF Enabled /\ IsPanicActive(readable) THEN "panic" ELSE "act"
  /\ late' = IF readable THEN late ELSE 0
  /\ UNCHANGED <<omVars, flag>>

Check == \E readable \in BOOLEAN : LoopCheck(readable)

\* One thing the loop asks of the manager in an iteration.
ManagerStep ==
  \/ \E f \in fills : OnFill(f)
  \/ \E m \in Mints : Tick(m)
  \/ \E a \in closing : Execute(a)
  \/ \E s \in Signals : \E size \in 0..Params[s].size :
        ForceClose(s, size) \/ ForcePartialClose(s, size)

\* Variant: the check runs once, before the loop.
AfterIterationUnchecked == "act"

AfterIteration == "check"

InLoop(Step) == /\ phase = "act"
                /\ Step
                /\ phase' = AfterIteration
                /\ late' = IF flag THEN late + 1 ELSE late
                /\ UNCHANGED flag

LoopAct == InLoop(ManagerStep)

LoopIdle == /\ phase = "act"
            /\ phase' = AfterIteration
            /\ UNCHANGED <<omVars, flag, late>>

\* The status a position must have for force_close_all_positions to see it.
OpenStatus == "open"

OpenPositions == {s \in DOMAIN positions : positions[s].status = OpenStatus}

\* emergency_shutdown: cancel_all_pending_orders is a placeholder, and
\* force_close_all_positions creates close actions that nobody executes.
EmergencyShutdown ==
  /\ phase = "panic"
  /\ phase' = "stopped"
  /\ positions' = Without(OpenPositions)
  /\ closing' = closing \cup {FullClose(s, "manual_close", 0) : s \in OpenPositions}
  /\ closes' = [s \in Signals |-> IF s \in OpenPositions THEN closes[s] + 1 ELSE closes[s]]
  /\ UNCHANGED <<now, fills, handled, held, lost, refused, flag, late>>

\* What happens around the loop.
Outside == (Advance \/ \E s \in Signals : VenueFill(s)) /\ UNCHANGED ksVars

KsNext == \/ RaiseFlag \/ ClearFlag
          \/ Check \/ LoopAct \/ LoopIdle \/ EmergencyShutdown
          \/ Outside

\* The loop never stops by itself, the clock runs, and every mint keeps ticking ("On tick
\* (periodic)"): as long as the loop keeps reaching a mint whose position is due, a tick
\* of that mint comes in the end.  Any look at the flag may fail, but not all of them.
KsSpec == /\ KsInit /\ [][KsNext]_allVars
          /\ WF_allVars(Check \/ LoopAct \/ LoopIdle \/ EmergencyShutdown)
          /\ SF_allVars(LoopCheck(TRUE))
          /\ WF_allVars(Advance /\ UNCHANGED ksVars)
          /\ \A m \in Mints : SF_allVars(InLoop(Tick(m)))

-----------------------------------------------------------------------------
(* Properties.                                                             *)

\* The check runs in every iteration (kill_switch.py:72) and fails open
\* (panic.py:61): once the flag is up, the manager does the one thing the loop had
\* already decided to do, and after that one more for each check that could not
\* look at the flag.
OneStepAfterPanic == late <= 1

\* A flag that stays up stops the loop, although looks at it may fail.
PanicStops == []flag ~> phase = "stopped"

\* A position does not stay ACTIVE past its TTL for ever, unless a panic stopped the
\* loop: what the emergency shutdown leaves behind, nothing closes any more.
ActiveEndsOrStopped ==
  \A s \in Signals : IsActive(s) ~> ~IsActive(s) \/ phase = "stopped"
=============================================================================
