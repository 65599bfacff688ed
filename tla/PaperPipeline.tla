--------------------------- MODULE PaperPipeline ---------------------------
(***************************************************************************)
(* The main loop of the paper pipeline                                     *)
(* (src/integration/paper_pipeline.py), with the risk stage and the risk   *)
(* engine it calls (src/integration/risk_stage.py,                         *)
(* src/strategy/risk_engine.py), running beside the watcher of             *)
(* ConfigReloader.                                                         *)
(*                                                                         *)
(* A line of the input is a record of what the loop asks of it: whether it *)
(* is a trade, its mode and its wallet's tier ("" for none), side, size,   *)
(* and what the gates say.  The configuration is read at the head of the   *)
(* loop and used until its end, while the watcher runs on.                 *)
(***************************************************************************)
EXTENDS ConfigReloader, Sequences, FiniteSets, Functions

CONSTANTS Lines,         \* lines the input may consist of
          Modes, Tiers,  \* names of modes and tiers that occur in it
          ResolvedModes, \* the modes of the configuration, in sorted order
          TierMax,       \* tier_limits[tier].max_open_positions, for some tiers
          FallbackMax,   \* tier_limits.fallback_max_positions
          ModeMax,       \* limits.modes[mode].max_open, for some modes
          ModeExposure,  \* limits.modes[mode].max_exposure_usd, for the same modes
          Options,       \* settings of the command line to run under
          MaxLines       \* bound: lines of the input

ASSUME LinesAssumption ==
  Lines \subseteq [trade : BOOLEAN, mode : Modes \cup {""}, tier : Tiers \cup {""},
                   buy : BOOLEAN, size : Nat, gates : BOOLEAN]
ASSUME NamesAssumption ==
  /\ "" \notin Modes /\ "" \notin Tiers /\ IsFiniteSet(Tiers)
  /\ ResolvedModes \in Seq(Range(ResolvedModes))
ASSUME LimitAssumption ==
  /\ DOMAIN TierMax \subseteq Tiers /\ \A t \in DOMAIN TierMax : TierMax[t] \in Nat
  /\ DOMAIN ModeMax \subseteq Modes \cup {"U"} /\ \A m \in DOMAIN ModeMax : ModeMax[m] \in Nat
  /\ DOMAIN ModeExposure = DOMAIN ModeMax
  /\ \A m \in DOMAIN ModeExposure : ModeExposure[m] \in Nat
  /\ FallbackMax \in Nat
ASSUME OptionsAssumption ==
  Options \subseteq [dryRun : BOOLEAN, skipRisk : BOOLEAN, onlyBuy : BOOLEAN]
ASSUME LinesBoundAssumption == MaxLines \in Nat

VARIABLES options,    \* args
          pc,         \* "next", "line" while one is processed, or how the run ended
          line,       \* the line in hand
          limit,      \* cfg: max_open_positions as of the head of the loop
          tally,      \* the counters: of the run, of each mode and of each tier
          rows,       \* signal_rows, counted by stage and decision
          signals,    \* wrote_signals
          portfolio,  \* the PortfolioStub
          entered,    \* history: the trades that passed the risk stage
          highest     \* history: the highest limit any line was processed under

pipeline == <<options, pc, line, limit, tally, rows, signals, portfolio, entered, highest>>
vars == <<disk, conf, lastMtime, watcher, missed, options, pc, line, limit, tally, rows,
          signals, portfolio, entered, highest>>

Rejections == {"tier", "mode", "risk"}
Outcomes   == {"normalizer", "filtered", "gates"} \cup Rejections
Counters   == Outcomes \cup {"total", "normalized", "passed"}
Stages     == {"normalizer", "gates", "risk", "enter"}

ModeBuckets == Range(ResolvedModes) \cup {"U", "__unknown_mode__", "__no_mode__"}
TierBuckets == Tiers \cup {"__missing_wallet_profile__"}

\* pick_mode
ModeBucket(l) ==
  IF l.mode # ""
  THEN IF l.mode \in Range(ResolvedModes) THEN l.mode ELSE "__unknown_mode__"
  ELSE CASE "U" \in Range(ResolvedModes) -> "U"
         [] ResolvedModes = <<>>          -> "__no_mode__"
         [] OTHER                         -> ResolvedModes[1]

TierBucket(l) == IF l.trade /\ l.tier # "" THEN l.tier ELSE "__missing_wallet_profile__"

None == [c \in Counters |-> 0]
Nobody == [trade |-> FALSE, mode |-> "", tier |-> "", buy |-> FALSE, size |-> 0, gates |-> FALSE]

Init == /\ CrInit
        /\ options \in Options
        /\ pc = "next"
        /\ line = Nobody
        /\ limit = DefaultLimit
        /\ tally = [run |-> None, mode |-> [b \in ModeBuckets |-> None],
                    tier |-> [b \in TierBuckets |-> None]]
        /\ rows = [s \in Stages |-> 0]
        /\ signals = 0
        /\ portfolio = [open |-> 0, tiers |-> [t \in Tiers |-> 0],
                        modes |-> [m \in Modes \cup ModeBuckets |-> 0],
                        exposure |-> [m \in Modes \cup ModeBuckets |-> 0]]
        /\ entered = <<>>
        /\ highest = 0

-----------------------------------------------------------------------------
(* The counters, of which there are three of each.                         *)

Increment(table, cs) == [c \in Counters |-> table[c] + IF c \in cs THEN 1 ELSE 0]

\* Variant: the tier's counters miss what passed.
CountedWithoutTier(l, cs) ==
  [run |-> Increment(tally.run, cs),
   mode |-> [tally.mode EXCEPT ![ModeBucket(l)] = Increment(@, cs)],
   tier |-> IF "passed" \in cs THEN tally.tier
            ELSE [tally.tier EXCEPT ![TierBucket(l)] = Increment(@, cs)]]

Counted(l, cs) ==
  [run |-> Increment(tally.run, cs),
   mode |-> [tally.mode EXCEPT ![ModeBucket(l)] = Increment(@, cs)],
   tier |-> [tally.tier EXCEPT ![TierBucket(l)] = Increment(@, cs)]]

-----------------------------------------------------------------------------
(* The risk engine and the risk stage.                                     *)

\* What extra holds of the line: nothing at all if it has neither mode nor tier.
HasExtra(l)  == l.mode # "" \/ l.tier # ""
RiskMode(l)  == IF l.mode # "" THEN l.mode ELSE "U"
\* mode_from_trade, the name the pipeline itself books under.
TradeMode(l) == IF l.mode # "" THEN l.mode ELSE ModeBucket(l)

\* _check_tier_limits
TierAllows(l) ==
  IF l.tier = "" THEN portfolio.open < FallbackMax
  ELSE l.tier \in DOMAIN TierMax => portfolio.tiers[l.tier] < TierMax[l.tier]

\* Variant: the trade's own size is not added.
ModeAllowsBefore(l) ==
  RiskMode(l) \in DOMAIN ModeMax =>
    /\ portfolio.modes[RiskMode(l)] < ModeMax[RiskMode(l)]
    /\ portfolio.exposure[RiskMode(l)] < ModeExposure[RiskMode(l)]

\* _check_mode_limits
ModeAllows(l) ==
  RiskMode(l) \in DOMAIN ModeMax =>
    /\ portfolio.modes[RiskMode(l)] < ModeMax[RiskMode(l)]
    /\ portfolio.exposure[RiskMode(l)] + l.size < ModeExposure[RiskMode(l)]

\* apply_risk_limits: the first check that refuses gives the reason.  The cooldown, the
\* exposure per token and the daily loss never refuse, the pipeline leaves them at zero.
Reason(l) == CASE ~TierAllows(l)          -> "tier"
               [] ~ModeAllows(l)          -> "mode"
               [] portfolio.open >= limit -> "risk"
               [] OTHER                   -> "none"

Add(f, k, n) == [f EXCEPT ![k] = @ + n]

\* risk_stage
AfterRiskStage(p, l) ==
  [open     |-> p.open + 1,
   tiers    |-> IF l.tier # "" THEN Add(p.tiers, l.tier, 1) ELSE p.tiers,
   modes    |-> IF HasExtra(l) THEN Add(p.modes, RiskMode(l), 1) ELSE p.modes,
   exposure |-> IF HasExtra(l) THEN Add(p.exposure, RiskMode(l), l.size) ELSE p.exposure]

\* The pipeline's own update, after the stage's: a trade with a mode is counted twice.
AfterPipeline(p, l) ==
  [open |-> p.open, tiers |-> p.tiers, modes |-> Add(p.modes, TradeMode(l), 1),
   exposure |-> Add(p.exposure, TradeMode(l), l.size)]

-----------------------------------------------------------------------------
(* One turn of the loop.                                                   *)

\* The head: configuration, kill switch, counters.  Without --dry-run the kill switch is
\* imported by a name that ops/panic.py does not define, and the run dies.
NextLine(l) ==
  /\ pc = "next" /\ Started
  /\ tally.run["total"] < MaxLines
  /\ line' = l
  /\ limit' = RuntimeLimit
  /\ highest' = IF RuntimeLimit > highest THEN RuntimeLimit ELSE highest
  /\ IF options.dryRun
     THEN pc' = "line" /\ tally' = Counted(l, {"total"})
     ELSE /\ pc' = "died"
          /\ tally' = [run |-> Increment(tally.run, {"total"}),
                       mode |-> tally.mode, tier |-> tally.tier]
  /\ UNCHANGED <<options, rows, signals, portfolio, entered, reloader>>

EndOfInput == /\ pc = "next" /\ Started
              /\ pc' = "done"
              /\ UNCHANGED <<options, line, limit, tally, rows, signals, portfolio,
                             entered, highest, reloader>>

Passes == line.trade /\ (options.onlyBuy => line.buy) /\ line.gates
Stop(outcome, cs, stage) ==
  /\ pc = "line"
  /\ pc' = "next"
  /\ tally' = Counted(line, cs \cup {outcome})
  /\ rows' = IF stage = "none" THEN rows ELSE Add(rows, stage, 1)
  /\ UNCHANGED <<options, line, limit, signals, portfolio, entered, highest, reloader>>

NormalizerRejects == ~line.trade /\ Stop("normalizer", {}, "normalizer")

FilteredOut == /\ line.trade /\ options.onlyBuy /\ ~line.buy
               /\ Stop("filtered", {"normalized"}, "none")

GatesReject == /\ line.trade /\ (options.onlyBuy => line.buy) /\ ~line.gates
               /\ Stop("gates", {"normalized"}, "gates")

RiskRejects == /\ Passes /\ ~options.skipRisk /\ Reason(line) # "none"
               /\ Stop(Reason(line), {"normalized", "passed"}, "risk")

\* Only a BUY becomes an ENTER row.
RowOf(l) == IF l.buy THEN Add(rows, "enter", 1) ELSE rows

Enter ==
  /\ pc = "line" /\ Passes
  /\ options.skipRisk \/ Reason(line) = "none"
  /\ pc' = "next"
  /\ tally' = Counted(line, {"normalized", "passed"})
  /\ portfolio' = AfterPipeline(IF options.skipRisk THEN portfolio
                                ELSE AfterRiskStage(portfolio, line), line)
  /\ rows' = RowOf(line)
  /\ signals' = signals + 1
  /\ entered' = Append(entered, line)
  /\ UNCHANGED <<options, line, limit, highest, reloader>>

Process == NormalizerRejects \/ FilteredOut \/ GatesReject \/ RiskRejects \/ Enter

Next == \/ \E l \in Lines : NextLine(l)
        \/ EndOfInput \/ Process
        \/ (Loading \/ Watch \/ \E c \in Contents : Edit(c)) /\ UNCHANGED pipeline

Spec == Init /\ [][Next]_vars

\* The constructor and the watcher run by themselves.
FairSpec == Spec /\ WF_vars((Loading \/ Watch) /\ UNCHANGED pipeline)

-----------------------------------------------------------------------------
(* Properties.                                                             *)

Tables == [run : [Counters -> Nat], mode : [ModeBuckets -> [Counters -> Nat]],
           tier : [TierBuckets -> [Counters -> Nat]]]
Names  == Modes \cup ModeBuckets

TypeOK ==
  /\ CrTypeOK
  /\ options \in Options /\ pc \in {"next", "line", "done", "died"}
  /\ line \in Lines \cup {Nobody} /\ limit \in Limits /\ highest \in Limits \cup {0}
  /\ tally \in Tables /\ rows \in [Stages -> Nat] /\ signals \in Nat
  /\ portfolio \in [open : Nat, tiers : [Tiers -> Nat], modes : [Names -> Nat],
                    exposure : [Names -> Nat]]
  /\ entered \in Seq(Lines)

Balanced(t, inHand) ==
  /\ t["total"] = t["normalizer"] + t["normalized"] + inHand
  /\ t["normalized"] = t["filtered"] + t["gates"] + t["passed"]
InHand(isIts) == IF pc = "line" /\ isIts THEN 1 ELSE 0
Column(table, c) == SumFunction([b \in DOMAIN table |-> table[b][c]])
AtRisk == tally.run["tier"] + tally.run["mode"] + tally.run["risk"]
Bought == {i \in DOMAIN entered : entered[i].buy}

\* The summary and the dump of signals tell one story.  Every line ends in exactly one
\* outcome, in every table: what came in was rejected, filtered or passed, what passed was
\* rejected by the risk stage or written, and the tables of the modes and of the tiers
\* each add up to the run's.  Each rejection, and each signal that is not a SELL, has its
\* row.
CountsAddUp ==
  \/ pc = "died"
  \/ /\ Balanced(tally.run, InHand(TRUE))
     /\ \A b \in ModeBuckets : Balanced(tally.mode[b], InHand(b = ModeBucket(line)))
     /\ \A b \in TierBuckets : Balanced(tally.tier[b], InHand(b = TierBucket(line)))
     /\ \A c \in Counters : /\ tally.run[c] = Column(tally.mode, c)
                            /\ tally.run[c] = Column(tally.tier, c)
     /\ tally.run["passed"] = AtRisk + signals
     /\ rows["normalizer"] = tally.run["normalizer"]
     /\ rows["gates"] = tally.run["gates"]
     /\ rows["risk"] = AtRisk
     /\ rows["enter"] = Cardinality(Bought)
     /\ signals = Len(entered)

OfTier(t) == {i \in DOMAIN entered : entered[i].tier = t}
OfMode(m) == {i \in DOMAIN entered : HasExtra(entered[i]) /\ RiskMode(entered[i]) = m}
Value(S)  == SumFunctionOnSet([i \in DOMAIN entered |-> entered[i].size], S)

\* However the configuration changes while lines are processed, and although two places
\* book the same trade under names they work out differently, the trades let in stay
\* within every limit: of their tier, of the mode the risk stage takes them for, in number
\* and in value, of the wallets without a profile, and of the highest configuration that
\* was in force.
AdmissionsLimited ==
  \/ options.skipRisk
  \/ /\ Len(entered) <= highest
     /\ OfTier("") # {} => Cardinality(OfTier("")) <= FallbackMax
     /\ \A t \in DOMAIN TierMax : Cardinality(OfTier(t)) <= TierMax[t]
     /\ \A m \in DOMAIN ModeMax :
          /\ Cardinality(OfMode(m)) <= ModeMax[m]
          /\ OfMode(m) # {} => Value(OfMode(m)) < ModeExposure[m]
=============================================================================
