-------------------------- MODULE MCPaperPipeline --------------------------
(* The instance of PaperPipeline that TLC checks. *)
EXTENDS PaperPipeline

Trade(mode, tier, buy, gates) ==
  [trade |-> TRUE, mode |-> mode, tier |-> tier, buy |-> buy, size |-> 2, gates |-> gates]

\* A rejected record, trades with and without mode and profile, one mode unknown.
MCLines == {[Nobody EXCEPT !.mode = "S"],
            Trade("S", "", TRUE, TRUE), Trade("S", "tier1", TRUE, TRUE),
            Trade("", "tier1", FALSE, TRUE), Trade("", "", TRUE, TRUE),
            Trade("X", "tier1", TRUE, FALSE)}
MCResolved == <<"S">>
MCTierMax == [t \in {"tier1"} |-> 2]
MCModeMax == [m \in {"S", "U"} |-> IF m = "S" THEN 4 ELSE 2]
MCModeExposure == [m \in {"S", "U"} |-> IF m = "S" THEN 7 ELSE 4]
MCOptions == {[dryRun |-> TRUE, skipRisk |-> FALSE, onlyBuy |-> FALSE],
              [dryRun |-> TRUE, skipRisk |-> TRUE, onlyBuy |-> TRUE],
              [dryRun |-> FALSE, skipRisk |-> FALSE, onlyBuy |-> FALSE]}
=============================================================================
