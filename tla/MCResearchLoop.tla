--------------------------- MODULE MCResearchLoop ---------------------------
EXTENDS ResearchLoop, TLC

CONSTANTS p1, p2

\* One process searches, declares, spends the seals of options and hands off;
\* beside it another spends any seal and moves a rule by hand.
MCDoes == p1 :> Commands \ {"promote", "run"} @@ p2 :> SealedCommands \union {"promote"}

Symmetric ==
  Permutations(EquityRules) \union Permutations(OptionRules)
    \union Permutations(Runs) \union Permutations(Campaigns)
=============================================================================
