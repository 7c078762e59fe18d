---------------------- MODULE MCProfitabilityResearch ----------------------
EXTENDS ProfitabilityResearch, TLC
CONSTANTS btc, eth
Symmetry == Permutations(Symbols)
=============================================================================
