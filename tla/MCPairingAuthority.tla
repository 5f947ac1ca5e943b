------------------------ MODULE MCPairingAuthority ------------------------
EXTENDS PairingAuthority, TLC

Symmetry == Permutations(Clients) \cup Permutations(Tokens)
=============================================================================
