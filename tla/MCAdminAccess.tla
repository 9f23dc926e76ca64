--------------------------- MODULE MCAdminAccess ---------------------------
EXTENDS AdminAccess, TLC

MCTraffics == {{"guess", "read"}, {"guess", "admin", "rotate"}}
MCSymmetry == Permutations(Peer) \cup Permutations(Worker)
=============================================================================
