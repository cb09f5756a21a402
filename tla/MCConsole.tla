----------------------------- MODULE MCConsole ------------------------------
\* Console on a small instance; the exchanges are interchangeable.
EXTENDS Console, TLC

Symmetry == Permutations(Exchanges)

=============================================================================
