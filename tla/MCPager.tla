------------------------------ MODULE MCPager ------------------------------
\* The instance of Pager for TLC: two processes, a page besides the first.
EXTENDS Pager, TLC

CONSTANTS p1, p2

MCProcesses == {p1, p2}
MCSymmetry == Permutations(MCProcesses)
MCDataPages == {2}
=============================================================================
