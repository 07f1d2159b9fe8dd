----------------------------- MODULE MCConvergeAll -----------------------------
EXTENDS ConvergeAll

\* Three targets with different poll intervals.
Waits == [t \in 1..3 |-> t]

=============================================================================
