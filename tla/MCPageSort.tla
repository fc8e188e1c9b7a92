---------------------------- MODULE MCPageSort ----------------------------
EXTENDS PageSort

\* Equal keys among different ones.
MCRecords == 1 .. 5
MCKey == [r \in MCRecords |-> r \div 2]
=============================================================================
