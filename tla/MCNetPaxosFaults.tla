-------------------------- MODULE MCNetPaxosFaults --------------------------
EXTENDS NetPaxosFaults

MCRequests == {[head |-> 1, tail |-> 1], [head |-> 2, tail |-> 0]}
MCOneRequest == {[head |-> 1, tail |-> 1]}
Phase1a == {phase1a}
BothPhases == {phase1a, phase2a}

=============================================================================
