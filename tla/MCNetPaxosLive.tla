--------------------------- MODULE MCNetPaxosLive ---------------------------
EXTENDS NetPaxosLive, NetPaxosInv

MCRequests == {[head |-> 1, tail |-> 1], [head |-> 1, tail |-> 2]}

=============================================================================
