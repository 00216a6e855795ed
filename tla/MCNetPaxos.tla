----------------------------- MODULE MCNetPaxos -----------------------------
EXTENDS NetPaxosInv

MCRequests == {[head |-> 1, tail |-> 1], [head |-> 1, tail |-> 2]}
MCOneRequest == {[head |-> 1, tail |-> 1]}

\* A vote of acceptor 0 in instance 0 with bytes that no one proposed.
MCGarbage == {pack([ZeroMessage EXCEPT !.msgtype = phase2b,
                                       !.paxosval = [head |-> 9, tail |-> 9]])}

=============================================================================
