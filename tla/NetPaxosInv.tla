----------------------------- MODULE NetPaxosInv -----------------------------
(***************************************************************************)
(* The inductive invariant behind the safety of NetPaxos as long as no     *)
(* acceptor makes a late call of on_value; there is none while the         *)
(* coordinator assigns no instance beyond MAXINST (Fits).  Then there is   *)
(* one proposal per instance, in round 0, and everything downstream is a   *)
(* trace of that proposal.                                                 *)
(***************************************************************************)
EXTENDS NetPaxos

Fits == LastInst <= MaxInst

\* What the coordinator receives are phase-2a messages of round 0.
RequestsInv ==
  \A w \in to_coordinator :
    /\ w.rnd = 0 /\ w.msgtype = htons(phase2a)
    /\ w.paxosval \in Requests /\ w.client \in Clients

\* It forwarded one of them for every instance assigned, and no second one.
ProposalsInv ==
  /\ \A x \in to_acceptors :
       /\ \E i \in 0 .. cur_inst - 1 : x.inst = htonl(i)
       /\ x.rnd = 0 /\ x.msgtype = htons(phase2a)
       /\ x.paxosval \in Requests /\ x.client \in Clients
  /\ \A i \in 0 .. cur_inst - 1 : \E x \in to_acceptors : x.inst = htonl(i)
  /\ \A x, y \in to_acceptors : x.inst = y.inst => x = y

\* v was proposed in instance i.
Proposed(i, v) == \E x \in to_acceptors : x.inst = htonl(i) /\ x.paxosval = v

\* Acceptors accept proposals only.
AcceptedInv ==
  \A t \in accepted : t[3] = 0 /\ Proposed(t[2], t[4])

\* The datagram w is acceptor a's vote for the proposal of instance i.
IsVote(w, a, i) ==
  /\ w.rnd = 0 /\ w.acptid = htons(a) /\ w.msgtype = htons(phase2b)
  /\ <<a, i, 0, w.paxosval>> \in accepted
  /\ \E x \in to_acceptors :
       /\ x.inst = htonl(i) /\ w.inst = x.inst
       /\ w.paxosval = x.paxosval /\ w.client = x.client

RealVote(w) == \E a \in Acceptors, i \in Insts : IsVote(w, a, i)

(***************************************************************************)
(* An acceptor stays in round 0 and answers every datagram of a batch, so  *)
(* that reply number k is built in out_bufs[k] and is a vote when it is    *)
(* sent.  The return at MAXINST leaves fewer than Vlen replies; nothing is *)
(* known of a late call that starts from them.                             *)
(***************************************************************************)
BufferOK(a) ==
  /\ \A i \in Insts : a_states[a][i].rnd = 0
  /\ \A k \in 1 .. Len(a_bufs[a]) : a_bufs[a][k] \in to_acceptors
  /\ a_sig[a] = "none" =>
       /\ a_pc[a] # "stopped"
       /\ a_count[a] = IF a_pc[a] = "loop" THEN a_i[a] - 1 ELSE 0
  /\ a_sig[a] = "raised" => a_pc[a] # "loop" /\ a_count[a] < Vlen
  /\ a_sig[a] # "last" => \A k \in 1 .. a_count[a] : RealVote(a_out_bufs[a][k])

BuffersInv == \A a \in Acceptors : BufferOK(a)

\* Every datagram sent to the learners is a vote.
VotesInv == \A w \in to_learners : RealVote(w)

\* A learner's count is the number of acceptors in the mask, and each of
\* them accepted the value in the learner's buffer.
CountsInv ==
  \A l \in Learners, i \in Insts :
    LET s == l_states[l][i]
    IN /\ s.rnd = 0
       /\ s.from \subseteq Acceptors
       /\ s.count = Cardinality(s.from)
       /\ \A a \in s.from : <<a, i, 0, s.paxosval>> \in accepted
       /\ s.finished => s.count = maj

\* What was delivered is finished, with the buffer it was delivered from.
LogInv ==
  \A l \in Learners :
    /\ \A k \in 1 .. Len(log[l]) :
         LET s == l_states[l][log[l][k].inst]
         IN s.finished /\ s.paxosval = log[l][k].value
    /\ \A j, k \in 1 .. Len(log[l]) : log[l][j].inst = log[l][k].inst => j = k

\* An answer goes to the client of a proposal that a majority accepted.
AnswersInv ==
  \A p \in to_clients :
    /\ Cardinality(Voters(p.inst, 0, p.value)) >= maj
    /\ \E x \in to_acceptors :
         x.inst = htonl(p.inst) /\ x.paxosval = p.value /\ x.client = p.client

(***************************************************************************)
(* The inductive invariant, in two parts.  What the coordinator and the    *)
(* acceptors do has its own: one proposal per instance, every reply buffer *)
(* in step with its index.  What the learners hear, count and answer is    *)
(* real as long as no late call happens.                                   *)
(***************************************************************************)
SendersInv == RequestsInv /\ ProposalsInv /\ AcceptedInv /\ BuffersInv

ReceiversInv == VotesInv /\ CountsInv /\ LogInv /\ AnswersInv

Inv == SendersInv /\ ReceiversInv

=============================================================================
