---------------------------- MODULE NetPaxosSafety ----------------------------
(***************************************************************************)
(* The safety of NetPaxos.  The coordinator's and the acceptors' part of   *)
(* the invariant is inductive for every configuration, also when instances *)
(* are counted past MAXINST; the learners' part is, until an acceptor      *)
(* makes a late call of on_value.  In a deployment that Fits there is no   *)
(* late call, and the deployment implements the sequencer: initial states  *)
(* map to the empty sequencer, and every step is one of its steps or       *)
(* changes nothing it shows.                                               *)
(***************************************************************************)
EXTENDS NetPaxosInv, NetPaxosProofs, SequenceTheorems

-----------------------------------------------------------------------------
(* Byte order *)

\* Zero is the same in both byte orders.
LEMMA HtonsZero == htons(0) = 0
  BY SMT DEF htons

\* Every table index has 31 bits.
LEMMA InstsInt32 ==
  ASSUME NEW i \in Insts
  PROVE  i \in Int32
<1>1. MaxInst \in Nat /\ MaxInst \div 16777216 < 128
  BY ConfigAssumption, SMT DEF Int32
<1>2. i \in Nat /\ i < MaxInst
  BY <1>1, SMT DEF Insts
<1>3. i \div 16777216 < 128
  BY <1>1, <1>2, SMT
<1> QED BY <1>2, <1>3, SMT DEF Int32

\* So has the counter of the coordinator.
LEMMA CounterInt32 ==
  ASSUME TypeOK
  PROVE  cur_inst \in Int32 /\ cur_inst \in Nat
<1>1. LastInst \in Nat /\ LastInst \div 16777216 < 128
  BY LastInstAssumption, SMT DEF Int32
<1>2. cur_inst \in Nat /\ cur_inst <= LastInst
  BY <1>1, SMT DEF TypeOK
<1>3. cur_inst \div 16777216 < 128
  BY <1>1, <1>2, SMT
<1> QED BY <1>2, <1>3, SMT DEF Int32

\* Different instances differ on the wire.
LEMMA HtonlInjective ==
  ASSUME NEW i \in Int32, NEW j \in Int32, htonl(i) = htonl(j)
  PROVE  i = j
  BY HtonlInvolution

\* What the reader of a vote unpacks.
LEMMA VoteRead ==
  ASSUME NEW w \in Message, NEW a \in Acceptors, NEW i \in Insts, IsVote(w, a, i)
  PROVE  /\ unpack(w).inst = i
         /\ unpack(w).rnd = 0
         /\ unpack(w).acptid = a
         /\ unpack(w).msgtype = phase2b
         /\ unpack(w).paxosval = w.paxosval
         /\ unpack(w).client = w.client
<1>1. htonl(w.inst) = i
  BY InstsInt32, HtonlInvolution DEF IsVote
<1>2. htons(w.rnd) = 0 /\ htons(w.acptid) = a /\ htons(w.msgtype) = phase2b
  BY HtonsZero, HtonsInvolution, AcceptorsUint16, Uint16Constants DEF IsVote
<1> QED BY <1>1, <1>2 DEF unpack, Message

\* So have the instances the coordinator assigned.
LEMMA AssignedInt32 ==
  ASSUME TypeOK, NEW i \in 0 .. cur_inst - 1
  PROVE  i \in Int32
<1>1. cur_inst \in Nat /\ cur_inst \div 16777216 < 128
  BY CounterInt32, SMT DEF Int32
<1>2. i \in Nat /\ i < cur_inst
  BY <1>1, SMT
<1>3. i \div 16777216 < 128
  BY <1>1, <1>2, SMT
<1> QED BY <1>2, <1>3, SMT DEF Int32

\* What an acceptor unpacks is the proposal of an assigned instance.
LEMMA CurrentProposal ==
  ASSUME TypeOK, SendersInv, NEW a \in Acceptors, InLoop(a)
  PROVE  \E x \in to_acceptors, i \in 0 .. cur_inst - 1 :
           /\ x.inst = htonl(i) /\ x.rnd = 0
           /\ Current(a) = unpack(x)
           /\ Current(a).inst = i /\ Current(a).rnd = 0
           /\ Current(a).msgtype = phase2a
           /\ Current(a).paxosval = x.paxosval /\ Current(a).client = x.client
<1> DEFINE x == a_bufs[a][a_i[a]]
<1>1. x \in Message /\ a_i[a] \in 1 .. Vlen
  BY CurrentType
<1>2. a_i[a] \in 1 .. Len(a_bufs[a])
  BY <1>1, ConfigAssumption DEF InLoop, TypeOK, AcceptorTypeOK
<1>3. x \in to_acceptors
  BY <1>2 DEF SendersInv, BuffersInv, BufferOK
<1>4. PICK i \in 0 .. cur_inst - 1 : x.inst = htonl(i)
  BY <1>3 DEF SendersInv, ProposalsInv
<1>5. i \in Int32
  BY AssignedInt32
<1>6. x.rnd = 0 /\ x.msgtype = htons(phase2a)
  BY <1>3 DEF SendersInv, ProposalsInv
<1>7. htonl(x.inst) = i /\ htons(x.rnd) = 0 /\ htons(x.msgtype) = phase2a
  BY <1>4, <1>5, <1>6, HtonlInvolution, HtonsInvolution, HtonsZero, Uint16Constants
<1>8. Current(a) = unpack(x)
  BY DEF Current
<1> HIDE DEF x
<1>9. /\ unpack(x).inst = i /\ unpack(x).rnd = 0 /\ unpack(x).msgtype = phase2a
      /\ unpack(x).paxosval = x.paxosval /\ unpack(x).client = x.client
  BY <1>1, <1>7 DEF unpack, Message
<1> QED BY <1>3, <1>4, <1>5, <1>6, <1>8, <1>9

-----------------------------------------------------------------------------
(* The majority *)

\* A majority is not empty and is at most all acceptors.
LEMMA MajPositive == maj \in Nat /\ maj >= 1 /\ 2 * maj > NumAcceptors
<1>1. NumAcceptors \in 1 .. 31
  BY ConfigAssumption
<1> QED BY <1>1, SMT DEF maj

\* There are finitely many acceptors.
LEMMA AcceptorsFinite == IsFiniteSet(Acceptors)
<1>1. NumAcceptors \in Nat
  BY ConfigAssumption
<1> QED BY <1>1, FS_Interval DEF Acceptors

-----------------------------------------------------------------------------
(* The coordinator and the acceptors, whether or not a late call happens *)

\* The initial state satisfies the invariant.
LEMMA InitInv == Init => Inv
<1> SUFFICES ASSUME Init PROVE Inv
  OBVIOUS
<1>1. /\ to_coordinator = {} /\ to_acceptors = {} /\ to_learners = {}
      /\ to_clients = {} /\ cur_inst = 0 /\ accepted = {}
  BY DEF Init, NothingSent, CoordinatorInit, AcceptorInit
<1>2. RequestsInv /\ AcceptedInv /\ VotesInv /\ AnswersInv
  BY <1>1 DEF RequestsInv, AcceptedInv, VotesInv, AnswersInv
<1>3. ProposalsInv
  <2>1. 0 .. cur_inst - 1 = {}
    BY <1>1
  <2> QED BY <1>1, <2>1 DEF ProposalsInv
<1>4. BuffersInv
  BY DEF BuffersInv, BufferOK, Init, AcceptorInit, NewStates
<1>5. CountsInv
  BY FS_EmptySet DEF CountsInv, Init, LearnerInit, NewLearner
<1>6. LogInv
  BY DEF LogInv, Init, LearnerInit
<1> QED BY <1>2, <1>3, <1>4, <1>5, <1>6 DEF Inv, SendersInv, ReceiversInv

\* A vote stays one when more is proposed and accepted.
LEMMA RealVoteStays ==
  ASSUME NEW w, RealVote(w), to_acceptors \subseteq to_acceptors',
         accepted \subseteq accepted'
  PROVE  \E a \in Acceptors, i \in Insts :
           /\ w.rnd = 0 /\ w.acptid = htons(a) /\ w.msgtype = htons(phase2b)
           /\ <<a, i, 0, w.paxosval>> \in accepted'
           /\ \E x \in to_acceptors' :
                /\ x.inst = htonl(i) /\ w.inst = x.inst
                /\ w.paxosval = x.paxosval /\ w.client = x.client
  BY DEF RealVote, IsVote

\* The buffers of an acceptor that does nothing.
LEMMA BufferStays ==
  ASSUME NEW b \in Acceptors, BufferOK(b), to_acceptors \subseteq to_acceptors',
         accepted \subseteq accepted',
         a_states'[b] = a_states[b], a_bufs'[b] = a_bufs[b], a_i'[b] = a_i[b],
         a_out_bufs'[b] = a_out_bufs[b], a_count'[b] = a_count[b],
         a_pc'[b] = a_pc[b], a_sig'[b] = a_sig[b]
  PROVE  BufferOK(b)'
<1>1. ASSUME a_sig[b] # "last", NEW k \in 1 .. a_count[b]
      PROVE  RealVote(a_out_bufs[b][k])'
  <2>1. PICK w : w = a_out_bufs[b][k]
    OBVIOUS
  <2>2. RealVote(w)
    BY <1>1, <2>1 DEF BufferOK
  <2>3. RealVote(w)'
    BY <2>2, RealVoteStays DEF RealVote, IsVote
  <2>4. a_out_bufs'[b][k] = w
    BY <2>1
  <2> QED BY <2>3, <2>4 DEF RealVote, IsVote
<1>2. /\ \A i \in Insts : a_states'[b][i].rnd = 0
      /\ \A k \in 1 .. Len(a_bufs'[b]) : a_bufs'[b][k] \in to_acceptors'
      /\ a_sig'[b] = "none" =>
           /\ a_pc'[b] # "stopped"
           /\ a_count'[b] = IF a_pc'[b] = "loop" THEN a_i'[b] - 1 ELSE 0
      /\ a_sig'[b] = "raised" => a_pc'[b] # "loop" /\ a_count'[b] < Vlen
  BY DEF BufferOK
<1> QED BY <1>1, <1>2 DEF BufferOK

\* Further proposals disturb no acceptor.
LEMMA BuffersStay ==
  ASSUME BuffersInv, to_acceptors \subseteq to_acceptors', UNCHANGED acceptorvars
  PROVE  BuffersInv'
<1>1. ASSUME NEW b \in Acceptors PROVE BufferOK(b)'
  BY <1>1, BufferStays DEF BuffersInv, acceptorvars
<1> QED BY <1>1 DEF BuffersInv

\* Steps that leave the coordinator's and the acceptors' side alone.
LEMMA SendersStay ==
  ASSUME SendersInv, UNCHANGED <<to_coordinator, to_acceptors, cur_inst, acceptorvars>>
  PROVE  SendersInv'
<1>1. BuffersInv'
  BY BuffersStay DEF SendersInv
<1>2. RequestsInv' /\ ProposalsInv' /\ AcceptedInv'
  BY DEF SendersInv, RequestsInv, ProposalsInv, AcceptedInv, Proposed, acceptorvars
<1> QED BY <1>1, <1>2 DEF SendersInv

\* submit adds a phase-2a message of round 0.
LEMMA ProposerSenders ==
  ASSUME TypeOK, SendersInv, ProposerNext
  PROVE  SendersInv'
<1>1. PICK c \in Clients, v \in Requests : submit(c, v)
  BY DEF ProposerNext
<1> DEFINE m == [initialize_message(phase2a) EXCEPT !.paxosval = v, !.client = c]
           w == pack(m)
<1>2. m.rnd = 0 /\ m.msgtype = phase2a /\ m.paxosval = v /\ m.client = c
  BY DEF initialize_message, ZeroMessage
<1>3. m \in Message
  BY SubmitType
<1>4. to_coordinator' = to_coordinator \cup {w}
  BY <1>1 DEF submit
<1> HIDE DEF m
<1>5. /\ w.rnd = htons(m.rnd) /\ w.msgtype = htons(m.msgtype)
      /\ w.paxosval = m.paxosval /\ w.client = m.client
  BY <1>3 DEF pack, Message
<1> HIDE DEF w
<1>6. RequestsInv'
  BY <1>2, <1>5, <1>4, HtonsZero DEF SendersInv, RequestsInv
<1>7. UNCHANGED <<to_acceptors, cur_inst, acceptorvars>>
  BY <1>1 DEF submit, ProposerNext
<1>8. ProposalsInv' /\ AcceptedInv'
  BY <1>7 DEF SendersInv, ProposalsInv, AcceptedInv, Proposed, acceptorvars
<1>9. BuffersInv'
  BY <1>7, BuffersStay DEF SendersInv
<1> QED BY <1>6, <1>8, <1>9 DEF SendersInv

\* The coordinator adds the only proposal of a new instance.
LEMMA CoordinatorSenders ==
  ASSUME TypeOK, SendersInv, CoordinatorNext
  PROVE  SendersInv'
<1>1. PICK w \in to_coordinator :
        to_acceptors' = to_acceptors \cup {[w EXCEPT !.inst = htonl(cur_inst)]}
  BY DEF CoordinatorNext, CoordinatorOnValue
<1> DEFINE x == [w EXCEPT !.inst = htonl(cur_inst)]
<1>2. w \in Message
  BY DEF TypeOK
<1>3. /\ x.inst = htonl(cur_inst) /\ x.rnd = 0 /\ x.msgtype = htons(phase2a)
      /\ x.paxosval \in Requests /\ x.client \in Clients
  BY <1>2 DEF Message, SendersInv, RequestsInv
<1>4. cur_inst \in Nat /\ cur_inst \in Int32 /\ cur_inst' = cur_inst + 1
  BY CounterInt32 DEF CoordinatorNext, CoordinatorOnValue
<1>5. /\ UNCHANGED <<to_coordinator, to_learners, to_clients>>
      /\ UNCHANGED <<acceptorvars, learnervars>>
  BY DEF CoordinatorNext, CoordinatorOnValue
<1>6. to_acceptors' = to_acceptors \cup {x}
  BY <1>1
<1> HIDE DEF x
<1>7. \A y \in to_acceptors : y.inst # x.inst
  <2> SUFFICES ASSUME NEW y \in to_acceptors, y.inst = x.inst PROVE FALSE
    OBVIOUS
  <2>1. PICK i \in 0 .. cur_inst - 1 : y.inst = htonl(i)
    BY DEF SendersInv, ProposalsInv
  <2>2. i \in Nat /\ i < cur_inst
    BY <1>4, <2>1
  <2>3. i \in Int32
    BY AssignedInt32
  <2> QED BY <1>3, <1>4, <2>1, <2>2, <2>3, HtonlInjective
<1>8. ProposalsInv'
  <2>1. \A y \in to_acceptors' :
          /\ \E i \in 0 .. cur_inst' - 1 : y.inst = htonl(i)
          /\ y.rnd = 0 /\ y.msgtype = htons(phase2a)
          /\ y.paxosval \in Requests /\ y.client \in Clients
    <3> SUFFICES ASSUME NEW y \in to_acceptors'
                 PROVE  /\ \E i \in 0 .. cur_inst' - 1 : y.inst = htonl(i)
                        /\ y.rnd = 0 /\ y.msgtype = htons(phase2a)
                        /\ y.paxosval \in Requests /\ y.client \in Clients
      OBVIOUS
    <3>1. CASE y = x
      <4>1. cur_inst \in 0 .. cur_inst' - 1
        BY <1>4
      <4> QED BY <1>3, <3>1, <4>1
    <3>2. CASE y \in to_acceptors
      <4>1. 0 .. cur_inst - 1 \subseteq 0 .. cur_inst' - 1
        BY <1>4
      <4> QED BY <3>2, <4>1 DEF SendersInv, ProposalsInv
    <3> QED BY <1>6, <3>1, <3>2
  <2>2. \A i \in 0 .. cur_inst' - 1 : \E y \in to_acceptors' : y.inst = htonl(i)
    <3> SUFFICES ASSUME NEW i \in 0 .. cur_inst' - 1
                 PROVE  \E y \in to_acceptors' : y.inst = htonl(i)
      OBVIOUS
    <3>1. i = cur_inst \/ i \in 0 .. cur_inst - 1
      BY <1>4
    <3> QED BY <1>3, <1>6, <3>1 DEF SendersInv, ProposalsInv
  <2>3. \A y, z \in to_acceptors' : y.inst = z.inst => y = z
    BY <1>6, <1>7 DEF SendersInv, ProposalsInv
  <2> QED BY <2>1, <2>2, <2>3 DEF ProposalsInv
<1>9. AcceptedInv'
  BY <1>5, <1>6 DEF SendersInv, AcceptedInv, Proposed, acceptorvars
<1>10. BuffersInv'
  BY <1>5, <1>6, BuffersStay DEF SendersInv
<1>11. RequestsInv'
  BY <1>5 DEF SendersInv, RequestsInv
<1> QED BY <1>8, <1>9, <1>10, <1>11 DEF SendersInv

(***************************************************************************)
(* handle_phase2a: a proposal is never turned down, so that the reply is   *)
(* built in out_bufs[count_accepted], but for a late call.                 *)
(***************************************************************************)
LEMMA Phase2aSenders ==
  ASSUME TypeOK, SendersInv, NEW a \in Acceptors, handle_phase2a(a)
  PROVE  /\ AcceptedInv' /\ BufferOK(a)' /\ accepted \subseteq accepted'
<1>1. InLoop(a) /\ Current(a).inst < MaxInst
  BY DEF handle_phase2a
<1>2. PICK x \in to_acceptors, i \in 0 .. cur_inst - 1 :
        /\ x.inst = htonl(i) /\ x.rnd = 0
        /\ Current(a) = unpack(x)
        /\ Current(a).inst = i /\ Current(a).rnd = 0
        /\ Current(a).msgtype = phase2a
        /\ Current(a).paxosval = x.paxosval /\ Current(a).client = x.client
  BY <1>1, CurrentProposal
<1> DEFINE m == Current(a)
           reply == [m EXCEPT !.acptid = a, !.msgtype = phase2b]
           w == pack(reply)
           n == a_i[a]
<1>3. m \in Message /\ n \in 1 .. Vlen
  BY <1>1, CurrentType
<1>4. i \in Insts
  BY <1>1, <1>2, <1>3, InstInRange DEF Message
<1>5. /\ Answer(a, reply)
      /\ accepted' = accepted \cup {<<a, i, 0, x.paxosval>>}
      /\ \A j \in Insts : a_states'[a][j].rnd = 0
  <2>1. /\ Answer(a, reply)
        /\ accepted' = accepted \cup {<<a, i, 0, x.paxosval>>}
        /\ a_states' = [a_states EXCEPT ![a][i] =
                          [rnd |-> 0, vrnd |-> 0,
                           paxosval |-> strcpy(@.paxosval, x.paxosval)]]
    BY <1>2 DEF handle_phase2a
  <2>2. \A j \in Insts : a_states[a][j].rnd = 0
    BY DEF SendersInv, BuffersInv, BufferOK
  <2> QED BY <1>4, <2>1, <2>2 DEF TypeOK, AcceptorTypeOK
<1>6. /\ w.inst = htonl(i) /\ w.rnd = 0 /\ w.acptid = htons(a)
      /\ w.msgtype = htons(phase2b)
      /\ w.paxosval = x.paxosval /\ w.client = x.client
  <2>1. reply \in Message
    BY <1>3, AcceptorsUint16, Uint16Constants DEF Message
  <2>2. /\ reply.inst = i /\ reply.rnd = 0 /\ reply.acptid = a
        /\ reply.msgtype = phase2b
        /\ reply.paxosval = x.paxosval /\ reply.client = x.client
    BY <1>2, <1>3 DEF Message
  <2> HIDE DEF reply
  <2> QED BY <2>1, <2>2, HtonsZero DEF pack, Message
<1>7. /\ a_out_bufs'[a] = [a_out_bufs[a] EXCEPT ![n] = w]
      /\ a_i'[a] = n + 1 /\ a_count'[a] = a_count[a] + 1
      /\ UNCHANGED <<a_pc, a_bufs, a_sig, to_acceptors>>
  BY <1>5 DEF Answer, netvars, TypeOK, AcceptorTypeOK
<1>8. /\ a_pc[a] = "loop" /\ a_out_bufs[a] \in [1 .. Vlen -> Message]
      /\ a_sig[a] = "none" => a_count[a] = n - 1
      /\ a_sig[a] # "raised"
      /\ \A k \in 1 .. Len(a_bufs[a]) : a_bufs[a][k] \in to_acceptors
      /\ a_sig[a] # "last" => \A k \in 1 .. a_count[a] : RealVote(a_out_bufs[a][k])
  BY <1>1 DEF InLoop, SendersInv, BuffersInv, BufferOK, TypeOK, AcceptorTypeOK
<1> HIDE DEF w, reply, m, n
<1>9. accepted \subseteq accepted' /\ <<a, i, 0, x.paxosval>> \in accepted'
  BY <1>5
<1>10. a_sig[a] \in {"none", "raised", "last"} /\ n \in Nat
  BY <1>3, ConfigAssumption DEF TypeOK, AcceptorTypeOK
<1>11. ASSUME a_sig[a] # "last", NEW k \in 1 .. a_count'[a]
       PROVE  RealVote(a_out_bufs[a][k])'
  <2>1. a_count'[a] = n /\ a_count[a] = n - 1
    BY <1>7, <1>8, <1>10, <1>11
  <2>2. CASE k = n
    <3>1. a_out_bufs'[a][k] = w
      BY <1>3, <1>7, <1>8, <2>2
    <3>2. IsVote(a_out_bufs[a][k], a, i)'
      BY <1>2, <1>6, <1>7, <1>9, <3>1 DEF IsVote
    <3> QED BY <1>4, <3>2 DEF RealVote
  <2>3. CASE k # n
    <3>1. k \in 1 .. a_count[a]
      BY <1>10, <1>11, <2>1, <2>3
    <3>2. a_out_bufs'[a][k] = a_out_bufs[a][k]
      BY <1>3, <1>7, <1>8, <2>1, <2>3
    <3>3. RealVote(a_out_bufs[a][k])
      BY <1>8, <1>11, <3>1
    <3> QED BY <1>7, <1>9, <3>2, <3>3, RealVoteStays DEF RealVote, IsVote
  <2> QED BY <2>2, <2>3
<1>12. BufferOK(a)'
  <2>1. a_sig'[a] = "none" => /\ a_pc'[a] # "stopped"
                              /\ a_count'[a] = IF a_pc'[a] = "loop"
                                               THEN a_i'[a] - 1 ELSE 0
    BY <1>7, <1>8, <1>10
  <2>2. /\ \A j \in Insts : a_states'[a][j].rnd = 0
        /\ \A k \in 1 .. Len(a_bufs'[a]) : a_bufs'[a][k] \in to_acceptors'
        /\ a_sig'[a] # "raised"
    BY <1>5, <1>7, <1>8
  <2>3. a_sig'[a] # "last" => a_sig[a] # "last"
    BY <1>7
  <2> QED BY <1>11, <2>1, <2>2, <2>3 DEF BufferOK
<1>13. AcceptedInv'
  <2>1. ASSUME NEW t \in accepted' PROVE (t[3] = 0 /\ Proposed(t[2], t[4]))'
    <3>1. CASE t \in accepted
      BY <1>7, <3>1 DEF SendersInv, AcceptedInv, Proposed
    <3>2. CASE t = <<a, i, 0, x.paxosval>>
      BY <1>2, <1>7, <3>2 DEF Proposed
    <3> QED BY <1>5, <3>1, <3>2
  <2> QED BY <2>1 DEF AcceptedInv
<1> QED BY <1>9, <1>12, <1>13

\* What the steps of an acceptor leave to the others.
LEMMA AcceptorFrame ==
  ASSUME TypeOK, NEW a \in Acceptors, AcceptorNext(a), NEW b \in Acceptors, b # a
  PROVE  /\ a_states'[b] = a_states[b] /\ a_bufs'[b] = a_bufs[b] /\ a_i'[b] = a_i[b]
         /\ a_out_bufs'[b] = a_out_bufs[b] /\ a_count'[b] = a_count[b]
         /\ a_pc'[b] = a_pc[b] /\ a_sig'[b] = a_sig[b]
<1> USE DEF TypeOK, AcceptorTypeOK
<1>1. CASE \E batch \in Batches : AcceptorRecv(a, batch)
  BY <1>1 DEF AcceptorRecv
<1>2. CASE ReachMaxInst(a)
  BY <1>2 DEF ReachMaxInst
<1>3. ASSUME NEW reply, Answer(a, reply)
      PROVE  /\ a_bufs'[b] = a_bufs[b] /\ a_i'[b] = a_i[b]
             /\ a_out_bufs'[b] = a_out_bufs[b] /\ a_count'[b] = a_count[b]
             /\ a_pc'[b] = a_pc[b] /\ a_sig'[b] = a_sig[b]
  BY <1>3 DEF Answer
<1>4. CASE handle_phase1a(a)
  <2>1. \E reply : Answer(a, reply)
    BY <1>4 DEF handle_phase1a
  <2>2. a_states'[b] = a_states[b]
    BY <1>4 DEF handle_phase1a
  <2> QED BY <1>3, <2>1, <2>2
<1>5. CASE handle_phase2a(a)
  <2>1. \E reply : Answer(a, reply)
    BY <1>5 DEF handle_phase2a
  <2>2. a_states'[b] = a_states[b]
    BY <1>5 DEF handle_phase2a
  <2> QED BY <1>3, <2>1, <2>2
<1>6. CASE Ignore(a)
  BY <1>6 DEF Ignore
<1>7. CASE Return(a)
  BY <1>7 DEF Return
<1>8. CASE AcceptorCrash(a) \/ AcceptorStop(a)
  BY <1>8 DEF AcceptorCrash, AcceptorStop
<1>9. CASE AcceptorRestart(a)
  BY <1>9 DEF AcceptorRestart
<1> QED BY <1>1, <1>2, <1>4, <1>5, <1>6, <1>7, <1>8, <1>9
        DEF AcceptorNext, AcceptorStep, AcceptorSend, AcceptorSendOverrun

\* The other steps of an acceptor, two of which a proposal cannot cause.
LEMMA AcceptorSenders ==
  ASSUME TypeOK, SendersInv, NEW a \in Acceptors, AcceptorNext(a)
  PROVE  /\ SendersInv' /\ accepted \subseteq accepted'
         /\ UNCHANGED <<to_acceptors, to_clients, cur_inst, learnervars>>
<1>1. UNCHANGED <<to_coordinator, to_acceptors, to_clients, cur_inst, learnervars>>
  BY AcceptorStepType DEF AcceptorNext, AcceptorRestart, netvars
<1>2. BufferOK(a) /\ BuffersInv /\ AcceptedInv
  BY DEF SendersInv, BuffersInv
<1>3. ASSUME accepted \subseteq accepted', BufferOK(a)', AcceptedInv'
      PROVE  SendersInv'
  <2>1. ASSUME NEW b \in Acceptors PROVE BufferOK(b)'
    <3>1. CASE b = a
      BY <1>3, <3>1
    <3>2. CASE b # a
      BY <1>1, <1>2, <1>3, <3>2, AcceptorFrame, BufferStays DEF BuffersInv
    <3> QED BY <3>1, <3>2
  <2>2. BuffersInv'
    BY <2>1 DEF BuffersInv
  <2>3. RequestsInv' /\ ProposalsInv'
    BY <1>1 DEF SendersInv, RequestsInv, ProposalsInv
  <2> QED BY <1>3, <2>2, <2>3 DEF SendersInv
<1>4. ASSUME UNCHANGED accepted PROVE AcceptedInv'
  BY <1>1, <1>2, <1>4 DEF AcceptedInv, Proposed
<1> USE DEF TypeOK, AcceptorTypeOK
<1>5. CASE \E batch \in Batches : AcceptorRecv(a, batch)
  <2>1. PICK batch \in Batches : AcceptorRecv(a, batch)
    BY <1>5
  <2>2. PICK n \in 1 .. Vlen : batch \in [1 .. n -> to_acceptors]
    BY DEF Batches
  <2>3. \A k \in 1 .. Len(batch) : batch[k] \in to_acceptors
    <3>1. n \in Nat
      BY ConfigAssumption
    <3> QED BY <2>2, <3>1
  <2>4. /\ UNCHANGED <<a_states, a_out_bufs, a_count, accepted>>
        /\ a_bufs'[a] = batch /\ a_i'[a] = 1 /\ a_pc'[a] = "loop"
        /\ a_sig'[a] = IF a_sig[a] = "raised" THEN "last" ELSE a_sig[a]
        /\ a_pc[a] = "wait" /\ a_sig[a] # "last"
    BY <2>1 DEF AcceptorRecv
  <2>5. a_sig'[a] # "last" => a_sig[a] = "none" /\ a_sig'[a] = "none" /\ a_count[a] = 0
    BY <1>2, <2>4 DEF BufferOK
  <2>6. BufferOK(a)'
    <3>1. a_sig'[a] # "last" => \A k \in 1 .. a_count'[a] : RealVote(a_out_bufs[a][k])'
      BY <2>4, <2>5
    <3>2. /\ \A i \in Insts : a_states'[a][i].rnd = 0
          /\ \A k \in 1 .. Len(a_bufs'[a]) : a_bufs'[a][k] \in to_acceptors'
      BY <1>1, <1>2, <2>3, <2>4 DEF BufferOK
    <3> QED BY <2>4, <2>5, <3>1, <3>2 DEF BufferOK
  <2> QED BY <1>1, <1>3, <1>4, <2>4, <2>6
<1>6. CASE ReachMaxInst(a)
  <2>1. /\ InLoop(a) /\ UNCHANGED <<a_states, a_count, accepted>>
        /\ a_out_bufs'[a] = [a_out_bufs[a] EXCEPT ![a_i[a]] = Current(a)]
        /\ a_bufs'[a] = << >> /\ a_pc'[a] = "wait"
        /\ a_sig'[a] = IF a_sig[a] = "none" THEN "raised" ELSE a_sig[a]
    BY <1>6 DEF ReachMaxInst
  <2>2. a_i[a] \in 1 .. Vlen /\ a_pc[a] = "loop"
    BY <2>1, CurrentType DEF InLoop
  <2>3. a_sig[a] # "raised"
    BY <1>2, <2>2 DEF BufferOK
  <2>4. a_sig'[a] # "last" =>
          /\ a_sig[a] = "none" /\ a_sig'[a] = "raised" /\ a_count[a] = a_i[a] - 1
    BY <1>2, <2>1, <2>2, <2>3 DEF BufferOK
  <2>5. ASSUME a_sig'[a] # "last", NEW k \in 1 .. a_count'[a]
        PROVE  RealVote(a_out_bufs[a][k])'
    <3>1. k \in 1 .. a_count[a] /\ a_count[a] = a_i[a] - 1 /\ a_sig[a] # "last"
      BY <2>1, <2>4, <2>5
    <3>2. k # a_i[a] /\ k \in 1 .. Vlen
      BY <2>2, <3>1, ConfigAssumption
    <3>3. PICK w : w = a_out_bufs[a][k]
      OBVIOUS
    <3>4. a_out_bufs'[a][k] = w
      BY <2>1, <3>2, <3>3
    <3>5. RealVote(w)
      BY <1>2, <3>1, <3>3 DEF BufferOK
    <3>6. RealVote(w)'
      BY <1>1, <2>1, <3>5, RealVoteStays DEF RealVote, IsVote
    <3> QED BY <3>4, <3>6 DEF RealVote, IsVote
  <2>6. a_sig'[a] = "raised" => a_pc'[a] # "loop" /\ a_count'[a] < Vlen
    BY <2>1, <2>2, <2>4, ConfigAssumption
  <2>7. /\ \A i \in Insts : a_states'[a][i].rnd = 0
        /\ \A k \in 1 .. Len(a_bufs'[a]) : a_bufs'[a][k] \in to_acceptors'
        /\ a_sig'[a] # "none"
    BY <1>2, <2>1 DEF BufferOK
  <2>8. BufferOK(a)'
    BY <2>5, <2>6, <2>7 DEF BufferOK
  <2> QED BY <1>1, <1>3, <1>4, <2>1, <2>8
<1>7. ASSUME InLoop(a), Current(a).inst < MaxInst
      PROVE  /\ Current(a).inst \in Insts /\ Current(a).msgtype = phase2a
             /\ Current(a).rnd = 0 /\ a_states[a][Current(a).inst].rnd = 0
  <2>1. Current(a) \in Message
    BY <1>7, CurrentType
  <2>2. Current(a).inst \in Insts
    BY <1>7, <2>1, InstInRange DEF Message
  <2> QED BY <1>2, <1>7, <2>2, CurrentProposal DEF BufferOK
<1>8. CASE handle_phase1a(a)
  BY <1>7, <1>8 DEF handle_phase1a, phase1a, phase2a
<1>9. CASE handle_phase2a(a)
  BY <1>1, <1>3, <1>9, Phase2aSenders
<1>10. CASE Ignore(a)
  BY <1>7, <1>10 DEF Ignore
<1>11. CASE Return(a)
  <2>1. /\ UNCHANGED <<a_states, accepted, a_sig>> /\ a_count'[a] = 0
        /\ a_bufs'[a] = << >> /\ a_pc'[a] = "wait" /\ a_pc[a] = "loop"
    BY <1>11 DEF Return
  <2>2. 0 < Vlen /\ a_sig[a] # "raised"
    BY <1>2, <2>1, ConfigAssumption DEF BufferOK
  <2>3. BufferOK(a)'
    BY <1>2, <2>1, <2>2 DEF BufferOK
  <2> QED BY <1>1, <1>3, <1>4, <2>1, <2>3
<1>12. CASE AcceptorCrash(a)
  <2>1. /\ a_pc[a] = "loop" /\ a_count[a] > Vlen /\ a_pc'[a] = "stopped"
        /\ UNCHANGED <<a_states, a_bufs, a_i, a_out_bufs, a_count, a_sig, accepted>>
    BY <1>12 DEF AcceptorCrash
  <2>2. a_sig[a] = "last"
    <3>1. a_sig[a] # "raised"
      BY <1>2, <2>1 DEF BufferOK
    <3>2. a_sig[a] # "none"
      BY <1>2, <2>1, ConfigAssumption DEF BufferOK
    <3> QED BY <3>1, <3>2
  <2>3. BufferOK(a)'
    BY <1>1, <1>2, <2>1, <2>2 DEF BufferOK
  <2> QED BY <1>1, <1>3, <1>4, <2>1, <2>3
<1>13. CASE AcceptorStop(a)
  <2>1. /\ a_sig[a] # "none" /\ a_pc'[a] = "stopped"
        /\ UNCHANGED <<a_states, a_bufs, a_i, a_out_bufs, a_count, a_sig, accepted>>
    BY <1>13 DEF AcceptorStop
  <2>2. ASSUME a_sig[a] # "last", NEW k \in 1 .. a_count[a]
        PROVE  RealVote(a_out_bufs[a][k])'
    <3>1. RealVote(a_out_bufs[a][k])
      BY <1>2, <2>2 DEF BufferOK
    <3> QED BY <1>1, <2>1, <3>1, RealVoteStays DEF RealVote, IsVote
  <2>3. BufferOK(a)'
    BY <1>1, <1>2, <2>1, <2>2 DEF BufferOK
  <2> QED BY <1>1, <1>3, <1>4, <2>1, <2>3
<1>14. CASE AcceptorRestart(a)
  <2>1. /\ a_states'[a] = NewStates /\ a_bufs'[a] = << >> /\ a_count'[a] = 0
        /\ a_pc'[a] = "wait" /\ a_sig'[a] = "none" /\ UNCHANGED accepted
    BY <1>14 DEF AcceptorRestart
  <2>2. BufferOK(a)'
    BY <2>1 DEF BufferOK, NewStates
  <2> QED BY <1>1, <1>3, <1>4, <2>1, <2>2
<1> QED BY <1>5, <1>6, <1>8, <1>9, <1>10, <1>11, <1>12, <1>13, <1>14
        DEF AcceptorNext, AcceptorStep, AcceptorSend, AcceptorSendOverrun

\* Every step preserves the coordinator's and the acceptors' side.
LEMMA NextSenders ==
  ASSUME TypeOK, SendersInv, [Next]_vars
  PROVE  SendersInv'
<1>1. CASE UNCHANGED vars
  BY <1>1, SendersStay DEF vars, netvars
<1>2. ASSUME NEW l \in Learners, LearnerNext(l)
      PROVE  UNCHANGED <<to_coordinator, to_acceptors, cur_inst, acceptorvars>>
  BY <1>2 DEF LearnerNext, LearnerOnValue, LearnerReceive, LearnerRestart, netvars
<1> QED BY <1>1, <1>2, SendersStay, ProposerSenders, CoordinatorSenders, AcceptorSenders
        DEF Next

-----------------------------------------------------------------------------
(* The learners, until a late call happens *)

\* Every acceptor has a bit of its own in a learner's mask.
LEMMA BitOfAcceptor ==
  ASSUME NEW a \in Acceptors
  PROVE  a % 32 = a
<1>1. a \in 0 .. 30
  BY ConfigAssumption, SMT DEF Acceptors
<1> QED BY <1>1, SMT

\* The voters for a value only become more.
LEMMA VotersGrow ==
  ASSUME accepted \subseteq accepted', NEW i, NEW r, NEW v,
         Cardinality(Voters(i, r, v)) >= maj
  PROVE  Cardinality(Voters(i, r, v))' >= maj
<1> DEFINE V == {a \in Acceptors : <<a, i, r, v>> \in accepted}
           W == {a \in Acceptors : <<a, i, r, v>> \in accepted'}
<1>1. V \subseteq W /\ W \subseteq Acceptors
  OBVIOUS
<1>2. IsFiniteSet(W) /\ IsFiniteSet(V)
  BY <1>1, AcceptorsFinite, FS_Subset
<1>3. Cardinality(V) <= Cardinality(W)
  BY <1>1, <1>2, FS_Subset
<1>4. Cardinality(V) \in Nat /\ Cardinality(W) \in Nat
  BY <1>2, FS_CardinalityType
<1>5. Voters(i, r, v) = V /\ Voters(i, r, v)' = W
  BY DEF Voters
<1> HIDE DEF V, W
<1>6. Cardinality(Voters(i, r, v)) = Cardinality(V) /\
      Cardinality(Voters(i, r, v))' = Cardinality(W)
  BY <1>5
<1> QED BY <1>3, <1>4, <1>6, MajPositive

\* What a call that is not late sends are the votes in its buffers.
LEMMA NewVotes ==
  ASSUME TypeOK, SendersInv, NEW a \in Acceptors, AcceptorNext(a), a_sig[a] # "last",
         NEW w \in to_learners' \ to_learners
  PROVE  RealVote(w)
<1>1. BufferOK(a) /\ a_sig[a] \in {"none", "raised", "last"}
  BY DEF SendersInv, BuffersInv, TypeOK, AcceptorTypeOK
<1>2. CASE AcceptorSend(a)
  BY <1>1, <1>2 DEF AcceptorSend, BufferOK
<1>3. CASE AcceptorSendOverrun(a)
  <2>1. a_pc[a] = "loop" /\ a_count[a] > Vlen
    BY <1>3 DEF AcceptorSendOverrun, Return
  <2>2. a_sig[a] = "none" /\ a_count[a] = a_i[a] - 1
    BY <1>1, <2>1 DEF BufferOK
  <2>3. a_i[a] \in 1 .. Vlen + 1
    BY DEF TypeOK, AcceptorTypeOK
  <2> QED BY <2>1, <2>2, <2>3, ConfigAssumption
<1>4. CASE UNCHANGED to_learners
  BY <1>4
<1> QED BY <1>2, <1>3, <1>4
        DEF AcceptorNext, AcceptorStep, AcceptorRestart, AcceptorRecv, ReachMaxInst,
            handle_phase1a, handle_phase2a, Answer, Ignore, AcceptorCrash,
            AcceptorStop, netvars

\* Votes stay votes.
LEMMA VotesStay ==
  ASSUME VotesInv, to_acceptors \subseteq to_acceptors', accepted \subseteq accepted',
         \A w \in to_learners' \ to_learners : RealVote(w)
  PROVE  VotesInv'
<1>1. ASSUME NEW w \in to_learners'
      PROVE  RealVote(w)'
  <2>1. RealVote(w)
    BY <1>1 DEF VotesInv
  <2> QED BY <2>1, RealVoteStays DEF RealVote, IsVote
<1> QED BY <1>1 DEF VotesInv

\* Steps of the other roles that send the learners nothing but votes.
LEMMA ReceiversStay ==
  ASSUME ReceiversInv, to_acceptors \subseteq to_acceptors',
         accepted \subseteq accepted', UNCHANGED <<to_clients, learnervars>>,
         \A w \in to_learners' \ to_learners : RealVote(w)
  PROVE  ReceiversInv'
<1>1. VotesInv'
  BY VotesStay DEF ReceiversInv
<1>2. CountsInv' /\ LogInv'
  BY DEF ReceiversInv, CountsInv, LogInv, learnervars
<1>3. AnswersInv'
  <2>1. ASSUME NEW p \in to_clients'
        PROVE  /\ Cardinality(Voters(p.inst, 0, p.value))' >= maj
               /\ \E y \in to_acceptors' :
                    y.inst = htonl(p.inst) /\ y.paxosval = p.value /\ y.client = p.client
    BY VotersGrow DEF ReceiversInv, AnswersInv
  <2> QED BY <2>1 DEF AnswersInv
<1> QED BY <1>1, <1>2, <1>3 DEF ReceiversInv

(***************************************************************************)
(* handle_accepted for a vote that is counted: there is one proposal in    *)
(* the instance, so the vote is for the value already in the buffer.       *)
(***************************************************************************)
LEMMA CountVoteReceivers ==
  ASSUME TypeOK, Inv, NEW l \in Learners, NEW w \in to_learners,
         NEW a \in Acceptors, NEW i \in Insts, IsVote(w, a, i),
         CountVote(l, unpack(w)),
         UNCHANGED <<to_coordinator, to_acceptors, to_learners>>,
         UNCHANGED <<cur_inst, acceptorvars>>
  PROVE  ReceiversInv'
<1> DEFINE m == unpack(w)
           s == l_states[l][i]
           d == [inst |-> i, value |-> m.paxosval]
<1>1. /\ m.inst = i /\ m.rnd = 0 /\ m.acptid = a /\ m.paxosval = w.paxosval
      /\ m.client = w.client
  BY VoteRead DEF TypeOK
<1>2. /\ s \in L_State /\ log \in [Learners -> Seq(Delivery)]
      /\ l_states \in [Learners -> [Insts -> L_State]]
  BY DEF TypeOK, LearnerTypeOK
<1>3. /\ ~s.finished /\ a \notin s.from
      /\ l_states' = [l_states EXCEPT ![l][i] =
                        [rnd |-> s.rnd, count |-> s.count + 1,
                         from |-> s.from \cup {a},
                         finished |-> s.count + 1 = maj,
                         paxosval |-> m.paxosval]]
      /\ IF s.count + 1 = maj THEN deliver(l, m) ELSE UNCHANGED <<log, to_clients>>
  <2>1. bit(m) = a
    BY <1>1, BitOfAcceptor DEF bit
  <2> QED BY <1>1, <2>1 DEF CountVote
<1>4. PICK x \in to_acceptors :
        /\ x.inst = htonl(i) /\ w.inst = x.inst
        /\ w.paxosval = x.paxosval /\ w.client = x.client
  BY DEF IsVote
<1>5. \A b \in s.from \cup {a} : <<b, i, 0, m.paxosval>> \in accepted
  <2> SUFFICES ASSUME NEW b \in s.from PROVE <<b, i, 0, m.paxosval>> \in accepted
    BY <1>1 DEF IsVote
  <2>1. <<b, i, 0, s.paxosval>> \in accepted
    BY DEF Inv, ReceiversInv, CountsInv
  <2>2. Proposed(i, s.paxosval)
    BY <2>1 DEF Inv, SendersInv, AcceptedInv
  <2>3. s.paxosval = x.paxosval
    BY <1>4, <2>2 DEF Inv, SendersInv, ProposalsInv, Proposed
  <2> QED BY <1>1, <1>4, <2>1, <2>3
<1>6. /\ s.rnd = 0 /\ s.from \subseteq Acceptors /\ s.count = Cardinality(s.from)
  BY DEF Inv, ReceiversInv, CountsInv
<1>7. /\ s.from \cup {a} \subseteq Acceptors
      /\ Cardinality(s.from \cup {a}) = s.count + 1
  <2>1. IsFiniteSet(s.from)
    BY <1>6, AcceptorsFinite, FS_Subset
  <2> HIDE DEF s
  <2>2. Cardinality(s.from \cup {a}) = Cardinality(s.from) + 1
    BY <1>3, <2>1, FS_AddElement
  <2> QED BY <1>6, <2>2
<1>8. CountsInv'
  <2>1. ASSUME NEW l1 \in Learners, NEW j \in Insts
        PROVE  LET t == l_states'[l1][j]
               IN /\ t.rnd = 0 /\ t.from \subseteq Acceptors
                  /\ t.count = Cardinality(t.from)
                  /\ \A b \in t.from : <<b, j, 0, t.paxosval>> \in accepted'
                  /\ t.finished => t.count = maj
    <3>1. CASE l1 = l /\ j = i
      <4>1. l_states'[l1][j] = [rnd |-> s.rnd, count |-> s.count + 1,
                                from |-> s.from \cup {a},
                                finished |-> s.count + 1 = maj,
                                paxosval |-> m.paxosval]
        BY <1>2, <1>3, <3>1
      <4>2. /\ l_states'[l1][j].rnd = s.rnd
            /\ l_states'[l1][j].count = s.count + 1
            /\ l_states'[l1][j].from = s.from \cup {a}
            /\ l_states'[l1][j].finished = (s.count + 1 = maj)
            /\ l_states'[l1][j].paxosval = m.paxosval
        BY <4>1
      <4> HIDE DEF m, s
      <4>3. l_states'[l1][j].count = Cardinality(l_states'[l1][j].from)
        BY <1>7, <4>2
      <4>4. \A b \in l_states'[l1][j].from :
              <<b, j, 0, l_states'[l1][j].paxosval>> \in accepted'
        BY <1>5, <3>1, <4>2 DEF acceptorvars
      <4> QED BY <1>6, <1>7, <4>2, <4>3, <4>4
    <3>2. CASE ~(l1 = l /\ j = i)
      <4>1. l_states'[l1][j] = l_states[l1][j]
        BY <1>2, <1>3, <3>2
      <4> QED BY <4>1 DEF Inv, ReceiversInv, CountsInv, acceptorvars
    <3> QED BY <3>1, <3>2
  <2> QED BY <2>1 DEF CountsInv
<1>9. \A k \in 1 .. Len(log[l]) : log[l][k].inst # i
  BY <1>3 DEF Inv, ReceiversInv, LogInv
<1>10. \A l1 \in Learners : \A k \in 1 .. Len(log[l1]) :
         LET t == l_states'[l1][log[l1][k].inst]
         IN t.finished /\ t.paxosval = log[l1][k].value
  <2> SUFFICES ASSUME NEW l1 \in Learners, NEW k \in 1 .. Len(log[l1])
               PROVE  LET t == l_states'[l1][log[l1][k].inst]
                      IN t.finished /\ t.paxosval = log[l1][k].value
    OBVIOUS
  <2>1. log[l1][k].inst \in Insts
    <3>1. log[l1][k] \in Delivery
      BY <1>2
    <3> QED BY <3>1 DEF Delivery
  <2>2. ~(l1 = l /\ log[l1][k].inst = i)
    BY <1>9
  <2>3. l_states'[l1][log[l1][k].inst] = l_states[l1][log[l1][k].inst]
    BY <1>2, <1>3, <2>1, <2>2
  <2> QED BY <2>3 DEF Inv, ReceiversInv, LogInv
<1>11. CASE s.count + 1 = maj
  <2>1. /\ log' = [log EXCEPT ![l] = Append(log[l], d)]
        /\ to_clients' = to_clients \cup
             (IF my_turn(l, i)
              THEN {[client |-> m.client, inst |-> i, value |-> m.paxosval]} ELSE {})
    BY <1>1, <1>3, <1>11 DEF deliver
  <2>2. /\ l_states'[l][i].finished /\ l_states'[l][i].paxosval = m.paxosval
    BY <1>2, <1>3, <1>11
  <2>3. d.inst = i /\ d.value = m.paxosval
    OBVIOUS
  <2> HIDE DEF d, m, s
  <2>4. log[l] \in Seq(Delivery)
    BY <1>2
  <2>5. /\ Len(log'[l]) = Len(log[l]) + 1
        /\ \A k \in 1 .. Len(log[l]) : log'[l][k] = log[l][k]
        /\ log'[l][Len(log[l]) + 1] = d
    BY <1>2, <2>1, <2>4
  <2>6. LogInv'
    <3>1. ASSUME NEW l1 \in Learners, l1 # l
          PROVE  log'[l1] = log[l1]
      BY <1>2, <2>1, <3>1
    <3>2. \A l1 \in Learners : \A k \in 1 .. Len(log'[l1]) :
            LET t == l_states'[l1][log'[l1][k].inst]
            IN t.finished /\ t.paxosval = log'[l1][k].value
      <4> SUFFICES ASSUME NEW l1 \in Learners, NEW k \in 1 .. Len(log'[l1])
                   PROVE  LET t == l_states'[l1][log'[l1][k].inst]
                          IN t.finished /\ t.paxosval = log'[l1][k].value
        OBVIOUS
      <4>1. CASE l1 # l
        BY <1>10, <3>1, <4>1
      <4>2. CASE l1 = l /\ k \in 1 .. Len(log[l])
        BY <1>10, <2>5, <4>2
      <4>3. CASE l1 = l /\ k = Len(log[l]) + 1
        BY <2>2, <2>3, <2>5, <4>3
      <4>4. l1 # l \/ (l1 = l /\ k \in 1 .. Len(log[l])) \/ (l1 = l /\ k = Len(log[l]) + 1)
        <5>1. Len(log[l]) \in Nat
          BY <2>4
        <5> QED BY <2>5, <5>1
      <4> QED BY <4>1, <4>2, <4>3, <4>4
    <3>3. \A l1 \in Learners : \A j, k \in 1 .. Len(log'[l1]) :
            log'[l1][j].inst = log'[l1][k].inst => j = k
      <4> SUFFICES ASSUME NEW l1 \in Learners,
                          NEW j \in 1 .. Len(log'[l1]), NEW k \in 1 .. Len(log'[l1]),
                          log'[l1][j].inst = log'[l1][k].inst
                   PROVE  j = k
        OBVIOUS
      <4>1. CASE l1 # l
        BY <3>1, <4>1 DEF Inv, ReceiversInv, LogInv
      <4>2. CASE l1 = l
        <5>1. Len(log[l]) \in Nat
          BY <2>4
        <5>2. /\ j \in 1 .. Len(log[l]) \/ j = Len(log[l]) + 1
              /\ k \in 1 .. Len(log[l]) \/ k = Len(log[l]) + 1
          BY <2>5, <4>2, <5>1
        <5>3. CASE j \in 1 .. Len(log[l]) /\ k \in 1 .. Len(log[l])
          BY <2>5, <4>2, <5>3 DEF Inv, ReceiversInv, LogInv
        <5>4. CASE j \in 1 .. Len(log[l]) /\ k = Len(log[l]) + 1
          BY <1>9, <2>3, <2>5, <4>2, <5>4
        <5>5. CASE j = Len(log[l]) + 1 /\ k \in 1 .. Len(log[l])
          BY <1>9, <2>3, <2>5, <4>2, <5>5
        <5> QED BY <5>2, <5>3, <5>4, <5>5
      <4> QED BY <4>1, <4>2
    <3> QED BY <3>2, <3>3 DEF LogInv
  <2>7. Cardinality(Voters(i, 0, m.paxosval)) >= maj
    <3>1. s.from \cup {a} \subseteq Voters(i, 0, m.paxosval)
      BY <1>5, <1>7 DEF Voters
    <3>2. IsFiniteSet(Voters(i, 0, m.paxosval))
      BY AcceptorsFinite, FS_Subset DEF Voters
    <3>3. Cardinality(s.from \cup {a}) <= Cardinality(Voters(i, 0, m.paxosval))
      BY <3>1, <3>2, FS_Subset
    <3>4. Cardinality(Voters(i, 0, m.paxosval)) \in Nat
      BY <3>2, FS_CardinalityType
    <3> QED BY <1>7, <1>11, <3>3, <3>4, MajPositive
  <2>8. AnswersInv'
    <3>1. ASSUME NEW p \in to_clients'
          PROVE  /\ Cardinality(Voters(p.inst, 0, p.value)) >= maj
                 /\ \E y \in to_acceptors :
                      /\ y.inst = htonl(p.inst) /\ y.paxosval = p.value
                      /\ y.client = p.client
      <4>1. CASE p \in to_clients
        BY <4>1 DEF Inv, ReceiversInv, AnswersInv
      <4>2. CASE p = [client |-> m.client, inst |-> i, value |-> m.paxosval]
        BY <1>1, <1>4, <2>7, <4>2
      <4> QED BY <2>1, <4>1, <4>2
    <3> QED BY <3>1 DEF AnswersInv, Voters, acceptorvars
  <2>9. VotesInv'
    BY VotesStay DEF Inv, ReceiversInv, acceptorvars
  <2> QED BY <1>8, <2>6, <2>8, <2>9 DEF ReceiversInv
<1>12. CASE s.count + 1 # maj
  <2>1. UNCHANGED <<log, to_clients>>
    BY <1>3, <1>12
  <2>2. LogInv'
    BY <1>10, <2>1 DEF Inv, ReceiversInv, LogInv
  <2>3. AnswersInv'
    BY <2>1 DEF Inv, ReceiversInv, AnswersInv, Voters, acceptorvars
  <2>4. VotesInv'
    BY VotesStay DEF Inv, ReceiversInv, acceptorvars
  <2> QED BY <1>8, <2>2, <2>3, <2>4 DEF ReceiversInv
<1> QED BY <1>11, <1>12

\* The steps of a learner: only votes of round 0 reach it.
LEMMA LearnerReceivers ==
  ASSUME TypeOK, Inv, NEW l \in Learners, LearnerNext(l)
  PROVE  ReceiversInv'
<1>1. UNCHANGED <<cur_inst, acceptorvars>>
  BY DEF LearnerNext
<1>2. CASE LearnerOnValue(l)
  <2>1. PICK w \in to_learners : LearnerReceive(l, w)
    BY <1>2 DEF LearnerOnValue
  <2>2. PICK a \in Acceptors, i \in Insts : IsVote(w, a, i)
    BY DEF Inv, ReceiversInv, VotesInv, RealVote
  <2>3. unpack(w).inst = i /\ unpack(w).rnd = 0
    BY <2>2, VoteRead DEF TypeOK
  <2>4. i < MaxInst /\ ~(i >= MaxInst)
    BY ConfigAssumption DEF Insts, Int32
  <2>5. l_states[l][i].rnd = 0
    BY DEF Inv, ReceiversInv, CountsInv
  <2>6. CountVote(l, unpack(w)) /\ UNCHANGED <<to_coordinator, to_acceptors, to_learners>>
    BY <2>1, <2>3, <2>4, <2>5 DEF LearnerReceive, LearnerReachMaxInst, HigherRound
  <2> QED BY <1>1, <2>2, <2>6, CountVoteReceivers
<1>3. CASE LearnerRestart(l)
  <2>1. /\ l_states' = [l_states EXCEPT ![l] = NewLearner]
        /\ log' = [log EXCEPT ![l] = << >>]
        /\ UNCHANGED <<to_coordinator, to_acceptors, to_learners, to_clients>>
    BY <1>3 DEF LearnerRestart, netvars
  <2>2. /\ l_states \in [Learners -> [Insts -> L_State]]
        /\ log \in [Learners -> Seq(Delivery)]
    BY DEF TypeOK, LearnerTypeOK
  <2>3. CountsInv'
    <3>1. ASSUME NEW l1 \in Learners, NEW i \in Insts
          PROVE  LET s == l_states'[l1][i]
                 IN /\ s.rnd = 0 /\ s.from \subseteq Acceptors
                    /\ s.count = Cardinality(s.from)
                    /\ \A a \in s.from : <<a, i, 0, s.paxosval>> \in accepted'
                    /\ s.finished => s.count = maj
      <4>1. CASE l1 = l
        <5>1. l_states'[l1][i] = [rnd |-> 0, count |-> 0, from |-> {},
                                  finished |-> FALSE, paxosval |-> ZeroVal]
          BY <2>1, <2>2, <4>1 DEF NewLearner
        <5> QED BY <5>1, FS_EmptySet
      <4>2. CASE l1 # l
        <5>1. l_states'[l1] = l_states[l1]
          BY <2>1, <2>2, <4>2
        <5> QED BY <1>1, <5>1 DEF Inv, ReceiversInv, CountsInv, acceptorvars
      <4> QED BY <4>1, <4>2
    <3> QED BY <3>1 DEF CountsInv
  <2>4. LogInv'
    <3>1. log'[l] = << >>
      BY <2>1, <2>2
    <3>2. ASSUME NEW l1 \in Learners, l1 # l
          PROVE  log'[l1] = log[l1] /\ l_states'[l1] = l_states[l1]
      BY <2>1, <2>2, <3>2
    <3> QED BY <3>1, <3>2 DEF Inv, ReceiversInv, LogInv
  <2>5. AnswersInv'
    BY <1>1, <2>1 DEF Inv, ReceiversInv, AnswersInv, Voters, acceptorvars
  <2>6. VotesInv'
    BY <1>1, <2>1, VotesStay DEF Inv, ReceiversInv, acceptorvars
  <2> QED BY <2>3, <2>4, <2>5, <2>6 DEF ReceiversInv
<1> QED BY <1>2, <1>3 DEF LearnerNext

\* Every step preserves the invariant, but for a late call.
LEMMA NextInv ==
  ASSUME TypeOK, Inv, NoLateCall, [Next]_vars
  PROVE  Inv'
<1>1. SendersInv'
  BY NextSenders DEF Inv
<1>2. CASE UNCHANGED vars
  <2>1. /\ UNCHANGED <<to_acceptors, to_learners, to_clients, learnervars>>
        /\ UNCHANGED accepted
    BY <1>2 DEF vars, netvars, acceptorvars
  <2> QED BY <1>1, <2>1, ReceiversStay DEF Inv
<1>3. CASE ProposerNext
  <2>1. /\ UNCHANGED <<to_acceptors, to_learners, to_clients, learnervars>>
        /\ UNCHANGED accepted
    BY <1>3 DEF ProposerNext, submit, acceptorvars
  <2> QED BY <1>1, <2>1, ReceiversStay DEF Inv
<1>4. CASE CoordinatorNext
  <2>1. /\ UNCHANGED <<to_learners, to_clients, learnervars, accepted>>
        /\ to_acceptors \subseteq to_acceptors'
    BY <1>4 DEF CoordinatorNext, CoordinatorOnValue, acceptorvars
  <2> QED BY <1>1, <2>1, ReceiversStay DEF Inv
<1>5. ASSUME NEW a \in Acceptors, AcceptorNext(a)
      PROVE  Inv'
  <2>1. /\ accepted \subseteq accepted'
        /\ UNCHANGED <<to_acceptors, to_clients, learnervars>>
    BY <1>5, AcceptorSenders DEF Inv
  <2>2. ASSUME NEW w \in to_learners' \ to_learners
        PROVE  RealVote(w)
    BY <1>5, <2>2, NewVotes DEF Inv, NoLateCall
  <2> QED BY <1>1, <2>1, <2>2, ReceiversStay DEF Inv
<1> QED BY <1>1, <1>2, <1>3, <1>4, <1>5, LearnerReceivers DEF Next, Inv

-----------------------------------------------------------------------------
(* The properties follow *)

\* maj votes of round 0 are the votes of more than half of the acceptors.
LEMMA MajorityChosen ==
  ASSUME NEW i, NEW v, Cardinality(Voters(i, 0, v)) >= maj,
         0 \in {t[3] : t \in accepted}
  PROVE  Chosen(i, v)
<1>1. Cardinality(Voters(i, 0, v)) \in Nat
  BY AcceptorsFinite, FS_Subset, FS_CardinalityType DEF Voters
<1>2. NumAcceptors \in Nat
  BY ConfigAssumption
<1>3. 2 * Cardinality(Voters(i, 0, v)) > NumAcceptors
  BY <1>1, <1>2, MajPositive
<1> QED BY <1>3 DEF Chosen

\* A delivered value was proposed in its instance, and accepted in round 0 by
\* a majority.
LEMMA DeliveredFacts ==
  ASSUME TypeOK, Inv, NEW l \in Learners, NEW k \in 1 .. Len(log[l])
  PROVE  /\ Proposed(log[l][k].inst, log[l][k].value)
         /\ Chosen(log[l][k].inst, log[l][k].value)
<1> DEFINE i == log[l][k].inst
           v == log[l][k].value
           s == l_states[l][i]
<1>1. i \in Insts
  <2>1. log[l][k] \in Delivery
    BY DEF TypeOK, LearnerTypeOK
  <2> QED BY <2>1 DEF Delivery
<1>2. s.finished /\ s.paxosval = v
  BY DEF Inv, ReceiversInv, LogInv
<1>3. /\ s.from \subseteq Acceptors /\ Cardinality(s.from) = maj
      /\ \A a \in s.from : <<a, i, 0, v>> \in accepted
  BY <1>1, <1>2 DEF Inv, ReceiversInv, CountsInv
<1> HIDE DEF s
<1>4. PICK a \in s.from : <<a, i, 0, v>> \in accepted
  <2>1. s.from # {}
    <3> SUFFICES ASSUME s.from = {} PROVE FALSE
      OBVIOUS
    <3>1. Cardinality(s.from) = 0
      BY FS_EmptySet
    <3> QED BY <1>3, <3>1, MajPositive
  <2> QED BY <1>3, <2>1
<1>5. Proposed(i, v)
  BY <1>4 DEF Inv, SendersInv, AcceptedInv
<1>6. Cardinality(Voters(i, 0, v)) >= maj
  <2>1. s.from \subseteq Voters(i, 0, v)
    BY <1>3 DEF Voters
  <2>2. IsFiniteSet(Voters(i, 0, v))
    BY AcceptorsFinite, FS_Subset DEF Voters
  <2>3. Cardinality(s.from) <= Cardinality(Voters(i, 0, v))
    BY <2>1, <2>2, FS_Subset
  <2>4. Cardinality(Voters(i, 0, v)) \in Nat
    BY <2>2, FS_CardinalityType
  <2> QED BY <1>3, <2>3, <2>4, MajPositive
<1>7. 0 \in {t[3] : t \in accepted}
  BY <1>4
<1>8. Chosen(i, v)
  BY <1>6, <1>7, MajorityChosen
<1> QED BY <1>5, <1>8

\* Agreement, from one proposal per instance.
LEMMA InvAgreement ==
  ASSUME TypeOK, Inv
  PROVE  Agreement
  BY DeliveredFacts DEF Agreement, Proposed, Inv, SendersInv, ProposalsInv

\* Every vote is real, once it is read in host byte order.
LEMMA InvVotesAreReal ==
  ASSUME TypeOK, Inv
  PROVE  VotesAreReal
<1>1. ASSUME NEW w \in to_learners
      PROVE  /\ unpack(w).msgtype = phase2b
             /\ <<unpack(w).acptid, unpack(w).inst, unpack(w).rnd, unpack(w).paxosval>>
                   \in accepted
  <2>1. PICK a \in Acceptors, i \in Insts : IsVote(w, a, i)
    BY DEF Inv, ReceiversInv, VotesInv, RealVote
  <2> QED BY <2>1, VoteRead DEF TypeOK, IsVote
<1> QED BY <1>1 DEF VotesAreReal, Genuine

\* Responses carry chosen values, and one client and value per instance.
LEMMA InvResponseIsChosen ==
  ASSUME TypeOK, Inv
  PROVE  ResponseIsChosen
<1> SUFFICES ASSUME NEW p \in to_clients
             PROVE  /\ Chosen(p.inst, p.value)
                    /\ \A q \in to_clients : q.inst = p.inst => q = p
  BY DEF ResponseIsChosen
<1>1. Cardinality(Voters(p.inst, 0, p.value)) >= maj
  BY DEF Inv, ReceiversInv, AnswersInv
<1>2. 0 \in {t[3] : t \in accepted}
  <2>1. Voters(p.inst, 0, p.value) # {}
    BY <1>1, FS_EmptySet, MajPositive
  <2>2. PICK a \in Acceptors : <<a, p.inst, 0, p.value>> \in accepted
    BY <2>1 DEF Voters
  <2> QED BY <2>2
<1>3. Chosen(p.inst, p.value)
  BY <1>1, <1>2, MajorityChosen
<1>4. ASSUME NEW q \in to_clients, q.inst = p.inst
      PROVE  q = p
  <2>1. q.value = p.value /\ q.client = p.client
    BY <1>4 DEF Inv, SendersInv, ReceiversInv, AnswersInv, ProposalsInv
  <2>2. p \in Response /\ q \in Response
    BY DEF TypeOK
  <2> QED BY <1>4, <2>1, <2>2 DEF Response
<1> QED BY <1>3, <1>4

-----------------------------------------------------------------------------
(* Whether or not the coordinator counts past MAXINST *)

\* The coordinator's and the acceptors' side, in every reachable state.
LEMMA SendersInvariance == Spec => []SendersInv
<1>1. Init => SendersInv
  BY InitInv DEF Inv
<1>2. TypeOK /\ SendersInv /\ [Next]_vars => SendersInv'
  BY NextSenders
<1> QED BY <1>1, <1>2, TypeCorrect, PTL DEF Spec

(***************************************************************************)
(* count_accepted stays within the arrays of on_value, for any VLEN and    *)
(* any MAXINST, but in a late call: a batch never gets more replies than   *)
(* it has datagrams, and every call that is not late starts from 0.        *)
(***************************************************************************)
THEOREM IndexInRangeTheorem == Spec => []IndexInRange
<1>1. TypeOK /\ SendersInv => IndexInRange
  <2> SUFFICES ASSUME TypeOK, SendersInv, NEW a \in Acceptors, a_count[a] > Vlen
               PROVE  a_sig[a] = "last"
    BY DEF IndexInRange
  <2>1. BufferOK(a)
    BY DEF SendersInv, BuffersInv
  <2>2. /\ a_sig[a] \in {"none", "raised", "last"} /\ a_i[a] \in 1 .. Vlen + 1
        /\ Vlen \in Nat /\ a_count[a] \in Nat
    BY ConfigAssumption DEF TypeOK, AcceptorTypeOK
  <2>3. a_sig[a] # "raised"
    BY <2>1, <2>2 DEF BufferOK
  <2>4. a_sig[a] # "none"
    BY <2>1, <2>2 DEF BufferOK
  <2> QED BY <2>2, <2>3, <2>4
<1> QED BY <1>1, SendersInvariance, TypeCorrect, PTL

\* A step that takes an acceptor from its loop to the event loop is its own.
LEMMA ReturningSends ==
  ASSUME TypeOK, SendersInv, [Next]_vars, NEW a \in Acceptors,
         a_pc[a] = "loop", a_pc'[a] = "wait", a_sig[a] # "last",
         NEW w \in to_learners' \ to_learners
  PROVE  Genuine(w)'
<1>1. a_pc' # a_pc
  OBVIOUS
<1>2. ~ UNCHANGED acceptorvars
  BY <1>1 DEF acceptorvars
<1>3. ASSUME NEW l \in Learners, LearnerNext(l) PROVE FALSE
  BY <1>2, <1>3 DEF LearnerNext
<1>4. PICK b \in Acceptors : AcceptorNext(b)
  BY <1>2, <1>3 DEF Next, vars, ProposerNext, CoordinatorNext
<1>5. b = a
  BY <1>4, AcceptorFrame
<1>6. RealVote(w)
  BY <1>4, <1>5, NewVotes
<1>7. accepted \subseteq accepted' /\ UNCHANGED to_acceptors
  BY <1>4, AcceptorSenders
<1>8. PICK c \in Acceptors, i \in Insts : IsVote(w, c, i)
  BY <1>6 DEF RealVote
<1>9. w \in Message
  BY NextType DEF TypeOK
<1>10. /\ unpack(w).inst = i /\ unpack(w).rnd = 0 /\ unpack(w).acptid = c
       /\ unpack(w).msgtype = phase2b /\ unpack(w).paxosval = w.paxosval
  BY <1>8, <1>9, VoteRead
<1>11. <<c, i, 0, w.paxosval>> \in accepted'
  BY <1>7, <1>8 DEF IsVote
<1> QED BY <1>10, <1>11 DEF Genuine

(***************************************************************************)
(* A call of on_value that is not late sends genuine votes only, for any   *)
(* configuration, whatever was lost, repeated or restarted before and      *)
(* however far the coordinator counted.                                    *)
(***************************************************************************)
THEOREM GenuineUnlessLateTheorem == Spec => GenuineUnlessLate
<1>1. TypeOK /\ SendersInv /\ [Next]_vars =>
        [\A a \in Acceptors :
           a_pc[a] = "loop" /\ a_pc'[a] = "wait" /\ a_sig[a] # "last" =>
             \A w \in to_learners' \ to_learners : Genuine(w)']_vars
  BY ReturningSends
<1> QED BY <1>1, SendersInvariance, TypeCorrect, PTL DEF Spec, GenuineUnlessLate

\* As long as no acceptor makes a late call, the invariant holds.
LEMMA InvariantUntilLate == Spec /\ []NoLateCall => []Inv
<1>1. TypeOK /\ Inv /\ NoLateCall /\ [Next]_vars => Inv'
  BY NextInv
<1> QED BY <1>1, InitInv, TypeCorrect, PTL DEF Spec

(***************************************************************************)
(* Past MAXINST, too, every vote is genuine and every delivered value was  *)
(* accepted by a majority, for any configuration, until a late call.       *)
(***************************************************************************)
THEOREM SafeUntilLateCallTheorem == Spec => SafeUntilLateCall
<1>1. TypeOK /\ Inv => VotesAreReal /\ DeliveredIsChosen
  BY InvVotesAreReal, DeliveredFacts DEF DeliveredIsChosen
<1> QED BY <1>1, InvariantUntilLate, TypeCorrect, PTL DEF SafeUntilLateCall

-----------------------------------------------------------------------------
(* Within MAXINST *)

\* Instances the coordinator assigns are in the tables.
LEMMA AssignedInst ==
  ASSUME TypeOK, Fits, NEW i \in 0 .. cur_inst - 1
  PROVE  i \in Insts
<1>1. cur_inst \in 0 .. LastInst /\ LastInst \in Nat /\ MaxInst \in Nat
  BY LastInstAssumption, ConfigAssumption DEF TypeOK, Int32
<1> QED BY <1>1, SMT DEF Fits, Insts

\* No acceptor raises the signal.
NoSignal == \A a \in Acceptors : a_sig[a] = "none"

\* An acceptor of a deployment that Fits never returns from a batch.
LEMMA NextNoSignal ==
  ASSUME Fits, TypeOK, SendersInv, NoSignal, [Next]_vars
  PROVE  NoSignal'
<1>1. ASSUME UNCHANGED acceptorvars PROVE NoSignal'
  BY <1>1 DEF NoSignal, acceptorvars
<1>2. ASSUME NEW a \in Acceptors, AcceptorNext(a) PROVE NoSignal'
  <2>1. ~ ReachMaxInst(a)
    <3> SUFFICES ASSUME ReachMaxInst(a) PROVE FALSE
      OBVIOUS
    <3>1. InLoop(a) /\ Current(a).inst >= MaxInst
      BY DEF ReachMaxInst
    <3>2. PICK i \in 0 .. cur_inst - 1 : Current(a).inst = i
      BY <3>1, CurrentProposal
    <3>3. i < MaxInst /\ i \in Nat
      BY AssignedInst, ConfigAssumption DEF Insts, Int32
    <3>4. MaxInst \in Nat
      BY ConfigAssumption DEF Int32
    <3> QED BY <3>1, <3>2, <3>3, <3>4
  <2>2. a_sig'[a] = "none"
    <3>1. a_sig[a] = "none" /\ a_sig \in [Acceptors -> {"none", "raised", "last"}]
      BY DEF NoSignal, TypeOK, AcceptorTypeOK
    <3> QED BY <1>2, <2>1, <3>1
            DEF AcceptorNext, AcceptorStep, AcceptorRestart, AcceptorRecv,
                handle_phase1a, handle_phase2a, Answer, Ignore, AcceptorSend,
                AcceptorSendOverrun, Return, AcceptorCrash, AcceptorStop
  <2>3. \A b \in Acceptors : b # a => a_sig'[b] = "none"
    BY <1>2, AcceptorFrame DEF NoSignal
  <2> QED BY <2>2, <2>3 DEF NoSignal
<1>3. ASSUME NEW l \in Learners, LearnerNext(l) PROVE UNCHANGED acceptorvars
  BY <1>3 DEF LearnerNext
<1> QED BY <1>1, <1>2, <1>3 DEF Next, vars, ProposerNext, CoordinatorNext

\* So there is no late call.
LEMMA FitsNeverLate ==
  ASSUME Fits
  PROVE  Spec => []NoLateCall
<1>1. Init => NoSignal
  BY DEF Init, AcceptorInit, NoSignal
<1>2. TypeOK /\ SendersInv /\ NoSignal /\ [Next]_vars => NoSignal'
  BY NextNoSignal
<1>3. NoSignal => NoLateCall
  BY DEF NoSignal, NoLateCall
<1> QED BY <1>1, <1>2, <1>3, SendersInvariance, TypeCorrect, PTL DEF Spec

\* The invariant holds in every reachable state.
THEOREM Invariance ==
  ASSUME Fits
  PROVE  Spec => []Inv
  BY FitsNeverLate, InvariantUntilLate, PTL

(***************************************************************************)
(* Agreement for every configuration: however batches, duplicates, losses  *)
(* and restarts of acceptors and learners interleave, no two learners      *)
(* deliver different values in one instance.                               *)
(***************************************************************************)
THEOREM AgreementTheorem ==
  ASSUME Fits
  PROVE  Spec => []Agreement
<1>1. TypeOK /\ Inv => Agreement
  BY InvAgreement
<1> QED BY <1>1, Invariance, TypeCorrect, PTL

\* What handle_accepted delivers was accepted by a majority in one round.
THEOREM DeliveredIsChosenTheorem ==
  ASSUME Fits
  PROVE  Spec => []DeliveredIsChosen
<1>1. TypeOK /\ Inv => DeliveredIsChosen
  BY DeliveredFacts DEF DeliveredIsChosen
<1> QED BY <1>1, Invariance, TypeCorrect, PTL

\* No running application is given an instance twice.
THEOREM NoDoubleDeliveryTheorem ==
  ASSUME Fits
  PROVE  Spec => []NoDoubleDelivery
<1>1. Inv => NoDoubleDelivery
  BY DEF Inv, ReceiversInv, LogInv, NoDoubleDelivery
<1> QED BY <1>1, Invariance, PTL

\* Responses carry the chosen value, and one client and value per instance.
THEOREM ResponseIsChosenTheorem ==
  ASSUME Fits
  PROVE  Spec => []ResponseIsChosen
<1>1. TypeOK /\ Inv => ResponseIsChosen
  BY InvResponseIsChosen
<1> QED BY <1>1, Invariance, TypeCorrect, PTL

\* Everything on_value sends from its reply buffers is a real vote.
THEOREM VotesAreRealTheorem ==
  ASSUME Fits
  PROVE  Spec => []VotesAreReal
<1>1. TypeOK /\ Inv => VotesAreReal
  BY InvVotesAreReal
<1> QED BY <1>1, Invariance, TypeCorrect, PTL

-----------------------------------------------------------------------------
(* The refinement mapping *)

\* The only element with a given instance is the one CHOOSE returns.
LEMMA ChooseOnly ==
  ASSUME NEW S, NEW n, NEW x \in S, x.inst = n, \A y \in S : y.inst = n => y = x
  PROVE  (CHOOSE w \in S : w.inst = n) = x
  OBVIOUS

\* The slot of an instance shows the proposal forwarded for it.
LEMMA ForwardedOnly ==
  ASSUME ProposalsInv, NEW i, NEW x \in to_acceptors, x.inst = htonl(i)
  PROVE  Forwarded(i) = x
<1>1. \A y \in to_acceptors : y.inst = htonl(i) => y = x
  BY DEF ProposalsInv
<1> QED BY <1>1, ChooseOnly DEF Forwarded

\* A function on 1 .. n is a sequence of length n.
LEMMA FunctionIsSeq ==
  ASSUME NEW S, NEW n \in Nat, NEW f \in [1 .. n -> S]
  PROVE  f \in Seq(S) /\ Len(f) = n
  OBVIOUS

\* Every assigned instance has a slot with a request of a client.
LEMMA SlotsType ==
  ASSUME TypeOK, Inv
  PROVE  /\ Slots \in Seq([value : Requests, client : Clients])
         /\ Len(Slots) = cur_inst
<1>1. cur_inst \in Nat
  BY CounterInt32
<1>2. ASSUME NEW k \in 1 .. cur_inst
      PROVE  [value |-> Forwarded(k - 1).paxosval, client |-> Forwarded(k - 1).client]
                \in [value : Requests, client : Clients]
  <2>1. k - 1 \in 0 .. cur_inst - 1
    BY <1>1
  <2>2. PICK x \in to_acceptors : x.inst = htonl(k - 1)
    BY <2>1 DEF Inv, SendersInv, ProposalsInv
  <2>3. Forwarded(k - 1) = x
    BY <2>2, ForwardedOnly DEF Inv, SendersInv
  <2> QED BY <2>3 DEF Inv, SendersInv, ProposalsInv
<1>3. Slots \in [1 .. cur_inst -> [value : Requests, client : Clients]]
  BY <1>2 DEF Slots
<1> QED BY <1>1, <1>3, FunctionIsSeq

\* What a vote shows is the slot of its instance.
LEMMA VoteShowsSlot ==
  ASSUME TypeOK, Inv, NEW w \in to_learners, NEW a \in Acceptors, NEW i \in Insts,
         IsVote(w, a, i)
  PROVE  /\ i + 1 \in 1 .. cur_inst
         /\ Slots[i + 1] = [value |-> w.paxosval, client |-> w.client]
<1>1. cur_inst \in Nat /\ i \in Nat /\ i \in Int32
  BY CounterInt32, InstsInt32 DEF Int32
<1>2. PICK x \in to_acceptors :
        x.inst = htonl(i) /\ w.paxosval = x.paxosval /\ w.client = x.client
  BY DEF IsVote
<1>3. PICK j \in 0 .. cur_inst - 1 : x.inst = htonl(j)
  BY DEF Inv, SendersInv, ProposalsInv
<1>4. j \in Int32
  <2>1. j \in Nat /\ j < cur_inst
    BY <1>1, <1>3
  <2>2. cur_inst \div 16777216 < 128
    BY CounterInt32, SMT DEF Int32
  <2>3. j \div 16777216 < 128
    BY <1>1, <2>1, <2>2, SMT
  <2> QED BY <2>1, <2>3, SMT DEF Int32
<1>5. i = j
  BY <1>1, <1>2, <1>3, <1>4, HtonlInjective
<1>6. i + 1 \in 1 .. cur_inst /\ (i + 1) - 1 = i
  BY <1>1, <1>3, <1>5
<1>7. Forwarded(i) = x
  BY <1>2, ForwardedOnly DEF Inv, SendersInv
<1> QED BY <1>2, <1>6, <1>7 DEF Slots

-----------------------------------------------------------------------------
(* Steps *)

\* The coordinator's counter and forwarded requests determine the slots.
LEMMA SlotsStay ==
  ASSUME UNCHANGED <<to_acceptors, cur_inst>>
  PROVE  Slots' = Slots
  BY DEF Slots, Forwarded

\* on_value of the coordinator assigns the next slot and moves no other.
LEMMA CoordinatorAssigns ==
  ASSUME TypeOK, Inv, Inv', CoordinatorNext
  PROVE  Abstract!Assign
<1> DEFINE n == cur_inst
<1>1. PICK w \in to_coordinator :
        to_acceptors' = to_acceptors \cup {[w EXCEPT !.inst = htonl(n)]}
  BY DEF CoordinatorNext, CoordinatorOnValue
<1> DEFINE x == [w EXCEPT !.inst = htonl(n)]
           s == [value |-> x.paxosval, client |-> x.client]
<1>2. w \in Message
  BY DEF TypeOK
<1>3. x.inst = htonl(n) /\ x.paxosval \in Requests /\ x.client \in Clients
  BY <1>2 DEF Message, Inv, SendersInv, RequestsInv
<1>4. s \in [value : Requests, client : Clients]
  BY <1>3
<1>5. n \in Nat /\ n' = n + 1
  BY CounterInt32 DEF CoordinatorNext, CoordinatorOnValue
<1>6. x \in to_acceptors' /\ to_acceptors \subseteq to_acceptors'
  BY <1>1
<1>7. UNCHANGED <<log, to_clients>>
  BY DEF CoordinatorNext, CoordinatorOnValue, learnervars
<1>8. \A y, z \in to_acceptors' : y.inst = z.inst => y = z
  BY DEF Inv, SendersInv, ProposalsInv
<1> HIDE DEF n, x
<1>9. (CHOOSE y \in to_acceptors' : y.inst = htonl(n)) = x
  BY <1>3, <1>6, <1>8, ChooseOnly
<1>10. ASSUME NEW k \in 1 .. n
       PROVE  (CHOOSE y \in to_acceptors' : y.inst = htonl(k - 1)) = Forwarded(k - 1)
  <2>1. k - 1 \in 0 .. cur_inst - 1
    BY <1>5 DEF n
  <2>2. PICK y \in to_acceptors : y.inst = htonl(k - 1)
    BY <2>1 DEF Inv, SendersInv, ProposalsInv
  <2>3. Forwarded(k - 1) = y
    BY <2>2, ForwardedOnly DEF Inv, SendersInv
  <2>4. (CHOOSE z \in to_acceptors' : z.inst = htonl(k - 1)) = y
    BY <1>6, <1>8, <2>2, ChooseOnly
  <2> QED BY <2>3, <2>4
<1>11. /\ Slots \in Seq([value : Requests, client : Clients])
       /\ Len(Slots) = n
  BY SlotsType DEF n
<1>12. Slots' = [k \in 1 .. n + 1 |->
                   [value |-> (CHOOSE y \in to_acceptors' : y.inst = htonl(k - 1)).paxosval,
                    client |-> (CHOOSE y \in to_acceptors' : y.inst = htonl(k - 1)).client]]
  BY <1>5 DEF Slots, Forwarded, n
<1>13. ASSUME NEW k \in 1 .. n + 1
       PROVE  Slots'[k] = IF k = n + 1 THEN s ELSE Slots[k]
  <2>1. CASE k = n + 1
    <3>1. k - 1 = n
      BY <1>5, <2>1
    <3> QED BY <1>9, <1>12, <2>1, <3>1
  <2>2. CASE k # n + 1
    <3>1. k \in 1 .. n
      BY <1>5, <2>2
    <3>2. Slots[k] = [value |-> Forwarded(k - 1).paxosval,
                      client |-> Forwarded(k - 1).client]
      BY <3>1 DEF Slots, n
    <3> QED BY <1>10, <1>12, <2>2, <3>1, <3>2
  <2> QED BY <2>1, <2>2
<1> HIDE DEF s
<1>14. /\ Slots' \in Seq([value : Requests, client : Clients])
       /\ Len(Slots') = n + 1
  <2>1. ASSUME NEW k \in 1 .. n + 1
        PROVE  Slots'[k] \in [value : Requests, client : Clients]
    <3>1. k = n + 1 \/ k \in 1 .. Len(Slots)
      BY <1>5, <1>11
    <3>2. k \in 1 .. Len(Slots) => Slots[k] \in [value : Requests, client : Clients]
      BY <1>11, ElementOfSeq
    <3> QED BY <1>4, <1>13, <3>1, <3>2
  <2>2. Slots' \in [1 .. n + 1 -> [value : Requests, client : Clients]]
    BY <1>12, <2>1
  <2>3. n + 1 \in Nat
    BY <1>5
  <2> QED BY <2>2, <2>3, FunctionIsSeq
<1>15. Slots' = Append(Slots, s)
  <2>1. \A k \in 1 .. n + 1 : Slots'[k] = Append(Slots, s)[k]
    BY <1>4, <1>5, <1>11, <1>13, AppendProperties
  <2>2. /\ Append(Slots, s) \in Seq([value : Requests, client : Clients])
        /\ Len(Append(Slots, s)) = n + 1
    BY <1>4, <1>11, AppendProperties
  <2> QED BY <1>14, <2>1, <2>2, SeqEqual
<1> QED BY <1>4, <1>7, <1>15 DEF Abstract!Assign

\* A datagram taken by a learner delivers the slot of its instance, which
\* was not delivered before, or shows nothing.
LEMMA ReceiveDelivers ==
  ASSUME TypeOK, Inv, NEW l \in Learners, LearnerOnValue(l), UNCHANGED cur_inst
  PROVE  \/ \E k \in 1 .. Len(Slots) : Abstract!Deliver(l, k)
         \/ UNCHANGED <<Slots, log, to_clients>>
<1>1. PICK w \in to_learners : LearnerReceive(l, w)
  BY DEF LearnerOnValue
<1> DEFINE m == unpack(w)
           s == l_states[l][m.inst]
<1>2. PICK a \in Acceptors, i \in Insts : IsVote(w, a, i)
  BY DEF Inv, ReceiversInv, VotesInv, RealVote
<1>3. m.inst = i /\ m.rnd = 0 /\ m.paxosval = w.paxosval /\ m.client = w.client
  BY <1>2, VoteRead DEF TypeOK
<1>4. UNCHANGED <<to_acceptors, cur_inst>>
  BY <1>1 DEF LearnerReceive
<1>5. Slots' = Slots
  BY <1>4, SlotsStay
<1>6. CASE LearnerReachMaxInst(l, m)
  BY <1>5, <1>6 DEF LearnerReachMaxInst
<1>7. CASE HigherRound(l, m)
  BY <1>5, <1>7 DEF HigherRound
<1>8. CASE CountVote(l, m)
  <2>1. CASE s.count + 1 # maj
    BY <1>5, <1>8, <2>1 DEF CountVote
  <2>2. CASE s.count + 1 = maj
    <3>1. ~s.finished /\ deliver(l, m)
      BY <1>8, <2>2 DEF CountVote
    <3>2. /\ i + 1 \in 1 .. cur_inst
          /\ Slots[i + 1] = [value |-> w.paxosval, client |-> w.client]
      BY <1>2, VoteShowsSlot
    <3>3. i + 1 \in 1 .. Len(Slots) /\ (i + 1) - 1 = i
      BY <3>2, SlotsType, InstsInt32 DEF Int32
    <3>4. \A j \in 1 .. Len(log[l]) : log[l][j].inst # i
      BY <1>3, <3>1 DEF Inv, ReceiversInv, LogInv
    <3>5. log' = [log EXCEPT ![l] = Append(@, [inst |-> i, value |-> Slots[i + 1].value])]
      BY <1>3, <3>1, <3>2 DEF deliver
    <3>6. \/ UNCHANGED to_clients
          \/ to_clients' = to_clients \cup
               {[client |-> Slots[i + 1].client, inst |-> i, value |-> Slots[i + 1].value]}
      BY <1>3, <3>1, <3>2 DEF deliver
    <3> HIDE DEF m, s
    <3>7. Abstract!Deliver(l, i + 1)
      BY <1>5, <3>3, <3>4, <3>5, <3>6 DEF Abstract!Deliver
    <3> QED BY <3>3, <3>7
  <2> QED BY <2>1, <2>2
<1> QED BY <1>1, <1>6, <1>7, <1>8 DEF LearnerReceive

\* Every step of the deployment is a step of the sequencer or shows nothing.
LEMMA StepSimulation ==
  ASSUME TypeOK, Inv, Inv', [Next]_vars
  PROVE  [Abstract!Next]_<<Slots, log, to_clients>>
<1>1. CASE UNCHANGED vars
  BY <1>1, SlotsStay DEF vars, netvars, learnervars
<1>2. CASE ProposerNext
  BY <1>2, SlotsStay DEF ProposerNext, submit, learnervars
<1>3. CASE CoordinatorNext
  BY <1>3, CoordinatorAssigns DEF Abstract!Next
<1>4. ASSUME NEW a \in Acceptors, AcceptorNext(a)
      PROVE  UNCHANGED <<Slots, log, to_clients>>
  <2>1. UNCHANGED <<to_acceptors, to_clients>>
    BY <1>4, AcceptorStepType DEF AcceptorNext, AcceptorRestart, netvars
  <2> QED BY <1>4, <2>1, SlotsStay DEF AcceptorNext, learnervars
<1>5. ASSUME NEW l \in Learners, LearnerNext(l)
      PROVE  [Abstract!Next]_<<Slots, log, to_clients>>
  <2>1. UNCHANGED cur_inst
    BY <1>5 DEF LearnerNext
  <2>2. CASE LearnerOnValue(l)
    BY <2>1, <2>2, ReceiveDelivers DEF Abstract!Next
  <2>3. CASE LearnerRestart(l)
    <3>1. UNCHANGED <<to_acceptors, to_clients>>
      BY <2>3 DEF LearnerRestart, netvars
    <3>2. Abstract!Forget(l)
      BY <2>1, <2>3, <3>1, SlotsStay DEF LearnerRestart, Abstract!Forget
    <3> QED BY <3>2 DEF Abstract!Next
  <2> QED BY <1>5, <2>2, <2>3 DEF LearnerNext
<1> QED BY <1>1, <1>2, <1>3, <1>4, <1>5 DEF Next

\* The initial states show an empty sequencer.
LEMMA InitSimulation == Init => Abstract!Init
<1> SUFFICES ASSUME Init PROVE Abstract!Init
  OBVIOUS
<1>1. cur_inst = 0 /\ to_clients = {} /\ log = [l \in Learners |-> << >>]
  BY DEF Init, NothingSent, CoordinatorInit, LearnerInit
<1>2. Slots = << >>
  <2>1. 1 .. cur_inst = {}
    BY <1>1
  <2> QED BY <2>1 DEF Slots
<1> QED BY <1>1, <1>2 DEF Abstract!Init

(***************************************************************************)
(* The deployment implements the sequencer: batches, duplicates, losses,   *)
(* reorderings and restarts of acceptors and learners are invisible to     *)
(* the applications and the clients.                                       *)
(***************************************************************************)
THEOREM SequencerTheorem ==
  ASSUME Fits
  PROVE  Spec => ImplementsSequencer
<1>1. TypeOK /\ Inv /\ Inv' /\ [Next]_vars => [Abstract!Next]_<<Slots, log, to_clients>>
  BY StepSimulation
<1> QED BY <1>1, InitSimulation, Invariance, TypeCorrect, PTL
        DEF Spec, ImplementsSequencer, Abstract!Spec

=============================================================================
