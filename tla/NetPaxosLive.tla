---------------------------- MODULE NetPaxosLive ----------------------------
(***************************************************************************)
(* Progress of the deployment when a majority of the acceptors is correct. *)
(*                                                                         *)
(* Assumed of the processes: a correct acceptor that is in a call of       *)
(* on_value goes on with it.  Nothing is assumed of the other acceptors,   *)
(* which may be slow, stop inside on_value or restart.                     *)
(*                                                                         *)
(* Nothing is assumed of the network, either: the coordinator sends an     *)
(* instance once, by UDP, gives a client's retry a new instance, and       *)
(* nobody calls recover, so that an instance lost on its way to or from a  *)
(* majority is never delivered.  What has to arrive for an instance to be  *)
(* delivered is the premise of the property.                               *)
(***************************************************************************)
EXTENDS NetPaxos

CONSTANT Correct   \* the acceptors that run and are reached

ASSUME CorrectAssumption == Correct \subseteq Acceptors

\* Acceptor a goes on with the on_value call it is in.
Working(a) ==
  /\ \/ handle_phase1a(a) \/ handle_phase2a(a) \/ Ignore(a)
     \/ ReachMaxInst(a)
     \/ AcceptorSend(a) \/ AcceptorSendOverrun(a) \/ AcceptorCrash(a)
  /\ UNCHANGED <<cur_inst, learnervars>>

\* Learner l takes the vote of acceptor a for instance i.
Heard(l, a, i) ==
  /\ \E w \in to_learners :
       /\ w.acptid = htons(a) /\ w.inst = htonl(i)
       /\ LearnerReceive(l, w)
  /\ UNCHANGED <<cur_inst, acceptorvars>>

Fairness == \A a \in Correct : WF_vars(Working(a))

LiveSpec == Spec /\ Fairness

-----------------------------------------------------------------------------
\* The proposal of instance i reaches acceptor a, at least once.
ProposalArrives(a, i) ==
  <>(a_pc[a] = "loop" /\ \E k \in 1 .. Len(a_bufs[a]) : a_bufs[a][k].inst = htonl(i))

\* The vote of acceptor a for instance i, once sent, reaches learner l.
VoteArrives(l, a, i) == WF_vars(Heard(l, a, i))

Delivered(l, i) == \E k \in 1 .. Len(log[l]) : log[l][k].inst = i

(***************************************************************************)
(* An instance whose proposal and votes are not lost between the correct   *)
(* acceptors and the learners is delivered by every learner, however the   *)
(* votes of the faulty minority interfere, and the learner whose turn it   *)
(* is answers the client.                                                  *)
(***************************************************************************)
EveryInstanceDelivered ==
  \A i \in Insts :
    (\A a \in Correct :
       ProposalArrives(a, i) /\ \A l \in Learners : VoteArrives(l, a, i))
    => (cur_inst > i ~> /\ \A l \in Learners : Delivered(l, i)
                       /\ \A l \in Learners : my_turn(l, i) =>
                            \E p \in to_clients : p.inst = i)

=============================================================================
