------------------------------- MODULE NetPaxos -------------------------------
(***************************************************************************)
(* The deployment of run-experiment.py: proposers that submit requests,    *)
(* one coordinator, NUM_ACCEPTORS acceptors and the learners, over UDP.    *)
(* Acceptors and learners may end and be started again at any point; the   *)
(* coordinator is started once (NetPaxosFaults lets it restart).           *)
(***************************************************************************)
EXTENDS Proposer, Coordinator, Acceptor, Learner, FiniteSets

CONSTANT Unstable   \* bound: the acceptors and learners that may restart

ASSUME UnstableAssumption == Unstable \subseteq (Acceptors \cup Learners)

vars == <<netvars, cur_inst, acceptorvars, learnervars>>

Init ==
  /\ NothingSent
  /\ CoordinatorInit
  /\ AcceptorInit
  /\ LearnerInit

ProposerNext ==
  /\ \E c \in Clients, v \in Requests : submit(c, v)
  /\ UNCHANGED <<cur_inst, acceptorvars, learnervars>>

CoordinatorNext ==
  /\ CoordinatorOnValue
  /\ UNCHANGED <<acceptorvars, learnervars>>

AcceptorNext(a) ==
  /\ \/ AcceptorStep(a)
     \/ a \in Unstable /\ AcceptorRestart(a)
  /\ UNCHANGED <<cur_inst, learnervars>>

LearnerNext(l) ==
  /\ \/ LearnerOnValue(l)
     \/ l \in Unstable /\ LearnerRestart(l)
  /\ UNCHANGED <<cur_inst, acceptorvars>>

Next ==
  \/ ProposerNext
  \/ CoordinatorNext
  \/ \E a \in Acceptors : AcceptorNext(a)
  \/ \E l \in Learners : LearnerNext(l)

Spec == Init /\ [][Next]_vars

-----------------------------------------------------------------------------
(* Properties *)

Response == [client : Nat, inst : Insts, value : Paxosval]

\* The type invariant of all roles and sockets.
TypeOK ==
  /\ to_coordinator \subseteq Message
  /\ to_acceptors \subseteq Message
  /\ to_learners \subseteq Message
  /\ to_clients \subseteq Response
  /\ cur_inst \in 0 .. LastInst
  /\ AcceptorTypeOK
  /\ LearnerTypeOK

\* The acceptors that accepted value v in round r of instance i.
Voters(i, r, v) == {a \in Acceptors : <<a, i, r, v>> \in accepted}

\* More than half of the acceptors accepted v in one and the same round.
Chosen(i, v) ==
  \E r \in {t[3] : t \in accepted} : 2 * Cardinality(Voters(i, r, v)) > NumAcceptors

(***************************************************************************)
(* Two learners that deliver the same instance deliver the same value,     *)
(* whatever votes reach them and in whatever order, and however often an   *)
(* acceptor or a learner was restarted.                                    *)
(***************************************************************************)
Agreement ==
  \A l1, l2 \in Learners :
    \A j \in 1 .. Len(log[l1]), k \in 1 .. Len(log[l2]) :
      log[l1][j].inst = log[l2][k].inst => log[l1][j].value = log[l2][k].value

(***************************************************************************)
(* What learner.c marks "Chosen value" is one: a value handed to the       *)
(* application was accepted, whole, by a majority in one round.            *)
(***************************************************************************)
DeliveredIsChosen ==
  \A l \in Learners : \A k \in 1 .. Len(log[l]) :
    Chosen(log[l][k].inst, log[l][k].value)

(***************************************************************************)
(* No running application is given the same instance twice, although       *)
(* votes keep arriving, repeatedly, after the instance was delivered.      *)
(***************************************************************************)
NoDoubleDelivery ==
  \A l \in Learners : \A j, k \in 1 .. Len(log[l]) :
    log[l][j].inst = log[l][k].inst => j = k

(***************************************************************************)
(* A client that gets a response gets the value chosen in that instance:   *)
(* answers to one instance never differ and never precede the choice.      *)
(***************************************************************************)
ResponseIsChosen ==
  \A p \in to_clients :
    /\ Chosen(p.inst, p.value)
    /\ \A q \in to_clients : q.inst = p.inst => q = p

\* A datagram that a learner would count is the phase-2b vote of an acceptor
\* that did accept that value.
Genuine(w) ==
  LET m == unpack(w)
  IN m.inst < MaxInst =>
       /\ m.msgtype = phase2b
       /\ <<m.acptid, m.inst, m.rnd, m.paxosval>> \in accepted

(***************************************************************************)
(* Whatever the acceptors send and a learner would count is a genuine      *)
(* vote: no reply buffer is sent with the contents of another message, in  *)
(* host byte order or unanswered.                                          *)
(***************************************************************************)
VotesAreReal == \A w \in to_learners : Genuine(w)

-----------------------------------------------------------------------------
(***************************************************************************)
(* Past MAXINST.  on_value returns from the middle of a batch, and the     *)
(* replies already built stay counted.  If the socket is readable before   *)
(* the signal's handler runs, a late call of on_value starts from them.    *)
(***************************************************************************)
NoLateCall == \A a \in Acceptors : a_sig[a] # "last"

(***************************************************************************)
(* on_value never compares count_accepted with vlen.  It leaves the arrays *)
(* in a late call only: every other call starts from 0, although the       *)
(* return at MAXINST leaves the count of the batch it cuts.                *)
(***************************************************************************)
IndexInRange == \A a \in Acceptors : a_count[a] > Vlen => a_sig[a] = "last"

(***************************************************************************)
(* A call that returns to the event loop sends genuine votes only, unless  *)
(* it is a late one: the replies that the return at MAXINST left unsent    *)
(* are never sent with what another call put in their buffers.             *)
(***************************************************************************)
GenuineUnlessLate ==
  [][\A a \in Acceptors :
       a_pc[a] = "loop" /\ a_pc'[a] = "wait" /\ a_sig[a] # "last" =>
         \A w \in to_learners' \ to_learners : Genuine(w)']_vars

(***************************************************************************)
(* The coordinator may count past MAXINST, and acceptors stop in the       *)
(* middle of batches: as long as no late call happens, every vote is       *)
(* genuine and every delivered value was accepted by a majority.           *)
(***************************************************************************)
SafeUntilLateCall == []NoLateCall => [](VotesAreReal /\ DeliveredIsChosen)

-----------------------------------------------------------------------------
(***************************************************************************)
(* The refinement: slot k of the abstract sequencer holds the request that *)
(* the coordinator forwarded as instance k - 1.                            *)
(***************************************************************************)
Forwarded(i) == CHOOSE w \in to_acceptors : w.inst = htonl(i)

Slots == [k \in 1 .. cur_inst |->
            [value |-> Forwarded(k - 1).paxosval, client |-> Forwarded(k - 1).client]]

Abstract == INSTANCE Sequencer
              WITH Submissions <- [value : Requests, client : Clients],
                   Replicas <- Learners,
                   slots <- Slots, delivered <- log, answers <- to_clients

(***************************************************************************)
(* Batches, duplicates, losses, reorderings and restarts of acceptors and  *)
(* learners are invisible to the applications and clients: every step of   *)
(* the deployment is a step of the sequencer or changes nothing it shows.  *)
(***************************************************************************)
ImplementsSequencer == Abstract!Spec

=============================================================================
