---------------------------- MODULE NetPaxosFaults ----------------------------
(***************************************************************************)
(* The deployment when the assumptions of NetPaxos are given up: the       *)
(* coordinator is restarted, or datagrams of other rounds reach the        *)
(* acceptors.  No part of this repository sends a phase-1a message or a    *)
(* round above 0; handle_phase1a and the round tests of acceptor.c and     *)
(* learner.c are written for a coordinator that does, which is external.   *)
(***************************************************************************)
EXTENDS NetPaxos

CONSTANTS
  Rounds,        \* the rounds the external coordinator uses
  RoundTypes     \* the types of the messages it sends: phase1a, phase2a

ASSUME RoundsAssumption == /\ Rounds \subseteq Uint16
                           /\ RoundTypes \subseteq {phase1a, phase2a}

CoordinatorRestartNext ==
  /\ CoordinatorRestart
  /\ UNCHANGED <<acceptorvars, learnervars>>

SpecRestarts == Init /\ [][Next \/ CoordinatorRestartNext]_vars

\* The external coordinator proposes v in round r of instance i: at most one
\* value per round and instance, as Paxos requires.  A phase-1a has no value.
ExternalCoordinator(i, r, t, v) ==
  LET w == pack([initialize_message(t) EXCEPT !.inst = i, !.rnd = r,
                   !.paxosval = IF t = phase2a THEN v ELSE ZeroVal])
  IN /\ t = phase2a =>
          \A x \in to_acceptors :
            x.inst = w.inst /\ x.rnd = w.rnd /\ x.msgtype = w.msgtype => x = w
     /\ to_acceptors' = to_acceptors \cup {w}
     /\ UNCHANGED <<to_coordinator, to_learners, to_clients>>
     /\ UNCHANGED <<cur_inst, acceptorvars, learnervars>>

RoundsNext ==
  \/ Next
  \/ \E i \in Insts, r \in Rounds, t \in RoundTypes, v \in Requests :
       ExternalCoordinator(i, r, t, v)

SpecRounds == Init /\ [][RoundsNext]_vars

-----------------------------------------------------------------------------
(***************************************************************************)
(* The promise of an acceptor that keeps running: its rounds never go      *)
(* down, and it accepts only in a round it has not promised to leave, so   *)
(* a late phase 2a of an older round changes nothing.                      *)
(***************************************************************************)
PromiseKept ==
  [][\A a \in Acceptors, i \in Insts :
       ~AcceptorRestart(a) =>
         /\ a_states'[a][i].rnd >= a_states[a][i].rnd
         /\ a_states'[a][i].vrnd # a_states[a][i].vrnd =>
              a_states'[a][i].vrnd >= a_states[a][i].rnd]_vars

(***************************************************************************)
(* An instance is finished for good: the buffer that the application was   *)
(* given a pointer to, its round and its count never change afterwards,    *)
(* whatever votes of whatever round still arrive.                          *)
(***************************************************************************)
FinishedIsFrozen ==
  [][\A l \in Learners, i \in Insts :
       l_states[l][i].finished /\ l_states'[l][i] # l_states[l][i] =>
         l_states'[l] = NewLearner]_vars

\* The acceptors in the mask of learner l from which a datagram of the round
\* being counted was sent.
SentInRound(l, i) ==
  {a \in l_states[l][i].from :
     \E w \in to_learners : LET m == unpack(w) IN
       bit(m) = a /\ m.inst = i /\ m.rnd = l_states[l][i].rnd}

(***************************************************************************)
(* A learner counts every acceptor once and only in the current round: the *)
(* mask is kept when a higher round starts the count again, and yet the    *)
(* count never exceeds the acceptors in it that sent something in this     *)
(* round.  What was delivered has a majority of them.  The count passes a  *)
(* majority undelivered in one case only, a single acceptor: its vote in a *)
(* higher round is counted without the test.  This says nothing of the     *)
(* other direction: an acceptor that is in the mask from an older round is *)
(* not counted again, so that a majority that did vote in the new round    *)
(* may stay below maj for good.                                            *)
(***************************************************************************)
CountedOnce ==
  \A l \in Learners, i \in Insts :
    LET s == l_states[l][i]
    IN /\ s.count <= Cardinality(SentInRound(l, i))
       /\ s.finished => s.count = maj
       /\ s.count >= maj => s.finished \/ (maj = 1 /\ s.rnd > 0)

=============================================================================
