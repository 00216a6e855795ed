------------------------------- MODULE Proposer -------------------------------
(***************************************************************************)
(* The sending half of lib/src/proposer.c.                                 *)
(***************************************************************************)
EXTENDS Message, Sockets

CONSTANTS
  Clients,    \* addresses of the proposers' sockets
  Requests    \* the values they submit

ASSUME ProposerAssumption == /\ Clients \subseteq Nat /\ NoAddr \notin Clients
                             /\ Requests \subseteq Paxosval

\* Mutant: the proposer's own address is not put into the message.
submitNoClient(c, v) ==
  /\ to_coordinator' = to_coordinator \cup
       {pack([initialize_message(phase2a) EXCEPT !.paxosval = v])}
  /\ UNCHANGED <<to_acceptors, to_learners, to_clients>>

(***************************************************************************)
(* submit (and paxos_send): a phase-2a message of round 0 with instance 0, *)
(* to be filled in by the coordinator.  retry sends the last request again *)
(* with a new timestamp in it: one more submission.                        *)
(***************************************************************************)
submit(c, v) ==
  /\ to_coordinator' = to_coordinator \cup
       {pack([initialize_message(phase2a) EXCEPT !.paxosval = v, !.client = c])}
  /\ UNCHANGED <<to_acceptors, to_learners, to_clients>>

=============================================================================
