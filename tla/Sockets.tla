---- MODULE Sockets ----
(***************************************************************************)
(* The UDP sockets that init_proposer, start_coordinator, start_acceptor   *)
(* and make_learner open, by the address a datagram is sent to.  A         *)
(* datagram that was sent stays in its set: it may be received never       *)
(* (loss), late or in another order (reordering) and more than once        *)
(* (duplication), by every process that joined a multicast address         *)
(* (addMembership).                                                        *)
(***************************************************************************)
VARIABLES
  to_coordinator,  \* submit to COORDINATOR_ADDR
  to_acceptors,    \* the coordinator's on_value to ACCEPTOR_ADDR
  to_learners,     \* sendmmsg of an acceptor to LEARNER_ADDR
  to_clients       \* a learner's response to the address in the message

\* What a step that sends nothing leaves alone.
netvars == <<to_coordinator, to_acceptors, to_learners, to_clients>>

\* Every process has just been started.
NothingSent == /\ to_coordinator = {} /\ to_acceptors = {}
               /\ to_learners = {} /\ to_clients = {}

====
