----------------------------- MODULE Coordinator -----------------------------
(***************************************************************************)
(* lib/src/coordinator.c: the sequencer.  It stamps every request with the *)
(* next instance number and forwards it to the acceptors.  The counter is  *)
(* the whole of its state, and it is not persisted.                        *)
(***************************************************************************)
EXTENDS Message, Sockets

CONSTANT LastInst   \* bound: how many instances the coordinator assigns

ASSUME LastInstAssumption == LastInst \in Int32

VARIABLE cur_inst

CoordinatorInit == cur_inst = 0

\* Mutant: the counter is not advanced.
CoordinatorOnValueStuck ==
  /\ cur_inst < LastInst
  /\ \E w \in to_coordinator :
       to_acceptors' = to_acceptors \cup {[w EXCEPT !.inst = htonl(cur_inst)]}
  /\ UNCHANGED <<cur_inst, to_coordinator, to_learners, to_clients>>

(***************************************************************************)
(* on_value: the first four bytes of the datagram, still in network order, *)
(* are overwritten; every other field is forwarded as it came.  The        *)
(* counter advances even when sendto fails, which is a datagram nobody     *)
(* receives.                                                               *)
(***************************************************************************)
CoordinatorOnValue ==
  /\ cur_inst < LastInst
  /\ \E w \in to_coordinator :
       to_acceptors' = to_acceptors \cup {[w EXCEPT !.inst = htonl(cur_inst)]}
  /\ cur_inst' = cur_inst + 1
  /\ UNCHANGED <<to_coordinator, to_learners, to_clients>>

\* A coordinator that is stopped and started again counts from 0.
CoordinatorRestart ==
  /\ cur_inst' = 0
  /\ UNCHANGED netvars

=============================================================================
