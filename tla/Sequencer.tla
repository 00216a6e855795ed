------------------------------ MODULE Sequencer ------------------------------
(***************************************************************************)
(* What libnetpaxos promises to its users while the coordinator keeps      *)
(* running: a sequence of slots, each filled once and for ever with one    *)
(* client's request.  A learner hands every slot to its application at     *)
(* most once, in any order and possibly with gaps; it may answer the       *)
(* client whose request the slot holds; and it forgets everything when it  *)
(* is restarted.                                                           *)
(***************************************************************************)
EXTENDS Naturals, Sequences

CONSTANTS
  Submissions,  \* the requests: records with a value and a client
  Replicas      \* the learners

VARIABLES
  slots,        \* the requests in the order of their instances
  delivered,    \* per learner, the sequence of [inst, value] delivered
  answers       \* the responses sent: [client, inst, value]

Init ==
  /\ slots = << >>
  /\ delivered = [l \in Replicas |-> << >>]
  /\ answers = {}

\* The coordinator gives the next instance to a request.
Assign ==
  /\ \E s \in Submissions : slots' = Append(slots, s)
  /\ UNCHANGED <<delivered, answers>>

\* Learner l delivers slot k, instance k - 1, and may answer the client.
Deliver(l, k) ==
  /\ \A j \in 1 .. Len(delivered[l]) : delivered[l][j].inst # k - 1
  /\ delivered' = [delivered EXCEPT ![l] =
                     Append(@, [inst |-> k - 1, value |-> slots[k].value])]
  /\ \/ UNCHANGED answers
     \/ answers' = answers \cup {[client |-> slots[k].client, inst |-> k - 1,
                                  value |-> slots[k].value]}
  /\ UNCHANGED slots

\* Learner l is restarted.
Forget(l) ==
  /\ delivered' = [delivered EXCEPT ![l] = << >>]
  /\ UNCHANGED <<slots, answers>>

Next ==
  \/ Assign
  \/ \E l \in Replicas : Forget(l)
  \/ \E l \in Replicas, k \in 1 .. Len(slots) : Deliver(l, k)

Spec == Init /\ [][Next]_<<slots, delivered, answers>>

=============================================================================
