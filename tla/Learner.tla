------------------------------- MODULE Learner -------------------------------
(***************************************************************************)
(* lib/src/learner.c with the application callback of                      *)
(* app/simple_learner.c.  A learner counts, per instance, the acceptors it *)
(* heard from in the highest round, and delivers the instance when the     *)
(* count reaches a majority: whatever the order of the instances.          *)
(*                                                                         *)
(* on_value takes datagrams with recvmmsg, but handles each of them alone  *)
(* and keeps nothing between them, so a receipt is one action.             *)
(***************************************************************************)
EXTENDS Config, Sockets, Sequences

CONSTANT Learners   \* node ids the learners were started with

ASSUME LearnerAssumption == Learners \subseteq Nat

VARIABLES
  l_states,   \* states[inst] of each learner; from is the bit mask as a set
  l_up,       \* FALSE once the event loop was left
  log         \* what the running application was given, in order

learnervars == <<l_states, l_up, log>>

L_State == [rnd : Uint16, count : Nat, from : SUBSET (0 .. 31),
            finished : BOOLEAN, paxosval : Paxosval]

Delivery == [inst : Insts, value : Paxosval]

LearnerTypeOK ==
  /\ l_states \in [Learners -> [Insts -> L_State]]
  /\ l_up \in [Learners -> BOOLEAN]
  /\ log \in [Learners -> Seq(Delivery)]

\* Mutants: half of the acceptors, and all of them.
majHalf == NumAcceptors \div 2
majAll  == NumAcceptors

\* ceil((num_acceptors + 1) / 2.0)
maj == (NumAcceptors + 2) \div 2

-----------------------------------------------------------------------------
(* learner_ctx_new *)

NewLearner == [i \in Insts |->
                 [rnd |-> 0, count |-> 0, from |-> {}, finished |-> FALSE,
                  paxosval |-> ZeroVal]]

LearnerInit ==
  /\ l_states = [l \in Learners |-> NewLearner]
  /\ l_up = [l \in Learners |-> TRUE]
  /\ log = [l \in Learners |-> << >>]

-----------------------------------------------------------------------------
(***************************************************************************)
(* The callback: the application gets the value, and the learner whose     *)
(* turn the instance is sends it back to the client named in the datagram  *)
(* that completed the majority.                                            *)
(***************************************************************************)
my_turn(l, inst) == inst % NumAcceptors = l

deliver(l, m) ==
  /\ log' = [log EXCEPT ![l] = Append(@, [inst |-> m.inst, value |-> m.paxosval])]
  /\ to_clients' = to_clients \cup
       (IF my_turn(l, m.inst)
        THEN {[client |-> m.client, inst |-> m.inst, value |-> m.paxosval]}
        ELSE {})

\* The bit of 1 << acptid: the shift takes its count modulo 32.
bit(m) == m.acptid % 32

\* Mutant: an acceptor is counted once per datagram.
CountVoteRepeated(l, m) ==
  LET s == l_states[l][m.inst]
  IN /\ ~s.finished
     /\ m.rnd = s.rnd
     /\ l_states' = [l_states EXCEPT ![l][m.inst] =
                       [rnd |-> s.rnd, count |-> s.count + 1,
                        from |-> s.from \cup {bit(m)},
                        finished |-> s.count + 1 = maj,
                        paxosval |-> m.paxosval]]
     /\ IF s.count + 1 = maj
        THEN deliver(l, m)
        ELSE UNCHANGED <<log, to_clients>>
     /\ UNCHANGED l_up

\* Mutant: a delivered instance is made free again instead of finished.
CountVoteRecycles(l, m) ==
  LET s == l_states[l][m.inst]
  IN /\ m.rnd = s.rnd
     /\ bit(m) \notin s.from
     /\ l_states' = [l_states EXCEPT ![l][m.inst] =
                       IF s.count + 1 = maj THEN NewLearner[m.inst]
                       ELSE [rnd |-> s.rnd, count |-> s.count + 1,
                             from |-> s.from \cup {bit(m)},
                             finished |-> FALSE, paxosval |-> m.paxosval]]
     /\ IF s.count + 1 = maj
        THEN deliver(l, m)
        ELSE UNCHANGED <<log, to_clients>>
     /\ UNCHANGED l_up

(***************************************************************************)
(* handle_accepted, for a datagram of the round being counted from an      *)
(* acceptor not yet counted.  The type of the message is not looked at.    *)
(***************************************************************************)
CountVote(l, m) ==
  LET s == l_states[l][m.inst]
  IN /\ ~s.finished
     /\ m.rnd = s.rnd
     /\ bit(m) \notin s.from
     /\ l_states' = [l_states EXCEPT ![l][m.inst] =
                       [rnd |-> s.rnd, count |-> s.count + 1,
                        from |-> s.from \cup {bit(m)},
                        finished |-> s.count + 1 = maj,
                        paxosval |-> m.paxosval]]
     /\ IF s.count + 1 = maj
        THEN deliver(l, m)
        ELSE UNCHANGED <<log, to_clients>>
     /\ UNCHANGED l_up

\* Mutant: the count goes on in the higher round.
HigherRoundKeepsCount(l, m) ==
  LET s == l_states[l][m.inst]
  IN /\ ~s.finished
     /\ m.rnd > s.rnd
     /\ l_states' = [l_states EXCEPT ![l][m.inst] =
                       [rnd |-> m.rnd, count |-> s.count + 1,
                        from |-> s.from \cup {bit(m)},
                        finished |-> FALSE,
                        paxosval |-> strcpy(s.paxosval, m.paxosval)]]
     /\ UNCHANGED <<log, to_clients, l_up>>

\* Mutant: a finished instance is opened again by a higher round.
HigherRoundReopens(l, m) ==
  LET s == l_states[l][m.inst]
  IN /\ m.rnd > s.rnd
     /\ l_states' = [l_states EXCEPT ![l][m.inst] =
                       [rnd |-> m.rnd, count |-> 1,
                        from |-> s.from \cup {bit(m)},
                        finished |-> FALSE,
                        paxosval |-> strcpy(s.paxosval, m.paxosval)]]
     /\ UNCHANGED <<log, to_clients, l_up>>

\* handle_accepted, for a datagram of a higher round: the count starts
\* again at 1, the mask of those heard from does not.
HigherRound(l, m) ==
  LET s == l_states[l][m.inst]
  IN /\ ~s.finished
     /\ m.rnd > s.rnd
     /\ l_states' = [l_states EXCEPT ![l][m.inst] =
                       [rnd |-> m.rnd, count |-> 1,
                        from |-> s.from \cup {bit(m)},
                        finished |-> FALSE,
                        paxosval |-> strcpy(s.paxosval, m.paxosval)]]
     /\ UNCHANGED <<log, to_clients, l_up>>

(***************************************************************************)
(* An instance the table cannot hold: raise(SIGTERM).  The signal's event  *)
(* has a higher priority than the socket's, so the loop is left before     *)
(* another datagram is taken.                                              *)
(***************************************************************************)
LearnerReachMaxInst(l, m) ==
  /\ m.inst >= MaxInst
  /\ l_up' = [l_up EXCEPT ![l] = FALSE]
  /\ UNCHANGED <<l_states, log, to_clients>>

\* One iteration of on_value.  A vote that handle_accepted turns down (the
\* instance is finished, the round is old, the acceptor was counted) changes
\* nothing.
LearnerReceive(l, w) ==
  LET m == unpack(w)
  IN /\ l_up[l]
     /\ \/ LearnerReachMaxInst(l, m)
        \/ m.inst < MaxInst /\ CountVote(l, m)
        \/ m.inst < MaxInst /\ HigherRound(l, m)
     /\ UNCHANGED <<to_coordinator, to_acceptors, to_learners>>

LearnerOnValue(l) == \E w \in to_learners : LearnerReceive(l, w)

\* The process ends and is started again; so does the application in it.
LearnerRestart(l) ==
  /\ l_states' = [l_states EXCEPT ![l] = NewLearner]
  /\ l_up' = [l_up EXCEPT ![l] = TRUE]
  /\ log' = [log EXCEPT ![l] = << >>]
  /\ UNCHANGED netvars

=============================================================================
