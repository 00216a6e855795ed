------------------------- MODULE NetPaxosFaultsProofs -------------------------
(***************************************************************************)
(* What still holds, for every configuration, when the coordinator is      *)
(* restarted or an external one uses other rounds: the types, an           *)
(* acceptor's promise, a learner's count and its finished instances.       *)
(***************************************************************************)
EXTENDS NetPaxosFaults, NetPaxosProofs

FaultsNext == RoundsNext \/ CoordinatorRestartNext

-----------------------------------------------------------------------------
(* Type correctness *)

\* A datagram of the external coordinator is a message.
LEMMA ExternalType ==
  ASSUME TypeOK, NEW i \in Insts, NEW r \in Rounds, NEW t \in RoundTypes,
         NEW v \in Requests, ExternalCoordinator(i, r, t, v)
  PROVE  TypeOK'
<1> DEFINE val == IF t = phase2a THEN v ELSE ZeroVal
           m == [initialize_message(t) EXCEPT !.inst = i, !.rnd = r, !.paxosval = val]
<1>1. i \in Nat
  BY ConfigAssumption DEF Insts
<1>2. t \in Uint16 /\ r \in Uint16
  BY RoundsAssumption, Uint16Constants
<1>3. val \in Paxosval
  BY ProposerAssumption, InitialTypes
<1>4. initialize_message(t) \in Message
  BY <1>2, InitialTypes DEF initialize_message, Message
<1> HIDE DEF val
<1>5. m \in Message
  BY <1>1, <1>2, <1>3, <1>4 DEF Message
<1>6. pack(m) \in Message
  BY <1>5, PackType
<1>7. /\ to_acceptors' = to_acceptors \cup {pack(m)}
      /\ UNCHANGED <<to_coordinator, to_learners, to_clients>>
      /\ UNCHANGED <<cur_inst, acceptorvars, learnervars>>
  BY DEF ExternalCoordinator, val
<1> HIDE DEF m
<1> QED BY <1>6, <1>7
        DEF TypeOK, AcceptorTypeOK, LearnerTypeOK, acceptorvars, learnervars

\* Every step keeps the types.
LEMMA FaultsType ==
  ASSUME TypeOK, [FaultsNext]_vars
  PROVE  TypeOK'
<1>1. CASE [Next]_vars
  BY <1>1, NextType
<1>2. CASE CoordinatorRestartNext
  <2>1. 0 \in 0 .. LastInst
    BY LastInstAssumption DEF Int32
  <2> QED BY <1>2, <2>1 DEF CoordinatorRestartNext, CoordinatorRestart, netvars,
             TypeOK, AcceptorTypeOK, LearnerTypeOK, acceptorvars, learnervars
<1> QED BY <1>1, <1>2, ExternalType DEF FaultsNext, RoundsNext

(***************************************************************************)
(* The types stay as they are: no round, type or restart of the            *)
(* coordinator leads outside of a table or a reply buffer.                 *)
(***************************************************************************)
THEOREM FaultsTypeCorrect == SpecRounds \/ SpecRestarts => []TypeOK
<1>1. TypeOK /\ [FaultsNext]_vars => TypeOK'
  BY FaultsType
<1>2. [RoundsNext]_vars \/ [Next \/ CoordinatorRestartNext]_vars => [FaultsNext]_vars
  BY DEF FaultsNext, RoundsNext
<1> QED BY <1>1, <1>2, InitType, PTL DEF SpecRounds, SpecRestarts

-----------------------------------------------------------------------------
(* Acceptors *)

\* Rounds are numbers.
LEMMA Uint16Nat ==
  ASSUME NEW x \in Uint16
  PROVE  x \in Nat
  BY SMT DEF Uint16

\* The table index and the round of the datagram under the loop index.
LEMMA CurrentIndex ==
  ASSUME TypeOK, NEW a \in Acceptors, InLoop(a), Current(a).inst < MaxInst
  PROVE  Current(a).inst \in Insts /\ Current(a).rnd \in Nat
<1>1. Current(a) \in Message
  BY CurrentType
<1>2. Current(a).inst \in Nat /\ Current(a).rnd \in Uint16
  BY <1>1 DEF Message
<1> QED BY <1>2, InstInRange, Uint16Nat

\* What one step does to the rounds of an acceptor that is not restarted.
LEMMA RoundsRise ==
  ASSUME TypeOK, [FaultsNext]_vars, NEW a \in Acceptors, NEW i \in Insts,
         ~AcceptorRestart(a)
  PROVE  /\ a_states'[a][i].rnd >= a_states[a][i].rnd
         /\ a_states'[a][i].vrnd # a_states[a][i].vrnd =>
              a_states'[a][i].vrnd >= a_states[a][i].rnd
<1>1. /\ a_states \in [Acceptors -> [Insts -> A_State]]
      /\ a_states[a][i].rnd \in Nat
  <2>1. a_states \in [Acceptors -> [Insts -> A_State]]
    BY DEF TypeOK, AcceptorTypeOK
  <2>2. a_states[a][i].rnd \in Uint16
    BY <2>1 DEF A_State
  <2> QED BY <2>1, <2>2, Uint16Nat
<1>2. CASE a_states'[a] = a_states[a]
  BY <1>1, <1>2
<1>3. ASSUME NEW b \in Acceptors, AcceptorStep(b)
      PROVE  \/ a_states'[a] = a_states[a]
             \/ /\ a_states'[a][i].rnd >= a_states[a][i].rnd
                /\ a_states'[a][i].vrnd # a_states[a][i].vrnd =>
                     a_states'[a][i].vrnd >= a_states[a][i].rnd
  <2> DEFINE m == Current(b)
  <2>1. CASE handle_phase1a(b)
    <3>1. InLoop(b) /\ m.inst < MaxInst /\ m.rnd > a_states[b][m.inst].rnd
      BY <2>1 DEF handle_phase1a
    <3>2. m.inst \in Insts /\ m.rnd \in Nat
      BY <3>1, CurrentIndex
    <3>3. a_states' = [a_states EXCEPT ![b][m.inst].rnd = m.rnd]
      BY <2>1 DEF handle_phase1a
    <3> HIDE DEF m
    <3>4. CASE b = a /\ m.inst = i
      <4>1. a_states[a][i] \in A_State
        BY <1>1
      <4>2. a_states'[a][i] = [a_states[a][i] EXCEPT !.rnd = m.rnd]
        BY <1>1, <3>3, <3>4
      <4>3. a_states'[a][i].rnd = m.rnd /\ a_states'[a][i].vrnd = a_states[a][i].vrnd
        BY <4>1, <4>2 DEF A_State
      <4> QED BY <1>1, <3>1, <3>2, <3>4, <4>3
    <3>5. CASE ~(b = a /\ m.inst = i)
      <4>1. a_states'[a][i] = a_states[a][i]
        BY <1>1, <3>2, <3>3, <3>5
      <4> QED BY <1>1, <4>1
    <3> QED BY <3>4, <3>5
  <2>2. CASE handle_phase2a(b)
    <3>1. InLoop(b) /\ m.inst < MaxInst /\ m.rnd >= a_states[b][m.inst].rnd
      BY <2>2 DEF handle_phase2a
    <3>2. m.inst \in Insts /\ m.rnd \in Nat
      BY <3>1, CurrentIndex
    <3> DEFINE t == [rnd |-> m.rnd, vrnd |-> m.rnd,
                     paxosval |-> strcpy(a_states[b][m.inst].paxosval, m.paxosval)]
    <3>3. a_states' = [a_states EXCEPT ![b][m.inst] = t]
      BY <1>1, <2>2, <3>2 DEF handle_phase2a
    <3>4. t.rnd = m.rnd /\ t.vrnd = m.rnd
      OBVIOUS
    <3> HIDE DEF m, t
    <3>5. CASE b = a /\ m.inst = i
      <4>1. a_states'[a][i] = t
        BY <1>1, <3>3, <3>5
      <4> QED BY <1>1, <3>1, <3>2, <3>4, <3>5, <4>1
    <3>6. CASE ~(b = a /\ m.inst = i)
      <4>1. a_states'[a][i] = a_states[a][i]
        BY <1>1, <3>2, <3>3, <3>6
      <4> QED BY <1>1, <4>1
    <3> QED BY <3>5, <3>6
  <2>3. CASE UNCHANGED a_states
    BY <2>3
  <2> QED BY <1>3, <2>1, <2>2, <2>3
          DEF AcceptorStep, AcceptorRecv, ReachMaxInst, Ignore, AcceptorSend,
              AcceptorSendOverrun, Return, AcceptorCrash, AcceptorStop
<1>4. ASSUME NEW b \in Acceptors, AcceptorRestart(b)
      PROVE  a_states'[a] = a_states[a]
  <2>1. a # b
    BY <1>4
  <2> QED BY <1>1, <1>4, <2>1 DEF AcceptorRestart
<1>5. CASE UNCHANGED a_states
  BY <1>2, <1>5
<1>6. \/ UNCHANGED a_states
      \/ \E b \in Acceptors : AcceptorStep(b) \/ AcceptorRestart(b)
  BY DEF FaultsNext, RoundsNext, ExternalCoordinator, CoordinatorRestartNext, Next,
         ProposerNext, CoordinatorNext, AcceptorNext, LearnerNext, vars, acceptorvars
<1> QED BY <1>2, <1>3, <1>4, <1>5, <1>6

(***************************************************************************)
(* The promise of handle_phase1a and handle_phase2a, for every number of   *)
(* rounds and every order of the datagrams.                                *)
(***************************************************************************)
THEOREM PromiseKeptTheorem == SpecRounds \/ SpecRestarts => PromiseKept
<1>1. TypeOK /\ [FaultsNext]_vars =>
        [\A a \in Acceptors, i \in Insts :
           ~AcceptorRestart(a) =>
             /\ a_states'[a][i].rnd >= a_states[a][i].rnd
             /\ a_states'[a][i].vrnd # a_states[a][i].vrnd =>
                  a_states'[a][i].vrnd >= a_states[a][i].rnd]_vars
  BY RoundsRise
<1>2. [RoundsNext]_vars \/ [Next \/ CoordinatorRestartNext]_vars => [FaultsNext]_vars
  BY DEF FaultsNext, RoundsNext
<1> QED BY <1>1, <1>2, FaultsTypeCorrect, PTL DEF SpecRounds, SpecRestarts, PromiseKept

-----------------------------------------------------------------------------
(* Learners *)

\* Who steps: a learner takes a datagram or restarts, or no table changes
\* and what was sent to the learners stays.
LEMMA LearnerTables ==
  ASSUME TypeOK, [FaultsNext]_vars
  PROVE  /\ to_learners \subseteq to_learners'
         /\ \/ UNCHANGED l_states
            \/ \E l \in Learners : LearnerOnValue(l) \/ LearnerRestart(l)
<1>1. ASSUME NEW a \in Acceptors, AcceptorNext(a)
      PROVE  to_learners \subseteq to_learners' /\ UNCHANGED l_states
  <2>1. AcceptorStep(a) \/ AcceptorRestart(a)
    BY <1>1 DEF AcceptorNext
  <2> QED BY <1>1, <2>1
          DEF AcceptorNext, AcceptorStep, AcceptorRestart, AcceptorRecv, ReachMaxInst,
              handle_phase1a, handle_phase2a, Answer, Ignore, AcceptorSend,
              AcceptorSendOverrun, Return, AcceptorCrash, AcceptorStop, netvars,
              learnervars
<1>2. ASSUME NEW l \in Learners, LearnerNext(l)
      PROVE  /\ UNCHANGED to_learners
             /\ LearnerOnValue(l) \/ LearnerRestart(l)
  BY <1>2 DEF LearnerNext, LearnerOnValue, LearnerReceive, LearnerRestart, netvars
<1>3. CASE ProposerNext
  BY <1>3 DEF ProposerNext, submit, learnervars
<1>4. CASE CoordinatorNext
  BY <1>4 DEF CoordinatorNext, CoordinatorOnValue, learnervars
<1>5. CASE CoordinatorRestartNext
  BY <1>5 DEF CoordinatorRestartNext, CoordinatorRestart, netvars, learnervars
<1>6. CASE \E i \in Insts, r \in Rounds, t \in RoundTypes, v \in Requests :
             ExternalCoordinator(i, r, t, v)
  BY <1>6 DEF ExternalCoordinator, learnervars
<1>7. CASE UNCHANGED vars
  BY <1>7 DEF vars, netvars, learnervars
<1> QED BY <1>1, <1>2, <1>3, <1>4, <1>5, <1>6, <1>7 DEF FaultsNext, RoundsNext, Next

\* What a datagram does to the table of the learner that takes it: the entry
\* of its instance, not yet finished, counts on or starts again.
LEMMA TableEntry ==
  ASSUME TypeOK, NEW l \in Learners, NEW w \in to_learners, LearnerReceive(l, w),
         NEW k \in Learners, NEW i \in Insts, l_states'[k][i] # l_states[k][i]
  PROVE  LET m == unpack(w)
             s == l_states[l][i]
             t == l_states'[l][i]
         IN /\ k = l /\ m.inst = i /\ ~s.finished
            /\ t.from = s.from \cup {bit(m)} /\ t.rnd = m.rnd
            /\ bit(m) \in 0 .. 31
            /\ \/ /\ m.rnd = s.rnd /\ bit(m) \notin s.from
                  /\ t.count = s.count + 1 /\ (t.finished <=> t.count = maj)
               \/ m.rnd > s.rnd /\ t.count = 1 /\ ~t.finished
<1> DEFINE m == unpack(w)
           s == l_states[l][m.inst]
<1>1. /\ l_states \in [Learners -> [Insts -> L_State]]
      /\ m \in Message
  BY PackType DEF TypeOK, LearnerTypeOK
<1>2. m.inst \in Nat /\ bit(m) \in 0 .. 31
  <2>1. bit(m) \in 0 .. 31
    BY <1>1, BitType, Zenon
  <2>2. m.inst \in Nat
    BY <1>1 DEF Message
  <2> QED BY <2>1, <2>2
<1>3. CASE m.inst < MaxInst /\ CountVote(l, m)
  <2>1. m.inst \in Insts
    BY <1>2, <1>3, InstInRange
  <2> DEFINE t == [rnd |-> s.rnd, count |-> s.count + 1,
                   from |-> s.from \cup {bit(m)},
                   finished |-> s.count + 1 = maj, paxosval |-> m.paxosval]
  <2>2. /\ l_states' = [l_states EXCEPT ![l][m.inst] = t]
        /\ ~s.finished /\ m.rnd = s.rnd /\ bit(m) \notin s.from
    BY <1>3 DEF CountVote
  <2>3. /\ t.rnd = s.rnd /\ t.count = s.count + 1
        /\ t.from = s.from \cup {bit(m)} /\ (t.finished <=> t.count = maj)
    OBVIOUS
  <2> HIDE DEF t, m
  <2>4. k = l /\ m.inst = i
    BY <1>1, <2>1, <2>2
  <2>5. l_states'[l][i] = t
    BY <1>1, <2>1, <2>2, <2>4
  <2> QED BY <1>2, <2>2, <2>3, <2>4, <2>5 DEF m
<1>4. CASE m.inst < MaxInst /\ HigherRound(l, m)
  <2>1. m.inst \in Insts
    BY <1>2, <1>4, InstInRange
  <2> DEFINE t == [rnd |-> m.rnd, count |-> 1, from |-> s.from \cup {bit(m)},
                   finished |-> FALSE, paxosval |-> strcpy(s.paxosval, m.paxosval)]
  <2>2. /\ l_states' = [l_states EXCEPT ![l][m.inst] = t]
        /\ ~s.finished /\ m.rnd > s.rnd
    BY <1>4 DEF HigherRound
  <2>3. /\ t.rnd = m.rnd /\ t.count = 1
        /\ t.from = s.from \cup {bit(m)} /\ ~t.finished
    OBVIOUS
  <2> HIDE DEF t, m
  <2>4. k = l /\ m.inst = i
    BY <1>1, <2>1, <2>2
  <2>5. l_states'[l][i] = t
    BY <1>1, <2>1, <2>2, <2>4
  <2> QED BY <1>2, <2>2, <2>3, <2>4, <2>5 DEF m
<1>5. CASE LearnerReachMaxInst(l, m)
  BY <1>5 DEF LearnerReachMaxInst
<1> QED BY <1>3, <1>4, <1>5 DEF LearnerReceive

\* A finished entry changes only when its learner is restarted.
LEMMA FrozenStep ==
  ASSUME TypeOK, [FaultsNext]_vars, NEW l \in Learners, NEW i \in Insts,
         l_states[l][i].finished, l_states'[l][i] # l_states[l][i]
  PROVE  l_states'[l] = NewLearner
<1>1. PICK k \in Learners : LearnerOnValue(k) \/ LearnerRestart(k)
  BY LearnerTables
<1>2. CASE LearnerOnValue(k)
  <2>1. PICK w \in to_learners : LearnerReceive(k, w)
    BY <1>2 DEF LearnerOnValue
  <2>2. l = k /\ ~l_states[k][i].finished
    BY <2>1, TableEntry
  <2> QED BY <2>2
<1>3. CASE LearnerRestart(k)
  BY <1>3 DEF LearnerRestart, TypeOK, LearnerTypeOK
<1> QED BY <1>1, <1>2, <1>3

(***************************************************************************)
(* An instance that handle_accepted finished stays as it is, whatever      *)
(* rounds are used and however often the coordinator is restarted.         *)
(***************************************************************************)
THEOREM FinishedIsFrozenTheorem == SpecRounds \/ SpecRestarts => FinishedIsFrozen
<1>1. TypeOK /\ [FaultsNext]_vars =>
        [\A l \in Learners, i \in Insts :
           l_states[l][i].finished /\ l_states'[l][i] # l_states[l][i] =>
             l_states'[l] = NewLearner]_vars
  BY FrozenStep
<1>2. [RoundsNext]_vars \/ [Next \/ CoordinatorRestartNext]_vars => [FaultsNext]_vars
  BY DEF FaultsNext, RoundsNext
<1> QED BY <1>1, <1>2, FaultsTypeCorrect, PTL
        DEF SpecRounds, SpecRestarts, FinishedIsFrozen

\* Masks are finite.
LEMMA MaskFinite ==
  ASSUME NEW S, S \subseteq 0 .. 31
  PROVE  IsFiniteSet(S) /\ Cardinality(S) \in Nat
<1>1. IsFiniteSet(0 .. 31)
  <2>1. 0 \in Int /\ 31 \in Int
    OBVIOUS
  <2> QED BY <2>1, FS_Interval, Zenon
<1> QED BY <1>1, FS_Subset, FS_CardinalityType

\* A majority is at least one.
LEMMA MajAtLeastOne == maj \in Nat /\ maj >= 1
<1>1. NumAcceptors \in 1 .. 31
  BY ConfigAssumption
<1> QED BY <1>1, SMT DEF maj

\* An entry that did not change is still counted correctly.
LEMMA CountStays ==
  ASSUME TypeOK, CountedOnce, NEW l \in Learners, NEW i \in Insts,
         to_learners \subseteq to_learners', l_states'[l][i] = l_states[l][i]
  PROVE  l_states'[l][i].count <= Cardinality(SentInRound(l, i)')
<1> DEFINE s == l_states[l][i]
           S == SentInRound(l, i)
           T == SentInRound(l, i)'
<1>1. s \in L_State
  BY DEF TypeOK, LearnerTypeOK
<1>2. s.from \subseteq 0 .. 31 /\ s.count \in Nat
  BY <1>1 DEF L_State
<1>3. S \subseteq T /\ T \subseteq s.from
  BY DEF SentInRound
<1>4. s.count <= Cardinality(S)
  BY DEF CountedOnce
<1> HIDE DEF S, T, s
<1>5. IsFiniteSet(T) /\ Cardinality(S) \in Nat /\ Cardinality(T) \in Nat
  BY <1>2, <1>3, MaskFinite
<1>6. Cardinality(S) <= Cardinality(T)
  BY <1>3, <1>5, FS_Subset
<1>7. s.count <= Cardinality(T)
  BY <1>2, <1>4, <1>5, <1>6
<1> QED BY <1>7 DEF s, T

\* An entry that a datagram changed counts its sender and no one twice.
LEMMA CountGrows ==
  ASSUME TypeOK, CountedOnce, NEW l \in Learners, NEW w \in to_learners,
         LearnerReceive(l, w), NEW k \in Learners, NEW i \in Insts,
         l_states'[k][i] # l_states[k][i]
  PROVE  LET t == l_states'[k][i]
         IN /\ t.count <= Cardinality(SentInRound(k, i)')
            /\ t.finished => t.count = maj
            /\ t.count >= maj => t.finished \/ (maj = 1 /\ t.rnd > 0)
<1> DEFINE m == unpack(w)
           s == l_states[l][i]
           t == l_states'[l][i]
           S == SentInRound(l, i)
           T == SentInRound(l, i)'
<1>1. /\ k = l /\ m.inst = i /\ ~s.finished
      /\ t.from = s.from \cup {bit(m)} /\ t.rnd = m.rnd
      /\ bit(m) \in 0 .. 31
      /\ \/ /\ m.rnd = s.rnd /\ bit(m) \notin s.from
            /\ t.count = s.count + 1 /\ (t.finished <=> t.count = maj)
         \/ m.rnd > s.rnd /\ t.count = 1 /\ ~t.finished
  BY TableEntry
<1>2. s \in L_State
  BY DEF TypeOK, LearnerTypeOK
<1>3. s.from \subseteq 0 .. 31 /\ s.count \in Nat /\ s.rnd \in Nat
  BY <1>2, Uint16Nat DEF L_State
<1>4. UNCHANGED to_learners
  BY DEF LearnerReceive
<1>5. bit(m) \in T /\ T \subseteq t.from
  <2>1. bit(m) \in t.from /\ w \in to_learners'
    BY <1>1, <1>4
  <2> QED BY <1>1, <2>1 DEF SentInRound
<1>6. S \subseteq s.from
  BY DEF SentInRound
<1>7. /\ s.count <= Cardinality(S)
      /\ s.count >= maj => s.finished \/ (maj = 1 /\ s.rnd > 0)
  BY DEF CountedOnce
<1>8. m.rnd = s.rnd => S \subseteq T
  BY <1>1, <1>4 DEF SentInRound
<1> HIDE DEF S, T, s, t, m
<1>9. /\ IsFiniteSet(S) /\ Cardinality(S) \in Nat
      /\ IsFiniteSet(T) /\ Cardinality(T) \in Nat
  BY <1>1, <1>3, <1>5, <1>6, MaskFinite
<1>10. CASE /\ m.rnd = s.rnd /\ bit(m) \notin s.from
            /\ t.count = s.count + 1 /\ (t.finished <=> t.count = maj)
  <2>1. S \cup {bit(m)} \subseteq T
    BY <1>5, <1>8, <1>10
  <2>2. Cardinality(S \cup {bit(m)}) = Cardinality(S) + 1
    BY <1>6, <1>9, <1>10, FS_AddElement
  <2>3. Cardinality(S \cup {bit(m)}) <= Cardinality(T)
    BY <1>9, <2>1, FS_Subset
  <2>4. t.count <= Cardinality(T)
    BY <1>3, <1>7, <1>9, <1>10, <2>2, <2>3
  <2>5. t.count >= maj => t.finished \/ (maj = 1 /\ t.rnd > 0)
    <3> SUFFICES ASSUME t.count >= maj, t.count # maj PROVE maj = 1 /\ t.rnd > 0
      BY <1>10
    <3>1. s.count >= maj
      BY <1>3, <1>10, MajAtLeastOne
    <3> QED BY <1>1, <1>7, <3>1
  <2> QED BY <1>1, <1>10, <2>4, <2>5 DEF t, T
<1>11. CASE m.rnd > s.rnd /\ t.count = 1 /\ ~t.finished
  <2>1. {bit(m)} \subseteq T
    BY <1>5
  <2>2. Cardinality({bit(m)}) = 1
    BY FS_Singleton
  <2>3. 1 <= Cardinality(T)
    BY <1>9, <2>1, <2>2, FS_Subset
  <2>4. t.count >= maj => maj = 1 /\ t.rnd > 0
    <3>1. m.rnd \in Nat
      <4>1. m.rnd \in Uint16
        BY PackType DEF TypeOK, Message, m
      <4> QED BY <4>1, Uint16Nat
    <3> QED BY <1>1, <1>3, <1>11, <3>1, MajAtLeastOne
  <2> QED BY <1>1, <1>11, <2>3, <2>4 DEF t, T
<1> QED BY <1>1, <1>10, <1>11

\* The count is right after every step.
LEMMA CountedOnceStep ==
  ASSUME TypeOK, CountedOnce, [FaultsNext]_vars
  PROVE  CountedOnce'
<1> SUFFICES ASSUME NEW k \in Learners, NEW i \in Insts
             PROVE  LET t == l_states'[k][i]
                    IN /\ t.count <= Cardinality(SentInRound(k, i)')
                       /\ t.finished => t.count = maj
                       /\ t.count >= maj => t.finished \/ (maj = 1 /\ t.rnd > 0)
  BY DEF CountedOnce
<1>1. CASE l_states'[k][i] = l_states[k][i]
  <2>1. l_states'[k][i].count <= Cardinality(SentInRound(k, i)')
    BY <1>1, LearnerTables, CountStays
  <2> QED BY <1>1, <2>1 DEF CountedOnce
<1>2. CASE l_states'[k][i] # l_states[k][i]
  <2>1. PICK l \in Learners : LearnerOnValue(l) \/ LearnerRestart(l)
    BY <1>2, LearnerTables
  <2>2. CASE LearnerOnValue(l)
    <3>1. PICK w \in to_learners : LearnerReceive(l, w)
      BY <2>2 DEF LearnerOnValue
    <3> QED BY <1>2, <3>1, CountGrows
  <2>3. CASE LearnerRestart(l)
    <3>1. l_states'[k][i] = NewLearner[i]
      BY <1>2, <2>3 DEF LearnerRestart, TypeOK, LearnerTypeOK
    <3>2. /\ l_states'[k][i].count = 0 /\ l_states'[k][i].from = {}
          /\ l_states'[k][i].finished = FALSE
      BY <3>1 DEF NewLearner
    <3>3. SentInRound(k, i)' = {}
      BY <3>2 DEF SentInRound
    <3>4. Cardinality(SentInRound(k, i)') = 0
      BY <3>3, FS_EmptySet
    <3> QED BY <3>2, <3>4, MajAtLeastOne
  <2> QED BY <2>1, <2>2, <2>3
<1> QED BY <1>1, <1>2

(***************************************************************************)
(* handle_accepted counts every acceptor once and only in the current      *)
(* round, for every number of acceptors and learners, although it keeps    *)
(* the mask when a higher round starts the count again.                    *)
(***************************************************************************)
THEOREM CountedOnceTheorem == SpecRounds \/ SpecRestarts => []CountedOnce
<1>1. Init => CountedOnce
  <2> SUFFICES ASSUME Init, NEW l \in Learners, NEW i \in Insts
               PROVE  LET s == l_states[l][i]
                      IN /\ s.count <= Cardinality(SentInRound(l, i))
                         /\ s.finished => s.count = maj
                         /\ s.count >= maj => s.finished \/ (maj = 1 /\ s.rnd > 0)
    BY DEF CountedOnce
  <2>1. /\ l_states[l][i].count = 0 /\ l_states[l][i].from = {}
        /\ l_states[l][i].finished = FALSE
    BY DEF Init, LearnerInit, NewLearner
  <2>2. SentInRound(l, i) = {}
    BY <2>1 DEF SentInRound
  <2>3. Cardinality(SentInRound(l, i)) = 0
    BY <2>2, FS_EmptySet
  <2> QED BY <2>1, <2>3, MajAtLeastOne
<1>2. TypeOK /\ CountedOnce /\ [FaultsNext]_vars => CountedOnce'
  BY CountedOnceStep
<1>3. [RoundsNext]_vars \/ [Next \/ CoordinatorRestartNext]_vars => [FaultsNext]_vars
  BY DEF FaultsNext, RoundsNext
<1> QED BY <1>1, <1>2, <1>3, FaultsTypeCorrect, PTL DEF SpecRounds, SpecRestarts

=============================================================================
