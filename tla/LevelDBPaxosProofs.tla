------------------------- MODULE LevelDBPaxosProofs -------------------------
(***************************************************************************)
(* Proofs about LevelDBPaxos, for any replicas, requests and restarts.     *)
(***************************************************************************)
EXTENDS LevelDBPaxos, SequenceTheorems, TLAPS

\* What a write leaves of its key.
Effect(q) == IF q.op = "PUT" THEN q.value ELSE Missing

\* Without a failed call the last delivered write of a key decides what the
\* database holds for it; before the first one it holds nothing, unless
\* something was left by a process that ran earlier.
StoreInv ==
  \A r \in Replicas, k \in Keys :
    /\ failed[r] = {} =>
         \A j \in DOMAIN delivered[r] :
           LastWrite(delivered[r], k, j) =>
             leveldb_get(r, k) = Effect(delivered[r][j].value)
    /\ WritesOf(delivered[r], k) = {} =>
         (restarts = 0 => leveldb_get(r, k) = Missing)
    /\ WritesOf(delivered[r], k) # {} =>
         \E j \in DOMAIN delivered[r] : LastWrite(delivered[r], k, j)

\* What an answer was made of: a slot, in the turn of its replica, and for
\* a GET the last write that the replica had applied.
AnswerInv(a) ==
  /\ a.inst + 1 \in DOMAIN slots
  /\ my_turn(a.replica, a.inst)
  /\ restarts = 0 => \E j \in DOMAIN delivered[a.replica] :
                       delivered[a.replica][j].inst = a.inst
  /\ \A j \in DOMAIN a.after :
       LET d == a.after[j]
       IN d.inst + 1 \in DOMAIN slots /\ d.value = slots[d.inst + 1].value
  /\ a.op = "GET" /\ a.clean =>
       \A j \in DOMAIN a.after :
         LET q == a.after[j].value
         IN LastWrite(a.after, a.key, j) =>
              /\ q.op = "PUT"
              /\ a.value = IF q.value # Empty THEN q.value
                           ELSE slots[a.inst + 1].value.value

AnswersInv == \A a \in answers : AnswerInv(a)

OneAnswer == restarts = 0 => \A a, b \in answers : a.inst = b.inst => a = b

\* A live replica has answered what it applied in its turn.
TurnsAnswered ==
  \A r \in Replicas : \A j \in DOMAIN delivered[r] :
    LET d == delivered[r][j]
    IN /\ up[r] /\ d.inst \notin failed[r] /\ my_turn(r, d.inst)
       /\ d.value.op # "other"
       => \E a \in answers : a.inst = d.inst

\* A call that failed was made for a delivery, and has sent no answer.
FailuresSilent ==
  restarts = 0 =>
    \A r \in Replicas : \A n \in failed[r] :
      /\ \E j \in DOMAIN delivered[r] : delivered[r][j].inst = n
      /\ \A a \in answers : a.replica = r => a.inst # n

LevelDBInv ==
  /\ StoreInv /\ AnswersInv /\ OneAnswer /\ TurnsAnswered
  /\ FailuresSilent /\ SameFate

-----------------------------------------------------------------------------
(* Steps *)

\* A delivery at the end leaves the others where they are.
LEMMA AppendFacts ==
  ASSUME NEW S, NEW d \in Seq(S), NEW e \in S
  PROVE  /\ Append(d, e) \in Seq(S) /\ Append(d, e) # << >>
         /\ Len(d) \in Nat /\ DOMAIN d = 1 .. Len(d)
         /\ Len(Append(d, e)) = Len(d) + 1
         /\ DOMAIN Append(d, e) = 1 .. Len(d) + 1
         /\ Append(d, e)[Len(d) + 1] = e
         /\ \A j \in 1 .. Len(d) : Append(d, e)[j] = d[j]
  OBVIOUS

\* What a request holds.
LEMMA SlotFacts ==
  ASSUME TypeOK, NEW k \in DOMAIN slots
  PROVE  /\ k \in Nat /\ k - 1 \in Nat /\ (k - 1) + 1 = k /\ k \in 1 .. Len(slots)
         /\ slots[k].value \in Requests
         /\ slots[k].value.key \in Keys /\ slots[k].value.value \in Values
         /\ slots[k].value.op \in {q.op : q \in Requests}
         /\ slots[k].value.value # Missing
<1>1. slots \in Seq(Submissions) /\ DOMAIN slots = 1 .. Len(slots) /\ Len(slots) \in Nat
  BY LenProperties DEF TypeOK
<1>2. slots[k] \in Submissions
  BY <1>1, ElementOfSeq
<1>3. k \in Nat /\ k - 1 \in Nat /\ (k - 1) + 1 = k
  BY <1>1
<1>4. slots[k].value \in Requests
  BY <1>2 DEF Requests
<1> QED BY <1>1, <1>2, <1>3, <1>4, LevelDBPaxosAssumption DEF Keys, Values

Delivery(k) == [inst |-> k - 1, value |-> slots[k].value]

\* What every call of deliver does.
LEMMA CalledFacts ==
  ASSUME TypeOK, NEW r \in Replicas, NEW k \in 1 .. MaxSlots, NEW ops, Called(r, k, ops)
  PROVE  /\ up[r] /\ k \in DOMAIN slots /\ slots[k].value.op \in ops
         /\ Delivery(k) \in Deliveries
         /\ Delivery(k).inst = k - 1 /\ Delivery(k).value = slots[k].value
         /\ \A j \in DOMAIN delivered[r] : delivered[r][j].inst # k - 1
         /\ delivered' = [delivered EXCEPT ![r] = Append(delivered[r], Delivery(k))]
         /\ delivered[r] \in Seq(Deliveries)
         /\ slots' = slots /\ restarts' = restarts
<1>1. up[r] /\ k \in DOMAIN slots /\ slots[k].value.op \in ops
  BY DEF Called
<1>2. Delivery(k) \in Deliveries /\ Delivery(k).inst = k - 1
      /\ Delivery(k).value = slots[k].value
  BY <1>1, SlotFacts DEF Delivery, Deliveries
<1>3. delivered[r] \in Seq(Deliveries) /\ DOMAIN delivered[r] = 1 .. Len(delivered[r])
  BY LenProperties DEF TypeOK
<1>4. /\ \A j \in 1 .. Len(delivered[r]) : delivered[r][j].inst # k - 1
      /\ delivered' = [delivered EXCEPT ![r] = Append(delivered[r], Delivery(k))]
      /\ slots' = slots /\ restarts' = restarts
  BY DEF Called, Sequence!Deliver, Delivery
<1> QED BY <1>1, <1>2, <1>3, <1>4

\* The deliveries of every replica after a call.
LEMMA CalledDelivered ==
  ASSUME TypeOK, NEW r \in Replicas, NEW k \in 1 .. MaxSlots, NEW ops, Called(r, k, ops)
  PROVE  /\ delivered' \in [Replicas -> Seq(Deliveries)]
         /\ delivered'[r] = Append(delivered[r], Delivery(k))
         /\ \A s \in Replicas : s # r => delivered'[s] = delivered[s]
         /\ \A s \in Replicas : \A j \in DOMAIN delivered'[s] :
              LET d == delivered'[s][j]
              IN d.inst + 1 \in DOMAIN slots /\ d.value = slots[d.inst + 1].value
<1>1. delivered \in [Replicas -> Seq(Deliveries)]
  BY DEF TypeOK
<1>2. delivered' = [delivered EXCEPT ![r] = Append(delivered[r], Delivery(k))]
      /\ k \in DOMAIN slots /\ Delivery(k) \in Deliveries
      /\ Delivery(k).inst = k - 1 /\ Delivery(k).value = slots[k].value
  BY CalledFacts
<1>3. Append(delivered[r], Delivery(k)) \in Seq(Deliveries)
  BY <1>1, <1>2, AppendFacts
<1>4. /\ delivered' \in [Replicas -> Seq(Deliveries)]
      /\ delivered'[r] = Append(delivered[r], Delivery(k))
      /\ \A s \in Replicas : s # r => delivered'[s] = delivered[s]
  BY <1>1, <1>2, <1>3
<1>5. ASSUME NEW s \in Replicas, NEW j \in DOMAIN delivered'[s]
      PROVE  /\ delivered'[s][j].inst + 1 \in DOMAIN slots
             /\ delivered'[s][j].value = slots[delivered'[s][j].inst + 1].value
  <2>1. CASE s # r
    BY <1>4, <1>5, <2>1 DEF TypeOK
  <2>2. CASE s = r
    <3>1. \/ j \in DOMAIN delivered[r] /\ delivered'[s][j] = delivered[r][j]
          \/ delivered'[s][j] = Delivery(k)
      BY <1>1, <1>2, <1>4, <1>5, <2>2, AppendFacts
    <3>2. (k - 1) + 1 = k
      BY <1>2, SlotFacts
    <3> QED BY <1>2, <3>1, <3>2 DEF TypeOK
  <2> QED BY <2>1, <2>2
<1> QED BY <1>4, <1>5

\* A database of the log.
LEMMA LastFacts ==
  ASSUME NEW S, NEW s \in Seq(S), s # << >>
  PROVE  Last(s) \in S /\ Len(s) \in 1 .. Len(s) /\ Len(s) \in Nat
<1>1. Len(s) \in Nat /\ Len(s) > 0
  BY EmptySeq, LenProperties
<1> QED BY <1>1, ElementOfSeq DEF Last

\* A write changes what the replica's database holds for the key.
LEMMA WriteFacts ==
  ASSUME TypeOK, NEW r \in Replicas, NEW k \in Keys, NEW v \in Values \cup {Missing},
         leveldb_write(r, k, v)
  PROVE  /\ log' \in [Replicas -> Seq(Databases) \ {<< >>}]
         /\ \A s \in Replicas, x \in Keys :
              leveldb_get(s, x)' = IF s = r /\ x = k THEN v ELSE leveldb_get(s, x)
<1> DEFINE b == [Last(log[r]) EXCEPT ![k] = v]
<1>1. log \in [Replicas -> Seq(Databases) \ {<< >>}]
  BY DEF TypeOK
<1>2. Last(log[r]) \in Databases
  BY <1>1, LastFacts
<1>3. b \in Databases /\ b[k] = v /\ \A x \in Keys : x # k => b[x] = Last(log[r])[x]
  BY <1>2 DEF Databases
<1> HIDE DEF b
<1>4. log' = [log EXCEPT ![r] = Append(log[r], b)]
  BY DEF leveldb_write, b
<1>5. /\ Append(log[r], b) \in Seq(Databases) \ {<< >>}
      /\ Last(Append(log[r], b)) = b
  BY <1>1, <1>3, AppendFacts DEF Last
<1>6. /\ log'[r] = Append(log[r], b)
      /\ \A s \in Replicas : s # r => log'[s] = log[s]
      /\ log' \in [Replicas -> Seq(Databases) \ {<< >>}]
  BY <1>1, <1>4, <1>5
<1> QED BY <1>3, <1>5, <1>6 DEF leveldb_get

\* What a replica holds for a key.
LEMMA GetFacts ==
  ASSUME TypeOK, NEW r \in Replicas, NEW k \in Keys
  PROVE  leveldb_get(r, k) \in Values \cup {Missing}
<1>1. Last(log[r]) \in Databases
  BY LastFacts DEF TypeOK
<1> QED BY <1>1 DEF leveldb_get, Databases

NewAnswer(r, k, v) ==
  [inst |-> k - 1, op |-> slots[k].value.op, key |-> slots[k].value.key, value |-> v,
   replica |-> r, after |-> delivered[r], clean |-> failed[r] = {}]

\* The answer that Reply sends in its turn.
LEMMA ReplyFacts ==
  ASSUME TypeOK, NEW r \in Replicas, NEW k \in DOMAIN slots, NEW v \in Values,
         Reply(r, k, v)
  PROVE  /\ answers' = answers \cup IF my_turn(r, k - 1) THEN {NewAnswer(r, k, v)} ELSE {}
         /\ answers' \subseteq Answers
<1>1. answers' = answers \cup IF my_turn(r, k - 1) THEN {NewAnswer(r, k, v)} ELSE {}
  BY DEF Reply, NewAnswer
<1>2. NewAnswer(r, k, v) \in Answers
  <2>1. delivered[r] \in Seq(Deliveries) /\ (failed[r] = {}) \in BOOLEAN
    BY DEF TypeOK
  <2>2. k - 1 \in Nat /\ slots[k].value.key \in Keys
        /\ slots[k].value.op \in {q.op : q \in Requests}
    BY SlotFacts
  <2> QED BY <2>1, <2>2 DEF NewAnswer, Answers
<1> QED BY <1>1, <1>2 DEF TypeOK

-----------------------------------------------------------------------------
(* Types *)

\* A call that changes the other state within its types keeps TypeOK.
LEMMA CalledType ==
  ASSUME TypeOK, NEW r \in Replicas, NEW k \in 1 .. MaxSlots, NEW ops, Called(r, k, ops),
         log' \in [Replicas -> Seq(Databases) \ {<< >>}],
         up' \in [Replicas -> BOOLEAN], answers' \subseteq Answers,
         failed' \in [Replicas -> SUBSET Nat], failures' \in 0 .. MaxFailures
  PROVE  TypeOK'
<1>1. slots' = slots /\ restarts' = restarts
  BY CalledFacts
<1> QED BY <1>1, CalledDelivered DEF TypeOK

\* A call of deliver keeps the types.
LEMMA DeliverType ==
  ASSUME TypeOK, NEW r \in Replicas, NEW k \in 1 .. MaxSlots, deliver(r, k)
  PROVE  TypeOK'
<1> DEFINE q == slots[k].value
<1>0. TypeOK
  OBVIOUS
<1>1. CASE deliverPut(r, k)
  <2>1. Called(r, k, {"PUT"}) /\ leveldb_write(r, q.key, q.value) /\ Reply(r, k, q.value)
        /\ UNCHANGED <<up, failed, failures>>
    BY <1>1 DEF deliverPut
  <2>2. k \in DOMAIN slots /\ q.key \in Keys /\ q.value \in Values
    BY <2>1, CalledFacts, SlotFacts
  <2>3. log' \in [Replicas -> Seq(Databases) \ {<< >>}] /\ answers' \subseteq Answers
    BY <2>1, <2>2, WriteFacts, ReplyFacts
  <2>4. /\ up' \in [Replicas -> BOOLEAN] /\ failed' \in [Replicas -> SUBSET Nat]
        /\ failures' \in 0 .. MaxFailures
    BY <1>0, <2>1 DEF TypeOK
  <2> QED BY <2>1, <2>3, <2>4, CalledType
<1>2. CASE deliverGet(r, k)
  <2> DEFINE v == leveldb_get(r, q.key)
  <2>1. /\ Called(r, k, {"GET"})
        /\ \/ up' = [up EXCEPT ![r] = FALSE] /\ answers' = answers
           \/ v # Missing /\ Reply(r, k, IF v # Empty THEN v ELSE q.value) /\ up' = up
        /\ UNCHANGED <<log, failed, failures>>
    BY <1>2 DEF deliverGet
  <2>2. k \in DOMAIN slots /\ q.key \in Keys /\ q.value \in Values
    BY <2>1, CalledFacts, SlotFacts
  <2>3. v \in Values \cup {Missing}
    BY <2>2, GetFacts
  <2> HIDE DEF v, q
  <2>4. answers' \subseteq Answers /\ up' \in [Replicas -> BOOLEAN]
    <3>1. CASE up' = [up EXCEPT ![r] = FALSE] /\ answers' = answers
      BY <1>0, <3>1 DEF TypeOK
    <3>2. CASE v # Missing /\ Reply(r, k, IF v # Empty THEN v ELSE q.value) /\ up' = up
      <4>1. (IF v # Empty THEN v ELSE q.value) \in Values
        BY <2>2, <2>3, <3>2
      <4>2. answers' \subseteq Answers
        BY <2>2, <3>2, <4>1, ReplyFacts
      <4> QED BY <1>0, <3>2, <4>2 DEF TypeOK
    <3> QED BY <2>1, <3>1, <3>2
  <2>5. /\ log' \in [Replicas -> Seq(Databases) \ {<< >>}]
        /\ failed' \in [Replicas -> SUBSET Nat] /\ failures' \in 0 .. MaxFailures
    BY <1>0, <2>1 DEF TypeOK
  <2> QED BY <2>1, <2>4, <2>5, CalledType
<1>3. CASE deliverDelete(r, k)
  <2>1. Called(r, k, {"DELETE"}) /\ leveldb_write(r, q.key, Missing) /\ Reply(r, k, q.value)
        /\ UNCHANGED <<up, failed, failures>>
    BY <1>3 DEF deliverDelete
  <2>2. k \in DOMAIN slots /\ q.key \in Keys /\ q.value \in Values
    BY <2>1, CalledFacts, SlotFacts
  <2>3. log' \in [Replicas -> Seq(Databases) \ {<< >>}] /\ answers' \subseteq Answers
    BY <2>1, <2>2, WriteFacts, ReplyFacts
  <2>4. /\ up' \in [Replicas -> BOOLEAN] /\ failed' \in [Replicas -> SUBSET Nat]
        /\ failures' \in 0 .. MaxFailures
    BY <1>0, <2>1 DEF TypeOK
  <2> QED BY <2>1, <2>3, <2>4, CalledType
<1>4. CASE deliverOther(r, k)
  <2>1. Called(r, k, {"other"}) /\ UNCHANGED <<log, up, answers, failed, failures>>
    BY <1>4 DEF deliverOther
  <2>2. /\ log' \in [Replicas -> Seq(Databases) \ {<< >>}]
        /\ up' \in [Replicas -> BOOLEAN] /\ answers' \subseteq Answers
        /\ failed' \in [Replicas -> SUBSET Nat] /\ failures' \in 0 .. MaxFailures
    BY <1>0, <2>1 DEF TypeOK
  <2> QED BY <2>1, <2>2, CalledType
<1>5. CASE deliverFails(r, k)
  <2>1. /\ failures < MaxFailures /\ failures' = failures + 1
        /\ Called(r, k, {"PUT", "GET", "DELETE"})
        /\ failed' = [failed EXCEPT ![r] = @ \cup {k - 1}]
        /\ UNCHANGED <<log, up, answers>>
    BY <1>5 DEF deliverFails
  <2>2. k - 1 \in Nat
    BY <2>1, CalledFacts, SlotFacts
  <2>3. failed' \in [Replicas -> SUBSET Nat] /\ failures' \in 0 .. MaxFailures
    BY <1>0, <2>1, <2>2, LevelDBPaxosAssumption DEF TypeOK
  <2>4. /\ log' \in [Replicas -> Seq(Databases) \ {<< >>}]
        /\ up' \in [Replicas -> BOOLEAN] /\ answers' \subseteq Answers
    BY <1>0, <2>1 DEF TypeOK
  <2> QED BY <2>1, <2>3, <2>4, CalledType
<1> QED BY <1>1, <1>2, <1>3, <1>4, <1>5 DEF deliver

\* Assign adds a slot and leaves the others where they are.
LEMMA AssignFacts ==
  ASSUME TypeOK, Assign
  PROVE  /\ slots' \in Seq(Submissions) /\ Len(slots') = Len(slots) + 1
         /\ Len(slots') <= MaxSlots
         /\ Len(slots) \in Nat /\ DOMAIN slots = 1 .. Len(slots)
         /\ DOMAIN slots \subseteq DOMAIN slots'
         /\ \A k \in DOMAIN slots : slots'[k] = slots[k]
         /\ UNCHANGED <<delivered, log, up, answers, failed, failures, restarts>>
<1>1. /\ slots \in Seq(Submissions) /\ Len(slots) < MaxSlots
      /\ UNCHANGED <<delivered, log, up, answers, failed, failures, restarts>>
  BY DEF Assign, TypeOK, Sequence!Assign
<1>2. PICK s \in Submissions : slots' = Append(slots, s)
  BY DEF Assign, Sequence!Assign
<1>3. /\ slots' \in Seq(Submissions) /\ Len(slots) \in Nat
      /\ DOMAIN slots = 1 .. Len(slots) /\ Len(slots') = Len(slots) + 1
      /\ DOMAIN slots' = 1 .. Len(slots) + 1
      /\ \A k \in 1 .. Len(slots) : slots'[k] = slots[k]
  BY <1>1, <1>2, AppendFacts
<1>4. Len(slots') <= MaxSlots
  BY <1>1, <1>3, LevelDBPaxosAssumption
<1> QED BY <1>1, <1>3, <1>4

\* Restart empties what was delivered and keeps a beginning of the log.
LEMMA RestartFacts ==
  ASSUME TypeOK, NEW r \in Replicas, Restart(r)
  PROVE  /\ log' \in [Replicas -> Seq(Databases) \ {<< >>}]
         /\ \A s \in Replicas : s # r => log'[s] = log[s]
         /\ delivered' = [delivered EXCEPT ![r] = << >>]
         /\ up' = [up EXCEPT ![r] = TRUE] /\ failed' = [failed EXCEPT ![r] = {}]
         /\ restarts < MaxRestarts /\ restarts' = restarts + 1 /\ restarts' # 0
         /\ UNCHANGED <<slots, answers, failures>>
<1>1. /\ delivered' = [delivered EXCEPT ![r] = << >>]
      /\ up' = [up EXCEPT ![r] = TRUE] /\ failed' = [failed EXCEPT ![r] = {}]
      /\ restarts < MaxRestarts /\ restarts' = restarts + 1
      /\ UNCHANGED <<slots, answers, failures>>
  BY DEF Restart, Sequence!Forget
<1>2. PICK n \in 1 .. Len(log[r]) : log' = [log EXCEPT ![r] = SubSeq(log[r], 1, n)]
  BY DEF Restart
<1>3. log \in [Replicas -> Seq(Databases) \ {<< >>}]
  BY DEF TypeOK
<1>4. Len(log[r]) \in Nat
  BY <1>3, LenProperties
<1>5. SubSeq(log[r], 1, n) \in Seq(Databases) \ {<< >>}
  <2>1. \A i \in 1 .. n : log[r][i] \in Databases
    BY <1>3, <1>4, ElementOfSeq
  <2>2. n \in Int /\ 1 \in Int /\ 1 <= n
    BY <1>4
  <2>3. SubSeq(log[r], 1, n) \in Seq(Databases) /\ Len(SubSeq(log[r], 1, n)) = n - 1 + 1
    BY <2>1, <2>2, SubSeqProperties
  <2> QED BY <2>2, <2>3
<1>6. restarts' # 0
  BY <1>1 DEF TypeOK
<1> QED BY <1>1, <1>2, <1>3, <1>5, <1>6

\* Every step keeps the types.
LEMMA LevelDBNextType ==
  ASSUME TypeOK, [Next]_vars
  PROVE  TypeOK'
<1>0. TypeOK
  OBVIOUS
<1>1. CASE Assign
  BY <1>0, <1>1, AssignFacts DEF TypeOK
<1>2. ASSUME NEW r \in Replicas, NEW k \in 1 .. MaxSlots, deliver(r, k)
      PROVE  TypeOK'
  BY <1>2, DeliverType
<1>3. ASSUME NEW r \in Replicas, Restart(r)
      PROVE  TypeOK'
  <2>1. << >> \in Seq(Deliveries) /\ DOMAIN << >> = {}
    BY EmptySeq
  <2>2. /\ delivered \in [Replicas -> Seq(Deliveries)]
        /\ delivered' = [delivered EXCEPT ![r] = << >>]
    BY <1>0, <1>3, RestartFacts DEF TypeOK
  <2>3. /\ delivered' \in [Replicas -> Seq(Deliveries)]
        /\ delivered'[r] = << >>
        /\ \A s \in Replicas : s # r => delivered'[s] = delivered[s]
    BY <2>1, <2>2
  <2>4. ASSUME NEW s \in Replicas, NEW j \in DOMAIN delivered'[s]
        PROVE  /\ delivered'[s][j].inst + 1 \in DOMAIN slots
               /\ delivered'[s][j].value = slots[delivered'[s][j].inst + 1].value
    <3>1. s # r /\ delivered'[s] = delivered[s]
      BY <2>1, <2>3, <2>4
    <3> QED BY <1>0, <2>4, <3>1 DEF TypeOK
  <2>5. restarts' \in 0 .. MaxRestarts
    BY <1>0, <1>3, RestartFacts, LevelDBPaxosAssumption DEF TypeOK
  <2>6. up' \in [Replicas -> BOOLEAN] /\ failed' \in [Replicas -> SUBSET Nat]
    BY <1>0, <1>3, RestartFacts DEF TypeOK
  <2>7. /\ log' \in [Replicas -> Seq(Databases) \ {<< >>}]
        /\ slots' = slots /\ answers' = answers /\ failures' = failures
    BY <1>3, RestartFacts
  <2> QED BY <1>0, <2>3, <2>4, <2>5, <2>6, <2>7 DEF TypeOK
<1>4. CASE UNCHANGED vars
  BY <1>0, <1>4 DEF vars, TypeOK
<1> QED BY <1>1, <1>2, <1>3, <1>4 DEF Next

\* What holds in the initial states.
LEMMA LevelDBInitFacts ==
  ASSUME Init
  PROVE  /\ TypeOK
         /\ \A r \in Replicas : delivered[r] = << >> /\ DOMAIN delivered[r] = {}
         /\ \A r \in Replicas, k \in Keys : leveldb_get(r, k) = Missing
<1> DEFINE none == [k \in Keys |-> Missing]
<1>1. none \in Databases
  BY DEF Databases
<1>2. <<none>> \in Seq(Databases) \ {<< >>} /\ Last(<<none>>) = none
  BY <1>1 DEF Last
<1>3. \A k \in Keys : none[k] = Missing
  OBVIOUS
<1> HIDE DEF none
<1>4. /\ slots = << >> /\ delivered = [r \in Replicas |-> << >>]
      /\ log = [r \in Replicas |-> <<none>>]
  BY DEF Init, Sequence!Init, none
<1>5. << >> \in Seq(Deliveries) /\ << >> \in Seq(Submissions) /\ Len(<< >>) = 0
      /\ DOMAIN << >> = {}
  BY EmptySeq
<1>6. \A r \in Replicas : delivered[r] = << >> /\ DOMAIN delivered[r] = {}
  BY <1>4, <1>5
<1>7. delivered \in [Replicas -> Seq(Deliveries)]
      /\ log \in [Replicas -> Seq(Databases) \ {<< >>}]
  BY <1>2, <1>4, <1>5
<1>8. TypeOK
  BY <1>4, <1>5, <1>6, <1>7, LevelDBPaxosAssumption DEF Init, TypeOK
<1> QED BY <1>2, <1>3, <1>4, <1>6, <1>8 DEF leveldb_get

(***************************************************************************)
(* Type correctness.  In particular no answer carries what leveldb_get     *)
(* returns for a missing entry: the process has ended before.              *)
(***************************************************************************)
THEOREM LevelDBTypeCorrect == Spec => []TypeOK
<1>1. Init => TypeOK
  BY LevelDBInitFacts
<1>2. TypeOK /\ [Next]_vars => TypeOK'
  BY LevelDBNextType
<1> QED BY <1>1, <1>2, PTL DEF Spec

-----------------------------------------------------------------------------
(* The databases *)

\* A delivery that writes k is the last; another one changes nothing for k.
LEMMA WritesAppend ==
  ASSUME NEW d \in Seq(Deliveries), NEW e \in Deliveries, NEW k
  PROVE  /\ IsWrite(e.value, k) =>
              /\ LastWrite(Append(d, e), k, Len(d) + 1)
              /\ \A j : LastWrite(Append(d, e), k, j) => j = Len(d) + 1
         /\ ~IsWrite(e.value, k) =>
              /\ WritesOf(Append(d, e), k) = WritesOf(d, k)
              /\ \A j : LastWrite(Append(d, e), k, j) <=> LastWrite(d, k, j)
         /\ WritesOf(d, k) \subseteq WritesOf(Append(d, e), k)
         /\ \A j : LastWrite(d, k, j) => j \in DOMAIN d /\ Append(d, e)[j] = d[j]
<1> DEFINE d2 == Append(d, e)
           n == Len(d) + 1
<1>1. /\ Len(d) \in Nat /\ DOMAIN d = 1 .. Len(d) /\ DOMAIN d2 = 1 .. Len(d) + 1
      /\ d2[Len(d) + 1] = e /\ \A j \in 1 .. Len(d) : d2[j] = d[j]
  BY AppendFacts
<1> HIDE DEF d2
<1>2. WritesOf(d2, k) = WritesOf(d, k) \cup IF IsWrite(e.value, k) THEN {n} ELSE {}
  BY <1>1 DEF WritesOf
<1>3. WritesOf(d, k) \subseteq 1 .. Len(d)
  BY <1>1 DEF WritesOf
<1>4. CASE IsWrite(e.value, k)
  <2>1. LastWrite(d2, k, n)
    BY <1>1, <1>2, <1>3, <1>4 DEF LastWrite
  <2>2. \A j : LastWrite(d2, k, j) => j = n
    BY <1>1, <1>2, <1>3, <1>4 DEF LastWrite
  <2> QED BY <1>1, <1>2, <1>3, <1>4, <2>1, <2>2 DEF LastWrite, d2
<1>5. CASE ~IsWrite(e.value, k)
  <2>1. WritesOf(d2, k) = WritesOf(d, k)
    BY <1>2, <1>5
  <2> QED BY <1>1, <1>3, <1>5, <2>1 DEF LastWrite, d2
<1> QED BY <1>4, <1>5

\* What a call must do to a database so that the last write still decides.
LEMMA CalledStore ==
  ASSUME TypeOK, StoreInv, NEW r \in Replicas, NEW k \in 1 .. MaxSlots, NEW ops,
         Called(r, k, ops),
         \A s \in Replicas : failed'[s] = {} => failed[s] = {},
         \A s \in Replicas, x \in Keys :
           s # r \/ ~IsWrite(slots[k].value, x) => leveldb_get(s, x)' = leveldb_get(s, x),
         \A x \in Keys : IsWrite(slots[k].value, x) /\ failed'[r] = {} =>
                          leveldb_get(r, x)' = Effect(slots[k].value)
  PROVE  StoreInv'
<1> DEFINE d == delivered[r]
           e == Delivery(k)
<1>1. /\ delivered'[r] = Append(d, e)
      /\ \A s \in Replicas : s # r => delivered'[s] = delivered[s]
  BY CalledDelivered
<1>2. d \in Seq(Deliveries) /\ e \in Deliveries /\ e.value = slots[k].value
      /\ restarts' = restarts
  BY CalledFacts
<1>3. /\ Len(d) \in Nat /\ DOMAIN d = 1 .. Len(d) /\ DOMAIN Append(d, e) = 1 .. Len(d) + 1
      /\ Append(d, e)[Len(d) + 1] = e
  BY <1>2, AppendFacts
<1> HIDE DEF d, e
<1> SUFFICES ASSUME NEW s \in Replicas, NEW x \in Keys
             PROVE  /\ failed'[s] = {} =>
                         \A j \in DOMAIN delivered'[s] :
                           LastWrite(delivered'[s], x, j) =>
                             leveldb_get(s, x)' = Effect(delivered'[s][j].value)
                    /\ WritesOf(delivered'[s], x) = {} =>
                         (restarts' = 0 => leveldb_get(s, x)' = Missing)
                    /\ WritesOf(delivered'[s], x) # {} =>
                         \E j \in DOMAIN delivered'[s] : LastWrite(delivered'[s], x, j)
  BY DEF StoreInv, Effect, LastWrite, WritesOf, IsWrite
<1>4. /\ failed[s] = {} =>
           \A j \in DOMAIN delivered[s] :
             LastWrite(delivered[s], x, j) =>
               leveldb_get(s, x) = Effect(delivered[s][j].value)
      /\ WritesOf(delivered[s], x) = {} => (restarts = 0 => leveldb_get(s, x) = Missing)
      /\ WritesOf(delivered[s], x) # {} =>
           \E j \in DOMAIN delivered[s] : LastWrite(delivered[s], x, j)
  BY DEF StoreInv
<1>5. CASE s # r
  <2>1. leveldb_get(s, x)' = leveldb_get(s, x) /\ delivered'[s] = delivered[s]
    BY <1>1, <1>5
  <2> QED BY <1>2, <1>4, <2>1
<1>6. CASE s = r /\ ~IsWrite(slots[k].value, x)
  <2>1. leveldb_get(s, x)' = leveldb_get(s, x) /\ delivered'[s] = Append(d, e)
        /\ delivered[s] = d
    BY <1>1, <1>6 DEF d
  <2>2. /\ WritesOf(Append(d, e), x) = WritesOf(d, x)
        /\ \A j : LastWrite(Append(d, e), x, j) <=> LastWrite(d, x, j)
        /\ \A j : LastWrite(d, x, j) => j \in DOMAIN d /\ Append(d, e)[j] = d[j]
    BY <1>2, <1>6, WritesAppend
  <2>3. DOMAIN d \subseteq DOMAIN Append(d, e)
    BY <1>3
  <2> QED BY <1>2, <1>4, <2>1, <2>2, <2>3
<1>7. CASE s = r /\ IsWrite(slots[k].value, x)
  <2>1. /\ delivered'[s] = Append(d, e)
        /\ failed'[s] = {} => leveldb_get(s, x)' = Effect(slots[k].value)
    BY <1>1, <1>7
  <2>2. /\ LastWrite(Append(d, e), x, Len(d) + 1)
        /\ \A j : LastWrite(Append(d, e), x, j) => j = Len(d) + 1
    BY <1>2, <1>7, WritesAppend
  <2>3. Len(d) + 1 \in DOMAIN Append(d, e) /\ Len(d) + 1 \in WritesOf(Append(d, e), x)
    BY <1>3, <2>2 DEF LastWrite
  <2> QED BY <1>2, <1>3, <2>1, <2>2, <2>3
<1> QED BY <1>5, <1>6, <1>7

\* A call of deliver keeps StoreInv.
LEMMA DeliverStore ==
  ASSUME TypeOK, StoreInv, NEW r \in Replicas, NEW k \in 1 .. MaxSlots, deliver(r, k)
  PROVE  StoreInv'
<1> DEFINE q == slots[k].value
<1>1. CASE deliverPut(r, k)
  <2>1. Called(r, k, {"PUT"}) /\ leveldb_write(r, q.key, q.value) /\ failed' = failed
    BY <1>1 DEF deliverPut
  <2>2. k \in DOMAIN slots /\ q.key \in Keys /\ q.value \in Values /\ q.op = "PUT"
    BY <2>1, CalledFacts, SlotFacts
  <2>3. \A s \in Replicas, x \in Keys :
          leveldb_get(s, x)' = IF s = r /\ x = q.key THEN q.value ELSE leveldb_get(s, x)
    BY <2>1, <2>2, WriteFacts
  <2>4. \A x : IsWrite(q, x) <=> x = q.key
    BY <2>2 DEF IsWrite
  <2>5. Effect(q) = q.value
    BY <2>2 DEF Effect
  <2> HIDE DEF q
  <2>6. /\ \A s \in Replicas, x \in Keys :
             s # r \/ ~IsWrite(q, x) => leveldb_get(s, x)' = leveldb_get(s, x)
        /\ \A x \in Keys : IsWrite(q, x) => leveldb_get(r, x)' = Effect(q)
    BY <2>3, <2>4, <2>5
  <2> QED BY <2>1, <2>6, CalledStore DEF q
<1>2. CASE deliverDelete(r, k)
  <2>1. Called(r, k, {"DELETE"}) /\ leveldb_write(r, q.key, Missing) /\ failed' = failed
    BY <1>2 DEF deliverDelete
  <2>2. k \in DOMAIN slots /\ q.key \in Keys /\ q.op = "DELETE"
    BY <2>1, CalledFacts, SlotFacts
  <2>3. \A s \in Replicas, x \in Keys :
          leveldb_get(s, x)' = IF s = r /\ x = q.key THEN Missing ELSE leveldb_get(s, x)
    BY <2>1, <2>2, WriteFacts
  <2>4. \A x : IsWrite(q, x) <=> x = q.key
    BY <2>2 DEF IsWrite
  <2>5. Effect(q) = Missing
    BY <2>2 DEF Effect
  <2> HIDE DEF q
  <2>6. /\ \A s \in Replicas, x \in Keys :
             s # r \/ ~IsWrite(q, x) => leveldb_get(s, x)' = leveldb_get(s, x)
        /\ \A x \in Keys : IsWrite(q, x) => leveldb_get(r, x)' = Effect(q)
    BY <2>3, <2>4, <2>5
  <2> QED BY <2>1, <2>6, CalledStore DEF q
<1>3. CASE deliverGet(r, k) \/ deliverOther(r, k)
  <2>1. PICK ops \in {{"GET"}, {"other"}} : Called(r, k, ops)
    BY <1>3 DEF deliverGet, deliverOther
  <2>2. log' = log /\ failed' = failed
    BY <1>3 DEF deliverGet, deliverOther
  <2>3. \A x : ~IsWrite(q, x)
    BY <2>1, CalledFacts DEF IsWrite
  <2>4. \A s, x : leveldb_get(s, x)' = leveldb_get(s, x)
    BY <2>2 DEF leveldb_get
  <2> QED BY <2>1, <2>2, <2>3, <2>4, CalledStore
<1>4. CASE deliverFails(r, k)
  <2>1. /\ Called(r, k, {"PUT", "GET", "DELETE"}) /\ log' = log
        /\ failed' = [failed EXCEPT ![r] = @ \cup {k - 1}]
    BY <1>4 DEF deliverFails
  <2>2. failed'[r] # {} /\ \A s \in Replicas : s # r => failed'[s] = failed[s]
    BY <2>1 DEF TypeOK
  <2>3. \A s, x : leveldb_get(s, x)' = leveldb_get(s, x)
    BY <2>1 DEF leveldb_get
  <2> QED BY <2>1, <2>2, <2>3, CalledStore
<1> QED BY <1>1, <1>2, <1>3, <1>4 DEF deliver

\* Every step keeps StoreInv.
LEMMA StoreStep ==
  ASSUME TypeOK, StoreInv, [Next]_vars
  PROVE  StoreInv'
<1>1. CASE UNCHANGED <<delivered, log, failed, restarts>>
  BY <1>1 DEF StoreInv, leveldb_get, WritesOf, LastWrite, IsWrite, Effect
<1>2. ASSUME NEW r \in Replicas, Restart(r)
      PROVE  StoreInv'
  <2>1. /\ delivered'[r] = << >> /\ restarts' # 0
        /\ \A s \in Replicas : s # r => /\ delivered'[s] = delivered[s]
                                       /\ log'[s] = log[s] /\ failed'[s] = failed[s]
    BY <1>2, RestartFacts DEF TypeOK
  <2>2. DOMAIN << >> = {} /\ \A x : WritesOf(<< >>, x) = {}
    BY EmptySeq DEF WritesOf
  <2> SUFFICES ASSUME NEW s \in Replicas, NEW x \in Keys
               PROVE  /\ failed'[s] = {} =>
                           \A j \in DOMAIN delivered'[s] :
                             LastWrite(delivered'[s], x, j) =>
                               leveldb_get(s, x)' = Effect(delivered'[s][j].value)
                      /\ WritesOf(delivered'[s], x) # {} =>
                           \E j \in DOMAIN delivered'[s] : LastWrite(delivered'[s], x, j)
    BY <2>1 DEF StoreInv, Effect, LastWrite, WritesOf, IsWrite
  <2>3. CASE s = r
    BY <2>1, <2>2, <2>3
  <2>4. CASE s # r
    <3>1. /\ delivered'[s] = delivered[s] /\ failed'[s] = failed[s]
          /\ leveldb_get(s, x)' = leveldb_get(s, x)
      BY <2>1, <2>4 DEF leveldb_get
    <3> QED BY <3>1 DEF StoreInv
  <2> QED BY <2>3, <2>4
<1>3. CASE Assign
  BY <1>1, <1>3, AssignFacts
<1>4. CASE UNCHANGED vars
  BY <1>1, <1>4 DEF vars
<1> QED BY <1>2, <1>3, <1>4, DeliverStore DEF Next

-----------------------------------------------------------------------------
(* The answers *)

\* What is known of an answer stays true: slots and deliveries are only
\* added, until a replica is restarted.
LEMMA KeptAnswer ==
  ASSUME TypeOK, NEW a \in answers, AnswerInv(a),
         DOMAIN slots \subseteq DOMAIN slots',
         \A k \in DOMAIN slots : slots'[k] = slots[k],
         restarts' = 0 =>
           /\ restarts = 0
           /\ \A s \in Replicas : \A j \in DOMAIN delivered[s] :
                j \in DOMAIN delivered'[s] /\ delivered'[s][j] = delivered[s][j]
  PROVE  AnswerInv(a)'
<1>1. a.replica \in Replicas
  BY DEF TypeOK, Answers
<1>2. a.inst + 1 \in DOMAIN slots' /\ slots'[a.inst + 1] = slots[a.inst + 1]
  BY DEF AnswerInv
<1>3. restarts' = 0 => \E j \in DOMAIN delivered'[a.replica] :
                         delivered'[a.replica][j].inst = a.inst
  BY <1>1 DEF AnswerInv
<1>4. ASSUME NEW j \in DOMAIN a.after
      PROVE  /\ a.after[j].inst + 1 \in DOMAIN slots'
             /\ a.after[j].value = slots'[a.after[j].inst + 1].value
  BY <1>4 DEF AnswerInv
<1>5. a.op = "GET" /\ a.clean =>
        \A j \in DOMAIN a.after :
          LastWrite(a.after, a.key, j) =>
            /\ a.after[j].value.op = "PUT"
            /\ a.value = IF a.after[j].value.value # Empty THEN a.after[j].value.value
                         ELSE slots'[a.inst + 1].value.value
  BY <1>2 DEF AnswerInv
<1>6. my_turn(a.replica, a.inst)
  BY DEF AnswerInv
<1> QED BY <1>2, <1>3, <1>4, <1>5, <1>6
        DEF AnswerInv, my_turn, LastWrite, WritesOf, IsWrite

\* A call adds a delivery: KeptAnswer applies.
LEMMA CalledKeeps ==
  ASSUME TypeOK, AnswersInv, NEW r \in Replicas, NEW k \in 1 .. MaxSlots, NEW ops,
         Called(r, k, ops), NEW a \in answers
  PROVE  AnswerInv(a)'
<1>1. slots' = slots /\ restarts' = restarts /\ Delivery(k) \in Deliveries
      /\ delivered[r] \in Seq(Deliveries)
  BY CalledFacts
<1>2. /\ delivered'[r] = Append(delivered[r], Delivery(k))
      /\ \A s \in Replicas : s # r => delivered'[s] = delivered[s]
  BY CalledDelivered
<1>3. ASSUME NEW s \in Replicas, NEW j \in DOMAIN delivered[s]
      PROVE  j \in DOMAIN delivered'[s] /\ delivered'[s][j] = delivered[s][j]
  <2>1. CASE s = r
    BY <1>1, <1>2, <1>3, <2>1, AppendFacts
  <2>2. CASE s # r
    BY <1>2, <1>3, <2>2
  <2> QED BY <2>1, <2>2
<1>4. AnswerInv(a)
  BY DEF AnswersInv
<1> QED BY <1>1, <1>3, <1>4, KeptAnswer

\* The answer to a GET is what the last write left, if it is no NUL.
LEMMA SentAnswer ==
  ASSUME TypeOK, StoreInv, NEW r \in Replicas, NEW k \in 1 .. MaxSlots, NEW ops,
         Called(r, k, ops), my_turn(r, k - 1), NEW v, NEW a, a = NewAnswer(r, k, v),
         slots[k].value.op = "GET" =>
           LET got == leveldb_get(r, slots[k].value.key)
           IN got # Missing /\ v = IF got # Empty THEN got ELSE slots[k].value.value
  PROVE  AnswerInv(a)'
<1> DEFINE d == delivered[r]
           q == slots[k].value
           got == leveldb_get(r, q.key)
<1>1. /\ k \in DOMAIN slots /\ slots' = slots /\ d \in Seq(Deliveries)
      /\ Delivery(k) \in Deliveries /\ Delivery(k).inst = k - 1
  BY CalledFacts
<1>2. (k - 1) + 1 = k /\ q.key \in Keys
  BY <1>1, SlotFacts
<1>3. /\ a.inst = k - 1 /\ a.op = q.op /\ a.key = q.key /\ a.value = v
      /\ a.replica = r /\ a.after = d /\ a.clean = (failed[r] = {})
  BY DEF NewAnswer
<1>4. a.inst + 1 \in DOMAIN slots' /\ my_turn(a.replica, a.inst)
  BY <1>1, <1>2, <1>3
<1>5. \E j \in DOMAIN delivered'[r] : delivered'[r][j].inst = k - 1
  <2>1. delivered'[r] = Append(d, Delivery(k))
    BY CalledDelivered
  <2>2. Len(d) + 1 \in DOMAIN delivered'[r] /\ delivered'[r][Len(d) + 1] = Delivery(k)
    BY <1>1, <2>1, AppendFacts
  <2> QED BY <1>1, <2>2
<1>6. \A j \in DOMAIN d : /\ d[j].inst + 1 \in DOMAIN slots'
                         /\ d[j].value = slots'[d[j].inst + 1].value
  BY <1>1 DEF TypeOK
<1>7. ASSUME q.op = "GET", failed[r] = {}, NEW j \in DOMAIN d, LastWrite(d, q.key, j)
      PROVE  /\ d[j].value.op = "PUT"
             /\ v = IF d[j].value.value # Empty THEN d[j].value.value ELSE q.value
  <2>1. got = Effect(d[j].value)
    BY <1>2, <1>7 DEF StoreInv
  <2>2. got # Missing /\ v = IF got # Empty THEN got ELSE q.value
    BY <1>7
  <2> QED BY <2>1, <2>2 DEF Effect
<1>8. slots'[a.inst + 1].value = q
  BY <1>1, <1>2, <1>3
<1> HIDE DEF d, q
<1>9. a.op = "GET" /\ a.clean =>
        \A j \in DOMAIN a.after :
          LastWrite(a.after, a.key, j) =>
            /\ a.after[j].value.op = "PUT"
            /\ a.value = IF a.after[j].value.value # Empty THEN a.after[j].value.value
                         ELSE slots'[a.inst + 1].value.value
  BY <1>3, <1>7, <1>8
<1> QED BY <1>3, <1>4, <1>5, <1>6, <1>9
        DEF AnswerInv, my_turn, LastWrite, WritesOf, IsWrite

\* A call that answers: the only answer of its instance.
LEMMA RepliedAnswers ==
  ASSUME TypeOK, StoreInv, AnswersInv, OneAnswer, NEW r \in Replicas,
         NEW k \in 1 .. MaxSlots, NEW ops, Called(r, k, ops), NEW v \in Values,
         Reply(r, k, v),
         slots[k].value.op = "GET" =>
           LET got == leveldb_get(r, slots[k].value.key)
           IN got # Missing /\ v = IF got # Empty THEN got ELSE slots[k].value.value
  PROVE  AnswersInv' /\ OneAnswer'
<1>1. /\ k \in DOMAIN slots /\ restarts' = restarts
      /\ \A j \in DOMAIN delivered[r] : delivered[r][j].inst # k - 1
  BY CalledFacts
<1>2. answers' = answers \cup IF my_turn(r, k - 1) THEN {NewAnswer(r, k, v)} ELSE {}
  BY <1>1, ReplyFacts
<1>3. ASSUME NEW a \in answers'
      PROVE  AnswerInv(a)'
  <2>1. CASE a \in answers
    BY <2>1, CalledKeeps
  <2>2. CASE a \notin answers
    <3>1. my_turn(r, k - 1) /\ a = NewAnswer(r, k, v)
      BY <1>2, <1>3, <2>2
    <3> QED BY <3>1, SentAnswer
  <2> QED BY <2>1, <2>2
<1>4. ASSUME restarts' = 0, my_turn(r, k - 1), NEW b \in answers
      PROVE  b.inst # k - 1
  <2> SUFFICES ASSUME b.inst = k - 1 PROVE FALSE
    OBVIOUS
  <2>1. AnswerInv(b) /\ restarts = 0
    BY <1>1, <1>4 DEF AnswersInv
  <2>2. b.replica = r
    BY <1>4, <2>1 DEF AnswerInv, my_turn
  <2> QED BY <1>1, <2>1, <2>2 DEF AnswerInv
<1>5. NewAnswer(r, k, v).inst = k - 1
  BY DEF NewAnswer
<1>6. OneAnswer'
  <2> SUFFICES ASSUME restarts' = 0, NEW a \in answers', NEW b \in answers',
                      a.inst = b.inst
               PROVE  a = b
    BY DEF OneAnswer
  <2>1. restarts = 0
    BY <1>1
  <2> QED BY <1>2, <1>4, <1>5, <2>1 DEF OneAnswer
<1> QED BY <1>3, <1>6 DEF AnswersInv

\* What a call must do so that every turn is answered.
LEMMA CalledTurns ==
  ASSUME TypeOK, TurnsAnswered, NEW r \in Replicas, NEW k \in 1 .. MaxSlots, NEW ops,
         Called(r, k, ops), answers \subseteq answers',
         \A s \in Replicas : (up'[s] => up[s]) /\ failed[s] \subseteq failed'[s],
         /\ up'[r] /\ k - 1 \notin failed'[r] /\ my_turn(r, k - 1)
         /\ slots[k].value.op # "other"
         => \E a \in answers' : a.inst = k - 1
  PROVE  TurnsAnswered'
<1> SUFFICES ASSUME NEW s \in Replicas, NEW j \in DOMAIN delivered'[s], up'[s],
                    delivered'[s][j].inst \notin failed'[s],
                    my_turn(s, delivered'[s][j].inst),
                    delivered'[s][j].value.op # "other"
             PROVE  \E a \in answers' : a.inst = delivered'[s][j].inst
  BY DEF TurnsAnswered, my_turn
<1>1. Delivery(k) \in Deliveries /\ delivered[r] \in Seq(Deliveries)
      /\ Delivery(k).inst = k - 1 /\ Delivery(k).value = slots[k].value
  BY CalledFacts
<1>2. /\ delivered'[r] = Append(delivered[r], Delivery(k))
      /\ \A x \in Replicas : x # r => delivered'[x] = delivered[x]
  BY CalledDelivered
<1>3. \/ j \in DOMAIN delivered[s] /\ delivered'[s][j] = delivered[s][j]
      \/ s = r /\ delivered'[s][j] = Delivery(k)
  <2>1. CASE s = r
    BY <1>1, <1>2, <2>1, AppendFacts
  <2>2. CASE s # r
    BY <1>2, <2>2
  <2> QED BY <2>1, <2>2
<1>4. CASE j \in DOMAIN delivered[s] /\ delivered'[s][j] = delivered[s][j]
  <2>1. up[s] /\ delivered[s][j].inst \notin failed[s]
    BY <1>4
  <2> QED BY <1>4, <2>1 DEF TurnsAnswered
<1>5. CASE s = r /\ delivered'[s][j] = Delivery(k)
  BY <1>1, <1>5
<1> QED BY <1>3, <1>4, <1>5

\* A call adds a delivery that was not there: it answers or fails.
LEMMA CalledSilent ==
  ASSUME TypeOK, AnswersInv, FailuresSilent, NEW r \in Replicas,
         NEW k \in 1 .. MaxSlots, NEW ops, Called(r, k, ops),
         \A s \in Replicas : s # r => failed'[s] = failed[s],
         \/ /\ failed'[r] = failed[r]
            /\ \A a \in answers' : a \in answers \/ (a.inst = k - 1 /\ a.replica = r)
         \/ failed'[r] = failed[r] \cup {k - 1} /\ answers' = answers
  PROVE  FailuresSilent'
<1> SUFFICES ASSUME restarts' = 0, NEW s \in Replicas, NEW n \in failed'[s]
             PROVE  /\ \E j \in DOMAIN delivered'[s] : delivered'[s][j].inst = n
                    /\ \A a \in answers' : a.replica = s => a.inst # n
  BY DEF FailuresSilent
<1>1. /\ restarts = 0 /\ Delivery(k).inst = k - 1 /\ Delivery(k) \in Deliveries
      /\ delivered[r] \in Seq(Deliveries)
      /\ \A j \in DOMAIN delivered[r] : delivered[r][j].inst # k - 1
  BY CalledFacts
<1>2. /\ delivered'[r] = Append(delivered[r], Delivery(k))
      /\ \A x \in Replicas : x # r => delivered'[x] = delivered[x]
  BY CalledDelivered
<1>3. ASSUME NEW x \in Replicas, NEW j \in DOMAIN delivered[x]
      PROVE  j \in DOMAIN delivered'[x] /\ delivered'[x][j] = delivered[x][j]
  <2>1. CASE x = r
    BY <1>1, <1>2, <1>3, <2>1, AppendFacts
  <2>2. CASE x # r
    BY <1>2, <1>3, <2>2
  <2> QED BY <2>1, <2>2
<1>4. CASE n \in failed[s]
  <2>1. PICK j \in DOMAIN delivered[s] : delivered[s][j].inst = n
    BY <1>1, <1>4 DEF FailuresSilent
  <2>2. j \in DOMAIN delivered'[s] /\ delivered'[s][j].inst = n
    BY <1>3, <2>1
  <2>3. ASSUME NEW a \in answers', a.replica = s
        PROVE  a.inst # n
    <3>1. CASE a \in answers
      BY <1>1, <1>4, <2>3, <3>1 DEF FailuresSilent
    <3>2. CASE a \notin answers
      <4>1. a.inst = k - 1 /\ s = r
        BY <2>3, <3>2
      <4> QED BY <1>1, <2>1, <4>1
    <3> QED BY <3>1, <3>2
  <2> QED BY <2>2, <2>3
<1>5. CASE n \notin failed[s]
  <2>1. s = r /\ n = k - 1 /\ answers' = answers
    BY <1>5
  <2>2. Len(delivered[r]) + 1 \in DOMAIN delivered'[r]
        /\ delivered'[r][Len(delivered[r]) + 1] = Delivery(k)
    BY <1>1, <1>2, AppendFacts
  <2>3. ASSUME NEW a \in answers, a.replica = r
        PROVE  a.inst # k - 1
    BY <1>1, <2>3 DEF AnswersInv, AnswerInv
  <2> QED BY <1>1, <2>1, <2>2, <2>3
<1> QED BY <1>4, <1>5

-----------------------------------------------------------------------------
(* The end of the process *)

\* When the slots are run in order, a replica's database lacks the key of a
\* GET exactly if the slots before it leave none.
LEMMA PoisonousGet ==
  ASSUME TypeOK, StoreInv, restarts = 0, NEW r \in Replicas, failed[r] = {},
         NEW k \in DOMAIN slots, slots[k].value.op = "GET",
         Len(delivered[r]) = k - 1,
         \A j \in DOMAIN delivered[r] : delivered[r][j].inst = j - 1
  PROVE  leveldb_get(r, slots[k].value.key) = Missing <=> Poisonous(k)
<1> DEFINE d == delivered[r]
           x == slots[k].value.key
           got == leveldb_get(r, x)
<1>1. x \in Keys /\ k \in Nat /\ k - 1 \in Nat /\ k \in 1 .. Len(slots)
  BY SlotFacts
<1>2. DOMAIN d = 1 .. k - 1 /\ DOMAIN slots = 1 .. Len(slots) /\ Len(slots) \in Nat
  BY LenProperties DEF TypeOK
<1>3. \A j \in 1 .. k - 1 : j \in DOMAIN slots /\ d[j].value = slots[j].value
  <2> SUFFICES ASSUME NEW j \in 1 .. k - 1
               PROVE  j \in DOMAIN slots /\ d[j].value = slots[j].value
    OBVIOUS
  <2>1. d[j].inst = j - 1 /\ d[j].value = slots[d[j].inst + 1].value
    BY <1>2 DEF TypeOK
  <2>2. (j - 1) + 1 = j /\ j \in DOMAIN slots
    BY <1>1, <1>2
  <2> QED BY <2>1, <2>2
<1>4. /\ failed[r] = {} => \A j \in DOMAIN d : LastWrite(d, x, j) => got = Effect(d[j].value)
      /\ WritesOf(d, x) = {} => (restarts = 0 => got = Missing)
      /\ WritesOf(d, x) # {} => \E j \in DOMAIN d : LastWrite(d, x, j)
  BY <1>1 DEF StoreInv
<1>5. Poisonous(k) <=> \A n \in 1 .. k - 1 : NewestBefore(n, k, x) => slots[n].value.op = "DELETE"
  BY DEF Poisonous
<1> HIDE DEF d, x, got
<1>6. WritesOf(d, x) = {j \in 1 .. k - 1 : IsWrite(slots[j].value, x)}
  BY <1>2, <1>3 DEF WritesOf
<1>7. \A n \in 1 .. k - 1 : NewestBefore(n, k, x) <=> LastWrite(d, x, n)
  BY <1>1, <1>6 DEF NewestBefore, LastWrite
<1>8. CASE WritesOf(d, x) = {}
  <2>1. \A n \in 1 .. k - 1 : ~NewestBefore(n, k, x)
    BY <1>7, <1>8 DEF LastWrite
  <2> QED BY <1>4, <1>5, <1>8, <2>1 DEF got, x
<1>9. CASE WritesOf(d, x) # {}
  <2>1. PICK j \in 1 .. k - 1 : LastWrite(d, x, j)
    BY <1>2, <1>4, <1>9
  <2>2. got = Effect(slots[j].value)
    BY <1>2, <1>3, <1>4, <2>1
  <2>3. \A n \in 1 .. k - 1 : LastWrite(d, x, n) => n = j
    BY <1>1, <1>6, <2>1 DEF LastWrite
  <2>4. slots[j].value.op \in {"PUT", "DELETE"}
    BY <1>6, <2>1 DEF LastWrite, IsWrite
  <2>5. slots[j].value.value # Missing
    BY <1>3, SlotFacts
  <2>6. got = Missing <=> slots[j].value.op = "DELETE"
    BY <2>2, <2>4, <2>5 DEF Effect
  <2>7. Poisonous(k) <=> slots[j].value.op = "DELETE"
    BY <1>5, <1>7, <2>1, <2>3
  <2> QED BY <2>6, <2>7 DEF got, x
<1> QED BY <1>8, <1>9

\* What a call must do so that replicas share their fate.
LEMMA CalledFate ==
  ASSUME TypeOK, StoreInv, SameFate, NEW r \in Replicas, NEW k \in 1 .. MaxSlots, NEW ops,
         Called(r, k, ops),
         \A s \in Replicas : s # r => up'[s] = up[s] /\ failed'[s] = failed[s],
         failed'[r] = {} =>
           /\ failed[r] = {}
           /\ ~up'[r] <=> /\ slots[k].value.op = "GET"
                          /\ leveldb_get(r, slots[k].value.key) = Missing
  PROVE  SameFate'
<1> DEFINE d == delivered[r]
           e == Delivery(k)
<1>1. /\ up[r] /\ k \in DOMAIN slots /\ slots' = slots /\ restarts' = restarts
      /\ d \in Seq(Deliveries) /\ e \in Deliveries /\ e.inst = k - 1
  BY CalledFacts
<1>2. /\ delivered'[r] = Append(d, e)
      /\ \A s \in Replicas : s # r => delivered'[s] = delivered[s]
  BY CalledDelivered
<1>3. \A n : Poisonous(n)' <=> Poisonous(n)
  BY <1>1 DEF Poisonous, NewestBefore, IsWrite
<1> SUFFICES ASSUME restarts' = 0, NEW s \in Replicas, failed'[s] = {},
                    \A j \in DOMAIN delivered'[s] : delivered'[s][j].inst = j - 1
             PROVE  ~up'[s] <=> \E n \in 1 .. Len(delivered'[s]) : Poisonous(n)'
  BY DEF SameFate
<1>4. restarts = 0
  BY <1>1
<1>5. CASE s # r
  <2>1. delivered'[s] = delivered[s] /\ up'[s] = up[s] /\ failed[s] = {}
    BY <1>2, <1>5
  <2>2. ~up[s] <=> \E n \in 1 .. Len(delivered[s]) : Poisonous(n)
    BY <1>4, <2>1 DEF SameFate
  <2> QED BY <1>3, <2>1, <2>2
<1>6. CASE s = r
  <2>1. /\ Len(d) \in Nat /\ DOMAIN d = 1 .. Len(d) /\ Len(Append(d, e)) = Len(d) + 1
        /\ DOMAIN Append(d, e) = 1 .. Len(d) + 1 /\ Append(d, e)[Len(d) + 1] = e
        /\ \A j \in 1 .. Len(d) : Append(d, e)[j] = d[j]
    BY <1>1, AppendFacts
  <2>2. failed[r] = {}
    BY <1>6
  <2>3. k \in Nat
    BY <1>1, SlotFacts
  <2>4. k = Len(d) + 1 /\ Len(d) = k - 1
    <3>1. Len(d) + 1 \in DOMAIN delivered'[s] /\ delivered'[s][Len(d) + 1] = e
      BY <1>2, <1>6, <2>1
    <3>2. e.inst = (Len(d) + 1) - 1
      BY <3>1
    <3> QED BY <1>1, <2>1, <2>3, <3>2
  <2>5. \A j \in DOMAIN d : d[j].inst = j - 1
    BY <1>2, <1>6, <2>1
  <2>6. \A n \in 1 .. Len(d) : ~Poisonous(n)
    BY <1>1, <1>4, <2>2, <2>5 DEF SameFate
  <2>7. ~up'[r] <=> Poisonous(k)
    <3>1. CASE slots[k].value.op = "GET"
      <4>1. leveldb_get(r, slots[k].value.key) = Missing <=> Poisonous(k)
        BY <1>1, <1>4, <2>2, <2>4, <2>5, <3>1, PoisonousGet
      <4> QED BY <1>6, <3>1, <4>1
    <3>2. CASE slots[k].value.op # "GET"
      BY <1>6, <3>2 DEF Poisonous
    <3> QED BY <3>1, <3>2
  <2>8. Len(delivered'[s]) = k
    BY <1>2, <1>6, <2>1, <2>4
  <2> HIDE DEF d
  <2>9. (\E n \in 1 .. k : Poisonous(n)) <=> Poisonous(k)
    BY <2>1, <2>3, <2>4, <2>6
  <2> QED BY <1>3, <1>6, <2>7, <2>8, <2>9
<1> QED BY <1>5, <1>6

-----------------------------------------------------------------------------
(* The invariant *)

\* A call of deliver keeps the invariant.
LEMMA DeliverInv ==
  ASSUME TypeOK, LevelDBInv, NEW r \in Replicas, NEW k \in 1 .. MaxSlots, deliver(r, k)
  PROVE  /\ AnswersInv' /\ OneAnswer' /\ TurnsAnswered'
         /\ FailuresSilent' /\ SameFate'
<1> DEFINE q == slots[k].value
<1>0. /\ TypeOK /\ StoreInv /\ AnswersInv /\ OneAnswer /\ TurnsAnswered
      /\ FailuresSilent /\ SameFate
  BY DEF LevelDBInv
<1>1. CASE deliverPut(r, k) \/ deliverDelete(r, k)
  <2>1. PICK ops \in {{"PUT"}, {"DELETE"}} : Called(r, k, ops)
    BY <1>1 DEF deliverPut, deliverDelete
  <2>2. Reply(r, k, q.value) /\ up' = up /\ failed' = failed
    BY <1>1 DEF deliverPut, deliverDelete
  <2>3. k \in DOMAIN slots /\ q.op # "GET" /\ up[r]
    BY <2>1, CalledFacts
  <2>4. q.value \in Values
    BY <2>3, SlotFacts
  <2>5. AnswersInv' /\ OneAnswer'
    BY <1>0, <2>1, <2>2, <2>3, <2>4, RepliedAnswers
  <2>6. answers' = answers \cup IF my_turn(r, k - 1) THEN {NewAnswer(r, k, q.value)} ELSE {}
    BY <2>2, <2>3, <2>4, ReplyFacts
  <2>7. NewAnswer(r, k, q.value).inst = k - 1
    BY DEF NewAnswer
  <2>8. TurnsAnswered'
    BY <1>0, <2>1, <2>2, <2>6, <2>7, CalledTurns
  <2>9. SameFate'
    BY <1>0, <2>1, <2>2, <2>3, CalledFate
  <2>10. NewAnswer(r, k, q.value).replica = r
    BY DEF NewAnswer
  <2>11. FailuresSilent'
    BY <1>0, <2>1, <2>2, <2>6, <2>7, <2>10, CalledSilent
  <2> QED BY <2>5, <2>8, <2>9, <2>11
<1>2. CASE deliverGet(r, k)
  <2> DEFINE got == leveldb_get(r, q.key)
             v == IF got # Empty THEN got ELSE q.value
  <2>1. Called(r, k, {"GET"}) /\ failed' = failed
    BY <1>2 DEF deliverGet
  <2>2. \/ got = Missing /\ up' = [up EXCEPT ![r] = FALSE] /\ answers' = answers
        \/ got # Missing /\ Reply(r, k, v) /\ up' = up
    BY <1>2 DEF deliverGet
  <2>3. k \in DOMAIN slots /\ q.op = "GET" /\ up[r] /\ restarts' = restarts
    BY <2>1, CalledFacts
  <2>4. q.value \in Values /\ q.key \in Keys
    BY <2>3, SlotFacts
  <2>5. got \in Values \cup {Missing}
    BY <2>4, GetFacts
  <2>6. up \in [Replicas -> BOOLEAN]
    BY DEF TypeOK
  <2> HIDE DEF got, v
  <2>7. CASE got = Missing /\ up' = [up EXCEPT ![r] = FALSE] /\ answers' = answers
    <3>1. ~up'[r] /\ \A s \in Replicas : s # r => up'[s] = up[s]
      BY <2>6, <2>7
    <3>2. \A s \in Replicas : up'[s] => up[s]
      BY <3>1
    <3>3. AnswersInv' /\ OneAnswer'
      BY <1>0, <2>1, <2>3, <2>7, CalledKeeps DEF AnswersInv, OneAnswer
    <3>4. TurnsAnswered'
      BY <1>0, <2>1, <2>7, <3>1, <3>2, CalledTurns
    <3>5. SameFate'
      BY <1>0, <2>1, <2>3, <2>7, <3>1, CalledFate DEF got
    <3>6. FailuresSilent'
      BY <1>0, <2>1, <2>7, CalledSilent
    <3> QED BY <3>3, <3>4, <3>5, <3>6
  <2>8. CASE got # Missing /\ Reply(r, k, v) /\ up' = up
    <3>1. v \in Values
      BY <2>4, <2>5, <2>8 DEF v
    <3>2. AnswersInv' /\ OneAnswer'
      BY <1>0, <2>1, <2>8, <3>1, RepliedAnswers DEF got, v
    <3>3. answers' = answers \cup IF my_turn(r, k - 1) THEN {NewAnswer(r, k, v)} ELSE {}
      BY <2>3, <2>8, <3>1, ReplyFacts
    <3>4. NewAnswer(r, k, v).inst = k - 1
      BY DEF NewAnswer
    <3>5. TurnsAnswered'
      BY <1>0, <2>1, <2>8, <3>3, <3>4, CalledTurns
    <3>6. SameFate'
      BY <1>0, <2>1, <2>3, <2>8, CalledFate DEF got
    <3>7. NewAnswer(r, k, v).replica = r
      BY DEF NewAnswer
    <3>8. FailuresSilent'
      BY <1>0, <2>1, <3>3, <3>4, <3>7, CalledSilent
    <3> QED BY <3>2, <3>5, <3>6, <3>8
  <2> QED BY <2>2, <2>7, <2>8
<1>3. CASE deliverOther(r, k)
  <2>1. Called(r, k, {"other"}) /\ UNCHANGED <<up, answers, failed>>
    BY <1>3 DEF deliverOther
  <2>2. q.op = "other" /\ up[r] /\ restarts' = restarts
    BY <2>1, CalledFacts
  <2>3. AnswersInv' /\ OneAnswer'
    BY <1>0, <2>1, <2>2, CalledKeeps DEF AnswersInv, OneAnswer
  <2>4. TurnsAnswered'
    BY <1>0, <2>1, <2>2, CalledTurns
  <2>5. SameFate'
    BY <1>0, <2>1, <2>2, CalledFate
  <2>6. FailuresSilent'
    BY <1>0, <2>1, CalledSilent
  <2> QED BY <2>3, <2>4, <2>5, <2>6
<1>4. CASE deliverFails(r, k)
  <2>1. /\ Called(r, k, {"PUT", "GET", "DELETE"}) /\ UNCHANGED <<up, answers>>
        /\ failed' = [failed EXCEPT ![r] = @ \cup {k - 1}]
    BY <1>4 DEF deliverFails
  <2>2. restarts' = restarts
    BY <2>1, CalledFacts
  <2>3. /\ failed'[r] = failed[r] \cup {k - 1}
        /\ \A s \in Replicas : s # r => failed'[s] = failed[s]
    BY <2>1 DEF TypeOK
  <2>4. AnswersInv' /\ OneAnswer'
    BY <1>0, <2>1, <2>2, CalledKeeps DEF AnswersInv, OneAnswer
  <2>5. TurnsAnswered'
    <3>1. k - 1 \in failed'[r] /\ \A s \in Replicas : failed[s] \subseteq failed'[s]
      BY <2>3
    <3> QED BY <1>0, <2>1, <3>1, CalledTurns
  <2>6. SameFate'
    <3>1. failed'[r] # {}
      BY <2>3
    <3> QED BY <1>0, <2>1, <2>3, <3>1, CalledFate
  <2>7. FailuresSilent'
    BY <1>0, <2>1, <2>3, CalledSilent
  <2> QED BY <2>4, <2>5, <2>6, <2>7
<1> QED BY <1>1, <1>2, <1>3, <1>4 DEF deliver

\* A new slot changes nothing for the ones before it.
LEMMA AssignInv ==
  ASSUME TypeOK, LevelDBInv, Assign
  PROVE  /\ AnswersInv' /\ OneAnswer' /\ TurnsAnswered'
         /\ FailuresSilent' /\ SameFate'
<1>0. /\ TypeOK /\ AnswersInv /\ OneAnswer /\ TurnsAnswered
      /\ FailuresSilent /\ SameFate
  BY DEF LevelDBInv
<1>1. /\ Len(slots) \in Nat /\ DOMAIN slots = 1 .. Len(slots)
      /\ DOMAIN slots \subseteq DOMAIN slots'
      /\ \A k \in DOMAIN slots : slots'[k] = slots[k]
      /\ UNCHANGED <<delivered, up, answers, failed, restarts>>
  BY AssignFacts
<1>2. AnswersInv'
  <2> SUFFICES ASSUME NEW a \in answers PROVE AnswerInv(a)'
    BY <1>1 DEF AnswersInv
  <2>1. AnswerInv(a)
    BY <1>0 DEF AnswersInv
  <2> QED BY <1>0, <1>1, <2>1, KeptAnswer
<1>3. OneAnswer' /\ TurnsAnswered' /\ FailuresSilent'
  BY <1>0, <1>1 DEF OneAnswer, TurnsAnswered, FailuresSilent, my_turn
<1>4. ASSUME NEW n \in DOMAIN slots
      PROVE  Poisonous(n)' <=> Poisonous(n)
  <2>1. n \in Nat /\ 1 .. n - 1 \subseteq DOMAIN slots
    BY <1>1
  <2>2. slots'[n] = slots[n] /\ \A m \in 1 .. n - 1 : slots'[m] = slots[m]
    BY <1>1, <2>1
  <2>3. \A m \in 1 .. n - 1 : \A x : NewestBefore(m, n, x)' <=> NewestBefore(m, n, x)
    <3> SUFFICES ASSUME NEW m \in 1 .. n - 1, NEW x
                 PROVE  NewestBefore(m, n, x)' <=> NewestBefore(m, n, x)
      OBVIOUS
    <3>1. \A i \in m + 1 .. n - 1 : i \in 1 .. n - 1
      BY <2>1
    <3> QED BY <2>2, <3>1 DEF NewestBefore, IsWrite
  <2>4. \A m \in 1 .. n - 1 : NewestBefore(m, n, slots[n].value.key)'
                               <=> NewestBefore(m, n, slots[n].value.key)
    BY <2>2, <2>3 DEF NewestBefore, IsWrite
  <2> QED BY <2>2, <2>4 DEF Poisonous
<1>5. SameFate'
  <2> SUFFICES ASSUME restarts = 0, NEW s \in Replicas, failed[s] = {},
                      \A j \in DOMAIN delivered[s] : delivered[s][j].inst = j - 1
               PROVE  ~up[s] <=> \E n \in 1 .. Len(delivered[s]) : Poisonous(n)'
    BY <1>1 DEF SameFate
  <2>1. DOMAIN delivered[s] = 1 .. Len(delivered[s]) /\ Len(delivered[s]) \in Nat
    BY <1>0, LenProperties DEF TypeOK
  <2>2. ASSUME NEW n \in 1 .. Len(delivered[s])
        PROVE  n \in DOMAIN slots
    <3>1. delivered[s][n].inst = n - 1 /\ delivered[s][n].inst + 1 \in DOMAIN slots
      BY <1>0, <2>1, <2>2 DEF TypeOK
    <3>2. (n - 1) + 1 = n
      BY <2>1
    <3> QED BY <3>1, <3>2
  <2>3. ~up[s] <=> \E n \in 1 .. Len(delivered[s]) : Poisonous(n)
    BY <1>0 DEF SameFate
  <2> QED BY <1>4, <2>2, <2>3
<1> QED BY <1>2, <1>3, <1>5

\* A restarted replica owes nothing.
LEMMA RestartInv ==
  ASSUME TypeOK, LevelDBInv, NEW r \in Replicas, Restart(r)
  PROVE  /\ AnswersInv' /\ OneAnswer' /\ TurnsAnswered'
         /\ FailuresSilent' /\ SameFate'
<1>0. TypeOK /\ AnswersInv /\ TurnsAnswered
  BY DEF LevelDBInv
<1>1. /\ delivered'[r] = << >> /\ restarts' # 0 /\ slots' = slots /\ answers' = answers
      /\ \A s \in Replicas : s # r => /\ delivered'[s] = delivered[s] /\ up'[s] = up[s]
                                     /\ failed'[s] = failed[s]
  BY <1>0, RestartFacts DEF TypeOK
<1>2. AnswersInv'
  <2> SUFFICES ASSUME NEW a \in answers PROVE AnswerInv(a)'
    BY <1>1 DEF AnswersInv
  <2>1. AnswerInv(a)
    BY <1>0 DEF AnswersInv
  <2> QED BY <1>0, <1>1, <2>1, KeptAnswer
<1>3. OneAnswer' /\ FailuresSilent' /\ SameFate'
  BY <1>1 DEF OneAnswer, FailuresSilent, SameFate
<1>4. TurnsAnswered'
  <2> SUFFICES ASSUME NEW s \in Replicas, NEW j \in DOMAIN delivered'[s], up'[s],
                      delivered'[s][j].inst \notin failed'[s],
                      my_turn(s, delivered'[s][j].inst),
                      delivered'[s][j].value.op # "other"
               PROVE  \E a \in answers' : a.inst = delivered'[s][j].inst
    BY DEF TurnsAnswered, my_turn
  <2>1. s # r
    BY <1>1, EmptySeq
  <2>2. /\ delivered'[s] = delivered[s] /\ up'[s] = up[s] /\ failed'[s] = failed[s]
        /\ answers' = answers
    BY <1>1, <2>1
  <2> QED BY <1>0, <2>2 DEF TurnsAnswered
<1> QED BY <1>2, <1>3, <1>4

\* The invariant holds in every reachable state.
THEOREM LevelDBInvariance == Spec => []LevelDBInv
<1>1. Init => LevelDBInv
  <2> SUFFICES ASSUME Init PROVE LevelDBInv
    OBVIOUS
  <2>1. /\ \A r \in Replicas : delivered[r] = << >> /\ DOMAIN delivered[r] = {}
        /\ \A r \in Replicas, k \in Keys : leveldb_get(r, k) = Missing
    BY LevelDBInitFacts
  <2>2. answers = {} /\ up = [r \in Replicas |-> TRUE]
    BY DEF Init
  <2>3. StoreInv
    BY <2>1 DEF StoreInv, WritesOf
  <2>4. SameFate
    <3>1. \A r \in Replicas : up[r] /\ 1 .. Len(delivered[r]) = {}
      BY <2>1, <2>2, EmptySeq
    <3> QED BY <3>1 DEF SameFate
  <2>5. FailuresSilent
    BY DEF Init, FailuresSilent
  <2> QED BY <2>1, <2>2, <2>3, <2>4, <2>5
          DEF LevelDBInv, AnswersInv, OneAnswer, TurnsAnswered
<1>2. TypeOK /\ LevelDBInv /\ [Next]_vars => LevelDBInv'
  <2> SUFFICES ASSUME TypeOK, LevelDBInv, [Next]_vars PROVE LevelDBInv'
    OBVIOUS
  <2>1. StoreInv'
    BY StoreStep DEF LevelDBInv
  <2>2. CASE UNCHANGED vars
    <3>1. AnswersInv' /\ OneAnswer' /\ TurnsAnswered' /\ FailuresSilent'
      BY <2>2 DEF vars, LevelDBInv, AnswersInv, AnswerInv, OneAnswer, TurnsAnswered,
                  FailuresSilent, my_turn, LastWrite, WritesOf, IsWrite
    <3>2. SameFate'
      BY <2>2 DEF vars, LevelDBInv, SameFate, Poisonous, NewestBefore, IsWrite
    <3> QED BY <2>1, <3>1, <3>2 DEF LevelDBInv
  <2>3. CASE Next
    BY <2>1, <2>3, AssignInv, DeliverInv, RestartInv DEF Next, LevelDBInv
  <2> QED BY <2>2, <2>3
<1> QED BY <1>1, <1>2, LevelDBTypeCorrect, PTL DEF Spec

-----------------------------------------------------------------------------
(* The theorems *)

\* The same writes in the order of their instances end with the same one.
LEMMA SameLast ==
  ASSUME NEW d, NEW c, NEW k, NEW i, NEW j,
         WritesOf(d, k) \subseteq Nat, WritesOf(c, k) \subseteq Nat,
         \A m \in WritesOf(d, k) : d[m].inst \in Nat,
         \A m \in WritesOf(c, k) : c[m].inst \in Nat,
         InOrder(d, k), InOrder(c, k), LastWrite(d, k, i), LastWrite(c, k, j),
         \A m \in WritesOf(d, k) : \E n \in WritesOf(c, k) : c[n] = d[m],
         \A m \in WritesOf(c, k) : \E n \in WritesOf(d, k) : d[n] = c[m]
  PROVE  d[i] = c[j]
<1>1. i \in WritesOf(d, k) /\ j \in WritesOf(c, k)
  BY DEF LastWrite
<1>2. PICK m \in WritesOf(c, k) : c[m] = d[i]
  BY <1>1
<1>3. PICK n \in WritesOf(d, k) : d[n] = c[j]
  BY <1>1
<1>4. m <= j /\ n <= i
  BY <1>2, <1>3 DEF LastWrite
<1>5. CASE m = j
  BY <1>2, <1>5
<1>6. CASE n = i
  BY <1>3, <1>6
<1>7. CASE m < j /\ n < i
  <2>1. c[m].inst < c[j].inst /\ d[n].inst < d[i].inst
    BY <1>1, <1>2, <1>3, <1>7 DEF InOrder
  <2> QED BY <1>1, <1>2, <1>3, <2>1
<1> QED BY <1>1, <1>2, <1>3, <1>4, <1>5, <1>6, <1>7

(***************************************************************************)
(* Replicas that applied the same writes of a key in the order of their    *)
(* instances hold the same for it, whatever else they were given, in which *)
(* order, and whatever a restart lost.                                     *)
(***************************************************************************)
THEOREM SameWritesConvergeTheorem == Spec => []SameWritesConverge
<1>1. TypeOK /\ LevelDBInv => SameWritesConverge
  <2> SUFFICES ASSUME TypeOK, LevelDBInv, NEW r \in Replicas, NEW s \in Replicas,
                      NEW k \in Keys,
                      InOrder(delivered[r], k), InOrder(delivered[s], k),
                      {delivered[r][j] : j \in WritesOf(delivered[r], k)}
                        = {delivered[s][j] : j \in WritesOf(delivered[s], k)},
                      {delivered[r][j] : j \in WritesOf(delivered[r], k)} # {},
                      failed[r] = {}, failed[s] = {}
               PROVE  leveldb_get(r, k) = leveldb_get(s, k)
    BY DEF SameWritesConverge
  <2>1. WritesOf(delivered[r], k) # {} /\ WritesOf(delivered[s], k) # {}
    OBVIOUS
  <2>2. PICK i \in DOMAIN delivered[r] : LastWrite(delivered[r], k, i)
    BY <2>1 DEF LevelDBInv, StoreInv
  <2>3. PICK j \in DOMAIN delivered[s] : LastWrite(delivered[s], k, j)
    BY <2>1 DEF LevelDBInv, StoreInv
  <2>4. \A l \in Replicas : /\ WritesOf(delivered[l], k) \subseteq Nat
                            /\ \A m \in WritesOf(delivered[l], k) :
                                 delivered[l][m].inst \in Nat
    <3> SUFFICES ASSUME NEW l \in Replicas, NEW m \in WritesOf(delivered[l], k)
                 PROVE  m \in Nat /\ delivered[l][m].inst \in Nat
      OBVIOUS
    <3>1. delivered[l] \in Seq(Deliveries) /\ m \in DOMAIN delivered[l]
      BY DEF TypeOK, WritesOf
    <3>2. m \in 1 .. Len(delivered[l]) /\ m \in Nat
      BY <3>1, LenProperties
    <3>3. delivered[l][m] \in Deliveries
      BY <3>1, <3>2, ElementOfSeq
    <3> QED BY <3>2, <3>3 DEF Deliveries
  <2>5. delivered[r][i] = delivered[s][j]
    <3>1. /\ \A m \in WritesOf(delivered[r], k) :
               \E n \in WritesOf(delivered[s], k) : delivered[s][n] = delivered[r][m]
          /\ \A m \in WritesOf(delivered[s], k) :
               \E n \in WritesOf(delivered[r], k) : delivered[r][n] = delivered[s][m]
      OBVIOUS
    <3> QED BY <2>2, <2>3, <2>4, <3>1, SameLast
  <2>6. leveldb_get(r, k) = Effect(delivered[r][i].value)
        /\ leveldb_get(s, k) = Effect(delivered[s][j].value)
    BY <2>2, <2>3 DEF LevelDBInv, StoreInv
  <2> QED BY <2>5, <2>6
<1> QED BY <1>1, LevelDBInvariance, LevelDBTypeCorrect, PTL

(***************************************************************************)
(* A client that is answered by a replica that had applied the newest      *)
(* write of the key reads that write, which was no DELETE.                 *)
(***************************************************************************)
THEOREM GetSeesLatestTheorem == Spec => []GetSeesLatest
<1>1. LevelDBInv => GetSeesLatest
  <2> SUFFICES ASSUME LevelDBInv, NEW a \in answers, NEW j \in DOMAIN a.after,
                      NEW n \in DOMAIN slots, a.op = "GET", a.clean,
                      LastWrite(a.after, a.key, j), a.after[j].inst + 1 = n
               PROVE  /\ slots[n].value.op = "PUT"
                      /\ a.value = IF slots[n].value.value # Empty THEN slots[n].value.value
                                   ELSE slots[a.inst + 1].value.value
    BY DEF GetSeesLatest
  <2>1. AnswerInv(a)
    BY DEF LevelDBInv, AnswersInv
  <2>2. a.after[j].value = slots[n].value
    BY <2>1 DEF AnswerInv
  <2> QED BY <2>1, <2>2 DEF AnswerInv
<1> QED BY <1>1, LevelDBInvariance, PTL

(***************************************************************************)
(* A GET of a missing key ends every replica that runs the slots in order. *)
(***************************************************************************)
THEOREM SameFateTheorem == Spec => []SameFate
<1>1. LevelDBInv => SameFate
  BY DEF LevelDBInv
<1> QED BY <1>1, LevelDBInvariance, PTL

(***************************************************************************)
(* No instance is answered twice while no replica is restarted, none is    *)
(* answered whose turn is nobody's or whose LevelDB call failed where the  *)
(* turn was, and one that the replica in turn applied is answered.         *)
(***************************************************************************)
THEOREM AnsweredOnceTheorem == Spec => []AnsweredOnce
<1>1. TypeOK /\ LevelDBInv => AnsweredOnce
  <2> SUFFICES ASSUME TypeOK, LevelDBInv, restarts = 0 PROVE AnsweredOnce
    BY DEF AnsweredOnce
  <2>1. \A a, b \in answers : a.inst = b.inst => a = b
    BY DEF LevelDBInv, OneAnswer
  <2>2. ASSUME NEW k \in DOMAIN slots, NEW a \in answers, a.inst = k - 1
        PROVE  /\ (k - 1) % NumAcceptors \in Replicas
               /\ k - 1 \notin failed[(k - 1) % NumAcceptors]
    <3>1. a.replica \in Replicas
      BY DEF TypeOK, Answers
    <3>2. my_turn(a.replica, a.inst)
      BY DEF LevelDBInv, AnswersInv, AnswerInv
    <3>3. (k - 1) % NumAcceptors = a.replica
      BY <2>2, <3>2 DEF my_turn
    <3>4. k - 1 \notin failed[a.replica]
      BY <2>2, <3>1 DEF LevelDBInv, FailuresSilent
    <3> QED BY <3>1, <3>3, <3>4
  <2>3. ASSUME NEW k \in DOMAIN slots, (k - 1) % NumAcceptors \in Replicas,
               Applied((k - 1) % NumAcceptors, k - 1), slots[k].value.op # "other"
        PROVE  \E a \in answers : a.inst = k - 1
    <3> DEFINE r == (k - 1) % NumAcceptors
    <3>1. r \in Replicas /\ my_turn(r, k - 1) /\ Applied(r, k - 1)
      BY <2>3 DEF my_turn
    <3> HIDE DEF r
    <3>2. PICK j \in DOMAIN delivered[r] : delivered[r][j].inst = k - 1
      BY <3>1 DEF Applied
    <3>3. up[r] /\ k - 1 \notin failed[r]
      BY <3>1 DEF Applied
    <3>4. delivered[r][j].value = slots[(k - 1) + 1].value
      BY <3>1, <3>2 DEF TypeOK
    <3>5. (k - 1) + 1 = k
      BY SlotFacts
    <3> QED BY <2>3, <3>1, <3>2, <3>3, <3>4, <3>5 DEF LevelDBInv, TurnsAnswered
  <2> QED BY <2>1, <2>2, <2>3 DEF AnsweredOnce
<1> QED BY <1>1, LevelDBInvariance, LevelDBTypeCorrect, PTL

=============================================================================
