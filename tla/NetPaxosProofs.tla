---------------------------- MODULE NetPaxosProofs ----------------------------
(***************************************************************************)
(* Proofs about NetPaxos, for any number of acceptors, learners, clients   *)
(* and instances, any batch size and any set of restarting processes; and  *)
(* about the conversions of lib/src/message.c, for every value of the      *)
(* fields.                                                                 *)
(***************************************************************************)
EXTENDS NetPaxos, FiniteSetTheorems, TLAPS

-----------------------------------------------------------------------------
(* Byte order *)

Byte == 0 .. 255

\* A natural number is its low byte and the rest.
LEMMA DivMod256 ==
  ASSUME NEW x \in Nat
  PROVE  \E b \in Byte, y \in Nat : x = b + 256 * y
<1>1. x % 256 \in Byte /\ x \div 256 \in Nat /\ x = (x % 256) + 256 * (x \div 256)
  BY SMT DEF Byte
<1> QED BY <1>1, SMT

\* The bytes of a two-byte field: what htons computes from them.
LEMMA HtonsBytes ==
  ASSUME NEW b0 \in Byte, NEW b1 \in Byte
  PROVE  /\ b0 + 256 * b1 \in Uint16
         /\ htons(b0 + 256 * b1) = b1 + 256 * b0
<1> DEFINE x == b0 + 256 * b1
<1>1. x % 256 = b0
  BY SMT DEF Byte
<1>2. x \div 256 = b1
  BY SMT DEF Byte
<1>3. x \in Uint16
  BY SMT DEF Byte, Uint16
<1> HIDE DEF x
<1>4. htons(x) = b0 * 256 + b1
  BY <1>1, <1>2, SMT DEF htons
<1>5. htons(x) = b1 + 256 * b0
  BY <1>4, SMT DEF Byte
<1> QED BY <1>3, <1>5, SMT DEF x

\* Every two-byte field consists of two bytes.
LEMMA Uint16Bytes ==
  ASSUME NEW x \in Uint16
  PROVE  \E b0, b1 \in Byte : x = b0 + 256 * b1
<1>1. x % 256 \in Byte /\ x \div 256 \in Byte /\ x = (x % 256) + 256 * (x \div 256)
  BY SMT DEF Byte, Uint16
<1> QED BY <1>1

\* htons maps a two-byte field to one, and applied twice changes nothing.
LEMMA HtonsInvolution ==
  ASSUME NEW x \in Uint16
  PROVE  htons(x) \in Uint16 /\ htons(htons(x)) = x
<1>1. PICK b0, b1 \in Byte : x = b0 + 256 * b1
  BY Uint16Bytes
<1>2. htons(x) = b1 + 256 * b0 /\ htons(x) \in Uint16
  BY <1>1, HtonsBytes
<1>3. htons(b1 + 256 * b0) = b0 + 256 * b1
  BY HtonsBytes
<1> QED BY <1>1, <1>2, <1>3

\* htonl, from the four bytes of a field.
LEMMA HtonlBytes ==
  ASSUME NEW b0 \in Byte, NEW b1 \in Byte, NEW b2 \in Byte, NEW b3 \in Byte
  PROVE  htonl(b0 + 256 * b1 + 65536 * b2 + 16777216 * b3)
           = b3 + 256 * b2 + 65536 * b1 + 16777216 * b0
<1> DEFINE x == b0 + 256 * b1 + 65536 * b2 + 16777216 * b3
<1>1. x % 256 = b0
  BY SMT DEF Byte
<1>2. (x \div 256) % 256 = b1
  <2>1. x \div 256 = b1 + 256 * b2 + 65536 * b3
    BY SMT DEF Byte
  <2> QED BY <2>1, SMT DEF Byte
<1>3. (x \div 65536) % 256 = b2
  <2>1. x \div 65536 = b2 + 256 * b3
    BY SMT DEF Byte
  <2> QED BY <2>1, SMT DEF Byte
<1>4. x \div 16777216 = b3
  BY SMT DEF Byte
<1> HIDE DEF x
<1>5. htonl(x) = b0 * 16777216 + b1 * 65536 + b2 * 256 + b3
  BY <1>1, <1>2, <1>3, <1>4, SMT DEF htonl
<1>6. htonl(x) = b3 + 256 * b2 + 65536 * b1 + 16777216 * b0
  BY <1>5, SMT DEF Byte
<1> QED BY <1>6, SMT DEF x

\* Every instance number the coordinator assigns consists of four bytes.
LEMMA Int32Bytes ==
  ASSUME NEW x \in Int32
  PROVE  \E b0, b1, b2, b3 \in Byte :
           x = b0 + 256 * b1 + 65536 * b2 + 16777216 * b3
<1>1. x \in Nat
  BY SMT DEF Int32
<1>2. PICK b0 \in Byte, y \in Nat : x = b0 + 256 * y
  BY <1>1, DivMod256, SMT
<1>3. PICK b1 \in Byte, z \in Nat : y = b1 + 256 * z
  BY DivMod256, SMT
<1>4. PICK b2 \in Byte, b3 \in Nat : z = b2 + 256 * b3
  BY DivMod256, SMT
<1>5. x = b0 + 256 * b1 + 65536 * b2 + 16777216 * b3
  BY <1>2, <1>3, <1>4, SMT DEF Byte
<1>6. b3 \in Byte
  BY <1>5, SMT DEF Byte, Int32
<1> QED BY <1>5, <1>6, SMT

\* htonl applied twice changes nothing: no two instances look alike on the wire.
LEMMA HtonlInvolution ==
  ASSUME NEW x \in Int32
  PROVE  htonl(x) \in Nat /\ htonl(htonl(x)) = x
<1>1. PICK b0, b1, b2, b3 \in Byte :
        x = b0 + 256 * b1 + 65536 * b2 + 16777216 * b3
  BY Int32Bytes, SMT
<1>2. htonl(x) = b3 + 256 * b2 + 65536 * b1 + 16777216 * b0
  BY <1>1, HtonlBytes, SMT
<1>3. htonl(b3 + 256 * b2 + 65536 * b1 + 16777216 * b0) = x
  BY <1>1, HtonlBytes, SMT
<1>4. htonl(x) \in Nat
  BY <1>2, SMT DEF Byte
<1> QED BY <1>2, <1>3, <1>4, SMT

\* htonl of any number is a number.
LEMMA HtonlNat ==
  ASSUME NEW x \in Nat
  PROVE  htonl(x) \in Nat
<1>1. /\ x % 256 \in Nat
      /\ (x \div 256) % 256 \in Nat
      /\ (x \div 65536) % 256 \in Nat
      /\ x \div 16777216 \in Nat
  BY SMT
<1> QED BY <1>1, SMT DEF htonl

\* Zero and the types of messages fit two bytes.
LEMMA Uint16Constants ==
  /\ 0 \in Uint16
  /\ phase0 \in Uint16 /\ phase1a \in Uint16 /\ phase1b \in Uint16
  /\ phase2a \in Uint16 /\ phase2b \in Uint16
  BY SMT DEF Uint16, phase0, phase1a, phase1b, phase2a, phase2b

\* pack and unpack map messages to messages.
LEMMA PackType ==
  ASSUME NEW m \in Message
  PROVE  pack(m) \in Message /\ unpack(m) \in Message
<1>1. /\ htonl(m.inst) \in Nat
      /\ htons(m.rnd) \in Uint16 /\ htons(m.vrnd) \in Uint16
      /\ htons(m.acptid) \in Uint16 /\ htons(m.msgtype) \in Uint16
  BY HtonlNat, HtonsInvolution DEF Message
<1> QED BY <1>1 DEF Message, pack, unpack

(***************************************************************************)
(* unpack undoes pack for every message whose instance is a 31-bit number: *)
(* what one role packs is what the next one reads.                         *)
(***************************************************************************)
THEOREM UnpackPack ==
  ASSUME NEW m \in Message, m.inst \in Int32
  PROVE  unpack(pack(m)) = m
<1>1. /\ htonl(htonl(m.inst)) = m.inst
      /\ htons(htons(m.rnd)) = m.rnd /\ htons(htons(m.vrnd)) = m.vrnd
      /\ htons(htons(m.acptid)) = m.acptid
      /\ htons(htons(m.msgtype)) = m.msgtype
  BY HtonlInvolution, HtonsInvolution DEF Message
<1> QED BY <1>1 DEF Message, pack, unpack

-----------------------------------------------------------------------------
(* Type correctness *)

\* The identities of acceptors fit the field acptid.
LEMMA AcceptorsUint16 ==
  ASSUME NEW a \in Acceptors
  PROVE  a \in Uint16
<1>1. NumAcceptors \in 1 .. 31
  BY ConfigAssumption
<1>2. a \in 0 .. 30
  BY <1>1, SMT DEF Acceptors
<1> QED BY <1>2, SMT DEF Uint16

\* The table index of an instance below MAXINST.
LEMMA InstInRange ==
  ASSUME NEW i \in Nat, i < MaxInst
  PROVE  i \in Insts
  BY ConfigAssumption, SMT DEF Insts, Int32

\* Buffers and tables have their types when they are allocated.
LEMMA InitialTypes ==
  /\ ZeroVal \in Paxosval
  /\ ZeroMessage \in Message
  /\ NewStates \in [Insts -> A_State]
  /\ NewBufs \in [1 .. Vlen -> Message]
  /\ NewLearner \in [Insts -> L_State]
<1>1. ZeroVal \in Paxosval
  BY DEF ZeroVal, Paxosval
<1>2. ZeroMessage \in Message
  BY <1>1, Uint16Constants, SMT DEF ZeroMessage, Message, NoAddr
<1>3. NewStates \in [Insts -> A_State]
  BY <1>1, Uint16Constants, SMT DEF NewStates, A_State
<1>4. NewBufs \in [1 .. Vlen -> Message]
  BY <1>2 DEF NewBufs
<1>5. NewLearner \in [Insts -> L_State]
  BY <1>1, Uint16Constants, SMT DEF NewLearner, L_State
<1> QED BY <1>1, <1>2, <1>3, <1>4, <1>5

\* The request of a client is a message.
LEMMA SubmitType ==
  ASSUME NEW c \in Clients, NEW v \in Requests
  PROVE  /\ [initialize_message(phase2a) EXCEPT !.paxosval = v, !.client = c]
              \in Message
         /\ pack([initialize_message(phase2a) EXCEPT !.paxosval = v, !.client = c])
              \in Message
<1>1. initialize_message(phase2a) \in Message
  BY InitialTypes, Uint16Constants DEF initialize_message, Message
<1>2. c \in Nat /\ v \in Paxosval
  BY ProposerAssumption
<1>3. [initialize_message(phase2a) EXCEPT !.paxosval = v, !.client = c] \in Message
  BY <1>1, <1>2 DEF Message
<1> QED BY <1>3, PackType

\* The datagram under the loop index of an acceptor is a message.
LEMMA CurrentType ==
  ASSUME TypeOK, NEW a \in Acceptors, InLoop(a)
  PROVE  /\ Current(a) \in Message
         /\ a_i[a] \in 1 .. Vlen
         /\ a_bufs[a][a_i[a]] \in Message
<1>1. a_bufs[a] \in Seq(Message) /\ a_i[a] \in 1 .. Vlen + 1
  BY DEF TypeOK, AcceptorTypeOK
<1>2. a_i[a] \in 1 .. Len(a_bufs[a]) /\ a_i[a] \in 1 .. Vlen
  BY <1>1, ConfigAssumption, SMT DEF TypeOK, AcceptorTypeOK, InLoop
<1>3. a_bufs[a][a_i[a]] \in Message
  BY <1>1, <1>2
<1> QED BY <1>2, <1>3, PackType DEF Current

\* strcpy leaves a value.
LEMMA StrcpyType ==
  ASSUME NEW x \in Paxosval, NEW y \in Paxosval
  PROVE  strcpy(x, y) \in Paxosval
  BY DEF strcpy, Paxosval

\* The buffer, index and count of an acceptor that answers keep their types.
LEMMA AnswerType ==
  ASSUME TypeOK, NEW a \in Acceptors, InLoop(a), NEW reply \in Message,
         Answer(a, reply)
  PROVE  /\ a_out_bufs' \in [Acceptors -> [1 .. Vlen -> Message]]
         /\ a_i' \in [Acceptors -> 1 .. Vlen + 1]
         /\ a_count' \in [Acceptors -> Nat]
         /\ UNCHANGED <<a_bufs, a_pc, a_sig>>
         /\ UNCHANGED <<to_coordinator, to_acceptors, to_learners, to_clients>>
<1>1. /\ a_i[a] \in 1 .. Vlen
      /\ pack(reply) \in Message
  BY CurrentType, PackType
<1>2. /\ a_out_bufs \in [Acceptors -> [1 .. Vlen -> Message]]
      /\ a_i \in [Acceptors -> 1 .. Vlen + 1]
      /\ a_count \in [Acceptors -> Nat]
  BY DEF TypeOK, AcceptorTypeOK
<1>3. /\ a_out_bufs' = [a_out_bufs EXCEPT ![a][a_i[a]] = pack(reply)]
      /\ a_i' = [a_i EXCEPT ![a] = @ + 1]
      /\ a_count' = [a_count EXCEPT ![a] = @ + 1]
      /\ UNCHANGED <<a_bufs, a_pc, a_sig>>
      /\ UNCHANGED <<to_coordinator, to_acceptors, to_learners, to_clients>>
  BY DEF Answer, netvars
<1>4. a_out_bufs' \in [Acceptors -> [1 .. Vlen -> Message]]
  BY <1>1, <1>2, <1>3
<1>5. a_i' \in [Acceptors -> 1 .. Vlen + 1]
  BY <1>1, <1>2, <1>3, ConfigAssumption, SMT
<1>6. a_count' \in [Acceptors -> Nat]
  BY <1>2, <1>3
<1> QED BY <1>3, <1>4, <1>5, <1>6

\* The end of a call that sends messages keeps the types.
LEMMA ReturnType ==
  ASSUME TypeOK, NEW a \in Acceptors, Return(a),
         NEW sent, sent \subseteq Message, to_learners' = to_learners \cup sent
  PROVE  /\ AcceptorTypeOK'
         /\ to_learners' \subseteq Message
         /\ UNCHANGED <<to_coordinator, to_acceptors, to_clients>>
<1> USE DEF AcceptorTypeOK
<1>1. AcceptorTypeOK /\ to_learners \subseteq Message
  BY DEF TypeOK
<1>2. a_bufs' \in [Acceptors -> Seq(Message)] /\ a_i' \in [Acceptors -> 1 .. Vlen + 1]
  BY <1>1, ConfigAssumption DEF Return
<1>3. \A b \in Acceptors : Len(a_bufs'[b]) <= Vlen
  BY <1>1, ConfigAssumption DEF Return
<1>4. a_count' \in [Acceptors -> Nat]
  BY <1>1 DEF Return
<1> QED BY <1>1, <1>2, <1>3, <1>4 DEF Return

\* Every step of an acceptor's on_value keeps the types.
LEMMA AcceptorStepType ==
  ASSUME TypeOK, NEW a \in Acceptors, AcceptorStep(a)
  PROVE  /\ AcceptorTypeOK'
         /\ to_learners' \subseteq Message
         /\ UNCHANGED <<to_coordinator, to_acceptors, to_clients>>
<1> USE DEF AcceptorTypeOK, netvars
<1>1. AcceptorTypeOK /\ to_learners \subseteq Message /\ to_acceptors \subseteq Message
  BY DEF TypeOK
<1>2. CASE \E batch \in Batches : AcceptorRecv(a, batch)
  <2>1. PICK batch \in Batches : AcceptorRecv(a, batch)
    BY <1>2
  <2>2. batch \in Seq(Message) /\ Len(batch) <= Vlen
    <3>1. PICK n \in 1 .. Vlen : batch \in [1 .. n -> to_acceptors]
      BY DEF Batches
    <3>2. n \in Nat /\ n <= Vlen
      BY ConfigAssumption
    <3>3. batch \in [1 .. n -> Message]
      BY <1>1, <3>1
    <3>4. batch \in Seq(Message) /\ Len(batch) = n
      BY <3>2, <3>3
    <3> QED BY <3>2, <3>4
  <2>3. a_bufs' \in [Acceptors -> Seq(Message)]
    BY <1>1, <2>1, <2>2 DEF AcceptorRecv
  <2>4. \A b \in Acceptors : Len(a_bufs'[b]) <= Vlen
    BY <1>1, <2>1, <2>2 DEF AcceptorRecv
  <2>5. a_i' \in [Acceptors -> 1 .. Vlen + 1]
    BY <1>1, <2>1, ConfigAssumption DEF AcceptorRecv
  <2> QED BY <1>1, <2>1, <2>3, <2>4, <2>5 DEF AcceptorRecv
<1>3. CASE ReachMaxInst(a)
  <2>1. Current(a) \in Message /\ a_i[a] \in 1 .. Vlen
    BY <1>3, CurrentType DEF ReachMaxInst
  <2>2. a_bufs' \in [Acceptors -> Seq(Message)] /\ a_i' \in [Acceptors -> 1 .. Vlen + 1]
    BY <1>1, <1>3, ConfigAssumption DEF ReachMaxInst
  <2>3. \A b \in Acceptors : Len(a_bufs'[b]) <= Vlen
    BY <1>1, <1>3, ConfigAssumption DEF ReachMaxInst
  <2> QED BY <1>1, <1>3, <2>1, <2>2, <2>3 DEF ReachMaxInst
<1>4. CASE handle_phase1a(a)
  <2> DEFINE m == Current(a)
             s == a_states[a][m.inst]
             reply == [m EXCEPT !.vrnd = m.rnd, !.paxosval = strcpy(@, s.paxosval),
                                !.acptid = a, !.msgtype = phase1b]
  <2>1. /\ InLoop(a) /\ m.inst < MaxInst
        /\ a_states' = [a_states EXCEPT ![a][m.inst].rnd = m.rnd]
        /\ Answer(a, reply)
        /\ UNCHANGED accepted
    BY <1>4 DEF handle_phase1a
  <2>2. m \in Message
    BY <2>1, CurrentType
  <2>3. m.inst \in Insts
    BY <2>1, <2>2, InstInRange DEF Message
  <2>4. s \in A_State
    BY <1>1, <2>3
  <2>5. reply \in Message
    BY <2>2, <2>4, StrcpyType, AcceptorsUint16, Uint16Constants DEF Message, A_State
  <2>6. a_states' \in [Acceptors -> [Insts -> A_State]]
    <3>1. m.rnd \in Uint16
      BY <2>2 DEF Message
    <3>2. [s EXCEPT !.rnd = m.rnd] \in A_State
      BY <2>4, <3>1 DEF A_State
    <3>3. a_states' = [a_states EXCEPT ![a][m.inst] = [s EXCEPT !.rnd = m.rnd]]
      BY <1>1, <2>1, <2>3
    <3> HIDE DEF m, s
    <3> QED BY <1>1, <2>3, <3>2, <3>3
  <2> HIDE DEF reply, m, s
  <2> QED BY <1>1, <2>1, <2>5, <2>6, AnswerType
<1>5. CASE handle_phase2a(a)
  <2> DEFINE m == Current(a)
             s == a_states[a][m.inst]
             reply == [m EXCEPT !.acptid = a, !.msgtype = phase2b]
  <2>1. /\ InLoop(a) /\ m.inst < MaxInst
        /\ a_states' = [a_states EXCEPT ![a][m.inst] =
                          [rnd |-> m.rnd, vrnd |-> m.rnd,
                           paxosval |-> strcpy(@.paxosval, m.paxosval)]]
        /\ Answer(a, reply)
        /\ accepted' = accepted \cup {<<a, m.inst, m.rnd, m.paxosval>>}
    BY <1>5 DEF handle_phase2a
  <2>2. m \in Message
    BY <2>1, CurrentType
  <2>3. m.inst \in Insts
    BY <2>1, <2>2, InstInRange DEF Message
  <2>4. s \in A_State
    BY <1>1, <2>3
  <2>5. reply \in Message
    BY <2>2, AcceptorsUint16, Uint16Constants DEF Message
  <2>6. [rnd |-> m.rnd, vrnd |-> m.rnd,
         paxosval |-> strcpy(s.paxosval, m.paxosval)] \in A_State
    BY <2>2, <2>4, StrcpyType DEF Message, A_State
  <2>7. a_states' \in [Acceptors -> [Insts -> A_State]]
    BY <1>1, <2>1, <2>3, <2>6
  <2>8. accepted' \subseteq Acceptors \X Insts \X Uint16 \X Paxosval
    BY <1>1, <2>1, <2>2, <2>3 DEF Message
  <2> HIDE DEF reply, m, s
  <2> QED BY <1>1, <2>1, <2>5, <2>7, <2>8, AnswerType
<1>6. CASE Ignore(a)
  <2>1. Current(a) \in Message /\ a_i[a] \in 1 .. Vlen
    BY <1>6, CurrentType DEF Ignore
  <2>2. a_i' \in [Acceptors -> 1 .. Vlen + 1]
    BY <1>1, <1>6, <2>1, ConfigAssumption DEF Ignore
  <2> QED BY <1>1, <1>6, <2>1, <2>2 DEF Ignore
<1>7. CASE AcceptorSend(a)
  <2> DEFINE sent == {a_out_bufs[a][k] : k \in 1 .. a_count[a]}
  <2>1. a_count[a] \in Nat /\ a_count[a] <= Vlen
    BY <1>1, <1>7 DEF AcceptorSend
  <2>2. \A k \in 1 .. a_count[a] : a_out_bufs[a][k] \in Message
    BY <1>1, <2>1, ConfigAssumption
  <2>3. sent \subseteq Message
    BY <2>2
  <2>4. to_learners' = to_learners \cup sent /\ Return(a)
    BY <1>7 DEF AcceptorSend
  <2> HIDE DEF sent
  <2> QED BY <2>3, <2>4, ReturnType
<1>8. CASE AcceptorSendOverrun(a)
  <2>1. PICK sent \in SUBSET (Garbage \cup {a_out_bufs[a][k] : k \in 1 .. Vlen}) :
          to_learners' = to_learners \cup sent
    BY <1>8 DEF AcceptorSendOverrun
  <2>2. \A k \in 1 .. Vlen : a_out_bufs[a][k] \in Message
    BY <1>1
  <2>3. sent \subseteq Message
    BY <2>1, <2>2, GarbageAssumption
  <2>4. Return(a)
    BY <1>8 DEF AcceptorSendOverrun
  <2> QED BY <2>1, <2>3, <2>4, ReturnType
<1>9. CASE AcceptorCrash(a)
  BY <1>1, <1>9 DEF AcceptorCrash
<1>10. CASE AcceptorStop(a)
  BY <1>1, <1>10 DEF AcceptorStop
<1> QED BY <1>2, <1>3, <1>4, <1>5, <1>6, <1>7, <1>8, <1>9, <1>10 DEF AcceptorStep

\* The mask has a bit for every acceptor id.
LEMMA BitType ==
  ASSUME NEW m \in Message
  PROVE  bit(m) \in 0 .. 31
<1>1. ASSUME NEW x \in Nat
      PROVE  x % 32 \in 0 .. 31
  BY <1>1, SMT
<1>2. ASSUME NEW x \in Uint16
      PROVE  x \in Nat
  BY <1>2, SMT DEF Uint16
<1>3. m.acptid \in Uint16
  BY DEF Message
<1> QED BY <1>1, <1>2, <1>3, Zenon DEF bit

\* What a learner does with a datagram keeps the types.
LEMMA LearnerReceiveType ==
  ASSUME TypeOK, NEW l \in Learners, NEW w \in to_learners, LearnerReceive(l, w)
  PROVE  /\ LearnerTypeOK'
         /\ to_clients' \subseteq Response
         /\ UNCHANGED <<to_coordinator, to_acceptors, to_learners>>
<1> DEFINE m == unpack(w)
<1>1. /\ l_states \in [Learners -> [Insts -> L_State]]
      /\ l_up \in [Learners -> BOOLEAN]
      /\ log \in [Learners -> Seq(Delivery)]
      /\ to_clients \subseteq Response
  BY DEF TypeOK, LearnerTypeOK
<1>2. m \in Message
  BY PackType DEF TypeOK
<1>3. /\ m.inst \in Nat /\ m.rnd \in Uint16 /\ m.acptid \in Uint16
      /\ m.paxosval \in Paxosval /\ m.client \in Nat /\ bit(m) \in 0 .. 31
  BY <1>2, BitType DEF Message
<1>4. UNCHANGED <<to_coordinator, to_acceptors, to_learners>>
  BY DEF LearnerReceive
<1>5. CASE LearnerReachMaxInst(l, m)
  BY <1>1, <1>4, <1>5 DEF LearnerReachMaxInst, LearnerTypeOK
<1>6. CASE m.inst < MaxInst /\ CountVote(l, m)
  <2> DEFINE s == l_states[l][m.inst]
             t == [rnd |-> s.rnd, count |-> s.count + 1,
                   from |-> s.from \cup {bit(m)},
                   finished |-> s.count + 1 = maj, paxosval |-> m.paxosval]
  <2>1. m.inst \in Insts
    BY <1>3, <1>6, InstInRange
  <2>2. s \in L_State
    BY <1>1, <2>1
  <2>3. s.count + 1 \in Nat /\ s.rnd \in Uint16 /\ s.from \in SUBSET (0 .. 31)
    BY <2>2 DEF L_State
  <2>4. t \in L_State
    BY <1>3, <2>3 DEF L_State
  <2>5. l_states' = [l_states EXCEPT ![l][m.inst] = t] /\ UNCHANGED l_up
    BY <1>6 DEF CountVote
  <2>6. log' \in [Learners -> Seq(Delivery)] /\ to_clients' \subseteq Response
    <3>1. CASE deliver(l, m)
      <4>1. [inst |-> m.inst, value |-> m.paxosval] \in Delivery
        BY <1>3, <2>1 DEF Delivery
      <4>2. log' = [log EXCEPT ![l] =
                      Append(log[l], [inst |-> m.inst, value |-> m.paxosval])]
        BY <3>1 DEF deliver
      <4>3. Append(log[l], [inst |-> m.inst, value |-> m.paxosval]) \in Seq(Delivery)
        BY <1>1, <4>1
      <4>4. [client |-> m.client, inst |-> m.inst, value |-> m.paxosval] \in Response
        BY <1>3, <2>1 DEF Response
      <4>5. log' \in [Learners -> Seq(Delivery)]
        BY <1>1, <4>2, <4>3
      <4> QED BY <1>1, <3>1, <4>4, <4>5 DEF deliver
    <3>2. CASE UNCHANGED <<log, to_clients>>
      BY <1>1, <3>2
    <3> QED BY <1>6, <3>1, <3>2 DEF CountVote
  <2> HIDE DEF t
  <2>7. l_states' \in [Learners -> [Insts -> L_State]]
    BY <1>1, <2>1, <2>4, <2>5
  <2> QED BY <1>1, <1>4, <2>5, <2>6, <2>7 DEF LearnerTypeOK
<1>7. CASE m.inst < MaxInst /\ HigherRound(l, m)
  <2> DEFINE s == l_states[l][m.inst]
             t == [rnd |-> m.rnd, count |-> 1, from |-> s.from \cup {bit(m)},
                   finished |-> FALSE, paxosval |-> strcpy(s.paxosval, m.paxosval)]
  <2>1. m.inst \in Insts
    BY <1>3, <1>7, InstInRange
  <2>2. s \in L_State
    BY <1>1, <2>1
  <2>3. s.from \in SUBSET (0 .. 31) /\ s.paxosval \in Paxosval
    BY <2>2 DEF L_State
  <2>4. t \in L_State
    BY <1>3, <2>3, StrcpyType DEF L_State
  <2>5. /\ l_states' = [l_states EXCEPT ![l][m.inst] = t]
        /\ UNCHANGED <<log, to_clients, l_up>>
    BY <1>7 DEF HigherRound
  <2> HIDE DEF t
  <2> QED BY <1>1, <1>4, <2>1, <2>4, <2>5 DEF LearnerTypeOK
<1> QED BY <1>5, <1>6, <1>7 DEF LearnerReceive

\* Every process starts with the types of its allocations.
LEMMA InitType == Init => TypeOK
<1> SUFFICES ASSUME Init PROVE TypeOK
  OBVIOUS
<1>1. /\ to_coordinator \subseteq Message /\ to_acceptors \subseteq Message
      /\ to_learners \subseteq Message /\ to_clients \subseteq Response
  BY DEF Init, NothingSent
<1>2. cur_inst \in 0 .. LastInst
  BY LastInstAssumption DEF Init, CoordinatorInit, Int32
<1>3. AcceptorTypeOK
  <2>1. 1 \in 1 .. Vlen + 1 /\ 0 \in Nat /\ Len(<< >>) <= Vlen
    BY ConfigAssumption
  <2> QED BY <2>1, InitialTypes DEF Init, AcceptorInit, AcceptorTypeOK
<1>4. LearnerTypeOK
  BY InitialTypes DEF Init, LearnerInit, LearnerTypeOK
<1> QED BY <1>1, <1>2, <1>3, <1>4 DEF TypeOK

\* Every step of every role keeps the types.
LEMMA NextType ==
  ASSUME TypeOK, [Next]_vars
  PROVE  TypeOK'
<1>1. CASE ProposerNext
  <2>1. PICK c \in Clients, v \in Requests : submit(c, v)
    BY <1>1 DEF ProposerNext
  <2>2. to_coordinator' \subseteq Message
    BY <2>1, SubmitType DEF submit, TypeOK
  <2>3. /\ UNCHANGED <<to_acceptors, to_learners, to_clients>>
        /\ UNCHANGED <<cur_inst, acceptorvars, learnervars>>
    BY <1>1, <2>1 DEF ProposerNext, submit
  <2> QED BY <2>2, <2>3
          DEF TypeOK, AcceptorTypeOK, LearnerTypeOK, acceptorvars, learnervars
<1>2. CASE CoordinatorNext
  <2>1. cur_inst' \in 0 .. LastInst
    BY <1>2, LastInstAssumption
       DEF CoordinatorNext, CoordinatorOnValue, TypeOK, Int32
  <2>2. htonl(cur_inst) \in Nat
    BY HtonlNat DEF TypeOK
  <2>3. to_acceptors' \subseteq Message
    <3>1. PICK w \in to_coordinator :
            to_acceptors' = to_acceptors \cup {[w EXCEPT !.inst = htonl(cur_inst)]}
      BY <1>2 DEF CoordinatorNext, CoordinatorOnValue
    <3>2. [w EXCEPT !.inst = htonl(cur_inst)] \in Message
      BY <2>2 DEF TypeOK, Message
    <3> QED BY <3>1, <3>2 DEF TypeOK
  <2>4. /\ UNCHANGED <<to_coordinator, to_learners, to_clients>>
        /\ UNCHANGED <<acceptorvars, learnervars>>
    BY <1>2 DEF CoordinatorNext, CoordinatorOnValue
  <2> QED BY <2>1, <2>3, <2>4
          DEF TypeOK, AcceptorTypeOK, LearnerTypeOK, acceptorvars, learnervars
<1>3. ASSUME NEW a \in Acceptors, AcceptorNext(a)
      PROVE  TypeOK'
  <2>1. UNCHANGED <<cur_inst, learnervars>>
    BY <1>3 DEF AcceptorNext
  <2>2. CASE AcceptorStep(a)
    BY <2>1, <2>2, AcceptorStepType DEF TypeOK, LearnerTypeOK, learnervars
  <2>3. CASE AcceptorRestart(a)
    <3>1. 1 \in 1 .. Vlen + 1 /\ 0 \in Nat /\ Len(<< >>) <= Vlen
      BY ConfigAssumption
    <3>2. AcceptorTypeOK'
      BY <2>3, <3>1, InitialTypes DEF TypeOK, AcceptorRestart, AcceptorTypeOK
    <3> QED BY <2>1, <2>3, <3>2
            DEF AcceptorRestart, TypeOK, LearnerTypeOK, learnervars, netvars
  <2> QED BY <1>3, <2>2, <2>3 DEF AcceptorNext
<1>4. ASSUME NEW l \in Learners, LearnerNext(l)
      PROVE  TypeOK'
  <2>1. UNCHANGED <<cur_inst, acceptorvars>>
    BY <1>4 DEF LearnerNext
  <2>2. CASE LearnerOnValue(l)
    <3>1. PICK w \in to_learners : LearnerReceive(l, w)
      BY <2>2 DEF LearnerOnValue
    <3> QED BY <2>1, <3>1, LearnerReceiveType
            DEF TypeOK, AcceptorTypeOK, acceptorvars
  <2>3. CASE LearnerRestart(l)
    <3>1. LearnerTypeOK'
      BY <2>3, InitialTypes DEF TypeOK, LearnerRestart, LearnerTypeOK
    <3> QED BY <2>1, <2>3, <3>1
            DEF LearnerRestart, TypeOK, AcceptorTypeOK, acceptorvars, netvars
  <2> QED BY <1>4, <2>2, <2>3 DEF LearnerNext
<1>5. CASE UNCHANGED vars
  BY <1>5 DEF vars, netvars, acceptorvars, learnervars, TypeOK, AcceptorTypeOK,
              LearnerTypeOK
<1> QED BY <1>1, <1>2, <1>3, <1>4, <1>5 DEF Next

(***************************************************************************)
(* Type correctness of the whole deployment, for every configuration and   *)
(* whatever an acceptor sends when it wrote past its arrays: the tables    *)
(* are indexed within MAXINST, the loop within VLEN, and what reaches the  *)
(* applications and clients are instances in the tables.                   *)
(***************************************************************************)
THEOREM TypeCorrect == Spec => []TypeOK
<1>1. TypeOK /\ [Next]_vars => TypeOK'
  BY NextType
<1> QED BY <1>1, InitType, PTL DEF Spec

=============================================================================
