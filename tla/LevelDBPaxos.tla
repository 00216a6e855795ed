---------------------------- MODULE LevelDBPaxos ----------------------------
(***************************************************************************)
(* app/leveldb_paxos.c: replicas of a key-value store, each the            *)
(* application of a learner with a LevelDB in /tmp/testdb.  The learners   *)
(* are those of Sequencer, which the deployment implements: a replica is   *)
(* given the slots in any order, with gaps, and after a restart again.     *)
(* The database stays over a restart; what was delivered is forgotten.     *)
(*                                                                         *)
(* The last 8 bytes of struct request do not fit the 32 bytes of a Paxos   *)
(* value: of the 6 bytes of a client's value 3 arrive, and they are what   *)
(* is called a value here.  The other 3 are read past the end of the       *)
(* learner's buffer, stored and sent back; nothing depends on them.        *)
(***************************************************************************)
EXTENDS Naturals, SequencesExt

CONSTANTS
  NumAcceptors,
  Replicas,      \* node ids of the replicas
  Unstable,      \* those that may be restarted or whose LevelDB may fail
  Submissions,   \* requests: [client, value : [op, key, value]]
  Empty,         \* a value that begins with a NUL byte
  Missing,       \* the null pointer that leveldb_get returns for no entry
  MaxSlots,      \* bound: requests that are given an instance
  MaxFailures,   \* bound: LevelDB calls that fail
  MaxRestarts    \* bound: processes that are started again

ASSUME LevelDBPaxosAssumption ==
  /\ NumAcceptors \in Nat \ {0} /\ Replicas \subseteq Nat
  /\ Unstable \subseteq Replicas
  /\ \A s \in Submissions : s.value.value # Missing
  /\ {MaxSlots, MaxFailures, MaxRestarts} \subseteq Nat

VARIABLES
  slots, delivered,  \* the sequencer's
  log,        \* per replica, LevelDB's log: the database after each write
  up,         \* FALSE once the process was killed by its null pointer
  answers,    \* the answers sent; `after' is what was delivered before
  failed,     \* history, per replica: the instances whose call failed
  failures, restarts   \* history: how often each happened

vars == <<slots, delivered, log, up, answers, failed, failures, restarts>>

Sequence == INSTANCE Sequencer WITH answers <- {}

Requests == {s.value : s \in Submissions}
Keys == {q.key : q \in Requests}
Values == {q.value : q \in Requests}

IsWrite(q, k) == q.op \in {"PUT", "DELETE"} /\ q.key = k

\* What a key maps to, Missing if it has no entry.
Databases == [Keys -> Values \cup {Missing}]

Deliveries == [inst : Nat, value : Requests]

Answers ==
  [inst : Nat, op : {q.op : q \in Requests}, key : Keys, value : Values,
   replica : Replicas, after : Seq(Deliveries), clean : BOOLEAN]

TypeOK ==
  /\ slots \in Seq(Submissions) /\ Len(slots) <= MaxSlots
  /\ delivered \in [Replicas -> Seq(Deliveries)]
  /\ \A r \in Replicas : \A j \in DOMAIN delivered[r] :
       LET d == delivered[r][j]
       IN d.inst + 1 \in DOMAIN slots /\ d.value = slots[d.inst + 1].value
  /\ log \in [Replicas -> Seq(Databases) \ {<< >>}]
  /\ up \in [Replicas -> BOOLEAN]
  /\ answers \subseteq Answers
  /\ failed \in [Replicas -> SUBSET Nat]
  /\ failures \in 0 .. MaxFailures /\ restarts \in 0 .. MaxRestarts

Init ==
  /\ Sequence!Init
  /\ log = [r \in Replicas |-> <<[k \in Keys |-> Missing]>>]
  /\ up = [r \in Replicas |-> TRUE]
  /\ answers = {}
  /\ failed = [r \in Replicas |-> {}]
  /\ failures = 0 /\ restarts = 0

\* The coordinator gives a request the next instance.
Assign ==
  /\ Len(slots) < MaxSlots
  /\ Sequence!Assign
  /\ UNCHANGED <<log, up, answers, failed, failures, restarts>>

-----------------------------------------------------------------------------
(* LevelDB *)

leveldb_get(r, k) == Last(log[r])[k]

leveldb_write(r, k, v) ==
  log' = [log EXCEPT ![r] = Append(@, [Last(@) EXCEPT ![k] = v])]

-----------------------------------------------------------------------------
(* deliver *)

my_turn(r, inst) == inst % NumAcceptors = r

\* send_msg to the client, if it is this replica's turn.
Reply(r, k, v) ==
  LET q == slots[k].value
  IN answers' = answers \cup
       IF my_turn(r, k - 1)
       THEN {[inst |-> k - 1, op |-> q.op, key |-> q.key, value |-> v,
              replica |-> r, after |-> delivered[r], clean |-> failed[r] = {}]}
       ELSE {}

\* Replica r is called with slot k.
Called(r, k, ops) ==
  /\ up[r]
  /\ k \in DOMAIN slots
  /\ slots[k].value.op \in ops
  /\ Sequence!Deliver(r, k)
  /\ UNCHANGED restarts

\* Mutant: only the replica whose turn it is applies the request.
deliverPutInTurn(r, k) ==
  LET q == slots[k].value
  IN /\ Called(r, k, {"PUT"})
     /\ IF my_turn(r, k - 1)
        THEN leveldb_write(r, q.key, q.value) ELSE UNCHANGED log
     /\ Reply(r, k, q.value)
     /\ UNCHANGED <<up, failed, failures>>

deliverPut(r, k) ==
  /\ Called(r, k, {"PUT"})
  /\ leveldb_write(r, slots[k].value.key, slots[k].value.value)
  /\ Reply(r, k, slots[k].value.value)
  /\ UNCHANGED <<up, failed, failures>>

\* Mutant: a null pointer is sent like a value.
deliverGetNull(r, k) ==
  /\ Called(r, k, {"GET"})
  /\ Reply(r, k, leveldb_get(r, slots[k].value.key))
  /\ UNCHANGED <<log, up, failed, failures>>

\* Mutant: the value that was read is not copied into the answer.
deliverGetEcho(r, k) ==
  /\ Called(r, k, {"GET"})
  /\ IF leveldb_get(r, slots[k].value.key) = Missing
     THEN up' = [up EXCEPT ![r] = FALSE] /\ UNCHANGED answers
     ELSE Reply(r, k, slots[k].value.value) /\ UNCHANGED up
  /\ UNCHANGED <<log, failed, failures>>

(***************************************************************************)
(* A value that begins with NUL is taken for none, and the request is sent *)
(* back as it came.  Without an entry there is no value to look at, and    *)
(* the process dies.                                                       *)
(***************************************************************************)
deliverGet(r, k) ==
  LET q == slots[k].value
      return_val == leveldb_get(r, q.key)
  IN /\ Called(r, k, {"GET"})
     /\ \/ /\ return_val = Missing
           /\ up' = [up EXCEPT ![r] = FALSE]
           /\ UNCHANGED answers
        \/ /\ return_val # Missing
           /\ Reply(r, k, IF return_val # Empty THEN return_val ELSE q.value)
           /\ UNCHANGED up
     /\ UNCHANGED <<log, failed, failures>>

\* Mutant: a DELETE blanks the value and leaves the entry.
deliverDeleteBlank(r, k) ==
  /\ Called(r, k, {"DELETE"})
  /\ leveldb_write(r, slots[k].value.key, Empty)
  /\ Reply(r, k, slots[k].value.value)
  /\ UNCHANGED <<up, failed, failures>>

deliverDelete(r, k) ==
  /\ Called(r, k, {"DELETE"})
  /\ leveldb_write(r, slots[k].value.key, Missing)
  /\ Reply(r, k, slots[k].value.value)
  /\ UNCHANGED <<up, failed, failures>>

\* INVALID_OP: no answer.
deliverOther(r, k) ==
  /\ Called(r, k, {"other"})
  /\ UNCHANGED <<log, up, answers, failed, failures>>

\* Mutant: err is not looked at before the answer is sent.
deliverFailsAnswered(r, k) ==
  /\ r \in Unstable
  /\ failures < MaxFailures
  /\ failures' = failures + 1
  /\ Called(r, k, {"PUT", "GET", "DELETE"})
  /\ failed' = [failed EXCEPT ![r] = @ \cup {k - 1}]
  /\ Reply(r, k, slots[k].value.value)
  /\ UNCHANGED <<log, up>>

\* FAILED: the LevelDB call reports an error.  Nothing is written or
\* answered, and the learner does not call again.
deliverFails(r, k) ==
  /\ r \in Unstable
  /\ failures < MaxFailures
  /\ failures' = failures + 1
  /\ Called(r, k, {"PUT", "GET", "DELETE"})
  /\ failed' = [failed EXCEPT ![r] = @ \cup {k - 1}]
  /\ UNCHANGED <<log, up, answers>>

deliver(r, k) ==
  \/ deliverPut(r, k) \/ deliverGet(r, k) \/ deliverDelete(r, k)
  \/ deliverOther(r, k) \/ deliverFails(r, k)

(***************************************************************************)
(* The process ends and main runs again: application_new opens the         *)
(* database as it was left, make_learner starts with an empty table.       *)
(* Writes are not synced, so that the last of them are gone if the whole   *)
(* machine went down.                                                      *)
(***************************************************************************)
Restart(r) ==
  /\ r \in Unstable
  /\ restarts < MaxRestarts
  /\ restarts' = restarts + 1
  /\ Sequence!Forget(r)
  /\ \E n \in 1 .. Len(log[r]) : log' = [log EXCEPT ![r] = SubSeq(@, 1, n)]
  /\ up' = [up EXCEPT ![r] = TRUE]
  /\ failed' = [failed EXCEPT ![r] = {}]
  /\ UNCHANGED <<answers, failures>>

Next ==
  \/ Assign
  \/ \E r \in Replicas, k \in 1 .. MaxSlots : deliver(r, k)
  \/ \E r \in Replicas : Restart(r)

Spec == Init /\ [][Next]_vars

-----------------------------------------------------------------------------
\* The positions in d of the deliveries that wrote k.
WritesOf(d, k) == {j \in DOMAIN d : IsWrite(d[j].value, k)}

\* They were delivered in the order of their instances.
InOrder(d, k) == \A i, j \in WritesOf(d, k) : i < j => d[i].inst < d[j].inst

\* The delivery d[j] is the last that wrote k.
LastWrite(d, k, j) == j \in WritesOf(d, k) /\ \A i \in WritesOf(d, k) : i <= j

\* Slot n is the newest before slot m that writes k.
NewestBefore(n, m, k) ==
  /\ n \in 1 .. m - 1 /\ IsWrite(slots[n].value, k)
  /\ \A i \in n + 1 .. m - 1 : ~IsWrite(slots[i].value, k)

(***************************************************************************)
(* Replicas apply instances in the order their majorities complete, yet    *)
(* the order of other keys' writes and of GETs, gaps, restarts and lost    *)
(* writes do not matter: two replicas that since they were started applied *)
(* the same writes of a key in the order of their instances, without a     *)
(* failed call, hold the same for it.                                      *)
(***************************************************************************)
SameWritesConverge ==
  \A r, s \in Replicas, k \in Keys :
    LET Written(l) == {delivered[l][j] : j \in WritesOf(delivered[l], k)}
    IN /\ InOrder(delivered[r], k) /\ InOrder(delivered[s], k)
       /\ Written(r) = Written(s) /\ Written(r) # {}
       /\ failed[r] = {} /\ failed[s] = {}
       => leveldb_get(r, k) = leveldb_get(s, k)

(***************************************************************************)
(* What clients are told: a GET is answered with the newest PUT before it, *)
(* if that was the last write of the key that its replica applied, and not *)
(* at all if the newest write was a DELETE.  A value that begins with NUL  *)
(* cannot be read back.                                                    *)
(***************************************************************************)
GetSeesLatest ==
  \A a \in answers : \A j \in DOMAIN a.after, n \in DOMAIN slots :
    /\ a.op = "GET" /\ a.clean
    /\ LastWrite(a.after, a.key, j)
    /\ NewestBefore(n, a.inst + 1, a.key)
    /\ a.after[j].inst + 1 = n
    => /\ slots[n].value.op = "PUT"
       /\ a.value = IF slots[n].value.value # Empty THEN slots[n].value.value
                    ELSE slots[a.inst + 1].value.value

\* Whether the GET in slot k finds no entry when the slots are run in order.
Poisonous(k) ==
  /\ slots[k].value.op = "GET"
  /\ \A n \in 1 .. k - 1 :
       NewestBefore(n, k, slots[k].value.key) => slots[n].value.op = "DELETE"

(***************************************************************************)
(* A GET of a missing key ends the process, and replication does not help: *)
(* replicas that run the slots in order and were never restarted all die   *)
(* at the same one, and at no other.                                       *)
(***************************************************************************)
SameFate ==
  restarts = 0 =>
    \A r \in Replicas :
      failed[r] = {} /\ (\A j \in DOMAIN delivered[r] : delivered[r][j].inst = j - 1) =>
        (~up[r] <=> \E k \in 1 .. Len(delivered[r]) : Poisonous(k))

\* Replica r is up and has carried out the request of an instance.
Applied(r, inst) ==
  /\ up[r] /\ inst \notin failed[r]
  /\ \E j \in DOMAIN delivered[r] : delivered[r][j].inst = inst

(***************************************************************************)
(* A client gets one answer or none, and never two that differ, while no   *)
(* replica is restarted: none for an instance whose turn no replica's node *)
(* id is, and none if the LevelDB call of the one whose turn it is failed, *)
(* whatever the other replicas did.  Otherwise it is answered as soon as   *)
(* that replica carried out the request, if the request did not kill it.   *)
(***************************************************************************)
AnsweredOnce ==
  restarts = 0 =>
    /\ \A a, b \in answers : a.inst = b.inst => a = b
    /\ \A k \in DOMAIN slots :
         LET turn == (k - 1) % NumAcceptors
             answered == \E a \in answers : a.inst = k - 1
         IN /\ answered => turn \in Replicas /\ k - 1 \notin failed[turn]
            /\ turn \in Replicas /\ Applied(turn, k - 1)
               /\ slots[k].value.op # "other" => answered

=============================================================================
