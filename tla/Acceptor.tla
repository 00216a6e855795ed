------------------------------- MODULE Acceptor -------------------------------
(***************************************************************************)
(* lib/src/acceptor.c.  An acceptor is a libevent loop with one read       *)
(* callback, on_value, which takes up to vlen datagrams with recvmmsg,     *)
(* handles them one after the other and answers with one sendmmsg.  Here   *)
(* the call is cut at its loop: AcceptorRecv (recvmmsg), one step per      *)
(* datagram, AcceptorSend (sendmmsg and return).                           *)
(*                                                                         *)
(* Reply number k is sent from out_bufs[k], while the reply to datagram i  *)
(* is built in out_bufs[i]: the two agree as long as nothing before i was  *)
(* turned down in this call and nothing was left from an earlier one.      *)
(***************************************************************************)
EXTENDS Config, Sockets, Sequences

CONSTANT Garbage   \* what memory past out_bufs may read as, for a learner

ASSUME GarbageAssumption == Garbage \subseteq Message

VARIABLES
  a_states,    \* states[inst] of each acceptor: rnd, vrnd, paxosval
  a_bufs,      \* the datagrams of the current on_value call
  a_i,         \* its loop index (from 1)
  a_out_bufs,  \* out_bufs, which keeps what earlier calls left in it
  a_count,     \* count_accepted
  a_pc,        \* "wait" in the event loop, "loop" in on_value, "stopped"
  a_sig,       \* SIGTERM: "none", "raised", "last" (see AcceptorRecv)
  accepted     \* history: every <<acceptor, inst, rnd, value>> accepted

acceptorvars == <<a_states, a_bufs, a_i, a_out_bufs, a_count, a_pc, a_sig,
                  accepted>>

A_State == [rnd : Uint16, vrnd : Uint16, paxosval : Paxosval]

AcceptorTypeOK ==
  /\ a_states \in [Acceptors -> [Insts -> A_State]]
  /\ a_bufs \in [Acceptors -> Seq(Message)]
  /\ \A a \in Acceptors : Len(a_bufs[a]) <= Vlen
  /\ a_i \in [Acceptors -> 1 .. Vlen + 1]
  /\ a_out_bufs \in [Acceptors -> [1 .. Vlen -> Message]]
  /\ a_count \in [Acceptors -> Nat]
  /\ a_pc \in [Acceptors -> {"wait", "loop", "stopped"}]
  /\ a_sig \in [Acceptors -> {"none", "raised", "last"}]
  /\ accepted \subseteq Acceptors \X Insts \X Uint16 \X Paxosval

-----------------------------------------------------------------------------
(* acceptor_ctx_new *)

NewStates == [i \in Insts |-> [rnd |-> 0, vrnd |-> 0, paxosval |-> ZeroVal]]
NewBufs   == [k \in 1 .. Vlen |-> ZeroMessage]

AcceptorInit ==
  /\ a_states = [a \in Acceptors |-> NewStates]
  /\ a_bufs = [a \in Acceptors |-> << >>]
  /\ a_i = [a \in Acceptors |-> 1]
  /\ a_out_bufs = [a \in Acceptors |-> NewBufs]
  /\ a_count = [a \in Acceptors |-> 0]
  /\ a_pc = [a \in Acceptors |-> "wait"]
  /\ a_sig = [a \in Acceptors |-> "none"]
  /\ accepted = {}

-----------------------------------------------------------------------------
(* on_value *)

\* Mutant: recvmmsg is given one buffer too many.
BatchesTooLong == UNION {[1 .. n -> to_acceptors] : n \in 1 .. Vlen + 1}

\* The sequences of 1 to Vlen datagrams that one recvmmsg may return.
Batches == UNION {[1 .. n -> to_acceptors] : n \in 1 .. Vlen}

(***************************************************************************)
(* recvmmsg with MSG_WAITFORONE.  raise(SIGTERM) only marks the signal's   *)
(* own event ready: if the socket is readable too, the loop runs on_value  *)
(* once more before the handler that leaves the loop.                      *)
(***************************************************************************)
AcceptorRecv(a, batch) ==
  /\ a_pc[a] = "wait"
  /\ a_sig[a] # "last"
  /\ a_bufs' = [a_bufs EXCEPT ![a] = batch]
  /\ a_i' = [a_i EXCEPT ![a] = 1]
  /\ a_pc' = [a_pc EXCEPT ![a] = "loop"]
  /\ a_sig' = [a_sig EXCEPT ![a] = IF @ = "raised" THEN "last" ELSE @]
  /\ UNCHANGED <<a_states, a_out_bufs, a_count, accepted, netvars>>

\* The datagram of this iteration, after ntohs and ntohl.
Current(a) == unpack(a_bufs[a][a_i[a]])

InLoop(a) == a_pc[a] = "loop" /\ a_i[a] <= Len(a_bufs[a])

\* Mutant: on_value returns without raising the signal.
ReachMaxInstNoSignal(a) ==
  /\ InLoop(a)
  /\ Current(a).inst >= MaxInst
  /\ a_out_bufs' = [a_out_bufs EXCEPT ![a][a_i[a]] = Current(a)]
  /\ a_bufs' = [a_bufs EXCEPT ![a] = << >>]
  /\ a_i' = [a_i EXCEPT ![a] = 1]
  /\ a_pc' = [a_pc EXCEPT ![a] = "wait"]
  /\ UNCHANGED <<a_states, a_count, a_sig, accepted, netvars>>

\* An instance that the table cannot hold: raise(SIGTERM) and return, with
\* the replies built so far neither sent nor forgotten.
ReachMaxInst(a) ==
  /\ InLoop(a)
  /\ Current(a).inst >= MaxInst
  /\ a_out_bufs' = [a_out_bufs EXCEPT ![a][a_i[a]] = Current(a)]
  /\ a_bufs' = [a_bufs EXCEPT ![a] = << >>]
  /\ a_i' = [a_i EXCEPT ![a] = 1]
  /\ a_pc' = [a_pc EXCEPT ![a] = "wait"]
  /\ a_sig' = [a_sig EXCEPT ![a] = IF @ = "none" THEN "raised" ELSE @]
  /\ UNCHANGED <<a_states, a_count, accepted, netvars>>

\* Mutant: the reply is left in host byte order.
AnswerUnpacked(a, reply) ==
  /\ a_out_bufs' = [a_out_bufs EXCEPT ![a][a_i[a]] = reply]
  /\ a_i' = [a_i EXCEPT ![a] = @ + 1]
  /\ a_count' = [a_count EXCEPT ![a] = @ + 1]
  /\ UNCHANGED <<a_bufs, a_pc, a_sig, netvars>>

(***************************************************************************)
(* The end of an iteration that answers: the reply is packed in place and  *)
(* one more entry of out_msgs, out_bufs[count_accepted], will be sent.     *)
(* count_accepted is not compared with vlen; past it, the entry is written *)
(* behind the end of out_msgs and out_iovecs.                              *)
(***************************************************************************)
Answer(a, reply) ==
  /\ a_out_bufs' = [a_out_bufs EXCEPT ![a][a_i[a]] = pack(reply)]
  /\ a_i' = [a_i EXCEPT ![a] = @ + 1]
  /\ a_count' = [a_count EXCEPT ![a] = @ + 1]
  /\ UNCHANGED <<a_bufs, a_pc, a_sig, netvars>>

\* The reply carries the round just promised as vrnd, and goes to the
\* learners like every other reply.
handle_phase1a(a) ==
  LET m == Current(a)
      s == a_states[a][m.inst]
  IN /\ InLoop(a)
     /\ m.inst < MaxInst
     /\ m.msgtype = phase1a
     /\ m.rnd > s.rnd
     /\ a_states' = [a_states EXCEPT ![a][m.inst].rnd = m.rnd]
     /\ Answer(a, [m EXCEPT !.vrnd = m.rnd,
                            !.paxosval = strcpy(@, s.paxosval),
                            !.acptid = a, !.msgtype = phase1b])
     /\ UNCHANGED accepted

\* Mutant: the promise is not looked at.
handle_phase2aAnyRound(a) ==
  LET m == Current(a)
  IN /\ InLoop(a)
     /\ m.inst < MaxInst
     /\ m.msgtype = phase2a
     /\ a_states' = [a_states EXCEPT ![a][m.inst] =
                       [rnd |-> m.rnd, vrnd |-> m.rnd,
                        paxosval |-> strcpy(@.paxosval, m.paxosval)]]
     /\ accepted' = accepted \cup {<<a, m.inst, m.rnd, m.paxosval>>}
     /\ Answer(a, [m EXCEPT !.acptid = a, !.msgtype = phase2b])

handle_phase2a(a) ==
  LET m == Current(a)
      s == a_states[a][m.inst]
  IN /\ InLoop(a)
     /\ m.inst < MaxInst
     /\ m.msgtype = phase2a
     /\ m.rnd >= s.rnd
     /\ a_states' = [a_states EXCEPT ![a][m.inst] =
                       [rnd |-> m.rnd, vrnd |-> m.rnd,
                        paxosval |-> strcpy(@.paxosval, m.paxosval)]]
     /\ accepted' = accepted \cup {<<a, m.inst, m.rnd, m.paxosval>>}
     /\ Answer(a, [m EXCEPT !.acptid = a, !.msgtype = phase2b])

\* res = 0: the datagram stays in out_bufs[i] in host order, unanswered.
Ignore(a) ==
  LET m == Current(a)
  IN /\ InLoop(a)
     /\ m.inst < MaxInst
     /\ m.msgtype = phase1a => m.rnd <= a_states[a][m.inst].rnd
     /\ m.msgtype = phase2a => m.rnd < a_states[a][m.inst].rnd
     /\ a_out_bufs' = [a_out_bufs EXCEPT ![a][a_i[a]] = m]
     /\ a_i' = [a_i EXCEPT ![a] = @ + 1]
     /\ UNCHANGED <<a_states, a_bufs, a_count, a_pc, a_sig, accepted, netvars>>

\* Mutant: count_accepted is not set back to 0.
ReturnKeepsCount(a) ==
  /\ a_pc[a] = "loop"
  /\ a_i[a] > Len(a_bufs[a])
  /\ a_bufs' = [a_bufs EXCEPT ![a] = << >>]
  /\ a_i' = [a_i EXCEPT ![a] = 1]
  /\ a_pc' = [a_pc EXCEPT ![a] = "wait"]
  /\ UNCHANGED <<a_states, a_out_bufs, a_count, a_sig, accepted>>
  /\ UNCHANGED <<to_coordinator, to_acceptors, to_clients>>

\* The end of the call, from the loop's exit on.
Return(a) ==
  /\ a_pc[a] = "loop"
  /\ a_i[a] > Len(a_bufs[a])
  /\ a_count' = [a_count EXCEPT ![a] = 0]
  /\ a_bufs' = [a_bufs EXCEPT ![a] = << >>]
  /\ a_i' = [a_i EXCEPT ![a] = 1]
  /\ a_pc' = [a_pc EXCEPT ![a] = "wait"]
  /\ UNCHANGED <<a_states, a_out_bufs, a_sig, accepted>>
  /\ UNCHANGED <<to_coordinator, to_acceptors, to_clients>>

\* sendmmsg of the first count_accepted entries, if there are any, and return.
AcceptorSend(a) ==
  /\ a_count[a] <= Vlen
  /\ to_learners' = to_learners \cup {a_out_bufs[a][k] : k \in 1 .. a_count[a]}
  /\ Return(a)

(***************************************************************************)
(* The same when entries were written past the arrays.  out_iovecs and     *)
(* out_bufs, allocated behind out_msgs, are overwritten, and the last      *)
(* entries point past out_bufs: any of the buffers may be sent, and        *)
(* anything found in memory.  bufs and states lie out of reach.            *)
(***************************************************************************)
AcceptorSendOverrun(a) ==
  /\ a_count[a] > Vlen
  /\ \E sent \in SUBSET (Garbage \cup {a_out_bufs[a][k] : k \in 1 .. Vlen}) :
       to_learners' = to_learners \cup sent
  /\ Return(a)

\* Or the process does not survive it: sendmmsg fails and on_value exits, or
\* the corrupted heap ends it.
AcceptorCrash(a) ==
  /\ a_pc[a] = "loop"
  /\ a_count[a] > Vlen
  /\ a_pc' = [a_pc EXCEPT ![a] = "stopped"]
  /\ UNCHANGED <<a_states, a_bufs, a_i, a_out_bufs, a_count, a_sig, accepted,
                 netvars>>

-----------------------------------------------------------------------------
\* signal_handler: event_base_loopbreak, for a SIGTERM of its own.
AcceptorStop(a) ==
  /\ a_pc[a] = "wait"
  /\ a_sig[a] # "none"
  /\ a_pc' = [a_pc EXCEPT ![a] = "stopped"]
  /\ UNCHANGED <<a_states, a_bufs, a_i, a_out_bufs, a_count, a_sig, accepted,
                 netvars>>

\* The process ends (a signal, a failed system call, a crash) at any point
\* and is started again with acceptor_ctx_new: nothing was persisted.
AcceptorRestart(a) ==
  /\ a_states' = [a_states EXCEPT ![a] = NewStates]
  /\ a_bufs' = [a_bufs EXCEPT ![a] = << >>]
  /\ a_i' = [a_i EXCEPT ![a] = 1]
  /\ a_out_bufs' = [a_out_bufs EXCEPT ![a] = NewBufs]
  /\ a_count' = [a_count EXCEPT ![a] = 0]
  /\ a_pc' = [a_pc EXCEPT ![a] = "wait"]
  /\ a_sig' = [a_sig EXCEPT ![a] = "none"]
  /\ UNCHANGED <<accepted, netvars>>

AcceptorStep(a) ==
  \/ \E batch \in Batches : AcceptorRecv(a, batch)
  \/ ReachMaxInst(a)
  \/ handle_phase1a(a)
  \/ handle_phase2a(a)
  \/ Ignore(a)
  \/ AcceptorSend(a)
  \/ AcceptorSendOverrun(a)
  \/ AcceptorCrash(a)
  \/ AcceptorStop(a)

=============================================================================
