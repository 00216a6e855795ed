----------------------------- MODULE ClosedLoop -----------------------------
(***************************************************************************)
(* app/cliapp.c on lib/src/proposer.c: a client that keeps `outstanding'   *)
(* requests under way.  It sends that many, sends one more for every       *)
(* response, and after a silence sends `outstanding' copies of the last    *)
(* request it sent.  Requests are told apart by their request_id, which    *)
(* comes back in the response.                                             *)
(*                                                                         *)
(* app/udp_client.c does the same with batches: VLEN requests at the start *)
(* and after a second of silence, and as many as there were responses in   *)
(* one recvmmsg.  Its requests are all alike.                              *)
(*                                                                         *)
(* The rest of the deployment is seen from the client: a service that      *)
(* answers every request that reaches it, if every replica answers then    *)
(* more than once, over a network that loses and duplicates datagrams.     *)
(***************************************************************************)
EXTENDS Naturals, FiniteSets, Bags

CONSTANTS
  Outstanding,    \* the third argument of cliapp; VLEN for udp_client
  MaxLosses,      \* bound: datagrams lost
  MaxDups,        \* bound: datagrams duplicated and answers beyond the first
  MaxEarly        \* bound: timeouts while something is still under way

ASSUME ClosedLoopAssumption ==
  /\ Outstanding \in Nat \ {0}
  /\ MaxLosses \in Nat /\ MaxDups \in Nat /\ MaxEarly \in Nat

VARIABLES
  program,      \* the client that runs: "cliapp" or "udp_client"
  i,            \* main's loop index: requests sent at the start
  request_id,   \* app_ctx.request_id
  datagram,     \* the request_id in ctx->datagram, the last one sent
  has_timeout,  \* SECOND or MICROSECOND is set in the configuration file
  armed,        \* whether the read timeout of ev_recv is pending
  requests,     \* bag of the requests under way, by request_id
  responses,    \* bag of the responses under way, by request_id
  lost, dups, early, retries   \* history: how often each happened

client == <<program, i, request_id, datagram, has_timeout, armed>>
history == <<lost, dups, early, retries>>
vars == <<client, requests, responses, history>>

\* A bag of n > 0 copies of e.
Copies(n, e) == [x \in {e} |-> n]

CopiesOf(e, B) == IF BagIn(e, B) THEN B[e] ELSE 0

\* The datagrams in a bag, one for each copy.
Datagrams(B) == UNION {{e} \X (1 .. B[e]) : e \in BagToSet(B)}

UnderWay == Cardinality(Datagrams(requests)) + Cardinality(Datagrams(responses))

TypeOK ==
  /\ program \in {"cliapp", "udp_client"}
  /\ i \in 0 .. Outstanding
  /\ request_id \in Nat /\ datagram \in Nat
  /\ has_timeout \in BOOLEAN /\ armed \in BOOLEAN
  /\ IsABag(requests) /\ BagToSet(requests) \subseteq Nat
  /\ IsABag(responses) /\ BagToSet(responses) \subseteq Nat
  /\ lost \in 0 .. MaxLosses /\ dups \in 0 .. MaxDups /\ early \in 0 .. MaxEarly
  /\ retries \in Nat

\* new_app_ctx, and make_proposer with the timeout of the configuration file
CliappInit == program = "cliapp" /\ has_timeout \in BOOLEAN

\* client_state_new; the timeout is a second
UdpInit == program = "udp_client" /\ has_timeout = TRUE

Init ==
  /\ CliappInit \/ UdpInit
  /\ i = 0 /\ request_id = 0 /\ datagram = 0 /\ armed = TRUE
  /\ requests = EmptyBag /\ responses = EmptyBag
  /\ lost = 0 /\ dups = 0 /\ early = 0 /\ retries = 0

-----------------------------------------------------------------------------
(* cliapp *)

\* Mutant: a new request takes the id after the next.
run_testSkips(id) ==
  /\ datagram' = id + 1
  /\ request_id' = id + 2
  /\ requests' = requests (+) SetToBag({id + 1})

\* run_test, when request_id is id: submit the request and count it.
run_test(id) ==
  /\ datagram' = id
  /\ request_id' = id + 1
  /\ requests' = requests (+) SetToBag({id})

\* Mutant: one request too many is sent at the start.
StartOnceMore ==
  /\ program = "cliapp"
  /\ i <= Outstanding
  /\ run_test(request_id)
  /\ i' = i + 1
  /\ UNCHANGED <<program, has_timeout, armed, responses, history>>

\* main's loop, before the event loop is entered.
Start ==
  /\ program = "cliapp"
  /\ i < Outstanding
  /\ run_test(request_id)
  /\ i' = i + 1
  /\ UNCHANGED <<program, has_timeout, armed, responses, history>>

\* on_response with EV_READ, and deliver_response: the id of the next
\* request is taken from the response.
OnRead(id) ==
  /\ program = "cliapp" /\ i = Outstanding
  /\ BagIn(id, responses)
  /\ responses' = responses (-) SetToBag({id})
  /\ run_test(id)
  /\ UNCHANGED <<program, i, has_timeout, armed, history>>


\* retry: the last datagram, `outstanding' times.
retry == requests' = requests (+) Copies(Outstanding, datagram)

(***************************************************************************)
(* libevent reports EV_TIMEOUT alone, never together with EV_READ.  A zero *)
(* timeout is due at once and is not scheduled again; another one is       *)
(* scheduled anew each time the event was handled.                         *)
(***************************************************************************)
TimedOut ==
  /\ i = Outstanding
  /\ armed
  /\ armed' = has_timeout
  /\ retries' = retries + 1
  /\ IF UnderWay = 0
     THEN UNCHANGED early
     ELSE early < MaxEarly /\ early' = early + 1
  /\ UNCHANGED <<program, i, request_id, datagram, has_timeout, responses, lost, dups>>

\* on_response with EV_TIMEOUT
OnTimeout == program = "cliapp" /\ TimedOut /\ retry

-----------------------------------------------------------------------------
(* udp_client *)

\* Mutant: a whole window is sent, however few responses were read.
send_messageAll(amount) ==
  amount > 0 /\ requests' = requests (+) Copies(Outstanding, datagram)

\* send_message: sendmmsg of `amount' copies of the payload.  Those it does
\* not take are lost; a failure is only reported.
send_message(amount) == requests' = requests (+) Copies(amount, datagram)

UdpStart ==
  /\ program = "udp_client" /\ i = 0
  /\ i' = Outstanding
  /\ send_message(Outstanding)
  /\ UNCHANGED <<program, request_id, datagram, has_timeout, armed, responses, history>>

\* on_response with EV_READ: recvmmsg takes n responses of those that arrived.
UdpOnRead(n) ==
  /\ program = "udp_client" /\ i = Outstanding
  /\ n <= CopiesOf(datagram, responses)
  /\ responses' = responses (-) Copies(n, datagram)
  /\ send_message(n)
  /\ UNCHANGED <<client, history>>

UdpOnTimeout == program = "udp_client" /\ TimedOut /\ send_message(Outstanding)

-----------------------------------------------------------------------------
(* The deployment and the network *)

\* The learners deliver the request, and n + 1 of them answer it.
Serve(id, n) ==
  /\ BagIn(id, requests)
  /\ dups + n <= MaxDups
  /\ dups' = dups + n
  /\ requests' = requests (-) SetToBag({id})
  /\ responses' = responses (+) Copies(n + 1, id)
  /\ UNCHANGED <<client, lost, early, retries>>

\* A datagram is lost on the way, or overruns a socket buffer.
Lose ==
  /\ lost < MaxLosses
  /\ lost' = lost + 1
  /\ \/ \E id \in BagToSet(requests) :
          /\ requests' = requests (-) SetToBag({id})
          /\ UNCHANGED responses
     \/ \E id \in BagToSet(responses) :
          /\ responses' = responses (-) SetToBag({id})
          /\ UNCHANGED requests
  /\ UNCHANGED <<client, dups, early, retries>>

Duplicate ==
  /\ dups < MaxDups
  /\ dups' = dups + 1
  /\ \/ \E id \in BagToSet(requests) :
          /\ requests' = requests (+) SetToBag({id})
          /\ UNCHANGED responses
     \/ \E id \in BagToSet(responses) :
          /\ responses' = responses (+) SetToBag({id})
          /\ UNCHANGED requests
  /\ UNCHANGED <<client, lost, early, retries>>

Read ==
  \/ \E id \in BagToSet(responses) : OnRead(id)
  \/ \E n \in 1 .. Outstanding : UdpOnRead(n)

Timeout == OnTimeout \/ UdpOnTimeout

Next ==
  \/ Start \/ UdpStart
  \/ Read
  \/ Timeout
  \/ \E id \in BagToSet(requests), n \in 0 .. MaxDups : Serve(id, n)
  \/ Lose
  \/ Duplicate

\* The client's loop runs, its timer fires when nothing arrives, and what is
\* not lost gets through.
Fairness ==
  /\ WF_vars(Start \/ UdpStart)
  /\ WF_vars(Read)
  /\ WF_vars(Timeout)
  /\ WF_vars(\E id \in BagToSet(requests), n \in 0 .. MaxDups : Serve(id, n))

Spec == Init /\ [][Next]_vars /\ Fairness

-----------------------------------------------------------------------------
(***************************************************************************)
(* The window: every response is replaced by exactly one request, in       *)
(* batches too, so what is under way differs from `outstanding' only by    *)
(* the datagrams lost, by those duplicated and the answers of further      *)
(* replicas, and by a whole window for every timeout, none of which the    *)
(* client ever takes back.                                                 *)
(***************************************************************************)
WindowKept == UnderWay + lost = i + Outstanding * retries + dups

(***************************************************************************)
(* Ids name the places of the window: deliver_response takes the id of the *)
(* response, so ids stay below `outstanding' for ever, and while nothing   *)
(* went wrong every place has exactly one request or response under way.   *)
(***************************************************************************)
IdsArePlaces ==
  /\ BagToSet(requests) \cup BagToSet(responses) \subseteq 0 .. Outstanding - 1
  /\ program = "cliapp" /\ lost = 0 /\ dups = 0 /\ retries = 0 =>
       \A id \in 0 .. i - 1 :
         CopiesOf(id, requests) + CopiesOf(id, responses) = 1


=============================================================================
