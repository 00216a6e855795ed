----------------------------- MODULE TcpService -----------------------------
(***************************************************************************)
(* app/tcp_client.c and app/leveldb_tcp_server.c over one connection.  The *)
(* client sends a PUT of 32 bytes, waits for an answer and sends the next; *)
(* it has no timeout.  The server takes up to 32 bytes of what it received *)
(* as one request, each time something arrives.  Neither side looks for    *)
(* the boundaries of messages, and TCP does not keep them: bytes written   *)
(* together may arrive in parts, and bytes written apart arrive together.  *)
(***************************************************************************)
EXTENDS Naturals, SequencesExt

CONSTANTS
  MaxRequestCuts,   \* bound: reads of the server that end inside a request
  MaxAnswerCuts,    \* bound: reads of the client that end inside an answer
  MaxFailures       \* bound: calls of LevelDB that fail

ASSUME TcpServiceAssumption ==
  MaxRequestCuts \in Nat /\ MaxAnswerCuts \in Nat /\ MaxFailures \in Nat

VARIABLES
  conn,          \* "closed" | "open" | "done"
  to_server,     \* the stream to the server: what has not arrived yet
  input,         \* the input buffer of the server's bufferevent
  to_client,     \* the stream to the client
  db,            \* LevelDB: the pairs <<key, value>> it holds
  request_cuts, answer_cuts, failures   \* history: how often each happened

streams == <<to_server, input, to_client>>
history == <<request_cuts, answer_cuts, failures>>
vars == <<conn, streams, db, history>>

(***************************************************************************)
(* The 32 bytes of a request in four parts: op and sizes, key, value, and  *)
(* the last byte, which the client never sets.                             *)
(***************************************************************************)
Request == <<"op", "key", "value", "last">>
RequestSize == Len(Request)

\* The 8 bytes of "SUCCESS" in two parts.
Answer == <<"first", "last">>

\* What is stored: whole, or filled up with zeros because the rest was not
\* there, or found by chance where no request starts.
Stray == <<"chance", "chance">>
Stored == {<<"key", "value">>, <<"key", "cut">>, <<"cut", "cut">>, Stray}

TypeOK ==
  /\ conn \in {"closed", "open", "done"}
  /\ to_server \in Seq(Range(Request)) /\ input \in Seq(Range(Request))
  /\ to_client \in Seq(Range(Answer))
  /\ db \subseteq Stored
  /\ request_cuts \in 0 .. MaxRequestCuts /\ answer_cuts \in 0 .. MaxAnswerCuts
  /\ failures \in 0 .. MaxFailures

Init ==
  /\ conn = "closed"
  /\ to_server = << >> /\ input = << >> /\ to_client = << >>
  /\ db = {}
  /\ request_cuts = 0 /\ answer_cuts = 0 /\ failures = 0

First(s, n) == SubSeq(s, 1, n)
Rest(s, n) == SubSeq(s, n + 1, Len(s))

-----------------------------------------------------------------------------
(* The server *)

\* Mutant: the value is read where the key starts.
PutSameOffset(part) == <<"key", "key">>

\* Mutant: the size of the value is read as 0.
PutNoValue(part) == IF Len(part) = 1 THEN <<"cut", "cut">> ELSE <<"key", "cut">>

\* deliver with PUT, of a request of which `part' is there: ksize and vsize
\* are 0, and bytes of the key and the value are 0, where it ends early.
Put(part) ==
  CASE Len(part) = 1 -> <<"cut", "cut">>
    [] Len(part) = 2 -> <<"key", "cut">>
    [] OTHER -> <<"key", "value">>

\* evbuffer_remove(input, request, sizeof(request))
Taken(buf) == First(buf, Min({Len(buf), RequestSize}))

(***************************************************************************)
(* readcb, with `buf' in the input buffer: one request is taken, whatever  *)
(* is there, and handed to deliver.  A PUT is answered unless LevelDB      *)
(* fails.  Bytes of a key or a value are no op: INVALID_OP, no answer.  A  *)
(* request that seems to start with the last byte of another, which may    *)
(* have any value, is no op or a PUT, GET or DELETE of bytes found there.  *)
(***************************************************************************)
readcb(buf) ==
  LET request == Taken(buf)
      answer == to_client' = to_client \o Answer
  IN /\ input' = Rest(buf, Len(request))
     /\ \/ /\ Head(request) = "op"
           /\ db' = {p \in db : p[1] # Put(request)[1]} \cup {Put(request)}
           /\ answer
           /\ UNCHANGED failures
        \/ /\ Head(request) = "op"
           /\ failures < MaxFailures
           /\ failures' = failures + 1
           /\ UNCHANGED <<db, to_client>>
        \/ /\ Head(request) # "op"
           /\ UNCHANGED <<db, to_client, failures>>
        \/ /\ Head(request) = "last"
           /\ db' \in {db, db \cup {Stray}, db \ {Stray}}
           /\ answer
           /\ UNCHANGED failures

\* n parts of the stream arrive at the server.
ServerReads(n) ==
  /\ conn = "open"
  /\ to_server' = Rest(to_server, n)
  /\ readcb(input \o First(to_server, n))
  /\ request_cuts' = request_cuts +
       (IF to_server' # << >> /\ Head(to_server') # "op" THEN 1 ELSE 0)
  /\ request_cuts' <= MaxRequestCuts
  /\ UNCHANGED <<conn, answer_cuts>>

-----------------------------------------------------------------------------
(* The client *)

\* Mutant: a request is written twice.
submitTwice == to_server' = to_server \o Request \o Request

submit == to_server' = to_server \o Request

\* The server sets up a bufferevent for the connection.
do_accept ==
  /\ conn = "closed"
  /\ conn' = "open"

\* eventcb with BEV_EVENT_CONNECTED: the first request.
Connect ==
  /\ do_accept
  /\ submit
  /\ UNCHANGED <<input, to_client, db, history>>

\* Mutant: the next request is sent only for exactly one answer.
ClientReadsExact(n) ==
  /\ conn = "open"
  /\ to_client' = Rest(to_client, n)
  /\ IF n = Len(Answer) THEN submit ELSE UNCHANGED to_server
  /\ answer_cuts' = answer_cuts +
       (IF to_client' # << >> /\ Head(to_client') # "first" THEN 1 ELSE 0)
  /\ answer_cuts' <= MaxAnswerCuts
  /\ UNCHANGED <<conn, input, db, request_cuts, failures>>

\* readcb of the client, when n parts of the stream arrive: all of them are
\* thrown away and one request is sent, for an answer, for several, or for
\* a part of one.
ClientReads(n) ==
  /\ conn = "open"
  /\ to_client' = Rest(to_client, n)
  /\ submit
  /\ answer_cuts' = answer_cuts +
       (IF to_client' # << >> /\ Head(to_client') # "first" THEN 1 ELSE 0)
  /\ answer_cuts' <= MaxAnswerCuts
  /\ UNCHANGED <<conn, input, db, request_cuts, failures>>

-----------------------------------------------------------------------------
\* The server frees the bufferevent, with what is in its buffers.
errorcb == input' = << >> /\ to_client' = << >>

\* The connection breaks; eventcb leaves the client's loop.
Break ==
  /\ conn = "open"
  /\ conn' = "done"
  /\ errorcb
  /\ to_server' = << >>
  /\ UNCHANGED <<db, history>>

ServerRead == \E n \in 1 .. Len(to_server) : ServerReads(n)

ClientRead == \E n \in 1 .. Len(to_client) : ClientReads(n)

Next == Connect \/ ServerRead \/ ClientRead \/ Break

\* TCP delivers what was written, as long as the connection lasts.
Fairness == WF_vars(Connect) /\ WF_vars(ServerRead) /\ WF_vars(ClientRead)

Spec == Init /\ [][Next]_vars /\ Fairness

-----------------------------------------------------------------------------
(***************************************************************************)
(* The client's loop goes on until the connection breaks, LevelDB fails or *)
(* a request is cut: then the rest of it may be taken together with the    *)
(* next request, which is not answered, and the client waits for ever.     *)
(* Answers that are cut or arrive together stop nobody.                    *)
(***************************************************************************)
AnswersKeepComing ==
  \/ <>(conn = "done" \/ failures > 0 \/ request_cuts > 0)
  \/ []<><<ClientRead>>_vars

(***************************************************************************)
(* Every part of an answer that the client reads on its own adds a request *)
(* for good, and the server handles one request for each arrival: what it  *)
(* leaves in its buffer is no more than the requests added.                *)
(***************************************************************************)
BacklogBounded ==
  request_cuts = 0 => Len(input) <= RequestSize * answer_cuts

(***************************************************************************)
(* LevelDB holds what the client sent: keys and values are mutilated only  *)
(* when a read ended inside a request.                                     *)
(***************************************************************************)
WholeWrites == request_cuts = 0 => db \subseteq {<<"key", "value">>}

=============================================================================
