--------------------------- MODULE TcpServiceProofs ---------------------------
(***************************************************************************)
(* Proofs about the TCP service, for any number of cuts and failures.      *)
(***************************************************************************)
EXTENDS TcpService, SequenceTheorems, TLAPS

\* Where the parts of a stream stand, counted from its end: a stream loses
\* parts in front and grows by whole requests and answers.
RequestsEnd(s) == \A i \in 1 .. Len(s) : s[i] = Request[4 - ((Len(s) - i) % 4)]
AnswersEnd(s)  == \A i \in 1 .. Len(s) : s[i] = Answer[2 - ((Len(s) - i) % 2)]

\* While no request was cut, both ends of the server hold whole requests,
\* and a request or answer more than one is under way for every answer cut.
WholeRequests ==
  request_cuts = 0 =>
    /\ RequestsEnd(input)
    /\ Len(to_server) % 4 = 0 /\ Len(input) % 4 = 0
    /\ Len(to_server) + Len(input) + 2 * (Len(to_client) + (Len(to_client) % 2))
         <= 4 * (1 + answer_cuts)

(***************************************************************************)
(* The inductive invariant.                                                *)
(***************************************************************************)
TcpInv ==
  /\ conn = "closed" => to_server = << >> /\ input = << >> /\ to_client = << >>
  /\ RequestsEnd(to_server) /\ AnswersEnd(to_client)
  /\ WholeRequests
  /\ BacklogBounded
  /\ WholeWrites

-----------------------------------------------------------------------------
(* Streams *)

\* The parts of a request and of an answer.
LEMMA RequestParts ==
  /\ Request[1] = "op" /\ Request[2] = "key" /\ Request[3] = "value"
  /\ Request[4] = "last" /\ Len(Request) = 4 /\ RequestSize = 4
  /\ Range(Request) = {"op", "key", "value", "last"}
  /\ Request \in Seq(Range(Request))
<1>1. DOMAIN Request = {1, 2, 3, 4}
  BY DEF Request
<1>2. Range(Request) = {"op", "key", "value", "last"}
  BY <1>1 DEF Range, Request
<1> QED BY <1>2 DEF Request, RequestSize

LEMMA AnswerParts ==
  /\ Answer[1] = "first" /\ Answer[2] = "last" /\ Len(Answer) = 2
  /\ Answer \in Seq(Range(Answer))
<1>1. DOMAIN Answer = {1, 2}
  BY DEF Answer
<1>2. Range(Answer) = {"first", "last"}
  BY <1>1 DEF Range, Answer
<1> QED BY <1>2 DEF Answer

\* Remainders of sums and differences.
LEMMA Remainders ==
  ASSUME NEW x \in Nat, NEW y \in Nat
  PROVE  /\ x % 4 \in 0 .. 3 /\ x % 2 \in 0 .. 1
         /\ (x + 4) % 4 = x % 4 /\ (x + 2) % 2 = x % 2
         /\ y % 4 = 0 => (x + y) % 4 = x % 4
         /\ x < 4 => x % 4 = x
         /\ x < 2 => x % 2 = x
  BY SMT

LEMMA WholeParts ==
  ASSUME NEW x \in Nat, NEW y \in Nat, NEW n \in Nat, n <= x,
         x % 4 = 0, y % 4 = 0, (x - n) % 4 = 0
  PROVE  n % 4 = 0 /\ (y + n) % 4 = 0
  BY SMT

\* The first n parts of a stream, and what remains.
LEMMA FirstParts ==
  ASSUME NEW S, NEW s \in Seq(S), NEW n \in 0 .. Len(s)
  PROVE  /\ First(s, n) \in Seq(S) /\ Len(First(s, n)) = n
         /\ \A i \in 1 .. n : First(s, n)[i] = s[i]
<1>1. Len(s) \in Nat /\ n \in Nat /\ n <= Len(s)
  BY LenProperties
<1>2. \A i \in 1 .. n : s[i] \in S
  BY <1>1, ElementOfSeq
<1>3. /\ SubSeq(s, 1, n) \in Seq(S)
      /\ Len(SubSeq(s, 1, n)) = IF 1 <= n THEN n - 1 + 1 ELSE 0
      /\ \A i \in 1 .. n - 1 + 1 : SubSeq(s, 1, n)[i] = s[1 + i - 1]
  BY <1>1, <1>2, SubSeqProperties
<1> QED BY <1>1, <1>3 DEF First

LEMMA RestParts ==
  ASSUME NEW S, NEW s \in Seq(S), NEW n \in 0 .. Len(s)
  PROVE  /\ Rest(s, n) \in Seq(S) /\ Len(Rest(s, n)) = Len(s) - n
         /\ \A i \in 1 .. Len(s) - n : Rest(s, n)[i] = s[n + i]
<1>1. Len(s) \in Nat /\ n \in Nat /\ n <= Len(s)
  BY LenProperties
<1>2. \A i \in n + 1 .. Len(s) : s[i] \in S
  BY <1>1, ElementOfSeq
<1>3. /\ SubSeq(s, n + 1, Len(s)) \in Seq(S)
      /\ Len(SubSeq(s, n + 1, Len(s))) =
           IF n + 1 <= Len(s) THEN Len(s) - (n + 1) + 1 ELSE 0
      /\ \A i \in 1 .. Len(s) - (n + 1) + 1 :
           SubSeq(s, n + 1, Len(s))[i] = s[(n + 1) + i - 1]
  BY <1>1, <1>2, SubSeqProperties
<1> QED BY <1>1, <1>3 DEF Rest

\* Losing parts in front does not move the others.
LEMMA RestEnd ==
  ASSUME NEW S, NEW s \in Seq(S), NEW n \in 0 .. Len(s)
  PROVE  /\ RequestsEnd(s) => RequestsEnd(Rest(s, n))
         /\ AnswersEnd(s) => AnswersEnd(Rest(s, n))
<1>1. Len(s) \in Nat /\ n \in Nat /\ n <= Len(s)
  BY LenProperties
<1>2. ASSUME NEW i \in 1 .. Len(Rest(s, n))
      PROVE  /\ n + i \in 1 .. Len(s)
             /\ Rest(s, n)[i] = s[n + i]
             /\ Len(Rest(s, n)) - i = Len(s) - (n + i)
  BY <1>1, RestParts
<1>3. ASSUME RequestsEnd(s)
      PROVE  RequestsEnd(Rest(s, n))
  BY <1>2, <1>3 DEF RequestsEnd
<1>4. ASSUME AnswersEnd(s)
      PROVE  AnswersEnd(Rest(s, n))
  BY <1>2, <1>4 DEF AnswersEnd
<1> QED BY <1>3, <1>4

\* A request or whole requests behind a stream of requests.
LEMMA JoinEnd ==
  ASSUME NEW S, NEW s \in Seq(S), NEW t \in Seq(S),
         RequestsEnd(s), RequestsEnd(t), Len(t) % 4 = 0
  PROVE  RequestsEnd(s \o t)
<1>1. Len(s) \in Nat /\ Len(t) \in Nat
  BY LenProperties
<1>2. /\ Len(s \o t) = Len(s) + Len(t)
      /\ \A i \in 1 .. Len(s) + Len(t) :
           (s \o t)[i] = IF i <= Len(s) THEN s[i] ELSE t[i - Len(s)]
  BY ConcatProperties
<1> SUFFICES ASSUME NEW i \in 1 .. Len(s) + Len(t)
             PROVE  (s \o t)[i] = Request[4 - ((Len(s) + Len(t) - i) % 4)]
  BY <1>2 DEF RequestsEnd
<1>3. CASE i <= Len(s)
  <2>1. i \in 1 .. Len(s) /\ Len(s) - i \in Nat
    BY <1>1, <1>3
  <2>2. ((Len(s) - i) + Len(t)) % 4 = (Len(s) - i) % 4
    BY <1>1, <2>1, Remainders
  <2>3. (Len(s) - i) + Len(t) = Len(s) + Len(t) - i
    BY <1>1
  <2> QED BY <1>2, <1>3, <2>1, <2>2, <2>3 DEF RequestsEnd
<1>4. CASE ~(i <= Len(s))
  <2>1. i - Len(s) \in 1 .. Len(t) /\ Len(t) - (i - Len(s)) = Len(s) + Len(t) - i
    BY <1>1, <1>4
  <2> QED BY <1>2, <1>4, <2>1 DEF RequestsEnd
<1> QED BY <1>3, <1>4

LEMMA AnswerEnd ==
  ASSUME NEW s \in Seq(Range(Answer)), AnswersEnd(s)
  PROVE  AnswersEnd(s \o Answer)
<1>1. Len(s) \in Nat /\ Len(Answer) = 2 /\ Answer \in Seq(Range(Answer))
  BY LenProperties, AnswerParts
<1>2. /\ Len(s \o Answer) = Len(s) + 2
      /\ \A i \in 1 .. Len(s) + 2 :
           (s \o Answer)[i] = IF i <= Len(s) THEN s[i] ELSE Answer[i - Len(s)]
  <2>1. /\ Len(s \o Answer) = Len(s) + Len(Answer)
        /\ \A i \in 1 .. Len(s) + Len(Answer) :
             (s \o Answer)[i] = IF i <= Len(s) THEN s[i] ELSE Answer[i - Len(s)]
    BY <1>1, ConcatProperties
  <2> QED BY <1>1, <2>1
<1> SUFFICES ASSUME NEW i \in 1 .. Len(s) + 2
             PROVE  (s \o Answer)[i] = Answer[2 - ((Len(s) + 2 - i) % 2)]
  BY <1>2 DEF AnswersEnd
<1>3. CASE i <= Len(s)
  <2>1. i \in 1 .. Len(s) /\ Len(s) - i \in Nat
    BY <1>1, <1>3
  <2>2. ((Len(s) - i) + 2) % 2 = (Len(s) - i) % 2
    BY <2>1, Remainders
  <2>3. (Len(s) - i) + 2 = Len(s) + 2 - i
    BY <1>1
  <2> QED BY <1>2, <1>3, <2>1, <2>2, <2>3 DEF AnswersEnd
<1>4. CASE ~(i <= Len(s))
  <2>1. Len(s) + 2 - i \in Nat /\ Len(s) + 2 - i < 2
    BY <1>1, <1>4
  <2>2. (Len(s) + 2 - i) % 2 = Len(s) + 2 - i
    BY <2>1, Remainders
  <2>3. 2 - (Len(s) + 2 - i) = i - Len(s)
    BY <1>1
  <2> QED BY <1>2, <1>4, <2>2, <2>3
<1> QED BY <1>3, <1>4

\* A request is one.
LEMMA RequestEnd == RequestsEnd(Request) /\ Len(Request) % 4 = 0
<1>1. \A i \in 1 .. 4 : 4 - ((4 - i) % 4) = i
  BY SMT
<1> QED BY <1>1, RequestParts DEF RequestsEnd

\* Whole requests are cut off in front.
LEMMA FirstEnd ==
  ASSUME NEW S, NEW s \in Seq(S), NEW n \in 0 .. Len(s),
         RequestsEnd(s), (Len(s) - n) % 4 = 0
  PROVE  RequestsEnd(First(s, n))
<1>1. Len(s) \in Nat /\ n \in Nat /\ n <= Len(s)
  BY LenProperties
<1> SUFFICES ASSUME NEW i \in 1 .. n
             PROVE  First(s, n)[i] = Request[4 - ((n - i) % 4)]
  BY FirstParts DEF RequestsEnd
<1>2. n - i \in Nat /\ Len(s) - n \in Nat /\ (n - i) + (Len(s) - n) = Len(s) - i
  BY <1>1
<1>3. (Len(s) - i) % 4 = (n - i) % 4
  BY <1>2, Remainders
<1>4. i \in 1 .. Len(s)
  BY <1>1
<1> QED BY <1>3, <1>4, FirstParts DEF RequestsEnd

\* The first part of a stream tells whether it holds whole requests, or
\* whole answers.
LEMMA HeadOp ==
  ASSUME NEW S, NEW s \in Seq(S), Len(s) > 0, RequestsEnd(s)
  PROVE  s[1] = "op" <=> Len(s) % 4 = 0
<1>1. Len(s) \in Nat
  BY LenProperties
<1>2. s[1] = Request[4 - ((Len(s) - 1) % 4)]
  BY <1>1 DEF RequestsEnd
<1>3. Len(s) % 4 = 0 <=> (Len(s) - 1) % 4 = 3
  BY <1>1, SMT
<1>4. (Len(s) - 1) % 4 \in {0, 1, 2, 3}
  BY <1>1, SMT
<1> DEFINE r == (Len(s) - 1) % 4
<1> HIDE DEF r
<1>5. Request[4 - r] = "op" <=> r = 3
  BY <1>4, RequestParts DEF r
<1> QED BY <1>2, <1>3, <1>5 DEF r

LEMMA HeadFirst ==
  ASSUME NEW S, NEW s \in Seq(S), Len(s) > 0, AnswersEnd(s)
  PROVE  s[1] = "first" <=> Len(s) % 2 = 0
<1>1. Len(s) \in Nat
  BY LenProperties
<1>2. s[1] = Answer[2 - ((Len(s) - 1) % 2)]
  BY <1>1 DEF AnswersEnd
<1>3. Len(s) % 2 = 0 <=> (Len(s) - 1) % 2 = 1
  BY <1>1, SMT
<1>4. (Len(s) - 1) % 2 \in {0, 1}
  BY <1>1, SMT
<1> DEFINE r == (Len(s) - 1) % 2
<1> HIDE DEF r
<1>5. Answer[2 - r] = "first" <=> r = 1
  BY <1>4, AnswerParts DEF r
<1> QED BY <1>2, <1>3, <1>5 DEF r

-----------------------------------------------------------------------------
(* Type correctness *)

\* evbuffer_remove takes the size of a request, or what is there.
LEMMA TakenParts ==
  ASSUME NEW buf \in Seq(Range(Request)), Len(buf) > 0
  PROVE  /\ Taken(buf) \in Seq(Range(Request))
         /\ Len(Taken(buf)) \in 1 .. Len(buf)
         /\ Len(Taken(buf)) = IF Len(buf) < 4 THEN Len(buf) ELSE 4
         /\ Head(Taken(buf)) = buf[1]
<1> DEFINE n == Min({Len(buf), RequestSize})
<1>1. Len(buf) \in Nat /\ RequestSize = 4
  BY LenProperties, RequestParts
<1>2. n = IF Len(buf) < 4 THEN Len(buf) ELSE 4
  <2>1. n \in {Len(buf), 4} /\ n <= Len(buf) /\ n <= 4
    <3>1. \E x \in {Len(buf), 4} : \A y \in {Len(buf), 4} : x <= y
      BY <1>1
    <3> QED BY <1>1, <3>1 DEF Min
  <2> QED BY <1>1, <2>1
<1> HIDE DEF n
<1>3. n \in 1 .. Len(buf) /\ n \in 0 .. Len(buf)
  BY <1>1, <1>2
<1>4. /\ First(buf, n) \in Seq(Range(Request)) /\ Len(First(buf, n)) = n
      /\ First(buf, n)[1] = buf[1]
  BY <1>3, FirstParts
<1>5. Taken(buf) = First(buf, n)
  BY DEF Taken, n
<1> QED BY <1>2, <1>3, <1>4, <1>5

\* What deliver stores is one of the four.
LEMMA PutType ==
  ASSUME NEW part \in Seq(Range(Request)), Len(part) > 0
  PROVE  /\ Put(part) \in Stored
         /\ Len(part) = 4 => Put(part) = <<"key", "value">>
<1>1. Len(part) \in Nat
  BY LenProperties
<1>2. CASE Len(part) = 1
  BY <1>2 DEF Put, Stored
<1>3. CASE Len(part) = 2
  BY <1>3 DEF Put, Stored
<1>4. CASE Len(part) # 1 /\ Len(part) # 2
  BY <1>4 DEF Put, Stored
<1> QED BY <1>2, <1>3, <1>4

\* What readcb does, in brief.
LEMMA ReadcbSteps ==
  ASSUME TypeOK, NEW buf \in Seq(Range(Request)), Len(buf) > 0, readcb(buf)
  PROVE  /\ input' = Rest(buf, Len(Taken(buf)))
         /\ input' \in Seq(Range(Request))
         /\ to_client' = to_client \o Answer \/ to_client' = to_client
         /\ db' \subseteq Stored
         /\ failures' \in 0 .. MaxFailures
<1>1. /\ Taken(buf) \in Seq(Range(Request)) /\ Len(Taken(buf)) > 0
      /\ Len(Taken(buf)) \in 0 .. Len(buf)
  BY TakenParts, LenProperties
<1>2. input' = Rest(buf, Len(Taken(buf)))
  BY DEF readcb
<1>3. input' \in Seq(Range(Request))
  BY <1>1, <1>2, RestParts
<1>4. to_client' = to_client \o Answer \/ to_client' = to_client
  BY DEF readcb
<1>5. Put(Taken(buf)) \in Stored /\ Stray \in Stored
  BY <1>1, PutType DEF Stored
<1>6. db' \subseteq Stored
  BY <1>5 DEF readcb, TypeOK
<1>7. failures' \in 0 .. MaxFailures
  BY TcpServiceAssumption DEF readcb, TypeOK
<1> QED BY <1>2, <1>3, <1>4, <1>6, <1>7

\* What arrives joins what the buffer holds.
LEMMA Arrival ==
  ASSUME TypeOK, NEW n \in 1 .. Len(to_server)
  PROVE  /\ n \in 0 .. Len(to_server)
         /\ First(to_server, n) \in Seq(Range(Request))
         /\ input \o First(to_server, n) \in Seq(Range(Request))
         /\ Len(input \o First(to_server, n)) = Len(input) + n
         /\ Len(input \o First(to_server, n)) > 0
<1>1. /\ to_server \in Seq(Range(Request)) /\ input \in Seq(Range(Request))
      /\ Len(to_server) \in Nat /\ Len(input) \in Nat
  BY LenProperties DEF TypeOK
<1>2. n \in 0 .. Len(to_server)
  BY <1>1
<1>3. First(to_server, n) \in Seq(Range(Request)) /\ Len(First(to_server, n)) = n
  BY <1>1, <1>2, FirstParts
<1>4. /\ input \o First(to_server, n) \in Seq(Range(Request))
      /\ Len(input \o First(to_server, n)) = Len(input) + n
  BY <1>1, <1>3, ConcatProperties
<1> QED BY <1>1, <1>2, <1>3, <1>4

LEMMA ServerReadsType ==
  ASSUME TypeOK, NEW n \in 1 .. Len(to_server), ServerReads(n)
  PROVE  TypeOK'
<1>1. to_client' \in Seq(Range(Answer))
  <2>1. to_client \in Seq(Range(Answer)) /\ to_client \o Answer \in Seq(Range(Answer))
    BY ConcatProperties, AnswerParts DEF TypeOK
  <2> QED BY <2>1, Arrival, ReadcbSteps DEF ServerReads
<1>2. to_server' \in Seq(Range(Request))
  BY Arrival, RestParts DEF ServerReads, TypeOK
<1>3. request_cuts' \in 0 .. MaxRequestCuts
  BY TcpServiceAssumption DEF ServerReads, TypeOK
<1>4. /\ input' \in Seq(Range(Request)) /\ db' \subseteq Stored
      /\ failures' \in 0 .. MaxFailures
  BY Arrival, ReadcbSteps DEF ServerReads
<1> QED BY <1>1, <1>2, <1>3, <1>4 DEF ServerReads, TypeOK

LEMMA ClientReadsType ==
  ASSUME TypeOK, NEW n \in 1 .. Len(to_client), ClientReads(n)
  PROVE  TypeOK'
<1>1. /\ to_client \in Seq(Range(Answer)) /\ to_server \in Seq(Range(Request))
      /\ n \in 0 .. Len(to_client)
  BY LenProperties DEF TypeOK
<1>2. to_client' \in Seq(Range(Answer))
  BY <1>1, RestParts DEF ClientReads
<1>3. to_server' \in Seq(Range(Request))
  BY <1>1, ConcatProperties, RequestParts DEF ClientReads, submit
<1>4. answer_cuts' \in 0 .. MaxAnswerCuts
  BY TcpServiceAssumption DEF ClientReads, TypeOK
<1> QED BY <1>2, <1>3, <1>4 DEF ClientReads, TypeOK

\* The streams hold parts of requests and answers, and LevelDB one of the
\* four things that deliver can store.
THEOREM TcpTypeCorrect == Spec => []TypeOK
<1>1. Init => TypeOK
  BY TcpServiceAssumption, EmptySeq DEF Init, TypeOK
<1>2. TypeOK /\ [Next]_vars => TypeOK'
  <2> SUFFICES ASSUME TypeOK, [Next]_vars PROVE TypeOK'
    OBVIOUS
  <2>1. CASE Connect
    <3>1. to_server' \in Seq(Range(Request))
      BY <2>1, ConcatProperties, RequestParts DEF Connect, submit, TypeOK
    <3> QED BY <2>1, <3>1 DEF Connect, do_accept, TypeOK, history
  <2>2. CASE Break
    BY <2>2, EmptySeq DEF Break, errorcb, TypeOK, history
  <2>3. CASE UNCHANGED vars
    BY <2>3 DEF vars, streams, history, TypeOK
  <2> QED BY <2>1, <2>2, <2>3, ServerReadsType, ClientReadsType
          DEF Next, ServerRead, ClientRead
<1> QED BY <1>1, <1>2, PTL DEF Spec

-----------------------------------------------------------------------------
(* The invariant *)

\* A read that ends between two requests leaves whole ones.
LEMMA UncutRead ==
  ASSUME TypeOK, TcpInv, NEW n \in 1 .. Len(to_server), ServerReads(n),
         request_cuts' = 0
  PROVE  /\ request_cuts = 0
         /\ Len(to_server') = Len(to_server) - n
         /\ Len(to_server') % 4 = 0
<1>1. /\ Len(to_server) \in Nat /\ n \in 0 .. Len(to_server)
      /\ to_server' = Rest(to_server, n)
      /\ to_server \in Seq(Range(Request)) /\ request_cuts \in Nat
  BY Arrival, LenProperties, TcpServiceAssumption DEF ServerReads, TypeOK
<1>2. /\ to_server' \in Seq(Range(Request)) /\ Len(to_server') = Len(to_server) - n
      /\ RequestsEnd(to_server')
  BY <1>1, RestParts, RestEnd DEF TcpInv
<1>3. request_cuts = 0 /\ (to_server' = << >> \/ Head(to_server') = "op")
  BY <1>1 DEF ServerReads
<1>4. CASE to_server' = << >>
  BY <1>2, <1>3, <1>4
<1>5. CASE to_server' # << >>
  <2>1. Len(to_server') > 0 /\ Head(to_server') = to_server'[1]
    BY <1>2, <1>5, EmptySeq
  <2>2. Len(to_server') % 4 = 0
    BY <1>2, <1>3, <1>5, <2>1, HeadOp
  <2> QED BY <1>2, <1>3, <2>2
<1> QED BY <1>4, <1>5

\* readcb with whole requests in the buffer takes one and stores or answers
\* nothing else.
LEMMA WholeRead ==
  ASSUME TypeOK, NEW buf \in Seq(Range(Request)), Len(buf) > 0, readcb(buf),
         RequestsEnd(buf), Len(buf) % 4 = 0
  PROVE  /\ RequestsEnd(input') /\ Len(input') = Len(buf) - 4 /\ Len(input') % 4 = 0
         /\ \/ /\ db' \subseteq db \cup {<<"key", "value">>}
               /\ to_client' = to_client \o Answer
            \/ UNCHANGED <<db, to_client>>
<1>1. Len(buf) \in Nat /\ Len(buf) >= 4
  BY LenProperties
<1>2. /\ Taken(buf) \in Seq(Range(Request)) /\ Len(Taken(buf)) = 4
      /\ Head(Taken(buf)) = buf[1] /\ 4 \in 0 .. Len(buf)
  BY <1>1, TakenParts
<1>3. Head(Taken(buf)) = "op" /\ Put(Taken(buf)) = <<"key", "value">>
  BY <1>2, HeadOp, PutType
<1>4. input' = Rest(buf, 4)
  BY <1>2 DEF readcb
<1>5. RequestsEnd(input') /\ Len(input') = Len(buf) - 4
  BY <1>2, <1>4, RestParts, RestEnd
<1>6. (Len(buf) - 4) % 4 = 0
  BY <1>1, SMT
<1>7. \/ /\ db' \subseteq db \cup {<<"key", "value">>}
         /\ to_client' = to_client \o Answer
      \/ UNCHANGED <<db, to_client>>
  BY <1>3 DEF readcb
<1> QED BY <1>5, <1>6, <1>7

\* readcb of the server.
LEMMA ServerReadsInv ==
  ASSUME TypeOK, TcpInv, NEW n \in 1 .. Len(to_server), ServerReads(n)
  PROVE  TcpInv'
<1> DEFINE buf == input \o First(to_server, n)
<1>1. /\ conn' # "closed" /\ to_server' = Rest(to_server, n) /\ readcb(buf)
      /\ UNCHANGED answer_cuts
  BY DEF ServerReads
<1>2. /\ to_server \in Seq(Range(Request)) /\ input \in Seq(Range(Request))
      /\ to_client \in Seq(Range(Answer)) /\ answer_cuts \in Nat
      /\ Len(to_server) \in Nat /\ Len(input) \in Nat /\ Len(to_client) \in Nat
  BY LenProperties, TcpServiceAssumption DEF TypeOK
<1>3. /\ n \in 0 .. Len(to_server) /\ n \in Nat
      /\ First(to_server, n) \in Seq(Range(Request))
      /\ buf \in Seq(Range(Request)) /\ Len(buf) = Len(input) + n /\ Len(buf) > 0
  BY <1>2, Arrival
<1>4. RequestsEnd(to_server')
  BY <1>1, <1>2, <1>3, RestEnd DEF TcpInv
<1>5. AnswersEnd(to_client')
  <2>1. to_client' = to_client \o Answer \/ to_client' = to_client
    BY <1>1, <1>3, ReadcbSteps
  <2> QED BY <1>2, <2>1, AnswerEnd DEF TcpInv
<1>6. ASSUME request_cuts' = 0
      PROVE  /\ RequestsEnd(input')
             /\ Len(to_server') % 4 = 0 /\ Len(input') % 4 = 0
             /\ Len(to_server') + Len(input')
                    + 2 * (Len(to_client') + (Len(to_client') % 2))
                  <= 4 * (1 + answer_cuts')
             /\ Len(input') <= 4 * answer_cuts'
             /\ db' \subseteq {<<"key", "value">>}
  <2>1. /\ request_cuts = 0 /\ Len(to_server') = Len(to_server) - n
        /\ Len(to_server') % 4 = 0
    BY <1>6, UncutRead
  <2>2. /\ RequestsEnd(input) /\ Len(to_server) % 4 = 0 /\ Len(input) % 4 = 0
        /\ Len(to_server) + Len(input) + 2 * (Len(to_client) + (Len(to_client) % 2))
             <= 4 * (1 + answer_cuts)
        /\ db \subseteq {<<"key", "value">>}
    BY <2>1 DEF TcpInv, WholeRequests, WholeWrites
  <2>3. n % 4 = 0 /\ (Len(input) + n) % 4 = 0
    <3>1. n <= Len(to_server) /\ (Len(to_server) - n) % 4 = 0
      BY <1>2, <1>3, <2>1
    <3> QED BY <1>2, <1>3, <2>2, <3>1, WholeParts
  <2>4. RequestsEnd(First(to_server, n)) /\ Len(First(to_server, n)) % 4 = 0
    BY <1>2, <1>3, <2>1, <2>3, FirstEnd, FirstParts DEF TcpInv
  <2>5. RequestsEnd(buf) /\ Len(buf) % 4 = 0
    BY <1>2, <1>3, <2>2, <2>3, <2>4, JoinEnd
  <2> HIDE DEF buf
  <2>6. /\ RequestsEnd(input') /\ Len(input') = Len(input) + n - 4
        /\ Len(input') % 4 = 0
        /\ \/ /\ db' \subseteq db \cup {<<"key", "value">>}
              /\ to_client' = to_client \o Answer
           \/ UNCHANGED <<db, to_client>>
    <3>1. /\ RequestsEnd(input') /\ Len(input') = Len(buf) - 4
          /\ Len(input') % 4 = 0
          /\ \/ /\ db' \subseteq db \cup {<<"key", "value">>}
                /\ to_client' = to_client \o Answer
             \/ UNCHANGED <<db, to_client>>
      BY <1>1, <1>3, <2>5, WholeRead
    <3> QED BY <1>3, <3>1
  <2>7. CASE /\ db' \subseteq db \cup {<<"key", "value">>}
             /\ to_client' = to_client \o Answer
    <3>1. Len(to_client') = Len(to_client) + 2
      <4>1. Answer \in Seq(Range(Answer)) /\ Len(Answer) = 2
        BY AnswerParts
      <4>2. Len(to_client \o Answer) = Len(to_client) + Len(Answer)
        BY <1>2, <4>1, ConcatProperties
      <4> QED BY <2>7, <4>1, <4>2
    <3>2. (Len(to_client) + 2) % 2 = Len(to_client) % 2 /\ Len(to_client) % 2 \in 0 .. 1
      BY <1>2, Remainders
    <3>3. /\ Len(to_server') + Len(input')
                + 2 * (Len(to_client') + (Len(to_client') % 2))
              <= 4 * (1 + answer_cuts')
          /\ Len(input') <= 4 * answer_cuts'
      <4> DEFINE a == Len(to_server)
                 b == Len(input)
                 c == Len(to_client)
                 r == Len(to_client) % 2
      <4>1. /\ a \in Nat /\ b \in Nat /\ c \in Nat /\ r \in 0 .. 1 /\ n \in Nat
            /\ a - n + (b + n - 4) >= b + n - 4
            /\ a + b + 2 * (c + r) <= 4 * (1 + answer_cuts)
        BY <1>2, <1>3, <2>2, <3>2
      <4>2. /\ Len(to_server') = a - n /\ Len(input') = b + n - 4
            /\ Len(to_client') = c + 2 /\ Len(to_client') % 2 = r
        BY <2>1, <2>6, <3>1, <3>2
      <4> HIDE DEF a, b, c, r
      <4>3. /\ (a - n) + (b + n - 4) + 2 * ((c + 2) + r) <= 4 * (1 + answer_cuts)
            /\ b + n - 4 <= 4 * answer_cuts
        BY <1>2, <4>1
      <4> QED BY <1>1, <4>2, <4>3
    <3> QED BY <2>1, <2>2, <2>6, <2>7, <3>3
  <2>8. CASE UNCHANGED <<db, to_client>>
    <3>1. Len(to_client) % 2 \in 0 .. 1
      BY <1>2, Remainders
    <3>2. /\ Len(to_server') + Len(input')
                + 2 * (Len(to_client') + (Len(to_client') % 2))
              <= 4 * (1 + answer_cuts')
          /\ Len(input') <= 4 * answer_cuts'
      <4> DEFINE a == Len(to_server)
                 b == Len(input)
                 c == Len(to_client)
                 r == Len(to_client) % 2
      <4>1. /\ a \in Nat /\ b \in Nat /\ c \in Nat /\ r \in 0 .. 1 /\ n \in Nat
            /\ a - n + (b + n - 4) >= b + n - 4
            /\ a + b + 2 * (c + r) <= 4 * (1 + answer_cuts)
        BY <1>2, <1>3, <2>2, <3>1
      <4>2. /\ Len(to_server') = a - n /\ Len(input') = b + n - 4
            /\ Len(to_client') = c /\ Len(to_client') % 2 = r
        BY <2>1, <2>6, <2>8
      <4> HIDE DEF a, b, c, r
      <4>3. /\ (a - n) + (b + n - 4) + 2 * (c + r) <= 4 * (1 + answer_cuts)
            /\ b + n - 4 <= 4 * answer_cuts
        BY <1>2, <4>1
      <4> QED BY <1>1, <4>2, <4>3
    <3> QED BY <2>1, <2>2, <2>6, <2>8, <3>2
  <2> QED BY <2>6, <2>7, <2>8
<1>7. WholeRequests' /\ WholeWrites'
  BY <1>6 DEF WholeRequests, WholeWrites
<1>8. BacklogBounded'
  BY <1>6, RequestParts DEF BacklogBounded
<1> QED BY <1>1, <1>4, <1>5, <1>7, <1>8 DEF TcpInv

\* readcb of the client: a whole answer or more is replaced by a request, a
\* part of one as well, at the price of a cut.
LEMMA ClientReadsInv ==
  ASSUME TypeOK, TcpInv, NEW n \in 1 .. Len(to_client), ClientReads(n)
  PROVE  TcpInv'
<1>1. /\ conn' # "closed" /\ to_client' = Rest(to_client, n)
      /\ to_server' = to_server \o Request /\ UNCHANGED <<input, db, request_cuts>>
  BY DEF ClientReads, submit
<1>2. /\ to_server \in Seq(Range(Request)) /\ input \in Seq(Range(Request))
      /\ to_client \in Seq(Range(Answer)) /\ answer_cuts \in Nat
      /\ Len(to_server) \in Nat /\ Len(input) \in Nat /\ Len(to_client) \in Nat
      /\ n \in Nat /\ n \in 0 .. Len(to_client)
  BY LenProperties, TcpServiceAssumption DEF TypeOK
<1>3. /\ AnswersEnd(to_client') /\ to_client' \in Seq(Range(Answer))
      /\ Len(to_client') = Len(to_client) - n
  BY <1>1, <1>2, RestEnd, RestParts DEF TcpInv
<1>4. RequestsEnd(to_server') /\ Len(to_server') = Len(to_server) + 4
  <2>1. Len(Request) = 4 /\ Request \in Seq(Range(Request))
    BY RequestParts
  <2>2. RequestsEnd(to_server \o Request)
    BY <1>2, <2>1, JoinEnd, RequestEnd DEF TcpInv
  <2>3. Len(to_server \o Request) = Len(to_server) + Len(Request)
    BY <1>2, <2>1, ConcatProperties
  <2> QED BY <1>1, <2>1, <2>2, <2>3
<1>5. /\ answer_cuts' \in Nat /\ answer_cuts' >= answer_cuts
      /\ answer_cuts' = answer_cuts => Len(to_client') % 2 = 0
      /\ answer_cuts' # answer_cuts => answer_cuts' = answer_cuts + 1
  <2>1. /\ answer_cuts' \in {answer_cuts, answer_cuts + 1}
        /\ answer_cuts' = answer_cuts => to_client' = << >> \/ Head(to_client') = "first"
    BY <1>2 DEF ClientReads
  <2>2. CASE to_client' = << >>
    BY <1>2, <1>3, <2>1, <2>2
  <2>3. CASE to_client' # << >>
    <3>1. Len(to_client') > 0 /\ Head(to_client') = to_client'[1]
      BY <1>3, <2>3, EmptySeq
    <3>2. Head(to_client') = "first" => Len(to_client') % 2 = 0
      BY <1>3, <3>1, HeadFirst
    <3> QED BY <1>2, <2>1, <2>3, <3>2
  <2> QED BY <2>2, <2>3
<1>6. ASSUME request_cuts' = 0
      PROVE  /\ RequestsEnd(input')
             /\ Len(to_server') % 4 = 0 /\ Len(input') % 4 = 0
             /\ Len(to_server') + Len(input')
                    + 2 * (Len(to_client') + (Len(to_client') % 2))
                  <= 4 * (1 + answer_cuts')
             /\ Len(input') <= 4 * answer_cuts'
             /\ db' \subseteq {<<"key", "value">>}
  <2>1. /\ RequestsEnd(input) /\ Len(to_server) % 4 = 0 /\ Len(input) % 4 = 0
        /\ Len(to_server) + Len(input) + 2 * (Len(to_client) + (Len(to_client) % 2))
             <= 4 * (1 + answer_cuts)
        /\ Len(input) <= 4 * answer_cuts
        /\ db \subseteq {<<"key", "value">>}
    BY <1>1, <1>6, RequestParts
       DEF TcpInv, WholeRequests, WholeWrites, BacklogBounded
  <2>2. (Len(to_server) + 4) % 4 = 0
    BY <1>2, <2>1, Remainders
  <2> DEFINE c == Len(to_client)
             d == Len(to_client')
  <2>3. c \in Nat /\ d \in Nat /\ d < c
    BY <1>2, <1>3
  <2> HIDE DEF c, d
  <2>4. (d % 2 = 0 => d + 2 <= c + (c % 2)) /\ d + (d % 2) <= c + (c % 2)
    BY <2>3, SMT
  <2>5. Len(to_server') + Len(input') + 2 * (d + (d % 2)) <= 4 * (1 + answer_cuts')
    <3>1. Len(to_server) + Len(input) + 2 * (c + (c % 2)) <= 4 * (1 + answer_cuts)
      BY <2>1 DEF c
    <3>2. d % 2 \in 0 .. 1 /\ c % 2 \in 0 .. 1
      BY <2>3, Remainders
    <3>3. CASE answer_cuts' = answer_cuts
      <4>1. d % 2 = 0
        BY <1>5, <3>3 DEF d
      <4> QED BY <1>1, <1>2, <1>4, <2>3, <2>4, <3>1, <3>2, <3>3, <4>1
    <3>4. CASE answer_cuts' = answer_cuts + 1
      BY <1>1, <1>2, <1>4, <2>3, <2>4, <3>1, <3>2, <3>4
    <3> QED BY <1>5, <3>3, <3>4
  <2>6. Len(input') <= 4 * answer_cuts'
    BY <1>1, <1>2, <1>5, <2>1
  <2> QED BY <1>1, <1>4, <2>1, <2>2, <2>5, <2>6 DEF d
<1>7. WholeRequests' /\ WholeWrites'
  BY <1>6 DEF WholeRequests, WholeWrites
<1>8. BacklogBounded'
  BY <1>6, RequestParts DEF BacklogBounded
<1> QED BY <1>1, <1>3, <1>4, <1>7, <1>8 DEF TcpInv

\* The lengths of a connection that was just opened or lost.
LEMMA FewBytes ==
  ASSUME NEW n \in {0, 4}, NEW m, NEW c, m = 0, c = 0
  PROVE  /\ n % 4 = 0 /\ m % 4 = 0
         /\ \A a \in Nat : n + m + 2 * (c + (c % 2)) <= 4 * (1 + a)
<1>1. 0 % 4 = 0 /\ 4 % 4 = 0 /\ 0 % 2 = 0
  BY SMT
<1>2. n % 4 = 0 /\ m % 4 = 0
  BY <1>1
<1>3. ASSUME NEW a \in Nat
      PROVE  n + m + 2 * (c + (c % 2)) <= 4 * (1 + a)
  <2>1. m = 0 /\ c = 0 /\ c % 2 = 0 /\ n \in 0 .. 4
    BY <1>1
  <2> QED BY <2>1, SMT
<1> QED BY <1>2, <1>3

\* Every step preserves the invariant.
LEMMA TcpNextInv ==
  ASSUME TypeOK, TcpInv, [Next]_vars
  PROVE  TcpInv'
<1>1. CASE Connect
  <2>1. /\ input = << >> /\ to_client = << >> /\ to_server = << >>
        /\ to_server' = to_server \o Request /\ conn' = "open"
        /\ UNCHANGED <<input, to_client, db, request_cuts, answer_cuts>>
    BY <1>1 DEF Connect, do_accept, submit, history, TcpInv
  <2>2. to_server' = Request /\ Len(to_server') = 4
    BY <2>1, ConcatEmptySeq, RequestParts
  <2>3. answer_cuts' \in Nat
    BY <2>1, TcpServiceAssumption DEF TypeOK
  <2>4. WholeRequests'
    <3>1. Len(input') = 0 /\ Len(to_client') = 0
      BY <2>1
    <3>2. RequestsEnd(input')
      BY <3>1 DEF RequestsEnd
    <3> QED BY <2>2, <2>3, <3>1, <3>2, FewBytes DEF WholeRequests
  <2>5. BacklogBounded' /\ WholeWrites'
    BY <2>1 DEF TcpInv, BacklogBounded, WholeWrites
  <2> QED BY <2>1, <2>2, <2>4, <2>5, RequestEnd DEF TcpInv, AnswersEnd
<1>2. CASE Break
  <2>1. /\ input' = << >> /\ to_client' = << >> /\ to_server' = << >>
        /\ conn' = "done" /\ UNCHANGED <<db, request_cuts, answer_cuts>>
    BY <1>2 DEF Break, errorcb, history
  <2>2. answer_cuts' \in Nat
    BY <2>1, TcpServiceAssumption DEF TypeOK
  <2>3. WholeRequests'
    <3>1. Len(input') = 0 /\ Len(to_client') = 0 /\ Len(to_server') = 0
      BY <2>1
    <3>2. RequestsEnd(input')
      BY <3>1 DEF RequestsEnd
    <3> QED BY <2>2, <3>1, <3>2, FewBytes DEF WholeRequests
  <2>4. BacklogBounded'
    BY <2>1, <2>2, RequestParts DEF BacklogBounded
  <2>5. WholeWrites'
    BY <2>1 DEF TcpInv, WholeWrites
  <2> QED BY <2>1, <2>3, <2>4, <2>5 DEF TcpInv, AnswersEnd, RequestsEnd
<1>3. CASE UNCHANGED vars
  BY <1>3 DEF vars, streams, history, TcpInv, RequestsEnd, AnswersEnd, WholeRequests,
              BacklogBounded, WholeWrites
<1> QED BY <1>1, <1>2, <1>3, ServerReadsInv, ClientReadsInv
        DEF Next, ServerRead, ClientRead

\* The invariant holds in every reachable state.
THEOREM TcpInvariance == Spec => []TcpInv
<1>1. Init => TcpInv
  <2> SUFFICES ASSUME Init PROVE TcpInv
    OBVIOUS
  <2>1. /\ input = << >> /\ to_client = << >> /\ to_server = << >> /\ db = {}
        /\ answer_cuts = 0
    BY DEF Init
  <2> QED BY <2>1, RequestParts DEF TcpInv, RequestsEnd, AnswersEnd, WholeRequests,
             BacklogBounded, WholeWrites
<1>2. TypeOK /\ TcpInv /\ [Next]_vars => TcpInv'
  BY TcpNextInv
<1> QED BY <1>1, <1>2, TcpTypeCorrect, PTL DEF Spec

(***************************************************************************)
(* The requests left in the server's buffer are at most the answers that   *)
(* the client read in parts, however the streams are cut and joined.       *)
(***************************************************************************)
THEOREM BacklogBoundedTheorem == Spec => []BacklogBounded
<1>1. TcpInv => BacklogBounded
  BY DEF TcpInv
<1> QED BY <1>1, TcpInvariance, PTL

\* Only a read that ends inside a request mutilates what LevelDB stores.
THEOREM WholeWritesTheorem == Spec => []WholeWrites
<1>1. TcpInv => WholeWrites
  BY DEF TcpInv
<1> QED BY <1>1, TcpInvariance, PTL

=============================================================================
