-------------------------- MODULE ClosedLoopProofs --------------------------
(***************************************************************************)
(* Proofs about ClosedLoop, for every window and any number of losses,     *)
(* duplicates and early timeouts.                                          *)
(***************************************************************************)
EXTENDS ClosedLoop, FiniteSetTheorems, TLAPS

(***************************************************************************)
(* Where ids come from: main's loop counts them, so that the ids under way *)
(* are below its index; udp_client sends one and the same payload.         *)
(***************************************************************************)
IdInv ==
  /\ program = "cliapp" =>
       /\ BagToSet(requests) \cup BagToSet(responses) \subseteq 0 .. i - 1
       /\ i < Outstanding => request_id = i
       /\ i > 0 => datagram \in 0 .. i - 1
  /\ program = "udp_client" =>
       /\ datagram = 0
       /\ BagToSet(requests) \cup BagToSet(responses) \subseteq {0}

-----------------------------------------------------------------------------
(* Bags *)

\* n more copies of e.
LEMMA BagPlus ==
  ASSUME NEW B, IsABag(B), NEW e, NEW n \in Nat \ {0}
  PROVE  /\ IsABag(B (+) Copies(n, e))
         /\ BagToSet(B (+) Copies(n, e)) = BagToSet(B) \cup {e}
         /\ \A x : CopiesOf(x, B (+) Copies(n, e))
                     = CopiesOf(x, B) + (IF x = e THEN n ELSE 0)
<1> DEFINE C == B (+) Copies(n, e)
<1>1. DOMAIN Copies(n, e) = {e} /\ Copies(n, e)[e] = n
  BY DEF Copies
<1>2. C = [x \in DOMAIN B \cup {e} |->
             (IF x \in DOMAIN B THEN B[x] ELSE 0)
               + (IF x \in DOMAIN Copies(n, e) THEN Copies(n, e)[x] ELSE 0)]
  BY <1>1 DEF (+)
<1> QED BY <1>1, <1>2 DEF IsABag, BagToSet, CopiesOf, BagIn

\* n copies of e fewer.
LEMMA BagMinus ==
  ASSUME NEW B, IsABag(B), NEW e, NEW n \in Nat \ {0}, n <= CopiesOf(e, B)
  PROVE  /\ IsABag(B (-) Copies(n, e))
         /\ BagToSet(B (-) Copies(n, e)) \subseteq BagToSet(B)
         /\ \A x : CopiesOf(x, B (-) Copies(n, e))
                     = CopiesOf(x, B) - (IF x = e THEN n ELSE 0)
<1> DEFINE rest == [x \in DOMAIN B |-> IF x = e THEN B[x] - n ELSE B[x]]
           C == B (-) Copies(n, e)
<1>1. DOMAIN Copies(n, e) = {e} /\ Copies(n, e)[e] = n
  BY DEF Copies
<1>2. C = [x \in {d \in DOMAIN rest : rest[d] > 0} |-> rest[x]]
  <2>1. rest = [x \in DOMAIN B |-> IF x \in DOMAIN Copies(n, e)
                                   THEN B[x] - Copies(n, e)[x] ELSE B[x]]
    BY <1>1
  <2> QED BY <2>1 DEF (-)
<1>3. e \in DOMAIN B /\ n <= B[e]
  BY DEF CopiesOf, BagIn, BagToSet
<1>4. \A x \in DOMAIN B : B[x] \in Nat /\ B[x] > 0
  BY DEF IsABag
<1>5. \A x \in DOMAIN B : rest[x] \in Nat /\ rest[x] = IF x = e THEN B[x] - n ELSE B[x]
  BY <1>3, <1>4
<1>6. DOMAIN rest = DOMAIN B
  OBVIOUS
<1> HIDE DEF rest, C
<1>7. DOMAIN C = {d \in DOMAIN B : rest[d] > 0} /\ \A x \in DOMAIN C : C[x] = rest[x]
  BY <1>2, <1>6
<1>8. IsABag(C) /\ BagToSet(C) \subseteq BagToSet(B)
  BY <1>2, <1>5, <1>6, <1>7 DEF IsABag, BagToSet
<1>9. \A x : CopiesOf(x, C) = CopiesOf(x, B) - (IF x = e THEN n ELSE 0)
  BY <1>3, <1>4, <1>5, <1>7 DEF CopiesOf, BagIn, BagToSet
<1> QED BY <1>8, <1>9 DEF C

\* One copy, as the network takes and adds it.
LEMMA SingleCopy == \A e : SetToBag({e}) = Copies(1, e)
  BY DEF SetToBag, Copies

\* n copies of e after the first m.
Numbered(e, m, n) == {e} \X (m + 1 .. m + n)

\* The copies of one datagram are as many as their numbers.
LEMMA CopyNumbers ==
  ASSUME NEW e, NEW m \in Nat, NEW n \in Nat
  PROVE  IsFiniteSet(Numbered(e, m, n)) /\ Cardinality(Numbered(e, m, n)) = n
<1> DEFINE S == m + 1 .. m + n
           T == {e} \X S
           f == [c \in S |-> <<e, c>>]
<1>1. IsFiniteSet(S) /\ Cardinality(S) = n
  <2>1. m + 1 \in Int /\ m + n \in Int
    OBVIOUS
  <2>2. IsFiniteSet(S) /\ Cardinality(S) = IF m + 1 > m + n THEN 0 ELSE (m + n) - (m + 1) + 1
    BY <2>1, FS_Interval
  <2> QED BY <2>2
<1> HIDE DEF S
<1>2. f \in Bijection(S, T)
  <2>1. f \in [S -> T] /\ \A c, d \in S : f[c] = f[d] => c = d
    OBVIOUS
  <2>2. \A t \in T : \E c \in S : f[c] = t
    OBVIOUS
  <2> QED BY <2>1, <2>2, Zenon DEF Bijection, Injection, Surjection, IsInjective
<1>3. ExistsBijection(S, T)
  BY <1>2 DEF ExistsBijection
<1>4. IsFiniteSet(T) /\ Cardinality(T) = n
  BY <1>1, <1>3, FS_Bijection
<1> QED BY <1>4 DEF S, Numbered

\* Which datagrams there are in a bag.
LEMMA InDatagrams ==
  ASSUME NEW B, IsABag(B)
  PROVE  \A d : d \in Datagrams(B) <=>
                 \E x, c : d = <<x, c>> /\ c \in 1 .. CopiesOf(x, B)
<1>1. \A x \in DOMAIN B : B[x] \in Nat
  BY DEF IsABag
<1>2. \A x : x \notin DOMAIN B => 1 .. CopiesOf(x, B) = {}
  BY DEF CopiesOf, BagIn, BagToSet
<1>3. \A x \in DOMAIN B : CopiesOf(x, B) = B[x]
  BY DEF CopiesOf, BagIn, BagToSet
<1> QED BY <1>2, <1>3 DEF Datagrams, BagToSet

\* More copies are more datagrams.
LEMMA SizePlus ==
  ASSUME NEW B, IsABag(B), IsFiniteSet(Datagrams(B)), NEW C, IsABag(C), NEW e,
         NEW n \in Nat,
         \A x : CopiesOf(x, C) = CopiesOf(x, B) + (IF x = e THEN n ELSE 0)
  PROVE  /\ IsFiniteSet(Datagrams(C))
         /\ Cardinality(Datagrams(C)) = Cardinality(Datagrams(B)) + n
         /\ Cardinality(Datagrams(B)) \in Nat
<1> DEFINE m == CopiesOf(e, B)
           N == Numbered(e, m, n)
<1>1. \A x : CopiesOf(x, B) \in Nat
  BY DEF IsABag, CopiesOf, BagIn, BagToSet
<1>2. m \in Nat
  BY <1>1
<1>3. CopiesOf(e, C) = m + n /\ \A x : x # e => CopiesOf(x, C) = CopiesOf(x, B)
  BY <1>1
<1> HIDE DEF m
<1>4. 1 .. m + n = (1 .. m) \cup (m + 1 .. m + n) /\ (1 .. m) \cap (m + 1 .. m + n) = {}
  BY <1>2
<1>5. Datagrams(C) = Datagrams(B) \cup N
  <2>1. ASSUME NEW d
        PROVE  d \in Datagrams(C) <=> d \in Datagrams(B) \/ d \in N
    <3>1. d \in Datagrams(C) <=> \E x, c : d = <<x, c>> /\ c \in 1 .. CopiesOf(x, C)
      BY InDatagrams
    <3>2. d \in Datagrams(B) <=> \E x, c : d = <<x, c>> /\ c \in 1 .. CopiesOf(x, B)
      BY InDatagrams
    <3>3. d \in N <=> \E c \in m + 1 .. m + n : d = <<e, c>>
      BY DEF Numbered
    <3>4. \A x, c : c \in 1 .. CopiesOf(x, C) <=>
                      c \in 1 .. CopiesOf(x, B) \/ (x = e /\ c \in m + 1 .. m + n)
      BY <1>3, <1>4 DEF m
    <3> HIDE DEF N
    <3> QED BY <3>1, <3>2, <3>3, <3>4, Zenon
  <2> QED BY <2>1
<1>6. Datagrams(B) \cap N = {}
  <2> SUFFICES ASSUME NEW d \in Datagrams(B), d \in N PROVE FALSE
    OBVIOUS
  <2>1. PICK x, c : d = <<x, c>> /\ c \in 1 .. CopiesOf(x, B)
    BY InDatagrams
  <2>2. x = e /\ c \in m + 1 .. m + n
    BY <2>1 DEF Numbered
  <2> QED BY <1>4, <2>1, <2>2 DEF m
<1>7. IsFiniteSet(N) /\ Cardinality(N) = n
  BY <1>2, CopyNumbers
<1> HIDE DEF N
<1>8. /\ IsFiniteSet(Datagrams(B) \cup N)
      /\ Cardinality(Datagrams(B) \cup N)
           = Cardinality(Datagrams(B)) + Cardinality(N) - Cardinality(Datagrams(B) \cap N)
  BY <1>7, FS_Union
<1>9. Cardinality({}) = 0 /\ Cardinality(Datagrams(B)) \in Nat
  BY FS_EmptySet, FS_CardinalityType
<1>10. Cardinality(Datagrams(B) \cup N) = Cardinality(Datagrams(B)) + n
  <2>1. Cardinality(Datagrams(B) \cap N) = 0
    BY <1>6, <1>9
  <2> QED BY <1>7, <1>8, <1>9, <2>1
<1> QED BY <1>5, <1>8, <1>9, <1>10

Size(B) == Cardinality(Datagrams(B))

\* A bag of requests or responses.
FiniteBag(B) == IsABag(B) /\ BagToSet(B) \subseteq Nat /\ IsFiniteSet(Datagrams(B))

\* C has n more, or n fewer, copies of e than B.
Added(B, C, e, n) ==
  /\ FiniteBag(C) /\ BagToSet(C) = BagToSet(B) \cup {e}
  /\ \A x : CopiesOf(x, C) = CopiesOf(x, B) + (IF x = e THEN n ELSE 0)
  /\ Size(C) = Size(B) + n /\ Size(B) \in Nat

Taken(B, C, e, n) ==
  /\ FiniteBag(C) /\ BagToSet(C) \subseteq BagToSet(B)
  /\ \A x : CopiesOf(x, C) = CopiesOf(x, B) - (IF x = e THEN n ELSE 0)
  /\ Size(C) = Size(B) - n /\ Size(B) \in Nat

\* What sending n copies does.
LEMMA BagAdd ==
  ASSUME NEW B, FiniteBag(B), NEW e \in Nat, NEW n \in Nat \ {0},
         NEW C, C = B (+) Copies(n, e)
  PROVE  Added(B, C, e, n)
<1>1. /\ IsABag(C) /\ BagToSet(C) = BagToSet(B) \cup {e}
      /\ \A x : CopiesOf(x, C) = CopiesOf(x, B) + (IF x = e THEN n ELSE 0)
  BY BagPlus DEF FiniteBag
<1>2. IsABag(B) /\ IsFiniteSet(Datagrams(B)) /\ BagToSet(B) \subseteq Nat /\ n \in Nat
  BY DEF FiniteBag
<1>3. IsFiniteSet(Datagrams(C)) /\ Size(C) = Size(B) + n /\ Size(B) \in Nat
  BY <1>1, <1>2, SizePlus DEF Size
<1> QED BY <1>1, <1>2, <1>3 DEF FiniteBag, Added

\* What receiving or losing n copies does.
LEMMA BagTake ==
  ASSUME NEW B, FiniteBag(B), NEW e, NEW n \in Nat \ {0}, n <= CopiesOf(e, B),
         NEW C, C = B (-) Copies(n, e)
  PROVE  Taken(B, C, e, n)
<1>1. IsABag(B) /\ IsFiniteSet(Datagrams(B)) /\ BagToSet(B) \subseteq Nat /\ n \in Nat
  BY DEF FiniteBag
<1>2. /\ IsABag(C) /\ BagToSet(C) \subseteq BagToSet(B)
      /\ \A x : CopiesOf(x, C) = CopiesOf(x, B) - (IF x = e THEN n ELSE 0)
  BY <1>1, BagMinus
<1>3. \A x : CopiesOf(x, B) \in Nat /\ CopiesOf(x, C) \in Nat
  BY <1>1, <1>2 DEF IsABag, CopiesOf, BagIn, BagToSet
<1>4. \A x : CopiesOf(x, B) = CopiesOf(x, C) + (IF x = e THEN n ELSE 0)
  BY <1>1, <1>2, <1>3
<1>5. IsFiniteSet(Datagrams(C))
  <2>1. Datagrams(C) \subseteq Datagrams(B)
    <3> SUFFICES ASSUME NEW d \in Datagrams(C) PROVE d \in Datagrams(B)
      OBVIOUS
    <3>1. PICK x, c : d = <<x, c>> /\ c \in 1 .. CopiesOf(x, C)
      BY <1>2, InDatagrams
    <3>2. c \in 1 .. CopiesOf(x, B)
      <4>1. CopiesOf(x, C) <= CopiesOf(x, B)
        BY <1>1, <1>3, <1>4
      <4> QED BY <1>3, <3>1, <4>1
    <3> QED BY <1>1, <3>1, <3>2, InDatagrams
  <2> QED BY <1>1, <2>1, FS_Subset
<1>6. Size(B) = Size(C) + n /\ Size(C) \in Nat
  <2>1. IsABag(C)
    BY <1>2
  <2> QED BY <1>1, <1>4, <1>5, <2>1, SizePlus DEF Size
<1>7. Size(B) \in Nat /\ Size(C) = Size(B) - n
  BY <1>1, <1>6
<1> QED BY <1>1, <1>2, <1>5, <1>7 DEF FiniteBag, Taken

\* A datagram in a bag can be taken out.
LEMMA InBag ==
  ASSUME NEW B, FiniteBag(B), NEW e \in BagToSet(B)
  PROVE  e \in Nat /\ 1 <= CopiesOf(e, B) /\ 1 \in Nat \ {0}
  BY DEF FiniteBag, IsABag, CopiesOf, BagIn, BagToSet

-----------------------------------------------------------------------------
(* Types *)

LoopTypeOK == TypeOK /\ FiniteBag(requests) /\ FiniteBag(responses)

\* What the actions of the clients do to the bags.
LEMMA ClientBags ==
  ASSUME LoopTypeOK
  PROVE  /\ Start => Added(requests, requests', request_id, 1)
         /\ UdpStart \/ Timeout => Added(requests, requests', datagram, Outstanding)
         /\ \A id \in BagToSet(responses) : OnRead(id) =>
              /\ Taken(responses, responses', id, 1) /\ Added(requests, requests', id, 1)
         /\ \A n \in 1 .. Outstanding : UdpOnRead(n) =>
              /\ Taken(responses, responses', datagram, n)
              /\ Added(requests, requests', datagram, n)
<1>1. /\ FiniteBag(requests) /\ FiniteBag(responses)
      /\ request_id \in Nat /\ datagram \in Nat
  BY DEF LoopTypeOK, TypeOK
<1>2. Outstanding \in Nat \ {0} /\ 1 \in Nat \ {0}
  BY ClosedLoopAssumption
<1>3. ASSUME Start PROVE Added(requests, requests', request_id, 1)
  <2>1. requests' = requests (+) Copies(1, request_id)
    BY <1>3, SingleCopy DEF Start, run_test
  <2> QED BY <1>1, <1>2, <2>1, BagAdd
<1>4. ASSUME UdpStart \/ Timeout
      PROVE  Added(requests, requests', datagram, Outstanding)
  <2>1. requests' = requests (+) Copies(Outstanding, datagram)
    BY <1>4 DEF UdpStart, Timeout, OnTimeout, UdpOnTimeout, retry, send_message
  <2> QED BY <1>1, <1>2, <2>1, BagAdd
<1>5. ASSUME NEW id \in BagToSet(responses), OnRead(id)
      PROVE  Taken(responses, responses', id, 1) /\ Added(requests, requests', id, 1)
  <2>1. id \in Nat /\ 1 <= CopiesOf(id, responses)
    BY <1>1, InBag
  <2>2. responses' = responses (-) Copies(1, id)
    BY <1>5, SingleCopy DEF OnRead
  <2>3. requests' = requests (+) Copies(1, id)
    BY <1>5, SingleCopy DEF OnRead, run_test
  <2>4. Taken(responses, responses', id, 1)
    BY <1>1, <1>2, <2>1, <2>2, BagTake
  <2>5. Added(requests, requests', id, 1)
    BY <1>1, <1>2, <2>1, <2>3, BagAdd
  <2> QED BY <2>4, <2>5
<1>6. ASSUME NEW n \in 1 .. Outstanding, UdpOnRead(n)
      PROVE  /\ Taken(responses, responses', datagram, n)
             /\ Added(requests, requests', datagram, n)
  <2>1. /\ n <= CopiesOf(datagram, responses)
        /\ responses' = responses (-) Copies(n, datagram)
        /\ requests' = requests (+) Copies(n, datagram)
    BY <1>6 DEF UdpOnRead, send_message
  <2>2. n \in Nat \ {0}
    BY <1>2
  <2>3. Taken(responses, responses', datagram, n)
    BY <1>1, <2>1, <2>2, BagTake
  <2>4. Added(requests, requests', datagram, n)
    BY <1>1, <2>1, <2>2, BagAdd
  <2> QED BY <2>3, <2>4
<1> QED BY <1>3, <1>4, <1>5, <1>6

\* What the rest of the deployment and the network do to the bags.
LEMMA NetworkBags ==
  ASSUME LoopTypeOK
  PROVE  /\ \A id \in BagToSet(requests), n \in 0 .. MaxDups : Serve(id, n) =>
              /\ Taken(requests, requests', id, 1)
              /\ Added(responses, responses', id, n + 1)
         /\ Lose =>
              \/ /\ responses' = responses
                 /\ \E id \in BagToSet(requests) : Taken(requests, requests', id, 1)
              \/ /\ requests' = requests
                 /\ \E id \in BagToSet(responses) : Taken(responses, responses', id, 1)
         /\ Duplicate =>
              \/ /\ responses' = responses
                 /\ \E id \in BagToSet(requests) : Added(requests, requests', id, 1)
              \/ /\ requests' = requests
                 /\ \E id \in BagToSet(responses) : Added(responses, responses', id, 1)
<1>1. FiniteBag(requests) /\ FiniteBag(responses) /\ 1 \in Nat \ {0}
  BY DEF LoopTypeOK
<1>2. ASSUME NEW id \in BagToSet(requests), NEW n \in 0 .. MaxDups, Serve(id, n)
      PROVE  Taken(requests, requests', id, 1) /\ Added(responses, responses', id, n + 1)
  <2>1. id \in Nat /\ 1 <= CopiesOf(id, requests)
    BY <1>1, InBag
  <2>2. n + 1 \in Nat \ {0}
    BY ClosedLoopAssumption
  <2>3. requests' = requests (-) Copies(1, id) /\ responses' = responses (+) Copies(n + 1, id)
    BY <1>2, SingleCopy DEF Serve
  <2>4. Taken(requests, requests', id, 1)
    BY <1>1, <2>1, <2>3, BagTake
  <2>5. Added(responses, responses', id, n + 1)
    BY <1>1, <2>1, <2>2, <2>3, BagAdd
  <2> QED BY <2>4, <2>5
<1>3. ASSUME NEW B, NEW C, FiniteBag(B), NEW id \in BagToSet(B)
      PROVE  /\ C = B (-) SetToBag({id}) => Taken(B, C, id, 1)
             /\ C = B (+) SetToBag({id}) => Added(B, C, id, 1)
  <2>1. id \in Nat /\ 1 <= CopiesOf(id, B)
    BY <1>3, InBag
  <2>2. SetToBag({id}) = Copies(1, id)
    BY SingleCopy
  <2>3. C = B (-) SetToBag({id}) => Taken(B, C, id, 1)
    BY <1>1, <1>3, <2>1, <2>2, BagTake
  <2>4. C = B (+) SetToBag({id}) => Added(B, C, id, 1)
    BY <1>1, <1>3, <2>1, <2>2, BagAdd
  <2> QED BY <2>3, <2>4
<1>4. ASSUME Lose
      PROVE  \/ /\ responses' = responses
                /\ \E id \in BagToSet(requests) : Taken(requests, requests', id, 1)
             \/ /\ requests' = requests
                /\ \E id \in BagToSet(responses) : Taken(responses, responses', id, 1)
  BY <1>1, <1>3, <1>4 DEF Lose
<1>5. ASSUME Duplicate
      PROVE  \/ /\ responses' = responses
                /\ \E id \in BagToSet(requests) : Added(requests, requests', id, 1)
             \/ /\ requests' = requests
                /\ \E id \in BagToSet(responses) : Added(responses, responses', id, 1)
  BY <1>1, <1>3, <1>5 DEF Duplicate
<1> QED BY <1>2, <1>4, <1>5

\* Whatever sends or takes leaves finite bags.
LEMMA StepBags ==
  ASSUME LoopTypeOK, [Next]_vars
  PROVE  FiniteBag(requests') /\ FiniteBag(responses')
<1>0. FiniteBag(requests) /\ FiniteBag(responses)
  BY DEF LoopTypeOK
<1>1. CASE Start \/ UdpStart \/ Timeout
  <2>1. responses' = responses
    BY <1>1 DEF Start, UdpStart, Timeout, OnTimeout, UdpOnTimeout, TimedOut
  <2>2. FiniteBag(requests')
    BY <1>1, ClientBags DEF Added
  <2> QED BY <1>0, <2>1, <2>2
<1>2. CASE Read
  BY <1>2, ClientBags DEF Read, Added, Taken
<1>3. ASSUME NEW id \in BagToSet(requests), NEW n \in 0 .. MaxDups, Serve(id, n)
      PROVE  FiniteBag(requests') /\ FiniteBag(responses')
  BY <1>3, NetworkBags DEF Added, Taken
<1>4. CASE Lose
  BY <1>0, <1>4, NetworkBags DEF Taken
<1>5. CASE Duplicate
  BY <1>0, <1>5, NetworkBags DEF Added
<1>6. CASE UNCHANGED vars
  BY <1>0, <1>6 DEF vars
<1> QED BY <1>1, <1>2, <1>3, <1>4, <1>5, <1>6 DEF Next

\* Every step keeps the types.
LEMMA LoopNextType ==
  ASSUME LoopTypeOK, [Next]_vars
  PROVE  LoopTypeOK'
<1>0. /\ program \in {"cliapp", "udp_client"} /\ i \in 0 .. Outstanding
      /\ request_id \in Nat /\ datagram \in Nat
      /\ has_timeout \in BOOLEAN /\ armed \in BOOLEAN
      /\ lost \in 0 .. MaxLosses /\ dups \in 0 .. MaxDups /\ early \in 0 .. MaxEarly
      /\ retries \in Nat
  BY DEF LoopTypeOK, TypeOK
<1>1. FiniteBag(requests') /\ FiniteBag(responses')
  BY StepBags
<1>2. /\ IsABag(requests') /\ BagToSet(requests') \subseteq Nat
      /\ IsABag(responses') /\ BagToSet(responses') \subseteq Nat
  BY <1>1 DEF FiniteBag
<1>3. SUFFICES TypeOK'
  BY <1>1 DEF LoopTypeOK, FiniteBag, IsABag, BagToSet, Datagrams
<1>4. Outstanding \in Nat \ {0} /\ MaxLosses \in Nat /\ MaxDups \in Nat /\ MaxEarly \in Nat
  BY ClosedLoopAssumption
<1>5. CASE Start
  BY <1>0, <1>2, <1>4, <1>5 DEF Start, run_test, history, TypeOK, IsABag, BagToSet
<1>6. CASE UdpStart
  BY <1>0, <1>2, <1>4, <1>6 DEF UdpStart, history, TypeOK, IsABag, BagToSet
<1>7. CASE Timeout
  BY <1>0, <1>2, <1>4, <1>7 DEF Timeout, OnTimeout, UdpOnTimeout, TimedOut, TypeOK, IsABag, BagToSet
<1>8. ASSUME NEW id \in BagToSet(responses), OnRead(id)
      PROVE  TypeOK'
  <2>1. id \in Nat
    BY InBag DEF LoopTypeOK
  <2>2. /\ request_id' = id + 1 /\ datagram' = id
        /\ UNCHANGED <<program, i, has_timeout, armed, lost, dups, early, retries>>
    BY <1>8 DEF OnRead, run_test, history
  <2>3. request_id' \in Nat /\ datagram' \in Nat
    BY <2>1, <2>2
  <2> QED BY <1>0, <1>2, <2>2, <2>3 DEF TypeOK, IsABag, BagToSet
<1>9. ASSUME NEW n \in 1 .. Outstanding, UdpOnRead(n)
      PROVE  TypeOK'
  BY <1>0, <1>2, <1>4, <1>9 DEF UdpOnRead, client, history, TypeOK, IsABag, BagToSet
<1>10. ASSUME NEW id \in BagToSet(requests), NEW n \in 0 .. MaxDups, Serve(id, n)
       PROVE  TypeOK'
  BY <1>0, <1>2, <1>4, <1>10 DEF Serve, client, TypeOK, IsABag, BagToSet
<1>11. CASE Lose
  BY <1>0, <1>2, <1>4, <1>11 DEF Lose, client, TypeOK, IsABag, BagToSet
<1>12. CASE Duplicate
  BY <1>0, <1>2, <1>4, <1>12 DEF Duplicate, client, TypeOK, IsABag, BagToSet
<1>13. CASE UNCHANGED vars
  BY <1>0, <1>2, <1>13 DEF vars, client, history, TypeOK, IsABag, BagToSet
<1> QED BY <1>5, <1>6, <1>7, <1>8, <1>9, <1>10, <1>11, <1>12, <1>13 DEF Next, Read

\* What holds in the initial states.
LEMMA LoopInitType ==
  ASSUME Init
  PROVE  /\ LoopTypeOK
         /\ BagToSet(requests) = {} /\ BagToSet(responses) = {}
         /\ Size(requests) = 0 /\ Size(responses) = 0
<1>1. EmptyBag = [e \in {} |-> 1]
  BY DEF EmptyBag, SetToBag
<1>2. IsABag(EmptyBag) /\ BagToSet(EmptyBag) = {} /\ Datagrams(EmptyBag) = {}
  BY <1>1 DEF IsABag, BagToSet, Datagrams
<1>3. FiniteBag(EmptyBag) /\ Size(EmptyBag) = 0
  BY <1>2, FS_EmptySet DEF FiniteBag, Size
<1>4. requests = EmptyBag /\ responses = EmptyBag
  BY DEF Init
<1>5. TypeOK
  <2>1. program \in {"cliapp", "udp_client"} /\ has_timeout \in BOOLEAN /\ armed \in BOOLEAN
    BY DEF Init, CliappInit, UdpInit
  <2>2. /\ i = 0 /\ request_id = 0 /\ datagram = 0
        /\ lost = 0 /\ dups = 0 /\ early = 0 /\ retries = 0
    BY DEF Init
  <2>3. /\ i \in 0 .. Outstanding /\ request_id \in Nat /\ datagram \in Nat
        /\ lost \in 0 .. MaxLosses /\ dups \in 0 .. MaxDups /\ early \in 0 .. MaxEarly
        /\ retries \in Nat
    BY <2>2, ClosedLoopAssumption
  <2> QED BY <1>2, <1>4, <2>1, <2>3 DEF TypeOK
<1> QED BY <1>2, <1>3, <1>4, <1>5 DEF LoopTypeOK

\* Type correctness, with finite bags.
THEOREM LoopTypes == Spec => []LoopTypeOK
<1>1. Init => LoopTypeOK
  BY LoopInitType
<1>2. LoopTypeOK /\ [Next]_vars => LoopTypeOK'
  BY LoopNextType
<1> QED BY <1>1, <1>2, PTL DEF Spec

(***************************************************************************)
(* Type correctness: among other things main never sends more requests     *)
(* than the user asked for before it enters the event loop.                *)
(***************************************************************************)
THEOREM LoopTypeCorrect == Spec => []TypeOK
<1>1. LoopTypeOK => TypeOK
  BY DEF LoopTypeOK
<1> QED BY <1>1, LoopTypes, PTL

-----------------------------------------------------------------------------
(* The window *)

\* Every step keeps the window.
LEMMA WindowStep ==
  ASSUME LoopTypeOK, WindowKept, [Next]_vars
  PROVE  WindowKept'
<1> DEFINE u == Size(requests)
           v == Size(responses)
           w == Outstanding * retries
<1>0. /\ i \in Nat /\ lost \in Nat /\ dups \in Nat /\ retries \in Nat
      /\ Outstanding \in Nat /\ w \in Nat
      /\ Outstanding * (retries + 1) = w + Outstanding
  BY ClosedLoopAssumption DEF LoopTypeOK, TypeOK
<1>1. u + v + lost = i + w + dups
  BY DEF WindowKept, UnderWay, Size
<1>2. SUFFICES Size(requests') + Size(responses') + lost'
                 = i' + Outstanding * retries' + dups'
  BY DEF WindowKept, UnderWay, Size, Datagrams, BagToSet
<1> DEFINE u2 == Size(requests')
           v2 == Size(responses')
<1>3. u \in Nat /\ v \in Nat
  BY FS_CardinalityType DEF LoopTypeOK, FiniteBag, Size
<1> HIDE DEF u, v, w, u2, v2
<1>4. CASE Start
  <2>1. i' = i + 1 /\ UNCHANGED <<responses, lost, dups, retries>>
    BY <1>4 DEF Start, history
  <2>2. u2 = u + 1 /\ v2 = v
    BY <1>4, <2>1, ClientBags DEF Added, u, v, u2, v2
  <2> QED BY <1>0, <1>1, <1>3, <2>1, <2>2 DEF u2, v2, w
<1>5. CASE UdpStart
  <2>1. i = 0 /\ i' = Outstanding /\ UNCHANGED <<responses, lost, dups, retries>>
    BY <1>5 DEF UdpStart, history
  <2>2. u2 = u + Outstanding /\ v2 = v
    BY <1>5, <2>1, ClientBags DEF Added, u, v, u2, v2
  <2> QED BY <1>0, <1>1, <1>3, <2>1, <2>2 DEF u2, v2, w
<1>6. CASE Timeout
  <2>1. retries' = retries + 1 /\ UNCHANGED <<i, responses, lost, dups>>
    BY <1>6 DEF Timeout, OnTimeout, UdpOnTimeout, TimedOut
  <2>2. u2 = u + Outstanding /\ v2 = v
    BY <1>6, <2>1, ClientBags DEF Added, u, v, u2, v2
  <2>3. Outstanding * retries' = w + Outstanding
    BY <1>0, <2>1
  <2> QED BY <1>0, <1>1, <1>3, <2>1, <2>2, <2>3 DEF u2, v2
<1>7. CASE Read
  <2>1. UNCHANGED <<i, lost, dups, retries>>
    BY <1>7 DEF Read, OnRead, UdpOnRead, client, history
  <2>2. PICK n \in Nat : u2 = u + n /\ v2 = v - n
    <3>1. CASE \E id \in BagToSet(responses) : OnRead(id)
      BY <3>1, ClientBags DEF Added, Taken, u, v, u2, v2
    <3>2. CASE \E n \in 1 .. Outstanding : UdpOnRead(n)
      BY <1>0, <3>2, ClientBags DEF Added, Taken, u, v, u2, v2
    <3> QED BY <1>7, <3>1, <3>2 DEF Read
  <2> QED BY <1>0, <1>1, <1>3, <2>1, <2>2 DEF u2, v2, w
<1>8. ASSUME NEW id \in BagToSet(requests), NEW n \in 0 .. MaxDups, Serve(id, n)
      PROVE  u2 + v2 + lost' = i' + Outstanding * retries' + dups'
  <2>1. dups' = dups + n /\ n \in Nat /\ UNCHANGED <<i, lost, retries>>
    BY <1>8, ClosedLoopAssumption DEF Serve, client
  <2>2. u2 = u - 1 /\ v2 = v + (n + 1)
    BY <1>8, NetworkBags DEF Added, Taken, u, v, u2, v2
  <2> QED BY <1>0, <1>1, <1>3, <2>1, <2>2 DEF w
<1>9. CASE Lose
  <2>1. lost' = lost + 1 /\ UNCHANGED <<i, dups, retries>>
    BY <1>9 DEF Lose, client
  <2>2. (u2 = u - 1 /\ v2 = v) \/ (u2 = u /\ v2 = v - 1)
    BY <1>9, NetworkBags DEF Taken, u, v, u2, v2
  <2> QED BY <1>0, <1>1, <1>3, <2>1, <2>2 DEF u2, v2, w
<1>10. CASE Duplicate
  <2>1. dups' = dups + 1 /\ UNCHANGED <<i, lost, retries>>
    BY <1>10 DEF Duplicate, client
  <2>2. (u2 = u + 1 /\ v2 = v) \/ (u2 = u /\ v2 = v + 1)
    BY <1>10, NetworkBags DEF Added, u, v, u2, v2
  <2> QED BY <1>0, <1>1, <1>3, <2>1, <2>2 DEF u2, v2, w
<1>11. CASE UNCHANGED vars
  BY <1>1, <1>11 DEF vars, client, history, u, v, w
<1> QED BY <1>4, <1>5, <1>6, <1>7, <1>8, <1>9, <1>10, <1>11 DEF Next, u2, v2

(***************************************************************************)
(* What is under way differs from the window only by what the network lost *)
(* or added and by a window for each timeout, for every window size.       *)
(***************************************************************************)
THEOREM WindowKeptTheorem == Spec => []WindowKept
<1>1. Init => WindowKept
  <2> SUFFICES ASSUME Init PROVE WindowKept
    OBVIOUS
  <2>1. UnderWay = 0
    BY LoopInitType DEF UnderWay, Size
  <2>2. i = 0 /\ lost = 0 /\ retries = 0 /\ dups = 0
    BY DEF Init
  <2> QED BY <2>1, <2>2, ClosedLoopAssumption DEF WindowKept
<1>2. LoopTypeOK /\ WindowKept /\ [Next]_vars => WindowKept'
  BY WindowStep
<1> QED BY <1>1, <1>2, LoopTypes, PTL DEF Spec

-----------------------------------------------------------------------------
(* The ids *)

\* While nothing went wrong every place of the window is held once.
PlacesHeld ==
  program = "cliapp" /\ lost = 0 /\ dups = 0 /\ retries = 0 =>
    \A id \in 0 .. i - 1 : CopiesOf(id, requests) + CopiesOf(id, responses) = 1

\* Every step keeps the ids below main's index.
LEMMA IdStep ==
  ASSUME LoopTypeOK, IdInv, [Next]_vars
  PROVE  IdInv'
<1> DEFINE ids == BagToSet(requests) \cup BagToSet(responses)
           new == BagToSet(requests') \cup BagToSet(responses')
<1>0. i \in 0 .. Outstanding /\ Outstanding \in Nat \ {0} /\ program \in {"cliapp", "udp_client"}
  BY ClosedLoopAssumption DEF LoopTypeOK, TypeOK
<1>1. /\ program = "cliapp" => ids \subseteq 0 .. i - 1
      /\ program = "cliapp" /\ i < Outstanding => request_id = i
      /\ program = "cliapp" /\ i > 0 => datagram \in 0 .. i - 1
      /\ program = "udp_client" => datagram = 0 /\ ids \subseteq {0}
  BY DEF IdInv
<1>2. SUFFICES
        /\ program' = "cliapp" =>
             /\ new \subseteq 0 .. i' - 1
             /\ i' < Outstanding => request_id' = i'
             /\ i' > 0 => datagram' \in 0 .. i' - 1
        /\ program' = "udp_client" => datagram' = 0 /\ new \subseteq {0}
  BY DEF IdInv, BagToSet
<1> HIDE DEF ids, new
<1>3. CASE Start
  <2>1. /\ program = "cliapp" /\ program' = "cliapp" /\ i < Outstanding /\ i' = i + 1
        /\ datagram' = request_id /\ request_id' = request_id + 1
    BY <1>3 DEF Start, run_test
  <2>2. new = ids \cup {i}
    <3>1. responses' = responses
      BY <1>3 DEF Start
    <3>2. BagToSet(requests') = BagToSet(requests) \cup {request_id}
      BY <1>3, ClientBags DEF Added
    <3> QED BY <1>1, <2>1, <3>1, <3>2 DEF ids, new
  <2>3. new \subseteq 0 .. i' - 1
    BY <1>0, <1>1, <2>1, <2>2
  <2> QED BY <1>0, <1>1, <2>1, <2>3
<1>4. CASE UdpStart
  <2>1. program = "udp_client" /\ UNCHANGED <<program, datagram>>
    BY <1>4 DEF UdpStart
  <2>2. new = ids \cup {datagram}
    <3>1. responses' = responses
      BY <1>4 DEF UdpStart
    <3> QED BY <1>4, <3>1, ClientBags DEF Added, ids, new
  <2> QED BY <1>1, <2>1, <2>2
<1>5. CASE Timeout
  <2>1. i = Outstanding /\ UNCHANGED <<program, i, request_id, datagram>>
    BY <1>5 DEF Timeout, OnTimeout, UdpOnTimeout, TimedOut
  <2>2. new = ids \cup {datagram}
    <3>1. responses' = responses
      BY <1>5 DEF Timeout, OnTimeout, UdpOnTimeout, TimedOut
    <3> QED BY <1>5, <3>1, ClientBags DEF Added, ids, new
  <2>3. i > 0 /\ ~(i < Outstanding)
    BY <1>0, <2>1
  <2> QED BY <1>1, <2>1, <2>2, <2>3
<1>6. ASSUME NEW n \in 1 .. Outstanding, UdpOnRead(n)
      PROVE  program' = "udp_client" /\ datagram' = 0 /\ new \subseteq {0}
  <2>1. program = "udp_client" /\ UNCHANGED <<program, datagram>>
    BY <1>6 DEF UdpOnRead, client
  <2>2. new \subseteq ids \cup {datagram}
    BY <1>6, ClientBags DEF Added, Taken, ids, new
  <2> QED BY <1>1, <2>1, <2>2
<1>7. ASSUME NEW id \in BagToSet(responses), OnRead(id)
      PROVE  /\ program' = "cliapp" /\ i' = Outstanding /\ datagram' \in 0 .. i' - 1
             /\ new \subseteq 0 .. i' - 1
  <2>1. /\ program = "cliapp" /\ i = Outstanding /\ UNCHANGED <<program, i>>
        /\ datagram' = id
    BY <1>7 DEF OnRead, run_test
  <2>2. id \in ids
    BY DEF ids
  <2>3. new \subseteq ids
    <3>1. new \subseteq ids \cup {id}
      BY <1>7, ClientBags DEF Added, Taken, new, ids
    <3> QED BY <2>2, <3>1
  <2> QED BY <1>1, <2>1, <2>2, <2>3
<1>8. ASSUME (\E id \in BagToSet(requests), n \in 0 .. MaxDups : Serve(id, n))
               \/ Lose \/ Duplicate
      PROVE  new \subseteq ids /\ UNCHANGED <<program, i, request_id, datagram>>
  <2>1. UNCHANGED <<program, i, request_id, datagram>>
    BY <1>8 DEF Serve, Lose, Duplicate, client
  <2>2. \A id \in BagToSet(requests), n \in 0 .. MaxDups : Serve(id, n) => new \subseteq ids
    BY NetworkBags DEF Added, Taken, new, ids
  <2>3. Lose => new \subseteq ids
    BY NetworkBags DEF Taken, new, ids
  <2>4. Duplicate => new \subseteq ids
    BY NetworkBags DEF Added, new, ids
  <2> QED BY <1>8, <2>1, <2>2, <2>3, <2>4
<1>9. CASE UNCHANGED vars
  BY <1>1, <1>9 DEF vars, client, ids, new
<1> QED
  BY <1>0, <1>1, <1>3, <1>4, <1>5, <1>6, <1>7, <1>8, <1>9 DEF Next, Read

\* Every step keeps the places of the window held.
LEMMA PlacesStep ==
  ASSUME LoopTypeOK, IdInv, PlacesHeld, [Next]_vars
  PROVE  PlacesHeld'
<1> DEFINE held(x) == CopiesOf(x, requests) + CopiesOf(x, responses)
           heldNext(x) == CopiesOf(x, requests') + CopiesOf(x, responses')
<1>0. /\ i \in 0 .. Outstanding /\ Outstanding \in Nat \ {0}
      /\ lost \in Nat /\ dups \in Nat /\ retries \in Nat
  BY ClosedLoopAssumption DEF LoopTypeOK, TypeOK
<1>1. \A x : CopiesOf(x, requests) \in Nat /\ CopiesOf(x, responses) \in Nat
  BY DEF LoopTypeOK, FiniteBag, IsABag, CopiesOf, BagIn, BagToSet
<1>2. SUFFICES ASSUME program' = "cliapp", lost' = 0, dups' = 0, retries' = 0
               PROVE  \A x \in 0 .. i' - 1 : heldNext(x) = 1
  BY DEF PlacesHeld, CopiesOf, BagIn, BagToSet
<1>3. ASSUME program = "cliapp", lost = 0, dups = 0, retries = 0
      PROVE  \A x \in 0 .. i - 1 : held(x) = 1
  BY <1>3 DEF PlacesHeld
<1>4. CASE Start
  <2>1. /\ program = "cliapp" /\ i < Outstanding /\ i' = i + 1
        /\ UNCHANGED <<responses, lost, dups, retries>>
    BY <1>4 DEF Start, history
  <2>2. request_id = i
    BY <2>1 DEF IdInv
  <2>3. \A x : heldNext(x) = held(x) + (IF x = i THEN 1 ELSE 0)
    <3>1. \A x : CopiesOf(x, requests') = CopiesOf(x, requests) + (IF x = i THEN 1 ELSE 0)
      BY <1>4, <2>2, ClientBags DEF Added
    <3> QED BY <1>1, <2>1, <3>1
  <2>4. held(i) = 0
    <3>1. i \notin 0 .. i - 1
      BY <1>0
    <3>2. i \notin BagToSet(requests) /\ i \notin BagToSet(responses)
      BY <2>1, <3>1 DEF IdInv
    <3> QED BY <3>2 DEF CopiesOf, BagIn
  <2>5. \A x \in 0 .. i - 1 : held(x) = 1
    BY <1>2, <1>3, <2>1
  <2> HIDE DEF held, heldNext
  <2>6. \A x \in 0 .. i' - 1 : x = i \/ (x # i /\ x \in 0 .. i - 1)
    BY <1>0, <2>1
  <2> QED BY <2>3, <2>4, <2>5, <2>6
<1>5. ASSUME NEW id \in BagToSet(responses), OnRead(id)
      PROVE  \A x \in 0 .. i' - 1 : heldNext(x) = 1
  <2>1. UNCHANGED <<program, i, lost, dups, retries>>
    BY <1>5 DEF OnRead, history
  <2>2. \A x : /\ CopiesOf(x, requests') = CopiesOf(x, requests) + (IF x = id THEN 1 ELSE 0)
               /\ CopiesOf(x, responses') = CopiesOf(x, responses) - (IF x = id THEN 1 ELSE 0)
    BY <1>5, ClientBags DEF Added, Taken
  <2>3. \A x : heldNext(x) = held(x)
    BY <1>1, <2>2
  <2> QED BY <1>2, <1>3, <2>1, <2>3
<1>6. ASSUME NEW id \in BagToSet(requests), NEW n \in 0 .. MaxDups, Serve(id, n)
      PROVE  \A x \in 0 .. i' - 1 : heldNext(x) = 1
  <2>1. dups' = dups + n /\ UNCHANGED <<program, i, lost, retries>>
    BY <1>6 DEF Serve, client
  <2>2. n = 0 /\ dups = 0
    BY <1>0, <1>2, <2>1, ClosedLoopAssumption
  <2>3. \A x : /\ CopiesOf(x, requests') = CopiesOf(x, requests) - (IF x = id THEN 1 ELSE 0)
               /\ CopiesOf(x, responses')
                    = CopiesOf(x, responses) + (IF x = id THEN n + 1 ELSE 0)
    BY <1>6, NetworkBags DEF Added, Taken
  <2>4. \A x : heldNext(x) = held(x)
    BY <1>1, <2>2, <2>3
  <2> QED BY <1>2, <1>3, <2>1, <2>2, <2>4
<1>7. CASE Timeout \/ Lose \/ Duplicate
  <2>1. retries' = retries + 1 \/ lost' = lost + 1 \/ dups' = dups + 1
    BY <1>7 DEF Timeout, OnTimeout, UdpOnTimeout, TimedOut, Lose, Duplicate
  <2> QED BY <1>0, <1>2, <2>1
<1>8. ~UdpStart /\ \A n \in 1 .. Outstanding : ~UdpOnRead(n)
  BY <1>2 DEF UdpStart, UdpOnRead, client
<1>9. CASE UNCHANGED vars
  BY <1>2, <1>3, <1>9 DEF vars, client, history
<1> HIDE DEF held, heldNext
<1> QED BY <1>4, <1>5, <1>6, <1>7, <1>8, <1>9 DEF Next, Read

(***************************************************************************)
(* The ids under way name places of the window, and while nothing is lost, *)
(* duplicated or sent again each place is held by exactly one request or   *)
(* response, for every window.                                             *)
(***************************************************************************)
THEOREM IdsArePlacesTheorem == Spec => []IdsArePlaces
<1>1. Init => IdInv /\ PlacesHeld
  <2> SUFFICES ASSUME Init PROVE IdInv /\ PlacesHeld
    OBVIOUS
  <2>1. BagToSet(requests) = {} /\ BagToSet(responses) = {}
    BY LoopInitType
  <2>2. i = 0 /\ request_id = 0 /\ datagram = 0 /\ 0 .. i - 1 = {} /\ ~(i > 0)
    BY DEF Init
  <2> QED BY <2>1, <2>2 DEF IdInv, PlacesHeld
<1>2. LoopTypeOK /\ IdInv /\ [Next]_vars => IdInv'
  BY IdStep
<1>3. LoopTypeOK /\ IdInv /\ PlacesHeld /\ [Next]_vars => PlacesHeld'
  BY PlacesStep
<1>4. ASSUME LoopTypeOK, IdInv, PlacesHeld
      PROVE  IdsArePlaces
  <2>1. 0 .. i - 1 \subseteq 0 .. Outstanding - 1 /\ 0 \in 0 .. Outstanding - 1
    BY <1>4, ClosedLoopAssumption DEF LoopTypeOK, TypeOK
  <2>2. BagToSet(requests) \cup BagToSet(responses) \subseteq 0 .. Outstanding - 1
    BY <1>4, <2>1 DEF LoopTypeOK, TypeOK, IdInv
  <2> QED BY <1>4, <2>2 DEF IdsArePlaces, PlacesHeld
<1> QED BY <1>1, <1>2, <1>3, <1>4, LoopTypes, PTL DEF Spec

=============================================================================
