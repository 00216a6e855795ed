--------------------------- MODULE KVMemoryProofs ---------------------------
(***************************************************************************)
(* Proofs about KVMemory, for every set of keys and values, every hash     *)
(* function and every table size: the table keeps its entries where        *)
(* HASH_FIND looks for them through additions, removals and expansions,    *)
(* and loses, invents and exchanges none.                                  *)
(***************************************************************************)
EXTENDS KVMemory, SequenceTheorems, FiniteSetTheorems, WellFoundedInduction, TLAPS

\* Entry e belongs to bucket b of m.
InBucket(e, m, b) == HashOf[e.key] % m = b

(***************************************************************************)
(* A chain of bucket b of m after n PUTs: its entries hash to b, and no    *)
(* two of them were written by one PUT.                                    *)
(***************************************************************************)
ChainOK(s, m, b, n) ==
  /\ s \in Seq(Entry)
  /\ \A p \in 1 .. Len(s) : InBucket(s[p], m, b) /\ s[p].at <= n
  /\ \A p, q \in 1 .. Len(s) : s[p].at = s[q].at => p = q

\* Of two entries of a key the one nearer to the head is not older.
LatestFirst(s) ==
  \A p, q \in 1 .. Len(s) : p < q /\ s[p].key = s[q].key => s[p].at >= s[q].at

\* The fields of a UT_hash_table.
IsTable(t) ==
  /\ t = [num_buckets |-> t.num_buckets, chains |-> t.chains,
          expand_mult |-> t.expand_mult, ineff_expands |-> t.ineff_expands,
          noexpand |-> t.noexpand]
  /\ t.num_buckets \in Nat \ {0} /\ t.num_buckets >= InitialBuckets
  /\ t.chains \in [Buckets(t) -> Seq(Entry)]
  /\ t.expand_mult \in [Buckets(t) -> Nat]
  /\ t.ineff_expands \in Nat /\ t.noexpand \in BOOLEAN

\* The table after n PUTs.
TableOK(t, n) ==
  /\ IsTable(t)
  /\ \A b \in Buckets(t) : ChainOK(t.chains[b], t.num_buckets, b, n)
  /\ t.num_buckets = InitialBuckets => \A b \in Buckets(t) : LatestFirst(t.chains[b])

\* An entry written over, and another chain in a bucket.
WriteAt(s, f, e) == [s EXCEPT ![f] = e]
WithChain(t, b, s) == [t EXCEPT !.chains[b] = s]

TableInv == puts \in 0 .. MaxPuts /\ TableOK(table, puts)

-----------------------------------------------------------------------------
(* Numbers *)

\* A set of numbers has a least one.
LEMMA FirstPlace ==
  ASSUME NEW I, I \subseteq Nat, I # {}
  PROVE  Min(I) \in I /\ \A y \in I : Min(I) <= y
<1>1. PICK x \in I : \A y \in I : ~ (<<y, x>> \in OpToRel(<, Nat))
  BY NatLessThanWellFounded, WFMin
<1>2. \A y \in I : ~(y < x)
  <2>1. \A y \in I : <<y, x>> \in Nat \X Nat /\ <<y, x>>[1] = y /\ <<y, x>>[2] = x
    OBVIOUS
  <2> QED BY <1>1, <2>1, Zenon DEF OpToRel
<1>3. \A y \in I : x <= y
  BY <1>2
<1> QED BY <1>3 DEF Min

\* Induction, for a property given as the set of numbers that have it.
LEMMA SetInduction ==
  ASSUME NEW S, 0 \in S, \A n \in Nat : n \in S => n + 1 \in S
  PROVE  Nat \subseteq S
<1> SUFFICES ASSUME Nat \ S # {} PROVE FALSE
  OBVIOUS
<1> DEFINE x == Min(Nat \ S)
<1>1. x \in Nat \ S /\ \A y \in Nat \ S : x <= y
  <2>1. Nat \ S \subseteq Nat
    OBVIOUS
  <2> QED BY <2>1, FirstPlace
<1> HIDE DEF x
<1>2. x # 0 /\ x - 1 \in Nat /\ ~(x <= x - 1) /\ (x - 1) + 1 = x
  BY <1>1
<1>3. x - 1 \in S
  BY <1>1, <1>2
<1> QED BY <1>1, <1>2, <1>3

\* Division with a remainder.
LEMMA DivMod ==
  ASSUME NEW h \in Nat, NEW d \in Nat \ {0}
  PROVE  /\ h \div d \in Nat /\ h % d \in 0 .. d - 1
         /\ h = d * (h \div d) + (h % d)
<1>1. h % d \in 0 .. d - 1
  OBVIOUS
<1>2. h = d * (h \div d) + (h % d)
  OBVIOUS
<1>3. h \div d \in Int /\ h \div d >= 0
  OBVIOUS
<1> QED BY <1>1, <1>2, <1>3

LEMMA NextMultiple ==
  ASSUME NEW d \in Nat \ {0}, NEW x \in Int, NEW y \in Int, x < y
  PROVE  d * x + d <= d * y
<1>1. d * (y - x - 1) >= 0
  OBVIOUS
<1>2. d * (y - x - 1) = d * y - d * x - d
  OBVIOUS
<1>3. d * x \in Int /\ d * y \in Int
  OBVIOUS
<1> QED BY <1>1, <1>2, <1>3

\* There is one remainder.
LEMMA ModUnique ==
  ASSUME NEW h \in Nat, NEW d \in Nat \ {0}, NEW q \in Int, NEW r \in 0 .. d - 1,
         h = d * q + r
  PROVE  h % d = r
<1> DEFINE u == h \div d
           v == h % d
<1>1. u \in Int /\ v \in 0 .. d - 1 /\ h = d * u + v
  BY DivMod
<1> HIDE DEF u, v
<1>2. d * q \in Int /\ d * u \in Int
  BY <1>1
<1>3. ~(q < u)
  <2>1. q < u => d * q + d <= d * u
    BY <1>1, NextMultiple
  <2> QED BY <1>1, <1>2, <2>1
<1>4. ~(u < q)
  <2>1. u < q => d * u + d <= d * q
    BY <1>1, NextMultiple
  <2> QED BY <1>1, <1>2, <2>1
<1>5. u = q
  BY <1>1, <1>3, <1>4
<1> QED BY <1>1, <1>2, <1>5 DEF v

\* A bucket is split in two when their number is doubled.
LEMMA Halved ==
  ASSUME NEW h \in Nat, NEW n \in Nat \ {0}
  PROVE  (h % (2 * n)) % n = h % n
<1> DEFINE d == 2 * n
           q == h \div d
           r == h % d
           p == r \div n
           w == r % n
<1>1. d \in Nat \ {0}
  OBVIOUS
<1> HIDE DEF d
<1>2. q \in Nat /\ r \in 0 .. d - 1 /\ h = d * q + r
  BY <1>1, DivMod
<1> HIDE DEF q, r
<1>0. r \in Nat
  BY <1>1, <1>2
<1>3. p \in Nat /\ w \in 0 .. n - 1 /\ r = n * p + w
  BY <1>0, DivMod
<1> HIDE DEF p, w
<1>4. h = n * (2 * q + p) + w
  <2>1. n * (2 * q + p) = d * q + n * p
    BY <1>2, <1>3 DEF d
  <2> DEFINE x == d * q
             y == n * p
  <2>2. x \in Int /\ y \in Int /\ w \in Int
    BY <1>1, <1>2, <1>3
  <2>3. h = x + r /\ r = y + w /\ n * (2 * q + p) = x + y
    BY <1>2, <1>3, <2>1
  <2> HIDE DEF x, y
  <2> QED BY <2>2, <2>3
<1>5. 2 * q + p \in Int
  BY <1>2, <1>3
<1>6. h % n = w
  BY <1>3, <1>4, <1>5, ModUnique
<1> QED BY <1>6 DEF w, r, d

\* The ideal length of a chain is not zero.
LEMMA Ceiling ==
  ASSUME NEW x \in Nat \ {0}, NEW d \in Nat \ {0}
  PROVE  (x + d - 1) \div d \in Nat \ {0}
<1> DEFINE y == x + d - 1
           q == y \div d
           r == y % d
<1>1. y \in Nat /\ y >= d
  OBVIOUS
<1>2. q \in Nat /\ r \in 0 .. d - 1 /\ y = d * q + r
  BY <1>1, DivMod
<1> HIDE DEF y, q, r
<1>3. q # 0
  BY <1>1, <1>2
<1> QED BY <1>2, <1>3 DEF q, y

-----------------------------------------------------------------------------
(* Chains *)

\* What HASH_FIND looks for in a chain.
First(s, k) == SelectInSeq(s, LAMBDA e : e.key = k)

LEMMA FirstFound ==
  ASSUME NEW s, NEW k, Len(s) \in Nat
  PROVE  \/ /\ First(s, k) = 0
            /\ \A p \in 1 .. Len(s) : s[p].key # k
         \/ /\ First(s, k) \in 1 .. Len(s) /\ s[First(s, k)].key = k
            /\ \A p \in 1 .. Len(s) : s[p].key = k => First(s, k) <= p
<1> DEFINE I == {p \in 1 .. Len(s) : s[p].key = k}
<1>1. First(s, k) = IF I # {} THEN Min(I) ELSE 0
  BY DEF First, SelectInSeq
<1>2. CASE I = {}
  BY <1>1, <1>2
<1>3. CASE I # {}
  <2>1. I \subseteq Nat
    OBVIOUS
  <2>2. Min(I) \in I /\ \A y \in I : Min(I) <= y
    BY <1>3, <2>1, FirstPlace
  <2> QED BY <1>1, <1>3, <2>2
<1> QED BY <1>2, <1>3

\* The entries of a chain.
LEMMA ChainEntries ==
  ASSUME NEW m, NEW b, NEW n, NEW s, ChainOK(s, m, b, n)
  PROVE  /\ s \in Seq(Entry) /\ Len(s) \in Nat
         /\ Range(s) = {s[p] : p \in 1 .. Len(s)} /\ Range(s) \subseteq Entry
         /\ \A p \in 1 .. Len(s) : s[p] \in Entry /\ s[p].at \in Nat /\ s[p].at <= n
                                   /\ InBucket(s[p], m, b)
         /\ \A e \in Range(s) : InBucket(e, m, b) /\ e.at <= n
<1>1. s \in Seq(Entry) /\ Len(s) \in Nat /\ DOMAIN s = 1 .. Len(s)
  BY DEF ChainOK
<1>2. \A p \in 1 .. Len(s) : s[p] \in Entry
  BY <1>1
<1>3. \A e \in Entry : e.at \in Nat
  BY DEF Entry
<1>4. Range(s) = {s[p] : p \in 1 .. Len(s)}
  BY <1>1, Zenon DEF Range
<1>5. \A p \in 1 .. Len(s) : s[p].at <= n /\ InBucket(s[p], m, b)
  BY Zenon DEF ChainOK
<1>6. \A e \in Range(s) : InBucket(e, m, b) /\ e.at <= n
  BY <1>4, <1>5, Zenon
<1> QED BY <1>1, <1>2, <1>3, <1>4, <1>5, <1>6

\* A chain is in order after further PUTs.
LEMMA ChainLater ==
  ASSUME NEW m, NEW b, NEW n \in Nat, NEW l \in Nat, n <= l, NEW s, ChainOK(s, m, b, n)
  PROVE  ChainOK(s, m, b, l)
<1>1. \A p \in 1 .. Len(s) : s[p].at \in Nat /\ s[p].at <= n
  BY ChainEntries
<1>2. \A p \in 1 .. Len(s) : s[p].at <= l
  BY <1>1
<1> QED BY <1>2, Zenon DEF ChainOK

LEMMA ConsPlaces ==
  ASSUME NEW s \in Seq(Entry), NEW e \in Entry
  PROVE  LET c == Cons(e, s)
         IN  /\ c \in Seq(Entry) /\ Len(c) = Len(s) + 1 /\ Len(s) \in Nat
             /\ 1 \in 1 .. Len(c) /\ c[1] = e
             /\ \A p \in 1 .. Len(s) : p + 1 \in 1 .. Len(c) /\ c[p + 1] = s[p]
             /\ \A p \in 1 .. Len(c) : p = 1 \/ (p - 1 \in 1 .. Len(s) /\ c[p] = s[p - 1])
<1> DEFINE c == Cons(e, s)
<1>1. <<e>> \in Seq(Entry) /\ Len(<<e>>) = 1 /\ <<e>>[1] = e
  OBVIOUS
<1>2. /\ c \in Seq(Entry) /\ Len(c) = Len(s) + 1 /\ Len(s) \in Nat
      /\ c[1] = e /\ \A p \in 1 .. Len(s) : c[p + 1] = s[p]
  BY <1>1 DEF Cons
<1>3. \A p \in 1 .. Len(c) : p = 1 \/ (p - 1 \in 1 .. Len(s) /\ c[p] = s[p - 1])
  <2> SUFFICES ASSUME NEW p \in 1 .. Len(c), p # 1
               PROVE  p - 1 \in 1 .. Len(s) /\ c[p] = s[p - 1]
    OBVIOUS
  <2>1. p - 1 \in 1 .. Len(s) /\ p = (p - 1) + 1
    BY <1>2
  <2> QED BY <1>2, <2>1
<1> HIDE DEF c
<1>4. 1 \in 1 .. Len(c) /\ \A p \in 1 .. Len(s) : p + 1 \in 1 .. Len(c)
  BY <1>2
<1> QED BY <1>2, <1>3, <1>4 DEF c

\* An entry that no PUT of the chain wrote is put at the head.
LEMMA ChainCons ==
  ASSUME NEW m, NEW b, NEW n \in Nat, NEW l \in Nat, n <= l, NEW s, ChainOK(s, m, b, n),
         NEW e \in Entry, e.at <= l, InBucket(e, m, b), \A x \in Range(s) : x.at # e.at
  PROVE  /\ ChainOK(Cons(e, s), m, b, l)
         /\ Range(Cons(e, s)) = Range(s) \cup {e}
<1> DEFINE c == Cons(e, s)
<1>1. s \in Seq(Entry) /\ Range(s) = {s[p] : p \in 1 .. Len(s)}
  BY ChainEntries
<1>2. /\ c \in Seq(Entry) /\ Len(c) = Len(s) + 1 /\ Len(s) \in Nat
      /\ 1 \in 1 .. Len(c) /\ c[1] = e
      /\ \A p \in 1 .. Len(s) : p + 1 \in 1 .. Len(c) /\ c[p + 1] = s[p]
      /\ \A p \in 1 .. Len(c) : p = 1 \/ (p - 1 \in 1 .. Len(s) /\ c[p] = s[p - 1])
  BY <1>1, ConsPlaces
<1> HIDE DEF c
<1>3. ChainOK(s, m, b, l)
  BY ChainLater
<1>4. \A p \in 1 .. Len(s) : InBucket(s[p], m, b) /\ s[p].at <= l /\ s[p].at # e.at
  BY <1>1, <1>3 DEF ChainOK
<1>5. \A p \in 1 .. Len(c) : InBucket(c[p], m, b) /\ c[p].at <= l
  BY <1>2, <1>4, Zenon
<1>6. ASSUME NEW p \in 1 .. Len(c), NEW q \in 1 .. Len(c), c[p].at = c[q].at
      PROVE  p = q
  <2>1. CASE p = 1 \/ q = 1
    BY <1>2, <1>4, <1>6, <2>1, Zenon
  <2>2. CASE p # 1 /\ q # 1
    <3>1. p - 1 \in 1 .. Len(s) /\ q - 1 \in 1 .. Len(s)
          /\ s[p - 1].at = s[q - 1].at
      BY <1>2, <1>6, <2>2, Zenon
    <3>2. p - 1 = q - 1
      BY <3>1, Zenon DEF ChainOK
    <3> QED BY <1>2, <3>2
  <2> QED BY <2>1, <2>2
<1>7. ChainOK(c, m, b, l)
  BY <1>2, <1>5, <1>6, Zenon DEF ChainOK
<1>8. Range(c) = {c[p] : p \in 1 .. Len(c)}
  BY <1>7, ChainEntries
<1>9. Range(c) = Range(s) \cup {e}
  <2>1. \A p \in 1 .. Len(c) : c[p] = e \/ \E q \in 1 .. Len(s) : c[p] = s[q]
    BY <1>2, Zenon
  <2>2. \A p \in 1 .. Len(s) : \E q \in 1 .. Len(c) : s[p] = c[q]
    BY <1>2, Zenon
  <2>3. Range(c) \subseteq Range(s) \cup {e}
    BY <1>1, <1>8, <2>1, Zenon
  <2>4. Range(s) \cup {e} \subseteq Range(c)
    BY <1>1, <1>2, <1>8, <2>2, Zenon
  <2> QED BY <2>3, <2>4
<1> QED BY <1>7, <1>9 DEF c

LEMMA ConsLatest ==
  ASSUME NEW m, NEW b, NEW n \in Nat, NEW s, ChainOK(s, m, b, n), LatestFirst(s),
         NEW e \in Entry, e.at = n + 1
  PROVE  LatestFirst(Cons(e, s))
<1> DEFINE c == Cons(e, s)
<1>1. s \in Seq(Entry) /\ \A p \in 1 .. Len(s) : s[p].at \in Nat /\ s[p].at <= n
  BY ChainEntries
<1>2. /\ Len(c) = Len(s) + 1 /\ Len(s) \in Nat /\ c[1] = e
      /\ \A p \in 1 .. Len(c) : p = 1 \/ (p - 1 \in 1 .. Len(s) /\ c[p] = s[p - 1])
  BY <1>1, ConsPlaces
<1> HIDE DEF c
<1>3. ASSUME NEW p \in 1 .. Len(c), NEW q \in 1 .. Len(c), p < q, c[p].key = c[q].key
      PROVE  c[p].at >= c[q].at
  <2>1. q - 1 \in 1 .. Len(s) /\ c[q] = s[q - 1]
    BY <1>2, <1>3
  <2>2. CASE p = 1
    BY <1>1, <1>2, <2>1, <2>2
  <2>3. CASE p # 1
    <3>1. p - 1 \in 1 .. Len(s) /\ c[p] = s[p - 1] /\ p - 1 < q - 1
      BY <1>2, <1>3, <2>3
    <3> QED BY <1>3, <2>1, <3>1 DEF LatestFirst
  <2> QED BY <2>2, <2>3
<1> QED BY <1>3 DEF LatestFirst, c

\* The first entry of a key is written over by the PUT after n others.
LEMMA ChainReplace ==
  ASSUME NEW m, NEW b, NEW n \in Nat, NEW s, ChainOK(s, m, b, n), NEW e \in Entry,
         e.at = n + 1, First(s, e.key) # 0
  PROVE  LET f == First(s, e.key)
             c == WriteAt(s, f, e)
         IN  /\ ChainOK(c, m, b, n + 1) /\ (LatestFirst(s) => LatestFirst(c))
             /\ Range(c) = (Range(s) \ {s[f]}) \cup {e}
             /\ s[f] \in Range(s) /\ s[f].key = e.key
<1> DEFINE f == First(s, e.key)
           c == WriteAt(s, f, e)
<1>1. s \in Seq(Entry) /\ Len(s) \in Nat /\ Range(s) = {s[p] : p \in 1 .. Len(s)}
  BY ChainEntries
<1>2. /\ f \in 1 .. Len(s) /\ s[f].key = e.key
      /\ \A p \in 1 .. Len(s) : s[p].key = e.key => f <= p
  BY <1>1, FirstFound
<1> HIDE DEF f
<1>3. /\ c \in Seq(Entry) /\ Len(c) = Len(s)
      /\ \A p \in 1 .. Len(s) : c[p] = IF p = f THEN e ELSE s[p]
  BY <1>1, <1>2 DEF WriteAt
<1> HIDE DEF c
<1>4. \A p \in 1 .. Len(s) : s[p].at \in Nat /\ s[p].at <= n /\ InBucket(s[p], m, b)
  BY ChainEntries
<1>5. \A p \in 1 .. Len(s) : s[p].at <= n + 1 /\ s[p].at # e.at
  BY <1>4
<1>6. \A p \in 1 .. Len(c) : InBucket(c[p], m, b) /\ c[p].at <= n + 1
  <2>1. InBucket(e, m, b)
    BY <1>2, <1>4, Zenon DEF InBucket
  <2>2. e.at <= n + 1
    OBVIOUS
  <2> QED BY <1>3, <1>4, <1>5, <2>1, <2>2, Zenon
<1>7. \A p, q \in 1 .. Len(c) : c[p].at = c[q].at => p = q
  BY <1>3, <1>5, Zenon DEF ChainOK
<1>8. ChainOK(c, m, b, n + 1)
  BY <1>3, <1>6, <1>7, Zenon DEF ChainOK
<1>9. ASSUME LatestFirst(s), NEW p \in 1 .. Len(c), NEW q \in 1 .. Len(c),
             p < q, c[p].key = c[q].key
      PROVE  c[p].at >= c[q].at
  <2>1. q # f
    BY <1>1, <1>2, <1>3, <1>9
  <2>2. CASE p = f
    BY <1>3, <1>4, <2>1, <2>2
  <2>3. CASE p # f
    BY <1>3, <1>9, <2>1, <2>3 DEF LatestFirst
  <2> QED BY <2>2, <2>3
<1>10. Range(c) = (Range(s) \ {s[f]}) \cup {e}
  <2>1. Range(c) = {c[p] : p \in 1 .. Len(c)}
    BY <1>8, ChainEntries
  <2>2. \A p \in 1 .. Len(s) : s[p] = s[f] => p = f
    BY <1>2 DEF ChainOK
  <2>3. \A p \in 1 .. Len(c) : c[p] = e \/ (c[p] # s[f] /\ \E q \in 1 .. Len(s) : c[p] = s[q])
    BY <1>3, <2>2, Zenon
  <2>4. \A p \in 1 .. Len(s) : s[p] = s[f] \/ \E q \in 1 .. Len(c) : s[p] = c[q]
    BY <1>3, Zenon
  <2>5. Range(c) \subseteq (Range(s) \ {s[f]}) \cup {e}
    BY <1>1, <2>1, <2>3, Zenon
  <2>6. Range(s) \ {s[f]} \subseteq Range(c)
    BY <1>1, <2>1, <2>4, Zenon
  <2>7. e \in Range(c)
    BY <1>2, <1>3, <2>1
  <2> QED BY <2>5, <2>6, <2>7
<1>11. s[f] \in Range(s)
  BY <1>1, <1>2
<1>12. LatestFirst(s) => LatestFirst(c)
  BY <1>9 DEF LatestFirst
<1> QED BY <1>2, <1>8, <1>10, <1>11, <1>12 DEF c, f

\* An entry is taken out.
LEMMA ChainRemove ==
  ASSUME NEW m, NEW b, NEW n, NEW s, ChainOK(s, m, b, n), NEW f \in 1 .. Len(s)
  PROVE  LET c == RemoveAt(s, f)
         IN  /\ ChainOK(c, m, b, n) /\ (LatestFirst(s) => LatestFirst(c))
             /\ Range(c) = Range(s) \ {s[f]} /\ s[f] \in Range(s)
<1> DEFINE u == SubSeq(s, 1, f - 1)
           v == SubSeq(s, f + 1, Len(s))
           c == u \o v
           at(p) == IF p < f THEN p ELSE p + 1
<1>1. s \in Seq(Entry) /\ Len(s) \in Nat /\ Range(s) = {s[p] : p \in 1 .. Len(s)}
  BY ChainEntries
<1>2. /\ u \in Seq(Entry) /\ Len(u) = f - 1
      /\ v \in Seq(Entry) /\ Len(v) = Len(s) - f
      /\ \A p \in 1 .. f - 1 : u[p] = s[p]
      /\ \A p \in 1 .. Len(s) - f : v[p] = s[p + f]
  BY <1>1
<1> HIDE DEF u, v
<1>3. /\ c \in Seq(Entry) /\ Len(c) = Len(s) - 1
      /\ \A p \in 1 .. Len(c) : c[p] = IF p <= f - 1 THEN u[p] ELSE v[p - (f - 1)]
  <2>1. /\ Len(c) = Len(u) + Len(v) /\ c \in Seq(Entry)
        /\ \A p \in 1 .. Len(u) + Len(v) :
             c[p] = IF p <= Len(u) THEN u[p] ELSE v[p - Len(u)]
    BY <1>2, ConcatProperties, Zenon
  <2>2. Len(u) + Len(v) = Len(s) - 1
    BY <1>1, <1>2
  <2> QED BY <1>2, <2>1, <2>2
<1>4. \A p \in 1 .. Len(c) : c[p] = s[at(p)]
  <2> SUFFICES ASSUME NEW p \in 1 .. Len(c)
               PROVE  c[p] = s[at(p)]
    OBVIOUS
  <2>1. CASE p < f
    BY <1>1, <1>2, <1>3, <2>1
  <2>2. CASE ~(p < f)
    <3>1. p - (f - 1) \in 1 .. Len(s) - f /\ (p - (f - 1)) + f = p + 1 /\ p > f - 1
      BY <1>1, <1>3, <2>2
    <3>2. c[p] = v[p - (f - 1)]
      BY <1>1, <1>2, <1>3, <3>1
    <3> QED BY <1>2, <2>2, <3>1, <3>2
  <2> QED BY <2>1, <2>2
<1> HIDE DEF c
<1>5. \A p \in 1 .. Len(c) : at(p) \in 1 .. Len(s) /\ at(p) # f
  BY <1>1, <1>3
<1>6. \A p, q \in 1 .. Len(c) : (p < q => at(p) < at(q)) /\ (at(p) = at(q) => p = q)
  BY <1>1, <1>3
<1>7. \A p \in 1 .. Len(s) : p = f \/ \E q \in 1 .. Len(c) : at(q) = p
  <2> SUFFICES ASSUME NEW p \in 1 .. Len(s), p # f PROVE \E q \in 1 .. Len(c) : at(q) = p
    OBVIOUS
  <2> DEFINE q == IF p < f THEN p ELSE p - 1
  <2>1. q \in 1 .. Len(c) /\ at(q) = p
    BY <1>1, <1>3
  <2> QED BY <2>1
<1> HIDE DEF at
<1>8. ChainOK(c, m, b, n)
  <2>1. \A p \in 1 .. Len(c) : InBucket(c[p], m, b) /\ c[p].at <= n
    BY <1>4, <1>5, Zenon DEF ChainOK
  <2>2. \A p, q \in 1 .. Len(c) : c[p].at = c[q].at => p = q
    BY <1>4, <1>5, <1>6, Zenon DEF ChainOK
  <2> QED BY <1>3, <2>1, <2>2, Zenon DEF ChainOK
<1>9. LatestFirst(s) => LatestFirst(c)
  BY <1>4, <1>5, <1>6, Zenon DEF LatestFirst
<1>10. Range(c) = Range(s) \ {s[f]}
  <2>1. Range(c) = {c[p] : p \in 1 .. Len(c)}
    BY <1>8, ChainEntries
  <2>2. \A p \in 1 .. Len(s) : s[p] = s[f] => p = f
    BY DEF ChainOK
  <2>3. \A p \in 1 .. Len(c) : c[p] # s[f] /\ \E q \in 1 .. Len(s) : c[p] = s[q]
    BY <1>4, <1>5, <2>2, Zenon
  <2>4. \A p \in 1 .. Len(s) : s[p] = s[f] \/ \E q \in 1 .. Len(c) : s[p] = c[q]
    BY <1>4, <1>7, Zenon
  <2>5. Range(c) \subseteq Range(s) \ {s[f]}
    BY <1>1, <2>1, <2>3, Zenon
  <2>6. Range(s) \ {s[f]} \subseteq Range(c)
    BY <1>1, <2>1, <2>4, Zenon
  <2> QED BY <2>5, <2>6
<1> QED BY <1>1, <1>8, <1>9, <1>10 DEF RemoveAt, c, u, v

-----------------------------------------------------------------------------
(* Redistribution of a chain *)

\* g[p] is the new chain of bucket b of m when p entries of s have been looked at.
Walks(s, m, b, n, g) ==
  g = [p \in 0 .. n |-> IF p = 0 THEN << >>
                        ELSE IF HashOf[s[p].key] % m = b THEN Cons(s[p], g[p - 1])
                        ELSE g[p - 1]]

\* The entries of bucket b of m among the first i of s.
Among(s, m, b, i) == {e \in {s[p] : p \in 1 .. i} : InBucket(e, m, b)}

LEMMA WalkExists ==
  ASSUME NEW s, NEW m, NEW b, NEW n \in Nat
  PROVE  \E g : Walks(s, m, b, n, g)
<1> DEFINE S == {j \in Nat : \E g : Walks(s, m, b, j, g)}
<1>1. 0 \in S
  <2> DEFINE g == [p \in 0 .. 0 |-> << >>]
  <2>1. \A p \in 0 .. 0 : p = 0
    OBVIOUS
  <2>2. Walks(s, m, b, 0, g)
    BY <2>1, Zenon DEF Walks
  <2> QED BY <2>2
<1>2. ASSUME NEW j \in Nat, j \in S PROVE j + 1 \in S
  <2>1. PICK g : Walks(s, m, b, j, g)
    BY <1>2
  <2> DEFINE last == IF HashOf[s[j + 1].key] % m = b THEN Cons(s[j + 1], g[j]) ELSE g[j]
             h == [p \in 0 .. j + 1 |-> IF p = j + 1 THEN last ELSE g[p]]
  <2>2. j + 1 \in 0 .. j + 1 /\ j + 1 # 0 /\ (j + 1) - 1 = j
    OBVIOUS
  <2>3. \A p \in 0 .. j + 1 : p # j + 1 =>
          p \in 0 .. j /\ (p # 0 => p - 1 \in 0 .. j + 1 /\ p - 1 # j + 1)
    OBVIOUS
  <2>4. j \in 0 .. j + 1 /\ j # j + 1
    OBVIOUS
  <2>5. \A p \in 0 .. j : g[p] = IF p = 0 THEN << >>
                        ELSE IF HashOf[s[p].key] % m = b THEN Cons(s[p], g[p - 1])
                        ELSE g[p - 1]
    BY <2>1, Zenon DEF Walks
  <2>6. ASSUME NEW p \in 0 .. j + 1
        PROVE  h[p] = IF p = 0 THEN << >>
                      ELSE IF HashOf[s[p].key] % m = b THEN Cons(s[p], h[p - 1])
                      ELSE h[p - 1]
    <3>1. CASE p = j + 1
      <4>1. h[p] = last /\ p - 1 = j /\ h[j] = g[j] /\ p # 0
        BY <2>2, <2>4, <3>1
      <4> HIDE DEF h
      <4> QED BY <3>1, <4>1, Zenon
    <3>2. CASE p # j + 1
      <4>1. h[p] = g[p] /\ (p # 0 => h[p - 1] = g[p - 1])
        BY <2>3, <3>2
      <4>2. p \in 0 .. j
        BY <2>3, <3>2
      <4> HIDE DEF h
      <4> QED BY <2>5, <4>1, <4>2, Zenon
    <3> QED BY <3>1, <3>2
  <2>7. h = [p \in 0 .. j + 1 |-> h[p]]
    OBVIOUS
  <2> HIDE DEF h
  <2>8. Walks(s, m, b, j + 1, h)
    BY <2>6, <2>7, Zenon DEF Walks
  <2> QED BY <2>8
<1> HIDE DEF S
<1>3. Nat \subseteq S
  BY <1>1, <1>2, SetInduction
<1> QED BY <1>3 DEF S

\* The walk: at every place the new chain is in order and has the entries of b
\* among those looked at.
LEMMA WalkPlace ==
  ASSUME NEW s, NEW m, NEW b, NEW m0, NEW b0, NEW n \in Nat, ChainOK(s, m0, b0, n),
         NEW g, Walks(s, m, b, Len(s), g), NEW j \in 0 .. Len(s)
  PROVE  ChainOK(g[j], m, b, n) /\ Range(g[j]) = Among(s, m, b, j)
<1> USE DEF Among
<1> DEFINE P(i) == ChainOK(g[i], m, b, n) /\ Range(g[i]) = Among(s, m, b, i)
           S == {i \in Nat : i <= Len(s) => P(i)}
<1>1. s \in Seq(Entry) /\ Len(s) \in Nat
      /\ \A p \in 1 .. Len(s) : s[p] \in Entry /\ s[p].at \in Nat /\ s[p].at <= n
  BY ChainEntries
<1>2. \A i \in 0 .. Len(s) : g[i] = IF i = 0 THEN << >>
                        ELSE IF HashOf[s[i].key] % m = b THEN Cons(s[i], g[i - 1])
                        ELSE g[i - 1]
  BY Zenon DEF Walks
<1>3. 0 \in S
  <2>1. g[0] = << >>
    BY <1>1, <1>2
  <2>2. ChainOK(<< >>, m, b, n)
    BY DEF ChainOK
  <2>3. Range(<< >>) = {}
    BY <2>2, ChainEntries
  <2>4. {s[p] : p \in 1 .. 0} = {}
    OBVIOUS
  <2> QED BY <2>1, <2>2, <2>3, <2>4
<1>4. ASSUME NEW i \in Nat, i \in S PROVE i + 1 \in S
  <2> SUFFICES ASSUME i + 1 <= Len(s) PROVE P(i + 1)
    OBVIOUS
  <2>1. P(i)
    BY <1>1, <1>4
  <2>2. i + 1 \in 0 .. Len(s) /\ i + 1 \in 1 .. Len(s) /\ i + 1 # 0 /\ (i + 1) - 1 = i
    BY <1>1
  <2> DEFINE x == s[i + 1]
  <2>3. g[i + 1] = IF InBucket(x, m, b) THEN Cons(x, g[i]) ELSE g[i]
    BY <1>2, <2>2, Zenon DEF InBucket
  <2>4. {s[p] : p \in 1 .. i + 1} = {s[p] : p \in 1 .. i} \cup {x}
    <3>1. 1 .. i + 1 = (1 .. i) \cup {i + 1}
      OBVIOUS
    <3> QED BY <3>1, Zenon
  <2>5. x \in Entry /\ x.at <= n
    BY <1>1, <2>2
  <2>6. \A y \in Range(g[i]) : y.at # x.at
    <3> SUFFICES ASSUME NEW p \in 1 .. i PROVE s[p].at # x.at
      BY <2>1
    <3>1. p \in 1 .. Len(s) /\ p # i + 1
      BY <1>1, <2>2
    <3> QED BY <2>2, <3>1, Zenon DEF ChainOK
  <2> HIDE DEF x
  <2>7. CASE InBucket(x, m, b)
    <3>0. n <= n
      OBVIOUS
    <3>1. /\ ChainOK(Cons(x, g[i]), m, b, n)
          /\ Range(Cons(x, g[i])) = Range(g[i]) \cup {x}
      <4>1. ChainOK(g[i], m, b, n)
        BY <2>1
      <4> DEFINE w == g[i]
      <4> HIDE DEF w, P, S
      <4>2. ChainOK(w, m, b, n) /\ \A y \in Range(w) : y.at # x.at
        BY <2>6, <4>1 DEF w
      <4>3. ChainOK(Cons(x, w), m, b, n) /\ Range(Cons(x, w)) = Range(w) \cup {x}
        BY <2>5, <2>7, <3>0, <4>2, ChainCons
      <4> QED BY <4>3 DEF w
    <3> QED BY <2>1, <2>3, <2>4, <2>7, <3>1
  <2>8. CASE ~InBucket(x, m, b)
    BY <2>1, <2>3, <2>4, <2>8
  <2> QED BY <2>7, <2>8
<1> HIDE DEF S
<1>5. Nat \subseteq S
  BY <1>3, <1>4, SetInduction
<1>6. j \in Nat /\ j <= Len(s)
  BY <1>1
<1> QED BY <1>5, <1>6 DEF S

\* The new chain is in order and has the entries of b of the old one.
LEMMA Redistributed ==
  ASSUME NEW s, NEW m, NEW b, NEW m0, NEW b0, NEW n \in Nat, ChainOK(s, m0, b0, n)
  PROVE  /\ ChainOK(Redistribute(s, m, b), m, b, n)
         /\ \A e : e \in Range(Redistribute(s, m, b)) <=> e \in Range(s) /\ InBucket(e, m, b)
<1> DEFINE g == CHOOSE h : Walks(s, m, b, Len(s), h)
<1>1. Redistribute(s, m, b) = g[Len(s)]
  BY Zenon DEF Redistribute, Walks
<1>2. Len(s) \in Nat /\ Range(s) = {s[p] : p \in 1 .. Len(s)}
  BY ChainEntries
<1>3. Walks(s, m, b, Len(s), g)
  BY <1>2, WalkExists, Zenon
<1> HIDE DEF g
<1>4. Len(s) \in 0 .. Len(s)
  BY <1>2
<1>5. ChainOK(g[Len(s)], m, b, n) /\ Range(g[Len(s)]) = Among(s, m, b, Len(s))
  BY <1>3, <1>4, WalkPlace
<1> QED BY <1>1, <1>2, <1>5 DEF Among

-----------------------------------------------------------------------------
(* Tables *)

AllEntries(t) == UNION {Range(t.chains[b]) : b \in Buckets(t)}

LEMMA EntriesOfKey ==
  ASSUME NEW t, NEW k
  PROVE  EntriesOf(t, k) = {e \in AllEntries(t) : e.key = k}
  BY DEF EntriesOf, AllEntries

LEMMA BucketIn ==
  ASSUME NEW t, IsTable(t), NEW k \in Keys
  PROVE  BucketOf(t, k) \in Buckets(t)
<1>1. HashOf[k] \in Nat /\ t.num_buckets \in Nat \ {0}
  BY KVMemoryAssumption DEF IsTable
<1> QED BY <1>1, DivMod DEF BucketOf, Buckets

\* The chain that HASH_FIND searches.
LEMMA FindInChain ==
  ASSUME NEW t, NEW k, k # NoKey
  PROVE  HASH_FIND(t, k) = First(t.chains[BucketOf(t, k)], k)
  BY Zenon DEF HASH_FIND, First

\* HASH_FIND finds an entry of the key if the table has one.
LEMMA Finds ==
  ASSUME NEW n, NEW t, TableOK(t, n), NEW k \in Keys
  PROVE  LET b == BucketOf(t, k)
             f == HASH_FIND(t, k)
         IN  /\ f = First(t.chains[b], k)
             /\ f # 0 => /\ f \in 1 .. Len(t.chains[b])
                         /\ Found(t, k) = t.chains[b][f]
                         /\ Found(t, k) \in EntriesOf(t, k)
             /\ f = 0 => EntriesOf(t, k) = {}
<1> DEFINE b == BucketOf(t, k)
           s == t.chains[b]
           f == First(s, k)
<1>1. IsTable(t) /\ b \in Buckets(t)
  BY BucketIn DEF TableOK
<1>2. ChainOK(s, t.num_buckets, b, n)
  BY <1>1 DEF TableOK
<1>3. Len(s) \in Nat /\ Range(s) = {s[p] : p \in 1 .. Len(s)}
  BY <1>2, ChainEntries
<1>4. HASH_FIND(t, k) = f /\ Found(t, k) = s[f]
  BY KVMemoryAssumption, FindInChain DEF Found
<1>5. \/ f = 0 /\ \A p \in 1 .. Len(s) : s[p].key # k
      \/ f \in 1 .. Len(s) /\ f # 0 /\ s[f].key = k
  <2>1. \A p \in 1 .. Len(s) : p # 0
    OBVIOUS
  <2> QED BY <1>3, <2>1, FirstFound
<1>6. ASSUME NEW e \in EntriesOf(t, k) PROVE e \in Range(s) /\ e.key = k
  <2>1. PICK c \in Buckets(t) : e \in Range(t.chains[c]) /\ e.key = k
    BY DEF EntriesOf
  <2>2. ChainOK(t.chains[c], t.num_buckets, c, n)
    BY DEF TableOK
  <2>3. InBucket(e, t.num_buckets, c)
    BY <2>1, <2>2, ChainEntries
  <2>4. c = b
    BY <2>1, <2>3, Zenon DEF InBucket, BucketOf
  <2> QED BY <2>1, <2>4
<1>7. f # 0 => s[f] \in EntriesOf(t, k)
  <2>1. f # 0 => s[f] \in Range(s) /\ s[f].key = k
    BY <1>3, <1>5
  <2> HIDE DEF f, s
  <2> QED BY <1>1, <2>1 DEF EntriesOf, s
<1>8. f = 0 => EntriesOf(t, k) = {}
  BY <1>3, <1>5, <1>6
<1> QED BY <1>4, <1>5, <1>7, <1>8

\* Another chain in one bucket.
LEMMA OneChain ==
  ASSUME NEW n \in Nat, NEW l \in Nat, n <= l, NEW t, TableOK(t, n),
         NEW b \in Buckets(t), NEW s, ChainOK(s, t.num_buckets, b, l),
         LatestFirst(t.chains[b]) => LatestFirst(s)
  PROVE  LET u == WithChain(t, b, s)
         IN  /\ TableOK(u, l)
             /\ AllEntries(u) = (AllEntries(t) \ Range(t.chains[b])) \cup Range(s)
<1> DEFINE u == WithChain(t, b, s)
<1>1. IsTable(t)
  BY DEF TableOK
<1>2. /\ u = [num_buckets |-> u.num_buckets, chains |-> u.chains,
              expand_mult |-> u.expand_mult, ineff_expands |-> u.ineff_expands,
              noexpand |-> u.noexpand]
      /\ u.num_buckets = t.num_buckets /\ u.expand_mult = t.expand_mult
      /\ u.ineff_expands = t.ineff_expands /\ u.noexpand = t.noexpand
      /\ u.chains = [t.chains EXCEPT ![b] = s]
  <2>1. t = [num_buckets |-> t.num_buckets, chains |-> t.chains,
             expand_mult |-> t.expand_mult, ineff_expands |-> t.ineff_expands,
             noexpand |-> t.noexpand]
    BY <1>1, Zenon DEF IsTable
  <2> QED BY <2>1 DEF WithChain
<1>3. Buckets(u) = Buckets(t)
  BY <1>2 DEF Buckets
<1> HIDE DEF u
<1>4. \A c \in Buckets(t) : u.chains[c] = IF c = b THEN s ELSE t.chains[c]
  BY <1>1, <1>2 DEF IsTable
<1>5. u.chains \in [Buckets(u) -> Seq(Entry)]
  <2>1. s \in Seq(Entry)
    BY DEF ChainOK
  <2> QED BY <1>1, <1>2, <1>3, <2>1 DEF IsTable
<1>6. IsTable(u)
  BY <1>1, <1>2, <1>3, <1>5, Zenon DEF IsTable
<1>7. \A c \in Buckets(t) : ChainOK(t.chains[c], t.num_buckets, c, l)
  BY ChainLater DEF TableOK
<1>8. \A c \in Buckets(u) : ChainOK(u.chains[c], u.num_buckets, c, l)
  BY <1>2, <1>3, <1>4, <1>7, Zenon
<1>9. u.num_buckets = InitialBuckets => \A c \in Buckets(u) : LatestFirst(u.chains[c])
  BY <1>2, <1>3, <1>4, Zenon DEF TableOK
<1>10. AllEntries(u) = (AllEntries(t) \ Range(t.chains[b])) \cup Range(s)
  <2>1. \A c \in Buckets(t) : c # b => Range(t.chains[c]) \cap Range(t.chains[b]) = {}
    <3> SUFFICES ASSUME NEW c \in Buckets(t), c # b,
                        NEW e \in Range(t.chains[c]), e \in Range(t.chains[b])
                 PROVE  FALSE
      OBVIOUS
    <3>1. InBucket(e, t.num_buckets, c) /\ InBucket(e, t.num_buckets, b)
      BY <1>7, ChainEntries
    <3> QED BY <3>1, Zenon DEF InBucket
  <2>2. AllEntries(u) \subseteq (AllEntries(t) \ Range(t.chains[b])) \cup Range(s)
    BY <1>3, <1>4, <2>1 DEF AllEntries
  <2>3. Range(s) \subseteq AllEntries(u)
    BY <1>3, <1>4 DEF AllEntries
  <2>4. AllEntries(t) \ Range(t.chains[b]) \subseteq AllEntries(u)
    BY <1>3, <1>4 DEF AllEntries
  <2> QED BY <2>2, <2>3, <2>4
<1> QED BY <1>2, <1>3, <1>4, <1>6, <1>8, <1>9, <1>10, Zenon DEF TableOK, u

\* The table as it is made.
LEMMA NewTableOK ==
  ASSUME NEW n
  PROVE  TableOK(NewTable, n) /\ AllEntries(NewTable) = {}
<1> DEFINE t == NewTable
<1>1. /\ t = [num_buckets |-> t.num_buckets, chains |-> t.chains,
              expand_mult |-> t.expand_mult, ineff_expands |-> t.ineff_expands,
              noexpand |-> t.noexpand]
      /\ t.num_buckets = InitialBuckets
      /\ t.chains = [b \in Buckets(t) |-> << >>]
      /\ t.expand_mult = [b \in Buckets(t) |-> 0]
      /\ t.ineff_expands = 0 /\ t.noexpand = FALSE
  BY DEF NewTable, Buckets
<1> HIDE DEF t
<1>2. t.chains \in [Buckets(t) -> Seq(Entry)] /\ t.expand_mult \in [Buckets(t) -> Nat]
  BY <1>1
<1>3. InitialBuckets \in Nat \ {0} /\ InitialBuckets >= InitialBuckets
  BY KVMemoryAssumption
<1>4. IsTable(t)
  <2>1. 0 \in Nat
    OBVIOUS
  <2> QED BY <1>1, <1>2, <1>3, <2>1, Zenon DEF IsTable
<1>5. \A b : ChainOK(<< >>, t.num_buckets, b, n)
  BY DEF ChainOK
<1>6. LatestFirst(<< >>) /\ Range(<< >>) = {}
  BY DEF LatestFirst, Range
<1>7. \A b \in Buckets(t) : t.chains[b] = << >>
  BY <1>1
<1>8. TableOK(t, n)
  BY <1>4, <1>5, <1>6, <1>7, Zenon DEF TableOK
<1>9. AllEntries(t) = {}
  BY <1>6, <1>7 DEF AllEntries
<1> QED BY <1>8, <1>9 DEF t

\* The places of a table can be counted.
LEMMA PlacesFinite ==
  ASSUME NEW t, IsTable(t)
  PROVE  IsFiniteSet(Places(t))
<1> DEFINE At(b) == {b} \X (1 .. Len(t.chains[b]))
           Below(j) == UNION {At(b) : b \in {c \in Buckets(t) : c < j}}
           S == {j \in Nat : IsFiniteSet(Below(j))}
<1>1. \A b \in Buckets(t) : IsFiniteSet(At(b))
  <2> SUFFICES ASSUME NEW b \in Buckets(t) PROVE IsFiniteSet(At(b))
    OBVIOUS
  <2>1. Len(t.chains[b]) \in Int /\ 1 \in Int
    BY DEF IsTable
  <2>2. IsFiniteSet({b}) /\ IsFiniteSet(1 .. Len(t.chains[b]))
    BY <2>1, FS_Singleton, FS_Interval
  <2> QED BY <2>2, FS_Product
<1> HIDE DEF At
<1>2. t.num_buckets \in Nat /\ Buckets(t) = 0 .. t.num_buckets - 1
  BY DEF IsTable, Buckets
<1>3. 0 \in S
  <2>1. {c \in Buckets(t) : c < 0} = {}
    BY <1>2
  <2>2. Below(0) = {}
    BY <2>1
  <2> QED BY <2>2, FS_EmptySet
<1>4. ASSUME NEW j \in Nat, j \in S PROVE j + 1 \in S
  <2>1. \A c \in Buckets(t) : c < j + 1 <=> c < j \/ c = j
    BY <1>2
  <2>2. CASE j \in Buckets(t)
    <3>1. Below(j + 1) = Below(j) \cup At(j)
      BY <2>1, <2>2
    <3>2. IsFiniteSet(At(j)) /\ IsFiniteSet(Below(j))
      BY <1>1, <1>4, <2>2
    <3> HIDE DEF Below
    <3>3. IsFiniteSet(Below(j) \cup At(j))
      BY <3>2, FS_Union
    <3>4. IsFiniteSet(Below(j + 1))
      BY <3>1, <3>3, Zenon
    <3> QED BY <3>4
  <2>3. CASE j \notin Buckets(t)
    <3>1. Below(j + 1) = Below(j)
      BY <2>1, <2>3
    <3>2. IsFiniteSet(Below(j))
      BY <1>4
    <3> HIDE DEF Below
    <3> QED BY <3>1, <3>2
  <2> QED BY <2>2, <2>3
<1> HIDE DEF S
<1>5. Nat \subseteq S
  BY <1>3, <1>4, SetInduction
<1>6. IsFiniteSet(Below(t.num_buckets))
  BY <1>2, <1>5 DEF S
<1>7. {c \in Buckets(t) : c < t.num_buckets} = Buckets(t)
  BY <1>2
<1>8. Below(t.num_buckets) = Places(t)
  BY <1>7 DEF Places, At
<1> QED BY <1>6, <1>8

\* The entry at a place.
LEMMA EntryPlace ==
  ASSUME NEW n, NEW t, TableOK(t, n), NEW e \in AllEntries(t)
  PROVE  \E b \in Buckets(t) : \E p \in 1 .. Len(t.chains[b]) :
           <<b, p>> \in Places(t) /\ e = t.chains[b][p]
<1>1. PICK b \in Buckets(t) : e \in Range(t.chains[b])
  BY DEF AllEntries
<1>2. ChainOK(t.chains[b], t.num_buckets, b, n)
  BY DEF TableOK
<1>3. Range(t.chains[b]) = {t.chains[b][p] : p \in 1 .. Len(t.chains[b])}
  BY <1>2, ChainEntries
<1>4. PICK p \in 1 .. Len(t.chains[b]) : e = t.chains[b][p]
  BY <1>1, <1>3
<1>5. <<b, p>> \in Places(t)
  BY DEF Places
<1> QED BY <1>4, <1>5

\* A table that has places is expanded: every entry is in one of the two
\* buckets that its bucket was split into.
LEMMA Expanded ==
  ASSUME NEW n \in Nat, NEW t, TableOK(t, n), Places(t) # {}
  PROVE  /\ TableOK(HASH_EXPAND_BUCKETS(t), n)
         /\ AllEntries(HASH_EXPAND_BUCKETS(t)) = AllEntries(t)
<1> DEFINE m == t.num_buckets
           ideal == (num_items(t) + 2 * m - 1) \div (2 * m)
           new == [b \in 0 .. 2 * m - 1 |-> Redistribute(t.chains[b % m], 2 * m, b)]
           over(b) == IF Len(new[b]) > ideal THEN Len(new[b]) - ideal ELSE 0
           mult == [b \in 0 .. 2 * m - 1 |-> IF over(b) > 0 THEN Len(new[b]) \div ideal ELSE 0]
           u == HASH_EXPAND_BUCKETS(t)
<1>1. PICK ineff, noexpand :
        /\ u = [num_buckets |-> 2 * m, chains |-> new, expand_mult |-> mult,
                ineff_expands |-> ineff, noexpand |-> noexpand]
        /\ ineff = t.ineff_expands + 1 \/ ineff = 0
        /\ noexpand = (t.noexpand \/ ineff > 1)
  BY Zenon DEF HASH_EXPAND_BUCKETS
<1> HIDE DEF u
<1>2. /\ u.num_buckets = 2 * m /\ u.chains = new /\ u.expand_mult = mult
      /\ u.ineff_expands = ineff /\ u.noexpand = noexpand
      /\ u = [num_buckets |-> u.num_buckets, chains |-> u.chains,
              expand_mult |-> u.expand_mult, ineff_expands |-> u.ineff_expands,
              noexpand |-> u.noexpand]
  BY <1>1
<1>3. /\ IsTable(t) /\ m \in Nat \ {0} /\ 2 * m \in Nat \ {0}
      /\ Buckets(t) = 0 .. m - 1 /\ Buckets(u) = 0 .. 2 * m - 1
  BY <1>2 DEF TableOK, IsTable, Buckets
<1>4. \A b \in Buckets(u) : b \in Nat /\ b % m \in Buckets(t)
  <2> SUFFICES ASSUME NEW b \in Buckets(u) PROVE b \in Nat /\ b % m \in Buckets(t)
    OBVIOUS
  <2>1. b \in Nat
    BY <1>3
  <2> QED BY <1>3, <2>1, DivMod
<1>5. \A b \in Buckets(u) :
        /\ ChainOK(u.chains[b], u.num_buckets, b, n)
        /\ Range(u.chains[b]) = {e \in Range(t.chains[b % m]) : InBucket(e, 2 * m, b)}
  <2> SUFFICES ASSUME NEW b \in Buckets(u)
               PROVE  /\ ChainOK(u.chains[b], u.num_buckets, b, n)
                      /\ Range(u.chains[b]) =
                           {e \in Range(t.chains[b % m]) : InBucket(e, 2 * m, b)}
    OBVIOUS
  <2>1. u.chains[b] = Redistribute(t.chains[b % m], 2 * m, b)
    BY <1>2, <1>3
  <2>2. ChainOK(t.chains[b % m], m, b % m, n)
    BY <1>4 DEF TableOK
  <2> HIDE DEF m, new
  <2> DEFINE s == t.chains[b % m]
             d == 2 * m
  <2>3. ChainOK(s, m, b % m, n) /\ u.num_buckets = d /\ u.chains[b] = Redistribute(s, d, b)
    BY <1>2, <2>1, <2>2
  <2> HIDE DEF s, d
  <2>4. /\ ChainOK(Redistribute(s, d, b), d, b, n)
        /\ \A e : e \in Range(Redistribute(s, d, b)) <=> e \in Range(s) /\ InBucket(e, d, b)
    BY <2>3, Redistributed
  <2> QED BY <2>3, <2>4 DEF s, d
<1>6. u.chains \in [Buckets(u) -> Seq(Entry)]
  <2>1. \A b \in Buckets(u) : u.chains[b] \in Seq(Entry)
    BY <1>5 DEF ChainOK
  <2>2. u.chains = [b \in Buckets(u) |-> u.chains[b]]
    BY <1>2, <1>3
  <2> QED BY <2>1, <2>2
<1>7. ideal \in Nat \ {0}
  <2>1. num_items(t) \in Nat \ {0}
    BY <1>3, PlacesFinite, FS_EmptySet, FS_CardinalityType DEF num_items
  <2> HIDE DEF m
  <2> QED BY <1>3, <2>1, Ceiling
<1> HIDE DEF ideal
<1>8. u.expand_mult \in [Buckets(u) -> Nat]
  <2>1. \A b \in Buckets(u) : Len(u.chains[b]) \in Nat
    BY <1>6
  <2>2. \A b \in Buckets(u) : Len(u.chains[b]) \div ideal \in Nat
    BY <1>7, <2>1, DivMod
  <2>3. \A b \in Buckets(u) : mult[b] \in Nat
    BY <1>2, <1>3, <2>2
  <2>4. mult = [b \in Buckets(u) |-> mult[b]]
    BY <1>3
  <2> QED BY <1>2, <2>3, <2>4
<1>9. /\ u.num_buckets \in Nat \ {0} /\ u.num_buckets >= InitialBuckets
      /\ u.num_buckets # InitialBuckets
  <2>1. m >= InitialBuckets /\ InitialBuckets \in Nat \ {0}
    BY KVMemoryAssumption DEF TableOK, IsTable
  <2> QED BY <1>2, <1>3, <2>1
<1>10. u.ineff_expands \in Nat
  <2>1. t.ineff_expands \in Nat
    BY <1>3 DEF IsTable
  <2> QED BY <1>1, <1>2, <2>1
<1>11. u.noexpand \in BOOLEAN
  BY <1>1, <1>2, Zenon
<1>12. IsTable(u)
  BY <1>2, <1>6, <1>8, <1>9, <1>10, <1>11, Zenon DEF IsTable
<1>13. TableOK(u, n)
  BY <1>5, <1>9, <1>12, Zenon DEF TableOK
<1>14. AllEntries(u) \subseteq AllEntries(t)
  BY <1>4, <1>5 DEF AllEntries
<1>15. ASSUME NEW e \in AllEntries(t) PROVE e \in AllEntries(u)
  <2>1. PICK c \in Buckets(t) : e \in Range(t.chains[c])
    BY DEF AllEntries
  <2>2. ChainOK(t.chains[c], m, c, n)
    BY DEF TableOK
  <2>3. InBucket(e, m, c) /\ e \in Entry
    BY <2>1, <2>2, ChainEntries
  <2> DEFINE h == HashOf[e.key]
             b == h % (2 * m)
  <2>4. h \in Nat
    BY <2>3, KVMemoryAssumption DEF Entry
  <2> HIDE DEF h
  <2>5. b \in Buckets(u) /\ b % m = c
    <3>1. b \in Buckets(u)
      BY <1>3, <2>4, DivMod
    <3>2. b % m = h % m
      BY <1>3, <2>4, Halved
    <3>3. h % m = c
      BY <2>3, Zenon DEF InBucket, h
    <3> QED BY <3>1, <3>2, <3>3
  <2>6. InBucket(e, 2 * m, b)
    BY Zenon DEF InBucket, h
  <2> HIDE DEF b
  <2>7. e \in Range(u.chains[b])
    BY <1>5, <2>1, <2>5, <2>6
  <2> QED BY <2>5, <2>7 DEF AllEntries
<1> QED BY <1>13, <1>14, <1>15 DEF u

\* HASH_ADD of the entry of a PUT, whether or not the table is expanded.
LEMMA Added ==
  ASSUME NEW n \in Nat, NEW t, TableOK(t, n), NEW e \in Entry, e.at = n + 1
  PROVE  /\ TableOK(HASH_ADD_KEYPTR(t, e), n + 1)
         /\ AllEntries(HASH_ADD_KEYPTR(t, e)) = AllEntries(t) \cup {e}
         /\ e \notin AllEntries(t)
<1> DEFINE b == BucketOf(t, e.key)
           s == t.chains[b]
           c == Cons(e, s)
           u == WithChain(t, b, c)
<1>1. e.key \in Keys /\ n <= n + 1 /\ n + 1 \in Nat /\ e.at <= n + 1
  BY DEF Entry
<1>2. b \in Buckets(t) /\ InBucket(e, t.num_buckets, b)
  <2>1. b \in Buckets(t)
    BY <1>1, BucketIn DEF TableOK
  <2> QED BY <2>1, Zenon DEF InBucket, BucketOf
<1> HIDE DEF b
<1>3. ChainOK(s, t.num_buckets, b, n)
  BY <1>2 DEF TableOK
<1>4. \A x \in AllEntries(t) : x.at # e.at
  <2> SUFFICES ASSUME NEW d \in Buckets(t), NEW x \in Range(t.chains[d]) PROVE x.at # e.at
    BY DEF AllEntries
  <2>1. ChainOK(t.chains[d], t.num_buckets, d, n)
    BY DEF TableOK
  <2>2. x.at <= n /\ x \in Entry
    BY <2>1, ChainEntries
  <2> QED BY <2>2 DEF Entry
<1>5. Range(s) \subseteq AllEntries(t)
  BY <1>2 DEF AllEntries
<1> HIDE DEF s
<1>6. ChainOK(c, t.num_buckets, b, n + 1) /\ Range(c) = Range(s) \cup {e}
  BY <1>1, <1>2, <1>3, <1>4, <1>5, ChainCons
<1>7. LatestFirst(s) => LatestFirst(c)
  BY <1>3, ConsLatest
<1> HIDE DEF c
<1>8. TableOK(u, n + 1) /\ AllEntries(u) = (AllEntries(t) \ Range(s)) \cup Range(c)
  BY <1>1, <1>2, <1>6, <1>7, OneChain DEF s
<1> HIDE DEF u
<1>9. AllEntries(u) = AllEntries(t) \cup {e}
  BY <1>5, <1>6, <1>8
<1>10. Places(u) # {}
  BY <1>8, <1>9, EntryPlace
<1>11. /\ TableOK(HASH_EXPAND_BUCKETS(u), n + 1)
       /\ AllEntries(HASH_EXPAND_BUCKETS(u)) = AllEntries(t) \cup {e}
  BY <1>1, <1>8, <1>9, <1>10, Expanded
<1>12. HASH_ADD_KEYPTR(t, e) = u \/ HASH_ADD_KEYPTR(t, e) = HASH_EXPAND_BUCKETS(u)
  BY Zenon DEF HASH_ADD_KEYPTR, HASH_ADD_TO_BKT, WithChain, b, s, c, u
<1>13. e \notin AllEntries(t)
  BY <1>4
<1> QED BY <1>8, <1>9, <1>11, <1>12, <1>13

\* The entry found for a key is written over.
LEMMA Replaced ==
  ASSUME NEW n \in Nat, NEW t, TableOK(t, n), NEW e \in Entry, e.at = n + 1,
         HASH_FIND(t, e.key) # 0
  PROVE  LET u == [t EXCEPT !.chains[BucketOf(t, e.key)][HASH_FIND(t, e.key)] = e]
         IN  /\ TableOK(u, n + 1)
             /\ AllEntries(u) = (AllEntries(t) \ {Found(t, e.key)}) \cup {e}
             /\ e \notin AllEntries(t)
             /\ Found(t, e.key) \in EntriesOf(t, e.key)
<1> DEFINE k == e.key
           b == BucketOf(t, k)
           s == t.chains[b]
           f == First(s, k)
           c == WriteAt(s, f, e)
           u == WithChain(t, b, c)
<1>1. k \in Keys /\ n <= n + 1 /\ n + 1 \in Nat
  BY DEF Entry
<1>2. b \in Buckets(t)
  BY <1>1, BucketIn DEF TableOK
<1>3. HASH_FIND(t, k) = f /\ f # 0 /\ Found(t, k) = s[f] /\ Found(t, k) \in EntriesOf(t, k)
  BY <1>1, Finds
<1>4. [t EXCEPT !.chains[BucketOf(t, e.key)][HASH_FIND(t, e.key)] = e] = u
  BY <1>3 DEF WithChain, WriteAt
<1>5. ChainOK(s, t.num_buckets, b, n)
  BY <1>2 DEF TableOK
<1>6. Range(s) \subseteq AllEntries(t)
  BY <1>2 DEF AllEntries
<1>7. e \notin AllEntries(t)
  BY Added
<1> HIDE DEF b, s
<1>8. /\ ChainOK(c, t.num_buckets, b, n + 1) /\ (LatestFirst(s) => LatestFirst(c))
      /\ Range(c) = (Range(s) \ {s[f]}) \cup {e} /\ s[f] \in Range(s)
  BY <1>3, <1>5, ChainReplace
<1> HIDE DEF c, f
<1>9. TableOK(u, n + 1) /\ AllEntries(u) = (AllEntries(t) \ Range(s)) \cup Range(c)
  BY <1>1, <1>2, <1>8, OneChain DEF s
<1> HIDE DEF u, k
<1>10. AllEntries(u) = (AllEntries(t) \ {s[f]}) \cup {e}
  BY <1>6, <1>8, <1>9
<1> QED BY <1>3, <1>4, <1>7, <1>9, <1>10, Zenon DEF k

\* HASH_DELETE of the entry found for a key: the last entry takes the table
\* with it.
LEMMA Deleted ==
  ASSUME NEW n \in Nat, NEW t, TableOK(t, n), NEW k \in Keys, HASH_FIND(t, k) # 0
  PROVE  /\ TableOK(HASH_DEL(t, k), n)
         /\ AllEntries(HASH_DEL(t, k)) = AllEntries(t) \ {Found(t, k)}
         /\ Found(t, k) \in EntriesOf(t, k)
<1> DEFINE b == BucketOf(t, k)
           s == t.chains[b]
           f == HASH_FIND(t, k)
           c == RemoveAt(s, f)
           u == WithChain(t, b, c)
<1>1. b \in Buckets(t) /\ IsTable(t)
  BY BucketIn DEF TableOK
<1>2. f \in 1 .. Len(s) /\ Found(t, k) = s[f] /\ Found(t, k) \in EntriesOf(t, k)
  BY Finds
<1>3. ChainOK(s, t.num_buckets, b, n)
  BY <1>1 DEF TableOK
<1>4. Range(s) \subseteq AllEntries(t)
  BY <1>1 DEF AllEntries
<1>5. CASE num_items(t) = 1
  <2>1. HASH_DEL(t, k) = NewTable
    BY <1>5 DEF HASH_DEL
  <2>2. TableOK(NewTable, n) /\ AllEntries(NewTable) = {}
    BY NewTableOK
  <2>3. PICK x : Places(t) = {x}
    BY <1>1, <1>5, PlacesFinite, FS_Singleton DEF num_items
  <2>4. x = <<b, f>>
    <3>1. <<b, f>> \in Places(t)
      BY <1>1, <1>2 DEF Places
    <3> QED BY <2>3, <3>1
  <2>5. ASSUME NEW e \in AllEntries(t) PROVE e = s[f]
    <3>1. PICK d \in Buckets(t) : \E p \in 1 .. Len(t.chains[d]) :
            <<d, p>> \in Places(t) /\ e = t.chains[d][p]
      BY EntryPlace
    <3>2. PICK p \in 1 .. Len(t.chains[d]) : <<d, p>> \in Places(t) /\ e = t.chains[d][p]
      BY <3>1
    <3>3. d = b /\ p = f
      BY <2>3, <2>4, <3>2
    <3> QED BY <3>2, <3>3
  <2> QED BY <1>2, <2>1, <2>2, <2>5
<1>6. CASE num_items(t) # 1
  <2>1. HASH_DEL(t, k) = u
    BY <1>6, Zenon DEF HASH_DEL, WithChain
  <2> HIDE DEF b, s, f
  <2>2. /\ ChainOK(c, t.num_buckets, b, n) /\ (LatestFirst(s) => LatestFirst(c))
        /\ Range(c) = Range(s) \ {s[f]} /\ s[f] \in Range(s)
    BY <1>2, <1>3, ChainRemove
  <2> HIDE DEF c
  <2>3. n <= n
    OBVIOUS
  <2>4. TableOK(u, n) /\ AllEntries(u) = (AllEntries(t) \ Range(s)) \cup Range(c)
    BY <1>1, <2>2, <2>3, OneChain DEF s
  <2> HIDE DEF u
  <2>5. AllEntries(u) = AllEntries(t) \ {s[f]}
    BY <1>4, <2>2, <2>4
  <2> QED BY <1>2, <2>1, <2>4, <2>5
<1> QED BY <1>5, <1>6

-----------------------------------------------------------------------------
(* The application *)

LEMMA NextTable ==
  /\ AllEntries(table)' = AllEntries(table')
  /\ TableInv' <=> puts' \in 0 .. MaxPuts /\ TableOK(table', puts')
  BY DEF AllEntries, Buckets, TableInv, TableOK, IsTable

LEMMA InitTable == Init => TableInv
<1>1. TableOK(NewTable, 0)
  BY NewTableOK
<1>2. 0 \in 0 .. MaxPuts
  BY KVMemoryAssumption
<1> QED BY <1>1, <1>2 DEF Init, TableInv

\* A PUT writes over the entry found under key and value in a row, or adds one.
LEMMA PutStep ==
  ASSUME TableInv, NEW k \in Keys, NEW v \in Values, deliverPut(k, v)
  PROVE  LET c == Concat[<<k, v>>]
         IN  /\ TableInv'
             /\ \E e \in Entry :
                  /\ e.value = v /\ e \notin AllEntries(table)
                  /\ \/ /\ c \in Keys /\ e.key = c
                        /\ \E x \in EntriesOf(table, c) :
                             AllEntries(table') = (AllEntries(table) \ {x}) \cup {e}
                     \/ /\ c \in Keys => EntriesOf(table, c) = {}
                        /\ e.key = k
                        /\ AllEntries(table') = AllEntries(table) \cup {e}
<1> DEFINE n == puts
           c == Concat[<<k, v>>]
           e == [key |-> k, value |-> v, at |-> n + 1]
           w == [key |-> c, value |-> v, at |-> n + 1]
<1>1. /\ n \in Nat /\ n + 1 \in 1 .. MaxPuts /\ n + 1 \in 0 .. MaxPuts
      /\ puts' = n + 1 /\ TableOK(table, n)
  BY KVMemoryAssumption DEF TableInv, deliverPut
<1>2. c \in Keys \cup {NoKey} /\ NoKey \notin Keys
  BY KVMemoryAssumption
<1>3. /\ e \in Entry /\ e.key = k /\ e.value = v /\ e.at = n + 1
      /\ w.key = c /\ w.value = v /\ w.at = n + 1 /\ (c \in Keys => w \in Entry)
  BY <1>1 DEF Entry
<1>4. table' = IF HASH_FIND(table, c) # 0
               THEN [table EXCEPT !.chains[BucketOf(table, c)][HASH_FIND(table, c)] = w]
               ELSE HASH_ADD_KEYPTR(table, e)
  BY DEF deliverPut, add_entry
<1> HIDE DEF e, w, c
<1>5. CASE HASH_FIND(table, c) = 0
  <2>1. table' = HASH_ADD_KEYPTR(table, e)
    BY <1>4, <1>5
  <2>2. /\ TableOK(table', n + 1) /\ AllEntries(table') = AllEntries(table) \cup {e}
        /\ e \notin AllEntries(table)
    BY <1>1, <1>3, <2>1, Added
  <2>3. c \in Keys => EntriesOf(table, c) = {}
    BY <1>1, <1>5, Finds
  <2>4. TableInv'
    BY <1>1, <2>2, NextTable
  <2> QED BY <1>3, <2>2, <2>3, <2>4 DEF c
<1>6. CASE HASH_FIND(table, c) # 0
  <2>1. c \in Keys
    BY <1>2, <1>6 DEF HASH_FIND
  <2>2. table' = [table EXCEPT !.chains[BucketOf(table, w.key)][HASH_FIND(table, w.key)] = w]
    BY <1>3, <1>4, <1>6, Zenon
  <2>3. w \in Entry /\ w.at = n + 1 /\ HASH_FIND(table, w.key) # 0
    BY <1>3, <1>6, <2>1
  <2>4. /\ TableOK(table', n + 1)
        /\ AllEntries(table') = (AllEntries(table) \ {Found(table, w.key)}) \cup {w}
        /\ w \notin AllEntries(table) /\ Found(table, w.key) \in EntriesOf(table, w.key)
    <3> HIDE DEF n
    <3> QED BY <1>1, <2>2, <2>3, Replaced, Zenon
  <2>5. TableInv'
    BY <1>1, <2>4, NextTable
  <2> QED BY <1>3, <2>1, <2>3, <2>4, <2>5 DEF c
<1> QED BY <1>5, <1>6

\* A DELETE takes out the entry found, if any.
LEMMA DeleteStep ==
  ASSUME TableInv, NEW k \in Keys, deliverDelete(k)
  PROVE  /\ TableInv'
         /\ \/ EntriesOf(table, k) = {} /\ UNCHANGED table
            \/ \E x \in EntriesOf(table, k) : AllEntries(table') = AllEntries(table) \ {x}
<1>1. puts \in Nat /\ puts \in 0 .. MaxPuts /\ puts' = puts /\ TableOK(table, puts)
  BY DEF TableInv, deliverDelete
<1>2. CASE HASH_FIND(table, k) # 0 /\ table' = HASH_DEL(table, k)
  <2>1. /\ TableOK(table', puts) /\ Found(table, k) \in EntriesOf(table, k)
        /\ AllEntries(table') = AllEntries(table) \ {Found(table, k)}
    BY <1>1, <1>2, Deleted
  <2> QED BY <1>1, <2>1, NextTable
<1>3. CASE HASH_FIND(table, k) = 0 /\ UNCHANGED table
  <2>1. EntriesOf(table, k) = {}
    BY <1>1, <1>3, Finds
  <2> QED BY <1>1, <1>3, <2>1, NextTable
<1> QED BY <1>2, <1>3, Zenon DEF deliverDelete

LEMMA RestartStep ==
  ASSUME TableInv, Restart
  PROVE  TableInv' /\ AllEntries(table') = {}
<1>1. puts' \in 0 .. MaxPuts /\ table' = NewTable
  BY DEF TableInv, Restart
<1>2. TableOK(NewTable, puts') /\ AllEntries(NewTable) = {}
  BY NewTableOK
<1> QED BY <1>1, <1>2, NextTable

\* Every step keeps the table in order.
LEMMA TableStep == TableInv /\ [Next]_vars => TableInv'
<1> SUFFICES ASSUME TableInv, [Next]_vars PROVE TableInv'
  OBVIOUS
<1>1. ASSUME NEW k \in Keys, NEW v \in Values, deliverPut(k, v) PROVE TableInv'
  BY <1>1, PutStep
<1>2. ASSUME NEW k \in Keys, deliverDelete(k) PROVE TableInv'
  BY <1>2, DeleteStep
<1>3. ASSUME UNCHANGED <<table, puts>> PROVE TableInv'
  BY <1>3, NextTable DEF TableInv
<1>4. CASE Restart
  BY <1>4, RestartStep
<1>5. ASSUME NEW k \in Keys, deliverGet(k) PROVE TableInv'
  BY <1>3, <1>5 DEF deliverGet
<1>6. CASE deliverOther
  BY <1>3, <1>6 DEF deliverOther
<1>7. CASE UNCHANGED vars
  BY <1>3, <1>7 DEF vars
<1> QED BY <1>1, <1>2, <1>4, <1>5, <1>6, <1>7 DEF Next

\* The key of an answer.
ReplyInv == reply.key \in Keys \cup {NoKey}

LEMMA ReplyStep == ReplyInv /\ [Next]_vars => ReplyInv'
<1> SUFFICES ASSUME ReplyInv, [Next]_vars PROVE ReplyInv'
  OBVIOUS
<1>1. ASSUME NEW k \in Keys, NEW v \in Values, deliverPut(k, v) PROVE ReplyInv'
  BY <1>1 DEF deliverPut, ReplyInv
<1>2. ASSUME NEW k \in Keys, deliverDelete(k) PROVE ReplyInv'
  BY <1>2 DEF deliverDelete, ReplyInv
<1>3. ASSUME NEW k \in Keys, deliverGet(k) PROVE ReplyInv'
  BY <1>3 DEF deliverGet, ReplyInv
<1>4. CASE deliverOther
  BY <1>4 DEF deliverOther, ReplyInv
<1>5. CASE Restart
  BY <1>5 DEF Restart, NoReply, ReplyInv
<1>6. CASE UNCHANGED vars
  BY <1>6 DEF vars, ReplyInv
<1> QED BY <1>1, <1>2, <1>3, <1>4, <1>5, <1>6 DEF Next

LEMMA TableTypes == TableInv /\ ReplyInv => TypeOK
<1> SUFFICES ASSUME TableInv, ReplyInv PROVE TypeOK
  OBVIOUS
<1>1. \A b \in Buckets(table) : \A e \in Range(table.chains[b]) :
        HashOf[e.key] % table.num_buckets = b
  <2> SUFFICES ASSUME NEW b \in Buckets(table), NEW e \in Range(table.chains[b])
               PROVE  InBucket(e, table.num_buckets, b)
    BY Zenon DEF InBucket
  <2>1. ChainOK(table.chains[b], table.num_buckets, b, puts)
    BY DEF TableInv, TableOK
  <2> QED BY <2>1, ChainEntries
<1> QED BY <1>1, Zenon DEF TypeOK, TableInv, TableOK, IsTable, ReplyInv

(***************************************************************************)
(* The hash table is in order after every request: each entry is in the    *)
(* bucket that its hash selects (HASH_TO_BKT), before and after            *)
(* HASH_EXPAND_BUCKETS, for every hash function and every threshold.       *)
(***************************************************************************)
THEOREM KVMemoryTypeCorrect == Spec => []TypeOK
<1>1. Init => ReplyInv
  BY DEF Init, NoReply, ReplyInv
<1> QED BY <1>1, InitTable, TableStep, ReplyStep, TableTypes, PTL DEF Spec

\* The invariant says what GET and DELETE find.
LEMMA TableLatest == TableInv => LatestOnTop
<1> SUFFICES ASSUME TableInv, table.num_buckets = InitialBuckets,
                    NEW k \in Keys, NEW e \in EntriesOf(table, k)
             PROVE  HASH_FIND(table, k) # 0 /\ Found(table, k).at >= e.at
  BY DEF LatestOnTop
<1> DEFINE b == BucketOf(table, k)
           s == table.chains[b]
           f == HASH_FIND(table, k)
<1>1. /\ TableOK(table, puts) /\ f = First(s, k) /\ f # 0
      /\ f \in 1 .. Len(s) /\ Found(table, k) = s[f]
  BY Finds DEF TableInv
<1>2. PICK c \in Buckets(table) : e \in Range(table.chains[c]) /\ e.key = k
  BY DEF EntriesOf
<1>3. ChainOK(table.chains[c], table.num_buckets, c, puts) /\ LatestFirst(table.chains[c])
  BY <1>1 DEF TableOK
<1>4. c = b
  <2>1. InBucket(e, table.num_buckets, c)
    BY <1>2, <1>3, ChainEntries
  <2> QED BY <1>2, <2>1, Zenon DEF InBucket, BucketOf
<1> HIDE DEF b, f
<1>5. /\ ChainOK(s, table.num_buckets, b, puts) /\ LatestFirst(s) /\ e \in Range(s)
      /\ e.key = k
  BY <1>2, <1>3, <1>4
<1> HIDE DEF s
<1>6. /\ Len(s) \in Nat /\ Range(s) = {s[p] : p \in 1 .. Len(s)}
      /\ \A p \in 1 .. Len(s) : s[p].at \in Nat
  BY <1>5, ChainEntries
<1>7. PICK q \in 1 .. Len(s) : e = s[q]
  BY <1>5, <1>6
<1>8. s[f].key = k /\ f <= q
  BY <1>1, <1>5, <1>6, <1>7, FirstFound
<1>9. s[f].at >= s[q].at
  <2>1. CASE f = q
    BY <1>1, <1>6, <2>1
  <2>2. CASE f < q
    BY <1>1, <1>5, <1>7, <1>8, <2>2 DEF LatestFirst
  <2> QED BY <1>1, <1>8, <2>1, <2>2
<1> QED BY <1>1, <1>7, <1>9 DEF f

(***************************************************************************)
(* GET and DELETE find the latest entry of a key until the table is        *)
(* expanded, for every hash function, threshold and number of buckets.     *)
(***************************************************************************)
THEOREM LatestOnTopTheorem == Spec => []LatestOnTop
  BY InitTable, TableStep, TableLatest, PTL DEF Spec

-----------------------------------------------------------------------------
(* Bags *)

\* How often each value occurs in a set of entries.
ValuesOf(E) == {e.value : e \in E}
WithValue(E, v) == {e \in E : e.value = v}
BagOf(E) == [v \in ValuesOf(E) |-> Cardinality(WithValue(E, v))]

LEMMA Counted ==
  ASSUME NEW E, IsFiniteSet(E), NEW v
  PROVE  /\ IsFiniteSet(WithValue(E, v))
         /\ Cardinality(WithValue(E, v)) \in Nat
         /\ Cardinality(WithValue(E, v)) = 0 <=> v \notin ValuesOf(E)
<1>1. WithValue(E, v) \in SUBSET E
  BY DEF WithValue
<1>2. IsFiniteSet(WithValue(E, v))
  BY <1>1, FS_Subset
<1>3. WithValue(E, v) = {} <=> v \notin ValuesOf(E)
  BY DEF WithValue, ValuesOf
<1> QED BY <1>2, <1>3, FS_CardinalityType, FS_EmptySet

LEMMA BagMembers ==
  ASSUME NEW E
  PROVE  /\ Abstract!BagToSet(BagOf(E)) = ValuesOf(E)
         /\ BagOf(E) = Abstract!EmptyBag <=> E = {}
<1>1. DOMAIN BagOf(E) = ValuesOf(E)
  BY DEF BagOf
<1>2. Abstract!BagToSet(BagOf(E)) = ValuesOf(E)
  BY <1>1 DEF Abstract!BagToSet
<1>3. Abstract!EmptyBag = [v \in {} |-> 1]
  BY DEF Abstract!EmptyBag, Abstract!SetToBag
<1>4. ASSUME BagOf(E) = Abstract!EmptyBag PROVE E = {}
  <2>1. DOMAIN BagOf(E) = {}
    BY <1>3, <1>4
  <2> QED BY <1>1, <2>1 DEF ValuesOf
<1>5. ASSUME E = {} PROVE BagOf(E) = Abstract!EmptyBag
  <2>1. ValuesOf(E) = {}
    BY <1>5 DEF ValuesOf
  <2> QED BY <1>3, <2>1 DEF BagOf
<1> QED BY <1>2, <1>4, <1>5

\* An entry more is a value more.
LEMMA BagAdd ==
  ASSUME NEW E, IsFiniteSet(E), NEW e, e \notin E
  PROVE  BagOf(E \cup {e}) = Abstract!(+)(BagOf(E), Abstract!One(e.value))
<1> DEFINE F == E \cup {e}
           w == e.value
           A == BagOf(E)
           B == Abstract!One(w)
<1>1. B = [v \in {w} |-> 1]
  BY DEF Abstract!One, Abstract!SetToBag
<1>2. A = [v \in ValuesOf(E) |-> A[v]] /\ DOMAIN A = ValuesOf(E)
      /\ \A v \in ValuesOf(E) : A[v] = Cardinality(WithValue(E, v))
  BY DEF BagOf
<1>3. ValuesOf(F) = ValuesOf(E) \cup {w}
  BY DEF ValuesOf
<1>4. \A v : v # w => WithValue(F, v) = WithValue(E, v)
  BY DEF WithValue
<1>5. WithValue(F, w) = WithValue(E, w) \cup {e} /\ e \notin WithValue(E, w)
  BY DEF WithValue
<1>6. Cardinality(WithValue(F, w)) = Cardinality(WithValue(E, w)) + 1
  BY <1>5, Counted, FS_AddElement
<1>7. \A v : /\ Cardinality(WithValue(E, v)) \in Nat
             /\ Cardinality(WithValue(E, v)) = 0 <=> v \notin ValuesOf(E)
  BY Counted
<1> HIDE DEF A, B, F, w
<1>8. \A v \in ValuesOf(F) :
        Cardinality(WithValue(F, v)) = (IF v \in DOMAIN A THEN A[v] ELSE 0)
                                     + (IF v \in DOMAIN B THEN B[v] ELSE 0)
  <2> SUFFICES ASSUME NEW v \in ValuesOf(F)
               PROVE  Cardinality(WithValue(F, v)) = (IF v \in DOMAIN A THEN A[v] ELSE 0)
                                                   + (IF v \in DOMAIN B THEN B[v] ELSE 0)
    OBVIOUS
  <2>1. (IF v \in DOMAIN A THEN A[v] ELSE 0) = Cardinality(WithValue(E, v))
    BY <1>2, <1>7
  <2>2. (IF v \in DOMAIN B THEN B[v] ELSE 0) = IF v = w THEN 1 ELSE 0
    BY <1>1
  <2>3. CASE v = w
    BY <1>6, <2>1, <2>2, <2>3
  <2>4. CASE v # w
    BY <1>4, <1>7, <2>1, <2>2, <2>4
  <2> QED BY <2>3, <2>4
<1>9. ValuesOf(F) = DOMAIN A \cup DOMAIN B
  BY <1>1, <1>2, <1>3
<1> QED BY <1>8, <1>9 DEF BagOf, Abstract!(+), A, B, F, w

\* An entry less is a value less.
LEMMA BagRemove ==
  ASSUME NEW E, IsFiniteSet(E), NEW x \in E
  PROVE  BagOf(E \ {x}) = Abstract!(-)(BagOf(E), Abstract!One(x.value))
<1> DEFINE F == E \ {x}
           w == x.value
           A == BagOf(E)
           B == Abstract!One(w)
           D == [v \in DOMAIN A |-> IF v \in DOMAIN B THEN A[v] - B[v] ELSE A[v]]
<1>1. B = [v \in {w} |-> 1]
  BY DEF Abstract!One, Abstract!SetToBag
<1>2. DOMAIN A = ValuesOf(E) /\ \A v \in ValuesOf(E) : A[v] = Cardinality(WithValue(E, v))
  BY DEF BagOf
<1>3. IsFiniteSet(F)
  BY FS_RemoveElement
<1>4. \A v : v # w => WithValue(F, v) = WithValue(E, v)
  BY DEF WithValue
<1>5. WithValue(F, w) = WithValue(E, w) \ {x} /\ x \in WithValue(E, w)
  BY DEF WithValue
<1>6. Cardinality(WithValue(F, w)) = Cardinality(WithValue(E, w)) - 1
  BY <1>5, Counted, FS_RemoveElement
<1>7. \A v : /\ Cardinality(WithValue(F, v)) \in Nat
             /\ Cardinality(WithValue(F, v)) = 0 <=> v \notin ValuesOf(F)
  BY <1>3, Counted
<1>8. ValuesOf(F) \subseteq ValuesOf(E)
  BY DEF ValuesOf
<1>9. Abstract!(-)(A, B) = [v \in {d \in DOMAIN D : D[d] > 0} |-> D[v]]
  BY DEF Abstract!(-)
<1> HIDE DEF A, B, F, w
<1>10. \A v \in ValuesOf(E) : D[v] = Cardinality(WithValue(F, v))
  <2> SUFFICES ASSUME NEW v \in ValuesOf(E) PROVE D[v] = Cardinality(WithValue(F, v))
    OBVIOUS
  <2>1. D[v] = IF v = w THEN Cardinality(WithValue(E, v)) - 1
               ELSE Cardinality(WithValue(E, v))
    BY <1>1, <1>2
  <2> QED BY <1>4, <1>6, <2>1
<1>11. DOMAIN D = ValuesOf(E)
  BY <1>2
<1> HIDE DEF D
<1>12. {d \in DOMAIN D : D[d] > 0} = ValuesOf(F)
  BY <1>7, <1>8, <1>10, <1>11
<1>13. Abstract!(-)(A, B) = [v \in ValuesOf(F) |-> D[v]]
  BY <1>9, <1>12
<1>14. \A v \in ValuesOf(F) : D[v] = Cardinality(WithValue(F, v))
  BY <1>8, <1>10
<1>15. BagOf(F) = Abstract!(-)(A, B)
  BY <1>13, <1>14 DEF BagOf
<1> QED BY <1>15 DEF A, B, F, w

-----------------------------------------------------------------------------
(* The multimap *)

\* The bags that a table stands for.
BagsOf(t) == [k \in Keys |-> BagOf(EntriesOf(t, k))]

LEMMA AbstractContents ==
  /\ contents = BagsOf(table)
  /\ contents' = BagsOf(table')
<1>1. \A k : BagOfValues(k) = BagOf(EntriesOf(table, k))
  BY DEF BagOfValues, BagOf, ValuesOf, WithValue
<1>2. \A k : BagOfValues(k)' = BagOf(EntriesOf(table', k))
  BY DEF BagOfValues, BagOf, ValuesOf, WithValue, EntriesOf, Buckets
<1> QED BY <1>1, <1>2 DEF BagsOf, contents

LEMMA EntriesFinite ==
  ASSUME NEW n, NEW t, TableOK(t, n), NEW k \in Keys
  PROVE  IsFiniteSet(EntriesOf(t, k))
<1> DEFINE b == BucketOf(t, k)
           s == t.chains[b]
<1>1. b \in Buckets(t)
  BY BucketIn DEF TableOK
<1>2. \A c \in Buckets(t) : ChainOK(t.chains[c], t.num_buckets, c, n)
  BY DEF TableOK
<1>3. EntriesOf(t, k) \subseteq Range(s)
  <2> SUFFICES ASSUME NEW c \in Buckets(t), NEW e \in Range(t.chains[c]), e.key = k
               PROVE  c = b
    BY DEF EntriesOf
  <2>1. InBucket(e, t.num_buckets, c)
    BY <1>2, ChainEntries
  <2> QED BY <2>1, Zenon DEF InBucket, BucketOf
<1>4. s \in Seq(Entry) /\ Len(s) \in Nat /\ Range(s) = {s[p] : p \in 1 .. Len(s)}
  BY <1>1, <1>2, ChainEntries
<1> HIDE DEF s
<1>5. s \in Surjection(1 .. Len(s), Range(s))
  <2>1. s = [p \in 1 .. Len(s) |-> s[p]]
    BY <1>4
  <2>2. s \in [1 .. Len(s) -> Range(s)]
    BY <1>4, <2>1
  <2> QED BY <1>4, <2>2 DEF Surjection
<1>6. IsFiniteSet(1 .. Len(s))
  <2>1. 1 \in Int /\ Len(s) \in Int
    BY <1>4
  <2> QED BY <2>1, FS_Interval
<1>7. IsFiniteSet(Range(s))
  BY <1>5, <1>6, FS_Surjection
<1> QED BY <1>3, <1>7, FS_Subset

\* The entries of one key change.
LEMMA OneKey ==
  ASSUME NEW t, NEW u, NEW k \in Keys, \A j \in Keys : j # k => EntriesOf(u, j) = EntriesOf(t, j)
  PROVE  BagsOf(u) = [BagsOf(t) EXCEPT ![k] = BagOf(EntriesOf(u, k))]
<1>1. \A j \in Keys : BagsOf(u)[j] = BagOf(EntriesOf(u, j))
                      /\ BagsOf(t)[j] = BagOf(EntriesOf(t, j))
  BY DEF BagsOf
<1>2. BagsOf(u) = [j \in Keys |-> BagsOf(u)[j]] /\ BagsOf(t) = [j \in Keys |-> BagsOf(t)[j]]
  BY DEF BagsOf
<1>3. \A j \in Keys : BagsOf(u)[j] = IF j = k THEN BagOf(EntriesOf(u, k)) ELSE BagsOf(t)[j]
  BY <1>1, Zenon
<1> QED BY <1>2, <1>3

LEMMA ContentsAdded ==
  ASSUME NEW n, NEW t, TableOK(t, n), NEW u, NEW e, e.key \in Keys, e \notin AllEntries(t),
         AllEntries(u) = AllEntries(t) \cup {e}
  PROVE  BagsOf(u) = [BagsOf(t) EXCEPT
           ![e.key] = Abstract!(+)(BagsOf(t)[e.key], Abstract!One(e.value))]
<1> DEFINE k == e.key
<1>1. /\ EntriesOf(u, k) = EntriesOf(t, k) \cup {e} /\ e \notin EntriesOf(t, k)
      /\ \A j \in Keys : j # k => EntriesOf(u, j) = EntriesOf(t, j)
  BY EntriesOfKey
<1>2. IsFiniteSet(EntriesOf(t, k))
  BY EntriesFinite
<1>3. BagOf(EntriesOf(u, k)) = Abstract!(+)(BagsOf(t)[k], Abstract!One(e.value))
  <2>1. BagsOf(t)[k] = BagOf(EntriesOf(t, k))
    BY DEF BagsOf
  <2> QED BY <1>1, <1>2, <2>1, BagAdd, Zenon
<1>4. BagsOf(u) = [BagsOf(t) EXCEPT ![k] = BagOf(EntriesOf(u, k))]
  BY <1>1, OneKey
<1> QED BY <1>3, <1>4, Zenon

LEMMA ContentsRemoved ==
  ASSUME NEW n, NEW t, TableOK(t, n), NEW u, NEW k \in Keys, NEW x \in EntriesOf(t, k),
         AllEntries(u) = AllEntries(t) \ {x}
  PROVE  BagsOf(u) = [BagsOf(t) EXCEPT
           ![k] = Abstract!(-)(BagsOf(t)[k], Abstract!One(x.value))]
<1>1. /\ EntriesOf(u, k) = EntriesOf(t, k) \ {x}
      /\ \A j \in Keys : j # k => EntriesOf(u, j) = EntriesOf(t, j)
  BY EntriesOfKey
<1>2. IsFiniteSet(EntriesOf(t, k))
  BY EntriesFinite
<1>3. BagOf(EntriesOf(u, k)) = Abstract!(-)(BagsOf(t)[k], Abstract!One(x.value))
  <2>1. BagsOf(t)[k] = BagOf(EntriesOf(t, k))
    BY DEF BagsOf
  <2> QED BY <1>1, <1>2, <2>1, BagRemove, Zenon
<1>4. BagsOf(u) = [BagsOf(t) EXCEPT ![k] = BagOf(EntriesOf(u, k))]
  BY <1>1, OneKey
<1> QED BY <1>3, <1>4, Zenon

LEMMA ContentsReplaced ==
  ASSUME NEW n, NEW t, TableOK(t, n), NEW u, NEW k \in Keys, NEW x \in EntriesOf(t, k),
         NEW e, e.key = k, e \notin AllEntries(t),
         AllEntries(u) = (AllEntries(t) \ {x}) \cup {e}
  PROVE  BagsOf(u) = [BagsOf(t) EXCEPT
           ![k] = Abstract!(+)(Abstract!(-)(BagsOf(t)[k], Abstract!One(x.value)),
                               Abstract!One(e.value))]
<1> DEFINE E == EntriesOf(t, k)
<1>1. /\ EntriesOf(u, k) = (E \ {x}) \cup {e} /\ e \notin E \ {x}
      /\ \A j \in Keys : j # k => EntriesOf(u, j) = EntriesOf(t, j)
  BY EntriesOfKey
<1>2. IsFiniteSet(E)
  BY EntriesFinite
<1>3. BagsOf(t)[k] = BagOf(E)
  BY DEF BagsOf
<1> HIDE DEF E
<1>4. IsFiniteSet(E \ {x}) /\ x \in E
  BY <1>2, FS_RemoveElement DEF E
<1>5. BagOf(E \ {x}) = Abstract!(-)(BagsOf(t)[k], Abstract!One(x.value))
  BY <1>2, <1>3, <1>4, BagRemove, Zenon
<1>6. BagOf(EntriesOf(u, k)) = Abstract!(+)(BagOf(E \ {x}), Abstract!One(e.value))
  BY <1>1, <1>4, BagAdd, Zenon
<1>7. BagsOf(u) = [BagsOf(t) EXCEPT ![k] = BagOf(EntriesOf(u, k))]
  BY <1>1, OneKey
<1> QED BY <1>5, <1>6, <1>7, Zenon

\* What the multimap sees of a key.
LEMMA KeyContents ==
  ASSUME NEW t, NEW k \in Keys
  PROVE  /\ BagsOf(t)[k] = Abstract!EmptyBag <=> EntriesOf(t, k) = {}
         /\ \A x \in EntriesOf(t, k) : x.value \in Abstract!BagToSet(BagsOf(t)[k])
<1>1. BagsOf(t)[k] = BagOf(EntriesOf(t, k))
  BY DEF BagsOf
<1>2. \A x \in EntriesOf(t, k) : x.value \in ValuesOf(EntriesOf(t, k))
  BY DEF ValuesOf
<1> QED BY <1>1, <1>2, BagMembers, Zenon

LEMMA NoContents ==
  ASSUME NEW t, AllEntries(t) = {}
  PROVE  BagsOf(t) = [k \in Keys |-> Abstract!EmptyBag]
<1>1. \A k : EntriesOf(t, k) = {}
  BY EntriesOfKey
<1>2. \A k \in Keys : BagOf(EntriesOf(t, k)) = Abstract!EmptyBag
  BY <1>1, BagMembers, Zenon
<1> QED BY <1>2 DEF BagsOf

LEMMA PutImplements ==
  ASSUME TableInv, NEW k \in Keys, NEW v \in Values, deliverPut(k, v)
  PROVE  Abstract!Put(k, v)
<1> DEFINE c == Concat[<<k, v>>]
           old == BagsOf(table)
           new == BagsOf(table')
<1>1. TableOK(table, puts)
  BY DEF TableInv
<1>2. PICK e \in Entry :
        /\ e.value = v /\ e \notin AllEntries(table)
        /\ \/ /\ c \in Keys /\ e.key = c
              /\ \E x \in EntriesOf(table, c) :
                   AllEntries(table') = (AllEntries(table) \ {x}) \cup {e}
           \/ /\ c \in Keys => EntriesOf(table, c) = {}
              /\ e.key = k
              /\ AllEntries(table') = AllEntries(table) \cup {e}
  BY PutStep
<1> HIDE DEF c
<1>3. \/ /\ c \in Keys /\ old[c] # Abstract!EmptyBag
         /\ \E w \in Abstract!BagToSet(old[c]) :
              new = [old EXCEPT ![c] =
                       Abstract!(+)(Abstract!(-)(old[c], Abstract!One(w)), Abstract!One(v))]
      \/ /\ c \in Keys => old[c] = Abstract!EmptyBag
         /\ new = [old EXCEPT ![k] = Abstract!(+)(old[k], Abstract!One(v))]
  <2>1. ASSUME c \in Keys, e.key = c, NEW x \in EntriesOf(table, c),
               AllEntries(table') = (AllEntries(table) \ {x}) \cup {e}
        PROVE  /\ old[c] # Abstract!EmptyBag /\ x.value \in Abstract!BagToSet(old[c])
               /\ new = [old EXCEPT ![c] =
                           Abstract!(+)(Abstract!(-)(old[c], Abstract!One(x.value)),
                                        Abstract!One(v))]
    <3>1. old[c] # Abstract!EmptyBag /\ x.value \in Abstract!BagToSet(old[c])
      BY <2>1, KeyContents
    <3>2. new = [old EXCEPT ![c] =
                   Abstract!(+)(Abstract!(-)(old[c], Abstract!One(x.value)),
                                Abstract!One(e.value))]
      BY <1>1, <1>2, <2>1, ContentsReplaced
    <3> QED BY <1>2, <3>1, <3>2
  <2>2. ASSUME c \in Keys => EntriesOf(table, c) = {}, e.key = k,
               AllEntries(table') = AllEntries(table) \cup {e}
        PROVE  /\ c \in Keys => old[c] = Abstract!EmptyBag
               /\ new = [old EXCEPT ![k] = Abstract!(+)(old[k], Abstract!One(v))]
    <3>1. c \in Keys => old[c] = Abstract!EmptyBag
      BY <2>2, KeyContents
    <3>2. new = [old EXCEPT ![e.key] = Abstract!(+)(old[e.key], Abstract!One(e.value))]
      BY <1>1, <1>2, <2>2, ContentsAdded
    <3> QED BY <1>2, <2>2, <3>1, <3>2
  <2> HIDE DEF old, new
  <2> QED BY <1>2, <2>1, <2>2, Zenon
<1>4. reply' = [op |-> "PUT", key |-> k, result |-> "SUCCESS"]
  BY DEF deliverPut
<1> HIDE DEF old, new
<1>5. /\ contents = old
      /\ contents' = new
  BY AbstractContents DEF old, new
<1> QED BY <1>3, <1>4, <1>5, Zenon DEF Abstract!Put, c

LEMMA GetImplements ==
  ASSUME TableInv, NEW k \in Keys, deliverGet(k)
  PROVE  Abstract!Get(k)
<1> DEFINE old == BagsOf(table)
           new == BagsOf(table')
<1>1. TableOK(table, puts)
  BY DEF TableInv
<1>2. \/ \E v \in Abstract!BagToSet(old[k]) :
           reply' = [op |-> "GET", key |-> k, result |-> v]
      \/ /\ old[k] = Abstract!EmptyBag
         /\ reply' = [op |-> "GET", key |-> k, result |-> "NOT_FOUND"]
  <2>1. CASE HASH_FIND(table, k) # 0
    <3>1. Found(table, k) \in EntriesOf(table, k)
      BY <1>1, <2>1, Finds
    <3>2. Found(table, k).value \in Abstract!BagToSet(old[k])
      BY <3>1, KeyContents
    <3>3. reply' = [op |-> "GET", key |-> k, result |-> Found(table, k).value]
      BY <2>1 DEF deliverGet
    <3> QED BY <3>2, <3>3
  <2>2. CASE HASH_FIND(table, k) = 0
    <3>1. EntriesOf(table, k) = {}
      BY <1>1, <2>2, Finds
    <3>2. old[k] = Abstract!EmptyBag
      BY <3>1, KeyContents
    <3>3. reply' = [op |-> "GET", key |-> k, result |-> "NOT_FOUND"]
      BY <2>2 DEF deliverGet
    <3> QED BY <3>2, <3>3
  <2> QED BY <2>1, <2>2
<1>3. new = old
  BY DEF deliverGet
<1> HIDE DEF old, new
<1>4. /\ contents = old
      /\ contents' = new
  BY AbstractContents DEF old, new
<1> QED BY <1>2, <1>3, <1>4, Zenon DEF Abstract!Get

LEMMA DeleteImplements ==
  ASSUME TableInv, NEW k \in Keys, deliverDelete(k)
  PROVE  Abstract!Delete(k)
<1> DEFINE old == BagsOf(table)
           new == BagsOf(table')
<1>1. TableOK(table, puts)
  BY DEF TableInv
<1>2. \/ /\ HASH_FIND(table, k) # 0
         /\ \E v \in Abstract!BagToSet(old[k]) :
              new = [old EXCEPT ![k] = Abstract!(-)(old[k], Abstract!One(v))]
      \/ old[k] = Abstract!EmptyBag /\ new = old
  <2>1. CASE EntriesOf(table, k) = {} /\ UNCHANGED table
    <3>1. old[k] = Abstract!EmptyBag
      BY <2>1, KeyContents
    <3> QED BY <2>1, <3>1
  <2>2. ASSUME NEW x \in EntriesOf(table, k), AllEntries(table') = AllEntries(table) \ {x}
        PROVE  /\ HASH_FIND(table, k) # 0
               /\ x.value \in Abstract!BagToSet(old[k])
               /\ new = [old EXCEPT ![k] = Abstract!(-)(old[k], Abstract!One(x.value))]
    <3>1. HASH_FIND(table, k) # 0
      BY <1>1, <2>2, Finds
    <3> QED BY <1>1, <2>2, <3>1, KeyContents, ContentsRemoved
  <2> HIDE DEF old, new
  <2> QED BY <2>1, <2>2, DeleteStep, Zenon
<1>3. /\ reply'.op = "DELETE" /\ reply'.key = k
      /\ HASH_FIND(table, k) # 0 =>
           reply' = [op |-> "DELETE", key |-> k, result |-> "SUCCESS"]
  BY DEF deliverDelete
<1> HIDE DEF old, new
<1>4. /\ contents = old
      /\ contents' = new
  BY AbstractContents DEF old, new
<1> QED BY <1>2, <1>3, <1>4, Zenon DEF Abstract!Delete

LEMMA RestartImplements ==
  ASSUME TableInv, Restart
  PROVE  Abstract!Forget
<1>1. BagsOf(table') = [k \in Keys |-> Abstract!EmptyBag]
  BY RestartStep, NoContents
<1>2. contents' = [k \in Keys |-> Abstract!EmptyBag]
  BY <1>1, AbstractContents, Zenon
<1>3. reply' = NoReply
  BY DEF Restart
<1> QED BY <1>2, <1>3, Zenon DEF Abstract!Forget

LEMMA SameContents ==
  ASSUME UNCHANGED table
  PROVE  UNCHANGED contents
<1>1. BagsOf(table') = BagsOf(table)
  OBVIOUS
<1> QED BY <1>1, AbstractContents, Zenon

(***************************************************************************)
(* Whatever the hash function, and through all collisions, expansions,     *)
(* deletions and restarts, the table of kv_memory.c loses, invents and     *)
(* exchanges no entry, and GET and DELETE answer for what it holds.        *)
(***************************************************************************)
THEOREM MultimapTheorem == Spec => ImplementsMultimap
<1>1. Init => Abstract!Init
  <2> SUFFICES ASSUME Init PROVE Abstract!Init
    OBVIOUS
  <2>1. AllEntries(table) = {} /\ reply = NoReply
    BY NewTableOK DEF Init
  <2>2. contents = [k \in Keys |-> Abstract!EmptyBag]
    BY <2>1, NoContents, AbstractContents, Zenon
  <2> QED BY <2>1, <2>2, Zenon DEF Abstract!Init
<1>2. TableInv /\ [Next]_vars =>
        [Abstract!Next]_<<contents, reply>>
  <2> SUFFICES ASSUME TableInv, [Next]_vars
               PROVE  \/ Abstract!Next
                      \/ UNCHANGED <<contents, reply>>
    OBVIOUS
  <2>1. ASSUME NEW k \in Keys, NEW v \in Values, deliverPut(k, v) PROVE Abstract!Next
    <3>1. Abstract!Put(k, v)
      BY <2>1, PutImplements
    <3> QED BY <3>1, Zenon DEF Abstract!Next
  <2>2. ASSUME NEW k \in Keys, deliverGet(k) PROVE Abstract!Next
    <3>1. Abstract!Get(k)
      BY <2>2, GetImplements
    <3> QED BY <3>1, Zenon DEF Abstract!Next
  <2>3. ASSUME NEW k \in Keys, deliverDelete(k) PROVE Abstract!Next
    <3>1. Abstract!Delete(k)
      BY <2>3, DeleteImplements
    <3> QED BY <3>1, Zenon DEF Abstract!Next
  <2>4. ASSUME deliverOther PROVE Abstract!Next
    <3>1. UNCHANGED contents
      BY <2>4, SameContents DEF deliverOther
    <3>2. reply'.op = "other"
      BY <2>4 DEF deliverOther
    <3>3. Abstract!Other
      BY <3>1, <3>2, Zenon DEF Abstract!Other
    <3> QED BY <3>3, Zenon DEF Abstract!Next
  <2>5. ASSUME Restart PROVE Abstract!Next
    <3>1. Abstract!Forget
      BY <2>5, RestartImplements
    <3> QED BY <3>1, Zenon DEF Abstract!Next
  <2>6. ASSUME UNCHANGED vars
        PROVE  UNCHANGED <<contents, reply>>
    <3>1. UNCHANGED table /\ UNCHANGED reply
      BY <2>6 DEF vars
    <3>2. UNCHANGED contents
      BY <3>1, SameContents
    <3> QED BY <3>1, <3>2, Zenon
  <2> QED BY <2>1, <2>2, <2>3, <2>4, <2>5, <2>6, Zenon DEF Next
<1> QED BY <1>1, <1>2, InitTable, TableStep, PTL DEF Spec, ImplementsMultimap, Abstract!Spec

=============================================================================
