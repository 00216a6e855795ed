------------------------------ MODULE KVMemory ------------------------------
(***************************************************************************)
(* app/kv_memory.c: the application of a learner that keeps a key-value    *)
(* map in a uthash table (app/include/uthash.h).  One step is one call of  *)
(* deliver; the learner may call it with any request, in any order.        *)
(*                                                                         *)
(* An entry is looked up with HASH_FIND_STR, which measures the key with   *)
(* strlen.  In a PUT the value follows the key, so that PUT looks for an   *)
(* entry whose key reads as key and value in a row, and hardly ever finds  *)
(* one: a second PUT of a key adds a second entry.                         *)
(***************************************************************************)
EXTENDS Naturals, Bags, SequencesExt

CONSTANTS
  Keys, Values,   \* values are of at most 10 bytes, the size of kv_entry.value
  Concat,         \* [Keys \X Values -> the key that reads as both in a row, or NoKey]
  NoKey,
  HashOf,         \* [Keys -> Nat]: HASH_FCN
  InitialBuckets, \* HASH_INITIAL_NUM_BUCKETS, a power of two
  Threshold,      \* HASH_BKT_CAPACITY_THRESH
  MaxPuts         \* bound: calls of deliver with PUT

ASSUME KVMemoryAssumption ==
  /\ NoKey \notin Keys
  /\ Concat \in [Keys \X Values -> Keys \cup {NoKey}]
  /\ HashOf \in [Keys -> Nat]
  /\ InitialBuckets \in Nat \ {0} /\ Threshold \in Nat \ {0} /\ MaxPuts \in Nat

VARIABLES
  table,      \* the hash table; with no entry it stands for hashmap == NULL
  reply,      \* the last answer sent to a client
  puts        \* history: calls of deliver with PUT

vars == <<table, reply, puts>>

\* What a byte that was never written may hold, seen as a return code.
AnyByte == {"SUCCESS", "NOT_FOUND", "junk"}

NoReply == [op |-> "none", key |-> NoKey, result |-> "none"]

Buckets(t) == 0 .. t.num_buckets - 1

\* `at' counts PUTs, so that the age of an entry can be told.
Entry == [key : Keys, value : Values, at : 1 .. MaxPuts]

EntriesOf(t, k) ==
  UNION {{e \in Range(t.chains[b]) : e.key = k} : b \in Buckets(t)}

\* Where there is an entry: the bucket and the place in its chain.
Places(t) == UNION {{b} \X (1 .. Len(t.chains[b])) : b \in Buckets(t)}

num_items(t) == Cardinality(Places(t))

\* The table is in order: an entry is in the bucket that its hash selects.
TypeOK ==
  /\ table.num_buckets \in Nat \ {0}
  /\ table.chains \in [Buckets(table) -> Seq(Entry)]
  /\ table.expand_mult \in [Buckets(table) -> Nat]
  /\ table.ineff_expands \in Nat /\ table.noexpand \in BOOLEAN
  /\ \A b \in Buckets(table) : \A e \in Range(table.chains[b]) :
       HashOf[e.key] % table.num_buckets = b
  /\ reply.key \in Keys \cup {NoKey}
  /\ puts \in 0 .. MaxPuts

-----------------------------------------------------------------------------
(* uthash *)

\* HASH_MAKE_TABLE
NewTable ==
  [num_buckets |-> InitialBuckets,
   chains |-> [b \in 0 .. InitialBuckets - 1 |-> << >>],
   expand_mult |-> [b \in 0 .. InitialBuckets - 1 |-> 0],
   ineff_expands |-> 0, noexpand |-> FALSE]

\* HASH_TO_BKT: the mask is the remainder, the number of buckets being a power
\* of two.
BucketOf(t, k) == HashOf[k] % t.num_buckets

\* HASH_FIND: the place of the first entry for k in its chain, 0 if none.
HASH_FIND(t, k) ==
  IF k = NoKey THEN 0
  ELSE SelectInSeq(t.chains[BucketOf(t, k)], LAMBDA e : e.key = k)

Found(t, k) == t.chains[BucketOf(t, k)][HASH_FIND(t, k)]

\* Mutant: entries are distributed as before the doubling.
ExpandStale(t) ==
  LET n == t.num_buckets
  IN [t EXCEPT
        !.num_buckets = 2 * n,
        !.chains = [b \in 0 .. 2 * n - 1 |->
                      IF b < n THEN Reverse(t.chains[b]) ELSE << >>],
        !.expand_mult = [b \in 0 .. 2 * n - 1 |-> 0]]

\* Mutant: the next entry of the old chain is read after the entry was linked
\* into its new one, where nothing follows it.
RedistributeFirst(s, m, b) ==
  IF s # << >> /\ HashOf[s[1].key] % m = b THEN <<s[1]>> ELSE << >>

\* The new chain of bucket b out of m: the old chain is walked from its head,
\* and every entry that belongs to b put at the head, so that the entries that
\* stay together change their order.
Redistribute(s, m, b) ==
  LET walk[p \in 0 .. Len(s)] ==
        IF p = 0 THEN << >>
        ELSE IF HashOf[s[p].key] % m = b THEN Cons(s[p], walk[p - 1])
        ELSE walk[p - 1]
  IN walk[Len(s)]

\* HASH_EXPAND_BUCKETS: twice as many buckets.
HASH_EXPAND_BUCKETS(t) ==
  LET n == t.num_buckets
      ideal == (num_items(t) + 2 * n - 1) \div (2 * n)
      new == [b \in 0 .. 2 * n - 1 |-> Redistribute(t.chains[b % n], 2 * n, b)]
      over(b) == IF Len(new[b]) > ideal THEN Len(new[b]) - ideal ELSE 0
      nonideal == MapThenSumSet(over, 0 .. 2 * n - 1)
      ineff == IF nonideal > num_items(t) \div 2 THEN t.ineff_expands + 1 ELSE 0
  IN [num_buckets |-> 2 * n,
      chains |-> new,
      expand_mult |-> [b \in 0 .. 2 * n - 1 |->
                         IF over(b) > 0 THEN Len(new[b]) \div ideal ELSE 0],
      ineff_expands |-> ineff,
      noexpand |-> t.noexpand \/ ineff > 1]

\* Mutant: the entry is added at the end of the chain.
HASH_ADD_TO_BKTLast(t, b, e) ==
  LET added == [t EXCEPT !.chains[b] = Append(@, e)]
  IN IF Len(added.chains[b]) >= (t.expand_mult[b] + 1) * Threshold /\ ~t.noexpand
     THEN HASH_EXPAND_BUCKETS(added)
     ELSE added

\* The entry becomes the head of chain b; a chain that is too long expands
\* the table, unless that was of no use twice.
HASH_ADD_TO_BKT(t, b, e) ==
  LET added == [t EXCEPT !.chains[b] = Cons(e, @)]
  IN IF Len(added.chains[b]) >= (t.expand_mult[b] + 1) * Threshold /\ ~t.noexpand
     THEN HASH_EXPAND_BUCKETS(added)
     ELSE added

HASH_ADD_KEYPTR(t, e) == HASH_ADD_TO_BKT(t, BucketOf(t, e.key), e)

\* HASH_DELETE of the entry found for k; the table is freed with its last entry.
HASH_DEL(t, k) ==
  IF num_items(t) = 1 THEN NewTable
  ELSE [t EXCEPT !.chains[BucketOf(t, k)] = RemoveAt(@, HASH_FIND(t, k))]

-----------------------------------------------------------------------------
(* kv_memory.c *)

Init ==
  /\ table = NewTable
  /\ reply = NoReply
  /\ puts = 0

\* add_entry: looks for key and value in a row, adds under the key alone.
add_entry(k, v) ==
  LET c == Concat[<<k, v>>]
  IN table' = IF HASH_FIND(table, c) # 0
              THEN [table EXCEPT
                      !.chains[BucketOf(table, c)][HASH_FIND(table, c)] =
                        [key |-> c, value |-> v, at |-> puts + 1]]
              ELSE HASH_ADD_KEYPTR(table, [key |-> k, value |-> v, at |-> puts + 1])

deliverPut(k, v) ==
  /\ puts < MaxPuts
  /\ puts' = puts + 1
  /\ add_entry(k, v)
  /\ reply' = [op |-> "PUT", key |-> k, result |-> "SUCCESS"]

\* The value is sent up to its first NUL byte, which PUT did not copy: the
\* bytes that may follow the value are not told apart here.
deliverGet(k) ==
  /\ reply' = [op |-> "GET", key |-> k,
               result |-> IF HASH_FIND(table, k) # 0
                          THEN Found(table, k).value ELSE "NOT_FOUND"]
  /\ UNCHANGED <<table, puts>>

\* A missing key falls out of the switch, to an answer with a byte of `res'
\* that was never set.
deliverDelete(k) ==
  /\ \/ /\ HASH_FIND(table, k) # 0
        /\ table' = HASH_DEL(table, k)
        /\ reply' = [op |-> "DELETE", key |-> k, result |-> "SUCCESS"]
     \/ /\ HASH_FIND(table, k) = 0
        /\ \E r \in AnyByte : reply' = [op |-> "DELETE", key |-> k, result |-> r]
        /\ UNCHANGED table
  /\ UNCHANGED puts

\* A request with another op.  (With op 0 nothing is answered.)
deliverOther ==
  /\ \E r \in AnyByte : reply' = [op |-> "other", key |-> NoKey, result |-> r]
  /\ UNCHANGED <<table, puts>>

\* The process ends and is started again.
Restart ==
  /\ table' = NewTable
  /\ reply' = NoReply
  /\ UNCHANGED puts

Next ==
  \/ \E k \in Keys, v \in Values : deliverPut(k, v)
  \/ \E k \in Keys : deliverGet(k)
  \/ \E k \in Keys : deliverDelete(k)
  \/ deliverOther
  \/ Restart

Spec == Init /\ [][Next]_vars

-----------------------------------------------------------------------------
(***************************************************************************)
(* Until the table was expanded for the first time, the entry that GET and *)
(* DELETE find for a key is the one that was written last, although add    *)
(* does not look for it: older entries of the key are hidden behind it.    *)
(* The expansion turns the chains over, and the oldest entry comes up.     *)
(***************************************************************************)
LatestOnTop ==
  table.num_buckets = InitialBuckets =>
    \A k \in Keys : \A e \in EntriesOf(table, k) :
      HASH_FIND(table, k) # 0 /\ Found(table, k).at >= e.at

BagOfValues(k) ==
  LET E == EntriesOf(table, k)
  IN [v \in {e.value : e \in E} |-> Cardinality({e \in E : e.value = v})]

contents == [k \in Keys |-> BagOfValues(k)]

Abstract == INSTANCE Multimap WITH contents <- contents

(***************************************************************************)
(* The table loses, invents and exchanges no entry: through all PUTs,      *)
(* DELETEs, collisions and expansions a GET answers with a value that its  *)
(* key holds, and with NOT_FOUND only if it holds none, a DELETE removes   *)
(* such a value and says so, and a PUT touches one key alone, given the    *)
(* key under which add_entry looks.                                        *)
(***************************************************************************)
ImplementsMultimap == Abstract!Spec

=============================================================================
