------------------------------ MODULE Multimap ------------------------------
(***************************************************************************)
(* What a hash table guarantees to app/kv_memory.c: no entry is lost,      *)
(* invented or exchanged.  A key holds the values that were put under it   *)
(* and not deleted since, in a bag, for the table does not forbid two      *)
(* entries of one key.                                                     *)
(*                                                                         *)
(* This is not the map that add_entry means to keep: it looks for the key  *)
(* and overwrites the value it finds.  But it looks for the bytes of key   *)
(* and value in a row (Concat), so that a second PUT of a key adds a       *)
(* second entry.  The module takes the lookups as they are made, and says  *)
(* what must then follow.                                                  *)
(***************************************************************************)
EXTENDS Bags

CONSTANTS
  Keys, Values,
  Concat,     \* [Keys \X Values -> the key that reads as both in a row, if any]
  NoReply

VARIABLES
  contents,   \* [Keys -> bags of Values]
  reply       \* the last answer sent: [op, key, result]

One(v) == SetToBag({v})

Init ==
  /\ contents = [k \in Keys |-> EmptyBag]
  /\ reply = NoReply

\* A PUT whose key and value in a row read as another key that is present
\* replaces a value of that key.
Put(k, v) ==
  LET c == Concat[<<k, v>>]
  IN /\ \/ /\ c \in Keys /\ contents[c] # EmptyBag
           /\ \E old \in BagToSet(contents[c]) :
                contents' = [contents EXCEPT ![c] = (@ (-) One(old)) (+) One(v)]
        \/ /\ c \in Keys => contents[c] = EmptyBag
           /\ contents' = [contents EXCEPT ![k] = @ (+) One(v)]
     /\ reply' = [op |-> "PUT", key |-> k, result |-> "SUCCESS"]

Get(k) ==
  /\ \/ \E v \in BagToSet(contents[k]) :
          reply' = [op |-> "GET", key |-> k, result |-> v]
     \/ /\ contents[k] = EmptyBag
        /\ reply' = [op |-> "GET", key |-> k, result |-> "NOT_FOUND"]
  /\ UNCHANGED contents

\* SUCCESS is answered whenever a value was removed; of the answer for a key
\* without a value, a byte that was never written, nothing is said.
Delete(k) ==
  \/ /\ \E v \in BagToSet(contents[k]) :
          contents' = [contents EXCEPT ![k] = @ (-) One(v)]
     /\ reply' = [op |-> "DELETE", key |-> k, result |-> "SUCCESS"]
  \/ /\ contents[k] = EmptyBag
     /\ reply'.op = "DELETE" /\ reply'.key = k
     /\ UNCHANGED contents

Other ==
  /\ reply'.op = "other"
  /\ UNCHANGED contents

\* The process ends and is started again.
Forget ==
  /\ contents' = [k \in Keys |-> EmptyBag]
  /\ reply' = NoReply

Next ==
  \/ \E k \in Keys : Get(k) \/ Delete(k) \/ \E v \in Values : Put(k, v)
  \/ Other
  \/ Forget

Spec == Init /\ [][Next]_<<contents, reply>>

=============================================================================
