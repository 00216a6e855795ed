----------------------------- MODULE MCKVMemory -----------------------------
(* Two keys that share a bucket until the table is expanded; "a" followed  *)
(* by "b" reads as the key "ab".                                           *)
EXTENDS KVMemory

MCConcat == [p \in Keys \X Values |-> IF p = <<"a", "b">> THEN "ab" ELSE NoKey]
MCHashOf == [k \in Keys |-> IF k = "a" THEN 0 ELSE 2]

=============================================================================
