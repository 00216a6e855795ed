--------------------------- MODULE MCLevelDBPaxos ---------------------------
EXTENDS LevelDBPaxos

MCSubmissions ==
  {[client |-> 1, value |-> q] : q \in
     {[op |-> "PUT", key |-> "a", value |-> "v1"],
      [op |-> "PUT", key |-> "a", value |-> "empty"],
      [op |-> "PUT", key |-> "b", value |-> "v1"],
      [op |-> "GET", key |-> "a", value |-> "own"],
      [op |-> "DELETE", key |-> "a", value |-> "own"],
      [op |-> "other", key |-> "a", value |-> "own"]}}

=============================================================================
