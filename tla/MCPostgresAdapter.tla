--------------------------- MODULE MCPostgresAdapter ---------------------------
(* PostgresAdapter on small instances.                                     *)
EXTENDS PostgresAdapter, TLC

Migration(i, c) == [id |-> i, checksum |-> c]

(* p2 edited the first migration and lacks the second.                     *)
MCReleases ==
  [p \in Processes |->
     IF p = "p1" THEN <<Migration(1, "a"), Migration(2, "a")>> ELSE <<Migration(1, "b")>>]

(* p1 is started again when it failed.                                     *)
MCMaxRuns == [p \in Processes |-> IF p = "p1" THEN 2 ELSE 1]

MCProcessOf == [t \in Transactions |-> "p1"]

(* t2 is called by the callback of t1.                                     *)
MCParentOf == [t \in Transactions |-> IF t = "t2" THEN "t1" ELSE NoTransaction]

(* t1 and t2 write the same row; t3 only reads.                            *)
MCPlanOf ==
  [t \in Transactions |->
     CASE t = "t1" -> <<"a1", "a2">> [] t = "t2" -> <<"a1">> [] t = "t3" -> <<>>]
=============================================================================
