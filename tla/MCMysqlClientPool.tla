------------------------- MODULE MCMysqlClientPool -------------------------
(* Instances of MysqlClientPool for TLC.                                   *)
EXTENDS MysqlClientPool
============================================================================
