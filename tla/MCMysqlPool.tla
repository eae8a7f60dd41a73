---------------------------- MODULE MCMysqlPool ----------------------------
(* Three callers, two connections (or fewer, where the constructor failed) *)
(* and one outage of the database.                                         *)
EXTENDS MysqlPool
=============================================================================
