---------------------------- MODULE MCRedisPool ----------------------------
(* Three callers, two connections (or fewer, where connects failed) and a  *)
(* checker round every second tick.                                        *)
EXTENDS RedisPool
=============================================================================
