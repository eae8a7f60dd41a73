-------------------------- MODULE MCStatusService --------------------------
(* Three chat servers, two handlers, and connections for two calls.        *)
EXTENDS StatusService

MCListed == <<"s1", "s2", "s3">>
=============================================================================
