--------------------------- MODULE MCGateAccounts ---------------------------
(* Two IO threads, one user name claimed by two emails, two passwords and  *)
(* two codes.  All the sets are interchangeable.                           *)
EXTENDS GateAccounts, TLC

Symmetry == Permutations(Workers) \cup Permutations(Emails)
            \cup Permutations(Pwds) \cup Permutations(Codes)
=============================================================================
