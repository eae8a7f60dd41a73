-------------------------- MODULE AbstractChannel --------------------------
(***************************************************************************)
(* What a chat session promises the two sides it stands between, without   *)
(* bytes, buffers or handlers: what is given at one end is taken at the    *)
(* other in the same order, whole, once, and never before it was given.    *)
(* Nothing is promised about how much of it is taken: a connection may end *)
(* at any time.                                                            *)
(* ChatSession implements it twice, for the frames a peer sends and for    *)
(* the messages that Send accepts.                                         *)
(***************************************************************************)
EXTENDS Naturals, Sequences

CONSTANT Messages

VARIABLES given,      \* messages handed to the channel so far
          taken       \* messages it has delivered so far

acVars == <<given, taken>>

Init == given = <<>> /\ taken = <<>>

Give == /\ \E m \in Messages : given' = Append(given, m)
        /\ UNCHANGED taken

Take == /\ Len(taken) < Len(given)
        /\ taken' = Append(taken, given[Len(taken) + 1])
        /\ UNCHANGED given

Next == Give \/ Take

Spec == Init /\ [][Next]_acVars
=============================================================================
