--------------------------- MODULE MCChatSession ---------------------------
(* Frames with an empty body, a short one, one of exactly MAX_LENGTH, one  *)
(* that is a byte too long, one that throws and one that is never full.    *)
(* With Base = 4 a short is -8..7.                                         *)
EXTENDS ChatSession

MCFrames == {[id |-> 7, total_len_ |-> 0, body |-> <<>>],
             [id |-> 2, total_len_ |-> 2, body |-> <<3, 0>>],
             [id |-> -3, total_len_ |-> 4, body |-> <<0, 1, 2, 3>>],
             [id |-> 4, total_len_ |-> 5, body |-> <<1, 1, 1, 1, 1>>],
             [id |-> 1, total_len_ |-> -2, body |-> <<>>],
             [id |-> 0, total_len_ |-> -1, body |-> <<2, 1>>]}
=============================================================================
