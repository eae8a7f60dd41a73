---------------------------- MODULE MCChatLogic ----------------------------
(* Two IO threads, three messages each: one can post while the other is    *)
(* between its unlock and its notify, and again.                           *)
EXTENDS ChatLogic
=============================================================================
