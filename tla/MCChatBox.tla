----------------------------- MODULE MCChatBox ------------------------------
(***************************************************************************)
(* A small instance of ChatBox: two chats, a message arriving in each, and *)
(* one sent in the first.                                                  *)
(***************************************************************************)
EXTENDS ChatBox

CONSTANTS alice, bob, fromAlice, fromBob, toAlice

MCChatOf == [m \in Messages |-> IF m = fromBob THEN bob ELSE alice]
=============================================================================
