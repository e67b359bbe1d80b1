---------------------------- MODULE MCChatClient ----------------------------
(* ChatClient for TLC: two messages.                                       *)
EXTENDS ChatClient
CONSTANTS m1, m2
TypedMessages == {m1, m2}
=============================================================================
