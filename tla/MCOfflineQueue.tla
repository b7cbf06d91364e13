--------------------------- MODULE MCOfflineQueue ---------------------------
(* OfflineQueue for TLC: chats a and b, messages in the order of their ids. *)
EXTENDS OfflineQueue

TwoChats == <<"a", "a", "b">>
OneChat  == <<"a", "a">>
=============================================================================
