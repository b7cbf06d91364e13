------------------------------ MODULE MCInbox ------------------------------
(* Inbox for TLC: wraps further apart than the fuzz window, of their own    *)
(* rumors or with the first message wrapped again as the last.              *)
EXTENDS Inbox

ThreeApart  == <<2, 4, 6>>
ThreeRumors == <<1, 2, 3>>
FirstAgain3 == <<1, 2, 1>>
=============================================================================
