---------------------------- MODULE Conversation ----------------------------
(***************************************************************************)
(* What a device promises about the messages of one chat, whatever the     *)
(* handlers, the second writer and the deletions do in between:            *)
(*                                                                         *)
(*   - a message is acknowledged to its sender, and announced to the app,  *)
(*     only once it is settled: on disk, or given up on (the disk refused  *)
(*     it, or the user deleted the chat around it);                        *)
(*   - a message that is gone for good does not come back and is not       *)
(*     announced, unless the device could not read, when it had announced  *)
(*     nothing yet, that it is gone: then it is announced once.            *)
(*                                                                         *)
(* ReceiveMessage implements this specification; Delivery puts it at the   *)
(* receiving end of a sender's tracker.                                    *)
(***************************************************************************)
CONSTANT Message        \* the messages of the chat

VARIABLES kept,         \* the messages on disk
          settled,      \* the messages that were on disk, or were given up on
          told,         \* the messages this session announced
          acked,        \* the messages a delivery receipt was sent for
          gone,         \* the messages deleted for good
          doubted       \* whether they are could not be read

vars == <<kept, settled, told, acked, gone, doubted>>

TypeOK ==
  /\ kept \subseteq Message
  /\ settled \subseteq Message
  /\ told \subseteq Message
  /\ acked \subseteq Message
  /\ gone \subseteq Message
  /\ doubted \subseteq Message

Init ==
  /\ kept = {}
  /\ settled = {}
  /\ told = {}
  /\ acked = {}
  /\ gone = {}
  /\ doubted = {}

(* The message is written to disk.                                         *)
Keep(m) ==
  /\ m \notin gone
  /\ kept' = kept \cup {m}
  /\ settled' = settled \cup {m}
  /\ UNCHANGED <<told, acked, gone, doubted>>

(* The message will not be written: what follows does not wait for it.     *)
GiveUp(m) ==
  /\ settled' = settled \cup {m}
  /\ UNCHANGED <<kept, told, acked, gone, doubted>>

(* The app is told of the message: a bubble, an unread count.              *)
Tell(m) ==
  /\ m \in settled \ (gone \ doubted)
  /\ told' = told \cup {m}
  /\ doubted' = doubted \ {m}
  /\ UNCHANGED <<kept, settled, acked, gone>>

(* A delivery receipt leaves for the sender.                               *)
Acknowledge(m) ==
  /\ m \in settled
  /\ acked' = acked \cup {m}
  /\ UNCHANGED <<kept, settled, told, gone, doubted>>

(* Messages are deleted, some of them for good.                            *)
Delete(S, F) ==
  /\ F \cap (kept \ S) = {}
  /\ kept' = kept \ S
  /\ gone' = gone \cup F
  /\ UNCHANGED <<settled, told, acked, doubted>>

(* The device cannot read whether the message is gone.                     *)
Doubt(m) ==
  /\ told = {}
  /\ doubted' = doubted \cup {m}
  /\ UNCHANGED <<kept, settled, told, acked, gone>>

(* The user deleted the chat: what the session announced is forgotten.     *)
Forget ==
  /\ told' = {}
  /\ UNCHANGED <<kept, settled, acked, gone, doubted>>

(* A new session has announced nothing. A deletion that left no mark on    *)
(* disk may be undone by a replay.                                         *)
Restart ==
  /\ told' = {}
  /\ doubted' = {}
  /\ gone' \subseteq gone
  /\ UNCHANGED <<kept, settled, acked>>

Next ==
  \/ \E m \in Message : \/ Keep(m) \/ GiveUp(m) \/ Tell(m)
                        \/ Acknowledge(m) \/ Doubt(m)
  \/ \E S, F \in SUBSET Message : Delete(S, F)
  \/ Forget
  \/ Restart

Spec == Init /\ [][Next]_vars
=============================================================================
