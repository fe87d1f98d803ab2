----------------------------- MODULE RttChannel -----------------------------
(***************************************************************************)
(* What an RTT up channel promises its two users, without the ring, the    *)
(* offsets or the polling: a bounded, first-in first-out byte channel.     *)
(* The program appends whole messages (a message that does not fit is not  *)
(* appended at all), the host takes the bytes in the order they were       *)
(* appended, and a restart of the program empties the channel.             *)
(* Rtt.tla implements this specification.                                  *)
(***************************************************************************)
EXTENDS Naturals, Sequences

CONSTANTS
  Messages,  \* the messages the program may log, sequences of bytes
  Capacity,  \* how many unread bytes the channel holds
  None       \* the host has read nothing yet

VARIABLES
  unread,    \* the bytes appended and not yet taken by the host
  out        \* the byte the host took last

vars == <<unread, out>>

Init ==
  /\ unread = <<>>
  /\ out = None

Write(m) ==
  /\ Len(unread) + Len(m) <= Capacity
  /\ unread' = unread \o m
  /\ UNCHANGED out

Read ==
  /\ unread # <<>>
  /\ out' = Head(unread)
  /\ unread' = Tail(unread)

Restart ==
  /\ unread' = <<>>
  /\ UNCHANGED out

Next ==
  \/ \E m \in Messages : Write(m)
  \/ Read
  \/ Restart

Spec == Init /\ [][Next]_vars
=============================================================================
