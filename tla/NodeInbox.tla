----------------------------- MODULE NodeInbox -----------------------------
(***************************************************************************)
(* The inbox of a Node (core/src/network.rs): connection tasks push the    *)
(* payload of a Data frame under the locks of the byte counter and of the  *)
(* queue; the dispatcher of awe-node empties it with take_inbox, which     *)
(* takes the queue under its own lock and only then resets the counter.    *)
(*                                                                         *)
(* A push holds the counter's lock from the check to the update, and what  *)
(* it reads of the queue it reads after it has the queue's lock, so it is  *)
(* one step.  take_inbox is two.                                           *)
(*                                                                         *)
(* pushed and taken are history: every accepted message, and every one     *)
(* handed to the dispatcher.                                               *)
(***************************************************************************)
EXTENDS Integers, Sequences

CONSTANTS
  Messages,      \* the payloads sent in a run
  Size,          \* their sizes
  MaxMessages,   \* MAX_INBOX_MESSAGES
  MaxBytes       \* MAX_INBOX_BYTES

ASSUME InboxAssumption ==
  /\ Size \in [Messages -> Nat]
  /\ MaxMessages \in Nat /\ MaxBytes \in Nat

VARIABLES inbox, inboxBytes, dispatcher, pushed, taken

inboxVars == <<inbox, inboxBytes, dispatcher, pushed, taken>>

\* The bytes of the first i messages of a queue, and of all of them.
RunningBytes(queue) ==
  LET run[i \in 0..Len(queue)] == IF i = 0 THEN 0 ELSE run[i - 1] + Size[queue[i]]
  IN  run

Held(queue) == RunningBytes(queue)[Len(queue)]

InboxInit ==
  /\ inbox = <<>>
  /\ inboxBytes = 0
  /\ dispatcher = "idle"
  /\ pushed = <<>>
  /\ taken = <<>>

\* Fault: the size of the new message is ignored.
CounterFullBefore(size) == inboxBytes > MaxBytes

CounterFull(size) == size > MaxBytes \/ inboxBytes > MaxBytes - size

Accepts(m) == ~CounterFull(Size[m]) /\ Len(inbox) < MaxMessages

Push(m) ==
  /\ Accepts(m)
  /\ inbox' = Append(inbox, m)
  /\ inboxBytes' = inboxBytes + Size[m]
  /\ pushed' = Append(pushed, m)
  /\ UNCHANGED <<dispatcher, taken>>

TakeQueue ==
  /\ dispatcher = "idle"
  /\ taken' = taken \o inbox
  /\ inbox' = <<>>
  /\ dispatcher' = "resetting"
  /\ UNCHANGED <<inboxBytes, pushed>>

\* Fault: the queue is cleared a second time.
ResetBytesClears ==
  /\ dispatcher = "resetting"
  /\ inbox' = <<>>
  /\ inboxBytes' = 0
  /\ dispatcher' = "idle"
  /\ UNCHANGED <<pushed, taken>>

ResetBytes ==
  /\ dispatcher = "resetting"
  /\ inboxBytes' = 0
  /\ dispatcher' = "idle"
  /\ UNCHANGED <<inbox, pushed, taken>>

-----------------------------------------------------------------------------
\* What the two-step take_inbox guarantees of "bounded frame, peer, routing,
\* inbox, connection and discovery state" (docs/AWENET-ARCHITECTURE.md):
\* messages pushed between its steps are never counted, but they fitted next to
\* the old content, so memory stays below twice MAX_INBOX_BYTES.  MAX_INBOX_BYTES
\* itself is exceeded.
BytesBoundedTwice == Held(inbox) <= 2 * MaxBytes

\* Every message that was acknowledged to its sender reaches the dispatcher
\* once and in the order of the pushes, also those that arrive while
\* take_inbox runs.
EachTakenOnce == taken \o inbox = pushed
=============================================================================
