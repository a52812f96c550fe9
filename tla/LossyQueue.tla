----------------------------- MODULE LossyQueue -----------------------------
(***************************************************************************)
(* What the receive buffer of an RT-Thread V1 serial device really         *)
(* promises its reader, without indexes or flags: characters come out in   *)
(* the order they came in, none twice, and a character that arrives when   *)
(* Capacity characters wait unread makes the driver forget all of them.    *)
(* SerialRxFifo implements this specification.                             *)
(***************************************************************************)
EXTENDS Naturals, Sequences

CONSTANTS
  Byte,      \* the characters a UART can deliver
  Capacity   \* how many unread characters the buffer can hold, at least 1

VARIABLES
  queue,     \* the unread characters, oldest first
  got        \* what the last read returned: <<>> for none, else <<character>>

vars == <<queue, got>>

Init == queue = <<>> /\ got = <<>>

Put(ch) ==
  /\ queue' = IF Len(queue) = Capacity THEN <<ch>> ELSE Append(queue, ch)
  /\ UNCHANGED got

Get ==
  /\ queue # <<>>
  /\ got' = <<Head(queue)>>
  /\ queue' = Tail(queue)

GetNothing ==
  /\ queue = <<>>
  /\ got' = <<>>
  /\ UNCHANGED queue

Next == (\E ch \in Byte : Put(ch)) \/ Get \/ GetNothing

Spec == Init /\ [][Next]_vars
=============================================================================
