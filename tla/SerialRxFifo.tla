---------------------------- MODULE SerialRxFifo ----------------------------
(***************************************************************************)
(* The interrupt-mode receive buffer of a V1 serial device: struct         *)
(* rt_serial_rx_fifo, filled by rt_hw_serial_isr and drained by            *)
(* _serial_int_rx (dev_serial.c). Every step below is one region that the  *)
(* code runs with interrupts disabled, or a part of the interrupt handler; *)
(* the reader is a thread, so it never runs while a handler pass is in     *)
(* progress, but a pass may come between any two of its reads.             *)
(***************************************************************************)
EXTENDS Naturals, Sequences

CONSTANTS
  Byte,          \* the characters a UART can deliver
  bufsz,         \* config.bufsz, the number of slots
  MaxArrivals    \* bound on the number of characters received in a behaviour

ASSUME BufszAssumption == bufsz \in Nat \ {0}
ASSUME MaxArrivalsAssumption == MaxArrivals \in Nat
ASSUME ByteAssumption == 0 \in Byte   \* rt_serial_open clears the buffer

VARIABLES
  buffer,        \* the slots
  put_index,     \* where the handler stores the next character
  get_index,     \* where the reader takes the next one
  is_full,       \* set when put_index reaches get_index, cleared by any read
  isr,           \* "idle", or "loop" while a handler pass is in progress
  rx_length,     \* the length the last finished pass computed; rx_indicate is
                 \* called with it unless it is 0
  read,          \* what the last one-character read returned: <<>> or <<ch>>
  arrived        \* history: every character getc has returned

fifo == <<buffer, put_index, get_index, is_full>>
vars == <<fifo, isr, rx_length, read, arrived>>

Slots == 0 .. bufsz - 1

WrapLate(i) == IF i > bufsz THEN i - bufsz ELSE i    \* mutation of Wrap

Wrap(i) == IF i >= bufsz THEN i - bufsz ELSE i

TypeOK ==
  /\ buffer \in [Slots -> Byte]
  /\ put_index \in Slots
  /\ get_index \in Slots
  /\ is_full \in BOOLEAN
  /\ isr \in {"idle", "loop"}
  /\ rx_length \in Slots
  /\ read \in Seq(Byte)
  /\ arrived \in Seq(Byte)

\* The distance from get_index to put_index, as the handler computes it.
RxLength ==
  IF put_index >= get_index THEN put_index - get_index
                            ELSE bufsz - (get_index - put_index)

Init ==
  /\ buffer = [s \in Slots |-> 0]
  /\ put_index = 0
  /\ get_index = 0
  /\ is_full = FALSE
  /\ isr = "idle"
  /\ rx_length = 0
  /\ read = <<>>
  /\ arrived = <<>>

NeverFull == FALSE    \* mutation of FullAfterPut

\* Storing one more character makes the buffer full, or it overflowed before.
FullAfterPut == is_full \/ Wrap(put_index + 1) = get_index

AdvanceFirst(ch) ==    \* mutation of IsrGetc: put_index moves before the store
  /\ Len(arrived) < MaxArrivals
  /\ isr' = "loop"
  /\ put_index' = Wrap(put_index + 1)
  /\ buffer' = [buffer EXCEPT ![put_index'] = ch]
  /\ is_full' = FullAfterPut
  /\ arrived' = Append(arrived, ch)
  /\ UNCHANGED <<get_index, rx_length, read>>

(***************************************************************************)
(* One turn of the handler's loop: getc returned ch. Assigning put_index   *)
(* to get_index when the two are equal changes nothing.                    *)
(***************************************************************************)
IsrGetc(ch) ==
  /\ Len(arrived) < MaxArrivals
  /\ isr' = "loop"
  /\ buffer' = [buffer EXCEPT ![put_index] = ch]
  /\ put_index' = Wrap(put_index + 1)
  /\ is_full' = FullAfterPut
  /\ arrived' = Append(arrived, ch)
  /\ UNCHANGED <<get_index, rx_length, read>>

\* getc returned -1: the pass computes the length and ends.
IsrIndicate ==
  /\ isr = "loop"
  /\ isr' = "idle"
  /\ rx_length' = RxLength
  /\ UNCHANGED <<fifo, read, arrived>>

ReadEmpty ==
  /\ isr = "idle"
  /\ get_index = put_index /\ ~is_full
  /\ read' = <<>>
  /\ UNCHANGED <<fifo, isr, rx_length, arrived>>

ReadChar ==
  /\ isr = "idle"
  /\ get_index # put_index \/ is_full
  /\ read' = <<buffer[get_index]>>
  /\ get_index' = Wrap(get_index + 1)
  /\ is_full' = FALSE
  /\ UNCHANGED <<buffer, put_index, isr, rx_length, arrived>>

Next ==
  \/ \E ch \in Byte : IsrGetc(ch)
  \/ IsrIndicate
  \/ ReadEmpty
  \/ ReadChar

Spec == Init /\ [][Next]_vars

-----------------------------------------------------------------------------
(***************************************************************************)
(* The unread characters, as the indexes and the flag encode them. The     *)
(* flag counts only when the indexes are equal: after an overflow it stays *)
(* set until the next read although put_index has moved on.                *)
(***************************************************************************)
Count == IF put_index = get_index /\ is_full THEN bufsz ELSE RxLength

Unread == [i \in 1 .. Count |-> buffer[Wrap(get_index + i - 1)]]

(***************************************************************************)
(* The unread characters are exactly the most recent arrivals, in order    *)
(* and without a gap: an overflow drops a whole prefix, never a character  *)
(* in the middle, so a frame the parser assembles is contiguous.           *)
(***************************************************************************)
UnreadIsSuffix ==
  /\ Count <= Len(arrived)
  /\ \A i \in 1 .. Count : Unread[i] = arrived[Len(arrived) - Count + i]

(***************************************************************************)
(* Indexes, wrap-around and the is_full flag together behave as the lossy  *)
(* queue: in particular a read returns the oldest unread character and     *)
(* returns none only when nothing is unread.                               *)
(***************************************************************************)
LQ == INSTANCE LossyQueue WITH
        Capacity <- bufsz, queue <- Unread, got <- read

ImplementsLossyQueue == LQ!Spec

(***************************************************************************)
(* What the comment in the overflow branch of rt_hw_serial_isr says: a     *)
(* character that does not fit costs one character ("discard this 'read    *)
(* char'"). The run that checks it shows that it costs all unread ones.    *)
(***************************************************************************)
OverflowDiscardsOneChar ==
  [][arrived' # arrived => Count' >= Count]_vars

(***************************************************************************)
(* A pass that stored characters and still does not call rx_indicate left  *)
(* the buffer exactly full. It never stays silent with an empty buffer or  *)
(* in the middle of an overflow, where is_full is set with unequal indexes.*)
(***************************************************************************)
SilentPassOnlyWhenFull ==
  [][isr = "loop" /\ isr' = "idle" /\ rx_length' = 0 =>
       put_index = get_index /\ Count = bufsz]_vars
=============================================================================
