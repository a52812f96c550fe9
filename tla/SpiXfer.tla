------------------------------- MODULE SpiXfer ------------------------------
(***************************************************************************)
(* The loop of spixfer (drv_spi.c): how one SPI message is cut into        *)
(* exchanges of at most MaxChunk data frames. The driver keeps message     *)
(* fields as it goes: an exchange that fails sets message->length to 0,    *)
(* and the loop goes on. It takes the one length for frames, which the HAL *)
(* counts, and for bytes, which it adds to the start of the buffer.        *)
(***************************************************************************)
EXTENDS Integers

CONSTANTS
  MaxChunk,         \* 65535: the HAL takes 16-bit lengths
  AddressModulus    \* 2^32, where address arithmetic wraps

ASSUME ChunkAssumption ==
  MaxChunk \in Nat \ {0} /\ AddressModulus \in Nat \ {0}

ChunkCount(len) == (len + MaxChunk - 1) \div MaxChunk

\* message_length once i exchanges of a message of that length are set up.
Left(len, i) == IF i * MaxChunk >= len THEN 0 ELSE len - i * MaxChunk

\* message->length after i exchanges, of which those in failed went wrong.
MessageLength(len, failed, i) == IF \E k \in 1 .. i : k \in failed THEN 0 ELSE len

SendLength(len, i) == Left(len, i - 1) - Left(len, i)

StartOfRest(len, failed, i) ==    \* mutation of Start
  (MessageLength(len, failed, i - 1) - Left(len, i)) % AddressModulus

\* Where exchange i starts, in bytes from the start of the buffer.
Start(len, failed, i) ==
  (MessageLength(len, failed, i - 1) - SendLength(len, i) - Left(len, i))
    % AddressModulus

\* The exchanges when a data frame takes that many bytes of the buffer.
Exchanges(len, failed, frameBytes) ==
  [i \in 1 .. ChunkCount(len) |->
     [start |-> Start(len, failed, i), frames |-> SendLength(len, i),
      bytes |-> SendLength(len, i) * frameBytes]]

KeepsLength(len, failed) == len    \* mutation of XferResult: length not cleared

ResultOrError(len, failed) ==      \* mutation of XferResult: an error code
  IF failed # {} THEN -1 ELSE len

\* What spixfer returns.
XferResult(len, failed) == MessageLength(len, failed, ChunkCount(len))
=============================================================================
