--------------------------- MODULE ImuFrameParser ---------------------------
(***************************************************************************)
(* The frame parser of the IMU UART driver: imu_uart_feed_byte and         *)
(* imu_uart_parse_frame (drv_imu_uart.c), fed one character at a time by   *)
(* the receive thread. A frame is                                          *)
(*     HEAD_0 HEAD_1 length function data... checksum                      *)
(* where length counts all of its characters. Payloads stay the raw        *)
(* characters the code converts (int16 and float, little endian).          *)
(***************************************************************************)
EXTENDS Naturals, Sequences

CONSTANTS
  Byte,                          \* the characters that may arrive
  ChecksumModulus,               \* 256 in the code: the sum is kept in 8 bits
  HEAD_0, HEAD_1,                \* 0x7E, 0x23
  FUNC_RAW_ACCEL, FUNC_EULER,    \* 0x04, 0x26
  MAX_FRAME_LEN,                 \* 128, the size of frame_buf
  AccelDataLen, EulerDataLen,    \* 6 and 12, the least data a report needs
  MaxStream                      \* bound on the characters fed in a behaviour

\* The head, the length, the function and the checksum.
MinFrameLen == 5

ASSUME ByteAssumption == Byte \subseteq Nat /\ 0 \in Byte
ASSUME HeadAssumption == HEAD_0 \in Byte /\ HEAD_1 \in Byte /\ HEAD_0 # HEAD_1
ASSUME LengthAssumption == MAX_FRAME_LEN \in Nat /\ MAX_FRAME_LEN >= MinFrameLen
ASSUME DataLenAssumption == AccelDataLen \in Nat /\ EulerDataLen \in Nat

VARIABLES
  parse_state,   \* 0 hunting, 1 after HEAD_0, 2 after HEAD_1, 3 in the frame
  frame_index,   \* how many characters of frame_buf belong to the frame
  frame_len,     \* the frame's length once it is known, else 0
  frame_buf,
  latest,        \* imu_uart_data_t: the counters and the last payloads
  stream         \* history: every character fed so far

vars == <<parse_state, frame_index, frame_len, frame_buf, latest, stream>>

NoData == [acc_g |-> <<>>, euler_deg |-> <<>>,
           acc_update_count |-> 0, euler_update_count |-> 0,
           checksum_error_count |-> 0, frame_error_count |-> 0]

Init ==
  /\ parse_state = 0
  /\ frame_index = 0
  /\ frame_len = 0
  /\ frame_buf = [i \in 0 .. MAX_FRAME_LEN - 1 |-> 0]
  /\ latest = NoData
  /\ stream = <<>>

-----------------------------------------------------------------------------
\* The sum of the first len - 1 characters of a frame.
Checksum(frame, len) ==
  LET sum[i \in Nat] == IF i = 0 THEN 0 ELSE sum[i - 1] + frame[i - 1]
  IN  sum[len - 1] % ChecksumModulus

\* The first n data characters of a frame.
Payload(frame, n) == [i \in 1 .. n |-> frame[3 + i]]

DataLenWithChecksum(len) == len - 4    \* mutation of DataLen

\* What a frame of len characters holds beside heads, length, function, checksum.
DataLen(len) == len - 5

(***************************************************************************)
(* imu_uart_parse_frame: what a complete frame does to the latest data.    *)
(***************************************************************************)
ParseFrame(data, frame, len) ==
  LET func == frame[3]
      data_len == DataLen(len)
      FrameError == [data EXCEPT !.frame_error_count = @ + 1]
  IN  IF len < MinFrameLen THEN FrameError
      ELSE IF Checksum(frame, len) # frame[len - 1]
      THEN [data EXCEPT !.checksum_error_count = @ + 1]
      ELSE IF func = FUNC_RAW_ACCEL
      THEN IF data_len < AccelDataLen THEN FrameError
           ELSE [data EXCEPT !.acc_g = Payload(frame, AccelDataLen),
                             !.acc_update_count = @ + 1]
      ELSE IF func = FUNC_EULER
      THEN IF data_len < EulerDataLen THEN FrameError
           ELSE [data EXCEPT !.euler_deg = Payload(frame, EulerDataLen),
                             !.euler_update_count = @ + 1]
      ELSE data

-----------------------------------------------------------------------------
(***************************************************************************)
(* imu_uart_feed_byte, one action per value of parse_state.                *)
(***************************************************************************)
Hunt(ch) ==
  /\ parse_state = 0
  /\ IF ch = HEAD_0
     THEN /\ frame_buf' = [frame_buf EXCEPT ![0] = ch]
          /\ frame_index' = 1
          /\ parse_state' = 1
     ELSE UNCHANGED <<frame_buf, frame_index, parse_state>>
  /\ UNCHANGED <<frame_len, latest>>

SecondHeadKeepsIndex(ch) ==    \* mutation of SecondHead: index not reset
  /\ parse_state = 1
  /\ \/ /\ ch = HEAD_1
        /\ frame_buf' = [frame_buf EXCEPT ![1] = ch]
        /\ frame_index' = 2
        /\ parse_state' = 2
     \/ /\ ch = HEAD_0
        /\ UNCHANGED <<frame_buf, frame_index, parse_state>>
     \/ /\ ch \notin {HEAD_0, HEAD_1}
        /\ parse_state' = 0
        /\ UNCHANGED <<frame_buf, frame_index>>
  /\ UNCHANGED <<frame_len, latest>>

SecondHeadNoResync(ch) ==    \* mutation of SecondHead: a second HEAD_0 is lost
  /\ parse_state = 1
  /\ \/ /\ ch = HEAD_1
        /\ frame_buf' = [frame_buf EXCEPT ![1] = ch]
        /\ frame_index' = 2
        /\ parse_state' = 2
     \/ /\ ch # HEAD_1
        /\ parse_state' = 0
        /\ frame_index' = 0
        /\ UNCHANGED frame_buf
  /\ UNCHANGED <<frame_len, latest>>

SecondHead(ch) ==
  /\ parse_state = 1
  /\ \/ /\ ch = HEAD_1
        /\ frame_buf' = [frame_buf EXCEPT ![1] = ch]
        /\ frame_index' = 2
        /\ parse_state' = 2
     \/ /\ ch = HEAD_0
        /\ frame_buf' = [frame_buf EXCEPT ![0] = ch]
        /\ frame_index' = 1
        /\ parse_state' = 1
     \/ /\ ch \notin {HEAD_0, HEAD_1}
        /\ parse_state' = 0
        /\ frame_index' = 0
        /\ UNCHANGED frame_buf
  /\ UNCHANGED <<frame_len, latest>>

TooShort(len) == len < MinFrameLen    \* mutation of BadLength

BadLength(len) == len < MinFrameLen \/ len > MAX_FRAME_LEN

Length(ch) ==
  /\ parse_state = 2
  /\ IF BadLength(ch)
     THEN /\ latest' = [latest EXCEPT !.frame_error_count = @ + 1]
          /\ parse_state' = 0
          /\ frame_index' = 0
          /\ frame_len' = 0
          /\ UNCHANGED frame_buf
     ELSE /\ frame_buf' = [frame_buf EXCEPT ![2] = ch]
          /\ frame_index' = 3
          /\ frame_len' = ch
          /\ parse_state' = 3
          /\ UNCHANGED latest

Body(ch) ==
  /\ parse_state = 3
  /\ frame_buf' = [frame_buf EXCEPT ![frame_index] = ch]
  /\ IF frame_index + 1 >= frame_len
     THEN /\ latest' = ParseFrame(latest,
                                  [i \in 0 .. frame_len - 1 |-> frame_buf'[i]],
                                  frame_len)
          /\ parse_state' = 0
          /\ frame_index' = 0
          /\ frame_len' = 0
     ELSE /\ frame_index' = frame_index + 1
          /\ UNCHANGED <<parse_state, frame_len, latest>>

FeedByte(ch) ==
  /\ Len(stream) < MaxStream
  /\ stream' = Append(stream, ch)
  /\ Hunt(ch) \/ SecondHead(ch) \/ Length(ch) \/ Body(ch)

Next == \E ch \in Byte : FeedByte(ch)

Spec == Init /\ [][Next]_vars

-----------------------------------------------------------------------------
Payloads == Seq(Byte)

DataType ==
  [acc_g : Payloads, euler_deg : Payloads,
   acc_update_count : Nat, euler_update_count : Nat,
   checksum_error_count : Nat, frame_error_count : Nat]

(***************************************************************************)
(* The default branch of the switch is never taken, and the index never    *)
(* leaves frame_buf although only frame_len bounds it.                     *)
(***************************************************************************)
TypeOK ==
  /\ parse_state \in 0 .. 3
  /\ frame_index \in 0 .. MAX_FRAME_LEN - 1
  /\ frame_len \in {0} \cup MinFrameLen .. MAX_FRAME_LEN
  /\ frame_buf \in [0 .. MAX_FRAME_LEN - 1 -> Byte]
  /\ latest \in DataType
  /\ stream \in Seq(Byte)

\* The last n characters of a sequence, indexed like frame_buf.
LastChars(s, n) == [i \in 0 .. n - 1 |-> s[Len(s) - n + i + 1]]

(***************************************************************************)
(* The frame under construction is exactly the last frame_index characters *)
(* of the stream: nothing left over from an earlier, longer or broken      *)
(* frame can become part of it, although frame_buf is never cleared.       *)
(***************************************************************************)
FrameIsStreamSuffix ==
  /\ frame_index <= Len(stream)
  /\ \A i \in 0 .. MAX_FRAME_LEN - 1 :
       i < frame_index =>
         frame_buf[i] = stream[Len(stream) - frame_index + i + 1]

\* The stream s ends with a well-formed frame of n characters, function f and
\* at least d data characters.
EndsWithFrame(s, n, f, d) ==
  /\ n \in MinFrameLen .. MAX_FRAME_LEN /\ n <= Len(s)
  /\ LET frame == LastChars(s, n)
     IN  /\ frame[0] = HEAD_0 /\ frame[1] = HEAD_1 /\ frame[2] = n
         /\ frame[3] = f
         /\ n - 5 >= d
         /\ Checksum(frame, n) = frame[n - 1]

(***************************************************************************)
(* A report is published only when the character just fed completes a      *)
(* contiguous, well-formed, checksummed frame of its kind, and what is     *)
(* published is that frame's payload.                                      *)
(***************************************************************************)
PublishesOnlyValidFrames ==
  [][/\ latest'.acc_update_count # latest.acc_update_count =>
          \E n \in MinFrameLen .. MAX_FRAME_LEN :
             /\ EndsWithFrame(stream', n, FUNC_RAW_ACCEL, AccelDataLen)
             /\ latest'.acc_g = Payload(LastChars(stream', n), AccelDataLen)
     /\ latest'.euler_update_count # latest.euler_update_count =>
          \E n \in MinFrameLen .. MAX_FRAME_LEN :
             /\ EndsWithFrame(stream', n, FUNC_EULER, EulerDataLen)
             /\ latest'.euler_deg = Payload(LastChars(stream', n), EulerDataLen)
    ]_vars
=============================================================================
