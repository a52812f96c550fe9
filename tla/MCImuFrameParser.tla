-------------------------- MODULE MCImuFrameParser --------------------------
(* Five characters that overlap in their roles as the real ones do: HEAD_0  *)
(* is also a possible length (0x7E is 126), HEAD_1 is a length too long,    *)
(* the acceleration code one too short, the Euler code a legal one, and     *)
(* sums modulo 16 give each kind of frame a valid and many invalid          *)
(* checksums.                                                               *)
EXTENDS ImuFrameStream

MCByte == {0, 5, 6, 7, 11}

(* All streams of FreeLength characters, then streams long enough for a     *)
(* second frame in which at most single 0s come between frames.             *)
FreeLength == 4

Focus ==
  \/ Len(stream) < FreeLength
  \/ parse_state # 0
  \/ stream'[Len(stream')] = HEAD_0
  \/ stream'[Len(stream')] = 0 /\ stream[Len(stream)] # 0
=============================================================================
