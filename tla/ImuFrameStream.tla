--------------------------- MODULE ImuFrameStream ---------------------------
(***************************************************************************)
(* What the parser computes from a whole stream, said without a state      *)
(* machine: take the leftmost head, then its frame as a block, then        *)
(* continue after the block.                                               *)
(***************************************************************************)
EXTENDS ImuFrameParser, FiniteSetsExt

HeadAt(s, i) == i < Len(s) /\ s[i] = HEAD_0 /\ s[i + 1] = HEAD_1

\* What the frame of n characters that starts at s[i] reports.
Verdict(s, i, n) ==
  LET frame == [k \in 0 .. n - 1 |-> s[i + k]]
      enough == IF frame[3] = FUNC_RAW_ACCEL THEN AccelDataLen ELSE EulerDataLen
  IN  IF Checksum(frame, n) # frame[n - 1] THEN "checksum_error"
      ELSE IF frame[3] \notin {FUNC_RAW_ACCEL, FUNC_EULER} THEN "ignored"
      ELSE IF n - 5 < enough THEN "frame_error"
      ELSE IF frame[3] = FUNC_RAW_ACCEL THEN "acc" ELSE "euler"

(***************************************************************************)
(* The reports from each position on, in order, each with the position of  *)
(* its frame.                                                              *)
(***************************************************************************)
ReportsFrom(s) ==
  LET from[i \in 1 .. Len(s) + 1] ==
        IF i > Len(s) THEN <<>>
        ELSE IF ~HeadAt(s, i) THEN from[i + 1]
        ELSE IF i + 2 > Len(s) THEN <<>>
        ELSE IF s[i + 2] \notin MinFrameLen .. MAX_FRAME_LEN
             THEN <<[at |-> i, is |-> "frame_error"]>> \o from[i + 3]
        ELSE IF i + s[i + 2] - 1 > Len(s) THEN <<>>
        ELSE <<[at |-> i, is |-> Verdict(s, i, s[i + 2])]>> \o from[i + s[i + 2]]
  IN  from

Reports(s) == ReportsFrom(s)[1]

OfKind(reports, kind) == {k \in 1 .. Len(reports) : reports[k].is = kind}

Total(reports, kind) == Cardinality(OfKind(reports, kind))

LastPayload(s, reports, kind, n) ==
  IF OfKind(reports, kind) = {} THEN <<>>
  ELSE LET at == reports[Max(OfKind(reports, kind))].at
       IN  [k \in 1 .. n |-> s[at + 3 + k]]

(***************************************************************************)
(* After any stream the counters and the latest payloads are those of the  *)
(* reference: no frame is missed, counted twice, or counted under another  *)
(* error, however headers, lengths and data overlap.                       *)
(***************************************************************************)
MatchesReference ==
  LET reports == Reports(stream)
  IN  /\ latest.acc_update_count = Total(reports, "acc")
      /\ latest.euler_update_count = Total(reports, "euler")
      /\ latest.checksum_error_count = Total(reports, "checksum_error")
      /\ latest.frame_error_count = Total(reports, "frame_error")
      /\ latest.acc_g = LastPayload(stream, reports, "acc", AccelDataLen)
      /\ latest.euler_deg = LastPayload(stream, reports, "euler", EulerDataLen)
=============================================================================
