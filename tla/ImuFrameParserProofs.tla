------------------------ MODULE ImuFrameParserProofs ------------------------
(***************************************************************************)
(* Proofs about the frame parser, for every alphabet, header, frame size   *)
(* and stream: what each parser state has collected makes its accesses     *)
(* safe; and it reports what the reference of ImuFrameStream reports. The  *)
(* reference is a recursive function, so the second half first shows that  *)
(* its equation has a solution, by a least counterexample among the        *)
(* positions of the stream.                                                *)
(***************************************************************************)
EXTENDS ImuFrameStream, FiniteSetTheorems, WellFoundedInduction, TLAPS

(***************************************************************************)
(* What each state of the switch has already collected. This is what makes *)
(* the unguarded store frame_buf[frame_index++] safe.                      *)
(***************************************************************************)
Collected ==
  /\ parse_state = 0 => frame_index = 0
  /\ parse_state = 1 => frame_index = 1
  /\ parse_state = 2 => frame_index = 2
  /\ parse_state = 3 => /\ frame_len \in MinFrameLen .. MAX_FRAME_LEN
                        /\ frame_index \in 3 .. frame_len - 1
                        /\ frame_buf[2] = frame_len
  /\ frame_index >= 1 => frame_buf[0] = HEAD_0
  /\ frame_index >= 2 => frame_buf[1] = HEAD_1

IInv == TypeOK /\ FrameIsStreamSuffix /\ Collected

\* The complete frame that Body hands to the parser.
Frame == [i \in 0 .. frame_len - 1 |-> frame_buf'[i]]

-----------------------------------------------------------------------------
LEMMA PayloadType ==
  ASSUME NEW len \in Nat, NEW n \in Nat, n <= len - 5,
         NEW frame \in [0 .. len - 1 -> Byte]
  PROVE  Payload(frame, n) \in Payloads
<1>1. \A i \in 1 .. n : frame[3 + i] \in Byte
  <2>. SUFFICES ASSUME NEW i \in 1 .. n PROVE frame[3 + i] \in Byte
    OBVIOUS
  <2>1. 3 + i \in 0 .. len - 1
    OBVIOUS
  <2>. QED BY <2>1
<1>. QED BY <1>1 DEF Payload, Payloads

\* A parsed frame leaves a well-formed record.
LEMMA ParseFrameType ==
  ASSUME NEW data \in DataType, NEW len \in Nat, len >= MinFrameLen,
         NEW frame \in [0 .. len - 1 -> Byte]
  PROVE  ParseFrame(data, frame, len) \in DataType
<1>1. [data EXCEPT !.frame_error_count = @ + 1] \in DataType
  BY DEF DataType
<1>2. [data EXCEPT !.checksum_error_count = @ + 1] \in DataType
  BY DEF DataType
<1>3. ASSUME ~(len - 5 < AccelDataLen)
      PROVE  [data EXCEPT !.acc_g = Payload(frame, AccelDataLen),
                          !.acc_update_count = @ + 1] \in DataType
  <2>. DEFINE d == [data EXCEPT !.acc_g = Payload(frame, AccelDataLen)]
  <2>1. Payload(frame, AccelDataLen) \in Payloads
    BY <1>3, PayloadType, DataLenAssumption
  <2>2. d \in DataType /\ d.acc_update_count = data.acc_update_count
    BY <2>1 DEF DataType
  <2>3. [data EXCEPT !.acc_g = Payload(frame, AccelDataLen),
                     !.acc_update_count = @ + 1]
          = [d EXCEPT !.acc_update_count = @ + 1]
    BY <2>2
  <2>. HIDE DEF d
  <2>4. [d EXCEPT !.acc_update_count = @ + 1] \in DataType
    BY <2>2, SMTT(30) DEF DataType
  <2>. QED BY <2>3, <2>4
<1>4. ASSUME ~(len - 5 < EulerDataLen)
      PROVE  [data EXCEPT !.euler_deg = Payload(frame, EulerDataLen),
                          !.euler_update_count = @ + 1] \in DataType
  <2>. DEFINE d == [data EXCEPT !.euler_deg = Payload(frame, EulerDataLen)]
  <2>1. Payload(frame, EulerDataLen) \in Payloads
    BY <1>4, PayloadType, DataLenAssumption
  <2>2. d \in DataType /\ d.euler_update_count = data.euler_update_count
    BY <2>1 DEF DataType
  <2>3. [data EXCEPT !.euler_deg = Payload(frame, EulerDataLen),
                     !.euler_update_count = @ + 1]
          = [d EXCEPT !.euler_update_count = @ + 1]
    BY <2>2
  <2>. HIDE DEF d
  <2>4. [d EXCEPT !.euler_update_count = @ + 1] \in DataType
    BY <2>2, SMTT(30) DEF DataType
  <2>. QED BY <2>3, <2>4
<1>. QED BY <1>1, <1>2, <1>3, <1>4 DEF ParseFrame, DataLen, MinFrameLen

\* What a frame must be for the parser to publish its payload.
LEMMA ParseFramePublishes ==
  ASSUME NEW data \in DataType, NEW len \in Nat, NEW frame
  PROVE  LET new == ParseFrame(data, frame, len)
         IN  /\ new.acc_update_count # data.acc_update_count =>
                  /\ Checksum(frame, len) = frame[len - 1]
                  /\ frame[3] = FUNC_RAW_ACCEL
                  /\ len - 5 >= AccelDataLen
                  /\ new.acc_g = Payload(frame, AccelDataLen)
             /\ new.euler_update_count # data.euler_update_count =>
                  /\ Checksum(frame, len) = frame[len - 1]
                  /\ frame[3] = FUNC_EULER
                  /\ len - 5 >= EulerDataLen
                  /\ new.euler_deg = Payload(frame, EulerDataLen)
BY DataLenAssumption DEF ParseFrame, DataLen, DataType, MinFrameLen

-----------------------------------------------------------------------------
LEMMA InitInv == Init => IInv
<1>. SUFFICES ASSUME Init PROVE IInv
  OBVIOUS
<1>1. frame_buf \in [0 .. MAX_FRAME_LEN - 1 -> Byte]
  BY ByteAssumption DEF Init
<1>2. latest \in DataType
  BY DEF Init, NoData, DataType, Payloads
<1>3. TypeOK
  BY <1>1, <1>2, LengthAssumption DEF Init, TypeOK, MinFrameLen
<1>. QED BY <1>3 DEF Init, IInv, FrameIsStreamSuffix, Collected

\* Every step of the switch fills the buffer at the old index, if at all.
LEMMA StoresAtIndex ==
  ASSUME IInv, NEW ch \in Byte, Hunt(ch) \/ SecondHead(ch) \/ Length(ch) \/ Body(ch)
  PROVE  /\ frame_buf' \in [0 .. MAX_FRAME_LEN - 1 -> Byte]
         /\ frame_index' \in {0, 1, frame_index + 1}
         /\ \A i \in 0 .. MAX_FRAME_LEN - 1 :
              /\ i + 1 < frame_index' => frame_buf'[i] = frame_buf[i]
              /\ i + 1 = frame_index' => frame_buf'[i] = ch
         /\ frame_index' \in 0 .. MAX_FRAME_LEN - 1
<1>. USE LengthAssumption DEF IInv, TypeOK, Collected, MinFrameLen
<1>1. CASE Hunt(ch)
  BY <1>1 DEF Hunt
<1>2. CASE SecondHead(ch)
  BY <1>2 DEF SecondHead
<1>3. CASE Length(ch)
  <2>1. CASE ch < MinFrameLen \/ ch > MAX_FRAME_LEN
    BY <1>3, <2>1 DEF Length, BadLength
  <2>2. CASE ~(ch < MinFrameLen \/ ch > MAX_FRAME_LEN)
    <3>1. /\ frame_buf' = [frame_buf EXCEPT ![2] = ch]
          /\ frame_index' = 3 /\ frame_index = 2
      BY <1>3, <2>2 DEF Length, BadLength
    <3>. QED BY <3>1
  <2>. QED BY <2>1, <2>2
<1>4. CASE Body(ch)
  BY <1>4 DEF Body
<1>. QED BY <1>1, <1>2, <1>3, <1>4

LEMMA NextInv == IInv /\ [Next]_vars => IInv'
<1>. SUFFICES ASSUME IInv, [Next]_vars PROVE IInv'
  OBVIOUS
<1>1. ASSUME NEW ch \in Byte, FeedByte(ch) PROVE IInv'
  <2>0. /\ Hunt(ch) \/ SecondHead(ch) \/ Length(ch) \/ Body(ch)
        /\ stream' = Append(stream, ch)
    BY <1>1 DEF FeedByte
  <2>1. /\ frame_buf' \in [0 .. MAX_FRAME_LEN - 1 -> Byte]
        /\ frame_index' \in {0, 1, frame_index + 1}
        /\ \A i \in 0 .. MAX_FRAME_LEN - 1 :
             /\ i + 1 < frame_index' => frame_buf'[i] = frame_buf[i]
             /\ i + 1 = frame_index' => frame_buf'[i] = ch
        /\ frame_index' \in 0 .. MAX_FRAME_LEN - 1
    BY <2>0, StoresAtIndex
  <2>2. /\ stream \in Seq(Byte) /\ stream' \in Seq(Byte)
        /\ Len(stream') = Len(stream) + 1
        /\ stream'[Len(stream) + 1] = ch
        /\ \A i \in 1 .. Len(stream) : stream'[i] = stream[i]
    BY <2>0 DEF IInv, TypeOK
  <2>3. latest' \in DataType
    <3>1. CASE Hunt(ch) \/ SecondHead(ch)
      BY <3>1 DEF Hunt, SecondHead, IInv, TypeOK
    <3>2. CASE Length(ch)
      <4>1. \/ latest' = latest
            \/ latest' = [latest EXCEPT !.frame_error_count = @ + 1]
        BY <3>2 DEF Length, BadLength
      <4>2. latest \in DataType
        BY DEF IInv, TypeOK
      <4>. QED BY <4>1, <4>2 DEF DataType
    <3>3. CASE Body(ch)
      <4>1. frame_len \in Nat /\ frame_len >= MinFrameLen /\ frame_len <= MAX_FRAME_LEN
        BY <3>3, LengthAssumption DEF Body, IInv, Collected, MinFrameLen
      <4>2. Frame \in [0 .. frame_len - 1 -> Byte]
        BY <4>1, <2>1, LengthAssumption DEF Frame
      <4>3. ParseFrame(latest, Frame, frame_len) \in DataType
        BY <4>1, <4>2, ParseFrameType DEF IInv, TypeOK
      <4>. QED BY <3>3, <4>3 DEF Body, Frame, IInv, TypeOK
    <3>. QED BY <2>0, <3>1, <3>2, <3>3
  <2>4. parse_state' \in 0 .. 3 /\ frame_len' \in {0} \cup MinFrameLen .. MAX_FRAME_LEN
    BY <2>0, LengthAssumption, ByteAssumption
       DEF Hunt, SecondHead, Length, BadLength, Body, IInv, TypeOK, MinFrameLen
  <2>5. FrameIsStreamSuffix'
    <3>1. frame_index' <= Len(stream')
      BY <2>1, <2>2 DEF IInv, FrameIsStreamSuffix, TypeOK
    <3>2. ASSUME NEW i \in 0 .. MAX_FRAME_LEN - 1, i < frame_index'
          PROVE  frame_buf'[i] = stream'[Len(stream') - frame_index' + i + 1]
      <4>0. /\ frame_index' \in Nat /\ frame_index \in Nat
            /\ i \in Nat /\ i < frame_index'
        BY <3>2, <2>1 DEF IInv, TypeOK
      <4>1. CASE i + 1 = frame_index'
        <5>1. Len(stream') - frame_index' + i + 1 = Len(stream) + 1
          BY <4>1, <4>0, <2>2
        <5>2. frame_buf'[i] = ch
          BY <4>1, <2>1
        <5>. QED BY <5>1, <5>2, <2>2
      <4>2. CASE i + 1 # frame_index'
        <5>1. frame_index' = frame_index + 1
          <6>1. \/ frame_index' = 0 \/ frame_index' = 1
                \/ frame_index' = frame_index + 1
            BY <2>1
          <6>. QED BY <6>1, <4>2, <4>0
        <5>2. i < frame_index /\ i + 1 < frame_index'
          BY <5>1, <4>0, <4>2
        <5>3. frame_buf'[i] = frame_buf[i]
          BY <5>2, <2>1
        <5>4. frame_buf[i] = stream[Len(stream) - frame_index + i + 1]
          BY <5>2 DEF IInv, FrameIsStreamSuffix
        <5>5. Len(stream) - frame_index + i + 1 \in 1 .. Len(stream)
          BY <5>2, <4>0, <2>2 DEF IInv, FrameIsStreamSuffix
        <5>6. Len(stream') - frame_index' + i + 1 = Len(stream) - frame_index + i + 1
          BY <5>1, <4>0, <2>2
        <5>. QED BY <5>3, <5>4, <5>5, <5>6, <2>2
      <4>. QED BY <4>1, <4>2
    <3>. QED BY <3>1, <3>2 DEF FrameIsStreamSuffix
  <2>6. Collected'
    <3>. USE LengthAssumption, ByteAssumption DEF IInv, TypeOK, Collected, MinFrameLen
    <3>1. CASE Hunt(ch)
      BY <3>1, HeadAssumption DEF Hunt
    <3>2. CASE SecondHead(ch)
      BY <3>2, HeadAssumption DEF SecondHead
    <3>3. CASE Length(ch)
      <4>1. CASE ch < MinFrameLen \/ ch > MAX_FRAME_LEN
        BY <3>3, <4>1 DEF Length, BadLength
      <4>2. CASE ~(ch < MinFrameLen \/ ch > MAX_FRAME_LEN)
        <5>1. /\ frame_buf' = [frame_buf EXCEPT ![2] = ch]
              /\ frame_index' = 3 /\ frame_index = 2
              /\ frame_len' = ch /\ parse_state' = 3
          BY <3>3, <4>2 DEF Length, BadLength
        <5>2. ch \in MinFrameLen .. MAX_FRAME_LEN
          BY <4>2
        <5>. QED BY <5>1, <5>2
      <4>. QED BY <4>1, <4>2
    <3>4. CASE Body(ch)
      BY <3>4 DEF Body
    <3>. QED BY <2>0, <3>1, <3>2, <3>3, <3>4
  <2>. QED BY <2>1, <2>2, <2>3, <2>4, <2>5, <2>6 DEF IInv, TypeOK
<1>2. CASE UNCHANGED vars
  BY <1>2 DEF vars, IInv, TypeOK, FrameIsStreamSuffix, Collected
<1>. QED BY <1>1, <1>2 DEF Next

LEMMA Invariance == Spec => []IInv
BY InitInv, NextInv, PTL DEF Spec
-----------------------------------------------------------------------------
\* The store into frame_buf stays in bounds and the switch has no other state.
THEOREM TypeCorrect == Spec => []TypeOK
<1>1. IInv => TypeOK
  BY DEF IInv
<1>. QED BY <1>1, Invariance, PTL

\* The frame under construction is a contiguous suffix of the stream.
THEOREM FrameIsSuffix == Spec => []FrameIsStreamSuffix
<1>1. IInv => FrameIsStreamSuffix
  BY DEF IInv
<1>. QED BY <1>1, Invariance, PTL

\* When Body completes a frame, that frame ends the stream.
LEMMA CompleteFrame ==
  ASSUME IInv, IInv', NEW ch \in Byte, FeedByte(ch), Body(ch),
         frame_index + 1 >= frame_len
  PROVE  /\ frame_len \in MinFrameLen .. MAX_FRAME_LEN
         /\ frame_len <= Len(stream')
         /\ Frame = LastChars(stream', frame_len)
         /\ Frame[0] = HEAD_0 /\ Frame[1] = HEAD_1 /\ Frame[2] = frame_len
<1>1. /\ frame_len \in MinFrameLen .. MAX_FRAME_LEN
      /\ frame_index = frame_len - 1
      /\ frame_index \in 3 .. MAX_FRAME_LEN - 1
    BY LengthAssumption DEF Body, IInv, Collected, TypeOK, MinFrameLen
<1>2. /\ stream \in Seq(Byte)
      /\ Len(stream') = Len(stream) + 1
      /\ stream'[Len(stream) + 1] = ch
      /\ \A i \in 1 .. Len(stream) : stream'[i] = stream[i]
      /\ frame_index <= Len(stream)
  BY DEF FeedByte, IInv, TypeOK, FrameIsStreamSuffix
<1>3. /\ frame_buf'[frame_index] = ch
      /\ \A i \in 0 .. frame_index - 1 : frame_buf'[i] = frame_buf[i]
  BY <1>1 DEF Body, IInv, TypeOK
<1>4. ASSUME NEW i \in 0 .. frame_len - 1
      PROVE  Frame[i] = stream'[Len(stream') - frame_len + i + 1]
  <2>1. Frame[i] = frame_buf'[i]
    BY DEF Frame
  <2>2. CASE i = frame_index
    <3>1. Len(stream') - frame_len + i + 1 = Len(stream) + 1
      BY <1>1, <1>2, <2>2
    <3>. QED BY <2>1, <2>2, <3>1, <1>2, <1>3
  <2>3. CASE i # frame_index
    <3>1. i \in 0 .. frame_index - 1
      BY <1>1, <2>3
    <3>2. frame_buf[i] = stream[Len(stream) - frame_index + i + 1]
      <4>1. i \in 0 .. MAX_FRAME_LEN - 1 /\ i < frame_index
        BY <3>1, <1>1, LengthAssumption
      <4>. QED BY <4>1 DEF IInv, FrameIsStreamSuffix
    <3>3. Len(stream) - frame_index + i + 1 \in 1 .. Len(stream)
      BY <3>1, <1>1, <1>2
    <3>4. Len(stream') - frame_len + i + 1 = Len(stream) - frame_index + i + 1
      BY <1>1, <1>2
    <3>. QED BY <2>1, <3>1, <3>2, <3>3, <3>4, <1>2, <1>3
  <2>. QED BY <2>2, <2>3
<1>5. Frame = LastChars(stream', frame_len)
  BY <1>4 DEF Frame, LastChars
<1>6. Frame[0] = HEAD_0 /\ Frame[1] = HEAD_1 /\ Frame[2] = frame_len
  <2>1. Frame[0] = frame_buf'[0] /\ Frame[1] = frame_buf'[1] /\ Frame[2] = frame_buf'[2]
    BY <1>1 DEF Frame, MinFrameLen
  <2>2. frame_buf[0] = HEAD_0 /\ frame_buf[1] = HEAD_1 /\ frame_buf[2] = frame_len
    BY <1>1 DEF IInv, Collected, Body
  <2>. QED BY <2>1, <2>2, <1>1, <1>3
<1>7. frame_len <= Len(stream')
  BY <1>1, <1>2
<1>. QED BY <1>1, <1>5, <1>6, <1>7

(***************************************************************************)
(* Only contiguous, well-formed, checksummed frames are published, with    *)
(* their own payload.                                                      *)
(***************************************************************************)
THEOREM OnlyValidFrames == Spec => PublishesOnlyValidFrames
<1>. DEFINE Acc(n) ==
              /\ EndsWithFrame(stream', n, FUNC_RAW_ACCEL, AccelDataLen)
              /\ latest'.acc_g = Payload(LastChars(stream', n), AccelDataLen)
            Euler(n) ==
              /\ EndsWithFrame(stream', n, FUNC_EULER, EulerDataLen)
              /\ latest'.euler_deg = Payload(LastChars(stream', n), EulerDataLen)
            Valid ==
              /\ latest'.acc_update_count # latest.acc_update_count =>
                   \E n \in MinFrameLen .. MAX_FRAME_LEN : Acc(n)
              /\ latest'.euler_update_count # latest.euler_update_count =>
                   \E n \in MinFrameLen .. MAX_FRAME_LEN : Euler(n)
<1>1. IInv /\ IInv' /\ [Next]_vars => [Valid]_vars
  <2>. SUFFICES ASSUME IInv, IInv', NEW ch \in Byte, FeedByte(ch) PROVE Valid
    BY DEF Next
  <2>1. CASE Hunt(ch) \/ SecondHead(ch)
    BY <2>1 DEF Hunt, SecondHead
  <2>2. CASE Length(ch)
    BY <2>2 DEF Length, BadLength, IInv, TypeOK, DataType
  <2>3. CASE Body(ch)
    <3>1. CASE frame_index + 1 < frame_len
      BY <2>3, <3>1 DEF Body, IInv, TypeOK, MinFrameLen
    <3>2. CASE ~(frame_index + 1 < frame_len)
      <4>0. frame_index + 1 >= frame_len
        BY <3>2, LengthAssumption DEF IInv, TypeOK, MinFrameLen
      <4>1. latest' = ParseFrame(latest, Frame, frame_len)
        BY <2>3, <4>0 DEF Body, Frame
      <4>2. /\ frame_len \in MinFrameLen .. MAX_FRAME_LEN
            /\ frame_len <= Len(stream')
            /\ Frame = LastChars(stream', frame_len)
            /\ Frame[0] = HEAD_0 /\ Frame[1] = HEAD_1 /\ Frame[2] = frame_len
        BY <2>3, <4>0, CompleteFrame
      <4>3. /\ latest'.acc_update_count # latest.acc_update_count =>
                 /\ Checksum(Frame, frame_len) = Frame[frame_len - 1]
                 /\ Frame[3] = FUNC_RAW_ACCEL
                 /\ frame_len - 5 >= AccelDataLen
                 /\ latest'.acc_g = Payload(Frame, AccelDataLen)
            /\ latest'.euler_update_count # latest.euler_update_count =>
                 /\ Checksum(Frame, frame_len) = Frame[frame_len - 1]
                 /\ Frame[3] = FUNC_EULER
                 /\ frame_len - 5 >= EulerDataLen
                 /\ latest'.euler_deg = Payload(Frame, EulerDataLen)
        <5>1. latest \in DataType /\ frame_len \in Nat
          BY <4>2 DEF IInv, TypeOK, MinFrameLen
        <5>. QED BY <4>1, <5>1, ParseFramePublishes
      <4>4. latest'.acc_update_count # latest.acc_update_count => Acc(frame_len)
        BY <4>2, <4>3 DEF EndsWithFrame
      <4>5. latest'.euler_update_count # latest.euler_update_count => Euler(frame_len)
        BY <4>2, <4>3 DEF EndsWithFrame
      <4>. QED BY <4>2, <4>4, <4>5
    <3>. QED BY <3>1, <3>2
  <2>. QED BY <2>1, <2>2, <2>3 DEF FeedByte
<1>. QED BY <1>1, Invariance, PTL DEF Spec, PublishesOnlyValidFrames

-----------------------------------------------------------------------------
\* The reference as a function of positions.

\* The order of the natural numbers, as a relation.
Below == {p \in Nat \X Nat : p[1] < p[2]}

\* Induction over the natural numbers, with a set in the place of a
\* predicate.
LEMMA Induction ==
  ASSUME NEW S, 0 \in S, \A n \in Nat : n \in S => n + 1 \in S
  PROVE  Nat \subseteq S
<1>. SUFFICES ASSUME Nat \ S # {} PROVE FALSE
  OBVIOUS
<1>1. IsWellFoundedOn(Below, Nat)
  BY NatLessThanWellFounded DEF OpToRel, Below
<1>2. PICK n \in Nat \ S : \A k \in Nat \ S : ~ (<<k, n>> \in Below)
  BY <1>1, WFMin
<1>3. n # 0 /\ n - 1 \in Nat /\ <<n - 1, n>> \in Below
  BY <1>2 DEF Below
<1>4. n - 1 \in S
  BY <1>2, <1>3
<1>5. (n - 1) + 1 \in S
  BY <1>3, <1>4
<1>. QED BY <1>2, <1>3, <1>5

Kinds == {"checksum_error", "ignored", "frame_error", "acc", "euler"}
Report == [at : Nat, is : Kinds]

(***************************************************************************)
(* The equation of ReportsFrom, taken apart: where it ends, what a         *)
(* position adds to the reports, and where it goes on.                     *)
(***************************************************************************)
Stops(s, i) ==
  \/ i > Len(s)
  \/ /\ HeadAt(s, i)
     /\ \/ i + 2 > Len(s)
        \/ s[i + 2] \in MinFrameLen .. MAX_FRAME_LEN /\ i + s[i + 2] - 1 > Len(s)
Found(s, i) ==
  IF ~HeadAt(s, i) THEN <<>>
  ELSE IF s[i + 2] \notin MinFrameLen .. MAX_FRAME_LEN
       THEN <<[at |-> i, is |-> "frame_error"]>>
  ELSE <<[at |-> i, is |-> Verdict(s, i, s[i + 2])]>>
Skip(s, i) ==
  IF ~HeadAt(s, i) THEN i + 1
  ELSE IF s[i + 2] \notin MinFrameLen .. MAX_FRAME_LEN THEN i + 3 ELSE i + s[i + 2]

\* The right-hand side of that equation, for a function f of positions.
Entry(s, f, i) ==
  IF i > Len(s) THEN <<>>
  ELSE IF ~HeadAt(s, i) THEN f[i + 1]
  ELSE IF i + 2 > Len(s) THEN <<>>
  ELSE IF s[i + 2] \notin MinFrameLen .. MAX_FRAME_LEN
       THEN <<[at |-> i, is |-> "frame_error"]>> \o f[i + 3]
  ELSE IF i + s[i + 2] - 1 > Len(s) THEN <<>>
  ELSE <<[at |-> i, is |-> Verdict(s, i, s[i + 2])]>> \o f[i + s[i + 2]]

LEMMA VerdictKind == ASSUME NEW s, NEW i, NEW n PROVE Verdict(s, i, n) \in Kinds
BY DEF Verdict, Kinds

LEMMA EntrySplit ==
  ASSUME NEW s \in Seq(Byte), NEW i \in Nat, NEW f, ~ Stops(s, i),
         f[Skip(s, i)] \in Seq(Report)
  PROVE  Entry(s, f, i) = Found(s, i) \o f[Skip(s, i)]
<1>1. CASE ~ HeadAt(s, i)
  <2>1. Entry(s, f, i) = f[Skip(s, i)] /\ Found(s, i) = <<>>
    BY <1>1 DEF Entry, Stops, Found, Skip
  <2>. QED BY <2>1
<1>2. CASE HeadAt(s, i) /\ s[i + 2] \notin MinFrameLen .. MAX_FRAME_LEN
  BY <1>2 DEF Entry, Stops, Found, Skip
<1>3. CASE HeadAt(s, i) /\ s[i + 2] \in MinFrameLen .. MAX_FRAME_LEN
  BY <1>3 DEF Entry, Stops, Found, Skip
<1>. QED BY <1>1, <1>2, <1>3

LEMMA EntryStops ==
  ASSUME NEW s \in Seq(Byte), NEW i \in Nat, NEW f, Stops(s, i)
  PROVE  Entry(s, f, i) = <<>>
BY DEF Entry, Stops

LEMMA FoundType ==
  ASSUME NEW s, NEW i \in Nat
  PROVE  Found(s, i) \in Seq(Report)
<1>1. \A r \in Report : <<r>> \in Seq(Report)
  OBVIOUS
<1>2. [at |-> i, is |-> "frame_error"] \in Report
  BY DEF Report, Kinds
<1>3. [at |-> i, is |-> Verdict(s, i, s[i + 2])] \in Report
  BY VerdictKind DEF Report
<1>. QED BY <1>1, <1>2, <1>3 DEF Found

\* It goes on behind the position, but not beyond the end of the stream.
LEMMA SkipsAhead ==
  ASSUME NEW s \in Seq(Byte), NEW i \in 1 .. Len(s) + 1, ~ Stops(s, i)
  PROVE  Skip(s, i) \in i + 1 .. Len(s) + 1
<1>1. i <= Len(s)
  BY DEF Stops
<1>2. CASE ~ HeadAt(s, i)
  BY <1>1, <1>2 DEF Skip
<1>3. CASE HeadAt(s, i) /\ s[i + 2] \notin MinFrameLen .. MAX_FRAME_LEN
  <2>1. i + 2 <= Len(s)
    BY <1>1, <1>3 DEF Stops
  <2>2. Skip(s, i) = i + 3
    BY <1>3 DEF Skip
  <2>. QED BY <2>1, <2>2
<1>4. CASE HeadAt(s, i) /\ s[i + 2] \in MinFrameLen .. MAX_FRAME_LEN
  <2>1. PICK n \in Nat : n = s[i + 2] /\ n >= 5
    BY <1>4, LengthAssumption DEF MinFrameLen
  <2>2. i + n - 1 <= Len(s)
    BY <1>4, <2>1 DEF Stops
  <2>3. Skip(s, i) = i + n
    BY <1>4, <2>1 DEF Skip
  <2>. QED BY <2>1, <2>2, <2>3
<1>. QED BY <1>2, <1>3, <1>4

\* f solves the equation from position n on.
Entries(s, f, n) ==
  /\ f \in [n .. Len(s) + 1 -> Seq(Report)]
  /\ \A i \in n .. Len(s) + 1 : f[i] = Entry(s, f, i)

LEMMA EntryType ==
  ASSUME NEW s \in Seq(Byte), NEW i \in 1 .. Len(s) + 1, NEW f,
         ~ Stops(s, i) => f[Skip(s, i)] \in Seq(Report)
  PROVE  Entry(s, f, i) \in Seq(Report)
<1>1. CASE Stops(s, i)
  <2>1. Entry(s, f, i) = <<>>
    BY <1>1, EntryStops
  <2>. QED BY <2>1
<1>2. CASE ~ Stops(s, i)
  <2>1. Found(s, i) \in Seq(Report) /\ f[Skip(s, i)] \in Seq(Report)
    BY <1>2, FoundType
  <2>2. Entry(s, f, i) = Found(s, i) \o f[Skip(s, i)]
    BY <1>2, EntrySplit
  <2>. QED BY <2>1, <2>2
<1>. QED BY <1>1, <1>2

LEMMA SameEntry ==
  ASSUME NEW s \in Seq(Byte), NEW i \in 1 .. Len(s) + 1, NEW f, NEW g,
         ~ Stops(s, i) => f[Skip(s, i)] = g[Skip(s, i)]
  PROVE  Entry(s, f, i) = Entry(s, g, i)
BY DEF Entry, Stops, Skip

\* A solution from n + 1 on can be continued to n.
LEMMA OneMore ==
  ASSUME NEW s \in Seq(Byte), NEW n \in 1 .. Len(s), NEW f, Entries(s, f, n + 1)
  PROVE  \E g : Entries(s, g, n)
<1>1. PICK g : g = [i \in n .. Len(s) + 1 |-> IF i = n THEN Entry(s, f, n) ELSE f[i]]
  OBVIOUS
<1>2. ASSUME NEW i \in n .. Len(s) + 1
      PROVE  /\ ~ Stops(s, i) => f[Skip(s, i)] = g[Skip(s, i)] /\ f[Skip(s, i)] \in Seq(Report)
             /\ i # n => g[i] = f[i] /\ f[i] \in Seq(Report) /\ f[i] = Entry(s, f, i)
             /\ i = n => g[i] = Entry(s, f, i)
  <2>1. i \in 1 .. Len(s) + 1
    OBVIOUS
  <2>2. ASSUME ~ Stops(s, i)
        PROVE  Skip(s, i) \in n + 1 .. Len(s) + 1
    <3>1. Skip(s, i) \in i + 1 .. Len(s) + 1
      BY <2>1, <2>2, SkipsAhead
    <3>. QED BY <3>1
  <2>3. \A k \in n + 1 .. Len(s) + 1 : /\ k \in n .. Len(s) + 1 /\ k # n
                                        /\ f[k] \in Seq(Report) /\ f[k] = Entry(s, f, k)
    BY DEF Entries
  <2>4. i # n => i \in n + 1 .. Len(s) + 1
    OBVIOUS
  <2>. QED BY <1>1, <2>2, <2>3, <2>4
<1>3. ASSUME NEW i \in n .. Len(s) + 1
      PROVE  g[i] \in Seq(Report) /\ g[i] = Entry(s, g, i)
  <2>1. i \in 1 .. Len(s) + 1
    OBVIOUS
  <2>2. Entry(s, f, i) = Entry(s, g, i) /\ Entry(s, f, i) \in Seq(Report)
    BY <1>2, <2>1, SameEntry, EntryType
  <2>. QED BY <1>2, <2>2
<1>. QED BY <1>1, <1>3 DEF Entries

LEMMA EntriesExist ==
  ASSUME NEW s \in Seq(Byte)
  PROVE  \E f : Entries(s, f, 1)
<1>. DEFINE N == Len(s)
            Done == {k \in Nat : k <= N => \E f : Entries(s, f, N + 1 - k)}
<1>1. 0 \in Done
  <2>1. PICK f : f = [i \in N + 1 .. N + 1 |-> <<>>]
    OBVIOUS
  <2>2. \A i \in N + 1 .. N + 1 : i > N /\ f[i] = <<>> /\ <<>> \in Seq(Report)
    BY <2>1
  <2>3. \A i \in N + 1 .. N + 1 : Entry(s, f, i) = <<>>
    BY <2>2 DEF Entry
  <2>4. Entries(s, f, N + 1)
    BY <2>1, <2>2, <2>3 DEF Entries
  <2>. QED BY <2>4
<1>2. ASSUME NEW k \in Nat, k \in Done
      PROVE  k + 1 \in Done
  <2>1. CASE k + 1 <= N
    <3>1. PICK f : Entries(s, f, N + 1 - k)
      BY <1>2, <2>1
    <3>2. PICK n \in 1 .. Len(s) : n = N - k
      BY <2>1
    <3>3. N + 1 - k = n + 1 /\ N + 1 - (k + 1) = n
      BY <3>2
    <3>4. \E g : Entries(s, g, n)
      BY <3>1, <3>3, OneMore
    <3>. QED BY <3>3, <3>4
  <2>2. CASE ~ (k + 1 <= N)
    BY <2>2
  <2>. QED BY <2>1, <2>2
<1>3. Nat \subseteq Done
  <2>. HIDE DEF Done
  <2>. QED BY <1>1, <1>2, Induction
<1>4. N \in Done /\ N + 1 - N = 1
  BY <1>3
<1>. QED BY <1>4

(***************************************************************************)
(* What ReportsFrom chooses solves its equation at every position: the     *)
(* recursion runs backwards, from the end of the stream.                   *)
(***************************************************************************)
LEMMA ReportsFromEntries ==
  ASSUME NEW s \in Seq(Byte)
  PROVE  Entries(s, ReportsFrom(s), 1)
<1>. DEFINE Solves(f) == f = [i \in 1 .. Len(s) + 1 |-> Entry(s, f, i)]
            from == CHOOSE f : Solves(f)
<1>1. PICK f : Entries(s, f, 1)
  BY EntriesExist
<1>2. Solves(f)
  BY <1>1 DEF Entries
<1>3. Solves(from)
  BY <1>2
<1>4. PICK g : Solves(g) /\ g = ReportsFrom(s)
  <2>1. ReportsFrom(s) = from
    BY DEF ReportsFrom, Entry
  <2>. HIDE DEF from, Solves
  <2>. QED BY <1>3, <2>1
<1>. DEFINE N == Len(s)
            Typed == {k \in Nat : k <= N => \A i \in N + 1 - k .. N + 1 : g[i] \in Seq(Report)}
<1>5. 0 \in Typed
  <2>1. g[N + 1] = Entry(s, g, N + 1) /\ N + 1 > N
    BY <1>4
  <2>2. g[N + 1] = <<>>
    BY <2>1 DEF Entry
  <2>3. <<>> \in Seq(Report) /\ \A i \in N + 1 - 0 .. N + 1 : i = N + 1
    OBVIOUS
  <2>. QED BY <2>2, <2>3
<1>6. ASSUME NEW k \in Nat, k \in Typed
      PROVE  k + 1 \in Typed
  <2>. SUFFICES ASSUME k + 1 <= N, NEW i \in N - k .. N + 1
                PROVE  g[i] \in Seq(Report)
    OBVIOUS
  <2>1. \A j \in N + 1 - k .. N + 1 : g[j] \in Seq(Report)
    BY <1>6
  <2>2. i \in 1 .. N + 1
    OBVIOUS
  <2>3. ASSUME ~ Stops(s, i)
        PROVE  g[Skip(s, i)] \in Seq(Report)
    <3>1. Skip(s, i) \in i + 1 .. N + 1
      BY <2>2, <2>3, SkipsAhead
    <3>2. Skip(s, i) \in N + 1 - k .. N + 1
      BY <3>1
    <3>. QED BY <2>1, <3>2
  <2>4. Entry(s, g, i) \in Seq(Report)
    BY <2>2, <2>3, EntryType
  <2>. QED BY <1>4, <2>2, <2>4
<1>7. Nat \subseteq Typed
  <2>. HIDE DEF Typed
  <2>. QED BY <1>5, <1>6, Induction
<1>8. N \in Typed /\ N + 1 - N = 1
  BY <1>7
<1>. QED BY <1>4, <1>8 DEF Entries

\* One turn of the recursion.
LEMMA Unfold ==
  ASSUME NEW t \in Seq(Byte), NEW i \in 1 .. Len(t) + 1
  PROVE  /\ ReportsFrom(t)[i] \in Seq(Report)
         /\ Stops(t, i) => ReportsFrom(t)[i] = <<>>
         /\ ~ Stops(t, i) => /\ ReportsFrom(t)[i] = Found(t, i) \o ReportsFrom(t)[Skip(t, i)]
                             /\ ReportsFrom(t)[Skip(t, i)] \in Seq(Report)
<1>1. PICK f : f = ReportsFrom(t) /\ Entries(t, f, 1)
  BY ReportsFromEntries
<1>2. f[i] \in Seq(Report) /\ f[i] = Entry(t, f, i)
  BY <1>1 DEF Entries
<1>3. CASE Stops(t, i)
  BY <1>1, <1>2, <1>3, EntryStops
<1>4. CASE ~ Stops(t, i)
  <2>1. Skip(t, i) \in i + 1 .. Len(t) + 1
    BY <1>4, SkipsAhead
  <2>2. Skip(t, i) \in 1 .. Len(t) + 1
    BY <2>1
  <2>3. f[Skip(t, i)] \in Seq(Report)
    BY <1>1, <2>2 DEF Entries
  <2>4. Entry(t, f, i) = Found(t, i) \o f[Skip(t, i)]
    BY <1>4, <2>3, EntrySplit
  <2>. QED BY <1>1, <1>2, <1>4, <2>3, <2>4
<1>. QED BY <1>3, <1>4

\* A character that begins no head is skipped.
LEMMA NoHead ==
  ASSUME NEW t \in Seq(Byte), NEW i \in 1 .. Len(t), ~ HeadAt(t, i)
  PROVE  ReportsFrom(t)[i] = ReportsFrom(t)[i + 1]
<1>1. ~ Stops(t, i) /\ Found(t, i) = <<>> /\ Skip(t, i) = i + 1
  BY DEF Stops, Found, Skip
<1>2. i \in 1 .. Len(t) + 1
  OBVIOUS
<1>3. /\ ReportsFrom(t)[i] = <<>> \o ReportsFrom(t)[i + 1]
      /\ ReportsFrom(t)[i + 1] \in Seq(Report)
  BY <1>1, <1>2, Unfold
<1>. QED BY <1>3

-----------------------------------------------------------------------------
\* A set of positions that is not empty has a last one.
LEMMA MaximumOf ==
  ASSUME NEW L \in Nat, NEW S \in SUBSET (1 .. L), S # {}
  PROVE  Max(S) \in S
<1>. DEFINE Free == {n \in Nat : n <= L => \A k \in S : k <= L - n}
<1>1. ASSUME \A m \in S : ~ \A k \in S : m >= k
      PROVE  FALSE
  <2>1. 0 \in Free
    OBVIOUS
  <2>2. ASSUME NEW n \in Nat, n \in Free
        PROVE  n + 1 \in Free
    <3>. SUFFICES ASSUME n + 1 <= L, NEW k \in S PROVE k <= L - (n + 1)
      OBVIOUS
    <3>1. \A j \in S : j <= L - n
      BY <2>2
    <3>2. L - n \notin S
      BY <1>1, <3>1
    <3>. QED BY <3>1, <3>2
  <2>3. Nat \subseteq Free
    <3>. HIDE DEF Free
    <3>. QED BY <2>1, <2>2, Induction
  <2>4. \A k \in S : k <= L - L
    BY <2>3
  <2>5. L - L = 0 /\ \A k \in S : ~ (k <= 0)
    OBVIOUS
  <2>. QED BY <2>4, <2>5
<1>2. \E m \in S : \A k \in S : m >= k
  BY <1>1
<1>. QED BY <1>2 DEF Max

\* What one more report adds to the totals and to the latest payloads.
LEMMA OneReportMore ==
  ASSUME NEW R \in Seq(Report), NEW r \in Report, NEW kind
  PROVE  OfKind(R \o <<r>>, kind)
         = OfKind(R, kind) \cup (IF r.is = kind THEN {Len(R) + 1} ELSE {})
<1>1. /\ Len(R \o <<r>>) = Len(R) + 1 /\ (R \o <<r>>)[Len(R) + 1] = r
      /\ \A k \in 1 .. Len(R) : (R \o <<r>>)[k] = R[k]
  OBVIOUS
<1>. QED BY <1>1 DEF OfKind

LEMMA TotalMore ==
  ASSUME NEW R \in Seq(Report), NEW r \in Report, NEW kind
  PROVE  /\ Total(R, kind) \in Nat
         /\ Total(R \o <<r>>, kind) = IF r.is = kind THEN Total(R, kind) + 1 ELSE Total(R, kind)
<1>1. OfKind(R, kind) \subseteq 1 .. Len(R) /\ Len(R) + 1 \notin OfKind(R, kind)
  BY DEF OfKind
<1>2. IsFiniteSet(OfKind(R, kind))
  <2>1. IsFiniteSet(1 .. Len(R))
    BY FS_Interval
  <2>. QED BY <1>1, <2>1, FS_Subset
<1>3. Cardinality(OfKind(R, kind)) \in Nat
  BY <1>2, FS_CardinalityType
<1>4. Cardinality(OfKind(R, kind) \cup {Len(R) + 1}) = Cardinality(OfKind(R, kind)) + 1
  BY <1>1, <1>2, FS_AddElement
<1>5. OfKind(R, kind) \cup {} = OfKind(R, kind)
  OBVIOUS
<1>. QED BY <1>3, <1>4, <1>5, OneReportMore DEF Total

LEMMA LastMore ==
  ASSUME NEW t, NEW R \in Seq(Report), NEW r \in Report, NEW kind, NEW n
  PROVE  LastPayload(t, R \o <<r>>, kind, n)
         = IF r.is = kind THEN [k \in 1 .. n |-> t[r.at + 3 + k]]
           ELSE LastPayload(t, R, kind, n)
<1>1. /\ (R \o <<r>>)[Len(R) + 1] = r
      /\ \A k \in 1 .. Len(R) : (R \o <<r>>)[k] = R[k]
  OBVIOUS
<1>2. OfKind(R, kind) \subseteq 1 .. Len(R)
  BY DEF OfKind
<1>3. CASE r.is = kind
  <2>1. OfKind(R \o <<r>>, kind) = OfKind(R, kind) \cup {Len(R) + 1}
    BY <1>3, OneReportMore
  <2>2. Max(OfKind(R \o <<r>>, kind)) = Len(R) + 1
    <3>1. \A m \in OfKind(R, kind) : m \in Nat /\ m < Len(R) + 1
      BY <1>2
    <3>. QED BY <2>1, <3>1 DEF Max
  <2>. QED BY <1>1, <1>3, <2>1, <2>2 DEF LastPayload
<1>4. CASE r.is # kind
  <2>1. OfKind(R \o <<r>>, kind) = OfKind(R, kind)
    <3>1. OfKind(R \o <<r>>, kind) = OfKind(R, kind) \cup {}
      BY <1>4, OneReportMore
    <3>. QED BY <3>1
  <2>2. OfKind(R, kind) # {} => Max(OfKind(R, kind)) \in 1 .. Len(R)
    <3>1. PICK L, S : L \in Nat /\ S \in SUBSET (1 .. L) /\ L = Len(R) /\ S = OfKind(R, kind)
      BY <1>2
    <3>2. ASSUME S # {} PROVE Max(S) \in S
      BY <3>1, <3>2, MaximumOf
    <3>. QED BY <1>2, <3>1, <3>2
  <2>3. OfKind(R, kind) # {} =>
          (R \o <<r>>)[Max(OfKind(R, kind))] = R[Max(OfKind(R, kind))]
    BY <1>1, <2>2
  <2>. QED BY <1>4, <2>1, <2>3 DEF LastPayload
<1>. QED BY <1>3, <1>4

\* What a report does to the data.
Reported(data, r, s) ==
  IF r.is = "acc"
  THEN [data EXCEPT !.acc_g = [k \in 1 .. AccelDataLen |-> s[r.at + 3 + k]],
                    !.acc_update_count = @ + 1]
  ELSE IF r.is = "euler"
  THEN [data EXCEPT !.euler_deg = [k \in 1 .. EulerDataLen |-> s[r.at + 3 + k]],
                    !.euler_update_count = @ + 1]
  ELSE IF r.is = "checksum_error" THEN [data EXCEPT !.checksum_error_count = @ + 1]
  ELSE IF r.is = "frame_error" THEN [data EXCEPT !.frame_error_count = @ + 1]
  ELSE data

\* The data are those of the reports R of the stream t.
Told(data, R, t) ==
  /\ data.acc_update_count = Total(R, "acc")
  /\ data.euler_update_count = Total(R, "euler")
  /\ data.checksum_error_count = Total(R, "checksum_error")
  /\ data.frame_error_count = Total(R, "frame_error")
  /\ data.acc_g = LastPayload(t, R, "acc", AccelDataLen)
  /\ data.euler_deg = LastPayload(t, R, "euler", EulerDataLen)

LEMMA ToldMore ==
  ASSUME NEW data \in DataType, NEW R \in Seq(Report), NEW r \in Report, NEW t,
         Told(data, R, t)
  PROVE  Told(Reported(data, r, t), R \o <<r>>, t)
<1>1. PICK new : new = Reported(data, r, t)
  OBVIOUS
<1>2. /\ new.acc_update_count = IF r.is = "acc" THEN data.acc_update_count + 1
                                ELSE data.acc_update_count
      /\ new.euler_update_count = IF r.is = "euler" THEN data.euler_update_count + 1
                                  ELSE data.euler_update_count
      /\ new.checksum_error_count = IF r.is = "checksum_error"
                                    THEN data.checksum_error_count + 1
                                    ELSE data.checksum_error_count
      /\ new.frame_error_count = IF r.is = "frame_error" THEN data.frame_error_count + 1
                                 ELSE data.frame_error_count
      /\ new.acc_g = IF r.is = "acc" THEN [k \in 1 .. AccelDataLen |-> t[r.at + 3 + k]]
                     ELSE data.acc_g
      /\ new.euler_deg = IF r.is = "euler" THEN [k \in 1 .. EulerDataLen |-> t[r.at + 3 + k]]
                         ELSE data.euler_deg
  BY <1>1 DEF Reported, DataType
<1>3. /\ new.acc_update_count = Total(R \o <<r>>, "acc")
      /\ new.euler_update_count = Total(R \o <<r>>, "euler")
      /\ new.checksum_error_count = Total(R \o <<r>>, "checksum_error")
      /\ new.frame_error_count = Total(R \o <<r>>, "frame_error")
  BY <1>2, TotalMore DEF Told
<1>4. new.acc_g = LastPayload(t, R \o <<r>>, "acc", AccelDataLen)
  <2>1. LastPayload(t, R \o <<r>>, "acc", AccelDataLen)
        = IF r.is = "acc" THEN [k \in 1 .. AccelDataLen |-> t[r.at + 3 + k]]
          ELSE LastPayload(t, R, "acc", AccelDataLen)
    BY LastMore
  <2>. QED BY <1>2, <2>1, Zenon DEF Told
<1>5. new.euler_deg = LastPayload(t, R \o <<r>>, "euler", EulerDataLen)
  <2>1. LastPayload(t, R \o <<r>>, "euler", EulerDataLen)
        = IF r.is = "euler" THEN [k \in 1 .. EulerDataLen |-> t[r.at + 3 + k]]
          ELSE LastPayload(t, R, "euler", EulerDataLen)
    BY LastMore
  <2>. QED BY <1>2, <2>1, Zenon DEF Told
<1>. QED BY <1>1, <1>3, <1>4, <1>5 DEF Told

\* imu_uart_parse_frame does what the verdict of the reference says.
LEMMA FrameIsReported ==
  ASSUME NEW s \in Seq(Byte), NEW i \in 1 .. Len(s), NEW n \in MinFrameLen .. MAX_FRAME_LEN,
         i + n - 1 <= Len(s), NEW data \in DataType
  PROVE  ParseFrame(data, [k \in 0 .. n - 1 |-> s[i + k]], n)
         = Reported(data, [at |-> i, is |-> Verdict(s, i, n)], s)
<1>1. PICK frame : frame = [k \in 0 .. n - 1 |-> s[i + k]]
  OBVIOUS
<1>2. PICK v : v = Verdict(s, i, n)
  OBVIOUS
<1>3. n \in Nat /\ n >= 5 /\ ~ (n < MinFrameLen) /\ DataLen(n) = n - 5
  BY LengthAssumption DEF MinFrameLen, DataLen
<1>4. ASSUME NEW d \in Nat, ~ (n - 5 < d)
      PROVE  Payload(frame, d) = [k \in 1 .. d |-> s[i + 3 + k]]
  <2>1. ASSUME NEW k \in 1 .. d
        PROVE  frame[3 + k] = s[i + 3 + k]
    <3>1. 3 + k \in 0 .. n - 1 /\ i + (3 + k) = i + 3 + k
      BY <1>3, <1>4
    <3>. QED BY <1>1, <3>1
  <2>. QED BY <2>1 DEF Payload
<1>5. CASE Checksum(frame, n) # frame[n - 1]
  <2>1. v = "checksum_error"
    BY <1>1, <1>2, <1>5 DEF Verdict
  <2>. QED BY <1>1, <1>2, <1>3, <1>5, <2>1 DEF ParseFrame, Reported
<1>6. CASE Checksum(frame, n) = frame[n - 1] /\ frame[3] = FUNC_RAW_ACCEL
  <2>1. v = IF n - 5 < AccelDataLen THEN "frame_error" ELSE "acc"
    BY <1>1, <1>2, <1>6 DEF Verdict
  <2>. QED BY <1>1, <1>2, <1>3, <1>4, <1>6, <2>1, DataLenAssumption DEF ParseFrame, Reported
<1>7. CASE /\ Checksum(frame, n) = frame[n - 1]
           /\ frame[3] # FUNC_RAW_ACCEL /\ frame[3] = FUNC_EULER
  <2>1. v = IF n - 5 < EulerDataLen THEN "frame_error" ELSE "euler"
    BY <1>1, <1>2, <1>7 DEF Verdict
  <2>. QED BY <1>1, <1>2, <1>3, <1>4, <1>7, <2>1, DataLenAssumption, ZenonT(30)
            DEF ParseFrame, Reported
<1>8. CASE Checksum(frame, n) = frame[n - 1] /\ frame[3] \notin {FUNC_RAW_ACCEL, FUNC_EULER}
  <2>1. v = "ignored"
    BY <1>1, <1>2, <1>8 DEF Verdict
  <2>. QED BY <1>1, <1>2, <1>3, <1>8, <2>1 DEF ParseFrame, Reported
<1>. QED BY <1>5, <1>6, <1>7, <1>8

-----------------------------------------------------------------------------
\* The parser and the reference, step by step.

\* Where the frame under construction begins.
At == Len(stream) - frame_index + 1

\* t begins with s.
Extends(s, t) == t \in Seq(Byte) /\ Len(s) <= Len(t) /\ \A i \in 1 .. Len(s) : t[i] = s[i]

\* What is known of the frame under construction, in terms of the stream.
LEMMA Position ==
  ASSUME IInv
  PROVE  /\ At \in 1 .. Len(stream) + 1 /\ At + frame_index = Len(stream) + 1
         /\ frame_index >= 1 => stream[At] = HEAD_0
         /\ frame_index >= 2 => stream[At + 1] = HEAD_1
         /\ parse_state = 3 => stream[At + 2] = frame_len
<1>1. /\ stream \in Seq(Byte) /\ Len(stream) \in Nat /\ frame_index \in Nat
      /\ frame_index <= Len(stream)
  BY LengthAssumption DEF IInv, TypeOK, FrameIsStreamSuffix, MinFrameLen
<1>2. At \in 1 .. Len(stream) + 1 /\ At + frame_index = Len(stream) + 1
  BY <1>1 DEF At
<1>3. ASSUME NEW i \in 0 .. MAX_FRAME_LEN - 1, i < frame_index
      PROVE  frame_buf[i] = stream[At + i]
  <2>1. frame_buf[i] = stream[Len(stream) - frame_index + i + 1]
    BY <1>3 DEF IInv, FrameIsStreamSuffix
  <2>2. Len(stream) - frame_index + i + 1 = At + i
    BY <1>1 DEF At
  <2>. QED BY <2>1, <2>2
<1>4. 0 \in 0 .. MAX_FRAME_LEN - 1 /\ 1 \in 0 .. MAX_FRAME_LEN - 1 /\ 2 \in 0 .. MAX_FRAME_LEN - 1
  BY LengthAssumption DEF MinFrameLen
<1>5. frame_index >= 1 => stream[At] = HEAD_0
  BY <1>1, <1>2, <1>3, <1>4 DEF IInv, Collected
<1>6. frame_index >= 2 => stream[At + 1] = HEAD_1
  BY <1>1, <1>2, <1>3, <1>4 DEF IInv, Collected
<1>7. parse_state = 3 => stream[At + 2] = frame_len
  BY <1>1, <1>2, <1>3, <1>4 DEF IInv, Collected
<1>. QED BY <1>2, <1>5, <1>6, <1>7

LEMMA Fed ==
  ASSUME IInv, NEW ch \in Byte, FeedByte(ch), NEW t, Extends(stream', t)
  PROVE  /\ Len(stream') = Len(stream) + 1 /\ Extends(stream, t)
         /\ Len(t) >= Len(stream) + 1 /\ t[Len(stream) + 1] = ch
<1>1. stream \in Seq(Byte) /\ stream' = Append(stream, ch)
  BY DEF IInv, TypeOK, FeedByte
<1>2. /\ Len(stream') = Len(stream) + 1 /\ stream'[Len(stream) + 1] = ch
      /\ \A i \in 1 .. Len(stream) : stream'[i] = stream[i] /\ i \in 1 .. Len(stream')
  BY <1>1
<1>3. Len(stream) + 1 \in 1 .. Len(stream')
  BY <1>1, <1>2
<1>. QED BY <1>1, <1>2, <1>3 DEF Extends

(***************************************************************************)
(* Characters outside of frames: for every continuation of the stream, the *)
(* reference skips from where the hunt was to where it is, also when the   *)
(* second head character turns out to be the first one again.              *)
(***************************************************************************)
LEMMA QuietStep ==
  ASSUME IInv, IInv', NEW ch \in Byte, FeedByte(ch), Hunt(ch) \/ SecondHead(ch),
         NEW t, Extends(stream', t)
  PROVE  ReportsFrom(t)[At] = ReportsFrom(t)[At'] /\ latest' = latest
<1>1. latest' = latest
  BY DEF Hunt, SecondHead
<1>2. PICK N \in Nat : N = Len(stream)
  BY DEF IInv, TypeOK
<1>3. /\ Len(stream') = N + 1 /\ Len(t) >= N + 1 /\ t[N + 1] = ch
      /\ t \in Seq(Byte) /\ \A i \in 1 .. N : t[i] = stream[i]
  BY <1>2, Fed DEF Extends
<1>4. frame_index \in Nat /\ frame_index <= N /\ At \in 1 .. N + 1 /\ At = N - frame_index + 1
  BY <1>2, Position DEF IInv, TypeOK, FrameIsStreamSuffix, At
<1>5. At' = N + 1 - frame_index' + 1
  <2>1. frame_index' \in Nat /\ Len(stream') \in Nat
    BY <1>3, LengthAssumption DEF IInv, TypeOK, MinFrameLen
  <2>. QED BY <1>3, <2>1 DEF At
<1>6. CASE Hunt(ch) /\ ch = HEAD_0
  BY <1>1, <1>4, <1>5, <1>6 DEF Hunt, IInv, Collected
<1>7. CASE Hunt(ch) /\ ch # HEAD_0
  <2>1. frame_index = 0 /\ frame_index' = 0
    BY <1>7 DEF Hunt, IInv, Collected
  <2>2. At = N + 1 /\ At' = N + 2
    BY <1>4, <1>5, <2>1
  <2>3. N + 1 \in 1 .. Len(t) /\ ~ HeadAt(t, N + 1)
    BY <1>3, <1>7 DEF HeadAt
  <2>4. ReportsFrom(t)[N + 1] = ReportsFrom(t)[N + 1 + 1]
    BY <1>3, <2>3, NoHead
  <2>. QED BY <1>1, <2>2, <2>4
<1>8. CASE SecondHead(ch) /\ ch = HEAD_1
  BY <1>1, <1>4, <1>5, <1>8, HeadAssumption DEF SecondHead, IInv, Collected
<1>9. CASE SecondHead(ch) /\ ch # HEAD_1
  <2>1. frame_index = 1 /\ At = N /\ N >= 1
    BY <1>4, <1>9 DEF SecondHead, IInv, Collected
  <2>2. N \in 1 .. Len(t) /\ ~ HeadAt(t, N)
    BY <1>3, <1>9, <2>1 DEF HeadAt
  <2>3. ReportsFrom(t)[N] = ReportsFrom(t)[N + 1]
    BY <1>3, <2>2, NoHead
  <2>4. CASE ch = HEAD_0
    <3>1. At' = N + 1
      BY <1>5, <1>9, <2>4 DEF SecondHead
    <3>. QED BY <1>1, <2>1, <2>3, <3>1
  <2>5. CASE ch # HEAD_0
    <3>1. At' = N + 2
      BY <1>5, <1>9, <2>5 DEF SecondHead
    <3>2. N + 1 \in 1 .. Len(t) /\ ~ HeadAt(t, N + 1)
      BY <1>3, <2>5 DEF HeadAt
    <3>3. ReportsFrom(t)[N + 1] = ReportsFrom(t)[N + 1 + 1]
      BY <1>3, <3>2, NoHead
    <3>. QED BY <1>1, <2>1, <2>3, <3>1, <3>3
  <2>. QED BY <2>4, <2>5
<1>. QED BY <1>6, <1>7, <1>8, <1>9

\* A length that cannot be one ends the frame behind the length.
LEMMA BadLengthStep ==
  ASSUME IInv, NEW ch \in Byte, FeedByte(ch), Length(ch), BadLength(ch),
         NEW t, Extends(stream', t)
  PROVE  LET r == [at |-> At, is |-> "frame_error"]
         IN  /\ ReportsFrom(t)[At] = <<r>> \o ReportsFrom(t)[At']
             /\ latest' = Reported(latest, r, t)
<1>1. latest' = [latest EXCEPT !.frame_error_count = @ + 1] /\ frame_index' = 0
  BY DEF Length
<1>2. PICK N \in Nat : N = Len(stream)
  BY DEF IInv, TypeOK
<1>3. /\ Len(stream') = N + 1 /\ Len(t) >= N + 1 /\ t[N + 1] = ch
      /\ t \in Seq(Byte) /\ \A i \in 1 .. N : t[i] = stream[i]
  BY <1>2, Fed DEF Extends
<1>4. frame_index = 2
  BY DEF Length, IInv, Collected
<1>5. /\ At = N - 1 /\ At \in 1 .. Len(t) + 1 /\ At' = N + 2 /\ At + 1 = N /\ At + 2 = N + 1
      /\ At \in Nat
  <2>1. At = N - frame_index + 1 /\ At \in 1 .. N + 1
    BY <1>2, Position DEF At
  <2>2. At' = N + 1 - frame_index' + 1
    BY <1>1, <1>3 DEF At
  <2>. QED BY <1>1, <1>2, <1>3, <1>4, <2>1, <2>2
<1>6. HeadAt(t, At)
  <2>1. stream[At] = HEAD_0 /\ stream[At + 1] = HEAD_1
    BY <1>4, Position
  <2>2. At \in 1 .. N /\ At + 1 \in 1 .. N
    BY <1>5
  <2>. QED BY <1>3, <1>5, <2>1, <2>2 DEF HeadAt
<1>7. t[At + 2] \notin MinFrameLen .. MAX_FRAME_LEN
  <2>1. t[At + 2] = ch
    BY <1>3, <1>5
  <2>2. ch \in Nat /\ (ch < MinFrameLen \/ ch > MAX_FRAME_LEN)
    BY ByteAssumption DEF BadLength
  <2>3. ch \notin MinFrameLen .. MAX_FRAME_LEN
    BY <2>2, LengthAssumption DEF MinFrameLen
  <2>. QED BY <2>1, <2>3
<1>8. ~ Stops(t, At)
  BY <1>3, <1>5, <1>6, <1>7 DEF Stops
<1>9. Found(t, At) = <<[at |-> At, is |-> "frame_error"]>> /\ Skip(t, At) = At + 3
  BY <1>6, <1>7 DEF Found, Skip
<1>10. ReportsFrom(t)[At] = <<[at |-> At, is |-> "frame_error"]>> \o ReportsFrom(t)[At + 3]
  BY <1>3, <1>5, <1>8, <1>9, Unfold
<1>11. At + 3 = At'
  BY <1>5
<1>12. latest' = Reported(latest, [at |-> At, is |-> "frame_error"], t)
  BY <1>1 DEF Reported
<1>. QED BY <1>10, <1>11, <1>12

\* The last character of a frame: the reference takes the frame as a block.
LEMMA FrameStep ==
  ASSUME IInv, IInv', NEW ch \in Byte, FeedByte(ch), Body(ch), frame_index + 1 >= frame_len,
         NEW t, Extends(stream', t)
  PROVE  LET r == [at |-> At, is |-> Verdict(stream', At, frame_len)]
         IN  /\ ReportsFrom(t)[At] = <<r>> \o ReportsFrom(t)[At']
             /\ latest' = Reported(latest, r, t)
<1>1. /\ frame_len \in MinFrameLen .. MAX_FRAME_LEN /\ frame_len <= Len(stream')
      /\ Frame = LastChars(stream', frame_len)
      /\ latest' = ParseFrame(latest, Frame, frame_len) /\ frame_index' = 0
      /\ parse_state = 3
  BY CompleteFrame DEF Body, Frame
<1>2. PICK n \in Nat : n = frame_len /\ n >= 5 /\ frame_index = n - 1
  <2>1. frame_index \in 3 .. frame_len - 1 /\ frame_len \in Nat /\ frame_len >= 5
    BY <1>1, LengthAssumption DEF IInv, Collected, MinFrameLen
  <2>. QED BY <2>1
<1>3. PICK N \in Nat : N = Len(stream)
  BY DEF IInv, TypeOK
<1>4. /\ Len(stream') = N + 1 /\ Len(t) >= N + 1 /\ t[N + 1] = ch
      /\ t \in Seq(Byte) /\ \A i \in 1 .. N : t[i] = stream[i]
      /\ \A i \in 1 .. N + 1 : t[i] = stream'[i]
  BY <1>3, Fed DEF Extends
<1>5. /\ At \in 1 .. N /\ At + n = N + 2 /\ At' = N + 2
  <2>1. At + frame_index = N + 1 /\ At \in 1 .. N + 1
    BY <1>3, Position
  <2>2. At' = N + 1 - frame_index' + 1
    BY <1>1, <1>4 DEF At
  <2>. QED BY <1>1, <1>2, <2>1, <2>2
<1>6. HeadAt(t, At) /\ t[At + 2] = n
  <2>1. stream[At] = HEAD_0 /\ stream[At + 1] = HEAD_1 /\ stream[At + 2] = n
    BY <1>1, <1>2, Position
  <2>2. At + 1 \in 1 .. N /\ At + 2 \in 1 .. N
    BY <1>2, <1>5
  <2>. QED BY <1>4, <1>5, <2>1, <2>2 DEF HeadAt
<1>7. ~ Stops(t, At) /\ Found(t, At) = <<[at |-> At, is |-> Verdict(t, At, n)]>>
      /\ Skip(t, At) = At + n
  <2>1. t[At + 2] \in MinFrameLen .. MAX_FRAME_LEN
    BY <1>1, <1>2, <1>6
  <2>2. ~ (At > Len(t)) /\ ~ (At + 2 > Len(t)) /\ ~ (At + n - 1 > Len(t))
    BY <1>2, <1>4, <1>5
  <2>. QED BY <1>6, <2>1, <2>2 DEF Stops, Found, Skip
<1>8. \A k \in 0 .. n - 1 : At + k \in 1 .. N + 1
  BY <1>2, <1>5
<1>9. Frame = [k \in 0 .. n - 1 |-> t[At + k]]
  <2>1. ASSUME NEW k \in 0 .. n - 1
        PROVE  stream'[Len(stream') - n + k + 1] = t[At + k]
    <3>1. Len(stream') - n + k + 1 = At + k
      BY <1>2, <1>4, <1>5
    <3>. QED BY <1>4, <1>8, <3>1
  <2>. QED BY <1>1, <1>2, <2>1 DEF LastChars
<1>10. Verdict(stream', At, n) = Verdict(t, At, n)
  <2>1. [k \in 0 .. n - 1 |-> stream'[At + k]] = [k \in 0 .. n - 1 |-> t[At + k]]
    BY <1>4, <1>8
  <2>. QED BY <2>1, Zenon DEF Verdict
<1>11. latest' = Reported(latest, [at |-> At, is |-> Verdict(t, At, n)], t)
  <2>1. At \in 1 .. Len(t) /\ At + n - 1 <= Len(t)
    BY <1>2, <1>4, <1>5
  <2>2. n \in MinFrameLen .. MAX_FRAME_LEN /\ latest \in DataType
    BY <1>1, <1>2 DEF IInv, TypeOK
  <2>3. ParseFrame(latest, [k \in 0 .. n - 1 |-> t[At + k]], n)
        = Reported(latest, [at |-> At, is |-> Verdict(t, At, n)], t)
    BY <1>4, <2>1, <2>2, FrameIsReported
  <2>. QED BY <1>1, <1>2, <1>9, <2>3
<1>12. ReportsFrom(t)[At] = <<[at |-> At, is |-> Verdict(t, At, n)]>> \o ReportsFrom(t)[At']
  <2>1. At \in 1 .. Len(t) + 1 /\ At + n = At'
    BY <1>4, <1>5
  <2>. QED BY <1>4, <1>7, <2>1, Unfold
<1>. QED BY <1>2, <1>10, <1>11, <1>12

(***************************************************************************)
(* The invariant. However the stream goes on, the reference reports R for  *)
(* what lies before the frame under construction and goes on from there;   *)
(* and the data are those of R. That it holds for every continuation is    *)
(* what makes it inductive: a character that begins no head by itself may  *)
(* do so together with the next.                                           *)
(***************************************************************************)
Heard(R) ==
  \A t : Extends(stream, t) =>
    /\ ReportsFrom(t)[1] = R \o ReportsFrom(t)[At]
    /\ Told(latest, R, t)

RefInv == IInv /\ \E R \in Seq(Report) : Heard(R)

LEMMA RefInit == Init => RefInv
<1>. SUFFICES ASSUME Init PROVE RefInv
  OBVIOUS
<1>1. IInv /\ stream = <<>> /\ latest = NoData /\ At = 1
  BY InitInv DEF Init, At
<1>2. Total(<<>>, "acc") = 0 /\ Total(<<>>, "euler") = 0
      /\ Total(<<>>, "checksum_error") = 0 /\ Total(<<>>, "frame_error") = 0
      /\ \A kind : OfKind(<<>>, kind) = {}
  BY FS_EmptySet DEF Total, OfKind
<1>3. ASSUME NEW t, Extends(stream, t)
      PROVE  /\ ReportsFrom(t)[1] = <<>> \o ReportsFrom(t)[At]
             /\ Told(latest, <<>>, t)
  <2>1. 1 \in 1 .. Len(t) + 1 /\ t \in Seq(Byte)
    BY <1>3 DEF Extends
  <2>2. ReportsFrom(t)[1] \in Seq(Report)
    BY <2>1, Unfold
  <2>3. Told(latest, <<>>, t)
    BY <1>1, <1>2 DEF Told, NoData, LastPayload
  <2>. QED BY <1>1, <2>2, <2>3
<1>4. Heard(<<>>)
  BY <1>3 DEF Heard
<1>5. <<>> \in Seq(Report)
  OBVIOUS
<1>. QED BY <1>1, <1>4, <1>5 DEF RefInv

LEMMA HeardMore ==
  ASSUME NEW R \in Seq(Report), Heard(R), IInv, NEW ch \in Byte, FeedByte(ch), IInv',
         NEW r \in Report,
         \A t : Extends(stream', t) => /\ ReportsFrom(t)[At] = <<r>> \o ReportsFrom(t)[At']
                                       /\ latest' = Reported(latest, r, t)
  PROVE  Heard(R \o <<r>>)' /\ R \o <<r>> \in Seq(Report)
<1>1. ASSUME NEW t, Extends(stream', t)
      PROVE  /\ ReportsFrom(t)[1] = (R \o <<r>>) \o ReportsFrom(t)[At']
             /\ Told(latest', R \o <<r>>, t)
  <2>1. Extends(stream, t)
    BY <1>1, Fed
  <2>2. ReportsFrom(t)[1] = R \o ReportsFrom(t)[At] /\ Told(latest, R, t)
    BY <2>1 DEF Heard
  <2>3. PICK q \in Seq(Report) : q = ReportsFrom(t)[At']
    <3>1. At' \in 1 .. Len(stream') + 1
      <4>1. Len(stream') \in Nat /\ frame_index' \in Nat /\ frame_index' <= Len(stream')
        BY LengthAssumption DEF IInv, TypeOK, FrameIsStreamSuffix, MinFrameLen
      <4>. QED BY <4>1 DEF At
    <3>2. At' \in 1 .. Len(t) + 1 /\ t \in Seq(Byte)
      BY <1>1, <3>1 DEF Extends
    <3>. QED BY <3>2, Unfold
  <2>4. ReportsFrom(t)[1] = R \o (<<r>> \o q)
    BY <1>1, <2>2, <2>3
  <2>5. R \o (<<r>> \o q) = (R \o <<r>>) \o q
    OBVIOUS
  <2>6. Told(latest', R \o <<r>>, t)
    <3>1. latest \in DataType /\ latest' = Reported(latest, r, t)
      BY <1>1 DEF IInv, TypeOK
    <3>2. Told(Reported(latest, r, t), R \o <<r>>, t)
      BY <2>2, <3>1, ToldMore
    <3>. QED BY <3>1, <3>2
  <2>. QED BY <2>3, <2>4, <2>5, <2>6
<1>2. R \o <<r>> \in Seq(Report)
  OBVIOUS
<1>. QED BY <1>1, <1>2 DEF Heard

LEMMA HeardSame ==
  ASSUME NEW R \in Seq(Report), Heard(R), IInv, NEW ch \in Byte, FeedByte(ch),
         latest' = latest,
         \A t : Extends(stream', t) => ReportsFrom(t)[At] = ReportsFrom(t)[At']
  PROVE  Heard(R)'
<1>1. ASSUME NEW t, Extends(stream', t)
      PROVE  /\ ReportsFrom(t)[1] = R \o ReportsFrom(t)[At']
             /\ Told(latest', R, t)
  <2>1. Extends(stream, t)
    BY <1>1, Fed
  <2>. QED BY <1>1, <2>1 DEF Heard
<1>. QED BY <1>1 DEF Heard

LEMMA RefNext == RefInv /\ [Next]_vars => RefInv'
<1>. SUFFICES ASSUME IInv, NEW R \in Seq(Report), Heard(R), [Next]_vars PROVE RefInv'
  BY DEF RefInv
<1>1. IInv'
  BY NextInv
<1>2. ASSUME NEW ch \in Byte, FeedByte(ch) PROVE \E Q \in Seq(Report) : Heard(Q)'
  <2>1. CASE Hunt(ch) \/ SecondHead(ch)
    <3>1. latest' = latest
      BY <2>1 DEF Hunt, SecondHead
    <3>2. \A t : Extends(stream', t) => ReportsFrom(t)[At] = ReportsFrom(t)[At']
      BY <1>1, <1>2, <2>1, QuietStep
    <3>3. Heard(R)'
      BY <1>2, <3>1, <3>2, HeardSame
    <3>. QED BY <3>3
  <2>2. CASE Length(ch) /\ BadLength(ch)
    <3>1. PICK r : r = [at |-> At, is |-> "frame_error"]
      OBVIOUS
    <3>2. r \in Report
      <4>1. At \in Nat
        BY Position DEF IInv, TypeOK
      <4>. QED BY <3>1, <4>1 DEF Report, Kinds
    <3>3. \A t : Extends(stream', t) => /\ ReportsFrom(t)[At] = <<r>> \o ReportsFrom(t)[At']
                                        /\ latest' = Reported(latest, r, t)
      BY <1>2, <2>2, <3>1, BadLengthStep
    <3>4. Heard(R \o <<r>>)' /\ R \o <<r>> \in Seq(Report)
      BY <1>1, <1>2, <3>2, <3>3, HeardMore
    <3>. QED BY <3>4
  <2>3. CASE Length(ch) /\ ~ BadLength(ch)
    <3>1. latest' = latest /\ frame_index = 2 /\ frame_index' = 3
      BY <2>3 DEF Length, IInv, Collected
    <3>2. At' = At
      <4>1. stream \in Seq(Byte) /\ stream' = Append(stream, ch)
        BY <1>2 DEF FeedByte, IInv, TypeOK
      <4>2. Len(stream') = Len(stream) + 1 /\ Len(stream) \in Nat
        BY <4>1
      <4>. QED BY <3>1, <4>2 DEF At
    <3>3. Heard(R)'
      BY <1>2, <3>1, <3>2, HeardSame
    <3>. QED BY <3>3
  <2>4. CASE Body(ch) /\ ~ (frame_index + 1 >= frame_len)
    <3>1. latest' = latest /\ frame_index' = frame_index + 1 /\ frame_index \in Nat
      BY <2>4 DEF Body, IInv, TypeOK
    <3>2. At' = At
      <4>1. stream \in Seq(Byte) /\ stream' = Append(stream, ch)
        BY <1>2 DEF FeedByte, IInv, TypeOK
      <4>2. Len(stream') = Len(stream) + 1 /\ Len(stream) \in Nat
        BY <4>1
      <4>. QED BY <3>1, <4>2 DEF At
    <3>3. Heard(R)'
      BY <1>2, <3>1, <3>2, HeardSame
    <3>. QED BY <3>3
  <2>5. CASE Body(ch) /\ frame_index + 1 >= frame_len
    <3>1. PICK r : r = [at |-> At, is |-> Verdict(stream', At, frame_len)]
      OBVIOUS
    <3>2. r \in Report
      <4>1. At \in Nat
        BY Position DEF IInv, TypeOK
      <4>. QED BY <3>1, <4>1, VerdictKind DEF Report
    <3>3. \A t : Extends(stream', t) => /\ ReportsFrom(t)[At] = <<r>> \o ReportsFrom(t)[At']
                                        /\ latest' = Reported(latest, r, t)
      BY <1>1, <1>2, <2>5, <3>1, FrameStep
    <3>4. Heard(R \o <<r>>)' /\ R \o <<r>> \in Seq(Report)
      BY <1>1, <1>2, <3>2, <3>3, HeardMore
    <3>. QED BY <3>4
  <2>. QED BY <1>2, <2>1, <2>2, <2>3, <2>4, <2>5 DEF FeedByte
<1>3. CASE UNCHANGED vars
  <2>1. Heard(R)'
    BY <1>3 DEF vars, Heard, At
  <2>. QED BY <1>1, <2>1 DEF RefInv
<1>. QED BY <1>1, <1>2, <1>3 DEF Next, RefInv

\* As long as nothing follows, the unfinished frame reports nothing.
LEMMA NothingPending ==
  ASSUME IInv
  PROVE  ReportsFrom(stream)[At] = <<>>
<1>1. PICK s, N : s \in Seq(Byte) /\ N \in Nat /\ s = stream /\ N = Len(stream)
  BY DEF IInv, TypeOK
<1>2. At \in 1 .. N + 1 /\ At + frame_index = N + 1
  BY <1>1, Position
<1>3. At \in 1 .. Len(s) + 1 /\ s \in Seq(Byte)
  BY <1>1, <1>2
<1>4. Stops(s, At) => ReportsFrom(s)[At] = <<>>
  BY <1>3, Unfold
<1>5. CASE parse_state = 0
  <2>1. At > Len(s)
    BY <1>1, <1>2, <1>5 DEF IInv, Collected
  <2>. QED BY <1>1, <1>4, <2>1 DEF Stops
<1>6. CASE parse_state = 1
  <2>1. frame_index = 1
    BY <1>6 DEF IInv, Collected
  <2>2. At = N /\ N \in 1 .. Len(s) /\ N + 1 \in 1 .. Len(s) + 1 /\ N + 1 > Len(s)
    BY <1>1, <1>2, <2>1
  <2>3. ReportsFrom(s)[N] = ReportsFrom(s)[N + 1]
    <3>1. ~ HeadAt(s, N)
      BY <1>1, <2>2 DEF HeadAt
    <3>. QED BY <1>3, <2>2, <3>1, NoHead
  <2>4. ReportsFrom(s)[N + 1] = <<>>
    <3>1. Stops(s, N + 1)
      BY <2>2 DEF Stops
    <3>. QED BY <1>3, <2>2, <3>1, Unfold
  <2>. QED BY <1>1, <2>2, <2>3, <2>4
<1>7. CASE parse_state \in {2, 3}
  <2>1. frame_index >= 2 /\ frame_index \in Nat
    BY <1>7, LengthAssumption DEF IInv, Collected, MinFrameLen
  <2>2. s[At] = HEAD_0 /\ s[At + 1] = HEAD_1
    BY <1>1, <2>1, Position
  <2>3. At < Len(s)
    BY <1>1, <1>2, <2>1
  <2>4. HeadAt(s, At)
    BY <2>2, <2>3 DEF HeadAt
  <2>5. CASE parse_state = 2
    <3>1. At + 2 > Len(s)
      BY <1>1, <1>2, <2>5 DEF IInv, Collected
    <3>. QED BY <1>1, <1>4, <2>4, <3>1 DEF Stops
  <2>6. CASE parse_state = 3
    <3>1. /\ s[At + 2] = frame_len /\ frame_len \in MinFrameLen .. MAX_FRAME_LEN
          /\ frame_index \in 3 .. frame_len - 1
      BY <1>1, <2>6, Position DEF IInv, Collected
    <3>2. frame_len \in Nat /\ frame_len > frame_index
      BY <3>1, LengthAssumption DEF MinFrameLen
    <3>3. At + frame_len - 1 > Len(s)
      BY <1>1, <1>2, <2>1, <3>2
    <3>. QED BY <1>1, <1>4, <2>4, <3>1, <3>3 DEF Stops
  <2>. QED BY <1>7, <2>5, <2>6
<1>. QED BY <1>5, <1>6, <1>7 DEF IInv, TypeOK

(***************************************************************************)
(* After any stream the counters and the latest payloads are those of a    *)
(* reader that takes the leftmost head and then its frame as a block: no   *)
(* frame is missed, counted twice, or counted under another error, however *)
(* heads, lengths and data overlap.                                        *)
(***************************************************************************)
THEOREM AgreesWithReference == Spec => []MatchesReference
<1>1. ASSUME RefInv PROVE MatchesReference
  <2>1. PICK R \in Seq(Report) : Heard(R)
    BY <1>1 DEF RefInv
  <2>2. Extends(stream, stream)
    BY <1>1 DEF RefInv, IInv, TypeOK, Extends
  <2>3. ReportsFrom(stream)[1] = R \o ReportsFrom(stream)[At] /\ Told(latest, R, stream)
    BY <2>1, <2>2 DEF Heard
  <2>4. ReportsFrom(stream)[At] = <<>>
    BY <1>1, NothingPending DEF RefInv
  <2>5. Reports(stream) = R
    BY <2>3, <2>4 DEF Reports
  <2>. QED BY <2>3, <2>5 DEF MatchesReference, Told
<1>. QED BY <1>1, RefInit, RefNext, PTL DEF Spec
=============================================================================
