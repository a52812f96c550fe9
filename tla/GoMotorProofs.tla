---------------------------- MODULE GoMotorProofs ---------------------------
(***************************************************************************)
(* Proofs about GoMotor for every length of a frame, number of pings and   *)
(* set of motors. Three things make the pings correct: who may have        *)
(* characters on the way in which state of the command (Direction); that   *)
(* what the motors heard of the command in progress is what the            *)
(* transmitter no longer holds (Loaded, OnLine); and that what comes back, *)
(* damaged or not, comes in the order in which it was sent (InOrder).      *)
(***************************************************************************)
EXTENDS GoMotor, SequenceTheorems, TLAPS

Switching == {"driver_on", "receiver_off"}
Sending == {"write", "flush"}
Reading == {"read", "verdict"}

(***************************************************************************)
(* Types, and that the pings a command still has to send fit the bound.    *)
(***************************************************************************)
Shapes ==
  /\ tx \in Seq(Chars) /\ Len(tx) <= 2
  /\ rdr \in Seq(Chars) /\ Len(rdr) <= 1
  /\ line \in Seq(Chars) /\ reply \in Seq(Chars)
  /\ rx \in Seq(Chars) /\ Len(rx) <= GO_MIN_RX_LEN
  /\ pc = "read" => Len(rx) < GO_MIN_RX_LEN
  /\ credited \in Seq(1 .. MaxPing)

Scalars ==
  /\ go_min_uart_ready \in BOOLEAN
  /\ de \in BOOLEAN /\ re \in BOOLEAN /\ stuck \in BOOLEAN
  /\ pc \in {"idle", "clear", "verdict", "read"} \cup Switching \cup Sending
  /\ id \in 0 .. 15 /\ count \in 1 .. GO_MIN_PING_MAX_COUNT
  /\ ping \in 0 .. MaxPing /\ heard \in 0 .. ping
  /\ pc \notin {"idle", "clear"} => ping > 0
  /\ n \in 0 .. GO_MIN_TX_LEN
  /\ pc = "write" => n < GO_MIN_TX_LEN
  /\ pc = "flush" => n = GO_MIN_TX_LEN
  /\ result \in {"none", "RT_EOK", "-RT_ERROR"}

Budget ==
  /\ tally \in [Verdict -> Nat]
  /\ Done <= count
  /\ pc # "idle" => Done < count
  /\ pc = "clear" => ping + count <= MaxPing + Done
  /\ pc \notin {"idle", "clear"} => ping + count <= MaxPing + Done + 1

TypeInv == Shapes /\ Scalars /\ Budget

(***************************************************************************)
(* Who may have characters on the way: the host drives the line, and does  *)
(* not listen, while its transmitter is not empty.                         *)
(***************************************************************************)
Direction ==
  /\ tx # <<>> => stuck \/ pc \in Sending
  /\ pc \in Sending \cup {"receiver_off"} => de
  /\ pc \in Sending => re

FromMotors == {c \in Chars : c[1] = "motor" /\ c[2] <= heard}

Answers ==
  /\ rdr \in Seq(FromMotors)
  /\ reply \in Seq(FromMotors)
  /\ rx \in Seq(FromMotors)

(***************************************************************************)
(* A transmitter that works holds the characters written last.             *)
(***************************************************************************)
Loaded ==
  ~stuck =>
    /\ Len(tx) <= n
    /\ \A k \in 1 .. Len(tx) : tx[k] = Char("host", ping, n - Len(tx) + k)

(***************************************************************************)
(* The line ends with what the transmitter has sent of the command, unless *)
(* it got stuck or the motors have heard the command already.              *)
(***************************************************************************)
OnLine ==
  pc \in Sending /\ heard # ping /\ (stuck => tx = <<>>) =>
    /\ Len(tx) <= n
    /\ n - Len(tx) <= Len(line)
    /\ \A k \in 1 .. n - Len(tx) :
         line[Len(line) - (n - Len(tx)) + k] = Char("host", ping, k)

(***************************************************************************)
(* The motors hear a command once: what is on the line belongs to earlier  *)
(* pings or has left the transmitter, and nothing is left of a command     *)
(* that they have heard.                                                   *)
(***************************************************************************)
Early ==
  \A i \in 1 .. Len(line) :
    /\ line[i][2] <= ping
    /\ line[i][2] = ping =>
         /\ pc \notin Switching
         /\ line[i][3] <= n
         /\ ~stuck => line[i][3] <= n - Len(tx)

HeardOnce ==
  heard = ping =>
    /\ line = <<>>
    /\ stuck \/ tx = <<>>
    /\ pc \notin Switching \cup {"write"}

(***************************************************************************)
(* The order of answers: of a later ping, or further on in the same frame  *)
(* as far as the two are intact.                                           *)
(***************************************************************************)
Before(c, d) ==
  /\ c[2] <= d[2]
  /\ c[2] = d[2] /\ c[3] # 0 /\ d[3] # 0 => c[3] < d[3]

AllBefore(s, t) == \A i \in 1 .. Len(s), j \in 1 .. Len(t) : Before(s[i], t[j])

Ordered(s) == \A i, j \in 1 .. Len(s) : i < j => Before(s[i], s[j])

InOrder ==
  /\ Ordered(reply)
  /\ AllBefore(rdr, reply)
  /\ pc \in Reading =>
       Ordered(rx) /\ AllBefore(rx, rdr) /\ AllBefore(rx, reply)

\* Intact characters belong to answers that have not been counted.
Uncredited(s) ==
  \A i \in 1 .. Len(s), k \in 1 .. Len(credited) :
    s[i][3] # 0 => credited[k] < s[i][2]

Uncounted ==
  /\ Uncredited(reply) /\ Uncredited(rdr)
  /\ pc \in Reading => Uncredited(rx)
  /\ \A k \in 1 .. Len(credited) : credited[k] <= heard

PingInv ==
  /\ TypeInv /\ Direction /\ Answers
  /\ Loaded /\ OnLine /\ CommandComplete
  /\ Early /\ HeardOnce
  /\ InOrder /\ Uncounted /\ EachOkAnotherAnswer

-----------------------------------------------------------------------------
(***************************************************************************)
(* Sequences, place by place.                                              *)
(***************************************************************************)
LEMMA EmptyIn == ASSUME NEW S PROVE <<>> \in Seq(S) /\ Len(<<>>) = 0
BY EmptySeq

LEMMA LenNat == ASSUME NEW S, NEW s \in Seq(S)
                PROVE  Len(s) \in Nat /\ (s # <<>> <=> Len(s) > 0)
<1>1. Len(s) \in Nat
  BY LenProperties
<1>2. s # <<>> => Len(s) > 0
  BY <1>1, EmptySeq
<1>3. s = <<>> => Len(s) = 0
  BY EmptySeq
<1>4. QED
  BY <1>1, <1>2, <1>3

LEMMA OneIn == ASSUME NEW S, NEW c \in S
               PROVE  <<c>> \in Seq(S) /\ Len(<<c>>) = 1 /\ <<c>>[1] = c
OBVIOUS

LEMMA TailPlaces ==
  ASSUME NEW S, NEW s \in Seq(S), s # <<>>
  PROVE  /\ Head(s) = s[1] /\ s[1] \in S
         /\ Tail(s) \in Seq(S)
         /\ Len(s) \in Nat \ {0} /\ Len(Tail(s)) = Len(s) - 1
         /\ \A i \in 1 .. Len(s) - 1 : Tail(s)[i] = s[i + 1]
<1>1. Head(s) = s[1]
  OBVIOUS
<1>2. QED
  BY <1>1, HeadTailProperties, LenNat

LEMMA SuffixPlaces ==
  ASSUME NEW S, NEW T, NEW s \in Seq(S), NEW t \in Seq(T)
  PROVE  IsSuffix(s, t) <=>
           /\ Len(s) <= Len(t)
           /\ \A i \in 1 .. Len(s) : s[i] = t[Len(t) - Len(s) + i]
<1> DEFINE u == Reverse(s)
           v == Reverse(t)
<1>1. /\ Len(s) \in Nat /\ Len(t) \in Nat
  BY LenNat
<1>2. /\ u = [i \in 1 .. Len(s) |-> s[(Len(s) - i) + 1]]
      /\ v = [i \in 1 .. Len(t) |-> t[(Len(t) - i) + 1]]
  BY DEF Reverse
<1>3. \A i \in 1 .. Len(s) : s[(Len(s) - i) + 1] \in S
  BY <1>1
<1>4. \A i \in 1 .. Len(t) : t[(Len(t) - i) + 1] \in T
  BY <1>1
<1>5. u \in Seq(S) /\ Len(u) = Len(s)
  BY <1>1, <1>2, <1>3
<1>6. v \in Seq(T) /\ Len(v) = Len(t)
  BY <1>1, <1>2, <1>4
<1>7. ASSUME Len(s) <= Len(t)
      PROVE  SubSeq(u, 1, Len(u)) = SubSeq(v, 1, Len(u)) <=>
             \A i \in 1 .. Len(s) : u[i] = v[i]
  <2> DEFINE x == SubSeq(u, 1, Len(u))
             y == SubSeq(v, 1, Len(u))
  <2>1. /\ x \in Seq(S \cup T) /\ Len(x) = Len(s)
        /\ \A i \in 1 .. Len(s) : x[i] = u[i]
    BY <1>1, <1>5
  <2>2. /\ y \in Seq(S \cup T) /\ Len(y) = Len(s)
        /\ \A i \in 1 .. Len(s) : y[i] = v[i]
    BY <1>1, <1>5, <1>6, <1>7
  <2>3. x = y <=> \A i \in 1 .. Len(s) : x[i] = y[i]
    BY <2>1, <2>2, SeqEqual
  <2>4. QED
    BY <2>1, <2>2, <2>3
<1>8. ASSUME Len(s) <= Len(t)
      PROVE  (\A i \in 1 .. Len(s) : u[i] = v[i]) <=>
             (\A i \in 1 .. Len(s) : s[i] = t[Len(t) - Len(s) + i])
  <2>1. \A i \in 1 .. Len(s) :
          u[i] = s[(Len(s) - i) + 1] /\ v[i] = t[(Len(t) - i) + 1]
    BY <1>1, <1>2, <1>8
  <2>2. ASSUME \A i \in 1 .. Len(s) : u[i] = v[i], NEW i \in 1 .. Len(s)
        PROVE  s[i] = t[Len(t) - Len(s) + i]
    <3>1. /\ (Len(s) - i) + 1 \in 1 .. Len(s)
          /\ (Len(s) - ((Len(s) - i) + 1)) + 1 = i
          /\ (Len(t) - ((Len(s) - i) + 1)) + 1 = Len(t) - Len(s) + i
      BY <1>1
    <3>2. QED
      BY <2>1, <2>2, <3>1
  <2>3. ASSUME \A i \in 1 .. Len(s) : s[i] = t[Len(t) - Len(s) + i],
               NEW i \in 1 .. Len(s)
        PROVE  u[i] = v[i]
    <3>1. /\ (Len(s) - i) + 1 \in 1 .. Len(s)
          /\ Len(t) - Len(s) + ((Len(s) - i) + 1) = (Len(t) - i) + 1
      BY <1>1
    <3>2. QED
      BY <2>1, <2>3, <3>1
  <2>4. QED
    BY <2>2, <2>3
<1>9. QED
  BY <1>5, <1>6, <1>7, <1>8 DEF IsSuffix, IsPrefix

-----------------------------------------------------------------------------
(***************************************************************************)
(* Characters and frames.                                                  *)
(***************************************************************************)
LEMMA CharParts ==
  ASSUME NEW w, NEW p, NEW k
  PROVE  Char(w, p, k)[1] = w /\ Char(w, p, k)[2] = p /\ Char(w, p, k)[3] = k
BY DEF Char

LEMMA HostChar ==
  ASSUME NEW p \in 1 .. MaxPing, NEW k \in 1 .. GO_MIN_TX_LEN
  PROVE  Char("host", p, k) \in Chars
BY DEF Char, Chars

LEMMA MotorChar ==
  ASSUME NEW p \in 1 .. MaxPing, NEW k \in 0 .. GO_MIN_RX_LEN
  PROVE  Char("motor", p, k) \in Chars
BY DEF Char, Chars

LEMMA FieldTypes ==
  ASSUME NEW c \in Chars
  PROVE  /\ c[2] \in 1 .. MaxPing
         /\ c[3] \in Nat
         /\ c[1] = "motor" => c[3] \in 0 .. GO_MIN_RX_LEN
         /\ c = Char(c[1], c[2], c[3])
<1> USE LengthAssumption
<1>1. CASE c \in {"host"} \X (1 .. MaxPing) \X (1 .. GO_MIN_TX_LEN)
  BY <1>1 DEF Char
<1>2. CASE c \in {"motor"} \X (1 .. MaxPing) \X (0 .. GO_MIN_RX_LEN)
  BY <1>2 DEF Char
<1>3. QED
  BY <1>1, <1>2 DEF Chars

LEMMA CommandPlaces ==
  ASSUME NEW p
  PROVE  /\ Command(p) \in Seq({Char("host", p, k) : k \in 1 .. GO_MIN_TX_LEN})
         /\ Len(Command(p)) = GO_MIN_TX_LEN
         /\ \A k \in 1 .. GO_MIN_TX_LEN : Command(p)[k] = Char("host", p, k)
<1> DEFINE T == {Char("host", p, k) : k \in 1 .. GO_MIN_TX_LEN}
           f == [k \in 1 .. GO_MIN_TX_LEN |-> Char("host", p, k)]
<1>1. Command(p) = f
  BY DEF Command, Frame
<1>2. \A k \in 1 .. GO_MIN_TX_LEN : f[k] = Char("host", p, k) /\ f[k] \in T
  OBVIOUS
<1>3. f \in Seq(T) /\ Len(f) = GO_MIN_TX_LEN
  BY <1>2, LengthAssumption
<1>4. QED
  BY <1>1, <1>2, <1>3

LEMMA AnswerPlaces ==
  ASSUME NEW p
  PROVE  /\ Answer(p) \in Seq({Char("motor", p, k) : k \in 1 .. GO_MIN_RX_LEN})
         /\ Len(Answer(p)) = GO_MIN_RX_LEN
         /\ \A k \in 1 .. GO_MIN_RX_LEN : Answer(p)[k] = Char("motor", p, k)
<1> DEFINE T == {Char("motor", p, k) : k \in 1 .. GO_MIN_RX_LEN}
           f == [k \in 1 .. GO_MIN_RX_LEN |-> Char("motor", p, k)]
<1>1. Answer(p) = f
  BY DEF Answer, Frame
<1>2. \A k \in 1 .. GO_MIN_RX_LEN : f[k] = Char("motor", p, k) /\ f[k] \in T
  OBVIOUS
<1>3. f \in Seq(T) /\ Len(f) = GO_MIN_RX_LEN
  BY <1>2, LengthAssumption
<1>4. QED
  BY <1>1, <1>2, <1>3

(***************************************************************************)
(* A whole command at the end of the line, character by character.         *)
(***************************************************************************)
LEMMA CommandOnLine ==
  ASSUME line \in Seq(Chars), NEW p
  PROVE  IsSuffix(Command(p), line) <=>
           /\ GO_MIN_TX_LEN <= Len(line)
           /\ \A k \in 1 .. GO_MIN_TX_LEN :
                line[Len(line) - GO_MIN_TX_LEN + k] = Char("host", p, k)
<1> DEFINE c == Command(p)
<1>1. PICK T : c \in Seq(T)
  BY CommandPlaces
<1>2. IsSuffix(c, line) <=>
        /\ Len(c) <= Len(line)
        /\ \A k \in 1 .. Len(c) : c[k] = line[Len(line) - Len(c) + k]
  BY <1>1, SuffixPlaces
<1>3. /\ Len(c) = GO_MIN_TX_LEN
      /\ \A k \in 1 .. GO_MIN_TX_LEN : c[k] = Char("host", p, k)
  BY CommandPlaces
<1> HIDE DEF c
<1>4. QED
  BY <1>2, <1>3 DEF c

-----------------------------------------------------------------------------
(***************************************************************************)
(* The types.                                                              *)
(***************************************************************************)
LEMMA VerdictCases ==
  /\ VerdictOf \in Verdict
  /\ VerdictOf = "ok" => FeedbackValid
BY ZenonT(30) DEF VerdictOf, Verdict

\* A verdict that is counted makes one more.
LEMMA CountsOne ==
  ASSUME tally \in [Verdict -> Nat], NEW v \in Verdict,
         tally' = [tally EXCEPT ![v] = @ + 1]
  PROVE  tally' \in [Verdict -> Nat] /\ Done' = Done + 1
BY DEF Verdict, Done

LEMMA ScalarsNext ==
  ASSUME TypeInv, [Next]_vars
  PROVE  Scalars'
<1> USE LengthAssumption, CountAssumption
    DEF TypeInv, Scalars, Switching, Sending
<1>1. ASSUME NEW i \in IdArg, NEW m \in ModeArg,
            Refuse(i, m) \/ InitFails(i, m)
      PROVE  Scalars'
  BY <1>1 DEF Refuse, InitFails, uart, motors, request
<1>2. ASSUME NEW i \in IdArg, NEW m \in ModeArg, NEW c \in CountArg,
            Begin(i, m, c)
      PROVE  Scalars'
  <2>1. id' \in 0 .. 15
    <3>1. UInt8(i) \in 0 .. 255
      BY ArgAssumption DEF UInt8
    <3>2. id' = UInt8(i) /\ ~(UInt8(i) > 15)
      BY <1>2 DEF Begin, Refused
    <3>3. QED
      BY <3>1, <3>2
  <2>2. count' \in 1 .. GO_MIN_PING_MAX_COUNT
    BY <1>2, ArgAssumption DEF Begin, Clamp
  <2>3. UNCHANGED stuck /\ de' \in BOOLEAN /\ re' \in BOOLEAN
    BY <1>2 DEF Begin, uart
  <2>4. QED
    BY <1>2, <2>1, <2>2, <2>3 DEF Begin, motors
<1>3. CASE ClearRx
  <2>1. Done \in Nat /\ ping + count <= MaxPing + Done /\ Done < count
    BY <1>3 DEF ClearRx, Budget, Done, Verdict
  <2>2. ping + 1 \in 0 .. MaxPing /\ heard \in 0 .. ping + 1 /\ ping + 1 > 0
    BY <2>1
  <2>3. QED
    BY <1>3, <2>2 DEF ClearRx, motors, request, outcome
<1>4. CASE DriverOn
  BY <1>4 DEF DriverOn, motors, request, outcome
<1>5. CASE ReceiverOff
  BY <1>5 DEF ReceiverOff, motors, request, outcome
<1>6. CASE WriteChar
  BY <1>6 DEF WriteChar, motors, request, outcome
<1>7. CASE WriteTimeout
  BY <1>7 DEF WriteTimeout, GivesUp, RxMode, motors, request, outcome
<1>8. CASE Flush
  BY <1>8 DEF Flush, RxMode, motors, request, outcome
<1>9. CASE ReadChar
  BY <1>9 DEF ReadChar, motors, request, outcome
<1>10. CASE ReadTimeout
  BY <1>10 DEF ReadTimeout, uart, motors, request, outcome
<1>11. CASE Count
  BY <1>11 DEF Count, uart, motors, request
<1>12. CASE ShiftOut
  BY <1>12 DEF ShiftOut, Receive, request, outcome
<1>13. CASE Stick
  BY <1>13 DEF Stick, motors, request, outcome
<1>14. CASE Hear
  BY <1>14 DEF Hear, uart, request, outcome
<1>15. CASE Arrive
  BY <1>15 DEF Arrive, Receive, request, outcome
<1>16. CASE UNCHANGED vars
  BY <1>16 DEF vars, uart, motors, request, outcome
<1>17. QED
  BY <1>1, <1>2, <1>3, <1>4, <1>5, <1>6, <1>7, <1>8,
     <1>9, <1>10, <1>11, <1>12, <1>13, <1>14, <1>15, <1>16
  DEF Next, Step

LEMMA BudgetNext ==
  ASSUME TypeInv, [Next]_vars
  PROVE  Budget'
<1> USE CountAssumption
    DEF TypeInv, Scalars, Budget, Switching, Sending
<1>1. ASSUME NEW i \in IdArg, NEW m \in ModeArg,
            Refuse(i, m) \/ InitFails(i, m)
      PROVE  Budget'
  BY <1>1 DEF Refuse, InitFails, uart, motors, request, Done
<1>2. ASSUME NEW i \in IdArg, NEW m \in ModeArg, NEW c \in CountArg,
            Begin(i, m, c)
      PROVE  Budget'
  <2>1. tally' = [v \in Verdict |-> 0] /\ pc' = "clear" /\ UNCHANGED ping
    BY <1>2 DEF Begin
  <2>2. tally' \in [Verdict -> Nat] /\ Done' = 0
    BY <2>1 DEF Done, Verdict
  <2>3. count' \in 1 .. GO_MIN_PING_MAX_COUNT /\ ping + count' <= MaxPing
    BY <1>2, ArgAssumption DEF Begin, Clamp
  <2>4. /\ Done' <= count' /\ Done' < count'
        /\ ping' + count' <= MaxPing + Done'
    <3>1. 0 <= count' /\ 0 < count'
      BY <2>3
    <3>2. ping' + count' <= MaxPing
      BY <2>1, <2>3
    <3>3. QED
      BY <3>1, <3>2, <2>2
  <2>5. QED
    BY <2>1, <2>2, <2>4
<1>3. CASE ClearRx
  <2>1. Done \in Nat
    BY DEF Done, Verdict
  <2>2. /\ UNCHANGED <<tally, count>> /\ Done' = Done
        /\ pc = "clear" /\ pc' = "driver_on"
        /\ ping' = ping + 1
    BY <1>3 DEF ClearRx, outcome, request, Done
  <2>3. tally' \in [Verdict -> Nat]
    BY <2>2
  <2>4. Done' < count' /\ ping' + count' <= MaxPing + Done' + 1
    BY <2>1, <2>2
  <2>5. QED
    BY <2>1, <2>2, <2>3, <2>4
<1>4. CASE DriverOn
  BY <1>4 DEF DriverOn, motors, request, outcome, Done
<1>5. CASE ReceiverOff
  BY <1>5 DEF ReceiverOff, motors, request, outcome, Done
<1>6. CASE WriteChar
  BY <1>6 DEF WriteChar, motors, request, outcome, Done
<1>7. CASE WriteTimeout
  BY <1>7 DEF WriteTimeout, GivesUp, RxMode, motors, request, outcome, Done
<1>8. CASE Flush
  BY <1>8 DEF Flush, RxMode, motors, request, outcome, Done
<1>9. CASE ReadChar
  BY <1>9 DEF ReadChar, motors, request, outcome, Done
<1>10. CASE ReadTimeout
  BY <1>10 DEF ReadTimeout, uart, motors, request, outcome, Done
<1>11. CASE Count
  <2>1. tally' \in [Verdict -> Nat] /\ Done' = Done + 1
    BY <1>11, VerdictCases, CountsOne DEF Count
  <2>2. Done < count /\ Done \in Nat
    <3>1. pc # "idle" /\ tally \in [Verdict -> Nat]
      BY <1>11 DEF Count
    <3>2. Done \in Nat
      BY <3>1 DEF Done, Verdict
    <3>3. QED
      BY <3>1, <3>2
  <2>3. /\ UNCHANGED <<count, ping>>
        /\ IF Done' < count THEN pc' = "clear" ELSE pc' = "idle"
    BY <1>11 DEF Count, request
  <2>4. ping + count <= MaxPing + Done + 1
    BY <1>11 DEF Count
  <2>5. QED
    BY <2>1, <2>2, <2>3, <2>4
<1>12. CASE ShiftOut
  BY <1>12 DEF ShiftOut, Receive, request, outcome, Done
<1>13. CASE Stick
  BY <1>13 DEF Stick, motors, request, outcome, Done
<1>14. CASE Hear
  BY <1>14 DEF Hear, uart, request, outcome, Done
<1>15. CASE Arrive
  BY <1>15 DEF Arrive, Receive, request, outcome, Done
<1>16. CASE UNCHANGED vars
  BY <1>16 DEF vars, uart, motors, request, outcome, Done
<1>17. QED
  BY <1>1, <1>2, <1>3, <1>4, <1>5, <1>6, <1>7, <1>8,
     <1>9, <1>10, <1>11, <1>12, <1>13, <1>14, <1>15, <1>16
  DEF Next, Step

LEMMA HeardPing ==
  ASSUME line \in Seq(Chars), NEW p, IsSuffix(Command(p), line)
  PROVE  /\ p \in 1 .. MaxPing
         /\ \E i \in 1 .. Len(line) : line[i] = Char("host", p, GO_MIN_TX_LEN)
<1> USE LengthAssumption
<1>1. /\ GO_MIN_TX_LEN <= Len(line) /\ Len(line) \in Nat
      /\ line[Len(line) - GO_MIN_TX_LEN + GO_MIN_TX_LEN]
           = Char("host", p, GO_MIN_TX_LEN)
  BY CommandOnLine, LenNat
<1>2. line[Len(line)] = Char("host", p, GO_MIN_TX_LEN) /\ Len(line) \in 1 .. Len(line)
  BY <1>1
<1>3. line[Len(line)] \in Chars
  BY <1>2, ElementOfSeq
<1>4. QED
  BY <1>2, <1>3, FieldTypes, CharParts

LEMMA AnswerIsChars ==
  ASSUME NEW p \in 1 .. MaxPing PROVE Answer(p) \in Seq(Chars)
<1>1. {Char("motor", p, k) : k \in 1 .. GO_MIN_RX_LEN} \subseteq Chars
  BY MotorChar, LengthAssumption
<1>2. QED
  BY <1>1, AnswerPlaces, SeqMonotonic

LEMMA ShapesNext ==
  ASSUME TypeInv, [Next]_vars
  PROVE  Shapes'
<1> USE LengthAssumption DEF TypeInv, Shapes, Scalars, Sending, Switching
<1>1. ASSUME NEW i \in IdArg, NEW m \in ModeArg,
            Refuse(i, m) \/ InitFails(i, m)
      PROVE  Shapes'
  BY <1>1 DEF Refuse, InitFails, uart, motors, request
<1>2. ASSUME NEW i \in IdArg, NEW m \in ModeArg, NEW c \in CountArg,
            Begin(i, m, c)
      PROVE  Shapes'
  <2>1. UNCHANGED tx /\ (rdr' = rdr \/ rdr' = <<>>)
    BY <1>2 DEF Begin, uart
  <2>2. rdr' \in Seq(Chars) /\ Len(rdr') <= 1
    <3>1. <<>> \in Seq(Chars) /\ Len(<<>>) <= 1
      BY EmptyIn
    <3>2. QED
      BY <2>1, <3>1
  <2>3. QED
    BY <1>2, <2>1, <2>2 DEF Begin, motors
<1>3. CASE ClearRx
  <2>1. rdr' \in Seq(Chars) /\ Len(rdr') <= 1
    BY <1>3, EmptyIn DEF ClearRx
  <2>2. QED
    BY <1>3, <2>1 DEF ClearRx, motors, request, outcome
<1>4. CASE DriverOn
  BY <1>4 DEF DriverOn, motors, request, outcome
<1>5. CASE ReceiverOff
  BY <1>5 DEF ReceiverOff, motors, request, outcome
<1>6. CASE WriteChar
  <2>1. Command(ping)[n + 1] \in Chars
    <3>1. n + 1 \in 1 .. GO_MIN_TX_LEN /\ ping \in 1 .. MaxPing
      BY <1>6 DEF WriteChar
    <3>2. QED
      BY <3>1, HostChar, CommandPlaces
  <2>2. tx' \in Seq(Chars) /\ Len(tx') = Len(tx) + 1
    BY <1>6, <2>1, AppendProperties DEF WriteChar
  <2>3. Len(tx) < 2 /\ Len(tx) \in Nat
    BY <1>6, LenNat DEF WriteChar, TXE
  <2>4. Len(tx') <= 2
    BY <2>2, <2>3
  <2>5. QED
    BY <1>6, <2>2, <2>4 DEF WriteChar, motors, request, outcome
<1>7. CASE WriteTimeout
  <2>1. rx' \in Seq(Chars) /\ Len(rx') < GO_MIN_RX_LEN /\ Len(rx') <= GO_MIN_RX_LEN
    BY <1>7, EmptyIn DEF WriteTimeout
  <2>2. QED
    BY <1>7, <2>1 DEF WriteTimeout, RxMode, motors, request, outcome
<1>8. CASE Flush
  <2>1. rx' \in Seq(Chars) /\ Len(rx') < GO_MIN_RX_LEN /\ Len(rx') <= GO_MIN_RX_LEN
    BY <1>8, EmptyIn DEF Flush
  <2>2. QED
    BY <1>8, <2>1 DEF Flush, RxMode, motors, request, outcome
<1>9. CASE ReadChar
  <2>1. rdr' \in Seq(Chars) /\ Len(rdr') <= 1
    BY <1>9, EmptyIn DEF ReadChar
  <2>2. rx' \in Seq(Chars) /\ Len(rx') = Len(rx) + Len(rdr)
    BY <1>9, ConcatProperties DEF ReadChar
  <2>3. Len(rx) < GO_MIN_RX_LEN /\ Len(rx) \in Nat /\ Len(rdr) \in Nat
    BY <1>9, LenNat DEF ReadChar
  <2>4. Len(rx') <= GO_MIN_RX_LEN
    BY <2>2, <2>3
  <2>5. pc' = "read" => Len(rx') < GO_MIN_RX_LEN
    BY <1>9, <2>2, <2>3, <2>4 DEF ReadChar
  <2>6. QED
    BY <1>9, <2>1, <2>2, <2>4, <2>5 DEF ReadChar, motors, request, outcome
<1>10. CASE ReadTimeout
  BY <1>10 DEF ReadTimeout, uart, motors, request, outcome
<1>11. CASE Count
  <2>1. credited' \in Seq(1 .. MaxPing)
    <3>1. CASE VerdictOf = "ok"
      <4>1. PICK p \in 1 .. MaxPing : rx = Answer(p)
        BY <3>1, VerdictCases DEF FeedbackValid
      <4>2. rx[1] = Char("motor", p, 1)
        <5>1. 1 \in 1 .. GO_MIN_RX_LEN
          OBVIOUS
        <5>2. QED
          BY <4>1, <5>1, AnswerPlaces
      <4>3. QED
        BY <1>11, <3>1, <4>2, CharParts, AppendProperties DEF Count
    <3>2. CASE VerdictOf # "ok"
      BY <1>11, <3>2 DEF Count
    <3>3. QED
      BY <3>1, <3>2
  <2>2. pc' # "read"
    BY <1>11 DEF Count
  <2>3. QED
    BY <1>11, <2>1, <2>2 DEF Count, uart, motors
<1>12. CASE ShiftOut
  <2>1. Head(tx) \in Chars /\ tx' \in Seq(Chars) /\ Len(tx') <= 2
    BY <1>12, TailPlaces DEF ShiftOut
  <2>2. line' \in Seq(Chars)
    <3>1. line' = line \/ line' = Append(line, Head(tx))
      BY <1>12 DEF ShiftOut
    <3>2. Append(line, Head(tx)) \in Seq(Chars)
      BY <2>1, AppendProperties
    <3>3. QED
      BY <3>1, <3>2
  <2>3. rdr' \in Seq(Chars) /\ Len(rdr') <= 1
    <3>1. rdr' = rdr \/ rdr' = <<Head(tx)>>
      BY <1>12 DEF ShiftOut, Receive
    <3>2. <<Head(tx)>> \in Seq(Chars) /\ Len(<<Head(tx)>>) <= 1
      BY <2>1, OneIn
    <3>3. QED
      BY <3>1, <3>2
  <2>4. QED
    BY <1>12, <2>1, <2>2, <2>3 DEF ShiftOut, request, outcome
<1>13. CASE Stick
  BY <1>13 DEF Stick, motors, request, outcome
<1>14. CASE Hear
  <2>1. line' \in Seq(Chars)
    BY <1>14, EmptyIn DEF Hear
  <2>2. reply' \in Seq(Chars)
    <3>1. ping \in 1 .. MaxPing
      BY <1>14, HeardPing DEF Hear
    <3>2. Answer(ping) \in Seq(Chars)
      BY <3>1, AnswerIsChars
    <3>3. reply' = reply \/ reply' = reply \o Answer(ping)
      BY <1>14 DEF Hear
    <3>4. reply \o Answer(ping) \in Seq(Chars)
      BY <3>2, ConcatProperties
    <3>5. QED
      BY <3>3, <3>4
  <2>3. QED
    BY <1>14, <2>1, <2>2 DEF Hear, uart, request, outcome
<1>15. CASE Arrive
  <2>1. Head(reply) \in Chars /\ reply' \in Seq(Chars)
    BY <1>15, TailPlaces DEF Arrive
  <2>2. Char("motor", Head(reply)[2], 0) \in Chars
    BY <2>1, FieldTypes, MotorChar
  <2>3. rdr' \in Seq(Chars) /\ Len(rdr') <= 1
    <3>1. \/ rdr' = rdr
          \/ rdr' = <<Head(reply)>>
          \/ rdr' = <<Char("motor", Head(reply)[2], 0)>>
      BY <1>15 DEF Arrive, Receive
    <3>2. \A c \in Chars : <<c>> \in Seq(Chars) /\ Len(<<c>>) <= 1
      BY OneIn
    <3>3. QED
      BY <2>1, <2>2, <3>1, <3>2
  <2>4. QED
    BY <1>15, <2>1, <2>3 DEF Arrive, request, outcome
<1>16. CASE UNCHANGED vars
  BY <1>16 DEF vars, uart, motors, request, outcome
<1>17. QED
  BY <1>1, <1>2, <1>3, <1>4, <1>5, <1>6, <1>7, <1>8,
     <1>9, <1>10, <1>11, <1>12, <1>13, <1>14, <1>15, <1>16
  DEF Next, Step

-----------------------------------------------------------------------------
(***************************************************************************)
(* Who may have characters on the way.                                     *)
(***************************************************************************)
LEMMA DirectionNext ==
  ASSUME TypeInv, Direction, [Next]_vars
  PROVE  Direction'
<1> USE DEF TypeInv, Scalars, Direction, Sending, Switching
<1>1. ASSUME NEW i \in IdArg, NEW m \in ModeArg,
            Refuse(i, m) \/ InitFails(i, m)
      PROVE  Direction'
  BY <1>1 DEF Refuse, InitFails, uart, motors, request
<1>2. ASSUME NEW i \in IdArg, NEW m \in ModeArg, NEW c \in CountArg,
            Begin(i, m, c)
      PROVE  Direction'
  BY <1>2 DEF Begin, uart, motors
<1>3. CASE ClearRx
  BY <1>3 DEF ClearRx, motors, request, outcome
<1>4. CASE DriverOn
  BY <1>4 DEF DriverOn, motors, request, outcome
<1>5. CASE ReceiverOff
  BY <1>5 DEF ReceiverOff, motors, request, outcome
<1>6. CASE WriteChar
  BY <1>6 DEF WriteChar, motors, request, outcome
<1>7. CASE WriteTimeout
  BY <1>7 DEF WriteTimeout, GivesUp, TXE, TC, RxMode, motors, request, outcome
<1>8. CASE Flush
  BY <1>8 DEF Flush, TC, RxMode, motors, request, outcome
<1>9. CASE ReadChar
  BY <1>9 DEF ReadChar, motors, request, outcome
<1>10. CASE ReadTimeout
  BY <1>10 DEF ReadTimeout, uart, motors, request, outcome
<1>11. CASE Count
  BY <1>11 DEF Count, uart, motors, request
<1>12. CASE ShiftOut
  BY <1>12 DEF ShiftOut, Receive, request, outcome
<1>13. CASE Stick
  BY <1>13 DEF Stick, motors, request, outcome
<1>14. CASE Hear
  BY <1>14 DEF Hear, uart, request, outcome
<1>15. CASE Arrive
  BY <1>15 DEF Arrive, Receive, request, outcome
<1>16. CASE UNCHANGED vars
  BY <1>16 DEF vars, uart, motors, request, outcome
<1>17. QED
  BY <1>1, <1>2, <1>3, <1>4, <1>5, <1>6, <1>7, <1>8,
     <1>9, <1>10, <1>11, <1>12, <1>13, <1>14, <1>15, <1>16
  DEF Next, Step

\* The motors hear no command of an earlier ping, and what they sent stays.
LEMMA HeardGrows ==
  ASSUME TypeInv, heard' = heard \/ heard' = ping
  PROVE  FromMotors \subseteq FromMotors'
<1>1. heard <= heard' /\ heard \in Nat /\ heard' \in Nat
  BY DEF TypeInv, Scalars
<1>2. \A c \in Chars : c[2] \in Nat
  BY FieldTypes
<1>3. QED
  BY <1>1, <1>2 DEF FromMotors

LEMMA FromMotorsKeeps ==
  ASSUME heard' = heard
  PROVE  FromMotors' = FromMotors
BY DEF FromMotors

LEMMA AnswersNext ==
  ASSUME TypeInv, Direction, Answers, [Next]_vars
  PROVE  Answers'
<1> USE DEF Answers
<1>1. ASSUME NEW i \in IdArg, NEW m \in ModeArg,
            Refuse(i, m) \/ InitFails(i, m)
      PROVE  Answers'
  BY <1>1, FromMotorsKeeps, EmptyIn DEF Refuse, InitFails, uart, motors, request
<1>2. ASSUME NEW i \in IdArg, NEW m \in ModeArg, NEW c \in CountArg,
            Begin(i, m, c)
      PROVE  Answers'
  <2>1. UNCHANGED <<reply, rx>> /\ (rdr' = rdr \/ rdr' = <<>>)
    BY <1>2 DEF Begin, uart, motors
  <2>2. QED
    BY <1>2, <2>1, FromMotorsKeeps, EmptyIn DEF Begin, motors
<1>3. CASE ClearRx
  BY <1>3, FromMotorsKeeps, EmptyIn DEF ClearRx, motors, request, outcome
<1>4. CASE DriverOn
  BY <1>4, FromMotorsKeeps, EmptyIn DEF DriverOn, motors, request, outcome
<1>5. CASE ReceiverOff
  BY <1>5, FromMotorsKeeps, EmptyIn DEF ReceiverOff, motors, request, outcome
<1>6. CASE WriteChar
  BY <1>6, FromMotorsKeeps, EmptyIn DEF WriteChar, motors, request, outcome
<1>7. CASE WriteTimeout
  BY <1>7, FromMotorsKeeps, EmptyIn DEF WriteTimeout, RxMode, motors, request, outcome
<1>8. CASE Flush
  BY <1>8, FromMotorsKeeps, EmptyIn DEF Flush, RxMode, motors, request, outcome
<1>9. CASE ReadChar
  <2>1. rx' \in Seq(FromMotors) /\ rdr' \in Seq(FromMotors)
    BY <1>9, ConcatProperties, EmptyIn DEF ReadChar
  <2>2. QED
    BY <1>9, <2>1, FromMotorsKeeps DEF ReadChar, motors
<1>10. CASE ReadTimeout
  BY <1>10, FromMotorsKeeps, EmptyIn DEF ReadTimeout, uart, motors, request, outcome
<1>11. CASE Count
  BY <1>11, FromMotorsKeeps, EmptyIn DEF Count, uart, motors, request
<1>12. CASE ShiftOut
  <2>1. UNCHANGED <<rdr, reply, rx>>
    BY <1>12 DEF ShiftOut, Receive, Direction
  <2>2. QED
    BY <1>12, <2>1, FromMotorsKeeps DEF ShiftOut
<1>13. CASE Stick
  BY <1>13, FromMotorsKeeps, EmptyIn DEF Stick, motors, request, outcome
<1>14. CASE Hear
  <2>1. FromMotors \subseteq FromMotors' /\ UNCHANGED <<rdr, rx>>
    BY <1>14, HeardGrows DEF Hear, uart
  <2>2. Answer(ping) \in Seq(FromMotors')
    <3>1. ping \in 1 .. MaxPing /\ heard' = ping
      BY <1>14, HeardPing DEF Hear, TypeInv, Shapes
    <3>2. \A k \in 1 .. GO_MIN_RX_LEN : Char("motor", ping, k) \in FromMotors'
      BY <3>1, MotorChar, CharParts, LengthAssumption DEF FromMotors
    <3>3. {Char("motor", ping, k) : k \in 1 .. GO_MIN_RX_LEN} \subseteq FromMotors'
      BY <3>2
    <3>4. QED
      BY <3>3, AnswerPlaces, SeqMonotonic
  <2>3. /\ reply \in Seq(FromMotors') /\ rdr' \in Seq(FromMotors')
        /\ rx' \in Seq(FromMotors')
    BY <2>1, SeqMonotonic
  <2>4. reply \o Answer(ping) \in Seq(FromMotors')
    BY <2>2, <2>3, ConcatProperties
  <2>5. reply' = reply \/ reply' = reply \o Answer(ping)
    BY <1>14 DEF Hear
  <2>6. QED
    BY <2>3, <2>4, <2>5
<1>15. CASE Arrive
  <2>1. Head(reply) \in FromMotors /\ reply' \in Seq(FromMotors)
    BY <1>15, TailPlaces DEF Arrive
  <2>2. Char("motor", Head(reply)[2], 0) \in FromMotors
    BY <2>1, FieldTypes, MotorChar, CharParts, LengthAssumption DEF FromMotors
  <2>3. \/ rdr' = rdr
        \/ rdr' = <<Head(reply)>>
        \/ rdr' = <<Char("motor", Head(reply)[2], 0)>>
    BY <1>15 DEF Arrive, Receive
  <2>4. \A c \in FromMotors : <<c>> \in Seq(FromMotors)
    BY OneIn
  <2>5. rdr' \in Seq(FromMotors)
    BY <2>1, <2>2, <2>3, <2>4
  <2>6. QED
    BY <1>15, <2>1, <2>5, FromMotorsKeeps DEF Arrive
<1>16. CASE UNCHANGED vars
  BY <1>16, FromMotorsKeeps, EmptyIn DEF vars, uart, motors, request, outcome
<1>17. QED
  BY <1>1, <1>2, <1>3, <1>4, <1>5, <1>6, <1>7, <1>8,
     <1>9, <1>10, <1>11, <1>12, <1>13, <1>14, <1>15, <1>16
  DEF Next, Step

-----------------------------------------------------------------------------
(***************************************************************************)
(* The command on its way to the motors.                                   *)
(***************************************************************************)
LEMMA Small ==
  \A k \in Nat : /\ k < 2 => k \in 0 .. 1
                 /\ k > 0 /\ k <= 2 => k \in 1 .. 2
OBVIOUS

\* What the two steps that move characters of the command do, place by place.
LEMMA WritePlaces ==
  ASSUME TypeInv, WriteChar
  PROVE  /\ Len(tx) \in 0 .. 1 /\ Len(tx') = Len(tx) + 1
         /\ n \in Nat /\ n' = n + 1
         /\ \A k \in 1 .. Len(tx) : tx'[k] = tx[k]
         /\ tx'[Len(tx) + 1] = Char("host", ping, n + 1)
         /\ UNCHANGED <<stuck, ping, line, heard>>
<1> USE DEF TypeInv, Shapes, Scalars
<1>1. n + 1 \in 1 .. GO_MIN_TX_LEN /\ ping \in 1 .. MaxPing
  BY LengthAssumption DEF WriteChar
<1>2. Command(ping)[n + 1] = Char("host", ping, n + 1)
  BY <1>1, CommandPlaces
<1>3. Command(ping)[n + 1] \in Chars
  BY <1>1, <1>2, HostChar
<1>4. /\ Len(tx') = Len(tx) + 1
      /\ \A k \in 1 .. Len(tx) : tx'[k] = tx[k]
      /\ tx'[Len(tx) + 1] = Command(ping)[n + 1]
  BY <1>3, AppendProperties DEF WriteChar
<1>5. Len(tx) \in 0 .. 1
  <2>1. Len(tx) \in Nat
    BY LenNat
  <2>2. Len(tx) < 2
    BY DEF WriteChar, TXE
  <2>3. QED
    BY <2>1, <2>2, Small
<1>6. QED
  BY <1>2, <1>4, <1>5 DEF WriteChar, motors

LEMMA ShiftPlaces ==
  ASSUME TypeInv, Direction, ShiftOut
  PROVE  /\ Len(tx) \in 1 .. 2 /\ Len(tx') = Len(tx) - 1
         /\ \A k \in 1 .. Len(tx) - 1 : tx'[k] = tx[k + 1]
         /\ Len(line) \in Nat /\ Len(line') = Len(line) + 1
         /\ \A k \in 1 .. Len(line) : line'[k] = line[k]
         /\ line'[Len(line) + 1] = tx[1]
         /\ ~stuck /\ pc \in Sending
         /\ UNCHANGED <<stuck, ping, n, pc, heard>>
<1> USE DEF TypeInv, Shapes
<1>1. /\ Head(tx) = tx[1] /\ Head(tx) \in Chars
      /\ Len(tx') = Len(tx) - 1
      /\ \A k \in 1 .. Len(tx) - 1 : tx'[k] = tx[k + 1]
  BY TailPlaces DEF ShiftOut
<1>2. Len(tx) \in 1 .. 2
  <2>1. Len(tx) \in Nat /\ Len(tx) > 0
    BY LenNat DEF ShiftOut
  <2>2. Len(tx) <= 2
    OBVIOUS
  <2>3. QED
    BY <2>1, <2>2, Small
<1>3. line' = Append(line, Head(tx))
  BY DEF ShiftOut, Direction
<1>4. /\ Len(line) \in Nat /\ Len(line') = Len(line) + 1
      /\ \A k \in 1 .. Len(line) : line'[k] = line[k]
      /\ line'[Len(line) + 1] = tx[1]
  BY <1>1, <1>3, AppendProperties, LenNat
<1>5. ~stuck /\ pc \in Sending
  BY DEF ShiftOut, Direction
<1>6. QED
  BY <1>1, <1>2, <1>4, <1>5 DEF ShiftOut

LEMMA NothingLoaded ==
  ASSUME TypeInv, stuck' \/ (tx' = <<>> /\ n' \in Nat)
  PROVE  Loaded'
BY EmptyIn DEF Loaded

LEMMA LoadedNext ==
  ASSUME TypeInv, Direction, Loaded, [Next]_vars
  PROVE  Loaded'
<1>1. ASSUME NEW i \in IdArg, NEW m \in ModeArg,
            Refuse(i, m) \/ InitFails(i, m)
      PROVE  Loaded'
  BY <1>1 DEF Refuse, InitFails, uart, motors, request, Loaded
<1>2. ASSUME NEW i \in IdArg, NEW m \in ModeArg, NEW c \in CountArg,
            Begin(i, m, c)
      PROVE  Loaded'
  BY <1>2 DEF Begin, uart, motors, Loaded
<1>3. CASE ClearRx
  <2>1. stuck \/ tx = <<>>
    BY <1>3 DEF ClearRx, Direction, Sending
  <2>2. (stuck' <=> stuck) /\ tx' = tx /\ n' \in Nat
    BY <1>3, LengthAssumption DEF ClearRx, TypeInv, Scalars
  <2>3. QED
    BY <2>1, <2>2, NothingLoaded
<1>4. CASE DriverOn
  BY <1>4 DEF DriverOn, motors, request, outcome, Loaded
<1>5. CASE ReceiverOff
  <2>1. stuck \/ tx = <<>>
    BY <1>5 DEF ReceiverOff, Direction, Sending
  <2>2. (stuck' <=> stuck) /\ tx' = tx /\ n' \in Nat
    BY <1>5, LengthAssumption DEF ReceiverOff, TypeInv, Scalars
  <2>3. QED
    BY <2>1, <2>2, NothingLoaded
<1>6. CASE WriteChar
  <2> SUFFICES ASSUME ~stuck PROVE Loaded'
    BY <1>6 DEF Loaded, WriteChar
  <2>1. ASSUME NEW k \in 1 .. Len(tx')
        PROVE  tx'[k] = Char("host", ping', n' - Len(tx') + k)
    <3>1. CASE k = Len(tx) + 1
      BY <1>6, <3>1, WritePlaces
    <3>2. CASE k \in 1 .. Len(tx)
      <4>1. n' - Len(tx') + k = n - Len(tx) + k
        BY <1>6, WritePlaces
      <4>2. QED
        BY <1>6, <3>2, <4>1, WritePlaces DEF Loaded
    <3>3. QED
      BY <1>6, <3>1, <3>2, WritePlaces
  <2>2. Len(tx') <= n'
    BY <1>6, WritePlaces DEF Loaded
  <2>3. QED
    BY <2>1, <2>2 DEF Loaded
<1>7. CASE WriteTimeout
  BY <1>7 DEF WriteTimeout, RxMode, motors, request, outcome, Loaded
<1>8. CASE Flush
  BY <1>8 DEF Flush, RxMode, motors, request, outcome, Loaded
<1>9. CASE ReadChar
  BY <1>9 DEF ReadChar, motors, request, outcome, Loaded
<1>10. CASE ReadTimeout
  BY <1>10 DEF ReadTimeout, uart, motors, request, outcome, Loaded
<1>11. CASE Count
  BY <1>11 DEF Count, uart, motors, request, Loaded
<1>12. CASE ShiftOut
  <2>1. ASSUME NEW k \in 1 .. Len(tx')
        PROVE  tx'[k] = Char("host", ping', n' - Len(tx') + k)
    <3>1. k + 1 \in 1 .. Len(tx) /\ k \in 1 .. Len(tx) - 1
      BY <1>12, ShiftPlaces
    <3>2. n' - Len(tx') + k = n - Len(tx) + (k + 1)
      <4>1. /\ n \in Nat /\ n' = n
            /\ Len(tx) \in 1 .. 2 /\ Len(tx') = Len(tx) - 1
        BY <1>12, ShiftPlaces, LengthAssumption DEF TypeInv, Scalars
      <4>2. QED
        BY <3>1, <4>1
    <3>3. QED
      BY <1>12, <3>1, <3>2, ShiftPlaces DEF Loaded
  <2>2. Len(tx') <= n'
    BY <1>12, ShiftPlaces, LengthAssumption DEF Loaded, TypeInv, Scalars
  <2>3. QED
    BY <2>1, <2>2 DEF Loaded
<1>13. CASE Stick
  BY <1>13, NothingLoaded DEF Stick
<1>14. CASE Hear
  BY <1>14 DEF Hear, uart, request, outcome, Loaded
<1>15. CASE Arrive
  BY <1>15 DEF Arrive, Receive, request, outcome, Loaded
<1>16. CASE UNCHANGED vars
  BY <1>16 DEF vars, uart, motors, request, outcome, Loaded
<1>17. QED
  BY <1>1, <1>2, <1>3, <1>4, <1>5, <1>6, <1>7, <1>8,
     <1>9, <1>10, <1>11, <1>12, <1>13, <1>14, <1>15, <1>16
  DEF Next, Step

LEMMA OnLineNext ==
  ASSUME TypeInv, Direction, Loaded, OnLine, [Next]_vars
  PROVE  OnLine'
<1>1. ASSUME NEW i \in IdArg, NEW m \in ModeArg,
            Refuse(i, m) \/ InitFails(i, m)
      PROVE  OnLine'
  BY <1>1 DEF Refuse, InitFails, uart, motors, request, OnLine
<1>2. ASSUME NEW i \in IdArg, NEW m \in ModeArg, NEW c \in CountArg,
            Begin(i, m, c)
      PROVE  OnLine'
  BY <1>2 DEF Begin, OnLine, Sending
<1>3. CASE ClearRx
  BY <1>3 DEF ClearRx, OnLine, Sending
<1>4. CASE DriverOn
  BY <1>4 DEF DriverOn, OnLine, Sending
<1>5. CASE ReceiverOff
  <2>1. n' = 0 /\ tx' = tx /\ (stuck' <=> stuck) /\ UNCHANGED line
    BY <1>5 DEF ReceiverOff, motors
  <2>2. tx # <<>> => stuck
    BY <1>5 DEF ReceiverOff, Direction, Sending
  <2>3. SUFFICES ASSUME tx' = <<>> PROVE OnLine'
    BY <2>1, <2>2 DEF OnLine
  <2>4. Len(tx') = 0 /\ Len(line') \in Nat
    BY <2>1, <2>3, EmptyIn, LenNat DEF TypeInv, Shapes
  <2>5. QED
    BY <2>1, <2>4 DEF OnLine
<1>6. CASE WriteChar
  <2> SUFFICES ASSUME ~stuck, heard # ping PROVE OnLine'
    <3>1. tx' # <<>>
      BY <1>6, WritePlaces, LenNat, EmptyIn
    <3>2. QED
      BY <1>6, <3>1, WritePlaces DEF OnLine
  <2> DEFINE sent == n - Len(tx)
  <2>1. /\ Len(tx) <= n /\ sent <= Len(line)
        /\ \A k \in 1 .. sent : line[Len(line) - sent + k] = Char("host", ping, k)
    BY <1>6 DEF WriteChar, OnLine, Sending
  <2>2. n' - Len(tx') = sent /\ Len(tx') <= n'
    BY <1>6, <2>1, WritePlaces
  <2>3. line' = line /\ ping' = ping
    BY <1>6, WritePlaces
  <2> HIDE DEF sent
  <2>4. QED
    BY <2>1, <2>2, <2>3 DEF OnLine
<1>7. CASE WriteTimeout
  BY <1>7 DEF WriteTimeout, OnLine, Sending
<1>8. CASE Flush
  BY <1>8 DEF Flush, OnLine, Sending
<1>9. CASE ReadChar
  BY <1>9 DEF ReadChar, OnLine, Sending
<1>10. CASE ReadTimeout
  BY <1>10 DEF ReadTimeout, OnLine, Sending
<1>11. CASE Count
  BY <1>11 DEF Count, OnLine, Sending
<1>12. CASE ShiftOut
  <2> SUFFICES ASSUME heard # ping PROVE OnLine'
    BY <1>12, ShiftPlaces DEF OnLine
  <2> DEFINE sent == n - Len(tx)
  <2>1. /\ Len(tx) <= n /\ sent <= Len(line)
        /\ \A k \in 1 .. sent : line[Len(line) - sent + k] = Char("host", ping, k)
    BY <1>12, ShiftPlaces DEF OnLine
  <2>2. tx[1] = Char("host", ping, sent + 1)
    BY <1>12, ShiftPlaces DEF Loaded
  <2>3. /\ n \in Nat /\ sent \in Nat /\ Len(line) \in Nat
        /\ n' - Len(tx') = sent + 1 /\ Len(tx') <= n'
        /\ Len(line') = Len(line) + 1
    BY <1>12, <2>1, ShiftPlaces DEF TypeInv, Scalars
  <2> HIDE DEF sent
  <2>4. ASSUME NEW k \in 1 .. sent + 1
        PROVE  line'[Len(line') - (sent + 1) + k] = Char("host", ping, k)
    <3>1. Len(line') - (sent + 1) + k = Len(line) - sent + k
      BY <2>3
    <3>2. CASE k = sent + 1
      <4>1. Len(line) - sent + k = Len(line) + 1
        BY <2>3, <3>2
      <4>2. QED
        BY <1>12, <2>2, <3>1, <3>2, <4>1, ShiftPlaces
    <3>3. CASE k \in 1 .. sent
      <4>1. Len(line) - sent + k \in 1 .. Len(line)
        BY <2>1, <2>3, <3>3
      <4>2. line'[Len(line) - sent + k] = line[Len(line) - sent + k]
        BY <1>12, <4>1, ShiftPlaces
      <4>3. QED
        BY <2>1, <3>1, <3>3, <4>2
    <3>4. QED
      BY <2>3, <3>2, <3>3
  <2>5. sent + 1 <= Len(line') /\ ping' = ping
    BY <1>12, <2>1, <2>3, ShiftPlaces
  <2>6. QED
    BY <2>3, <2>4, <2>5 DEF OnLine
<1>13. CASE Stick
  BY <1>13 DEF Stick, OnLine, motors
<1>14. CASE Hear
  BY <1>14 DEF Hear, OnLine
<1>15. CASE Arrive
  BY <1>15 DEF Arrive, Receive, request, outcome, OnLine
<1>16. CASE UNCHANGED vars
  BY <1>16 DEF vars, uart, motors, OnLine
<1>17. QED
  BY <1>1, <1>2, <1>3, <1>4, <1>5, <1>6, <1>7, <1>8,
     <1>9, <1>10, <1>11, <1>12, <1>13, <1>14, <1>15, <1>16
  DEF Next, Step

LEMMA CompleteNext ==
  ASSUME TypeInv, Direction, OnLine, CommandComplete, [Next]_vars
  PROVE  CommandComplete'
<1>1. ASSUME NEW i \in IdArg, NEW m \in ModeArg,
            Refuse(i, m) \/ InitFails(i, m)
      PROVE  CommandComplete'
  BY <1>1 DEF Refuse, InitFails, uart, motors, request, CommandComplete
<1>2. ASSUME NEW i \in IdArg, NEW m \in ModeArg, NEW c \in CountArg,
            Begin(i, m, c)
      PROVE  CommandComplete'
  BY <1>2 DEF Begin, CommandComplete
<1>3. CASE ClearRx
  BY <1>3 DEF ClearRx, CommandComplete
<1>4. CASE DriverOn
  BY <1>4 DEF DriverOn, CommandComplete
<1>5. CASE ReceiverOff
  BY <1>5 DEF ReceiverOff, CommandComplete
<1>6. CASE WriteChar
  BY <1>6 DEF WriteChar, CommandComplete
<1>7. CASE WriteTimeout
  BY <1>7 DEF WriteTimeout, CommandComplete
<1>8. CASE Flush
  <2>1. /\ UNCHANGED <<ping, line, heard>>
        /\ pc \in Sending /\ tx = <<>> /\ n = GO_MIN_TX_LEN
    BY <1>8 DEF Flush, TC, motors, Sending, TypeInv, Scalars
  <2>2. n - Len(tx) = GO_MIN_TX_LEN
    BY <2>1, EmptyIn, LengthAssumption
  <2>3. heard # ping => IsSuffix(Command(ping), line)
    <3>1. line \in Seq(Chars)
      BY DEF TypeInv, Shapes
    <3>2. heard # ping =>
            /\ GO_MIN_TX_LEN <= Len(line)
            /\ \A k \in 1 .. GO_MIN_TX_LEN :
                 line[Len(line) - GO_MIN_TX_LEN + k] = Char("host", ping, k)
      BY <2>1, <2>2 DEF OnLine
    <3>3. QED
      BY <3>1, <3>2, CommandOnLine
  <2>4. QED
    BY <2>1, <2>3 DEF CommandComplete
<1>9. CASE ReadChar
  BY <1>9 DEF ReadChar, CommandComplete, motors
<1>10. CASE ReadTimeout
  BY <1>10 DEF ReadTimeout, CommandComplete
<1>11. CASE Count
  BY <1>11 DEF Count, CommandComplete
<1>12. CASE ShiftOut
  BY <1>12, ShiftPlaces DEF CommandComplete, Sending
<1>13. CASE Stick
  BY <1>13 DEF Stick, CommandComplete, motors
<1>14. CASE Hear
  BY <1>14 DEF Hear, CommandComplete
<1>15. CASE Arrive
  BY <1>15 DEF Arrive, Receive, request, outcome, CommandComplete
<1>16. CASE UNCHANGED vars
  BY <1>16 DEF vars, motors, CommandComplete
<1>17. QED
  BY <1>1, <1>2, <1>3, <1>4, <1>5, <1>6, <1>7, <1>8,
     <1>9, <1>10, <1>11, <1>12, <1>13, <1>14, <1>15, <1>16
  DEF Next, Step

-----------------------------------------------------------------------------
(***************************************************************************)
(* A command is heard once.                                                *)
(***************************************************************************)
LEMMA LineFields ==
  ASSUME TypeInv, NEW i \in 1 .. Len(line)
  PROVE  line[i][2] \in Nat /\ line[i][3] \in Nat
<1>1. line[i] \in Chars
  BY ElementOfSeq DEF TypeInv, Shapes
<1>2. QED
  BY <1>1, FieldTypes

\* When the motors find a whole command it is new, and all of it is sent.
LEMMA HearsNew ==
  ASSUME TypeInv, Early, HeardOnce, IsSuffix(Command(ping), line)
  PROVE  /\ heard < ping
         /\ stuck \/ tx = <<>>
         /\ pc \notin Switching \cup {"write"}
<1> USE DEF TypeInv, Shapes, Scalars
<1>1. PICK i \in 1 .. Len(line) : line[i] = Char("host", ping, GO_MIN_TX_LEN)
  BY HeardPing
<1>2. line[i][2] = ping /\ line[i][3] = GO_MIN_TX_LEN
  BY <1>1, CharParts
<1>3. /\ pc \notin Switching /\ GO_MIN_TX_LEN <= n
      /\ ~stuck => GO_MIN_TX_LEN <= n - Len(tx)
  BY <1>2 DEF Early
<1>4. pc # "write"
  BY <1>3, LengthAssumption
<1>5. stuck \/ tx = <<>>
  <2>1. Len(tx) \in Nat /\ n \in 0 .. GO_MIN_TX_LEN /\ (tx # <<>> => Len(tx) > 0)
    BY LenNat
  <2>2. QED
    BY <1>3, <2>1, LengthAssumption
<1>6. heard # ping
  BY <1>1, EmptyIn DEF HeardOnce
<1>7. QED
  BY <1>3, <1>4, <1>5, <1>6

LEMMA EarlyNext ==
  ASSUME TypeInv, Direction, Loaded, Early, [Next]_vars
  PROVE  Early'
<1>1. ASSUME NEW i \in IdArg, NEW m \in ModeArg,
            Refuse(i, m) \/ InitFails(i, m)
      PROVE  Early'
  BY <1>1 DEF Refuse, InitFails, uart, motors, request, Early
<1>2. ASSUME NEW i \in IdArg, NEW m \in ModeArg, NEW c \in CountArg,
            Begin(i, m, c)
      PROVE  Early'
  BY <1>2 DEF Begin, Early, Switching, uart, motors
<1>3. CASE ClearRx
  <2>1. ASSUME NEW i \in 1 .. Len(line) PROVE line[i][2] < ping'
    BY <1>3, LineFields DEF ClearRx, Early, TypeInv, Scalars
  <2>2. line' = line /\ ping' \in Nat
    BY <1>3 DEF ClearRx, motors, TypeInv, Scalars
  <2>3. ASSUME NEW i \in 1 .. Len(line)
        PROVE  line[i][2] <= ping' /\ line[i][2] # ping'
    BY <2>1, <2>2, LineFields
  <2>4. QED
    BY <2>2, <2>3 DEF Early
<1>4. CASE DriverOn
  BY <1>4 DEF DriverOn, Early, Switching, motors
<1>5. CASE ReceiverOff
  BY <1>5 DEF ReceiverOff, Early, Switching, motors
<1>6. CASE WriteChar
  <2>1. /\ n \in Nat /\ n' = n + 1 /\ n' - Len(tx') = n - Len(tx)
        /\ line' = line /\ ping' = ping /\ pc' \notin Switching
        /\ stuck' = stuck
    BY <1>6, WritePlaces DEF WriteChar, Switching
  <2>2. ASSUME NEW i \in 1 .. Len(line), line[i][2] = ping
        PROVE  line[i][3] <= n'
    BY <2>1, <2>2, LineFields DEF Early
  <2>3. QED
    BY <2>1, <2>2 DEF Early
<1>7. CASE WriteTimeout
  BY <1>7 DEF WriteTimeout, Early, Switching, motors
<1>8. CASE Flush
  BY <1>8 DEF Flush, Early, Switching, motors
<1>9. CASE ReadChar
  BY <1>9 DEF ReadChar, Early, Switching, motors
<1>10. CASE ReadTimeout
  BY <1>10 DEF ReadTimeout, Early, Switching, motors, uart
<1>11. CASE Count
  BY <1>11 DEF Count, Early, Switching, uart, motors
<1>12. CASE ShiftOut
  <2> DEFINE sent == n - Len(tx)
  <2>1. /\ n \in Nat /\ sent \in Nat /\ sent + 1 <= n /\ Len(line) \in Nat
        /\ n' = n /\ n' - Len(tx') = sent + 1
        /\ Len(line') = Len(line) + 1 /\ ping' = ping /\ ping \in Nat
        /\ pc' \notin Switching
    BY <1>12, ShiftPlaces DEF Loaded, TypeInv, Scalars, Switching, Sending
  <2>2. line'[Len(line) + 1] = Char("host", ping, sent + 1)
    BY <1>12, ShiftPlaces DEF Loaded
  <2>3. /\ ~stuck /\ ~stuck'
        /\ \A i \in 1 .. Len(line) : line'[i] = line[i]
    BY <1>12, ShiftPlaces
  <2>4. ASSUME NEW i \in 1 .. Len(line)
        PROVE  line[i][2] <= ping /\ (line[i][2] = ping => line[i][3] <= sent)
    BY <2>3 DEF Early
  <2> HIDE DEF sent
  <2>5. ASSUME NEW i \in 1 .. Len(line')
        PROVE  /\ line'[i][2] <= ping
               /\ line'[i][2] = ping => line'[i][3] <= sent + 1
    <3>1. CASE i = Len(line) + 1
      BY <2>1, <2>2, <3>1, CharParts
    <3>2. CASE i \in 1 .. Len(line)
      BY <2>1, <2>3, <2>4, <3>2, LineFields
    <3>3. QED
      BY <2>1, <3>1, <3>2
  <2>6. ASSUME NEW i \in 1 .. Len(line'), line'[i][2] = ping
        PROVE  line'[i][3] <= n
    <3>1. CASE i = Len(line) + 1
      BY <2>1, <2>2, <3>1, CharParts
    <3>2. CASE i \in 1 .. Len(line)
      BY <2>1, <2>3, <2>4, <2>6, <3>2, LineFields
    <3>3. QED
      BY <2>1, <3>1, <3>2
  <2>7. QED
    BY <2>1, <2>5, <2>6 DEF Early
<1>13. CASE Stick
  BY <1>13 DEF Stick, motors, request, outcome, Early
<1>14. CASE Hear
  BY <1>14, EmptyIn DEF Hear, Early
<1>15. CASE Arrive
  BY <1>15 DEF Arrive, Receive, request, outcome, Early
<1>16. CASE UNCHANGED vars
  BY <1>16 DEF vars, uart, motors, request, outcome, Early
<1>17. QED
  BY <1>1, <1>2, <1>3, <1>4, <1>5, <1>6, <1>7, <1>8,
     <1>9, <1>10, <1>11, <1>12, <1>13, <1>14, <1>15, <1>16
  DEF Next, Step

LEMMA HeardOnceNext ==
  ASSUME TypeInv, Direction, Early, HeardOnce, [Next]_vars
  PROVE  HeardOnce'
<1>1. ASSUME NEW i \in IdArg, NEW m \in ModeArg,
            Refuse(i, m) \/ InitFails(i, m)
      PROVE  HeardOnce'
  BY <1>1 DEF Refuse, InitFails, uart, motors, request, HeardOnce
<1>2. ASSUME NEW i \in IdArg, NEW m \in ModeArg, NEW c \in CountArg,
            Begin(i, m, c)
      PROVE  HeardOnce'
  BY <1>2 DEF Begin, HeardOnce, Switching, motors, uart
<1>3. CASE ClearRx
  <2>1. heard' # ping'
    BY <1>3 DEF ClearRx, motors, TypeInv, Scalars
  <2>2. QED
    BY <2>1 DEF HeardOnce
<1>4. CASE DriverOn
  BY <1>4 DEF DriverOn, HeardOnce, Switching, motors
<1>5. CASE ReceiverOff
  BY <1>5 DEF ReceiverOff, HeardOnce, Switching, motors
<1>6. CASE WriteChar
  BY <1>6 DEF WriteChar, HeardOnce, Switching, motors
<1>7. CASE WriteTimeout
  BY <1>7 DEF WriteTimeout, HeardOnce, Switching, motors
<1>8. CASE Flush
  BY <1>8 DEF Flush, HeardOnce, Switching, motors
<1>9. CASE ReadChar
  BY <1>9 DEF ReadChar, HeardOnce, Switching, motors
<1>10. CASE ReadTimeout
  BY <1>10 DEF ReadTimeout, HeardOnce, Switching, motors, uart
<1>11. CASE Count
  BY <1>11 DEF Count, HeardOnce, Switching, motors, uart
<1>12. CASE ShiftOut
  <2>1. heard' # ping'
    BY <1>12, ShiftPlaces, EmptyIn DEF HeardOnce
  <2>2. QED
    BY <2>1 DEF HeardOnce
<1>13. CASE Stick
  BY <1>13 DEF Stick, motors, request, outcome, HeardOnce
<1>14. CASE Hear
  BY <1>14, HearsNew DEF Hear, HeardOnce, uart
<1>15. CASE Arrive
  BY <1>15 DEF Arrive, Receive, request, outcome, HeardOnce
<1>16. CASE UNCHANGED vars
  BY <1>16 DEF vars, uart, motors, request, outcome, HeardOnce
<1>17. QED
  BY <1>1, <1>2, <1>3, <1>4, <1>5, <1>6, <1>7, <1>8,
     <1>9, <1>10, <1>11, <1>12, <1>13, <1>14, <1>15, <1>16
  DEF Next, Step

-----------------------------------------------------------------------------
(***************************************************************************)
(* The order of sequences of answers.                                      *)
(***************************************************************************)
LEMMA OrderEmpty ==
  ASSUME NEW S, NEW s \in Seq(S)
  PROVE  /\ AllBefore(<<>>, s) /\ AllBefore(s, <<>>) /\ Ordered(<<>>)
         /\ Uncredited(<<>>)
BY EmptyIn DEF AllBefore, Ordered, Uncredited

LEMMA OrderConcat ==
  ASSUME NEW S, NEW s \in Seq(S), NEW t \in Seq(S), NEW u \in Seq(S)
  PROVE  /\ AllBefore(s, u) /\ AllBefore(t, u) => AllBefore(s \o t, u)
         /\ AllBefore(u, s) /\ AllBefore(u, t) => AllBefore(u, s \o t)
         /\ Ordered(s) /\ Ordered(t) /\ AllBefore(s, t) => Ordered(s \o t)
         /\ Uncredited(s) /\ Uncredited(t) => Uncredited(s \o t)
<1> DEFINE v == s \o t
<1>1. Len(s) \in Nat /\ Len(t) \in Nat
  BY LenNat
<1>2. /\ Len(v) = Len(s) + Len(t)
      /\ \A i \in 1 .. Len(v) :
           v[i] = IF i <= Len(s) THEN s[i] ELSE t[i - Len(s)]
  BY ConcatProperties
<1> HIDE DEF v
<1>3. \A i \in 1 .. Len(v) :
        \/ i \in 1 .. Len(s) /\ v[i] = s[i]
        \/ i > Len(s) /\ i - Len(s) \in 1 .. Len(t) /\ v[i] = t[i - Len(s)]
  BY <1>1, <1>2
<1>4. AllBefore(s, u) /\ AllBefore(t, u) => AllBefore(v, u)
  BY <1>3 DEF AllBefore
<1>5. AllBefore(u, s) /\ AllBefore(u, t) => AllBefore(u, v)
  BY <1>3 DEF AllBefore
<1>6. ASSUME Ordered(s), Ordered(t), AllBefore(s, t) PROVE Ordered(v)
  <2>1. ASSUME NEW i \in 1 .. Len(v), NEW j \in 1 .. Len(v), i < j
        PROVE  Before(v[i], v[j])
    <3>1. CASE j \in 1 .. Len(s) /\ v[j] = s[j]
      <4>1. i \in 1 .. Len(s) /\ v[i] = s[i]
        BY <1>1, <1>2, <2>1, <3>1
      <4>2. QED
        BY <1>6, <2>1, <3>1, <4>1 DEF Ordered
    <3>2. CASE j - Len(s) \in 1 .. Len(t) /\ v[j] = t[j - Len(s)]
      <4>1. CASE i \in 1 .. Len(s) /\ v[i] = s[i]
        BY <1>6, <3>2, <4>1 DEF AllBefore
      <4>2. CASE i - Len(s) \in 1 .. Len(t) /\ v[i] = t[i - Len(s)]
        <5>1. i - Len(s) < j - Len(s)
          BY <1>1, <2>1
        <5>2. QED
          BY <1>6, <3>2, <4>2, <5>1 DEF Ordered
      <4>3. QED
        BY <1>3, <4>1, <4>2
    <3>3. QED
      BY <1>3, <3>1, <3>2
  <2>2. QED
    BY <2>1 DEF Ordered
<1>7. Uncredited(s) /\ Uncredited(t) => Uncredited(v)
  BY <1>3 DEF Uncredited
<1>8. QED
  BY <1>4, <1>5, <1>6, <1>7 DEF v

LEMMA OrderTail ==
  ASSUME NEW S, NEW s \in Seq(S), s # <<>>, NEW u \in Seq(S)
  PROVE  /\ Ordered(s) => Ordered(Tail(s)) /\ AllBefore(<<Head(s)>>, Tail(s))
         /\ AllBefore(u, s) => AllBefore(u, Tail(s)) /\ AllBefore(u, <<Head(s)>>)
         /\ Uncredited(s) => Uncredited(Tail(s)) /\ Uncredited(<<Head(s)>>)
<1> DEFINE h == <<Head(s)>>
           t == Tail(s)
<1>1. /\ Len(s) \in Nat \ {0} /\ Len(t) = Len(s) - 1
      /\ \A i \in 1 .. Len(t) : t[i] = s[i + 1]
  BY TailPlaces
<1>2. Len(h) = 1 /\ h[1] = s[1]
  BY TailPlaces, OneIn
<1> HIDE DEF h, t
<1>3. \A i \in 1 .. Len(t) : i + 1 \in 1 .. Len(s) /\ 1 < i + 1 /\ t[i] = s[i + 1]
  BY <1>1
<1>4. 1 \in 1 .. Len(s) /\ \A i \in 1 .. Len(h) : i = 1
  BY <1>1, <1>2
<1>5. ASSUME Ordered(s) PROVE Ordered(t)
  <2>1. ASSUME NEW i \in 1 .. Len(t), NEW j \in 1 .. Len(t), i < j
        PROVE  Before(t[i], t[j])
    <3>1. i + 1 < j + 1
      BY <2>1
    <3>2. QED
      BY <1>3, <1>5, <3>1 DEF Ordered
  <2>2. QED
    BY <2>1 DEF Ordered
<1>6. Ordered(s) => AllBefore(h, t)
  BY <1>2, <1>3, <1>4 DEF Ordered, AllBefore
<1>7. AllBefore(u, s) => AllBefore(u, t) /\ AllBefore(u, h)
  BY <1>2, <1>3, <1>4 DEF AllBefore
<1>8. Uncredited(s) => Uncredited(t) /\ Uncredited(h)
  BY <1>2, <1>3, <1>4 DEF Uncredited
<1>9. QED
  BY <1>5, <1>6, <1>7, <1>8 DEF h, t

\* A character that is damaged keeps its place and counts for nothing.
LEMMA OrderDamaged ==
  ASSUME NEW S, NEW s \in Seq(S), NEW c, NEW w
  PROVE  /\ AllBefore(<<c>>, s) => AllBefore(<<Char(w, c[2], 0)>>, s)
         /\ AllBefore(s, <<c>>) => AllBefore(s, <<Char(w, c[2], 0)>>)
         /\ Uncredited(<<Char(w, c[2], 0)>>)
<1> DEFINE d == Char(w, c[2], 0)
           x == <<c>>
           y == <<d>>
<1>1. d[2] = c[2] /\ d[3] = 0
  BY CharParts
<1>2. /\ Len(x) = 1 /\ x[1] = c
      /\ Len(y) = 1 /\ y[1] = d
  BY OneIn
<1> HIDE DEF d, x, y
<1>3. (\A i \in 1 .. Len(x) : i = 1) /\ (\A i \in 1 .. Len(y) : i = 1)
      /\ 1 \in 1 .. Len(x)
  BY <1>2
<1>4. AllBefore(x, s) => AllBefore(y, s)
  BY <1>1, <1>2, <1>3 DEF AllBefore, Before
<1>5. AllBefore(s, x) => AllBefore(s, y)
  BY <1>1, <1>2, <1>3 DEF AllBefore, Before
<1>6. Uncredited(y)
  BY <1>1, <1>2, <1>3 DEF Uncredited
<1>7. QED
  BY <1>4, <1>5, <1>6 DEF d, x, y

\* The answer to a new command is in order and comes last.
LEMMA OrderAnswer ==
  ASSUME TypeInv, Uncounted, heard < ping, NEW s \in Seq(FromMotors)
  PROVE  Ordered(Answer(ping)) /\ AllBefore(s, Answer(ping)) /\ Uncredited(Answer(ping))
<1> DEFINE a == Answer(ping)
<1>1. /\ Len(a) = GO_MIN_RX_LEN
      /\ \A i \in 1 .. GO_MIN_RX_LEN : a[i][2] = ping /\ a[i][3] = i
  <2>1. /\ Len(a) = GO_MIN_RX_LEN
        /\ \A i \in 1 .. GO_MIN_RX_LEN : a[i] = Char("motor", ping, i)
    BY AnswerPlaces
  <2> HIDE DEF a
  <2>2. QED
    BY <2>1, CharParts
<1> HIDE DEF a
<1>2. Ordered(a)
  BY <1>1, LengthAssumption DEF Ordered, Before, TypeInv, Scalars
<1>3. ASSUME NEW i \in 1 .. Len(s) PROVE s[i][2] < ping
  <2>1. s[i] \in FromMotors
    BY ElementOfSeq
  <2>2. s[i][2] \in Nat /\ s[i][2] <= heard
    BY <2>1, FieldTypes DEF FromMotors
  <2>3. QED
    BY <2>2 DEF TypeInv, Scalars
<1>4. ASSUME NEW i \in 1 .. Len(s), NEW j \in 1 .. GO_MIN_RX_LEN
      PROVE  Before(s[i], a[j])
  <2>1. s[i] \in FromMotors
    BY ElementOfSeq
  <2>2. s[i][2] \in Nat
    BY <2>1, FieldTypes DEF FromMotors
  <2>3. s[i][2] <= ping /\ s[i][2] # ping
    BY <1>3, <2>2 DEF TypeInv, Scalars
  <2>4. QED
    BY <1>1, <2>3 DEF Before
<1>5. AllBefore(s, a)
  BY <1>1, <1>4 DEF AllBefore
<1>6. ASSUME NEW k \in 1 .. Len(credited) PROVE credited[k] < ping
  <2>1. credited[k] <= heard /\ credited[k] \in Nat
    <3>1. credited \in Seq(1 .. MaxPing)
      BY DEF TypeInv, Shapes
    <3>2. credited[k] \in 1 .. MaxPing
      BY <3>1, ElementOfSeq
    <3>3. QED
      BY <3>2 DEF Uncounted
  <2>2. QED
    BY <2>1 DEF TypeInv, Scalars
<1>7. Uncredited(a)
  BY <1>1, <1>6 DEF Uncredited
<1>8. QED
  BY <1>2, <1>5, <1>7 DEF a

\* The steps that leave the answers alone, or only empty the receiver.
LEMMA OrderKept ==
  ASSUME Answers, InOrder, UNCHANGED reply, rdr' = rdr \/ rdr' = <<>>,
         \/ pc' \notin Reading
         \/ rx' = <<>>
         \/ rx' = rx /\ pc \in Reading
  PROVE  InOrder'
<1>1. /\ Ordered(reply) /\ AllBefore(rdr', reply)
  BY OrderEmpty DEF InOrder, Answers
<1>2. CASE pc' \notin Reading
  BY <1>1, <1>2 DEF InOrder
<1>3. CASE rx' = <<>>
  <2>1. rdr' \in Seq(FromMotors)
    BY EmptyIn DEF Answers
  <2>2. Ordered(rx') /\ AllBefore(rx', rdr') /\ AllBefore(rx', reply)
    BY <1>3, <2>1, OrderEmpty DEF Answers
  <2>3. QED
    BY <1>1, <2>2 DEF InOrder
<1>4. CASE rx' = rx /\ pc \in Reading
  <2>1. AllBefore(rx, rdr')
    BY <1>4, OrderEmpty DEF InOrder, Answers
  <2>2. QED
    BY <1>1, <1>4, <2>1 DEF InOrder
<1>5. QED
  BY <1>2, <1>3, <1>4

LEMMA UncountedKept ==
  ASSUME Answers, Uncounted, UNCHANGED <<reply, credited, heard>>,
         rdr' = rdr \/ rdr' = <<>>,
         \/ pc' \notin Reading
         \/ rx' = <<>>
         \/ rx' = rx /\ pc \in Reading
  PROVE  Uncounted'
<1>1. \A s : Uncredited(s)' <=> Uncredited(s)
  BY DEF Uncredited
<1>2. Uncredited(<<>>)
  BY OrderEmpty DEF Answers
<1>3. QED
  BY <1>1, <1>2 DEF Uncounted

LEMMA InOrderNext ==
  ASSUME TypeInv, Direction, Answers, Early, HeardOnce, InOrder, Uncounted, [Next]_vars
  PROVE  InOrder'
<1>1. ASSUME NEW i \in IdArg, NEW m \in ModeArg,
            Refuse(i, m) \/ InitFails(i, m)
      PROVE  InOrder'
  BY <1>1, OrderKept DEF Refuse, InitFails, uart, motors, Reading
<1>2. ASSUME NEW i \in IdArg, NEW m \in ModeArg, NEW c \in CountArg,
            Begin(i, m, c)
      PROVE  InOrder'
  BY <1>2, OrderKept DEF Begin, uart, motors, Reading
<1>3. CASE ClearRx
  BY <1>3, OrderKept DEF ClearRx, uart, motors, outcome, Reading
<1>4. CASE DriverOn
  BY <1>4, OrderKept DEF DriverOn, uart, motors, outcome, Reading
<1>5. CASE ReceiverOff
  BY <1>5, OrderKept DEF ReceiverOff, uart, motors, outcome, Reading
<1>6. CASE WriteChar
  BY <1>6, OrderKept DEF WriteChar, uart, motors, outcome, Reading
<1>7. CASE WriteTimeout
  BY <1>7, OrderKept DEF WriteTimeout, uart, motors, outcome, Reading
<1>8. CASE Flush
  BY <1>8, OrderKept DEF Flush, uart, motors, outcome, Reading
<1>9. CASE ReadChar
  <2>1. /\ Ordered(rx) /\ AllBefore(rx, rdr) /\ AllBefore(rx, reply)
        /\ AllBefore(rdr, reply) /\ Ordered(reply)
    BY <1>9 DEF ReadChar, InOrder, Reading
  <2>2. Ordered(rdr)
    BY LenNat DEF Ordered, TypeInv, Shapes
  <2>3. Ordered(rx \o rdr) /\ AllBefore(rx \o rdr, reply)
    BY <2>1, <2>2, OrderConcat DEF Answers
  <2>4. rx' = rx \o rdr /\ rdr' = <<>> /\ UNCHANGED reply
    BY <1>9 DEF ReadChar, motors
  <2>5. rx \o rdr \in Seq(FromMotors)
    BY ConcatProperties DEF Answers
  <2>6. AllBefore(rx \o rdr, <<>>) /\ AllBefore(<<>>, reply)
    BY <2>5, OrderEmpty DEF Answers
  <2>7. QED
    BY <2>1, <2>3, <2>4, <2>6 DEF InOrder
<1>10. CASE ReadTimeout
  BY <1>10, OrderKept DEF ReadTimeout, uart, motors, outcome, Reading
<1>11. CASE Count
  BY <1>11, OrderKept DEF Count, uart, motors, Reading
<1>12. CASE ShiftOut
  <2>1. UNCHANGED <<rdr, reply, rx, pc, credited, heard>>
    BY <1>12 DEF ShiftOut, Receive, Direction, outcome
  <2>2. QED
    BY <2>1, OrderKept
<1>13. CASE Stick
  BY <1>13, OrderKept DEF Stick, motors, outcome
<1>14. CASE Hear
  <2>1. heard < ping
    BY <1>14, HearsNew DEF Hear
  <2>2. /\ Ordered(Answer(ping)) /\ AllBefore(reply, Answer(ping))
        /\ AllBefore(rdr, Answer(ping)) /\ AllBefore(rx, Answer(ping))
    BY <2>1, OrderAnswer DEF Answers
  <2>3. /\ Answer(ping) \in Seq(Chars) /\ reply \in Seq(Chars)
        /\ rdr \in Seq(Chars) /\ rx \in Seq(Chars)
    BY <2>1, AnswerIsChars DEF TypeInv, Shapes, Scalars
  <2>4. /\ Ordered(reply) => Ordered(reply \o Answer(ping))
        /\ AllBefore(rdr, reply) => AllBefore(rdr, reply \o Answer(ping))
        /\ AllBefore(rx, reply) => AllBefore(rx, reply \o Answer(ping))
    BY <2>2, <2>3, OrderConcat
  <2>5. /\ reply' = reply \/ reply' = reply \o Answer(ping)
        /\ UNCHANGED <<rdr, rx, pc>>
    BY <1>14 DEF Hear, uart
  <2>6. QED
    BY <2>4, <2>5 DEF InOrder
<1>15. CASE Arrive
  <2> DEFINE damaged == <<Char("motor", Head(reply)[2], 0)>>
  <2>1. /\ reply # <<>> /\ reply' = Tail(reply) /\ UNCHANGED <<pc, rx>>
        /\ rdr' \in {rdr, <<Head(reply)>>, damaged}
    BY <1>15 DEF Arrive, Receive
  <2>2. reply \in Seq(FromMotors) /\ rdr \in Seq(FromMotors)
        /\ rx \in Seq(FromMotors) /\ Tail(reply) \in Seq(FromMotors)
    BY <2>1, TailPlaces DEF Answers
  <2>3. /\ Ordered(Tail(reply)) /\ AllBefore(rdr, Tail(reply))
        /\ AllBefore(<<Head(reply)>>, Tail(reply))
    BY <2>1, <2>2, OrderTail DEF InOrder
  <2>4. AllBefore(damaged, Tail(reply))
    BY <2>2, <2>3, OrderDamaged
  <2>5. ASSUME pc \in Reading
        PROVE  /\ AllBefore(rx, Tail(reply)) /\ AllBefore(rx, rdr)
               /\ AllBefore(rx, <<Head(reply)>>) /\ AllBefore(rx, damaged)
    <3>1. /\ AllBefore(rx, Tail(reply)) /\ AllBefore(rx, <<Head(reply)>>)
      BY <2>1, <2>2, <2>5, OrderTail DEF InOrder
    <3>2. QED
      BY <2>2, <2>5, <3>1, OrderDamaged DEF InOrder
  <2> HIDE DEF damaged
  <2>6. Ordered(reply') /\ AllBefore(rdr', reply')
    BY <2>1, <2>3, <2>4
  <2>7. ASSUME pc \in Reading
        PROVE  Ordered(rx) /\ AllBefore(rx, rdr') /\ AllBefore(rx, reply')
    BY <2>1, <2>5, <2>7 DEF InOrder
  <2>8. QED
    BY <2>1, <2>6, <2>7 DEF InOrder
<1>16. CASE UNCHANGED vars
  BY <1>16, OrderKept DEF vars, uart, motors, outcome
<1>17. QED
  BY <1>1, <1>2, <1>3, <1>4, <1>5, <1>6, <1>7, <1>8,
     <1>9, <1>10, <1>11, <1>12, <1>13, <1>14, <1>15, <1>16
  DEF Next, Step

(***************************************************************************)
(* What is counted as ok is an answer that no earlier verdict counted, and *)
(* nothing intact of it is left.                                           *)
(***************************************************************************)
LEMMA CountedLast ==
  ASSUME TypeInv, Answers, InOrder, Uncounted, pc = "verdict", VerdictOf = "ok"
  PROVE  \E p \in 1 .. MaxPing :
           /\ rx[1][2] = p
           /\ p <= heard
           /\ \A k \in 1 .. Len(credited) : credited[k] < p
           /\ \A i \in 1 .. Len(reply) : reply[i][3] # 0 => p < reply[i][2]
           /\ \A i \in 1 .. Len(rdr) : rdr[i][3] # 0 => p < rdr[i][2]
<1> DEFINE last == GO_MIN_RX_LEN
<1>1. PICK p \in 1 .. MaxPing : rx = Answer(p)
  BY VerdictCases DEF FeedbackValid
<1>2. Len(rx) = last /\ \A i \in 1 .. last : rx[i] = Char("motor", p, i)
  BY <1>1, AnswerPlaces
<1>3. /\ 1 \in 1 .. Len(rx) /\ last \in 1 .. Len(rx) /\ last \in Nat \ {0}
      /\ rx[1][2] = p /\ rx[1][3] = 1
      /\ rx[last][2] = p /\ rx[last][3] = last
  BY <1>2, CharParts, LengthAssumption
<1>4. p <= heard
  <2>1. rx[1] \in FromMotors
    BY <1>3, ElementOfSeq DEF Answers
  <2>2. QED
    BY <1>3, <2>1 DEF FromMotors
<1>5. \A k \in 1 .. Len(credited) : credited[k] < p
  BY <1>3 DEF Uncounted, Uncredited, Reading
<1>6. \A c \in FromMotors : Before(rx[last], c) /\ c[3] # 0 => p < c[2]
  <2>1. ASSUME NEW c \in FromMotors, Before(rx[last], c), c[3] # 0
        PROVE  p < c[2]
    <3>1. c[2] \in Nat /\ c[3] \in 0 .. last
      BY FieldTypes DEF FromMotors
    <3>2. p <= c[2] /\ (p = c[2] => last < c[3])
      BY <1>3, <2>1 DEF Before
    <3>3. QED
      BY <1>3, <3>1, <3>2
  <2>2. QED
    BY <2>1
<1>7. ASSUME NEW i \in 1 .. Len(reply), reply[i][3] # 0 PROVE p < reply[i][2]
  <2>1. reply[i] \in FromMotors
    BY ElementOfSeq DEF Answers
  <2>2. Before(rx[last], reply[i])
    BY <1>3 DEF InOrder, AllBefore, Reading
  <2>3. QED
    BY <1>6, <1>7, <2>1, <2>2
<1>8. ASSUME NEW i \in 1 .. Len(rdr), rdr[i][3] # 0 PROVE p < rdr[i][2]
  <2>1. rdr[i] \in FromMotors
    BY ElementOfSeq DEF Answers
  <2>2. Before(rx[last], rdr[i])
    BY <1>3 DEF InOrder, AllBefore, Reading
  <2>3. QED
    BY <1>6, <1>8, <2>1, <2>2
<1>9. QED
  BY <1>3, <1>4, <1>5, <1>7, <1>8

LEMMA UncountedNext ==
  ASSUME TypeInv, Direction, Answers, Early, HeardOnce, InOrder, Uncounted, [Next]_vars
  PROVE  Uncounted'
<1>1. ASSUME NEW i \in IdArg, NEW m \in ModeArg,
            Refuse(i, m) \/ InitFails(i, m)
      PROVE  Uncounted'
  BY <1>1, UncountedKept DEF Refuse, InitFails, uart, motors, Reading
<1>2. ASSUME NEW i \in IdArg, NEW m \in ModeArg, NEW c \in CountArg,
            Begin(i, m, c)
      PROVE  Uncounted'
  BY <1>2, UncountedKept DEF Begin, uart, motors, Reading
<1>3. CASE ClearRx
  BY <1>3, UncountedKept DEF ClearRx, uart, motors, outcome, Reading
<1>4. CASE DriverOn
  BY <1>4, UncountedKept DEF DriverOn, uart, motors, outcome, Reading
<1>5. CASE ReceiverOff
  BY <1>5, UncountedKept DEF ReceiverOff, uart, motors, outcome, Reading
<1>6. CASE WriteChar
  BY <1>6, UncountedKept DEF WriteChar, uart, motors, outcome, Reading
<1>7. CASE WriteTimeout
  BY <1>7, UncountedKept DEF WriteTimeout, uart, motors, outcome, Reading
<1>8. CASE Flush
  BY <1>8, UncountedKept DEF Flush, uart, motors, outcome, Reading
<1>9. CASE ReadChar
  <2>1. Uncredited(rx) /\ Uncredited(rdr) /\ Uncredited(reply)
    BY <1>9 DEF ReadChar, Uncounted, Reading
  <2>2. Uncredited(rx \o rdr) /\ Uncredited(<<>>)
    BY <2>1, OrderConcat, OrderEmpty DEF Answers
  <2>3. /\ rx' = rx \o rdr /\ rdr' = <<>>
        /\ UNCHANGED <<reply, credited, heard>>
    BY <1>9 DEF ReadChar, motors, outcome
  <2>4. \A s : Uncredited(s)' <=> Uncredited(s)
    BY <2>3 DEF Uncredited
  <2>5. QED
    BY <2>1, <2>2, <2>3, <2>4 DEF Uncounted
<1>10. CASE ReadTimeout
  BY <1>10, UncountedKept DEF ReadTimeout, uart, motors, outcome, Reading
<1>11. CASE Count
  <2>1. /\ pc = "verdict" /\ pc' \notin Reading /\ UNCHANGED <<rdr, reply, heard>>
        /\ credited' = IF VerdictOf = "ok" THEN Append(credited, rx[1][2])
                                          ELSE credited
    BY <1>11 DEF Count, uart, motors, Reading
  <2>2. CASE VerdictOf # "ok"
    BY <2>1, <2>2, UncountedKept
  <2>3. CASE VerdictOf = "ok"
    <3>1. PICK p \in 1 .. MaxPing :
            /\ rx[1][2] = p
            /\ p <= heard
            /\ \A i \in 1 .. Len(reply) : reply[i][3] # 0 => p < reply[i][2]
            /\ \A i \in 1 .. Len(rdr) : rdr[i][3] # 0 => p < rdr[i][2]
      BY <2>1, <2>3, CountedLast
    <3>2. /\ Len(credited') = Len(credited) + 1 /\ Len(credited) \in Nat
          /\ \A k \in 1 .. Len(credited) : credited'[k] = credited[k]
          /\ credited'[Len(credited) + 1] = p
      BY <2>1, <2>3, <3>1, AppendProperties, LenNat DEF TypeInv, Shapes
    <3>3. \A k \in 1 .. Len(credited') :
            \/ credited'[k] = p
            \/ k \in 1 .. Len(credited) /\ credited'[k] = credited[k]
      BY <3>2
    <3>4. Uncredited(reply)'
      BY <2>1, <3>1, <3>3 DEF Uncredited, Uncounted
    <3>5. Uncredited(rdr)'
      BY <2>1, <3>1, <3>3 DEF Uncredited, Uncounted
    <3>6. \A k \in 1 .. Len(credited') : credited'[k] <= heard
      BY <3>1, <3>3 DEF Uncounted
    <3>7. QED
      BY <2>1, <3>4, <3>5, <3>6 DEF Uncounted
  <2>4. QED
    BY <2>2, <2>3
<1>12. CASE ShiftOut
  <2>1. UNCHANGED <<rdr, reply, rx, pc, credited, heard>>
    BY <1>12 DEF ShiftOut, Receive, Direction, outcome
  <2>2. QED
    BY <2>1, UncountedKept
<1>13. CASE Stick
  BY <1>13, UncountedKept DEF Stick, motors, outcome
<1>14. CASE Hear
  <2>1. heard < ping
    BY <1>14, HearsNew DEF Hear
  <2>2. Uncredited(Answer(ping))
    BY <2>1, OrderAnswer DEF Answers
  <2>3. Answer(ping) \in Seq(Chars) /\ reply \in Seq(Chars)
    BY <2>1, AnswerIsChars DEF TypeInv, Shapes, Scalars
  <2>4. Uncredited(reply \o Answer(ping))
    BY <2>2, <2>3, OrderConcat DEF Uncounted
  <2>5. /\ reply' = reply \/ reply' = reply \o Answer(ping)
        /\ UNCHANGED <<rdr, rx, pc, credited>> /\ heard' = ping
    BY <1>14 DEF Hear, uart, outcome
  <2>6. \A s : Uncredited(s)' <=> Uncredited(s)
    BY <2>5 DEF Uncredited
  <2>7. ASSUME NEW k \in 1 .. Len(credited) PROVE credited[k] <= ping
    <3>1. credited[k] \in 1 .. MaxPing /\ credited[k] <= heard
      BY ElementOfSeq DEF Uncounted, TypeInv, Shapes
    <3>2. QED
      BY <2>1, <3>1 DEF TypeInv, Scalars
  <2>8. QED
    BY <2>4, <2>5, <2>6, <2>7 DEF Uncounted
<1>15. CASE Arrive
  <2> DEFINE damaged == <<Char("motor", Head(reply)[2], 0)>>
  <2>1. /\ reply # <<>> /\ reply' = Tail(reply)
        /\ UNCHANGED <<pc, rx, credited, heard>>
        /\ rdr' \in {rdr, <<Head(reply)>>, damaged}
    BY <1>15 DEF Arrive, Receive, outcome
  <2>2. Uncredited(Tail(reply)) /\ Uncredited(<<Head(reply)>>)
    BY <2>1, OrderTail DEF Answers, Uncounted
  <2>3. Uncredited(damaged)
    BY OrderDamaged DEF Answers
  <2>4. \A s : Uncredited(s)' <=> Uncredited(s)
    BY <2>1 DEF Uncredited
  <2> HIDE DEF damaged
  <2>5. QED
    BY <2>1, <2>2, <2>3, <2>4 DEF Uncounted
<1>16. CASE UNCHANGED vars
  BY <1>16, UncountedKept DEF vars, uart, motors, outcome
<1>17. QED
  BY <1>1, <1>2, <1>3, <1>4, <1>5, <1>6, <1>7, <1>8,
     <1>9, <1>10, <1>11, <1>12, <1>13, <1>14, <1>15, <1>16
  DEF Next, Step

LEMMA EachOkNext ==
  ASSUME TypeInv, Answers, InOrder, Uncounted, EachOkAnotherAnswer, [Next]_vars
  PROVE  EachOkAnotherAnswer'
<1>1. CASE Count /\ VerdictOf = "ok"
  <2>1. credited' = Append(credited, rx[1][2]) /\ pc = "verdict"
    BY <1>1 DEF Count
  <2>2. PICK p \in 1 .. MaxPing :
          rx[1][2] = p /\ \A k \in 1 .. Len(credited) : credited[k] < p
    BY <1>1, <2>1, CountedLast
  <2>3. /\ Len(credited') = Len(credited) + 1 /\ Len(credited) \in Nat
        /\ \A k \in 1 .. Len(credited) : credited'[k] = credited[k]
        /\ credited'[Len(credited) + 1] = p
    BY <2>1, <2>2, AppendProperties, LenNat DEF TypeInv, Shapes
  <2>4. ASSUME NEW i \in 1 .. Len(credited'), NEW j \in 1 .. Len(credited'), i < j
        PROVE  credited'[i] < credited'[j]
    <3>1. i \in 1 .. Len(credited)
      BY <2>3, <2>4
    <3>2. CASE j = Len(credited) + 1
      BY <2>2, <2>3, <3>1, <3>2
    <3>3. CASE j \in 1 .. Len(credited)
      BY <2>3, <2>4, <3>1, <3>3 DEF EachOkAnotherAnswer
    <3>4. QED
      BY <2>3, <3>2, <3>3
  <2>5. QED
    BY <2>4 DEF EachOkAnotherAnswer
<1>2. CASE ~(Count /\ VerdictOf = "ok")
  <2>1. UNCHANGED credited
    BY <1>2 DEF Next, Step, Refuse, InitFails, Begin, ClearRx, DriverOn, ReceiverOff,
       WriteChar, WriteTimeout, Flush, ReadChar, ReadTimeout, Count, ShiftOut, Stick,
       Hear, Arrive, outcome, vars
  <2>2. QED
    BY <2>1 DEF EachOkAnotherAnswer
<1>3. QED
  BY <1>1, <1>2

-----------------------------------------------------------------------------
(***************************************************************************)
(* The inductive invariant.                                                *)
(***************************************************************************)
LEMMA PingInit == Init => PingInv
<1> SUFFICES ASSUME Init PROVE PingInv
  OBVIOUS
<1>1. /\ \A S : tx \in Seq(S) /\ rdr \in Seq(S) /\ line \in Seq(S)
                /\ reply \in Seq(S) /\ rx \in Seq(S) /\ credited \in Seq(S)
      /\ Len(tx) = 0 /\ Len(rdr) = 0 /\ Len(line) = 0 /\ Len(reply) = 0
      /\ Len(rx) = 0 /\ Len(credited) = 0
  BY EmptyIn DEF Init
<1>2. Shapes
  BY <1>1, LengthAssumption DEF Init, Shapes
<1>3. Scalars
  <2>1. /\ ping \in 0 .. MaxPing /\ heard \in 0 .. ping
        /\ count \in 1 .. GO_MIN_PING_MAX_COUNT /\ id \in 0 .. 15
    BY CountAssumption DEF Init
  <2>2. n \in 0 .. GO_MIN_TX_LEN
    BY LengthAssumption DEF Init
  <2>3. QED
    BY <2>1, <2>2 DEF Init, Scalars
<1>4. Budget
  <2>1. tally \in [Verdict -> Nat] /\ Done = 0
    BY DEF Init, Done, Verdict
  <2>2. pc = "idle" /\ count = 1
    BY DEF Init
  <2>3. QED
    BY <2>1, <2>2 DEF Budget
<1>5. Direction /\ Answers
  BY <1>1 DEF Init, Direction, Answers, Sending
<1>6. Loaded /\ OnLine /\ CommandComplete
  BY <1>1 DEF Init, Loaded, OnLine, CommandComplete, Sending
<1>7. Early /\ HeardOnce
  BY <1>1 DEF Init, Early, HeardOnce, Switching
<1>8. InOrder
  BY <1>1 DEF Init, InOrder, Ordered, AllBefore, Reading
<1>9. Uncounted /\ EachOkAnotherAnswer
  BY <1>1 DEF Init, Uncounted, Uncredited, EachOkAnotherAnswer, Reading
<1>10. QED
  BY <1>2, <1>3, <1>4, <1>5, <1>6, <1>7, <1>8, <1>9 DEF PingInv, TypeInv

LEMMA PingNext == PingInv /\ [Next]_vars => PingInv'
BY ScalarsNext, BudgetNext, ShapesNext, DirectionNext, AnswersNext, LoadedNext,
   OnLineNext, CompleteNext, EarlyNext, HeardOnceNext, InOrderNext, UncountedNext,
   EachOkNext
DEF PingInv, TypeInv

LEMMA PingInvariant == Spec => []PingInv
BY PingInit, PingNext, PTL DEF Spec

-----------------------------------------------------------------------------
(***************************************************************************)
(* Every counter, buffer and register of the ping command stays in its     *)
(* range: the answer never outgrows its buffer, and a command never counts *)
(* more verdicts than pings.                                               *)
(***************************************************************************)
THEOREM TypeCorrect == Spec => []TypeOK
<1>1. PingInv => TypeOK
  <2> SUFFICES ASSUME PingInv PROVE TypeOK
    OBVIOUS
  <2>1. \A s \in Seq(Chars) : Range(s) \subseteq Chars
    BY RangeOfSeq
  <2>2. tally \in [Verdict -> 0 .. count]
    <3>1. /\ tally \in [Verdict -> Nat] /\ Done <= count /\ count \in Nat
      BY DEF PingInv, TypeInv, Budget, Scalars
    <3>2. ASSUME NEW v \in Verdict PROVE tally[v] \in 0 .. count
      BY <3>1 DEF Verdict, Done
    <3>3. QED
      BY <3>1, <3>2
  <2>3. QED
    BY <2>1, <2>2
    DEF PingInv, TypeInv, Shapes, Scalars, TypeOK, Switching, Sending
<1>2. QED
  BY <1>1, PingInvariant, PTL

(***************************************************************************)
(* When the host begins to listen no character of the command has been cut *)
(* off, although it waits for the transmitter and not for the line, and    *)
(* wherever the transmitter may stop for good.                             *)
(***************************************************************************)
THEOREM CommandsComplete == Spec => []CommandComplete
<1>1. PingInv => CommandComplete
  BY DEF PingInv
<1>2. QED
  BY <1>1, PingInvariant, PTL

(***************************************************************************)
(* Late, lost and damaged answers never make an answer count twice: every  *)
(* ok stands for an answer to a later command than the one before.         *)
(***************************************************************************)
THEOREM OksAreAnswers == Spec => []EachOkAnotherAnswer
<1>1. PingInv => EachOkAnotherAnswer
  BY DEF PingInv
<1>2. QED
  BY <1>1, PingInvariant, PTL

(***************************************************************************)
(* The host never receives a character that it has sent, and so never      *)
(* takes the header of its own command for that of an answer.              *)
(***************************************************************************)
THEOREM HearsOnlyMotors == Spec => []NeverHearsItself
<1>1. PingInv => NeverHearsItself
  <2> SUFFICES ASSUME PingInv PROVE NeverHearsItself
    OBVIOUS
  <2>1. Range(rdr) \subseteq FromMotors /\ Range(rx) \subseteq FromMotors
    BY RangeOfSeq DEF PingInv, Answers
  <2>2. QED
    BY <2>1 DEF NeverHearsItself, FromMotors
<1>2. QED
  BY <1>1, PingInvariant, PTL
=============================================================================
