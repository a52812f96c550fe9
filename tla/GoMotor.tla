------------------------------- MODULE GoMotor ------------------------------
(***************************************************************************)
(* The ping command of the GO motors (go_motor_min.c): a shell command     *)
(* that polls the registers of USART2 and switches the RS485 transceiver,  *)
(* with the transmitter, the line and a motor running beside it. Time is   *)
(* abstract: the wait for an answer may end at any moment, and a motor      *)
(* answers when it likes, if at all. A transmitter that works is always in *)
(* time (10000 polls against 2.5 us a character), so writing is given up   *)
(* only when it is stuck.                                                  *)
(***************************************************************************)
EXTENDS Integers, SequencesExt

CONSTANTS
  GO_MIN_TX_LEN, GO_MIN_RX_LEN,   \* characters of a command and of an answer
  GO_MIN_PING_MAX_COUNT,
  IdArg, ModeArg, CountArg,       \* the numbers a user types
  Motor,                          \* the identifiers of the motors on the line
  MaxPing                         \* bound on the pings of a behaviour

ASSUME LengthAssumption == GO_MIN_TX_LEN \in Nat \ {0} /\ GO_MIN_RX_LEN \in Nat \ {0}
ASSUME CountAssumption == GO_MIN_PING_MAX_COUNT \in Nat \ {0} /\ MaxPing \in Nat
ASSUME ArgAssumption == IdArg \cup ModeArg \cup CountArg \subseteq Int

VARIABLES
  go_min_uart_ready,
  de, re,       \* the direction pins: drive the line, stop listening
  tx,           \* characters in the transmitter: data and shift register
  stuck,        \* the transmitter stopped for good
  rdr,          \* the receive data register, as a sequence
  line,         \* what the motors heard since the last whole command
  heard,        \* the number of the last command they heard whole
  reply,        \* characters of answers still to come
  pc,           \* where the command is, "idle" if none runs
  id, count,    \* what the command makes of its arguments
  ping,         \* number of the ping, counted over all commands
  n,            \* characters of the command written
  rx,           \* the answer read so far
  tally,        \* ok_count, len_err_count, header_err_count, crc_err_count
  credited,     \* the commands whose answers were counted as ok
  result        \* what the last command returned

uart == <<de, re, tx, stuck, rdr>>
motors == <<line, heard, reply>>
request == <<go_min_uart_ready, id, count>>
outcome == <<tally, credited, result>>
vars == <<uart, motors, request, outcome, pc, ping, n, rx>>

Verdict == {"ok", "len_err", "header_err", "crc_err"}

\* A character: who sent it, in which ping, at which place (0 if corrupted).
Char(who, p, k) == <<who, p, k>>
Frame(who, p, len) == [k \in 1 .. len |-> Char(who, p, k)]
Command(p) == Frame("host", p, GO_MIN_TX_LEN)
Answer(p) == Frame("motor", p, GO_MIN_RX_LEN)

Chars == {"host"} \X (1 .. MaxPing) \X (1 .. GO_MIN_TX_LEN)
           \cup {"motor"} \X (1 .. MaxPing) \X (0 .. GO_MIN_RX_LEN)

TypeOK ==
  /\ go_min_uart_ready \in BOOLEAN
  /\ de \in BOOLEAN /\ re \in BOOLEAN
  /\ Range(tx) \subseteq Chars /\ Len(tx) <= 2
  /\ stuck \in BOOLEAN
  /\ Range(rdr) \subseteq Chars /\ Len(rdr) <= 1
  /\ Range(line) \subseteq Chars /\ heard \in 0 .. ping
  /\ Range(reply) \subseteq Chars
  /\ pc \in {"idle", "clear", "driver_on", "receiver_off", "write", "flush", "read",
             "verdict"}
  /\ id \in 0 .. 15 /\ count \in 1 .. GO_MIN_PING_MAX_COUNT
  /\ ping \in 0 .. MaxPing
  /\ n \in 0 .. GO_MIN_TX_LEN
  /\ Range(rx) \subseteq Chars /\ Len(rx) <= GO_MIN_RX_LEN
  /\ tally \in [Verdict -> 0 .. count]
  /\ result \in {"none", "RT_EOK", "-RT_ERROR"}

Init ==
  /\ go_min_uart_ready = FALSE
  /\ de = FALSE /\ re = FALSE
  /\ tx = <<>> /\ stuck = FALSE /\ rdr = <<>>
  /\ line = <<>> /\ heard = 0 /\ reply = <<>>
  /\ pc = "idle" /\ id = 1 /\ count = 1
  /\ ping = 0 /\ n = 0 /\ rx = <<>>
  /\ tally = [v \in Verdict |-> 0]
  /\ credited = <<>> /\ result = "none"

-----------------------------------------------------------------------------
(***************************************************************************)
(* Arguments, and the start of a command.                                  *)
(***************************************************************************)
UInt8(v) == v % 256

ClampAtMost(c) == IF c > GO_MIN_PING_MAX_COUNT    \* mutation of Clamp
                  THEN GO_MIN_PING_MAX_COUNT ELSE c

Clamp(c) == IF c < 1 THEN 1
            ELSE IF c > GO_MIN_PING_MAX_COUNT THEN GO_MIN_PING_MAX_COUNT ELSE c

Refused(i, m) == UInt8(i) > 15 \/ UInt8(m) > 7

Refuse(i, m) ==
  /\ pc = "idle" /\ Refused(i, m)
  /\ result' = "-RT_ERROR"
  /\ UNCHANGED <<uart, motors, request, tally, credited, pc, ping, n, rx>>

\* go_min_uart_init finds no device, or cannot configure or open it.
InitFails(i, m) ==
  /\ pc = "idle" /\ ~Refused(i, m) /\ ~go_min_uart_ready
  /\ result' = "-RT_ERROR"
  /\ UNCHANGED <<uart, motors, request, tally, credited, pc, ping, n, rx>>

Begin(i, m, c) ==
  /\ pc = "idle" /\ ~Refused(i, m)
  /\ ping + Clamp(c) <= MaxPing
  /\ go_min_uart_ready' = TRUE
  /\ IF go_min_uart_ready THEN UNCHANGED uart
     ELSE de' = FALSE /\ re' = FALSE /\ rdr' = <<>> /\ UNCHANGED <<tx, stuck>>
  /\ id' = UInt8(i) /\ count' = Clamp(c)
  /\ tally' = [v \in Verdict |-> 0]
  /\ pc' = "clear"
  /\ UNCHANGED <<motors, credited, result, ping, n, rx>>

-----------------------------------------------------------------------------
(***************************************************************************)
(* One ping: go_min_send_recv_frame. A character may still come in between *)
(* clearing the receiver and turning it off.                               *)
(***************************************************************************)
ClearRx ==
  /\ pc = "clear"
  /\ ping' = ping + 1
  /\ rdr' = <<>>
  /\ pc' = "driver_on"
  /\ UNCHANGED <<de, re, tx, stuck, motors, request, outcome, n, rx>>

DriverOn ==
  /\ pc = "driver_on"
  /\ de' = TRUE
  /\ pc' = "receiver_off"
  /\ UNCHANGED <<re, tx, stuck, rdr, motors, request, outcome, ping, n, rx>>

ReceiverStaysOn ==    \* mutation of ReceiverOff: only the driver is switched
  /\ pc = "receiver_off"
  /\ n' = 0 /\ pc' = "write"
  /\ UNCHANGED <<uart, motors, request, outcome, ping, rx>>

ReceiverOff ==
  /\ pc = "receiver_off"
  /\ re' = TRUE
  /\ n' = 0
  /\ pc' = "write"
  /\ UNCHANGED <<de, tx, stuck, rdr, motors, request, outcome, ping, rx>>

TXE == Len(tx) < 2
TC == tx = <<>>

WriteChar ==
  /\ pc = "write" /\ TXE
  /\ tx' = Append(tx, Command(ping)[n + 1])
  /\ n' = n + 1
  /\ pc' = IF n' = GO_MIN_TX_LEN THEN "flush" ELSE "write"
  /\ UNCHANGED <<de, re, stuck, rdr, motors, request, outcome, ping, rx>>

RxMode == de' = FALSE /\ re' = FALSE

GivesUp == \/ pc = "write" /\ ~TXE
           \/ pc = "flush" /\ ~TC

WriteTimeoutKeepsLine ==    \* mutation of WriteTimeout: returns at once
  /\ stuck /\ GivesUp
  /\ rx' = <<>>
  /\ pc' = "verdict"
  /\ UNCHANGED <<uart, motors, request, outcome, ping, n>>

\* raw_write returns -1 or -2, which go_ping_min counts as a wrong length.
WriteTimeout ==
  /\ stuck /\ GivesUp
  /\ RxMode
  /\ rx' = <<>>
  /\ pc' = "verdict"
  /\ UNCHANGED <<tx, stuck, rdr, motors, request, outcome, ping, n>>

FlushEarly ==    \* mutation of Flush: waits for TXE, not for TC
  /\ pc = "flush" /\ TXE
  /\ RxMode /\ rx' = <<>> /\ pc' = "read"
  /\ UNCHANGED <<tx, stuck, rdr, motors, request, outcome, ping, n>>

FlushKeepsAnswer ==    \* mutation of Flush: the length read is not reset
  /\ pc = "flush" /\ TC
  /\ RxMode /\ UNCHANGED rx
  /\ pc' = IF Len(rx) = GO_MIN_RX_LEN THEN "verdict" ELSE "read"
  /\ UNCHANGED <<tx, stuck, rdr, motors, request, outcome, ping, n>>

Flush ==
  /\ pc = "flush" /\ TC
  /\ RxMode
  /\ rx' = <<>>
  /\ pc' = "read"
  /\ UNCHANGED <<tx, stuck, rdr, motors, request, outcome, ping, n>>

ReadChar ==
  /\ pc = "read" /\ rdr # <<>>
  /\ rx' = rx \o rdr
  /\ rdr' = <<>>
  /\ pc' = IF Len(rx') = GO_MIN_RX_LEN THEN "verdict" ELSE "read"
  /\ UNCHANGED <<de, re, tx, stuck, motors, request, outcome, ping, n>>

ReadTimeout ==
  /\ pc = "read"
  /\ pc' = "verdict"
  /\ UNCHANGED <<uart, motors, request, outcome, ping, n, rx>>

-----------------------------------------------------------------------------
(***************************************************************************)
(* The verdict. The two header characters are one here, the same in        *)
(* commands and answers; the CRC tells a whole answer from all else.       *)
(***************************************************************************)
HeaderValid == rx[1][3] = 1

FeedbackValid == \E p \in 1 .. MaxPing : rx = Answer(p)

VerdictOf ==
  CASE Len(rx) # GO_MIN_RX_LEN -> "len_err"
    [] Len(rx) = GO_MIN_RX_LEN /\ ~HeaderValid -> "header_err"
    [] Len(rx) = GO_MIN_RX_LEN /\ HeaderValid /\ ~FeedbackValid -> "crc_err"
    [] Len(rx) = GO_MIN_RX_LEN /\ HeaderValid /\ FeedbackValid -> "ok"

Done == tally["ok"] + tally["len_err"] + tally["header_err"] + tally["crc_err"]

\* Count the verdict; the next ping, or the end of the command.
Count ==
  /\ pc = "verdict"
  /\ tally' = [tally EXCEPT ![VerdictOf] = @ + 1]
  /\ credited' = IF VerdictOf = "ok" THEN Append(credited, rx[1][2]) ELSE credited
  /\ IF Done' < count
     THEN pc' = "clear" /\ UNCHANGED result
     ELSE /\ pc' = "idle"
          /\ result' = IF tally'["ok"] = count THEN "RT_EOK" ELSE "-RT_ERROR"
  /\ UNCHANGED <<uart, motors, request, ping, n, rx>>

Step == \/ ClearRx \/ DriverOn \/ ReceiverOff
        \/ WriteChar \/ WriteTimeout \/ Flush \/ ReadChar \/ ReadTimeout \/ Count

-----------------------------------------------------------------------------
(***************************************************************************)
(* The transmitter, the line and the motors. A character reaches the       *)
(* motors while the driver is on; it reaches the receiver too unless that  *)
(* is off. The receiver keeps one character and loses what comes before it *)
(* is read.                                                                *)
(***************************************************************************)
Receive(c) == rdr' = IF re \/ rdr # <<>> THEN rdr ELSE <<c>>

ShiftOut ==
  /\ tx # <<>> /\ ~stuck
  /\ tx' = Tail(tx)
  /\ IF de THEN line' = Append(line, Head(tx)) /\ Receive(Head(tx))
     ELSE UNCHANGED <<line, rdr>>
  /\ UNCHANGED <<de, re, stuck, heard, reply, request, outcome, pc, ping, n, rx>>

Stick ==
  /\ stuck' = TRUE
  /\ UNCHANGED <<de, re, tx, rdr, motors, request, outcome, pc, ping, n, rx>>

\* The motors find a whole command at the end of what they heard.
Hear ==
  /\ IsSuffix(Command(ping), line)
  /\ heard' = ping
  /\ line' = <<>>
  /\ \/ id \in Motor /\ reply' = reply \o Answer(ping)
     \/ UNCHANGED reply
  /\ UNCHANGED <<uart, request, outcome, pc, ping, n, rx>>

Arrive ==
  /\ reply # <<>>
  /\ reply' = Tail(reply)
  /\ \/ Receive(Head(reply))
     \/ Receive(Char("motor", Head(reply)[2], 0))
     \/ UNCHANGED rdr
  /\ UNCHANGED <<de, re, tx, stuck, line, heard, request, outcome, pc, ping, n, rx>>

Next ==
  \/ \E i \in IdArg, m \in ModeArg :
       \/ Refuse(i, m)
       \/ InitFails(i, m)
       \/ \E c \in CountArg : Begin(i, m, c)
  \/ Step
  \/ ShiftOut \/ Stick \/ Hear \/ Arrive

\* The shell thread runs on, and a transmitter that is not stuck transmits;
\* nothing is assumed of the motors.
Spec == Init /\ [][Next]_vars /\ WF_vars(Step) /\ WF_vars(ShiftOut)

-----------------------------------------------------------------------------
(***************************************************************************)
(* When the host begins to listen the whole command is on the line, no     *)
(* character of it cut off by the switch of direction.                     *)
(***************************************************************************)
CommandComplete ==
  pc = "read" => heard = ping \/ IsSuffix(Command(ping), line)

(***************************************************************************)
(* Every ping counted as ok stands for an intact answer to a command of    *)
(* its own: late, lost or damaged answers never make one count twice.      *)
(***************************************************************************)
EachOkAnotherAnswer ==
  \A i, j \in 1 .. Len(credited) : i < j => credited[i] < credited[j]

(***************************************************************************)
(* The host, which would take its own header for that of an answer, never  *)
(* hears itself.                                                           *)
(***************************************************************************)
NeverHearsItself == \A c \in Range(rdr) \cup Range(rx) : c[1] = "motor"

(***************************************************************************)
(* Every command ends with the line released and the receiver on, also     *)
(* when the transmitter is stuck and a write is given up, and without      *)
(* motors.                                                                 *)
(***************************************************************************)
CommandEnds == (pc # "idle") ~> (pc = "idle" /\ ~de /\ ~re)
=============================================================================
