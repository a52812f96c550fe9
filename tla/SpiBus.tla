-------------------------------- MODULE SpiBus ------------------------------
(***************************************************************************)
(* An SPI bus shared by several devices (dev_spi_core.c), over the driver  *)
(* of drv_spi.c. Every device is used by one thread, the way the AD7606    *)
(* application uses its own: attach it, configure it, take RT_EOK for      *)
(* ready, then exchange messages: one (rt_spi_transfer), or two between    *)
(* which the chip stays selected (rt_spi_send_then_recv, send_then_send).  *)
(* Threads are preempted anywhere; the bus lock covers what it covers in   *)
(* the code, which the stored configuration and the first owner are not.   *)
(***************************************************************************)
EXTENDS SpiXfer, Sequences

CONSTANTS
  Device, NoDevice,
  Config,           \* the configurations threads ask for: width, mode, lines
  NoConfig,         \* the zeroed configuration of a new device
  Length,           \* the lengths of messages
  FirstLength,      \* those of the first of two
  RT_EIO            \* the driver refuses a configuration with this value, > 0

ASSUME DeviceAssumption == NoDevice \notin Device
ASSUME ConfigAssumption ==
  /\ \A c \in Config : c.mode \in {"master", "slave"} /\ c.lines \in {1, 2}
  /\ NoConfig \notin Config
ASSUME SizeAssumption ==
  Length \subseteq Nat \ {0} /\ FirstLength \subseteq Length /\ RT_EIO \in Nat \ {0}

\* A length (rt_size_t) has the width of an address.
ASSUME WidthAssumption == \A len \in Length : len < AddressModulus

VARIABLES
  lock,     \* the device whose thread holds bus->lock
  owner,    \* bus->owner: the device the bus was last configured for
  hw,       \* the configuration in the registers of the SPI peripheral
  handle,   \* handle.Init: the Mode and Direction that every exchange reads
  refused,  \* history: a configuration was refused since hw was set
  config,   \* config[d]: device->config
  ready,    \* ready[d]: the thread has seen rt_spi_configure succeed
  pc,       \* pc[d]: where the thread of d is
  call,     \* call[d]: what is left of its call
  cs,       \* the devices whose chip select is taken
  last      \* the call that ended last

setup == <<hw, handle, refused>>

vars == <<lock, owner, setup, config, ready, pc, call, cs, last>>

\* A handle of zeros (spi_bus_obj) is that of a slave.
ZeroHandle == [mode |-> "slave", lines |-> 2]

\* The configurations with a data width that stm32_spi_init knows.
Accepted == {c \in Config : c.width \in {8, 16}}

Locked == {"configure_locked", "transfer_locked", "xfer"}
Steps == {"detached", "attach", "idle", "configure", "transfer"} \cup Locked

Message == [length : Length, take : BOOLEAN, release : BOOLEAN]

NoCall == [kind |-> "none", messages |-> <<>>, broken |-> FALSE]
Transfer(len) ==
  [kind |-> "transfer", broken |-> FALSE,
   messages |-> <<[length |-> len, take |-> TRUE, release |-> TRUE]>>]
TwoMessages(len1, len2) ==
  [kind |-> "two", broken |-> FALSE,
   messages |-> <<[length |-> len1, take |-> TRUE, release |-> FALSE],
                  [length |-> len2, take |-> FALSE, release |-> TRUE]>>]

NothingDone == [kind |-> "none", length |-> 0, returned |-> 0, failed |-> {},
                broken |-> FALSE, with |-> NoConfig]

TypeOK ==
  /\ lock \in Device \cup {NoDevice}
  /\ owner \in Device \cup {NoDevice}
  /\ hw \in Accepted \cup {NoConfig}
  /\ handle \in [mode : {"master", "slave"}, lines : {1, 2}]
  /\ refused \in BOOLEAN
  /\ config \in [Device -> Config \cup {NoConfig}]
  /\ ready \in [Device -> BOOLEAN]
  /\ pc \in [Device -> Steps]
  /\ call \in [Device -> [kind : {"none", "transfer", "two"}, broken : BOOLEAN,
                         messages : Seq(Message)]]
  /\ cs \subseteq Device

Init ==
  /\ lock = NoDevice /\ owner = NoDevice
  /\ hw = NoConfig /\ handle = ZeroHandle /\ refused = FALSE
  /\ config = [d \in Device |-> NoConfig]
  /\ ready = [d \in Device |-> FALSE]
  /\ pc = [d \in Device |-> "detached"]
  /\ call = [d \in Device |-> NoCall]
  /\ cs = {}
  /\ last = NothingDone

Goto(d, step) == pc' = [pc EXCEPT ![d] = step]

AcceptsAll(c) == TRUE    \* mutation of Accepts: an unknown width falls through

Accepts(c) == c \in Accepted

\* How many bytes of the buffer the HAL takes for a data frame under c.
FrameBytes(c) == IF c # NoConfig /\ c.width = 16 THEN 2 ELSE 1

\* What is in the handle after c was accepted: always a master.
HandleFor(c) == [mode |-> "master", lines |-> c.lines]

(***************************************************************************)
(* stm32_spi_init. It stores Mode and Direction in the handle before it    *)
(* looks at the width: what it refuses with RT_EIO does not reach the      *)
(* peripheral, but changes the exchanges of the device that stays owner.   *)
(***************************************************************************)
SetUp(c) ==
  IF Accepts(c)
  THEN hw' = c /\ handle' = HandleFor(c) /\ refused' = FALSE
  ELSE /\ handle' = [mode |-> c.mode, lines |-> c.lines] /\ refused' = TRUE
       /\ UNCHANGED hw

-----------------------------------------------------------------------------
(***************************************************************************)
(* rt_spi_bus_attach_device: the first device becomes the owner, by a test *)
(* and an assignment outside the lock.                                     *)
(***************************************************************************)
AttachTest(d) ==
  /\ pc[d] = "detached"
  /\ Goto(d, IF owner = NoDevice THEN "attach" ELSE "idle")
  /\ UNCHANGED <<lock, owner, setup, config, ready, call, cs, last>>

AttachOwn(d) ==
  /\ pc[d] = "attach"
  /\ owner' = d
  /\ Goto(d, "idle")
  /\ UNCHANGED <<lock, setup, config, ready, call, cs, last>>

(***************************************************************************)
(* rt_spi_configure: nothing to do for the stored configuration, else      *)
(* store the new one and configure the bus.                                *)
(***************************************************************************)
ConfigureSame(d) ==
  /\ pc[d] = "idle" /\ config[d] # NoConfig
  /\ ready' = [ready EXCEPT ![d] = TRUE]
  /\ UNCHANGED <<lock, owner, setup, config, pc, call, cs, last>>

ConfigureNew(d, c) ==
  /\ pc[d] = "idle" /\ c # config[d]
  /\ config' = [config EXCEPT ![d] = c]
  /\ Goto(d, "configure")
  /\ UNCHANGED <<lock, owner, setup, ready, call, cs, last>>

TakeLock(d) ==
  /\ lock = NoDevice
  /\ lock' = d
  /\ \/ pc[d] = "configure" /\ Goto(d, "configure_locked")
     \/ pc[d] = "transfer" /\ Goto(d, "transfer_locked")
  /\ UNCHANGED <<owner, setup, config, ready, call, cs, last>>

ConfigureForAnyone(d) ==    \* mutation of ConfigureBus: no test of the owner
  /\ pc[d] = "configure_locked"
  /\ SetUp(config[d])
  /\ ready' = [ready EXCEPT ![d] = @ \/ Accepts(config[d])]
  /\ lock' = NoDevice
  /\ Goto(d, "idle")
  /\ UNCHANGED <<owner, config, call, cs, last>>

\* rt_spi_bus_configure: RT_EOK, the driver's refusal, or -RT_EBUSY.
ConfigureBus(d) ==
  /\ pc[d] = "configure_locked"
  /\ IF owner = d
     THEN SetUp(config[d]) /\ ready' = [ready EXCEPT ![d] = @ \/ Accepts(config[d])]
     ELSE UNCHANGED <<setup, ready>>
  /\ lock' = NoDevice
  /\ Goto(d, "idle")
  /\ UNCHANGED <<owner, config, call, cs, last>>

-----------------------------------------------------------------------------
(***************************************************************************)
(* rt_spi_transfer, rt_spi_send_then_send and rt_spi_send_then_recv.       *)
(***************************************************************************)
StartCall(d, new) ==
  /\ pc[d] = "idle" /\ ready[d]
  /\ call' = [call EXCEPT ![d] = new]
  /\ Goto(d, "transfer")
  /\ UNCHANGED <<lock, owner, setup, config, ready, cs, last>>

\* The lock is released and the call returns.
Return(d, length, returned, failed, broken) ==
  /\ last' = [kind |-> call[d].kind, length |-> length, returned |-> returned,
              failed |-> failed, broken |-> call[d].broken \/ broken, with |-> hw]
  /\ call' = [call EXCEPT ![d] = NoCall]
  /\ lock' = NoDevice
  /\ Goto(d, "idle")

\* The start of spixfer for a message of d.
Select(d, message, selected) ==
  IF message.take THEN selected \cup {d} ELSE selected

\* A refusal is returned as it is, and nothing of the call is exchanged.
TakeOver(d) ==
  /\ pc[d] = "transfer_locked" /\ owner # d
  /\ SetUp(config[d])
  /\ IF Accepts(config[d])
     THEN /\ owner' = d
          /\ cs' = Select(d, Head(call[d].messages), cs)
          /\ Goto(d, "xfer")
          /\ UNCHANGED <<lock, call, last>>
     ELSE /\ Return(d, Head(call[d].messages).length, RT_EIO, {}, TRUE)
          /\ UNCHANGED <<owner, cs>>
  /\ UNCHANGED <<config, ready>>

StillOwner(d) ==
  /\ pc[d] = "transfer_locked" /\ owner = d
  /\ cs' = Select(d, Head(call[d].messages), cs)
  /\ Goto(d, "xfer")
  /\ UNCHANGED <<lock, owner, setup, config, ready, call, last>>

(***************************************************************************)
(* spixfer, any of whose exchanges may time out; then the next message of  *)
(* the call, which only a negative result gives up, or its end.            *)
(***************************************************************************)
Xfer(d, failed) ==
  LET message == Head(call[d].messages)
      rest == Tail(call[d].messages)
      result == XferResult(message.length, failed)
      selected == IF message.release THEN cs \ {d} ELSE cs
  IN  /\ pc[d] = "xfer"
      /\ IF result >= 0 /\ rest # <<>>
         THEN /\ call' = [call EXCEPT ![d] =
                            [kind |-> @.kind, messages |-> rest,
                             broken |-> @.broken \/ failed # {}]]
              /\ cs' = Select(d, Head(rest), selected)
              /\ UNCHANGED <<lock, pc, last>>
         ELSE /\ Return(d, message.length,
                        IF result >= 0 /\ call[d].kind = "two" THEN 0 ELSE result,
                        failed, failed # {})
              /\ cs' = selected
      /\ UNCHANGED <<owner, setup, config, ready>>

\* The HAL starts the clock only for a master, and the peripheral runs only
\* once it was set up; else an exchange ends with its timeout.
Exchanging == hw # NoConfig /\ handle.mode = "master"

\* The exchanges of the message in progress that go wrong.
Failures(d) ==
  IF call[d].messages = <<>> THEN {}
  ELSE LET all == 1 .. ChunkCount(Head(call[d].messages).length)
       IN  IF Exchanging THEN SUBSET all ELSE {all}

DeviceStep(d) ==
  \/ AttachTest(d) \/ AttachOwn(d)
  \/ ConfigureSame(d) \/ \E c \in Config : ConfigureNew(d, c)
  \/ TakeLock(d) \/ ConfigureBus(d)
  \/ \E len \in Length : StartCall(d, Transfer(len))
  \/ \E len1 \in FirstLength, len2 \in Length : StartCall(d, TwoMessages(len1, len2))
  \/ TakeOver(d) \/ StillOwner(d)
  \/ \E failed \in Failures(d) : Xfer(d, failed)

Next == \E d \in Device : DeviceStep(d)

Spec == Init /\ [][Next]_vars

-----------------------------------------------------------------------------
(***************************************************************************)
(* Whatever the other threads configure or transfer, and whoever attached  *)
(* first, a device exchanges characters under the configuration its own    *)
(* thread asked for last, provided the driver knows it at all: also when   *)
(* rt_spi_configure had answered that the bus is busy. The registers are   *)
(* always its own; Mode and Direction in the handle are, unless the driver *)
(* has refused a configuration since, of whatever device.                  *)
(***************************************************************************)
OwnConfig ==
  \A d \in Device : pc[d] = "xfer" /\ config[d] \in Accepted =>
    hw = config[d] /\ (refused \/ handle = HandleFor(config[d]))

(***************************************************************************)
(* A transfer that returns the length asked for has exchanged all of it;   *)
(* one exchange that fails is enough for the caller to see it. A refused   *)
(* configuration passes for success with one length only, the one that is  *)
(* the number of RT_EIO, which the driver returns with the wrong sign.     *)
(***************************************************************************)
FullLengthMeansSuccess ==
  last.kind = "transfer" /\ last.returned = last.length /\ last.broken
    => last.length = RT_EIO /\ last.failed = {}

(***************************************************************************)
(* Never two chips on the bus at once: a device is selected only while its *)
(* thread holds the lock, and none is left selected when the lock is given *)
(* back, whichever exchange failed, in one message or in the first or      *)
(* second of two.                                                          *)
(***************************************************************************)
SelectedHoldsLock == \A d \in cs : lock = d /\ pc[d] = "xfer"

(***************************************************************************)
(* Up to the first failure the exchanges of a message are the consecutive  *)
(* pieces of its buffer, none longer than the HAL can count, and without a *)
(* failure they end where the buffer ends. With frames of two bytes this   *)
(* is so only for a message of one exchange: the driver advances through   *)
(* the buffer by frames taken for bytes, so that the next exchange would   *)
(* start in the middle of the one before.                                  *)
(***************************************************************************)
ExchangesCoverBuffer ==
  LET frame == FrameBytes(last.with)
      x == Exchanges(last.length, last.failed, frame)
      n == ChunkCount(last.length)
  IN  n = 1 \/ (n > 1 /\ frame = 1) =>
        /\ \A i \in 1 .. n : (\A k \in 1 .. i - 1 : k \notin last.failed) =>
             /\ x[i].start = IF i = 1 THEN 0 ELSE x[i - 1].start + x[i - 1].bytes
             /\ x[i].frames \in 1 .. MaxChunk
        /\ last.failed = {} => x[n].start + x[n].bytes = last.length * frame

(***************************************************************************)
(* What the description of rt_spi_send_then_recv and send_then_send says   *)
(* of the result ("rt_err_t error code"): RT_EOK means that both messages  *)
(* were exchanged. The code looks for a negative result of xfer, and xfer  *)
(* reports a failed exchange with 0.                                       *)
(***************************************************************************)
EokMeansExchanged ==
  last.kind = "two" /\ last.returned = 0 => ~last.broken
=============================================================================
