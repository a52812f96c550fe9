------------------------------ MODULE SpiProofs -----------------------------
(***************************************************************************)
(* Proofs about SpiBus and Ad7606. About the bus, for any number of        *)
(* devices, configurations and lengths: types, that a device transfers     *)
(* only under its own configuration, that the exchanges of a message are   *)
(* its pieces and a full length means that all went through, and that only *)
(* the device whose thread holds the lock is selected. About the           *)
(* application: it and what shares its bus are a legal use of the bus, so  *)
(* that all this holds there too, and what it publishes was read           *)
(* completely, as it is configured, and from its own conversion.           *)
(***************************************************************************)
EXTENDS Ad7606, TLAPS

Attaching == {"detached", "attach"}
Configuring == {"configure", "configure_locked"}
Transferring == {"transfer", "transfer_locked", "xfer"}

\* The thread that is between taking the lock and releasing it holds it.
LockHeld == \A d \in Device : pc[d] \in Locked <=> lock = d

\* The configuration of a device is zeroed until it is attached.
Zeroed == \A d \in Device : pc[d] \in Attaching => config[d] = NoConfig

\* The bus is set up as its owner wishes, unless the owner is just about to
\* set it up or wishes what the driver refuses; what a refusal leaves in the
\* handle is marked by refused.
OwnerConfigured ==
  \A d \in Device :
    owner = d /\ pc[d] \notin Configuring /\ config[d] \in Accepted =>
      hw = config[d] /\ (refused \/ handle = HandleFor(config[d]))

\* What is left of a call: a message or two, the last of which gives the chip
\* back; a transfer has one, and nothing of it has failed yet.
Remaining(c) ==
  /\ Len(c.messages) \in 1 .. 2
  /\ c.messages[Len(c.messages)].release
  /\ c.kind = "transfer" => Len(c.messages) = 1 /\ ~c.broken

Calling == \A d \in Device : pc[d] \in Transferring => Remaining(call[d])

\* A device is configured before it transfers.
Wished ==
  \A d \in Device :
    pc[d] \in Configuring \cup Transferring \/ ready[d] => config[d] # NoConfig

TypeInv == TypeOK /\ Calling /\ Wished

OwnInv == TypeInv /\ LockHeld /\ Zeroed /\ OwnerConfigured /\ OwnConfig

SelectInv == OwnInv /\ SelectedHoldsLock

LengthInv == TypeInv /\ FullLengthMeansSuccess

Calls == [kind : {"none", "transfer", "two"}, broken : BOOLEAN, messages : Seq(Message)]

USE DEF Locked, Steps, Attaching, Configuring, Transferring, setup

-----------------------------------------------------------------------------
(***************************************************************************)
(* The state stays within its sets: in particular the peripheral is set up *)
(* as no configuration but one that the driver accepts.                    *)
(***************************************************************************)
LEMMA TypeInit == Init => TypeInv
<1> SUFFICES ASSUME Init PROVE TypeInv
  OBVIOUS
<1>1. handle \in [mode : {"master", "slave"}, lines : {1, 2}] /\ refused \in BOOLEAN
  BY DEF Init, ZeroHandle
<1>2. call \in [Device -> Calls]
  BY DEF Init, NoCall, Calls
<1>3. QED
  BY <1>1, <1>2 DEF Init, TypeOK, TypeInv, Calling, Wished, Calls

LEMMA AcceptedConfigs == Accepted \subseteq Config /\ NoConfig \notin Accepted
BY ConfigAssumption DEF Accepted

\* A configuration that is taken over or refused: what it leaves.
LEMMA SetUpTypes ==
  ASSUME TypeOK, NEW c \in Config, SetUp(c) \/ UNCHANGED setup
  PROVE  /\ hw' \in Accepted \cup {NoConfig} /\ refused' \in BOOLEAN
         /\ handle' \in [mode : {"master", "slave"}, lines : {1, 2}]
<1>1. CASE SetUp(c) /\ Accepts(c)
  <2>1. hw' = c /\ handle' = HandleFor(c) /\ refused' = FALSE /\ c \in Accepted
    BY <1>1 DEF SetUp, Accepts
  <2>2. HandleFor(c) \in [mode : {"master", "slave"}, lines : {1, 2}]
    BY ConfigAssumption DEF HandleFor
  <2>3. QED
    BY <2>1, <2>2
<1>2. CASE SetUp(c) /\ ~Accepts(c)
  BY <1>2, ConfigAssumption DEF TypeOK, SetUp
<1>3. CASE UNCHANGED setup
  BY <1>3 DEF TypeOK
<1>4. QED
  BY <1>1, <1>2, <1>3

\* The calls that threads begin.
LEMMA NewCalls ==
  ASSUME NEW len1 \in Length, NEW len2 \in Length
  PROVE  /\ Transfer(len1) \in Calls /\ Remaining(Transfer(len1))
         /\ TwoMessages(len1, len2) \in Calls /\ Remaining(TwoMessages(len1, len2))
BY DEF Transfer, TwoMessages, Calls, Message, Remaining

\* A failed exchange never makes the result negative.
LEMMA ResultIsLength ==
  ASSUME NEW len \in Nat, NEW failed
  PROVE  XferResult(len, failed) \in {0, len}
BY DEF XferResult, MessageLength

\* The next message of a call.
LEMMA NextMessage ==
  ASSUME NEW c \in Calls, Remaining(c)
  PROVE  /\ c.messages # <<>> /\ Head(c.messages) \in Message
         /\ Head(c.messages).length \in Nat \ {0}
         /\ Tail(c.messages) = <<>> => Head(c.messages).release
<1>1. c.messages \in Seq(Message) /\ Len(c.messages) \in 1 .. 2
  BY DEF Remaining, Calls
<1>2. c.messages # <<>> /\ Head(c.messages) \in Message
  BY <1>1
<1>3. Head(c.messages).length \in Nat \ {0}
  BY <1>2, SizeAssumption DEF Message
<1>4. ASSUME Tail(c.messages) = <<>> PROVE Head(c.messages).release
  <2>1. Len(Tail(c.messages)) = Len(c.messages) - 1 /\ Head(c.messages) = c.messages[1]
    BY <1>1, <1>2
  <2>2. Len(Tail(c.messages)) = 0
    <3>1. Len(<<>>) = 0
      OBVIOUS
    <3>2. QED
      BY <1>4, <3>1, Zenon
  <2>3. Len(c.messages) = 1
    BY <1>1, <2>1, <2>2
  <2>4. QED
    BY <2>1, <2>3 DEF Remaining
<1>5. QED
  BY <1>2, <1>3, <1>4

LEMMA TypeNext == TypeInv /\ [Next]_vars => TypeInv'
<1> SUFFICES ASSUME TypeInv, [Next]_vars PROVE TypeInv'
  OBVIOUS
<1> USE DeviceAssumption DEF TypeInv, TypeOK, Calling, Wished
<1>1. ASSUME NEW d \in Device, AttachTest(d) PROVE TypeInv'
  BY <1>1 DEF AttachTest, Goto
<1>2. ASSUME NEW d \in Device, AttachOwn(d) PROVE TypeInv'
  BY <1>2 DEF AttachOwn, Goto
<1>3. ASSUME NEW d \in Device, ConfigureSame(d) PROVE TypeInv'
  BY <1>3 DEF ConfigureSame
<1>4. ASSUME NEW d \in Device, NEW c \in Config, ConfigureNew(d, c) PROVE TypeInv'
  BY <1>4, ConfigAssumption DEF ConfigureNew, Goto
<1>5. ASSUME NEW d \in Device, TakeLock(d) PROVE TypeInv'
  BY <1>5 DEF TakeLock, Goto
<1>6. ASSUME NEW d \in Device, ConfigureBus(d) PROVE TypeInv'
  <2>1. SetUp(config[d]) \/ UNCHANGED setup
    BY <1>6 DEF ConfigureBus
  <2>2. config[d] \in Config
    BY <1>6 DEF ConfigureBus
  <2>3. /\ hw' \in Accepted \cup {NoConfig} /\ refused' \in BOOLEAN
        /\ handle' \in [mode : {"master", "slave"}, lines : {1, 2}]
    BY <2>1, <2>2, SetUpTypes
  <2>4. ready' \in [Device -> BOOLEAN]
    BY <1>6 DEF ConfigureBus
  <2>5. QED
    BY <1>6, <2>3, <2>4 DEF ConfigureBus, Goto
<1>7. ASSUME NEW d \in Device, NEW new \in Calls, Remaining(new), StartCall(d, new)
      PROVE  TypeInv'
  BY <1>7 DEF StartCall, Goto, Calls
<1>8. ASSUME NEW d \in Device, TakeOver(d) PROVE TypeInv'
  <2>1. NoCall \in Calls /\ cs' \subseteq Device
    <3>1. NoCall \in Calls
      BY DEF NoCall, Calls
    <3>2. UNCHANGED cs \/ cs' = Select(d, Head(call[d].messages), cs)
      BY <1>8 DEF TakeOver
    <3>3. QED
      BY <3>1, <3>2 DEF Select
  <2>2. config[d] \in Config /\ SetUp(config[d])
    BY <1>8 DEF TakeOver
  <2>3. /\ hw' \in Accepted \cup {NoConfig} /\ refused' \in BOOLEAN
        /\ handle' \in [mode : {"master", "slave"}, lines : {1, 2}]
    BY <2>2, SetUpTypes
  <2>4. CASE Accepts(config[d])
    BY <1>8, <2>1, <2>3, <2>4 DEF TakeOver, Goto
  <2>5. CASE ~Accepts(config[d])
    <3>1. /\ call' = [call EXCEPT ![d] = NoCall] /\ pc' = [pc EXCEPT ![d] = "idle"]
          /\ lock' = NoDevice /\ UNCHANGED <<owner, config, ready, cs>>
      BY <1>8, <2>5 DEF TakeOver, Return, Goto
    <3>2. TypeOK'
      BY <2>1, <2>3, <3>1 DEF Calls
    <3>3. Calling' /\ Wished'
      BY <3>1
    <3>4. QED
      BY <3>2, <3>3
  <2>6. QED
    BY <2>4, <2>5
<1>9. ASSUME NEW d \in Device, StillOwner(d) PROVE TypeInv'
  BY <1>9 DEF StillOwner, Goto, Select
<1>10. ASSUME NEW d \in Device, NEW failed, Xfer(d, failed) PROVE TypeInv'
  <2> DEFINE rest == Tail(call[d].messages)
             next == [kind |-> call[d].kind, messages |-> rest,
                      broken |-> call[d].broken \/ failed # {}]
  <2>1. call[d] \in Calls /\ Remaining(call[d]) /\ pc[d] = "xfer"
    BY <1>10 DEF Xfer, Calls
  <2>2. cs' \subseteq Device /\ UNCHANGED <<owner, setup, config, ready>>
    BY <1>10 DEF Xfer, Select
  <2>3. CASE /\ pc' = [pc EXCEPT ![d] = "idle"] /\ lock' = NoDevice
             /\ call' = [call EXCEPT ![d] = NoCall]
    <3>1. NoCall \in Calls
      BY DEF NoCall, Calls
    <3>2. QED
      BY <2>1, <2>2, <2>3, <3>1 DEF Calls
  <2>4. CASE /\ rest # <<>> /\ UNCHANGED <<lock, pc>>
             /\ call' = [call EXCEPT ![d] = next]
    <3>1. Len(call[d].messages) = 2 /\ rest \in Seq(Message) /\ Len(rest) = 1
            /\ rest[1] = call[d].messages[2]
      BY <2>1, <2>4 DEF Remaining, Calls
    <3>2. call[d].kind \in {"none", "transfer", "two"} /\ call[d].kind # "transfer"
      BY <2>1, <3>1 DEF Remaining, Calls
    <3>3. next \in Calls
      BY <3>1, <3>2 DEF Calls
    <3>4. Remaining(next)
      BY <2>1, <3>1, <3>2 DEF Remaining
    <3>5. QED
      BY <2>1, <2>2, <2>4, <3>3, <3>4 DEF Calls
  <2>5. QED
    BY <1>10, <2>3, <2>4 DEF Xfer, Return, Goto
<1>11. CASE UNCHANGED vars
  BY <1>11 DEF vars
<1>12. QED
  BY <1>1, <1>2, <1>3, <1>4, <1>5, <1>6, <1>7, <1>8, <1>9, <1>10, <1>11, NewCalls,
     SizeAssumption DEF Next, DeviceStep

(***************************************************************************)
(* Type correctness of every reachable state.                              *)
(***************************************************************************)
THEOREM TypeCorrect == Spec => []TypeOK
<1>1. Init => TypeInv
  BY TypeInit
<1>2. TypeInv /\ [Next]_vars => TypeInv'
  BY TypeNext
<1>3. TypeInv => TypeOK
  BY DEF TypeInv
<1>4. QED
  BY <1>1, <1>2, <1>3, PTL DEF Spec

-----------------------------------------------------------------------------
(***************************************************************************)
(* A device transfers only under its own configuration.                    *)
(***************************************************************************)
LEMMA OwnInit == Init => OwnInv
BY TypeInit, ConfigAssumption, DeviceAssumption
   DEF Init, OwnInv, LockHeld, Zeroed, OwnerConfigured, OwnConfig

LEMMA LockNext == TypeOK /\ LockHeld /\ [Next]_vars => LockHeld'
<1> SUFFICES ASSUME TypeOK /\ LockHeld, [Next]_vars PROVE LockHeld'
  OBVIOUS
<1> USE DeviceAssumption DEF TypeOK, LockHeld
<1>1. ASSUME NEW d \in Device, AttachTest(d) PROVE LockHeld'
  BY <1>1 DEF AttachTest, Goto
<1>2. ASSUME NEW d \in Device, AttachOwn(d) PROVE LockHeld'
  BY <1>2 DEF AttachOwn, Goto
<1>3. ASSUME NEW d \in Device, ConfigureSame(d) PROVE LockHeld'
  BY <1>3 DEF ConfigureSame
<1>4. ASSUME NEW d \in Device, NEW c \in Config, ConfigureNew(d, c) PROVE LockHeld'
  BY <1>4 DEF ConfigureNew, Goto
<1>5. ASSUME NEW d \in Device, TakeLock(d) PROVE LockHeld'
  BY <1>5 DEF TakeLock, Goto
<1>6. ASSUME NEW d \in Device, ConfigureBus(d) PROVE LockHeld'
  BY <1>6 DEF ConfigureBus, SetUp, Accepts, Goto
<1>7. ASSUME NEW d \in Device, NEW new, StartCall(d, new) PROVE LockHeld'
  BY <1>7 DEF StartCall, Goto
<1>8. ASSUME NEW d \in Device, TakeOver(d) PROVE LockHeld'
  BY <1>8 DEF TakeOver, SetUp, Accepts, Return, Goto
<1>9. ASSUME NEW d \in Device, StillOwner(d) PROVE LockHeld'
  BY <1>9 DEF StillOwner, Goto
<1>10. ASSUME NEW d \in Device, NEW failed, Xfer(d, failed) PROVE LockHeld'
  BY <1>10 DEF Xfer, Return, Goto
<1>11. CASE UNCHANGED vars
  BY <1>11 DEF vars
<1>12. QED
  BY <1>1, <1>2, <1>3, <1>4, <1>5, <1>6, <1>7, <1>8, <1>9, <1>10, <1>11 DEF Next, DeviceStep

LEMMA ZeroedNext == TypeOK /\ Zeroed /\ [Next]_vars => Zeroed'
<1> SUFFICES ASSUME TypeOK /\ Zeroed, [Next]_vars PROVE Zeroed'
  OBVIOUS
<1> USE DeviceAssumption DEF TypeOK, Zeroed
<1>1. ASSUME NEW d \in Device, AttachTest(d) PROVE Zeroed'
  BY <1>1 DEF AttachTest, Goto
<1>2. ASSUME NEW d \in Device, AttachOwn(d) PROVE Zeroed'
  BY <1>2 DEF AttachOwn, Goto
<1>3. ASSUME NEW d \in Device, ConfigureSame(d) PROVE Zeroed'
  BY <1>3 DEF ConfigureSame
<1>4. ASSUME NEW d \in Device, NEW c \in Config, ConfigureNew(d, c) PROVE Zeroed'
  BY <1>4 DEF ConfigureNew, Goto
<1>5. ASSUME NEW d \in Device, TakeLock(d) PROVE Zeroed'
  BY <1>5 DEF TakeLock, Goto
<1>6. ASSUME NEW d \in Device, ConfigureBus(d) PROVE Zeroed'
  BY <1>6 DEF ConfigureBus, SetUp, Accepts, Goto
<1>7. ASSUME NEW d \in Device, NEW new, StartCall(d, new) PROVE Zeroed'
  BY <1>7 DEF StartCall, Goto
<1>8. ASSUME NEW d \in Device, TakeOver(d) PROVE Zeroed'
  BY <1>8 DEF TakeOver, SetUp, Accepts, Return, Goto
<1>9. ASSUME NEW d \in Device, StillOwner(d) PROVE Zeroed'
  BY <1>9 DEF StillOwner, Goto
<1>10. ASSUME NEW d \in Device, NEW failed, Xfer(d, failed) PROVE Zeroed'
  BY <1>10 DEF Xfer, Return, Goto
<1>11. CASE UNCHANGED vars
  BY <1>11 DEF vars
<1>12. QED
  BY <1>1, <1>2, <1>3, <1>4, <1>5, <1>6, <1>7, <1>8, <1>9, <1>10, <1>11 DEF Next, DeviceStep

LEMMA OwnerNext == OwnInv /\ [Next]_vars => OwnerConfigured'
<1> SUFFICES ASSUME OwnInv, [Next]_vars PROVE OwnerConfigured'
  OBVIOUS
<1> USE DeviceAssumption, ConfigAssumption, AcceptedConfigs
    DEF OwnInv, TypeInv, TypeOK, LockHeld, Zeroed, OwnerConfigured
<1>1. ASSUME NEW d \in Device, AttachTest(d) PROVE OwnerConfigured'
  BY <1>1 DEF AttachTest, Goto
<1>2. ASSUME NEW d \in Device, AttachOwn(d) PROVE OwnerConfigured'
  BY <1>2 DEF AttachOwn, Goto
<1>3. ASSUME NEW d \in Device, ConfigureSame(d) PROVE OwnerConfigured'
  BY <1>3 DEF ConfigureSame
<1>4. ASSUME NEW d \in Device, NEW c \in Config, ConfigureNew(d, c) PROVE OwnerConfigured'
  BY <1>4 DEF ConfigureNew, Goto
<1>5. ASSUME NEW d \in Device, TakeLock(d) PROVE OwnerConfigured'
  BY <1>5 DEF TakeLock, Goto
<1>6. ASSUME NEW d \in Device, ConfigureBus(d) PROVE OwnerConfigured'
  BY <1>6 DEF ConfigureBus, SetUp, Accepts, Goto
<1>7. ASSUME NEW d \in Device, NEW new, StartCall(d, new) PROVE OwnerConfigured'
  BY <1>7 DEF StartCall, Goto
<1>8. ASSUME NEW d \in Device, TakeOver(d) PROVE OwnerConfigured'
  BY <1>8 DEF TakeOver, SetUp, Accepts, Return, Goto
<1>9. ASSUME NEW d \in Device, StillOwner(d) PROVE OwnerConfigured'
  BY <1>9 DEF StillOwner, Goto
<1>10. ASSUME NEW d \in Device, NEW failed, Xfer(d, failed) PROVE OwnerConfigured'
  BY <1>10 DEF Xfer, Return, Goto
<1>11. CASE UNCHANGED vars
  BY <1>11 DEF vars
<1>12. QED
  BY <1>1, <1>2, <1>3, <1>4, <1>5, <1>6, <1>7, <1>8, <1>9, <1>10, <1>11 DEF Next, DeviceStep

LEMMA OwnConfigNext == OwnInv /\ [Next]_vars => OwnConfig'
<1> SUFFICES ASSUME OwnInv, [Next]_vars PROVE OwnConfig'
  OBVIOUS
<1> USE DeviceAssumption, ConfigAssumption, AcceptedConfigs
    DEF OwnInv, TypeInv, TypeOK, LockHeld, OwnerConfigured, OwnConfig
<1>1. ASSUME NEW d \in Device, AttachTest(d) PROVE OwnConfig'
  BY <1>1 DEF AttachTest, Goto
<1>2. ASSUME NEW d \in Device, AttachOwn(d) PROVE OwnConfig'
  BY <1>2 DEF AttachOwn, Goto
<1>3. ASSUME NEW d \in Device, ConfigureSame(d) PROVE OwnConfig'
  BY <1>3 DEF ConfigureSame
<1>4. ASSUME NEW d \in Device, NEW c \in Config, ConfigureNew(d, c) PROVE OwnConfig'
  BY <1>4 DEF ConfigureNew, Goto
<1>5. ASSUME NEW d \in Device, TakeLock(d) PROVE OwnConfig'
  BY <1>5 DEF TakeLock, Goto
<1>6. ASSUME NEW d \in Device, ConfigureBus(d) PROVE OwnConfig'
  BY <1>6 DEF ConfigureBus, SetUp, Accepts, Goto
<1>7. ASSUME NEW d \in Device, NEW new, StartCall(d, new) PROVE OwnConfig'
  BY <1>7 DEF StartCall, Goto
<1>8. ASSUME NEW d \in Device, TakeOver(d) PROVE OwnConfig'
  <2>1. CASE Accepts(config[d])
    BY <1>8, <2>1 DEF TakeOver, SetUp, Goto
  <2>2. CASE ~Accepts(config[d])
    BY <1>8, <2>2 DEF TakeOver, SetUp, Accepts, Return, Goto
  <2>3. QED
    BY <2>1, <2>2
<1>9. ASSUME NEW d \in Device, StillOwner(d) PROVE OwnConfig'
  BY <1>9 DEF StillOwner, Goto
<1>10. ASSUME NEW d \in Device, NEW failed, Xfer(d, failed) PROVE OwnConfig'
  BY <1>10 DEF Xfer, Return, Goto
<1>11. CASE UNCHANGED vars
  BY <1>11 DEF vars
<1>12. QED
  BY <1>1, <1>2, <1>3, <1>4, <1>5, <1>6, <1>7, <1>8, <1>9, <1>10, <1>11 DEF Next, DeviceStep

LEMMA OwnNext == OwnInv /\ [Next]_vars => OwnInv'
BY TypeNext, LockNext, ZeroedNext, OwnerNext, OwnConfigNext DEF OwnInv, TypeInv

(***************************************************************************)
(* In every reachable state a device that exchanges characters does so     *)
(* under the configuration its thread asked for last (if the driver knows  *)
(* it), however attaching, configuring and transferring interleave: the    *)
(* registers always, the Mode and Direction of the handle as long as the   *)
(* driver has refused no configuration since the bus was set up.           *)
(***************************************************************************)
THEOREM OwnConfigAlways == Spec => []OwnConfig
<1>1. Init => OwnInv
  BY OwnInit
<1>2. OwnInv /\ [Next]_vars => OwnInv'
  BY OwnNext
<1>3. OwnInv => OwnConfig
  BY DEF OwnInv
<1>4. QED
  BY <1>1, <1>2, <1>3, PTL DEF Spec

-----------------------------------------------------------------------------
(***************************************************************************)
(* A full length means success.                                            *)
(***************************************************************************)
LEMMA FailedLength ==
  ASSUME NEW len \in Nat \ {0}, NEW failed \in SUBSET (1 .. ChunkCount(len)),
         failed # {}
  PROVE  XferResult(len, failed) # len
BY DEF XferResult, MessageLength

LEMMA FullLengthNext == LengthInv /\ [Next]_vars => FullLengthMeansSuccess'
<1> SUFFICES ASSUME TypeInv, FullLengthMeansSuccess, [Next]_vars
             PROVE  FullLengthMeansSuccess'
  BY DEF LengthInv
<1>1. ASSUME NEW d \in Device, TakeOver(d) PROVE FullLengthMeansSuccess'
  <2>1. CASE Accepts(config[d])
    BY <1>1, <2>1 DEF TakeOver, FullLengthMeansSuccess
  <2>2. CASE ~Accepts(config[d])
    <3>1. last'.returned = RT_EIO /\ last'.failed = {}
      BY <1>1, <2>2 DEF TakeOver, Return
    <3>2. QED
      BY <3>1 DEF FullLengthMeansSuccess
  <2>3. QED
    BY <2>1, <2>2
<1>2. ASSUME NEW d \in Device, NEW failed \in Failures(d), Xfer(d, failed)
      PROVE  FullLengthMeansSuccess'
  <2> DEFINE len == Head(call[d].messages).length
             result == XferResult(len, failed)
             returned == IF result >= 0 /\ call[d].kind = "two" THEN 0 ELSE result
  <2>1. call[d] \in Calls /\ Remaining(call[d])
    <3>1. pc[d] = "xfer"
      BY <1>2 DEF Xfer
    <3>2. QED
      BY <3>1 DEF TypeInv, TypeOK, Calling, Calls
  <2>2. call[d].messages # <<>> /\ Head(call[d].messages) \in Message
    BY <2>1, NextMessage
  <2>3. len \in Nat \ {0} /\ failed \in SUBSET (1 .. ChunkCount(len))
    BY <2>1, <2>2, NextMessage DEF Failures
  <2>4. CASE UNCHANGED last
    BY <2>4 DEF FullLengthMeansSuccess
  <2>5. CASE Return(d, len, returned, failed, failed # {})
    <3>1. /\ last'.kind = call[d].kind /\ last'.length = len
          /\ last'.returned = returned
          /\ last'.broken = (call[d].broken \/ failed # {})
      BY <2>5 DEF Return
    <3>2. CASE call[d].kind = "transfer"
      <4>1. ~call[d].broken
        BY <2>1, <3>2 DEF Remaining
      <4>2. last'.returned = last'.length => failed = {}
        BY <2>3, <3>1, <3>2, FailedLength
      <4>3. failed = {} => ~last'.broken
        BY <3>1, <4>1
      <4>4. QED
        BY <4>2, <4>3 DEF FullLengthMeansSuccess
    <3>3. CASE call[d].kind # "transfer"
      BY <3>1, <3>3 DEF FullLengthMeansSuccess
    <3>4. QED
      BY <3>2, <3>3
  <2>6. QED
    BY <1>2, <2>4, <2>5 DEF Xfer
<1>3. CASE UNCHANGED last
  BY <1>3 DEF FullLengthMeansSuccess
<1>4. QED
  BY <1>1, <1>2, <1>3
  DEF Next, DeviceStep, vars, AttachTest, AttachOwn, ConfigureSame, ConfigureNew,
      TakeLock, ConfigureBus, StartCall, StillOwner

(***************************************************************************)
(* In every reachable state, if the transfer that ended last returned the  *)
(* length asked for, all of it was exchanged, or that length is RT_EIO and *)
(* the configuration was refused: for every length, chunk size and set of  *)
(* failures.                                                               *)
(***************************************************************************)
THEOREM FullLength == Spec => []FullLengthMeansSuccess
<1>1. Init => LengthInv
  BY TypeInit DEF Init, LengthInv, FullLengthMeansSuccess, NothingDone
<1>2. LengthInv /\ [Next]_vars => LengthInv'
  BY TypeNext, FullLengthNext DEF LengthInv
<1>3. LengthInv => FullLengthMeansSuccess
  BY DEF LengthInv
<1>4. QED
  BY <1>1, <1>2, <1>3, PTL DEF Spec

-----------------------------------------------------------------------------
(***************************************************************************)
(* Only the device whose thread holds the lock is selected.                *)
(***************************************************************************)
LEMMA SelectNext == SelectInv /\ [Next]_vars => SelectedHoldsLock'
<1> SUFFICES ASSUME SelectInv, [Next]_vars PROVE SelectedHoldsLock'
  OBVIOUS
<1> USE DeviceAssumption
    DEF SelectInv, OwnInv, TypeInv, TypeOK, LockHeld, SelectedHoldsLock
<1>1. ASSUME NEW d \in Device, AttachTest(d) PROVE SelectedHoldsLock'
  BY <1>1 DEF AttachTest, Goto
<1>2. ASSUME NEW d \in Device, AttachOwn(d) PROVE SelectedHoldsLock'
  BY <1>2 DEF AttachOwn, Goto
<1>3. ASSUME NEW d \in Device, ConfigureSame(d) PROVE SelectedHoldsLock'
  BY <1>3 DEF ConfigureSame
<1>4. ASSUME NEW d \in Device, NEW c \in Config, ConfigureNew(d, c) PROVE SelectedHoldsLock'
  BY <1>4 DEF ConfigureNew, Goto
<1>5. ASSUME NEW d \in Device, TakeLock(d) PROVE SelectedHoldsLock'
  BY <1>5 DEF TakeLock, Goto
<1>6. ASSUME NEW d \in Device, ConfigureBus(d) PROVE SelectedHoldsLock'
  BY <1>6 DEF ConfigureBus, SetUp, Accepts, Goto
<1>7. ASSUME NEW d \in Device, NEW new, StartCall(d, new) PROVE SelectedHoldsLock'
  BY <1>7 DEF StartCall, Goto
<1>8. ASSUME NEW d \in Device, TakeOver(d) PROVE SelectedHoldsLock'
  BY <1>8 DEF TakeOver, SetUp, Accepts, Return, Goto, Select
<1>9. ASSUME NEW d \in Device, StillOwner(d) PROVE SelectedHoldsLock'
  BY <1>9 DEF StillOwner, Goto, Select
<1>10. ASSUME NEW d \in Device, NEW failed, Xfer(d, failed) PROVE SelectedHoldsLock'
  <2> DEFINE message == Head(call[d].messages)
             result == XferResult(message.length, failed)
  <2>1. call[d] \in Calls /\ Remaining(call[d]) /\ pc[d] = "xfer" /\ lock = d
    BY <1>10 DEF Xfer, Calls, Calling
  <2>2. result >= 0
    <3>1. message.length \in Nat
      BY <2>1, NextMessage
    <3>2. result \in {0, message.length}
      BY <3>1, ResultIsLength
    <3>3. QED
      BY <3>1, <3>2
  <2>3. cs \subseteq {d}
    BY <2>1
  <2>4. CASE Tail(call[d].messages) # <<>>
    <3>1. cs' \subseteq {d} /\ UNCHANGED <<lock, pc>>
      BY <1>10, <2>2, <2>3, <2>4 DEF Xfer, Select
    <3>2. QED
      BY <2>1, <3>1
  <2>5. CASE Tail(call[d].messages) = <<>>
    <3>1. message.release
      BY <2>1, <2>5, NextMessage
    <3>2. cs' = cs \ {d}
      BY <1>10, <2>5, <3>1 DEF Xfer
    <3>3. QED
      BY <2>3, <3>2
  <2>6. QED
    BY <2>4, <2>5
<1>11. CASE UNCHANGED vars
  BY <1>11 DEF vars
<1>12. QED
  BY <1>1, <1>2, <1>3, <1>4, <1>5, <1>6, <1>7, <1>8, <1>9, <1>10, <1>11 DEF Next, DeviceStep

(***************************************************************************)
(* In every reachable state at most one chip is selected, that of the      *)
(* thread that holds the lock, for any calls of one or two messages and    *)
(* any failures.                                                           *)
(***************************************************************************)
THEOREM OneSelected == Spec => []SelectedHoldsLock
<1>1. Init => SelectInv
  BY OwnInit DEF Init, SelectInv, SelectedHoldsLock
<1>2. SelectInv /\ [Next]_vars => SelectInv'
  BY OwnNext, SelectNext DEF SelectInv
<1>3. SelectInv => SelectedHoldsLock
  BY DEF SelectInv
<1>4. QED
  BY <1>1, <1>2, <1>3, PTL DEF Spec

-----------------------------------------------------------------------------
(***************************************************************************)
(* The pieces of a message. All but the last are full (ChunkBounds), so    *)
(* that what is left before exchange i is the message without i - 1 full   *)
(* chunks (LeftBefore), and where it starts needs no wrapping.             *)
(***************************************************************************)
LEMMA DivBounds ==
  ASSUME NEW x \in Nat, NEW m \in Nat \ {0}
  PROVE  /\ x \div m \in Nat
         /\ (x \div m) * m <= x
         /\ x < (x \div m) * m + m
<1>1. (x \div m) * m <= x
  BY SMTT(30)
<1>2. x < (x \div m) * m + m
  BY SMTT(30)
<1>3. x \div m \in Nat
  BY SMTT(30)
<1>4. QED
  BY <1>1, <1>2, <1>3

LEMMA Products ==
  ASSUME NEW i \in Nat, NEW m \in Nat \ {0}
  PROVE  /\ i * m \in Nat /\ (i + 1) * m = i * m + m
         /\ \A j \in Nat : i <= j => i * m <= j * m
OBVIOUS

LEMMA ChunkBounds ==
  ASSUME NEW len \in Nat \ {0}
  PROVE  /\ ChunkCount(len) \in Nat \ {0}
         /\ len <= ChunkCount(len) * MaxChunk
         /\ \A i \in 1 .. ChunkCount(len) : (i - 1) * MaxChunk < len
<1> DEFINE m == MaxChunk
           x == len + m - 1
           n == ChunkCount(len)
<1>1. m \in Nat \ {0} /\ x \in Nat /\ x >= m
  BY ChunkAssumption
<1>2. n = x \div m
  BY DEF ChunkCount
<1> HIDE DEF n
<1>3. n \in Nat /\ n * m <= x /\ x < n * m + m
  BY <1>1, <1>2, DivBounds
<1>4. n # 0
  <2>1. 0 * m = 0
    BY <1>1
  <2>2. QED
    BY <1>1, <1>3, <2>1
<1>5. n * m \in Nat
  BY <1>1, <1>3, Products
<1>6. len <= n * m
  BY <1>1, <1>3, <1>5
<1>7. ASSUME NEW i \in 1 .. n PROVE (i - 1) * m < len
  <2>1. i - 1 \in Nat /\ n - 1 \in Nat /\ i - 1 <= n - 1
    BY <1>3, <1>4
  <2>2. (i - 1) * m <= (n - 1) * m /\ (i - 1) * m \in Nat
    BY <1>1, <2>1, Products
  <2>3. n * m = (n - 1) * m + m /\ (n - 1) * m \in Nat
    <3>1. (n - 1) + 1 = n
      BY <1>3
    <3>2. QED
      BY <1>1, <2>1, <3>1, Products
  <2>4. QED
    BY <1>1, <1>3, <2>2, <2>3
<1>8. QED
  BY <1>3, <1>4, <1>6, <1>7 DEF n

LEMMA LeftBefore ==
  ASSUME NEW len \in Nat \ {0}, NEW i \in 1 .. ChunkCount(len)
  PROVE  /\ (i - 1) * MaxChunk \in Nat /\ (i - 1) * MaxChunk < len
         /\ Left(len, i - 1) = len - (i - 1) * MaxChunk
         /\ Left(len, i) \in Nat
         /\ SendLength(len, i) \in 1 .. MaxChunk
         /\ SendLength(len, i) + Left(len, i) = len - (i - 1) * MaxChunk
         /\ i < ChunkCount(len) => SendLength(len, i) = MaxChunk
         /\ i = ChunkCount(len) => Left(len, i) = 0
<1> DEFINE m == MaxChunk
           n == ChunkCount(len)
           p == (i - 1) * m
           q == i * m
<1>1. m \in Nat \ {0} /\ n \in Nat \ {0} /\ i \in 1 .. n
  BY ChunkAssumption, ChunkBounds
<1>2. p \in Nat /\ p < len
  <2>1. i - 1 \in Nat
    BY <1>1
  <2>2. QED
    BY <1>1, <2>1, Products, ChunkBounds
<1>3. q = p + m
  <2>1. i - 1 \in Nat /\ (i - 1) + 1 = i
    BY <1>1
  <2>2. QED
    BY <1>1, <2>1, Products
<1>4. i < n => q < len
  <2>1. ASSUME i < n PROVE q < len
    <3>1. i + 1 \in 1 .. n /\ (i + 1) - 1 = i
      BY <1>1, <2>1
    <3>2. QED
      BY <3>1, ChunkBounds
  <2>2. QED
    BY <2>1
<1>5. i = n => len <= q
  BY ChunkBounds
<1>6. Left(len, i - 1) = len - p
  BY <1>2 DEF Left
<1>7. Left(len, i) = IF q >= len THEN 0 ELSE len - q
  BY DEF Left
<1>8. SendLength(len, i) = Left(len, i - 1) - Left(len, i)
  BY DEF SendLength
<1> HIDE DEF m, n, p, q
<1>9. Left(len, i) \in Nat
  BY <1>1, <1>2, <1>3, <1>7
<1>10. SendLength(len, i) \in 1 .. m
  BY <1>1, <1>2, <1>3, <1>6, <1>7, <1>8
<1>11. SendLength(len, i) + Left(len, i) = len - p
  BY <1>2, <1>6, <1>8, <1>9
<1>12. i < n => SendLength(len, i) = m
  BY <1>1, <1>2, <1>3, <1>4, <1>6, <1>7, <1>8
<1>13. i = n => Left(len, i) = 0
  BY <1>1, <1>2, <1>3, <1>5, <1>7
<1>14. QED
  BY <1>2, <1>6, <1>9, <1>10, <1>11, <1>12, <1>13 DEF m, n, p

LEMMA StartBefore ==
  ASSUME NEW len \in Length, NEW failed, NEW i \in 1 .. ChunkCount(len),
         \A k \in 1 .. i - 1 : k \notin failed
  PROVE  Start(len, failed, i) = (i - 1) * MaxChunk
<1> DEFINE p == (i - 1) * MaxChunk
<1>1. len \in Nat \ {0} /\ len < AddressModulus /\ AddressModulus \in Nat
  BY SizeAssumption, WidthAssumption, ChunkAssumption
<1>2. /\ p \in Nat /\ p < len
      /\ SendLength(len, i) + Left(len, i) = len - p
      /\ SendLength(len, i) \in Int /\ Left(len, i) \in Int
  BY <1>1, LeftBefore
<1>3. MessageLength(len, failed, i - 1) = len
  BY DEF MessageLength
<1> HIDE DEF p
<1>4. len - SendLength(len, i) - Left(len, i) = p
  BY <1>1, <1>2
<1>5. p % AddressModulus = p
  BY <1>1, <1>2
<1>6. QED
  BY <1>3, <1>4, <1>5 DEF Start, p

LEMMA Covered ==
  ASSUME NEW len \in Length, NEW failed, NEW frame \in {1, 2},
         ChunkCount(len) = 1 \/ frame = 1
  PROVE  LET x == Exchanges(len, failed, frame)
             n == ChunkCount(len)
         IN  /\ \A i \in 1 .. n : (\A k \in 1 .. i - 1 : k \notin failed) =>
                  /\ x[i].start =
                       IF i = 1 THEN 0 ELSE x[i - 1].start + x[i - 1].bytes
                  /\ x[i].frames \in 1 .. MaxChunk
             /\ failed = {} => x[n].start + x[n].bytes = len * frame
<1> DEFINE x == Exchanges(len, failed, frame)
           n == ChunkCount(len)
<1>1. len \in Nat \ {0}
  BY SizeAssumption
<1>2. n \in Nat \ {0} /\ MaxChunk \in Nat \ {0}
  BY <1>1, ChunkBounds, ChunkAssumption
<1>3. \A i \in 1 .. n : /\ x[i].start = Start(len, failed, i)
                        /\ x[i].frames = SendLength(len, i)
                        /\ x[i].bytes = SendLength(len, i) * frame
  BY DEF Exchanges
<1>4. n = 1 \/ frame = 1
  OBVIOUS
<1> HIDE DEF x, n
<1>5. ASSUME NEW i \in 1 .. n, \A k \in 1 .. i - 1 : k \notin failed
      PROVE  /\ x[i].start = IF i = 1 THEN 0 ELSE x[i - 1].start + x[i - 1].bytes
             /\ x[i].frames \in 1 .. MaxChunk
  <2>1. x[i].start = (i - 1) * MaxChunk
    BY <1>3, <1>5, StartBefore DEF n
  <2>2. x[i].frames \in 1 .. MaxChunk
    BY <1>1, <1>3, LeftBefore DEF n
  <2>3. CASE i = 1
    BY <1>2, <2>1, <2>2, <2>3
  <2>4. CASE i # 1
    <3> DEFINE j == i - 1
    <3>1. j \in 1 .. n /\ j < n /\ j - 1 \in Nat /\ (j - 1) + 1 = j /\ n # 1
      BY <1>2, <2>4
    <3>2. \A k \in 1 .. j - 1 : k \notin failed
      BY <1>2, <1>5
    <3> HIDE DEF j
    <3>3. x[j].start = (j - 1) * MaxChunk
      BY <1>3, <3>1, <3>2, StartBefore DEF n
    <3>4. x[j].bytes = MaxChunk
      <4>1. SendLength(len, j) = MaxChunk
        BY <1>1, <3>1, LeftBefore DEF n
      <4>2. QED
        BY <1>2, <1>3, <1>4, <3>1, <4>1
    <3>5. j * MaxChunk = (j - 1) * MaxChunk + MaxChunk
      BY <1>2, <3>1, Products
    <3>6. QED
      BY <2>1, <2>2, <2>4, <3>3, <3>4, <3>5 DEF j
  <2>5. QED
    BY <2>3, <2>4
<1>6. ASSUME failed = {} PROVE x[n].start + x[n].bytes = len * frame
  <2>1. n \in 1 .. n
    BY <1>2
  <2>2. x[n].start = (n - 1) * MaxChunk
    BY <1>3, <1>6, <2>1, StartBefore DEF n
  <2>3. /\ (n - 1) * MaxChunk \in Nat /\ Left(len, n) = 0
        /\ SendLength(len, n) \in Int
        /\ SendLength(len, n) + Left(len, n) = len - (n - 1) * MaxChunk
    BY <1>1, <2>1, LeftBefore DEF n
  <2>4. x[n].bytes = SendLength(len, n) * frame
    BY <1>3, <2>1
  <2>5. CASE frame = 1
    BY <1>1, <2>2, <2>3, <2>4, <2>5
  <2>6. CASE n = 1
    <3>1. (n - 1) * MaxChunk = 0
      BY <1>2, <2>6
    <3>2. SendLength(len, n) = len
      BY <1>1, <2>3, <3>1
    <3>3. len * frame \in Int
      BY <1>1
    <3>4. QED
      BY <2>2, <2>4, <3>1, <3>2, <3>3
  <2>7. QED
    BY <1>4, <2>5, <2>6
<1>7. QED
  BY <1>5, <1>6 DEF x, n

\* A call ends with the length of one of its messages, or before the first.
LastLength == last.length \in Length \cup {0}

LEMMA LastLengthNext == TypeInv /\ LastLength /\ [Next]_vars => LastLength'
<1> SUFFICES ASSUME TypeInv, LastLength, [Next]_vars PROVE LastLength'
  OBVIOUS
<1>1. ASSUME NEW d \in Device, TakeOver(d) PROVE LastLength'
  <2>1. CASE Accepts(config[d])
    BY <1>1, <2>1 DEF TakeOver, LastLength
  <2>2. CASE ~Accepts(config[d])
    <3>1. call[d] \in Calls /\ Remaining(call[d])
      BY <1>1 DEF TakeOver, TypeInv, TypeOK, Calling, Calls
    <3>2. Head(call[d].messages).length \in Length
      BY <3>1, NextMessage DEF Message
    <3>3. last'.length = Head(call[d].messages).length
      BY <1>1, <2>2 DEF TakeOver, Return
    <3>4. QED
      BY <3>2, <3>3 DEF LastLength
  <2>3. QED
    BY <2>1, <2>2
<1>2. ASSUME NEW d \in Device, NEW failed \in Failures(d), Xfer(d, failed)
      PROVE  LastLength'
  <2>1. call[d] \in Calls /\ Remaining(call[d])
    <3>1. pc[d] = "xfer"
      BY <1>2 DEF Xfer
    <3>2. QED
      BY <3>1 DEF TypeInv, TypeOK, Calling, Calls
  <2>2. Head(call[d].messages).length \in Length
    BY <2>1, NextMessage DEF Message
  <2>3. UNCHANGED last \/ last'.length = Head(call[d].messages).length
    BY <1>2 DEF Xfer, Return
  <2>4. QED
    BY <2>2, <2>3 DEF LastLength
<1>3. CASE UNCHANGED last
  BY <1>3 DEF LastLength
<1>4. QED
  BY <1>1, <1>2, <1>3
  DEF Next, DeviceStep, vars, AttachTest, AttachOwn, ConfigureSame, ConfigureNew,
      TakeLock, ConfigureBus, StartCall, StillOwner

(***************************************************************************)
(* The exchanges that spixfer makes of a message cover consecutive bytes   *)
(* of its buffer up to the first that fails, and end where the buffer ends *)
(* if none does, with frames of one byte or for a message that one         *)
(* exchange can hold: for every length below the width of an address,      *)
(* every chunk size and every set of failures.                             *)
(***************************************************************************)
THEOREM PiecesCover == Spec => []ExchangesCoverBuffer
<1> DEFINE Inv == TypeInv /\ LastLength
<1>1. Init => Inv
  BY TypeInit DEF Init, LastLength, NothingDone
<1>2. Inv /\ [Next]_vars => Inv'
  BY TypeNext, LastLengthNext
<1>3. LastLength => ExchangesCoverBuffer
  <2>1. ASSUME last.length = 0 PROVE ChunkCount(last.length) = 0
    <3> DEFINE x == MaxChunk - 1
    <3>1. x \in Nat /\ MaxChunk \in Nat \ {0} /\ x < MaxChunk
      BY ChunkAssumption
    <3>2. 0 + MaxChunk - 1 = x
      BY <3>1
    <3> HIDE DEF x
    <3>3. x \div MaxChunk = 0
      BY <3>1, SMTT(30)
    <3>4. QED
      BY <2>1, <3>2, <3>3 DEF ChunkCount
  <2>2. ASSUME last.length \in Length PROVE ExchangesCoverBuffer
    <3> DEFINE frame == FrameBytes(last.with)
    <3>1. frame \in {1, 2}
      BY DEF FrameBytes
    <3> HIDE DEF frame
    <3>2. CASE ChunkCount(last.length) = 1 \/ frame = 1
      BY <2>2, <3>1, <3>2, Covered DEF ExchangesCoverBuffer, frame
    <3>3. CASE ~(ChunkCount(last.length) = 1 \/ frame = 1)
      BY <3>3 DEF ExchangesCoverBuffer, frame
    <3>4. QED
      BY <3>2, <3>3
  <2>3. QED
    BY <2>1, <2>2 DEF LastLength, ExchangesCoverBuffer
<1>4. QED
  BY <1>1, <1>2, <1>3, PTL DEF Spec

-----------------------------------------------------------------------------
(***************************************************************************)
(* The application.                                                        *)
(***************************************************************************)
\* The device is either not configured or as the application wants it; ready
\* and every step after the configuration mean the latter.
Configures ==
  /\ config[Adc] \in {NoConfig, AdcConfig}
  /\ ready[Adc] => config[Adc] = AdcConfig
  /\ step = "configuring" => config[Adc] = AdcConfig

\* While the application reads, its call is the transfer of all channels.
Reads ==
  step = "reading" =>
    /\ pc[Adc] \in Transferring
    /\ config[Adc] = AdcConfig
    /\ call[Adc] = Transfer(AdcLength)

BusInv == OwnInv /\ FullLengthMeansSuccess

AppInv == BusInv /\ Configures /\ Reads /\ PublishedIsWhole

-----------------------------------------------------------------------------
(***************************************************************************)
(* Every step of the application, of the converter and of the other users  *)
(* is a step of the bus or leaves it alone.                                *)
(***************************************************************************)
LEMMA AppStep == [AppNext]_allVars => [Next]_vars
<1> SUFFICES ASSUME [AppNext]_allVars PROVE [Next]_vars
  OBVIOUS
<1> USE AdcAssumption
<1>1. ASSUME NEW c \in Commands, Begin(c) PROVE UNCHANGED vars
  BY <1>1 DEF Begin
<1>2. CASE ResetPulse
  BY <1>2 DEF ResetPulse
<1>3. CASE AttachOnce
  BY <1>3 DEF AttachOnce, Next, DeviceStep
<1>4. CASE ConfigOnce
  BY <1>4, AcceptedConfigs DEF ConfigOnce, Next, DeviceStep
<1>5. CASE Configured
  BY <1>5 DEF Configured, Next, DeviceStep
<1>6. CASE StartConversion
  BY <1>6 DEF StartConversion
<1>7. CASE WaitConversionDone
  BY <1>7 DEF WaitConversionDone
<1>8. CASE ReadRawBytes
  BY <1>8 DEF ReadRawBytes, Next, DeviceStep
<1>9. ASSUME NEW failed \in Failures(Adc), SampleOnce(failed) PROVE Next
  BY <1>9 DEF SampleOnce, Next, DeviceStep
<1>10. CASE BusSteps
  BY <1>10 DEF BusSteps, Next, DeviceStep
<1>11. CASE ConversionEnds
  BY <1>11 DEF ConversionEnds
<1>12. CASE UNCHANGED allVars
  BY <1>12 DEF allVars
<1>13. QED
  BY <1>1, <1>2, <1>3, <1>4, <1>5, <1>6, <1>7, <1>8, <1>9, <1>10, <1>11, <1>12
  DEF AppNext

(***************************************************************************)
(* The application beside other users behaves as the bus allows: every     *)
(* behaviour of the whole is one of SpiBus.                                *)
(***************************************************************************)
THEOREM AppUsesBus == AppSpec => Spec
<1>1. AppInit => Init
  BY DEF AppInit
<1>2. QED
  BY <1>1, AppStep, PTL DEF AppSpec, Spec

-----------------------------------------------------------------------------
(***************************************************************************)
(* What a step of another device leaves alone.                             *)
(***************************************************************************)
LEMMA OthersStep ==
  ASSUME TypeOK, NEW d \in Device \ {Adc}, DeviceStep(d)
  PROVE  /\ config'[Adc] = config[Adc] /\ ready'[Adc] = ready[Adc]
         /\ pc'[Adc] = pc[Adc] /\ call'[Adc] = call[Adc]
<1> USE AdcAssumption DEF TypeOK, Goto
<1>1. CASE AttachTest(d) \/ AttachOwn(d)
  BY <1>1 DEF AttachTest, AttachOwn
<1>2. CASE ConfigureSame(d) \/ \E c \in Config : ConfigureNew(d, c)
  BY <1>2 DEF ConfigureSame, ConfigureNew
<1>3. CASE TakeLock(d)
  BY <1>3 DEF TakeLock
<1>4. CASE ConfigureBus(d)
  BY <1>4 DEF ConfigureBus
<1>5. ASSUME NEW new, StartCall(d, new)
      PROVE  /\ config'[Adc] = config[Adc] /\ ready'[Adc] = ready[Adc]
             /\ pc'[Adc] = pc[Adc] /\ call'[Adc] = call[Adc]
  BY <1>5 DEF StartCall
<1>6. CASE TakeOver(d)
  BY <1>6 DEF TakeOver, Return
<1>7. CASE StillOwner(d)
  BY <1>7 DEF StillOwner
<1>8. ASSUME NEW failed, Xfer(d, failed)
      PROVE  /\ config'[Adc] = config[Adc] /\ ready'[Adc] = ready[Adc]
             /\ pc'[Adc] = pc[Adc] /\ call'[Adc] = call[Adc]
  BY <1>8 DEF Xfer, Return
<1>9. QED
  BY <1>1, <1>2, <1>3, <1>4, <1>5, <1>6, <1>7, <1>8 DEF DeviceStep

LEMMA BusNext == BusInv /\ [AppNext]_allVars => BusInv'
BY AppStep, OwnNext, FullLengthNext DEF BusInv, LengthInv, OwnInv

LEMMA ConfiguresNext ==
  TypeOK /\ Configures /\ [AppNext]_allVars => Configures'
<1> SUFFICES ASSUME TypeOK, Configures, [AppNext]_allVars PROVE Configures'
  OBVIOUS
<1> USE AdcAssumption DEF TypeOK, Configures, vars
<1>1. ASSUME NEW c \in Commands, Begin(c) PROVE Configures'
  BY <1>1 DEF Begin
<1>2. CASE ResetPulse
  BY <1>2 DEF ResetPulse
<1>3. CASE AttachOnce
  BY <1>3 DEF AttachOnce, AttachTest, AttachOwn
<1>4. CASE ConfigOnce
  BY <1>4 DEF ConfigOnce, ConfigureSame, ConfigureNew, AfterInit
<1>5. CASE Configured
  BY <1>5 DEF Configured, ConfigureBus, AfterInit
<1>6. CASE StartConversion \/ WaitConversionDone \/ ConversionEnds
  BY <1>6 DEF StartConversion, WaitConversionDone, ConversionEnds
<1>7. CASE ReadRawBytes
  BY <1>7 DEF ReadRawBytes, StartCall
<1>8. ASSUME NEW failed \in Failures(Adc), SampleOnce(failed) PROVE Configures'
  BY <1>8 DEF SampleOnce, Xfer
<1>9. CASE BusSteps
  <2>1. ASSUME NEW d \in Device \ {Adc}, DeviceStep(d), UNCHANGED appVars
        PROVE  Configures'
    BY <2>1, OthersStep DEF appVars
  <2>2. CASE (TakeLock(Adc) \/ StillOwner(Adc) \/ TakeOver(Adc)) /\ UNCHANGED appVars
    BY <2>2 DEF appVars, TakeLock, StillOwner, TakeOver
  <2>3. QED
    BY <1>9, <2>1, <2>2 DEF BusSteps
<1>10. CASE UNCHANGED allVars
  BY <1>10 DEF allVars, appVars
<1>11. QED
  BY <1>1, <1>2, <1>3, <1>4, <1>5, <1>6, <1>7, <1>8, <1>9, <1>10 DEF AppNext

LEMMA ReadsNext ==
  TypeOK /\ Configures /\ Reads /\ [AppNext]_allVars => Reads'
<1> SUFFICES ASSUME TypeOK, Configures, Reads, [AppNext]_allVars PROVE Reads'
  OBVIOUS
<1> USE AdcAssumption DEF TypeOK, Reads, vars, Transferring
<1>1. ASSUME NEW c \in Commands, Begin(c) PROVE Reads'
  BY <1>1 DEF Begin
<1>2. CASE ResetPulse
  BY <1>2 DEF ResetPulse
<1>3. CASE AttachOnce
  BY <1>3 DEF AttachOnce
<1>4. CASE ConfigOnce
  BY <1>4 DEF ConfigOnce, AfterInit
<1>5. CASE Configured
  BY <1>5 DEF Configured, AfterInit
<1>6. CASE StartConversion \/ WaitConversionDone \/ ConversionEnds
  BY <1>6 DEF StartConversion, WaitConversionDone, ConversionEnds
<1>7. CASE ReadRawBytes
  BY <1>7 DEF ReadRawBytes, StartCall, Goto, Configures
<1>8. ASSUME NEW failed \in Failures(Adc), SampleOnce(failed) PROVE Reads'
  BY <1>8 DEF SampleOnce
<1>9. CASE BusSteps
  <2>1. ASSUME NEW d \in Device \ {Adc}, DeviceStep(d), UNCHANGED appVars
        PROVE  Reads'
    BY <2>1, OthersStep DEF appVars
  <2>2. CASE TakeLock(Adc) /\ UNCHANGED appVars
    BY <2>2 DEF appVars, TakeLock, Goto
  <2>3. CASE StillOwner(Adc) /\ UNCHANGED appVars
    BY <2>3 DEF appVars, StillOwner, Goto
  <2>4. CASE TakeOver(Adc) /\ UNCHANGED appVars
    BY <2>4 DEF appVars, TakeOver, Goto, Accepts
  <2>5. QED
    BY <1>9, <2>1, <2>2, <2>3, <2>4 DEF BusSteps
<1>10. CASE UNCHANGED allVars
  BY <1>10 DEF allVars, appVars
<1>11. QED
  BY <1>1, <1>2, <1>3, <1>4, <1>5, <1>6, <1>7, <1>8, <1>9, <1>10 DEF AppNext

LEMMA PublishNext ==
  AppInv /\ BusInv' /\ [AppNext]_allVars => PublishedIsWhole'
<1> SUFFICES ASSUME AppInv, BusInv', [AppNext]_allVars PROVE PublishedIsWhole'
  OBVIOUS
<1>1. ASSUME NEW failed \in Failures(Adc), SampleOnce(failed) PROVE PublishedIsWhole'
  <2>1. pc[Adc] = "xfer" /\ config[Adc] = AdcConfig /\ call[Adc] = Transfer(AdcLength)
    BY <1>1 DEF SampleOnce, Xfer, AppInv, Reads
  <2>2. hw = AdcConfig /\ (refused \/ handle.lines = AdcConfig.lines)
    <3>1. hw = AdcConfig /\ (refused \/ handle = HandleFor(AdcConfig))
      BY <2>1, AdcAssumption DEF AppInv, BusInv, OwnInv, OwnConfig
    <3>2. QED
      BY <3>1 DEF HandleFor
  <2>3. /\ Head(call[Adc].messages).length = AdcLength
        /\ Tail(call[Adc].messages) = <<>> /\ call[Adc].kind = "transfer"
    BY <2>1 DEF Transfer
  <2>4. PICK returned : Return(Adc, AdcLength, returned, failed, failed # {})
    BY <1>1, <2>3 DEF SampleOnce, Xfer
  <2>5. /\ last'.kind = "transfer" /\ last'.length = AdcLength
        /\ last'.with = AdcConfig /\ last'.failed = failed
        /\ failed # {} => last'.broken
    BY <2>1, <2>2, <2>3, <2>4 DEF Return
  <2>6. last'.returned = AdcLength => ~last'.broken
    BY <2>5, AdcAssumption DEF BusInv, FullLengthMeansSuccess
  <2>7. CASE ReadAll(last'.returned)
    <3>1. /\ latest'.with = last'.with /\ latest'.broken = last'.broken
          /\ latest'.handle = handle /\ latest'.refused = refused
      BY <1>1, <2>7 DEF SampleOnce
    <3>2. ~last'.broken
      BY <2>6, <2>7 DEF ReadAll
    <3>3. handle.mode = "master"
      <4>1. ChunkCount(AdcLength) \in Nat \ {0}
        BY ChunkBounds, AdcAssumption, SizeAssumption
      <4>2. failed = {}
        BY <2>5, <3>2
      <4>3. call[Adc].messages # <<>>
        BY <2>1 DEF Transfer
      <4>4. 1 \in 1 .. ChunkCount(AdcLength)
        BY <4>1
      <4>5. Exchanging
        BY <1>1, <2>3, <4>2, <4>3, <4>4 DEF Failures
      <4>6. QED
        BY <4>5 DEF Exchanging
    <3>4. QED
      BY <2>2, <2>5, <3>1, <3>2, <3>3 DEF PublishedIsWhole
  <2>8. CASE ~ReadAll(last'.returned)
    BY <1>1, <2>8 DEF SampleOnce, AppInv, PublishedIsWhole
  <2>9. QED
    BY <2>7, <2>8
<1>2. CASE UNCHANGED latest
  BY <1>2 DEF AppInv, PublishedIsWhole
<1>3. QED
  BY <1>1, <1>2
  DEF AppNext, Begin, ResetPulse, AttachOnce, ConfigOnce, Configured, StartConversion,
      WaitConversionDone, ReadRawBytes, BusSteps, ConversionEnds, allVars, appVars

(***************************************************************************)
(* A published sample was read completely and under the application's own  *)
(* configuration, but for the Direction that a refusal may have left,      *)
(* whatever the other devices do and whichever exchanges fail:             *)
(* ad7606_read_raw_bytes may take the length for success, although         *)
(* ad7606_spi_ready may be set by a call that configured nothing.          *)
(***************************************************************************)
THEOREM PublishedWhole == AppSpec => []PublishedIsWhole
<1>1. AppInit => AppInv
  <2> SUFFICES ASSUME AppInit PROVE AppInv
    OBVIOUS
  <2>1. Init /\ step = "shell" /\ latest = NoSample
    BY DEF AppInit
  <2>2. OwnInv
    BY <2>1, OwnInit
  <2>3. FullLengthMeansSuccess
    BY <2>1 DEF Init, FullLengthMeansSuccess, NothingDone
  <2>4. Configures /\ Reads
    BY <2>1, AdcAssumption DEF Init, Configures, Reads
  <2>5. PublishedIsWhole
    BY <2>1 DEF PublishedIsWhole
  <2>6. QED
    BY <2>2, <2>3, <2>4, <2>5 DEF AppInv, BusInv
<1>2. AppInv /\ [AppNext]_allVars => AppInv'
  <2> SUFFICES ASSUME AppInv, [AppNext]_allVars PROVE AppInv'
    OBVIOUS
  <2>1. BusInv'
    BY BusNext DEF AppInv
  <2>2. TypeOK
    BY DEF AppInv, BusInv, OwnInv, TypeInv
  <2>3. QED
    BY <2>1, <2>2, ConfiguresNext, ReadsNext, PublishNext DEF AppInv
<1>3. AppInv => PublishedIsWhole
  BY DEF AppInv
<1>4. QED
  BY <1>1, <1>2, <1>3, PTL DEF AppSpec

-----------------------------------------------------------------------------
(***************************************************************************)
(* Whose conversion it is: a command that found the converter idle, or     *)
(* reset it, starts one of its own, and what it then waits for is that one *)
(* unless it gave up.                                                      *)
(***************************************************************************)
Starting == {"reset", "attach", "configure", "configuring", "convert"}

Fresh ==
  quiet =>
    /\ step \in Starting => busy = "no"
    /\ step = "wait" => busy = "this" \/ (busy = "no" /\ output = "this")
    /\ step \in {"read", "reading"} /\ ~warned => busy = "no" /\ output = "this"

FreshInv == Fresh /\ SampleIsFresh

LEMMA FreshNext == Fresh /\ [AppNext]_allVars => Fresh'
<1> SUFFICES ASSUME Fresh, [AppNext]_allVars PROVE Fresh'
  OBVIOUS
<1> USE DEF Fresh, Starting
<1>1. ASSUME NEW c \in Commands, Begin(c) PROVE Fresh'
  BY <1>1 DEF Begin, Earlier
<1>2. CASE ResetPulse
  BY <1>2 DEF ResetPulse
<1>3. CASE AttachOnce
  BY <1>3 DEF AttachOnce
<1>4. CASE ConfigOnce
  BY <1>4 DEF ConfigOnce, AfterInit
<1>5. CASE Configured
  BY <1>5 DEF Configured, AfterInit
<1>6. CASE StartConversion
  BY <1>6 DEF StartConversion
<1>7. CASE WaitConversionDone
  BY <1>7 DEF WaitConversionDone
<1>8. CASE ReadRawBytes
  BY <1>8 DEF ReadRawBytes
<1>9. ASSUME NEW failed \in Failures(Adc), SampleOnce(failed) PROVE Fresh'
  BY <1>9 DEF SampleOnce
<1>10. CASE ConversionEnds
  BY <1>10 DEF ConversionEnds
<1>11. CASE UNCHANGED appVars
  BY <1>11 DEF appVars
<1>12. QED
  BY <1>1, <1>2, <1>3, <1>4, <1>5, <1>6, <1>7, <1>8, <1>9, <1>10, <1>11
  DEF AppNext, BusSteps, allVars

LEMMA SampleFreshNext == FreshInv /\ [AppNext]_allVars => SampleIsFresh'
<1> SUFFICES ASSUME FreshInv, [AppNext]_allVars PROVE SampleIsFresh'
  OBVIOUS
<1>1. ASSUME NEW failed \in Failures(Adc), SampleOnce(failed) PROVE SampleIsFresh'
  <2>1. CASE UNCHANGED latest
    BY <2>1 DEF FreshInv, SampleIsFresh
  <2>2. CASE ReadAll(last'.returned)
    <3>1. /\ latest'.origin = IF busy = "no" THEN output ELSE "earlier"
          /\ latest'.quiet = quiet /\ latest'.warned = warned
      BY <1>1, <2>2 DEF SampleOnce
    <3>2. quiet /\ ~warned => busy = "no" /\ output = "this"
      BY <1>1 DEF SampleOnce, FreshInv, Fresh
    <3>3. QED
      BY <3>1, <3>2, Zenon DEF SampleIsFresh
  <2>3. QED
    BY <1>1, <2>1, <2>2 DEF SampleOnce
<1>2. CASE UNCHANGED latest
  BY <1>2 DEF FreshInv, SampleIsFresh
<1>3. QED
  BY <1>1, <1>2
  DEF AppNext, Begin, ResetPulse, AttachOnce, ConfigOnce, Configured, StartConversion,
      WaitConversionDone, ReadRawBytes, BusSteps, ConversionEnds, allVars, appVars

(***************************************************************************)
(* A sample without a warning, of a command that began with the converter  *)
(* idle, is of the conversion that command started, whenever conversions   *)
(* end and whatever happens on the bus in between.                         *)
(***************************************************************************)
THEOREM SampleFresh == AppSpec => []SampleIsFresh
<1>1. AppInit => FreshInv
  <2>1. AppInit => Fresh
    BY DEF AppInit, Fresh, Starting
  <2>2. AppInit => SampleIsFresh
    BY DEF AppInit, SampleIsFresh
  <2>3. QED
    BY <2>1, <2>2 DEF FreshInv
<1>2. FreshInv /\ [AppNext]_allVars => FreshInv'
  BY FreshNext, SampleFreshNext DEF FreshInv
<1>3. FreshInv => SampleIsFresh
  BY DEF FreshInv
<1>4. QED
  BY <1>1, <1>2, <1>3, PTL DEF AppSpec
=============================================================================
