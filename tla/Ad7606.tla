-------------------------------- MODULE Ad7606 ------------------------------
(***************************************************************************)
(* The AD7606 application (ad7606_app.c), run by the shell, on a bus that  *)
(* it shares with other devices, and the converter behind it: a conversion *)
(* that has not finished when the busy wait gives up goes on, and the next *)
(* start pulse is ignored while it does.                                   *)
(* Conversions are told apart only by who started them: the command in     *)
(* progress ("this") or one before it ("earlier").                         *)
(***************************************************************************)
EXTENDS SpiBus

CONSTANTS
  Adc,              \* the device of the application
  AdcConfig,        \* the configuration it asks for
  AdcLength         \* 16: two characters of each channel

ASSUME AdcAssumption ==
  Adc \in Device /\ AdcConfig \in Accepted /\ AdcLength \in Length \ {RT_EIO}

VARIABLES
  command,   \* the shell command in progress
  step,      \* where it is
  busy,      \* whose conversion is in progress, if any
  output,    \* whose result the converter will send
  quiet,     \* history: the converter was idle when the command began
  warned,    \* the busy wait of this command has given up
  latest     \* ad7606_latest and what it came from

appVars == <<command, step, busy, output, quiet, warned, latest>>
allVars == <<vars, appVars>>

Commands == {"init", "read", "reset"}
AppSteps == {"shell", "reset", "attach", "configure", "configuring",
             "convert", "wait", "read", "reading"}

NoSample == [origin |-> "earlier", quiet |-> FALSE, warned |-> FALSE,
             with |-> NoConfig, handle |-> ZeroHandle, refused |-> FALSE,
             broken |-> FALSE]

AppTypeOK ==
  /\ command \in Commands /\ step \in AppSteps
  /\ busy \in {"no", "this", "earlier"} /\ output \in {"this", "earlier"}
  /\ quiet \in BOOLEAN /\ warned \in BOOLEAN
  /\ step = "reading" => ready[Adc]

AppInit ==
  /\ Init
  /\ command = "read" /\ step = "shell"
  /\ busy = "no" /\ output = "earlier"
  /\ quiet = TRUE /\ warned = FALSE
  /\ latest = NoSample

Earlier(who) == IF who = "this" THEN "earlier" ELSE who

-----------------------------------------------------------------------------
(***************************************************************************)
(* The commands. ad7606_sample_once initialises only if ad7606_spi_ready,  *)
(* which ready[Adc] is, is not set.                                        *)
(***************************************************************************)
Begin(c) ==
  /\ step = "shell"
  /\ command' = c
  /\ step' = IF c = "read" /\ ready[Adc] THEN "convert" ELSE "reset"
  /\ busy' = Earlier(busy) /\ output' = "earlier"
  /\ quiet' = (busy = "no") /\ warned' = FALSE
  /\ UNCHANGED <<vars, latest>>

\* ad7606_reset_pulse: ends a conversion that is in progress.
ResetPulse ==
  /\ step = "reset"
  /\ busy' = "no" /\ quiet' = TRUE
  /\ step' = IF command = "reset" THEN "shell" ELSE "attach"
  /\ UNCHANGED <<vars, command, output, warned, latest>>

\* ad7606_spi_attach_once; the device is found the second time.
AttachOnce ==
  /\ step = "attach"
  /\ IF pc[Adc] = "idle" THEN step' = "configure" /\ UNCHANGED vars
     ELSE (AttachTest(Adc) \/ AttachOwn(Adc)) /\ UNCHANGED step
  /\ UNCHANGED <<command, busy, output, quiet, warned, latest>>

AfterInit == IF command = "read" THEN "convert" ELSE "shell"

\* ad7606_spi_config_once.
ConfigOnce ==
  /\ step = "configure"
  /\ \/ /\ config[Adc] = AdcConfig
        /\ ConfigureSame(Adc)
        /\ step' = AfterInit
     \/ /\ ConfigureNew(Adc, AdcConfig)
        /\ step' = "configuring"
  /\ UNCHANGED <<command, busy, output, quiet, warned, latest>>

\* On -RT_EBUSY the command fails; the next one tries again.
Configured ==
  /\ step = "configuring"
  /\ ConfigureBus(Adc)
  /\ step' = IF ready'[Adc] THEN AfterInit ELSE "shell"
  /\ UNCHANGED <<command, busy, output, quiet, warned, latest>>

StartConversion ==
  /\ step = "convert"
  /\ busy' = IF busy = "no" THEN "this" ELSE busy
  /\ step' = "wait"
  /\ UNCHANGED <<vars, command, output, quiet, warned, latest>>

WaitForNothing ==    \* mutation of WaitConversionDone: BUSY is not looked at
  /\ step = "wait"
  /\ step' = "read"
  /\ UNCHANGED <<vars, command, busy, output, quiet, warned, latest>>

\* ad7606_wait_conversion_done: BUSY is low, or a thousand polls are over.
WaitConversionDone ==
  /\ step = "wait"
  /\ step' = "read"
  /\ warned' = (busy # "no")
  /\ UNCHANGED <<vars, command, busy, output, quiet, latest>>

ReadRawBytes ==
  /\ step = "read"
  /\ StartCall(Adc, Transfer(AdcLength))
  /\ step' = "reading"
  /\ UNCHANGED <<command, busy, output, quiet, warned, latest>>

AnyLength(result) == result >= 0    \* mutation of ReadAll: errors are < 0

\* What ad7606_read_raw_bytes takes for success.
ReadAll(result) == result = AdcLength

\* The end of the transfer, and of ad7606_sample_once: only a complete read
\* becomes the latest sample. The converter changes its output in the middle
\* if a conversion ends then, so that what is read counts as earlier.
SampleOnce(failed) ==
  /\ step = "reading"
  /\ Xfer(Adc, failed)
  /\ step' = "shell"
  /\ latest' = IF ReadAll(last'.returned)
               THEN [origin |-> IF busy = "no" THEN output ELSE "earlier",
                     quiet |-> quiet, warned |-> warned,
                     with |-> last'.with, handle |-> handle, refused |-> refused,
                     broken |-> last'.broken]
               ELSE latest
  /\ UNCHANGED <<command, busy, output, quiet, warned>>

-----------------------------------------------------------------------------
BusSteps ==
  /\ \/ TakeLock(Adc) \/ StillOwner(Adc) \/ TakeOver(Adc)
     \/ \E d \in Device \ {Adc} : DeviceStep(d)
  /\ UNCHANGED appVars

ConversionEnds ==
  /\ busy # "no"
  /\ output' = busy /\ busy' = "no"
  /\ UNCHANGED <<vars, command, step, quiet, warned, latest>>

AppNext ==
  \/ \E c \in Commands : Begin(c)
  \/ ResetPulse \/ AttachOnce \/ ConfigOnce \/ Configured
  \/ StartConversion \/ WaitConversionDone \/ ReadRawBytes
  \/ \E failed \in Failures(Adc) : SampleOnce(failed)
  \/ BusSteps \/ ConversionEnds

AppSpec == AppInit /\ [][AppNext]_allVars

-----------------------------------------------------------------------------
(***************************************************************************)
(* Whatever the other devices do to the bus, and although a failed         *)
(* exchange and a refused configuration both come back as numbers that are *)
(* not negative, and the flag ad7606_spi_ready may stem from a call that   *)
(* configured nothing (the retry after -RT_EBUSY): a published sample was  *)
(* read completely, by a master, and under the application's own           *)
(* configuration, but for the Direction that a refusal may have left.      *)
(***************************************************************************)
PublishedIsWhole ==
  latest # NoSample =>
    /\ latest.with = AdcConfig /\ ~latest.broken
    /\ latest.handle.mode = "master"
    /\ latest.refused \/ latest.handle.lines = AdcConfig.lines

(***************************************************************************)
(* A sample is of the conversion its own command started if the busy wait  *)
(* did not give up and the converter was idle when the command began. The  *)
(* second condition cannot be left out: after a wait that gave up the next *)
(* command may read the late result without a warning.                     *)
(***************************************************************************)
SampleIsFresh ==
  latest.quiet /\ ~latest.warned /\ latest # NoSample => latest.origin = "this"
=============================================================================
