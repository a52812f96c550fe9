------------------------------- MODULE GpioIrq ------------------------------
(***************************************************************************)
(* Pin interrupts (drv_gpio.c over the HAL): a table of one entry per EXTI *)
(* line, which the pins of that number of all ports share, and interrupts  *)
(* which lines share in turn. attach, detach, enable and disable run with  *)
(* interrupts off, so each is one step, taken by a thread or by a handler  *)
(* that an interrupt has called. Edges come at any time.                   *)
(***************************************************************************)
EXTENDS Naturals

CONSTANTS
  Line,        \* the EXTI lines in use
  Port,
  Pin,         \* the pins in use, a port and a line each
  ResetPort,   \* the port EXTICR selects after a reset, GPIOA
  Mode,        \* the irq modes used
  NoEntry

ASSUME GpioAssumption ==
  /\ Line \subseteq 0 .. 15
  /\ ResetPort \in Port /\ Pin \subseteq Port \X Line
  /\ Mode \subseteq {"rising", "falling", "rising_falling"}

Entry == [port : Port, mode : Mode]
ASSUME NoEntryAssumption == NoEntry \notin Entry

VARIABLES
  tab,       \* tab[l]: pin_irq_hdr_tab[l]; a handler is known by its pin
  mask,      \* pin_irq_enable_mask
  nvic,      \* the interrupts enabled in the NVIC
  latched,   \* those pending in the NVIC though no line requests them now
  exticr,    \* exticr[l]: the port whose pin drives line l
  edges,     \* edges[l]: the edges it detects (RTSR, FTSR; IMR unless empty)
  pr,        \* the lines pending in the EXTI
  left,      \* the lines the interrupt in progress has still to look at
  running,   \* the line whose handler it has called, as a set
  careless   \* history: lines whose user broke the rules below

vars == <<tab, mask, nvic, latched, exticr, edges, pr, left, running, careless>>

EdgesOf(mode) ==
  CASE mode = "rising" -> {"rising"}
    [] mode = "falling" -> {"falling"}
    [] mode = "rising_falling" -> {"rising", "falling"}

IrqOfOwn(l) == l    \* mutation of IrqOf: as if every line had its vector

\* pin_irq_map: an interrupt is named after its first line.
IrqOf(l) == CASE l \in 0 .. 4 -> l [] l \in 5 .. 9 -> 5 [] l \in 10 .. 15 -> 10

Irq == 0 .. 5 \cup {10}

TypeOK ==
  /\ tab \in [Line -> Entry \cup {NoEntry}]
  /\ mask \subseteq Line /\ pr \subseteq Line /\ careless \subseteq Line
  /\ nvic \subseteq Irq /\ latched \subseteq Irq
  /\ exticr \in [Line -> Port]
  /\ edges \in [Line -> SUBSET {"rising", "falling"}]
  /\ left \subseteq Line /\ running \subseteq Line

Init ==
  /\ tab = [l \in Line |-> NoEntry]
  /\ mask = {} /\ nvic = {} /\ latched = {}
  /\ exticr = [l \in Line |-> ResetPort]
  /\ edges = [l \in Line |-> {}]
  /\ pr = {} /\ left = {} /\ running = {} /\ careless = {}

\* No interrupt is in progress, or it is executing a handler.
CallerRuns == left = {} \/ running # {}

-----------------------------------------------------------------------------
(***************************************************************************)
(* The operations for the pin of port p on line l.                         *)
(***************************************************************************)
AttachOver(p, l, mode) ==    \* mutation of Attach: no test of the entry
  /\ CallerRuns
  /\ tab' = [tab EXCEPT ![l] = [port |-> p, mode |-> mode]]
  /\ UNCHANGED <<mask, nvic, latched, exticr, edges, pr, left, running, careless>>

\* stm32_pin_attach_irq; on an entry in use it changes nothing and returns
\* RT_EOK if it is the same, else RT_EBUSY.
Attach(p, l, mode) ==
  /\ CallerRuns
  /\ tab[l] = NoEntry
  /\ tab' = [tab EXCEPT ![l] = [port |-> p, mode |-> mode]]
  /\ UNCHANGED <<mask, nvic, latched, exticr, edges, pr, left, running, careless>>

\* The rules: a user acts for a pin only while its attach stands, ...
MarkForeign(p, l) ==
  careless' = IF tab[l] # NoEntry /\ tab[l].port = p THEN careless
              ELSE careless \cup {l}

\* stm32_pin_dettach_irq; ... and disables the pin before it detaches it.
Detach(p, l) ==
  /\ CallerRuns
  /\ tab[l] # NoEntry
  /\ tab' = [tab EXCEPT ![l] = NoEntry]
  /\ IF l \in mask THEN careless' = careless \cup {l} ELSE MarkForeign(p, l)
  /\ UNCHANGED <<mask, nvic, latched, exticr, edges, pr, left, running>>

\* stm32_pin_irq_enable(PIN_IRQ_ENABLE), with HAL_GPIO_Init.
Enable(p, l) ==
  /\ CallerRuns
  /\ tab[l] # NoEntry
  /\ exticr' = [exticr EXCEPT ![l] = p]
  /\ edges' = [edges EXCEPT ![l] = EdgesOf(tab[l].mode)]
  /\ nvic' = nvic \cup {IrqOf(l)}
  /\ mask' = mask \cup {l}
  /\ MarkForeign(p, l)
  /\ UNCHANGED <<tab, latched, pr, left, running>>

\* HAL_GPIO_DeInit touches a line only if it is driven by a pin of port p.
GpioDeInit(p, l) ==
  IF exticr[l] = p
  THEN /\ exticr' = [exticr EXCEPT ![l] = ResetPort]
       /\ edges' = [edges EXCEPT ![l] = {}]
       /\ latched' = IF l \in pr /\ edges[l] # {} THEN latched \cup {IrqOf(l)} ELSE latched
  ELSE UNCHANGED <<exticr, edges, latched>>

SharesOff(l) == CASE l \in 5 .. 8 -> 5 .. 8 [] l \in 10 .. 15 -> 10 .. 15 [] OTHER -> {l}
  \* mutation of SharesInterrupt: GPIO_PIN_9 is missing

\* The masks of lines by which disable decides about the NVIC.
SharesInterrupt(l) ==
  CASE l \in 5 .. 9 -> 5 .. 9 [] l \in 10 .. 15 -> 10 .. 15 [] OTHER -> {l}

\* stm32_pin_irq_enable(PIN_IRQ_DISABLE).
Disable(p, l) ==
  /\ CallerRuns
  /\ GpioDeInit(p, l)
  /\ mask' = mask \ {l}
  /\ nvic' = IF mask' \cap SharesInterrupt(l) = {} THEN nvic \ {IrqOf(l)} ELSE nvic
  /\ MarkForeign(p, l)
  /\ UNCHANGED <<tab, pr, left, running>>

-----------------------------------------------------------------------------
(***************************************************************************)
(* The hardware and the interrupt handlers.                                *)
(***************************************************************************)
Edge(p, l, e) ==
  /\ exticr[l] = p /\ e \in edges[l] /\ l \notin pr
  /\ pr' = pr \cup {l}
  /\ UNCHANGED <<tab, mask, nvic, latched, exticr, edges, left, running, careless>>

Requested(irq) ==
  irq \in latched \/ \E l \in pr : IrqOf(l) = irq /\ edges[l] # {}

LinesSkipped(irq) ==    \* mutation of LinesOf: the last line is left out
  {l \in Line : IrqOf(l) = irq /\ \E k \in Line : IrqOf(k) = irq /\ l < k}

\* The lines an EXTI handler looks at.
LinesOf(irq) == {l \in Line : IrqOf(l) = irq}

IsrEnter(irq) ==
  /\ left = {} /\ running = {}
  /\ irq \in nvic /\ Requested(irq)
  /\ left' = LinesOf(irq)
  /\ latched' = latched \ {irq}
  /\ UNCHANGED <<tab, mask, nvic, exticr, edges, pr, running, careless>>

\* HAL_GPIO_EXTI_IRQHandler and pin_irq_hdr, for the next line in ascending
\* order: an empty entry is passed over.
IsrLine ==
  /\ running = {}
  /\ \E l \in left :
       /\ \A k \in left : l <= k
       /\ left' = left \ {l}
       /\ pr' = pr \ {l}
       /\ running' = IF l \in pr /\ tab[l] # NoEntry THEN {l} ELSE {}
  /\ UNCHANGED <<tab, mask, nvic, latched, exticr, edges, careless>>

HandlerReturn ==
  /\ running # {}
  /\ running' = {}
  /\ UNCHANGED <<tab, mask, nvic, latched, exticr, edges, pr, left, careless>>

Next ==
  \/ \E p \in Port, l \in Line : 
       /\ <<p, l>> \in Pin
       /\ \/ \E mode \in Mode : Attach(p, l, mode)
          \/ Detach(p, l) \/ Enable(p, l) \/ Disable(p, l)
          \/ \E e \in {"rising", "falling"} : Edge(p, l, e)
  \/ \E l \in Line : IsrEnter(IrqOf(l))
  \/ IsrLine \/ HandlerReturn

(***************************************************************************)
(* Handlers return, and an interrupt that is requested again and again is  *)
(* taken; nothing makes edges come or users act.                           *)
(***************************************************************************)
Fairness ==
  /\ WF_vars(IsrLine \/ HandlerReturn)
  /\ \A l \in Line : SF_vars(IsrEnter(IrqOf(l)))

Spec == Init /\ [][Next]_vars /\ Fairness

-----------------------------------------------------------------------------
(***************************************************************************)
(* An interrupt is enabled exactly while one of its lines is: disabling a  *)
(* pin never silences another one that shares its interrupt, and the last  *)
(* one does disable it. The table that enable uses and the ranges that     *)
(* disable uses agree, whatever pins and ports users mix up.               *)
(***************************************************************************)
InterruptsServeLines == nvic = {IrqOf(l) : l \in mask}

(***************************************************************************)
(* While the users of a line act only for the pin they have attached and   *)
(* disable it before they detach it, an enabled line listens to that pin   *)
(* and to the edges its entry asks for: a second pin on the line is told   *)
(* RT_EBUSY and cannot take it over.                                       *)
(***************************************************************************)
EnabledPinListens ==
  \A l \in mask \ careless :
    /\ tab[l] # NoEntry
    /\ exticr[l] = tab[l].port
    /\ edges[l] = EdgesOf(tab[l].mode)

(***************************************************************************)
(* A pending edge of an enabled line is looked at, unless the line is      *)
(* disabled first: also when it comes while the handler of a neighbour     *)
(* runs or after the handler has passed its line, and on an empty entry,   *)
(* where a forgotten line would call the interrupt for ever.               *)
(***************************************************************************)
EdgeIsAnswered == \A l \in Line : l \in pr /\ l \in mask ~> l \notin pr \/ l \notin mask
=============================================================================
