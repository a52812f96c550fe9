---------------------------- MODULE GpioIrqProofs ---------------------------
(***************************************************************************)
(* Proofs about GpioIrq for every set of lines, ports, pins and modes: an  *)
(* interrupt is enabled exactly while one of its lines is, and a line used *)
(* by the rules listens to the pin attached to it.                         *)
(***************************************************************************)
EXTENDS GpioIrq, TLAPS

\* The part of the types the other proofs need, and the rest of it.
Typed ==
  /\ tab \in [Line -> Entry \cup {NoEntry}]
  /\ mask \subseteq Line
  /\ exticr \in [Line -> Port]
  /\ edges \in [Line -> SUBSET {"rising", "falling"}]

HandlerTyped ==
  /\ pr \subseteq Line /\ careless \subseteq Line
  /\ nvic \subseteq Irq /\ latched \subseteq Irq
  /\ left \subseteq Line /\ running \subseteq Line

Inv == Typed /\ HandlerTyped /\ InterruptsServeLines /\ EnabledPinListens

-----------------------------------------------------------------------------
(***************************************************************************)
(* The table that names a line's interrupt and the ranges that disable     *)
(* looks at describe the same sharing.                                     *)
(***************************************************************************)
LEMMA RangesMatchTable ==
  ASSUME NEW k \in 0 .. 15, NEW l \in 0 .. 15
  PROVE  k \in SharesInterrupt(l) <=> IrqOf(k) = IrqOf(l)
BY DEF SharesInterrupt, IrqOf

LEMMA EdgesType ==
  ASSUME NEW mode \in Mode
  PROVE  EdgesOf(mode) \in SUBSET {"rising", "falling"}
BY GpioAssumption DEF EdgesOf

-----------------------------------------------------------------------------
LEMMA TypedNext == Typed /\ [Next]_vars => Typed'
<1> SUFFICES ASSUME Typed, [Next]_vars PROVE Typed'
  OBVIOUS
<1> USE GpioAssumption DEF Typed
<1>1. ASSUME NEW p \in Port, NEW l \in Line, NEW mode \in Mode, Attach(p, l, mode)
      PROVE  Typed'
  BY <1>1 DEF Attach, Entry
<1>2. ASSUME NEW p \in Port, NEW l \in Line, Detach(p, l) PROVE Typed'
  BY <1>2 DEF Detach
<1>3. ASSUME NEW p \in Port, NEW l \in Line, Enable(p, l) PROVE Typed'
  <2>1. EdgesOf(tab[l].mode) \in SUBSET {"rising", "falling"}
    BY <1>3, EdgesType DEF Enable, Entry
  <2>2. QED
    BY <1>3, <2>1 DEF Enable
<1>4. ASSUME NEW p \in Port, NEW l \in Line, Disable(p, l) PROVE Typed'
  BY <1>4 DEF Disable, GpioDeInit
<1>5. CASE UNCHANGED <<tab, mask, exticr, edges>>
  BY <1>5
<1>6. QED
  BY <1>1, <1>2, <1>3, <1>4, <1>5 DEF Next, vars, Edge, IsrEnter, IsrLine, HandlerReturn

LEMMA IrqType ==
  ASSUME NEW l \in Line
  PROVE  IrqOf(l) \in Irq
BY GpioAssumption DEF IrqOf, Irq

LEMMA HandlerTypedNext == HandlerTyped /\ [Next]_vars => HandlerTyped'
<1> SUFFICES ASSUME HandlerTyped, [Next]_vars PROVE HandlerTyped'
  OBVIOUS
<1> USE DEF HandlerTyped
<1>1. ASSUME NEW p \in Port, NEW l \in Line, NEW mode \in Mode, Attach(p, l, mode)
      PROVE  HandlerTyped'
  BY <1>1 DEF Attach
<1>2. ASSUME NEW p \in Port, NEW l \in Line, Detach(p, l) PROVE HandlerTyped'
  BY <1>2 DEF Detach, MarkForeign
<1>3. ASSUME NEW p \in Port, NEW l \in Line, Enable(p, l) PROVE HandlerTyped'
  BY <1>3, IrqType DEF Enable, MarkForeign
<1>4. ASSUME NEW p \in Port, NEW l \in Line, Disable(p, l) PROVE HandlerTyped'
  BY <1>4, IrqType DEF Disable, GpioDeInit, MarkForeign
<1>5. ASSUME NEW p \in Port, NEW l \in Line, NEW e, Edge(p, l, e) PROVE HandlerTyped'
  BY <1>5 DEF Edge
<1>6. ASSUME NEW irq, IsrEnter(irq) PROVE HandlerTyped'
  BY <1>6 DEF IsrEnter, LinesOf
<1>7. CASE IsrLine
  BY <1>7 DEF IsrLine
<1>8. CASE HandlerReturn \/ UNCHANGED vars
  BY <1>8 DEF HandlerReturn, vars
<1>9. QED
  BY <1>1, <1>2, <1>3, <1>4, <1>5, <1>6, <1>7, <1>8 DEF Next

(***************************************************************************)
(* Disabling a line keeps the interrupts of all the others.                *)
(***************************************************************************)
LEMMA ServeNext == Typed /\ InterruptsServeLines /\ [Next]_vars => InterruptsServeLines'
<1> SUFFICES ASSUME Typed, InterruptsServeLines, [Next]_vars PROVE InterruptsServeLines'
  OBVIOUS
<1> USE DEF InterruptsServeLines
<1>1. ASSUME NEW p \in Port, NEW l \in Line, Enable(p, l) PROVE InterruptsServeLines'
  BY <1>1 DEF Enable
<1>2. ASSUME NEW p \in Port, NEW l \in Line, Disable(p, l) PROVE InterruptsServeLines'
  <2>1. mask' = mask \ {l} /\ mask \subseteq 0 .. 15 /\ l \in 0 .. 15
    BY <1>2, GpioAssumption DEF Disable, Typed
  <2>2. CASE mask' \cap SharesInterrupt(l) = {}
    <3>1. nvic' = nvic \ {IrqOf(l)}
      BY <1>2, <2>2 DEF Disable
    <3>2. \A k \in mask' : IrqOf(k) # IrqOf(l)
      BY <2>1, <2>2, RangesMatchTable
    <3>3. QED
      BY <2>1, <3>1, <3>2
  <2>3. CASE mask' \cap SharesInterrupt(l) # {}
    <3>1. nvic' = nvic
      BY <1>2, <2>3 DEF Disable
    <3>2. PICK k \in mask' : IrqOf(k) = IrqOf(l)
      BY <2>1, <2>3, RangesMatchTable
    <3>3. QED
      BY <2>1, <3>1, <3>2
  <2>4. QED
    BY <2>2, <2>3
<1>3. CASE UNCHANGED <<mask, nvic>>
  BY <1>3
<1>4. QED
  BY <1>1, <1>2, <1>3
  DEF Next, vars, Attach, Detach, Edge, IsrEnter, IsrLine, HandlerReturn

LEMMA ListenNext == Typed /\ EnabledPinListens /\ [Next]_vars => EnabledPinListens'
<1> SUFFICES ASSUME Typed, EnabledPinListens, [Next]_vars PROVE EnabledPinListens'
  OBVIOUS
<1> USE DEF Typed, EnabledPinListens
<1>1. ASSUME NEW p \in Port, NEW l \in Line, NEW mode \in Mode, Attach(p, l, mode)
      PROVE  EnabledPinListens'
  BY <1>1 DEF Attach
<1>2. ASSUME NEW p \in Port, NEW l \in Line, Detach(p, l) PROVE EnabledPinListens'
  BY <1>2 DEF Detach, MarkForeign
<1>3. ASSUME NEW p \in Port, NEW l \in Line, Enable(p, l) PROVE EnabledPinListens'
  <2>1. EdgesOf(tab[l].mode) \in SUBSET {"rising", "falling"}
    BY <1>3, EdgesType DEF Enable, Entry
  <2>2. QED
    BY <1>3, <2>1 DEF Enable, MarkForeign
<1>4. ASSUME NEW p \in Port, NEW l \in Line, Disable(p, l) PROVE EnabledPinListens'
  BY <1>4 DEF Disable, GpioDeInit, MarkForeign
<1>5. CASE UNCHANGED <<tab, mask, exticr, edges, careless>>
  BY <1>5
<1>6. QED
  BY <1>1, <1>2, <1>3, <1>4, <1>5 DEF Next, vars, Edge, IsrEnter, IsrLine, HandlerReturn

-----------------------------------------------------------------------------
LEMMA InvAlways == Spec => []Inv
<1>1. Init => Inv
  BY GpioAssumption, NoEntryAssumption
     DEF Init, Inv, Typed, HandlerTyped, InterruptsServeLines, EnabledPinListens
<1>2. Inv /\ [Next]_vars => Inv'
  BY TypedNext, HandlerTypedNext, ServeNext, ListenNext DEF Inv
<1>3. QED
  BY <1>1, <1>2, PTL DEF Spec

(***************************************************************************)
(* In every reachable state the table, the registers and the handler in    *)
(* progress have their types; in particular the handler looks at lines in  *)
(* use only.                                                               *)
(***************************************************************************)
THEOREM TypeCorrect == Spec => []TypeOK
<1>1. Inv => TypeOK
  BY DEF Inv, Typed, HandlerTyped, TypeOK
<1>2. QED
  BY <1>1, InvAlways, PTL

(***************************************************************************)
(* In every reachable state exactly the interrupts of the enabled lines    *)
(* are enabled, whichever lines share them.                                *)
(***************************************************************************)
THEOREM Serves == Spec => []InterruptsServeLines
<1>1. Inv => InterruptsServeLines
  BY DEF Inv
<1>2. QED
  BY <1>1, InvAlways, PTL

(***************************************************************************)
(* In every reachable state an enabled line whose users kept the rules     *)
(* listens to its pin and to the edges of its mode.                        *)
(***************************************************************************)
THEOREM Listens == Spec => []EnabledPinListens
<1>1. Inv => EnabledPinListens
  BY DEF Inv
<1>2. QED
  BY <1>1, InvAlways, PTL
=============================================================================
