------------------------- MODULE SerialRxFifoProofs -------------------------
(***************************************************************************)
(* Proofs about the receive buffer, for every buffer size, every set of    *)
(* characters and every number of arrivals.                                *)
(***************************************************************************)
EXTENDS SerialRxFifo, TLAPS

(***************************************************************************)
(* The inductive invariant. A pass in progress has stored at least one     *)
(* character and no reader runs until it ends, so something is unread.     *)
(***************************************************************************)
PassHasStored == isr = "loop" => Count >= 1

IInv == TypeOK /\ UnreadIsSuffix /\ PassHasStored

\* An index that is advanced by one and wrapped is again an index.
LEMMA WrapInSlots ==
  ASSUME NEW i \in Nat, i <= 2 * bufsz - 1
  PROVE  Wrap(i) \in Slots
BY BufszAssumption DEF Wrap, Slots

\* The number of unread characters is at most bufsz, and is 0 exactly when
\* the reader finds the buffer empty.
LEMMA CountBounds ==
  ASSUME TypeOK
  PROVE  /\ Count \in 0 .. bufsz
         /\ (Count = 0) <=> (get_index = put_index /\ ~is_full)
BY BufszAssumption DEF TypeOK, Count, RxLength, Slots

\* The fields of a state that the definitions about it depend on.
LEMMA SameFifo ==
  ASSUME UNCHANGED fifo
  PROVE  Count' = Count /\ Unread' = Unread
BY DEF fifo, Count, RxLength, Unread, Wrap

(***************************************************************************)
(* Storing a character: it becomes the last unread one, after the old      *)
(* unread characters, or alone if the buffer was full.                     *)
(***************************************************************************)
LEMMA GetcCount ==
  ASSUME TypeOK, NEW ch \in Byte, IsrGetc(ch)
  PROVE  Count' = IF Count = bufsz THEN 1 ELSE Count + 1
<1>. DEFINE p == put_index
            g == get_index
            w == Wrap(put_index + 1)
<1>1. /\ p \in Slots /\ g \in Slots /\ bufsz \in Nat \ {0}
      /\ w = IF p + 1 >= bufsz THEN p + 1 - bufsz ELSE p + 1
  BY BufszAssumption DEF TypeOK, Wrap
<1>2. put_index' = w /\ get_index' = g
  BY DEF IsrGetc
<1>3. is_full' <=> (is_full \/ w = g)
  BY DEF IsrGetc, FullAfterPut
<1>. HIDE DEF p, g, w
<1>4. RxLength = IF p >= g THEN p - g ELSE bufsz - (g - p)
  BY DEF RxLength, p, g
<1>5. RxLength' = IF w >= g THEN w - g ELSE bufsz - (g - w)
  BY <1>2 DEF RxLength
<1>6. Count = IF p = g /\ is_full THEN bufsz ELSE RxLength
  BY DEF Count, p, g
<1>7. Count' = IF w = g /\ is_full' THEN bufsz ELSE RxLength'
  BY <1>2 DEF Count
<1>8. CASE w = g
  <2>1. Count' = bufsz
    BY <1>3, <1>7, <1>8
  <2>2. RxLength = bufsz - 1
    BY <1>1, <1>4, <1>8 DEF Slots
  <2>3. CASE p = g
    <3>1. bufsz = 1
      BY <1>1, <1>8, <2>3 DEF Slots
    <3>. QED BY <2>1, <2>2, <3>1, <1>6
  <2>4. CASE p # g
    BY <1>1, <2>1, <2>2, <2>4, <1>6
  <2>. QED BY <2>3, <2>4
<1>9. CASE w # g
  <2>1. Count' = RxLength'
    BY <1>7, <1>9
  <2>2. CASE p = g /\ is_full
    BY <1>1, <1>5, <1>6, <1>9, <2>1, <2>2 DEF Slots
  <2>3. CASE ~(p = g /\ is_full)
    <3>1. Count = RxLength
      BY <1>6, <2>3
    <3>2. RxLength' = RxLength + 1 /\ RxLength # bufsz
      BY <1>1, <1>4, <1>5, <1>9 DEF Slots
    <3>. QED BY <3>1, <3>2, <2>1
  <2>. QED BY <2>2, <2>3
<1>. QED BY <1>8, <1>9

LEMMA GetcUnread ==
  ASSUME TypeOK, NEW ch \in Byte, IsrGetc(ch)
  PROVE  /\ Unread'[Count'] = ch
         /\ \A i \in 1 .. Count' - 1 : Unread'[i] = Unread[i]
<1>. Count \in 0 .. bufsz /\ Count' = IF Count = bufsz THEN 1 ELSE Count + 1
  BY CountBounds, GetcCount
<1>1. \A i \in 1 .. Count' : Unread'[i] = buffer'[Wrap(get_index + i - 1)]
  BY DEF Unread, IsrGetc, Wrap
<1>2. Wrap(get_index + Count' - 1) = put_index
  BY BufszAssumption DEF TypeOK, IsrGetc, Count, RxLength, Slots, Wrap
<1>3. \A i \in 1 .. Count' - 1 :
         /\ Wrap(get_index + i - 1) \in Slots
         /\ Wrap(get_index + i - 1) # put_index
  BY BufszAssumption DEF TypeOK, IsrGetc, Count, RxLength, Slots, Wrap
<1>4. Unread'[Count'] = ch
  BY <1>1, <1>2, BufszAssumption DEF TypeOK, IsrGetc
<1>5. \A i \in 1 .. Count' - 1 : Unread'[i] = Unread[i]
  <2>. SUFFICES ASSUME NEW i \in 1 .. Count' - 1
                PROVE  Unread'[i] = Unread[i]
    OBVIOUS
  <2>1. i \in 1 .. Count /\ i \in 1 .. Count'
    BY BufszAssumption
  <2>2. Unread[i] = buffer[Wrap(get_index + i - 1)]
    BY <2>1 DEF Unread
  <2>3. buffer'[Wrap(get_index + i - 1)] = buffer[Wrap(get_index + i - 1)]
    BY <1>3 DEF IsrGetc, TypeOK
  <2>. QED BY <1>1, <2>1, <2>2, <2>3
<1>. QED BY <1>4, <1>5

\* Reading a character: the rest moves up by one.
LEMMA ReadUnread ==
  ASSUME TypeOK, ReadChar
  PROVE  /\ Count >= 1
         /\ Count' = Count - 1
         /\ read' = <<Unread[1]>>
         /\ \A i \in 1 .. Count' : Unread'[i] = Unread[i + 1]
<1>1. Count \in 1 .. bufsz
  BY CountBounds, BufszAssumption DEF ReadChar
<1>2. Count' = Count - 1
  BY BufszAssumption DEF TypeOK, ReadChar, Count, RxLength, Slots, Wrap
<1>3. read' = <<Unread[1]>>
  BY <1>1, BufszAssumption DEF TypeOK, ReadChar, Unread, Wrap, Slots
<1>4. \A i \in 1 .. Count' : Unread'[i] = Unread[i + 1]
  <2>. SUFFICES ASSUME NEW i \in 1 .. Count'
                PROVE  Unread'[i] = Unread[i + 1]
    OBVIOUS
  <2>1. Wrap(Wrap(get_index + 1) + i - 1) = Wrap(get_index + (i + 1) - 1)
    BY <1>1, <1>2, BufszAssumption DEF TypeOK, Wrap, Slots
  <2>2. Unread'[i] = buffer'[Wrap(get_index' + i - 1)]
    BY DEF Unread, Wrap
  <2>3. Unread[i + 1] = buffer[Wrap(get_index + (i + 1) - 1)]
    BY <1>1, <1>2 DEF Unread
  <2>. QED BY <2>1, <2>2, <2>3 DEF ReadChar
<1>. QED BY <1>1, <1>2, <1>3, <1>4
-----------------------------------------------------------------------------
LEMMA InitInv == Init => IInv
<1>. SUFFICES ASSUME Init PROVE IInv
  OBVIOUS
<1>1. TypeOK
  <2>1. buffer \in [Slots -> Byte]
    BY ByteAssumption DEF Init
  <2>2. put_index \in Slots /\ get_index \in Slots /\ rx_length \in Slots
    BY BufszAssumption DEF Init, Slots
  <2>3. read \in Seq(Byte) /\ arrived \in Seq(Byte)
    BY DEF Init
  <2>4. is_full \in BOOLEAN /\ isr \in {"idle", "loop"}
    BY DEF Init
  <2>. QED BY <2>1, <2>2, <2>3, <2>4 DEF TypeOK
<1>2. Count = 0
  BY DEF Init, Count, RxLength
<1>. QED BY <1>1, <1>2 DEF IInv, UnreadIsSuffix, PassHasStored, Init

LEMMA NextType == TypeOK /\ [Next]_vars => TypeOK'
<1>. SUFFICES ASSUME TypeOK, [Next]_vars PROVE TypeOK'
  OBVIOUS
<1>1. ASSUME NEW ch \in Byte, IsrGetc(ch) PROVE TypeOK'
  <2>1. Wrap(put_index + 1) \in Slots
    BY WrapInSlots, BufszAssumption DEF TypeOK, Slots
  <2>. QED BY <1>1, <2>1 DEF TypeOK, IsrGetc, FullAfterPut
<1>2. CASE IsrIndicate
  <2>1. RxLength \in Slots
    BY BufszAssumption DEF TypeOK, RxLength, Slots
  <2>. QED BY <1>2, <2>1 DEF TypeOK, IsrIndicate, fifo
<1>3. CASE ReadEmpty
  BY <1>3 DEF TypeOK, ReadEmpty, fifo
<1>4. CASE ReadChar
  <2>1. Wrap(get_index + 1) \in Slots
    BY WrapInSlots, BufszAssumption DEF TypeOK, Slots
  <2>2. read' \in Seq(Byte)
    BY <1>4 DEF TypeOK, ReadChar
  <2>. QED BY <1>4, <2>1, <2>2 DEF TypeOK, ReadChar
<1>5. CASE UNCHANGED vars
  BY <1>5 DEF TypeOK, vars, fifo
<1>. QED BY <1>1, <1>2, <1>3, <1>4, <1>5 DEF Next

LEMMA NextSuffix == IInv /\ [Next]_vars => UnreadIsSuffix' /\ PassHasStored'
<1>. SUFFICES ASSUME IInv, [Next]_vars PROVE UnreadIsSuffix' /\ PassHasStored'
  OBVIOUS
<1>. USE DEF IInv
<1>0. Count \in 0 .. bufsz /\ Len(arrived) \in Nat
  BY CountBounds DEF TypeOK
<1>1. ASSUME NEW ch \in Byte, IsrGetc(ch)
      PROVE  UnreadIsSuffix' /\ PassHasStored'
  <2>1. Count' = IF Count = bufsz THEN 1 ELSE Count + 1
    BY <1>1, GetcCount
  <2>2. /\ Len(arrived') = Len(arrived) + 1
        /\ arrived'[Len(arrived) + 1] = ch
        /\ \A j \in 1 .. Len(arrived) : arrived'[j] = arrived[j]
    BY <1>1 DEF IsrGetc, TypeOK
  <2>3. Count' \in 1 .. Len(arrived')
    BY <2>1, <2>2, <1>0, BufszAssumption DEF UnreadIsSuffix
  <2>4. ASSUME NEW i \in 1 .. Count'
        PROVE  Unread'[i] = arrived'[Len(arrived') - Count' + i]
    <3>1. CASE i = Count'
      <4>1. Len(arrived') - Count' + i = Len(arrived) + 1
        BY <3>1, <1>0, <2>2, <2>3
      <4>2. Unread'[Count'] = ch
        BY <1>1, GetcUnread
      <4>. QED BY <3>1, <4>1, <4>2, <2>2
    <3>2. CASE i # Count'
      <4>1. Count' = Count + 1 /\ i \in 1 .. Count /\ i \in 1 .. Count' - 1
        BY <3>2, <2>1, <1>0, BufszAssumption
      <4>2. Unread'[i] = Unread[i]
        BY <4>1, <1>1, GetcUnread
      <4>3. Unread[i] = arrived[Len(arrived) - Count + i]
        BY <4>1 DEF UnreadIsSuffix
      <4>4. Len(arrived) - Count + i \in 1 .. Len(arrived)
        BY <4>1, <1>0 DEF UnreadIsSuffix
      <4>. QED BY <4>1, <4>2, <4>3, <4>4, <2>2, <1>0
    <3>. QED BY <3>1, <3>2
  <2>. QED BY <2>3, <2>4, <2>2, <1>0 DEF UnreadIsSuffix, PassHasStored
<1>2. CASE IsrIndicate
  BY <1>2, SameFifo DEF IsrIndicate, UnreadIsSuffix, PassHasStored
<1>3. CASE ReadEmpty
  BY <1>3, SameFifo DEF ReadEmpty, UnreadIsSuffix, PassHasStored
<1>4. CASE ReadChar
  <2>1. arrived' = arrived /\ isr' = "idle"
    BY <1>4 DEF ReadChar
  <2>2. Count >= 1 /\ Count' = Count - 1
    BY <1>4, ReadUnread
  <2>3. ASSUME NEW i \in 1 .. Count'
        PROVE  Unread'[i] = arrived'[Len(arrived') - Count' + i]
    <3>1. Unread'[i] = Unread[i + 1]
      BY <1>4, ReadUnread
    <3>2. i + 1 \in 1 .. Count
      BY <2>2, <1>0
    <3>3. Unread[i + 1] = arrived[Len(arrived) - Count + (i + 1)]
      BY <3>2 DEF UnreadIsSuffix
    <3>. QED BY <3>1, <3>3, <2>1, <2>2, <1>0
  <2>. QED BY <2>1, <2>2, <2>3, <1>0 DEF UnreadIsSuffix, PassHasStored
<1>5. CASE UNCHANGED vars
  BY <1>5, SameFifo DEF vars, UnreadIsSuffix, PassHasStored
<1>. QED BY <1>1, <1>2, <1>3, <1>4, <1>5 DEF Next

LEMMA Invariance == Spec => []IInv
<1>1. IInv /\ [Next]_vars => IInv'
  BY NextType, NextSuffix DEF IInv
<1>. QED BY <1>1, InitInv, PTL DEF Spec
-----------------------------------------------------------------------------
\* The indexes stay inside the buffer and every slot holds a character.
THEOREM TypeCorrect == Spec => []TypeOK
<1>1. IInv => TypeOK
  BY DEF IInv
<1>. QED BY <1>1, Invariance, PTL

\* The unread characters are the most recent arrivals, in order, without gap.
THEOREM UnreadSuffix == Spec => []UnreadIsSuffix
<1>1. IInv => UnreadIsSuffix
  BY DEF IInv
<1>. QED BY <1>1, Invariance, PTL

\* A handler pass omits rx_indicate only when it leaves the buffer exactly full.
THEOREM SilentPass == Spec => SilentPassOnlyWhenFull
<1>1. IInv /\ [Next]_vars =>
        [isr = "loop" /\ isr' = "idle" /\ rx_length' = 0 =>
            put_index = get_index /\ Count = bufsz]_vars
  <2>. SUFFICES ASSUME IInv, Next, isr = "loop", isr' = "idle", rx_length' = 0
                PROVE  put_index = get_index /\ Count = bufsz
    BY DEF vars
  <2>1. IsrIndicate
    BY DEF Next, IsrGetc, ReadEmpty, ReadChar
  <2>2. RxLength = 0 /\ Count >= 1
    BY <2>1 DEF IsrIndicate, IInv, PassHasStored
  <2>. QED BY <2>2, BufszAssumption DEF IInv, TypeOK, Count, RxLength, Slots
<1>. QED BY <1>1, Invariance, PTL DEF Spec, SilentPassOnlyWhenFull
-----------------------------------------------------------------------------
UnreadIsSeq == Unread \in Seq(Byte) /\ Len(Unread) = Count

LEMMA UnreadTyped == TypeOK => UnreadIsSeq
<1>. SUFFICES ASSUME TypeOK PROVE UnreadIsSeq
  OBVIOUS
<1>1. Count \in Nat
  BY CountBounds, BufszAssumption
<1>2. \A i \in 1 .. Count : Unread[i] \in Byte
  <2>. SUFFICES ASSUME NEW i \in 1 .. Count PROVE Unread[i] \in Byte
    OBVIOUS
  <2>1. get_index + i - 1 \in Nat /\ get_index + i - 1 <= 2 * bufsz - 1
    BY CountBounds, BufszAssumption DEF TypeOK, Slots
  <2>2. Wrap(get_index + i - 1) \in Slots
    BY <2>1, WrapInSlots
  <2>. QED BY <2>2 DEF Unread, TypeOK
<1>. QED BY <1>1, <1>2 DEF Unread, UnreadIsSeq

LEMMA StepRefines ==
  ASSUME IInv, UnreadIsSeq, UnreadIsSeq', Next
  PROVE  LQ!Next \/ UNCHANGED <<Unread, read>>
<1>. USE DEF IInv
<1>0. /\ Unread \in Seq(Byte) /\ Len(Unread) = Count
      /\ Unread' \in Seq(Byte) /\ Len(Unread') = Count'
  BY DEF UnreadIsSeq
<1>1. ASSUME NEW ch \in Byte, IsrGetc(ch) PROVE LQ!Next
  <2>1. Count' = IF Count = bufsz THEN 1 ELSE Count + 1
    BY <1>1, GetcCount
  <2>2. Unread'[Count'] = ch /\ \A i \in 1 .. Count' - 1 : Unread'[i] = Unread[i]
    BY <1>1, GetcUnread
  <2>3. Unread' = IF Len(Unread) = bufsz THEN <<ch>> ELSE Append(Unread, ch)
    BY <1>0, <2>1, <2>2, CountBounds
  <2>. QED BY <1>1, <2>3 DEF LQ!Next, LQ!Put, IsrGetc
<1>2. CASE IsrIndicate
  BY <1>2, SameFifo DEF IsrIndicate
<1>3. CASE ReadEmpty
  <2>1. Unread = <<>>
    BY <1>3, <1>0, CountBounds DEF ReadEmpty
  <2>. QED BY <1>3, <2>1, SameFifo DEF ReadEmpty, LQ!Next, LQ!GetNothing
<1>4. CASE ReadChar
  <2>1. /\ Count >= 1 /\ Count' = Count - 1 /\ read' = <<Unread[1]>>
        /\ \A i \in 1 .. Count' : Unread'[i] = Unread[i + 1]
    BY <1>4, ReadUnread
  <2>2. Unread # <<>> /\ Head(Unread) = Unread[1]
    BY <1>0, <2>1
  <2>3. Unread' = Tail(Unread)
    BY <1>0, <2>1, <2>2
  <2>. QED BY <2>1, <2>2, <2>3 DEF LQ!Next, LQ!Get
<1>. QED BY <1>1, <1>2, <1>3, <1>4 DEF Next

(***************************************************************************)
(* The buffer implements the lossy queue of the same capacity, whatever    *)
(* its size, the characters and the interleaving of handler and reader.    *)
(***************************************************************************)
THEOREM Refinement == Spec => ImplementsLossyQueue
<1>1. Init => LQ!Init
  <2>. SUFFICES ASSUME Init PROVE LQ!Init
    OBVIOUS
  <2>1. Count = 0
    BY DEF Init, Count, RxLength
  <2>2. Unread = <<>>
    BY <2>1 DEF Unread
  <2>. QED BY <2>2 DEF LQ!Init, Init
<1>2. IInv /\ UnreadIsSeq /\ UnreadIsSeq' /\ [Next]_vars => [LQ!Next]_(LQ!vars)
  <2>. SUFFICES ASSUME IInv, UnreadIsSeq, UnreadIsSeq', [Next]_vars
                PROVE  [LQ!Next]_(LQ!vars)
    OBVIOUS
  <2>1. CASE Next
    BY <2>1, StepRefines DEF LQ!vars
  <2>2. CASE UNCHANGED vars
    BY <2>2, SameFifo DEF vars, LQ!vars
  <2>. QED BY <2>1, <2>2
<1>3. IInv => UnreadIsSeq
  BY UnreadTyped DEF IInv
<1>. QED BY <1>1, <1>2, <1>3, Invariance, PTL DEF Spec, ImplementsLossyQueue, LQ!Spec
=============================================================================
