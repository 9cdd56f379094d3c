------------------------------ MODULE UartProofs ------------------------------
(***************************************************************************)
(* Theorems about UartMux.  For any ring size and any streams of bytes the *)
(* rings of the two devices implement LossyQueue, although GetNext() reads *)
(* a slot before it knows that there is something in it and the interrupt  *)
(* may come in between.  For any even ring size the couples of the         *)
(* Raspberry are routed right: what its ring holds is related, byte by     *)
(* byte, to the couples due, and the loop's place to the parity of slots.  *)
(***************************************************************************)
EXTENDS UartMux, SequenceTheorems, TLAPS

USE RingAssumption

-----------------------------------------------------------------------------
(* What the operations of a ring do to the bytes it holds. *)

SlotOf(r, i) ==
  IF r.get + i - 1 < BUFFER_SIZE THEN r.get + i - 1 ELSE r.get + i - 1 - BUFFER_SIZE

LEMMA RingFields ==
  ASSUME NEW B, NEW r \in Ring(B)
  PROVE  /\ r.buf \in [Slots -> B] /\ r.put \in Slots /\ r.get \in Slots
         /\ r.put \in Int /\ r.get \in Int
         /\ 0 <= r.put /\ r.put < BUFFER_SIZE /\ 0 <= r.get /\ r.get < BUFFER_SIZE
         /\ Backlog(r) \in 0 .. BUFFER_SIZE - 1
         /\ Backlog(r) = 0 <=> r.get = r.put
  BY DEF Ring, Slots, Backlog

LEMMA SlotOfInSlots ==
  ASSUME NEW B, NEW r \in Ring(B), NEW i \in 1 .. BUFFER_SIZE
  PROVE  SlotOf(r, i) \in Slots
  BY RingFields DEF SlotOf, Slots

LEMMA HeldIs ==
  ASSUME NEW B, NEW r \in Ring(B)
  PROVE  /\ Held(r) \in Seq(B)
         /\ Len(Held(r)) = Backlog(r)
         /\ \A i \in 1 .. Backlog(r) : Held(r)[i] = r.buf[SlotOf(r, i)]
<1>1. Backlog(r) \in 0 .. BUFFER_SIZE - 1 /\ Backlog(r) \in Nat
  BY RingFields
<1>2. \A i \in 1 .. Backlog(r) : SlotOf(r, i) \in Slots
  BY <1>1, SlotOfInSlots
<1>3. \A i \in 1 .. Backlog(r) : r.buf[SlotOf(r, i)] \in B
  BY <1>2, RingFields
<1>4. Held(r) = [i \in 1 .. Backlog(r) |-> r.buf[SlotOf(r, i)]]
  BY DEF Held, SlotOf
<1>5. Held(r) \in [1 .. Backlog(r) -> B]
  BY <1>3, <1>4
<1>6. Held(r) \in Seq(B)
  BY <1>1, <1>5, SeqDef
<1>7. Len(Held(r)) = Backlog(r)
  BY <1>1, <1>5, <1>6, LenProperties
<1> QED
  BY <1>4, <1>6, <1>7

LEMMA NewRingIsEmpty ==
  ASSUME NEW B, 0 \in B
  PROVE  NewRing \in Ring(B) /\ Held(NewRing) = <<>>
<1>1. NewRing \in Ring(B)
  BY DEF NewRing, Ring, Slots
<1>2. Backlog(NewRing) = 0
  BY DEF NewRing, Backlog
<1> QED
  BY <1>1, <1>2, HeldIs, EmptySeq

LEMMA EmptyHoldsNothing ==
  ASSUME NEW B, NEW r \in Ring(B)
  PROVE  IsEmpty(r) <=> Held(r) = <<>>
<1>1. IsEmpty(r) <=> Backlog(r) = 0
  BY RingFields DEF IsEmpty
<1> QED
  BY <1>1, HeldIs, EmptySeq, RingFields

LEMMA AppendFields ==
  ASSUME NEW B, NEW r \in Ring(B), NEW b \in B
  PROVE  /\ AppendBuffer(r, b) \in Ring(B)
         /\ AppendBuffer(r, b).buf = [r.buf EXCEPT ![r.put] = b]
         /\ AppendBuffer(r, b).put = Wrap(r.put + 1)
         /\ AppendBuffer(r, b).get = r.get
<1> DEFINE nb == [r.buf EXCEPT ![r.put] = b]
           np == Wrap(r.put + 1)
<1>1. nb \in [Slots -> B] /\ np \in Slots
  BY RingFields DEF Wrap, Slots
<1>2. AppendBuffer(r, b) = [r EXCEPT !.buf = nb, !.put = np]
  BY DEF AppendBuffer
<1> HIDE DEF nb, np
<1>3. [r EXCEPT !.buf = nb, !.put = np] \in Ring(B)
  BY <1>1 DEF Ring
<1>4. LET s == [r EXCEPT !.buf = nb, !.put = np]
      IN  s.buf = nb /\ s.put = np /\ s.get = r.get
  BY DEF Ring
<1> QED
  BY <1>2, <1>3, <1>4 DEF nb, np

(* A byte that does not fill the ring is queued.. *)
LEMMA AppendQueues ==
  ASSUME NEW B, NEW r \in Ring(B), NEW b \in B, Backlog(r) + 1 < BUFFER_SIZE
  PROVE  /\ AppendBuffer(r, b) \in Ring(B)
         /\ ~IsEmpty(AppendBuffer(r, b))
         /\ Held(AppendBuffer(r, b)) = Append(Held(r), b)
<1> DEFINE s == AppendBuffer(r, b)
<1>1. /\ s.buf = [r.buf EXCEPT ![r.put] = b] /\ s.put = Wrap(r.put + 1) /\ s.get = r.get
      /\ s \in Ring(B)
  BY AppendFields
<1>2. Backlog(s) = Backlog(r) + 1
  BY <1>1, RingFields DEF Backlog, Wrap
<1>3. ~IsEmpty(s)
  BY <1>1, <1>2, RingFields DEF IsEmpty
<1>4. \A i \in 1 .. Backlog(r) : SlotOf(s, i) = SlotOf(r, i) /\ SlotOf(r, i) # r.put
  BY <1>1, RingFields DEF SlotOf, Backlog
<1>5. SlotOf(s, Backlog(r) + 1) = r.put
  BY <1>1, RingFields DEF SlotOf, Backlog
<1>6. Append(Held(r), b) \in Seq(B) /\ Len(Append(Held(r), b)) = Backlog(r) + 1
  BY HeldIs, RingFields
<1>7. \A i \in 1 .. Backlog(r) + 1 : Held(s)[i] = Append(Held(r), b)[i]
  <2> SUFFICES ASSUME NEW i \in 1 .. Backlog(r) + 1 PROVE Held(s)[i] = Append(Held(r), b)[i]
    OBVIOUS
  <2>1. Held(s)[i] = s.buf[SlotOf(s, i)]
    BY <1>1, <1>2, HeldIs
  <2>2. CASE i = Backlog(r) + 1
    <3>1. Append(Held(r), b)[i] = b
      BY <2>2, HeldIs, RingFields
    <3>2. s.buf[r.put] = b
      BY <1>1, RingFields
    <3> QED
      BY <2>1, <2>2, <3>1, <3>2, <1>5
  <2>3. CASE i \in 1 .. Backlog(r)
    <3>1. Append(Held(r), b)[i] = Held(r)[i]
      BY <2>3, HeldIs, RingFields
    <3>2. SlotOf(r, i) \in Slots /\ SlotOf(s, i) = SlotOf(r, i) /\ SlotOf(r, i) # r.put
      BY <2>3, <1>4, SlotOfInSlots, RingFields
    <3>3. s.buf[SlotOf(r, i)] = r.buf[SlotOf(r, i)]
      BY <1>1, <3>2, RingFields
    <3> QED
      BY <2>1, <2>3, <3>1, <3>2, <3>3, HeldIs
  <2>4. i = Backlog(r) + 1 \/ i \in 1 .. Backlog(r)
    BY RingFields
  <2> QED
    BY <2>2, <2>3, <2>4
<1>8. Held(s) \in Seq(B) /\ Len(Held(s)) = Backlog(r) + 1
  BY <1>1, <1>2, HeldIs
<1>9. Held(s) = Append(Held(r), b)
  BY <1>6, <1>7, <1>8, SeqEqual
<1> QED
  BY <1>1, <1>3, <1>9

(* ..and one that fills it makes it empty. *)
LEMMA AppendForgets ==
  ASSUME NEW B, NEW r \in Ring(B), NEW b \in B, ~(Backlog(r) + 1 < BUFFER_SIZE)
  PROVE  /\ AppendBuffer(r, b) \in Ring(B)
         /\ IsEmpty(AppendBuffer(r, b))
         /\ Held(AppendBuffer(r, b)) = <<>>
         /\ Len(Held(r)) + 1 = BUFFER_SIZE
<1> DEFINE s == AppendBuffer(r, b)
<1>1. /\ s.buf = [r.buf EXCEPT ![r.put] = b] /\ s.put = Wrap(r.put + 1) /\ s.get = r.get
      /\ s \in Ring(B)
  BY AppendFields
<1>2. IsEmpty(s)
  BY <1>1, RingFields DEF Backlog, Wrap, IsEmpty
<1>3. Len(Held(r)) + 1 = BUFFER_SIZE
  BY HeldIs, RingFields
<1> QED
  BY <1>1, <1>2, <1>3, EmptyHoldsNothing

(* GetNext() takes the head of what is held. *)
LEMMA AdvanceTakes ==
  ASSUME NEW B, NEW r \in Ring(B)
  PROVE  /\ Advance(r) \in Ring(B)
         /\ IsEmpty(r) => Advance(r) = r
         /\ ~IsEmpty(r) => /\ Held(r) # <<>>
                           /\ Head(Held(r)) = r.buf[r.get]
                           /\ Held(Advance(r)) = Tail(Held(r))
<1>1. CASE IsEmpty(r)
  BY <1>1 DEF Advance
<1>2. CASE ~IsEmpty(r)
  <2> DEFINE s == Advance(r)
  <2>1. s.buf = r.buf /\ s.put = r.put /\ s.get = Wrap(r.get + 1) /\ s \in Ring(B)
    BY <1>2, RingFields DEF Advance, Ring, Wrap, Slots
  <2>2. Backlog(s) = Backlog(r) - 1 /\ Backlog(r) > 0
    BY <1>2, <2>1, RingFields DEF Backlog, Wrap, IsEmpty
  <2>3. \A i \in 1 .. Backlog(r) - 1 : SlotOf(s, i) = SlotOf(r, i + 1)
    BY <2>1, RingFields DEF SlotOf, Wrap
  <2>4. Held(r) # <<>>
    BY <1>2, EmptyHoldsNothing
  <2>5. Head(Held(r)) = r.buf[r.get]
    <3>1. SlotOf(r, 1) = r.get
      BY RingFields DEF SlotOf
    <3>2. Head(Held(r)) = Held(r)[1]
      BY <2>4, HeldIs
    <3>3. Held(r)[1] = r.buf[SlotOf(r, 1)]
      BY <2>2, HeldIs, RingFields
    <3> QED
      BY <3>1, <3>2, <3>3
  <2>6. /\ Tail(Held(r)) \in Seq(B) /\ Len(Tail(Held(r))) = Backlog(r) - 1
        /\ \A i \in 1 .. Backlog(r) - 1 : Tail(Held(r))[i] = Held(r)[i + 1]
    BY <2>4, HeldIs, HeadTailProperties
  <2>7. ASSUME NEW i \in 1 .. Backlog(r) - 1 PROVE Held(s)[i] = Tail(Held(r))[i]
    <3>1. Held(s)[i] = r.buf[SlotOf(s, i)]
      BY <2>1, <2>2, HeldIs
    <3>2. i + 1 \in 1 .. Backlog(r)
      BY RingFields
    <3>3. Held(r)[i + 1] = r.buf[SlotOf(r, i + 1)]
      BY <3>2, HeldIs
    <3> QED
      BY <2>3, <2>6, <3>1, <3>3
  <2>8. Held(s) \in Seq(B) /\ Len(Held(s)) = Backlog(r) - 1
    BY <2>1, <2>2, HeldIs
  <2>9. Held(s) = Tail(Held(r))
    BY <2>6, <2>7, <2>8, SeqEqual
  <2> QED
    BY <1>2, <2>1, <2>4, <2>5, <2>9
<1> QED
  BY <1>1, <1>2

-----------------------------------------------------------------------------
(* The inductive invariant. *)
Data == Symbol \cup {0}
At(k) == pc = <<"peek", k>> \/ pc = <<"take", k>>

(* Only data get into the rings of the devices. *)
DeviceData == \A k \in Device : ring[k] \in Ring(Data) /\ (pc = <<"take", k>> => c \in Data)

(* What the loop found ready stays so, and what it peeked stays the head, as
   long as the ring is not lapped. *)
FoundReady == \A k \in Device : At(k) => torn[k] \/ ~IsEmpty(ring[k])
PeekedHead == \A k \in Device : pc = <<"take", k>> => torn[k] \/ c = ring[k].buf[ring[k].get]

IInv == TypeOK /\ DeviceData /\ FoundReady /\ PeekedHead

LEMMA Initially == Init => IInv
<1> SUFFICES ASSUME Init PROVE IInv
  OBVIOUS
<1>1. NewRing \in Ring(Byte) /\ NewRing \in Ring(Data)
  BY NewRingIsEmpty DEF Byte, Data
<1>2. /\ ring \in [1 .. 3 -> Ring(Byte)]
      /\ torn \in [1 .. 3 -> BOOLEAN]
      /\ stray \in BOOLEAN
  BY <1>1 DEF Init
<1>3. /\ pc \in {"test", "peek", "take"} \X (1 .. 3)
      /\ dev \in {0} \cup Device
      /\ c \in Byte
      /\ couple \in 0 .. 2
      /\ due \in Seq(Device \X Symbol)
  BY DEF Init, Byte
<1>4. fresh \in [1 .. 3 -> Symbol] /\ out \in {Nothing} \cup (1 .. 3) \X Byte \X (0 .. 3)
  BY MuxAssumption DEF Init
<1>5. TypeOK
  BY <1>2, <1>3, <1>4 DEF TypeOK
<1>6. DeviceData /\ FoundReady /\ PeekedHead
  BY <1>1 DEF Init, DeviceData, FoundReady, PeekedHead, At, Device
<1> QED
  BY <1>5, <1>6 DEF IInv

(* The interrupt: at most it laps a reader, and then says so. *)
LEMMA StoreEffect ==
  ASSUME IInv, NEW k \in 1 .. 3, NEW b \in Byte, Store(k, b)
  PROVE  /\ ring' \in [1 .. 3 -> Ring(Byte)] /\ torn' \in [1 .. 3 -> BOOLEAN]
         /\ ring'[k] = AppendBuffer(ring[k], b)
         /\ \A j \in 1 .. 3 \ {k} : ring'[j] = ring[j] /\ torn'[j] = torn[j]
         /\ torn'[k] <=> torn[k] \/ (IsEmpty(ring'[k]) /\ At(k))
<1>1. ring \in [1 .. 3 -> Ring(Byte)] /\ torn \in [1 .. 3 -> BOOLEAN]
  BY DEF IInv, TypeOK
<1>2. AppendBuffer(ring[k], b) \in Ring(Byte)
  BY <1>1, AppendFields
<1>3. ring' = [ring EXCEPT ![k] = AppendBuffer(ring[k], b)]
  BY DEF Store
<1>4. torn' = [torn EXCEPT ![k] = torn[k] \/ (IsEmpty(ring'[k]) /\ pc \in {<<"peek", k>>, <<"take", k>>})]
  BY DEF Store
<1>5. torn' \in [1 .. 3 -> BOOLEAN]
  BY <1>1, <1>4
<1>6. torn'[k] = (torn[k] \/ (IsEmpty(ring'[k]) /\ pc \in {<<"peek", k>>, <<"take", k>>}))
  BY <1>1, <1>4
<1> QED
  BY <1>1, <1>2, <1>3, <1>4, <1>5, <1>6 DEF At

LEMMA StoreKeepsIInv ==
  ASSUME IInv, NEW k \in 1 .. 3, NEW b \in Byte, Store(k, b),
         k \in Device => b \in Symbol
  PROVE  DeviceData' /\ FoundReady' /\ PeekedHead'
<1> SUFFICES ASSUME NEW j \in Device
             PROVE  /\ ring'[j] \in Ring(Data) /\ (pc' = <<"take", j>> => c' \in Data)
                    /\ At(j)' => torn'[j] \/ ~IsEmpty(ring'[j])
                    /\ pc' = <<"take", j>> => torn'[j] \/ c' = ring'[j].buf[ring'[j].get]
  BY DEF DeviceData, FoundReady, PeekedHead
<1>1. j \in 1 .. 3 /\ pc' = pc /\ c' = c
  BY DEF Device, Store
<1>2. /\ ring[j] \in Ring(Data) /\ (pc = <<"take", j>> => c \in Data)
      /\ At(j) => torn[j] \/ ~IsEmpty(ring[j])
      /\ pc = <<"take", j>> => torn[j] \/ c = ring[j].buf[ring[j].get]
  BY DEF IInv, DeviceData, FoundReady, PeekedHead
<1>3. CASE j # k
  BY <1>1, <1>2, <1>3, StoreEffect DEF At
<1>4. CASE j = k
  <2>1. ring'[j] = AppendBuffer(ring[j], b) /\ (torn'[j] <=> torn[j] \/ (IsEmpty(ring'[j]) /\ At(j)))
    BY <1>4, StoreEffect
  <2>2. b \in Data
    BY <1>4 DEF Data
  <2>3. /\ ring'[j] \in Ring(Data) /\ ring'[j].get = ring[j].get
        /\ ring'[j].buf = [ring[j].buf EXCEPT ![ring[j].put] = b]
    BY <1>2, <2>1, <2>2, AppendFields
  <2>4. At(j)' => torn'[j] \/ ~IsEmpty(ring'[j])
    BY <1>1, <2>1 DEF At
  <2>5. ASSUME pc' = <<"take", j>>, ~torn'[j] PROVE c' = ring'[j].buf[ring'[j].get]
    <3>1. ~torn[j] /\ At(j)
      BY <1>1, <2>1, <2>5 DEF At
    <3>2. c = ring[j].buf[ring[j].get] /\ ring[j].get # ring[j].put
      BY <1>1, <1>2, <2>5, <3>1 DEF IsEmpty
    <3>3. ring'[j].buf[ring[j].get] = ring[j].buf[ring[j].get]
      BY <1>2, <2>3, <3>2, RingFields
    <3> QED
      BY <1>1, <2>3, <3>2, <3>3
  <2> QED
    BY <1>1, <1>2, <2>3, <2>4, <2>5
<1> QED
  BY <1>3, <1>4

LEMMA SourcesKeepTypes ==
  ASSUME IInv, NEW k \in 1 .. 3, NEW b \in Byte, Store(k, b),
         fresh' \in [1 .. 3 -> Symbol], couple' \in 0 .. 2, due' \in Seq(Device \X Symbol)
  PROVE  TypeOK'
<1>1. ring' \in [1 .. 3 -> Ring(Byte)] /\ torn' \in [1 .. 3 -> BOOLEAN]
  BY StoreEffect
<1>2. out' = Nothing /\ pc' = pc /\ dev' = dev /\ c' = c /\ stray' = stray
  BY DEF Store
<1> QED
  BY <1>1, <1>2 DEF IInv, TypeOK

LEMMA FreshData == ASSUME IInv, NEW k \in 1 .. 3
                   PROVE  fresh[k] \in Symbol /\ (NextFresh(k) => fresh' \in [1 .. 3 -> Symbol])
  BY MuxAssumption DEF IInv, TypeOK, NextFresh

LEMMA DeviceKeepsIInv == ASSUME IInv, NEW k \in Talking, FromDevice(k) PROVE IInv'
<1>1. k \in Device /\ k \in 1 .. 3 /\ fresh[k] \in Symbol /\ fresh[k] \in Byte
  BY MuxAssumption, FreshData DEF Device, Byte
<1>2. Store(k, fresh[k]) /\ fresh' \in [1 .. 3 -> Symbol] /\ couple' = couple /\ due' = due
  BY <1>1, FreshData DEF FromDevice
<1>3. couple' \in 0 .. 2 /\ due' \in Seq(Device \X Symbol)
  BY <1>2 DEF IInv, TypeOK
<1> QED
  BY <1>1, <1>2, <1>3, SourcesKeepTypes, StoreKeepsIInv DEF IInv

LEMMA RaspberryKeepsIInv == ASSUME IInv, FromRaspberry PROVE IInv'
<1>1. 1 \in 1 .. 3 /\ 1 \notin Device /\ fresh[1] \in Symbol /\ due \in Seq(Device \X Symbol)
  BY FreshData DEF Device, IInv, TypeOK
<1>2. CASE couple # 0
  <2>1. Store(1, fresh[1]) /\ fresh' \in [1 .. 3 -> Symbol] /\ couple' = 0 /\ due' = due
    BY <1>1, <1>2, FreshData DEF FromRaspberry
  <2>2. fresh[1] \in Byte /\ couple' \in 0 .. 2 /\ due' \in Seq(Device \X Symbol)
    BY <1>1, <2>1 DEF Byte
  <2>3. TypeOK'
    BY <1>1, <2>1, <2>2, SourcesKeepTypes
  <2> QED
    BY <1>1, <2>1, <2>2, <2>3, StoreKeepsIInv DEF IInv
<1>3. CASE couple = 0
  <2>1. PICK a \in {1, 2} : /\ Store(1, a) /\ couple' = a /\ fresh' = fresh
                            /\ due' = Append(due, <<a + 1, fresh[1]>>)
    BY <1>3 DEF FromRaspberry
  <2>2. <<a + 1, fresh[1]>> \in Device \X Symbol
    BY <1>1 DEF Device
  <2>3. due' \in Seq(Device \X Symbol)
    BY <1>1, <2>1, <2>2
  <2>4. fresh' \in [1 .. 3 -> Symbol]
    BY <2>1 DEF IInv, TypeOK
  <2>5. couple' \in 0 .. 2 /\ a \in Byte
    BY <2>1 DEF Byte
  <2> QED
    BY <1>1, <2>1, <2>3, <2>4, <2>5, SourcesKeepTypes, StoreKeepsIInv DEF IInv
<1> QED
  BY <1>2, <1>3

-----------------------------------------------------------------------------
(* The steps of the loop. *)
LEMMA NextTestIs == ASSUME NEW k \in 1 .. 3
                    PROVE  \E j \in 1 .. 3 : NextTest(k) = <<"test", j>>
<1>1. CASE k = 3
  BY <1>1 DEF NextTest
<1>2. CASE k # 3
  BY <1>2 DEF NextTest
<1> QED
  BY <1>1, <1>2

LEMMA ReadyIsNotEmpty == ASSUME IInv, NEW k \in Device, Ready(k) PROVE ~IsEmpty(ring[k])
<1>1. ring[k] \in Ring(Data) /\ k # 1
  BY DEF IInv, DeviceData, Device
<1> QED
  BY <1>1, RingFields DEF Ready, DataAvailable, IsEmpty

LEMMA TestKeepsIInv == ASSUME IInv, NEW k \in 1 .. 3, Test(k) PROVE IInv'
<1>1. /\ ring' = ring /\ dev' = dev /\ c' = c /\ fresh' = fresh
      /\ couple' = couple /\ due' = due /\ torn' = torn /\ stray' = stray
  BY DEF Test
<1>2. out' \in {Nothing} \cup (1 .. 3) \X Byte \X (0 .. 3)
  <2>1. CASE Ready(k) /\ k # 1
    <3>1. out' = <<1, k - 1, 0>> /\ k - 1 \in Byte
      BY <2>1 DEF Test, Byte
    <3> QED
      BY <3>1
  <2>2. CASE ~(Ready(k) /\ k # 1)
    BY <2>2 DEF Test
  <2> QED
    BY <2>1, <2>2
<1>3. CASE Ready(k)
  <2>1. pc' = <<"peek", k>>
    BY <1>3 DEF Test
  <2>2. TypeOK'
    BY <1>1, <1>2, <2>1 DEF IInv, TypeOK
  <2>3. FoundReady'
    BY <1>1, <1>3, <2>1, ReadyIsNotEmpty DEF FoundReady, At
  <2>4. DeviceData' /\ PeekedHead'
    BY <1>1, <2>1 DEF IInv, DeviceData, PeekedHead
  <2> QED
    BY <2>2, <2>3, <2>4 DEF IInv
<1>4. CASE ~Ready(k)
  <2>1. PICK j \in 1 .. 3 : pc' = <<"test", j>>
    BY <1>4, NextTestIs DEF Test
  <2>2. TypeOK'
    BY <1>1, <1>2, <2>1 DEF IInv, TypeOK
  <2>3. DeviceData' /\ FoundReady' /\ PeekedHead'
    BY <1>1, <2>1 DEF IInv, DeviceData, FoundReady, PeekedHead, At
  <2> QED
    BY <2>2, <2>3 DEF IInv
<1> QED
  BY <1>3, <1>4

LEMMA PeekKeepsIInv == ASSUME IInv, NEW k \in 1 .. 3, Peek(k) PROVE IInv'
<1>1. /\ ring' = ring /\ dev' = dev /\ fresh' = fresh /\ out' = Nothing
      /\ couple' = couple /\ due' = due /\ torn' = torn /\ stray' = stray
      /\ pc = <<"peek", k>> /\ pc' = <<"take", k>> /\ c' = ring[k].buf[ring[k].get]
  BY DEF Peek
<1>2. c' \in Byte
  <2>1. ring[k] \in Ring(Byte)
    BY DEF IInv, TypeOK
  <2> QED
    BY <1>1, <2>1, RingFields
<1>3. TypeOK'
  BY <1>1, <1>2 DEF IInv, TypeOK
<1>4. DeviceData'
  <2>1. k \in Device => c' \in Data
    BY <1>1, RingFields DEF IInv, DeviceData
  <2> QED
    BY <1>1, <2>1 DEF IInv, DeviceData
<1>5. FoundReady' /\ PeekedHead'
  BY <1>1 DEF IInv, FoundReady, PeekedHead, At
<1> QED
  BY <1>3, <1>4, <1>5 DEF IInv

LEMMA TakeEffect ==
  ASSUME IInv, NEW k \in 1 .. 3, TakeFrom(k)
  PROVE  /\ ring' \in [1 .. 3 -> Ring(Byte)] /\ torn' \in [1 .. 3 -> BOOLEAN]
         /\ ring'[k] = Advance(ring[k]) /\ ~torn'[k]
         /\ \A j \in 1 .. 3 \ {k} : ring'[j] = ring[j] /\ torn'[j] = torn[j]
         /\ \A j \in Device : ring'[j] \in Ring(Data)
         /\ Taken(k) \in Byte /\ (k \in Device => Taken(k) \in Data)
<1>1. ring \in [1 .. 3 -> Ring(Byte)] /\ torn \in [1 .. 3 -> BOOLEAN] /\ c \in Byte
  BY DEF IInv, TypeOK
<1>2. Advance(ring[k]) \in Ring(Byte)
  BY <1>1, AdvanceTakes
<1>3. ring' = [ring EXCEPT ![k] = Advance(ring[k])] /\ torn' = [torn EXCEPT ![k] = FALSE]
      /\ pc = <<"take", k>>
  BY DEF TakeFrom
<1>4. \A j \in Device : ring[j] \in Ring(Data) /\ j \in 1 .. 3
  BY DEF IInv, DeviceData, Device
<1>5. k \in Device => Advance(ring[k]) \in Ring(Data) /\ c \in Data
  BY <1>3, <1>4, AdvanceTakes DEF IInv, DeviceData
<1>6. Taken(k) \in Byte /\ (k \in Device => Taken(k) \in Data)
  BY <1>1, <1>5 DEF Taken, Byte, Data
<1> QED
  BY <1>1, <1>2, <1>3, <1>4, <1>5, <1>6

(* After a take the loop is at no device's ring. *)
LEMMA TakeKeepsIInv ==
  ASSUME IInv, NEW k \in 1 .. 3, TakeFrom(k),
         pc' = <<"peek", 1>> \/ \E j \in 1 .. 3 : pc' = <<"test", j>>,
         dev' \in {0} \cup Device, due' \in Seq(Device \X Symbol),
         out' \in {Nothing} \cup (1 .. 3) \X Byte \X (0 .. 3)
  PROVE  IInv'
<1>1. c' = 0 /\ fresh' = fresh /\ couple' = couple /\ stray' = stray
  BY DEF TakeFrom
<1>2. pc' \in {"test", "peek", "take"} \X (1 .. 3)
  OBVIOUS
<1>3. TypeOK'
  BY <1>1, <1>2, TakeEffect DEF IInv, TypeOK, Byte
<1>4. \A j \in Device : ~At(j)'
  BY DEF At, Device
<1>5. DeviceData' /\ FoundReady' /\ PeekedHead'
  BY <1>4, TakeEffect DEF DeviceData, FoundReady, PeekedHead, At
<1> QED
  BY <1>3, <1>5 DEF IInv

LEMMA MainKeepsIInv == ASSUME IInv, Main PROVE IInv'
<1>0. dev \in {0} \cup Device /\ due \in Seq(Device \X Symbol)
  BY DEF IInv, TypeOK
<1>1. ASSUME NEW k \in 1 .. 3, Test(k) \/ Peek(k) PROVE IInv'
  BY <1>1, TestKeepsIInv, PeekKeepsIInv
<1>2. CASE TakeAddress
  <2>1. TakeFrom(1) /\ out' = Nothing /\ due' = due
    BY <1>2 DEF TakeAddress
  <2>2. dev' \in {0} \cup Device
    BY <1>2 DEF TakeAddress, Device
  <2>3. pc' = <<"peek", 1>> \/ \E j \in 1 .. 3 : pc' = <<"test", j>>
    BY <1>2 DEF TakeAddress
  <2> QED
    BY <1>0, <2>1, <2>2, <2>3, TakeKeepsIInv
<1>3. CASE TakeData
  <2>1. TakeFrom(1) /\ out' = <<dev, Taken(1), 1>> /\ dev' = 0 /\ pc' = <<"test", 2>>
        /\ dev # 0
    BY <1>3 DEF TakeData
  <2>2. due' \in Seq(Device \X Symbol)
    BY <1>0, <1>3 DEF TakeData
  <2>3. Taken(1) \in Byte
    BY <2>1, TakeEffect
  <2>4. out' \in (1 .. 3) \X Byte \X (0 .. 3)
    BY <1>0, <2>1, <2>3 DEF Device
  <2> QED
    BY <2>1, <2>2, <2>4, TakeKeepsIInv
<1>4. ASSUME NEW k \in Device, Forward(k) PROVE IInv'
  <2>1. k \in 1 .. 3 /\ TakeFrom(k) /\ out' = <<1, Taken(k), k>> /\ dev' = dev /\ due' = due
    BY <1>4 DEF Forward, Device
  <2>2. \E j \in 1 .. 3 : pc' = <<"test", j>>
    BY <1>4, <2>1, NextTestIs DEF Forward
  <2>3. Taken(k) \in Byte
    BY <2>1, TakeEffect
  <2>4. out' \in (1 .. 3) \X Byte \X (0 .. 3)
    BY <2>1, <2>3
  <2> QED
    BY <1>0, <2>1, <2>2, <2>4, TakeKeepsIInv
<1> QED
  BY <1>1, <1>2, <1>3, <1>4 DEF Main

LEMMA Preserved == IInv /\ [Next]_vars => IInv'
<1> SUFFICES ASSUME IInv, [Next]_vars PROVE IInv'
  OBVIOUS
<1>1. CASE UNCHANGED vars
  BY <1>1 DEF vars, IInv, TypeOK, DeviceData, FoundReady, PeekedHead, At
<1>2. CASE Next
  BY <1>2, MainKeepsIInv, RaspberryKeepsIInv, DeviceKeepsIInv DEF Next
<1> QED
  BY <1>1, <1>2

LEMMA Invariant == Spec => []IInv
  BY Initially, Preserved, PTL DEF Spec

-----------------------------------------------------------------------------
(* The rings of the devices as queues. *)
Got(k) == IF out[3] = k THEN <<out[2]>> ELSE <<>>

(* What a step of LossyQueue does, in terms of ring k. *)
RingArrives(k, b) ==
  /\ Got(k)' = <<>>
  /\ \/ /\ Len(Held(ring[k])) + 1 < BUFFER_SIZE
        /\ Held(ring'[k]) = Append(Held(ring[k]), b)
        /\ torn'[k] = torn[k]
     \/ /\ Len(Held(ring[k])) + 1 = BUFFER_SIZE
        /\ Held(ring'[k]) = <<>>
        /\ torn'[k] \in {torn[k], TRUE}
RingTaken(k) ==
  /\ ~torn[k] /\ Held(ring[k]) # <<>>
  /\ Got(k)' = <<Head(Held(ring[k]))>>
  /\ Held(ring'[k]) = Tail(Held(ring[k]))
  /\ torn'[k] = torn[k]
RingTakenTorn(k) ==
  /\ torn[k]
  /\ Got(k)' \in {<<b>> : b \in Symbol \cup {0}}
  /\ Held(ring'[k]) = IF Held(ring[k]) = <<>> THEN Held(ring[k]) ELSE Tail(Held(ring[k]))
  /\ torn'[k] = FALSE
RingIdle(k) == Got(k)' = <<>> /\ Held(ring'[k]) = Held(ring[k]) /\ torn'[k] = torn[k]

QueueStep(k) ==
  RingTaken(k) \/ RingTakenTorn(k) \/ RingIdle(k) \/ \E b \in Symbol : RingArrives(k, b)

LEMMA StoreIsArrival ==
  ASSUME IInv, NEW k \in 1 .. 3, NEW b \in Byte, Store(k, b),
         k \in Device => b \in Symbol, NEW j \in Device
  PROVE  QueueStep(j)
<1>1. j \in 1 .. 3 /\ j # 0 /\ out' = Nothing
  BY DEF Device, Store
<1>2. Got(j)' = <<>>
  BY <1>1 DEF Got, Nothing
<1>3. CASE j # k
  BY <1>1, <1>2, <1>3, StoreEffect DEF QueueStep, RingIdle
<1>4. CASE j = k
  <2>1. /\ ring'[j] = AppendBuffer(ring[j], b)
        /\ torn'[j] <=> torn[j] \/ (IsEmpty(ring'[j]) /\ At(j))
        /\ torn[j] \in BOOLEAN /\ torn'[j] \in BOOLEAN
    BY <1>1, <1>4, StoreEffect DEF IInv, TypeOK
  <2>2. ring[j] \in Ring(Data) /\ b \in Data /\ b \in Symbol
    BY <1>4 DEF IInv, DeviceData, Data
  <2>3. CASE Backlog(ring[j]) + 1 < BUFFER_SIZE
    <3>1. ~IsEmpty(ring'[j]) /\ Held(ring'[j]) = Append(Held(ring[j]), b)
      BY <2>1, <2>2, <2>3, AppendQueues
    <3>2. torn'[j] = torn[j]
      BY <2>1, <3>1
    <3>3. Len(Held(ring[j])) + 1 < BUFFER_SIZE
      BY <2>2, <2>3, HeldIs
    <3> QED
      BY <1>2, <2>2, <3>1, <3>2, <3>3 DEF QueueStep, RingArrives
  <2>4. CASE ~(Backlog(ring[j]) + 1 < BUFFER_SIZE)
    <3>1. Held(ring'[j]) = <<>> /\ Len(Held(ring[j])) + 1 = BUFFER_SIZE
      BY <2>1, <2>2, <2>4, AppendForgets
    <3>2. torn'[j] \in {torn[j], TRUE}
      BY <2>1
    <3> QED
      BY <1>2, <2>2, <3>1, <3>2 DEF QueueStep, RingArrives
  <2> QED
    BY <2>3, <2>4
<1> QED
  BY <1>3, <1>4

LEMMA ForwardIsTake == ASSUME IInv, NEW k \in Device, Forward(k) PROVE QueueStep(k)
<1>1. /\ TakeFrom(k) /\ k \in 1 .. 3 /\ pc = <<"take", k>>
      /\ out' = <<1, Taken(k), k>>
  BY DEF Forward, TakeFrom, Device
<1>2. Got(k)' = <<Taken(k)>> /\ Taken(k) \in Symbol \cup {0}
  BY <1>1, TakeEffect DEF Got, Data
<1>3. /\ ring[k] \in Ring(Data) /\ ring'[k] = Advance(ring[k])
      /\ torn' = [torn EXCEPT ![k] = FALSE] /\ torn[k] \in BOOLEAN /\ torn'[k] = FALSE
  BY <1>1, TakeEffect DEF IInv, DeviceData, TypeOK, TakeFrom
<1>4. CASE torn[k]
  <2>1. Held(ring'[k]) = IF Held(ring[k]) = <<>> THEN Held(ring[k]) ELSE Tail(Held(ring[k]))
    BY <1>3, AdvanceTakes, EmptyHoldsNothing
  <2> QED
    BY <1>2, <1>3, <1>4, <2>1 DEF QueueStep, RingTakenTorn
<1>5. CASE ~torn[k]
  <2>1. ~IsEmpty(ring[k]) /\ c = ring[k].buf[ring[k].get]
    BY <1>1, <1>5 DEF IInv, FoundReady, PeekedHead, At
  <2>2. Held(ring[k]) # <<>> /\ Held(ring'[k]) = Tail(Held(ring[k])) /\ c = Head(Held(ring[k]))
    BY <1>3, <2>1, AdvanceTakes
  <2>3. Taken(k) = c
    BY <2>1 DEF Taken
  <2>4. torn'[k] = torn[k]
    BY <1>3, <1>5
  <2> QED
    BY <1>2, <1>5, <2>2, <2>3, <2>4 DEF QueueStep, RingTaken
<1> QED
  BY <1>4, <1>5

LEMMA OthersAreIdle ==
  ASSUME IInv, Main, NEW k \in Device, ~Forward(k)
  PROVE  QueueStep(k)
<1>1. k \in 1 .. 3 /\ k # 0 /\ k # 1
  BY DEF Device
<1>2. ASSUME NEW j \in 1 .. 3, Test(j) \/ Peek(j) PROVE QueueStep(k)
  <2>1. ring' = ring /\ torn' = torn
    BY <1>2 DEF Test, Peek
  <2>2. out' = Nothing \/ out' = <<1, j - 1, 0>>
    BY <1>2 DEF Test, Peek
  <2>3. Got(k)' = <<>>
    BY <1>1, <2>2 DEF Got, Nothing
  <2> QED
    BY <2>1, <2>3 DEF QueueStep, RingIdle
<1>3. CASE TakeAddress \/ TakeData
  <2>1. TakeFrom(1) /\ (out' = Nothing \/ out' = <<dev, Taken(1), 1>>)
    BY <1>3 DEF TakeAddress, TakeData
  <2>2. Got(k)' = <<>>
    BY <1>1, <2>1 DEF Got, Nothing
  <2>3. ring'[k] = ring[k] /\ torn'[k] = torn[k]
    BY <1>1, <2>1, TakeEffect
  <2> QED
    BY <2>2, <2>3 DEF QueueStep, RingIdle
<1>4. ASSUME NEW j \in Device, Forward(j) PROVE QueueStep(k)
  <2>1. TakeFrom(j) /\ j \in 1 .. 3 /\ j # k /\ out' = <<1, Taken(j), j>>
    BY <1>4 DEF Forward, Device
  <2>2. Got(k)' = <<>>
    BY <2>1 DEF Got
  <2>3. ring'[k] = ring[k] /\ torn'[k] = torn[k]
    BY <1>1, <2>1, TakeEffect
  <2> QED
    BY <2>2, <2>3 DEF QueueStep, RingIdle
<1> QED
  BY <1>2, <1>3, <1>4 DEF Main

LEMMA StepIsQueueStep == ASSUME IInv, Next, NEW k \in Device PROVE QueueStep(k)
<1>1. CASE Main
  BY <1>1, ForwardIsTake, OthersAreIdle
<1>2. CASE FromRaspberry
  <2>1. PICK b \in Byte : Store(1, b)
    BY <1>2, FreshData DEF FromRaspberry, Byte
  <2> QED
    BY <2>1, StoreIsArrival DEF Device
<1>3. ASSUME NEW j \in Talking, FromDevice(j) PROVE QueueStep(k)
  <2>1. j \in 1 .. 3 /\ fresh[j] \in Symbol /\ fresh[j] \in Byte
    BY MuxAssumption, FreshData DEF Byte
  <2> QED
    BY <1>3, <2>1, StoreIsArrival DEF FromDevice
<1> QED
  BY <1>1, <1>2, <1>3 DEF Next

-----------------------------------------------------------------------------
(* The Raspberry's ring.  Its couples begin in even slots, or all in odd ones
   if the PIC came up within a couple (stray). *)

(* What the loop has yet to get of the couples begun. *)
Coming == IF couple = 0 THEN Held(ring[1]) ELSE Append(Held(ring[1]), fresh[1])

(* The loop is before the datum of a couple whose address it has not seen. *)
Orphan == stray /\ dev = 0 /\ ring[1].get = 0

(* The couple the loop is in begins in the last slot and ends in the first. *)
Straddling == stray /\ dev # 0 /\ ring[1].get = 0

Shift == IF dev # 0 THEN -1 ELSE IF Orphan THEN 1 ELSE 0

(* What is coming are the couples due, without the address that is in dev or
   after an orphan. *)
ComingIsDue ==
  /\ Len(Coming) = 2 * Len(due) + Shift
  /\ \A i \in 1 .. Len(due) :
       /\ i > 1 \/ dev = 0 => Coming[2 * i - 1 + Shift] = due[i][1] - 1
       /\ Coming[2 * i + Shift] = due[i][2]
  /\ dev # 0 => due[1][1] = dev
  /\ Orphan => Coming[1] \in Symbol

(* The loop is at an even slot for an address and at an odd one for a datum,
   the other way round if stray, and has a datum to take only at ring 1. *)
Aligned ==
  /\ dev # 0 => At(1) /\ ring[1].get % 2 = (IF stray THEN 0 ELSE 1)
  /\ dev = 0 => Orphan \/ ring[1].get % 2 = (IF stray THEN 1 ELSE 0)

(* A ring found ready holds a whole couple, unless the couple straddles. *)
CoupleReady ==
  /\ At(1) /\ dev = 0 => \/ Backlog(ring[1]) >= 2
                         \/ stray /\ ring[1].get = BUFFER_SIZE - 1 /\ Backlog(ring[1]) >= 1
  /\ At(1) /\ dev # 0 => ~IsEmpty(ring[1]) \/ Straddling
  /\ pc = <<"take", 1>> => c = ring[1].buf[ring[1].get] \/ Straddling

CoupleInv == IInv /\ ComingIsDue /\ Aligned /\ CoupleReady

LEMMA ComingIs ==
  ASSUME IInv
  PROVE  /\ Held(ring[1]) \in Seq(Byte) /\ Len(Held(ring[1])) = Backlog(ring[1])
         /\ ring[1] \in Ring(Byte) /\ Backlog(ring[1]) \in Nat
         /\ Coming \in Seq(Byte)
         /\ Len(Coming) = IF couple = 0 THEN Backlog(ring[1]) ELSE Backlog(ring[1]) + 1
         /\ \A i \in 1 .. Backlog(ring[1]) : Coming[i] = Held(ring[1])[i]
         /\ couple # 0 => Coming[Backlog(ring[1]) + 1] = fresh[1]
<1>1. ring[1] \in Ring(Byte) /\ fresh[1] \in Byte
  BY FreshData DEF IInv, TypeOK, Byte
<1>2. Held(ring[1]) \in Seq(Byte) /\ Len(Held(ring[1])) = Backlog(ring[1])
  BY <1>1, HeldIs
<1>3. Backlog(ring[1]) \in Nat
  BY <1>1, RingFields
<1> QED
  BY <1>1, <1>2, <1>3, AppendProperties DEF Coming

LEMMA NextSlotParity ==
  ASSUME NEW g \in Slots
  PROVE  /\ Wrap(g + 1) \in Slots
         /\ g % 2 = 0 => Wrap(g + 1) % 2 = 1 /\ Wrap(g + 1) # 0
         /\ g % 2 = 1 => Wrap(g + 1) % 2 = 0
<1>1. g \in Nat /\ BUFFER_SIZE \in Nat /\ BUFFER_SIZE % 2 = 0 /\ g < BUFFER_SIZE
  BY EvenAssumption DEF Slots
<1>2. CASE g + 1 = BUFFER_SIZE
  <2>1. Wrap(g + 1) = 0 /\ g % 2 = 1
    BY <1>1, <1>2 DEF Wrap
  <2> QED
    BY <2>1 DEF Slots
<1>3. CASE g + 1 # BUFFER_SIZE
  BY <1>1, <1>3 DEF Wrap, Slots
<1> QED
  BY <1>2, <1>3

(* When the loop takes a byte from the Raspberry's ring. *)
LEMMA ComingTaken ==
  ASSUME IInv, IInv', ~IsEmpty(ring[1]), ring'[1] = Advance(ring[1]),
         couple' = couple, fresh' = fresh
  PROVE  /\ Coming[1] = ring[1].buf[ring[1].get] /\ Len(Coming) >= 1
         /\ Len(Coming') = Len(Coming) - 1
         /\ \A i \in 1 .. Len(Coming) - 1 : Coming'[i] = Coming[i + 1]
         /\ Backlog(ring'[1]) = Backlog(ring[1]) - 1
         /\ ring'[1].get = Wrap(ring[1].get + 1)
<1>1. ring[1] \in Ring(Byte)
  BY ComingIs
<1>2. /\ Held(ring[1]) # <<>> /\ Head(Held(ring[1])) = ring[1].buf[ring[1].get]
      /\ Held(ring'[1]) = Tail(Held(ring[1]))
  BY <1>1, AdvanceTakes
<1>3. /\ Backlog(ring[1]) >= 1
      /\ Backlog(ring'[1]) = Backlog(ring[1]) - 1
      /\ Held(ring[1])[1] = ring[1].buf[ring[1].get]
      /\ \A i \in 1 .. Backlog(ring[1]) - 1 : Held(ring'[1])[i] = Held(ring[1])[i + 1]
  <2>1. /\ Len(Tail(Held(ring[1]))) = Len(Held(ring[1])) - 1
        /\ \A i \in 1 .. Len(Held(ring[1])) - 1 : Tail(Held(ring[1]))[i] = Held(ring[1])[i + 1]
    BY <1>2, ComingIs, HeadTailProperties
  <2>2. Len(Held(ring[1])) >= 1 /\ Head(Held(ring[1])) = Held(ring[1])[1]
    BY <1>2, ComingIs, EmptySeq
  <2>3. Len(Held(ring'[1])) = Backlog(ring'[1])
    <3>1. ring'[1] \in Ring(Byte)
      BY DEF IInv, TypeOK
    <3> QED
      BY <3>1, HeldIs
  <2> QED
    BY <1>2, <2>1, <2>2, <2>3, ComingIs
<1>4. ring'[1].get = Wrap(ring[1].get + 1)
  BY <1>1 DEF Advance, Ring
<1>5. Len(Coming) = IF couple = 0 THEN Backlog(ring[1]) ELSE Backlog(ring[1]) + 1
  BY ComingIs
<1>6. /\ Held(ring'[1]) \in Seq(Byte) /\ fresh[1] \in Byte
      /\ Len(Held(ring'[1])) = Backlog(ring[1]) - 1
  BY <1>2, <1>3, FreshData, ComingIs, HeadTailProperties DEF Byte
<1>7. CASE couple = 0
  <2>1. Coming' = Held(ring'[1]) /\ Coming = Held(ring[1])
    BY <1>7 DEF Coming
  <2> QED
    BY <1>3, <1>4, <1>5, <1>6, <1>7, <2>1, ComingIs
<1>8. CASE couple # 0
  <2>1. Coming' = Append(Held(ring'[1]), fresh[1])
    BY <1>8 DEF Coming
  <2>2. /\ Len(Coming') = Backlog(ring[1])
        /\ \A i \in 1 .. Backlog(ring[1]) - 1 : Coming'[i] = Held(ring'[1])[i]
        /\ Coming'[Backlog(ring[1])] = fresh[1]
    BY <1>3, <1>6, <2>1, ComingIs, AppendProperties
  <2>3. ASSUME NEW i \in 1 .. Len(Coming) - 1 PROVE Coming'[i] = Coming[i + 1]
    <3>1. CASE i = Backlog(ring[1])
      BY <1>8, <2>2, <3>1, ComingIs
    <3>2. CASE i # Backlog(ring[1])
      <4>1. i \in 1 .. Backlog(ring[1]) - 1 /\ i + 1 \in 1 .. Backlog(ring[1])
        BY <1>5, <1>8, <3>2, ComingIs
      <4> QED
        BY <1>3, <2>2, <4>1, ComingIs
    <3> QED
      BY <3>1, <3>2
  <2> QED
    BY <1>3, <1>4, <1>5, <1>8, <2>2, <2>3, ComingIs
<1> QED
  BY <1>7, <1>8

(* A step that is not about the Raspberry's ring. *)
LEMMA ElsewhereKeeps ==
  ASSUME CoupleInv, IInv', ring'[1] = ring[1], fresh'[1] = fresh[1],
         UNCHANGED <<dev, couple, due, stray>>,
         \/ UNCHANGED <<pc, c>>
         \/ ~At(1) /\ ~At(1)'
  PROVE  CoupleInv'
<1>1. Coming' = Coming /\ Orphan' = Orphan /\ Straddling' = Straddling
  BY DEF Coming, Orphan, Straddling
<1>2. Shift' = Shift
  BY <1>1 DEF Shift
<1>3. ComingIsDue'
  BY <1>1, <1>2 DEF CoupleInv, ComingIsDue
<1>4. Aligned'
  BY <1>1 DEF CoupleInv, Aligned, At
<1>5. CoupleReady'
  BY <1>1 DEF CoupleInv, CoupleReady, At
<1> QED
  BY <1>3, <1>4, <1>5 DEF CoupleInv

LEMMA CoupleInit == Init => CoupleInv
<1> SUFFICES ASSUME Init PROVE CoupleInv
  OBVIOUS
<1>1. IInv
  BY Initially
<1>2. ring[1] = NewRing /\ dev = 0 /\ due = <<>> /\ Len(due) = 0 /\ couple \in {0, 1}
      /\ stray = (couple # 0) /\ pc = <<"test", 1>> /\ ring[1].get = 0
  BY DEF Init, NewRing
<1>3. Backlog(ring[1]) = 0
  BY <1>2 DEF Backlog, NewRing
<1>4. ComingIsDue
  <2>1. CASE couple = 0
    <3>1. Shift = 0 /\ ~Orphan /\ Len(Coming) = 0
      BY <1>1, <1>2, <1>3, <2>1, ComingIs DEF Shift, Orphan
    <3> QED
      BY <1>2, <3>1 DEF ComingIsDue
  <2>2. CASE couple = 1
    <3>1. Shift = 1 /\ Len(Coming) = 1 /\ Coming[1] = fresh[1]
      <4>1. couple # 0 /\ Backlog(ring[1]) + 1 = 1
        BY <1>3, <2>2
      <4>2. Len(Coming) = 1 /\ Coming[1] = fresh[1]
        BY <1>1, <1>3, <4>1, ComingIs
      <4> QED
        BY <1>2, <2>2, <4>2 DEF Shift, Orphan
    <3>2. fresh[1] \in Symbol
      BY <1>1, FreshData
    <3> QED
      BY <1>2, <3>1, <3>2 DEF ComingIsDue
  <2> QED
    BY <1>2, <2>1, <2>2
<1>5. Aligned /\ CoupleReady
  BY <1>2 DEF Aligned, CoupleReady, Orphan, At
<1> QED
  BY <1>1, <1>4, <1>5 DEF CoupleInv

LEMMA RaspberryKeepsCouples == ASSUME CoupleInv, FromRaspberry PROVE CoupleInv'
<1>1. IInv /\ IInv' /\ fresh[1] \in Symbol
  BY RaspberryKeepsIInv, FreshData DEF CoupleInv
<1>2. PICK b \in Byte : Store(1, b) /\ (IF couple = 0 THEN b \in {1, 2} ELSE b = fresh[1])
  BY <1>1 DEF FromRaspberry, Byte
<1>3. UNCHANGED <<pc, dev, c, stray>> /\ Backlog(ring[1]) + 1 < BUFFER_SIZE
  BY <1>2 DEF Store, FromRaspberry
<1>4. ring'[1] = AppendBuffer(ring[1], b) /\ ring[1] \in Ring(Byte)
  BY <1>1, <1>2, StoreEffect, ComingIs
<1>5. /\ Held(ring'[1]) = Append(Held(ring[1]), b) /\ ~IsEmpty(ring'[1])
      /\ ring'[1].buf = [ring[1].buf EXCEPT ![ring[1].put] = b]
      /\ ring'[1].get = ring[1].get /\ ring'[1] \in Ring(Byte)
  BY <1>3, <1>4, AppendQueues, AppendFields
<1>6. Backlog(ring'[1]) = Backlog(ring[1]) + 1
  BY <1>1, <1>4, <1>5, HeldIs, ComingIs
<1>7. Orphan' = Orphan /\ Straddling' = Straddling /\ Shift' = Shift
  BY <1>3, <1>5 DEF Orphan, Straddling, Shift
<1>8. Aligned'
  BY <1>3, <1>5, <1>7 DEF CoupleInv, Aligned, At
<1>9. CoupleReady'
  <2>1. ASSUME pc = <<"take", 1>> PROVE c = ring'[1].buf[ring[1].get] \/ Straddling
    <3>1. CASE IsEmpty(ring[1])
      <4>1. Backlog(ring[1]) = 0
        BY <1>1, <3>1, ComingIs, RingFields DEF IsEmpty
      <4> QED
        BY <2>1, <3>1, <4>1 DEF CoupleInv, CoupleReady, Straddling, At
    <3>2. CASE ~IsEmpty(ring[1])
      <4>1. ring'[1].buf[ring[1].get] = ring[1].buf[ring[1].get]
        BY <1>1, <1>5, <3>2, ComingIs, RingFields DEF IsEmpty
      <4> QED
        BY <2>1, <4>1 DEF CoupleInv, CoupleReady
    <3> QED
      BY <3>1, <3>2
  <2>2. Backlog(ring'[1]) > Backlog(ring[1])
    BY <1>1, <1>6, ComingIs
  <2>3. At(1)' /\ dev' = 0 => \/ Backlog(ring'[1]) >= 2
                              \/ stray /\ ring'[1].get = BUFFER_SIZE - 1 /\ Backlog(ring'[1]) >= 1
    BY <1>1, <1>3, <1>5, <1>6, ComingIs DEF CoupleInv, CoupleReady, At
  <2> QED
    BY <1>3, <1>5, <1>7, <2>1, <2>3 DEF CoupleReady, At
<1>10. CASE couple # 0
  <2>1. b = fresh[1] /\ couple' = 0 /\ due' = due
    BY <1>2, <1>10 DEF FromRaspberry
  <2>2. Coming' = Coming
    BY <1>5, <1>10, <2>1 DEF Coming
  <2>3. ComingIsDue'
    BY <1>3, <1>7, <2>1, <2>2 DEF CoupleInv, ComingIsDue
  <2> QED
    BY <1>1, <1>8, <1>9, <2>3 DEF CoupleInv
<1>11. CASE couple = 0
  <2>1. PICK a \in {1, 2} : /\ Store(1, a) /\ couple' = a /\ fresh' = fresh
                            /\ due' = Append(due, <<a + 1, fresh[1]>>)
    BY <1>11 DEF FromRaspberry
  <2>2. b = a
    <3>1. ring'[1] = AppendBuffer(ring[1], a) /\ a \in Byte
      BY <1>1, <2>1, StoreEffect DEF Byte
    <3>2. AppendBuffer(ring[1], a).buf[ring[1].put] = a
      <4>1. /\ AppendBuffer(ring[1], a).buf = [ring[1].buf EXCEPT ![ring[1].put] = a]
            /\ ring[1].buf \in [Slots -> Byte] /\ ring[1].put \in Slots
        BY <1>4, <3>1, AppendFields, RingFields
      <4> QED
        BY <4>1
    <3>3. ring'[1].buf[ring[1].put] = b
      BY <1>4, <1>5, RingFields
    <3> QED
      BY <3>1, <3>2, <3>3
  <2> DEFINE n == Len(due)
             L == Len(Coming)
             new == <<a + 1, fresh[1]>>
  <2>3. /\ Coming = Held(ring[1]) /\ L \in Nat
        /\ Coming' = Append(Append(Coming, a), fresh[1])
    BY <1>1, <1>5, <1>11, <2>1, <2>2, ComingIs DEF Coming
  <2>4. /\ Len(Coming') = L + 2
        /\ \A i \in 1 .. L : Coming'[i] = Coming[i]
        /\ Coming'[L + 1] = a /\ Coming'[L + 2] = fresh[1]
    <3>1. Coming \in Seq(Byte) /\ a \in Byte /\ fresh[1] \in Byte
      BY <1>1, ComingIs DEF Byte
    <3> QED
      BY <2>3, <3>1, AppendProperties
  <2>5. /\ n \in Nat /\ Len(due') = n + 1 /\ due'[n + 1] = new
        /\ \A i \in 1 .. n : due'[i] = due[i]
    <3>1. due \in Seq(Device \X Symbol) /\ new \in Device \X Symbol
      BY <1>1 DEF IInv, TypeOK, Device
    <3> QED
      BY <2>1, <3>1, AppendProperties
  <2>6. /\ L = 2 * n + Shift /\ Shift \in {-1, 0, 1} /\ (dev = 0 => Shift \in {0, 1})
        /\ (dev # 0 => Shift = -1)
    BY DEF CoupleInv, ComingIsDue, Shift
  <2>7. dev # 0 => n >= 1
    BY <2>3, <2>5, <2>6
  <2>8. ASSUME NEW i \in 1 .. n + 1
        PROVE  /\ i > 1 \/ dev = 0 => Coming'[2 * i - 1 + Shift] = due'[i][1] - 1
               /\ Coming'[2 * i + Shift] = due'[i][2]
    <3>1. CASE i = n + 1
      <4>1. 2 * i - 1 + Shift = L + 1 /\ 2 * i + Shift = L + 2
        BY <2>5, <2>6, <3>1
      <4>2. due'[i][1] - 1 = a /\ due'[i][2] = fresh[1]
        BY <2>5, <3>1
      <4> QED
        BY <2>4, <4>1, <4>2
    <3>2. CASE i \in 1 .. n
      <4>1. /\ i > 1 \/ dev = 0 => Coming[2 * i - 1 + Shift] = due[i][1] - 1
            /\ Coming[2 * i + Shift] = due[i][2]
        BY <3>2 DEF CoupleInv, ComingIsDue
      <4>2. 2 * i + Shift \in 1 .. L
        BY <2>3, <2>5, <2>6, <3>2
      <4>3. i > 1 \/ dev = 0 => 2 * i - 1 + Shift \in 1 .. L
        BY <2>3, <2>5, <2>6, <3>2
      <4> QED
        BY <2>4, <2>5, <3>2, <4>1, <4>2, <4>3
    <3> QED
      BY <2>5, <3>1, <3>2
  <2>9. dev # 0 => due'[1][1] = dev
    BY <2>5, <2>7 DEF CoupleInv, ComingIsDue
  <2>10. Orphan => Coming'[1] \in Symbol
    <3> SUFFICES ASSUME Orphan PROVE Coming'[1] \in Symbol
      OBVIOUS
    <3>1. Shift = 1 /\ Coming[1] \in Symbol
      BY DEF Shift, Orphan, CoupleInv, ComingIsDue
    <3>2. 1 \in 1 .. L
      BY <2>3, <2>5, <2>6, <3>1
    <3> QED
      BY <2>4, <3>1, <3>2
  <2>11. Len(Coming') = 2 * Len(due') + Shift'
    BY <1>7, <2>4, <2>5, <2>6
  <2>12. ComingIsDue'
    BY <1>3, <1>7, <2>5, <2>8, <2>9, <2>10, <2>11 DEF ComingIsDue
  <2> QED
    BY <1>1, <1>8, <1>9, <2>12 DEF CoupleInv
<1> QED
  BY <1>10, <1>11

(* Where the loop is aligned, a ring it finds ready holds a whole couple,
   though Data1Available() is wrong once put has wrapped below get. *)
LEMMA TestFindsCouple ==
  ASSUME CoupleInv, Test(1), Ready(1)
  PROVE  \/ Backlog(ring[1]) >= 2
         \/ stray /\ ring[1].get = BUFFER_SIZE - 1 /\ Backlog(ring[1]) >= 1
<1>1. dev = 0
  BY DEF CoupleInv, Aligned, At, Test
<1>2. ring[1] \in Ring(Byte)
  BY ComingIs DEF CoupleInv
<1>3. DataAvailable(ring[1]) > 1
  BY DEF Ready
<1>4. CASE ring[1].get <= ring[1].put
  BY <1>2, <1>3, <1>4, RingFields DEF DataAvailable, Backlog
<1>5. CASE ring[1].get > ring[1].put
  <2>1. Backlog(ring[1]) = BUFFER_SIZE - ring[1].get + ring[1].put
    BY <1>5 DEF Backlog
  <2>2. ring[1].get # 0
    BY <1>2, <1>5, RingFields
  <2>3. ring[1].get % 2 = IF stray THEN 1 ELSE 0
    BY <1>1, <2>2 DEF CoupleInv, Aligned, Orphan
  <2>4. stray \in BOOLEAN
    BY DEF CoupleInv, IInv, TypeOK
  <2>5. CASE stray
    BY <1>2, <1>5, <2>1, <2>5, RingFields
  <2>6. CASE ~stray
    <3>1. ring[1].get # BUFFER_SIZE - 1
      BY <1>2, <2>3, <2>6, EvenAssumption, RingFields
    <3> QED
      BY <1>2, <2>1, <3>1, RingFields
  <2> QED
    BY <2>5, <2>6
<1> QED
  BY <1>2, <1>4, <1>5, RingFields

LEMMA TestKeepsCouples == ASSUME CoupleInv, NEW k \in 1 .. 3, Test(k) PROVE CoupleInv'
<1>1. IInv'
  BY TestKeepsIInv DEF CoupleInv
<1>2. UNCHANGED <<ring, dev, c, fresh, couple, due, stray>> /\ pc = <<"test", k>>
  BY DEF Test
<1>3. ~At(1) /\ dev = 0
  BY <1>2 DEF At, CoupleInv, Aligned
<1>4. CASE k = 1 /\ Ready(k)
  <2>1. Coming' = Coming /\ Orphan' = Orphan /\ Shift' = Shift /\ pc' = <<"peek", 1>>
    BY <1>2, <1>4 DEF Coming, Orphan, Shift, Test
  <2>2. ComingIsDue' /\ Aligned'
    BY <1>2, <1>3, <2>1 DEF CoupleInv, ComingIsDue, Aligned
  <2>3. CoupleReady'
    BY <1>2, <1>3, <1>4, <2>1, TestFindsCouple DEF CoupleReady, At
  <2> QED
    BY <1>1, <2>2, <2>3 DEF CoupleInv
<1>5. CASE ~(k = 1 /\ Ready(k))
  <2>1. ~At(1)'
    BY <1>5 DEF Test, NextTest, At
  <2> QED
    BY <1>1, <1>2, <1>3, <2>1, ElsewhereKeeps
<1> QED
  BY <1>4, <1>5

LEMMA PeekKeepsCouples == ASSUME CoupleInv, NEW k \in 1 .. 3, Peek(k) PROVE CoupleInv'
<1>1. IInv'
  BY PeekKeepsIInv DEF CoupleInv
<1>2. /\ UNCHANGED <<ring, dev, fresh, couple, due, stray>>
      /\ pc = <<"peek", k>> /\ pc' = <<"take", k>> /\ c' = ring[k].buf[ring[k].get]
  BY DEF Peek
<1>3. CASE k = 1
  <2>1. Coming' = Coming /\ Orphan' = Orphan /\ Shift' = Shift /\ Straddling' = Straddling
    BY <1>2 DEF Coming, Orphan, Shift, Straddling
  <2>2. ComingIsDue' /\ Aligned' /\ CoupleReady'
    BY <1>2, <1>3, <2>1 DEF CoupleInv, ComingIsDue, Aligned, CoupleReady, At
  <2> QED
    BY <1>1, <2>2 DEF CoupleInv
<1>4. CASE k # 1
  BY <1>1, <1>2, <1>4, ElsewhereKeeps DEF At
<1> QED
  BY <1>3, <1>4

(* The loop takes an address: it is the one due first, but for an orphan. *)
LEMMA AddressKeepsCouples == ASSUME CoupleInv, TakeAddress PROVE CoupleInv'
<1> DEFINE n == Len(due)
           L == Len(Coming)
<1>1. IInv /\ IInv'
  BY MainKeepsIInv DEF CoupleInv, Main
<1>2. /\ TakeFrom(1) /\ dev = 0 /\ pc = <<"take", 1>> /\ At(1)
      /\ UNCHANGED <<due, fresh, couple, stray>>
  BY DEF TakeAddress, TakeFrom, At
<1>3. ~IsEmpty(ring[1]) /\ c = ring[1].buf[ring[1].get]
  <2>1. Backlog(ring[1]) >= 1
    BY <1>1, <1>2, ComingIs DEF CoupleInv, CoupleReady
  <2>2. ~IsEmpty(ring[1])
    BY <1>1, <2>1, ComingIs, RingFields DEF IsEmpty
  <2>3. c = ring[1].buf[ring[1].get]
    BY <1>2 DEF CoupleInv, CoupleReady, Straddling
  <2> QED
    BY <2>2, <2>3
<1>4. Taken(1) = Coming[1] /\ Taken(1) = c
  <2>1. ring'[1] = Advance(ring[1])
    BY <1>1, <1>2, TakeEffect
  <2> QED
    BY <1>1, <1>2, <1>3, <2>1, ComingTaken DEF Taken
<1>5. /\ L >= 1 /\ L \in Nat
      /\ Len(Coming') = L - 1
      /\ \A i \in 1 .. L - 1 : Coming'[i] = Coming[i + 1]
      /\ Backlog(ring'[1]) = Backlog(ring[1]) - 1
      /\ ring'[1].get = Wrap(ring[1].get + 1)
  <2>1. ring'[1] = Advance(ring[1])
    BY <1>1, <1>2, TakeEffect
  <2> QED
    BY <1>1, <1>2, <1>3, <2>1, ComingTaken, ComingIs
<1>6. /\ ring[1] \in Ring(Byte) /\ ring'[1] \in Ring(Byte) /\ stray \in BOOLEAN
      /\ due \in Seq(Device \X Symbol) /\ n \in Nat
      /\ \A i \in 1 .. n : due[i] \in Device \X Symbol
  BY <1>1 DEF IInv, TypeOK
<1>7. CASE Orphan
  <2>1. Taken(1) \in Symbol
    BY <1>4, <1>7 DEF CoupleInv, ComingIsDue
  <2>2. dev' = 0 /\ pc' = <<"test", 2>>
    BY <1>2, <2>1, MuxAssumption DEF TakeAddress
  <2>3. ring'[1].get = 1
    BY <1>5, <1>7 DEF Wrap, Orphan
  <2>4. ~Orphan' /\ Shift = 1 /\ Shift' = 0
    BY <1>2, <1>7, <2>2, <2>3 DEF Shift, Orphan
  <2>5. Len(Coming) = 2 * n + 1
    BY <2>4 DEF CoupleInv, ComingIsDue
  <2>6. ASSUME NEW i \in 1 .. n
        PROVE  Coming'[2 * i - 1] = due[i][1] - 1 /\ Coming'[2 * i] = due[i][2]
    <3>1. Coming[2 * i - 1 + 1] = due[i][1] - 1 /\ Coming[2 * i + 1] = due[i][2]
      BY <1>2, <2>4 DEF CoupleInv, ComingIsDue
    <3>2. 2 * i - 1 \in 1 .. L - 1 /\ 2 * i \in 1 .. L - 1
      BY <1>6, <2>5
    <3> QED
      BY <1>5, <3>1, <3>2
  <2>7. ComingIsDue'
    <3>1. Len(Coming') = 2 * Len(due') + Shift'
      BY <1>2, <1>5, <1>6, <2>4, <2>5
    <3>2. \A i \in 1 .. Len(due') : /\ Coming'[2 * i - 1 + Shift'] = due'[i][1] - 1
                                   /\ Coming'[2 * i + Shift'] = due'[i][2]
      BY <1>2, <1>6, <2>4, <2>6
    <3> QED
      BY <2>2, <2>4, <3>1, <3>2 DEF ComingIsDue
  <2>8. Aligned' /\ CoupleReady'
    BY <1>2, <1>7, <2>2, <2>3 DEF Aligned, CoupleReady, At, Orphan
  <2> QED
    BY <1>1, <2>7, <2>8 DEF CoupleInv
<1>8. CASE ~Orphan
  <2>1. Shift = 0 /\ L = 2 * n
    BY <1>2, <1>8, <1>6 DEF Shift, CoupleInv, ComingIsDue
  <2>2. n >= 1
    BY <1>5, <1>6, <2>1
  <2>3. Coming[1] = due[1][1] - 1 /\ due[1][1] \in Device
    <3>1. Coming[2 * 1 - 1 + Shift] = due[1][1] - 1
      <4>1. \A i \in 1 .. n : Coming[2 * i - 1 + Shift] = due[i][1] - 1
        BY <1>2 DEF CoupleInv, ComingIsDue
      <4>2. 1 \in 1 .. n
        BY <1>6, <2>2
      <4> QED
        BY <4>1, <4>2
    <3> QED
      BY <1>6, <2>1, <2>2, <3>1
  <2>4. dev' = due[1][1] /\ dev' # 0 /\ pc' = <<"peek", 1>>
    BY <1>4, <2>3 DEF TakeAddress, Device
  <2>5. ~Orphan' /\ Shift' = -1
    BY <2>4 DEF Orphan, Shift
  <2>6. ASSUME NEW i \in 1 .. n
        PROVE  /\ i > 1 => Coming'[2 * i - 2] = due[i][1] - 1
               /\ Coming'[2 * i - 1] = due[i][2]
    <3>1. Coming[2 * i - 1] = due[i][1] - 1 /\ Coming[2 * i] = due[i][2]
      <4>1. /\ Coming[2 * i - 1 + Shift] = due[i][1] - 1
            /\ Coming[2 * i + Shift] = due[i][2]
        BY <1>2 DEF CoupleInv, ComingIsDue
      <4> QED
        BY <2>1, <4>1
    <3>2. 2 * i - 1 \in 1 .. L - 1 /\ (i > 1 => 2 * i - 2 \in 1 .. L - 1)
      BY <1>6, <2>1
    <3>3. \A j \in 1 .. L - 1 : Coming'[j] = Coming[j + 1]
      BY <1>5
    <3> HIDE DEF L
    <3>4. Coming'[2 * i - 1] = Coming[2 * i]
      <4>1. Coming'[2 * i - 1] = Coming[(2 * i - 1) + 1]
        BY <3>2, <3>3
      <4>2. (2 * i - 1) + 1 = 2 * i
        OBVIOUS
      <4> QED
        BY <4>1, <4>2
    <3>5. i > 1 => Coming'[2 * i - 2] = Coming[2 * i - 1]
      <4>1. i > 1 => Coming'[2 * i - 2] = Coming[(2 * i - 2) + 1]
        BY <3>2, <3>3
      <4>2. (2 * i - 2) + 1 = 2 * i - 1
        OBVIOUS
      <4> QED
        BY <4>1, <4>2
    <3> QED
      BY <3>1, <3>4, <3>5
  <2>7. ComingIsDue'
    <3>1. Len(Coming') = 2 * Len(due') + Shift'
      BY <1>2, <1>5, <1>6, <2>1, <2>5
    <3>2. \A i \in 1 .. Len(due') : /\ i > 1 => Coming'[2 * i - 1 + Shift'] = due'[i][1] - 1
                                   /\ Coming'[2 * i + Shift'] = due'[i][2]
      BY <1>2, <1>6, <2>5, <2>6
    <3>3. due'[1][1] = dev'
      BY <1>2, <2>4
    <3> QED
      BY <2>4, <2>5, <3>1, <3>2, <3>3 DEF ComingIsDue
  <2>8. ring[1].get % 2 = IF stray THEN 1 ELSE 0
    BY <1>2, <1>8 DEF CoupleInv, Aligned
  <2>9. Aligned'
    <3>1. ring'[1].get % 2 = IF stray THEN 0 ELSE 1
      BY <1>5, <1>6, <2>8, NextSlotParity, RingFields
    <3> QED
      BY <1>2, <2>4, <3>1 DEF Aligned, At
  <2>10. ~IsEmpty(ring'[1]) \/ Straddling'
    <3>1. CASE Backlog(ring[1]) >= 2
      BY <1>1, <1>5, <1>6, <3>1, RingFields, ComingIs DEF IsEmpty
    <3>2. CASE stray /\ ring[1].get = BUFFER_SIZE - 1
      BY <1>2, <1>5, <2>4, <3>2 DEF Straddling, Wrap
    <3> QED
      BY <1>2, <3>1, <3>2 DEF CoupleInv, CoupleReady
  <2>11. CoupleReady'
    BY <2>4, <2>10 DEF CoupleReady, At
  <2> QED
    BY <1>1, <2>7, <2>9, <2>11 DEF CoupleInv
<1> QED
  BY <1>7, <1>8

(* It takes a datum: the one due first, unless the couple straddles; then it
   may be before the datum is there, and leaves an orphan. *)
LEMMA DataKeepsCouples ==
  ASSUME CoupleInv, TakeData
  PROVE  /\ CoupleInv'
         /\ Straddling \/ (due # <<>> /\ <<out'[1], out'[2]>> = Head(due))
<1> DEFINE n == Len(due)
           L == Len(Coming)
<1>1. IInv /\ IInv'
  BY MainKeepsIInv DEF CoupleInv, Main
<1>2. /\ TakeFrom(1) /\ dev # 0 /\ dev' = 0 /\ pc = <<"take", 1>> /\ At(1) /\ pc' = <<"test", 2>>
      /\ UNCHANGED <<fresh, couple, stray>> /\ ring'[1] = Advance(ring[1])
      /\ out' = <<dev, Taken(1), 1>>
  BY <1>1, TakeEffect DEF TakeData, TakeFrom, At
<1>3. /\ ring[1] \in Ring(Byte) /\ ring'[1] \in Ring(Byte) /\ stray \in BOOLEAN
      /\ due \in Seq(Device \X Symbol) /\ n \in Nat /\ L \in Nat
      /\ \A i \in 1 .. n : due[i] \in Device \X Symbol
  BY <1>1, ComingIs DEF IInv, TypeOK
<1>4. Shift = -1 /\ L = 2 * n - 1 /\ due[1][1] = dev
  BY <1>2, <1>3 DEF Shift, CoupleInv, ComingIsDue
<1>5. n >= 1 /\ due # <<>>
  BY <1>3, <1>4
<1>6. /\ due' = Tail(due) /\ Len(due') = n - 1 /\ Head(due) = due[1]
      /\ \A i \in 1 .. n - 1 : due'[i] = due[i + 1]
  <2>1. due' = Tail(due)
    BY <1>5 DEF TakeData
  <2> QED
    BY <1>3, <1>5, <2>1, HeadTailProperties
<1>7. ring[1].get % 2 = IF stray THEN 0 ELSE 1
  BY <1>2 DEF CoupleInv, Aligned
<1>8. CoupleReady' /\ ~At(1)'
  BY <1>2 DEF CoupleReady, At
<1>9. \A i \in 1 .. n : /\ i > 1 => Coming[2 * i - 2] = due[i][1] - 1
                       /\ Coming[2 * i - 1] = due[i][2]
  <2> TAKE i \in 1 .. n
  <2>1. /\ i > 1 => Coming[2 * i - 1 + Shift] = due[i][1] - 1
        /\ Coming[2 * i + Shift] = due[i][2]
    BY DEF CoupleInv, ComingIsDue
  <2> QED
    BY <1>4, <2>1
<1>10. CASE ~IsEmpty(ring[1])
  <2>1. /\ Coming[1] = ring[1].buf[ring[1].get]
        /\ Len(Coming') = L - 1
        /\ \A i \in 1 .. L - 1 : Coming'[i] = Coming[i + 1]
        /\ ring'[1].get = Wrap(ring[1].get + 1)
    BY <1>1, <1>2, <1>10, ComingTaken
  <2>2. ring'[1].get % 2 = (IF stray THEN 1 ELSE 0) /\ (stray => ring'[1].get # 0)
    BY <1>3, <1>7, <2>1, NextSlotParity, RingFields
  <2>3. ~Orphan' /\ Shift' = 0
    BY <1>2, <2>2 DEF Orphan, Shift
  <2>4. Aligned'
    BY <1>2, <2>2 DEF Aligned
  <2>5. ComingIsDue'
    <3>1. Len(Coming') = 2 * Len(due') + Shift'
      BY <1>3, <1>4, <1>6, <2>1, <2>3
    <3>2. ASSUME NEW i \in 1 .. n - 1
          PROVE  Coming'[2 * i - 1] = due'[i][1] - 1 /\ Coming'[2 * i] = due'[i][2]
      <4>1. i + 1 \in 1 .. n /\ i + 1 > 1 /\ 2 * i - 1 \in 1 .. L - 1 /\ 2 * i \in 1 .. L - 1
        BY <1>3, <1>4
      <4>2. /\ Coming[2 * (i + 1) - 2] = due[i + 1][1] - 1
            /\ Coming[2 * (i + 1) - 1] = due[i + 1][2]
        BY <1>9, <4>1
      <4>3. 2 * (i + 1) - 2 = 2 * i - 1 + 1 /\ 2 * (i + 1) - 1 = 2 * i + 1
        OBVIOUS
      <4> QED
        BY <1>6, <2>1, <4>1, <4>2, <4>3
    <3>3. \A i \in 1 .. Len(due') : /\ Coming'[2 * i - 1 + Shift'] = due'[i][1] - 1
                                   /\ Coming'[2 * i + Shift'] = due'[i][2]
      BY <1>3, <1>6, <2>3, <3>2
    <3> QED
      BY <1>2, <2>3, <3>1, <3>3 DEF ComingIsDue
  <2>6. Straddling \/ <<out'[1], out'[2]>> = Head(due)
    <3> SUFFICES ASSUME ~Straddling PROVE <<out'[1], out'[2]>> = due[1]
      BY <1>6
    <3>1. c = ring[1].buf[ring[1].get]
      BY <1>2 DEF CoupleInv, CoupleReady
    <3>2. Taken(1) = Coming[1]
      BY <1>10, <2>1, <3>1 DEF Taken
    <3>3. Coming[1] = due[1][2]
      <4>1. Coming[2 * 1 - 1] = due[1][2]
        BY <1>3, <1>5, <1>9
      <4> QED
        BY <4>1
    <3>4. due[1] = <<due[1][1], due[1][2]>>
      BY <1>3, <1>5
    <3> QED
      BY <1>2, <1>4, <3>2, <3>3, <3>4
  <2> QED
    BY <1>1, <1>5, <1>8, <2>4, <2>5, <2>6 DEF CoupleInv
<1>11. CASE IsEmpty(ring[1])
  <2>1. Straddling /\ ring' [1] = ring[1]
    BY <1>2, <1>11 DEF CoupleInv, CoupleReady, Advance
  <2>2. Orphan' /\ Shift' = 1 /\ Coming' = Coming
    BY <1>2, <2>1 DEF Straddling, Orphan, Shift, Coming
  <2>3. Backlog(ring[1]) = 0
    BY <1>3, <1>11, RingFields DEF IsEmpty
  <2>4. L = 1 /\ n = 1
    <3>1. L <= 1
      <4>1. Len(Coming) = IF couple = 0 THEN Backlog(ring[1]) ELSE Backlog(ring[1]) + 1
        BY <1>1, ComingIs
      <4> QED
        BY <2>3, <4>1
    <3> HIDE DEF n, L
    <3> QED
      BY <1>3, <1>4, <1>5, <3>1
  <2>5. Coming[1] \in Symbol
    <3>1. Coming[2 * 1 - 1] = due[1][2]
      BY <1>9, <2>4
    <3> QED
      BY <1>3, <2>4, <3>1
  <2>6. ComingIsDue'
    <3>1. Len(due') = 0 /\ Len(Coming') = 1 /\ Coming'[1] \in Symbol
      BY <1>6, <2>2, <2>4, <2>5
    <3> QED
      BY <1>2, <2>2, <3>1 DEF ComingIsDue
  <2>7. Aligned'
    BY <1>2, <2>2 DEF Aligned
  <2> QED
    BY <1>1, <1>8, <2>1, <2>6, <2>7 DEF CoupleInv
<1> QED
  BY <1>10, <1>11

LEMMA CouplesKept == CoupleInv /\ [Next]_vars => CoupleInv'
<1> SUFFICES ASSUME CoupleInv, [Next]_vars PROVE CoupleInv'
  OBVIOUS
<1>1. IInv /\ IInv'
  BY Preserved DEF CoupleInv
<1>2. ASSUME NEW k \in Talking, FromDevice(k) PROVE CoupleInv'
  <2>1. k \in 1 .. 3 /\ k # 1 /\ fresh[k] \in Byte
    BY <1>1, MuxAssumption, FreshData DEF Byte
  <2>2. ring'[1] = ring[1] /\ UNCHANGED <<pc, dev, c, stray, couple, due>>
    BY <1>1, <1>2, <2>1, StoreEffect DEF FromDevice, Store
  <2>3. fresh'[1] = fresh[1]
    BY <1>1, <1>2, <2>1 DEF FromDevice, NextFresh, IInv, TypeOK
  <2> QED
    BY <1>1, <2>2, <2>3, ElsewhereKeeps
<1>3. ASSUME NEW k \in Device, Forward(k) PROVE CoupleInv'
  <2>1. k \in 1 .. 3 /\ k # 1 /\ TakeFrom(k) /\ pc = <<"take", k>>
        /\ UNCHANGED <<fresh, couple, due, stray, dev>> /\ pc' = NextTest(k)
    BY <1>3 DEF Forward, TakeFrom, Device
  <2>2. ring'[1] = ring[1]
    BY <1>1, <2>1, TakeEffect
  <2>3. ~At(1) /\ ~At(1)'
    BY <2>1 DEF At, NextTest
  <2> QED
    BY <1>1, <2>1, <2>2, <2>3, ElsewhereKeeps
<1>4. CASE UNCHANGED vars
  BY <1>1, <1>4, ElsewhereKeeps DEF vars
<1> QED
  BY <1>2, <1>3, <1>4, RaspberryKeepsCouples, TestKeepsCouples, PeekKeepsCouples,
    AddressKeepsCouples, DataKeepsCouples DEF Next, Main


-----------------------------------------------------------------------------
(* The multiplexer's variables keep their ranges for any ring and any bytes,
   so no pointer of the interrupt or of the loop leaves a ring
   (UART_Buffering.c:16-140). *)
THEOREM TypeCorrect == Spec => []TypeOK
<1>1. IInv => TypeOK
  BY DEF IInv
<1> QED
  BY <1>1, Invariant, PTL

(* Both devices' bytes go on in order, once each, unless the ring was filled
   and with it forgotten: the ring is a LossyQueue for any size and any
   streams, the interrupt coming between any two steps of GetNext()
   (UART_Multiplex.c:202-216, UART_Buffering.c:71-138). *)
THEOREM RingsAreQueues == Spec => ForwardsInOrder
<1>1. Init => Queue2!QueueInit /\ Queue3!QueueInit
  <2> SUFFICES ASSUME Init PROVE Queue2!QueueInit /\ Queue3!QueueInit
    OBVIOUS
  <2>1. ring[2] = NewRing /\ ring[3] = NewRing /\ torn[2] = FALSE /\ torn[3] = FALSE
        /\ out[3] = 0
    BY DEF Init, Nothing
  <2>2. Held(NewRing) = <<>>
    BY NewRingIsEmpty
  <2> QED
    BY <2>1, <2>2 DEF Queue2!QueueInit, Queue3!QueueInit
<1>2. IInv /\ [Next]_vars => [Queue2!QueueNext]_(Queue2!queue) /\ [Queue3!QueueNext]_(Queue3!queue)
  <2> SUFFICES ASSUME IInv, [Next]_vars
               PROVE  [Queue2!QueueNext]_(Queue2!queue) /\ [Queue3!QueueNext]_(Queue3!queue)
    OBVIOUS
  <2>1. CASE UNCHANGED vars
    BY <2>1 DEF vars, Queue2!queue, Queue3!queue
  <2>2. CASE Next
    <3>1. QueueStep(2) /\ QueueStep(3)
      BY <2>2, StepIsQueueStep DEF Device
    <3>2. QueueStep(2) => Queue2!QueueNext
      BY DEF QueueStep, RingTaken, RingTakenTorn, RingIdle, RingArrives, Got,
             Queue2!QueueNext, Queue2!Take, Queue2!TakeTorn, Queue2!Idle, Queue2!Arrive
    <3>3. QueueStep(3) => Queue3!QueueNext
      BY DEF QueueStep, RingTaken, RingTakenTorn, RingIdle, RingArrives, Got,
             Queue3!QueueNext, Queue3!Take, Queue3!TakeTorn, Queue3!Idle, Queue3!Arrive
    <3> QED
      BY <3>1, <3>2, <3>3
  <2> QED
    BY <2>1, <2>2
<1> QED
  BY <1>1, <1>2, Invariant, PTL DEF Spec, ForwardsInOrder, Queue2!QueueSpec, Queue3!QueueSpec
(* Each couple's datum goes to the device of its address, in order, for any
   even ring: couples return to the slots they were in, which makes up for
   what Data1Available() says once put has wrapped (UART_Buffering.c:68-76,
   UART_Multiplex.c:190-196).  In a ring of odd size it would not. *)
THEOREM DataReachTheirDevice == Spec => CouplesRouted
<1>1. CoupleInv /\ [Next]_vars =>
        (dev # 0 /\ dev' = 0 =>
           \/ due # <<>> /\ <<out'[1], out'[2]>> = Head(due)
           \/ stray /\ ring[1].get = 0)
  <2> SUFFICES ASSUME CoupleInv, [Next]_vars, dev # 0, dev' = 0
               PROVE  \/ due # <<>> /\ <<out'[1], out'[2]>> = Head(due)
                      \/ stray /\ ring[1].get = 0
    OBVIOUS
  <2>1. TakeData
    BY DEF vars, Next, Main, Test, Peek, TakeAddress, Forward, FromRaspberry, FromDevice, Store
  <2> QED
    BY <2>1, DataKeepsCouples DEF Straddling
<1> QED
  BY <1>1, CoupleInit, CouplesKept, PTL DEF Spec, CouplesRouted

=============================================================================
