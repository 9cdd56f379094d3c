------------------------------- MODULE UartMux -------------------------------
(***************************************************************************)
(* The program of the PIC multiplexer,                                     *)
(* SE/UART_multiplex_PIC18F67J94/UART_Multiplex.c, between the Raspberry   *)
(* (USART 1) and two devices (USARTs 2 and 3).  The interrupt HISR fills a *)
(* ring per USART; the main loop unpacks (device, byte) couples from the   *)
(* Raspberry and packs the bytes of the devices into such couples.         *)
(*                                                                         *)
(* GetNext() reads the slot and only then tests for empty: the two are     *)
(* steps of their own, Peek and a Take.  The loop is modelled from the     *)
(* first test after InitBuffers() and the delay.                           *)
(***************************************************************************)
EXTENDS ByteRing

CONSTANTS
  Talking,   \* the devices that send anything
  Symbol,    \* bytes the devices and the Raspberry send as data
  First,     \* the first datum each USART receives..
  Following  \* ..and the one that follows a datum: any streams of bytes

(* Data are characters of a line: never 0, nor the address of a device. *)
ASSUME MuxAssumption ==
  /\ Talking \subseteq {2, 3}
  /\ Symbol \subseteq Nat \ {0, 1, 2}
  /\ First \in [1 .. 3 -> Symbol]
  /\ Following \in [Symbol -> Symbol]

(* Couples return to the slots they were in before. *)
ASSUME EvenAssumption == BUFFER_SIZE % 2 = 0

Device == {2, 3}
Byte   == {0, 1, 2} \cup Symbol
Nothing == <<0, 0, 0>>  \* no byte was written

VARIABLES
  ring,       \* buffer1, buffer2, buffer3
  pc,         \* <<"test" | "peek" | "take", number of the ring the loop is at>>
  dev,        \* the USART whose datum is to be taken, 0 while at an address
  c,          \* the byte peeked, 0 when none is
  out,        \* <<USART, byte, ring it came from>> the last step wrote, Nothing
  fresh,      \* the next datum to be received by each USART
  couple,     \* the address whose datum the Raspberry has yet to send, 0 if none
  due,        \* history: the couples <<USART, datum>> not yet unpacked
  torn,       \* history: ring k was lapped after the loop had found it ready
  stray       \* history: the PIC came up between the two bytes of a couple

vars == <<ring, pc, dev, c, out, fresh, couple, due, torn, stray>>

TypeOK ==
  /\ ring \in [1 .. 3 -> Ring(Byte)]
  /\ pc \in {"test", "peek", "take"} \X (1 .. 3)
  /\ dev \in {0} \cup Device
  /\ c \in Byte
  /\ out \in {Nothing} \cup (1 .. 3) \X Byte \X (0 .. 3)
  /\ fresh \in [1 .. 3 -> Symbol]
  /\ couple \in 0 .. 2
  /\ due \in Seq(Device \X Symbol)
  /\ torn \in [1 .. 3 -> BOOLEAN]
  /\ stray \in BOOLEAN

Init ==
  /\ ring = [k \in 1 .. 3 |-> NewRing]
  /\ pc = <<"test", 1>>
  /\ dev = 0 /\ c = 0 /\ out = Nothing
  /\ fresh = First
  /\ couple \in {0, 1}
  /\ due = <<>>
  /\ torn = [k \in 1 .. 3 |-> FALSE]
  /\ stray = (couple # 0)

-----------------------------------------------------------------------------
(* HISR: USART k has received byte b.  Nothing tests for a full ring. *)
Store(k, b) ==
  /\ ring' = [ring EXCEPT ![k] = AppendBuffer(@, b)]
  /\ torn' = [torn EXCEPT ![k] = @ \/ (IsEmpty(ring'[k]) /\ pc \in {<<"peek", k>>, <<"take", k>>})]
  /\ out' = Nothing
  /\ UNCHANGED <<pc, dev, c, stray>>

NextFresh(k) == fresh' = [fresh EXCEPT ![k] = Following[@]]

FromDevice(k) ==
  /\ Store(k, fresh[k])
  /\ NextFresh(k)
  /\ UNCHANGED <<couple, due>>

(* The Raspberry writes couples, at a pace the loop can follow. *)
FromRaspberry ==
  /\ Backlog(ring[1]) + 1 < BUFFER_SIZE
  /\ \/ \E a \in {1, 2} :
          /\ couple = 0
          /\ Store(1, a)
          /\ couple' = a
          /\ due' = Append(due, <<a + 1, fresh[1]>>)
          /\ UNCHANGED fresh
     \/ /\ couple # 0
        /\ Store(1, fresh[1])
        /\ couple' = 0
        /\ NextFresh(1)
        /\ UNCHANGED due

-----------------------------------------------------------------------------
NextTest(k) == <<"test", IF k = 3 THEN 1 ELSE k + 1>>

(* Slips: a device's ring is served from two bytes on; the Raspberry's from one. *)
ReadyAtTwo(k) == DataAvailable(ring[k]) > 1
ReadyAtOne(k) == DataAvailable(ring[k]) > 0

(* What the loop tests before it serves ring k. *)
Ready(k) == DataAvailable(ring[k]) > (IF k = 1 THEN 1 ELSE 0)

(* The test; a device's address is written before its byte is fetched. *)
Test(k) ==
  /\ pc = <<"test", k>>
  /\ pc' = IF Ready(k) THEN <<"peek", k>> ELSE NextTest(k)
  /\ out' = IF Ready(k) /\ k # 1 THEN <<1, k - 1, 0>> ELSE Nothing
  /\ UNCHANGED <<ring, dev, c, fresh, couple, due, torn, stray>>

(* GetNext() first reads the slot.. *)
Peek(k) ==
  /\ pc = <<"peek", k>>
  /\ c' = ring[k].buf[ring[k].get]
  /\ pc' = <<"take", k>>
  /\ out' = Nothing
  /\ UNCHANGED <<ring, dev, fresh, couple, due, torn, stray>>

(* ..then returns 0 if there is nothing, the byte read otherwise. *)
Taken(k) == IF IsEmpty(ring[k]) THEN 0 ELSE c

TakeFrom(k) ==
  /\ pc = <<"take", k>>
  /\ ring' = [ring EXCEPT ![k] = Advance(@)]
  /\ torn' = [torn EXCEPT ![k] = FALSE]
  /\ c' = 0
  /\ UNCHANGED <<fresh, couple, stray>>

(* switch(GetNext1()): a byte that is no address is dropped, alone. *)
TakeAddress ==
  /\ dev = 0
  /\ TakeFrom(1)
  /\ dev' = IF Taken(1) \in {1, 2} THEN Taken(1) + 1 ELSE 0
  /\ pc' = IF dev' # 0 THEN <<"peek", 1>> ELSE <<"test", 2>>
  /\ out' = Nothing
  /\ UNCHANGED due

(* putc2USART(GetNext1()) or putc3USART(GetNext1()). *)
TakeData ==
  /\ dev # 0
  /\ TakeFrom(1)
  /\ out' = <<dev, Taken(1), 1>>
  /\ due' = IF due = <<>> THEN due ELSE Tail(due)
  /\ dev' = 0
  /\ pc' = <<"test", 2>>

(* putc1USART(GetNext2()) or putc1USART(GetNext3()). *)
Forward(k) ==
  /\ TakeFrom(k)
  /\ out' = <<1, Taken(k), k>>
  /\ pc' = NextTest(k)
  /\ UNCHANGED <<dev, due>>

Main ==
  \/ \E k \in 1 .. 3 : Test(k) \/ Peek(k)
  \/ TakeAddress \/ TakeData
  \/ \E k \in Device : Forward(k)

Next == Main \/ FromRaspberry \/ \E k \in Talking : FromDevice(k)

Spec == Init /\ [][Next]_vars /\ WF_vars(Main)

-----------------------------------------------------------------------------
(* "Bytes are send as couple: 1st byte device address, 2nd data"
   (UART_Multiplex.c:190-196): every couple's datum goes to its device, in
   order.  The one exception is a PIC that missed the first half of a couple:
   couples then straddle the end of the buffer, where Data1Available() takes
   one byte for many, and that couple is torn (UART_Buffering.c:68-76). *)
CouplesRouted ==
  [][dev # 0 /\ dev' = 0 =>
       \/ due # <<>> /\ <<out'[1], out'[2]>> = Head(due)
       \/ stray /\ ring[1].get = 0]_vars

(* The ring of a device is a queue that forgets everything when it is full,
   and nothing otherwise, in order and without repetition, although the
   interrupt may come between any two steps of GetNext(). *)
Queue2 == INSTANCE LossyQueue WITH
  Size <- BUFFER_SIZE, Byte <- Symbol, q <- Held(ring[2]), torn <- torn[2],
  got <- IF out[3] = 2 THEN <<out[2]>> ELSE <<>>
Queue3 == INSTANCE LossyQueue WITH
  Size <- BUFFER_SIZE, Byte <- Symbol, q <- Held(ring[3]), torn <- torn[3],
  got <- IF out[3] = 3 THEN <<out[2]>> ELSE <<>>

ForwardsInOrder == Queue2!QueueSpec /\ Queue3!QueueSpec

(* No ring starves: while a device's ring holds something its bytes go on to
   the Raspberry, however busy the other two are. *)
Served == \A k \in Device : ~IsEmpty(ring[k]) ~> (IsEmpty(ring[k]) \/ out[3] = k)
=============================================================================
