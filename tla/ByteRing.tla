------------------------------- MODULE ByteRing -------------------------------
(***************************************************************************)
(* The ring buffers of the PIC multiplexer,                                *)
(* SE/UART_multiplex_PIC18F67J94/UART_Buffering.c.  The file repeats the   *)
(* same three functions for four buffers; here a buffer is a record.       *)
(***************************************************************************)
EXTENDS Naturals, Sequences

CONSTANT BUFFER_SIZE  \* slots of a buffer (64)

ASSUME RingAssumption == BUFFER_SIZE \in Nat /\ BUFFER_SIZE > 1

Slots == 0 .. BUFFER_SIZE - 1
Ring(Byte) == [buf : [Slots -> Byte], put : Slots, get : Slots]

NewRing == [buf |-> [s \in Slots |-> 0], put |-> 0, get |-> 0]

(* A pointer incremented past the last slot returns to the first. *)
Wrap(s) == IF s >= BUFFER_SIZE THEN 0 ELSE s

(* Slips: the pointer is wrapped one slot late; it is moved before the byte
   is stored. *)
AppendBufferLate(r, b) ==
  [r EXCEPT !.buf[r.put] = b, !.put = IF r.put >= BUFFER_SIZE THEN 0 ELSE r.put + 1]
AppendBufferAhead(r, b) == [r EXCEPT !.buf[Wrap(r.put + 1)] = b, !.put = Wrap(r.put + 1)]

AppendBuffer(r, b) ==
  [r EXCEPT !.buf = [@ EXCEPT ![r.put] = b], !.put = Wrap(r.put + 1)]

IsEmpty(r) == r.get = r.put

(* GetNextN() after it has read the slot: the pointer moves unless there was
   nothing to read. *)
Advance(r) == IF IsEmpty(r) THEN r ELSE [r EXCEPT !.get = Wrap(r.get + 1)]

(* DataNAvailable().  Once put has wrapped below get the sum has its operands
   exchanged: it is what is free, and a whole buffer more. *)
DataAvailable(r) ==
  IF r.get > r.put THEN BUFFER_SIZE - r.put + r.get ELSE r.put - r.get

(* How many bytes there really are, and which. *)
Backlog(r) == IF r.get > r.put THEN BUFFER_SIZE - r.get + r.put ELSE r.put - r.get

Held(r) ==
  [i \in 1 .. Backlog(r) |->
     r.buf[IF r.get + i - 1 < BUFFER_SIZE THEN r.get + i - 1 ELSE r.get + i - 1 - BUFFER_SIZE]]
=============================================================================
