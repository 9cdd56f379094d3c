------------------------------ MODULE LineBuffer ------------------------------
(***************************************************************************)
(* The UART line buffer of the nodes, apps/uart_functions/                 *)
(* uart_functions.c: uart0_callback() stores each character received in a  *)
(* ring and, at a line feed, takes a line out of it and hands it to the    *)
(* program.  It runs in the receive interrupt, so a whole call is one      *)
(* step.  The functions for UART 1 are the same again.                     *)
(***************************************************************************)
EXTENDS Naturals, Sequences, FiniteSets, SequencesExt

CONSTANTS
  UART_BUFFER_SIZE,  \* slots of the ring (64)
  Char,              \* characters other than the line feed
  LF                 \* '\n'

ASSUME LineBufferAssumption ==
  /\ UART_BUFFER_SIZE \in Nat /\ UART_BUFFER_SIZE > 1
  /\ Char \subseteq 1 .. 255 /\ LF \in (1 .. 255) \ Char

VARIABLES
  buffer, put, get,  \* uart0_buffer, uart0_put and uart0_get
  callback,          \* uart0_lineCallback is set
  line,              \* the line handed over by the last step, or None
  typed,             \* history: what was received since the last line feed, its end
  early              \* history: a line feed came before the callback was set

vars == <<buffer, put, get, callback, line, typed, early>>

Slots == 0 .. UART_BUFFER_SIZE - 1
None  == <<LF>>  \* no line holds a line feed

TypeOK ==
  /\ buffer \in [Slots -> Char \cup {LF, 0}]
  /\ put \in Slots /\ get \in Slots
  /\ callback \in BOOLEAN
  /\ line \in Seq(Char \cup {LF, 0})
  /\ typed \in Seq(Char)
  /\ early \in BOOLEAN

Init ==
  /\ buffer = [s \in Slots |-> 0]
  /\ put = 0 /\ get = 0
  /\ callback = FALSE
  /\ line = None
  /\ typed = <<>>
  /\ early = FALSE

-----------------------------------------------------------------------------
(* A pointer moved on by i < UART_BUFFER_SIZE + 1 slots. *)
At(s, i) == IF s + i < UART_BUFFER_SIZE THEN s + i ELSE s + i - UART_BUFFER_SIZE

(* Slip: a ring that has wrapped is taken for an empty one. *)
AvailableUnwrapped(g, p) == IF g > p THEN 0 ELSE p - g

(* uart0_available(), with the operands of the sum exchanged when g is past p.
   It is only ever compared with 0. *)
Available(g, p) == IF g > p THEN UART_BUFFER_SIZE - p + g ELSE p - g

(* The loop of uart0_callback(): uart0_next() while uart0_available(), up to
   and including a line feed.  The end, one past the character just stored,
   is not wrapped yet. *)
TakeLine(b, end) ==
  \E n \in 0 .. UART_BUFFER_SIZE - 1 :
    /\ \A i \in 0 .. n - 1 : Available(At(get, i), end) # 0 /\ b[At(get, i)] # LF
    /\ line' = [i \in 1 .. n |-> b[At(get, i - 1)]]
    /\ \/ Available(At(get, n), end) = 0 /\ get' = At(get, n)
       \/ Available(At(get, n), end) # 0 /\ b[At(get, n)] = LF /\ get' = At(get, n + 1)

(* Slips: put is wrapped one slot late; one slot early. *)
WrapLate(p)  == IF p > UART_BUFFER_SIZE THEN 0 ELSE p
WrapEarly(p) == IF p >= UART_BUFFER_SIZE - 1 THEN 0 ELSE p

Wrap(p) == IF p >= UART_BUFFER_SIZE THEN 0 ELSE p

(* uart0_callback(ch), without a test for a full ring. *)
Receive(ch) ==
  /\ buffer' = [buffer EXCEPT ![put] = ch]
  /\ \/ callback /\ ch = LF /\ TakeLine(buffer', put + 1)
     \/ ~(callback /\ ch = LF) /\ line' = None /\ UNCHANGED get
  /\ put' = Wrap(put + 1)
  /\ typed' = IF ch = LF THEN <<>>
              ELSE IF Len(typed) < UART_BUFFER_SIZE THEN Append(typed, ch)
              ELSE Append(Tail(typed), ch)
  /\ early' = (early \/ (~callback /\ ch = LF))
  /\ UNCHANGED callback

(* uart0_setLineCallback(), after rs232_set_input() has let characters in. *)
SetLineCallback ==
  /\ ~callback
  /\ callback' = TRUE
  /\ line' = None
  /\ UNCHANGED <<buffer, put, get, typed, early>>

Next == SetLineCallback \/ \E ch \in Char \cup {LF} : Receive(ch)

Spec == Init /\ [][Next]_vars

-----------------------------------------------------------------------------
(* The program gets the line that was received, also one that straddles the
   end of the ring.  A line too long for the ring laps the reader
   (uart_functions.c:44): its beginning is lost, but no other line ever gets
   into it. *)
LineIsTail ==
  [][line' # None /\ ~early =>
       /\ IsSuffix(line', typed)
       /\ Len(typed) < UART_BUFFER_SIZE - 1 => line' = typed]_vars

(* Whatever was received, a line feed leaves the ring empty: after a line too
   long the next is whole again. *)
InSync == line # None /\ ~early => get = put

Unread ==
  {s \in Slots : IF get <= put THEN get <= s /\ s < put ELSE s >= get \/ s < put}
LinesUnread == {s \in Unread : buffer[s] = LF}

(* The callback takes one line per line feed.  A line received between
   rs232_set_input() and uart0_setLineCallback() (e-protect-sensor-3.c:109-110)
   is therefore handed over in place of the next, and so on, one line late
   for good, until a line too long makes the ring forget. *)
BehindForGood ==
  [][callback /\ Cardinality(Unread) + 1 < UART_BUFFER_SIZE =>
       Cardinality(LinesUnread') = Cardinality(LinesUnread)]_vars
=============================================================================
