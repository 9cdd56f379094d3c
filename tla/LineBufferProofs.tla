--------------------------- MODULE LineBufferProofs ---------------------------
(***************************************************************************)
(* Theorems about LineBuffer, for a ring of any size and any characters:   *)
(* the pointers stay in the ring although uart0_put is wrapped late and    *)
(* uart0_available() counts wrongly, and a line feed always empties the    *)
(* ring, so that a line too long spoils no other.  What makes the second   *)
(* inductive: no line feed is ever left unread, unless one came too early. *)
(* What is unread is the end of what was typed, character by character, so *)
(* what is handed over is the line; and one line feed takes one line.      *)
(***************************************************************************)
EXTENDS LineBuffer, Integers, FiniteSetTheorems, TLAPS

NoLineUnread == ~early => \A s \in Unread : buffer[s] # LF

IInv == TypeOK /\ NoLineUnread /\ InSync

USE LineBufferAssumption

-----------------------------------------------------------------------------
LEMMA Initially == Init => IInv
<1> SUFFICES ASSUME Init PROVE IInv
  OBVIOUS
<1>1. TypeOK
  <2>1. buffer \in [Slots -> Char \cup {LF, 0}]
    BY DEF Init
  <2>2. put \in Slots /\ get \in Slots
    BY DEF Init, Slots
  <2>3. callback \in BOOLEAN /\ early \in BOOLEAN
    BY DEF Init
  <2>4. line \in Seq(Char \cup {LF, 0}) /\ typed \in Seq(Char)
    BY DEF Init, None
  <2> QED
    BY <2>1, <2>2, <2>3, <2>4 DEF TypeOK
<1>2. NoLineUnread /\ InSync
  BY DEF Init, NoLineUnread, InSync, Unread, Slots
<1> QED
  BY <1>1, <1>2 DEF IInv

(* uart0_available() is wrong by its operands, but 0 exactly when it should
   be, also while the end is not wrapped. *)
LEMMA AvailableIsZero ==
  ASSUME NEW g \in Slots, NEW p \in 0 .. UART_BUFFER_SIZE
  PROVE  Available(g, p) = 0 <=> g = p
  BY DEF Available, Slots

LEMMA AtInSlots ==
  ASSUME NEW s \in Slots, NEW i \in 0 .. UART_BUFFER_SIZE
  PROVE  At(s, i) \in Slots
  BY DEF At, Slots

LEMMA WrapInSlots == ASSUME NEW p \in Slots PROVE Wrap(p + 1) \in Slots
  BY DEF Wrap, Slots

(* The reader cannot get past put without having been there. *)
LEMMA PutIsOnTheWay ==
  ASSUME put \in Slots, get \in Slots,
         NEW n \in 0 .. UART_BUFFER_SIZE - 1,
         At(get, n) \notin Unread, At(get, n) # put
  PROVE  \E i \in 0 .. n - 1 : At(get, i) = put
<1>1. CASE get <= put
  <2>1. put - get \in 0 .. n - 1 /\ At(get, put - get) = put
    BY <1>1 DEF At, Unread, Slots
  <2> QED
    BY <2>1
<1>2. CASE get > put
  <2>1. put - get + UART_BUFFER_SIZE \in 0 .. n - 1 /\ At(get, put - get + UART_BUFFER_SIZE) = put
    BY <1>2 DEF At, Unread, Slots
  <2> QED
    BY <2>1
<1> QED
  BY <1>1, <1>2 DEF Slots

(* A line feed is taken as far as it was stored: to the end of the ring. *)
LEMMA LineEndsAtPut ==
  ASSUME TypeOK, NEW ch, Receive(ch), callback, ch = LF, NoLineUnread, ~early
  PROVE  get' = put'
<1> DEFINE end == put + 1
<1>1. /\ put \in Slots /\ get \in Slots /\ end \in 0 .. UART_BUFFER_SIZE
      /\ put' = Wrap(end)
      /\ buffer' = [buffer EXCEPT ![put] = LF]
      /\ TakeLine(buffer', end)
  BY DEF TypeOK, Receive, Slots
<1>2. PICK n \in 0 .. UART_BUFFER_SIZE - 1 :
        /\ \A i \in 0 .. n - 1 : Available(At(get, i), end) # 0 /\ buffer'[At(get, i)] # LF
        /\ \/ Available(At(get, n), end) = 0 /\ get' = At(get, n)
           \/ Available(At(get, n), end) # 0 /\ buffer'[At(get, n)] = LF /\ get' = At(get, n + 1)
  BY <1>1 DEF TakeLine
<1>3. At(get, n) \in Slots
  BY <1>1, AtInSlots
<1>4. buffer'[put] = LF
  BY <1>1 DEF TypeOK
<1>5. CASE Available(At(get, n), end) = 0 /\ get' = At(get, n)
  <2>1. get' = end
    BY <1>1, <1>3, <1>5, AvailableIsZero
  <2> QED
    BY <1>1, <1>3, <1>5, <2>1 DEF Wrap, Slots
<1>6. CASE buffer'[At(get, n)] = LF /\ get' = At(get, n + 1)
  <2>1. At(get, n) = put
    <3> SUFFICES ASSUME At(get, n) # put PROVE FALSE
      OBVIOUS
    <3>1. At(get, n) \notin Unread
      BY <1>1, <1>3, <1>6 DEF NoLineUnread, TypeOK
    <3>2. PICK i \in 0 .. n - 1 : At(get, i) = put
      BY <1>1, <3>1, PutIsOnTheWay
    <3> QED
      BY <1>2, <1>4, <3>2
  <2> QED
    BY <1>1, <1>6, <2>1 DEF At, Wrap, Slots
<1> QED
  BY <1>2, <1>5, <1>6

-----------------------------------------------------------------------------
LEMMA ReceiveKeepsTypes == ASSUME TypeOK, NEW ch \in Char \cup {LF}, Receive(ch) PROVE TypeOK'
<1>1. put \in Slots /\ get \in Slots /\ put' \in Slots
  BY WrapInSlots DEF TypeOK, Receive
<1>2. buffer' \in [Slots -> Char \cup {LF, 0}]
  BY <1>1 DEF TypeOK, Receive
<1>3. line' \in Seq(Char \cup {LF, 0}) /\ get' \in Slots
  <2>1. CASE TakeLine(buffer', put + 1)
    <3>1. PICK n \in 0 .. UART_BUFFER_SIZE - 1 :
            /\ line' = [i \in 1 .. n |-> buffer'[At(get, i - 1)]]
            /\ get' = At(get, n) \/ get' = At(get, n + 1)
      BY <2>1 DEF TakeLine
    <3>2. \A i \in 1 .. n : buffer'[At(get, i - 1)] \in Char \cup {LF, 0}
      BY <1>1, <1>2, AtInSlots
    <3>3. line' \in [1 .. n -> Char \cup {LF, 0}]
      BY <3>1, <3>2
    <3>4. line' \in Seq(Char \cup {LF, 0})
      BY <3>3
    <3>5. get' \in Slots
      BY <1>1, <3>1, AtInSlots
    <3> QED
      BY <3>4, <3>5
  <2>2. CASE line' = None /\ UNCHANGED get
    BY <1>1, <2>2 DEF None
  <2> QED
    BY <2>1, <2>2 DEF Receive
<1>4. typed' \in Seq(Char)
  <2>1. CASE ch = LF
    BY <2>1 DEF Receive
  <2>2. CASE ch # LF /\ typed' = Append(typed, ch)
    BY <2>2 DEF TypeOK
  <2>3. CASE ch # LF /\ typed' = Append(Tail(typed), ch) /\ Len(typed) >= UART_BUFFER_SIZE
    <3>1. typed \in Seq(Char) /\ typed # <<>> /\ ch \in Char
      BY <2>3 DEF TypeOK
    <3> QED
      BY <2>3, <3>1
  <2> QED
    BY <2>1, <2>2, <2>3 DEF Receive, TypeOK
<1>5. callback' \in BOOLEAN
  BY DEF Receive, TypeOK
<1>6. early' \in BOOLEAN
  BY DEF Receive
<1> QED
  BY <1>1, <1>2, <1>3, <1>4, <1>5, <1>6 DEF TypeOK

LEMMA ReceiveKeepsSync ==
  ASSUME IInv, NEW ch \in Char \cup {LF}, Receive(ch)
  PROVE  NoLineUnread' /\ InSync'
<1> USE DEF IInv
<1>1. CASE early'
  BY <1>1 DEF NoLineUnread, InSync
<1>2. CASE ~early' /\ ch = LF
  <2>1. callback /\ ~early
    BY <1>2 DEF Receive, TypeOK
  <2>2. get' = put' /\ put' \in Slots
    BY <1>2, <2>1, LineEndsAtPut, ReceiveKeepsTypes DEF TypeOK
  <2>3. Unread' = {}
    BY <2>2 DEF Unread, Slots
  <2> QED
    BY <2>2, <2>3 DEF NoLineUnread, InSync
<1>3. CASE ~early' /\ ch # LF
  <2>1. ~early /\ line' = None /\ get' = get /\ put' = Wrap(put + 1)
        /\ buffer' = [buffer EXCEPT ![put] = ch]
    BY <1>3 DEF Receive
  <2>2. Unread' \subseteq Unread \cup {put}
    BY <2>1 DEF Unread, Wrap, Slots, TypeOK
  <2>3. \A s \in Unread' : buffer'[s] # LF
    BY <1>3, <2>1, <2>2 DEF NoLineUnread, TypeOK, Unread
  <2> QED
    BY <2>1, <2>3 DEF NoLineUnread, InSync
<1> QED
  BY <1>1, <1>2, <1>3

LEMMA Preserved == IInv /\ [Next]_vars => IInv'
<1> SUFFICES ASSUME IInv, [Next]_vars PROVE IInv'
  OBVIOUS
<1>1. ASSUME NEW ch \in Char \cup {LF}, Receive(ch) PROVE IInv'
  BY <1>1, ReceiveKeepsTypes, ReceiveKeepsSync DEF IInv
<1>2. CASE SetLineCallback
  <2>1. TypeOK'
    BY <1>2 DEF SetLineCallback, IInv, TypeOK, None
  <2>2. Unread' = Unread
    BY <1>2 DEF SetLineCallback, Unread, Slots
  <2> QED
    BY <1>2, <2>1, <2>2 DEF SetLineCallback, IInv, NoLineUnread, InSync
<1>3. CASE UNCHANGED vars
  <2>1. Unread' = Unread
    BY <1>3 DEF vars, Unread, Slots
  <2> QED
    BY <1>3, <2>1 DEF vars, IInv, TypeOK, NoLineUnread, InSync
<1> QED
  BY <1>1, <1>2, <1>3 DEF Next

LEMMA Invariant == Spec => []IInv
  BY Initially, Preserved, PTL DEF Spec

-----------------------------------------------------------------------------
(* What is unread, character by character: the end of what was typed. *)

Count == IF get <= put THEN put - get ELSE put - get + UART_BUFFER_SIZE

(* All that was typed is unread, until the line gets too long: from then on
   typed keeps a whole ring of it, and what is unread is some of its end. *)
UnreadIsTyped ==
  ~early =>
    /\ Len(typed) <= UART_BUFFER_SIZE /\ Count <= Len(typed)
    /\ Len(typed) < UART_BUFFER_SIZE => Count = Len(typed)
    /\ \A i \in 1 .. Count : buffer[At(get, i - 1)] = typed[Len(typed) - Count + i]

LineInv == IInv /\ UnreadIsTyped

LEMMA CountIs ==
  ASSUME put \in Slots, get \in Slots
  PROVE  /\ Count \in Nat /\ Count <= UART_BUFFER_SIZE - 1
         /\ At(get, Count) = put
         /\ \A i \in 0 .. Count - 1 : At(get, i) \in Unread /\ At(get, i) # put
         /\ \A s \in Unread : \E i \in 0 .. Count - 1 : s = At(get, i)
         /\ \A i \in 0 .. Count : At(get, i) = put + 1 => i = 0 /\ Count = UART_BUFFER_SIZE - 1
         /\ Count = UART_BUFFER_SIZE - 1 <=> get = Wrap(put + 1)
<1>1. CASE get <= put
  <2>1. Count = put - get
    BY <1>1 DEF Count
  <2>2. \A s \in Unread : s = At(get, s - get) /\ s - get \in 0 .. Count - 1
    BY <1>1, <2>1 DEF Unread, At, Slots
  <2>3. Count \in Nat /\ Count <= UART_BUFFER_SIZE - 1 /\ At(get, Count) = put
    BY <1>1, <2>1 DEF At, Slots
  <2>4. \A i \in 0 .. Count - 1 : At(get, i) \in Unread /\ At(get, i) # put
    BY <1>1, <2>1 DEF At, Unread, Slots
  <2>5. \A i \in 0 .. Count : At(get, i) = put + 1 => i = 0 /\ Count = UART_BUFFER_SIZE - 1
    BY <1>1, <2>1 DEF At, Slots
  <2>6. Count = UART_BUFFER_SIZE - 1 <=> get = Wrap(put + 1)
    BY <1>1, <2>1 DEF Slots, Wrap
  <2> QED
    BY <2>2, <2>3, <2>4, <2>5, <2>6
<1>2. CASE get > put
  <2>1. Count = put - get + UART_BUFFER_SIZE
    BY <1>2 DEF Count, Slots
  <2>2. ASSUME NEW s \in Unread PROVE \E i \in 0 .. Count - 1 : s = At(get, i)
    <3>1. CASE s >= get
      <4>1. s = At(get, s - get) /\ s - get \in 0 .. Count - 1
        BY <1>2, <2>1, <3>1 DEF At, Unread, Slots
      <4> QED
        BY <4>1
    <3>2. CASE s < get
      <4>1. s = At(get, s - get + UART_BUFFER_SIZE)
            /\ s - get + UART_BUFFER_SIZE \in 0 .. Count - 1
        BY <1>2, <2>1, <3>2 DEF At, Unread, Slots
      <4> QED
        BY <4>1
    <3> QED
      BY <3>1, <3>2 DEF Unread, Slots
  <2> QED
    BY <1>2, <2>1, <2>2 DEF At, Unread, Slots, Wrap
<1> QED
  BY <1>1, <1>2 DEF Slots

LEMMA AtDiffers ==
  ASSUME NEW s \in Slots, NEW i \in 0 .. UART_BUFFER_SIZE - 1,
         NEW j \in 0 .. UART_BUFFER_SIZE - 1, i # j
  PROVE  At(s, i) # At(s, j)
  BY DEF At, Slots

LEMMA NextCount ==
  ASSUME put \in Slots, get \in Slots, put' = Wrap(put + 1), get' = get
  PROVE  Count' = IF Count = UART_BUFFER_SIZE - 1 THEN 0 ELSE Count + 1
  BY DEF Count, Wrap, Slots

LEMMA SyncedCount == ASSUME NEW p \in Slots, put' = p, get' = p PROVE Count' = 0
  BY DEF Count, Slots

(* The line feed is found at the latest where it was just stored, unless
   uart0_available() is 0 at once: put is then one before get. *)
LEMMA LineFound ==
  ASSUME put \in Slots, get \in Slots, TypeOK,
         buffer' = [buffer EXCEPT ![put] = LF], TakeLine(buffer', put + 1)
  PROVE  \/ Count = UART_BUFFER_SIZE - 1 /\ line' = <<>>
         \/ \E n \in 0 .. Count :
              /\ line' = [i \in 1 .. n |-> buffer'[At(get, i - 1)]]
              /\ \A i \in 0 .. n - 1 : buffer'[At(get, i)] # LF
              /\ buffer'[At(get, n)] = LF /\ get' = At(get, n + 1)
<1>1. PICK n \in 0 .. UART_BUFFER_SIZE - 1 :
        /\ \A i \in 0 .. n - 1 : Available(At(get, i), put + 1) # 0 /\ buffer'[At(get, i)] # LF
        /\ line' = [i \in 1 .. n |-> buffer'[At(get, i - 1)]]
        /\ \/ Available(At(get, n), put + 1) = 0 /\ get' = At(get, n)
           \/ Available(At(get, n), put + 1) # 0 /\ buffer'[At(get, n)] = LF /\ get' = At(get, n + 1)
  BY DEF TakeLine
<1>2. buffer'[put] = LF
  BY DEF TypeOK
<1>3. n <= Count
  <2> SUFFICES ASSUME Count < n PROVE FALSE
    BY CountIs
  <2>1. Count \in 0 .. n - 1 /\ At(get, Count) = put
    BY CountIs
  <2> QED
    BY <1>1, <1>2, <2>1
<1>4. n \in 0 .. Count
  BY <1>3, CountIs
<1>5. CASE Available(At(get, n), put + 1) = 0
  <2>1. At(get, n) = put + 1
    <3>1. At(get, n) \in Slots /\ put + 1 \in 0 .. UART_BUFFER_SIZE
      BY AtInSlots DEF Slots
    <3> QED
      BY <1>5, <3>1, AvailableIsZero
  <2>2. n = 0 /\ Count = UART_BUFFER_SIZE - 1
    BY <1>4, <2>1, CountIs
  <2>3. line' = <<>>
    BY <1>1, <2>2
  <2> QED
    BY <2>2, <2>3
<1>6. CASE Available(At(get, n), put + 1) # 0
  BY <1>1, <1>4, <1>6
<1> QED
  BY <1>5, <1>6

LEMMA TypedInit == Init => UnreadIsTyped
  BY DEF Init, UnreadIsTyped, Count, Slots

LEMMA ReceiveKeepsTyped ==
  ASSUME LineInv, NEW ch \in Char \cup {LF}, Receive(ch)
  PROVE  UnreadIsTyped'
<1> SUFFICES ASSUME ~early' PROVE UnreadIsTyped'
  BY DEF UnreadIsTyped
<1>1. /\ TypeOK /\ TypeOK' /\ ~early /\ NoLineUnread
      /\ put \in Slots /\ get \in Slots /\ put' \in Slots /\ put' = Wrap(put + 1)
  BY ReceiveKeepsTypes DEF LineInv, IInv, TypeOK, Receive
<1>2. CASE ch = LF
  <2>1. callback
    BY <1>2 DEF Receive
  <2>2. get' = put'
    BY <1>1, <1>2, <2>1, LineEndsAtPut
  <2>3. Count' = 0 /\ typed' = <<>>
    BY <1>1, <1>2, <2>2, SyncedCount DEF Receive
  <2> QED
    BY <2>3 DEF UnreadIsTyped
<1>3. CASE ch # LF
  <2> DEFINE n == Len(typed)
             k == Count
  <2>1. get' = get /\ buffer' = [buffer EXCEPT ![put] = ch] /\ ch \in Char
    BY <1>3 DEF Receive
  <2>2. /\ n \in Nat /\ n <= UART_BUFFER_SIZE /\ k <= n /\ k \in Nat /\ k <= UART_BUFFER_SIZE - 1
        /\ n < UART_BUFFER_SIZE => k = n
        /\ \A i \in 1 .. k : buffer[At(get, i - 1)] = typed[n - k + i]
    BY <1>1, CountIs DEF LineInv, UnreadIsTyped, TypeOK
  <2>3. Count' = IF k = UART_BUFFER_SIZE - 1 THEN 0 ELSE k + 1
    BY <1>1, <2>1, NextCount
  <2>4. /\ Len(typed') = IF n < UART_BUFFER_SIZE THEN n + 1 ELSE n
        /\ typed'[Len(typed')] = ch
        /\ \A j \in 1 .. Len(typed') - 1 :
             typed'[j] = typed[IF n < UART_BUFFER_SIZE THEN j ELSE j + 1]
    <3>1. typed \in Seq(Char)
      BY <1>1 DEF TypeOK
    <3>2. CASE n < UART_BUFFER_SIZE
      <4>1. typed' = Append(typed, ch)
        BY <1>3, <3>2 DEF Receive
      <4> QED
        BY <2>1, <3>1, <3>2, <4>1
    <3>3. CASE ~(n < UART_BUFFER_SIZE)
      <4>1. typed' = Append(Tail(typed), ch)
        BY <1>3, <3>3 DEF Receive
      <4>2. /\ Tail(typed) \in Seq(Char) /\ Len(Tail(typed)) = n - 1
            /\ \A j \in 1 .. n - 1 : Tail(typed)[j] = typed[j + 1]
        BY <2>2, <3>1, <3>3
      <4>3. /\ Len(typed') = n /\ typed'[n] = ch
            /\ \A j \in 1 .. n - 1 : typed'[j] = Tail(typed)[j]
        <5>1. \A q \in Seq(Char) :
                /\ Len(Append(q, ch)) = Len(q) + 1 /\ Append(q, ch)[Len(q) + 1] = ch
                /\ \A j \in 1 .. Len(q) : Append(q, ch)[j] = q[j]
          BY <2>1
        <5>2. n - 1 + 1 = n
          BY <2>2
        <5> QED
          BY <4>1, <4>2, <5>1, <5>2
      <4> QED
        BY <2>2, <3>3, <4>2, <4>3
    <3> QED
      BY <3>2, <3>3
  <2>5. CASE k = UART_BUFFER_SIZE - 1
    <3>1. Count' = 0 /\ Len(typed') \in Nat /\ Len(typed') = UART_BUFFER_SIZE
      BY <2>2, <2>3, <2>4, <2>5
    <3> QED
      BY <3>1 DEF UnreadIsTyped
  <2>6. CASE k # UART_BUFFER_SIZE - 1
    <3> DEFINE m == Len(typed')
    <3>1. /\ Count' = k + 1 /\ m <= UART_BUFFER_SIZE /\ k + 1 <= m
          /\ m < UART_BUFFER_SIZE => k + 1 = m
      BY <2>2, <2>3, <2>4, <2>6
    <3>2. ASSUME NEW i \in 1 .. k + 1
          PROVE  buffer'[At(get, i - 1)] = typed'[m - (k + 1) + i]
      <4>1. CASE i = k + 1
        <5>1. At(get, i - 1) = put /\ m - (k + 1) + i = m
          <6>1. At(get, Count) = put
            BY <1>1, CountIs
          <6>2. i - 1 = k /\ m - (k + 1) + i = m
            <7>1. k \in Nat /\ m \in Nat
              BY <2>2, <2>4
            <7> HIDE DEF k, m
            <7> QED
              BY <4>1, <7>1
          <6> QED
            BY <6>1, <6>2
        <5>2. buffer'[put] = ch
          BY <1>1, <2>1 DEF TypeOK
        <5> QED
          BY <2>4, <5>1, <5>2
      <4>2. CASE i \in 1 .. k
        <5>1. i - 1 \in 0 .. k - 1
          BY <2>2, <4>2
        <5>2. At(get, i - 1) # put /\ At(get, i - 1) \in Slots
          BY <1>1, <2>2, <5>1, CountIs, AtInSlots
        <5>3. buffer'[At(get, i - 1)] = typed[n - k + i]
          BY <1>1, <2>1, <2>2, <4>2, <5>2 DEF TypeOK
        <5>4. m - (k + 1) + i \in 1 .. m - 1
          BY <2>2, <3>1, <2>4, <4>2
        <5>5. typed'[m - (k + 1) + i] = typed[n - k + i]
          <6>1. CASE n < UART_BUFFER_SIZE
            <7>1. m - (k + 1) + i = n - k + i
              BY <2>2, <2>4, <6>1
            <7> QED
              BY <2>4, <5>4, <6>1, <7>1
          <6>2. CASE ~(n < UART_BUFFER_SIZE)
            <7>1. m - (k + 1) + i + 1 = n - k + i
              BY <2>2, <2>4, <6>2
            <7> QED
              BY <2>4, <5>4, <6>2, <7>1
          <6> QED
            BY <6>1, <6>2
        <5> QED
          BY <5>3, <5>5
      <4> QED
        BY <2>2, <4>1, <4>2
    <3> QED
      BY <2>1, <3>1, <3>2 DEF UnreadIsTyped
  <2> QED
    BY <2>5, <2>6
<1> QED
  BY <1>2, <1>3

LEMMA LinePreserved == LineInv /\ [Next]_vars => LineInv'
<1> SUFFICES ASSUME LineInv, [Next]_vars PROVE LineInv'
  OBVIOUS
<1>1. IInv'
  BY Preserved DEF LineInv
<1>2. ASSUME NEW ch \in Char \cup {LF}, Receive(ch) PROVE UnreadIsTyped'
  BY <1>2, ReceiveKeepsTyped
<1>3. ASSUME SetLineCallback \/ UNCHANGED vars PROVE UnreadIsTyped'
  BY <1>3 DEF SetLineCallback, vars, LineInv, UnreadIsTyped, Count, At
<1>4. UnreadIsTyped'
  BY <1>2, <1>3 DEF Next
<1> QED
  BY <1>1, <1>4 DEF LineInv

LEMMA SuffixByIndex ==
  ASSUME NEW S, NEW s \in Seq(S), NEW t \in Seq(S), Len(s) <= Len(t),
         \A i \in 1 .. Len(s) : s[i] = t[Len(t) - Len(s) + i]
  PROVE  IsSuffix(s, t)
<1> DEFINE n == Len(s)
<1>1. n \in Nat /\ Len(t) \in Nat
  OBVIOUS
<1>2. /\ Reverse(s) = [i \in 1 .. n |-> s[n - i + 1]] /\ Len(Reverse(s)) = n
      /\ Reverse(t) = [i \in 1 .. Len(t) |-> t[Len(t) - i + 1]] /\ Len(Reverse(t)) = Len(t)
  BY DEF Reverse
<1>3. \A i \in 1 .. n : Reverse(s)[i] = Reverse(t)[i]
  <2> TAKE i \in 1 .. n
  <2>1. n - i + 1 \in 1 .. n /\ Len(t) - n + (n - i + 1) = Len(t) - i + 1 /\ i \in 1 .. Len(t)
    BY <1>1
  <2>2. s[n - i + 1] = t[Len(t) - n + (n - i + 1)]
    BY <2>1
  <2> QED
    BY <1>2, <2>1, <2>2
<1>4. SubSeq(Reverse(s), 1, n) = SubSeq(Reverse(t), 1, n)
  <2>1. SubSeq(Reverse(s), 1, n) = [i \in 1 .. n |-> Reverse(s)[i]]
    BY <1>1
  <2>2. SubSeq(Reverse(t), 1, n) = [i \in 1 .. n |-> Reverse(t)[i]]
    BY <1>1
  <2> QED
    BY <1>3, <2>1, <2>2
<1> QED
  BY <1>2, <1>4 DEF IsSuffix, IsPrefix

(* What is handed over is the end of what was typed, and all of it unless it
   was too long. *)
LEMMA LineHandedOver ==
  ASSUME LineInv, NEW ch \in Char \cup {LF}, Receive(ch), line' # None, ~early
  PROVE  /\ IsSuffix(line', typed)
         /\ Len(typed) < UART_BUFFER_SIZE - 1 => line' = typed
<1>1. /\ TypeOK /\ NoLineUnread /\ put \in Slots /\ get \in Slots /\ typed \in Seq(Char)
  BY DEF LineInv, IInv, TypeOK
<1>2. buffer' = [buffer EXCEPT ![put] = LF] /\ TakeLine(buffer', put + 1)
  BY DEF Receive
<1>3. /\ Count <= Len(typed) /\ Len(typed) \in Nat /\ Count \in Nat
      /\ Len(typed) < UART_BUFFER_SIZE => Count = Len(typed)
      /\ \A i \in 1 .. Count : buffer[At(get, i - 1)] = typed[Len(typed) - Count + i]
  BY <1>1, CountIs DEF LineInv, UnreadIsTyped
<1>4. CASE Count = UART_BUFFER_SIZE - 1 /\ line' = <<>>
  <2>1. line' \in Seq(Char) /\ Len(line') = 0
    BY <1>4
  <2>2. IsSuffix(line', typed)
    <3>1. Len(line') <= Len(typed) /\ 1 .. Len(line') = {}
      BY <1>3, <2>1
    <3> QED
      BY <1>1, <2>1, <3>1, SuffixByIndex
  <2>3. ~(Len(typed) < UART_BUFFER_SIZE - 1)
    BY <1>3, <1>4
  <2> QED
    BY <2>2, <2>3
<1>5. ASSUME NEW n \in 0 .. Count, line' = [i \in 1 .. n |-> buffer'[At(get, i - 1)]],
             buffer'[At(get, n)] = LF
      PROVE  /\ IsSuffix(line', typed)
             /\ Len(typed) < UART_BUFFER_SIZE - 1 => line' = typed
  <2>1. \A i \in 0 .. Count - 1 : buffer'[At(get, i)] = buffer[At(get, i)] /\ buffer[At(get, i)] # LF
    <3> TAKE i \in 0 .. Count - 1
    <3>1. At(get, i) \in Unread /\ At(get, i) # put
      BY <1>1, CountIs
    <3>2. At(get, i) \in Slots
      BY <3>1 DEF Unread
    <3> QED
      BY <1>1, <1>2, <3>1, <3>2 DEF TypeOK, NoLineUnread
  <2>2. n = Count
    <3>1. n \notin 0 .. Count - 1
      BY <1>5, <2>1
    <3> QED
      BY <1>3, <3>1
  <2>3. \A i \in 1 .. n : line'[i] = typed[Len(typed) - n + i] /\ line'[i] \in Char
    <3> TAKE i \in 1 .. n
    <3>1. i - 1 \in 0 .. Count - 1
      BY <1>3, <2>2
    <3>2. line'[i] = buffer[At(get, i - 1)]
      BY <1>5, <2>1, <3>1
    <3>3. line'[i] = typed[Len(typed) - n + i]
      BY <1>3, <2>2, <3>2
    <3>4. Len(typed) - n + i \in 1 .. Len(typed)
      BY <1>3, <2>2
    <3> QED
      BY <1>1, <3>3, <3>4
  <2>4. line' \in [1 .. n -> Char] /\ n \in Nat
    BY <1>3, <1>5, <2>3
  <2>5. line' \in Seq(Char) /\ Len(line') = n
    BY <2>4
  <2>6. IsSuffix(line', typed)
    <3>1. typed \in Seq(Char)
      BY <1>1 DEF TypeOK
    <3>2. Len(line') <= Len(typed)
      BY <1>3, <2>2, <2>5
    <3>3. \A i \in 1 .. Len(line') : line'[i] = typed[Len(typed) - Len(line') + i]
      BY <2>3, <2>5
    <3> HIDE <1>5
    <3> QED
      BY <2>5, <3>1, <3>2, <3>3, SuffixByIndex
  <2>7. ASSUME Len(typed) < UART_BUFFER_SIZE - 1 PROVE line' = typed
    <3>1. n = Len(typed)
      BY <1>3, <2>2, <2>7
    <3>2. \A i \in 1 .. n : line'[i] = typed[i]
      <4> TAKE i \in 1 .. n
      <4>1. Len(typed) - n + i = i
        BY <1>3, <3>1
      <4> QED
        BY <2>3, <4>1
    <3> QED
      BY <1>1, <2>5, <3>1, <3>2
  <2> QED
    BY <2>6, <2>7
<1> QED
  BY <1>1, <1>2, <1>4, <1>5, LineFound

-----------------------------------------------------------------------------
(* How many lines are unread. *)

LEMMA UnreadIsFinite ==
  ASSUME put \in Slots, get \in Slots
  PROVE  IsFiniteSet(Unread) /\ IsFiniteSet(LinesUnread)
<1>1. IsFiniteSet(Slots)
  BY FS_Interval DEF Slots
<1>2. Unread \in SUBSET Slots /\ LinesUnread \in SUBSET Slots
  BY DEF Unread, LinesUnread
<1> QED
  BY <1>1, <1>2, FS_Subset

(* A full ring has all slots but put unread. *)
LEMMA NotFull ==
  ASSUME put \in Slots, get \in Slots, Cardinality(Unread) + 1 < UART_BUFFER_SIZE
  PROVE  Count # UART_BUFFER_SIZE - 1
<1> SUFFICES ASSUME Count = UART_BUFFER_SIZE - 1 PROVE FALSE
  OBVIOUS
<1>1. get = Wrap(put + 1)
  BY CountIs
<1>2. Unread = Slots \ {put}
  BY <1>1 DEF Unread, Wrap, Slots
<1>3. IsFiniteSet(Slots) /\ Cardinality(Slots) = UART_BUFFER_SIZE
  BY FS_Interval DEF Slots
<1>4. Cardinality(Unread) = UART_BUFFER_SIZE - 1
  BY <1>2, <1>3, FS_RemoveElement
<1> QED
  BY <1>4

(* What is unread once put has moved on, and get by n + 1 slots. *)
LEMMA UnreadMoves ==
  ASSUME put \in Slots, get \in Slots, put' = Wrap(put + 1),
         Count # UART_BUFFER_SIZE - 1,
         NEW n \in 0 .. Count, get' = At(get, n + 1)
  PROVE  Unread' = (Unread \cup {put}) \ {At(get, i) : i \in 0 .. n}
<1>1. Count \in Nat /\ Count < UART_BUFFER_SIZE - 1
  BY CountIs
<1>2. CASE get <= put
  <2>1. Count = put - get
    BY <1>2 DEF Count
  <2>2. \A s \in Slots : s \in {At(get, i) : i \in 0 .. n} <=> get <= s /\ s <= get + n
    <3> TAKE s \in Slots
    <3>1. ASSUME get <= s, s <= get + n PROVE s = At(get, s - get) /\ s - get \in 0 .. n
      BY <1>2, <2>1, <3>1 DEF At, Slots
    <3>2. ASSUME NEW i \in 0 .. n, s = At(get, i) PROVE get <= s /\ s <= get + n
      BY <1>2, <2>1, <3>2 DEF At, Slots
    <3> QED
      BY <3>1, <3>2
  <2> QED
    BY <1>1, <1>2, <2>1, <2>2 DEF Unread, At, Wrap, Slots
<1>3. CASE get > put
  <2>1. Count = put - get + UART_BUFFER_SIZE
    BY <1>3 DEF Count, Slots
  <2>2. \A s \in Slots : s \in {At(get, i) : i \in 0 .. n} <=>
          (get <= s /\ s <= get + n) \/ s + UART_BUFFER_SIZE <= get + n
    <3> TAKE s \in Slots
    <3>1. ASSUME get <= s, s <= get + n PROVE s = At(get, s - get) /\ s - get \in 0 .. n
      BY <1>3, <2>1, <3>1 DEF At, Slots
    <3>2. ASSUME s + UART_BUFFER_SIZE <= get + n
          PROVE  s = At(get, s - get + UART_BUFFER_SIZE) /\ s - get + UART_BUFFER_SIZE \in 0 .. n
      BY <1>3, <2>1, <3>2 DEF At, Slots
    <3>3. ASSUME NEW i \in 0 .. n, s = At(get, i)
          PROVE  (get <= s /\ s <= get + n) \/ s + UART_BUFFER_SIZE <= get + n
      BY <1>3, <2>1, <3>3 DEF At, Slots
    <3> QED
      BY <3>1, <3>2, <3>3
  <2> QED
    BY <1>1, <1>3, <2>1, <2>2 DEF Unread, At, Wrap, Slots
<1> QED
  BY <1>2, <1>3 DEF Slots

LEMMA OneLineForOne ==
  ASSUME TypeOK, callback, Cardinality(Unread) + 1 < UART_BUFFER_SIZE,
         NEW ch \in Char \cup {LF}, Receive(ch)
  PROVE  Cardinality(LinesUnread') = Cardinality(LinesUnread)
<1>1. put \in Slots /\ get \in Slots /\ put' = Wrap(put + 1)
      /\ buffer' = [buffer EXCEPT ![put] = ch]
  BY DEF TypeOK, Receive
<1>2. /\ Count # UART_BUFFER_SIZE - 1 /\ put \notin Unread
      /\ buffer'[put] = ch /\ \A s \in Slots \ {put} : buffer'[s] = buffer[s]
  BY <1>1, NotFull DEF Unread, Slots, TypeOK
<1>3. CASE ch # LF
  <2>1. get' = get
    BY <1>3 DEF Receive
  <2>2. Unread' = Unread \cup {put}
    <3>1. get # Wrap(put + 1)
      BY <1>1, <1>2, CountIs
    <3>2. CASE get <= put
      BY <1>1, <2>1, <3>1, <3>2 DEF Unread, Wrap, Slots
    <3>3. CASE get > put
      BY <1>1, <2>1, <3>1, <3>3 DEF Unread, Wrap, Slots
    <3> QED
      BY <1>1, <3>2, <3>3 DEF Slots
  <2>3. LinesUnread' = LinesUnread
    BY <1>1, <1>2, <1>3, <2>2 DEF LinesUnread, Unread
  <2> QED
    BY <2>3
<1>4. CASE ch = LF
  <2>1. TakeLine(buffer', put + 1)
    BY <1>4 DEF Receive
  <2>2. PICK n \in 0 .. Count :
          /\ \A i \in 0 .. n - 1 : buffer'[At(get, i)] # LF
          /\ buffer'[At(get, n)] = LF /\ get' = At(get, n + 1)
    BY <1>1, <1>2, <1>4, <2>1, LineFound
  <2> DEFINE s == At(get, n)
  <2>3. Unread' = (Unread \cup {put}) \ {At(get, i) : i \in 0 .. n}
    BY <1>1, <1>2, <2>2, UnreadMoves
  <2>4. LinesUnread' = (LinesUnread \cup {put}) \ {s}
    <3>1. \A x \in Slots : x \in LinesUnread' <=> x \in Unread' /\ buffer'[x] = LF
      BY DEF LinesUnread, Unread
    <3>2. \A x \in Unread' : x \in Slots
      BY <1>1, <2>3 DEF Unread
    <3>3. \A x \in Unread \cup {put} : buffer'[x] = LF <=> x \in LinesUnread \cup {put}
      BY <1>1, <1>2, <1>4 DEF LinesUnread, Unread
    <3>4. \A x : x \in {At(get, i) : i \in 0 .. n} /\ buffer'[x] = LF <=> x = s
      <4>1. \A i \in 0 .. n : buffer'[At(get, i)] = LF => i = n
        BY <1>1, <2>2, CountIs
      <4>2. n \in 0 .. n
        BY <1>1, CountIs
      <4> QED
        BY <2>2, <4>1, <4>2
    <3>5. LinesUnread' = {x \in Unread' : buffer'[x] = LF}
      BY DEF LinesUnread
    <3>6. LinesUnread \subseteq Unread
      BY DEF LinesUnread
    <3> QED
      BY <2>3, <3>3, <3>4, <3>5, <3>6
  <2>5. s \in LinesUnread \cup {put}
    <3>1. CASE n = Count
      BY <1>1, <3>1, CountIs
    <3>2. CASE n # Count
      <4>1. n \in 0 .. Count - 1
        BY <1>1, <3>2, CountIs
      <4>2. s \in Unread /\ s # put
        BY <1>1, <4>1, CountIs
      <4> QED
        BY <1>2, <2>2, <4>2 DEF LinesUnread, Unread
    <3> QED
      BY <3>1, <3>2
  <2>6. put \notin LinesUnread /\ IsFiniteSet(LinesUnread)
    BY <1>1, <1>2, UnreadIsFinite DEF LinesUnread
  <2>7. /\ IsFiniteSet(LinesUnread \cup {put})
        /\ Cardinality(LinesUnread \cup {put}) = Cardinality(LinesUnread) + 1
    BY <2>6, FS_AddElement
  <2>8. Cardinality(LinesUnread') = Cardinality(LinesUnread \cup {put}) - 1
    <3>1. Cardinality((LinesUnread \cup {put}) \ {s}) = Cardinality(LinesUnread \cup {put}) - 1
      BY <2>5, <2>7, FS_RemoveElement
    <3> QED
      BY <2>4, <3>1
  <2>9. Cardinality(LinesUnread) \in Nat
    BY <2>6, FS_CardinalityType
  <2> QED
    BY <2>7, <2>8, <2>9
<1> QED
  BY <1>3, <1>4

-----------------------------------------------------------------------------
(* The pointers never leave the ring: put is past its end only within a call
   (uart_functions.c:43-64). *)
THEOREM TypeCorrect == Spec => []TypeOK
<1>1. IInv => TypeOK
  BY DEF IInv
<1> QED
  BY <1>1, Invariant, PTL

(* After any line, also one that lapped the reader, the ring is empty and the
   next line is whole, unless a line came before its callback
   (uart_functions.c:48-60). *)
THEOREM AlwaysInSync == Spec => []InSync
<1>1. IInv => InSync
  BY DEF IInv
<1> QED
  BY <1>1, Invariant, PTL
(* The program gets the line that was received, also one that straddles the
   end of the ring, and of a line too long at most some end of it
   (uart_functions.c:44-60). *)
THEOREM LinesArriveWhole == Spec => LineIsTail
<1>1. LineInv /\ [Next]_vars =>
        \/ line' # None /\ ~early =>
             /\ IsSuffix(line', typed)
             /\ Len(typed) < UART_BUFFER_SIZE - 1 => line' = typed
        \/ UNCHANGED vars
  <2> SUFFICES ASSUME LineInv, Next, line' # None, ~early
               PROVE  /\ IsSuffix(line', typed)
                      /\ Len(typed) < UART_BUFFER_SIZE - 1 => line' = typed
    OBVIOUS
  <2>1. PICK ch \in Char \cup {LF} : Receive(ch)
    BY DEF Next, SetLineCallback
  <2> QED
    BY <2>1, LineHandedOver
<1>2. Init => LineInv
  BY Initially, TypedInit DEF LineInv
<1> QED
  BY <1>1, <1>2, LinePreserved, PTL DEF Spec, LineIsTail

(* A line received before its callback was set stays behind for good: each
   line feed takes one line, whatever is unread (uart_functions.c:48-60,
   e-protect-sensor-3.c:109-110). *)
THEOREM OneLinePerLineFeed == Spec => BehindForGood
<1>1. TypeOK /\ [Next]_vars =>
        (callback /\ Cardinality(Unread) + 1 < UART_BUFFER_SIZE =>
           Cardinality(LinesUnread') = Cardinality(LinesUnread))
  <2> SUFFICES ASSUME TypeOK, [Next]_vars, callback, Cardinality(Unread) + 1 < UART_BUFFER_SIZE
               PROVE  Cardinality(LinesUnread') = Cardinality(LinesUnread)
    OBVIOUS
  <2>1. ASSUME NEW ch \in Char \cup {LF}, Receive(ch)
        PROVE  Cardinality(LinesUnread') = Cardinality(LinesUnread)
    BY <2>1, OneLineForOne
  <2>2. CASE UNCHANGED vars
    <3>1. LinesUnread' = LinesUnread
      BY <2>2 DEF vars, LinesUnread, Unread
    <3> QED
      BY <3>1
  <2> QED
    BY <2>1, <2>2 DEF Next, SetLineCallback
<1> QED
  BY <1>1, TypeCorrect, PTL DEF Spec, BehindForGood

=============================================================================
