------------------------------ MODULE RfidSensor ------------------------------
(***************************************************************************)
(* The firmware of the RFID reader, e-protect-sensor-3.c.  A card is read  *)
(* on UART 0; lineReadyUART0 runs in the receive interrupt and formats and *)
(* multicasts the code itself.  It shares the buffer string6LOWPAN, and    *)
(* the send buffer of the IP stack, with the Contiki process, which it may *)
(* interrupt between the formatting of a status report and its sending.    *)
(***************************************************************************)
EXTENDS Naturals, EProtect

CONSTANTS
  MY_ID,         \* the sensor's index in the base's table (3)
  SendInterval,  \* seconds between two turns of the process (3)
  HoldTime,      \* seconds a swipe blocks the next one, exceeded (3)
  Card,          \* the codes cards carry
  NoKey          \* what the base reads in a message whose code is cut off

ASSUME RfidAssumption ==
  /\ SendInterval \in Nat \ {0}
  /\ HoldTime \in Nat
  /\ NoKey \notin Card

VARIABLES
  sending,
  sinceSending,   \* clock_seconds() - timeSending, counted up to HoldTime + 1
  timer,          \* seconds before periodic_timer expires
  pc,             \* "wait", or what sendSensorStatus does next
  string6LOWPAN,  \* the message the shared buffer holds
  cut,            \* string6LOWPAN was rewritten since its length, or part of it, was taken
  uipBuf,         \* the message in the IP stack's buffer, Nothing if none
  led,            \* PORTF: 1 green (unlocked), 2 red (locked)
  sent,           \* the messages multicast by the last step
  quiet,          \* history: seconds since the last multicast or boot, up to QuietLimit + 1
  codes,          \* history: codes multicast for the last accepted card, up to 2
  raced           \* history: that card came while a status was being sent

node == <<sending, sinceSending, string6LOWPAN, cut, uipBuf>>
vars == <<node, timer, pc, led, sent, quiet, codes, raced>>

StatusReport == StatusMsg(MY_ID, STATUS_OK, SENSOR_RFID)
Code(key)    == CodeMsg(MY_ID, STATUS_OK, key)
Message      == {StatusReport} \cup {Code(key) : key \in Card \cup {NoKey}}
Nothing      == [cmd |-> "none"]

(* The longest time without a multicast: the card is held for HoldTime, the
   turn that releases it comes up to SendInterval later and sends nothing, and
   the next one sends. *)
QuietLimit == HoldTime + 2 * SendInterval

TypeOK ==
  /\ sending \in BOOLEAN
  /\ sinceSending \in 0 .. HoldTime + 1
  /\ timer \in 0 .. SendInterval
  /\ pc \in {"wait", "format", "formatted", "handed"}
  /\ string6LOWPAN \in Message \cup {Nothing}
  /\ cut \in BOOLEAN
  /\ uipBuf \in Message \cup {Nothing}
  /\ led \in {1, 2}
  /\ sent \subseteq Message
  /\ quiet \in 0 .. QuietLimit + 1
  /\ codes \in 0 .. 2
  /\ raced \in BOOLEAN

Init ==
  /\ sending = FALSE
  /\ sinceSending = HoldTime + 1
  /\ timer = SendInterval
  /\ pc = "wait"
  /\ string6LOWPAN = Nothing
  /\ cut = FALSE
  /\ uipBuf = Nothing
  /\ led = 1
  /\ sent = {}
  /\ quiet = 0
  /\ codes = 0
  /\ raced = FALSE

-----------------------------------------------------------------------------
IsCode(m) == m.cmd = "c" /\ m.key # NoKey

(* The step multicasts the messages of ms, and keeps the two counts of what
   was multicast. *)
Multicast(ms) ==
  /\ sent' = ms
  /\ quiet' = IF ms = {} THEN quiet ELSE 0
  /\ codes' = IF (\E m \in ms : IsCode(m)) /\ codes < 2 THEN codes + 1 ELSE codes

(* The process is woken by its timer.  sending and timeSending do not change
   under it while sending is set. *)
Wake ==
  /\ pc = "wait" /\ timer = 0
  /\ timer' = SendInterval
  /\ pc' = IF sending THEN "wait" ELSE "format"
  /\ sending' = (sending /\ sinceSending <= HoldTime)
  /\ Multicast({})
  /\ UNCHANGED <<sinceSending, string6LOWPAN, cut, uipBuf, led, raced>>

(* Slip: a report is formatted only into an empty buffer. *)
FormatOnce ==
  /\ pc = "format"
  /\ string6LOWPAN' = IF string6LOWPAN = Nothing THEN StatusReport ELSE string6LOWPAN
  /\ cut' = FALSE
  /\ pc' = "formatted"
  /\ Multicast({})
  /\ UNCHANGED <<sending, sinceSending, timer, uipBuf, led, raced>>

(* sprintf(string6LOWPAN, ..).  A card read meanwhile leaves the head of the
   code message before the tail of the status report, or is overwritten
   wholly: the buffer holds a report, or a code message without its key. *)
Format ==
  /\ pc = "format"
  /\ string6LOWPAN' \in IF cut THEN {StatusReport, Code(NoKey)} ELSE {StatusReport}
  /\ cut' = FALSE
  /\ pc' = "formatted"
  /\ Multicast({})
  /\ UNCHANGED <<sending, sinceSending, timer, uipBuf, led, raced>>

(* simple_udp_sendto(.., string6LOWPAN, strlen(string6LOWPAN), ..) copies the
   buffer: all of a code written there meanwhile, or as much of it as was the
   length of the report. *)
Hand ==
  /\ pc = "formatted"
  /\ uipBuf' \in IF cut THEN {string6LOWPAN, Code(NoKey)} ELSE {string6LOWPAN}
  /\ cut' = FALSE
  /\ pc' = "handed"
  /\ Multicast({})
  /\ UNCHANGED <<sending, sinceSending, timer, string6LOWPAN, led, raced>>

(* The stack transmits what its buffer holds, nothing if it has been emptied. *)
Transmit ==
  /\ pc = "handed"
  /\ uipBuf' = Nothing
  /\ pc' = "wait"
  /\ Multicast({uipBuf} \ {Nothing})
  /\ UNCHANGED <<sending, sinceSending, timer, string6LOWPAN, cut, led, raced>>

SendStatus == Format \/ Hand \/ Transmit

(* lineReadyUART0 while no card is being handled: the code is formatted and
   multicast at once.  Sending it empties the stack's buffer, or leaves the
   code in it for the interrupted sender. *)
SwipeAccepted(key) ==
  /\ ~sending
  /\ sending' = TRUE
  /\ sinceSending' = 0
  /\ string6LOWPAN' = Code(key)
  /\ cut' = (pc \in {"format", "formatted"})
  /\ uipBuf' \in IF pc = "handed" THEN {Nothing, Code(key)} ELSE {uipBuf}
  /\ sent' = {Code(key)}
  /\ quiet' = 0
  /\ codes' = 1
  /\ raced' = (pc # "wait")
  /\ UNCHANGED <<timer, pc, led>>

(* Slip: every card renews the time of the first. *)
SwipeRenews ==
  /\ sending
  /\ sinceSending' = 0
  /\ Multicast({})
  /\ UNCHANGED <<sending, string6LOWPAN, cut, uipBuf, timer, pc, led, raced>>

(* lineReadyUART0 while a card is being handled returns at once. *)
SwipeIgnored ==
  /\ sending
  /\ Multicast({})
  /\ UNCHANGED <<node, timer, pc, led, raced>>

Swipe(key) == SwipeAccepted(key) \/ SwipeIgnored

(* receiver(): a poll of this reader is answered by sendSensorStatus. *)
Poll ==
  /\ pc = "wait"
  /\ pc' = "format"
  /\ Multicast({})
  /\ UNCHANGED <<node, timer, led, raced>>

(* Slip: the LED values are those of the shock sensor. *)
ShowShockLed(m) ==
  /\ pc = "wait"
  /\ led' = IF m = LockMsg THEN 1 ELSE 0
  /\ Multicast({})
  /\ UNCHANGED <<node, timer, pc, raced>>

(* receiver(): "l" turns the red LED on, "u" the green one. *)
Show(m) ==
  /\ pc = "wait"
  /\ led' = IF m = LockMsg THEN 2 ELSE 1
  /\ Multicast({})
  /\ UNCHANGED <<node, timer, pc, raced>>

(* A second passes, never while the process runs or is due. *)
Second ==
  /\ pc = "wait" /\ timer > 0
  /\ timer' = timer - 1
  /\ sinceSending' = IF sinceSending <= HoldTime THEN sinceSending + 1 ELSE sinceSending
  /\ quiet' = IF quiet <= QuietLimit THEN quiet + 1 ELSE quiet
  /\ sent' = {}
  /\ UNCHANGED <<sending, string6LOWPAN, cut, uipBuf, pc, led, codes, raced>>

(* PCINT0 is enabled with no handler: a change of PORTB.0 restarts the
   program at any point.  The LED comes up green whatever the alarm does. *)
Restart ==
  /\ sending' = FALSE
  /\ sinceSending' = HoldTime + 1
  /\ timer' = SendInterval
  /\ pc' = "wait"
  /\ string6LOWPAN' = Nothing
  /\ cut' = FALSE
  /\ uipBuf' = Nothing
  /\ led' = 1
  /\ sent' = {}
  /\ quiet' = 0
  /\ codes' = 0
  /\ raced' = FALSE

Next ==
  \/ Wake \/ SendStatus \/ Poll \/ Second \/ Restart
  \/ \E key \in Card : Swipe(key)
  \/ \E m \in {LockMsg, UnlockMsg} : Show(m)

Spec == Init /\ [][Next]_vars

-----------------------------------------------------------------------------
(* One card, one code: the base toggles the alarm on each code it gets, so a
   code sent twice undoes itself.  It happens, but only to a card read while
   a status is being sent through the same buffer, and never more than twice
   (e-protect-sensor-3.c:152-154 against 181-183). *)
OneCodePerCard == codes <= IF raced THEN 2 ELSE 1

(* Cards held to the reader as often as you like do not silence it: it never
   stays quiet for longer than QuietLimit, so the base, which gives up after
   16.5 s, cannot take it for dead. *)
NeverQuietForLong == quiet <= QuietLimit
=============================================================================
