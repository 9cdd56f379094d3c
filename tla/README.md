# A TLA+ model of E-protect

E-protect is a home alarm. Battery nodes built on an AVR with Contiki watch a
house; they talk over 6LoWPAN to a base station of the same make; the base hands
what it learns through a PIC multiplexer to a Raspberry Pi, which shows it on a
touch screen and forwards it over TCP to a bridge and a Sails server. These
modules model the whole way of the alarm, from the sensors to the rows of the server;
the list below says what is left out.

The firmware is in `SE/ContikiOS/contiki/examples/e-protect/` (called `e-protect/`
below). Paths are relative to the repository.

## Inventory

| Component | State | Operations | Talks to |
|---|---|---|---|
| **Base**, `e-protect-base.c` | `sensorsList[20]` (type, status, lastTime, failedTimeouts), `isAlarmEnabled`, PORTB latch, SigFox period | `receiver()` for "g" and "c"; a check of all sensors every half second; `updateDataToServer()` | radio (multicast), UART |
| **PIR sensors**, `e-protect-sensor-0.c`, `-2.c` | `counter`, `waitEmergency`, `status`, `timeIntrusion` | pin-change interrupt; process every 3 s; answer to polls | radio |
| **Shock sensor**, `e-protect-sensor-1.c` | `waitEmergency`, `status`, `timeIntrusion`, LED | UART line interrupt; process; answer to polls; LED on "l"/"u" | UART tap detector, radio |
| **RFID reader**, `e-protect-sensor-3.c` | `sending`, `timeSending`, `string6LOWPAN`, LED | UART line interrupt that sends; process; polls; LED | UART card reader, radio |
| **Radio**, Contiki's simple_udp, uIP, 802.15.4 without retransmission | packets on the air, one send buffer | multicast, receive | all nodes |
| **UART line buffer**, `apps/uart_functions` | ring of characters, two pointers | byte interrupt, line extraction | shock sensor, RFID reader, base |
| **JSON extraction**, `apps/simple-json`; `isAllowed()` | the last value parsed | `jsonData()`, `isAllowed()` | all nodes |
| **PIC multiplexer**, `SE/UART_multiplex_PIC18F67J94` | three rings | interrupt, main loop that frames and unframes (address, byte) pairs | base, Raspberry |
| **Raspberry**, `SE/main_base/src` | `sensorsList`, socket and ping state, screen state | UART/socket thread; display thread | multiplexer, bridge |
| **Bridge**, `SI/eProtectFinal/bridge.js` | one websocket per TCP client | data, end | Raspberry, server |
| **Server**, `SI/eProtectFinal` | Sigfox, Device and User rows, sessions | socket handlers, controllers | bridge, browsers |
| Android app, `SI/PFE-view`, `SI/eProtect`, examples | - | viewers and older versions | - |

What makes each of them correct, and hard:

* **Base.** TIMEOUT is shown for exactly the sensors that are silent for long enough,
  although it is decided by two nested counters reset on different occasions. A code
  toggles the alarm, so everything hangs on a code arriving exactly once.
* **PIR and shock sensors.** An intrusion found by an interrupt between *any* two
  statements of the process is reported by the next turn of the process, and an
  emergency ends. The two firmwares differ in one guard (`if(!waitEmergency)`), and it
  decides whether this holds.
* **RFID reader.** The interrupt sends through the buffers that the process uses:
  messages can be replaced, cut short or swallowed.
* **Radio.** Nothing is acknowledged or repeated: which losses hurt, and which do not.
* **Line buffer, multiplexer.** Rings without a test for full, filled by an interrupt and
  emptied under it: an overrun may cost what it overruns and nothing else, and bytes that
  come in couples must not change places.
* **Raspberry.** Two threads over plain `bool`s that undo each other's assignments: the
  screen must still end up right and usable. PONGs against a two-second timeout: a
  connection that breaks must come back, and one that works must stay.
* **Bridge, server.** TCP has no message boundaries; every handler finds a row, waits and
  writes it: one row per device, a true online flag, one owner.

`PROJECT.json` lists every component with its status, and under `hazards` each of
these at its line.

## Modules

| Module | Models |
|---|---|
| `EProtect` | status and type codes of `defines.h`; messages as records |
| `SilenceMonitor` | what the base promises about silent sensors, with one counter (abstract) |
| `Base` | `e-protect-base.c` |
| `PirSensor` | `e-protect-sensor-0.c` and `-2.c` |
| `ShockSensor` | `e-protect-sensor-1.c` |
| `RfidSensor` | `e-protect-sensor-3.c` and the send path of uIP it shares with its interrupt |
| `IntrusionLink` | `PirSensor` and an instance of `Base`, lossy radio, power failures |
| `LockLink` | `RfidSensor` and an instance of `Base`, lossy radio, restarts |
| `LineBuffer` | `apps/uart_functions/uart_functions.c` |
| `ByteRing`, `UartMux` | `UART_Buffering.c` and `UART_Multiplex.c` of the PIC |
| `LossyQueue` | what a ring without a test for full amounts to (abstract) |
| `AlarmView` | `alarm_view.cpp`, and what `uart_com.cpp` does to it with a line |
| `ServerLink` | the connection to the server in `uart_com.cpp` |
| `DeviceServer` | `bridge.js`, `config/sockets.js` and `UserController.connect` |
| `BaseProofs`, `ShockProofs`, `LineBufferProofs` | theorems about `Base`, `ShockSensor`, `LineBuffer` |
| `PirProofs` | theorems about `PirSensor` and `IntrusionLink` |
| `LockProofs` | theorems about `RfidSensor` and `LockLink` |
| `UartProofs` | theorems about `ByteRing` and `UartMux` |
| `RaspberryProofs` | theorems about `AlarmView` and `ServerLink` |
| `ServerProofs` | theorems about `DeviceServer` |
| `MCBase`, `MCUartMux` | constants for TLC |

The definitions whose comment begins with "Slip" are not part of the model: each is a
definition of the model with a plausible mistake, and every property is checked to
fail for one of them.

### Base

`table` is `sensorsList`, a function per field. `receiver()` is `ReceiveStatus` ("g"),
`CodeAccepted` and `CodeRefused` ("c"); one turn of the process's loop is `Check`,
which treats all sensors at once because no handler can run between two of them:
Contiki's processes are cooperative and the base's own interrupts only feed the line
buffer. `radio` and `uart` are the messages sent by the last step. `silence` is a
history variable: what the verdict *should* depend on.

Three things the code does are kept although they look like slips. Bit 0 of `PORTB`
is the output latch, which nothing sets after boot, so `updateDataToServer` never
prints. `sendDataSIGFOX` fills a local array and never sends it: only its period is
state. TIMEOUT lines are printed whatever `PORTB` says. The comment on line 173 says
6 s; 11 checks of half a second are 5.5 s. (As committed the base does not link,
`lineReadyUART1` being undefined; the model is of the program with that callback
empty, like the other two.)

Not modelled: an `id` outside the table; `isAllowed()`, which is the constant
`AllowedKey`.

### Sensors

Each sensor has two threads of control. The interrupt is atomic for the process and
may come between any two of its statements that touch what both use; `pc` is where
the process stands, and statements that only touch what the interrupt leaves alone
are taken together. `receiver()` runs in the same context as the process, hence only
when `pc = "wait"`. The shared variables are not volatile, so where no call separates
two stores (`waitEmergency=0; status=STATUS_OK`) the compiler may emit them in either
order, and both orders are modelled (`pc = "clear"` and `pc = "end"`).

`sinceIntrusion` and `sinceSending` are `clock_seconds()` minus the time stored,
counted up to the largest value the code tells apart. `Second` lets time pass, never
while the process runs or is due: a turn takes milliseconds. `etimer_reset` does not
drift, so `timer` counts whole periods. The variables marked *history* are only read
by properties.

* *PIR.* The interrupt writes nothing while `waitEmergency` is set, so the process may
  read `timeIntrusion` in one go.
* *Shock.* The interrupt has no such guard. `timeIntrusion` is four bytes read one by one;
  `torn` says that a tap came meanwhile, and then the comparison may come out either way.
* *RFID.* `cut` says that `string6LOWPAN` was rewritten while a string operation was at
  it, and `Code(NoKey)` stands for a message whose key was lost that way. `uipBuf` is
  the stack's only buffer, which the interrupt's own send empties (`uip_slen = 0`).
* *Restart.* Sensors 1 and 3 enable the pin-change interrupt without a handler, which on
  this CPU jumps to the reset vector; a PIR sensor restarts when its power returns.

### Links

A multicast message is delivered at once or lost; the MAC layer in use
(`nullmac`) repeats nothing. What is on the air is gone before the next half second.
The base's clock beats twice for each beat of the sensor's, and how they are aligned
is left open (`half`). Losses are counted from the last message of the sensor that the
base heard. Collisions between messages of different sensors are losses.

`BaseOnTheLink` says that the base's half of a link takes only steps of `Base`, which on its
own allows anything a sensor may say: `Base` covers what the sensors really send, and what
is proved of it holds on the links. It is proved (see below), not checked by a run. (What a
step last multicast or printed is left aside: on a link the other steps clear it.)

### Line buffer

A call of `uart0_callback()` runs in the receive interrupt and is one action, `Receive`.
The loop that takes the line out reads up to a pointer that is one past the character
just stored and not wrapped yet, and stops when `uart0_available()`, whose sum has its
operands exchanged, says 0; both are kept as they are (`TakeLine`, `Available`). The
history variable `typed` is what was really received; `early` says that a line feed came
between `rs232_set_input()` and `uart0_setLineCallback()`.

The sensor modules take a line as one event, which `LineIsTail` justifies for lines that
fit the buffer; a line that does not fit loses its beginning and spoils no other
(`InSync`). An early line is another matter: from then on each line feed hands over the
line before (`BehindForGood`), which for the RFID reader means that a card is read when
the next one is presented.

### Multiplexer

A ring is a record of `ByteRing`; `UartMux` has one per USART. The interrupt is `Store`, the
main loop the actions of `Main`: it can be interrupted between any two tests and, inside
`GetNext()`, between reading the slot (`Peek`) and the test for empty with what follows
(the actions over `TakeFrom`). A comparison of two pointers of two bytes each is one step: the
pointers lie in one page for the ring size in use, so that an interrupt between the bytes
is one before or after. The program is modelled from the end of its initial delay;
that the interrupt is on before `InitBuffers()` clears the rings (but not the pointers) is
not. What a device or the Raspberry sends is any stream of bytes other than 0, 1 and 2
(characters), given by `First` and `Following`. The Raspberry's couples come at a pace the
loop can follow: ring 1 never overflows. (The program of this repository for the
Raspberry never writes to the serial port; the couples are what the comment of
`UART_Multiplex.c:190-196` says they are. That comment's "at most 5 times" is not what the
code does.)

### Raspberry

`AlarmView` has two threads, each with a list of assignments still to be made, one step
each: `s` is what they share. A line or a click yields a list (`EnableAlarm`,
`Unlocking`, ...). The photo viewer is a place where the display thread stays, deaf to
`refreshDisplay`, until it is left. In `init()` the UART thread is started before
`alarmEnabled` is cleared; the model starts when `init()` is done.

What the two threads do to each other and the properties allow: `unlockClicked()` asks
for a refresh that line 138 always overwrites, and a line of the base that arrives at the
wrong moment loses its refresh in the same way; both are made good within 100 turns,
which is `ShownWithinRef`. An alarm that comes on during the photo viewer is shown only
when the viewer is left, and leaves the figures of the lock screen clickable under the
black screen. An alarm that goes on and off over the lock screen leaves it without its
figures, but with the button that leads to it: the way on that `AlwaysAWayOn` asks for.

The type of a sensor seen for the first time (`uart_com.cpp:126-127`) is not among the
assignments: the one sensor of the model stands for all, its type known.

`ServerLink` is the loop of `UartThread::run` in whole seconds, with what the bridge makes of
a PING. The bridge takes what it reads for one message and answers a PING only when that is
where the chunk begins (`bridge.js:34-40`). So a PING sent behind a line, or behind the hello
that `socketConnect()` sends, may share its chunk, and then gets no PONG; `unread` says what
the bridge may not have read yet. `pong` is where the answer is: on its way, here, or late, a
reply that takes more than a second being late. A new try on a socket that was not closed since
it was connected (`open`: `Broken` does not close it, `GivenUp` does) may fail although the
server is there.

`calm` counts the seconds since the last disturbance, and `UpInTime` says that 24 suffice for
the connection to be up. Disturbances are changes of the network, half a line, anything that
comes late, and a PING lost behind a *line*. A late PONG and a lost PING close a connection that
works, and nothing in the code keeps that from happening again and again. A PING lost behind the
*hello* is no disturbance, nor is a wait for a PONG begun while there was no connection
(`socketConnect()` does not reset `pingDone`): either may close a new connection, but not more
than twice, and so the bound is the 10 s of the retry timer and twice the 5 and 2 of a PING and
its PONG. It is exact (23 fails), and depends on the timers being out of step
(`OutOfStep`): with a PING every 4 s and a PONG within 1 s each try may meet a wait for a
PONG, and the connection is closed again and again.

### Server

In `DeviceServer` a job is a handler that waits for the database; `Complete` lets any of
them go on, in any order, so that the order of the database's answers is not assumed.
`save()` writes the whole row as it was read. A chunk of TCP is a message, or something
that does not parse: two messages, or a part of one. The end of a connection is passed
on twice (`bridge.js:25-26`). A base that fails without closing its connection leaves it
open and may open a second one. `overlap`, `peak` and `rivals` record which races
happened: the properties say what holds without them, and so what each race can cost: a second
row for a device, a wrong online flag, a changed owner. They do not say that the races do not
happen; nothing in the code prevents them, and the hazards that consist of such a race are
listed with no property. `OwnerKept` is about what connections and `UserController.connect`
write, and only about that (see *Not modelled*). A session keeps the row as it was read when
the connection announced itself (`sockets.js:70`).

## Runs

| Run | Bounds | Shows |
|---|---|---|
| `base` | two slots (one preset, one free), the code's 11 and 3, two cards | TIMEOUT is exact; the base implements `SilenceMonitor`; silence is noticed |
| `shock` | the code's 20 s and 3 s | a tap is lost in one window only; reports are true; emergencies end |
| `shock_lost` | same | *violation*: that window exists (`AFAIRE.TXT:56`) |
| `intrusion_link` | the code's constants; losses counted to 7 | an intrusion is reported in time; it takes 6 lost reports to miss one and 7 losses to declare a working sensor dead; a dead sensor is shown |
| `poll_masks` | same | *violation*: the answer to a poll takes back a shown emergency |
| `lock_link` | two cards, the code's constants; losses counted to 2 | one code per card; the alarm toggles once per member's card and never for another; the LED follows; cards alone do not make the reader look dead |
| `base_silent` | those of `base` | *violation*: a sensor's report never goes to the Raspberry |
| `line_buffer` | a ring of 6, two characters | a line is the end of what was received, all of it if it fits; the ring is in step after every line; an early line is never made up for |
| `uart_mux` | rings of 4, three data that repeat, one device talking | couples go where they should; a ring is a queue that forgets; none starves |
| `alarm_view` | two states of a sensor, a forced refresh after 3 turns | a wrong screen is made good in time; there is always a way on |
| `server_link` | the code's 5, 2 and 10 s | the connection is up 24 s after the last disturbance |
| `device_server` | two connections, two handlers at once, two updates, two users | rows, online flag and owner are right but for the races named; an ended base is offline in the end |

The bounds. Slots do not influence each other, since every action but `Check` touches
one slot and `Check` treats each by its own fields: two, of both kinds, are as good as
twenty. All periods and limits of the firmware are at their real values, except the
SigFox period (122 checks), which is shortened to 2 or 0 because nothing depends on it.
Messages on the air are bounded by the model itself, as the type invariants show (at
most two upwards from a PIR sensor, three between the reader and the base, as is proved). Losses saturate at the
number the property compares with. The properties state that number as a formula of the constants
(`LossesToMiss`, `LossesToTimeout`; `TimeoutAfter - 1` for the reader). With the code's
constants it is 6 and 7, and 2 for the reader, and exact: the same runs with the next
higher number fail.

A ring of 6 (of 64) holds lines that fit, that end at every slot and that lap the
reader more than once. A ring of 4 holds two couples or three bytes; it is even like 64,
which matters, since couples then stay aligned with the ring's end unless the PIC
started between the two bytes of one, and so `stray` is part of the state. The two devices
are treated alike, one after the other, so that one talking and the other silent (and the
Raspberry writing to both) show what can happen between two. Three
turns to a forced refresh leave room for every interleaving within a turn; the theorem
covers the code's 100. Two connections, two handlers and two users are the
least with which each race of the server can happen.

`OneCodePerCard`, `NeverQuietForLong`, `ReportedInTime`, `ReportIsTrue` and
`EmergencyEnds` speak of one sensor only; they are checked inside the link runs, where
polls come when the base really sends them.

The three violations:

* `shock_lost`. The process finds the emergency over 20 s; a tap arrives; the
  process clears `waitEmergency`. The tap is never reported. The PIR sensor's guard
  avoids exactly this, as `ReportedInTime` shows.
* `poll_masks`. A sensor just switched on reports EMERGENCY at the moment the base polls
  it for having been silent; its answer to the poll is `STATUS_OK`, always, and replaces
  the emergency until the next report, three seconds later. No message is lost in this trace.
* `base_silent`. The first report of a change is received and `updateDataToServer` takes the branch
  for SigFox: `PORTB` is the latch, which is 0. Everything on the Raspberry and the
  server is therefore modelled for any lines, not for those this base would send.

### Fairness

`Base`: `WF(Check)`, the etimer; nothing is assumed of the sensors. Sensors: the
process, once due, runs, and time passes; no fairness on interrupts or polls. Links:
additionally a message on the air is delivered *or* lost; never that it is delivered.
`UartMux`: the main loop runs. `DeviceServer`: the database answers its oldest call in the
end, and what a connection carries is read in the end. That one is strong fairness
(`SF(Chunk)`) because the bound on handlers, which the server does not have, may disable
it again and again. `LineBuffer`, `AlarmView` and `ServerLink` assume nothing; their
properties count steps or seconds instead (`ServerLink`: a second does not pass without a
turn of the loop, unless it waits for the end of a line).
`device_server` is the one run without a check for deadlock: when both connections have
ended and both users have asked, nothing more is asked of the server.

## Proofs

`BaseProofs` proves, for every table, patience (`PollAfter`, `TimeoutAfter`), set of
types and cards allowed by `BaseAssumption`:

* `TypeCorrect`: `Spec => []TypeOK`. The counters stay strictly below their limits, so that
  the tests with `==` cannot be passed by.
* `TimeoutExact`: `Spec => []TimeoutIffSilent`. Not inductive by itself: from a state where
  the counters do not add up to the silence, `Check` shows TIMEOUT too early or too
  late. `CountersMeasureSilence` (`silence = failedTimeouts * PollAfter + lastTime` for
  every sensor not in TIMEOUT) makes it so. The arithmetic is in `ProductStep`,
  `ProductMonotone` and `CountersBelowLimit`, the steps in `HeardKeepsIInv` and
  `CheckKeepsIInv`.
* `ImplementsMonitor`: `Spec => MonitorSpec`. `RefinesHear` and `RefinesCheck` map the
  actions; `DivisionFacts` and `MultipleWhenWrapped` show that polling when the inner
  counter wraps is polling at the multiples of `PollAfter`.

`PirProofs` proves of `PirSensor`, for every `EdgeLimit`, `EmergencyTime` and
`SendInterval < EmergencyTime`:

* `IntrusionReported`: `Spec => []ReportedInTime`, and `ReportsAreTrue`: `Spec =>
  []ReportIsTrue` (with `TypeCorrect`). The inductive invariant says for each point where
  the interrupt may strike what an intrusion found there leaves behind: in `"wait"` the
  timer fires before the intrusion is one period old (`FiresInTime`); in `"expired"` and `"end"` the
  guard of the interrupt keeps a new one out (`EndsReported`); in `"clear"` and `"send"` a
  new one is no older than the run of the process itself (`SetAnew`).

and of `IntrusionLink`, for the same constants and every `PollAfter` and `TimeoutAfter`
(`LinkAssumption` only asks that losses are counted far enough):

* `SensorTimesOutByLoss`: `LinkSpec => []FalseTimeoutTakesLosses`, and
  `IntrusionMissedByLoss`: `LinkSpec => []MissedIntrusionTakesLosses`. Neither is inductive:
  that many messages have been lost follows only from accounts kept meanwhile. `SilenceCosts`
  is the one for the silence: each poll counted against the sensor, and each report that was
  due since the base last heard it, is among the losses or on the air, and the checks since
  then, with those until the next report, fill no more periods than that. `UnseenCosts` is the
  one for an intrusion. They rest on what can be on the air (`AtMostTwo`, `OneAlarm`), and
  `PatienceCosts` draws the balance at the check that shows TIMEOUT.
* `LinkTypeCorrect`: `LinkSpec => []LinkTypeOK`; `SensorOnTheLink`: the theorems about the
  sensor hold of the sensor on the link.
* `BaseOfTheLink`: `LinkSpec => BaseOnTheLink`, a refinement: `Deliver` is a `Receive` of
  `Base`, `HalfSecond` its `Check`, and every other step leaves the base alone (`BaseSteps`).
  `TimeoutExactOnTheLink`: `LinkSpec => []Base!TimeoutIffSilent`. The invariant is the one of
  `BaseProofs`, whose lemmas are cited through an instance of that module (`Proven`); the
  `Same...` lemmas say that its operators are those of the link's own instance of `Base`.

`ShockProofs` proves of `ShockSensor`, for every `SendInterval < EmergencyTime`:

* `OnlyTheWindowLoses`: `Spec => []TapLostInWindowOnly`, and `ReportsAreTrue` (with
  `TypeCorrect`). The shape of the argument is that of `PirProofs`, but the interrupt has no
  guard: `TornAtTest` says that only a tap found at the expiry test can tear
  `timeIntrusion`, and `EndsReported` that what reaches `"expired"` and `"end"` is no tap
  still to be told, unless it came in the window.

`LockProofs` proves of `RfidSensor`, for every `SendInterval`, `HoldTime` and set of cards:

* `CodeSentOnce`: `Spec => []OneCodePerCard` (with `TypeCorrect`). Unless the last card
  raced a report, what the process has in the shared buffers is a report and no code
  (`NotCode`).
* `CardsDoNotSilence`: `Spec => []NeverQuietForLong`, with the limit `HoldTime + 2 *
  SendInterval` (9 s with the firmware's numbers). While a card is held, the time since its
  code was sent, and then the turn that is due, bound the silence (`HeldQuiet`); a report
  whose buffer a card emptied is lost, but its code has just been sent instead (`NotEmpty`).

and of `LockLink`, for the same constants, every member card, `TimeoutAfter` and
`PollAfter > 1`, from one inductive invariant, `LinkInv`:

* `OnlyMembersSwitch`: `LinkSpec => []StrangerNeverSwitches`, and `MembersSwitch`: `LinkSpec
  => []MemberSwitches`. What makes them inductive is that a code lives shortly: a second
  after a card was accepted, and before the next can be, no code is left in a buffer of the
  reader nor on the air (`CodesGone`), so every code on its way is that of the last card
  (`CodesOfCard`). While a member's code is neither lost nor raced it is either on the air,
  once, or has switched the alarm (`MemberInTransit`).
* `LedFollows`: `LinkSpec => []LedShowsAlarm`. Announcements stay in order, so the last one
  under way is the state of the alarm (`LastIsVerdict`), and with none under way the LED is.
* `ReaderTimesOutByLoss`: `LinkSpec => []FalseTimeoutTakesLosses`: each poll but the last
  has cost a message, its own or its answer, however cards replaced the answers. A poll may
  be counted before its message is lost, but only while it is being answered, and that takes less than
  two checks (`PollsCost`); this is where `PollAfter > 1` is needed.
* `ReaderOnTheLink`: the theorems about the reader hold of the reader on the link.
* `BaseOfTheLink` and `TimeoutExactOnTheLink`, as for the PIR sensor; here the codes, those
  that lost their card included, must be messages `Base` allows.
* `LinkTypeCorrect`: `LinkSpec => []LinkTypeOK`, with the bound of three messages on the air. It
  is not inductive: room must be kept for what may still come before time passes, from the send
  under way, the turn that is due and the next card (`AtMostThree`). That a poll finds
  room too is `PollFirst`: the turn is not due, nor a send under way, when the base's check comes,
  unless it has just polled.

`LineBufferProofs` proves of `LineBuffer`, for every size and alphabet:

* `AlwaysInSync`: `Spec => []InSync` (with `TypeCorrect`). What makes it inductive is
  `NoLineUnread`: without an early line the part of the ring still to be read holds no
  line feed. The loop then cannot stop before the one just stored (`LineEndsAtPut`), nor run past it
  (`PutIsOnTheWay`); `AvailableIsZero` shows that the wrong count is 0 when it should be.
* `LinesArriveWhole`: `Spec => LineIsTail`. The slots still to be read hold the end of what
  was typed, and all of it as long as it fits (`UnreadIsTyped`); the loop copies them in order.
* `OneLinePerLineFeed`: `Spec => BehindForGood`. In a ring that is not full `Receive` adds one
  slot to the unread ones and, on a line feed, the loop takes those up to the first line
  feed among them: the number of lines left is the same.

`UartProofs` proves of `UartMux`, for any streams of bytes and, but for the last theorem,
every ring size:

* `RingsAreQueues`: `Spec => ForwardsInOrder`, that the rings of the two devices implement
  `LossyQueue` (with `TypeCorrect`). Under it are lemmas about `ByteRing` alone: a byte
  that does not fill a ring is appended to what it holds (`AppendQueues`), one that does
  empties it (`AppendForgets`), and `GetNext()` takes the head (`AdvanceTakes`). The
  invariant relates the loop to the interrupt: what was found ready is not empty
  (`FoundReady`) and what was peeked is still the head (`PeekedHead`), unless the ring was
  lapped since, which `torn` records.
* `DataReachTheirDevice`: `Spec => CouplesRouted`, for every even size. `ComingIsDue` says
  that what ring 1 holds is what is due, couple by couple, behind the half of one the loop
  has taken; `Aligned` that couples begin at even slots unless `stray`, so that none lies across the
  end of the ring, where `Data1Available()` miscounts; `CoupleReady` that a couple the loop was told of is
  there as a whole. `EvenAssumption` is not idle: with a ring of 5 TLC finds a couple
  torn without `stray`. `BUFFER_SIZE` is 64.

`RaspberryProofs` proves of `AlarmView`, for every `Refresh` and set of states:

* `ScreenCatchesUp`: `Spec => []ShownWithinRef`. The turns for which the screen has been
  wrong and those until it is redrawn add up to at most `Refresh` (`Countdown`).
* `TypeCorrect`: `Spec => []TypeOK`, which says beyond the types that neither thread has
  an assignment before it that is the other's to make (`LineAssigns`, `ViewAssigns`).
* `NeverStuck`: `Spec => []AlwaysAWayOn`. The threads undo each other's assignments
  in the middle of their lists, so the invariant says for each of the two what can be left of its
  list (`LineOK`, `TodoOK`) and that the user has a way on *or* one is still to come with what
  is left (`WayOn`).

and of `ServerLink`, for every `PingEvery`, `PongWithin` and `RetryEvery`:

* `LinkTypeCorrect`: `LinkSpec => []LinkTypeOK`; also that a PONG is awaited only on the
  connection that was asked for it, which a socket left open by `GivenUp` would break.
* `ServerUpInTime`: `LinkSpec => []UpInTime`, if the timers are out of step: `PingEvery + 2 *
  PongWithin <= RetryEvery < 2 * PingEvery + PongWithin` (9 <= 10 < 12 with the code's), and
  `UpWithin >= RetryEvery + 2 * (PingEvery + PongWithin)` (24). In the calm the link is in one of
  four situations. `Sound`: connected, and nothing is outstanding that could close it; this one
  stays. `Waiting`: no try was made yet, and a dead connection, if there is one, will be found
  out by a PING before the next try. `Failed`: a try failed because the socket was still open;
  a wait for a PONG closes it before the next one. `Clean`: a try has succeeded, but a wait for
  a PONG that will not come, one of before or that of the PING behind the hello, closes the
  connection again; the timers then stand so that the next try inherits no wait. Each of the
  last three bounds `calm` by timers that run (`Good`, `UpInv`).
`ServerProofs` proves of `DeviceServer`, for any number of connections, users, states and
calls of the database:

* `OwnerIsKept`: `Spec => OwnerKept`. Rows are saved as they were read, so the invariant is
  about the copies: without rivals every copy in a session or in a handler has the row's
  owner or none (`JobsKnow`, `SessionsKnow`), at most one user is taking the base
  (`OneTaker`), and it is still free when that is saved (`TakenIsFree`).
* `RowsBounded`: `Spec => []RowsNeedOverlap`. The rows there are and the handlers that found none
  and are about to create one are together at most the most handlers there ever were at
  once (`RowsInv`, with the handlers counted as a cardinality).
* `LastStateIsKept`: `Spec => []LastStateKept`. If never two updates were handled at once, the
  one under way is the only one that can change the row, and it carries the latest state (`LastInv`).
* `ShownOnlineTruly`: `Spec => []OnlineIsTrue`. Without an overlap a handler under way read the
  row as it is, and what it will write is true of the connections as they are (`OnlineInv`);
  all four with `TypeCorrect`.

TLC checked each of these invariants, `BaseOnTheLink` included, on the constants of the
component's run before it was proved. Trying to prove them also corrected the model: in
`Disconnect` of `DeviceServer` the part of the ghost `overlap` that looks at pending jobs was
inside the quantifier over the other connections, so that it counted only when there was one,
which no run had noticed; and the bounds on
losses, first written as numbers, turned out to be formulas that hold for any constants.

Only model-checked: all liveness (`SilenceDetected`, `EmergencyEnds`, `DeadSensorShown`, that
every device is served and an ended base is offline in the end), which is out of the prover's
reach. Every safety property of a passing run is a theorem. For timers that are not
`OutOfStep` nothing is proved of `ServerLink`; the code's are.

## Plan

1. (done) The sensors, the base and their links; the base's theorems.
2. (done) Line buffer, multiplexer, screen, server link, bridge and server; theorems on the
   sensors, the rings and the screen.
3. (done) Theorems on the RFID reader and on the owner of a base.
4. (done) Theorems on both links, on routing and whole lines, on the way on, on rows and the
   online flag.
5. (done) Theorems on the connection to the server; that the base on a link is the base of
   `Base`, so that `TimeoutIffSilent` holds there too; how much is on the air.

## Not modelled

* *JSON extraction and `isAllowed()`*: pure functions of one message; the messages the
  firmware sends, which `EProtect` has as records, are parsed as they are meant. On
  anything else `jsonData()` reads beyond the message, which has no set of outcomes.
* *Accounts, log in, pages* (`UserController`, `SessionController`, `SigfoxController` but for
  `connect`): single reads and writes of rows that no handler of the base touches, with one
  exception. `UserController.update` (86-96) writes the `sigfox` of a user, and the default
  blueprints of Sails any attribute of any row: both can give a base another owner, and nothing
  limits how. `OwnerKept` does not speak of them.
* *Connections that are reset.* `bridge.js` listens for no error of a TCP socket, so that one
  reset may stop the bridge with all its connections; `DeviceServer` has connections that end and
  connections that never do.
* *Drawing* (widgets, pictures of the photo viewer), names of sensors, views, assets,
  configuration, the Android app: no state the alarm depends on.
* *The start of the Raspberry's `init()` and of the PIC's `InitBuffers()`*: races of a
  moment at boot, the first with undefined behaviour.
* *Contiki, SFML, Sails*: third-party code. Contiki's scheduling (cooperative processes,
  atomic interrupts, periodic timers without drift), SFML's sockets and clocks and the
  database's `save()` are assumed to do what the modules say of them. Contiki is also by far
  most of the repository's lines; of those only `simple_udp` and the send path of uIP, on which the
  reader's interrupt bears, are modelled. The project's own programs are some four
  thousand lines, and the modules cover the part of them that keeps state.
* *AES and chat examples* (not called), `SI/eProtect` and `SI/PFE-view` (superseded).
