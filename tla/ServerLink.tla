------------------------------ MODULE ServerLink ------------------------------
(***************************************************************************)
(* The Raspberry's connection to the server, UartThread of                 *)
(* SE/main_base/src/uart_com.cpp: lines of the base are forwarded, a PING  *)
(* is sent every 5 s, a connection whose PONG does not come within 2 s is  *)
(* closed, and a new one is tried no sooner than 10 s after the last try.  *)
(* The timers run whether there is a connection or not, and a new          *)
(* connection resets only its own.  The bridge of the server answers a     *)
(* PING only when the chunk it reads begins with it (bridge.js:34-40).     *)
(*                                                                         *)
(* A turn of the loop is short against a second, so that a test for more   *)
(* than n seconds holds in a turn of the n-th second.  What is sent is     *)
(* read, and a PING answered, within the second, or it is late.  Functions *)
(* that can end in several ways are the sets of the states they may leave. *)
(***************************************************************************)
EXTENDS Naturals

CONSTANTS
  PingEvery,   \* 5
  PongWithin,  \* 2
  RetryEvery,  \* 10
  UpWithin     \* seconds of calm after which the connection is to be up

ASSUME LinkAssumption ==
  /\ {PingEvery, PongWithin, RetryEvery, UpWithin} \subseteq Nat
  /\ 0 < PongWithin /\ PongWithin <= PingEvery

VARIABLES
  net,   \* the server can be reached
  half,  \* getLine() is waiting for the end of a line
  l,     \* the thread's fields and its connection
  ran,   \* the loop has turned in this second
  calm   \* history: seconds since the last disturbance: a change of net, a break, half a
         \* line, something late, a PING unanswered because a line came before it

linkVars == <<net, half, l, ran, calm>>

Link == [up : BOOLEAN,        \* socketConnected
         alive : BOOLEAN,     \* what is sent arrives
         tried : 0 .. RetryEvery, pinged : 0 .. PingEvery,  \* lastTry, pingTime
         done : BOOLEAN,      \* pingDone
         pong : {"none", "coming", "here", "lost"},
         open : BOOLEAN,      \* connected once, and not closed since
         unread : {"nothing", "hello", "line"}]   \* sent before, the bridge may not have read it

(* Types; and a PONG is awaited only on the connection that was asked for it
   (uart_com.cpp:62-76,188-192): one of an older connection would be taken for the answer. *)
LinkTypeOK ==
  /\ net \in BOOLEAN /\ half \in BOOLEAN /\ ran \in BOOLEAN
  /\ l \in Link
  /\ calm \in 0 .. UpWithin
  /\ l.pong # "none" => l.up /\ ~l.done

Later(t, n, limit) == IF t + n > limit THEN limit ELSE t + n

-----------------------------------------------------------------------------
(* socketConnect(): when the server cannot be reached the call fails at once, or after so
   long that the timers have run out; on a socket that was not closed since it was connected
   (only the wait for a PONG closes it) it may fail although the server can be reached. *)
Connected(r) == [r EXCEPT !.tried = 0, !.up = TRUE, !.alive = TRUE, !.pong = "none",
                          !.open = TRUE, !.unread = "hello"]

Unconnected(r, n) ==
  [r EXCEPT !.tried = n, !.up = FALSE, !.pinged = Later(@, n, PingEvery)]

TryConnect(r) ==
  IF net THEN {Connected(r)} \cup {Unconnected(r, n) : n \in IF r.open THEN {0} ELSE {}}
  ELSE {Unconnected(r, n) : n \in {0, RetryEvery}}

SocketConnect(r) == IF r.tried >= RetryEvery THEN TryConnect(r) ELSE {r}

(* socket_send() and socket_get() find a broken connection out, or do not. *)
Broken(r) == {r} \cup SocketConnect([r EXCEPT !.up = FALSE, !.pong = "none"])

(* "sent" is what the connection may be like once the data is on its way. *)
SocketSend(r, sent) ==
  IF ~r.up THEN {r} ELSE IF r.alive THEN sent ELSE Broken(r)

SendLine(r) == SocketSend(r, {[r EXCEPT !.unread = "line"]})

(* Slip: the PONG does not end the wait. *)
PongUnseen(r) == [r EXCEPT !.pong = "none", !.pinged = 0]

(* processSocket(): a PONG. *)
Pong(r) == IF r.done THEN [r EXCEPT !.pong = "none"]
           ELSE [r EXCEPT !.pong = "none", !.done = TRUE, !.pinged = 0]

SocketGet(r) ==
  IF ~r.up THEN {r}
  ELSE IF r.pong = "here" THEN {Pong(r)}
  ELSE IF r.pong = "coming" THEN {r, Pong(r)}
  ELSE IF r.alive THEN {r} ELSE Broken(r)

(* What the bridge makes of a PING: alone in its chunk, or first, it is answered; behind the
   hello of the connection or behind a line, JSON.parse throws, and no PONG comes. *)
Answers(r) ==
  {"coming"} \cup CASE r.unread = "line"  -> {"lost"}
                    [] r.unread = "hello" -> {"none"}
                    [] OTHER              -> {}

(* Slip: without socketClient.Close(). *)
GivenUpOpen(r) == [r EXCEPT !.up = FALSE, !.done = TRUE, !.pinged = 0]

(* The wait for a PONG is given up: the socket is closed. *)
GivenUp(r) == [r EXCEPT !.up = FALSE, !.alive = FALSE, !.done = TRUE, !.pinged = 0,
                        !.pong = "none", !.open = FALSE, !.unread = "nothing"]

(* The PING of the loop, and the PONG it waited for in vain. *)
Ping(r) ==
  LET asked == [r EXCEPT !.pinged = 0, !.done = FALSE] IN
  IF r.done
  THEN IF r.pinged >= PingEvery
       THEN SocketSend(asked, {[asked EXCEPT !.pong = p] : p \in Answers(r)})
       ELSE {r}
  ELSE IF r.pinged >= PongWithin THEN {GivenUp(r)} ELSE {r}

-----------------------------------------------------------------------------
(* run(): the first try is forced. *)
LinkInit ==
  /\ net \in BOOLEAN
  /\ l \in LET new == [up |-> FALSE, alive |-> FALSE, tried |-> 0, pinged |-> 0,
                       done |-> TRUE, pong |-> "none", open |-> FALSE, unread |-> "nothing"]
           IN  TryConnect(new)
  /\ half = FALSE /\ ran = FALSE /\ calm = 0

(* One turn, with a line to forward or without. *)
Turn ==
  /\ ~half /\ ran' = TRUE
  /\ \E got \in SocketGet(l) : \E sent \in {got} \cup SendLine(got) : \E r \in Ping(sent) :
       l' \in IF r.up THEN {r} ELSE SocketConnect(r)
  /\ calm' = IF l'.pong = "lost" /\ l.pong # "lost" THEN 0 ELSE calm
  /\ UNCHANGED <<net, half>>

(* A second passes; what was sent arrives in it, or some of it is late. *)
Second(late) ==
  /\ ran \/ half
  /\ late => l.pong = "coming" \/ l.unread # "nothing"
  /\ l' = [l EXCEPT !.tried = Later(@, 1, RetryEvery), !.pinged = Later(@, 1, PingEvery),
                    !.pong = IF @ = "coming" /\ ~late THEN "here" ELSE @,
                    !.unread = IF late THEN @ ELSE "nothing"]
  /\ ran' = FALSE
  /\ calm' = IF half \/ late THEN 0 ELSE Later(calm, 1, UpWithin)
  /\ UNCHANGED <<net, half>>

(* The base stops in the middle of a line, and goes on. *)
HalfLine ==
  /\ half' = ~half /\ calm' = 0
  /\ UNCHANGED <<net, l, ran>>

(* The network fails, or the server alone; it comes back. *)
Break(n) ==
  /\ net' = n /\ calm' = 0
  /\ l' = [l EXCEPT !.alive = FALSE, !.pong = IF @ = "coming" THEN "none" ELSE @]
  /\ UNCHANGED <<half, ran>>

NetworkBack ==
  /\ ~net /\ net' = TRUE /\ calm' = 0
  /\ UNCHANGED <<half, l, ran>>

LinkNext ==
  \/ Turn \/ HalfLine \/ NetworkBack
  \/ \E late \in BOOLEAN : Second(late)
  \/ \E n \in BOOLEAN : Break(n /\ net)

LinkSpec == LinkInit /\ [][LinkNext]_linkVars

-----------------------------------------------------------------------------
(* The tries keep out of step with the PINGs, 5 s, 2 s and 10 s: two waits for a PONG in a row
   are over before the next try, and a third has not begun.  Otherwise, with 4 s, 1 s and
   10 s say, each try may meet a wait, and the connection is closed again and again. *)
OutOfStep ==
  /\ PingEvery + 2 * PongWithin <= RetryEvery
  /\ RetryEvery < 2 * PingEvery + PongWithin
  /\ UpWithin >= RetryEvery + 2 * (PingEvery + PongWithin)

(* Once the server stays within reach and answers, and the base sends whole lines, the
   connection is up after UpWithin seconds, and stays up.  A PING that was due while there was
   no connection can close a good new one, and so can the hello in front of a PING (pingDone
   is not reset by socketConnect(), uart_com.cpp:62-80,202-219; bridge.js:34-40), but not
   twice.  A line in front of a PING can do it again and again: it is a disturbance. *)
UpInTime == calm = UpWithin /\ net => l.up /\ l.alive
=============================================================================
