--------------------------- MODULE SilenceMonitor ---------------------------
(***************************************************************************)
(* What the base promises about silent sensors, said without the code's    *)
(* pair of counters: one count of silent checks per watched sensor, a poll *)
(* every PollAfter of them, and the verdict "down" after Limit of them.    *)
(* Base implements this module (Base!Monitor).                             *)
(***************************************************************************)
EXTENDS Naturals

CONSTANTS
  Sensor,     \* the sensors there can be
  PollAfter,  \* silent checks between two polls
  Limit       \* silent checks before a sensor is declared down

VARIABLES
  watched,    \* the sensors the monitor expects to hear from
  silent,     \* checks since the sensor was heard, or was last declared down
  down,       \* the sensors declared down and not heard since
  polled,     \* the sensors polled by the last step
  announced   \* the sensors announced down by the last step

vars == <<watched, silent, down, polled, announced>>

Init ==
  /\ watched \subseteq Sensor
  /\ silent = [i \in Sensor |-> 0]
  /\ down = {}
  /\ polled = {}
  /\ announced = {}

(* A message of sensor i: whatever was counted against it is forgotten, and
   a sensor that was not watched may become so. *)
Hear(i) ==
  /\ watched' \in {watched, watched \cup {i}}
  /\ silent' = [silent EXCEPT ![i] = 0]
  /\ down' = down \ {i}
  /\ polled' = {}
  /\ announced' = {}

(* One periodic check of all watched sensors at once. *)
Expired == {i \in watched : silent[i] + 1 = Limit}

Check ==
  /\ silent' = [i \in Sensor |->
                  IF i \in Expired THEN 0
                  ELSE IF i \in watched THEN silent[i] + 1 ELSE silent[i]]
  /\ down' = down \cup Expired
  /\ polled' = {i \in watched : (silent[i] + 1) % PollAfter = 0}
  /\ announced' = Expired
  /\ UNCHANGED watched

Next == Check \/ \E i \in Sensor : Hear(i)

Spec == Init /\ [][Next]_vars
=============================================================================
