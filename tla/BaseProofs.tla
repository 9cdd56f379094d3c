----------------------------- MODULE BaseProofs -----------------------------
(***************************************************************************)
(* Proofs about Base, for any number of slots, any presets and any limits. *)
(***************************************************************************)
EXTENDS Base, Integers, TLAPS

(* Arithmetic of the two nested counters.  Multiplication by the unknown
   PollAfter is what the SMT solver cannot do unaided, so each fact about it
   is stated once. *)
LEMMA ProductStep ==
  ASSUME NEW a \in Nat, NEW p \in Nat
  PROVE  /\ a * p \in Nat
         /\ (a + 1) * p = a * p + p
  OBVIOUS

(* A larger number of polls stands for at least as much silence. *)
LEMMA ProductMonotone ==
  ASSUME NEW a \in Nat, NEW b \in Nat, NEW p \in Nat, a <= b
  PROVE  a * p <= b * p
<1>1. PICK d \in Nat : b = a + d
  BY b - a \in Nat, b = a + (b - a)
<1>2. b * p = a * p + d * p /\ d * p \in Nat /\ a * p \in Nat
  BY <1>1
<1>3. QED
  BY <1>2, b * p \in Nat

(* The silence a pair of counters below their limits stands for is below
   SilenceLimit; it reaches it exactly when both counters are about to wrap. *)
LEMMA CountersBelowLimit ==
  ASSUME NEW n \in 0 .. TimeoutAfter - 1, NEW t \in 0 .. PollAfter - 1
  PROVE  /\ n * PollAfter + t \in Nat
         /\ n * PollAfter + t < SilenceLimit
         /\ n * PollAfter + t + 1 = SilenceLimit
              <=> n + 1 = TimeoutAfter /\ t + 1 = PollAfter
<1> USE BaseAssumption
<1>1. /\ n * PollAfter \in Nat
      /\ (n + 1) * PollAfter = n * PollAfter + PollAfter
      /\ TimeoutAfter * PollAfter \in Nat
  BY ProductStep
<1>2. CASE n + 1 = TimeoutAfter
  BY <1>1, <1>2 DEF SilenceLimit
<1>3. CASE n + 1 # TimeoutAfter
  <2>1. n + 2 \in Nat /\ n + 2 <= TimeoutAfter
    BY <1>3
  <2>2. (n + 2) * PollAfter <= TimeoutAfter * PollAfter
    BY <2>1, ProductMonotone
  <2>3. (n + 2) * PollAfter = n * PollAfter + PollAfter + PollAfter
    BY <1>1, n + 1 \in Nat, (n + 1) + 1 = n + 2, ProductStep
  <2>4. QED
    BY <1>1, <1>3, <2>2, <2>3 DEF SilenceLimit
<1>4. QED
  BY <1>2, <1>3

-----------------------------------------------------------------------------
LEMMA TypeInitially == Init => TypeOK
<1> SUFFICES ASSUME Init PROVE TypeOK
  OBVIOUS
<1> USE BaseAssumption
<1>1. 0 \in 0 .. PollAfter - 1 /\ 0 \in 0 .. TimeoutAfter - 1 /\ 0 \in 0 .. SigfoxAfter
  OBVIOUS
<1>2. 0 \in 0 .. SilenceLimit
  BY <1>1, CountersBelowLimit DEF SilenceLimit
<1>3. STATUS_OK \in Status
  BY DEF Status, STATUS_OK, STATUS_TIMEOUT
<1>4. QED
  BY <1>1, <1>2, <1>3 DEF Init, TypeOK

LEMMA TypePreserved == TypeOK /\ [Next]_vars => TypeOK'
<1> SUFFICES ASSUME TypeOK, [Next]_vars PROVE TypeOK'
  OBVIOUS
<1> USE BaseAssumption DEF TypeOK
<1>1. ASSUME NEW i \in Slot, NEW st \in Status, Heard(i, st)
      PROVE  /\ status' \in [Slot -> Status]
             /\ lastTime' \in [Slot -> 0 .. PollAfter - 1]
             /\ failedTimeouts' \in [Slot -> 0 .. TimeoutAfter - 1]
             /\ silence' \in [Slot -> 0 .. SilenceLimit]
  BY <1>1, ProductStep DEF Heard, SilenceLimit
<1>2. ReportedStatus \subseteq Status /\ STATUS_OK \in Status /\ STATUS_TIMEOUT \in Status
  BY DEF ReportedStatus, Status, STATUS_OK, STATUS_EMERGENCY, STATUS_TIMEOUT
<1>3. ASSUME NEW lines, UpdateDataToServer(lines)
      PROVE  sigfoxAge' \in 0 .. SigfoxAfter
  BY <1>3 DEF UpdateDataToServer
<1>4. ASSUME NEW i \in Slot, NEW st \in ReportedStatus, NEW ty \in ReportedType,
             ReceiveStatus(i, st, ty)
      PROVE  TypeOK'
  BY <1>1, <1>2, <1>3, <1>4 DEF ReceiveStatus
<1>5. ASSUME NEW i \in Slot, NEW key \in Key, CodeAccepted(i, STATUS_OK, key)
      PROVE  TypeOK'
  BY <1>1, <1>2, <1>3, <1>5 DEF CodeAccepted
<1>6. ASSUME NEW i \in Slot, NEW key \in Key, CodeRefused(i, STATUS_OK, key)
      PROVE  TypeOK'
  BY <1>1, <1>2, <1>6 DEF CodeRefused
<1>7. CASE Check
  <2>1. lastTime' \in [Slot -> 0 .. PollAfter - 1]
    BY <1>7 DEF Check, Due, Monitored
  <2>2. failedTimeouts' \in [Slot -> 0 .. TimeoutAfter - 1]
    BY <1>7 DEF Check, Due, Failing, Monitored
  <2>3. status' \in [Slot -> Status]
    BY <1>2, <1>7 DEF Check
  <2>4. silence' \in [Slot -> 0 .. SilenceLimit]
    BY <1>7, ProductStep DEF Check, UpTo, SilenceLimit
  <2>5. sigfoxAge' \in 0 .. SigfoxAfter
    BY <1>7 DEF Check, UpTo
  <2>6. QED
    BY <1>7, <2>1, <2>2, <2>3, <2>4, <2>5 DEF Check
<1>8. CASE UNCHANGED vars
  BY <1>8 DEF vars, table
<1>9. QED
  BY <1>4, <1>5, <1>6, <1>7, <1>8 DEF Next, Receive, ReceiveCode

(* Every handler and every check keeps the fields of the table in range: the
   counters, chars in the code, never reach their limits between two steps. *)
THEOREM TypeCorrect == Spec => []TypeOK
  BY TypeInitially, TypePreserved, PTL DEF Spec

-----------------------------------------------------------------------------
(* TimeoutIffSilent is not inductive: it says nothing of what the counters
   have counted.  With CountersMeasureSilence it is. *)
IInv == TypeOK /\ TimeoutIffSilent /\ CountersMeasureSilence

LEMMA IInvInitially == Init => IInv
<1> SUFFICES ASSUME Init PROVE IInv
  OBVIOUS
<1> USE BaseAssumption
<1>1. TypeOK
  BY TypeInitially
<1>2. 0 < SilenceLimit
  BY CountersBelowLimit, 0 \in 0 .. PollAfter - 1, 0 \in 0 .. TimeoutAfter - 1
<1>3. QED
  BY <1>1, <1>2 DEF Init, IInv, TimeoutIffSilent, CountersMeasureSilence,
                    Monitored, STATUS_OK, STATUS_TIMEOUT

(* A message of a sensor resets all that is known of its silence, so what it
   leaves behind satisfies the invariant whatever was there before. *)
LEMMA HeardKeepsIInv ==
  ASSUME IInv, NEW i \in Slot, NEW st \in ReportedStatus, Heard(i, st),
         \A j \in Slot : j # i => type'[j] = type[j]
  PROVE  TimeoutIffSilent' /\ CountersMeasureSilence'
<1> USE BaseAssumption DEF IInv, TypeOK
<1>1. 0 < SilenceLimit /\ 0 * PollAfter = 0
  BY CountersBelowLimit, 0 \in 0 .. PollAfter - 1, 0 \in 0 .. TimeoutAfter - 1
<1>2. st # STATUS_TIMEOUT
  BY DEF ReportedStatus, STATUS_OK, STATUS_EMERGENCY, STATUS_TIMEOUT
<1>3. /\ status'[i] = st
      /\ lastTime'[i] = 0
      /\ failedTimeouts'[i] = 0
      /\ silence'[i] = 0
  BY DEF Heard
<1>4. ASSUME NEW j \in Slot, j # i
      PROVE  /\ status'[j] = status[j]
             /\ lastTime'[j] = lastTime[j]
             /\ failedTimeouts'[j] = failedTimeouts[j]
             /\ silence'[j] = silence[j]
             /\ j \in Monitored' <=> j \in Monitored
  BY <1>4 DEF Heard, Monitored
<1>5. SilenceLimit' = SilenceLimit
  BY DEF SilenceLimit
<1>6. TimeoutIffSilent'
  <2> SUFFICES ASSUME NEW j \in Monitored'
               PROVE  status'[j] = STATUS_TIMEOUT <=> silence'[j] = SilenceLimit
    BY <1>5 DEF TimeoutIffSilent
  <2>1. j \in Slot
    BY DEF Monitored
  <2>2. QED
    BY <1>1, <1>2, <1>3, <1>4, <2>1 DEF TimeoutIffSilent
<1>7. CountersMeasureSilence'
  <2> SUFFICES ASSUME NEW j \in Monitored', status'[j] # STATUS_TIMEOUT
               PROVE  silence'[j] = failedTimeouts'[j] * PollAfter + lastTime'[j]
    BY DEF CountersMeasureSilence
  <2>1. j \in Slot
    BY DEF Monitored
  <2>2. QED
    BY <1>1, <1>3, <1>4, <2>1 DEF CountersMeasureSilence
<1>8. QED
  BY <1>6, <1>7

(* A check moves both counters and the history on together: TIMEOUT is given
   on the very check at which the silence reaches its limit. *)
LEMMA CheckKeepsIInv ==
  ASSUME IInv, Check
  PROVE  TimeoutIffSilent' /\ CountersMeasureSilence'
<1> USE BaseAssumption DEF IInv, TypeOK
<1>1. Monitored' = Monitored /\ SilenceLimit' = SilenceLimit
  BY DEF Check, Monitored, SilenceLimit
<1>2. ASSUME NEW i \in Monitored
      PROVE  /\ status'[i] = STATUS_TIMEOUT <=> silence'[i] = SilenceLimit
             /\ status'[i] # STATUS_TIMEOUT =>
                  silence'[i] = failedTimeouts'[i] * PollAfter + lastTime'[i]
  <2> DEFINE n == failedTimeouts[i]
             t == lastTime[i]
  <2>1. /\ i \in Slot
        /\ n \in 0 .. TimeoutAfter - 1
        /\ t \in 0 .. PollAfter - 1
        /\ silence[i] \in 0 .. SilenceLimit
    BY DEF Monitored
  <2>2. /\ n * PollAfter + t \in Nat
        /\ n * PollAfter + t < SilenceLimit
        /\ n * PollAfter + t + 1 = SilenceLimit
             <=> n + 1 = TimeoutAfter /\ t + 1 = PollAfter
    BY <2>1, CountersBelowLimit
  <2>3. /\ n * PollAfter \in Nat
        /\ (n + 1) * PollAfter = n * PollAfter + PollAfter
        /\ SilenceLimit \in Nat
    BY <2>1, ProductStep DEF SilenceLimit
  <2>4. /\ i \in Due <=> t + 1 = PollAfter
        /\ i \in Failing <=> t + 1 = PollAfter /\ n + 1 = TimeoutAfter
    BY DEF Due, Failing
  <2>5. /\ status'[i] = IF i \in Failing THEN STATUS_TIMEOUT ELSE status[i]
        /\ lastTime'[i] = IF i \in Due THEN 0 ELSE t + 1
        /\ failedTimeouts'[i] = IF i \in Failing THEN 0
                                ELSE IF i \in Due THEN n + 1 ELSE n
        /\ silence'[i] = IF silence[i] + 1 < SilenceLimit
                         THEN silence[i] + 1 ELSE SilenceLimit
    BY <2>1 DEF Check, UpTo
  <2>6. CASE status[i] = STATUS_TIMEOUT
    <3>1. silence[i] = SilenceLimit
      BY <2>6 DEF TimeoutIffSilent
    <3>2. QED
      BY <2>3, <2>5, <2>6, <3>1
  <2>7. CASE status[i] # STATUS_TIMEOUT
    <3>1. silence[i] = n * PollAfter + t
      BY <2>7 DEF CountersMeasureSilence
    <3>2. CASE i \in Failing
      BY <2>1, <2>2, <2>3, <2>4, <2>5, <3>1, <3>2
    <3>3. CASE i \in Due /\ i \notin Failing
      BY <2>1, <2>2, <2>3, <2>4, <2>5, <2>7, <3>1, <3>3
    <3>4. CASE i \notin Due
      <4>1. i \notin Failing
        BY <3>4 DEF Failing
      <4>2. QED
        BY <2>1, <2>2, <2>3, <2>4, <2>5, <2>7, <3>1, <3>4, <4>1
    <3>5. QED
      BY <3>2, <3>3, <3>4
  <2>8. QED
    BY <2>6, <2>7
<1>3. QED
  BY <1>1, <1>2 DEF TimeoutIffSilent, CountersMeasureSilence

LEMMA IInvPreserved == IInv /\ TypeOK' /\ [Next]_vars => IInv'
<1> SUFFICES ASSUME IInv, TypeOK', [Next]_vars PROVE IInv'
  OBVIOUS
<1>1. ASSUME NEW i \in Slot, NEW st \in ReportedStatus, NEW ty \in ReportedType,
             ReceiveStatus(i, st, ty)
      PROVE  IInv'
  <2>1. \A j \in Slot : j # i => type'[j] = type[j]
    BY <1>1 DEF ReceiveStatus, IInv, TypeOK
  <2>2. QED
    BY <1>1, <2>1, HeardKeepsIInv DEF ReceiveStatus, IInv
<1>2. ASSUME NEW i \in Slot, NEW key \in Key, ReceiveCode(i, STATUS_OK, key)
      PROVE  IInv'
  BY <1>2, HeardKeepsIInv DEF ReceiveCode, CodeAccepted, CodeRefused, IInv, ReportedStatus
<1>3. CASE Check
  BY <1>3, CheckKeepsIInv DEF IInv
<1>4. CASE UNCHANGED vars
  BY <1>4 DEF vars, table, IInv, TimeoutIffSilent, CountersMeasureSilence,
              Monitored, SilenceLimit
<1>5. QED
  BY <1>1, <1>2, <1>3, <1>4 DEF Next, Receive

(* What a step last multicast or printed is not part of the invariant. *)
LEMMA IInvOfTable ==
  IInv /\ UNCHANGED <<table, isAlarmEnabled, portB, sigfoxAge, silence>> => IInv'
  BY DEF table, IInv, TypeOK, TimeoutIffSilent, CountersMeasureSilence, Monitored, SilenceLimit

(* The base shows a monitored sensor in TIMEOUT exactly while nothing of it
   arrived for SilenceLimit checks: no false verdict, none late, none that
   outlives the next message. *)
THEOREM TimeoutExact == Spec => []TimeoutIffSilent
<1>1. Init => IInv
  BY IInvInitially
<1>2. IInv /\ TypeOK' /\ [Next]_vars => IInv'
  BY IInvPreserved
<1>3. IInv => TimeoutIffSilent
  BY DEF IInv
<1>4. QED
  BY <1>1, <1>2, <1>3, TypeCorrect, PTL DEF Spec

-----------------------------------------------------------------------------
(* Quotient and remainder of a count of checks by the polling period. *)
LEMMA DivisionFacts ==
  ASSUME NEW s \in Nat, NEW p \in Nat \ {0}
  PROVE  /\ s \div p \in Nat
         /\ s % p \in 0 .. p - 1
         /\ s = (s \div p) * p + (s % p)
<1>1. s % p \in 0 .. p - 1
  OBVIOUS
<1>2. s \div p \in Int
  OBVIOUS
<1>3. s = p * (s \div p) + (s % p)
  OBVIOUS
<1>4. s \div p >= 0
  OBVIOUS
<1>5. p * (s \div p) = (s \div p) * p
  BY <1>2
<1>6. QED
  BY <1>1, <1>2, <1>3, <1>4, <1>5

(* The silence counted since boot or the last verdict is a multiple of
   PollAfter exactly when the inner counter wraps. *)
LEMMA MultipleWhenWrapped ==
  ASSUME NEW n \in Nat, NEW t \in 0 .. PollAfter - 1
  PROVE  (n * PollAfter + t + 1) % PollAfter = 0 <=> t + 1 = PollAfter
<1> USE BaseAssumption
<1> DEFINE s == n * PollAfter + t + 1
           q == s \div PollAfter
<1>1. n * PollAfter \in Nat /\ (n + 1) * PollAfter = n * PollAfter + PollAfter
  BY ProductStep
<1>2. s \in Nat /\ q \in Nat /\ s = q * PollAfter + (s % PollAfter)
      /\ s % PollAfter \in 0 .. PollAfter - 1
  <2>1. s \in Nat
    BY <1>1
  <2> HIDE DEF s
  <2>2. QED
    BY <2>1, DivisionFacts
<1>3. q * PollAfter \in Nat /\ (q + 1) * PollAfter = q * PollAfter + PollAfter
  BY <1>2, ProductStep
<1>4. ASSUME t + 1 = PollAfter PROVE s % PollAfter = 0
  <2>1. s = (n + 1) * PollAfter
    BY <1>1, <1>4
  <2>2. CASE q <= n
    <3>1. q * PollAfter <= n * PollAfter
      BY <1>2, <2>2, ProductMonotone
    <3>2. QED
      BY <1>1, <1>2, <1>3, <2>1, <3>1
  <2>3. CASE q >= n + 1
    <3>1. (n + 1) * PollAfter <= q * PollAfter
      BY <1>2, <2>3, ProductMonotone
    <3>2. QED
      BY <1>1, <1>2, <1>3, <2>1, <3>1
  <2>4. QED
    BY <1>2, <2>2, <2>3
<1>5. ASSUME s % PollAfter = 0 PROVE t + 1 = PollAfter
  <2>1. s = q * PollAfter
    BY <1>2, <1>3, <1>5
  <2>2. CASE q <= n
    <3>1. q * PollAfter <= n * PollAfter
      BY <1>2, <2>2, ProductMonotone
    <3>2. QED
      BY <1>1, <2>1, <3>1
  <2>3. CASE q >= n + 1
    <3>1. (n + 1) * PollAfter <= q * PollAfter
      BY <1>2, <2>3, ProductMonotone
    <3>2. QED
      BY <1>1, <2>1, <3>1
  <2>4. QED
    BY <1>2, <2>2, <2>3
<1>6. QED
  BY <1>4, <1>5

(* What the mapping of Monitor reads off the outputs of a step. *)
LEMMA OutputsMapped ==
  /\ \A i, st, ty, j, u : StatusMsg(i, st, ty) = StatusMsg(j, STATUS_TIMEOUT, u)
                             <=> i = j /\ st = STATUS_TIMEOUT /\ ty = u
  /\ \A i, j : PollMsg(i) = PollMsg(j) <=> i = j
  /\ \A i : PollMsg(i) # LockMsg /\ PollMsg(i) # UnlockMsg
  /\ \A i, ty, j, st, key : StatusMsg(i, STATUS_TIMEOUT, ty) # CodeMsg(j, st, key)
  /\ \A i, ty : /\ StatusMsg(i, STATUS_TIMEOUT, ty) # LockMsg
                /\ StatusMsg(i, STATUS_TIMEOUT, ty) # UnlockMsg
<1>1. \A i, st, ty, j, u : StatusMsg(i, st, ty) = StatusMsg(j, STATUS_TIMEOUT, u)
                             <=> i = j /\ st = STATUS_TIMEOUT /\ ty = u
  BY DEF StatusMsg
<1>2. \A i, j : PollMsg(i) = PollMsg(j) <=> i = j
  BY DEF PollMsg
<1>3. \A i : /\ PollMsg(i).cmd = "s"
             /\ \A ty : StatusMsg(i, STATUS_TIMEOUT, ty).cmd = "g"
             /\ \A st, key : CodeMsg(i, st, key).cmd = "c"
  BY DEF PollMsg, StatusMsg, CodeMsg
<1>4. LockMsg.cmd = "l" /\ UnlockMsg.cmd = "u"
  BY DEF LockMsg, UnlockMsg
<1>5. QED
  BY <1>1, <1>2, <1>3, <1>4

LEMMA RefinesInit == Init => Monitor!Init
<1> SUFFICES ASSUME Init PROVE Monitor!Init
  OBVIOUS
<1> USE BaseAssumption
<1>1. \A i \in Slot : failedTimeouts[i] * PollAfter + lastTime[i] = 0
  BY 0 * PollAfter = 0 DEF Init
<1>2. {i \in Slot : status[i] = STATUS_TIMEOUT} = {}
  BY DEF Init, STATUS_OK, STATUS_TIMEOUT
<1>3. Monitored \subseteq Slot
  BY DEF Monitored
<1>4. QED
  BY <1>1, <1>2, <1>3 DEF Init, Monitor!Init

(* The last step polled nobody and announced no TIMEOUT. *)
NothingAnnounced ==
  /\ {i \in Slot : PollMsg(i) \in radio} = {}
  /\ {i \in Slot : \E ty \in SensorType : StatusMsg(i, STATUS_TIMEOUT, ty) \in uart} = {}

(* Only a report of a free slot can add to the monitored sensors. *)
LEMMA RegistersOne ==
  ASSUME TypeOK, NEW i \in Slot, NEW ty \in SensorType,
         type' = IF type[i] = SENSOR_NONE THEN [type EXCEPT ![i] = ty] ELSE type
  PROVE  Monitored' \in {Monitored, Monitored \cup {i}}
<1>1. CASE type[i] # SENSOR_NONE \/ ty = SENSOR_NONE
  <2>1. type' = type
    BY <1>1 DEF TypeOK
  <2>2. QED
    BY <2>1 DEF Monitored
<1>2. CASE type[i] = SENSOR_NONE /\ ty # SENSOR_NONE
  BY <1>2 DEF Monitored, TypeOK
<1>3. QED
  BY <1>1, <1>2

(* A message of sensor i is Hear(i) of the monitor. *)
LEMMA RefinesHear ==
  ASSUME TypeOK, NEW i \in Slot, NEW st \in ReportedStatus, Heard(i, st),
         Monitored' \in {Monitored, Monitored \cup {i}},
         NothingAnnounced'
  PROVE  Monitor!Hear(i)
<1> USE BaseAssumption DEF TypeOK
<1>2. [j \in Slot |-> failedTimeouts[j] * PollAfter + lastTime[j]]'
        = [[j \in Slot |-> failedTimeouts[j] * PollAfter + lastTime[j]] EXCEPT ![i] = 0]
  <2> SUFFICES ASSUME NEW j \in Slot
               PROVE  failedTimeouts'[j] * PollAfter + lastTime'[j]
                        = IF j = i THEN 0 ELSE failedTimeouts[j] * PollAfter + lastTime[j]
    OBVIOUS
  <2>1. CASE j = i
    BY <2>1, 0 * PollAfter = 0 DEF Heard
  <2>2. CASE j # i
    BY <2>2 DEF Heard
  <2>3. QED
    BY <2>1, <2>2
<1>3. {j \in Slot : status[j] = STATUS_TIMEOUT}'
        = {j \in Slot : status[j] = STATUS_TIMEOUT} \ {i}
  BY DEF Heard, ReportedStatus, STATUS_OK, STATUS_EMERGENCY, STATUS_TIMEOUT
<1>4. QED
  BY <1>2, <1>3 DEF Monitor!Hear, NothingAnnounced

(* The periodic check is Check of the monitor. *)
LEMMA RefinesCheck ==
  ASSUME TypeOK, Check
  PROVE  Monitor!Check
<1> USE BaseAssumption DEF TypeOK
<1> DEFINE silent == [i \in Slot |-> failedTimeouts[i] * PollAfter + lastTime[i]]
<1>1. ASSUME NEW i \in Slot
      PROVE  /\ silent[i] + 1 = SilenceLimit
                  <=> failedTimeouts[i] + 1 = TimeoutAfter /\ lastTime[i] + 1 = PollAfter
             /\ (silent[i] + 1) % PollAfter = 0 <=> lastTime[i] + 1 = PollAfter
             /\ (failedTimeouts[i] + 1) * PollAfter
                  = failedTimeouts[i] * PollAfter + PollAfter
             /\ failedTimeouts[i] * PollAfter \in Nat
  <2>1. failedTimeouts[i] \in 0 .. TimeoutAfter - 1 /\ lastTime[i] \in 0 .. PollAfter - 1
    OBVIOUS
  <2>2. silent[i] = failedTimeouts[i] * PollAfter + lastTime[i]
    OBVIOUS
  <2>3. silent[i] + 1 = SilenceLimit
          <=> failedTimeouts[i] + 1 = TimeoutAfter /\ lastTime[i] + 1 = PollAfter
    BY <2>1, <2>2, CountersBelowLimit
  <2>4. failedTimeouts[i] \in Nat
    BY <2>1
  <2>5. (silent[i] + 1) % PollAfter = 0 <=> lastTime[i] + 1 = PollAfter
    BY <2>1, <2>2, <2>4, MultipleWhenWrapped
  <2>6. /\ failedTimeouts[i] * PollAfter \in Nat
        /\ (failedTimeouts[i] + 1) * PollAfter = failedTimeouts[i] * PollAfter + PollAfter
    BY <2>4, ProductStep
  <2>7. QED
    BY <2>3, <2>5, <2>6
<1>2. Monitor!Expired = Failing
  BY <1>1 DEF Monitor!Expired, Failing, Due, Monitored
<1>3. {i \in Monitored : (silent[i] + 1) % PollAfter = 0} = Due
  BY <1>1 DEF Due, Monitored
<1>4. silent' = [i \in Slot |-> IF i \in Failing THEN 0
                                ELSE IF i \in Monitored THEN silent[i] + 1 ELSE silent[i]]
  <2> SUFFICES ASSUME NEW i \in Slot
               PROVE  failedTimeouts'[i] * PollAfter + lastTime'[i]
                        = IF i \in Failing THEN 0
                          ELSE IF i \in Monitored THEN silent[i] + 1 ELSE silent[i]
    OBVIOUS
  <2>1. CASE i \in Failing
    BY <2>1, 0 * PollAfter = 0 DEF Check, Failing
  <2>2. CASE i \in Due /\ i \notin Failing
    <3>1. failedTimeouts'[i] = failedTimeouts[i] + 1 /\ lastTime'[i] = 0
      BY <2>2 DEF Check
    <3>2. lastTime[i] + 1 = PollAfter /\ i \in Monitored
      BY <2>2 DEF Due
    <3>3. QED
      BY <1>1, <2>2, <3>1, <3>2
  <2>3. CASE i \notin Due
    <3>1. i \notin Failing
      BY <2>3 DEF Failing
    <3>2. /\ failedTimeouts'[i] = failedTimeouts[i]
          /\ lastTime'[i] = IF i \in Monitored THEN lastTime[i] + 1 ELSE lastTime[i]
      BY <2>3, <3>1 DEF Check
    <3>3. QED
      BY <1>1, <3>1, <3>2
  <2>4. QED
    BY <2>1, <2>2, <2>3
<1>5. {i \in Slot : status[i] = STATUS_TIMEOUT}'
        = {i \in Slot : status[i] = STATUS_TIMEOUT} \cup Failing
  BY DEF Check, Failing, Due, Monitored
<1>6. {i \in Slot : PollMsg(i) \in radio}' = Due
  <2>1. radio' = {PollMsg(i) : i \in Due}
    BY DEF Check
  <2>2. QED
    BY <2>1, OutputsMapped DEF Due, Monitored
<1>7. {i \in Slot : \E ty \in SensorType : StatusMsg(i, STATUS_TIMEOUT, ty) \in uart}'
        = Failing
  <2>1. uart' = {StatusMsg(i, STATUS_TIMEOUT, type[i]) : i \in Failing}
    BY DEF Check
  <2>2. \A i \in Failing : i \in Slot /\ type[i] \in SensorType
    BY DEF Failing, Due, Monitored
  <2>3. QED
    BY <2>1, <2>2, OutputsMapped
<1>8. Monitored' = Monitored
  BY DEF Check, Monitored
<1>9. QED
  BY <1>2, <1>3, <1>4, <1>5, <1>6, <1>7, <1>8 DEF Monitor!Check

LEMMA RefinesStep == TypeOK /\ [Next]_vars => [Monitor!Next]_(Monitor!vars)
<1> SUFFICES ASSUME TypeOK, [Next]_vars PROVE [Monitor!Next]_(Monitor!vars)
  OBVIOUS
<1> USE BaseAssumption
<1>1. ASSUME NEW i \in Slot, NEW st \in ReportedStatus, NEW ty \in ReportedType,
             ReceiveStatus(i, st, ty)
      PROVE  Monitor!Hear(i)
  <2>1. st # STATUS_TIMEOUT /\ ty \in SensorType
    BY DEF ReportedStatus, STATUS_OK, STATUS_EMERGENCY, STATUS_TIMEOUT
  <2>2. uart' \subseteq {StatusMsg(i, st, ty)} /\ radio' = {}
    BY <1>1 DEF ReceiveStatus, UpdateDataToServer
  <2>3. \A j, u : StatusMsg(j, STATUS_TIMEOUT, u) # StatusMsg(i, st, ty)
    BY <2>1 DEF StatusMsg
  <2>4. NothingAnnounced'
    BY <2>2, <2>3 DEF NothingAnnounced
  <2>5. Monitored' \in {Monitored, Monitored \cup {i}}
    BY <1>1, <2>1, RegistersOne DEF ReceiveStatus
  <2>6. Heard(i, st)
    BY <1>1 DEF ReceiveStatus
  <2>7. QED
    BY <2>4, <2>5, <2>6, RefinesHear
<1>2. ASSUME NEW i \in Slot, NEW key \in Key, ReceiveCode(i, STATUS_OK, key)
      PROVE  Monitor!Hear(i)
  <2>1. Heard(i, STATUS_OK) /\ type' = type /\ STATUS_OK \in ReportedStatus
    BY <1>2 DEF ReceiveCode, CodeAccepted, CodeRefused, ReportedStatus
  <2>2. /\ uart' \subseteq {CodeMsg(i, STATUS_OK, key), LockMsg, UnlockMsg}
        /\ radio' \subseteq {LockMsg, UnlockMsg}
    BY <1>2 DEF ReceiveCode, CodeAccepted, CodeRefused, UpdateDataToServer
  <2>3. NothingAnnounced'
    BY <2>2, OutputsMapped DEF NothingAnnounced
  <2>4. Monitored' = Monitored
    BY <2>1 DEF Monitored
  <2>5. QED
    BY <2>1, <2>3, <2>4, RefinesHear
<1>3. CASE Check
  BY <1>3, RefinesCheck DEF Monitor!Next
<1>4. CASE UNCHANGED vars
  BY <1>4 DEF vars, table, Monitor!vars, Monitored
<1>5. QED
  BY <1>1, <1>2, <1>3, <1>4 DEF Next, Receive, Monitor!Next

(* The nested pair of counters, wrapping at PollAfter and TimeoutAfter, is a
   single count of silent checks: the base implements SilenceMonitor. *)
THEOREM ImplementsMonitor == Spec => MonitorSpec
<1>1. Init => Monitor!Init
  BY RefinesInit
<1>2. TypeOK /\ [Next]_vars => [Monitor!Next]_(Monitor!vars)
  BY RefinesStep
<1>3. QED
  BY <1>1, <1>2, TypeCorrect, PTL DEF Spec, MonitorSpec, Monitor!Spec
=============================================================================
