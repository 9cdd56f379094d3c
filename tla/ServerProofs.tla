----------------------------- MODULE ServerProofs -----------------------------
(***************************************************************************)
(* Theorems about DeviceServer, for any number of connections, users,      *)
(* states and calls of the database.  A base keeps its owner: a row is     *)
(* saved as it was read, so the invariant says what every copy of the row, *)
(* in a session or in a handler, knows of the owner.  A device has no more *)
(* rows than updates once overlapped, one at a time leave the last state,  *)
(* and the base is shown online while it is: what the calls in progress    *)
(* will write is as true as what is there.                                 *)
(***************************************************************************)
EXTENDS DeviceServer, Integers, SequenceTheorems, FiniteSetTheorems, TLAPS

(* The part of TypeOK the argument needs. *)
Structure ==
  /\ row \in Row
  /\ wire \in [Conn -> Seq(Message)]
  /\ session \in [Conn -> Row \cup {NoOne}]
  /\ job \in Seq(Jobs)

(* A copy of the row has its owner, or none. *)
Knows(r) == r.owner \in {NoOne, row.owner}

OneTaker    == \A i, j \in Pending(Taking) : i = j
JobsKnow    == \A j \in Pending({"online", "offline"}) : Knows(job[j].row)
SessionsKnow == \A c \in Conn : session[c] # NoOne => Knows(session[c])

(* Whoever is about to own the base found it free, and it still is. *)
TakenIsFree == Pending({"own"}) # {} => row.owner = NoOne

IInv ==
  /\ Structure
  /\ ~rivals => OneTaker /\ JobsKnow /\ SessionsKnow /\ TakenIsFree

Right == OneTaker /\ JobsKnow /\ TakenIsFree

USE DEF OneTaker, JobsKnow, SessionsKnow, TakenIsFree, Knows, Pending, Taking

-----------------------------------------------------------------------------
(* Rows and calls. *)
LEMMA RowEdits ==
  ASSUME NEW r \in Row
  PROVE  /\ r.owner \in User \cup {NoOne}
         /\ \A o \in User \cup {NoOne} :
              [r EXCEPT !.owner = o] \in Row /\ [r EXCEPT !.owner = o].owner = o
         /\ \A b \in BOOLEAN :
              [r EXCEPT !.online = b] \in Row /\ [r EXCEPT !.online = b].owner = r.owner
              /\ [r EXCEPT !.online = b].online = b
  BY DEF Row

LEMMA SaveEffect ==
  ASSUME NEW r \in Row, row \in Row, Save(r)
  PROVE  row' \in Row /\ row'.owner = IF r.owner = NoOne THEN row.owner ELSE r.owner
  BY RowEdits DEF Save

LEMMA CallShape ==
  ASSUME NEW x \in Jobs
  PROVE  /\ x.op \in {"find", "online", "offline"} => x.c \in Conn
         /\ x.op \in {"online", "offline", "own"} => x.row \in Row
         /\ x.op = "claim" => x.u \in User
         /\ x.op \in Updating => x \in [op : Updating, st : State]
  BY DEF Jobs, Updating

LEMMA Calls ==
  /\ \A c \in Conn : [op |-> "find", c |-> c] \in Jobs
  /\ \A c \in Conn, r \in Row :
       /\ [op |-> "online", c |-> c, row |-> r] \in Jobs
       /\ [op |-> "offline", c |-> c, row |-> r] \in Jobs
  /\ \A st \in State, op \in Updating : [op |-> op, st |-> st] \in Jobs
  /\ \A u \in User : [op |-> "claim", u |-> u] \in Jobs
  /\ \A r \in Row : [op |-> "own", row |-> r] \in Jobs
  BY DEF Jobs, Updating

LEMMA Removed ==
  ASSUME NEW S, NEW s \in Seq(S), NEW j \in DOMAIN s
  PROVE  /\ RemoveAt(s, j) \in Seq(S)
         /\ Len(RemoveAt(s, j)) = Len(s) - 1
         /\ \A k \in 1 .. Len(s) - 1 : RemoveAt(s, j)[k] = s[IF k < j THEN k ELSE k + 1]
<1> DEFINE front == SubSeq(s, 1, j - 1)
           back  == SubSeq(s, j + 1, Len(s))
<1>1. /\ front \in Seq(S) /\ Len(front) = j - 1
      /\ \A k \in 1 .. j - 1 : front[k] = s[k]
  BY SubSeqProperties
<1>2. /\ back \in Seq(S) /\ Len(back) = Len(s) - j
      /\ \A k \in 1 .. Len(s) - j : back[k] = s[j + k]
  BY SubSeqProperties
<1>3. RemoveAt(s, j) = front \o back
  BY DEF RemoveAt
<1>4. j \in 1 .. Len(s) /\ Len(s) \in Nat
  OBVIOUS
<1> HIDE DEF front, back
<1>5. /\ front \o back \in Seq(S) /\ Len(front \o back) = Len(s) - 1
      /\ \A k \in 1 .. Len(s) - 1 :
           (front \o back)[k] = IF k <= j - 1 THEN front[k] ELSE back[k - (j - 1)]
  <2>1. /\ front \o back \in Seq(S)
        /\ Len(front \o back) = Len(front) + Len(back)
        /\ \A k \in 1 .. Len(front) + Len(back) :
             (front \o back)[k] = IF k <= Len(front) THEN front[k] ELSE back[k - Len(front)]
    BY <1>1, <1>2, ConcatProperties
  <2>2. Len(front) = j - 1 /\ Len(front) + Len(back) = Len(s) - 1
    BY <1>1, <1>2, <1>4
  <2> QED
    BY <2>1, <2>2
<1>6. ASSUME NEW k \in 1 .. Len(s) - 1
      PROVE  (front \o back)[k] = s[IF k < j THEN k ELSE k + 1]
  <2>1. CASE k < j
    BY <1>1, <1>4, <1>5, <2>1
  <2>2. CASE ~(k < j)
    <3>1. k - (j - 1) \in 1 .. Len(s) - j /\ j + (k - (j - 1)) = k + 1 /\ ~(k <= j - 1)
      BY <1>4, <2>2
    <3>2. (front \o back)[k] = back[k - (j - 1)]
      BY <1>5, <3>1
    <3>3. back[k - (j - 1)] = s[k + 1]
      BY <1>2, <3>1
    <3> QED
      BY <2>2, <3>2, <3>3
  <2> QED
    BY <2>1, <2>2
<1> QED
  BY <1>3, <1>5, <1>6

-----------------------------------------------------------------------------
(* The three ways the calls in progress change. *)
LEMMA StartKeeps ==
  ASSUME job \in Seq(Jobs), Right, NEW x \in Jobs,
         job' = Append(job, x), row' = row,
         x.op # "own",
         x.op \in Taking => Pending(Taking) = {},
         x.op \in {"online", "offline"} => Knows(x.row)
  PROVE  Right'
<1>1. /\ Len(job') = Len(job) + 1 /\ DOMAIN job' = 1 .. Len(job')
      /\ \A k \in 1 .. Len(job) : job'[k] = job[k]
      /\ job'[Len(job) + 1] = x
      /\ DOMAIN job = 1 .. Len(job) /\ Len(job) \in Nat
  OBVIOUS
<1>2. OneTaker'
  BY <1>1 DEF Right
<1>3. JobsKnow'
  BY <1>1 DEF Right
<1>4. TakenIsFree'
  BY <1>1 DEF Right
<1> QED
  BY <1>2, <1>3, <1>4 DEF Right

LEMMA ContinueKeeps ==
  ASSUME job \in Seq(Jobs), Right, NEW j \in DOMAIN job, NEW x \in Jobs,
         job' = [job EXCEPT ![j] = x], row' = row,
         x.op \in Taking => job[j].op \in Taking,
         x.op = "own" => row.owner = NoOne,
         x.op \in {"online", "offline"} => Knows(x.row)
  PROVE  Right'
<1>1. /\ DOMAIN job' = DOMAIN job /\ job'[j] = x
      /\ \A k \in DOMAIN job : k # j => job'[k] = job[k]
  OBVIOUS
<1>2. OneTaker'
  BY <1>1 DEF Right
<1>3. JobsKnow'
  BY <1>1 DEF Right
<1>4. TakenIsFree'
  BY <1>1 DEF Right
<1> QED
  BY <1>2, <1>3, <1>4 DEF Right

LEMMA EndKeeps ==
  ASSUME job \in Seq(Jobs), Right, NEW j \in DOMAIN job, job' = RemoveAt(job, j),
         \/ row'.owner = row.owner
         \/ job[j].op = "own" /\ row.owner = NoOne
  PROVE  Right'
<1> DEFINE from(k) == IF k < j THEN k ELSE k + 1
<1>0. /\ job' \in Seq(Jobs) /\ Len(job') = Len(job) - 1
      /\ \A k \in 1 .. Len(job) - 1 : job'[k] = job[from(k)]
  BY Removed
<1>1. DOMAIN job' = 1 .. Len(job) - 1 /\ DOMAIN job = 1 .. Len(job) /\ Len(job) \in Nat
  BY <1>0
<1>2. \A k \in DOMAIN job' :
        from(k) \in DOMAIN job /\ from(k) # j /\ job'[k] = job[from(k)]
  BY <1>0, <1>1
<1>3. \A k, l \in DOMAIN job' : from(k) = from(l) => k = l
  BY <1>1
<1> HIDE DEF from
<1>4. OneTaker'
  BY <1>2, <1>3 DEF Right
<1>5. JobsKnow'
  BY <1>2 DEF Right
<1>6. TakenIsFree'
  <2>1. CASE row'.owner = row.owner
    BY <1>2, <2>1 DEF Right
  <2>2. CASE job[j].op = "own"
    BY <1>2, <2>2 DEF Right
  <2> QED
    BY <2>1, <2>2
<1> QED
  BY <1>4, <1>5, <1>6 DEF Right

-----------------------------------------------------------------------------
LEMMA Initially == Init => IInv
<1> SUFFICES ASSUME Init PROVE IInv
  OBVIOUS
<1>1. row \in Row /\ wire \in [Conn -> Seq(Message)] /\ session \in [Conn -> Row \cup {NoOne}]
      /\ job \in Seq(Jobs) /\ DOMAIN job = {}
  BY DEF Init, Row
<1> QED
  BY <1>1 DEF IInv, Structure, Init

(* What the base does only puts messages on the wire. *)
LEMMA BaseKeepsIInv ==
  ASSUME IInv, NEW c \in Conn, Open(c) \/ Close(c) \/ \E st \in State : Send(c, st)
  PROVE  IInv'
<1>1. UNCHANGED <<row, session, job, rivals>>
  BY DEF Open, Close, Send
<1>2. wire' \in [Conn -> Seq(Message)]
  <2>1. CASE Open(c)
    BY <2>1 DEF Open, IInv, Structure, Message
  <2>2. CASE Close(c)
    BY <2>2 DEF Close, IInv, Structure, Message
  <2>3. ASSUME NEW st \in State, Send(c, st) PROVE wire' \in [Conn -> Seq(Message)]
    BY <2>3 DEF Send, IInv, Structure, Message
  <2> QED
    BY <2>1, <2>2, <2>3
<1> QED
  BY <1>1, <1>2 DEF IInv, Structure

(* A message handled: a call of the database begins, and disconnect writes
   the session's copy of the row. *)
LEMMA HandleKeeps ==
  ASSUME IInv, NEW c \in Conn, NEW m \in Message, Handle(c, m), row' = row, rivals' = rivals
  PROVE  /\ session' \in [Conn -> Row \cup {NoOne}] /\ job' \in Seq(Jobs)
         /\ ~rivals => Right' /\ SessionsKnow'
<1> USE DEF IInv, Structure
<1>1. CASE m = "end"
  <2>1. Disconnect(c)
    BY <1>1 DEF Handle
  <2>2. CASE session[c] = NoOne
    BY <2>1, <2>2 DEF Disconnect, Right
  <2>3. CASE session[c] # NoOne
    <3> DEFINE offline == [session[c] EXCEPT !.online = FALSE]
    <3>1. offline \in Row /\ offline.owner = session[c].owner
      BY <2>3, RowEdits
    <3> DEFINE call == [op |-> "offline", c |-> c, row |-> offline]
    <3>2. session' = [session EXCEPT ![c] = offline] /\ job' = Append(job, call)
      BY <2>1, <2>3 DEF Disconnect, Start
    <3>3. call \in Jobs /\ call.op = "offline" /\ call.row = offline
      BY <3>1, Calls
    <3> HIDE DEF call, offline
    <3>4. ~rivals => Right'
      BY <2>3, <3>1, <3>2, <3>3, StartKeeps DEF Right
    <3>5. ~rivals => SessionsKnow'
      BY <2>3, <3>1, <3>2
    <3> QED
      BY <3>1, <3>2, <3>3, <3>4, <3>5
  <2> QED
    BY <2>2, <2>3
<1>2. CASE m = "connect"
  <2> DEFINE call == [op |-> "find", c |-> c]
  <2>1. session' = session /\ job' = Append(job, call)
    BY <1>2 DEF Handle, Connect, Start
  <2>2. call \in Jobs /\ call.op = "find"
    BY Calls
  <2> HIDE DEF call
  <2> QED
    BY <2>1, <2>2, StartKeeps DEF Right
<1>3. CASE m # "end" /\ m # "connect"
  <2> DEFINE call == [op |-> "look", st |-> m]
  <2>1. m \in State /\ Update(c, m)
    BY <1>3 DEF Handle, Message
  <2>2. call \in Jobs /\ call.op = "look"
    BY <2>1, Calls DEF Updating
  <2>3. session' = session /\ (job' = job \/ job' = Append(job, call))
    BY <2>1 DEF Update, Start
  <2> HIDE DEF call
  <2> QED
    <3>1. CASE job' = job
      BY <2>3, <3>1 DEF Right
    <3>2. CASE job' = Append(job, call)
      BY <2>2, <2>3, <3>2, StartKeeps DEF Right
    <3> QED
      BY <2>3, <3>1, <3>2
<1> QED
  BY <1>1, <1>2, <1>3

LEMMA ChunkKeepsIInv == ASSUME IInv, NEW c \in Conn, Chunk(c) PROVE IInv'
<1>1. /\ wire[c] # <<>> /\ wire[c] \in Seq(Message) /\ row' = row /\ rivals' = rivals
      /\ wire' = [wire EXCEPT ![c] = Tail(@)]
  BY DEF Chunk, IInv, Structure
<1>2. wire' \in [Conn -> Seq(Message)] /\ Head(wire[c]) \in Message
  BY <1>1 DEF IInv, Structure
<1>3. Handle(c, Head(wire[c])) \/ UNCHANGED <<session, job>>
  BY DEF Chunk
<1>4. CASE Handle(c, Head(wire[c]))
  BY <1>1, <1>2, <1>4, HandleKeeps DEF IInv, Structure, Right
<1>5. CASE UNCHANGED <<session, job>>
  BY <1>1, <1>2, <1>5 DEF IInv, Structure
<1> QED
  BY <1>3, <1>4, <1>5

-----------------------------------------------------------------------------
(* A call of the database returns: one lemma for the calls that go on, one for
   those that end. *)
LEMMA ContinueKeepsIInv ==
  ASSUME IInv, NEW j \in DOMAIN job, Complete(j), job[j].op \in {"claim", "find", "look"}
  PROVE  IInv'
<1> USE DEF IInv, Structure
<1>1. UNCHANGED <<row, wire, session, rivals>> /\ job[j] \in Jobs /\ job \in Seq(Jobs)
  BY DEF Complete, Claim, Found, Online, Saved, Looked, Written, world
<1>2. SUFFICES job' \in Seq(Jobs) /\ (~rivals => Right')
  BY <1>1, <1>2 DEF Right
<1>3. ASSUME job' = RemoveAt(job, j) PROVE job' \in Seq(Jobs) /\ (~rivals => Right')
  BY <1>1, <1>3, Removed, EndKeeps DEF Right
<1>4. CASE job[j].op = "claim"
  <2> DEFINE r == [row EXCEPT !.owner = job[j].u]
             x == [op |-> "own", row |-> r]
  <2>1. Claim(j)
    BY <1>4 DEF Complete, Claim, Found, Online, Saved, Looked, Written
  <2>2. x \in Jobs /\ x.op = "own"
    BY <1>1, <1>4, CallShape, RowEdits, Calls
  <2>3. \/ job' = RemoveAt(job, j)
        \/ row.owner = NoOne /\ job' = [job EXCEPT ![j] = x]
    BY <2>1 DEF Claim
  <2> HIDE DEF x
  <2>4. CASE row.owner = NoOne /\ job' = [job EXCEPT ![j] = x]
    BY <1>1, <1>4, <2>2, <2>4, ContinueKeeps DEF Right
  <2> QED
    BY <1>3, <2>3, <2>4
<1>5. CASE job[j].op = "find"
  <2> DEFINE r == [row EXCEPT !.online = TRUE]
             x == [op |-> "online", c |-> job[j].c, row |-> r]
  <2>1. Found(j)
    BY <1>5 DEF Complete, Claim, Found, Online, Saved, Looked, Written
  <2>2. r \in Row /\ Knows(r)
    BY <1>1, RowEdits
  <2>3. x \in Jobs /\ x.op = "online" /\ x.row = r
    BY <1>1, <1>5, <2>2, CallShape, Calls
  <2>4. job' = [job EXCEPT ![j] = x]
    BY <2>1 DEF Found
  <2> HIDE DEF x, r
  <2> QED
    BY <1>1, <2>2, <2>3, <2>4, ContinueKeeps DEF Right
<1>6. CASE job[j].op = "look"
  <2>1. Looked(j) /\ job[j] \in [op : Updating, st : State]
    BY <1>1, <1>6, CallShape DEF Complete, Claim, Found, Online, Saved, Looked, Written, Updating
  <2>2. ASSUME NEW op \in {"create", "change"}, job' = [job EXCEPT ![j].op = op]
        PROVE  job' \in Seq(Jobs) /\ (~rivals => Right')
    <3> DEFINE x == [op |-> op, st |-> job[j].st]
    <3>1. x \in Jobs /\ x.op \in {"create", "change"}
      BY <2>1, Calls DEF Updating
    <3>2. job' = [job EXCEPT ![j] = x]
      <4>1. [job[j] EXCEPT !.op = op] = x
        BY <2>1
      <4> QED
        BY <2>2, <4>1
    <3> HIDE DEF x
    <3> QED
      BY <1>1, <3>1, <3>2, ContinueKeeps DEF Right
  <2> QED
    BY <1>3, <2>1, <2>2 DEF Looked
<1> QED
  BY <1>4, <1>5, <1>6

LEMMA EndKeepsIInv ==
  ASSUME IInv, NEW j \in DOMAIN job, Complete(j), job[j].op \notin {"claim", "find", "look"}
  PROVE  /\ IInv'
         /\ ~rivals /\ row.owner # NoOne => row'.owner = row.owner
<1> USE DEF IInv, Structure
<1>1. /\ UNCHANGED <<wire, rivals>> /\ job[j] \in Jobs /\ job \in Seq(Jobs)
      /\ Online(j) \/ Saved(j) \/ Written(j)
  BY DEF Complete, Claim, Found, Looked, world
<1>2. job' = RemoveAt(job, j) /\ job' \in Seq(Jobs)
  BY <1>1, Removed DEF Online, Saved, Written
<1>3. CASE Written(j)
  BY <1>1, <1>2, <1>3, EndKeeps DEF Written, Right
<1>4. CASE Online(j) \/ Saved(j)
  <2>1. /\ job[j].op \in {"online", "offline", "own"}
        /\ Save(job[j].row) /\ job[j].row \in Row
    BY <1>1, <1>4, CallShape DEF Online, Saved
  <2>2. /\ row' \in Row
        /\ row'.owner = IF job[j].row.owner = NoOne THEN row.owner ELSE job[j].row.owner
    BY <2>1, SaveEffect
  <2>3. session' \in [Conn -> Row \cup {NoOne}]
        /\ \A c \in Conn :
             session'[c] = session[c] \/ (job[j].op = "online" /\ session'[c] = job[j].row)
    <3>1. CASE Online(j)
      <4>1. session' = [session EXCEPT ![job[j].c] = job[j].row] /\ job[j].op = "online"
        BY <3>1 DEF Online
      <4> QED
        BY <1>1, <2>1, <4>1, CallShape
    <3>2. CASE Saved(j)
      BY <3>2 DEF Saved
    <3> QED
      BY <1>4, <3>1, <3>2
  <2>4. ASSUME ~rivals
        PROVE  \/ row'.owner = row.owner
               \/ job[j].op = "own" /\ row.owner = NoOne
    BY <2>1, <2>2, <2>4
  <2>5. ASSUME ~rivals PROVE Right'
    BY <1>1, <1>2, <2>4, <2>5, EndKeeps DEF Right
  <2>6. ASSUME ~rivals PROVE SessionsKnow'
    <3>1. job[j].op = "online" => Knows(job[j].row)
      BY <2>6
    <3>2. ASSUME NEW c \in Conn, session'[c] # NoOne
          PROVE  session'[c].owner \in {NoOne, row'.owner}
      <4>1. CASE session'[c] = session[c]
        BY <2>4, <2>6, <3>2, <4>1
      <4>2. CASE job[j].op = "online" /\ session'[c] = job[j].row
        BY <2>2, <3>1, <4>2
      <4> QED
        BY <2>3, <4>1, <4>2
    <3> QED
      BY <3>2
  <2>7. ~rivals /\ row.owner # NoOne => row'.owner = row.owner
    BY <2>4
  <2> QED
    BY <1>1, <1>2, <2>2, <2>3, <2>5, <2>6, <2>7 DEF Right
<1> QED
  BY <1>1, <1>3, <1>4

(* A user asks for the base: one at a time, as long as there are no rivals. *)
LEMMA AskKeepsIInv == ASSUME IInv, NEW u \in User, Ask(u) PROVE IInv'
<1> DEFINE call == [op |-> "claim", u |-> u]
<1>1. /\ UNCHANGED <<row, wire, session>> /\ job' = Append(job, call)
      /\ ~rivals' => Pending(Taking) = {}
  BY DEF Ask, Start, world
<1>2. ~rivals /\ call \in Jobs /\ call.op = "claim"
  BY Calls DEF Ask
<1> HIDE DEF call
<1>3. ~rivals' => Right'
  BY <1>1, <1>2, StartKeeps DEF IInv, Structure, Right
<1> QED
  BY <1>1, <1>2, <1>3 DEF IInv, Structure, Right

-----------------------------------------------------------------------------
LEMMA Preserved == IInv /\ [Next]_vars => IInv'
<1> SUFFICES ASSUME IInv, [Next]_vars PROVE IInv'
  OBVIOUS
<1>1. ASSUME NEW j \in DOMAIN job, Complete(j) PROVE IInv'
  BY <1>1, ContinueKeepsIInv, EndKeepsIInv
<1>2. ASSUME NEW c \in Conn, Open(c) \/ Close(c) \/ \E st \in State : Send(c, st)
      PROVE  IInv'
  BY <1>2, BaseKeepsIInv
<1>3. CASE UNCHANGED vars
  BY <1>3 DEF vars, world, IInv, Structure
<1> QED
  BY <1>1, <1>2, <1>3, AskKeepsIInv, ChunkKeepsIInv DEF Next

LEMMA Invariant == Spec => []IInv
  BY Initially, Preserved, PTL DEF Spec

(* Only a row saved changes the owner. *)
LEMMA StepKeepsOwner ==
  IInv /\ [Next]_vars => [row.owner # NoOne => row'.owner = row.owner \/ rivals]_vars
<1> SUFFICES ASSUME IInv, Next PROVE row.owner # NoOne => row'.owner = row.owner \/ rivals
  OBVIOUS
<1>1. CASE row' = row
  BY <1>1
<1>2. CASE row' # row
  <2>1. PICK j \in DOMAIN job : Complete(j)
    BY <1>2 DEF Next, Ask, Open, Close, Chunk, Send
  <2>2. job[j].op \notin {"claim", "find", "look"}
    BY <1>2, <2>1 DEF Complete, Claim, Found, Looked, Online, Saved, Written
  <2> QED
    BY <2>1, <2>2, EndKeepsIInv
<1> QED
  BY <1>1, <1>2

-----------------------------------------------------------------------------
(* A base keeps its owner, in whatever order the database answers, for any
   number of connections, users and calls, unless two users asked for it at
   the same time (sockets.js:31-81, UserController.js:160-175). *)
THEOREM OwnerIsKept == Spec => OwnerKept
  BY Invariant, StepKeepsOwner, PTL DEF Spec, OwnerKept

-----------------------------------------------------------------------------
(* The rest of the invariant.  First the rows of the device: the updates in
   progress, and the rows made with those that will make one, are never more
   than the updates that once were in progress at the same time. *)
RowsInv ==
  /\ Cardinality(Pending(Updating)) <= peak
  /\ device # <<>> => Len(device) + Cardinality(Pending({"create"})) <= peak

(* While updates come one at a time, the one in progress is the latest, and
   writes the first row or changes the only one. *)
LastInv == peak = 1 =>
  /\ Pending(Updating) = {} => device = <<latest>>
  /\ \A j \in Pending(Updating) :
       /\ job[j].st = latest
       /\ job[j].op = "create" => device = <<>>
       /\ job[j].op = "change" => device # <<>>

(* While the handlers of the row do not overlap, there is one at a time, or
   two of the same end; one that saves the row says what the connections say,
   or what they will say when it is done. *)
OneHandler   == \A i, j \in Pending(OfRow) : i # j => job[i] = job[j] /\ job[i].op = "offline"
OnlineSaved  == \A j \in Pending({"online"}) : job[j].row.online
OfflineSaved == \A j \in Pending({"offline"}) : ~job[j].row.online /\ \A c \in Conn : ~Announced(c)
OwnSaved     == \A j \in Pending({"own"}) : job[j].row.online = row.online
RowIsTrue    == Pending({"offline"}) = {} => (row.online <=> \E c \in Conn : Announced(c))
OnlineInv    == ~overlap => OneHandler /\ OnlineSaved /\ OfflineSaved /\ OwnSaved /\ RowIsTrue

RestInv == TypeOK /\ RowsInv /\ LastInv /\ OnlineInv

HIDE DEF Pending

-----------------------------------------------------------------------------
(* The calls in progress, counted. *)
LEMMA PendingIs == \A ops, j : j \in Pending(ops) <=> j \in DOMAIN job /\ job[j].op \in ops
  BY DEF Pending

LEMMA SomeIndices ==
  ASSUME NEW s \in Seq(Jobs), NEW P \in SUBSET DOMAIN s
  PROVE  /\ IsFiniteSet(P) /\ Cardinality(P) \in Nat /\ Cardinality(P) <= Len(s)
         /\ Cardinality(P) = 0 => P = {}
<1>1. DOMAIN s = 1 .. Len(s) /\ Len(s) \in Nat
  OBVIOUS
<1>2. ASSUME NEW n \in Nat PROVE IsFiniteSet(1 .. n) /\ Cardinality(1 .. n) = n
  BY FS_Interval
<1>3. P \in SUBSET (1 .. Len(s))
  BY <1>1
<1> QED
  BY <1>1, <1>2, <1>3, FS_Subset, FS_CardinalityType, FS_EmptySet

LEMMA PendingCount ==
  ASSUME job \in Seq(Jobs), NEW ops
  PROVE  /\ IsFiniteSet(Pending(ops)) /\ Cardinality(Pending(ops)) \in Nat
         /\ Cardinality(Pending(ops)) <= Len(job)
         /\ Cardinality(Pending(ops)) = 0 => Pending(ops) = {}
<1>1. Pending(ops) \in SUBSET DOMAIN job
  BY DEF Pending
<1> QED
  BY <1>1, SomeIndices

LEMMA PendingCountNext ==
  ASSUME job' \in Seq(Jobs), NEW ops
  PROVE  /\ IsFiniteSet(Pending(ops)') /\ Cardinality(Pending(ops)') \in Nat
         /\ Cardinality(Pending(ops)') <= Len(job')
         /\ Cardinality(Pending(ops)') = 0 => Pending(ops)' = {}
<1>1. Pending(ops)' \in SUBSET DOMAIN job'
  BY DEF Pending
<1> QED
  BY <1>1, SomeIndices

LEMMA Started ==
  ASSUME job \in Seq(Jobs), NEW x \in Jobs, job' = Append(job, x)
  PROVE  /\ job' \in Seq(Jobs) /\ Len(job') = Len(job) + 1
         /\ DOMAIN job' = DOMAIN job \cup {Len(job) + 1} /\ Len(job) + 1 \notin DOMAIN job
         /\ job'[Len(job) + 1] = x
         /\ \A k \in DOMAIN job : job'[k] = job[k]
         /\ \A ops : Pending(ops)' = IF x.op \in ops THEN Pending(ops) \cup {Len(job) + 1}
                                                     ELSE Pending(ops)
<1>1. /\ job' \in Seq(Jobs) /\ Len(job') = Len(job) + 1
      /\ DOMAIN job' = DOMAIN job \cup {Len(job) + 1} /\ Len(job) + 1 \notin DOMAIN job
      /\ job'[Len(job) + 1] = x
      /\ \A k \in DOMAIN job : job'[k] = job[k]
  OBVIOUS
<1> QED
  BY <1>1 DEF Pending

LEMMA Continued ==
  ASSUME job \in Seq(Jobs), NEW j \in DOMAIN job, NEW x \in Jobs, job' = [job EXCEPT ![j] = x]
  PROVE  /\ job' \in Seq(Jobs) /\ Len(job') = Len(job) /\ DOMAIN job' = DOMAIN job
         /\ job'[j] = x
         /\ \A k \in DOMAIN job : k # j => job'[k] = job[k]
         /\ \A ops : Pending(ops)' = IF x.op \in ops THEN Pending(ops) \cup {j}
                                                     ELSE Pending(ops) \ {j}
<1>1. /\ job' \in Seq(Jobs) /\ Len(job') = Len(job) /\ DOMAIN job' = DOMAIN job
      /\ job'[j] = x
      /\ \A k \in DOMAIN job : k # j => job'[k] = job[k]
  OBVIOUS
<1> QED
  BY <1>1 DEF Pending

(* Those that remain when one ends move up, and none gets lost or is doubled. *)
LEMMA Ended ==
  ASSUME job \in Seq(Jobs), NEW j \in DOMAIN job, job' = RemoveAt(job, j)
  PROVE  \E f \in [DOMAIN job' -> DOMAIN job \ {j}] :
           /\ \A k, l \in DOMAIN job' : f[k] = f[l] => k = l
           /\ \A l \in DOMAIN job \ {j} : \E k \in DOMAIN job' : f[k] = l
           /\ \A k \in DOMAIN job' : job'[k] = job[f[k]]
<1>1. /\ job' \in Seq(Jobs) /\ Len(job') = Len(job) - 1
      /\ \A k \in 1 .. Len(job) - 1 : job'[k] = job[IF k < j THEN k ELSE k + 1]
  BY Removed
<1>2. /\ DOMAIN job' = 1 .. Len(job) - 1 /\ DOMAIN job = 1 .. Len(job)
      /\ Len(job) \in Nat /\ j \in 1 .. Len(job)
  BY <1>1
<1> DEFINE f == [k \in DOMAIN job' |-> IF k < j THEN k ELSE k + 1]
<1>3. f \in [DOMAIN job' -> DOMAIN job \ {j}]
  BY <1>2
<1>4. \A k, l \in DOMAIN job' : f[k] = f[l] => k = l
  BY <1>2
<1>5. ASSUME NEW l \in DOMAIN job \ {j} PROVE \E k \in DOMAIN job' : f[k] = l
  <2>1. CASE l < j
    <3>1. l \in DOMAIN job' /\ f[l] = l
      BY <1>2, <2>1
    <3> QED
      BY <3>1
  <2>2. CASE ~(l < j)
    <3>1. l - 1 \in DOMAIN job' /\ f[l - 1] = l
      BY <1>2, <2>2
    <3> QED
      BY <3>1
  <2> QED
    BY <2>1, <2>2
<1>6. \A k \in DOMAIN job' : job'[k] = job[f[k]]
  BY <1>1, <1>2
<1> HIDE DEF f
<1> QED
  BY <1>3, <1>4, <1>5, <1>6

LEMMA EndedCount ==
  ASSUME job \in Seq(Jobs), NEW j \in DOMAIN job, job' = RemoveAt(job, j), NEW ops
  PROVE  Cardinality(Pending(ops)') <= IF job[j].op \in ops THEN Cardinality(Pending(ops)) - 1
                                                            ELSE Cardinality(Pending(ops))
<1>1. PICK f \in [DOMAIN job' -> DOMAIN job \ {j}] :
           /\ \A k, l \in DOMAIN job' : f[k] = f[l] => k = l
           /\ \A l \in DOMAIN job \ {j} : \E k \in DOMAIN job' : f[k] = l
           /\ \A k \in DOMAIN job' : job'[k] = job[f[k]]
  BY Ended
<1> DEFINE g == [k \in Pending(ops)' |-> f[k]]
<1>2. IsFiniteSet(Pending(ops)) /\ Cardinality(Pending(ops)) \in Nat
  BY PendingCount
<1>3. /\ IsFiniteSet(Pending(ops) \ {j})
      /\ Cardinality(Pending(ops) \ {j}) = IF j \in Pending(ops) THEN Cardinality(Pending(ops)) - 1
                                                                ELSE Cardinality(Pending(ops))
  BY <1>2, FS_RemoveElement
<1>4. g \in Injection(Pending(ops)', Pending(ops) \ {j})
  <2>1. g \in [Pending(ops)' -> Pending(ops) \ {j}]
    BY <1>1 DEF Pending
  <2>2. \A k, l \in Pending(ops)' : g[k] = g[l] => k = l
    BY <1>1 DEF Pending
  <2> HIDE DEF g
  <2> QED
    BY <2>1, <2>2 DEF Injection, IsInjective
<1>5. Cardinality(Pending(ops)') <= Cardinality(Pending(ops) \ {j})
  BY <1>3, <1>4, FS_Injection
<1>6. j \in Pending(ops) <=> job[j].op \in ops
  BY DEF Pending
<1> QED
  BY <1>2, <1>3, <1>5, <1>6

LEMMA MaxOfTwo == ASSUME NEW a \in Nat, NEW b \in Nat
                  PROVE  Max({a, b}) \in {a, b} /\ Max({a, b}) >= a /\ Max({a, b}) >= b
<1>1. \E x \in {a, b} : \A y \in {a, b} : x >= y
  <2>1. CASE a >= b
    BY <2>1
  <2>2. CASE b >= a
    BY <2>2
  <2> QED
    BY <2>1, <2>2
<1> QED
  BY <1>1 DEF Max

-----------------------------------------------------------------------------
(* The handlers of the row, and what leaves them alone. *)
LEMMA OnlineStays ==
  ASSUME OnlineInv, row' = row, session' = session, overlap => overlap',
         Pending(OfRow)' = Pending(OfRow), \A k \in Pending(OfRow) : job'[k] = job[k]
  PROVE  OnlineInv'
<1> SUFFICES ASSUME ~overlap' PROVE OnlineInv'
  BY DEF OnlineInv
<1>1. OneHandler /\ OnlineSaved /\ OfflineSaved /\ OwnSaved /\ RowIsTrue
  BY DEF OnlineInv
<1>2. \A op \in OfRow : Pending({op})' = Pending({op})
  BY DEF Pending
<1>3. {"online", "offline", "own"} \subseteq OfRow
  BY DEF OfRow
<1>4. \A op \in {"online", "offline", "own"} :
        Pending({op})' = Pending({op}) /\ \A k \in Pending({op}) : job'[k] = job[k]
  BY <1>2, <1>3 DEF Pending
<1>5. \A c \in Conn : Announced(c)' <=> Announced(c)
  BY DEF Announced
<1>6. OneHandler'
  BY <1>1 DEF OneHandler
<1>7. OnlineSaved' /\ OfflineSaved' /\ OwnSaved' /\ RowIsTrue'
  BY <1>1, <1>4, <1>5 DEF OnlineSaved, OfflineSaved, OwnSaved, RowIsTrue
<1> QED
  BY <1>6, <1>7 DEF OnlineInv

LEMMA UpdateEnds ==
  ASSUME OnlineInv, row' = row, session' = session, overlap' = overlap,
         job \in Seq(Jobs), NEW j \in DOMAIN job, job' = RemoveAt(job, j), job[j].op \in Updating
  PROVE  OnlineInv'
<1> SUFFICES ASSUME ~overlap' PROVE OnlineInv'
  BY DEF OnlineInv
<1>1. OneHandler /\ OnlineSaved /\ OfflineSaved /\ OwnSaved /\ RowIsTrue
  BY DEF OnlineInv
<1>2. PICK f \in [DOMAIN job' -> DOMAIN job \ {j}] :
           /\ \A k, l \in DOMAIN job' : f[k] = f[l] => k = l
           /\ \A l \in DOMAIN job \ {j} : \E k \in DOMAIN job' : f[k] = l
           /\ \A k \in DOMAIN job' : job'[k] = job[f[k]]
  BY Ended
<1>3. \A ops : \A k \in Pending(ops)' : f[k] \in Pending(ops) /\ job'[k] = job[f[k]]
  BY <1>2 DEF Pending
<1>4. OneHandler'
  <2>1. \A k, l \in Pending(OfRow)' : k # l => f[k] # f[l]
    BY <1>2 DEF Pending
  <2> QED
    BY <1>1, <1>3, <2>1 DEF OneHandler
<1>5. Pending({"offline"})' = {} => Pending({"offline"}) = {}
  BY <1>2 DEF Pending, Updating
<1>6. \A c \in Conn : Announced(c)' <=> Announced(c)
  BY DEF Announced
<1>7. RowIsTrue'
  BY <1>1, <1>5, <1>6 DEF RowIsTrue
<1>8. OnlineSaved' /\ OwnSaved'
  BY <1>1, <1>3 DEF OnlineSaved, OwnSaved
<1>9. OfflineSaved'
  BY <1>1, <1>3, <1>6 DEF OfflineSaved
<1> QED
  BY <1>4, <1>7, <1>8, <1>9 DEF OnlineInv

(* A handler that finds no other, and a handler that is alone and ends. *)
LEMMA HandlerStarts ==
  ASSUME OnlineInv, row' = row, session' = session,
         ~overlap' => ~overlap /\ Pending(OfRow) = {},
         job \in Seq(Jobs), NEW x \in Jobs, job' = Append(job, x), x.op \in {"find", "claim"}
  PROVE  OnlineInv'
<1> SUFFICES ASSUME ~overlap' PROVE OnlineInv'
  BY DEF OnlineInv
<1>1. RowIsTrue /\ Pending(OfRow) = {} /\ Pending({"offline"}) = {}
  BY DEF OnlineInv, Pending, OfRow
<1>2. Pending(OfRow)' = {Len(job) + 1} /\ job'[Len(job) + 1] = x
  BY <1>1, Started DEF OfRow
<1>3. \A k \in Pending(OfRow)' : job'[k].op \notin {"online", "offline", "own"}
  BY <1>2
<1>4. \A op \in {"online", "offline", "own"} : Pending({op})' = {}
  BY <1>3 DEF Pending, OfRow
<1>5. \A c \in Conn : Announced(c)' <=> Announced(c)
  BY DEF Announced
<1> QED
  BY <1>1, <1>2, <1>4, <1>5
  DEF OnlineInv, OneHandler, OnlineSaved, OfflineSaved, OwnSaved, RowIsTrue

LEMMA HandlerAlone ==
  ASSUME OneHandler, NEW j \in DOMAIN job, job[j].op \in OfRow \ {"offline"}
  PROVE  Pending(OfRow) = {j} /\ Pending({"offline"}) = {}
<1>1. j \in Pending(OfRow)
  BY DEF Pending
<1>2. Pending(OfRow) = {j}
  BY <1>1 DEF OneHandler
<1> QED
  BY <1>2 DEF Pending, OfRow

LEMMA AloneEnds ==
  ASSUME OnlineInv, overlap' = overlap, job \in Seq(Jobs),
         NEW j \in DOMAIN job, job' = RemoveAt(job, j), job[j].op \in OfRow \ {"offline"},
         OnlineInv /\ ~overlap => (row'.online <=> \E c \in Conn : Announced(c)')
  PROVE  OnlineInv'
<1> SUFFICES ASSUME ~overlap' PROVE OnlineInv'
  BY DEF OnlineInv
<1>1. Pending(OfRow) = {j}
  BY HandlerAlone DEF OnlineInv
<1>2. Pending(OfRow)' = {}
  <2>1. PICK f \in [DOMAIN job' -> DOMAIN job \ {j}] : \A k \in DOMAIN job' : job'[k] = job[f[k]]
    BY Ended
  <2>2. ASSUME NEW k \in Pending(OfRow)' PROVE FALSE
    <3>1. f[k] \in Pending(OfRow) /\ f[k] # j
      BY <2>1, <2>2 DEF Pending
    <3> QED
      BY <1>1, <3>1
  <2> QED
    BY <2>2
<1>3. \A op \in {"online", "offline", "own"} : Pending({op})' = {}
  BY <1>2 DEF Pending, OfRow
<1> QED
  BY <1>2, <1>3 DEF OnlineInv, OneHandler, OnlineSaved, OfflineSaved, OwnSaved, RowIsTrue

LEMMA AloneContinues ==
  ASSUME OnlineInv, overlap' = overlap, row' = row, session' = session, job \in Seq(Jobs),
         NEW j \in DOMAIN job, NEW x \in Jobs, job' = [job EXCEPT ![j] = x],
         job[j].op \in OfRow \ {"offline"},
         \/ x.op = "online" /\ x.row.online
         \/ x.op = "own" /\ x.row.online = row.online
  PROVE  OnlineInv'
<1> SUFFICES ASSUME ~overlap' PROVE OnlineInv'
  BY DEF OnlineInv
<1>1. Pending(OfRow) = {j} /\ Pending({"offline"}) = {} /\ RowIsTrue
  BY HandlerAlone DEF OnlineInv
<1>2. job'[j] = x /\ Pending(OfRow)' = {j}
  <2>1. x.op \in OfRow
    BY DEF OfRow, Taking
  <2>2. job'[j] = x /\ Pending(OfRow)' = Pending(OfRow) \cup {j}
    BY <2>1, Continued
  <2> QED
    BY <1>1, <2>2
<1>3. \A op \in {"online", "offline", "own"} : Pending({op})' \subseteq {j}
  BY <1>2 DEF Pending, OfRow
<1>4. Pending({"offline"})' = {}
  BY <1>2, <1>3 DEF Pending
<1>5. \A c \in Conn : Announced(c)' <=> Announced(c)
  BY DEF Announced
<1>6. OneHandler' /\ OfflineSaved' /\ RowIsTrue'
  BY <1>1, <1>2, <1>4, <1>5 DEF OneHandler, OfflineSaved, RowIsTrue
<1>7. ASSUME NEW op \in {"online", "own"}, NEW k \in Pending({op})' PROVE k = j /\ x.op = op
  <2>1. k \in DOMAIN job' /\ job'[k].op = op
    BY <1>7 DEF Pending
  <2> QED
    BY <1>2, <1>3, <1>7, <2>1
<1>8. OnlineSaved' /\ OwnSaved'
  BY <1>2, <1>7 DEF OnlineSaved, OwnSaved
<1> QED
  BY <1>6, <1>8 DEF OnlineInv

-----------------------------------------------------------------------------
LEMMA RestInitially == Init => RestInv
<1> SUFFICES ASSUME Init PROVE RestInv
  OBVIOUS
<1>1. job = <<>> /\ DOMAIN job = {} /\ device = <<>> /\ peak = 0 /\ ~row.online
  BY DEF Init
<1>2. \A ops : Pending(ops) = {}
  BY <1>1 DEF Pending
<1>3. TypeOK
  <2>0. MaxConn \in Nat /\ MaxJobs \in Nat /\ MaxSent \in Nat
    BY ServerAssumption
  <2>1. job \in Seq(Jobs) /\ Len(job) <= MaxJobs /\ device \in Seq(State) /\ peak \in 0 .. MaxJobs
    BY <1>1, <2>0
  <2>2. row \in Row
    BY DEF Init, Row
  <2>3. /\ tcp \in [Conn -> {"idle", "open", "closed"}] /\ wire \in [Conn -> Seq(Message)]
        /\ session \in [Conn -> Row \cup {NoOne}]
    BY DEF Init
  <2>4. sent \in 0 .. MaxSent /\ latest \in State \cup {NoOne}
    BY <2>0 DEF Init
  <2>5. overlap \in BOOLEAN /\ rivals \in BOOLEAN
    BY DEF Init
  <2> QED
    BY <2>1, <2>2, <2>3, <2>4, <2>5 DEF TypeOK
<1>4. RowsInv /\ LastInv
  BY <1>1, <1>2, FS_EmptySet DEF RowsInv, LastInv
<1>5. \A c \in Conn : ~Announced(c)
  BY DEF Init, Announced
<1>6. OnlineInv
  BY <1>1, <1>2, <1>5
  DEF OnlineInv, OneHandler, OnlineSaved, OfflineSaved, OwnSaved, RowIsTrue
<1> QED
  BY <1>3, <1>4, <1>6 DEF RestInv

(* The base, and the passing of nothing. *)
LEMMA BaseKeepsRest ==
  ASSUME RestInv, IInv',
         \/ \E c \in Conn : Open(c) \/ Close(c) \/ \E st \in State : Send(c, st)
         \/ UNCHANGED vars
  PROVE  RestInv'
<1>1. UNCHANGED <<row, device, session, job, latest, peak, overlap, rivals>>
  BY DEF Open, Close, Send, vars
<1>2. TypeOK'
  <2>1. tcp' \in [Conn -> {"idle", "open", "closed"}] /\ sent' \in 0 .. MaxSent
    <3>1. MaxSent \in Nat
      BY ServerAssumption
    <3>2. tcp \in [Conn -> {"idle", "open", "closed"}] /\ sent \in 0 .. MaxSent
      BY DEF RestInv, TypeOK
    <3>3. ASSUME NEW c \in Conn, Open(c) \/ Close(c)
          PROVE  tcp' \in [Conn -> {"idle", "open", "closed"}] /\ sent' = sent
      BY <3>2, <3>3 DEF Open, Close
    <3>4. ASSUME NEW c \in Conn, NEW st \in State, Send(c, st)
          PROVE  tcp' = tcp /\ sent' \in 0 .. MaxSent
      BY <3>1, <3>2, <3>4 DEF Send
    <3>5. UNCHANGED vars => tcp' = tcp /\ sent' = sent
      BY DEF vars, world
    <3> QED
      BY <3>2, <3>3, <3>4, <3>5
  <2> QED
    BY <1>1, <2>1 DEF RestInv, TypeOK, IInv, Structure
<1>3. \A ops : Pending(ops)' = Pending(ops)
  BY <1>1 DEF Pending
<1>4. RowsInv' /\ LastInv'
  BY <1>1, <1>3 DEF RestInv, RowsInv, LastInv
<1>5. OnlineInv'
  BY <1>1, <1>3, OnlineStays DEF RestInv
<1> QED
  BY <1>2, <1>4, <1>5 DEF RestInv

(* Calls that are no updates leave rows and states alone. *)
LEMMA RowsStay ==
  ASSUME RestInv, device' = device, latest' = latest, peak' = peak,
         Pending(Updating)' = Pending(Updating),
         \A k \in Pending(Updating) : job'[k] = job[k]
  PROVE  RowsInv' /\ LastInv'
<1>1. Pending({"create"})' = Pending({"create"})
  <2>1. \A k : k \in Pending({"create"}) <=> k \in Pending(Updating) /\ job[k].op = "create"
    BY DEF Pending, Updating
  <2>2. \A k : k \in Pending({"create"})' <=> k \in Pending(Updating)' /\ job'[k].op = "create"
    BY DEF Pending, Updating
  <2> QED
    BY <2>1, <2>2
<1>2. RowsInv'
  BY <1>1 DEF RestInv, RowsInv
<1> QED
  BY <1>2 DEF RestInv, LastInv

LEMMA OtherStarts ==
  ASSUME RestInv, job \in Seq(Jobs), NEW x \in Jobs, job' = Append(job, x),
         x.op \notin Updating, device' = device, latest' = latest, peak' = peak
  PROVE  RowsInv' /\ LastInv'
<1>1. Pending(Updating)' = Pending(Updating) /\ \A k \in Pending(Updating) : job'[k] = job[k]
  BY Started DEF Pending
<1> QED
  BY <1>1, RowsStay

LEMMA OtherContinues ==
  ASSUME RestInv, job \in Seq(Jobs), NEW j \in DOMAIN job, NEW x \in Jobs,
         job' = [job EXCEPT ![j] = x], job[j].op \notin Updating, x.op \notin Updating,
         device' = device, latest' = latest, peak' = peak
  PROVE  RowsInv' /\ LastInv'
<1>1. Pending(Updating)' = Pending(Updating) /\ \A k \in Pending(Updating) : job'[k] = job[k]
  BY Continued DEF Pending
<1> QED
  BY <1>1, RowsStay

LEMMA OtherEnds ==
  ASSUME RestInv, job \in Seq(Jobs), NEW j \in DOMAIN job, job' = RemoveAt(job, j),
         job[j].op \notin Updating, device' = device, latest' = latest, peak' = peak
  PROVE  RowsInv' /\ LastInv'
<1>1. RowsInv'
  <2>1. /\ Cardinality(Pending(Updating)') <= Cardinality(Pending(Updating))
        /\ Cardinality(Pending({"create"})') <= Cardinality(Pending({"create"}))
    BY EndedCount DEF Updating
  <2>2. \A ops \in {Updating, {"create"}} : Cardinality(Pending(ops)) \in Nat
    BY PendingCount
  <2>3. job' \in Seq(Jobs)
    BY Removed
  <2>4. \A ops \in {Updating, {"create"}} : Cardinality(Pending(ops)') \in Nat
    BY <2>3, PendingCountNext
  <2> QED
    BY <2>1, <2>2, <2>4 DEF RestInv, RowsInv, TypeOK
<1>2. PICK f \in [DOMAIN job' -> DOMAIN job \ {j}] :
           /\ \A l \in DOMAIN job \ {j} : \E k \in DOMAIN job' : f[k] = l
           /\ \A k \in DOMAIN job' : job'[k] = job[f[k]]
  BY Ended
<1>3. Pending(Updating)' = {} => Pending(Updating) = {}
  BY <1>2 DEF Pending
<1>4. \A k \in Pending(Updating)' : f[k] \in Pending(Updating) /\ job'[k] = job[f[k]]
  BY <1>2 DEF Pending
<1> QED
  BY <1>1, <1>3, <1>4 DEF RestInv, LastInv

-----------------------------------------------------------------------------
(* A message handled. *)
LEMMA HandleKeepsRest ==
  ASSUME RestInv, IInv, IInv', NEW c \in Conn, NEW m \in Message, Handle(c, m),
         UNCHANGED <<row, device, tcp, sent, rivals>>
  PROVE  RestInv'
<1>1. /\ job \in Seq(Jobs) /\ session \in [Conn -> Row \cup {NoOne}]
      /\ MaxJobs \in Nat /\ Len(job) \in Nat /\ peak \in Nat
  BY ServerAssumption DEF IInv, Structure, RestInv, TypeOK
<1>2. ASSUME NEW x \in Jobs, Start(x)
      PROVE  job' = Append(job, x) /\ Len(job') <= MaxJobs /\ Len(job) < MaxJobs
  BY <1>1, <1>2, Started DEF Start
<1>3. ASSUME Len(job') <= MaxJobs, latest' \in State \cup {NoOne}, peak' \in 0 .. MaxJobs,
             overlap' \in BOOLEAN
      PROVE  TypeOK'
  BY <1>3 DEF RestInv, TypeOK, IInv, Structure
<1>4. CASE m = "end"
  <2>1. Disconnect(c)
    BY <1>4 DEF Handle
  <2>2. latest' = latest /\ peak' = peak /\ overlap' \in BOOLEAN
    BY <2>1 DEF Disconnect, RestInv, TypeOK
  <2>3. CASE session[c] = NoOne
    <3>1. UNCHANGED <<session, job>> /\ (overlap => overlap')
      BY <2>1, <2>3 DEF Disconnect
    <3>2. \A ops : Pending(ops)' = Pending(ops)
      BY <3>1 DEF Pending
    <3>3. RowsInv' /\ LastInv'
      BY <2>2, <3>1, <3>2, RowsStay
    <3>4. OnlineInv'
      BY <3>1, <3>2, OnlineStays DEF RestInv
    <3>5. TypeOK'
      BY <1>3, <2>2, <3>1 DEF RestInv, TypeOK
    <3> QED
      BY <3>3, <3>4, <3>5 DEF RestInv
  <2>4. CASE session[c] # NoOne
    <3> DEFINE offline == [session[c] EXCEPT !.online = FALSE]
    <3>1. offline \in Row /\ ~offline.online
      BY <1>1, <2>4, RowEdits
    <3> DEFINE call == [op |-> "offline", c |-> c, row |-> offline]
    <3>2. /\ session' = [session EXCEPT ![c] = offline] /\ Start(call)
          /\ overlap' = \/ overlap
                        \/ \E d \in Conn \ {c} : Announced(d)
                        \/ \E j \in Pending(OfRow) : job[j] # call
      BY <2>1, <2>4 DEF Disconnect
    <3>3. call \in Jobs /\ call.op = "offline" /\ call.row = offline
      BY <3>1, Calls
    <3> HIDE DEF call, offline
    <3>4. job' = Append(job, call) /\ Len(job') <= MaxJobs
      BY <1>2, <3>2, <3>3
    <3>5. RowsInv' /\ LastInv'
      BY <1>1, <2>2, <3>3, <3>4, OtherStarts DEF Updating
    <3>6. OnlineInv'
      <4> SUFFICES ASSUME ~overlap' PROVE OnlineInv'
        BY DEF OnlineInv
      <4>0. /\ \A d \in Conn \ {c} : ~Announced(d)
            /\ \A j \in Pending(OfRow) : job[j] = call
        BY <3>2
      <4>1. \A j \in Pending(OfRow)' : job'[j] = call
        <5>1. /\ DOMAIN job' = DOMAIN job \cup {Len(job) + 1} /\ job'[Len(job) + 1] = call
              /\ \A k \in DOMAIN job : job'[k] = job[k]
          BY <1>1, <3>3, <3>4, Started
        <5> QED
          BY <4>0, <5>1 DEF Pending
      <4>2. \A j \in DOMAIN job' : job'[j].op \in OfRow => job'[j] = call
        BY <4>1 DEF Pending
      <4>3. OneHandler'
        BY <3>3, <4>1 DEF OneHandler
      <4>4. Pending({"online"})' = {} /\ Pending({"own"})' = {}
        BY <3>3, <4>2 DEF Pending, OfRow
      <4>5. Pending({"offline"})' # {}
        BY <1>1, <3>3, <3>4, Started
      <4>6. \A d \in Conn : ~Announced(d)'
        BY <1>1, <3>1, <3>2, <4>0 DEF Announced
      <4>7. OfflineSaved'
        BY <3>1, <3>3, <4>2, <4>6 DEF OfflineSaved, Pending, OfRow
      <4> QED
        BY <4>3, <4>4, <4>5, <4>7 DEF OnlineInv, OnlineSaved, OwnSaved, RowIsTrue
    <3>7. TypeOK'
      BY <1>3, <2>2, <3>4 DEF RestInv, TypeOK
    <3> QED
      BY <3>5, <3>6, <3>7 DEF RestInv
  <2> QED
    BY <2>3, <2>4
<1>5. CASE m = "connect"
  <2> DEFINE call == [op |-> "find", c |-> c]
  <2>1. /\ Start(call) /\ UNCHANGED <<session, latest, peak>>
        /\ overlap' = (overlap \/ Pending(OfRow) # {})
    BY <1>5 DEF Handle, Connect
  <2>2. call \in Jobs /\ call.op = "find"
    BY Calls
  <2> HIDE DEF call
  <2>3. job' = Append(job, call) /\ Len(job') <= MaxJobs
    BY <1>2, <2>1, <2>2
  <2>4. RowsInv' /\ LastInv'
    BY <1>1, <2>1, <2>2, <2>3, OtherStarts DEF Updating
  <2>5. OnlineInv'
    BY <1>1, <2>1, <2>2, <2>3, HandlerStarts DEF RestInv
  <2>6. TypeOK'
    BY <1>3, <2>1, <2>3 DEF RestInv, TypeOK
  <2> QED
    BY <2>4, <2>5, <2>6 DEF RestInv
<1>6. CASE m # "end" /\ m # "connect"
  <2>1. m \in State /\ Update(c, m)
    BY <1>6 DEF Handle, Message
  <2>2. CASE session[c] = NoOne
    <3>1. UNCHANGED <<session, job, latest, peak, overlap>>
      BY <2>1, <2>2 DEF Update
    <3>2. \A ops : Pending(ops)' = Pending(ops)
      BY <3>1 DEF Pending
    <3>3. RowsInv' /\ LastInv'
      BY <3>1, <3>2, RowsStay
    <3>4. OnlineInv'
      BY <3>1, <3>2, OnlineStays DEF RestInv
    <3>5. TypeOK'
      BY <1>3, <3>1 DEF RestInv, TypeOK
    <3> QED
      BY <3>3, <3>4, <3>5 DEF RestInv
  <2>3. CASE session[c] # NoOne
    <3> DEFINE call == [op |-> "look", st |-> m]
               now  == Cardinality(Pending(Updating))
    <3>1. /\ Start(call) /\ UNCHANGED <<session, overlap>>
          /\ latest' = m /\ peak' = Max({peak, now + 1})
      BY <2>1, <2>3 DEF Update
    <3>2. call \in Jobs /\ call.op = "look" /\ call.st = m
      BY <2>1, Calls DEF Updating
    <3> HIDE DEF call
    <3>3. job' = Append(job, call) /\ Len(job) < MaxJobs /\ Len(job') <= MaxJobs
      BY <1>2, <3>1, <3>2
    <3>4. now \in Nat /\ now <= Len(job) /\ IsFiniteSet(Pending(Updating))
      BY <1>1, PendingCount
    <3>5. peak' \in {peak, now + 1} /\ peak' >= peak /\ peak' >= now + 1
      BY <1>1, <3>1, <3>4, MaxOfTwo
    <3>6. /\ Pending(Updating)' = Pending(Updating) \cup {Len(job) + 1}
          /\ Len(job) + 1 \notin Pending(Updating)
          /\ Pending({"create"})' = Pending({"create"})
          /\ Pending(OfRow)' = Pending(OfRow)
          /\ job'[Len(job) + 1] = call
          /\ \A k \in DOMAIN job : job'[k] = job[k]
      <4>1. "look" \in Updating /\ "look" \notin {"create"} /\ "look" \notin OfRow
        BY DEF Updating, OfRow, Taking
      <4>2. Len(job) + 1 \notin Pending(Updating)
        BY <1>1, <3>2, <3>3, Started DEF Pending
      <4> QED
        BY <1>1, <3>2, <3>3, <4>1, <4>2, Started
    <3>7. Cardinality(Pending(Updating)') = now + 1
      BY <3>4, <3>6, FS_AddElement
    <3>8. RowsInv'
      <4>1. Cardinality(Pending({"create"})) \in Nat /\ Len(device) \in Nat
        BY <1>1, PendingCount DEF RestInv, TypeOK
      <4>2. device' = device /\ Pending({"create"})' = Pending({"create"})
        BY <3>6
      <4>3. device # <<>> => Len(device) + Cardinality(Pending({"create"})) <= peak'
        BY <1>1, <3>4, <3>5, <4>1 DEF RestInv, RowsInv
      <4> QED
        BY <3>5, <3>7, <4>2, <4>3 DEF RowsInv
    <3>9. LastInv'
      <4> SUFFICES ASSUME peak' = 1 PROVE LastInv'
        BY DEF LastInv
      <4>1. now = 0
        BY <3>4, <3>5
      <4>2. Pending(Updating) = {}
        BY <1>1, <4>1, PendingCount
      <4>3. Pending(Updating)' = {Len(job) + 1}
        BY <3>6, <4>2
      <4> QED
        BY <3>1, <3>2, <3>6, <4>3 DEF LastInv
    <3>10. OnlineInv'
      <4>1. \A k \in Pending(OfRow) : job'[k] = job[k]
        BY <3>6 DEF Pending
      <4> QED
        BY <3>1, <3>6, <4>1, OnlineStays DEF RestInv
    <3>11. TypeOK'
      <4>1. peak' \in 0 .. MaxJobs
        BY <1>1, <3>3, <3>4, <3>5 DEF RestInv, TypeOK
      <4> QED
        BY <1>3, <2>1, <3>1, <3>3, <4>1 DEF RestInv, TypeOK
    <3> QED
      BY <3>8, <3>9, <3>10, <3>11 DEF RestInv
  <2> QED
    BY <2>2, <2>3
<1> QED
  BY <1>4, <1>5, <1>6

LEMMA ChunkKeepsRest ==
  ASSUME RestInv, IInv, IInv', NEW c \in Conn, Chunk(c) PROVE RestInv'
<1>1. UNCHANGED <<row, device, tcp, sent, rivals>>
  BY DEF Chunk
<1>2. Head(wire[c]) \in Message
  BY DEF Chunk, IInv, Structure
<1>3. CASE Handle(c, Head(wire[c]))
  BY <1>1, <1>2, <1>3, HandleKeepsRest
<1>4. CASE UNCHANGED <<session, job, latest, peak, overlap>>
  <2>1. \A ops : Pending(ops)' = Pending(ops)
    BY <1>4 DEF Pending
  <2>2. RowsInv' /\ LastInv'
    BY <1>1, <1>4, <2>1, RowsStay
  <2>3. OnlineInv'
    BY <1>1, <1>4, <2>1, OnlineStays DEF RestInv
  <2>4. TypeOK'
    BY <1>1, <1>4 DEF RestInv, TypeOK, IInv, Structure
  <2> QED
    BY <2>2, <2>3, <2>4 DEF RestInv
<1> QED
  BY <1>3, <1>4 DEF Chunk

(* A user asks for the base. *)
LEMMA AskKeepsRest == ASSUME RestInv, IInv, IInv', NEW u \in User, Ask(u) PROVE RestInv'
<1> DEFINE call == [op |-> "claim", u |-> u]
<1>1. /\ UNCHANGED <<row, device, tcp, sent, session, latest, peak>> /\ Start(call)
      /\ overlap' = (overlap \/ Pending(OfRow) # {})
      /\ rivals' = (rivals \/ Pending(Taking) # {})
  BY DEF Ask, world
<1>2. call \in Jobs /\ call.op = "claim" /\ job \in Seq(Jobs)
  BY Calls DEF IInv, Structure
<1> HIDE DEF call
<1>3. job' = Append(job, call) /\ Len(job') <= MaxJobs
  <2>1. MaxJobs \in Nat /\ Len(job) \in Nat
    BY <1>2, ServerAssumption
  <2> QED
    BY <1>1, <1>2, <2>1, Started DEF Start
<1>4. RowsInv' /\ LastInv'
  BY <1>1, <1>2, <1>3, OtherStarts DEF Updating
<1>5. OnlineInv'
  BY <1>1, <1>2, <1>3, HandlerStarts DEF RestInv
<1>6. TypeOK'
  BY <1>1, <1>3 DEF RestInv, TypeOK, IInv, Structure
<1> QED
  BY <1>4, <1>5, <1>6 DEF RestInv

-----------------------------------------------------------------------------
(* A call of the database returns: to a handler of the row.. *)
LEMMA RowCallKeepsRest ==
  ASSUME RestInv, IInv, IInv', NEW j \in DOMAIN job, Complete(j), job[j].op \in OfRow
  PROVE  RestInv'
<1>1. /\ UNCHANGED <<device, tcp, sent, latest, peak, overlap, rivals>>
      /\ job \in Seq(Jobs) /\ job[j] \in Jobs /\ row \in Row /\ MaxJobs \in Nat
      /\ session \in [Conn -> Row \cup {NoOne}]
      /\ job[j].op \notin Updating
  BY ServerAssumption
  DEF Complete, Claim, Found, Online, Saved, Looked, Written, world, IInv, Structure,
      OfRow, Updating
<1>2. ASSUME Len(job') <= MaxJobs PROVE TypeOK'
  BY <1>1, <1>2 DEF RestInv, TypeOK, IInv, Structure
<1>3. ASSUME job' = RemoveAt(job, j) PROVE RowsInv' /\ LastInv' /\ TypeOK'
  <2>1. Len(job') = Len(job) - 1 /\ Len(job) <= MaxJobs /\ Len(job) \in Nat
    BY <1>1, <1>3, Removed DEF RestInv, TypeOK
  <2> QED
    BY <1>1, <1>2, <1>3, <2>1, OtherEnds
<1>4. ASSUME NEW x \in Jobs, x.op \notin Updating, job' = [job EXCEPT ![j] = x]
      PROVE  RowsInv' /\ LastInv' /\ TypeOK'
  <2>1. Len(job') = Len(job) /\ Len(job) <= MaxJobs
    BY <1>1, <1>4, Continued DEF RestInv, TypeOK
  <2> QED
    BY <1>1, <1>2, <1>4, <2>1, OtherContinues
<1>5. ASSUME OnlineInv, ~overlap, job[j].op # "offline"
      PROVE  (row.online <=> \E c \in Conn : Announced(c))
  BY <1>5, HandlerAlone DEF OnlineInv, RowIsTrue
<1>6. CASE job[j].op = "claim"
  <2> DEFINE r == [row EXCEPT !.owner = job[j].u]
             x == [op |-> "own", row |-> r]
  <2>1. Claim(j)
    BY <1>6 DEF Complete, Claim, Found, Online, Saved, Looked, Written
  <2>2. r \in Row /\ r.online = row.online
    BY <1>1, <1>6, CallShape, RowEdits DEF Row
  <2>3. x \in Jobs /\ x.op = "own" /\ x.row = r
    BY <2>2, Calls
  <2>4. /\ job' = RemoveAt(job, j) \/ job' = [job EXCEPT ![j] = x]
        /\ row' = row /\ session' = session
    BY <2>1 DEF Claim
  <2> HIDE DEF x, r
  <2>5. CASE job' = RemoveAt(job, j)
    <3>1. \A c \in Conn : Announced(c)' <=> Announced(c)
      BY <2>4 DEF Announced
    <3>2. OnlineInv'
      BY <1>1, <1>5, <1>6, <2>4, <2>5, <3>1, AloneEnds DEF RestInv
    <3> QED
      BY <1>3, <2>5, <3>2 DEF RestInv
  <2>6. CASE job' = [job EXCEPT ![j] = x]
    <3>1. OnlineInv'
      BY <1>1, <1>6, <2>2, <2>3, <2>4, <2>6, AloneContinues DEF RestInv, OfRow, Taking
    <3> QED
      BY <1>4, <2>3, <2>6, <3>1 DEF RestInv, Updating
  <2> QED
    BY <2>4, <2>5, <2>6
<1>7. CASE job[j].op = "find"
  <2> DEFINE r == [row EXCEPT !.online = TRUE]
             x == [op |-> "online", c |-> job[j].c, row |-> r]
  <2>1. Found(j)
    BY <1>7 DEF Complete, Claim, Found, Online, Saved, Looked, Written
  <2>2. r \in Row /\ r.online
    BY <1>1, RowEdits
  <2>3. x \in Jobs /\ x.op = "online" /\ x.row = r
    BY <1>1, <1>7, <2>2, CallShape, Calls
  <2>4. job' = [job EXCEPT ![j] = x] /\ row' = row /\ session' = session
    BY <2>1 DEF Found
  <2> HIDE DEF x, r
  <2>5. OnlineInv'
    BY <1>1, <1>7, <2>2, <2>3, <2>4, AloneContinues DEF RestInv, OfRow
  <2> QED
    BY <1>4, <2>3, <2>4, <2>5 DEF RestInv, Updating
<1>8. CASE job[j].op \in {"online", "own"}
  <2>1. /\ job' = RemoveAt(job, j) /\ Save(job[j].row) /\ job[j].row \in Row
        /\ IF job[j].op = "online" THEN session' = [session EXCEPT ![job[j].c] = job[j].row]
                                   ELSE session' = session
        /\ job[j].op = "online" => job[j].c \in Conn
    BY <1>1, <1>8, CallShape DEF Complete, Claim, Found, Online, Saved, Looked, Written
  <2>2. row'.online = job[j].row.online
    BY <1>1, <2>1, RowEdits DEF Save, Row
  <2>3. ASSUME OnlineInv, ~overlap PROVE row'.online <=> \E c \in Conn : Announced(c)'
    <3>1. j \in Pending({job[j].op})
      BY DEF Pending
    <3>2. CASE job[j].op = "online"
      <4>1. job[j].row.online
        BY <2>3, <3>1, <3>2 DEF OnlineInv, OnlineSaved
      <4>2. PICK c \in Conn : session'[c] = job[j].row /\ job[j].row # NoOne
        BY <1>1, <2>1, <3>2, ServerAssumption DEF Row
      <4>3. row'.online
        BY <2>2, <4>1
      <4>4. Announced(c)'
        BY <4>1, <4>2 DEF Announced
      <4> QED
        BY <4>3, <4>4
    <3>3. CASE job[j].op = "own"
      <4>1. job[j].row.online = row.online
        BY <2>3, <3>1, <3>3 DEF OnlineInv, OwnSaved
      <4>2. \A c \in Conn : Announced(c)' <=> Announced(c)
        BY <2>1, <3>3 DEF Announced
      <4> QED
        BY <1>5, <2>2, <2>3, <3>3, <4>1, <4>2
    <3> QED
      BY <1>8, <3>2, <3>3
  <2>4. OnlineInv'
    BY <1>1, <1>8, <2>1, <2>3, AloneEnds DEF RestInv
  <2> QED
    BY <1>3, <2>1, <2>4 DEF RestInv
<1>9. CASE job[j].op = "offline"
  <2>1. /\ job' = RemoveAt(job, j) /\ Save(job[j].row) /\ job[j].row \in Row
        /\ session' = session
    BY <1>1, <1>9, CallShape DEF Complete, Claim, Found, Online, Saved, Looked, Written
  <2>2. row'.online = job[j].row.online
    BY <1>1, <2>1, RowEdits DEF Save, Row
  <2>3. OnlineInv'
    <3> SUFFICES ASSUME ~overlap' PROVE OnlineInv'
      BY DEF OnlineInv
    <3>1. j \in Pending({"offline"}) /\ j \in Pending(OfRow)
      BY <1>9 DEF Pending
    <3>2. OneHandler /\ ~job[j].row.online /\ \A c \in Conn : ~Announced(c)
      BY <1>1, <3>1 DEF RestInv, OnlineInv, OfflineSaved
    <3>3. \A k \in Pending(OfRow) : job[k] = job[j]
      BY <3>1, <3>2 DEF OneHandler
    <3>4. \A k \in Pending(OfRow)' : job'[k] = job[j]
      <4>1. PICK f \in [DOMAIN job' -> DOMAIN job \ {j}] : \A k \in DOMAIN job' : job'[k] = job[f[k]]
        BY <1>1, <2>1, Ended
      <4> QED
        BY <3>3, <4>1 DEF Pending
    <3>5. \A c \in Conn : ~Announced(c)'
      BY <2>1, <3>2 DEF Announced
    <3>6. OneHandler'
      BY <1>9, <3>4 DEF OneHandler
    <3>7. Pending({"online"})' = {} /\ Pending({"own"})' = {}
      BY <1>9, <3>4 DEF Pending, OfRow
    <3>8. \A k \in Pending({"offline"})' : job'[k] = job[j]
      BY <3>4 DEF Pending, OfRow
    <3>9. OfflineSaved'
      BY <3>2, <3>5, <3>8 DEF OfflineSaved
    <3>10. RowIsTrue'
      BY <2>2, <3>2, <3>5 DEF RowIsTrue
    <3> QED
      BY <3>6, <3>7, <3>9, <3>10 DEF OnlineInv, OnlineSaved, OwnSaved
  <2> QED
    BY <1>3, <2>1, <2>3 DEF RestInv
<1> QED
  BY <1>6, <1>7, <1>8, <1>9 DEF OfRow

(* Sequences of one element. *)
LEMMA OnlyElement ==
  ASSUME NEW S, NEW s \in Seq(S), s # <<>>, Len(s) <= 1
  PROVE  Len(s) = 1 /\ s = <<Head(s)>>
<1>1. Len(s) \in Nat \ {0}
  BY EmptySeq
<1>2. Len(s) = 1 /\ Head(s) = s[1]
  BY <1>1
<1> QED
  BY <1>2

LEMMA FirstChanged ==
  ASSUME NEW S, NEW s \in Seq(S), NEW x \in S
  PROVE  /\ [s EXCEPT ![1] = x] \in Seq(S)
         /\ Len([s EXCEPT ![1] = x]) = Len(s)
         /\ [s EXCEPT ![1] = x] = <<>> <=> s = <<>>
         /\ Len(s) = 1 => [s EXCEPT ![1] = x] = <<x>>
<1> DEFINE t == [s EXCEPT ![1] = x]
<1>1. s \in [1 .. Len(s) -> S] /\ Len(s) \in Nat
  OBVIOUS
<1>2. t \in [1 .. Len(s) -> S]
  BY <1>1
<1>3. t \in Seq(S) /\ Len(t) = Len(s)
  BY <1>1, <1>2, SeqDef, LenProperties
<1>4. t = <<>> <=> s = <<>>
  BY <1>1, <1>3, EmptySeq
<1>5. Len(s) = 1 => t[1] = x
  BY <1>1
<1> HIDE DEF t
<1>6. Len(s) = 1 => t = <<x>>
  BY <1>3, <1>5
<1> QED
  BY <1>3, <1>4, <1>6 DEF t

(* ..or to the handler of an update. *)
LEMMA UpdateCallKeepsRest ==
  ASSUME RestInv, IInv, IInv', NEW j \in DOMAIN job, Complete(j), job[j].op \in Updating
  PROVE  RestInv'
<1>1. /\ UNCHANGED <<row, session, tcp, sent, latest, peak, overlap, rivals>>
      /\ job \in Seq(Jobs) /\ job[j] \in [op : Updating, st : State]
      /\ device \in Seq(State) /\ Len(job) <= MaxJobs /\ Len(job) \in Nat
      /\ peak \in Nat /\ MaxJobs \in Nat /\ job' \in Seq(Jobs)
      /\ Looked(j) \/ Written(j)
  <2>1. (Looked(j) \/ Written(j)) /\ UNCHANGED <<world, latest, peak, overlap, rivals>>
    BY DEF Complete, Claim, Found, Online, Saved, Updating
  <2>2. UNCHANGED <<row, session>>
    BY <2>1 DEF Looked, Written
  <2>3. job \in Seq(Jobs) /\ job' \in Seq(Jobs)
    BY DEF IInv, Structure
  <2>4. /\ device \in Seq(State) /\ Len(job) <= MaxJobs /\ Len(job) \in Nat
        /\ peak \in Nat /\ MaxJobs \in Nat
    BY <2>3, ServerAssumption DEF RestInv, TypeOK
  <2>5. job[j] \in [op : Updating, st : State]
    BY <2>3, CallShape
  <2> QED
    BY <2>1, <2>2, <2>3, <2>4, <2>5 DEF world
<1>2. ASSUME Len(job') <= MaxJobs, device' \in Seq(State) PROVE TypeOK'
  BY <1>1, <1>2 DEF RestInv, TypeOK, IInv, Structure
<1> DEFINE n(ops) == Cardinality(Pending(ops))
<1>3. \A ops : n(ops) \in Nat /\ n(ops)' \in Nat
  BY <1>1, PendingCount, PendingCountNext
<1>4. \A ops : n(ops) = 0 => Pending(ops) = {}
  BY <1>1, PendingCount
<1>5. j \in Pending(Updating)
  BY DEF Pending
<1>6. n({"create"}) <= n(Updating)
  <2>1. Pending({"create"}) \in SUBSET Pending(Updating)
    BY DEF Pending, Updating
  <2>2. IsFiniteSet(Pending(Updating))
    BY <1>1, PendingCount
  <2> QED
    BY <2>1, <2>2, FS_Subset
<1>7. n(Updating) # 0
  BY <1>4, <1>5
<1>8. ASSUME job' = RemoveAt(job, j)
      PROVE  /\ Len(job') <= MaxJobs /\ OnlineInv'
             /\ n(Updating)' <= n(Updating) - 1
             /\ n({"create"})' <= n({"create"})
             /\ job[j].op = "create" => n({"create"})' <= n({"create"}) - 1
             /\ peak = 1 => Pending(Updating) = {j} /\ Pending(Updating)' = {}
  <2>1. Len(job') <= MaxJobs
    <3>1. Len(job') = Len(job) - 1
      BY <1>1, <1>8, Removed
    <3> QED
      BY <1>1, <3>1
  <2>2. OnlineInv'
    BY <1>1, <1>8, UpdateEnds DEF RestInv
  <2>3. n(Updating)' <= n(Updating) - 1
    BY <1>1, <1>8, EndedCount
  <2>4. n({"create"})' <= IF job[j].op \in {"create"} THEN n({"create"}) - 1 ELSE n({"create"})
    BY <1>1, <1>8, EndedCount
  <2>5. n({"create"})' <= n({"create"})
    BY <1>3, <2>4
  <2>6. ASSUME peak = 1 PROVE Pending(Updating) = {j} /\ Pending(Updating)' = {}
    <3>1. n(Updating) <= 1
      BY <2>6 DEF RestInv, RowsInv
    <3>2. n(Updating)' = 0
      BY <1>3, <2>3, <3>1
    <3>3. Pending(Updating)' = {}
      BY <1>1, <3>2, PendingCountNext
    <3>4. IsFiniteSet(Pending(Updating)) /\ Cardinality(Pending(Updating) \ {j}) = n(Updating) - 1
      BY <1>1, <1>5, PendingCount, FS_RemoveElement
    <3>5. Pending(Updating) \ {j} = {}
      <4>1. Cardinality(Pending(Updating) \ {j}) = 0
        BY <1>3, <1>7, <3>1, <3>4
      <4>2. Pending(Updating) \ {j} \in SUBSET DOMAIN job
        BY DEF Pending
      <4> QED
        BY <1>1, <4>1, <4>2, SomeIndices
    <3> QED
      BY <1>5, <3>3, <3>5
  <2> QED
    BY <2>1, <2>2, <2>3, <2>4, <2>5, <2>6
<1>9. peak = 1 => Len(device) <= 1
  BY <1>1, <1>3 DEF RestInv, RowsInv
<1> HIDE DEF n
<1>10. CASE Looked(j)
  <2>1. job[j].op = "look" /\ device' = device
    BY <1>10 DEF Looked
  <2>2. \/ job' = RemoveAt(job, j) /\ device # <<>> /\ Head(device) = job[j].st
        \/ device = <<>> /\ job' = [job EXCEPT ![j].op = "create"]
        \/ device # <<>> /\ job' = [job EXCEPT ![j].op = "change"]
    BY <1>10 DEF Looked
  <2>3. CASE job' = RemoveAt(job, j) /\ device # <<>> /\ Head(device) = job[j].st
    <3>1. RowsInv'
      BY <1>1, <1>3, <1>8, <2>1, <2>3 DEF RestInv, RowsInv, n
    <3>2. LastInv'
      <4> SUFFICES ASSUME peak = 1 PROVE Pending(Updating)' = {} /\ device' = <<latest'>>
        BY <1>1 DEF LastInv
      <4>1. job[j].st = latest
        BY <1>5 DEF RestInv, LastInv
      <4>2. device = <<Head(device)>>
        BY <1>1, <1>9, <2>3, OnlyElement
      <4>3. Pending(Updating)' = {} /\ latest' = latest
        BY <1>1, <1>8, <2>3
      <4> QED
        BY <2>1, <2>3, <4>1, <4>2, <4>3
    <3> QED
      BY <1>1, <1>2, <1>8, <2>1, <2>3, <3>1, <3>2 DEF RestInv
  <2>4. ASSUME NEW op \in {"create", "change"}, job' = [job EXCEPT ![j].op = op],
               op = "create" <=> device = <<>>
        PROVE  RestInv'
    <3> DEFINE x == [op |-> op, st |-> job[j].st]
    <3>1. x \in Jobs /\ x.op = op /\ x.st = job[j].st
      BY <1>1, Calls DEF Updating
    <3>2. job' = [job EXCEPT ![j] = x]
      <4>1. [job[j] EXCEPT !.op = op] = x
        BY <1>1
      <4> QED
        BY <2>4, <4>1
    <3> HIDE DEF x
    <3>3. /\ Len(job') = Len(job) /\ job'[j] = x
          /\ \A k \in DOMAIN job : k # j => job'[k] = job[k]
          /\ Pending(Updating)' = Pending(Updating) \cup {j}
          /\ Pending(OfRow)' = Pending(OfRow) \ {j}
          /\ op # "create" => Pending({"create"})' = Pending({"create"}) \ {j}
      <4>1. op \in Updating /\ op \notin OfRow
        BY DEF Updating, OfRow, Taking
      <4> QED
        BY <1>1, <3>1, <3>2, <4>1, Continued
    <3>4. Pending(Updating)' = Pending(Updating)
      BY <1>5, <3>3
    <3>5. RowsInv'
      <4>1. op # "create" => Pending({"create"})' = Pending({"create"})
        BY <2>1, <3>3 DEF Pending
      <4> QED
        BY <1>1, <2>1, <2>4, <3>4, <4>1 DEF RestInv, RowsInv
    <3>6. LastInv'
      <4> SUFFICES ASSUME peak = 1 PROVE LastInv'
        BY <1>1 DEF LastInv
      <4>1. \A k \in Pending(Updating) : /\ job[k].st = latest
                                         /\ job[k].op = "create" => device = <<>>
                                         /\ job[k].op = "change" => device # <<>>
        BY DEF RestInv, LastInv
      <4>2. \A k \in Pending(Updating)' : k \in DOMAIN job
        BY <3>4 DEF Pending
      <4> QED
        BY <1>1, <1>5, <2>1, <2>4, <3>1, <3>3, <3>4, <4>1, <4>2 DEF LastInv
    <3>7. OnlineInv'
      <4>1. j \notin Pending(OfRow)
        BY <2>1 DEF Pending, OfRow, Taking
      <4>2. \A k \in Pending(OfRow) : job'[k] = job[k]
        BY <3>3, <4>1 DEF Pending
      <4> QED
        BY <1>1, <3>3, <4>1, <4>2, OnlineStays DEF RestInv
    <3>8. TypeOK'
      BY <1>1, <1>2, <2>1, <3>3
    <3> QED
      BY <3>5, <3>6, <3>7, <3>8 DEF RestInv
  <2> QED
    BY <2>2, <2>3, <2>4
<1>11. CASE Written(j)
  <2>1. job' = RemoveAt(job, j) /\ job[j].st \in State
    BY <1>1, <1>11 DEF Written
  <2>2. CASE job[j].op = "create"
    <3>1. /\ device' = Append(device, job[j].st) /\ device' # <<>>
          /\ device' \in Seq(State) /\ Len(device') = Len(device) + 1 /\ Len(device) \in Nat
      BY <1>1, <1>11, <2>1, <2>2 DEF Written
    <3>2. RowsInv'
      <4>1. n(Updating)' <= peak
        BY <1>1, <1>3, <1>8, <2>1 DEF RestInv, RowsInv, n
      <4>2. CASE device = <<>>
        <5>1. Len(device) = 0 /\ n(Updating) <= peak
          BY <4>2 DEF RestInv, RowsInv, n
        <5>2. Len(device') + n({"create"})' <= peak
          BY <1>1, <1>3, <1>6, <1>8, <2>1, <2>2, <3>1, <5>1
        <5> QED
          BY <1>1, <4>1, <5>2 DEF RowsInv, n
      <4>3. CASE device # <<>>
        <5>1. Len(device) + n({"create"}) <= peak
          BY <4>3 DEF RestInv, RowsInv, n
        <5>2. Len(device') + n({"create"})' <= peak
          BY <1>1, <1>3, <1>8, <2>1, <2>2, <3>1, <5>1
        <5> QED
          BY <1>1, <4>1, <5>2 DEF RowsInv, n
      <4> QED
        BY <4>2, <4>3
    <3>3. LastInv'
      <4> SUFFICES ASSUME peak = 1 PROVE Pending(Updating)' = {} /\ device' = <<latest'>>
        BY <1>1 DEF LastInv
      <4>1. job[j].st = latest /\ device = <<>>
        BY <1>5, <2>2 DEF RestInv, LastInv
      <4> QED
        BY <1>1, <1>8, <2>1, <3>1, <4>1
    <3> QED
      BY <1>2, <1>8, <2>1, <3>1, <3>2, <3>3 DEF RestInv
  <2>3. CASE job[j].op # "create"
    <3>1. device' = [device EXCEPT ![1] = job[j].st] /\ job[j].op = "change"
      BY <1>11, <2>3 DEF Written
    <3>2. device' \in Seq(State) /\ Len(device') = Len(device) /\ (device' = <<>> <=> device = <<>>)
      BY <1>1, <2>1, <3>1, FirstChanged
    <3>3. RowsInv'
      <4>1. n(Updating)' <= peak /\ n({"create"})' <= n({"create"})
        BY <1>1, <1>3, <1>8, <2>1 DEF RestInv, RowsInv, n
      <4>2. device' # <<>> => Len(device') + n({"create"})' <= peak
        <5>1. device # <<>> => Len(device) + n({"create"}) <= peak
          BY DEF RestInv, RowsInv, n
        <5> QED
          BY <1>1, <1>3, <3>2, <4>1, <5>1
      <4> QED
        BY <1>1, <4>1, <4>2 DEF RowsInv, n
    <3>4. LastInv'
      <4> SUFFICES ASSUME peak = 1 PROVE Pending(Updating)' = {} /\ device' = <<latest'>>
        BY <1>1 DEF LastInv
      <4>1. job[j].st = latest /\ device # <<>>
        BY <1>5, <3>1 DEF RestInv, LastInv
      <4>2. Len(device) = 1
        BY <1>1, <1>9, <4>1, OnlyElement
      <4>3. device' = <<latest>>
        BY <1>1, <2>1, <3>1, <4>1, <4>2, FirstChanged
      <4> QED
        BY <1>1, <1>8, <2>1, <4>3
    <3> QED
      BY <1>2, <1>8, <2>1, <3>2, <3>3, <3>4 DEF RestInv
  <2> QED
    BY <2>2, <2>3
<1> QED
  BY <1>1, <1>10, <1>11

-----------------------------------------------------------------------------
LEMMA RestPreserved == RestInv /\ IInv /\ IInv' /\ [Next]_vars => RestInv'
<1> SUFFICES ASSUME RestInv, IInv, IInv', [Next]_vars PROVE RestInv'
  OBVIOUS
<1>1. ASSUME NEW j \in DOMAIN job, Complete(j) PROVE RestInv'
  <2>1. job[j].op \in OfRow \cup Updating
    BY <1>1 DEF Complete, Claim, Found, Online, Saved, Looked, Written, OfRow, Updating
  <2> QED
    BY <1>1, <2>1, RowCallKeepsRest, UpdateCallKeepsRest
<1>2. ASSUME NEW c \in Conn, Open(c) \/ Close(c) \/ \E st \in State : Send(c, st)
      PROVE  RestInv'
  BY <1>2, BaseKeepsRest
<1>3. CASE UNCHANGED vars
  BY <1>3, BaseKeepsRest
<1> QED
  BY <1>1, <1>2, <1>3, AskKeepsRest, ChunkKeepsRest DEF Next

LEMMA RestInvariant == Spec => []RestInv
<1>1. RestInv /\ [](IInv) /\ [][Next]_vars => []RestInv
  BY RestPreserved, PTL
<1> QED
  BY <1>1, RestInitially, Invariant, PTL DEF Spec

(* The rows, the sessions and the calls in progress keep their ranges, for any
   numbers of connections, users, states and calls. *)
THEOREM TypeCorrect == Spec => []TypeOK
<1>1. RestInv => TypeOK
  BY DEF RestInv
<1> QED
  BY <1>1, RestInvariant, PTL

(* A device never has more rows than updates were once handled at the same
   time, whatever the database's order: one row, as the code means it, if they
   never were two (sockets.js:88-102). *)
THEOREM RowsBounded == Spec => []RowsNeedOverlap
<1>1. RestInv => RowsNeedOverlap
  <2> SUFFICES ASSUME RestInv PROVE Len(device) <= peak
    BY DEF RowsNeedOverlap
  <2>1. job \in Seq(Jobs) /\ device \in Seq(State) /\ peak \in Nat
    BY ServerAssumption DEF RestInv, TypeOK
  <2>2. Cardinality(Pending({"create"})) \in Nat /\ Len(device) \in Nat
    BY <2>1, PendingCount
  <2>3. device = <<>> => Len(device) = 0
    OBVIOUS
  <2> QED
    BY <2>1, <2>2, <2>3 DEF RestInv, RowsInv
<1> QED
  BY <1>1, RestInvariant, PTL

(* Updates that come one at a time leave one row with the state of the last,
   for any number of them (sockets.js:83-115). *)
THEOREM LastStateIsKept == Spec => []LastStateKept
<1>1. RestInv => LastStateKept
  BY DEF RestInv, LastInv, LastStateKept
<1> QED
  BY <1>1, RestInvariant, PTL

(* The base is shown online exactly while it has a connection that announced
   itself and has not ended, for any number of reconnections, as long as the
   handlers of its row do not overlap (sockets.js:31-81). *)
THEOREM ShownOnlineTruly == Spec => []OnlineIsTrue
<1>1. RestInv => OnlineIsTrue
  <2> SUFFICES ASSUME RestInv, Pending(OfRow) = {}, ~overlap
               PROVE  row.online <=> \E c \in Conn : Announced(c)
    BY DEF OnlineIsTrue
  <2>1. Pending({"offline"}) = {}
    BY DEF Pending, OfRow
  <2> QED
    BY <2>1 DEF RestInv, OnlineInv, RowIsTrue
<1> QED
  BY <1>1, RestInvariant, PTL
=============================================================================
