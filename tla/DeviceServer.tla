----------------------------- MODULE DeviceServer -----------------------------
(***************************************************************************)
(* The server's side of one base: the bridge from TCP to web sockets,      *)
(* SI/eProtectFinal/bridge.js, the socket handlers of config/sockets.js    *)
(* and the action by which a user takes a base (UserController.connect).   *)
(*                                                                         *)
(* Every call of the database is asynchronous.  A job is a handler waiting *)
(* for one; jobs complete in any order, and a row saved is the row as it   *)
(* was read, with the handler's change.  The web socket between bridge and *)
(* server is reliable and ordered and belongs to one TCP connection, so    *)
(* that a chunk is handled where it is received.  An attribute the row     *)
(* read does not have (the owner of a free base) is not written.           *)
(***************************************************************************)
EXTENDS Naturals, Sequences, FiniteSets, FiniteSetsExt, SequencesExt

CONSTANTS
  MaxConn,   \* TCP connections of the base, one after the other (bound)
  User, State,
  NoOne,     \* no owner, no session, no state
  MaxJobs,   \* calls of the database in progress at once (bound)
  MaxSent    \* updates the base sends in all (bound)

ASSUME ServerAssumption ==
  /\ NoOne \notin User \cup State \cup [owner : User \cup {NoOne}, online : BOOLEAN]
  /\ {MaxConn, MaxJobs, MaxSent} \subseteq Nat

VARIABLES
  row,      \* the Sigfox row
  device,   \* the state of each Device row made for the one sensor
  tcp,      \* of a connection: "idle", "open" or "closed"
  wire,     \* messages the base has sent that the bridge has not read
  sent,     \* number of updates sent so far
  session,  \* session.sigfox: the row as the handlers of a connection hold it
  job,      \* the calls of the database in progress, oldest first
  latest,   \* history: the state in the last update handled
  peak,     \* history: the largest number of updates in progress at once
  overlap,  \* history: two handlers of the Sigfox row ran at once, or a
            \* connection's end came after the next one's announcement
  rivals    \* history: two users asked for the base at once

Conn == 1 .. MaxConn

world  == <<tcp, wire, sent>>
vars   == <<row, device, world, session, job, latest, peak, overlap, rivals>>

Row     == [owner : User \cup {NoOne}, online : BOOLEAN]
Message == {"connect", "end"} \cup State

Jobs ==
  [op : {"find"}, c : Conn]
         \cup [op : {"online"}, c : Conn, row : Row]
         \cup [op : {"offline"}, c : Conn, row : Row]
         \cup [op : {"look", "create", "change"}, st : State]
         \cup [op : {"claim"}, u : User]
         \cup [op : {"own"}, row : Row]

TypeOK ==
  /\ row \in Row
  /\ device \in Seq(State)
  /\ tcp \in [Conn -> {"idle", "open", "closed"}]
  /\ wire \in [Conn -> Seq(Message)]
  /\ sent \in 0 .. MaxSent
  /\ session \in [Conn -> Row \cup {NoOne}]
  /\ job \in Seq(Jobs) /\ Len(job) <= MaxJobs
  /\ latest \in State \cup {NoOne}
  /\ peak \in 0 .. MaxJobs
  /\ overlap \in BOOLEAN /\ rivals \in BOOLEAN

Init ==
  /\ row = [owner |-> NoOne, online |-> FALSE]
  /\ device = <<>>
  /\ tcp = [c \in Conn |-> "idle"]
  /\ wire = [c \in Conn |-> <<>>]
  /\ sent = 0
  /\ session = [c \in Conn |-> NoOne]
  /\ job = <<>>
  /\ latest = NoOne
  /\ peak = 0
  /\ overlap = FALSE /\ rivals = FALSE

-----------------------------------------------------------------------------
(* The base: connects when it has no connection, says so at once, then sends
   updates; it closes the connection when it misses a PONG.  When its power or
   network fails it closes nothing: the bridge keeps the old connection.  (A
   connection that is reset is not modelled: the bridge has no listener for
   its error, and may stop with all its connections.) *)
Open(c) ==
  /\ tcp[c] = "idle" /\ (c > 1 => tcp[c - 1] # "idle")
  /\ tcp' = [tcp EXCEPT ![c] = "open"]
  /\ wire' = [wire EXCEPT ![c] = <<"connect">>]
  /\ UNCHANGED <<row, device, sent, session, job, latest, peak, overlap, rivals>>

Current(c) == tcp[c] = "open" /\ (c < MaxConn => tcp[c + 1] = "idle")

Send(c, st) ==
  /\ Current(c) /\ sent < MaxSent
  /\ wire' = [wire EXCEPT ![c] = Append(@, st)]
  /\ sent' = sent + 1
  /\ UNCHANGED <<row, device, tcp, session, job, latest, peak, overlap, rivals>>

Close(c) ==
  /\ Current(c)
  /\ tcp' = [tcp EXCEPT ![c] = "closed"]
  /\ wire' = [wire EXCEPT ![c] = @ \o <<"end", "end">>]
  /\ UNCHANGED <<row, device, sent, session, job, latest, peak, overlap, rivals>>

-----------------------------------------------------------------------------
Pending(op) == {j \in DOMAIN job : job[j].op \in op}
Updating == {"look", "create", "change"}
Taking   == {"claim", "own"}
OfRow    == {"find", "online", "offline"} \cup Taking

(* A handler calls the database; the bound lets it only when there is room. *)
Start(call) ==
  /\ Len(job) < MaxJobs
  /\ job' = Append(job, call)

Announced(c) == session[c] # NoOne /\ session[c].online

(* Slip: the session is ended, the row not saved. *)
DisconnectUnsaved(c) ==
  /\ session' = [session EXCEPT ![c] = NoOne]
  /\ UNCHANGED <<job, latest, peak, overlap>>

(* The handlers of one message.  The end comes twice: the bridge sends it as
   an event, and then disconnects.  Without a session all but connect do
   nothing; the handlers of lock and unlock are empty. *)
Disconnect(c) ==
  IF session[c] = NoOne
  THEN /\ overlap' = (overlap \/ \E j \in Pending({"find", "online"}) : job[j].c = c)
       /\ UNCHANGED <<session, job, latest, peak>>
  ELSE LET offline == [session[c] EXCEPT !.online = FALSE] IN
       /\ session' = [session EXCEPT ![c] = offline]
       /\ Start([op |-> "offline", c |-> c, row |-> offline])
       /\ overlap' = \/ overlap
                     \/ \E d \in Conn \ {c} : Announced(d)
                     \/ \E j \in Pending(OfRow) :
                          job[j] # [op |-> "offline", c |-> c, row |-> offline]
       /\ UNCHANGED <<latest, peak>>

Connect(c) ==
  /\ Start([op |-> "find", c |-> c])
  /\ overlap' = (overlap \/ Pending(OfRow) # {})
  /\ UNCHANGED <<session, latest, peak>>

Update(c, st) ==
  IF session[c] = NoOne THEN UNCHANGED <<session, job, latest, peak, overlap>>
  ELSE /\ Start([op |-> "look", st |-> st])
       /\ latest' = st
       /\ peak' = Max({peak, Cardinality(Pending(Updating)) + 1})
       /\ UNCHANGED <<session, overlap>>

(* The bridge parses a chunk as one message and emits its event. *)
Handle(c, m) ==
  CASE m = "end"     -> Disconnect(c)
    [] m = "connect" -> Connect(c)
    [] OTHER         -> Update(c, m)

(* TCP delivers a message by itself, with others behind it, or in pieces:
   what is not by itself does not parse, and is dropped.  So is what comes
   behind a PING. *)
Chunk(c) ==
  /\ wire[c] # <<>>
  /\ \/ /\ wire' = [wire EXCEPT ![c] = Tail(@)]
        /\ Handle(c, Head(wire[c]))
     \/ /\ Head(wire[c]) # "end"
        /\ wire' = [wire EXCEPT ![c] = Tail(@)]
        /\ UNCHANGED <<session, job, latest, peak, overlap>>
  /\ UNCHANGED <<row, device, tcp, sent, rivals>>

-----------------------------------------------------------------------------
(* save() and update() write the row read over whatever is there. *)
Save(r) ==
  row' = [r EXCEPT !.owner = IF @ = NoOne THEN row.owner ELSE @]

(* Slips: the owner found is not looked at; the user is stored, not the id. *)
ClaimAlways(j) ==
  /\ job[j].op = "claim"
  /\ job' = [job EXCEPT ![j] = [op |-> "own", row |-> [row EXCEPT !.owner = job[j].u]]]
  /\ UNCHANGED <<row, device, session>>

ClaimForUser(j) ==
  /\ job[j].op = "claim"
  /\ job' = IF row.owner # NoOne THEN RemoveAt(job, j)
             ELSE [job EXCEPT ![j] = [op |-> "own", row |-> [row EXCEPT !.owner = <<job[j].u>>]]]
  /\ UNCHANGED <<row, device, session>>

(* UserController.connect, when the base has been found. *)
Claim(j) ==
  /\ job[j].op = "claim"
  /\ job' = IF row.owner # NoOne THEN RemoveAt(job, j)
             ELSE [job EXCEPT ![j] = [op |-> "own", row |-> [row EXCEPT !.owner = job[j].u]]]
  /\ UNCHANGED <<row, device, session>>

(* connect: the base has been found, and goes online.. *)
Found(j) ==
  /\ job[j].op = "find"
  /\ job' = [job EXCEPT ![j] =
       [op |-> "online", c |-> job[j].c, row |-> [row EXCEPT !.online = TRUE]]]
  /\ UNCHANGED <<row, device, session>>

(* ..and only when that is saved is there a session, of the row as it was read (sockets.js:70). *)
Online(j) ==
  /\ job[j].op = "online"
  /\ Save(job[j].row)
  /\ session' = [session EXCEPT ![job[j].c] = job[j].row]
  /\ job' = RemoveAt(job, j)
  /\ UNCHANGED device

(* disconnect and UserController.connect: the row has been saved. *)
Saved(j) ==
  /\ job[j].op \in {"offline", "own"}
  /\ Save(job[j].row)
  /\ job' = RemoveAt(job, j)
  /\ UNCHANGED <<device, session>>

(* Slips: the device found is not looked at; only an unchanged state is saved. *)
LookedBlindly(j) ==
  /\ job[j].op = "look"
  /\ job' = [job EXCEPT ![j] = [op |-> "create", st |-> job[j].st]]
  /\ UNCHANGED <<row, device, session>>

LookedInverted(j) ==
  /\ job[j].op = "look"
  /\ job' = IF device = <<>> THEN [job EXCEPT ![j].op = "create"]
             ELSE IF Head(device) = job[j].st THEN [job EXCEPT ![j].op = "change"]
             ELSE RemoveAt(job, j)
  /\ UNCHANGED <<row, device, session>>

(* update: findOne() has returned no device, or the first. *)
Looked(j) ==
  /\ job[j].op = "look"
  /\ job' = IF device = <<>> THEN [job EXCEPT ![j].op = "create"]
             ELSE IF Head(device) # job[j].st THEN [job EXCEPT ![j].op = "change"]
             ELSE RemoveAt(job, j)
  /\ UNCHANGED <<row, device, session>>

(* update: the device has been created or changed. *)
Written(j) ==
  /\ job[j].op \in {"create", "change"}
  /\ device' = IF job[j].op = "create" THEN Append(device, job[j].st)
               ELSE [device EXCEPT ![1] = job[j].st]
  /\ job' = RemoveAt(job, j)
  /\ UNCHANGED <<row, session>>

Complete(j) ==
  /\ Claim(j) \/ Found(j) \/ Online(j) \/ Saved(j) \/ Looked(j) \/ Written(j)
  /\ UNCHANGED <<world, latest, peak, overlap, rivals>>

(* A user who does not have the base asks for it, by its number; the model
   asks no more once two have asked at once (bound). *)
Ask(u) ==
  /\ ~rivals /\ row.owner # u /\ \A j \in Pending({"claim"}) : job[j].u # u
  /\ Start([op |-> "claim", u |-> u])
  /\ overlap' = (overlap \/ Pending(OfRow) # {})
  /\ rivals' = (rivals \/ Pending(Taking) # {})
  /\ UNCHANGED <<row, device, world, session, latest, peak>>

Next ==
  \/ \E j \in DOMAIN job : Complete(j)
  \/ \E u \in User : Ask(u)
  \/ \E c \in Conn : Open(c) \/ Close(c) \/ Chunk(c)
  \/ \E c \in Conn : \E st \in State : Send(c, st)

Fairness == WF_vars(job # <<>> /\ Complete(1)) /\ (\A c \in Conn : SF_vars(Chunk(c)))
Spec == Init /\ [][Next]_vars /\ Fairness

-----------------------------------------------------------------------------
(* update looks for the device and creates it if there is none
   (sockets.js:88-102): the rows of a device are never more than the updates
   that were once handled at the same time. *)
RowsNeedOverlap == Len(device) <= peak

(* Updates handled one after the other leave one row, with the last state. *)
LastStateKept ==
  peak = 1 /\ Pending(Updating) = {} => device = <<latest>>

(* When nothing is under way, the base is shown online exactly while it has a
   connection that announced itself and has not ended; but for handlers of
   its row that overlapped, such as the late end of an old connection, or an
   end before the announcement was saved (sockets.js:31-81). *)
OnlineIsTrue ==
  Pending(OfRow) = {} /\ ~overlap => (row.online <=> \E c \in Conn : Announced(c))

(* A base keeps its owner, whatever the connections write meanwhile, unless
   two users asked for it at the same time (UserController.js:160-175). *)
OwnerKept == [][row.owner # NoOne => row'.owner = row.owner \/ rivals]_vars

(* Once its connections have all ended, the base is shown offline in the end
   (bridge.js:23-27, sockets.js:31-48). *)
EndedIsOffline == (\A c \in Conn : tcp[c] = "closed") ~> (~row.online \/ overlap)
=============================================================================
