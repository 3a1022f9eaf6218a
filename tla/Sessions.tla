------------------------------ MODULE Sessions ------------------------------
(***************************************************************************)
(* The accounts of the server: cmd/server/sessionmanager.go,               *)
(* sessionstore.go, the login half of session.go and waversion.go.         *)
(*                                                                         *)
(* A session is a row of the table sessions, an entry of the manager's map *)
(* and a whatsmeow client, which replaceClient exchanges.  The handler of  *)
(* a client that was replaced is never removed: its late events still      *)
(* write the session.  Around a session work, each in its own goroutine,   *)
(* the HTTP requests, the handlers of the clients' events, the readers of  *)
(* the QR channels, the migration that stops and resumes every account,    *)
(* and the two reconnections for a new version of WhatsApp (after a 405,   *)
(* and at night), which share one slot.                                    *)
(*                                                                         *)
(* The client itself and its store of devices are external (whatsmeow).    *)
(***************************************************************************)
EXTENDS Integers, Sequences, FiniteSets

CONSTANTS
  Ids,         \* sessions that can exist
  Requests,    \* HTTP requests
  NoHolder,    \* nobody holds the slot of reconnections
  MaxRequests, \* bound: requests
  MaxClients,  \* bound: whatsmeow clients made
  MaxDevices,  \* bound: devices, those of the first boot included
  MaxFaults,   \* bound: connections lost, 401s, 405s, kicks, restarts, new versions
  MaxLocks     \* bound: migrations

ASSUME SessionsNames == NoHolder \notin Ids /\ "nightly" \notin Ids
ASSUME SessionsFinite == IsFiniteSet(Ids)
ASSUME SessionsBounds ==
  /\ MaxRequests \in Nat /\ MaxClients \in Nat /\ MaxDevices \in Nat /\ MaxFaults \in Nat
  /\ MaxLocks \in Nat

VARIABLES
  row,      \* table sessions: no row, or the device the row names (0: none)
  keys,     \* devices whose keys the container has
  reg,      \* sessions in the manager's map
  cur,      \* client of each session
  auth,     \* AuthSnapshot.State of each session
  cl,       \* the clients made, in order
  blocked,  \* SessionManager.blocked
  mig,      \* the migration: its control point and the sessions it has to visit
  rq,       \* control point and session of each request
  retry,    \* retryAfterOutdated of each session
  night,    \* the nightly worker: control point and sessions to reconnect
  slot,     \* waReconnectSlot
  made,     \* sessions ever created (newSessionID never repeats)
  used      \* how much of each bound is used

vars == <<row, keys, reg, cur, auth, cl, blocked, mig, rq, retry, night, slot,
          made, used>>
books == <<row, keys, reg, cur, auth, cl>>

NoRow == -1

\* A client's net: not connected ("off"); waiting to reconnect by itself ("retry");
\* logging in ("wait"); connected without a login, for the QR code; logged in ("on").
\* Its h is the event its handler is about to act on, or "idle".
NewClient(id, d) ==
  [id |-> id, dev |-> d, net |-> "off", auto |-> TRUE, h |-> "idle", qr |-> "none"]
Current(id) == cl[cur[id]]
Connected(c) == cl[c].net \in {"wait", "qr", "on"}

\* Restore, from the rows r and the devices k: a device that the container has is
\* connected, unless a migration blocks.
Restored(r, k, b) ==
  LET S == {id \in Ids : r[id] # NoRow}
      Known(id) == r[id] \in k
      Client(id) == [NewClient(id, IF Known(id) THEN r[id] ELSE 0)
                       EXCEPT !.net = IF Known(id) /\ ~b THEN "wait" ELSE "off"]
      Orders == {f \in [S -> 1..Cardinality(S)] : \A a, c \in S : f[a] = f[c] => a = c}
  IN  {[reg  |-> S,
        cur  |-> [id \in Ids |-> IF id \in S THEN f[id] ELSE 0],
        cl   |-> [i \in 1..Cardinality(S) |-> Client(CHOOSE id \in S : f[id] = i)],
        auth |-> [id \in Ids |-> IF id \notin S \/ (Known(id) /\ ~b) THEN "connecting"
                                 ELSE IF Known(id) THEN "stopped" ELSE "logged_out"]]
       : f \in Orders}

\* The server starts on any table: no session, one without an account, one paired.
Init ==
  /\ row \in [Ids -> {NoRow, 0} \union 1..Cardinality(Ids)]
  /\ \A a, b \in Ids : row[a] = row[b] /\ row[a] > 0 => a = b
  /\ keys = {row[id] : id \in Ids} \ {NoRow, 0}
  /\ \E m \in Restored(row, keys, FALSE) :
       reg = m.reg /\ cur = m.cur /\ cl = m.cl /\ auth = m.auth
  /\ blocked = FALSE
  /\ mig = [pc |-> "idle", todo |-> {}]
  /\ rq = [r \in Requests |-> [pc |-> "idle", id |-> NoHolder]]
  /\ retry = [id \in Ids |-> "none"]
  /\ night = [pc |-> "idle", todo |-> {}, on |-> NoHolder]
  /\ slot = NoHolder
  /\ made = reg
  /\ used = [requests |-> 0, devices |-> IF keys = {} THEN 0 ELSE Cardinality(Ids), faults |-> 0, locks |-> 0]

-----------------------------------------------------------------------------
(* Helpers. *)

\* Client.Disconnect: the socket closes; an attempt to reconnect that is in
\* flight may still win (stopForMigration turns EnableAutoReconnect off for it).
Disconnects(s, c) ==
  IF s[c].net = "retry" THEN {s, [s EXCEPT ![c].net = "off"]}
  ELSE {[s EXCEPT ![c].net = "off", ![c].qr = IF @ = "wait" THEN "timeout" ELSE @]}

\* Client.Connect: refused when there is a connection already; without a device
\* it waits for a pairing (with no QR channel, nobody shows the code).
Dial(s, c) ==
  IF s[c].net \in {"off", "retry"}
  THEN [s EXCEPT ![c].net = IF s[c].dev = 0 THEN "qr" ELSE "wait"] ELSE s

SetAuth(id, a) == auth' = [auth EXCEPT ![id] = a]
\* UPDATE sessions SET jid: nothing happens to a row that is not there.
SetJID(id, d) == row' = IF row[id] = NoRow THEN row ELSE [row EXCEPT ![id] = d]
At(r, pc) == rq[r].pc = pc
Go(r, pc) == rq' = [rq EXCEPT ![r].pc = pc]
Spend(bound, max) == used[bound] < max /\ used' = [used EXCEPT ![bound] = @ + 1]
\* A request begins; guard refuses it while a migration blocks the accounts.
Begin(r) == At(r, "idle") /\ ~blocked /\ Spend("requests", MaxRequests)
Finish(r) == rq' = [rq EXCEPT ![r] = [pc |-> "idle", id |-> NoHolder]]

-----------------------------------------------------------------------------
(* Requests.  Each goes on from what it has read.                            *)

\* Create: the row, then the client and the entry, then the QR code.
CreateInsert(r, id) ==
  /\ Begin(r)
  /\ id \notin made
  /\ made' = made \union {id}
  /\ row' = [row EXCEPT ![id] = 0]
  /\ rq' = [rq EXCEPT ![r] = [pc |-> "register", id |-> id]]
  /\ UNCHANGED <<keys, reg, cur, auth, cl, blocked, mig, retry, night, slot>>

CreateRegister(r) ==
  /\ At(r, "register") /\ Len(cl) < MaxClients
  /\ LET id == rq[r].id IN
       /\ cl' = Append(cl, NewClient(id, 0))
       /\ cur' = [cur EXCEPT ![id] = Len(cl')]
       /\ reg' = reg \union {id}
       /\ SetAuth(id, "connecting")
  /\ Go(r, "pair")
  /\ UNCHANGED <<row, keys, blocked, mig, retry, night, slot>> /\ UNCHANGED <<made, used>>

\* startPairing: GetQRChannel wants a client without a device that is not
\* connected; then its channel has a reader.
StartPairing(r) ==
  /\ At(r, "pair")
  /\ LET c == cur[rq[r].id] IN
       cl' = IF cl[c].dev = 0 /\ ~Connected(c)
             THEN [cl EXCEPT ![c].net = "qr", ![c].qr = "wait"] ELSE cl
  /\ Finish(r)
  /\ UNCHANGED <<row, keys, reg, cur, auth, blocked, mig, retry, night, slot>>
  /\ UNCHANGED <<made, used>>

\* Stop, with shutdown.
StopDisconnect(r, id) ==
  /\ Begin(r) /\ id \in reg
  /\ cl' \in Disconnects(cl, cur[id])
  /\ rq' = [rq EXCEPT ![r] = [pc |-> "stopped", id |-> id]]
  /\ UNCHANGED <<row, keys, reg, cur, auth, blocked, mig, retry, night, slot>>
  /\ UNCHANGED made

\* The end of Stop; a restart of the account goes on, half a second later.
StopAuth(r) ==
  /\ At(r, "stopped")
  /\ SetAuth(rq[r].id, "stopped")
  /\ Finish(r) \/ Go(r, "restart")
  /\ UNCHANGED <<row, keys, reg, cur, cl, blocked, mig, retry, night, slot>>
  /\ UNCHANGED <<made, used>>

\* Start, asked for by a request of its own or by a restart of the account, which
\* passed guard before it stopped the account; Start refuses it if a migration has
\* begun since.
Starts(r, id) ==
  \/ Begin(r) /\ id \in reg
  \/ At(r, "restart") /\ rq[r].id = id /\ id \in reg /\ ~blocked /\ UNCHANGED used

\* A restart that Start refuses or that finds the account connected.
RestartEnds(r) ==
  /\ At(r, "restart")
  /\ rq[r].id \notin reg \/ blocked \/ Connected(cur[rq[r].id])
  /\ Finish(r)
  /\ UNCHANGED books /\ UNCHANGED <<blocked, mig, retry, night, slot>> /\ UNCHANGED <<made, used>>

\* Start of a paired account; one without a device is paired (Pair).
StartCheck(r, id) ==
  /\ Starts(r, id)
  /\ ~Connected(cur[id]) /\ Current(id).dev # 0
  /\ SetAuth(id, "connecting")
  /\ rq' = [rq EXCEPT ![r] = [pc |-> "start", id |-> id]]
  /\ UNCHANGED <<row, keys, reg, cur, cl, blocked, mig, retry, night, slot>>
  /\ UNCHANGED made

StartConnect(r) ==
  /\ At(r, "start")
  /\ cl' = Dial(cl, cur[rq[r].id])
  /\ Finish(r)
  /\ UNCHANGED <<row, keys, reg, cur, auth, blocked, mig, retry, night, slot>>
  /\ UNCHANGED <<made, used>>

\* Pair, up to replaceClient.
PairReplace(r, id) ==
  /\ Starts(r, id)
  /\ At(r, "restart") => ~Connected(cur[id])
  /\ Current(id).dev = 0 /\ Len(cl) < MaxClients
  /\ \E s \in Disconnects(cl, cur[id]) : cl' = Append(s, NewClient(id, 0))
  /\ cur' = [cur EXCEPT ![id] = Len(cl')]
  /\ rq' = [rq EXCEPT ![r] = [pc |-> "pair", id |-> id]]
  /\ UNCHANGED <<row, keys, reg, auth, blocked, mig, retry, night, slot>>
  /\ UNCHANGED made

\* Client.Logout: the device goes with the login, unless it fails.
LogoutAt(id) ==
  /\ Current(id).dev # 0
  /\ \/ /\ Current(id).net = "on"
        /\ cl' = [cl EXCEPT ![cur[id]].dev = 0, ![cur[id]].net = "off"]
        /\ keys' = keys \ {Current(id).dev}
     \/ UNCHANGED <<cl, keys>>

LogoutAsk(r, id) ==
  /\ Begin(r) /\ id \in reg
  /\ \/ LogoutAt(id)
     \/ Current(id).dev = 0 /\ UNCHANGED <<cl, keys>>
  /\ rq' = [rq EXCEPT ![r] = [pc |-> "replace", id |-> id]]
  /\ UNCHANGED <<row, reg, cur, auth, blocked, mig, retry, night, slot, made>>

LogoutReplace(r) ==
  /\ At(r, "replace") /\ Len(cl) < MaxClients
  /\ LET id == rq[r].id IN
       /\ \E s \in Disconnects(cl, cur[id]) : cl' = Append(s, NewClient(id, 0))
       /\ cur' = [cur EXCEPT ![id] = Len(cl')]
  /\ Go(r, "clear")
  /\ UNCHANGED <<row, keys, reg, auth, blocked, mig, retry, night, slot>>
  /\ UNCHANGED <<made, used>>

LogoutClear(r) ==
  /\ At(r, "clear")
  /\ SetJID(rq[r].id, 0)
  /\ SetAuth(rq[r].id, "logged_out")
  /\ Finish(r)
  /\ UNCHANGED <<keys, reg, cur, cl, blocked, mig, retry, night, slot>>
  /\ UNCHANGED <<made, used>>

\* Delete: a logout that fails only drops the keys, the client stays as it is.
DeleteAsk(r, id) ==
  /\ Begin(r) /\ id \in reg
  /\ \/ /\ Current(id).dev # 0 /\ Current(id).net = "on"
        /\ cl' = [cl EXCEPT ![cur[id]].dev = 0, ![cur[id]].net = "off"]
        /\ keys' = keys \ {Current(id).dev}
     \/ /\ Current(id).dev # 0
        /\ keys' = keys \ {Current(id).dev}
        /\ UNCHANGED cl
     \/ /\ Current(id).dev = 0
        /\ cl' \in Disconnects(cl, cur[id])
        /\ UNCHANGED keys
  /\ rq' = [rq EXCEPT ![r] = [pc |-> "delete", id |-> id]]
  /\ UNCHANGED <<row, reg, cur, auth, blocked, mig, retry, night, slot, made>>

DeleteRow(r) ==
  /\ At(r, "delete")
  /\ reg' = reg \ {rq[r].id}
  /\ row' = [row EXCEPT ![rq[r].id] = NoRow]
  /\ Finish(r)
  /\ UNCHANGED <<keys, cur, auth, cl, blocked, mig, retry, night, slot>>
  /\ UNCHANGED <<made, used>>

-----------------------------------------------------------------------------
(* The clients (whatsmeow, external): what WhatsApp and the network do.      *)

InNet(n) == {c \in 1..Len(cl) : cl[c].net = n}

Login ==
  /\ \E c \in InNet("wait") :
       /\ cl[c].h = "idle"
       /\ cl' = [cl EXCEPT ![c].net = "on", ![c].h = "connected"]
  /\ UNCHANGED <<row, keys, reg, cur, auth, blocked, mig, rq, retry, night, slot>>
  /\ UNCHANGED <<made, used>>

\* 401: the account was unlinked (Store.Delete); 405: the version is refused;
\* another server uses the keys.
Fails(net, h) ==
  /\ Spend("faults", MaxFaults)
  /\ \E c \in InNet(net) :
       /\ cl[c].h = "idle"
       /\ cl' = [cl EXCEPT ![c].net = "off", ![c].h = h,
                           ![c].dev = IF h = "loggedout" THEN 0 ELSE @]
       /\ keys' = IF h = "loggedout" THEN keys \ {cl[c].dev} ELSE keys
  /\ UNCHANGED <<row, reg, cur, auth, blocked, mig, rq, retry, night, slot, made>>
Unlinked == Fails("wait", "loggedout") \/ Fails("on", "loggedout")
Refused == Fails("wait", "outdated")
StreamReplaced == Fails("on", "replaced")

\* The connection breaks; the client reconnects by itself unless it may not.
Dropped ==
  /\ Spend("faults", MaxFaults)
  /\ \E c \in InNet("on") :
       cl' = [cl EXCEPT ![c].net = IF cl[c].auto THEN "retry" ELSE "off"]
  /\ UNCHANGED <<row, keys, reg, cur, auth, blocked, mig, rq, retry, night, slot, made>>
Reconnect ==
  /\ \E c \in InNet("retry") :
       cl' = [cl EXCEPT ![c].net = IF cl[c].auto THEN "wait" ELSE "off"]
  /\ UNCHANGED <<row, keys, reg, cur, auth, blocked, mig, rq, retry, night, slot>>
  /\ UNCHANGED <<made, used>>

\* The code is scanned: the device exists, the client logs in with it.
Scanned ==
  /\ Spend("devices", MaxDevices)
  /\ \E c \in InNet("qr") :
       /\ cl[c].qr = "wait"
       /\ cl' = [cl EXCEPT ![c].dev = used'.devices, ![c].net = "wait", ![c].qr = "success"]
  /\ keys' = keys \union {used'.devices}
  /\ UNCHANGED <<row, reg, cur, auth, blocked, mig, rq, retry, night, slot, made>>
QRExpires ==
  /\ \E c \in InNet("qr") :
       cl' = [cl EXCEPT ![c].net = "off", ![c].qr = IF @ = "wait" THEN "timeout" ELSE @]
  /\ UNCHANGED <<row, keys, reg, cur, auth, blocked, mig, rq, retry, night, slot>>
  /\ UNCHANGED <<made, used>>

-----------------------------------------------------------------------------
(* handleEvent and the reader of the QR channel, for any client ever made.   *)
(* They read s.client, which may be another by then.                         *)

Pending(h) == {c \in 1..Len(cl) : cl[c].h = h}

\* Mutant: a login during a migration is taken like any other.
ConnectedAnyway ==
  /\ \E c \in Pending("connected") : cl' = [cl EXCEPT ![c].h = "open"]
  /\ UNCHANGED <<row, keys, reg, cur, auth, blocked, mig, rq, retry, night, slot>>
  /\ UNCHANGED <<made, used>>
HandleConnected ==
  /\ \E c \in Pending("connected") :
       cl' = [cl EXCEPT ![c].h = IF blocked THEN "drop" ELSE "open"]
  /\ UNCHANGED <<row, keys, reg, cur, auth, blocked, mig, rq, retry, night, slot>>
  /\ UNCHANGED <<made, used>>

\* go s.client.Disconnect()
HandleDrop ==
  /\ \E c \in Pending("drop") :
       cl' \in Disconnects([cl EXCEPT ![c].h = "idle"], cur[cl[c].id])
  /\ UNCHANGED <<row, keys, reg, cur, auth, blocked, mig, rq, retry, night, slot>>
  /\ UNCHANGED <<made, used>>

\* Mutant: the row does not learn the account when the client logs in.
OpenForgets ==
  /\ \E c \in Pending("open") :
       /\ SetAuth(cl[c].id, "open")
       /\ cl' = [cl EXCEPT ![c].h = "idle"]
  /\ UNCHANGED <<row, keys, reg, cur, blocked, mig, rq, retry, night, slot>>
  /\ UNCHANGED <<made, used>>
HandleOpen ==
  /\ \E c \in Pending("open") :
       /\ IF Current(cl[c].id).dev # 0 THEN SetJID(cl[c].id, Current(cl[c].id).dev)
          ELSE UNCHANGED row
       /\ SetAuth(cl[c].id, "open")
       /\ cl' = [cl EXCEPT ![c].h = "idle"]
  /\ UNCHANGED <<keys, reg, cur, blocked, mig, rq, retry, night, slot>>
  /\ UNCHANGED <<made, used>>

HandleLost(h, a) ==
  /\ \E c \in Pending(h) :
       /\ SetAuth(cl[c].id, a)
       /\ cl' = [cl EXCEPT ![c].h = "idle"]
  /\ UNCHANGED <<row, keys, reg, cur, blocked, mig, rq, retry, night, slot>>
  /\ UNCHANGED <<made, used>>
HandleLoggedOut == HandleLost("loggedout", "logged_out")
HandleReplaced == HandleLost("replaced", "replaced")

\* retryAfterOutdated: queued if there is a newer version (one at a time per
\* session).
HandleOutdated ==
  /\ \E c \in Pending("outdated"), newer \in BOOLEAN :
       /\ retry[cl[c].id] = "none"
       /\ cl' = [cl EXCEPT ![c].h = "idle"]
       /\ retry' = [retry EXCEPT ![cl[c].id] = IF newer THEN "queued" ELSE "none"]
  /\ UNCHANGED <<row, keys, reg, cur, auth, blocked, mig, rq, night, slot>>
  /\ UNCHANGED <<made, used>>

QRRead(q) == {c \in 1..Len(cl) : cl[c].qr = q}
QRCode ==
  /\ \E c \in QRRead("wait") : SetAuth(cl[c].id, "qr")
  /\ UNCHANGED <<row, keys, reg, cur, cl, blocked, mig, rq, retry, night, slot>>
  /\ UNCHANGED <<made, used>>
QRSuccess ==
  /\ \E c \in QRRead("success") :
       /\ IF Current(cl[c].id).dev # 0 THEN SetJID(cl[c].id, Current(cl[c].id).dev)
          ELSE UNCHANGED row
       /\ SetAuth(cl[c].id, "open")
       /\ cl' = [cl EXCEPT ![c].qr = "none"]
  /\ UNCHANGED <<keys, reg, cur, blocked, mig, rq, retry, night, slot>>
  /\ UNCHANGED <<made, used>>
QRTimeout ==
  /\ \E c \in QRRead("timeout") :
       /\ SetAuth(cl[c].id, "logged_out")
       /\ cl' = [cl EXCEPT ![c].qr = "none"]
  /\ UNCHANGED <<row, keys, reg, cur, blocked, mig, rq, retry, night, slot>>
  /\ UNCHANGED <<made, used>>

-----------------------------------------------------------------------------
(* The migration: stopForMigration and reconnectAll, session by session.     *)

Block ==
  /\ mig.pc = "idle"
  /\ Spend("locks", MaxLocks)
  /\ blocked' = TRUE
  /\ mig' = [pc |-> "stop", todo |-> reg]
  /\ UNCHANGED <<row, keys, reg, cur, auth, cl, rq, retry, night, slot, made>>

MigrationStops ==
  /\ mig.pc = "stop"
  /\ \E id \in mig.todo :
       /\ cl' \in Disconnects([cl EXCEPT ![cur[id]].auto = FALSE], cur[id])
       /\ SetAuth(id, "stopped")
       /\ mig' = [mig EXCEPT !.todo = @ \ {id}]
  /\ UNCHANGED <<row, keys, reg, cur, blocked, rq, retry, night, slot>>
  /\ UNCHANGED <<made, used>>

Unblock ==
  /\ mig.pc = "stop" /\ mig.todo = {}
  /\ blocked' = FALSE
  /\ mig' = [pc |-> "resume", todo |-> reg]
  /\ UNCHANGED books /\ UNCHANGED <<rq, retry, night, slot>> /\ UNCHANGED <<made, used>>

MigrationResumes ==
  /\ mig.pc = "resume"
  /\ \E id \in mig.todo :
       /\ IF Current(id).dev = 0 THEN UNCHANGED <<cl, auth>>
          ELSE /\ cl' = Dial([cl EXCEPT ![cur[id]].auto = TRUE], cur[id])
               /\ SetAuth(id, "connecting")
       /\ mig' = [mig EXCEPT !.todo = @ \ {id}]
  /\ UNCHANGED <<row, keys, reg, cur, blocked, rq, retry, night, slot>>
  /\ UNCHANGED <<made, used>>

MigrationOver ==
  /\ mig.pc = "resume" /\ mig.todo = {}
  /\ mig' = [mig EXCEPT !.pc = "idle"]
  /\ UNCHANGED books /\ UNCHANGED <<blocked, rq, retry, night, slot>>
  /\ UNCHANGED <<made, used>>

-----------------------------------------------------------------------------
(* A new version of WhatsApp: queueReconnect lets one account at a time      *)
(* reconnect.                                                                *)

RetryTake(id) ==
  /\ retry[id] = "queued" /\ slot = NoHolder
  /\ LET go == /\ auth[id] = "connecting" /\ ~blocked
               /\ Current(id).dev # 0 /\ ~Connected(cur[id])
     IN  /\ retry' = [retry EXCEPT ![id] = IF go THEN "connect" ELSE "none"]
         /\ slot' = IF go THEN id ELSE slot
  /\ UNCHANGED books /\ UNCHANGED <<blocked, mig, rq, night>> /\ UNCHANGED <<made, used>>
RetryConnect(id) ==
  /\ retry[id] = "connect"
  /\ cl' = Dial(cl, cur[id])
  /\ retry' = [retry EXCEPT ![id] = "wait"]
  /\ UNCHANGED <<row, keys, reg, cur, auth, blocked, mig, rq, night, slot>>
  /\ UNCHANGED <<made, used>>
\* waitOpen, or its timeout, and the gap.
RetryLeave(id) ==
  /\ retry[id] = "wait"
  /\ retry' = [retry EXCEPT ![id] = "none"]
  /\ slot' = NoHolder
  /\ UNCHANGED books /\ UNCHANGED <<blocked, mig, rq, night>> /\ UNCHANGED <<made, used>>

migrationActive == blocked \/ mig.pc # "idle"

\* nightlyWAVersionCheck with a newer version.
NightGoesOn(todo) == IF todo = {} THEN "idle" ELSE "run"
NightStart ==
  /\ night.pc = "idle" /\ ~migrationActive /\ reg # {}
  /\ Spend("faults", MaxFaults)
  /\ night' = [pc |-> "run", todo |-> reg, on |-> NoHolder]
  /\ UNCHANGED books
  /\ UNCHANGED <<blocked, mig, rq, retry, slot, made>>
\* Aborted by a migration, or the accounts left are in calls for too long.
NightEnds ==
  /\ night.pc = "run"
  /\ night' = [pc |-> "idle", todo |-> {}, on |-> NoHolder]
  /\ UNCHANGED books /\ UNCHANGED <<blocked, mig, rq, retry, slot>> /\ UNCHANGED <<made, used>>
\* reconnectForVersion: only an open account that is connected.
NightTake ==
  /\ night.pc = "run" /\ slot = NoHolder
  /\ \E id \in night.todo :
       LET go == /\ ~migrationActive /\ auth[id] = "open"
                 /\ Current(id).dev # 0 /\ Connected(cur[id])
       IN  /\ night' = [todo |-> night.todo \ {id},
                        pc |-> IF go THEN "drop" ELSE NightGoesOn(night.todo \ {id}),
                        on |-> IF go THEN id ELSE NoHolder]
           /\ slot' = IF go THEN "nightly" ELSE slot
  /\ UNCHANGED books /\ UNCHANGED <<blocked, mig, rq, retry>> /\ UNCHANGED <<made, used>>
NightDrop ==
  /\ night.pc = "drop"
  /\ cl' \in Disconnects(cl, cur[night.on])
  /\ SetAuth(night.on, "connecting")
  /\ night' = [night EXCEPT !.pc = "connect"]
  /\ UNCHANGED <<row, keys, reg, cur, blocked, mig, rq, retry, slot>>
  /\ UNCHANGED <<made, used>>
NightConnect ==
  /\ night.pc = "connect"
  /\ cl' = Dial(cl, cur[night.on])
  /\ night' = [night EXCEPT !.pc = "wait"]
  /\ UNCHANGED <<row, keys, reg, cur, auth, blocked, mig, rq, retry, slot>>
  /\ UNCHANGED <<made, used>>
NightLeave ==
  /\ night.pc = "wait"
  /\ night' = [night EXCEPT !.pc = NightGoesOn(night.todo), !.on = NoHolder]
  /\ slot' = NoHolder
  /\ UNCHANGED books /\ UNCHANGED <<blocked, mig, rq, retry>> /\ UNCHANGED <<made, used>>

-----------------------------------------------------------------------------
(* The process dies and starts again: Restore.                               *)

Restart ==
  /\ Spend("faults", MaxFaults)
  /\ \E m \in Restored(row, keys, blocked) :
       reg' = m.reg /\ cur' = m.cur /\ cl' = m.cl /\ auth' = m.auth
  /\ mig' = [mig EXCEPT !.pc = IF @ = "resume" THEN "idle" ELSE @, !.todo = {}]
  /\ rq' = [r \in Requests |-> [pc |-> "idle", id |-> NoHolder]]
  /\ retry' = [id \in Ids |-> "none"]
  /\ night' = [pc |-> "idle", todo |-> {}, on |-> NoHolder]
  /\ slot' = NoHolder
  /\ UNCHANGED <<row, keys, blocked, made>>

-----------------------------------------------------------------------------

Request(r) ==
  \/ \E id \in Ids : \/ CreateInsert(r, id) \/ StopDisconnect(r, id) \/ StartCheck(r, id)
                     \/ PairReplace(r, id) \/ LogoutAsk(r, id) \/ DeleteAsk(r, id)
  \/ CreateRegister(r) \/ StartPairing(r) \/ StopAuth(r) \/ RestartEnds(r) \/ StartConnect(r)
  \/ LogoutReplace(r) \/ LogoutClear(r) \/ DeleteRow(r)
Handle ==
  \/ HandleConnected \/ HandleDrop \/ HandleOpen \/ HandleLoggedOut \/ HandleReplaced
  \/ HandleOutdated \/ QRSuccess \/ QRTimeout
Migrator == MigrationStops \/ MigrationResumes \/ MigrationOver
Version ==
  \/ \E id \in Ids : RetryTake(id) \/ RetryConnect(id) \/ RetryLeave(id)
  \/ NightTake \/ NightDrop \/ NightConnect \/ NightLeave
WhatsApp ==
  Login \/ Unlinked \/ Refused \/ StreamReplaced \/ Dropped \/ Reconnect \/ Scanned
    \/ QRExpires

Next ==
  \/ \E r \in Requests : Request(r)
  \/ WhatsApp \/ Handle \/ QRCode \/ Migrator \/ Block \/ Unblock
  \/ Version \/ NightStart \/ NightEnds
  \/ Restart

Spec == Init /\ [][Next]_vars

\* Goroutines go on; a client that is off its QR code gives up.  Nothing is
\* assumed of logins, faults, requests and of the end of a migration.
Fairness ==
  /\ WF_vars(Handle) /\ WF_vars(Migrator) /\ WF_vars(QRExpires)
  /\ \A r \in Requests :
       WF_vars(CreateRegister(r) \/ StartPairing(r) \/ StopAuth(r) \/ RestartEnds(r)
                 \/ StartConnect(r)
                 \/ LogoutReplace(r) \/ LogoutClear(r) \/ DeleteRow(r))
  /\ WF_vars(Version)

FairSpec == Spec /\ Fairness

-----------------------------------------------------------------------------
(* Properties. *)

\* "blocked: migracao exige tudo parado" (sessionmanager.go:36): an account that
\* a request or a reconnection in flight connects behind stopForMigration is
\* dropped again, and while the block lasts none stays logged in or pairs.
MigrationQuiet ==
  <>[]blocked => <>[](\A id \in reg : Current(id).net \notin {"on", "qr"})

\* A session that shows open and whose client is logged in is one that a restart
\* finds again (Restore): its row names the device, and the container has it.
OpenSurvivesRestart ==
  \A id \in reg :
    /\ auth[id] = "open" /\ Current(id).net = "on" /\ Current(id).h = "idle"
    /\ \A r \in Requests : rq[r].id # id
    => row[id] = Current(id).dev /\ row[id] \in keys

\* "deleting locally" (sessionmanager.go:264): a session that was deleted has no
\* client that is logged in.
DeletedIsOff ==
  (\A r \in Requests : At(r, "idle")) =>
    \A c \in 1..Len(cl) : cl[c].id \in made \ reg => cl[c].net # "on"
=============================================================================
