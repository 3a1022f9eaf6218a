--------------------------- MODULE SessionsProofs ---------------------------
(***************************************************************************)
(* A session that shows open and is logged in is one that a restart finds  *)
(* again, for any sessions, requests, clients, devices, faults, migrations *)
(* and restarts.                                                           *)
(*                                                                         *)
(* A client that is logged in and whose event was handled had its device   *)
(* written to the row (Opened).  That stays true because whatever shows    *)
(* open again writes the device of the current client, also the handler of *)
(* a client that was replaced, and because a device is of one client only  *)
(* (Devices): what another one loses is not this one's.                    *)
(***************************************************************************)
EXTENDS Sessions, FiniteSetTheorems, SequenceTheorems, TLAPS

Nets == {"off", "retry", "wait", "qr", "on"}
Events == {"idle", "connected", "drop", "open", "loggedout", "outdated", "replaced"}
Codes == {"none", "wait", "success", "timeout"}
Client == [id : Ids, dev : Nat, net : Nets, auto : BOOLEAN, h : Events, qr : Codes]
Auths == {"connecting", "qr", "open", "stopped", "logged_out", "replaced"}
Pcs == {"idle", "register", "pair", "stopped", "restart", "start", "replace", "clear", "delete"}

\* A client that dials has a device, and one whose login ended is not logged in.
Sound(k) ==
  /\ k.net \in {"wait", "on", "retry"} => k.dev # 0
  /\ k.h \in {"loggedout", "outdated", "replaced"} => k.net # "on"
Sane(s) == s \in Seq(Client) /\ \A c \in 1..Len(s) : Sound(s[c])
\* Logged in, and its event was handled.
Seen(k) == k.net = "on" /\ k.h = "idle"

Typed ==
  /\ row \in [Ids -> {NoRow} \union Nat] /\ keys \subseteq Nat \ {0}
  /\ made \subseteq Ids /\ reg \subseteq made
  /\ cur \in [Ids -> Nat] /\ auth \in [Ids -> Auths]
  /\ Sane(cl)
  /\ rq \in [Requests -> [pc : Pcs, id : Ids \union {NoHolder}]]
  /\ used \in [requests : Nat, devices : Nat, faults : Nat, locks : Nat]

\* Only the request that inserted a session's row knows of it before it is
\* registered; every other request is about a session that has a client.
Work ==
  \A r \in Requests :
    /\ rq[r].pc = "idle" <=> rq[r].id = NoHolder
    /\ rq[r].pc # "idle" => rq[r].id \in made
    /\ rq[r].pc = "register" =>
         /\ rq[r].id \notin reg /\ row[rq[r].id] # NoRow /\ cur[rq[r].id] = 0
         /\ \A q \in Requests \ {r} : rq[q].id # rq[r].id
    /\ rq[r].pc \notin {"idle", "register"} => cur[rq[r].id] # 0

Mapped ==
  /\ \A id \in Ids : cur[id] # 0 => cur[id] \in 1..Len(cl) /\ Current(id).id = id
  /\ \A c \in 1..Len(cl) : cur[cl[c].id] # 0
  /\ \A id \in reg : cur[id] # 0 /\ row[id] # NoRow
  /\ \A id \in Ids : cur[id] # 0 \/ row[id] # NoRow => id \in made

\* A device is of one client, of one session and in one row.
Devices ==
  /\ \A c \in 1..Len(cl) : cl[c].dev <= used.devices
  /\ \A id \in Ids : row[id] <= used.devices
  /\ \A c, e \in 1..Len(cl) : cl[c].dev # 0 /\ cl[e].dev = cl[c].dev => c = e
  /\ \A c \in 1..Len(cl), id \in Ids : cl[c].dev # 0 /\ row[id] = cl[c].dev => cl[c].id = id
  /\ \A a, b \in Ids : row[a] > 0 /\ row[a] = row[b] => a = b

Deleting(id) == \E r \in Requests : At(r, "delete") /\ rq[r].id = id
KeysHeld == \A id \in reg : Current(id).dev \in keys \union {0} \/ Deleting(id)

Opened ==
  \A id \in reg : auth[id] = "open" /\ Seen(Current(id)) => row[id] = Current(id).dev

IInv == Typed /\ Work /\ Mapped /\ Devices /\ KeysHeld /\ Opened

-----------------------------------------------------------------------------
(* What a step does to the clients. *)

\* A step in which no client gets or loses a device; and none is through with its login.
Alike(s, t) ==
  /\ Sane(t) /\ Len(t) = Len(s)
  /\ \A c \in 1..Len(s) : t[c].id = s[c].id /\ t[c].dev = s[c].dev
Calm(s, t) == Alike(s, t) /\ \A c \in 1..Len(s) : Seen(t[c]) => Seen(s[c])

\* One client changes.
LEMMA OneClient ==
  ASSUME NEW s \in Seq(Client), NEW c \in 1..Len(s), NEW k \in Client,
         NEW t, t = [s EXCEPT ![c] = k]
  PROVE  /\ t \in Seq(Client) /\ Len(t) = Len(s) /\ t[c] = k
         /\ \A e \in 1..Len(s) : e # c => t[e] = s[e]
BY ExceptSeq

LEMMA OneCalm ==
  ASSUME NEW s, Sane(s), NEW c \in 1..Len(s), NEW k \in Client, NEW t, t = [s EXCEPT ![c] = k],
         Sound(k), k.id = s[c].id, k.dev = s[c].dev, Seen(k) => Seen(s[c])
  PROVE  Calm(s, t)
<1>1. /\ t \in Seq(Client) /\ Len(t) = Len(s) /\ t[c] = k
      /\ \A e \in 1..Len(s) : e # c => t[e] = s[e]
  BY OneClient DEF Sane
<1>2. Sane(t)
  BY <1>1 DEF Sane
<1> QED BY <1>1, <1>2 DEF Calm, Alike

LEMMA NoneCalm == ASSUME NEW s, Sane(s) PROVE Calm(s, s)
BY DEF Calm, Alike

LEMMA CalmTwice == ASSUME NEW s, NEW t, NEW u, Calm(s, t), Calm(t, u) PROVE Calm(s, u)
BY DEF Calm, Alike

\* A client that is not there does not change.
LEMMA NoClient ==
  ASSUME NEW s \in Seq(Client), NEW c, c \notin 1..Len(s), NEW k
  PROVE  [s EXCEPT ![c] = k] = s
<1>1. DOMAIN s = 1..Len(s) /\ s = [i \in DOMAIN s |-> s[i]]
  OBVIOUS
<1> QED BY <1>1

\* The connection of a client, its event and its QR channel change.
Changed(k, n, h, q) == [k EXCEPT !.net = n, !.h = h, !.qr = q]

LEMMA ChangedClient ==
  ASSUME NEW k \in Client, NEW n \in Nets,
         NEW h \in Events,
         NEW q \in Codes
  PROVE  /\ Changed(k, n, h, q) \in Client
         /\ Changed(k, n, h, q).id = k.id /\ Changed(k, n, h, q).dev = k.dev
         /\ Changed(k, n, h, q).net = n /\ Changed(k, n, h, q).h = h
BY DEF Changed, Client

\* What keeps a client sound, and none through with its login that was not.
MayChange(k, n, h, q) ==
  /\ k \in Client /\ n \in Nets /\ h \in Events /\ q \in Codes
  /\ n \in {"wait", "on", "retry"} => k.dev # 0
  /\ n = "on" => h \notin {"loggedout", "outdated", "replaced"} /\ (h = "idle" => Seen(k))

LEMMA ChangedCalm ==
  ASSUME NEW s, Sane(s), NEW c \in 1..Len(s), NEW n, NEW h, NEW q, MayChange(s[c], n, h, q),
         NEW t, t = [s EXCEPT ![c] = Changed(s[c], n, h, q)]
  PROVE  Calm(s, t)
<1>1. /\ Changed(s[c], n, h, q) \in Client
      /\ Changed(s[c], n, h, q).id = s[c].id /\ Changed(s[c], n, h, q).dev = s[c].dev
      /\ Changed(s[c], n, h, q).net = n /\ Changed(s[c], n, h, q).h = h
  BY ChangedClient DEF MayChange
<1>2. Sound(Changed(s[c], n, h, q)) /\ (Seen(Changed(s[c], n, h, q)) => Seen(s[c]))
  BY <1>1 DEF Sound, Seen, MayChange
<1> QED BY <1>1, <1>2, OneCalm

LEMMA AutoCalm ==
  ASSUME NEW s, Sane(s), NEW c, NEW b \in BOOLEAN
  PROVE  Calm(s, [s EXCEPT ![c].auto = b])
<1>1. CASE c \in 1..Len(s)
  <2> DEFINE k == [s[c] EXCEPT !.auto = b]
  <2>1. s[c] \in Client
    BY <1>1 DEF Sane
  <2>2. k \in Client /\ k.id = s[c].id /\ k.dev = s[c].dev /\ k.net = s[c].net /\ k.h = s[c].h
    BY <2>1 DEF Client
  <2>3. Sound(k) /\ (Seen(k) => Seen(s[c]))
    BY <1>1, <2>2 DEF Sane, Sound, Seen
  <2> HIDE DEF k
  <2>4. Calm(s, [s EXCEPT ![c] = k])
    BY <1>1, <2>2, <2>3, OneCalm
  <2> QED BY <2>4 DEF k
<1>2. CASE c \notin 1..Len(s)
  <2>1. [s EXCEPT ![c].auto = b] = s
    BY <1>2, NoClient DEF Sane
  <2> QED BY <2>1, NoneCalm
<1> QED BY <1>1, <1>2

LEMMA DisconnectsCalm ==
  ASSUME NEW s, Sane(s), NEW c, NEW t \in Disconnects(s, c)
  PROVE  Calm(s, t)
<1>1. CASE c \in 1..Len(s)
  <2>1. s[c] \in Client /\ Sound(s[c])
    BY <1>1 DEF Sane
  <2>2. ASSUME NEW q \in Codes,
               t = [s EXCEPT ![c].net = "off", ![c].qr = q]
        PROVE  Calm(s, t)
    <3> DEFINE k == [s[c] EXCEPT !.net = "off", !.qr = q]
    <3>1. k \in Client /\ k.id = s[c].id /\ k.dev = s[c].dev /\ k.net = "off" /\ k.h = s[c].h
      BY <2>1 DEF Client, Nets
    <3>2. Sound(k) /\ ~Seen(k)
      BY <3>1 DEF Sound, Seen
    <3>3. t = [s EXCEPT ![c] = k]
      BY <2>2
    <3> HIDE DEF k
    <3> QED BY <1>1, <3>1, <3>2, <3>3, OneCalm
  <2> QED BY <2>1, <2>2, NoneCalm DEF Disconnects, Client
<1>2. CASE c \notin 1..Len(s)
  <2> QED BY <1>2, NoClient, NoneCalm DEF Disconnects, Sane
<1> QED BY <1>1, <1>2

\* A client that disconnects is not connected.
LEMMA DisconnectsOff ==
  ASSUME NEW s \in Seq(Client), NEW c \in 1..Len(s), NEW t \in Disconnects(s, c)
  PROVE  t[c].net \in {"off", "retry"}
<1>1. s[c] \in Client
  OBVIOUS
<1>2. CASE s[c].net = "retry"
  <2>1. t = s \/ t = [s EXCEPT ![c].net = "off"]
    BY <1>2 DEF Disconnects
  <2> QED BY <1>1, <1>2, <2>1 DEF Client
<1>3. CASE s[c].net # "retry"
  <2>1. t = [s EXCEPT ![c].net = "off", ![c].qr = IF s[c].qr = "wait" THEN "timeout" ELSE s[c].qr]
    BY <1>3 DEF Disconnects
  <2> QED BY <1>1, <2>1 DEF Client
<1> QED BY <1>2, <1>3

LEMMA DialCalm ==
  ASSUME NEW s, Sane(s), NEW c
  PROVE  Calm(s, Dial(s, c))
<1>1. CASE c \in 1..Len(s)
  <2> DEFINE n == IF s[c].dev = 0 THEN "qr" ELSE "wait"
             k == [s[c] EXCEPT !.net = n]
  <2>1. s[c] \in Client /\ Sound(s[c])
    BY <1>1 DEF Sane
  <2>2. k \in Client /\ k.id = s[c].id /\ k.dev = s[c].dev /\ k.net = n /\ k.h = s[c].h
    BY <2>1 DEF Client, Nets
  <2>3. Sound(k) /\ ~Seen(k)
    BY <2>2 DEF Sound, Seen
  <2>4. Dial(s, c) = [s EXCEPT ![c] = k] \/ Dial(s, c) = s
    BY DEF Dial
  <2> HIDE DEF k
  <2> QED BY <1>1, <2>2, <2>3, <2>4, OneCalm, NoneCalm
<1>2. CASE c \notin 1..Len(s)
  <2> QED BY <1>2, NoClient, NoneCalm DEF Dial, Sane
<1> QED BY <1>1, <1>2

-----------------------------------------------------------------------------
(* The requests. *)

\* What a step may do to the sessions under a request's feet: a session with a client
\* keeps having one, and one that waits to be registered is let alone.
Framed ==
  /\ made' = made /\ reg' \subseteq reg
  /\ \A x \in Ids : IF cur[x] = 0 THEN cur'[x] = 0 /\ row'[x] = row[x] ELSE cur'[x] # 0

RqTyped == rq \in [Requests -> [pc : Pcs, id : Ids \union {NoHolder}]]

LEMMA Resting == ASSUME IInv, Framed, rq' = rq PROVE Work' /\ RqTyped'
<1>1. \A r \in Requests : rq[r].pc # "idle" => rq[r].id \in Ids
  BY DEF IInv, Typed, Work
<1>2. RqTyped'
  BY DEF IInv, Typed, RqTyped
<1>3. Work'
  BY <1>1, Zenon DEF IInv, Work, Framed
<1> QED BY <1>2, <1>3

LEMMA Requesting ==
  ASSUME IInv, Framed, NEW r \in Requests, rq[r].pc # "register",
         NEW pc \in Pcs \ {"register"}, NEW id \in Ids \union {NoHolder},
         rq' = [rq EXCEPT ![r] = [pc |-> pc, id |-> id]],
         IF pc = "idle" THEN id = NoHolder ELSE id \in made /\ cur'[id] # 0
  PROVE  Work' /\ RqTyped'
<1>1. /\ rq'[r].pc = pc /\ rq'[r].id = id
      /\ \A q \in Requests \ {r} : rq'[q] = rq[q]
  BY DEF IInv, Typed
<1>2. RqTyped'
  BY DEF IInv, Typed, RqTyped
<1>3. id = NoHolder => pc = "idle"
  BY SessionsNames DEF IInv, Typed
<1>4. \A q \in Requests : rq[q].pc # "idle" => rq[q].id \in Ids
  BY DEF IInv, Typed, Work
<1>5. ASSUME NEW q \in Requests
      PROVE  /\ rq'[q].pc = "idle" <=> rq'[q].id = NoHolder
             /\ rq'[q].pc # "idle" => rq'[q].id \in made'
             /\ rq'[q].pc = "register" =>
                  /\ rq'[q].id \notin reg' /\ row'[rq'[q].id] # NoRow /\ cur'[rq'[q].id] = 0
                  /\ \A x \in Requests \ {q} : rq'[x].id # rq'[q].id
             /\ rq'[q].pc \notin {"idle", "register"} => cur'[rq'[q].id] # 0
  <2>1. CASE q = r
    BY <1>1, <1>3, <2>1 DEF Framed
  <2>2. CASE q # r
    <3>1. rq'[q] = rq[q]
      BY <1>1, <2>2
    <3>2. ASSUME rq[q].pc = "register"
          PROVE  /\ rq[q].id \notin reg' /\ row'[rq[q].id] # NoRow /\ cur'[rq[q].id] = 0
                 /\ \A x \in Requests \ {q} : rq'[x].id # rq[q].id
      <4>1. /\ rq[q].id \in Ids /\ rq[q].id # NoHolder
            /\ rq[q].id \notin reg /\ row[rq[q].id] # NoRow /\ cur[rq[q].id] = 0
            /\ \A x \in Requests \ {q} : rq[x].id # rq[q].id
        BY <1>4, <3>2 DEF IInv, Work
      <4>2. rq[q].id \notin reg' /\ row'[rq[q].id] # NoRow /\ cur'[rq[q].id] = 0
        BY <4>1 DEF Framed
      <4>3. id # rq[q].id
        BY <1>3, <4>1, <4>2
      <4> QED BY <1>1, <4>1, <4>2, <4>3
    <3>3. rq[q].pc \notin {"idle", "register"} => cur'[rq[q].id] # 0
      BY <1>4 DEF IInv, Work, Framed
    <3> QED BY <3>1, <3>2, <3>3 DEF IInv, Work, Framed
  <2> QED BY <2>1, <2>2
<1>6. Work'
  BY <1>5, Zenon DEF Work
<1> QED BY <1>2, <1>6

\* A request that is not the deletion of a session leaves the deletions as they are.
LEMMA StillDeleting ==
  ASSUME IInv, NEW r \in Requests, rq[r].pc # "delete", NEW h, rq' = [rq EXCEPT ![r] = h],
         NEW id, Deleting(id)
  PROVE  Deleting(id)'
<1>1. PICK q \in Requests : rq[q].pc = "delete" /\ rq[q].id = id
  BY DEF Deleting, At
<1>2. rq'[q] = rq[q]
  BY <1>1 DEF IInv, Typed
<1> QED BY <1>1, <1>2 DEF Deleting, At

-----------------------------------------------------------------------------
(* The steps that leave the table, the keys and the choice of clients as     *)
(* they are.                                                                 *)

Still == UNCHANGED <<row, keys, reg, cur, made>> /\ used' \in [requests : Nat, devices : Nat, faults : Nat, locks : Nat]
           /\ used'.devices = used.devices
NotOpened == auth' \in [Ids -> Auths] /\ \A id \in Ids : auth'[id] = "open" => auth[id] = "open"

LEMMA CalmKeeps ==
  ASSUME IInv, Still, NotOpened, Alike(cl, cl'), Work', RqTyped',
         \A id \in reg : Seen(cl'[cur[id]]) => Seen(cl[cur[id]]),
         \A id \in reg : Deleting(id) => (\E r \in Requests : rq'[r].pc = "delete" /\ rq'[r].id = id)
  PROVE  IInv'
<1>1. Typed'
  BY DEF IInv, Typed, Still, NotOpened, Alike, RqTyped
<1>2. /\ Len(cl') = Len(cl)
      /\ \A c \in 1..Len(cl) : cl'[c].id = cl[c].id /\ cl'[c].dev = cl[c].dev
  BY DEF Alike
<1>3. Mapped'
  BY <1>2 DEF IInv, Mapped, Still, Current
<1>4. Devices'
  <2>1. \A c \in 1..Len(cl) : cl'[c].dev <= used'.devices
    BY <1>2 DEF IInv, Devices, Still
  <2>2. \A id \in Ids : row'[id] <= used'.devices
    BY DEF IInv, Devices, Still
  <2>3. \A c, e \in 1..Len(cl) : cl'[c].dev # 0 /\ cl'[e].dev = cl'[c].dev => c = e
    BY <1>2, Zenon DEF IInv, Devices
  <2>4. \A c \in 1..Len(cl), id \in Ids : cl'[c].dev # 0 /\ row'[id] = cl'[c].dev => cl'[c].id = id
    <3> SUFFICES ASSUME NEW c \in 1..Len(cl), NEW id \in Ids, cl[c].dev # 0, row[id] = cl[c].dev
                 PROVE  cl[c].id = id
      BY <1>2 DEF Still
    <3> QED BY DEF IInv, Devices
  <2>5. \A a, b \in Ids : row'[a] > 0 /\ row'[a] = row'[b] => a = b
    BY Zenon DEF IInv, Devices, Still
  <2> QED BY <1>2, <2>1, <2>2, <2>3, <2>4, <2>5, Zenon DEF Devices
<1>5. \A id \in reg : id \in Ids /\ cur[id] \in 1..Len(cl)
  BY DEF IInv, Typed, Mapped
<1>6. KeysHeld'
  <2> SUFFICES ASSUME NEW id \in reg
               PROVE  cl'[cur[id]].dev \in keys \union {0}
                        \/ \E r \in Requests : rq'[r].pc = "delete" /\ rq'[r].id = id
    BY DEF KeysHeld, Still, Current, Deleting, At
  <2> QED BY <1>2, <1>5 DEF IInv, KeysHeld, Current
<1>7. Opened'
  <2> SUFFICES ASSUME NEW id \in reg, auth'[id] = "open", Seen(cl'[cur[id]])
               PROVE  row[id] = cl'[cur[id]].dev
    BY DEF Opened, Still, Current
  <2> QED BY <1>2, <1>5 DEF IInv, Opened, Current, NotOpened
<1> QED BY <1>1, <1>3, <1>4, <1>6, <1>7 DEF IInv

\* Without a request, and by one.
LEMMA CalmOther ==
  ASSUME IInv, Still, NotOpened, Calm(cl, cl'), rq' = rq
  PROVE  IInv'
<1>1. Framed
  BY DEF Still, Framed
<1>2. \A id \in reg : Deleting(id) => (\E r \in Requests : rq'[r].pc = "delete" /\ rq'[r].id = id)
  BY DEF Deleting, At
<1>3. \A id \in reg : Seen(cl'[cur[id]]) => Seen(cl[cur[id]])
  BY DEF IInv, Typed, Mapped, Calm
<1> QED BY <1>1, <1>2, <1>3, Resting, CalmKeeps DEF Calm

LEMMA CalmRequest ==
  ASSUME IInv, Still, NotOpened, Calm(cl, cl'),
         NEW r \in Requests, rq[r].pc \notin {"register", "delete"},
         NEW pc \in Pcs \ {"register"}, NEW id \in Ids \union {NoHolder},
         rq' = [rq EXCEPT ![r] = [pc |-> pc, id |-> id]],
         IF pc = "idle" THEN id = NoHolder ELSE id \in made /\ cur[id] # 0
  PROVE  IInv'
<1>1. Framed
  BY DEF Still, Framed
<1>2. Work' /\ RqTyped'
  BY <1>1, Requesting DEF Still
<1>3. ASSUME NEW x \in reg, Deleting(x)
      PROVE  \E q \in Requests : rq'[q].pc = "delete" /\ rq'[q].id = x
  <2>1. Deleting(x)'
    BY <1>3, StillDeleting
  <2> QED BY <2>1 DEF Deleting, At
<1>4. \A x \in reg : Seen(cl'[cur[x]]) => Seen(cl[cur[x]])
  BY DEF IInv, Typed, Mapped, Calm
<1> QED BY <1>2, <1>3, <1>4, CalmKeeps DEF Calm

LEMMA Spends ==
  ASSUME IInv, NEW bound \in {"requests", "faults", "locks"}, NEW max, Spend(bound, max)
  PROVE  /\ used' \in [requests : Nat, devices : Nat, faults : Nat, locks : Nat]
         /\ used'.devices = used.devices
BY DEF IInv, Typed, Spend

LEMMA SetsAuth ==
  ASSUME IInv, NEW a \in Auths, a # "open", NEW id, SetAuth(id, a)
  PROVE  NotOpened
BY DEF IInv, Typed, SetAuth, NotOpened

\* The client of a session.
LEMMA HasClient ==
  ASSUME IInv, NEW id \in Ids, cur[id] # 0
  PROVE  cur[id] \in 1..Len(cl) /\ cl[cur[id]] \in Client /\ Sound(cl[cur[id]]) /\ id \in made
BY DEF IInv, Typed, Mapped, Sane

LEMMA OfRequest ==
  ASSUME IInv, NEW r \in Requests, rq[r].pc \notin {"idle", "register"}
  PROVE  rq[r].id \in Ids /\ rq[r].id \in made /\ cur[rq[r].id] # 0
BY DEF IInv, Typed, Work

\* A request that finishes, and one that goes on.
LEMMA Finishes ==
  ASSUME IInv, Still, NotOpened, Calm(cl, cl'), NEW r \in Requests,
         rq[r].pc \notin {"register", "delete"}, Finish(r)
  PROVE  IInv'
BY CalmRequest DEF Finish, Pcs

LEMMA GoesTo ==
  ASSUME IInv, Still, NotOpened, Calm(cl, cl'), NEW r \in Requests,
         rq[r].pc \notin {"register", "delete"}, NEW pc \in Pcs \ {"idle", "register"},
         NEW id \in Ids, cur[id] # 0, rq' = [rq EXCEPT ![r] = [pc |-> pc, id |-> id]]
  PROVE  IInv'
BY CalmRequest, HasClient

LEMMA IsClient ==
  ASSUME IInv, NEW c \in 1..Len(cl)
  PROVE  /\ cl[c] \in Client /\ Sound(cl[c])
         /\ cl[c].net \in Nets
         /\ cl[c].h \in Events
         /\ cl[c].qr \in Codes
         /\ cl[c].id \in Ids /\ cl[c].dev \in Nat
<1>1. cl[c] \in Client /\ Sound(cl[c])
  BY DEF IInv, Typed, Sane
<1> QED BY <1>1 DEF Client

LEMMA StillRequests ==
  ASSUME IInv, NEW r \in Requests,
         \/ StartPairing(r) \/ StopAuth(r) \/ RestartEnds(r) \/ StartConnect(r)
         \/ \E id \in Ids : StopDisconnect(r, id) \/ StartCheck(r, id)
  PROVE  IInv'
<1>1. Sane(cl) /\ used \in [requests : Nat, devices : Nat, faults : Nat, locks : Nat]
      /\ auth \in [Ids -> Auths] /\ \A id \in reg : id \in Ids /\ cur[id] # 0
  BY DEF IInv, Typed, Mapped
<1>2. CASE StartPairing(r)
  <2> DEFINE c == cur[rq[r].id]
  <2>1. rq[r].pc = "pair" /\ Still /\ NotOpened /\ Finish(r)
        /\ cl' = IF cl[c].dev = 0 /\ ~Connected(c) THEN [cl EXCEPT ![c].net = "qr", ![c].qr = "wait"] ELSE cl
    BY <1>1, <1>2 DEF StartPairing, At, Still, NotOpened
  <2>2. c \in 1..Len(cl) /\ cl[c] \in Client
    BY <2>1, OfRequest, HasClient
  <2>3. cl' = [cl EXCEPT ![c] = Changed(cl[c], "qr", cl[c].h, "wait")] \/ cl' = cl
    BY <2>1, <2>2 DEF Changed, Client
  <2>4. Calm(cl, cl')
    <3>1. MayChange(cl[c], "qr", cl[c].h, "wait")
      BY <2>2, IsClient DEF MayChange, Nets, Codes
    <3> QED BY <1>1, <2>2, <2>3, <3>1, ChangedCalm, NoneCalm
  <2> QED BY <2>1, <2>4, Finishes
<1>3. CASE StopAuth(r)
  <2>1. rq[r].pc = "stopped" /\ Still /\ cl' = cl /\ SetAuth(rq[r].id, "stopped")
        /\ (Finish(r) \/ Go(r, "restart"))
    BY <1>1, <1>3 DEF StopAuth, At, Still
  <2>2. NotOpened /\ Calm(cl, cl')
    BY <1>1, <2>1, SetsAuth, NoneCalm DEF Auths
  <2>3. Finish(r) => IInv'
    BY <2>1, <2>2, Finishes
  <2>4. Go(r, "restart") => rq' = [rq EXCEPT ![r] = [pc |-> "restart", id |-> rq[r].id]]
    BY DEF Go, IInv, Typed
  <2>5. Go(r, "restart") => IInv'
    BY <2>1, <2>2, <2>4, OfRequest, GoesTo DEF Pcs
  <2> QED BY <2>1, <2>3, <2>5
<1>4. CASE RestartEnds(r)
  <2>1. rq[r].pc = "restart" /\ Still /\ cl' = cl /\ NotOpened /\ Finish(r)
    BY <1>1, <1>4 DEF RestartEnds, At, Still, books, NotOpened
  <2> QED BY <1>1, <2>1, NoneCalm, Finishes
<1>5. CASE StartConnect(r)
  <2>1. rq[r].pc = "start" /\ Still /\ NotOpened /\ Finish(r) /\ cl' = Dial(cl, cur[rq[r].id])
    BY <1>1, <1>5 DEF StartConnect, At, Still, NotOpened
  <2> QED BY <1>1, <2>1, DialCalm, Finishes
<1>6. ASSUME NEW id \in Ids, StopDisconnect(r, id) PROVE IInv'
  <2>1. rq[r].pc = "idle" /\ id \in reg /\ Spend("requests", MaxRequests) /\ NotOpened
        /\ cl' \in Disconnects(cl, cur[id]) /\ rq' = [rq EXCEPT ![r] = [pc |-> "stopped", id |-> id]]
    BY <1>1, <1>6 DEF StopDisconnect, Begin, At, NotOpened
  <2>2. Still
    BY <1>6, <2>1, Spends DEF StopDisconnect, Still
  <2> QED BY <1>1, <2>1, <2>2, DisconnectsCalm, GoesTo DEF Pcs
<1>7. ASSUME NEW id \in Ids, StartCheck(r, id) PROVE IInv'
  <2>1. rq[r].pc \in {"idle", "restart"} /\ id \in reg /\ SetAuth(id, "connecting") /\ cl' = cl
        /\ rq' = [rq EXCEPT ![r] = [pc |-> "start", id |-> id]]
    BY <1>7 DEF StartCheck, Starts, Begin, At
  <2>2. Still
    <3>1. Spend("requests", MaxRequests) \/ used' = used
      BY <1>7 DEF StartCheck, Starts, Begin
    <3> QED BY <1>1, <1>7, <3>1, Spends DEF StartCheck, Still
  <2>3. NotOpened
    BY <2>1, SetsAuth DEF Auths
  <2> QED BY <1>1, <2>1, <2>2, <2>3, NoneCalm, GoesTo DEF Pcs
<1> QED BY <1>2, <1>3, <1>4, <1>5, <1>6, <1>7

-----------------------------------------------------------------------------
(* The clients, their events, the migration and the new versions, where no   *)
(* device changes hands.                                                     *)

\* A step of one client of which neither the requests nor the table know.
LEMMA ClientMoves ==
  ASSUME IInv, Still, NotOpened, rq' = rq, NEW c \in 1..Len(cl),
         NEW n, NEW h, NEW q, MayChange(cl[c], n, h, q),
         cl' = [cl EXCEPT ![c] = Changed(cl[c], n, h, q)]
  PROVE  IInv'
<1>1. Sane(cl)
  BY DEF IInv, Typed
<1>2. Calm(cl, cl')
  BY <1>1, ChangedCalm
<1> QED BY <1>2, CalmOther

LEMMA StillWhatsApp ==
  ASSUME IInv, Login \/ Refused \/ StreamReplaced \/ Dropped \/ Reconnect \/ QRExpires
  PROVE  IInv'
<1>1. Sane(cl) /\ used \in [requests : Nat, devices : Nat, faults : Nat, locks : Nat]
      /\ auth \in [Ids -> Auths]
  BY DEF IInv, Typed
<1>2. CASE Login
  <2>1. PICK c \in 1..Len(cl) :
          cl[c].net = "wait" /\ cl' = [cl EXCEPT ![c].net = "on", ![c].h = "connected"]
    BY <1>2 DEF Login, InNet
  <2>2. Still /\ NotOpened /\ rq' = rq
    BY <1>1, <1>2 DEF Login, Still, NotOpened
  <2>3. cl' = [cl EXCEPT ![c] = Changed(cl[c], "on", "connected", cl[c].qr)]
    BY <2>1, IsClient DEF Changed, Client
  <2>9. MayChange(cl[c], "on", "connected", cl[c].qr)
    BY <2>1, IsClient DEF MayChange, Sound, Seen, Nets, Events, Codes
  <2> QED BY <2>2, <2>3, <2>9, ClientMoves
<1>3. ASSUME NEW net, NEW h \in {"outdated", "replaced"}, Fails(net, h) PROVE IInv'
  <2>1. PICK c \in 1..Len(cl) :
          cl' = [cl EXCEPT ![c].net = "off", ![c].h = h, ![c].dev = cl[c].dev]
    BY <1>3 DEF Fails, InNet
  <2>2. Still /\ NotOpened /\ rq' = rq
    BY <1>1, <1>3, Spends DEF Fails, Still, NotOpened
  <2>3. cl' = [cl EXCEPT ![c] = Changed(cl[c], "off", h, cl[c].qr)]
    BY <2>1, IsClient DEF Changed, Client
  <2>9. MayChange(cl[c], "off", h, cl[c].qr)
    BY IsClient DEF MayChange, Sound, Seen, Nets, Events, Codes
  <2> QED BY <2>2, <2>3, <2>9, ClientMoves
<1>4. CASE Dropped
  <2>1. PICK c \in 1..Len(cl) :
          cl[c].net = "on" /\ cl' = [cl EXCEPT ![c].net = IF cl[c].auto THEN "retry" ELSE "off"]
    BY <1>4 DEF Dropped, InNet
  <2>2. Still /\ NotOpened /\ rq' = rq
    BY <1>1, <1>4, Spends DEF Dropped, Still, NotOpened
  <2>3. PICK n \in {"retry", "off"} : cl' = [cl EXCEPT ![c] = Changed(cl[c], n, cl[c].h, cl[c].qr)]
    BY <2>1, IsClient DEF Changed, Client
  <2>4. cl[c].dev # 0
    BY <2>1, IsClient DEF Sound
  <2>9. MayChange(cl[c], n, cl[c].h, cl[c].qr)
    BY <2>4, IsClient DEF MayChange, Sound, Seen, Nets, Events, Codes
  <2> QED BY <2>2, <2>3, <2>9, ClientMoves
<1>5. CASE Reconnect
  <2>1. PICK c \in 1..Len(cl) :
          cl[c].net = "retry" /\ cl' = [cl EXCEPT ![c].net = IF cl[c].auto THEN "wait" ELSE "off"]
    BY <1>5 DEF Reconnect, InNet
  <2>2. Still /\ NotOpened /\ rq' = rq
    BY <1>1, <1>5 DEF Reconnect, Still, NotOpened
  <2>3. PICK n \in {"wait", "off"} : cl' = [cl EXCEPT ![c] = Changed(cl[c], n, cl[c].h, cl[c].qr)]
    BY <2>1, IsClient DEF Changed, Client
  <2>4. cl[c].dev # 0
    BY <2>1, IsClient DEF Sound
  <2>9. MayChange(cl[c], n, cl[c].h, cl[c].qr)
    BY <2>4, IsClient DEF MayChange, Sound, Seen, Nets, Events, Codes
  <2> QED BY <2>2, <2>3, <2>9, ClientMoves
<1>6. CASE QRExpires
  <2>1. PICK c \in 1..Len(cl), q \in Codes :
          cl' = [cl EXCEPT ![c].net = "off", ![c].qr = q]
    <3>1. PICK c \in 1..Len(cl) :
            cl' = [cl EXCEPT ![c].net = "off", ![c].qr = IF cl[c].qr = "wait" THEN "timeout" ELSE cl[c].qr]
      BY <1>6 DEF QRExpires, InNet
    <3> QED BY <3>1, IsClient DEF Codes
  <2>2. Still /\ NotOpened /\ rq' = rq
    BY <1>1, <1>6 DEF QRExpires, Still, NotOpened
  <2>3. cl' = [cl EXCEPT ![c] = Changed(cl[c], "off", cl[c].h, q)]
    BY <2>1, IsClient DEF Changed, Client
  <2>9. MayChange(cl[c], "off", cl[c].h, q)
    BY IsClient DEF MayChange, Sound, Seen, Nets, Events, Codes
  <2> QED BY <2>2, <2>3, <2>9, ClientMoves
<1> QED BY <1>2, <1>3, <1>4, <1>5, <1>6 DEF Refused, StreamReplaced

\* The handlers that write no row.  One that drops the session's client drops the
\* current one, which need not be its own.
LEMMA StillHandlers ==
  ASSUME IInv, HandleConnected \/ HandleDrop \/ HandleLoggedOut \/ HandleReplaced \/ HandleOutdated
                 \/ QRCode \/ QRTimeout
  PROVE  IInv'
<1>1. Sane(cl) /\ used \in [requests : Nat, devices : Nat, faults : Nat, locks : Nat]
      /\ auth \in [Ids -> Auths]
  BY DEF IInv, Typed
<1>2. CASE HandleConnected
  <2>1. PICK c \in 1..Len(cl), h \in {"drop", "open"} :
          cl[c].h = "connected" /\ cl' = [cl EXCEPT ![c].h = h]
    BY <1>2 DEF HandleConnected, Pending
  <2>2. Still /\ NotOpened /\ rq' = rq
    BY <1>1, <1>2 DEF HandleConnected, Still, NotOpened
  <2>3. cl' = [cl EXCEPT ![c] = Changed(cl[c], cl[c].net, h, cl[c].qr)]
    BY <2>1, IsClient DEF Changed, Client
  <2>9. MayChange(cl[c], cl[c].net, h, cl[c].qr)
    BY <2>1, IsClient DEF MayChange, Sound, Seen, Nets, Events, Codes
  <2> QED BY <2>2, <2>3, <2>9, ClientMoves
<1>3. ASSUME NEW c \in 1..Len(cl), cl[c].h \in {"loggedout", "outdated", "replaced"},
             cl' = [cl EXCEPT ![c].h = "idle"], Still, NotOpened, rq' = rq
      PROVE  IInv'
  <2>1. cl' = [cl EXCEPT ![c] = Changed(cl[c], cl[c].net, "idle", cl[c].qr)]
    BY <1>3, IsClient DEF Changed, Client
  <2>2. MayChange(cl[c], cl[c].net, "idle", cl[c].qr)
    BY <1>3, IsClient DEF MayChange, Sound, Seen, Nets, Events, Codes
  <2> QED BY <1>3, <2>1, <2>2, ClientMoves
<1>4. ASSUME NEW h \in {"loggedout", "replaced"}, NEW a \in Auths \ {"open"}, HandleLost(h, a) PROVE IInv'
  <2>1. PICK c \in 1..Len(cl) : cl[c].h = h /\ SetAuth(cl[c].id, a) /\ cl' = [cl EXCEPT ![c].h = "idle"]
    BY <1>4 DEF HandleLost, Pending
  <2>2. Still /\ rq' = rq
    BY <1>1, <1>4 DEF HandleLost, Still
  <2>3. NotOpened
    BY <2>1, SetsAuth
  <2> QED BY <1>3, <2>1, <2>2, <2>3
<1>5. CASE HandleOutdated
  <2>1. PICK c \in 1..Len(cl) : cl[c].h = "outdated" /\ cl' = [cl EXCEPT ![c].h = "idle"]
    BY <1>5 DEF HandleOutdated, Pending
  <2>2. Still /\ NotOpened /\ rq' = rq
    BY <1>1, <1>5 DEF HandleOutdated, Still, NotOpened
  <2> QED BY <1>3, <2>1, <2>2
<1>6. CASE QRCode
  <2>1. PICK c \in 1..Len(cl) : SetAuth(cl[c].id, "qr")
    BY <1>6 DEF QRCode, QRRead
  <2>2. Still /\ rq' = rq /\ cl' = cl
    BY <1>1, <1>6 DEF QRCode, Still
  <2>3. NotOpened
    BY <2>1, SetsAuth DEF Auths
  <2> QED BY <1>1, <2>2, <2>3, NoneCalm, CalmOther
<1>7. CASE QRTimeout
  <2>1. PICK c \in 1..Len(cl) : SetAuth(cl[c].id, "logged_out") /\ cl' = [cl EXCEPT ![c].qr = "none"]
    BY <1>7 DEF QRTimeout, QRRead
  <2>2. Still /\ rq' = rq
    BY <1>1, <1>7 DEF QRTimeout, Still
  <2>3. NotOpened
    BY <2>1, SetsAuth DEF Auths
  <2>4. cl' = [cl EXCEPT ![c] = Changed(cl[c], cl[c].net, cl[c].h, "none")]
    BY <2>1, IsClient DEF Changed, Client
  <2>5. MayChange(cl[c], cl[c].net, cl[c].h, "none")
    BY IsClient DEF MayChange, Sound, Seen, Nets, Events, Codes
  <2> QED BY <2>2, <2>3, <2>4, <2>5, ClientMoves
<1>8. CASE HandleDrop
  <2>1. PICK c \in 1..Len(cl) : cl' \in Disconnects([cl EXCEPT ![c].h = "idle"], cur[cl[c].id])
    BY <1>8 DEF HandleDrop, Pending
  <2>2. Still /\ NotOpened /\ rq' = rq
    BY <1>1, <1>8 DEF HandleDrop, Still, NotOpened
  <2> DEFINE k == [cl[c] EXCEPT !.h = "idle"]
             s == [cl EXCEPT ![c] = k]
  <2>3. k \in Client /\ k.id = cl[c].id /\ k.dev = cl[c].dev /\ Sound(k)
    BY IsClient DEF Client, Sound, Events
  <2> HIDE DEF k
  <2>4. /\ s \in Seq(Client) /\ Len(s) = Len(cl) /\ s[c] = k
        /\ \A e \in 1..Len(cl) : e # c => s[e] = cl[e]
    BY <1>1, <2>3, OneClient DEF Sane
  <2>5. Sane(s) /\ Alike(cl, s)
    BY <1>1, <2>3, <2>4 DEF Sane, Alike
  <2>6. cl' \in Disconnects(s, cur[cl[c].id])
    BY <2>1 DEF k
  <2> HIDE DEF s
  <2>7. Calm(s, cl')
    BY <2>5, <2>6, DisconnectsCalm
  <2>8. Alike(cl, cl')
    BY <2>4, <2>5, <2>7 DEF Alike, Calm
  <2>9. cl[c].id \in Ids /\ cur[cl[c].id] \in 1..Len(cl)
    BY IsClient DEF IInv, Mapped
  <2>10. ASSUME NEW id \in reg, Seen(cl'[cur[id]]) PROVE Seen(cl[cur[id]])
    <3>1. id \in Ids /\ cur[id] \in 1..Len(cl) /\ cl[cur[id]].id = id
      BY DEF IInv, Typed, Mapped, Current
    <3>2. Seen(s[cur[id]])
      BY <2>4, <2>7, <2>10, <3>1 DEF Calm
    <3>3. CASE cur[id] = c
      <4>1. cl'[c].net # "on"
        <5>1. c \in 1..Len(s) /\ s \in Seq(Client) /\ cl' \in Disconnects(s, c)
          BY <2>4, <2>6, <3>1, <3>3
        <5> QED BY <5>1, DisconnectsOff
      <4> QED BY <2>10, <3>3, <4>1 DEF Seen
    <3>4. CASE cur[id] # c
      BY <2>4, <3>1, <3>2, <3>4
    <3> QED BY <3>3, <3>4
  <2>11. Framed /\ \A id \in reg : Deleting(id) => (\E r \in Requests : rq'[r].pc = "delete" /\ rq'[r].id = id)
    BY <2>2 DEF Still, Framed, Deleting, At
  <2> QED BY <2>2, <2>8, <2>10, <2>11, Resting, CalmKeeps
<1> QED BY <1>2, <1>4, <1>5, <1>6, <1>7, <1>8 DEF HandleLoggedOut, HandleReplaced, Auths
\* The migration and the reconnections for a new version.
LEMMA StillMigrator ==
  ASSUME IInv,
         \/ Block \/ MigrationStops \/ Unblock \/ MigrationResumes \/ MigrationOver
         \/ Version \/ NightStart \/ NightEnds
  PROVE  IInv'
<1>1. Sane(cl) /\ used \in [requests : Nat, devices : Nat, faults : Nat, locks : Nat]
      /\ auth \in [Ids -> Auths]
  BY DEF IInv, Typed
<1>2. CASE Block \/ NightStart
  <2>1. rq' = rq /\ cl' = cl /\ NotOpened
    BY <1>1, <1>2 DEF Block, NightStart, books, NotOpened
  <2>2. Still
    BY <1>2, Spends DEF Block, NightStart, books, Still
  <2> QED BY <1>1, <2>1, <2>2, NoneCalm, CalmOther
<1>3. CASE \/ Unblock \/ MigrationOver \/ NightEnds \/ NightTake \/ NightLeave
           \/ \E id \in Ids : RetryTake(id) \/ RetryLeave(id)
  <2>1. UNCHANGED books /\ rq' = rq /\ UNCHANGED <<made, used>>
    BY <1>3 DEF Unblock, MigrationOver, NightEnds, NightTake, NightLeave, RetryTake, RetryLeave
  <2>2. Still /\ NotOpened /\ cl' = cl
    BY <1>1, <2>1 DEF books, Still, NotOpened
  <2> QED BY <1>1, <2>1, <2>2, NoneCalm, CalmOther
<1>4. CASE NightConnect \/ \E id \in Ids : RetryConnect(id)
  <2>1. PICK c : cl' = Dial(cl, c)
    BY <1>4 DEF NightConnect, RetryConnect
  <2>2. Still /\ NotOpened /\ rq' = rq
    BY <1>1, <1>4 DEF NightConnect, RetryConnect, Still, NotOpened
  <2> QED BY <1>1, <2>1, <2>2, DialCalm, CalmOther
<1>5. CASE NightDrop
  <2>1. Still /\ rq' = rq /\ SetAuth(night.on, "connecting") /\ cl' \in Disconnects(cl, cur[night.on])
    BY <1>1, <1>5 DEF NightDrop, Still
  <2>2. NotOpened
    BY <2>1, SetsAuth DEF Auths
  <2> QED BY <1>1, <2>1, <2>2, DisconnectsCalm, CalmOther
<1>6. CASE MigrationStops
  <2>1. PICK id : cl' \in Disconnects([cl EXCEPT ![cur[id]].auto = FALSE], cur[id]) /\ SetAuth(id, "stopped")
    BY <1>6 DEF MigrationStops
  <2>2. Still /\ rq' = rq
    BY <1>1, <1>6 DEF MigrationStops, Still
  <2>3. NotOpened
    BY <2>1, SetsAuth DEF Auths
  <2>4. Calm(cl, [cl EXCEPT ![cur[id]].auto = FALSE])
    BY <1>1, AutoCalm
  <2>5. Calm([cl EXCEPT ![cur[id]].auto = FALSE], cl')
    BY <2>1, <2>4, DisconnectsCalm DEF Calm, Alike
  <2> QED BY <2>2, <2>3, <2>4, <2>5, CalmTwice, CalmOther
<1>7. CASE MigrationResumes
  <2>1. PICK id : IF Current(id).dev = 0 THEN UNCHANGED <<cl, auth>>
                  ELSE /\ cl' = Dial([cl EXCEPT ![cur[id]].auto = TRUE], cur[id])
                       /\ SetAuth(id, "connecting")
    BY <1>7 DEF MigrationResumes
  <2>2. Still /\ rq' = rq
    BY <1>1, <1>7 DEF MigrationResumes, Still
  <2>3. NotOpened
    BY <1>1, <2>1, SetsAuth DEF Auths, NotOpened
  <2>4. Calm(cl, [cl EXCEPT ![cur[id]].auto = TRUE])
    BY <1>1, AutoCalm
  <2>5. Calm([cl EXCEPT ![cur[id]].auto = TRUE], Dial([cl EXCEPT ![cur[id]].auto = TRUE], cur[id]))
    BY <2>4, DialCalm DEF Calm, Alike
  <2>6. Calm(cl, cl')
    BY <1>1, <2>1, <2>4, <2>5, CalmTwice, NoneCalm
  <2> QED BY <2>2, <2>3, <2>6, CalmOther
<1> QED BY <1>2, <1>3, <1>4, <1>5, <1>6, <1>7 DEF Version
-----------------------------------------------------------------------------
(* The requests that register, replace and delete a session. *)

\* A request that goes on, where only its own session is touched.
LEMMA OneRequest ==
  ASSUME IInv, NEW r \in Requests, NEW pc \in Pcs \ {"idle"}, NEW id \in Ids,
         rq' = [rq EXCEPT ![r] = [pc |-> pc, id |-> id]],
         made \subseteq made', id \in made',
         \A q \in Requests \ {r} : rq[q].id # id,
         reg' \subseteq reg \union {id},
         \A x \in Ids \ {id} : cur'[x] = cur[x] /\ row'[x] = row[x],
         IF pc = "register" THEN id \notin reg' /\ row'[id] # NoRow /\ cur'[id] = 0 ELSE cur'[id] # 0
  PROVE  Work' /\ RqTyped'
<1>1. /\ rq'[r].pc = pc /\ rq'[r].id = id
      /\ \A q \in Requests \ {r} : rq'[q] = rq[q]
  BY DEF IInv, Typed
<1>2. RqTyped'
  BY DEF IInv, Typed, RqTyped
<1>3. id # NoHolder
  BY SessionsNames
<1>4. \A q \in Requests : rq[q].pc # "idle" => rq[q].id \in Ids
  BY DEF IInv, Typed, Work
<1>5. ASSUME NEW q \in Requests
      PROVE  /\ rq'[q].pc = "idle" <=> rq'[q].id = NoHolder
             /\ rq'[q].pc # "idle" => rq'[q].id \in made'
             /\ rq'[q].pc = "register" =>
                  /\ rq'[q].id \notin reg' /\ row'[rq'[q].id] # NoRow /\ cur'[rq'[q].id] = 0
                  /\ \A x \in Requests \ {q} : rq'[x].id # rq'[q].id
             /\ rq'[q].pc \notin {"idle", "register"} => cur'[rq'[q].id] # 0
  <2>1. CASE q = r
    BY <1>1, <1>3, <2>1
  <2>2. CASE q # r
    <3>1. rq'[q] = rq[q] /\ rq[q].id # id
      BY <1>1, <2>2
    <3>2. ASSUME rq[q].pc # "idle" PROVE rq[q].id \in Ids \ {id}
      BY <1>4, <3>1, <3>2
    <3>3. ASSUME rq[q].pc = "register"
          PROVE  /\ rq[q].id \notin reg' /\ row'[rq[q].id] # NoRow /\ cur'[rq[q].id] = 0
                 /\ \A x \in Requests \ {q} : rq'[x].id # rq[q].id
      <4>1. /\ rq[q].id \notin reg /\ row[rq[q].id] # NoRow /\ cur[rq[q].id] = 0
            /\ \A x \in Requests \ {q} : rq[x].id # rq[q].id
        BY <3>3 DEF IInv, Work
      <4> QED BY <1>1, <3>1, <3>2, <3>3, <4>1
    <3>4. rq[q].pc \notin {"idle", "register"} => cur'[rq[q].id] # 0
      BY <3>2 DEF IInv, Work
    <3>5. /\ rq[q].pc = "idle" <=> rq[q].id = NoHolder
          /\ rq[q].pc # "idle" => rq[q].id \in made'
      BY DEF IInv, Work
    <3> QED BY <3>1, <3>3, <3>4, <3>5
  <2> QED BY <2>1, <2>2
<1>6. Work'
  BY <1>5, Zenon DEF Work
<1> QED BY <1>2, <1>6

\* What is deleted goes on being deleted; the bound of devices stays.
StillDeleted == \A x \in reg' : Deleting(x) => \E q \in Requests : rq'[q].pc = "delete" /\ rq'[q].id = x
StillUsed == used' \in [requests : Nat, devices : Nat, faults : Nat, locks : Nat] /\ used'.devices = used.devices
\* A session gets a new client, which has no device.
LEMMA NewClientKeeps ==
  ASSUME IInv, NEW id \in made, NEW s, Calm(cl, s), cl' = Append(s, NewClient(id, 0)),
         cur' = [cur EXCEPT ![id] = Len(cl')], UNCHANGED <<row, keys, made>>, StillUsed,
         reg' = reg \/ (reg' = reg \union {id} /\ row[id] # NoRow),
         NotOpened, Work', RqTyped', StillDeleted
  PROVE  IInv'
<1> DEFINE k == NewClient(id, 0)
<1>1. /\ k \in Client /\ Sound(k)
      /\ k.id = id /\ k.dev = 0 /\ k.net = "off" /\ id \in Ids
  BY DEF NewClient, Client, Nets, Events, Codes, Sound, IInv, Typed
<1>2. /\ cl \in Seq(Client) /\ s \in Seq(Client) /\ Len(s) = Len(cl) /\ Len(cl) \in Nat
      /\ \A c \in 1..Len(s) : Sound(s[c])
      /\ \A c \in 1..Len(cl) : /\ s[c].id = cl[c].id /\ s[c].dev = cl[c].dev
                               /\ Seen(s[c]) => Seen(cl[c])
  <2>1. Sane(cl) /\ Sane(s) /\ Len(s) = Len(cl)
    BY DEF Calm, Alike, IInv, Typed
  <2>2. \A c \in 1..Len(cl) : s[c].id = cl[c].id /\ s[c].dev = cl[c].dev /\ (Seen(s[c]) => Seen(cl[c]))
    BY DEF Calm, Alike
  <2> QED BY <2>1, <2>2 DEF Sane
<1> HIDE DEF k
<1>3. /\ cl' \in Seq(Client) /\ Len(cl') = Len(cl) + 1 /\ cl'[Len(cl) + 1] = k
      /\ \A c \in 1..Len(cl) : cl'[c] = s[c]
  <2>1. cl' = Append(s, k)
    BY DEF k
  <2> QED BY <1>1, <1>2, <2>1, AppendProperties
<1>4. Sane(cl')
  <2> SUFFICES ASSUME NEW c \in 1..Len(cl') PROVE Sound(cl'[c])
    BY <1>3 DEF Sane
  <2>1. c \in 1..Len(cl) \/ c = Len(cl) + 1
    BY <1>2, <1>3
  <2> QED BY <1>1, <1>2, <1>3, <2>1
<1>5. cur' \in [Ids -> Nat] /\ cur'[id] = Len(cl) + 1 /\ \A x \in Ids \ {id} : cur'[x] = cur[x]
  BY <1>1, <1>2, <1>3 DEF IInv, Typed
<1>6. Typed'
  BY <1>4, <1>5 DEF IInv, Typed, StillUsed, NotOpened, RqTyped
<1>7. \A c \in 1..Len(cl') : c \in 1..Len(cl) \/ c = Len(cl) + 1
  BY <1>2, <1>3
<1>8. \A c \in 1..Len(cl) : cl[c].id \in Ids
  BY IsClient
<1>9. Mapped'
  <2>1. \A x \in Ids : cur'[x] # 0 => cur'[x] \in 1..Len(cl') /\ cl'[cur'[x]].id = x
    <3> SUFFICES ASSUME NEW x \in Ids, cur'[x] # 0 PROVE cur'[x] \in 1..Len(cl') /\ cl'[cur'[x]].id = x
      OBVIOUS
    <3>1. CASE x = id
      BY <1>1, <1>2, <1>3, <1>5, <3>1
    <3>2. CASE x # id
      <4>1. cur'[x] \in 1..Len(cl) /\ cl[cur'[x]].id = x
        BY <1>5, <3>2 DEF IInv, Mapped, Current
      <4> QED BY <1>2, <1>3, <4>1
    <3> QED BY <3>1, <3>2
  <2>2. \A c \in 1..Len(cl') : cur'[cl'[c].id] # 0
    <3> SUFFICES ASSUME NEW c \in 1..Len(cl') PROVE cur'[cl'[c].id] # 0
      OBVIOUS
    <3>1. CASE c = Len(cl) + 1
      BY <1>1, <1>2, <1>3, <1>5, <3>1
    <3>2. CASE c \in 1..Len(cl)
      <4>1. cl'[c].id \in Ids /\ cur[cl'[c].id] # 0
        BY <1>2, <1>3, <1>8, <3>2 DEF IInv, Mapped
      <4> QED BY <1>2, <1>5, <4>1
    <3> QED BY <1>7, <3>1, <3>2
  <2>3. \A x \in reg' : cur'[x] # 0 /\ row'[x] # NoRow
    <3> SUFFICES ASSUME NEW x \in reg' PROVE cur'[x] # 0 /\ row[x] # NoRow
      OBVIOUS
    <3>1. CASE x = id
      BY <1>2, <1>5, <3>1 DEF IInv, Mapped
    <3>2. CASE x # id
      BY <1>5, <3>2 DEF IInv, Typed, Mapped
    <3> QED BY <3>1, <3>2
  <2>4. \A x \in Ids : cur'[x] # 0 \/ row'[x] # NoRow => x \in made'
    BY <1>5 DEF IInv, Mapped
  <2> QED BY <2>1, <2>2, <2>3, <2>4 DEF Mapped, Current
<1>10. Devices'
  <2>1. \A c \in 1..Len(cl') : cl'[c].dev <= used'.devices
    <3> SUFFICES ASSUME NEW c \in 1..Len(cl') PROVE cl'[c].dev <= used.devices
      BY DEF StillUsed
    <3>1. used.devices \in Nat /\ \A e \in 1..Len(cl) : cl[e].dev <= used.devices
      BY DEF IInv, Devices, Typed
    <3>2. CASE c = Len(cl) + 1
      BY <1>1, <1>3, <3>1, <3>2
    <3>3. CASE c \in 1..Len(cl)
      BY <1>2, <1>3, <3>1, <3>3
    <3> QED BY <1>7, <3>2, <3>3
  <2>2. \A x \in Ids : row'[x] <= used'.devices
    BY DEF IInv, Devices, StillUsed
  <2>3. \A c \in 1..Len(cl') : cl'[c].dev # 0 =>
          c \in 1..Len(cl) /\ cl'[c].dev = cl[c].dev /\ cl'[c].id = cl[c].id
    BY <1>1, <1>2, <1>3, <1>7
  <2>4. \A c, e \in 1..Len(cl') : cl'[c].dev # 0 /\ cl'[e].dev = cl'[c].dev => c = e
    <3> SUFFICES ASSUME NEW c \in 1..Len(cl'), NEW e \in 1..Len(cl'), cl'[c].dev # 0, cl'[e].dev = cl'[c].dev
                 PROVE  c = e
      OBVIOUS
    <3>1. /\ c \in 1..Len(cl) /\ e \in 1..Len(cl) /\ cl[c].dev # 0 /\ cl[e].dev = cl[c].dev
      BY <2>3
    <3> QED BY <3>1 DEF IInv, Devices
  <2>5. \A c \in 1..Len(cl'), x \in Ids : cl'[c].dev # 0 /\ row'[x] = cl'[c].dev => cl'[c].id = x
    <3> SUFFICES ASSUME NEW c \in 1..Len(cl'), NEW x \in Ids, cl'[c].dev # 0, row[x] = cl'[c].dev
                 PROVE  cl'[c].id = x
      OBVIOUS
    <3>1. c \in 1..Len(cl) /\ cl[c].dev # 0 /\ row[x] = cl[c].dev /\ cl'[c].id = cl[c].id
      BY <2>3
    <3> QED BY <3>1 DEF IInv, Devices
  <2>6. \A a, b \in Ids : row'[a] > 0 /\ row'[a] = row'[b] => a = b
    BY Zenon DEF IInv, Devices
  <2> QED BY <2>1, <2>2, <2>4, <2>5, <2>6, Zenon DEF Devices
<1>11. ASSUME NEW x \in reg', x # id
       PROVE  x \in reg /\ cur'[x] = cur[x] /\ cur[x] \in 1..Len(cl) /\ cl'[cur'[x]].dev = cl[cur[x]].dev
                /\ (Seen(cl'[cur'[x]]) => Seen(cl[cur[x]]))
  <2>1. x \in reg /\ x \in Ids /\ cur'[x] = cur[x] /\ cur[x] \in 1..Len(cl)
    BY <1>5, <1>11 DEF IInv, Typed, Mapped
  <2> QED BY <1>2, <1>3, <2>1
<1>12. KeysHeld'
  <2> SUFFICES ASSUME NEW x \in reg'
               PROVE  cl'[cur'[x]].dev \in keys' \union {0}
                        \/ \E q \in Requests : rq'[q].pc = "delete" /\ rq'[q].id = x
    BY DEF KeysHeld, Current, Deleting, At
  <2>1. CASE x = id
    BY <1>1, <1>3, <1>5, <2>1
  <2>2. CASE x # id
    BY <1>11, <2>2 DEF IInv, KeysHeld, Current, StillDeleted
  <2> QED BY <2>1, <2>2
<1>13. Opened'
  <2> SUFFICES ASSUME NEW x \in reg', auth'[x] = "open", Seen(cl'[cur'[x]])
               PROVE  row[x] = cl'[cur'[x]].dev
    BY DEF Opened, Current
  <2>1. x # id
    BY <1>1, <1>3, <1>5 DEF Seen
  <2>2. x \in reg /\ x \in Ids /\ auth[x] = "open"
    BY <1>11, <2>1 DEF NotOpened, IInv, Typed
  <2> QED BY <1>11, <2>1, <2>2 DEF IInv, Opened, Current
<1> QED BY <1>6, <1>9, <1>10, <1>12, <1>13 DEF IInv
\* The row of a session that has a client is written or deleted: it names the device
\* of the session's client, or less than before.
LEMMA RowKeeps ==
  ASSUME IInv, NEW id \in Ids, cur[id] # 0, NEW d \in {NoRow, 0, row[id], Current(id).dev},
         row' = [row EXCEPT ![id] = d],
         d = NoRow => id \notin reg', row[id] = NoRow => d = NoRow,
         UNCHANGED <<keys, cur, made>>, StillUsed, reg' \subseteq reg, auth' \in [Ids -> Auths],
         Alike(cl, cl'),
         \A x \in reg' \ {id} : /\ auth'[x] = "open" => auth[x] = "open"
                                /\ Seen(cl'[cur[x]]) => Seen(cl[cur[x]]),
         id \in reg' /\ auth'[id] = "open" /\ Seen(cl'[cur[id]]) => d = Current(id).dev,
         Work', RqTyped', StillDeleted
  PROVE  IInv'
<1>1. /\ Len(cl') = Len(cl)
      /\ \A c \in 1..Len(cl) : cl'[c].id = cl[c].id /\ cl'[c].dev = cl[c].dev
  BY DEF Alike
<1>2. /\ cur[id] \in 1..Len(cl) /\ cl[cur[id]].id = id /\ cl[cur[id]].dev \in Nat /\ id \in made
  BY IsClient DEF IInv, Mapped, Current
<1>3. /\ row \in [Ids -> {NoRow} \union Nat] /\ used.devices \in Nat
      /\ d \in {NoRow} \union Nat /\ row'[id] = d /\ \A x \in Ids \ {id} : row'[x] = row[x]
      /\ row' \in [Ids -> {NoRow} \union Nat]
  BY <1>2 DEF IInv, Typed, Current
<1>4. Typed'
  <2>1. Sane(cl')
    BY DEF Alike
  <2> QED BY <1>3, <2>1 DEF IInv, Typed, StillUsed, RqTyped
<1>5. Mapped'
  <2>1. \A x \in Ids : cur[x] # 0 => cur[x] \in 1..Len(cl') /\ cl'[cur[x]].id = x
    BY <1>1 DEF IInv, Mapped, Current
  <2>2. \A c \in 1..Len(cl') : cur[cl'[c].id] # 0
    BY <1>1 DEF IInv, Mapped
  <2>3. \A x \in reg' : cur[x] # 0 /\ row'[x] # NoRow
    <3> SUFFICES ASSUME NEW x \in reg' PROVE cur[x] # 0 /\ row'[x] # NoRow
      OBVIOUS
    <3>1. x \in Ids /\ cur[x] # 0 /\ row[x] # NoRow
      BY DEF IInv, Mapped, Typed
    <3> QED BY <1>3, <3>1
  <2>4. \A x \in Ids : cur[x] # 0 \/ row'[x] # NoRow => x \in made
    BY <1>2, <1>3 DEF IInv, Mapped
  <2> QED BY <2>1, <2>2, <2>3, <2>4 DEF Mapped, Current
<1>6. d > 0 => d = row[id] \/ d = Current(id).dev
  BY <1>3 DEF NoRow
<1>7. Devices'
  <2>1. \A c \in 1..Len(cl') : cl'[c].dev <= used'.devices
    BY <1>1 DEF IInv, Devices, StillUsed
  <2>2. \A x \in Ids : row'[x] <= used'.devices
    <3>1. row[id] <= used.devices /\ Current(id).dev <= used.devices
      BY <1>2 DEF IInv, Devices, Current
    <3>2. d <= used.devices
      BY <1>3, <3>1 DEF NoRow
    <3> QED BY <1>3, <3>2 DEF IInv, Devices, StillUsed
  <2>3. \A c, e \in 1..Len(cl') : cl'[c].dev # 0 /\ cl'[e].dev = cl'[c].dev => c = e
    BY <1>1, Zenon DEF IInv, Devices
  <2>4. ASSUME NEW c \in 1..Len(cl), NEW x \in Ids, cl[c].dev # 0, row'[x] = cl[c].dev PROVE cl[c].id = x
    <3>1. CASE row'[x] = row[x]
      BY <2>4, <3>1 DEF IInv, Devices
    <3>2. CASE x = id /\ d # row[id]
      <4>1. d > 0
        BY <1>3, <2>4, <3>2, IsClient
      <4>2. cl[cur[id]].dev = cl[c].dev
        BY <1>3, <1>6, <2>4, <3>2, <4>1 DEF Current
      <4>3. cur[id] = c
        BY <1>2, <2>4, <4>2 DEF IInv, Devices
      <4> QED BY <1>2, <3>2, <4>3
    <3> QED BY <1>3, <3>1, <3>2
  <2>5. ASSUME NEW a \in Ids, NEW b \in Ids, row'[a] > 0, row'[a] = row'[b], a # b PROVE FALSE
    <3>1. ASSUME NEW x \in Ids \ {id}, d > 0, row[x] = d PROVE FALSE
      <4>1. CASE d = row[id]
        BY <3>1, <4>1 DEF IInv, Devices
      <4>2. CASE d = Current(id).dev
        <5>1. cl[cur[id]].dev # 0 /\ row[x] = cl[cur[id]].dev
          BY <1>2, <3>1, <4>2 DEF Current
        <5>2. cl[cur[id]].id = x
          BY <1>2, <5>1 DEF IInv, Devices
        <5> QED BY <1>2, <3>1, <5>2
      <4> QED BY <1>6, <3>1, <4>1, <4>2
    <3>2. CASE a # id /\ b # id
      BY <1>3, <2>5, <3>2 DEF IInv, Devices
    <3>3. CASE a = id
      BY <1>3, <2>5, <3>1, <3>3
    <3>4. CASE b = id
      BY <1>3, <2>5, <3>1, <3>4
    <3> QED BY <3>2, <3>3, <3>4
  <2> QED BY <1>1, <2>1, <2>2, <2>3, <2>4, <2>5, Zenon DEF Devices
<1>8. \A x \in reg' : x \in reg /\ x \in Ids /\ cur[x] \in 1..Len(cl)
  BY DEF IInv, Typed, Mapped
<1>9. KeysHeld'
  <2> SUFFICES ASSUME NEW x \in reg'
               PROVE  cl'[cur[x]].dev \in keys \union {0}
                        \/ \E q \in Requests : rq'[q].pc = "delete" /\ rq'[q].id = x
    BY DEF KeysHeld, Current, Deleting, At
  <2> QED BY <1>1, <1>8 DEF IInv, KeysHeld, Current, StillDeleted
<1>10. Opened'
  <2> SUFFICES ASSUME NEW x \in reg', auth'[x] = "open", Seen(cl'[cur[x]])
               PROVE  row'[x] = cl'[cur[x]].dev
    BY DEF Opened, Current
  <2>1. CASE x = id
    BY <1>1, <1>2, <1>3, <2>1 DEF Current
  <2>2. CASE x # id
    <3>1. row[x] = cl[cur[x]].dev
      BY <1>8, <2>2 DEF IInv, Opened, Current
    <3> QED BY <1>1, <1>3, <1>8, <2>2, <3>1
  <2> QED BY <2>1, <2>2
<1> QED BY <1>4, <1>5, <1>7, <1>9, <1>10 DEF IInv

\* The keys of a device go: with the client that has it, or of a session that is being
\* deleted.
LEMMA KeysGo ==
  ASSUME IInv, UNCHANGED <<row, reg, cur, made>>, StillUsed, NotOpened,
         Sane(cl'), Len(cl') = Len(cl),
         \A c \in 1..Len(cl) : /\ cl'[c].id = cl[c].id
                               /\ cl'[c] # cl[c] => cl'[c].dev = 0 /\ ~Seen(cl'[c]),
         NEW d, keys' = keys \ {d},
         \A x \in reg : cl'[cur[x]].dev = d => d = 0 \/ \E q \in Requests : rq'[q].pc = "delete" /\ rq'[q].id = x,
         Work', RqTyped', StillDeleted
  PROVE  IInv'
<1>1. Typed'
  BY DEF IInv, Typed, StillUsed, NotOpened, RqTyped
<1>2. Mapped'
  BY DEF IInv, Mapped, Current
<1>3. \A c \in 1..Len(cl) : cl'[c].dev # 0 => cl'[c] = cl[c]
  OBVIOUS
<1>4. Devices'
  <2>1. \A c \in 1..Len(cl') : cl'[c].dev <= used'.devices
    <3> SUFFICES ASSUME NEW c \in 1..Len(cl) PROVE cl'[c].dev <= used.devices
      BY DEF StillUsed
    <3>1. cl'[c].dev = 0 \/ cl'[c] = cl[c]
      OBVIOUS
    <3>2. used.devices \in Nat /\ cl[c].dev <= used.devices
      BY DEF IInv, Typed, Devices
    <3> QED BY <3>1, <3>2
  <2>2. \A x \in Ids : row'[x] <= used'.devices
    BY DEF IInv, Devices, StillUsed
  <2>3. \A c, e \in 1..Len(cl') : cl'[c].dev # 0 /\ cl'[e].dev = cl'[c].dev => c = e
    <3> SUFFICES ASSUME NEW c \in 1..Len(cl), NEW e \in 1..Len(cl), cl'[c].dev # 0, cl'[e].dev = cl'[c].dev
                 PROVE  c = e
      OBVIOUS
    <3>1. cl'[c] = cl[c] /\ cl'[e] = cl[e]
      BY <1>3
    <3> QED BY <3>1 DEF IInv, Devices
  <2>4. \A c \in 1..Len(cl'), x \in Ids : cl'[c].dev # 0 /\ row'[x] = cl'[c].dev => cl'[c].id = x
    <3> SUFFICES ASSUME NEW c \in 1..Len(cl), NEW x \in Ids, cl'[c].dev # 0, row[x] = cl'[c].dev
                 PROVE  cl[c].id = x
      OBVIOUS
    <3>1. cl'[c] = cl[c]
      BY <1>3
    <3> QED BY <3>1 DEF IInv, Devices
  <2>5. \A a, b \in Ids : row'[a] > 0 /\ row'[a] = row'[b] => a = b
    BY Zenon DEF IInv, Devices
  <2> QED BY <2>1, <2>2, <2>3, <2>4, <2>5, Zenon DEF Devices
<1>5. \A x \in reg : x \in Ids /\ cur[x] \in 1..Len(cl)
  BY DEF IInv, Typed, Mapped
<1>6. KeysHeld'
  <2> SUFFICES ASSUME NEW x \in reg
               PROVE  cl'[cur[x]].dev \in keys' \union {0}
                        \/ \E q \in Requests : rq'[q].pc = "delete" /\ rq'[q].id = x
    BY DEF KeysHeld, Current, Deleting, At
  <2>1. CASE cl'[cur[x]].dev = 0
    BY <2>1
  <2>2. CASE cl'[cur[x]].dev # 0
    <3>1. cl'[cur[x]] = cl[cur[x]]
      BY <1>3, <1>5, <2>2
    <3> QED BY <1>5, <2>2, <3>1 DEF IInv, KeysHeld, Current, StillDeleted
  <2> QED BY <2>1, <2>2
<1>7. Opened'
  <2> SUFFICES ASSUME NEW x \in reg, auth'[x] = "open", Seen(cl'[cur[x]])
               PROVE  row[x] = cl'[cur[x]].dev
    BY DEF Opened, Current
  <2>1. cl'[cur[x]] = cl[cur[x]]
    BY <1>5
  <2> QED BY <1>5, <2>1 DEF IInv, Opened, Current, NotOpened
<1> QED BY <1>1, <1>2, <1>4, <1>6, <1>7 DEF IInv
LEMMA OthersDeleted ==
  ASSUME IInv, NEW r \in Requests, rq[r].pc # "delete", NEW h, rq' = [rq EXCEPT ![r] = h]
  PROVE  StillDeleted
<1> SUFFICES ASSUME NEW x \in reg', Deleting(x)
             PROVE  \E q \in Requests : rq'[q].pc = "delete" /\ rq'[q].id = x
  BY DEF StillDeleted
<1>1. Deleting(x)'
  BY StillDeleting
<1> QED BY <1>1 DEF Deleting, At

LEMMA Goes ==
  ASSUME IInv, NEW r \in Requests, NEW pc, Go(r, pc)
  PROVE  rq' = [rq EXCEPT ![r] = [pc |-> pc, id |-> rq[r].id]]
<1>1. rq[r] \in [pc : Pcs, id : Ids \union {NoHolder}]
  BY DEF IInv, Typed
<1>2. [rq[r] EXCEPT !.pc = pc] = [pc |-> pc, id |-> rq[r].id]
  BY <1>1
<1>3. rq' = [rq EXCEPT ![r] = [rq[r] EXCEPT !.pc = pc]]
  BY DEF Go
<1> QED BY <1>2, <1>3

LEMMA BeginsUsed == ASSUME IInv, NEW r, Begin(r) PROVE StillUsed /\ rq[r].pc = "idle"
BY Spends DEF Begin, At, StillUsed

\* A new client without a device for a session that has one already.
LEMMA Replaces ==
  ASSUME IInv, NEW r \in Requests, rq[r].pc \notin {"register", "delete"},
         NEW pc \in Pcs \ {"idle", "register"}, NEW id \in Ids, cur[id] # 0,
         NEW s \in Disconnects(cl, cur[id]), cl' = Append(s, NewClient(id, 0)),
         cur' = [cur EXCEPT ![id] = Len(cl')], rq' = [rq EXCEPT ![r] = [pc |-> pc, id |-> id]],
         UNCHANGED <<row, keys, reg, auth, made>>, StillUsed
  PROVE  IInv'
<1>2. Calm(cl, s) /\ id \in made
  BY HasClient, DisconnectsCalm DEF IInv, Typed
<1>3. Len(cl') > 0
  <2>1. s \in Seq(Client) /\ NewClient(id, 0) \in Client
    BY <1>2 DEF Calm, Alike, Sane, NewClient, Client, Nets, Events, Codes
  <2> QED BY <2>1, AppendProperties
<1>4. Framed /\ cur'[id] # 0
  BY <1>3 DEF Framed, IInv, Typed
<1>5. Work' /\ RqTyped'
  BY <1>2, <1>4, Requesting
<1>6. NotOpened
  BY DEF NotOpened, IInv, Typed
<1>7. StillDeleted
  BY OthersDeleted
<1>8. UNCHANGED <<row, keys, made>>
  OBVIOUS
<1>9. reg' = reg
  OBVIOUS
<1> QED BY <1>2, <1>5, <1>6, <1>7, <1>8, <1>9, NewClientKeeps

LEMMA StepPairReplace ==
  ASSUME IInv, NEW r \in Requests, NEW id \in Ids, PairReplace(r, id) PROVE IInv'
<1>1. rq[r].pc \in {"idle", "restart"} /\ StillUsed /\ id \in reg
  BY BeginsUsed DEF PairReplace, Starts, At, StillUsed, IInv, Typed
<1>2. cur[id] # 0
  BY <1>1 DEF IInv, Mapped
<1>3. PICK s \in Disconnects(cl, cur[id]) : cl' = Append(s, NewClient(id, 0))
  BY DEF PairReplace
<1>4. /\ cur' = [cur EXCEPT ![id] = Len(cl')] /\ rq' = [rq EXCEPT ![r] = [pc |-> "pair", id |-> id]]
      /\ UNCHANGED <<row, keys, reg, auth, made>>
  BY DEF PairReplace
<1>5. "pair" \in Pcs \ {"idle", "register"} /\ rq[r].pc \notin {"register", "delete"}
  BY <1>1 DEF Pcs
<1> QED BY <1>1, <1>2, <1>3, <1>4, <1>5, Replaces

LEMMA StepLogoutReplace ==
  ASSUME IInv, NEW r \in Requests, LogoutReplace(r) PROVE IInv'
<1>1. rq[r].pc = "replace" /\ StillUsed
  BY DEF LogoutReplace, At, StillUsed, IInv, Typed
<1>2. rq[r].id \in Ids /\ cur[rq[r].id] # 0
  BY <1>1, OfRequest
<1>3. rq' = [rq EXCEPT ![r] = [pc |-> "clear", id |-> rq[r].id]]
  BY Goes DEF LogoutReplace
<1>4. PICK s \in Disconnects(cl, cur[rq[r].id]) : cl' = Append(s, NewClient(rq[r].id, 0))
  BY DEF LogoutReplace
<1>5. cur' = [cur EXCEPT ![rq[r].id] = Len(cl')] /\ UNCHANGED <<row, keys, reg, auth, made>>
  BY DEF LogoutReplace
<1>6. "clear" \in Pcs \ {"idle", "register"} /\ rq[r].pc \notin {"register", "delete"}
  BY <1>1 DEF Pcs
<1> QED BY <1>1, <1>2, <1>3, <1>4, <1>5, <1>6, Replaces

LEMMA StepCreateRegister ==
  ASSUME IInv, NEW r \in Requests, CreateRegister(r) PROVE IInv'
<1> DEFINE id == rq[r].id
<1>1. /\ rq[r].pc = "register" /\ StillUsed /\ UNCHANGED <<row, keys, made>>
      /\ cl' = Append(cl, NewClient(id, 0)) /\ cur' = [cur EXCEPT ![id] = Len(cl')]
      /\ reg' = reg \union {id} /\ SetAuth(id, "connecting")
  BY DEF CreateRegister, At, StillUsed, IInv, Typed
<1>2. /\ id \in made /\ id \in Ids /\ row[id] # NoRow
      /\ \A q \in Requests \ {r} : rq[q].id # id
  BY <1>1 DEF IInv, Work, Typed
<1>3. rq' = [rq EXCEPT ![r] = [pc |-> "pair", id |-> id]]
  BY Goes DEF CreateRegister
<1>4. Sane(cl) /\ cur \in [Ids -> Nat]
  BY DEF IInv, Typed
<1> HIDE DEF id
<1>5. Len(cl') > 0
  <2>1. cl \in Seq(Client) /\ NewClient(id, 0) \in Client
    BY <1>2, <1>4 DEF Sane, NewClient, Client, Nets, Events, Codes
  <2> QED BY <1>1, <2>1, AppendProperties
<1>6. cur'[id] # 0 /\ \A x \in Ids \ {id} : cur'[x] = cur[x] /\ row'[x] = row[x]
  BY <1>1, <1>2, <1>4, <1>5
<1>7. Work' /\ RqTyped'
  <2>1. "pair" \in Pcs \ {"idle"} /\ "pair" # "register"
    BY DEF Pcs
  <2>2. made \subseteq made' /\ id \in made' /\ reg' \subseteq reg \union {id}
    BY <1>1, <1>2
  <2> QED BY <1>2, <1>3, <1>6, <2>1, <2>2, OneRequest
<1>8. NotOpened
  BY <1>1, SetsAuth DEF Auths
<1>9. StillDeleted
  BY <1>1, <1>3, OthersDeleted
<1>10. Calm(cl, cl)
  BY <1>4, NoneCalm
<1> QED BY <1>1, <1>2, <1>7, <1>8, <1>9, <1>10, NewClientKeeps

LEMMA StepCreateInsert ==
  ASSUME IInv, NEW r \in Requests, NEW id \in Ids, CreateInsert(r, id) PROVE IInv'
<1>1. /\ rq[r].pc = "idle" /\ StillUsed /\ UNCHANGED <<keys, reg, cur, auth, cl>>
      /\ id \notin made /\ made' = made \union {id} /\ row' = [row EXCEPT ![id] = 0]
      /\ rq' = [rq EXCEPT ![r] = [pc |-> "register", id |-> id]]
  BY BeginsUsed DEF CreateInsert
<1>2. cur[id] = 0 /\ row[id] = NoRow /\ id \notin reg
  BY <1>1 DEF IInv, Mapped, Typed
<1>3. row' \in [Ids -> {NoRow} \union Nat] /\ row'[id] = 0 /\ \A x \in Ids \ {id} : row'[x] = row[x]
  BY <1>1 DEF IInv, Typed
<1>4. Work' /\ RqTyped'
  <2>1. \A q \in Requests \ {r} : rq[q].id # id
    BY <1>1, SessionsNames DEF IInv, Work
  <2>2. made \subseteq made' /\ id \in made' /\ reg' \subseteq reg \union {id}
    BY <1>1
  <2>3. "register" \in Pcs \ {"idle"}
    BY DEF Pcs
  <2>4. id \notin reg' /\ row'[id] # NoRow /\ cur'[id] = 0
    BY <1>1, <1>2, <1>3 DEF NoRow
  <2>5. \A x \in Ids \ {id} : cur'[x] = cur[x] /\ row'[x] = row[x]
    BY <1>1, <1>3
  <2> QED BY <1>1, <2>1, <2>2, <2>3, <2>4, <2>5, OneRequest
<1>5. Typed'
  BY <1>1, <1>3, <1>4 DEF IInv, Typed, StillUsed, RqTyped
<1>6. Mapped'
  BY <1>1, <1>3 DEF IInv, Mapped, Current, NoRow
<1>7. Devices'
  <2>1. \A c \in 1..Len(cl) : cl[c].dev <= used'.devices
    BY <1>1 DEF IInv, Devices, StillUsed
  <2>2. \A x \in Ids : row'[x] <= used'.devices
    BY <1>1, <1>3 DEF IInv, Typed, Devices, StillUsed
  <2>3. \A c \in 1..Len(cl), x \in Ids : cl[c].dev # 0 /\ row'[x] = cl[c].dev => cl[c].id = x
    BY <1>3 DEF IInv, Devices
  <2>4. \A a, b \in Ids : row'[a] > 0 /\ row'[a] = row'[b] => a = b
    BY <1>3 DEF IInv, Devices
  <2>5. \A c, e \in 1..Len(cl) : cl[c].dev # 0 /\ cl[e].dev = cl[c].dev => c = e
    BY Zenon DEF IInv, Devices
  <2> QED BY <1>1, <2>1, <2>2, <2>3, <2>4, <2>5, Zenon DEF Devices
<1>8. KeysHeld'
  <2>1. StillDeleted
    BY <1>1, OthersDeleted
  <2> QED BY <1>1, <2>1 DEF IInv, KeysHeld, Current, StillDeleted, Deleting, At
<1>9. Opened'
  <2>1. \A x \in reg : row'[x] = row[x]
    BY <1>2, <1>3 DEF IInv, Typed
  <2> QED BY <1>1, <2>1 DEF IInv, Opened, Current
<1> QED BY <1>4, <1>5, <1>6, <1>7, <1>8, <1>9 DEF IInv
\* A client loses its device, which is no other one's.
LEMMA Loses ==
  ASSUME IInv, NEW c \in 1..Len(cl), NEW k \in Client, k.id = cl[c].id, k.dev = 0, k.net = "off",
         cl' = [cl EXCEPT ![c] = k], keys' = keys \ {cl[c].dev},
         UNCHANGED <<row, reg, cur, made>>, StillUsed, NotOpened, Work', RqTyped', StillDeleted
  PROVE  IInv'
<1>1. /\ cl' \in Seq(Client) /\ Len(cl') = Len(cl) /\ cl'[c] = k
      /\ \A e \in 1..Len(cl) : e # c => cl'[e] = cl[e]
  BY OneClient DEF IInv, Typed, Sane
<1>2. Sound(k) /\ ~Seen(k)
  BY DEF Sound, Seen
<1>3. Sane(cl')
  BY <1>1, <1>2 DEF IInv, Typed, Sane
<1>4. \A e \in 1..Len(cl) : cl'[e].id = cl[e].id /\ (cl'[e] # cl[e] => cl'[e].dev = 0 /\ ~Seen(cl'[e]))
  BY <1>1, <1>2
<1>5. \A x \in reg : cl'[cur[x]].dev = cl[c].dev =>
        cl[c].dev = 0 \/ \E q \in Requests : rq'[q].pc = "delete" /\ rq'[q].id = x
  <2> SUFFICES ASSUME NEW x \in reg, cl'[cur[x]].dev = cl[c].dev PROVE cl[c].dev = 0
    OBVIOUS
  <2>1. cur[x] \in 1..Len(cl)
    BY DEF IInv, Typed, Mapped
  <2> QED BY <1>1, <2>1 DEF IInv, Devices
<1>6. UNCHANGED <<row, reg, cur, made>>
  OBVIOUS
<1> DEFINE d == cl[c].dev
<1>7. keys' = keys \ {d} /\ Len(cl') = Len(cl)
  BY <1>1
<1>8. \A x \in reg : cl'[cur[x]].dev = d => d = 0 \/ \E q \in Requests : rq'[q].pc = "delete" /\ rq'[q].id = x
  BY <1>5
<1> HIDE DEF d
<1>9. \A e \in 1..Len(cl) : /\ cl'[e].id = cl[e].id
                            /\ cl'[e] # cl[e] => cl'[e].dev = 0 /\ ~Seen(cl'[e])
  BY <1>4
<1> QED BY ONLY IInv, StillUsed, NotOpened, Work', RqTyped', StillDeleted, <1>3, <1>6, <1>7, <1>8, <1>9, KeysGo

LEMMA AsksTyped ==
  ASSUME IInv, NEW r \in Requests, NEW pc \in {"replace", "delete"}, NEW id \in reg,
         rq[r].pc = "idle", rq' = [rq EXCEPT ![r] = [pc |-> pc, id |-> id]],
         UNCHANGED <<row, reg, cur, made>>
  PROVE  Work' /\ RqTyped' /\ StillDeleted
<1>1. Framed /\ id \in Ids /\ id \in made /\ cur'[id] # 0
  BY DEF Framed, IInv, Typed, Mapped
<1>2. Work' /\ RqTyped'
  BY <1>1, Requesting DEF Pcs
<1> QED BY <1>2, OthersDeleted

LEMMA StepLogoutAsk ==
  ASSUME IInv, NEW r \in Requests, NEW id \in Ids, LogoutAsk(r, id) PROVE IInv'
<1>1. /\ rq[r].pc = "idle" /\ StillUsed /\ id \in reg /\ UNCHANGED <<row, reg, cur, made>> /\ auth' = auth
      /\ rq' = [rq EXCEPT ![r] = [pc |-> "replace", id |-> id]]
  BY BeginsUsed DEF LogoutAsk
<1>2. NotOpened
  BY <1>1 DEF NotOpened, IInv, Typed
<1>3. cur[id] # 0 /\ cur[id] \in 1..Len(cl) /\ cl[cur[id]] \in Client
  BY <1>1, HasClient DEF IInv, Mapped
<1>4. CASE UNCHANGED <<cl, keys>>
  <2>1. Still
    BY <1>1, <1>4 DEF Still, StillUsed
  <2>2. Calm(cl, cl')
    BY <1>4, NoneCalm DEF IInv, Typed
  <2> QED BY <1>1, <1>2, <1>3, <2>1, <2>2, GoesTo DEF Pcs
<1>5. CASE /\ cl' = [cl EXCEPT ![cur[id]].dev = 0, ![cur[id]].net = "off"]
           /\ keys' = keys \ {Current(id).dev}
  <2> DEFINE k == [cl[cur[id]] EXCEPT !.dev = 0, !.net = "off"]
  <2>1. k \in Client /\ k.id = cl[cur[id]].id /\ k.dev = 0 /\ k.net = "off"
    BY <1>3 DEF Client, Nets
  <2>2. cl' = [cl EXCEPT ![cur[id]] = k]
    BY <1>5
  <2>3. Work' /\ RqTyped' /\ StillDeleted
    BY <1>1, AsksTyped
  <2> HIDE DEF k
  <2>4. keys' = keys \ {cl[cur[id]].dev} /\ UNCHANGED <<row, reg, cur, made>> /\ StillUsed
    BY <1>1, <1>5 DEF Current
  <2> QED BY <1>2, <1>3, <2>1, <2>2, <2>3, <2>4, Loses
<1> QED BY <1>4, <1>5 DEF LogoutAsk, LogoutAt

LEMMA StepDeleteAsk ==
  ASSUME IInv, NEW r \in Requests, NEW id \in Ids, DeleteAsk(r, id) PROVE IInv'
<1>1. /\ rq[r].pc = "idle" /\ StillUsed /\ id \in reg /\ UNCHANGED <<row, reg, cur, made>> /\ auth' = auth
      /\ rq' = [rq EXCEPT ![r] = [pc |-> "delete", id |-> id]]
  BY BeginsUsed DEF DeleteAsk
<1>2. NotOpened
  BY <1>1 DEF NotOpened, IInv, Typed
<1>3. cur[id] # 0 /\ cur[id] \in 1..Len(cl) /\ cl[cur[id]] \in Client
  BY <1>1, HasClient DEF IInv, Mapped
<1>4. Work' /\ RqTyped' /\ StillDeleted
  BY <1>1, AsksTyped
<1>5. CASE /\ cl' = [cl EXCEPT ![cur[id]].dev = 0, ![cur[id]].net = "off"]
           /\ keys' = keys \ {Current(id).dev}
  <2> DEFINE k == [cl[cur[id]] EXCEPT !.dev = 0, !.net = "off"]
  <2>1. k \in Client /\ k.id = cl[cur[id]].id /\ k.dev = 0 /\ k.net = "off"
    BY <1>3 DEF Client, Nets
  <2>2. cl' = [cl EXCEPT ![cur[id]] = k]
    BY <1>5
  <2> HIDE DEF k
  <2>3. keys' = keys \ {cl[cur[id]].dev} /\ UNCHANGED <<row, reg, cur, made>> /\ StillUsed
    BY <1>1, <1>5 DEF Current
  <2> QED BY <1>2, <1>3, <1>4, <2>1, <2>2, <2>3, Loses
<1>6. CASE keys' = keys \ {Current(id).dev} /\ cl' = cl
  <2>1. rq'[r].pc = "delete" /\ rq'[r].id = id
    BY <1>1 DEF IInv, Typed
  <2>2. ASSUME NEW x \in reg, cl'[cur[x]].dev = Current(id).dev
        PROVE  Current(id).dev = 0 \/ \E q \in Requests : rq'[q].pc = "delete" /\ rq'[q].id = x
    <3>1. x \in Ids /\ cur[x] \in 1..Len(cl) /\ cl[cur[x]].id = x /\ cl[cur[id]].id = id
      BY <1>3 DEF IInv, Typed, Mapped, Current
    <3>2. Current(id).dev = 0 \/ cur[x] = cur[id]
      BY <1>3, <1>6, <2>2, <3>1 DEF IInv, Devices, Current
    <3>3. Current(id).dev = 0 \/ x = id
      BY <3>1, <3>2
    <3> QED BY <2>1, <3>3
  <2>3. /\ Sane(cl') /\ Len(cl') = Len(cl)
        /\ \A c \in 1..Len(cl) : cl'[c].id = cl[c].id /\ (cl'[c] # cl[c] => cl'[c].dev = 0 /\ ~Seen(cl'[c]))
    BY <1>6 DEF IInv, Typed
  <2>4. UNCHANGED <<row, reg, cur, made>> /\ StillUsed /\ keys' = keys \ {Current(id).dev}
    BY <1>1, <1>6
  <2> QED BY <1>2, <1>4, <2>2, <2>3, <2>4, KeysGo
<1>7. CASE cl' \in Disconnects(cl, cur[id]) /\ keys' = keys
  <2>1. Still
    BY <1>1, <1>7 DEF Still, StillUsed
  <2>2. Calm(cl, cl')
    BY <1>7, DisconnectsCalm DEF IInv, Typed
  <2> QED BY <1>1, <1>2, <1>3, <2>1, <2>2, GoesTo DEF Pcs
<1> QED BY <1>5, <1>6, <1>7 DEF DeleteAsk
LEMMA StepDeleteRow ==
  ASSUME IInv, NEW r \in Requests, DeleteRow(r) PROVE IInv'
<1> DEFINE id == rq[r].id
<1>1. /\ rq[r].pc = "delete" /\ StillUsed /\ UNCHANGED <<keys, cur, made>> /\ auth' = auth /\ cl' = cl
      /\ reg' = reg \ {id} /\ row' = [row EXCEPT ![id] = NoRow]
      /\ rq' = [rq EXCEPT ![r] = [pc |-> "idle", id |-> NoHolder]]
  BY DEF DeleteRow, At, Finish, StillUsed, IInv, Typed
<1>2. id \in Ids /\ cur[id] # 0
  BY <1>1, OfRequest
<1>3. Framed
  BY <1>1, <1>2 DEF Framed, IInv, Typed
<1>4. Work' /\ RqTyped'
  BY <1>1, <1>3, Requesting DEF Pcs
<1>5. StillDeleted
  <2> SUFFICES ASSUME NEW x \in reg', Deleting(x)
               PROVE  \E q \in Requests : rq'[q].pc = "delete" /\ rq'[q].id = x
    BY DEF StillDeleted
  <2>1. PICK q \in Requests : rq[q].pc = "delete" /\ rq[q].id = x
    BY DEF Deleting, At
  <2>2. q # r
    BY <1>1, <2>1
  <2>3. rq'[q] = rq[q]
    BY <1>1, <2>2 DEF IInv, Typed
  <2> QED BY <2>1, <2>3
<1>6. Alike(cl, cl') /\ auth' \in [Ids -> Auths]
  BY <1>1 DEF Alike, IInv, Typed
<1> HIDE DEF id
<1> QED BY <1>1, <1>2, <1>4, <1>5, <1>6, RowKeeps

\* UPDATE of a row, if it is there.
LEMMA RowIsSet ==
  ASSUME IInv, NEW id \in Ids, NEW j, SetJID(id, j)
  PROVE  row' = [row EXCEPT ![id] = IF row[id] = NoRow THEN NoRow ELSE j]
BY DEF SetJID, IInv, Typed

LEMMA StepLogoutClear ==
  ASSUME IInv, NEW r \in Requests, LogoutClear(r) PROVE IInv'
<1> DEFINE id == rq[r].id
           d  == IF row[id] = NoRow THEN NoRow ELSE 0
<1>1. /\ rq[r].pc = "clear" /\ StillUsed /\ UNCHANGED <<keys, reg, cur, made>> /\ cl' = cl
      /\ SetJID(id, 0) /\ SetAuth(id, "logged_out")
      /\ rq' = [rq EXCEPT ![r] = [pc |-> "idle", id |-> NoHolder]]
  BY DEF LogoutClear, At, Finish, StillUsed, IInv, Typed
<1>2. id \in Ids /\ cur[id] # 0
  BY <1>1, OfRequest
<1>3. row' = [row EXCEPT ![id] = d]
  BY <1>1, <1>2, RowIsSet
<1>4. Framed
  BY <1>1, <1>2, <1>3 DEF Framed, IInv, Typed
<1>5. Work' /\ RqTyped' /\ StillDeleted
  BY <1>1, <1>4, Requesting, OthersDeleted DEF Pcs
<1>6. Alike(cl, cl') /\ NotOpened
  BY <1>1, SetsAuth DEF Alike, IInv, Typed, Auths
<1>7. auth' \in [Ids -> Auths] /\ auth'[id] # "open" /\ \A x \in Ids : auth'[x] = "open" => auth[x] = "open"
  BY <1>1, <1>2, <1>6 DEF NotOpened, SetAuth, IInv, Typed
<1>8. row[id] = NoRow => id \notin reg
  BY DEF IInv, Mapped
<1>9. reg \subseteq Ids
  BY DEF IInv, Typed
<1>10. d \in {NoRow, 0, row[id], Current(id).dev} /\ (d = NoRow => id \notin reg') /\ (row[id] = NoRow => d = NoRow)
  BY <1>1, <1>8 DEF NoRow
<1> HIDE DEF id, d
<1> QED BY <1>1, <1>2, <1>3, <1>5, <1>6, <1>7, <1>9, <1>10, RowKeeps

\* The account logged in: the session shows open, and its row names the device of the
\* current client, whichever client the event came from.
LEMMA OpenKeeps ==
  ASSUME IInv, NEW c \in 1..Len(cl),
         IF Current(cl[c].id).dev # 0 THEN SetJID(cl[c].id, Current(cl[c].id).dev) ELSE UNCHANGED row,
         SetAuth(cl[c].id, "open"), UNCHANGED <<keys, reg, cur, made, used>>, rq' = rq, Alike(cl, cl'),
         \A e \in 1..Len(cl) : /\ e # c => cl'[e] = cl[e]
                               /\ cl'[e].net = cl[e].net
  PROVE  IInv'
<1> DEFINE id == cl[c].id
           d  == IF row[id] = NoRow THEN NoRow ELSE IF Current(id).dev # 0 THEN Current(id).dev ELSE row[id]
<1>1. id \in Ids /\ cur[id] # 0 /\ id \in made
  BY IsClient DEF IInv, Mapped
<1>2. /\ cur[id] \in 1..Len(cl) /\ cl[cur[id]] \in Client /\ Sound(cl[cur[id]])
  BY <1>1, HasClient
<1>3. row \in [Ids -> {NoRow} \union Nat] /\ auth \in [Ids -> Auths] /\ StillUsed
  BY DEF IInv, Typed, StillUsed
<1>4. row' = [row EXCEPT ![id] = d]
  <2>1. CASE Current(id).dev # 0
    BY <1>1, <2>1, RowIsSet
  <2>2. CASE Current(id).dev = 0
    BY <1>3, <2>2
  <2> QED BY <2>1, <2>2
<1>5. Framed
  BY <1>1, <1>4 DEF Framed, IInv, Typed
<1>6. Work' /\ RqTyped' /\ StillDeleted
  BY <1>5, Resting DEF StillDeleted, Deleting, At
<1>7. auth' \in [Ids -> Auths] /\ \A x \in Ids \ {id} : auth'[x] = auth[x]
  BY <1>1, <1>3 DEF SetAuth, Auths
<1>8. ASSUME NEW x \in reg' \ {id}
      PROVE  (auth'[x] = "open" => auth[x] = "open") /\ (Seen(cl'[cur[x]]) => Seen(cl[cur[x]]))
  <2>1. x \in Ids /\ cur[x] \in 1..Len(cl) /\ cl[cur[x]].id = x
    BY <1>8 DEF IInv, Typed, Mapped, Current
  <2>2. cl'[cur[x]] = cl[cur[x]]
    BY <1>8, <2>1
  <2> QED BY <1>7, <1>8, <2>1, <2>2
<1>9. row[id] = NoRow => id \notin reg
  BY DEF IInv, Mapped
<1>10. id \in reg' /\ auth'[id] = "open" /\ Seen(cl'[cur[id]]) => d = Current(id).dev
  <2>1. Seen(cl'[cur[id]]) => cl[cur[id]].net = "on"
    BY <1>2 DEF Seen
  <2> QED BY <1>2, <1>9, <2>1 DEF Sound, Current
<1>11. /\ d \in {NoRow, 0, row[id], Current(id).dev} /\ (row[id] = NoRow => d = NoRow)
       /\ d = NoRow => id \notin reg'
  <2>1. d = NoRow => row[id] = NoRow
    BY <1>2 DEF Client, Current, NoRow
  <2> QED BY <1>9, <2>1
<1>12. UNCHANGED <<keys, cur, made>> /\ reg' \subseteq reg
  OBVIOUS
<1> HIDE DEF id, d
<1> QED BY <1>1, <1>3, <1>4, <1>6, <1>7, <1>8, <1>10, <1>11, <1>12, RowKeeps

LEMMA StepHandleOpen == ASSUME IInv, HandleOpen PROVE IInv'
<1>1. PICK c \in 1..Len(cl) :
        /\ cl[c].h = "open" /\ SetAuth(cl[c].id, "open") /\ cl' = [cl EXCEPT ![c].h = "idle"]
        /\ IF Current(cl[c].id).dev # 0 THEN SetJID(cl[c].id, Current(cl[c].id).dev) ELSE UNCHANGED row
  BY DEF HandleOpen, Pending
<1> DEFINE k == [cl[c] EXCEPT !.h = "idle"]
<1>2. cl[c] \in Client /\ Sound(cl[c])
  BY IsClient
<1>3. k \in Client /\ k.id = cl[c].id /\ k.dev = cl[c].dev /\ k.net = cl[c].net /\ k.h = "idle"
  BY <1>2 DEF Client, Events
<1>4. Sound(k) /\ cl' = [cl EXCEPT ![c] = k]
  BY <1>1, <1>2, <1>3 DEF Sound
<1> HIDE DEF k
<1>5. /\ cl' \in Seq(Client) /\ Len(cl') = Len(cl) /\ cl'[c] = k
      /\ \A e \in 1..Len(cl) : e # c => cl'[e] = cl[e]
  BY <1>3, <1>4, OneClient DEF IInv, Typed, Sane
<1>6. Sane(cl')
  BY <1>4, <1>5 DEF IInv, Typed, Sane
<1>7. Alike(cl, cl') /\ \A e \in 1..Len(cl) : (e # c => cl'[e] = cl[e]) /\ cl'[e].net = cl[e].net
  BY <1>3, <1>5, <1>6 DEF Alike
<1>8. UNCHANGED <<keys, reg, cur, made, used>> /\ rq' = rq
  BY DEF HandleOpen
<1> QED BY <1>1, <1>7, <1>8, OpenKeeps

LEMMA StepQRSuccess == ASSUME IInv, QRSuccess PROVE IInv'
<1>1. PICK c \in 1..Len(cl) :
        /\ SetAuth(cl[c].id, "open") /\ cl' = [cl EXCEPT ![c].qr = "none"]
        /\ IF Current(cl[c].id).dev # 0 THEN SetJID(cl[c].id, Current(cl[c].id).dev) ELSE UNCHANGED row
  BY DEF QRSuccess, QRRead
<1> DEFINE k == [cl[c] EXCEPT !.qr = "none"]
<1>2. cl[c] \in Client /\ Sound(cl[c])
  BY IsClient
<1>3. k \in Client /\ k.id = cl[c].id /\ k.dev = cl[c].dev /\ k.net = cl[c].net /\ k.h = cl[c].h
  BY <1>2 DEF Client, Codes
<1>4. Sound(k) /\ cl' = [cl EXCEPT ![c] = k]
  BY <1>1, <1>2, <1>3 DEF Sound
<1> HIDE DEF k
<1>5. /\ cl' \in Seq(Client) /\ Len(cl') = Len(cl) /\ cl'[c] = k
      /\ \A e \in 1..Len(cl) : e # c => cl'[e] = cl[e]
  BY <1>3, <1>4, OneClient DEF IInv, Typed, Sane
<1>6. Sane(cl')
  BY <1>4, <1>5 DEF IInv, Typed, Sane
<1>7. Alike(cl, cl') /\ \A e \in 1..Len(cl) : (e # c => cl'[e] = cl[e]) /\ cl'[e].net = cl[e].net
  BY <1>3, <1>5, <1>6 DEF Alike
<1>8. UNCHANGED <<keys, reg, cur, made, used>> /\ rq' = rq
  BY DEF QRSuccess
<1> QED BY <1>1, <1>7, <1>8, OpenKeeps
LEMMA StepUnlinked == ASSUME IInv, Unlinked PROVE IInv'
<1>1. PICK c \in 1..Len(cl) :
        /\ cl' = [cl EXCEPT ![c].net = "off", ![c].h = "loggedout", ![c].dev = 0]
        /\ keys' = keys \ {cl[c].dev}
  BY DEF Unlinked, Fails, InNet
<1> DEFINE k == [cl[c] EXCEPT !.net = "off", !.h = "loggedout", !.dev = 0]
<1>2. k \in Client /\ k.id = cl[c].id /\ k.dev = 0 /\ k.net = "off"
  BY IsClient DEF Client, Nets, Events
<1>3. cl' = [cl EXCEPT ![c] = k]
  BY <1>1
<1> HIDE DEF k
<1>4. UNCHANGED <<row, reg, cur, made>> /\ rq' = rq /\ NotOpened /\ StillUsed
  BY Spends DEF Unlinked, Fails, NotOpened, StillUsed, IInv, Typed
<1>5. Framed
  BY <1>4 DEF Framed
<1>6. Work' /\ RqTyped' /\ StillDeleted
  BY <1>4, <1>5, Resting DEF StillDeleted, Deleting, At
<1> QED BY <1>1, <1>2, <1>3, <1>4, <1>6, Loses

\* The code was scanned: the device is one that nobody had.
LEMMA StepScanned == ASSUME IInv, Scanned PROVE IInv'
<1> DEFINE d == used.devices + 1
<1>1. /\ used' = [used EXCEPT !.devices = @ + 1] /\ keys' = keys \union {used'.devices}
      /\ UNCHANGED <<row, reg, cur, auth, made>> /\ rq' = rq
  BY DEF Scanned, Spend
<1>2. PICK c \in 1..Len(cl) :
        cl' = [cl EXCEPT ![c].dev = used'.devices, ![c].net = "wait", ![c].qr = "success"]
  BY DEF Scanned, InNet
<1>3. /\ used' \in [requests : Nat, devices : Nat, faults : Nat, locks : Nat]
      /\ used'.devices = d /\ used.devices \in Nat /\ d \in Nat /\ d > used.devices
  <2>1. used \in [requests : Nat, devices : Nat, faults : Nat, locks : Nat]
    BY DEF IInv, Typed
  <2>2. used' = [used EXCEPT !.devices = d]
    BY <1>1
  <2>3. d \in Nat /\ d > used.devices /\ used.devices \in Nat
    BY <2>1
  <2> HIDE DEF d
  <2> QED BY <2>1, <2>2, <2>3
<1> DEFINE k == [cl[c] EXCEPT !.dev = d, !.net = "wait", !.qr = "success"]
<1>4. k \in Client /\ k.id = cl[c].id /\ k.dev = d /\ k.net = "wait"
  BY <1>3, IsClient DEF Client, Nets, Codes
<1>5. cl' = [cl EXCEPT ![c] = k]
  BY <1>2, <1>3
<1>6. d # 0
  BY <1>3
<1>7. Sound(k) /\ ~Seen(k)
  BY <1>4, <1>6 DEF Sound, Seen
<1> HIDE DEF k, d
<1>8. /\ cl' \in Seq(Client) /\ Len(cl') = Len(cl) /\ cl'[c] = k
      /\ \A e \in 1..Len(cl) : e # c => cl'[e] = cl[e]
  BY <1>4, <1>5, OneClient DEF IInv, Typed, Sane
<1>9. Sane(cl')
  BY <1>7, <1>8 DEF IInv, Typed, Sane
<1>10. Work' /\ RqTyped'
  <2>1. Framed
    BY <1>1 DEF Framed
  <2> QED BY <1>1, <2>1, Resting
<1>11. Typed'
  BY <1>1, <1>3, <1>6, <1>9, <1>10 DEF IInv, Typed, RqTyped
<1>12. Mapped'
  BY <1>1, <1>4, <1>8 DEF IInv, Mapped, Current
<1>13. \A e \in 1..Len(cl) : cl[e].dev \in Nat /\ cl[e].dev <= used.devices /\ cl[e].dev # d
  BY <1>3, IsClient DEF IInv, Devices
<1>14. \A x \in Ids : row[x] \in {NoRow} \union Nat /\ row[x] <= used.devices /\ row[x] # d
  BY <1>3 DEF IInv, Typed, Devices
<1>15. Devices'
  <2>1. \A e \in 1..Len(cl') : cl'[e].dev <= used'.devices
    BY <1>3, <1>4, <1>8, <1>13
  <2>2. \A x \in Ids : row'[x] <= used'.devices
    BY <1>1, <1>3, <1>14 DEF NoRow
  <2>3. \A e, f \in 1..Len(cl') : cl'[e].dev # 0 /\ cl'[f].dev = cl'[e].dev => e = f
    <3> SUFFICES ASSUME NEW e \in 1..Len(cl), NEW f \in 1..Len(cl), cl'[e].dev # 0, cl'[f].dev = cl'[e].dev
                 PROVE  e = f
      BY <1>8
    <3>1. e = c <=> f = c
      BY <1>4, <1>8, <1>13
    <3>2. e # c /\ f # c => e = f
      BY <1>8 DEF IInv, Devices
    <3> QED BY <3>1, <3>2
  <2>4. \A e \in 1..Len(cl'), x \in Ids : cl'[e].dev # 0 /\ row'[x] = cl'[e].dev => cl'[e].id = x
    <3> SUFFICES ASSUME NEW e \in 1..Len(cl), NEW x \in Ids, cl'[e].dev # 0, row[x] = cl'[e].dev
                 PROVE  cl'[e].id = x
      BY <1>1, <1>8
    <3>1. e # c
      BY <1>4, <1>8, <1>14
    <3> QED BY <1>8, <3>1 DEF IInv, Devices
  <2>5. \A a, b \in Ids : row'[a] > 0 /\ row'[a] = row'[b] => a = b
    BY <1>1, Zenon DEF IInv, Devices
  <2> QED BY <2>1, <2>2, <2>3, <2>4, <2>5, Zenon DEF Devices
<1>16. \A x \in reg : x \in Ids /\ cur[x] \in 1..Len(cl)
  BY DEF IInv, Typed, Mapped
<1>17. KeysHeld'
  <2> SUFFICES ASSUME NEW x \in reg
               PROVE  cl'[cur[x]].dev \in keys' \union {0}
                        \/ \E q \in Requests : rq'[q].pc = "delete" /\ rq'[q].id = x
    BY <1>1 DEF KeysHeld, Current, Deleting, At
  <2>1. CASE cur[x] = c
    BY <1>1, <1>3, <1>4, <1>8, <2>1
  <2>2. CASE cur[x] # c
    BY <1>1, <1>8, <1>16, <2>2 DEF IInv, KeysHeld, Current, Deleting, At
  <2> QED BY <2>1, <2>2
<1>18. Opened'
  <2> SUFFICES ASSUME NEW x \in reg, auth[x] = "open", Seen(cl'[cur[x]])
               PROVE  row[x] = cl'[cur[x]].dev
    BY <1>1 DEF Opened, Current
  <2>1. cl'[cur[x]] = cl[cur[x]]
    BY <1>7, <1>8, <1>16
  <2> QED BY <2>1 DEF IInv, Opened, Current
<1> QED BY <1>10, <1>11, <1>12, <1>15, <1>17, <1>18 DEF IInv

-----------------------------------------------------------------------------
(* Restore: the clients are numbered in some order.                          *)

LEMMA OneOfEach ==
  ASSUME NEW S, IsFiniteSet(S), NEW f \in [S -> 1..Cardinality(S)],
         \A a, c \in S : f[a] = f[c] => a = c
  PROVE  \A i \in 1..Cardinality(S) : (CHOOSE id \in S : f[id] = i) \in S /\ f[CHOOSE id \in S : f[id] = i] = i
<1> DEFINE n == Cardinality(S)
<1>1. n \in Nat
  BY FS_CardinalityType
<1>2. IsFiniteSet(1..n) /\ Cardinality(1..n) = n
  BY <1>1, FS_Interval
<1>3. f \in Injection(S, 1..n)
  BY DEF Injection, IsInjective
<1>4. f \in Surjection(S, 1..n)
  BY <1>2, <1>3, FS_Injection
<1>5. \A i \in 1..n : \E id \in S : f[id] = i
  BY <1>4 DEF Surjection
<1> QED BY <1>5
\* What Restore makes of the rows and the keys: sessions, their clients and their state.
IsRestored(g, u, s, a, r, k) ==
  /\ g = {id \in Ids : r[id] # NoRow}
  /\ u \in [Ids -> Nat] /\ a \in [Ids -> Auths \ {"open"}] /\ s \in Seq(Client)
  /\ \A id \in Ids : IF id \in g THEN u[id] \in 1..Len(s) /\ s[u[id]].id = id ELSE u[id] = 0
  /\ \A c \in 1..Len(s) : /\ s[c].id \in g /\ u[s[c].id] = c /\ Sound(s[c])
                          /\ s[c].dev # 0 => s[c].dev = r[s[c].id] /\ s[c].dev \in k

LEMMA Dialled ==
  ASSUME NEW id, NEW d, NEW n
  PROVE  [NewClient(id, d) EXCEPT !.net = n]
           = [id |-> id, dev |-> d, net |-> n, auto |-> TRUE, h |-> "idle", qr |-> "none"]
<1> DEFINE k == NewClient(id, d)
<1>1. /\ k \in [id : {id}, dev : {d}, net : {"off"}, auto : BOOLEAN, h : {"idle"}, qr : {"none"}]
      /\ k.auto = TRUE
  BY DEF NewClient
<1> HIDE DEF k
<1>2. [k EXCEPT !.net = n] = [id |-> k.id, dev |-> k.dev, net |-> n, auto |-> k.auto, h |-> k.h, qr |-> k.qr]
  BY <1>1
<1>3. k.id = id /\ k.dev = d /\ k.h = "idle" /\ k.qr = "none"
  BY <1>1
<1> QED BY <1>1, <1>2, <1>3 DEF k

LEMMA RestoredIs ==
  ASSUME NEW r \in [Ids -> {NoRow} \union Nat], NEW k, k \subseteq Nat \ {0}, NEW b,
         NEW m \in Restored(r, k, b)
  PROVE  IsRestored(m.reg, m.cur, m.cl, m.auth, r, k)
<1> DEFINE S == {id \in Ids : r[id] # NoRow}
           Known(id) == r[id] \in k
           Made(id) == [NewClient(id, IF Known(id) THEN r[id] ELSE 0)
                          EXCEPT !.net = IF Known(id) /\ ~b THEN "wait" ELSE "off"]
           n == Cardinality(S)
           Who(f, i) == CHOOSE id \in S : f[id] = i
<1>1. PICK f \in {f \in [S -> 1..n] : \A a, c \in S : f[a] = f[c] => a = c} :
        m = [reg  |-> S,
             cur  |-> [id \in Ids |-> IF id \in S THEN f[id] ELSE 0],
             cl   |-> [i \in 1..n |-> Made(Who(f, i))],
             auth |-> [id \in Ids |-> IF id \notin S \/ (Known(id) /\ ~b) THEN "connecting"
                                      ELSE IF Known(id) THEN "stopped" ELSE "logged_out"]]
  BY DEF Restored
<1>2. IsFiniteSet(S) /\ n \in Nat
  <2>1. IsFiniteSet(S)
    BY SessionsFinite, FS_Subset
  <2> QED BY <2>1, FS_CardinalityType
<1>3. \A i \in 1..n : Who(f, i) \in S /\ f[Who(f, i)] = i
  BY <1>1, <1>2, OneOfEach
<1>4. ASSUME NEW id \in S
      PROVE  /\ Made(id) \in Client /\ Made(id).id = id /\ Sound(Made(id))
             /\ Made(id).dev # 0 => Made(id).dev = r[id] /\ Made(id).dev \in k
  <2>1. CASE Known(id) /\ ~b
    <3>1. Made(id) = [id |-> id, dev |-> r[id], net |-> "wait", auto |-> TRUE, h |-> "idle", qr |-> "none"]
      <4>1. Made(id) = [NewClient(id, r[id]) EXCEPT !.net = "wait"]
        BY <2>1
      <4> HIDE DEF Made, Known
      <4> QED BY <4>1, Dialled
    <3>2. r[id] \in Nat /\ r[id] # 0 /\ r[id] \in k
      BY <2>1
    <3> QED BY <3>1, <3>2 DEF Client, Nets, Events, Codes, Sound
  <2>2. CASE ~(Known(id) /\ ~b)
    <3>1. PICK d \in {0, r[id]} : d \in k \union {0}
            /\ Made(id) = [id |-> id, dev |-> d, net |-> "off", auto |-> TRUE, h |-> "idle", qr |-> "none"]
      <4> DEFINE d == IF Known(id) THEN r[id] ELSE 0
      <4>1. Made(id) = [NewClient(id, d) EXCEPT !.net = "off"]
        BY <2>2
      <4>2. d \in {0, r[id]} /\ d \in k \union {0}
        OBVIOUS
      <4> HIDE DEF Made, Known, d
      <4> QED BY <4>1, <4>2, Dialled
    <3>2. d \in Nat
      BY <3>1
    <3> QED BY <3>1, <3>2 DEF Client, Nets, Events, Codes, Sound
  <2> QED BY <2>1, <2>2
<1> HIDE DEF Made, Who, n
<1>5. m.cl = [i \in 1..n |-> Made(Who(f, i))]
  BY <1>1
<1>6. m.cl \in Seq(Client) /\ Len(m.cl) = n
  BY <1>2, <1>3, <1>4, <1>5
<1>7. \A id \in Ids : m.cur[id] = IF id \in S THEN f[id] ELSE 0
  BY <1>1
<1>8. m.reg = S /\ m.cur \in [Ids -> Nat]
  BY <1>1, <1>2
<1>9. m.auth \in [Ids -> Auths \ {"open"}]
  BY <1>1 DEF Auths
<1>10. \A id \in Ids : IF id \in S THEN m.cur[id] \in 1..n /\ m.cl[m.cur[id]].id = id ELSE m.cur[id] = 0
  <2> SUFFICES ASSUME NEW id \in S PROVE m.cur[id] \in 1..n /\ m.cl[m.cur[id]].id = id
    BY <1>7
  <2>1. m.cur[id] = f[id] /\ f[id] \in 1..n
    BY <1>1, <1>7
  <2>2. Who(f, f[id]) = id
    BY <1>1, <1>3, <2>1
  <2>3. m.cl[f[id]] = Made(id)
    BY <1>5, <2>1, <2>2
  <2> QED BY <1>4, <2>1, <2>3
<1>11. ASSUME NEW c \in 1..n
       PROVE  /\ m.cl[c].id \in S /\ m.cur[m.cl[c].id] = c /\ Sound(m.cl[c])
              /\ m.cl[c].dev # 0 => m.cl[c].dev = r[m.cl[c].id] /\ m.cl[c].dev \in k
  <2>1. m.cl[c] = Made(Who(f, c)) /\ Who(f, c) \in S /\ f[Who(f, c)] = c
    BY <1>3, <1>5
  <2> QED BY <1>4, <1>7, <2>1
<1> QED BY <1>6, <1>8, <1>9, <1>10, <1>11 DEF IsRestored

\* The process has just started, with nothing under way.
Boots ==
  /\ row \in [Ids -> {NoRow} \union Nat] /\ keys \subseteq Nat \ {0} /\ made \subseteq Ids
  /\ used \in [requests : Nat, devices : Nat, faults : Nat, locks : Nat]
  /\ \A id \in Ids : (row[id] # NoRow => id \in made) /\ row[id] <= used.devices
  /\ \A a, b \in Ids : row[a] > 0 /\ row[a] = row[b] => a = b
  /\ IsRestored(reg, cur, cl, auth, row, keys)
  /\ rq = [r \in Requests |-> [pc |-> "idle", id |-> NoHolder]]

LEMMA BootsHolds == Boots => IInv
<1> SUFFICES ASSUME Boots PROVE IInv
  OBVIOUS
<1>1. /\ reg = {id \in Ids : row[id] # NoRow} /\ cur \in [Ids -> Nat] /\ cl \in Seq(Client)
      /\ auth \in [Ids -> Auths \ {"open"}] /\ reg \subseteq made
      /\ \A id \in Ids : IF id \in reg THEN cur[id] \in 1..Len(cl) /\ cl[cur[id]].id = id ELSE cur[id] = 0
  BY DEF Boots, IsRestored
<1>2. \A c \in 1..Len(cl) : /\ cl[c].id \in reg /\ cur[cl[c].id] = c /\ Sound(cl[c])
                            /\ cl[c].dev # 0 => cl[c].dev = row[cl[c].id] /\ cl[c].dev \in keys
                            /\ cl[c].dev \in Nat
  <2>1. ASSUME NEW c \in 1..Len(cl) PROVE cl[c].dev \in Nat
    <3>1. cl[c] \in Client
      BY <1>1
    <3> QED BY <3>1 DEF Client
  <2> QED BY <2>1 DEF Boots, IsRestored
<1>3. Typed
  BY <1>1, <1>2 DEF Boots, Typed, Sane, Pcs
<1>4. Work
  BY DEF Boots, Work
<1>5. Mapped
  BY <1>1, <1>2 DEF Boots, Mapped, Current
<1>6. Devices
  <2>1. \A c \in 1..Len(cl) : cl[c].dev <= used.devices
    BY <1>1, <1>2 DEF Boots
  <2>2. \A c, e \in 1..Len(cl) : cl[c].dev # 0 /\ cl[e].dev = cl[c].dev => c = e
    <3> SUFFICES ASSUME NEW c \in 1..Len(cl), NEW e \in 1..Len(cl), cl[c].dev # 0, cl[e].dev = cl[c].dev
                 PROVE  c = e
      OBVIOUS
    <3>1. row[cl[c].id] > 0 /\ row[cl[c].id] = row[cl[e].id] /\ cl[c].id \in Ids /\ cl[e].id \in Ids
      BY <1>1, <1>2
    <3>2. cl[c].id = cl[e].id
      BY <3>1 DEF Boots
    <3> QED BY <1>2, <3>2
  <2>3. \A c \in 1..Len(cl), id \in Ids : cl[c].dev # 0 /\ row[id] = cl[c].dev => cl[c].id = id
    <3> SUFFICES ASSUME NEW c \in 1..Len(cl), NEW id \in Ids, cl[c].dev # 0, row[id] = cl[c].dev
                 PROVE  cl[c].id = id
      OBVIOUS
    <3>1. row[id] > 0 /\ row[id] = row[cl[c].id] /\ cl[c].id \in Ids
      BY <1>1, <1>2
    <3> QED BY <3>1 DEF Boots
  <2> QED BY <2>1, <2>2, <2>3 DEF Boots, Devices
<1>7. KeysHeld
  <2> SUFFICES ASSUME NEW id \in reg PROVE Current(id).dev \in keys \union {0}
    BY DEF KeysHeld
  <2>1. cur[id] \in 1..Len(cl)
    BY <1>1
  <2> QED BY <1>2, <2>1 DEF Current
<1>8. Opened
  BY <1>1 DEF Opened
<1> QED BY <1>3, <1>4, <1>5, <1>6, <1>7, <1>8 DEF IInv

LEMMA StepRestart == IInv /\ Restart => Boots'
<1> SUFFICES ASSUME IInv, Restart PROVE Boots'
  OBVIOUS
<1>1. PICK m \in Restored(row, keys, blocked) :
        reg' = m.reg /\ cur' = m.cur /\ cl' = m.cl /\ auth' = m.auth
  BY DEF Restart
<1>2. row \in [Ids -> {NoRow} \union Nat] /\ keys \subseteq Nat \ {0} /\ made \subseteq Ids
  BY DEF IInv, Typed
<1>3. IsRestored(reg', cur', cl', auth', row, keys)
  BY <1>1, <1>2, RestoredIs
<1>4. /\ UNCHANGED <<row, keys, made>>
      /\ rq' = [r \in Requests |-> [pc |-> "idle", id |-> NoHolder]]
      /\ used' \in [requests : Nat, devices : Nat, faults : Nat, locks : Nat]
      /\ used'.devices = used.devices
  BY Spends DEF Restart
<1>5. \A id \in Ids : (row[id] # NoRow => id \in made) /\ row[id] <= used.devices
  BY DEF IInv, Mapped, Devices
<1>6. \A a, b \in Ids : row[a] > 0 /\ row[a] = row[b] => a = b
  BY Zenon DEF IInv, Devices
<1> QED BY <1>2, <1>3, <1>4, <1>5, <1>6 DEF Boots
LEMMA InitBoots == Init => Boots
<1> SUFFICES ASSUME Init PROVE Boots
  OBVIOUS
<1>1. Cardinality(Ids) \in Nat
  BY SessionsFinite, FS_CardinalityType
<1>2. /\ row \in [Ids -> {NoRow, 0} \union 1..Cardinality(Ids)]
      /\ keys = {row[id] : id \in Ids} \ {NoRow, 0} /\ made = reg
      /\ \A a, b \in Ids : row[a] = row[b] /\ row[a] > 0 => a = b
      /\ used = [requests |-> 0, devices |-> IF keys = {} THEN 0 ELSE Cardinality(Ids), faults |-> 0, locks |-> 0]
      /\ rq = [r \in Requests |-> [pc |-> "idle", id |-> NoHolder]]
  BY DEF Init
<1>3. row \in [Ids -> {NoRow} \union Nat] /\ keys \subseteq Nat \ {0}
  <2>1. row \in [Ids -> {NoRow} \union Nat]
    BY <1>1, <1>2
  <2>2. ASSUME NEW d \in keys PROVE d \in Nat \ {0}
    BY <1>2, <2>1
  <2> QED BY <2>1, <2>2
<1>4. PICK m \in Restored(row, keys, FALSE) : reg = m.reg /\ cur = m.cur /\ cl = m.cl /\ auth = m.auth
  BY DEF Init
<1>5. IsRestored(reg, cur, cl, auth, row, keys)
  BY <1>3, <1>4, RestoredIs
<1>6. made = {id \in Ids : row[id] # NoRow}
  BY <1>2, <1>5 DEF IsRestored
<1>7. ASSUME NEW id \in Ids PROVE row[id] <= used.devices
  <2>1. row[id] \in {NoRow, 0} \union 1..Cardinality(Ids)
    BY <1>2
  <2>2. CASE keys = {}
    <3>1. row[id] \in {NoRow, 0}
      BY <1>2, <2>2
    <3>2. used.devices = 0
      BY <1>2, <2>2
    <3> QED BY <3>1, <3>2 DEF NoRow
  <2>3. CASE keys # {}
    <3>1. used.devices = Cardinality(Ids)
      BY <1>2, <2>3
    <3> QED BY <1>1, <2>1, <3>1 DEF NoRow
  <2> QED BY <2>2, <2>3
<1>8. used \in [requests : Nat, devices : Nat, faults : Nat, locks : Nat]
  <2>1. (IF keys = {} THEN 0 ELSE Cardinality(Ids)) \in Nat
    BY <1>1
  <2> QED BY <1>2, <2>1
<1>9. \A a, b \in Ids : row[a] > 0 /\ row[a] = row[b] => a = b
  BY <1>2
<1> QED BY <1>2, <1>3, <1>5, <1>6, <1>7, <1>8, <1>9 DEF Boots

LEMMA StepRequest == ASSUME IInv, NEW r \in Requests, Request(r) PROVE IInv'
<1>1. CASE \/ StartPairing(r) \/ StopAuth(r) \/ RestartEnds(r) \/ StartConnect(r)
           \/ \E id \in Ids : StopDisconnect(r, id) \/ StartCheck(r, id)
  BY <1>1, StillRequests
<1>2. CASE \E id \in Ids : \/ CreateInsert(r, id) \/ PairReplace(r, id) \/ LogoutAsk(r, id)
                           \/ DeleteAsk(r, id)
  BY <1>2, StepCreateInsert, StepPairReplace, StepLogoutAsk, StepDeleteAsk
<1>3. CASE CreateRegister(r) \/ LogoutReplace(r) \/ LogoutClear(r) \/ DeleteRow(r)
  BY <1>3, StepCreateRegister, StepLogoutReplace, StepLogoutClear, StepDeleteRow
<1> QED BY <1>1, <1>2, <1>3 DEF Request

LEMMA Stutters == IInv /\ UNCHANGED vars => IInv'
<1> SUFFICES ASSUME IInv, UNCHANGED vars PROVE IInv'
  OBVIOUS
<1>1. Still /\ NotOpened /\ rq' = rq /\ cl' = cl
  BY DEF vars, Still, NotOpened, IInv, Typed
<1> QED BY <1>1, NoneCalm, CalmOther DEF IInv, Typed

LEMMA Step == IInv /\ [Next]_vars => IInv'
<1>1. ASSUME IInv, NEW r \in Requests, Request(r) PROVE IInv'
  BY <1>1, StepRequest
<1>2. IInv /\ WhatsApp => IInv'
  BY StillWhatsApp, StepUnlinked, StepScanned DEF WhatsApp
<1>3. IInv /\ (Handle \/ QRCode) => IInv'
  BY StillHandlers, StepHandleOpen, StepQRSuccess DEF Handle
<1>4. IInv /\ (Migrator \/ Block \/ Unblock \/ Version \/ NightStart \/ NightEnds) => IInv'
  BY StillMigrator DEF Migrator
<1>5. IInv /\ Restart => IInv'
  BY StepRestart, BootsHolds, PTL
<1> QED BY <1>1, <1>2, <1>3, <1>4, <1>5, Stutters DEF Next

\* What Restore sets up, every request, event, migration and reconnection keeps.
THEOREM Inductive == Spec => []IInv
<1>1. Init => IInv
  BY InitBoots, BootsHolds
<1> QED BY <1>1, Step, PTL DEF Spec

\* A session that shows open, whose client is logged in with its event handled and about
\* which no request is under way, is one that Restore finds again: its row names the
\* device of its client (setJID in handleEvent and in consumeQR), and the container has
\* the device's keys.
THEOREM OpenIsFoundAgain == Spec => []OpenSurvivesRestart
<1>1. IInv => OpenSurvivesRestart
  <2> SUFFICES ASSUME IInv, NEW id \in reg, auth[id] = "open", Current(id).net = "on", Current(id).h = "idle",
                      \A r \in Requests : rq[r].id # id
               PROVE  row[id] = Current(id).dev /\ row[id] \in keys
    BY DEF OpenSurvivesRestart
  <2>1. id \in Ids /\ cur[id] # 0
    BY DEF IInv, Typed, Mapped
  <2>2. Current(id).dev # 0
    BY <2>1, HasClient DEF Current, Sound
  <2>3. row[id] = Current(id).dev
    BY DEF IInv, Opened, Seen
  <2>4. Current(id).dev \in keys
    BY <2>2 DEF IInv, KeysHeld, Deleting
  <2> QED BY <2>3, <2>4
<1> QED BY <1>1, Inductive, PTL
=============================================================================
