----------------------------- MODULE LegsProofs -----------------------------
(***************************************************************************)
(* For any requests, tickets and bounds: a ticket lets through one         *)
(* request, the first to present it; and the contact hears the agent to    *)
(* the end (second part).                                                  *)
(*                                                                         *)
(* A ticket is issued once, from "none", and burned by whoever presents    *)
(* it; so a ticket that some request holds is burned (Burned), and another *)
(* request that presents it is refused.  Every step but issue, Expire and  *)
(* consume leaves the tickets and who holds them alone.                    *)
(***************************************************************************)
EXTENDS Legs, TLAPS

Ticket == [st : {"none", "issued", "expired", "burned"}, call : CallIDs]
Request == [pc : Steps, kind : Kinds, call : CallIDs, ticket : Tickets \union {NoTicket},
            old : Legs \union {NoLeg}]

Types ==
  /\ tickets \in [Tickets -> Ticket]
  /\ rq \in [Legs -> Request]
  /\ cur \in Legs \union {NoLeg}

\* A ticket that a request holds is burned.
Burned == \A q \in Legs : rq[q].ticket # NoTicket => tickets[rq[q].ticket].st = "burned"

\* A request has no ticket before it presents one.
Before == {"idle", "ticket"}
Fresh == \A q \in Legs : rq[q].pc \in Before => rq[q].ticket = NoTicket

IInv == Types /\ Burned /\ Fresh

\* A step after which each request holds the ticket it held.
Holding == \A q \in Legs : rq'[q].ticket = rq[q].ticket

LEMMA Initially == Init => IInv
<1> SUFFICES ASSUME Init PROVE IInv
  OBVIOUS
<1>1. NoRequest \in Request /\ NoRequest.ticket = NoTicket
  BY SMT DEF NoRequest, Request, Steps, Kinds, CallIDs
<1>2. [st |-> "none", call |-> "this"] \in Ticket
  BY SMT DEF Ticket, CallIDs
<1>3. Types /\ \A q \in Legs : rq[q] = NoRequest
  BY <1>1, <1>2, Zenon DEF Init, Types
<1> QED BY <1>1, <1>3 DEF IInv, Burned, Fresh

\* A step that leaves the tickets alone, and who holds them.
LEMMA Kept ==
  ASSUME IInv, tickets' = tickets, rq' \in [Legs -> Request], cur' \in Legs \union {NoLeg},
         \A q \in Legs : /\ rq'[q].ticket = rq[q].ticket
                         /\ rq'[q].pc \in Before => rq[q].pc \in Before
  PROVE  IInv' /\ Holding
BY Zenon DEF IInv, Types, Burned, Fresh, Holding

LEMMA Unmoved ==
  ASSUME IInv, UNCHANGED <<tickets, rq, cur>>
  PROVE  IInv'
BY Zenon DEF IInv, Types, Burned, Fresh

\* A request goes on with its ticket.
LEMMA GoesOn ==
  ASSUME IInv, NEW l \in Legs, NEW pc \in Steps \ Before, Go(l, pc)
  PROVE  /\ rq' \in [Legs -> Request]
         /\ \A q \in Legs : /\ rq'[q].ticket = rq[q].ticket
                            /\ rq'[q].pc \in Before => rq[q].pc \in Before
<1>1. rq \in [Legs -> Request]
  BY DEF IInv, Types
<1>2. /\ [rq[l] EXCEPT !.pc = pc] \in Request
      /\ [rq[l] EXCEPT !.pc = pc].ticket = rq[l].ticket
      /\ [rq[l] EXCEPT !.pc = pc].pc = pc
  BY <1>1, SMT DEF Request
<1>3. rq' = [rq EXCEPT ![l] = [rq[l] EXCEPT !.pc = pc]]
  BY DEF Go
<1> QED BY <1>1, <1>2, <1>3

LEMMA GoesOnKept ==
  ASSUME IInv, NEW l \in Legs, NEW pc \in Steps \ Before, Go(l, pc), UNCHANGED <<tickets, cur>>
  PROVE  IInv' /\ Holding
BY GoesOn, Kept DEF IInv, Types

-----------------------------------------------------------------------------
\* The tickets.
LEMMA Issued == ASSUME IInv, NEW t \in Tickets, issue(t) PROVE IInv'
<1>1. PICK c \in CallIDs :
        tickets' = [u \in Tickets |->
            IF u = t THEN [st |-> "issued", call |-> c]
            ELSE IF tickets[u].st = "expired" THEN [tickets[u] EXCEPT !.st = "burned"]
            ELSE tickets[u]]
  BY Zenon DEF issue
<1>2. tickets[t].st = "none" /\ UNCHANGED <<rq, cur>>
  BY Zenon DEF issue, legs
<1>3. [st |-> "issued", call |-> c] \in Ticket
  BY SMT DEF Ticket
<1>4. \A u \in Tickets : [tickets[u] EXCEPT !.st = "burned"] \in Ticket
                         /\ [tickets[u] EXCEPT !.st = "burned"].st = "burned"
  BY SMT DEF IInv, Types, Ticket
<1>5. tickets' \in [Tickets -> Ticket]
  BY <1>1, <1>3, <1>4, Zenon DEF IInv, Types
<1>6. ASSUME NEW u \in Tickets, tickets[u].st = "burned" PROVE tickets'[u].st = "burned"
  BY <1>1, <1>2, <1>6, SMT
<1>7. \A q \in Legs : rq[q].ticket \in Tickets \union {NoTicket}
  BY SMT DEF IInv, Types, Request
<1> QED BY <1>2, <1>5, <1>6, <1>7, Zenon DEF IInv, Types, Burned, Fresh

LEMMA Expires == ASSUME IInv, NEW t \in Tickets, Expire(t) PROVE IInv'
<1>1. /\ tickets' = [tickets EXCEPT ![t].st = "expired"]
      /\ tickets[t].st = "issued" /\ UNCHANGED <<rq, cur>>
  BY Zenon DEF Expire, legs
<1>2. tickets' \in [Tickets -> Ticket]
  BY <1>1, SMT DEF IInv, Types, Ticket
<1>3. \A u \in Tickets : u # t => tickets'[u] = tickets[u]
  BY <1>1, Zenon DEF IInv, Types
<1>4. \A q \in Legs : rq[q].ticket \in Tickets \union {NoTicket}
  BY SMT DEF IInv, Types, Request
<1> QED BY <1>1, <1>2, <1>3, <1>4, SMT DEF IInv, Types, Burned, Fresh

\* What a request that presents a ticket finds, and leaves.
LEMMA Presented ==
  ASSUME IInv, NEW r \in Legs, NEW t \in Tickets, consume(r, t, rq[r].call), cur' = cur
  PROVE  /\ IInv'
         /\ rq'[r].ticket = t
         /\ rq'[r].pc = "find" => tickets[t].st = "issued"
         /\ \A q \in Legs \ {r} : rq'[q] = rq[q]
<1> DEFINE to == IF tickets[t] = [st |-> "issued", call |-> rq[r].call] THEN "find" ELSE "refused"
           h == [rq[r] EXCEPT !.ticket = t, !.pc = to]
<1>1. rq' = [rq EXCEPT ![r] = h]
  BY DEF consume
<1>2. h \in Request /\ h.ticket = t /\ h.pc = to
  <2>1. to \in Steps /\ rq[r] \in Request
    BY SMT DEF Steps, IInv, Types
  <2>2. ASSUME NEW x \in Request, NEW pc \in Steps
        PROVE  LET y == [x EXCEPT !.ticket = t, !.pc = pc]
               IN  y \in Request /\ y.ticket = t /\ y.pc = pc
    <3>1. [x EXCEPT !.ticket = t, !.pc = pc] \in Request
      BY <2>2, Zenon DEF Request
    <3>2. /\ [x EXCEPT !.ticket = t, !.pc = pc].ticket = t
          /\ [x EXCEPT !.ticket = t, !.pc = pc].pc = pc
      BY <2>2, SMT DEF Request
    <3> QED BY <3>1, <3>2
  <2> QED BY <2>1, <2>2, Zenon
<1>3. /\ tickets' \in [Tickets -> Ticket] /\ tickets'[t].st = "burned"
      /\ \A u \in Tickets \ {t} : tickets'[u] = tickets[u]
  BY SMT DEF consume, burn, IInv, Types, Ticket
<1>4. /\ rq' \in [Legs -> Request] /\ rq'[r] = h
      /\ \A q \in Legs \ {r} : rq'[q] = rq[q]
  BY <1>1, <1>2, Zenon DEF IInv, Types
<1>5. Burned'
  <2> HIDE DEF h
  <2>1. \A q \in Legs : rq[q].ticket \in Tickets \union {NoTicket}
    BY SMT DEF IInv, Types, Request
  <2> SUFFICES ASSUME NEW q \in Legs, rq'[q].ticket # NoTicket
               PROVE  tickets'[rq'[q].ticket].st = "burned"
    BY DEF Burned
  <2>2. CASE q = r
    BY <2>2, <1>2, <1>3, <1>4
  <2>3. CASE q # r
    <3>1. rq'[q] = rq[q] /\ tickets[rq[q].ticket].st = "burned" /\ rq[q].ticket \in Tickets
      BY <2>1, <2>3, <1>4, Zenon DEF IInv, Burned
    <3> QED BY <3>1, <1>3, Zenon
  <2> QED BY <2>2, <2>3
<1>6. to = "find" => tickets[t].st = "issued"
  BY SMT
<1>7. Fresh'
  <2>1. to \notin Before
    BY SMT DEF Before
  <2> HIDE DEF h, to
  <2> QED BY <2>1, <1>2, <1>4, Zenon DEF IInv, Fresh
<1> QED BY <1>2, <1>3, <1>4, <1>5, <1>6, <1>7, Zenon DEF IInv, Types

LEMMA Credentials == ASSUME IInv, NEW r \in Requests, Credential(r) PROVE IInv'
<1>1. r \in Legs /\ UNCHANGED cur
  BY Zenon DEF Legs, Credential, legs
<1>2. CASE Go(r, "find") /\ UNCHANGED tickets
  BY <1>1, <1>2, GoesOnKept DEF Steps, Before
<1>3. CASE \E t \in Tickets : consume(r, t, rq[r].call)
  BY <1>1, <1>3, Presented, Zenon
<1> QED BY <1>2, <1>3, Zenon DEF Credential

-----------------------------------------------------------------------------
\* A request that begins has no ticket yet.
LEMMA Begins ==
  ASSUME IInv, NEW l \in Legs, NEW k \in Kinds, NEW c \in CallIDs, NEW pc \in {"ticket", "find"},
         rq[l].pc = "idle", rq' = [rq EXCEPT ![l].pc = pc, ![l].kind = k, ![l].call = c], UNCHANGED <<tickets, cur>>
  PROVE  IInv' /\ Holding
<1>1. rq[l] \in Request /\ pc \in Steps
  BY SMT DEF IInv, Types, Steps
<1>2. /\ [rq[l] EXCEPT !.pc = pc, !.kind = k, !.call = c] \in Request
      /\ [rq[l] EXCEPT !.pc = pc, !.kind = k, !.call = c].ticket = rq[l].ticket
  <2>1. [rq[l] EXCEPT !.pc = pc, !.kind = k, !.call = c] \in Request
    BY <1>1, Zenon DEF Request
  <2>2. [rq[l] EXCEPT !.pc = pc, !.kind = k, !.call = c].ticket = rq[l].ticket
    BY <1>1, SMT DEF Request
  <2> QED BY <2>1, <2>2
<1>3. rq' = [rq EXCEPT ![l] = [rq[l] EXCEPT !.pc = pc, !.kind = k, !.call = c]]
  OBVIOUS
<1>4. /\ rq' \in [Legs -> Request]
      /\ \A q \in Legs : /\ rq'[q].ticket = rq[q].ticket
                         /\ rq'[q].pc \in Before => rq[q].pc \in Before
  BY <1>1, <1>2, <1>3 DEF IInv, Types, Before
<1> QED BY <1>4, Kept DEF IInv, Types

\* doWebRTC and attachAgent keep the name of their call, handleAudioWS takes one.
LEMMA Begun ==
  ASSUME IInv, \/ \E r \in Requests : BeginWS(r) \/ BeginRTC(r)
               \/ BeginAgent
  PROVE  IInv' /\ Holding
<1>1. ASSUME NEW r \in Requests, BeginWS(r) PROVE IInv' /\ Holding
  <2>1. PICK c \in CallIDs : rq' = [rq EXCEPT ![r].pc = "ticket", ![r].kind = "ws", ![r].call = c]
    BY <1>1, Zenon DEF BeginWS
  <2> QED BY <2>1, <1>1, Begins DEF BeginWS, At, legs, Legs, Kinds
<1>2. ASSUME NEW l \in Legs, NEW k \in Kinds, rq' = [rq EXCEPT ![l].pc = "find", ![l].kind = k],
             UNCHANGED <<tickets, cur>>
      PROVE  IInv' /\ Holding
  <2>1. rq[l] \in Request /\ "find" \in Steps
    BY SMT DEF IInv, Types, Steps
  <2>2. [rq[l] EXCEPT !.pc = "find", !.kind = k] \in Request
    BY <2>1, <1>2, Zenon DEF Request
  <2>3. [rq[l] EXCEPT !.pc = "find", !.kind = k].ticket = rq[l].ticket /\ [rq[l] EXCEPT !.pc = "find", !.kind = k].pc = "find"
    BY <2>1, SMT DEF Request
  <2>4. rq' = [rq EXCEPT ![l] = [rq[l] EXCEPT !.pc = "find", !.kind = k]]
    BY <1>2
  <2>5. /\ rq' \in [Legs -> Request]
        /\ \A q \in Legs : /\ rq'[q].ticket = rq[q].ticket
                           /\ rq'[q].pc \in Before => rq[q].pc \in Before
    BY <2>2, <2>3, <2>4 DEF IInv, Types, Before
  <2> QED BY <1>2, <2>5, Kept DEF IInv, Types
<1>3. ASSUME NEW r \in Requests, BeginRTC(r) PROVE IInv' /\ Holding
  BY <1>2, <1>3 DEF BeginRTC, legs, Legs, Kinds
<1>4. BeginAgent => IInv' /\ Holding
  BY <1>2 DEF BeginAgent, legs, Legs, Kinds
<1> QED BY <1>1, <1>3, <1>4, Zenon

\* findCall, Accept, start, Detach, CloseOld and setBridge: the leg is attached.
LEMMA Sets ==
  ASSUME IInv, NEW l \in Legs, Setting(l)
  PROVE  IInv' /\ Holding
<1>1. CASE findCall(l)
  <2>1. PICK pc \in {"accept", "refused"} : Go(l, pc)
    BY <1>1, Zenon DEF findCall
  <2> QED BY <2>1, <1>1, GoesOnKept DEF findCall, legs, Steps, Before
<1>2. CASE Accept(l)
  <2>1. PICK pc \in {"set", "refused"} : Go(l, pc)
    BY <1>2, Zenon DEF Accept
  <2> QED BY <2>1, <1>2, GoesOnKept DEF Accept, Steps, Before
<1>3. CASE setBridge(l) /\ Registered
  <2>1. PICK pc \in {"start", "detach"} : rq' = [rq EXCEPT ![l].old = cur, ![l].pc = pc]
    BY <1>3, Zenon DEF setBridge
  <2>2. rq[l] \in Request /\ pc \in Steps /\ cur \in Legs \union {NoLeg}
    BY SMT DEF IInv, Types, Steps
  <2>3. [rq[l] EXCEPT !.old = cur, !.pc = pc] \in Request
    BY <2>2, Zenon DEF Request
  <2>4. [rq[l] EXCEPT !.old = cur, !.pc = pc].ticket = rq[l].ticket /\ [rq[l] EXCEPT !.old = cur, !.pc = pc].pc = pc
    BY <2>2, SMT DEF Request
  <2>5. rq' = [rq EXCEPT ![l] = [rq[l] EXCEPT !.old = cur, !.pc = pc]]
    BY <2>1
  <2>6. /\ rq' \in [Legs -> Request]
        /\ \A q \in Legs : /\ rq'[q].ticket = rq[q].ticket
                           /\ rq'[q].pc \in Before => rq[q].pc \in Before
    BY <2>3, <2>4, <2>5 DEF IInv, Types, Before
  <2>7. tickets' = tickets /\ cur' = l
    BY <1>3, Zenon DEF setBridge
  <2> QED BY <2>6, <2>7, Kept
<1>4. CASE setBridge(l) /\ ~Registered
  BY <1>4, GoesOnKept DEF setBridge, Steps, Before
<1>5. CASE Detach(l)
  BY <1>5, GoesOnKept DEF Detach, Steps, Before
<1>6. CASE CloseOld(l)
  BY <1>6, GoesOnKept DEF CloseOld, Steps, Before
<1>7. CASE start(l)
  BY <1>7, GoesOnKept DEF start, legs, Steps, Before
<1> QED BY <1>1, <1>2, <1>3, <1>4, <1>5, <1>6, <1>7, Zenon DEF Setting

\* The drop of a leg, the end of the call, hold and the agent's conversation.
LEMMA DropsUnmoved ==
  ASSUME NEW l \in Legs, Drop(l) \/ Vanish(l)
  PROVE  UNCHANGED <<tickets, rq, cur>>
BY Zenon DEF Drop, Vanish, ConnCloses, fail, OnTerminalICE, onAudioLegDropped, graceOver, askHold,
             terminateCall

LEMMA Others ==
  ASSUME Ends \/ Ending \/ doHold \/ SetHold \/ runHoldAudioLoop \/ Conversation
         \/ OnActive \/ WritePCM \/ downlink \/ uplink \/ run
  PROVE  UNCHANGED <<tickets, rq, cur>>
BY Zenon DEF Ends, Ending, removeCall, cleanupMedia, doHold, SetHold, runHoldAudioLoop, Conversation,
             Answer, dial, dialed, playout, fireTerminal, OnActive, WritePCM, downlink, uplink, run,
             agentOnly, legs

LEMMA Step == IInv /\ [Next]_vars => IInv'
<1> SUFFICES ASSUME IInv, [Next]_vars PROVE IInv'
  OBVIOUS
<1>1. UNCHANGED vars => IInv'
  BY Unmoved, Zenon DEF vars
<1> QED BY <1>1, Issued, Expires, Credentials, Begun, Sets, DropsUnmoved, Others, Unmoved, Zenon DEF Next

-----------------------------------------------------------------------------
\* A ticket that a request holds is burned, whatever steps the requests take.
THEOREM HeldIsBurned == Spec => []IInv
BY Initially, Step, PTL DEF Spec

\* A ticket lets through one request, and only the first that presents it
\* (audioTickets.consume).
THEOREM OnlyOnce == Spec => TicketOnce
<1> DEFINE A == \A r \in Requests :
       At(r, "ticket") /\ rq'[r].pc = "find" /\ rq'[r].ticket # NoTicket
         => \A q \in Requests : rq[q].ticket # rq'[r].ticket
<1>1. IInv /\ [Next]_vars => [A]_vars
  <2> SUFFICES ASSUME IInv, Next, NEW r \in Requests,
                      At(r, "ticket"), rq'[r].pc = "find", rq'[r].ticket # NoTicket,
                      NEW q \in Requests, rq[q].ticket = rq'[r].ticket
               PROVE  FALSE
    BY Zenon
  <2>1. r \in Legs /\ q \in Legs
    BY DEF Legs
  <2>2. tickets[rq[q].ticket].st = "burned"
    BY <2>1, Zenon DEF IInv, Burned
  <2>3. rq' = rq => FALSE
    BY SMT DEF At
  <2>4. rq'[r].ticket # rq[r].ticket
    BY <2>1, Zenon DEF IInv, Fresh, At, Before
  <2>5. Holding => FALSE
    BY <2>1, <2>4, Zenon DEF Holding
  <2>6. ASSUME NEW p \in Requests, Credential(p) PROVE FALSE
    <3>1. PICK t \in Tickets : consume(p, t, rq[p].call)
      <4>1. Go(p, "find") => Holding
        BY GoesOn, Zenon DEF Steps, Before, Legs, Holding
      <4> QED BY <4>1, <2>5, <2>6, Zenon DEF Credential
    <3>2. p \in Legs /\ cur' = cur
      BY <2>6, Zenon DEF Legs, Credential, legs
    <3>3. CASE p = r
      <4>1. rq'[r].ticket = t /\ tickets[t].st = "issued"
        BY <3>1, <3>2, <3>3, Presented, Zenon
      <4> QED BY <4>1, <2>2, SMT
    <3>4. CASE p # r
      BY <2>1, <2>4, <3>1, <3>2, <3>4, Presented, Zenon
    <3> QED BY <3>3, <3>4
  <2>7. (\E t \in Tickets : issue(t) \/ Expire(t)) => rq' = rq
    BY Zenon DEF issue, Expire
  <2> QED BY <2>3, <2>5, <2>6, <2>7, Begun, Sets, DropsUnmoved, Others, Zenon DEF Next
<1> QED BY <1>1, HeldIsBurned, PTL DEF Spec, TicketOnce

-----------------------------------------------------------------------------
(* The agent's goodbye, for any legs and bounds: the end of its            *)
(* conversation ends the call only when nothing of it is left to play.     *)
(*                                                                         *)
(* The end of the call is the last of a chain, and each link needs the one *)
(* before: the conversation is gone and its queue empty (play is "done"),  *)
(* the leg drops, its drop ends the call.  Nothing is queued any more once *)
(* the conversation is gone.                                               *)

Conns == {"none", "open", "down", "closed"}
Drops == {"idle", "dropped", "timer", "ask", "end", "held", "over"}
LegRecord == [kind : Kinds, conn : Conns, cb : BOOLEAN, server : BOOLEAN, drop : Drops]
Talks == {"idle", "seen", "never", "dial", "init", "talk", "gone"}
Plays == {"off", "on", "done", "stopped"}
TalkRecord == [pc : Talks, q : Nat, starved : Nat, cutAt : Nat, play : Plays]

LegTypes == leg \in [Legs -> LegRecord] /\ talk \in TalkRecord

\* Who drops or talks is attached, and the agent's leg is the agent's only.
Attached ==
  /\ \A l \in Legs : rq[l].pc # "idle" => rq[l].kind # "none"
  /\ \A l \in Legs : rq[l].pc = "set" \/ cur = l \/ leg[l].drop # "idle" => leg[l].kind # "none"
  /\ leg[Agent].kind \in {"none", "agent"}
  /\ talk.pc # "idle" => leg[Agent].kind # "none"

Chain ==
  /\ talk.play = "done" => talk.pc = "gone" /\ talk.q = 0
  /\ leg[Agent].drop # "idle" => talk.play = "done"
  /\ ender = Agent => talk.play = "done"

PlayedInv == LegTypes /\ Attached /\ Chain

\* A step after which the legs are of their kinds and drops still.
LegsKeep ==
  /\ leg' \in [Legs -> LegRecord]
  /\ \A l \in Legs : leg'[l].kind = leg[l].kind /\ leg'[l].drop = leg[l].drop

\* A step after which the drop of l is at d, and the others as they were.
DropIs(l, d) ==
  /\ leg' \in [Legs -> LegRecord]
  /\ \A q \in Legs : leg'[q].kind = leg[q].kind /\ (q # l => leg'[q].drop = leg[q].drop)
  /\ leg'[l].drop = d

\* wsBridge.Close and Bridge.Close: a leg that is closed is of its kind still.
LEMMA ClosedIs ==
  ASSUME LegTypes, NEW l, leg' = Closed(leg, l)
  PROVE  LegsKeep
<1>1. CASE l \notin Legs
  <2>1. leg' = leg
    BY <1>1 DEF Closed, LegTypes
  <2> QED BY <2>1 DEF LegsKeep, LegTypes
<1>2. CASE l \in Legs
  <2>1. PICK c \in Conns : leg' = [leg EXCEPT ![l].server = TRUE, ![l].conn = c]
    <3>1. leg[l].conn \in Conns
      BY <1>2, SMT DEF LegTypes, LegRecord
    <3> QED BY <3>1 DEF Closed, Conns
  <2> DEFINE h == [leg[l] EXCEPT !.server = TRUE, !.conn = c]
  <2>2. leg[l] \in LegRecord
    BY <1>2 DEF LegTypes
  <2>3. h \in LegRecord
    BY <2>2, Zenon DEF LegRecord
  <2>4. h.kind = leg[l].kind /\ h.drop = leg[l].drop
    BY <2>2, SMT DEF LegRecord
  <2>5. leg' = [leg EXCEPT ![l] = h]
    BY <2>1
  <2> HIDE DEF h
  <2> QED BY <2>3, <2>4, <2>5, <1>2, Zenon DEF LegsKeep, LegTypes
<1> QED BY <1>1, <1>2

\* ConnCloses, Vanish and the agent's connection.
LEMMA ConnIs ==
  ASSUME LegTypes, NEW l \in Legs, NEW c \in Conns, leg' = [leg EXCEPT ![l].conn = c]
  PROVE  LegsKeep
<1> DEFINE h == [leg[l] EXCEPT !.conn = c]
<1>1. leg[l] \in LegRecord
  BY DEF LegTypes
<1>2. h \in LegRecord
  BY <1>1, Zenon DEF LegRecord
<1>3. h.kind = leg[l].kind /\ h.drop = leg[l].drop
  BY <1>1, SMT DEF LegRecord
<1>4. leg' = [leg EXCEPT ![l] = h]
  OBVIOUS
<1> HIDE DEF h
<1> QED BY <1>2, <1>3, <1>4, Zenon DEF LegsKeep, LegTypes

\* Detach: the callbacks of the leg that was replaced are taken away.
LEMMA CallbackIs ==
  ASSUME LegTypes, NEW l, leg' = [leg EXCEPT ![l].cb = FALSE]
  PROVE  LegsKeep
<1>1. CASE l \notin Legs
  <2>1. leg' = leg
    BY <1>1 DEF LegTypes
  <2> QED BY <2>1 DEF LegsKeep, LegTypes
<1>2. CASE l \in Legs
  <2> DEFINE h == [leg[l] EXCEPT !.cb = FALSE]
  <2>1. leg[l] \in LegRecord
    BY <1>2 DEF LegTypes
  <2>2. h \in LegRecord
    BY <2>1, Zenon DEF LegRecord
  <2>3. h.kind = leg[l].kind /\ h.drop = leg[l].drop
    BY <2>1, SMT DEF LegRecord
  <2>4. leg' = [leg EXCEPT ![l] = h]
    OBVIOUS
  <2> HIDE DEF h
  <2> QED BY <2>2, <2>3, <2>4, <1>2, Zenon DEF LegsKeep, LegTypes
<1> QED BY <1>1, <1>2

\* The drop of a leg goes on.
LEMMA DropGoes ==
  ASSUME LegTypes, NEW l \in Legs, NEW d \in Drops, SetDrop(l, d)
  PROVE  DropIs(l, d)
<1> DEFINE h == [leg[l] EXCEPT !.drop = d]
<1>1. leg[l] \in LegRecord
  BY DEF LegTypes
<1>2. h \in LegRecord
  BY <1>1, Zenon DEF LegRecord
<1>3. h.kind = leg[l].kind /\ h.drop = d
  BY <1>1, SMT DEF LegRecord
<1>4. leg' = [leg EXCEPT ![l] = h]
  BY DEF SetDrop
<1> HIDE DEF h
<1> QED BY <1>2, <1>3, <1>4, Zenon DEF DropIs, LegTypes

\* wsBridge.fail: the connection closes and the drop begins.
LEMMA FailIs ==
  ASSUME LegTypes, NEW l \in Legs, NEW d \in Drops,
         leg' = [leg EXCEPT ![l].conn = "closed", ![l].drop = d]
  PROVE  DropIs(l, d)
<1> DEFINE h == [leg[l] EXCEPT !.conn = "closed", !.drop = d]
<1>1. leg[l] \in LegRecord /\ "closed" \in Conns
  BY DEF LegTypes, Conns
<1>2. h \in LegRecord
  BY <1>1, Zenon DEF LegRecord
<1>3. h.kind = leg[l].kind /\ h.drop = d
  BY <1>1, SMT DEF LegRecord
<1>4. leg' = [leg EXCEPT ![l] = h]
  OBVIOUS
<1> HIDE DEF h
<1> QED BY <1>2, <1>3, <1>4, Zenon DEF DropIs, LegTypes

-----------------------------------------------------------------------------
\* A step that only closes, cuts or silences legs.
LEMMA KeepKept ==
  ASSUME PlayedInv, LegsKeep, UNCHANGED <<rq, cur, ender, talk>>
  PROVE  PlayedInv'
<1>1. Agent \in Legs
  BY DEF Legs
<1> QED BY <1>1, Zenon DEF PlayedInv, LegTypes, Attached, Chain, LegsKeep

\* A step of the drop of a leg that has begun.
LEMMA DropKept ==
  ASSUME PlayedInv, NEW l \in Legs, NEW d \in Drops, DropIs(l, d), UNCHANGED <<rq, cur, talk>>,
         leg[l].kind # "none",
         l = Agent => talk.play = "done",
         ender' = Agent => talk.play = "done"
  PROVE  PlayedInv'
<1>1. Agent \in Legs
  BY DEF Legs
<1> QED BY <1>1, Zenon DEF PlayedInv, LegTypes, Attached, Chain, DropIs

\* onAudioLegDropped, graceOver, askHold, terminateCall, fail, OnTerminalICE, ConnCloses, Vanish.
LEMMA DropsPlayed ==
  ASSUME PlayedInv, NEW l \in Legs, Drop(l) \/ Vanish(l)
  PROVE  PlayedInv'
<1>0. leg[l].kind \in Kinds /\ leg[l].drop \in Drops /\ leg[l].conn \in Conns /\ Agent \in Legs
  BY SMT DEF PlayedInv, LegTypes, LegRecord, Legs
<1>a. Drops = {"idle", "dropped", "timer", "ask", "end", "held", "over"}
  BY DEF Drops
<1>b. leg[l].drop # "idle" => leg[l].kind # "none" /\ (l = Agent => talk.play = "done")
  BY DEF PlayedInv, Attached, Chain
<1>c. ender = Agent => talk.play = "done"
  BY DEF PlayedInv, Chain
<1>1. CASE ConnCloses(l)
  BY <1>1, ConnIs, KeepKept DEF ConnCloses, PlayedInv, Conns, rest
<1>2. CASE Vanish(l)
  BY <1>2, ConnIs, KeepKept DEF Vanish, PlayedInv, Conns, rest
<1>3. CASE fail(l)
  <2>1. PICK d \in {"dropped", "over"} : leg' = [leg EXCEPT ![l].conn = "closed", ![l].drop = d]
    BY <1>3, Zenon DEF fail
  <2>2. leg[l].kind = "ws" /\ UNCHANGED <<rq, cur, ender, talk>>
    BY <1>3 DEF fail, rest
  <2>3. l # Agent
    BY <2>2 DEF PlayedInv, Attached
  <2>4. d \in Drops
    BY <1>a, <2>1
  <2>5. DropIs(l, d)
    BY <2>1, <2>4, FailIs DEF PlayedInv
  <2> QED BY <1>c, <2>2, <2>3, <2>4, <2>5, DropKept
<1>4. CASE OnTerminalICE(l)
  <2>1. PICK d \in {"dropped", "over"} : SetDrop(l, d)
    BY <1>4, Zenon DEF OnTerminalICE
  <2>2. leg[l].kind = "rtc" /\ UNCHANGED <<rq, cur, ender, talk>>
    BY <1>4 DEF OnTerminalICE, rest
  <2>3. l # Agent
    BY <2>2 DEF PlayedInv, Attached
  <2>4. d \in Drops
    BY <1>a, <2>1
  <2>5. DropIs(l, d)
    BY <2>1, <2>4, DropGoes DEF PlayedInv
  <2> QED BY <1>c, <2>2, <2>3, <2>4, <2>5, DropKept
<1>5. CASE onAudioLegDropped(l) \/ graceOver(l) \/ askHold(l) \/ terminateCall(l)
  <2>1. leg[l].drop # "idle"
    BY <1>5 DEF onAudioLegDropped, graceOver, askHold, terminateCall, Dropping
  <2>2. \E d \in Drops : SetDrop(l, d)
    <3>1. CASE onAudioLegDropped(l)
      <4>1. [ws |-> "timer", rtc |-> "ask", agent |-> "end"][leg[l].kind] \in Drops
        BY <1>0, <1>a, <1>b, <2>1 DEF Kinds
      <4>2. "over" \in Drops
        BY <1>a
      <4> QED BY <3>1, <4>1, <4>2, Zenon DEF onAudioLegDropped
    <3>2. CASE graceOver(l) \/ askHold(l) \/ terminateCall(l)
      <4>1. "ask" \in Drops /\ "over" \in Drops /\ "held" \in Drops /\ "end" \in Drops
        BY <1>a
      <4> QED BY <3>2, <4>1, Zenon DEF graceOver, askHold, terminateCall
    <3> QED BY <1>5, <3>1, <3>2
  <2>3. PICK d \in Drops : SetDrop(l, d)
    BY <2>2
  <2>4. DropIs(l, d)
    BY <2>3, DropGoes DEF PlayedInv
  <2>5. UNCHANGED <<rq, cur, talk>> /\ ender' \in {ender, l}
    BY <1>5 DEF onAudioLegDropped, graceOver, askHold, terminateCall, rest
  <2> QED BY <1>b, <1>c, <2>1, <2>4, <2>5, DropKept
<1> QED BY <1>1, <1>2, <1>3, <1>4, <1>5 DEF Drop

\* A request that goes on is of its kind still.
RqIs(l, pc) ==
  /\ \A q \in Legs : rq'[q].kind = rq[q].kind /\ (q # l => rq'[q].pc = rq[q].pc)
  /\ rq'[l].pc = pc

LEMMA GoIs ==
  ASSUME IInv, NEW l \in Legs, NEW pc \in Steps, Go(l, pc)
  PROVE  RqIs(l, pc)
<1> DEFINE h == [rq[l] EXCEPT !.pc = pc]
<1>1. rq[l] \in Request
  BY DEF IInv, Types
<1>2. h.kind = rq[l].kind /\ h.pc = pc
  BY <1>1, SMT DEF Request
<1>3. rq' = [rq EXCEPT ![l] = h]
  BY DEF Go
<1> HIDE DEF h
<1> QED BY <1>2, <1>3, Zenon DEF RqIs, IInv, Types

\* A step of a request that has its leg, or has none yet.
LEMMA GoKept ==
  ASSUME PlayedInv, NEW l \in Legs, NEW pc, RqIs(l, pc), rq[l].pc # "idle", pc # "set",
         LegsKeep, cur' = cur \/ (cur' = l /\ leg[l].kind # "none"), UNCHANGED <<ender, talk>>
  PROVE  PlayedInv'
<1>1. Agent \in Legs
  BY DEF Legs
<1>2. Attached'
  BY <1>1, ZenonT(30) DEF PlayedInv, Attached, LegsKeep, RqIs
<1> QED BY <1>1, <1>2, Zenon DEF PlayedInv, LegTypes, Chain, LegsKeep

\* A request begins, or presents its credential: it has a kind from now on.
LEMMA BeginKept ==
  ASSUME PlayedInv, NEW l \in Legs, \A q \in Legs \ {l} : rq'[q] = rq[q],
         rq'[l].kind # "none", rq'[l].pc # "set", UNCHANGED legs, UNCHANGED talk
  PROVE  PlayedInv'
<1>1. Agent \in Legs
  BY DEF Legs
<1>2. Attached'
  BY <1>1, Zenon DEF PlayedInv, Attached, legs
<1> QED BY <1>2, Zenon DEF PlayedInv, LegTypes, Chain, legs

\* handleAudioWS, doWebRTC and attachAgent begin; consume lets a request through.
LEMMA BegunPlayed ==
  ASSUME IInv, PlayedInv, \/ \E r \in Requests : BeginWS(r) \/ BeginRTC(r) \/ Credential(r)
                          \/ BeginAgent
  PROVE  PlayedInv'
<1>0. rq \in [Legs -> Request]
  BY DEF IInv, Types
<1>1. ASSUME NEW r \in Requests, BeginWS(r)
      PROVE  PlayedInv'
  <2>1. PICK c \in CallIDs : rq' = [rq EXCEPT ![r].pc = "ticket", ![r].kind = "ws", ![r].call = c]
    BY <1>1, Zenon DEF BeginWS
  <2>2. r \in Legs /\ rq[r] \in Request
    BY <1>0 DEF Legs
  <2>3. rq'[r].kind = "ws" /\ rq'[r].pc = "ticket"
    BY <1>0, <2>1, <2>2, SMT DEF Request
  <2>4. \A q \in Legs \ {r} : rq'[q] = rq[q]
    BY <1>0, <2>1
  <2>5. UNCHANGED legs /\ UNCHANGED talk
    BY <1>1 DEF BeginWS
  <2> QED BY <2>2, <2>3, <2>4, <2>5, BeginKept
<1>2. ASSUME NEW l \in Legs, NEW k \in {"rtc", "agent"},
             rq' = [rq EXCEPT ![l].pc = "find", ![l].kind = k], UNCHANGED legs, UNCHANGED talk
      PROVE  PlayedInv'
  <2>1. rq[l] \in Request
    BY <1>0
  <2>2. rq'[l].kind = k /\ rq'[l].pc = "find"
    BY <1>0, <1>2, <2>1, SMT DEF Request
  <2>3. \A q \in Legs \ {l} : rq'[q] = rq[q]
    BY <1>0, <1>2
  <2> QED BY <1>2, <2>2, <2>3, BeginKept
<1>3. ASSUME NEW r \in Requests, BeginRTC(r)
      PROVE  PlayedInv'
  BY <1>2, <1>3 DEF BeginRTC, Legs
<1>4. BeginAgent => PlayedInv'
  BY <1>2 DEF BeginAgent, Legs
<1>5. ASSUME NEW r \in Requests, Credential(r)
      PROVE  PlayedInv'
  <2>1. r \in Legs /\ rq[r].pc = "ticket" /\ UNCHANGED legs /\ UNCHANGED talk
    BY <1>5 DEF Legs, Credential, rest, At
  <2>2. rq[r].kind # "none" /\ rq[r] \in Request
    BY <1>0, <2>1 DEF PlayedInv, Attached
  <2>3. CASE Go(r, "find")
    <3>1. RqIs(r, "find")
      BY <2>1, <2>3, GoIs DEF Steps
    <3>2. \A q \in Legs \ {r} : rq'[q] = rq[q]
      BY <1>0, <2>3 DEF Go
    <3> QED BY <2>1, <2>2, <3>1, <3>2, BeginKept DEF RqIs
  <2>4. ASSUME NEW t \in Tickets, consume(r, t, rq[r].call)
        PROVE  PlayedInv'
    <3>1. PICK pc \in {"find", "refused"} : rq' = [rq EXCEPT ![r].ticket = t, ![r].pc = pc]
      BY <2>4, Zenon DEF consume
    <3>2. rq'[r].kind = rq[r].kind /\ rq'[r].pc = pc
      BY <1>0, <2>1, <2>2, <3>1, SMT DEF Request
    <3>3. \A q \in Legs \ {r} : rq'[q] = rq[q]
      BY <1>0, <3>1
    <3> QED BY <2>1, <2>2, <3>1, <3>2, <3>3, BeginKept
  <2> QED BY <1>5, <2>3, <2>4, Zenon DEF Credential
<1> QED BY <1>1, <1>3, <1>4, <1>5

\* findCall, Accept, setBridge, Detach, CloseOld and start.
LEMMA SetsPlayed ==
  ASSUME IInv, PlayedInv, NEW l \in Legs, Setting(l)
  PROVE  PlayedInv'
<1>0. /\ rq \in [Legs -> Request] /\ leg \in [Legs -> LegRecord] /\ Agent \in Legs
      /\ LegTypes /\ (rq[l].pc = "set" => leg[l].kind # "none")
      /\ (leg' = leg => LegsKeep)
  BY DEF IInv, Types, PlayedInv, LegTypes, Legs, Attached, LegsKeep
<1>1. CASE findCall(l)
  <2>1. PICK pc \in {"accept", "refused"} : Go(l, pc)
    BY <1>1, Zenon DEF findCall
  <2>2. UNCHANGED <<leg, cur, ender, talk>> /\ rq[l].pc = "find"
    BY <1>1 DEF findCall, legs, rest, At
  <2>3. RqIs(l, pc)
    BY <2>1, GoIs DEF Steps
  <2> QED BY <1>0, <2>1, <2>2, <2>3, GoKept
<1>2. CASE Accept(l)
  <2>1. rq[l].pc = "accept" /\ UNCHANGED <<cur, ender, talk>>
    BY <1>2 DEF Accept, rest, At
  <2>2. CASE Go(l, "refused") /\ UNCHANGED leg
    <3>1. RqIs(l, "refused")
      BY <2>2, GoIs DEF Steps
    <3> QED BY <1>0, <2>1, <2>2, <3>1, GoKept
  <2>3. ASSUME NEW h, h = IF l = Agent THEN [NewLeg("agent") EXCEPT !.conn = "none"]
                          ELSE NewLeg(rq[l].kind),
               Go(l, "set"), leg' = [leg EXCEPT ![l] = h]
        PROVE  PlayedInv'
    <3>1. RqIs(l, "set")
      BY <2>3, GoIs DEF Steps
    <3>2. rq[l].kind \in Kinds /\ rq[l].kind # "none"
      BY <1>0, <2>1 DEF Request, PlayedInv, Attached
    <3>3. h \in LegRecord /\ h.kind # "none" /\ h.drop = "idle" /\ (l = Agent => h.kind = "agent")
      <4>1. CASE l = Agent
        BY <2>3, <4>1 DEF NewLeg, LegRecord, Kinds, Conns, Drops
      <4>2. CASE l # Agent
        BY <2>3, <3>2, <4>2 DEF NewLeg, LegRecord, Conns, Drops
      <4> QED BY <4>1, <4>2
    <3>4. /\ leg' \in [Legs -> LegRecord] /\ leg'[l] = h
          /\ \A q \in Legs \ {l} : leg'[q] = leg[q]
      BY <1>0, <2>3, <3>3
    <3>5. Attached'
      BY <1>0, <2>1, <3>1, <3>2, <3>3, <3>4 DEF PlayedInv, Attached, RqIs
    <3>6. Chain'
      BY <1>0, <2>1, <3>3, <3>4, Zenon DEF PlayedInv, Chain
    <3> QED BY <2>1, <3>4, <3>5, <3>6, Zenon DEF PlayedInv, LegTypes
  <2> QED BY <1>2, <2>2, <2>3 DEF Accept
<1>3. CASE setBridge(l) /\ Registered
  <2>1. PICK pc \in {"start", "detach"} : rq' = [rq EXCEPT ![l].old = cur, ![l].pc = pc]
    BY <1>3, Zenon DEF setBridge
  <2>2. rq'[l].kind = rq[l].kind /\ rq'[l].pc = pc
    <3>1. rq[l] \in Request
      BY <1>0
    <3> QED BY <1>0, <2>1, <3>1, SMT DEF Request
  <2>3. RqIs(l, pc)
    BY <1>0, <2>1, <2>2 DEF RqIs
  <2>4. cur' = l /\ UNCHANGED <<leg, ender, talk>> /\ rq[l].pc = "set"
    BY <1>3, Zenon DEF setBridge, rest, At
  <2> QED BY <1>0, <2>1, <2>3, <2>4, GoKept
<1>4. CASE setBridge(l) /\ ~Registered
  <2>1. leg' = Closed(leg, l) /\ Go(l, "start") /\ UNCHANGED <<cur, ender, talk>> /\ rq[l].pc = "set"
    BY <1>4, Zenon DEF setBridge, rest, At
  <2>2. RqIs(l, "start") /\ LegsKeep
    BY <1>0, <2>1, GoIs, ClosedIs DEF Steps
  <2> QED BY <2>1, <2>2, GoKept
<1>5. CASE Detach(l)
  <2>1. /\ leg' = [leg EXCEPT ![rq[l].old].cb = FALSE] /\ Go(l, "close")
        /\ UNCHANGED <<cur, ender, talk>> /\ rq[l].pc = "detach"
    BY <1>5, Zenon DEF Detach, rest, At
  <2>2. RqIs(l, "close") /\ LegsKeep
    BY <1>0, <2>1, GoIs, CallbackIs DEF Steps
  <2> QED BY <2>1, <2>2, GoKept
<1>6. CASE CloseOld(l)
  <2>1. /\ leg' = Closed(leg, rq[l].old) /\ Go(l, "start")
        /\ UNCHANGED <<cur, ender, talk>> /\ rq[l].pc = "close"
    BY <1>6, Zenon DEF CloseOld, rest, At
  <2>2. RqIs(l, "start") /\ LegsKeep
    BY <1>0, <2>1, GoIs, ClosedIs DEF Steps
  <2> QED BY <2>1, <2>2, GoKept
<1>7. CASE start(l)
  <2>1. Go(l, "done") /\ UNCHANGED <<leg, cur, ender, talk>> /\ rq[l].pc = "start"
    BY <1>7, Zenon DEF start, legs, rest, At
  <2>2. RqIs(l, "done") /\ LegsKeep
    BY <1>0, <2>1, GoIs DEF Steps
  <2> QED BY <2>1, <2>2, GoKept
<1> QED BY <1>1, <1>2, <1>3, <1>4, <1>5, <1>6, <1>7, Zenon DEF Setting

-----------------------------------------------------------------------------
\* The end of the call, hold and tickets: no drop, and nothing of the conversation.
LEMMA EndPlayed ==
  ASSUME PlayedInv, \/ Ends \/ Ending \/ doHold \/ SetHold \/ runHoldAudioLoop
                    \/ \E t \in Tickets : issue(t) \/ Expire(t)
  PROVE  PlayedInv'
<1>1. ASSUME UNCHANGED <<rq, cur, talk>>, LegsKeep, ender' = ender \/ ender' = "peer"
      PROVE  PlayedInv'
  <2>1. ender' = Agent => ender = Agent
    BY <1>1, LegsNames
  <2>2. Agent \in Legs
    BY DEF Legs
  <2> QED BY <1>1, <2>1, <2>2, Zenon DEF PlayedInv, LegTypes, Attached, Chain, LegsKeep
<1>2. UNCHANGED leg => LegsKeep
  BY DEF LegsKeep, PlayedInv, LegTypes
<1>3. CASE removeCall
  BY <1>1, <1>2, <1>3, ClosedIs DEF removeCall, rest, PlayedInv
<1>4. CASE Ends \/ cleanupMedia \/ doHold \/ SetHold \/ runHoldAudioLoop
  BY <1>1, <1>2, <1>4 DEF Ends, cleanupMedia, doHold, SetHold, runHoldAudioLoop, legs, rest
<1>5. ASSUME NEW t \in Tickets, issue(t) \/ Expire(t)
      PROVE  PlayedInv'
  BY <1>1, <1>2, <1>5 DEF issue, Expire, legs, rest
<1> QED BY <1>3, <1>4, <1>5 DEF Ending

-----------------------------------------------------------------------------
\* A step of the agent's conversation.
LEMMA TalkKept ==
  ASSUME PlayedInv, LegsKeep, UNCHANGED <<rq, cur, ender>>, talk' \in TalkRecord,
         talk'.pc # "idle" => leg[Agent].kind # "none",
         talk.play = "done" => talk'.play = "done",
         talk'.play = "done" => talk'.pc = "gone" /\ talk'.q = 0
  PROVE  PlayedInv'
<1>1. Agent \in Legs
  BY DEF Legs
<1> QED BY <1>1, Zenon DEF PlayedInv, LegTypes, Attached, Chain, LegsKeep

\* A conversation that is not at its end goes to pc (and to playing).
LEMMA GoesTo ==
  ASSUME PlayedInv, LegsKeep, UNCHANGED <<rq, cur, ender>>, NEW pc \in Talks,
         talk' = [talk EXCEPT !.pc = pc], leg[Agent].kind # "none",
         talk.pc # "gone"
  PROVE  PlayedInv'
<1>1. talk \in TalkRecord /\ talk.play # "done"
  BY DEF PlayedInv, LegTypes, Chain
<1>2. talk' \in TalkRecord /\ talk'.play = talk.play
  BY <1>1, SMT DEF TalkRecord
<1> QED BY <1>1, <1>2, TalkKept

\* Nothing is queued when the conversation is gone; what is, is played.
LEMMA TalksPlayed ==
  ASSUME PlayedInv, OnActive \/ WritePCM \/ downlink \/ uplink \/ run \/ Conversation
  PROVE  PlayedInv'
<1>0. /\ Agent \in Legs /\ talk \in TalkRecord /\ LegTypes
      /\ (leg' = leg => LegsKeep)
      /\ (cur = Agent \/ talk.pc # "idle" => leg[Agent].kind # "none")
      /\ (talk.play = "done" => talk.pc = "gone" /\ talk.q = 0)
  BY DEF PlayedInv, LegTypes, Legs, Attached, LegsKeep, Chain
<1>a. /\ talk.q \in Nat /\ talk.starved \in Nat /\ talk.cutAt \in Nat
      /\ talk.pc \in Talks /\ talk.play \in Plays
  BY <1>0, SMT DEF TalkRecord
<1>1. CASE OnActive \/ WritePCM
  <2>1. /\ talk' = [talk EXCEPT !.pc = "seen"] /\ UNCHANGED <<leg, rq, cur, ender>>
        /\ cur = Agent /\ talk.pc = "idle"
    BY <1>1, Zenon DEF OnActive, WritePCM, agentOnly
  <2> QED BY <1>0, <2>1, GoesTo DEF Talks
<1>2. CASE Answer
  <2>1. UNCHANGED <<leg, rq, cur, ender>> /\ talk.pc = "seen"
    BY <1>2, Zenon DEF Answer, agentOnly
  <2>2. CASE talk' = [talk EXCEPT !.pc = "never"]
    BY <1>0, <2>1, <2>2, GoesTo DEF Talks
  <2>3. CASE talk' = [talk EXCEPT !.pc = "dial", !.play = "on"]
    <3>1. talk' \in TalkRecord
      <4>1. "dial" \in Talks /\ "on" \in Plays
        BY DEF Talks, Plays
      <4> QED BY <1>0, <2>3, <4>1, Zenon DEF TalkRecord
    <3>2. talk'.play = "on"
      BY <1>0, <2>3, SMT DEF TalkRecord
    <3> QED BY <1>0, <2>1, <3>1, <3>2, TalkKept
  <2> QED BY <1>2, <2>2, <2>3, Zenon DEF Answer
<1>3. CASE dial
  <2>1. UNCHANGED <<rq, cur, ender>> /\ talk.pc = "dial"
    BY <1>3, Zenon DEF dial, agentOnly
  <2>2. /\ leg' = [leg EXCEPT ![Agent].conn = "open"] \/ UNCHANGED leg
        /\ \E pc \in {"init", "gone"} : talk' = [talk EXCEPT !.pc = pc]
    BY <1>3, Zenon DEF dial
  <2>3. LegsKeep
    BY <1>0, <2>2, ConnIs DEF Conns
  <2> QED BY <1>0, <2>1, <2>2, <2>3, GoesTo DEF Talks
<1>4. CASE dialed
  <2>1. UNCHANGED <<rq, cur, ender>> /\ talk.pc = "init"
    BY <1>4, Zenon DEF dialed, agentOnly
  <2>2. /\ leg' = [leg EXCEPT ![Agent].conn = "closed"] \/ UNCHANGED leg
        /\ \E pc \in {"talk", "gone"} : talk' = [talk EXCEPT !.pc = pc]
    BY <1>4, Zenon DEF dialed
  <2>3. LegsKeep
    BY <1>0, <2>2, ConnIs DEF Conns
  <2> QED BY <1>0, <2>1, <2>2, <2>3, GoesTo DEF Talks
<1>5. CASE downlink
  <2>1. UNCHANGED <<leg, rq, cur, ender>> /\ talk.pc = "talk"
    BY <1>5, Zenon DEF downlink, agentOnly
  <2>2. PICK id \in 1..2 : (\E n \in 1..3 : enqueue(id, n)) \/ interrupt(id)
    BY <1>5, Zenon DEF downlink
  <2>3. talk' \in TalkRecord /\ talk'.pc = talk.pc /\ talk'.play = talk.play
    <3>1. ASSUME NEW n \in 1..3, enqueue(id, n)
          PROVE  talk' \in TalkRecord /\ talk'.pc = talk.pc /\ talk'.play = talk.play
      BY <1>0, <1>a, <3>1, SMT DEF enqueue, TalkRecord
    <3>2. CASE interrupt(id)
      <4>1. PICK c \in Nat : talk' = [talk EXCEPT !.q = 0, !.starved = 0, !.cutAt = c]
        <5>1. (IF id > talk.cutAt THEN id ELSE talk.cutAt) \in Nat
          BY <1>a
        <5> QED BY <3>2, <5>1 DEF interrupt
      <4>2. talk' \in TalkRecord
        <5>1. 0 \in Nat
          OBVIOUS
        <5> QED BY <1>0, <4>1, <5>1, Zenon DEF TalkRecord
      <4>3. talk'.pc = talk.pc /\ talk'.play = talk.play
        BY <1>0, <4>1, SMT DEF TalkRecord
      <4> QED BY <4>2, <4>3
    <3> QED BY <2>2, <3>1, <3>2
  <2> QED BY <1>0, <2>1, <2>3, TalkKept
<1>6. CASE uplink
  <2>1. leg' = [leg EXCEPT ![Agent].conn = "closed"] /\ UNCHANGED <<rq, cur, ender, talk>>
    BY <1>6, Zenon DEF uplink, agentOnly
  <2>2. LegsKeep
    BY <1>0, <2>1, ConnIs DEF Conns
  <2> QED BY <2>1, <2>2, KeepKept
<1>7. CASE run
  <2>1. /\ leg' = [leg EXCEPT ![Agent].conn = "closed"] /\ UNCHANGED <<rq, cur, ender>>
        /\ talk.pc = "talk" /\ talk' = [talk EXCEPT !.pc = "gone"]
    BY <1>7, Zenon DEF run, agentOnly
  <2>2. LegsKeep
    BY <1>0, <2>1, ConnIs DEF Conns
  <2> QED BY <1>0, <2>1, <2>2, GoesTo DEF Talks
<1>8. CASE playout
  <2>1. UNCHANGED <<leg, rq, cur, ender>> /\ talk.play = "on"
    BY <1>8, Zenon DEF playout, agentOnly
  <2>2. /\ talk' \in TalkRecord /\ talk'.pc = talk.pc
        /\ talk'.play = "done" => talk'.pc = "gone" /\ talk'.q = 0
    <3>1. CASE talk' = [talk EXCEPT !.play = "stopped"]
      BY <1>0, <3>1, SMT DEF TalkRecord, Plays
    <3>2. CASE talk' = nextFrame
      <4>1. CASE talk.q >= 2
        <5>1. talk.q - 2 \in Nat /\ 0 \in Nat
          BY <1>a, <4>1
        <5>2. talk' = [talk EXCEPT !.q = talk.q - 2, !.starved = 0]
          BY <3>2, <4>1 DEF nextFrame
        <5>3. talk' \in TalkRecord
          BY <1>0, <5>1, <5>2, Zenon DEF TalkRecord
        <5>4. talk'.pc = talk.pc /\ talk'.play = talk.play
          BY <1>0, <5>2, SMT DEF TalkRecord
        <5> QED BY <2>1, <5>3, <5>4
      <4>2. CASE talk.q = 1
        <5>1. talk.starved + 1 \in Nat /\ 0 \in Nat
          BY <1>a
        <5>2. \/ talk' = [talk EXCEPT !.starved = talk.starved + 1]
              \/ talk' = [talk EXCEPT !.q = 0, !.starved = 0]
          BY <3>2, <4>2 DEF nextFrame
        <5>3. talk' \in TalkRecord
          BY <1>0, <5>1, <5>2, Zenon DEF TalkRecord
        <5>4. talk'.pc = talk.pc /\ talk'.play = talk.play
          <6>1. CASE talk' = [talk EXCEPT !.starved = talk.starved + 1]
            BY <1>0, <6>1, SMT DEF TalkRecord
          <6>2. CASE talk' = [talk EXCEPT !.q = 0, !.starved = 0]
            BY <1>0, <6>2, SMT DEF TalkRecord
          <6> QED BY <5>2, <6>1, <6>2
        <5> QED BY <2>1, <5>3, <5>4
      <4>3. CASE talk.q = 0
        BY <1>0, <1>a, <2>1, <3>2, <4>3, SMT DEF nextFrame, TalkRecord, Plays
      <4> QED BY <1>a, <4>1, <4>2, <4>3
    <3> QED BY <1>8, <3>1, <3>2, Zenon DEF playout
  <2> QED BY <1>0, <2>1, <2>2, TalkKept
<1>9. CASE fireTerminal
  <2>1. talk.play = "done" /\ UNCHANGED <<rq, cur, ender, talk>>
    BY <1>9, Zenon DEF fireTerminal, agentOnly
  <2>2. PICK d \in {"dropped", "over"} : SetDrop(Agent, d)
    BY <1>9, Zenon DEF fireTerminal
  <2>3. leg[Agent].kind # "none" /\ d \in Drops
    BY <1>0, <2>1 DEF Drops
  <2>4. DropIs(Agent, d)
    BY <1>0, <2>2, <2>3, DropGoes
  <2> QED BY <1>0, <2>1, <2>3, <2>4, DropKept
<1> QED BY <1>1, <1>2, <1>3, <1>4, <1>5, <1>6, <1>7, <1>8, <1>9 DEF Conversation

LEMMA PlayedStep == IInv /\ PlayedInv /\ [Next]_vars => PlayedInv'
<1> SUFFICES ASSUME IInv, PlayedInv, [Next]_vars PROVE PlayedInv'
  OBVIOUS
<1>1. UNCHANGED vars => PlayedInv'
  <2>1. UNCHANGED vars => LegsKeep /\ UNCHANGED <<rq, cur, ender, talk>>
    BY DEF vars, LegsKeep, PlayedInv, LegTypes
  <2> QED BY <2>1, KeepKept
<1> QED BY <1>1, BegunPlayed, SetsPlayed, DropsPlayed, EndPlayed, TalksPlayed, Zenon DEF Next

LEMMA PlayedInitially == Init => PlayedInv
<1> SUFFICES ASSUME Init PROVE PlayedInv
  OBVIOUS
<1>1. Agent \in Legs /\ NoLeg \notin Legs /\ Agent # NoLeg
  BY LegsNames DEF Legs
<1>2. [NewLeg("none") EXCEPT !.conn = "none"] \in LegRecord
      /\ [NewLeg("none") EXCEPT !.conn = "none"].kind = "none"
      /\ [NewLeg("none") EXCEPT !.conn = "none"].drop = "idle"
  BY DEF NewLeg, LegRecord, Kinds, Conns, Drops
<1>3. LegTypes
  BY <1>2 DEF Init, LegTypes, TalkRecord, Talks, Plays
<1>4. \A l \in Legs : leg[l].kind = "none" /\ leg[l].drop = "idle" /\ rq[l].pc = "idle"
  BY <1>2 DEF Init, NoRequest
<1> QED BY <1>1, <1>3, <1>4 DEF Init, PlayedInv, Attached, Chain

\* The contact hears the agent to the end (remoteGone, nextFrame, fireTerminal).
THEOREM GoodbyeIsPlayed == Spec => []GoodbyePlayed
<1>1. PlayedInv => GoodbyePlayed
  BY DEF PlayedInv, Chain, GoodbyePlayed
<1> QED BY PlayedInitially, PlayedStep, HeldIsBurned, <1>1, PTL DEF Spec
=============================================================================
