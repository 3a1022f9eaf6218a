-------------------------------- MODULE Legs --------------------------------
(***************************************************************************)
(* The legs of one call: who talks to the contact, and what the drop of a  *)
(* leg does to the call.  cmd/server: the audio tickets (audioticket.go),  *)
(* the WebSocket and WebRTC legs (httpapi_audio.go, wsbridge.go,           *)
(* httpapi.go, bridge.go), the voice agent (agentleg.go, httpapi_agent.go),*)
(* the swap of legs (session.go, callregistry.go); and the hold music of   *)
(* the call manager (internal/voip/call/callmanager_hold.go).              *)
(*                                                                         *)
(* A request that brings a leg, and the dial that attaches the agent, goes *)
(* on from what it has read; the registry's mutex, the ticket store's, the *)
(* leg's and the call manager's are each held for one step.  The module    *)
(* Calls has the rest of the end of a call.  Audio is not modelled, but    *)
(* for the queue of the agent, counted in halves of a frame of 20 ms.      *)
(***************************************************************************)
EXTENDS Integers, FiniteSets

CONSTANTS
  Requests,   \* requests of audio: each brings one leg, named as the request
  Agent,      \* the leg of the voice agent
  NoLeg,
  Tickets,    \* tickets that can be issued (32 random bytes: never the same twice)
  NoTicket,
  Budgets     \* bounds: each is how many requests, agents, tickets, holds and events
              \* of the agent's conversation a behaviour may have

ASSUME LegsNames ==
  /\ Agent \notin Requests /\ NoLeg \notin Requests \union {Agent} /\ NoTicket \notin Tickets
  /\ "peer" \notin Requests \union {Agent}
ASSUME LegsBounds == Budgets \subseteq [{"requests", "agents", "tickets", "holds", "events"} -> Nat]

Legs == Requests \union {Agent}
\* The call of this module and any other: what a ticket or a URL names.
CallIDs == {"this", "other"}

VARIABLES
  tickets,  \* each ticket: its call and whether it is issued, expired, burned
  rq,       \* each request: control point, ticket, and the leg it replaced
  leg,      \* each leg
  cur,      \* activeCall.bridge
  call,     \* the call: up; out of the registry; its leg closed; over (media clean)
  ender,    \* history: whose drop ended the call, "peer", or NoLeg
  hold,     \* isHold, and the hold request under way
  music,    \* holdStop # nil; loops that listen to it; loops told to stop
  talk,     \* the agent's conversation and its queue
  left      \* how much of each bound is left

vars == <<tickets, rq, leg, cur, call, ender, hold, music, talk, left>>

Kinds == {"none", "ws", "rtc", "agent"}
\* A leg's conn: "none", "open", "down", "closed".  Its drop, what its end is about to
\* do: "dropped", a callback was read; "timer", the grace runs; "ask", the call was
\* found with this leg; "end", the call is to be ended; "held" or "over", left alone.
Steps == {"idle", "ticket", "find", "accept", "set", "detach", "close", "start", "done", "refused"}
NoRequest == [pc |-> "idle", kind |-> "none", call |-> "this", ticket |-> NoTicket, old |-> NoLeg]
NewLeg(k) == [kind |-> k, conn |-> "open", cb |-> TRUE, server |-> FALSE, drop |-> "idle"]

Init ==
  /\ tickets = [t \in Tickets |-> [st |-> "none", call |-> "this"]]
  /\ rq = [l \in Legs |-> NoRequest]
  /\ leg = [l \in Legs |-> [NewLeg("none") EXCEPT !.conn = "none"]]
  /\ cur = NoLeg /\ call = "up" /\ ender = NoLeg
  /\ hold = [on |-> FALSE, ask |-> "none"]
  /\ music = [stop |-> FALSE, on |-> 0, told |-> 0]
  /\ talk = [pc |-> "idle", q |-> 0, starved |-> 0, cutAt |-> 0, play |-> "off"]
  /\ left \in Budgets

-----------------------------------------------------------------------------
(* Helpers. *)

legs == <<leg, cur, call, ender>>
rest == <<hold, music, talk, left>>
At(l, pc) == rq[l].pc = pc
Go(l, pc) == rq' = [rq EXCEPT ![l].pc = pc]
Registered == call = "up"
Dropping(l, d) == leg[l].drop = d
SetDrop(l, d) == leg' = [leg EXCEPT ![l].drop = d]
Spend(bound) == left[bound] > 0 /\ left' = [left EXCEPT ![bound] = @ - 1]
Stopped == leg[Agent].server

-----------------------------------------------------------------------------
(* Tickets. *)

\* issue, after handleAudioTicket found the call: the expired ones are swept.
issue(t) ==
  /\ tickets[t].st = "none"
  /\ Spend("tickets")
  /\ \E c \in CallIDs :
       /\ c = "this" => Registered
       /\ tickets' = [u \in Tickets |->
            IF u = t THEN [st |-> "issued", call |-> c]
            ELSE IF tickets[u].st = "expired" THEN [tickets[u] EXCEPT !.st = "burned"]
            ELSE tickets[u]]
  /\ UNCHANGED <<rq, legs, hold, music, talk>>

Expire(t) ==
  /\ tickets[t].st = "issued"
  /\ tickets' = [tickets EXCEPT ![t].st = "expired"]
  /\ UNCHANGED <<rq, legs, rest>>

\* Mutant: a ticket presented for another call is kept.
burnMatching(t, c) ==
  IF tickets[t].call = c THEN [tickets EXCEPT ![t].st = "burned"] ELSE tickets
\* A ticket is burned whoever presents it, and for whatever call.
burn(t, c) ==
  [tickets EXCEPT ![t].st = "burned"]

\* consume: valid for its call, for 30 s.  Nobody presents a ticket before it is
\* issued.
consume(r, t, c) ==
  /\ tickets[t].st # "none"
  /\ tickets' = burn(t, c)
  /\ rq' = [rq EXCEPT ![r].ticket = t,
                      ![r].pc = IF tickets[t] = [st |-> "issued", call |-> c] THEN "find" ELSE "refused"]

-----------------------------------------------------------------------------
(* A request brings a leg: handleAudioWS with a ticket or a cookie, doWebRTC; *)
(* and attachAgent, which finds the call it has just dialled.                 *)

BeginWS(r) ==
  /\ r \in Requests /\ At(r, "idle")
  /\ Spend("requests")
  /\ \E c \in CallIDs : rq' = [rq EXCEPT ![r].pc = "ticket", ![r].kind = "ws", ![r].call = c]
  /\ UNCHANGED <<tickets, legs, hold, music, talk>>

\* The credential: a ticket, or the panel's cookie or API key.
Credential(r) ==
  /\ At(r, "ticket")
  /\ \/ \E t \in Tickets : consume(r, t, rq[r].call)
     \/ Go(r, "find") /\ UNCHANGED tickets
  /\ UNCHANGED <<legs, rest>>

BeginRTC(r) ==
  /\ r \in Requests /\ At(r, "idle")
  /\ Spend("requests")
  /\ rq' = [rq EXCEPT ![r].pc = "find", ![r].kind = "rtc"]
  /\ UNCHANGED <<tickets, legs, hold, music, talk>>

BeginAgent ==
  /\ At(Agent, "idle")
  /\ Spend("agents")
  /\ rq' = [rq EXCEPT ![Agent].pc = "find", ![Agent].kind = "agent"]
  /\ UNCHANGED <<tickets, legs, hold, music, talk>>

findCall(l) ==
  /\ At(l, "find")
  /\ Go(l, IF Registered /\ rq[l].call = "this" THEN "accept" ELSE "refused")
  /\ UNCHANGED <<tickets, legs, rest>>

\* Accept and the configuration, or NewBridge and its offer: either may fail.
Accept(l) ==
  /\ At(l, "accept")
  /\ \/ /\ Go(l, "set")
        /\ leg' = [leg EXCEPT ![l] = IF l = Agent THEN [NewLeg("agent") EXCEPT !.conn = "none"]
                                     ELSE NewLeg(rq[l].kind)]
     \/ l # Agent /\ Go(l, "refused") /\ UNCHANGED leg
  /\ UNCHANGED <<tickets, cur, call, ender, rest>>

-----------------------------------------------------------------------------
(* Session.setBridge *)

\* Close: once; the closing handshake runs apart.  Of a WebRTC leg, at once.
Closed(s, l) ==
  [s EXCEPT ![l].server = TRUE, ![l].conn = IF s[l].kind = "rtc" THEN "closed" ELSE @]

\* The swap in the registry; with the call gone the new leg is closed.
setBridge(l) ==
  /\ At(l, "set")
  /\ IF Registered
     THEN /\ cur' = l
          /\ rq' = [rq EXCEPT ![l].old = cur, ![l].pc = IF cur = NoLeg THEN "start" ELSE "detach"]
          /\ UNCHANGED leg
     ELSE leg' = Closed(leg, l) /\ Go(l, "start") /\ UNCHANGED cur
  /\ UNCHANGED <<tickets, call, ender, rest>>

Detach(l) ==
  /\ At(l, "detach")
  /\ leg' = [leg EXCEPT ![rq[l].old].cb = FALSE]
  /\ Go(l, "close")
  /\ UNCHANGED <<tickets, cur, call, ender, rest>>

CloseOld(l) ==
  /\ At(l, "close")
  /\ leg' = Closed(leg, rq[l].old)
  /\ Go(l, "start")
  /\ UNCHANGED <<tickets, cur, call, ender, rest>>

\* start: only now a WebSocket notices that its connection is gone.
start(l) ==
  /\ At(l, "start")
  /\ Go(l, "done")
  /\ UNCHANGED <<tickets, legs, rest>>

\* conn.Close and cancel, in a goroutine.
ConnCloses(l) ==
  /\ leg[l].server /\ leg[l].conn \in {"open", "down"}
  /\ leg' = [leg EXCEPT ![l].conn = "closed"]
  /\ UNCHANGED <<tickets, rq, cur, call, ender, rest>>

-----------------------------------------------------------------------------
(* The drop of a leg. *)

\* The browser or the network goes.  A WebRTC leg has no connection to lose before
\* the browser has the answer.
Vanish(l) ==
  /\ leg[l].conn = "open"
  /\ leg[l].kind = "ws" \/ (leg[l].kind = "rtc" /\ rq[l].pc \in {"detach", "close", "start", "done"})
  /\ leg' = [leg EXCEPT ![l].conn = "down"]
  /\ UNCHANGED <<tickets, rq, cur, call, ender, rest>>

\* Mutant: the loops of the WebSocket run before the leg is the call's.
failEarly(l) ==
  /\ leg[l].kind = "ws" /\ rq[l].pc \in {"set", "done"} /\ leg[l].conn \in {"down", "closed"}
  /\ Dropping(l, "idle")
  /\ leg' = [leg EXCEPT ![l].conn = "closed",
                        ![l].drop = IF ~leg[l].server /\ leg[l].cb THEN "dropped" ELSE "over"]
  /\ UNCHANGED <<tickets, rq, cur, call, ender, rest>>

\* fail (once), when a loop of the WebSocket meets an error.
fail(l) ==
  /\ leg[l].kind = "ws" /\ At(l, "done") /\ leg[l].conn \in {"down", "closed"}
  /\ Dropping(l, "idle")
  /\ leg' = [leg EXCEPT ![l].conn = "closed",
                        ![l].drop = IF ~leg[l].server /\ leg[l].cb THEN "dropped" ELSE "over"]
  /\ UNCHANGED <<tickets, rq, cur, call, ender, rest>>

\* OnICEConnectionStateChange: failed, or closed by Close.
OnTerminalICE(l) ==
  /\ leg[l].kind = "rtc" /\ leg[l].conn \in {"down", "closed"}
  /\ Dropping(l, "idle")
  /\ SetDrop(l, IF leg[l].cb THEN "dropped" ELSE "over")
  /\ UNCHANGED <<tickets, rq, cur, call, ender, rest>>

\* Of the call's leg only: the 15 s of a WebSocket begin; the others go on.
onAudioLegDropped(l) ==
  /\ Dropping(l, "dropped")
  /\ SetDrop(l, IF ~(Registered /\ cur = l) THEN "over"
                ELSE [ws |-> "timer", rtc |-> "ask", agent |-> "end"][leg[l].kind])
  /\ UNCHANGED <<tickets, rq, cur, call, ender, rest>>

\* The timer asks again whose the call is.
graceOver(l) ==
  /\ Dropping(l, "timer")
  /\ SetDrop(l, IF Registered /\ cur = l THEN "ask" ELSE "over")
  /\ UNCHANGED <<tickets, rq, cur, call, ender, rest>>

\* IsHold: a call on hold is left alone, and nothing asks again.
askHold(l) ==
  /\ Dropping(l, "ask")
  /\ SetDrop(l, IF hold.on THEN "held" ELSE "end")
  /\ UNCHANGED <<tickets, rq, cur, call, ender, rest>>

-----------------------------------------------------------------------------
(* The end of the call: EndCall, finishCall, removeCall, cleanupMedia. *)

terminateCall(l) ==
  /\ Dropping(l, "end")
  /\ SetDrop(l, "over")
  /\ IF Registered THEN call' = "removed" /\ ender' = l ELSE UNCHANGED <<call, ender>>
  /\ UNCHANGED <<tickets, rq, cur, rest>>

\* The contact, the panel or the migration ends it.
Ends ==
  /\ Registered
  /\ call' = "removed" /\ ender' = "peer"
  /\ UNCHANGED <<tickets, rq, leg, cur, rest>>

removeCall ==
  /\ call = "removed"
  /\ call' = "closed"
  /\ leg' = IF cur = NoLeg THEN leg ELSE Closed(leg, cur)
  /\ UNCHANGED <<tickets, rq, cur, ender, rest>>

\* Mutant: the hold music is left running.
cleanupKeepsHold ==
  /\ call = "closed"
  /\ call' = "over"
  /\ hold' = [hold EXCEPT !.on = FALSE]
  /\ UNCHANGED <<tickets, rq, leg, cur, ender, music, talk, left>>

cleanupMedia ==
  /\ call = "closed"
  /\ call' = "over"
  /\ hold' = [hold EXCEPT !.on = FALSE]
  /\ music' = [stop |-> FALSE, on |-> 0, told |-> music.told + music.on]
  /\ UNCHANGED <<tickets, rq, leg, cur, ender, talk, left>>

-----------------------------------------------------------------------------
(* Hold. *)

\* doHold finds the call in the registry.
doHold ==
  /\ Registered /\ hold.ask = "none"
  /\ Spend("holds")
  /\ \E a \in {"hold", "unhold"} : hold' = [hold EXCEPT !.ask = a]
  /\ UNCHANGED <<tickets, rq, legs, music, talk>>

\* SetHold: each hold starts a loop of its own, which ends at once without a codec.
SetHold ==
  /\ hold.ask # "none"
  /\ LET on == hold.ask = "hold"
         loop == IF on /\ call # "over" THEN 1 ELSE 0
     IN /\ hold' = [on |-> on, ask |-> "none"]
        /\ music' = IF on = hold.on THEN music
                    ELSE [stop |-> on, on |-> loop,
                          told |-> music.told + (IF music.stop THEN music.on ELSE 0)]
  /\ UNCHANGED <<tickets, rq, legs, talk, left>>

runHoldAudioLoop ==
  /\ music.told > 0
  /\ music' = [music EXCEPT !.told = @ - 1]
  /\ UNCHANGED <<tickets, rq, legs, hold, talk, left>>

-----------------------------------------------------------------------------
(* The agent.  talk.pc: run; talk.play: playout. *)

agentOnly == <<tickets, rq, cur, call, ender, hold, music>>

\* The call becomes active: the leg is read, then asked to answer.
OnActive ==
  /\ talk.pc = "idle" /\ Registered /\ cur = Agent
  /\ talk' = [talk EXCEPT !.pc = "seen"]
  /\ UNCHANGED <<agentOnly, leg, left>>

\* The contact is heard: the same, unless the leg is stopped.
WritePCM ==
  /\ talk.pc = "idle" /\ Registered /\ cur = Agent /\ ~Stopped
  /\ talk' = [talk EXCEPT !.pc = "seen"]
  /\ UNCHANGED <<agentOnly, leg, left>>

Answer ==
  /\ talk.pc = "seen"
  /\ talk' = IF Stopped THEN [talk EXCEPT !.pc = "never"]
             ELSE [talk EXCEPT !.pc = "dial", !.play = "on"]
  /\ UNCHANGED <<agentOnly, leg, left>>

\* dial: the connection is kept before Close is looked for.
dial ==
  /\ talk.pc = "dial"
  /\ \/ leg' = [leg EXCEPT ![Agent].conn = "open"] /\ talk' = [talk EXCEPT !.pc = "init"]
     \/ talk' = [talk EXCEPT !.pc = "gone"] /\ UNCHANGED leg
  /\ UNCHANGED <<agentOnly, left>>

dialed ==
  /\ talk.pc = "init"
  /\ IF Stopped
     THEN leg' = [leg EXCEPT ![Agent].conn = "closed"] /\ talk' = [talk EXCEPT !.pc = "gone"]
     ELSE talk' = [talk EXCEPT !.pc = "talk"] /\ UNCHANGED leg
  /\ UNCHANGED <<agentOnly, left>>

\* enqueue: audio older than the last interruption is refused.
enqueue(id, n) ==
  talk' = IF id < talk.cutAt THEN talk ELSE [talk EXCEPT !.q = @ + n]

interrupt(id) ==
  talk' = [talk EXCEPT !.q = 0, !.starved = 0, !.cutAt = IF id > @ THEN id ELSE @]

\* downlink: audio of up to a frame and a half, or an interruption.
downlink ==
  /\ talk.pc = "talk" /\ leg[Agent].conn = "open"
  /\ Spend("events")
  /\ \E id \in 1..2 : (\E n \in 1..3 : enqueue(id, n)) \/ interrupt(id)
  /\ UNCHANGED <<agentOnly, leg>>

\* uplink: a write fails, and the connection is cut; downlink's read ends the rest.
uplink ==
  /\ talk.pc = "talk" /\ leg[Agent].conn = "open"
  /\ leg' = [leg EXCEPT ![Agent].conn = "closed"]
  /\ UNCHANGED <<agentOnly, talk, left>>

\* run ends: the agent hung up, an error, or Close.  What is queued still plays.
run ==
  /\ talk.pc = "talk"
  /\ talk' = [talk EXCEPT !.pc = "gone"]
  /\ leg' = [leg EXCEPT ![Agent].conn = "closed"]
  /\ UNCHANGED <<agentOnly, left>>

\* Mutant: the end of the conversation is not held back by what is queued.
framesUntilGone ==
  IF talk.pc = "gone" THEN [talk EXCEPT !.play = "done"]
  ELSE IF talk.q >= 2 THEN [talk EXCEPT !.q = @ - 2, !.starved = 0]
  ELSE talk

\* nextFrame: a frame; the rest of one after three ticks, or at the end; the end.
nextFrame ==
  IF talk.q >= 2 THEN [talk EXCEPT !.q = @ - 2, !.starved = 0]
  ELSE IF talk.q = 1
  THEN IF talk.starved < 2 /\ talk.pc # "gone" THEN [talk EXCEPT !.starved = @ + 1]
       ELSE [talk EXCEPT !.q = 0, !.starved = 0]
  ELSE IF talk.pc = "gone" THEN [talk EXCEPT !.play = "done"]
  ELSE talk

playout ==
  /\ talk.play = "on"
  /\ talk' = IF Stopped THEN [talk EXCEPT !.play = "stopped"] ELSE nextFrame
  /\ UNCHANGED <<agentOnly, leg, left>>

fireTerminal ==
  /\ talk.play = "done" /\ Dropping(Agent, "idle")
  /\ SetDrop(Agent, IF leg[Agent].cb /\ ~Stopped THEN "dropped" ELSE "over")
  /\ UNCHANGED <<agentOnly, talk, left>>

-----------------------------------------------------------------------------
Setting(l) ==
  findCall(l) \/ Accept(l) \/ setBridge(l) \/ Detach(l) \/ CloseOld(l) \/ start(l)
Drop(l) ==
  \/ ConnCloses(l) \/ fail(l) \/ OnTerminalICE(l) \/ onAudioLegDropped(l)
  \/ graceOver(l) \/ askHold(l) \/ terminateCall(l)
Ending == removeCall \/ cleanupMedia
Conversation == Answer \/ dial \/ dialed \/ playout \/ fireTerminal

Next ==
  \/ \E t \in Tickets : issue(t) \/ Expire(t)
  \/ \E r \in Requests : BeginWS(r) \/ Credential(r) \/ BeginRTC(r)
  \/ BeginAgent \/ OnActive \/ WritePCM \/ downlink \/ uplink \/ run
  \/ \E l \in Legs : Setting(l) \/ Drop(l) \/ Vanish(l)
  \/ Ends \/ Ending \/ doHold \/ SetHold \/ runHoldAudioLoop \/ Conversation

Spec == Init /\ [][Next]_vars

\* Every goroutine goes on; a timer fires; an agent that was closed hangs up.
Fairness ==
  /\ \A l \in Legs : WF_vars(Setting(l) \/ Drop(l))
  /\ WF_vars(Ending \/ SetHold \/ runHoldAudioLoop)
  /\ WF_vars(Conversation)
FairSpec == Spec /\ Fairness

-----------------------------------------------------------------------------
(* Properties.                                                               *)

\* A ticket lets through one request, and only the first that presents it: one
\* that was tried on another call, or after its 30 s, is never good again
\* (audioticket.go: consume burns it in any case), however the requests that
\* hold it interleave.
TicketOnce ==
  [][\A r \in Requests :
       At(r, "ticket") /\ rq'[r].pc = "find" /\ rq'[r].ticket # NoTicket
         => \A q \in Requests : rq[q].ticket # rq'[r].ticket]_vars

\* The contact hears the agent to the end: a call that the end of the agent's
\* conversation ended had played all that the agent said, down to the rest of a
\* frame, but for what an interruption cut (agentleg.go: remoteGone, nextFrame, fireTerminal).
GoodbyePlayed ==
  ender = Agent => talk.q = 0

\* The browser or the agent of the leg is gone.
Dead(l) ==
  \/ leg[l].kind \in {"ws", "rtc"} /\ leg[l].conn \in {"down", "closed"}
  \/ l = Agent /\ talk.pc = "gone"

\* The call does not outlive its leg: it is never left for good with a leg that is
\* gone; the call ends, or another leg takes it over, or it was found on hold, which
\* the code leaves alone (onAudioLegDropped, OnTerminalICE, fireTerminal).
Orphan == \E l \in Legs : Registered /\ cur = l /\ Dead(l) /\ ~Dropping(l, "held")
DeadLegEnds == []<>~Orphan

\* Nothing outlives the call or its own replacement: a leg that is not the call's, and
\* every leg and hold loop of a call that is over, is closed in the end (setBridge
\* and removeCall against each other; SetHold against cleanupMedia).
Gone(l) ==
  /\ rq[l].pc \in {"detach", "close", "start", "done"} /\ leg[l].kind # "none"
  /\ cur # l \/ call = "over"
Lingers ==
  \/ \E l \in Legs : Gone(l) /\ leg[l].conn \in {"open", "down"}
  \/ call = "over" /\ music.on + music.told > 0
NothingOutlives == []<>~Lingers
=============================================================================
