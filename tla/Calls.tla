-------------------------------- MODULE Calls --------------------------------
(***************************************************************************)
(* One call of a session, from the offer to the last trace of it: the call *)
(* manager (internal/voip/call), the session and its registry of calls     *)
(* (cmd/server/session.go, callregistry.go), the broker's record that the  *)
(* panels see (broker.go) and the HTTP handlers (httpapi.go).              *)
(*                                                                         *)
(* The processes are the event thread of whatsmeow ("ev"), the request     *)
(* that dials ("dial"), the goroutine that handles the answer to the offer *)
(* ("ack"), the anti-zombie timer ("timer"), the callback of the media     *)
(* relay ("relay") and the HTTP clients.  pc is the control point of each. *)
(*                                                                         *)
(* The call manager's mutex m.mu is held while OnStateChange runs          *)
(* (emitState), which takes the registry's mutex and the broker's; mu says *)
(* who runs it and how far it is.  The registry's mutex matters where it   *)
(* is held while m.mu is awaited, in getByPeer, on the event thread        *)
(* (regMu); elsewhere, like the broker's, it is taken for one step.        *)
(***************************************************************************)
EXTENDS Naturals, FiniteSets

CONSTANTS
  Clients,     \* HTTP clients (X-Client-Id)
  Dialer,      \* the client that dials an outgoing call
  NoOwner,
  MaxEvents,   \* bound: events from WhatsApp after the offer
  MaxRequests  \* bound: HTTP requests of the clients together

ASSUME ClientsAssumption ==
  /\ Dialer \in Clients /\ NoOwner \notin Clients
  /\ Clients \intersect {"ev", "dial", "ack", "timer", "relay"} = {}
ASSUME CallsBounds == MaxEvents \in Nat /\ MaxRequests \in Nat

VARIABLES
  dir,        \* direction of the call
  st,         \* state of the call manager's current call, none before it: initiating,
              \* ringing, incoming, connecting, active, ended
  relayData,  \* the endpoints of the media relays are known
  mu,         \* m.mu while OnStateChange runs
  regMu,      \* getByPeer holds the registry's mutex and waits for m.mu
  reg, timer, \* entry in the registry; anti-zombie timer of the entry
  dialed,     \* the number's reservation: free, reserved (""), bound (the call)
  rec, ends,  \* the broker's record of the call; call-ended events sent
  relay,      \* media relay: off, connecting, up
  pc,
  dstatus,    \* doStartCall: the status it read
  events, requests,
  claims,     \* history: clients whose setOwner succeeded
  lost,       \* history: how a live call left the registry
  ghost,      \* history: doStartCall wrote the record of a call that was over
  relayed     \* history: the relay has been up

callVars == <<st, relayData>>
bookVars == <<reg, timer, dialed, rec, ends>>
hist == <<claims, lost, ghost, relayed>>
vars == <<dir, st, relayData, mu, regMu, reg, timer, dialed, rec, ends, relay, pc,
          dstatus, events, requests, claims, lost, ghost, relayed>>

Process == {"ev", "dial", "ack", "timer", "relay"} \union Clients
Live(s) == s \notin {"none", "ended"}

NoRec == [status |-> "none", owner |-> NoOwner]
Free == [by |-> "none", at |-> "free", s |-> "none", owner |-> NoOwner]

Init ==
  /\ dir \in {"in", "out"}
  /\ st = "none" /\ relayData = FALSE
  /\ mu = Free /\ regMu = FALSE
  /\ reg = FALSE /\ timer = "off" /\ dialed = "free"
  /\ rec = NoRec /\ ends = 0
  /\ relay = "off"
  /\ pc = [p \in Process |-> "idle"]
  /\ dstatus = "starting"
  /\ events = 0 /\ requests = 0
  /\ claims = {} /\ lost = "no" /\ ghost = FALSE /\ relayed = FALSE

-----------------------------------------------------------------------------
(* ApplyTransition: the next state, the same one when it is refused.         *)

\* Mutant: a late accept revives a call.
revivedByAccept(s) == "connecting"
remoteAccepted(s) ==
  IF s \in {"initiating", "ringing", "incoming"} THEN "connecting" ELSE s

\* Mutant: only an answered call can be terminated.
terminatedAnswered(s) == IF s \in {"connecting", "active"} THEN "ended" ELSE s
terminated(s) == "ended"

localAccepted(s) == IF s = "incoming" THEN "connecting" ELSE s
localRejected(s) == IF s = "incoming" THEN "ended" ELSE s
mediaConnected(s) == IF s = "connecting" THEN "active" ELSE s
ringingReceived(s) == IF s = "initiating" THEN "ringing" ELSE s

mapStatus(s) ==
  IF s \in {"connecting", "active"} THEN "connected"
  ELSE IF s = "initiating" THEN "starting"
  ELSE "ringing"

-----------------------------------------------------------------------------
(* The books: registry and broker. *)

Go(p, to) == pc' = [pc EXCEPT ![p] = to]
\* The process does not run OnStateChange.
Ready(p) == mu.by # p

\* stopTimeout: a timer that has fired goes on.
StopTimer == timer' = IF timer = "armed" THEN "off" ELSE timer

\* removeCall: the entry goes, with its reservation and its timer.
RemoveCall ==
  /\ ~regMu
  /\ reg' = FALSE
  /\ IF reg
       THEN StopTimer /\ dialed' = IF dialed = "bound" THEN "free" ELSE dialed
       ELSE UNCHANGED <<timer, dialed>>

\* Mutant: the event is sent again and again.
EndRecordAlways == rec' = NoRec /\ ends' = ends + 1
\* endCall of the broker: the record goes, and call-ended is sent if it was there.
EndRecord ==
  /\ rec' = NoRec
  /\ ends' = IF rec = NoRec THEN ends ELSE ends + 1

\* finishCall.
FinishCall == RemoveCall /\ EndRecord

\* p takes m.mu, leaves the call in s and runs emitState; its next step, once
\* OnStateChange is over, is to.
Section(p, s, to) ==
  /\ mu = Free
  /\ st' = s
  /\ mu' = [by |-> p, at |-> "notify", s |-> s, owner |-> NoOwner]
  /\ Go(p, to)

\* Mutant: every change of state stops the timer.
stopsOnAnyChange(s) == TRUE
\* OnStateChange stops the timer of an answered call.
stopsTimer(s) == s \in {"connecting", "active"}

\* OnStateChange up to its read of the record: a call that becomes active is
\* looked up in the registry.
EmitRead ==
  /\ mu.at = "notify" /\ mu.s # "ended"
  /\ mu.s = "active" => ~regMu
  /\ IF stopsTimer(mu.s) THEN StopTimer ELSE UNCHANGED timer
  /\ mu' = [mu EXCEPT !.at = "write", !.owner = rec.owner]
  /\ UNCHANGED <<dir, callVars, regMu, reg, dialed, rec, ends, relay, pc, dstatus,
                 events, requests, hist>>

\* OnStateChange writes the record it has built.
EmitWrite ==
  /\ mu.at = "write"
  /\ rec' = [status |-> mapStatus(mu.s), owner |-> mu.owner]
  /\ mu' = Free
  /\ UNCHANGED <<dir, callVars, regMu, reg, timer, dialed, ends, relay, pc, dstatus,
                 events, requests, hist>>

\* Mutant: only the registry forgets the call.
EmitForgetsRecord ==
  /\ mu.at = "notify" /\ mu.s = "ended"
  /\ RemoveCall
  /\ mu' = Free
  /\ UNCHANGED <<dir, callVars, regMu, rec, ends, relay, pc, dstatus, events, requests, hist>>
\* OnStateChange of a call that ended.
EmitEnded ==
  /\ mu.at = "notify" /\ mu.s = "ended"
  /\ FinishCall
  /\ mu' = Free
  /\ UNCHANGED <<dir, callVars, regMu, relay, pc, dstatus, events, requests, hist>>

\* OnEnded, without m.mu.
OnEnded(p, from, to) ==
  /\ pc[p] = from /\ Ready(p)
  /\ FinishCall
  /\ Go(p, to)
  /\ UNCHANGED <<dir, callVars, mu, regMu, relay, dstatus, events, requests, hist>>

\* cleanupMedia takes m.mu and then closes the relays.
CleanupMedia(p, from, to) ==
  /\ pc[p] = from /\ Ready(p)
  /\ mu = Free
  /\ relay' = "off"
  /\ Go(p, to)
  /\ UNCHANGED <<dir, callVars, mu, regMu, bookVars, dstatus, events, requests, hist>>

\* connectRelays takes m.mu for the SSRCs; relays already there are kept.
ConnectRelays(p, from, to) ==
  /\ pc[p] = from /\ Ready(p)
  /\ mu = Free
  /\ relay' = IF relay = "off" THEN "connecting" ELSE relay
  /\ Go(p, to)
  /\ UNCHANGED <<dir, callVars, mu, regMu, bookVars, dstatus, events, requests, hist>>

-----------------------------------------------------------------------------
(* doStartCall and startOutgoing. *)

\* reservePeer, then createCall.
DialCreate ==
  /\ dir = "out" /\ pc["dial"] = "idle"
  /\ ~reg /\ st = "none" /\ ~regMu
  /\ dialed' = "reserved"
  /\ reg' = TRUE /\ timer' = "armed"
  /\ Go("dial", "start")
  /\ UNCHANGED <<dir, callVars, mu, regMu, rec, ends, relay, dstatus, events, requests, hist>>

DialStart ==
  /\ pc["dial"] = "start"
  /\ Section("dial", "initiating", "query")
  /\ UNCHANGED <<dir, relayData, regMu, bookVars, relay, dstatus, events, requests, hist>>

\* The offer cannot be built or the query fails: removeCall, releasePeer.
DialFails ==
  /\ pc["dial"] = "query" /\ Ready("dial")
  /\ ~regMu
  /\ reg' = FALSE
  /\ IF reg THEN StopTimer ELSE UNCHANGED timer
  /\ dialed' = "free"
  /\ lost' = IF Live(st) THEN "failed" ELSE lost
  /\ Go("dial", "done")
  /\ UNCHANGED <<dir, callVars, mu, regMu, rec, ends, relay, dstatus, events, requests,
                 claims, ghost, relayed>>

\* The offer was acknowledged; offer_sent leaves the state.
DialSent ==
  /\ pc["dial"] = "query" /\ Ready("dial")
  /\ mu = Free
  /\ mu' = [by |-> "dial", at |-> "notify", s |-> st, owner |-> NoOwner]
  /\ pc' = [pc EXCEPT !["dial"] = "bind", !["ack"] = "go"]
  /\ UNCHANGED <<dir, callVars, regMu, bookVars, relay, dstatus, events, requests, hist>>

\* Mutant: the call is bound although it may be over.
DialBindsBlind ==
  /\ pc["dial"] = "bind" /\ Ready("dial")
  /\ ~regMu
  /\ dialed' = "bound"
  /\ Go("dial", "read")
  /\ UNCHANGED <<dir, callVars, mu, regMu, reg, timer, rec, ends, relay, dstatus,
                 events, requests, hist>>
\* bindPeer.
DialBind ==
  /\ pc["dial"] = "bind" /\ Ready("dial")
  /\ ~regMu
  /\ dialed' = IF reg THEN "bound" ELSE "free"
  /\ Go("dial", "read")
  /\ UNCHANGED <<dir, callVars, mu, regMu, reg, timer, rec, ends, relay, dstatus,
                 events, requests, hist>>

DialRead ==
  /\ pc["dial"] = "read"
  /\ dstatus' = IF rec = NoRec THEN "starting" ELSE rec.status
  /\ Go("dial", "write")
  /\ UNCHANGED <<dir, callVars, mu, regMu, bookVars, relay, events, requests, hist>>

\* The record with its owner.
DialWrite ==
  /\ pc["dial"] = "write"
  /\ rec' = [status |-> dstatus, owner |-> Dialer]
  /\ ghost' = (ghost \/ ~reg)
  /\ dstatus' = "starting"
  /\ Go("dial", "done")
  /\ UNCHANGED <<dir, callVars, mu, regMu, reg, timer, dialed, ends, relay,
                 events, requests, claims, lost, relayed>>

\* HandleCallAck: an error, no relays, or relays to connect.
AckHandle ==
  /\ pc["ack"] = "go"
  /\ \/ Go("ack", "done") /\ UNCHANGED relayData
     \/ mu = Free /\ relayData' = TRUE /\ Go("ack", "connect")
  /\ UNCHANGED <<dir, st, mu, regMu, bookVars, relay, dstatus, events, requests, hist>>

Dial ==
  \/ DialCreate \/ DialStart \/ DialFails \/ DialSent \/ DialBind \/ DialRead \/ DialWrite
  \/ AckHandle \/ ConnectRelays("ack", "connect", "done")

-----------------------------------------------------------------------------
(* The event thread: handleEvent. *)

\* onIncomingOffer: the call is registered.
OfferArrives ==
  /\ dir = "in" /\ pc["ev"] = "idle"
  /\ ~reg /\ st = "none"
  /\ reg' = TRUE /\ timer' = "armed"
  /\ Go("ev", "offer")
  /\ UNCHANGED <<dir, callVars, mu, regMu, dialed, rec, ends, relay, dstatus, events,
                 requests, hist>>

\* HandleCallOffer: the call is there; preaccept is sent.
OfferHandled ==
  /\ pc["ev"] = "offer" /\ mu = Free
  /\ st' = "incoming"
  /\ relayData' \in BOOLEAN
  /\ Go("ev", "incoming")
  /\ UNCHANGED <<dir, mu, regMu, bookVars, relay, dstatus, events, requests, hist>>

\* HandleCallOffer does not know the offer: the call is dropped.
OfferDropped ==
  /\ pc["ev"] = "offer"
  /\ RemoveCall
  /\ Go("ev", "idle")
  /\ UNCHANGED <<dir, callVars, mu, regMu, rec, ends, relay, dstatus, events, requests, hist>>

\* OnIncoming: the record, and the panels ring.
OfferRings ==
  /\ pc["ev"] = "incoming"
  /\ rec' = [status |-> "ringing", owner |-> NoOwner]
  /\ Go("ev", "offered")
  /\ UNCHANGED <<dir, callVars, mu, regMu, reg, timer, dialed, ends, relay, dstatus,
                 events, requests, hist>>

\* HandleCallOffer ends with emitState.
OfferEmits ==
  /\ pc["ev"] = "offered"
  /\ Section("ev", st, "idle")
  /\ UNCHANGED <<dir, relayData, regMu, bookVars, relay, dstatus, events, requests, hist>>

\* An event that carries the id of the call; not found by it, accept and
\* terminate are looked up by the peer, a receipt always is.
EventArrives(e) ==
  /\ pc["ev"] = "idle" /\ Ready("ev")
  /\ st # "none"
  /\ events < MaxEvents /\ events' = events + 1
  /\ \/ e # "ringing" /\ reg /\ Go("ev", e) /\ UNCHANGED regMu
     \/ /\ e # "transport"
        /\ IF reg
             THEN regMu' = TRUE /\ pc' = [pc EXCEPT !["ev"] =
                    IF e = "accept" THEN "findAccept"
                    ELSE IF e = "terminate" THEN "findTerminate" ELSE "findRinging"]
             ELSE UNCHANGED <<regMu, pc>>
  /\ UNCHANGED <<dir, callVars, mu, bookVars, relay, dstatus, requests, hist>>

\* getByPeer: CurrentCall under m.mu, the registry locked meanwhile.
FoundByPeer ==
  /\ regMu /\ mu = Free
  /\ regMu' = FALSE
  /\ pc' = [pc EXCEPT !["ev"] =
              IF @ = "findAccept" THEN "accept"
              ELSE IF @ = "findTerminate" THEN "terminate" ELSE "ringing"]
  /\ UNCHANGED <<dir, callVars, mu, bookVars, relay, dstatus, events, requests, hist>>

\* HandleCallAccept.
HandleAccept ==
  /\ pc["ev"] = "accept"
  /\ Section("ev", remoteAccepted(st), "accepted")
  /\ UNCHANGED <<dir, relayData, regMu, bookVars, relay, dstatus, events, requests, hist>>

AcceptedMedia ==
  /\ pc["ev"] = "accepted" /\ Ready("ev")
  /\ relay = "up"
  /\ IF st = "connecting"
       THEN Section("ev", mediaConnected(st), "idle")
       ELSE mu = Free /\ Go("ev", "idle") /\ UNCHANGED <<st, mu>>
  /\ UNCHANGED <<dir, relayData, regMu, bookVars, relay, dstatus, events, requests, hist>>

AcceptedConnects ==
  /\ relay # "up" /\ relayData
  /\ ConnectRelays("ev", "accepted", "idle")

AcceptedWaits ==
  /\ pc["ev"] = "accepted" /\ Ready("ev")
  /\ relay # "up" /\ ~relayData
  /\ Go("ev", "idle")
  /\ UNCHANGED <<dir, callVars, mu, regMu, bookVars, relay, dstatus, events, requests, hist>>

\* HandleCallTransport: endpoints, unless a relay is connected.
HandleTransport ==
  /\ pc["ev"] = "transport" /\ mu = Free
  /\ Go("ev", "idle")
  /\ IF relay = "up"
       THEN UNCHANGED <<relayData, relay>>
       ELSE relayData' = TRUE /\ relay' = "connecting"
  /\ UNCHANGED <<dir, st, mu, regMu, bookVars, dstatus, events, requests, hist>>

\* HandleCallTerminate, for a terminate or a reject of the peer.
HandleTerminate ==
  /\ pc["ev"] = "terminate"
  /\ Section("ev", terminated(st), "termEnded")
  /\ UNCHANGED <<dir, relayData, regMu, bookVars, relay, dstatus, events, requests, hist>>

\* HandleCallRinging emits only if the transition is made.
HandleRinging ==
  /\ pc["ev"] = "ringing"
  /\ IF st = "initiating"
       THEN Section("ev", ringingReceived(st), "idle")
       ELSE mu = Free /\ Go("ev", "idle") /\ UNCHANGED <<st, mu>>
  /\ UNCHANGED <<dir, relayData, regMu, bookVars, relay, dstatus, events, requests, hist>>

Handle ==
  \/ OfferHandled \/ OfferDropped \/ OfferRings \/ OfferEmits \/ FoundByPeer
  \/ HandleAccept \/ AcceptedMedia \/ AcceptedConnects \/ AcceptedWaits
  \/ HandleTransport \/ HandleTerminate \/ HandleRinging
  \/ OnEnded("ev", "termEnded", "termClean") \/ CleanupMedia("ev", "termClean", "idle")

-----------------------------------------------------------------------------
(* The relay. *)

RelayUp ==
  /\ relay = "connecting"
  /\ pc["relay"] = "idle"
  /\ relay' = "up" /\ relayed' = TRUE
  /\ Go("relay", "up")
  /\ UNCHANGED <<dir, callVars, mu, regMu, bookVars, dstatus, events, requests,
                 claims, lost, ghost>>

RelayFails ==
  /\ relay # "off"
  /\ relay' = "off"
  /\ UNCHANGED <<dir, callVars, mu, regMu, bookVars, pc, dstatus, events, requests, hist>>

\* onRelayConnected.
RelayConnected ==
  /\ pc["relay"] = "up"
  /\ IF st = "connecting"
       THEN Section("relay", mediaConnected(st), "callback")
       ELSE mu = Free /\ Go("relay", "callback") /\ UNCHANGED <<st, mu>>
  /\ UNCHANGED <<dir, relayData, regMu, bookVars, relay, dstatus, events, requests, hist>>

\* OnRelayConnected.
RelayCallback ==
  /\ pc["relay"] = "callback" /\ Ready("relay")
  /\ StopTimer
  /\ Go("relay", "idle")
  /\ UNCHANGED <<dir, callVars, mu, regMu, reg, dialed, rec, ends, relay, dstatus,
                 events, requests, hist>>

-----------------------------------------------------------------------------
(* HTTP requests, and the end of a browser leg. *)

\* doAccept, doReject and doEndCall find the call in the registry; the end of
\* a leg is a terminateCall, which does what doEndCall does up to its error.
RequestArrives(q, r) ==
  /\ pc[q] = "idle"
  /\ requests < MaxRequests /\ requests' = requests + 1
  /\ rec # NoRec
  /\ reg /\ ~regMu
  /\ Go(q, r)
  /\ UNCHANGED <<dir, callVars, mu, regMu, bookVars, relay, dstatus, events, hist>>

\* doAccept: setOwner claims the record.
AcceptClaims(q) ==
  /\ pc[q] = "claim"
  /\ IF rec = NoRec \/ rec.owner \notin {NoOwner, q}
       THEN Go(q, "idle") /\ UNCHANGED <<rec, claims>>
       ELSE /\ rec' = [rec EXCEPT !.owner = q]
            /\ claims' = claims \union {q}
            /\ Go(q, "answer")
  /\ UNCHANGED <<dir, callVars, mu, regMu, reg, timer, dialed, ends, relay, dstatus,
                 events, requests, lost, ghost, relayed>>

\* AcceptCall.
AcceptCall(q) ==
  /\ pc[q] = "answer"
  /\ IF st = "incoming"
       THEN Section(q, localAccepted(st), "answered")
       ELSE mu = Free /\ Go(q, "idle") /\ UNCHANGED <<st, mu>>
  /\ UNCHANGED <<dir, relayData, regMu, bookVars, relay, dstatus, events, requests, hist>>

AnsweredConnects(q) == relayData /\ ConnectRelays(q, "answered", "idle")

AnsweredWaits(q) ==
  /\ pc[q] = "answered" /\ Ready(q)
  /\ ~relayData
  /\ Go(q, "idle")
  /\ UNCHANGED <<dir, callVars, mu, regMu, bookVars, relay, dstatus, events, requests, hist>>

\* RejectCall: refused by the state machine unless the call rings in.
RejectCall(q) ==
  /\ pc[q] = "reject"
  /\ Section(q, localRejected(st), "rejClean")
  /\ UNCHANGED <<dir, relayData, regMu, bookVars, relay, dstatus, events, requests, hist>>

\* EndCall.
EndCall(p, from, sent, tail) ==
  /\ pc[p] = from
  /\ IF Live(st)
       THEN Section(p, terminated(st), sent)
       ELSE mu = Free /\ Go(p, tail) /\ UNCHANGED <<st, mu>>
  /\ UNCHANGED <<dir, relayData, regMu, bookVars, relay, dstatus, events, requests, hist>>

\* doReject and doEndCall after the stanza was sent.
Tail(q) ==
  /\ pc[q] = "tail" /\ Ready(q)
  /\ FinishCall
  /\ lost' = IF Live(st) /\ reg THEN "rejected" ELSE lost
  /\ Go(q, "idle")
  /\ UNCHANGED <<dir, callVars, mu, regMu, relay, dstatus, events, requests,
                 claims, ghost, relayed>>

\* The stanza could not be sent: 502, and nothing more is done.
TailFails(q) ==
  /\ pc[q] = "tail"
  /\ Go(q, "idle")
  /\ UNCHANGED <<dir, callVars, mu, regMu, bookVars, relay, dstatus, events, requests, hist>>

Serve(q) ==
  \/ AcceptClaims(q) \/ AcceptCall(q) \/ AnsweredConnects(q) \/ AnsweredWaits(q)
  \/ RejectCall(q) \/ CleanupMedia(q, "rejClean", "tail")
  \/ EndCall(q, "end", "endEnded", "tail")
  \/ OnEnded(q, "endEnded", "endClean") \/ CleanupMedia(q, "endClean", "tail")
  \/ Tail(q) \/ TailFails(q)

-----------------------------------------------------------------------------
(* The anti-zombie timer. *)

\* ringingTimeout is over; it is long enough for the call to exist by then.
TimerFires ==
  /\ timer = "armed" /\ st # "none"
  /\ timer' = "fired"
  /\ pc["timer"] = "idle"
  /\ Go("timer", "check")
  /\ UNCHANGED <<dir, callVars, mu, regMu, reg, dialed, rec, ends, relay, dstatus,
                 events, requests, hist>>

\* The call is gone, is connected in the broker, or has to end.
TimerChecks ==
  /\ pc["timer"] = "check" /\ ~regMu
  /\ Go("timer", IF ~reg THEN "done"
                 ELSE IF rec.status = "connected" THEN "skip" ELSE "end")
  /\ UNCHANGED <<dir, callVars, mu, regMu, bookVars, relay, dstatus, events, requests, hist>>

\* removeCall: of a call that another session has answered, or that has been
\* answered here meanwhile; or after EndCall.
TimerRemoves ==
  /\ pc["timer"] \in {"skip", "reap"} /\ Ready("timer")
  /\ RemoveCall
  /\ lost' = IF Live(st) /\ reg THEN "raced" ELSE lost
  /\ Go("timer", "done")
  /\ UNCHANGED <<dir, callVars, mu, regMu, rec, ends, relay, dstatus, events, requests,
                 claims, ghost, relayed>>

Reap ==
  \/ TimerChecks \/ TimerRemoves
  \/ EndCall("timer", "end", "endEnded", "reap")
  \/ OnEnded("timer", "endEnded", "endClean") \/ CleanupMedia("timer", "endClean", "reap")

-----------------------------------------------------------------------------
Emit == EmitRead \/ EmitWrite \/ EmitEnded

Next ==
  \/ Emit
  \/ Dial
  \/ OfferArrives \/ Handle
  \/ \E e \in {"accept", "terminate", "transport", "ringing"} : EventArrives(e)
  \/ RelayUp \/ RelayFails \/ RelayConnected \/ RelayCallback
  \/ \E q \in Clients :
       \/ \E r \in {"claim", "reject", "end"} : RequestArrives(q, r)
       \/ Serve(q)
  \/ TimerFires \/ Reap

Spec == Init /\ [][Next]_vars

(* Fairness.  Threads that can go on do so, and the runtime fires the timer. *)
(* Events, requests and the relay are free.                                  *)
Fairness ==
  /\ WF_vars(Emit) /\ WF_vars(Dial) /\ WF_vars(Handle)
  /\ WF_vars(RelayConnected) /\ WF_vars(RelayCallback)
  /\ \A q \in Clients : WF_vars(Serve(q))
  /\ WF_vars(TimerFires) /\ WF_vars(Reap)

FairSpec == Spec /\ Fairness

-----------------------------------------------------------------------------
(* Properties. *)

\* getByPeer waits for m.mu with the registry locked, and OnStateChange for the
\* registry with m.mu locked.
Stuck == regMu /\ (mu.at = "notify" /\ mu.s \in {"ended", "active"})

\* A call that ended stays ended, whatever accept, ringing receipt, media or
\* answer to the offer arrives late (ApplyTransition).
EndedIsFinal == [][st = "ended" => st' = "ended"]_vars

\* bindPeer and removeCall: the number of a dial that is over is free again
\* unless its call is registered, in whatever order the call ends and is bound.
ReservationFollowsCall == pc["dial"] = "done" /\ dialed # "free" => reg

\* A live call can be found, and so ended, through the registry, but for a dial
\* that failed, a reject that the state machine refused, and a call answered
\* just when its timer fired.
LiveIsRegistered == Live(st) => reg \/ lost # "no"

\* endCall is idempotent ("a 1a chamada e a que conta", broker.go:259): however
\* many paths end the call, the panels get one call-ended, unless doStartCall
\* or a call that left the registry alive wrote the record again.
EndedOnce == ends <= 1 \/ ghost \/ lost # "no"

\* ringingTimeout: a call that is neither answered nor gets media is gone in
\* the end, on both sides of the registry, unless the mutexes lock each other.
RingingEnds ==
  st \in {"initiating", "ringing", "incoming"} ~>
    ~reg \/ st \in {"connecting", "active"} \/ relayed \/ Stuck

\* The record of a call that ended goes, so that its owner is free
\* (ownerActiveCall), but for the record doStartCall wrote afterwards.
EndedLeavesPanel ==
  st = "ended" /\ rec # NoRec ~> rec = NoRec \/ ghost \/ Stuck

\* What comments and tests say and the code does not keep.

\* "Roda com o m.mu do CallManager travado (emitState): nada aqui pode chamar o
\* CallManager alem de RxStats" (session.go:255): the two mutexes are never
\* awaited in a circle.
NoLockCycle == ~Stuck

\* "a primeira requisicao a chamar setOwner tranca a chamada; qualquer
\* atendimento concorrente de outro cliente recebe 409" (httpapi.go:614).
OneClaim == Cardinality(claims) <= 1

\* "op-A's call ended, expected empty" (broker_test.go:24): when the call is
\* over and nobody works on it, no record keeps its owner busy.
EndedFreesOwner ==
  st = "ended" /\ mu = Free /\ (\A p \in Process : pc[p] \in {"idle", "done"}) =>
    rec = NoRec
=============================================================================
