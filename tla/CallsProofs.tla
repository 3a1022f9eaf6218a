------------------------------ MODULE CallsProofs ------------------------------
(***************************************************************************)
(* Proofs about Calls for every set of clients, any number of events of    *)
(* the peer and of HTTP requests: a call that ended is never revived, and  *)
(* the registry, the reservation of the number and the broker's record     *)
(* follow the call in whatever order the threads run.                      *)
(***************************************************************************)
EXTENDS Calls, TLAPS

\* A call is created once: the thread that is about to create it finds none,
\* and events are handled only for a call that exists.
CreatedOnce ==
  /\ DOMAIN pc = Process
  /\ pc["ev"] = "offer" => dir = "in" /\ st = "none"
  /\ pc["dial"] = "start" => dir = "out" /\ st = "none"
  /\ pc["ev"] \in {"terminate", "findTerminate"} => st # "none"

\* The transitions of ApplyTransition (callstate.go:119) leave a call that does
\* not exist or is over as it is, and none of them undoes a call.
LEMMA Transitions ==
  /\ \A s : s \in {"none", "ended"} =>
       /\ remoteAccepted(s) = s /\ localAccepted(s) = s /\ localRejected(s) = s
       /\ mediaConnected(s) = s /\ ringingReceived(s) = s
  /\ \A s : s # "none" =>
       /\ remoteAccepted(s) # "none" /\ localAccepted(s) # "none"
       /\ localRejected(s) # "none" /\ mediaConnected(s) # "none"
       /\ ringingReceived(s) # "none"
  /\ \A s : terminated(s) = "ended"
BY DEF remoteAccepted, localAccepted, localRejected, mediaConnected, ringingReceived,
       terminated

\* What one step of any thread does to the state of the call: emitState and the
\* books never touch it, and a handler never revives it.
LEMMA CallStep ==
  CreatedOnce /\ [Next]_vars => CreatedOnce' /\ (st = "ended" => st' = "ended")
<1> SUFFICES ASSUME CreatedOnce, [Next]_vars
             PROVE CreatedOnce' /\ (st = "ended" => st' = "ended")
  OBVIOUS
<1> USE DEF CreatedOnce, callVars, bookVars, hist, Go, Section, Live
<1>0. /\ {"ev", "dial", "ack", "timer", "relay"} \subseteq Process
      /\ \A q \in Clients : q \in Process /\ q \notin {"ev", "dial"}
  BY ClientsAssumption DEF Process
<1>1. CASE UNCHANGED vars
  BY <1>1 DEF vars
<1>2. CASE Emit
  BY <1>2 DEF Emit, EmitRead, EmitWrite, EmitEnded
<1>3. CASE Dial
  <2>1. CASE DialCreate \/ DialStart \/ DialFails \/ DialSent
    BY <1>0, <2>1 DEF DialCreate, DialStart, DialFails, DialSent
  <2>2. CASE DialBind \/ DialRead \/ DialWrite \/ AckHandle
    BY <1>0, <2>2 DEF DialBind, DialRead, DialWrite, AckHandle
  <2>3. CASE ConnectRelays("ack", "connect", "done")
    BY <1>0, <2>3 DEF ConnectRelays
  <2> QED BY <1>3, <2>1, <2>2, <2>3 DEF Dial
<1>4. CASE OfferArrives
  BY <1>0, <1>4 DEF OfferArrives
<1>5. CASE Handle
  <2>1. CASE OfferHandled \/ OfferDropped \/ OfferRings \/ OfferEmits
    BY <1>0, <2>1 DEF OfferHandled, OfferDropped, OfferRings, OfferEmits
  <2>2. CASE FoundByPeer \/ HandleTransport \/ AcceptedWaits \/ AcceptedConnects
    BY <1>0, <2>2 DEF FoundByPeer, HandleTransport, AcceptedWaits, AcceptedConnects,
                      ConnectRelays
  <2>3. CASE HandleAccept \/ AcceptedMedia \/ HandleTerminate \/ HandleRinging
    BY <1>0, <2>3, Transitions DEF HandleAccept, AcceptedMedia, HandleTerminate,
                                   HandleRinging
  <2>4. CASE OnEnded("ev", "termEnded", "termClean") \/ CleanupMedia("ev", "termClean", "idle")
    BY <1>0, <2>4 DEF OnEnded, CleanupMedia
  <2> QED BY <1>5, <2>1, <2>2, <2>3, <2>4 DEF Handle
<1>6. ASSUME NEW e \in {"accept", "terminate", "transport", "ringing"}, EventArrives(e)
      PROVE CreatedOnce' /\ (st = "ended" => st' = "ended")
  BY <1>0, <1>6 DEF EventArrives
<1>7. CASE RelayUp \/ RelayFails \/ RelayConnected \/ RelayCallback
  BY <1>0, <1>7, Transitions DEF RelayUp, RelayFails, RelayConnected, RelayCallback
<1>8. ASSUME NEW q \in Clients, NEW r \in {"claim", "reject", "end"}, RequestArrives(q, r)
      PROVE CreatedOnce' /\ (st = "ended" => st' = "ended")
  BY <1>0, <1>8 DEF RequestArrives
<1>9. ASSUME NEW q \in Clients, Serve(q)
      PROVE CreatedOnce' /\ (st = "ended" => st' = "ended")
  <2>1. CASE AcceptClaims(q) \/ AnsweredConnects(q) \/ AnsweredWaits(q)
    BY <1>0, <2>1 DEF AcceptClaims, AnsweredConnects, AnsweredWaits, ConnectRelays
  <2>2. CASE AcceptCall(q) \/ RejectCall(q)
    BY <1>0, <2>2, Transitions DEF AcceptCall, RejectCall
  <2>3. CASE EndCall(q, "end", "endEnded", "tail")
    BY <1>0, <2>3, Transitions DEF EndCall
  <2>4. CASE CleanupMedia(q, "rejClean", "tail") \/ CleanupMedia(q, "endClean", "tail")
    BY <1>0, <2>4 DEF CleanupMedia
  <2>5. CASE OnEnded(q, "endEnded", "endClean") \/ Tail(q) \/ TailFails(q)
    BY <1>0, <2>5 DEF OnEnded, Tail, TailFails
  <2> QED BY <1>9, <2>1, <2>2, <2>3, <2>4, <2>5 DEF Serve
<1>10. CASE TimerFires \/ Reap
  <2>1. CASE TimerFires \/ TimerChecks \/ TimerRemoves
    BY <1>0, <2>1 DEF TimerFires, TimerChecks, TimerRemoves
  <2>2. CASE EndCall("timer", "end", "endEnded", "reap")
    BY <1>0, <2>2, Transitions DEF EndCall
  <2>3. CASE OnEnded("timer", "endEnded", "endClean") \/ CleanupMedia("timer", "endClean", "reap")
    BY <1>0, <2>3 DEF OnEnded, CleanupMedia
  <2> QED BY <1>10, <2>1, <2>2, <2>3 DEF Reap
<1> QED BY <1>1, <1>2, <1>3, <1>4, <1>5, <1>6, <1>7, <1>8, <1>9, <1>10 DEF Next

\* ApplyTransition and its callers (callmanager.go, callmanager_signaling.go):
\* a call that is over is never revived, whatever arrives late and from
\* whichever thread.
THEOREM EndedStaysEnded == Spec => EndedIsFinal
<1>1. Init => CreatedOnce
  BY DEF Init, CreatedOnce, Process
<1>2. CreatedOnce /\ [Next]_vars => CreatedOnce'
  BY CallStep
<1>3. CreatedOnce /\ [Next]_vars => [st = "ended" => st' = "ended"]_vars
  BY CallStep
<1> QED BY <1>1, <1>2, <1>3, PTL DEF Spec, EndedIsFinal

-----------------------------------------------------------------------------
(***************************************************************************)
(* The books of the call: registry, reservation of the number and record   *)
(* of the broker.                                                          *)
(***************************************************************************)

States == {"none", "initiating", "ringing", "incoming", "connecting", "active", "ended"}

\* The parts of the state that the books are built from.
BooksTyped ==
  /\ dir \in {"in", "out"} /\ st \in States
  /\ mu \in [by : Process \union {"none"}, at : {"free", "notify", "write"},
             s : States, owner : Clients \union {NoOwner}]
  /\ rec \in [status : {"none", "starting", "ringing", "connected"},
              owner : Clients \union {NoOwner}]
  /\ dstatus \in {"none", "starting", "ringing", "connected"}
  /\ DOMAIN pc = Process
  /\ ends \in Nat

\* Nobody works on a call that does not exist, and the call that a dial or an
\* offer registered is still registered when it comes to exist.
Existence ==
  /\ st = "none" =>
       /\ mu = Free /\ rec = NoRec /\ ends = 0
       /\ pc["dial"] \in {"idle", "start"} /\ pc["ev"] \in {"idle", "offer"}
       /\ pc["timer"] = "idle"
       /\ \A q \in Clients : pc[q] = "idle"
  /\ pc["dial"] = "start" => reg
  /\ pc["ev"] = "offer" => reg
  /\ pc["dial"] # "idle" => dir = "out"
  /\ pc["ev"] \in {"offer", "incoming"} => dir = "in"
  /\ regMu => pc["ev"] \in {"findAccept", "findTerminate", "findRinging"}

\* Who runs OnStateChange was given the state the call is in, and who goes on
\* to OnEnded or cleanupMedia has ended it.
EndSeen ==
  /\ mu # Free => mu.s = st
  /\ mu.at = "write" => st # "ended"
  /\ \A p \in Process :
       pc[p] \in {"termEnded", "termClean", "endEnded", "endClean"} => st = "ended"

\* reservePeer, bindPeer, releasePeer: a number is bound to a registered call,
\* and reserved only until its dial binds it or fails.
Reservation ==
  /\ pc["dial"] = "idle" => dialed = "free"
  /\ pc["dial"] \in {"read", "write", "done"} => dialed \in {"free", "bound"}
  /\ dialed = "bound" => reg

\* An offer that has not rung has no record and no request.
Unannounced ==
  pc["ev"] = "incoming" =>
    /\ st \in {"incoming", "ended"} /\ (mu = Free \/ st = "ended")
    /\ rec = NoRec /\ ends = 0
    /\ \A q \in Clients : pc[q] = "idle"

\* Once the broker has told the panels that the call ended, the call is over
\* and out of the books.
EndedBooks ==
  ends # 0 /\ ~ghost /\ lost = "no" =>
    ends = 1 /\ st = "ended" /\ ~reg /\ rec = NoRec

BooksInv ==
  /\ BooksTyped /\ CreatedOnce
  /\ Existence /\ EndSeen /\ Reservation /\ Unannounced /\ EndedBooks
  /\ LiveIsRegistered

\* Every step of every thread keeps the books (callregistry.go, broker.go): the
\* invariant above is inductive.
LEMMA BooksStep == BooksInv /\ [Next]_vars => BooksInv'
<1> SUFFICES ASSUME BooksInv, [Next]_vars PROVE BooksInv'
  OBVIOUS
<1> CreatedOnce' /\ (st = "ended" => st' = "ended")
  BY CallStep DEF BooksInv
<1> USE DEF BooksInv, BooksTyped, CreatedOnce, Existence, EndSeen, Reservation, Unannounced,
            EndedBooks, LiveIsRegistered, States, Live, Free, NoRec,
            callVars, bookVars, hist, Go, Section, Ready
<1>0. /\ {"ev", "dial", "ack", "timer", "relay"} \subseteq Process
      /\ \A q \in Clients : q \in Process /\ q \notin {"ev", "dial", "ack", "timer", "relay"}
      /\ Dialer \in Clients
  BY ClientsAssumption DEF Process
<1>1. CASE UNCHANGED vars
  BY <1>1 DEF vars
<1>2. CASE Emit
  <2>1. CASE EmitRead
    <3>0. /\ mu.at = "notify" /\ mu.s # "ended"
          /\ mu' = [[mu EXCEPT !.at = "write"] EXCEPT !.owner = rec.owner]
      BY <2>1 DEF EmitRead
    <3>1. /\ mu # Free /\ mu'.s = mu.s /\ mu.s # "ended"
          /\ mu' \in [by : Process \union {"none"}, at : {"free", "notify", "write"},
                     s : States, owner : Clients \union {NoOwner}]
      <4> DEFINE M == [by : Process \union {"none"}, at : {"free", "notify", "write"},
                       s : States, owner : Clients \union {NoOwner}]
      <4>1. mu \in M /\ rec.owner \in Clients \union {NoOwner}
        OBVIOUS
      <4>2. mu # Free
        BY <3>0
      <4> HIDE DEF BooksTyped, BooksInv, Free
      <4> QED BY <3>0, <4>1, <4>2
    <3>2. UNCHANGED <<dir, st, regMu, reg, dialed, rec, ends, pc, dstatus, ghost, lost>>
      BY <2>1 DEF EmitRead
    <3> QED BY <3>1, <3>2
  <2>2. CASE EmitWrite
    BY <1>0, <2>2 DEF EmitWrite, mapStatus
  <2>3. CASE EmitEnded
    BY <1>0, <2>3 DEF EmitEnded, FinishCall, RemoveCall, EndRecord, StopTimer
  <2> QED BY <1>2, <2>1, <2>2, <2>3 DEF Emit
<1>3. CASE Dial
  <2>1. CASE DialCreate
    BY <1>0, <2>1 DEF DialCreate
  <2>2. CASE DialStart
    BY <1>0, <2>2 DEF DialStart
  <2>3. CASE DialFails
    BY <1>0, <2>3 DEF DialFails, StopTimer
  <2>4. CASE DialSent
    BY <1>0, <2>4 DEF DialSent
  <2>5. CASE DialBind
    BY <1>0, <2>5 DEF DialBind
  <2>6. CASE DialRead
    BY <1>0, <2>6 DEF DialRead
  <2>7. CASE DialWrite
    <3>1. ~ghost' => ~ghost /\ reg
      BY <2>7, Zenon DEF DialWrite
    <3>2. rec' \in [status : {"none", "starting", "ringing", "connected"},
                   owner : Clients \union {NoOwner}]
      BY <1>0, <2>7 DEF DialWrite
    <3>3. /\ pc["dial"] = "write" /\ pc' = [pc EXCEPT !["dial"] = "done"]
          /\ dstatus' = "starting"
          /\ UNCHANGED <<dir, st, mu, regMu, reg, dialed, ends, lost>>
      BY <2>7 DEF DialWrite
    <3> QED BY <1>0, <3>1, <3>2, <3>3
  <2>8. CASE AckHandle
    BY <1>0, <2>8 DEF AckHandle
  <2>9. CASE ConnectRelays("ack", "connect", "done")
    BY <1>0, <2>9 DEF ConnectRelays
  <2> QED BY <1>3, <2>1, <2>2, <2>3, <2>4, <2>5, <2>6, <2>7, <2>8, <2>9 DEF Dial
<1>4. CASE OfferArrives
  BY <1>0, <1>4 DEF OfferArrives
<1>5. CASE Handle
  <2>1. CASE OfferHandled
    BY <1>0, <2>1 DEF OfferHandled
  <2>2. CASE OfferDropped
    BY <1>0, <2>2 DEF OfferDropped, RemoveCall, StopTimer
  <2>3. CASE OfferRings
    BY <1>0, <2>3 DEF OfferRings
  <2>4. CASE OfferEmits
    BY <1>0, <2>4 DEF OfferEmits
  <2>5. CASE FoundByPeer
    BY <1>0, <2>5 DEF FoundByPeer
  <2>6. CASE HandleAccept
    BY <1>0, <2>6 DEF HandleAccept, remoteAccepted
  <2>7. CASE AcceptedMedia
    BY <1>0, <2>7 DEF AcceptedMedia, mediaConnected
  <2>8. CASE AcceptedConnects
    BY <1>0, <2>8 DEF AcceptedConnects, ConnectRelays
  <2>9. CASE AcceptedWaits
    BY <1>0, <2>9 DEF AcceptedWaits
  <2>10. CASE HandleTransport
    BY <1>0, <2>10 DEF HandleTransport
  <2>11. CASE HandleTerminate
    BY <1>0, <2>11 DEF HandleTerminate, terminated
  <2>12. CASE HandleRinging
    BY <1>0, <2>12 DEF HandleRinging, ringingReceived
  <2>13. CASE OnEnded("ev", "termEnded", "termClean")
    BY <1>0, <2>13 DEF OnEnded, FinishCall, RemoveCall, EndRecord, StopTimer
  <2>14. CASE CleanupMedia("ev", "termClean", "idle")
    BY <1>0, <2>14 DEF CleanupMedia
  <2> QED BY <1>5, <2>1, <2>2, <2>3, <2>4, <2>5, <2>6, <2>7, <2>8, <2>9, <2>10, <2>11,
             <2>12, <2>13, <2>14 DEF Handle
<1>6. ASSUME NEW e \in {"accept", "terminate", "transport", "ringing"}, EventArrives(e) PROVE BooksInv'
  BY <1>0, <1>6 DEF EventArrives
<1>7. CASE RelayUp
  BY <1>0, <1>7 DEF RelayUp
<1>8. CASE RelayFails
  BY <1>0, <1>8 DEF RelayFails
<1>9. CASE RelayConnected
  BY <1>0, <1>9 DEF RelayConnected, mediaConnected
<1>10. CASE RelayCallback
  BY <1>0, <1>10 DEF RelayCallback, StopTimer
<1>11. ASSUME NEW q \in Clients, NEW r \in {"claim", "reject", "end"}, RequestArrives(q, r) PROVE BooksInv'
  BY <1>0, <1>11 DEF RequestArrives
<1>12. ASSUME NEW q \in Clients, Serve(q) PROVE BooksInv'
  <2>1. CASE AcceptClaims(q)
    BY <1>0, <2>1 DEF AcceptClaims
  <2>2. CASE AcceptCall(q)
    BY <1>0, <2>2 DEF AcceptCall, localAccepted
  <2>3. CASE AnsweredConnects(q)
    BY <1>0, <2>3 DEF AnsweredConnects, ConnectRelays
  <2>4. CASE AnsweredWaits(q)
    BY <1>0, <2>4 DEF AnsweredWaits
  <2>5. CASE RejectCall(q)
    BY <1>0, <2>5 DEF RejectCall, localRejected
  <2>6. CASE CleanupMedia(q, "rejClean", "tail")
    BY <1>0, <2>6 DEF CleanupMedia
  <2>7. CASE EndCall(q, "end", "endEnded", "tail")
    BY <1>0, <2>7 DEF EndCall, terminated
  <2>8. CASE OnEnded(q, "endEnded", "endClean")
    BY <1>0, <2>8 DEF OnEnded, FinishCall, RemoveCall, EndRecord, StopTimer
  <2>9. CASE CleanupMedia(q, "endClean", "tail")
    BY <1>0, <2>9 DEF CleanupMedia
  <2>10. CASE Tail(q)
    BY <1>0, <2>10 DEF Tail, FinishCall, RemoveCall, EndRecord, StopTimer
  <2>11. CASE TailFails(q)
    BY <1>0, <2>11 DEF TailFails
  <2> QED BY <1>12, <2>1, <2>2, <2>3, <2>4, <2>5, <2>6, <2>7, <2>8, <2>9, <2>10, <2>11 DEF Serve
<1>13. CASE TimerFires
  BY <1>0, <1>13 DEF TimerFires
<1>14. CASE Reap
  <2>1. CASE TimerChecks
    BY <1>0, <2>1 DEF TimerChecks
  <2>2. CASE TimerRemoves
    BY <1>0, <2>2 DEF TimerRemoves, RemoveCall, StopTimer
  <2>3. CASE EndCall("timer", "end", "endEnded", "reap")
    BY <1>0, <2>3 DEF EndCall, terminated
  <2>4. CASE OnEnded("timer", "endEnded", "endClean")
    BY <1>0, <2>4 DEF OnEnded, FinishCall, RemoveCall, EndRecord, StopTimer
  <2>5. CASE CleanupMedia("timer", "endClean", "reap")
    BY <1>0, <2>5 DEF CleanupMedia
  <2> QED BY <1>14, <2>1, <2>2, <2>3, <2>4, <2>5 DEF Reap
<1> QED BY <1>1, <1>2, <1>3, <1>4, <1>5, <1>6, <1>7, <1>8, <1>9, <1>10, <1>11, <1>12,
           <1>13, <1>14 DEF Next

\* The books hold from the moment the session is created.
LEMMA BooksInvariant == Spec => []BooksInv
<1>1. Init => BooksInv
  BY DEF Init, BooksInv, BooksTyped, CreatedOnce, Existence, EndSeen, Reservation,
         Unannounced, EndedBooks, LiveIsRegistered, States, Live, Free, NoRec, Process
<1> QED BY <1>1, BooksStep, PTL DEF Spec

\* bindPeer and removeCall (callregistry.go): in whatever order the call ends
\* and the dial binds it, no number stays reserved for a call that is gone.
THEOREM ReservationIsReleased == Spec => []ReservationFollowsCall
<1>1. BooksInv => ReservationFollowsCall
  BY DEF BooksInv, Reservation, ReservationFollowsCall
<1> QED BY <1>1, BooksInvariant, PTL

\* removeCall is reached with a live call on three paths only: a failed dial, a
\* reject that the state machine refused (doReject, httpapi.go) and a timer that
\* fires while the call is answered (createCall, callregistry.go).
THEOREM LiveStaysRegistered == Spec => []LiveIsRegistered
<1>1. BooksInv => LiveIsRegistered
  BY DEF BooksInv
<1> QED BY <1>1, BooksInvariant, PTL

\* endCall (broker.go:259) tells the panels once, however many of OnStateChange,
\* OnEnded, doEndCall and doReject end the call, in any order.
THEOREM EndedIsToldOnce == Spec => []EndedOnce
<1>1. BooksInv => EndedOnce
  BY DEF BooksInv, BooksTyped, EndedBooks, EndedOnce
<1> QED BY <1>1, BooksInvariant, PTL
=============================================================================
