------------------------------- MODULE Media -------------------------------
(***************************************************************************)
(* The audio received from WhatsApp: CallManager.onRelayData               *)
(* (internal/voip/call/callmanager_media.go) over the SRTP context of the  *)
(* receiving direction (internal/voip/media/srtp.go).                      *)
(*                                                                         *)
(* Several relays forward the same streams, each on a goroutine of its     *)
(* own, so that copies of one packet race, and so do the devices of the    *)
(* contact, each with an SSRC.  The lock m.mu covers the choice of the     *)
(* stream and the window of duplicates, and is let go before the packet is *)
(* decrypted; Unprotect reads and writes the context with no lock at all.  *)
(*                                                                         *)
(* The peers and the relays are external.  A packet is its stream and its  *)
(* position in it; on the wire only the position modulo SeqMod goes, and   *)
(* the key stream depends on the whole of it.  Nothing checks what was     *)
(* decrypted: Unprotect computes no tag, and the codec never fails.        *)
(***************************************************************************)
EXTENDS Integers, Sequences, FiniteSets

CONSTANTS
  Relays,     \* relays, one goroutine each
  Streams,    \* SSRCs of the contact's devices
  Known,      \* those whose SRTP key the session has
  NoStream,   \* rxLockedSsrc = 0
  SeqMod,     \* 2^16
  Window,     \* size of rxDedupRing, 512
  Silence,    \* rxFailoverSilence
  Short,      \* packets with no payload
  MaxLag,     \* bound: how many packets were sent after one that still arrives
  First,      \* position of each stream's first packet: any, below SeqMod
  Sent,       \* bound: the position after each stream's last packet
  MaxTime     \* bound: the clock

ASSUME MediaNames == Known \subseteq Streams /\ NoStream \notin Streams
ASSUME MediaSizes ==
  /\ SeqMod \in Nat \ {0} /\ Window \in Nat \ {0} /\ Silence \in Nat /\ MaxLag \in Nat
  /\ First \in [Streams -> 0..(SeqMod - 1)] /\ Sent \in [Streams -> Nat] /\ MaxTime \in Nat
\* The window outlasts the latest copy, and is short of a round of the numbers: 512
\* packets are 30 s of one stream, and the numbers come round in 65 minutes.
ASSUME WindowIsWide == 2 * MaxLag < Window /\ Window + MaxLag < SeqMod

VARIABLES
  now,      \* the clock
  wire,     \* the packets sent, in order
  lock,     \* rxLockedSsrc and rxLockedLastNs
  ring,     \* the keys in rxDedupRing, oldest first
  sub,      \* actualPeerSet: the stream subscribed to, or NoStream
  ctx,      \* the receiving SrtpContext: initialized, lastSeq, roc
  w,        \* each relay's goroutine, and the packet it holds
  heard,    \* history: how many times each packet reached OnPeerAudio
  fresh,    \* history: candidates since which the locked stream was not heard of
  inOrder,  \* history: the packet the context saw last, while one stream came in order
  clear     \* history: every packet of that stream was decrypted at its own position

vars == <<now, wire, lock, ring, sub, ctx, w, heard, fresh, inOrder, clear>>

Packets == UNION {{s} \X (First[s]..(Sent[s] - 1)) : s \in Streams}
NoPacket == <<NoStream, 0>>
Seq16(p) == p[2] % SeqMod
Idle == [pc |-> "idle", p |-> NoPacket, at |-> 0, try |-> FALSE, roc |-> 0]

Init ==
  /\ now = 0
  /\ wire = << >>
  /\ lock = [s |-> NoStream, last |-> 0]
  /\ ring = << >>
  /\ sub = NoStream
  /\ ctx = [init |-> FALSE, last |-> 0, roc |-> 0]
  /\ w = [r \in Relays |-> Idle]
  /\ heard = [p \in Packets |-> 0]
  /\ fresh = {}
  /\ inOrder = NoPacket
  /\ clear = TRUE

-----------------------------------------------------------------------------
At(r, pc) == w[r].pc = pc
Go(r, pc) == w' = [w EXCEPT ![r].pc = pc]
Done(r) == w' = [w EXCEPT ![r] = Idle]
Silent(t) == t - lock.last > Silence
rx == <<lock, ring, sub>>

NextOf(s) == First[s] + Cardinality({n \in 1..Len(wire) : wire[n][1] = s})
Arriving == {wire[n] : n \in {m \in 1..Len(wire) : m + MaxLag >= Len(wire)}}

\* The streams and the clock go on.
Send(s) ==
  /\ NextOf(s) < Sent[s]
  /\ wire' = Append(wire, <<s, NextOf(s)>>)
  /\ UNCHANGED <<now, rx, ctx, w, heard, fresh, inOrder, clear>>

Tick ==
  /\ now < MaxTime
  /\ now' = now + 1
  /\ UNCHANGED <<wire, rx, ctx, w, heard, fresh, inOrder, clear>>

\* C1: one stream, or a candidate when that one has been silent.
Candidate(s) == lock.s # NoStream /\ s # lock.s
Refused(s) == Candidate(s) /\ ~Silent(now)
Take(p) == [pc |-> "unprotect", p |-> p, at |-> now, try |-> Candidate(p[1]), roc |-> 0]

\* The window: a ring, whose oldest key goes when it is full.
Insert(k) == IF Len(ring) = Window THEN Append(Tail(ring), k) ELSE Append(ring, k)
InRing(k) == \E n \in 1..Len(ring) : ring[n] = k

\* Mutant: the window is not written.
noWindow(p) == UNCHANGED ring
remember(p) == ring' = Insert(<<p[1], Seq16(p)>>)

\* onRelayData under m.mu: the packet, late or not, a copy or not, comes to a relay.
\* The silence of the locked stream ends with any packet of it, also a copy.
onRelayData(r, p) ==
  /\ At(r, "idle")
  /\ ~Refused(p[1])
  /\ lock' = IF p[1] = lock.s THEN [lock EXCEPT !.last = now] ELSE lock
  /\ IF InRing(<<p[1], Seq16(p)>>)
     THEN /\ fresh' = IF p[1] = lock.s THEN {} ELSE fresh
          /\ UNCHANGED <<ring, sub, w>>
     ELSE /\ remember(p)
          /\ fresh' = IF p[1] = lock.s THEN {} ELSE IF Candidate(p[1]) THEN fresh \union {r} ELSE fresh
          /\ sub' = IF sub = NoStream THEN p[1] ELSE sub
          /\ w' = [w EXCEPT ![r] = Take(p)]
  /\ UNCHANGED <<now, wire, ctx, heard, inOrder, clear>>

\* Unprotect refuses what has no payload: the lock stays as it was.
tooShort(r) ==
  /\ At(r, "unprotect") /\ w[r].p \in Short
  /\ Done(r)
  /\ fresh' = fresh \ {r}
  /\ UNCHANGED <<now, wire, rx, ctx, heard, inOrder, clear>>

\* The next of one stream, when no goroutine is between these steps.
Follows(r, p) ==
  /\ \A q \in Relays \ {r} : w[q].pc \notin {"bump", "last", "index"}
  /\ IF ctx.init THEN inOrder[1] = p[1] /\ p[2] \in (inOrder[2] + 1)..(inOrder[2] + (SeqMod \div 2) - 1)
     ELSE p[2] < SeqMod

\* Mutant: the sign of the difference.
wrongWay(seq) == ctx.init /\ seq - ctx.last > SeqMod \div 2
\* updateRoc reads the context ...
Wrapped(seq) == ctx.init /\ seq - ctx.last < -(SeqMod \div 2)

readRoc(r) ==
  /\ At(r, "unprotect") /\ w[r].p \notin Short
  /\ w' = [w EXCEPT ![r].pc = IF Wrapped(Seq16(w[r].p)) THEN "bump" ELSE "last", ![r].roc = ctx.roc + 1]
  /\ inOrder' = IF Follows(r, w[r].p) THEN w[r].p ELSE NoPacket
  /\ UNCHANGED <<now, wire, rx, ctx, heard, fresh, clear>>

\* ... counts a round of the sequence numbers ...
bumpRoc(r) ==
  /\ At(r, "bump")
  /\ ctx' = [ctx EXCEPT !.roc = w[r].roc]
  /\ Go(r, "last")
  /\ UNCHANGED <<now, wire, rx, heard, fresh, inOrder, clear>>

\* ... and keeps the number, whatever its place in the stream.
writeLast(r) ==
  /\ At(r, "last")
  /\ ctx' = [ctx EXCEPT !.init = TRUE, !.last = Seq16(w[r].p)]
  /\ Go(r, "index")
  /\ UNCHANGED <<now, wire, rx, heard, fresh, inOrder, clear>>

\* packetIndex, and the decode: garbled or not, the packet is audio.
Decode(r) ==
  /\ At(r, "index")
  /\ clear' = (inOrder = NoPacket \/ (clear /\ ctx.roc = w[r].p[2] \div SeqMod))
  /\ Go(r, IF w[r].try \/ lock.s = NoStream THEN "commit" ELSE "deliver")
  /\ UNCHANGED <<now, wire, rx, ctx, heard, fresh, inOrder>>

\* Mutant: a candidate takes the lock without asking again.
commitStale(r) ==
  /\ At(r, "commit")
  /\ Go(r, "deliver")
  /\ lock' = IF lock.s = NoStream \/ w[r].try THEN [s |-> w[r].p[1], last |-> w[r].at] ELSE lock
  /\ UNCHANGED <<now, wire, ring, sub, ctx, heard, fresh, inOrder, clear>>

\* C2: the first to decode, or a candidate if the locked stream stayed silent.
commit(r) ==
  /\ At(r, "commit")
  /\ Go(r, "deliver")
  /\ lock' = IF \/ lock.s = NoStream
                \/ w[r].try /\ Candidate(w[r].p[1]) /\ Silent(w[r].at)
             THEN [s |-> w[r].p[1], last |-> w[r].at] ELSE lock
  /\ UNCHANGED <<now, wire, ring, sub, ctx, heard, fresh, inOrder, clear>>

OnPeerAudio(r) ==
  /\ At(r, "deliver")
  /\ heard' = [heard EXCEPT ![w[r].p] = @ + 1]
  /\ fresh' = fresh \ {r}
  /\ Done(r)
  /\ UNCHANGED <<now, wire, rx, ctx, inOrder, clear>>

Next ==
  \/ \E s \in Streams : Send(s)
  \/ Tick
  \/ \E r \in Relays :
       \/ \E p \in Arriving : onRelayData(r, p)
       \/ tooShort(r) \/ readRoc(r) \/ bumpRoc(r) \/ writeLast(r)
       \/ Decode(r) \/ commit(r) \/ OnPeerAudio(r)

Spec == Init /\ [][Next]_vars

-----------------------------------------------------------------------------
(* Properties.                                                               *)

\* The copies that the relays make of one packet reach the call once, in whatever
\* order and on however many goroutines they come (callmanager_media.go:163-182).
HeardOnce == \A p \in Packets : heard[p] <= 1

\* A stream loses the lock only by staying silent: a packet of it that comes while the
\* candidate's is being decoded, with no lock held, keeps it (C2 asks again).
Steal(r) == At(r, "commit") /\ w'[r].pc = "deliver" /\ lock.s \notin {NoStream, lock'.s}
LockNotStolen == [][\A r \in Relays : Steal(r) => r \in fresh]_vars

\* One stream that comes in order, with fewer losses than half the numbers, is
\* decrypted at its own positions however often the numbers come round, although the
\* context is told only the numbers (updateRoc, srtp.go:124).
InOrderIsClear == clear

\* "A stream of undecodable packets must never capture the lock"
\* (callmanager_media.go:146): the lock is nobody's or a stream's that decodes.
LockDecodes == lock.s \in Known \union {NoStream}
=============================================================================
