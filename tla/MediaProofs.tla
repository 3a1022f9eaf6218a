---------------------------- MODULE MediaProofs ----------------------------
(***************************************************************************)
(* Three results, for any relays, streams, window and clock.  A stream in  *)
(* order is decrypted at its own positions (OrderIsClear), and a packet    *)
(* is heard once (HeardIsOnce): each with its invariant in a part of its   *)
(* own.  First the lock on a stream: a candidate that was let through      *)
(* takes it only if the locked stream was not heard of since.              *)
(*                                                                         *)
(* C2 compares the times of the candidate and of the lock, so what has to  *)
(* be carried from C1 to C2 is that a candidate overtaken by the locked    *)
(* stream is no later than the lock's last packet (Overtaken).  That in    *)
(* turn holds because the lock's time never goes back, which is where the  *)
(* comparison in C2 itself is needed.                                      *)
(***************************************************************************)
EXTENDS Media, FiniteSetTheorems, TLAPS

\* What the argument needs of the types: the goroutines' records, and the times.
Busy == [pc : {"unprotect", "bump", "last", "index", "commit", "deliver"},
         p : Packets, at : Nat, try : BOOLEAN, roc : Nat]
Held == Busy \union {Idle}
Times ==
  /\ now \in Nat
  /\ lock \in [s : Streams \union {NoStream}, last : Nat]
  /\ lock.s = NoStream => lock.last = 0
  /\ lock.last <= now
  /\ w \in [Relays -> Held]
  /\ \A r \in Relays : w[r].at <= now
  /\ ctx \in [init : BOOLEAN, last : Int, roc : Nat]
  /\ wire \in Seq(Packets)

\* A candidate that the locked stream has overtaken came no later than it.
Overtaken == \A r \in Relays : w[r].try /\ r \notin fresh => w[r].at <= lock.last

IInv == Times /\ Overtaken

\* The record of a goroutine, changed at one relay.
LEMMA OneHeld ==
  ASSUME w \in [Relays -> Held], NEW r \in Relays, NEW h \in Held, w' = [w EXCEPT ![r] = h]
  PROVE  /\ w' \in [Relays -> Held]
         /\ w'[r] = h /\ \A q \in Relays \ {r} : w'[q] = w[q]
OBVIOUS

\* Packets are pairs of a stream and a position.
LEMMA PacketShape == \A p \in Packets : p[1] \in Streams /\ p[2] \in Int
BY MediaSizes, SMT DEF Packets

\* A goroutine that only goes on keeps its packet.
LEMMA GoesOn ==
  ASSUME w \in [Relays -> Held], NEW r \in Relays, w[r].pc # "idle", NEW pc, Go(r, pc),
         pc \in {"last", "index", "commit", "deliver"}
  PROVE  /\ w' \in [Relays -> Held]
         /\ \A q \in Relays : w'[q].try = w[q].try /\ w'[q].at = w[q].at
BY SMT DEF Go, Held, Busy, Idle

\* The goroutine is done with its packet.
LEMMA IdleHeld == Idle \in Held
BY DEF Held

\* A step that keeps the lock, and each goroutine's packet or lets it go.
LEMMA Kept ==
  ASSUME IInv, now' = now, lock' = lock, wire' = wire, w' \in [Relays -> Held],
         ctx' \in [init : BOOLEAN, last : Int, roc : Nat],
         \A q \in Relays : w'[q].try /\ q \notin fresh' =>
                            w[q].try /\ q \notin fresh /\ w'[q].at = w[q].at,
         \A q \in Relays : w'[q].at <= now
  PROVE  IInv'
BY SMT DEF IInv, Times, Overtaken

LEMMA Initially == Init => IInv
<1> SUFFICES ASSUME Init PROVE IInv
  OBVIOUS
<1>1. w \in [Relays -> Held] /\ \A r \in Relays : w[r] = Idle
  BY IdleHeld, Zenon DEF Init
<1>2. now = 0 /\ lock = [s |-> NoStream, last |-> 0] /\ wire = << >>
      /\ ctx = [init |-> FALSE, last |-> 0, roc |-> 0]
  BY Zenon DEF Init
<1>3. Times
  BY <1>1, <1>2, SMT DEF Times, Idle
<1>4. Overtaken
  BY <1>1, SMT DEF Overtaken, Idle
<1> QED BY <1>3, <1>4 DEF IInv

\* C1: the packet that comes to a relay, late or not, a copy or not.
LEMMA Comes ==
  ASSUME IInv, NEW r \in Relays, NEW p \in Packets, onRelayData(r, p)
  PROVE  IInv'
<1>1. /\ now' = now /\ ctx' = ctx /\ wire' = wire
      /\ lock' = IF p[1] = lock.s THEN [lock EXCEPT !.last = now] ELSE lock
      /\ \/ w' = w /\ fresh' = IF p[1] = lock.s THEN {} ELSE fresh
         \/ /\ w' = [w EXCEPT ![r] = Take(p)]
            /\ fresh' = IF p[1] = lock.s THEN {} ELSE IF Candidate(p[1]) THEN fresh \union {r} ELSE fresh
  BY Zenon DEF onRelayData
<1>2. p[1] \in Streams /\ p[1] # NoStream
  BY MediaNames, PacketShape
<1>3. Take(p) \in Held /\ Take(p).at = now /\ Take(p).try = Candidate(p[1])
  <2>1. Candidate(p[1]) \in BOOLEAN /\ now \in Nat
    BY Zenon DEF Candidate, IInv, Times
  <2> QED BY <2>1, SMT DEF Take, Held, Busy
<1>4. /\ w' \in [Relays -> Held]
      /\ \A q \in Relays : w'[q] = w[q] \/ (q = r /\ w'[q] = Take(p))
  BY <1>1, <1>3, OneHeld DEF IInv, Times
<1>5. /\ lock' \in [s : Streams \union {NoStream}, last : Nat]
      /\ lock'.s = lock.s /\ lock.last <= lock'.last /\ lock'.last <= now
      /\ p[1] = lock.s => lock'.last = now
  BY <1>1, SMT DEF IInv, Times
<1>6. Times'
  BY <1>1, <1>2, <1>3, <1>4, <1>5, SMT DEF IInv, Times
<1>7. Overtaken'
  <2> SUFFICES ASSUME NEW q \in Relays, w'[q].try, q \notin fresh' PROVE w'[q].at <= lock'.last
    BY DEF Overtaken
  <2>1. CASE p[1] = lock.s
    BY <2>1, <1>6, <1>1, <1>5 DEF Times
  <2>2. CASE p[1] # lock.s
    <3>1. q \notin fresh
      BY <2>2, <1>1
    <3>2. w'[q] = w[q]
      BY <2>2, <1>1, <1>3, <1>4
    <3>3. w[q].at <= lock.last /\ w[q].at \in Nat
      BY <3>1, <3>2, SMT DEF IInv, Overtaken, Times, Held, Busy, Idle
    <3> QED BY <3>2, <3>3, <1>5, SMT DEF IInv, Times
  <2> QED BY <2>1, <2>2
<1> QED BY <1>6, <1>7 DEF IInv

\* C2: the lock is asked for again.
LEMMA Commits ==
  ASSUME IInv, NEW r \in Relays, commit(r)
  PROVE  IInv'
<1>1. /\ now' = now /\ ctx' = ctx /\ wire' = wire /\ fresh' = fresh
      /\ w' \in [Relays -> Held]
      /\ \A q \in Relays : w'[q].try = w[q].try /\ w'[q].at = w[q].at
  BY GoesOn DEF commit, At, IInv, Times
<1>2. w[r] \in Held
  BY DEF IInv, Times
<1>3. CASE lock' = lock
  BY <1>1, <1>3, Kept DEF IInv, Times
<1>4. CASE lock' # lock
  <2>1. lock' = [s |-> w[r].p[1], last |-> w[r].at] /\ lock.last <= w[r].at
    BY <1>2, <1>4, MediaSizes, SMT DEF commit, IInv, Times, Held, Busy, Idle, Candidate, Silent, At
  <2>2. Overtaken'
    BY <2>1, <1>1, <1>2, SMT DEF IInv, Overtaken, Times, Held, Busy, Idle
  <2>3. w[r].p[1] \in Streams /\ w[r].p[1] # NoStream
    BY <1>2, PacketShape, MediaNames, SMT DEF Held, Busy, Idle, commit, At
  <2>4. Times'
    BY <2>1, <2>3, <1>1, <1>2, SMT DEF IInv, Times, Held, Busy, Idle
  <2> QED BY <2>2, <2>4 DEF IInv
<1> QED BY <1>3, <1>4
\* A goroutine that lets its packet go.
LEMMA Lets ==
  ASSUME IInv, NEW r \in Relays, Done(r), fresh' = fresh \ {r},
         now' = now, lock' = lock, ctx' = ctx, wire' = wire
  PROVE  IInv'
<1>1. /\ w' \in [Relays -> Held]
      /\ w'[r] = Idle /\ \A q \in Relays \ {r} : w'[q] = w[q]
  BY IdleHeld DEF Done, IInv, Times, OneHeld
<1> QED BY <1>1, Kept, SMT DEF IInv, Times, Idle

\* A stream's next packet goes on the wire.
LEMMA Sends ==
  ASSUME IInv, NEW s \in Streams, Send(s)
  PROVE  IInv'
<1> DEFINE N == {n \in 1..Len(wire) : wire[n][1] = s}
<1>1. Cardinality(N) \in Nat
  <2>1. Len(wire) \in Nat
    BY DEF IInv, Times
  <2>2. IsFiniteSet(1..Len(wire))
    BY <2>1, FS_Interval
  <2>3. IsFiniteSet(N)
    BY <2>2, FS_Subset
  <2> QED BY <2>3, FS_CardinalityType
<1>2. NextOf(s) \in First[s]..(Sent[s] - 1)
  BY <1>1, MediaSizes, SMT DEF NextOf, Send
<1>3. <<s, NextOf(s)>> \in Packets
  BY <1>2, SMT DEF Packets
<1>4. wire' \in Seq(Packets) /\ UNCHANGED <<now, lock, w, ctx, fresh>>
  BY <1>3, SMT DEF Send, rx, IInv, Times
<1> QED BY <1>4, Zenon DEF IInv, Times, Overtaken

\* Unprotect, step by step: the goroutine keeps its packet, and the lock is let alone.
LEMMA ReadRocs ==
  ASSUME IInv, NEW r \in Relays, readRoc(r)
  PROVE  IInv'
<1>1. w[r] \in Busy
  BY SMT DEF IInv, Times, Held, Idle, readRoc, At
<1>2. PICK pc \in {"bump", "last"} : w' = [w EXCEPT ![r].pc = pc, ![r].roc = ctx.roc + 1]
  BY Zenon DEF readRoc
<1>3. w' = [w EXCEPT ![r] = [w[r] EXCEPT !.pc = pc, !.roc = ctx.roc + 1]]
  BY <1>2
<1>4. [w[r] EXCEPT !.pc = pc, !.roc = ctx.roc + 1] \in Busy
  <2>1. ctx.roc + 1 \in Nat
    BY SMT DEF IInv, Times
  <2>2. ASSUME NEW h \in Busy, NEW n \in Nat, NEW c \in {"bump", "last"}
        PROVE  [h EXCEPT !.pc = c, !.roc = n] \in Busy
    BY Zenon DEF Busy
  <2> QED BY <2>1, <2>2, <1>1, Zenon
<1>5. /\ w' \in [Relays -> Held]
      /\ \A q \in Relays : w'[q].try = w[q].try /\ w'[q].at = w[q].at
  BY <1>1, <1>3, <1>4, OneHeld, SMT DEF IInv, Times, Held, Busy
<1>6. UNCHANGED <<now, wire, lock, ctx, fresh>>
  BY Zenon DEF readRoc, rx
<1> QED BY <1>5, <1>6, Kept, Zenon DEF IInv, Times

LEMMA BumpRocs ==
  ASSUME IInv, NEW r \in Relays, bumpRoc(r)
  PROVE  IInv'
<1>1. w[r].roc \in Nat
  BY SMT DEF IInv, Times, Held, Busy, Idle
<1>2. /\ ctx' \in [init : BOOLEAN, last : Int, roc : Nat]
      /\ UNCHANGED <<now, wire, lock, fresh>>
  BY <1>1, SMT DEF bumpRoc, rx, IInv, Times
<1>3. /\ w' \in [Relays -> Held]
      /\ \A q \in Relays : w'[q].try = w[q].try /\ w'[q].at = w[q].at
  BY GoesOn DEF bumpRoc, At, IInv, Times
<1> QED BY <1>2, <1>3, Kept, Zenon DEF IInv, Times

LEMMA WriteLasts ==
  ASSUME IInv, NEW r \in Relays, writeLast(r)
  PROVE  IInv'
<1>1. Seq16(w[r].p) \in Int
  <2>1. w[r].p[2] \in Int
    BY PacketShape, SMT DEF IInv, Times, Held, Busy, Idle, writeLast, At
  <2> QED BY <2>1, MediaSizes, SMT DEF Seq16
<1>2. /\ ctx' \in [init : BOOLEAN, last : Int, roc : Nat]
      /\ UNCHANGED <<now, wire, lock, fresh>>
  <2>1. /\ ctx' = [ctx EXCEPT !.init = TRUE, !.last = Seq16(w[r].p)]
        /\ UNCHANGED <<now, wire, lock, fresh>>
    BY Zenon DEF writeLast, rx
  <2>2. ctx \in [init : BOOLEAN, last : Int, roc : Nat]
    BY Zenon DEF IInv, Times
  <2> QED BY <2>1, <2>2, <1>1
<1>3. /\ w' \in [Relays -> Held]
      /\ \A q \in Relays : w'[q].try = w[q].try /\ w'[q].at = w[q].at
  BY GoesOn DEF writeLast, At, IInv, Times
<1> QED BY <1>2, <1>3, Kept, Zenon DEF IInv, Times

LEMMA Decodes ==
  ASSUME IInv, NEW r \in Relays, Decode(r)
  PROVE  IInv'
<1>1. PICK pc \in {"commit", "deliver"} : Go(r, pc)
  BY Zenon DEF Decode
<1>2. UNCHANGED <<now, wire, lock, ctx, fresh>>
  BY Zenon DEF Decode, rx
<1>3. /\ w' \in [Relays -> Held]
      /\ \A q \in Relays : w'[q].try = w[q].try /\ w'[q].at = w[q].at
  BY <1>1, GoesOn DEF Decode, At, IInv, Times
<1> QED BY <1>2, <1>3, Kept, Zenon DEF IInv, Times

\* Every step of the system keeps the invariant.
LEMMA Step == IInv /\ [Next]_vars => IInv'
<1> SUFFICES ASSUME IInv, [Next]_vars PROVE IInv'
  OBVIOUS
<1>1. ASSUME NEW s \in Streams, Send(s) PROVE IInv'
  BY <1>1, Sends
<1>2. CASE Tick
  BY <1>2, SMT DEF Tick, rx, IInv, Times, Overtaken, Held, Busy, Idle
<1>3. ASSUME NEW r \in Relays, NEW p \in Arriving, onRelayData(r, p) PROVE IInv'
  <2>1. p \in Packets
    BY SMT DEF Arriving, IInv, Times
  <2> QED BY <2>1, <1>3, Comes
<1>4. ASSUME NEW r \in Relays, tooShort(r) PROVE IInv'
  BY <1>4, Lets DEF tooShort, rx
<1>5. ASSUME NEW r \in Relays, readRoc(r) PROVE IInv'
  BY <1>5, ReadRocs
<1>6. ASSUME NEW r \in Relays, bumpRoc(r) PROVE IInv'
  BY <1>6, BumpRocs
<1>7. ASSUME NEW r \in Relays, writeLast(r) PROVE IInv'
  BY <1>7, WriteLasts
<1>8. ASSUME NEW r \in Relays, Decode(r) PROVE IInv'
  BY <1>8, Decodes
<1>9. ASSUME NEW r \in Relays, commit(r) PROVE IInv'
  BY <1>9, Commits
<1>10. ASSUME NEW r \in Relays, OnPeerAudio(r) PROVE IInv'
  BY <1>10, Lets DEF OnPeerAudio, rx
<1>11. CASE UNCHANGED vars
  BY <1>11, Zenon DEF vars, IInv, Times, Overtaken
<1> QED BY <1>1, <1>2, <1>3, <1>4, <1>5, <1>6, <1>7, <1>8, <1>9, <1>10, <1>11, Zenon DEF Next

\* The inductive invariant: the times are the clock's, and a candidate that was
\* overtaken is no later than the lock.
THEOREM Inductive == Spec => []IInv
BY Initially, Step, PTL DEF Spec

\* A stream loses the lock to a candidate only if nothing of it came since that
\* candidate was let through (C2, callmanager_media.go:215).
THEOREM NotStolen == Spec => LockNotStolen
<1>1. IInv /\ [Next]_vars => [\A r \in Relays : Steal(r) => r \in fresh]_vars
  <2> SUFFICES ASSUME IInv, Next, NEW r \in Relays, Steal(r), r \notin fresh PROVE FALSE
    BY Zenon
  <2>1. PICK q \in Relays : commit(q)
    <3>1. lock'.s # lock.s
      BY DEF Steal
    <3>2. UNCHANGED lock => FALSE
      BY <3>1
    <3>3. \A q \in Relays, p \in Packets : onRelayData(q, p) => lock'.s = lock.s
      BY SMT DEF onRelayData, IInv, Times
    <3>4. Arriving \subseteq Packets
      BY SMT DEF Arriving, IInv, Times
    <3> QED BY <3>1, <3>2, <3>3, <3>4, Zenon
            DEF Next, Send, Tick, tooShort, readRoc, bumpRoc, writeLast, Decode, OnPeerAudio, rx
  <2>2. q = r
    BY <2>1, SMT DEF commit, Go, Steal, At, IInv, Times
  <2>3. w[r].try /\ Silent(w[r].at)
    BY <2>1, <2>2, Zenon DEF commit, Steal
  <2>4. w[r].at <= lock.last /\ w[r].at \in Nat
    BY <2>3, SMT DEF IInv, Overtaken, Times, Held, Busy, Idle
  <2> QED BY <2>3, <2>4, MediaSizes, SMT DEF Silent, IInv, Times
<1> QED BY <1>1, Inductive, PTL DEF Spec, LockNotStolen

-----------------------------------------------------------------------------
(* The packets of one stream in order are decrypted at their positions.    *)

Between(r) == w[r].pc \in {"bump", "last", "index"}
Round(p) == p[2] \div SeqMod

\* Before the first packet is written, no round was counted.
Unwritten == ~ctx.init => ctx.roc = 0 /\ \A r \in Relays : w[r].pc \notin {"bump", "index"}

\* While the packets come in order, the context is at the last one read, or one
\* goroutine takes it there.
Following ==
  inOrder # NoPacket =>
    /\ inOrder \in Packets
    /\ (\A r \in Relays : ~Between(r)) =>
          ctx.init /\ ctx.last = Seq16(inOrder) /\ ctx.roc = Round(inOrder)
    /\ \A r \in Relays : Between(r) =>
          /\ w[r].p = inOrder
          /\ \A q \in Relays \ {r} : ~Between(q)
          /\ w[r].pc = "bump" => w[r].roc = Round(inOrder)
          /\ w[r].pc \in {"last", "index"} => ctx.roc = Round(inOrder)
          /\ w[r].pc = "index" => ctx.init /\ ctx.last = Seq16(inOrder)

ClearInv == Unwritten /\ Following /\ clear

\* The number of a packet (its position modulo 2^16), and how often the numbers came round.
LEMMA DivMod ==
  ASSUME NEW M \in Nat \ {0}, NEW x \in Nat
  PROVE  \E a \in Nat, b \in 0..(M - 1) : a = x \div M /\ b = x % M /\ x = a * M + b
<1>1. x \div M \in Nat /\ x % M \in 0..(M - 1)
  OBVIOUS
<1>2. \E a, b \in Int : a = x \div M /\ b = x % M /\ b = x - a * M
  BY SMTT(30)
<1>3. PICK a, b \in Int : a = x \div M /\ b = x % M /\ b = x - a * M
  BY <1>2
<1>4. a \in Nat /\ b \in 0..(M - 1)
  BY <1>1, <1>3
<1>5. x = a * M + b
  <2>1. a * M \in Int
    BY <1>3
  <2> QED BY <2>1, <1>3
<1> QED BY <1>3, <1>4, <1>5

LEMMA DivModIs ==
  ASSUME NEW M \in Nat \ {0}, NEW a \in Nat, NEW b \in 0..(M - 1), NEW x \in Nat, x = a * M + b
  PROVE  x \div M = a /\ x % M = b
<1>1. x \div M = a
  OBVIOUS
<1>2. x % M = b
  OBVIOUS
<1> QED BY <1>1, <1>2

\* updateRoc: the number went back by more than half, exactly when they came round.
LEMMA ComesRound ==
  ASSUME NEW M \in Nat \ {0}, NEW x \in Nat, NEW y \in (x + 1)..(x + (M \div 2) - 1)
  PROVE  y \div M = IF (y % M) - (x % M) < -(M \div 2) THEN (x \div M) + 1 ELSE x \div M
<1>1. PICK a \in Nat, b \in 0..(M - 1) : a = x \div M /\ b = x % M /\ x = a * M + b
  BY DivMod
<1>2. PICK d \in Nat : y = x + d /\ d >= 1 /\ d <= (M \div 2) - 1
  <2>1. y - x \in Nat /\ y = x + (y - x) /\ y - x >= 1 /\ y - x <= (M \div 2) - 1
    OBVIOUS
  <2> QED BY <2>1
<1>3. M \div 2 \in Nat /\ 2 * (M \div 2) <= M
  OBVIOUS
<1>4. CASE b + d < M
  <2>1. y \in Nat /\ b + d \in 0..(M - 1) /\ y = a * M + (b + d)
    BY <1>1, <1>2, <1>4
  <2>2. y \div M = a /\ y % M = b + d
    BY <2>1, DivModIs
  <2> QED BY <1>1, <1>2, <1>3, <2>2
<1>5. CASE b + d >= M
  <2>1. b + d - M \in 0..(M - 1) /\ y \in Nat
    BY <1>2, <1>3, <1>5
  <2>2. y = (a + 1) * M + (b + d - M)
    <3>1. (a + 1) * M = a * M + M
      OBVIOUS
    <3> QED BY <1>1, <1>2, <3>1
  <2>3. y \div M = a + 1 /\ y % M = b + d - M
    <3> DEFINE c == a + 1
               e == b + d - M
    <3>1. c \in Nat /\ e \in 0..(M - 1) /\ y = c * M + e
      BY <2>1, <2>2
    <3> HIDE DEF c, e
    <3>2. y \div M = c /\ y % M = e
      BY <2>1, <3>1, DivModIs
    <3> QED BY <3>2 DEF c, e
  <2> QED BY <1>1, <1>2, <1>3, <2>3
<1> QED BY <1>1, <1>2, <1>4, <1>5

\* A goroutine that goes on keeps what it holds, and the others are where they were.
LEMMA Goes ==
  ASSUME w \in [Relays -> Held], NEW r \in Relays, w[r].pc # "idle", NEW pc, Go(r, pc)
  PROVE  /\ w'[r].pc = pc
         /\ \A q \in Relays : w'[q].p = w[q].p /\ w'[q].roc = w[q].roc
                              /\ (q # r => w'[q].pc = w[q].pc)
BY SMT DEF Go, Held, Busy, Idle

\* A goroutine comes to a packet or lets it go, between no steps of Unprotect.
LEMMA ClearKept ==
  ASSUME ClearInv, UNCHANGED <<ctx, inOrder, clear>>,
         \A r \in Relays : \/ w'[r] = w[r]
                           \/ ~Between(r) /\ w'[r].pc \notin {"bump", "last", "index"}
  PROVE  ClearInv'
<1>1. \A r \in Relays : (Between(r) <=> Between(r)') /\ (Between(r) => w'[r] = w[r])
  BY DEF Between
<1>2. Unwritten'
  BY Zenon DEF ClearInv, Unwritten
<1>3. Following'
  BY <1>1, ZenonT(30) DEF ClearInv, Following, Between, Round, Seq16
<1> QED BY <1>2, <1>3 DEF ClearInv

\* readRoc: the first packet, or the next of the stream in order; or the order is lost.
LEMMA ReadsClear ==
  ASSUME IInv, ClearInv, NEW r \in Relays, readRoc(r)
  PROVE  ClearInv'
<1>0. /\ w[r] \in Busy /\ w[r].pc = "unprotect" /\ w[r].p \in Packets
      /\ UNCHANGED <<ctx, clear>>
  BY SMT DEF IInv, Times, Held, Busy, Idle, readRoc, At
<1>1. PICK pc \in {"bump", "last"} :
        /\ w' = [w EXCEPT ![r] = [w[r] EXCEPT !.pc = pc, !.roc = ctx.roc + 1]]
        /\ pc = "bump" <=> Wrapped(Seq16(w[r].p))
  BY Zenon DEF readRoc
<1>2. /\ w'[r].pc = pc /\ w'[r].roc = ctx.roc + 1 /\ w'[r].p = w[r].p
      /\ \A q \in Relays \ {r} : w'[q] = w[q]
  BY <1>0, <1>1, SMT DEF IInv, Times, Busy
<1>3. Unwritten'
  <2>1. pc = "bump" => ctx.init
    BY <1>1 DEF Wrapped
  <2> QED BY <1>0, <1>2, <2>1, Zenon DEF ClearInv, Unwritten
<1>4. CASE ~Follows(r, w[r].p)
  BY <1>0, <1>3, <1>4 DEF readRoc, ClearInv, Following
<1>5. CASE Follows(r, w[r].p)
  <2>1. inOrder' = w[r].p
    BY <1>5 DEF readRoc
  <2>2. \A q \in Relays : ~Between(q)
    BY <1>0, <1>5 DEF Follows, Between
  <2>3. Round(w[r].p) = IF pc = "bump" THEN ctx.roc + 1 ELSE ctx.roc
    <3>1. w[r].p[2] \in Nat /\ w[r].p[1] # NoStream
      BY <1>0, MediaSizes, MediaNames, SMT DEF Packets
    <3>2. CASE ~ctx.init
      <4>1. w[r].p[2] < SeqMod /\ ctx.roc = 0 /\ pc = "last"
        BY <1>1, <1>5, <3>2 DEF Follows, Wrapped, ClearInv, Unwritten
      <4>2. w[r].p[2] \div SeqMod = 0
        BY <3>1, <4>1, MediaSizes
      <4> QED BY <4>1, <4>2 DEF Round
    <3>3. CASE ctx.init
      <4>1. /\ inOrder[1] = w[r].p[1]
            /\ w[r].p[2] \in (inOrder[2] + 1)..(inOrder[2] + (SeqMod \div 2) - 1)
        BY <1>5, <3>3 DEF Follows
      <4>2. inOrder # NoPacket
        BY <3>1, <4>1 DEF NoPacket
      <4>3. /\ inOrder[2] \in Nat
            /\ ctx.last = inOrder[2] % SeqMod /\ ctx.roc = inOrder[2] \div SeqMod
        BY <2>2, <4>2, MediaSizes, SMT DEF ClearInv, Following, Packets, Seq16, Round
      <4>4. pc = "bump" <=> (w[r].p[2] % SeqMod) - (inOrder[2] % SeqMod) < -(SeqMod \div 2)
        BY <1>1, <3>3, <4>3 DEF Wrapped, Seq16
      <4>5. w[r].p[2] \div SeqMod
             = IF (w[r].p[2] % SeqMod) - (inOrder[2] % SeqMod) < -(SeqMod \div 2)
               THEN (inOrder[2] \div SeqMod) + 1 ELSE inOrder[2] \div SeqMod
        BY <4>1, <4>3, MediaSizes, ComesRound
      <4> QED BY <4>3, <4>4, <4>5 DEF Round
    <3> QED BY <3>2, <3>3
  <2>4. Following'
    BY <1>0, <1>2, <2>1, <2>2, <2>3 DEF Following, Between, Round
  <2> QED BY <1>0, <1>3, <2>4 DEF ClearInv
<1> QED BY <1>4, <1>5

\* bumpRoc, writeLast and Decode, of the packet the order is at.
LEMMA BumpsClear ==
  ASSUME IInv, ClearInv, NEW r \in Relays, bumpRoc(r)
  PROVE  ClearInv'
<1>1. /\ w[r].pc = "bump" /\ Go(r, "last") /\ ctx' = [ctx EXCEPT !.roc = w[r].roc]
      /\ UNCHANGED <<inOrder, clear>>
  BY Zenon DEF bumpRoc, At
<1>2. /\ w'[r].pc = "last" /\ w'[r].p = w[r].p
      /\ \A q \in Relays \ {r} : w'[q].pc = w[q].pc /\ w'[q].p = w[q].p
  BY <1>1, Goes DEF IInv, Times
<1>3. ctx'.roc = w[r].roc /\ ctx'.init = ctx.init /\ ctx'.last = ctx.last
  BY <1>1, SMT DEF IInv, Times
<1>4. ctx.init
  BY <1>1, Zenon DEF ClearInv, Unwritten
<1>5. Between(r)
  BY <1>1 DEF Between
<1>6. Following'
  BY <1>1, <1>2, <1>3, <1>5 DEF ClearInv, Following, Between, Round, Seq16
<1>7. Unwritten'
  BY <1>3, <1>4 DEF Unwritten
<1> QED BY <1>1, <1>6, <1>7 DEF ClearInv

LEMMA WritesClear ==
  ASSUME IInv, ClearInv, NEW r \in Relays, writeLast(r)
  PROVE  ClearInv'
<1>1. /\ w[r].pc = "last" /\ Go(r, "index")
      /\ ctx' = [ctx EXCEPT !.init = TRUE, !.last = Seq16(w[r].p)]
      /\ UNCHANGED <<inOrder, clear>>
  BY Zenon DEF writeLast, At
<1>2. /\ w'[r].pc = "index" /\ w'[r].p = w[r].p
      /\ \A q \in Relays \ {r} : w'[q].pc = w[q].pc /\ w'[q].p = w[q].p
  BY <1>1, Goes DEF IInv, Times
<1>3. ctx'.roc = ctx.roc /\ ctx'.init /\ ctx'.last = Seq16(w[r].p)
  BY <1>1, SMT DEF IInv, Times
<1>5. Between(r)
  BY <1>1 DEF Between
<1>6. Following'
  BY <1>1, <1>2, <1>3, <1>5 DEF ClearInv, Following, Between, Round, Seq16
<1>7. Unwritten'
  BY <1>3 DEF Unwritten
<1> QED BY <1>1, <1>6, <1>7 DEF ClearInv

LEMMA DecodesClear ==
  ASSUME IInv, ClearInv, NEW r \in Relays, Decode(r)
  PROVE  ClearInv'
<1>1. /\ w[r].pc = "index" /\ UNCHANGED <<inOrder, ctx>>
      /\ clear' = (inOrder = NoPacket \/ (clear /\ ctx.roc = w[r].p[2] \div SeqMod))
  BY Zenon DEF Decode, At
<1>2. PICK pc \in {"commit", "deliver"} : Go(r, pc)
  BY Zenon DEF Decode
<1>3. /\ w'[r].pc = pc /\ w'[r].p = w[r].p
      /\ \A q \in Relays \ {r} : w'[q].pc = w[q].pc /\ w'[q].p = w[q].p
  BY <1>1, <1>2, Goes DEF IInv, Times
<1>4. ctx.init
  BY <1>1, Zenon DEF ClearInv, Unwritten
<1>5. Between(r)
  BY <1>1 DEF Between
<1>6. inOrder # NoPacket => w[r].p = inOrder /\ ctx.roc = Round(inOrder)
  BY <1>1, <1>5 DEF ClearInv, Following
<1>7. clear'
  BY <1>1, <1>6 DEF ClearInv, Round
<1>8. Following'
  BY <1>1, <1>2, <1>3, <1>5 DEF ClearInv, Following, Between, Round, Seq16
<1>9. Unwritten'
  BY <1>1, <1>4 DEF Unwritten
<1> QED BY <1>7, <1>8, <1>9 DEF ClearInv

\* Every other step is of a goroutine that is between no steps of Unprotect.
LEMMA ClearStep == IInv /\ ClearInv /\ [Next]_vars => ClearInv'
<1> SUFFICES ASSUME IInv, ClearInv, [Next]_vars PROVE ClearInv'
  OBVIOUS
<1>1. ASSUME NEW s \in Streams, Send(s) PROVE ClearInv'
  BY <1>1, ClearKept DEF Send
<1>2. Tick => ClearInv'
  BY ClearKept DEF Tick
<1>3. ASSUME NEW r \in Relays, NEW p \in Arriving, onRelayData(r, p) PROVE ClearInv'
  <2>1. /\ w[r].pc = "idle" /\ UNCHANGED <<ctx, inOrder, clear>>
        /\ w' = w \/ w' = [w EXCEPT ![r] = Take(p)]
    BY <1>3, Zenon DEF onRelayData, At
  <2>2. Take(p).pc = "unprotect"
    BY DEF Take
  <2>3. \A q \in Relays : w'[q] = w[q] \/ (q = r /\ w'[q] = Take(p))
    BY <2>1 DEF IInv, Times
  <2> QED BY <2>1, <2>2, <2>3, ClearKept DEF Between
<1>4. ASSUME NEW r \in Relays, Done(r), ~Between(r), UNCHANGED <<ctx, inOrder, clear>>
      PROVE  ClearInv'
  <2>1. \A q \in Relays : w'[q] = w[q] \/ (q = r /\ w'[q].pc = "idle")
    BY <1>4 DEF Done, Idle, IInv, Times
  <2> QED BY <1>4, <2>1, ClearKept
<1>5. ASSUME NEW r \in Relays, tooShort(r) \/ OnPeerAudio(r) PROVE ClearInv'
  BY <1>4, <1>5 DEF tooShort, OnPeerAudio, At, Between
<1>6. ASSUME NEW r \in Relays, commit(r) PROVE ClearInv'
  <2>1. w[r].pc = "commit" /\ Go(r, "deliver") /\ UNCHANGED <<ctx, inOrder, clear>>
    BY <1>6 DEF commit, At
  <2>2. \A q \in Relays : w'[q] = w[q] \/ (q = r /\ w'[q].pc = "deliver")
    BY <2>1, SMT DEF Go, IInv, Times, Held, Busy, Idle
  <2> QED BY <2>1, <2>2, ClearKept DEF Between
<1>7. UNCHANGED vars => ClearInv'
  BY ClearKept DEF vars
<1> QED BY <1>1, <1>2, <1>3, <1>5, <1>6, <1>7, ReadsClear, BumpsClear, WritesClear, DecodesClear,
           Zenon DEF Next

\* One stream that comes in order is decrypted at its own positions, however often
\* the numbers come round (updateRoc): for any modulus, and any losses short of half
\* of it.
THEOREM OrderIsClear == Spec => []InOrderIsClear
<1>1. Init => ClearInv
  <2> SUFFICES ASSUME Init PROVE ClearInv
    OBVIOUS
  <2>1. \A r \in Relays : w[r].pc = "idle"
    BY DEF Init, Idle
  <2> QED BY <2>1 DEF Init, ClearInv, Unwritten, Following
<1>2. ClearInv => InOrderIsClear
  BY DEF ClearInv, InOrderIsClear
<1> QED BY <1>1, <1>2, ClearStep, Inductive, PTL DEF Spec

-----------------------------------------------------------------------------
(* Each packet is heard once, for any relays, streams and window.          *)
(*                                                                         *)
(* A packet that is taken a second time would have to be out of the window *)
(* again.  But all that was remembered after it came from packets sent at  *)
(* most MaxLag before it, or after it and at most MaxLag before now: less  *)
(* of them, without the packet itself, than the window holds, and no two   *)
(* with the same number, since the window has no key twice.                *)

KeyOf(p) == <<p[1], Seq16(p)>>
Holds(r, p) == w[r].pc # "idle" /\ w[r].p = p
Taken(p) == heard[p] > 0 \/ \E r \in Relays : Holds(r, p)

RingTyped ==
  /\ ring \in Seq(Streams \X Int) /\ Len(ring) <= Window
  /\ \A i, j \in 1..Len(ring) : ring[i] = ring[j] => i = j

\* What is on the wire was sent before what is sent next.
Sequenced ==
  /\ \A n \in 1..Len(wire) : wire[n][2] < NextOf(wire[n][1])
  /\ \A p \in Packets : Taken(p) => \E n \in 1..Len(wire) : wire[n] = p

\* Nobody holds what was heard, and no two hold the same.
Once ==
  /\ heard \in [Packets -> {0, 1}]
  /\ \A r \in Relays : w[r].pc # "idle" => heard[w[r].p] = 0
  /\ \A r, q \in Relays : w[r].pc # "idle" /\ w[q].pc # "idle" /\ w[r].p = w[q].p => r = q

\* The number of packet n is in the window at i, and what came after it is the
\* number of another packet that was sent at most MaxLag before it.
At2(n, i) ==
  /\ ring[i] = KeyOf(wire[n])
  /\ \A j \in (i + 1)..Len(ring) :
       \E m \in 1..Len(wire) : m + MaxLag >= n /\ m # n /\ ring[j] = KeyOf(wire[m])

Remembered ==
  \A n \in 1..Len(wire) :
    n + MaxLag >= Len(wire) /\ Taken(wire[n]) => \E i \in 1..Len(ring) : At2(n, i)

HeardInv == RingTyped /\ Sequenced /\ Once /\ Remembered

\* What an insertion leaves: the oldest key goes when the window is full.
LEMMA Inserts ==
  ASSUME RingTyped, NEW k \in Streams \X Int, ~InRing(k), ring' = Insert(k),
         NEW off, off = IF Len(ring) = Window THEN 1 ELSE 0
  PROVE  /\ RingTyped'
         /\ Len(ring) \in Nat /\ Len(ring') = Len(ring) + 1 - off
         /\ \A j \in 1..(Len(ring) - off) : ring'[j] = ring[j + off]
         /\ ring'[Len(ring')] = k
<1> USE MediaSizes
<1>0. ring \in Seq(Streams \X Int) /\ Len(ring) \in 0..Window
  BY DEF RingTyped
<1>1. /\ ring' \in Seq(Streams \X Int)
      /\ Len(ring') = Len(ring) + 1 - off
      /\ \A j \in 1..(Len(ring) - off) : ring'[j] = ring[j + off]
      /\ ring'[Len(ring')] = k
  <2>1. CASE Len(ring) = Window
    <3>1. Tail(ring) \in Seq(Streams \X Int) /\ Len(Tail(ring)) = Len(ring) - 1
          /\ \A j \in 1..(Len(ring) - 1) : Tail(ring)[j] = ring[j + 1]
      BY <1>0, <2>1
    <3>2. ring' = Append(Tail(ring), k)
      BY <2>1 DEF Insert
    <3> QED BY <1>0, <2>1, <3>1, <3>2
  <2>2. CASE Len(ring) # Window
    <3>1. ring' = Append(ring, k) /\ off = 0
      BY <2>2 DEF Insert
    <3> QED BY <1>0, <3>1
  <2> QED BY <2>1, <2>2
<1>2. \A j \in 1..Len(ring) : ring[j] # k
  BY DEF InRing
<1>3. Len(ring') <= Window
  BY <1>0, <1>1, SMTT(20)
<1>4. \A i, j \in 1..Len(ring') : ring'[i] = ring'[j] => i = j
  <2>1. ASSUME NEW i \in 1..Len(ring'), i # Len(ring')
        PROVE  i \in 1..(Len(ring) - off) /\ i + off \in 1..Len(ring) /\ ring'[i] = ring[i + off]
    <3>1. off \in {0, 1} /\ Len(ring) \in Nat /\ Len(ring') = Len(ring) + 1 - off
      BY <1>0, <1>1
    <3>2. i \in Int /\ i >= 1 /\ i <= Len(ring) - off
      BY <2>1, <3>1
    <3>3. i \in 1..(Len(ring) - off) /\ i + off \in 1..Len(ring)
      BY <3>1, <3>2
    <3> QED BY <1>1, <3>3
  <2>2. off \in {0, 1} /\ Len(ring) \in Nat
    BY <1>0
  <2>3. \A i, j \in 1..Len(ring) : ring[i] = ring[j] => i = j
    BY DEF RingTyped
  <2> SUFFICES ASSUME NEW i \in 1..Len(ring'), NEW j \in 1..Len(ring'), ring'[i] = ring'[j]
               PROVE  i = j
    OBVIOUS
  <2>4. CASE i # Len(ring') /\ j # Len(ring')
    <3>1. i + off = j + off
      BY <2>1, <2>3, <2>4, SMTT(20)
    <3> QED BY <2>2, <3>1
  <2>5. CASE i = Len(ring') \/ j = Len(ring')
    <3>1. ASSUME NEW m \in 1..Len(ring'), m # Len(ring') PROVE ring'[m] # k
      <4>1. ring'[m] = ring[m + off] /\ m + off \in 1..Len(ring)
        BY <2>1, <3>1
      <4> QED BY <1>2, <4>1
    <3> QED BY <1>1, <2>5, <3>1
  <2> QED BY <2>4, <2>5
<1>5. RingTyped'
  BY <1>1, <1>3, <1>4, Zenon DEF RingTyped
<1>6. Len(ring) \in Nat
  BY <1>0
<1> QED BY <1>1, <1>5, <1>6, Zenon

\* A packet that can still come is not the oldest of a full window: what came after
\* it is less than the window holds (rxDedupRing, 512).
LEMMA NotTheOldest ==
  ASSUME RingTyped, Len(ring) = Window, Len(wire) \in Nat,
         NEW n \in 1..Len(wire), n + MaxLag >= Len(wire), At2(n, 1),
         NEW o \in 1..Len(wire), o + MaxLag >= Len(wire), o # n, ~InRing(KeyOf(wire[o]))
  PROVE  FALSE
<1> USE MediaSizes
<1> DEFINE D == 2..(Window + 1)
           M == ((n - MaxLag)..(n + MaxLag)) \ {n}
           key(j) == IF j = Window + 1 THEN KeyOf(wire[o]) ELSE ring[j]
           g == [j \in D |-> CHOOSE m \in M : key(j) = KeyOf(wire[m])]
<1>1. \A j \in D : \E m \in M : key(j) = KeyOf(wire[m])
  <2>1. SUFFICES ASSUME NEW j \in D PROVE \E m \in M : key(j) = KeyOf(wire[m])
    OBVIOUS
  <2>2. CASE j = Window + 1
    BY <2>2
  <2>3. CASE j # Window + 1
    <3>1. j \in 2..Len(ring)
      BY <2>3
    <3>2. PICK m \in 1..Len(wire) : m + MaxLag >= n /\ m # n /\ ring[j] = KeyOf(wire[m])
      BY <3>1 DEF At2
    <3>3. m \in M
      BY <3>2
    <3> QED BY <2>3, <3>2, <3>3
  <2> QED BY <2>2, <2>3
<1>2. \A i, j \in D : key(i) = key(j) => i = j
  <2>1. \A j \in D : j # Window + 1 => j \in 1..Len(ring)
    OBVIOUS
  <2> QED BY <2>1 DEF RingTyped, InRing
<1>3. g \in Injection(D, M)
  <2>1. \A j \in D : g[j] \in M /\ key(j) = KeyOf(wire[g[j]])
    BY <1>1
  <2>2. g \in [D -> M]
    BY <2>1
  <2>3. ASSUME NEW i \in D, NEW j \in D, g[i] = g[j]
        PROVE  i = j
    <3> HIDE DEF g
    <3>1. key(i) = key(j)
      BY <2>1, <2>3
    <3> HIDE DEF key, D
    <3> QED BY <1>2, <3>1
  <2> QED BY <2>2, <2>3 DEF Injection, IsInjective
<1>4. IsFiniteSet(M) /\ Cardinality(M) = 2 * MaxLag
  <2> DEFINE lo == n - MaxLag
             hi == n + MaxLag
  <2>1. lo \in Int /\ hi \in Int /\ n \in lo..hi /\ hi - lo + 1 = 2 * MaxLag + 1 /\ ~(lo > hi)
    OBVIOUS
  <2> HIDE DEF lo, hi
  <2>2. IsFiniteSet(lo..hi) /\ Cardinality(lo..hi) = 2 * MaxLag + 1
    BY <2>1, FS_Interval
  <2>3. IsFiniteSet((lo..hi) \ {n}) /\ Cardinality((lo..hi) \ {n}) = (2 * MaxLag + 1) - 1
    BY <2>1, <2>2, FS_RemoveElement, ZenonT(30)
  <2> QED BY <2>3 DEF lo, hi
<1>5. Cardinality(D) = Window
  <2>1. Cardinality(2..(Window + 1)) = IF 2 > Window + 1 THEN 0 ELSE (Window + 1) - 2 + 1
    <3>1. 2 \in Int /\ Window + 1 \in Int
      OBVIOUS
    <3> QED BY <3>1, FS_Interval
  <2> QED BY <2>1
<1>6. Cardinality(D) <= Cardinality(M)
  BY <1>3, <1>4, FS_Injection
<1> QED BY <1>4, <1>5, <1>6, WindowIsWide

\* A goroutine goes on, lets its packet go, or hands it to the call.
LEMMA HeardKept ==
  ASSUME IInv, HeardInv, UNCHANGED <<wire, ring>>, heard' \in [Packets -> {0, 1}],
         \A q \in Relays : w'[q].pc # "idle" => w[q].pc # "idle" /\ w'[q].p = w[q].p,
         \A p \in Packets : heard'[p] = heard[p] \/ \E q \in Relays : Holds(q, p) /\ w'[q].pc = "idle"
  PROVE  HeardInv'
<1>1. \A q \in Relays : w[q].pc # "idle" => w[q].p \in Packets
  BY SMT DEF IInv, Times, Held, Busy, Idle
<1>2. ASSUME NEW p \in Packets, heard'[p] > 0 \/ \E q \in Relays : w'[q].pc # "idle" /\ w'[q].p = p
      PROVE  Taken(p)
  BY <1>2, Zenon DEF Taken, Holds
<1>3. Once'
  <2>1. ASSUME NEW q \in Relays, w'[q].pc # "idle" PROVE heard'[w'[q].p] = 0
    <3>1. w[q].pc # "idle" /\ w'[q].p = w[q].p /\ w[q].p \in Packets /\ heard[w[q].p] = 0
      BY <1>1, <2>1 DEF HeardInv, Once
    <3>2. ASSUME NEW r \in Relays, Holds(r, w[q].p), w'[r].pc = "idle" PROVE FALSE
      BY <2>1, <3>1, <3>2 DEF Holds, HeardInv, Once
    <3> QED BY <3>1, <3>2
  <2>2. ASSUME NEW r \in Relays, NEW q \in Relays,
               w'[r].pc # "idle", w'[q].pc # "idle", w'[r].p = w'[q].p
        PROVE  r = q
    BY <2>2 DEF HeardInv, Once
  <2> QED BY <2>1, <2>2 DEF Once
<1>4. RingTyped'
  BY DEF HeardInv, RingTyped
<1>5. Sequenced'
  <2>1. \A n \in 1..Len(wire) : wire[n][2] < NextOf(wire[n][1])
    BY DEF HeardInv, Sequenced
  <2>2. (\A n \in 1..Len(wire) : wire[n][2] < NextOf(wire[n][1]))'
    BY <2>1 DEF NextOf
  <2>3. \A p \in Packets : Taken(p) => \E n \in 1..Len(wire) : wire[n] = p
    BY DEF HeardInv, Sequenced
  <2>4. (\A p \in Packets : Taken(p) => \E n \in 1..Len(wire) : wire[n] = p)'
    BY <1>2, <2>3 DEF Taken, Holds
  <2> QED BY <2>2, <2>4 DEF Sequenced
<1>6. Remembered'
  <2>1. \A n \in 1..Len(wire) : wire[n] \in Packets
    BY DEF IInv, Times
  <2>2. ASSUME NEW n \in 1..Len(wire), n + MaxLag >= Len(wire),
               heard'[wire[n]] > 0 \/ \E q \in Relays : w'[q].pc # "idle" /\ w'[q].p = wire[n]
        PROVE  \E i \in 1..Len(ring) : At2(n, i)
    BY <1>2, <2>1, <2>2 DEF HeardInv, Remembered
  <2>3. ASSUME NEW n \in 1..Len(wire), n + MaxLag >= Len(wire), NEW p, p = wire[n], Taken(p)'
        PROVE  \E i \in 1..Len(ring) : At2(n, i)'
    <3>1. PICK i \in 1..Len(ring) : At2(n, i)
      BY <2>2, <2>3 DEF Taken, Holds
    <3>2. At2(n, i)'
      BY <3>1, Zenon DEF At2, KeyOf, Seq16
    <3> QED BY <3>2
  <2> QED BY <2>3 DEF Remembered
<1> QED BY <1>3, <1>4, <1>5, <1>6 DEF HeardInv

\* The next packet of a stream is none that was taken, and the others are as late as
\* they were, or later.
LEMMA HeardSends ==
  ASSUME IInv, HeardInv, NEW s \in Streams, Send(s)
  PROVE  HeardInv'
<1> DEFINE L == Len(wire)
           next == <<s, NextOf(s)>>
           N(t) == {n \in 1..L : wire[n][1] = t}
<1>1. /\ wire \in Seq(Packets) /\ wire' \in Seq(Packets) /\ L \in Nat
      /\ wire' = Append(wire, next) /\ UNCHANGED <<ring, w, heard>>
  <2>1. IInv'
    BY Sends
  <2> QED BY <2>1 DEF Send, rx, IInv, Times
<1>2. /\ Len(wire') = L + 1 /\ wire'[L + 1] = next /\ next \in Packets
      /\ \A n \in 1..L : wire'[n] = wire[n] /\ wire[n] \in Packets
  BY <1>1
<1>3. \A t \in Streams : IsFiniteSet(N(t)) /\ Cardinality(N(t)) \in Nat
  <2>1. IsFiniteSet(1..L)
    BY <1>1, FS_Interval
  <2> SUFFICES ASSUME NEW t \in Streams PROVE IsFiniteSet(N(t)) /\ Cardinality(N(t)) \in Nat
    OBVIOUS
  <2>2. N(t) \subseteq 1..L
    OBVIOUS
  <2> QED BY <2>1, <2>2, FS_Subset, FS_CardinalityType
<1>4. ASSUME NEW t \in Streams
      PROVE  NextOf(t) \in Int /\ NextOf(t)' = IF t = s THEN NextOf(t) + 1 ELSE NextOf(t)
  <2> DEFINE M == {n \in 1..Len(wire') : wire'[n][1] = t}
  <2>1. M = IF t = s THEN N(t) \union {L + 1} ELSE N(t)
    BY <1>1, <1>2
  <2>2. L + 1 \notin N(t)
    BY <1>1
  <2>3. Cardinality(M) = IF t = s THEN Cardinality(N(t)) + 1 ELSE Cardinality(N(t))
    BY <1>3, <2>1, <2>2, FS_AddElement
  <2>4. NextOf(t) = First[t] + Cardinality(N(t)) /\ NextOf(t)' = First[t] + Cardinality(M)
    BY DEF NextOf
  <2> HIDE DEF M, N
  <2> QED BY <1>3, <2>3, <2>4, MediaSizes
<1>5. ~Taken(next)
  <2>1. ASSUME NEW n \in 1..L, wire[n] = next PROVE FALSE
    <3>1. wire[n][2] < NextOf(wire[n][1])
      BY DEF HeardInv, Sequenced
    <3> QED BY <1>4, <2>1, <3>1
  <2> QED BY <1>2, <2>1 DEF HeardInv, Sequenced
<1>6. RingTyped'
  BY <1>1 DEF HeardInv, RingTyped
<1>7. Once'
  BY <1>1, Zenon DEF HeardInv, Once
<1>8. Sequenced'
  <2>1. ASSUME NEW n \in 1..Len(wire'), NEW t, t = wire'[n][1]
        PROVE  wire'[n][2] < NextOf(t)'
    <3>1. CASE n = L + 1
      <4>1. t = s /\ wire'[n][2] = NextOf(s)
        BY <1>2, <2>1, <3>1
      <4> QED BY <1>4, <4>1
    <3>2. CASE n # L + 1
      <4>1. n \in 1..L
        BY <1>1, <1>2, <3>2
      <4>2. /\ wire[n][2] < NextOf(t) /\ wire'[n] = wire[n]
            /\ t \in Streams /\ wire[n][2] \in Int
        BY <1>2, <2>1, <4>1, PacketShape DEF HeardInv, Sequenced
      <4>3. NextOf(t) \in Int /\ (NextOf(t)' = NextOf(t) \/ NextOf(t)' = NextOf(t) + 1)
        BY <1>4, <4>2
      <4> QED BY <4>2, <4>3
    <3> QED BY <3>1, <3>2
  <2>2. ASSUME NEW p \in Packets, Taken(p)'
        PROVE  \E n \in 1..Len(wire') : wire'[n] = p
    <3>1. Taken(p)
      BY <1>1, <2>2 DEF Taken, Holds
    <3>2. PICK n \in 1..L : wire[n] = p
      BY <3>1 DEF HeardInv, Sequenced
    <3> QED BY <1>1, <1>2, <3>2
  <2>3. (\A n \in 1..Len(wire) : wire[n][2] < NextOf(wire[n][1]))'
    BY <2>1, Zenon DEF NextOf
  <2>4. (\A p \in Packets : Taken(p) => \E n \in 1..Len(wire) : wire[n] = p)'
    BY <2>2, Zenon
  <2> QED BY <2>3, <2>4, Zenon DEF Sequenced
<1>9. Remembered'
  <2>1. ASSUME NEW n \in 1..Len(wire'), n + MaxLag >= Len(wire'), NEW p, p = wire'[n], Taken(p)'
        PROVE  \E i \in 1..Len(ring) : At2(n, i)'
    <3>1. Taken(p)
      BY <1>1, <2>1, Zenon DEF Taken, Holds
    <3>2. n \in 1..L /\ wire'[n] = wire[n] /\ n + MaxLag >= L /\ p = wire[n]
      BY <1>1, <1>2, <1>5, <2>1, <3>1, MediaSizes
    <3>3. PICK i \in 1..Len(ring) : At2(n, i)
      BY <3>1, <3>2 DEF HeardInv, Remembered
    <3>4. ASSUME NEW j \in (i + 1)..Len(ring)
          PROVE  \E m \in 1..Len(wire') : m + MaxLag >= n /\ m # n /\ ring[j] = KeyOf(wire'[m])
      <4>1. PICK m \in 1..L : m + MaxLag >= n /\ m # n /\ ring[j] = KeyOf(wire[m])
        BY <3>3 DEF At2
      <4> QED BY <1>1, <1>2, <4>1
    <3> QED BY <1>1, <3>2, <3>3, <3>4 DEF At2, KeyOf, Seq16
  <2> QED BY <1>1, <2>1 DEF Remembered
<1> QED BY <1>6, <1>7, <1>8, <1>9 DEF HeardInv

\* A packet comes that is not in the window: it is in none of the goroutines and was
\* not heard, and what it pushes out of the window comes no more.
LEMMA HeardTakes ==
  ASSUME IInv, HeardInv, NEW r \in Relays, w[r].pc = "idle",
         NEW o \in 1..Len(wire), o + MaxLag >= Len(wire), ~InRing(KeyOf(wire[o])),
         ring' = Insert(KeyOf(wire[o])), w' = [w EXCEPT ![r] = Take(wire[o])],
         UNCHANGED <<wire, heard>>
  PROVE  HeardInv'
<1> DEFINE p == wire[o]
           k == KeyOf(wire[o])
           off == IF Len(ring) = Window THEN 1 ELSE 0
<1>1. /\ wire \in Seq(Packets) /\ Len(wire) \in Nat /\ p \in Packets
      /\ \A n \in 1..Len(wire) : wire[n] \in Packets
  BY DEF IInv, Times
<1>2. k \in Streams \X Int
  <2>1. p[1] \in Streams /\ p[2] \in Int
    BY <1>1, PacketShape
  <2>2. p[2] % SeqMod \in Int
    BY <2>1, MediaSizes
  <2> QED BY <2>1, <2>2 DEF KeyOf, Seq16
<1>3. /\ RingTyped'
      /\ Len(ring) \in Nat /\ Len(ring') = Len(ring) + 1 - off
      /\ \A j \in 1..(Len(ring) - off) : ring'[j] = ring[j + off]
      /\ ring'[Len(ring')] = k
  BY <1>2, Inserts DEF HeardInv
<1>4. /\ w'[r].pc = "unprotect" /\ w'[r].p = p
      /\ \A q \in Relays \ {r} : w'[q] = w[q]
  BY DEF IInv, Times, Take
<1>5. ~Taken(p)
  <2>1. ASSUME NEW i \in 1..Len(ring), At2(o, i) PROVE FALSE
    BY <2>1 DEF At2, InRing
  <2> QED BY <2>1 DEF HeardInv, Remembered
<1>6. heard[p] = 0 /\ \A q \in Relays : ~Holds(q, p)
  BY <1>1, <1>5 DEF Taken, HeardInv, Once
<1>7. ASSUME NEW x, x # p, Taken(x)' PROVE Taken(x)
  BY <1>4, <1>7 DEF Taken, Holds
<1>8. Once'
  <2>1. \A q \in Relays : w'[q].pc # "idle" => heard[w'[q].p] = 0
    BY <1>4, <1>6 DEF HeardInv, Once
  <2>2. ASSUME NEW q \in Relays, NEW x \in Relays,
               w'[q].pc # "idle", w'[x].pc # "idle", w'[q].p = w'[x].p
        PROVE  q = x
    BY <1>4, <1>6, <2>2 DEF HeardInv, Once, Holds
  <2> QED BY <2>1, <2>2 DEF HeardInv, Once
<1>9. Sequenced'
  <2>1. (\A n \in 1..Len(wire) : wire[n][2] < NextOf(wire[n][1]))'
    BY Zenon DEF HeardInv, Sequenced, NextOf
  <2>2. ASSUME NEW x \in Packets, Taken(x)' PROVE \E n \in 1..Len(wire) : wire[n] = x
    BY <1>7, <2>2 DEF HeardInv, Sequenced
  <2>3. (\A x \in Packets : Taken(x) => \E n \in 1..Len(wire) : wire[n] = x)'
    BY <2>2
  <2> QED BY <2>1, <2>3, Zenon DEF Sequenced
<1>10. Remembered'
  <2>1. ASSUME NEW n \in 1..Len(wire), n + MaxLag >= Len(wire), NEW x, x = wire[n], Taken(x)'
        PROVE  \E i \in 1..Len(ring') : At2(n, i)'
    <3>1. CASE x = p
      <4>1. Len(ring') \in 1..Len(ring') /\ (Len(ring') + 1)..Len(ring') = {}
        <5>1. Len(ring') \in Nat /\ Len(ring') >= 1
          BY <1>3, MediaSizes
        <5> QED BY <5>1
      <4>2. ring'[Len(ring')] = KeyOf(wire[n])
        BY <1>3, <2>1, <3>1
      <4>3. PICK i \in 1..Len(ring') : i = Len(ring')
        BY <4>1
      <4> QED BY <4>1, <4>2, <4>3 DEF At2, KeyOf, Seq16
    <3>2. CASE x # p
      <4>1. PICK i \in 1..Len(ring) : At2(n, i)
        BY <1>7, <2>1, <3>2 DEF HeardInv, Remembered
      <4>2. ~(i = 1 /\ off = 1)
        BY <1>1, <2>1, <3>2, <4>1, NotTheOldest DEF HeardInv
      <4>3. PICK j \in 1..Len(ring') : j = i - off
        BY <1>3, <4>2
      <4>4. ring'[j] = KeyOf(wire[n])
        BY <1>3, <4>1, <4>3 DEF At2
      <4>5. ASSUME NEW g \in (j + 1)..Len(ring')
            PROVE  \E m \in 1..Len(wire) : m + MaxLag >= n /\ m # n /\ ring'[g] = KeyOf(wire[m])
        <5>1. CASE g = Len(ring')
          BY <1>1, <1>3, <2>1, <3>2, <5>1, MediaSizes, SMTT(20)
        <5>2. CASE g # Len(ring')
          <6>1. g \in 1..(Len(ring) - off) /\ g + off \in (i + 1)..Len(ring)
            BY <1>3, <4>3, <5>2
          <6> QED BY <1>3, <4>1, <6>1 DEF At2
        <5> QED BY <5>1, <5>2
      <4>6. At2(n, j)'
        BY <4>4, <4>5 DEF At2, KeyOf, Seq16
      <4> QED BY <4>6
    <3> QED BY <3>1, <3>2
  <2> QED BY <2>1 DEF Remembered
<1> QED BY <1>3, <1>8, <1>9, <1>10 DEF HeardInv

\* Every step keeps the window's promise.
LEMMA HeardStep == IInv /\ HeardInv /\ [Next]_vars => HeardInv'
<1> SUFFICES ASSUME IInv, HeardInv, [Next]_vars PROVE HeardInv'
  OBVIOUS
<1>0. heard \in [Packets -> {0, 1}]
  BY DEF HeardInv, Once
<1>1. ASSUME UNCHANGED <<wire, ring, w, heard>> PROVE HeardInv'
  BY <1>0, <1>1, HeardKept, Zenon
<1>2. ASSUME NEW s \in Streams, Send(s) PROVE HeardInv'
  BY <1>2, HeardSends
<1>3. ASSUME NEW r \in Relays, NEW p \in Arriving, onRelayData(r, p) PROVE HeardInv'
  <2>1. PICK o \in 1..Len(wire) : p = wire[o] /\ o + MaxLag >= Len(wire)
    BY DEF Arriving
  <2>2. CASE InRing(KeyOf(p))
    BY <1>1, <1>3, <2>2, Zenon DEF onRelayData, KeyOf
  <2>3. CASE ~InRing(KeyOf(p))
    BY <1>3, <2>1, <2>3, HeardTakes, Zenon DEF onRelayData, remember, At, KeyOf
  <2> QED BY <2>2, <2>3
<1>4. ASSUME NEW r \in Relays, w[r].pc # "idle", NEW pc \in {"bump", "last", "index", "commit", "deliver"},
             Go(r, pc), UNCHANGED <<wire, ring, heard>>
      PROVE  HeardInv'
  <2>1. \A q \in Relays : w'[q].p = w[q].p /\ (w'[q].pc # "idle" => w[q].pc # "idle")
    BY <1>4, Goes DEF IInv, Times
  <2> QED BY <1>0, <1>4, <2>1, HeardKept, Zenon
<1>5. ASSUME NEW r \in Relays, readRoc(r) PROVE HeardInv'
  <2>1. w[r].pc # "idle" /\ UNCHANGED <<wire, ring, heard>>
    BY <1>5 DEF readRoc, At, rx
  <2>2. \A q \in Relays : w'[q].p = w[q].p /\ (w'[q].pc # "idle" => w[q].pc # "idle")
    BY <1>5, <2>1, SMT DEF readRoc, IInv, Times, Held, Busy, Idle
  <2> QED BY <1>0, <2>1, <2>2, HeardKept, Zenon
<1>6. ASSUME NEW r \in Relays, bumpRoc(r) \/ writeLast(r) \/ Decode(r) \/ commit(r) PROVE HeardInv'
  <2>1. w[r].pc # "idle" /\ UNCHANGED <<wire, ring, heard>>
    BY <1>6 DEF bumpRoc, writeLast, Decode, commit, At, rx
  <2>2. PICK pc \in {"bump", "last", "index", "commit", "deliver"} : Go(r, pc)
    BY <1>6, Zenon DEF bumpRoc, writeLast, Decode, commit
  <2> QED BY <1>4, <2>1, <2>2
<1>7. ASSUME NEW r \in Relays, tooShort(r) PROVE HeardInv'
  <2>1. Done(r) /\ UNCHANGED <<wire, ring, heard>>
    BY <1>7 DEF tooShort, rx
  <2>2. \A q \in Relays : w'[q].pc # "idle" => w[q].pc # "idle" /\ w'[q].p = w[q].p
    BY <2>1, SMT DEF Done, Idle, IInv, Times
  <2> QED BY <1>0, <2>1, <2>2, HeardKept, Zenon
<1>8. ASSUME NEW r \in Relays, OnPeerAudio(r) PROVE HeardInv'
  <2>1. /\ w[r].pc # "idle" /\ Done(r) /\ UNCHANGED <<wire, ring>>
        /\ heard' = [heard EXCEPT ![w[r].p] = @ + 1]
    BY <1>8 DEF OnPeerAudio, At, rx
  <2>2. w'[r].pc = "idle" /\ \A q \in Relays \ {r} : w'[q] = w[q]
    BY <2>1, SMT DEF Done, Idle, IInv, Times
  <2>3. w[r].p \in Packets /\ heard[w[r].p] = 0
    BY <2>1, SMT DEF IInv, Times, Held, Busy, Idle, HeardInv, Once
  <2>4. /\ heard' \in [Packets -> {0, 1}]
        /\ \A p \in Packets : heard'[p] = heard[p] \/ p = w[r].p
    BY <1>0, <2>1, <2>3
  <2>5. \A p \in Packets : heard'[p] = heard[p] \/ \E q \in Relays : Holds(q, p) /\ w'[q].pc = "idle"
    BY <2>1, <2>2, <2>4, Zenon DEF Holds
  <2>6. \A q \in Relays : w'[q].pc # "idle" => w[q].pc # "idle" /\ w'[q].p = w[q].p
    BY <2>2
  <2> QED BY <2>1, <2>4, <2>5, <2>6, HeardKept, Zenon
<1>9. Tick \/ UNCHANGED vars => HeardInv'
  BY <1>1, Zenon DEF Tick, vars, rx
<1> QED BY <1>2, <1>3, <1>5, <1>6, <1>7, <1>8, <1>9, Zenon DEF Next

\* The copies of one packet reach the call once, on however many goroutines and in
\* whatever order they come (onRelayData, callmanager_media.go:163-182): for any window
\* wider than twice the latest copy is late.
THEOREM HeardIsOnce == Spec => []HeardOnce
<1>1. Init => HeardInv
  <2> SUFFICES ASSUME Init PROVE HeardInv
    OBVIOUS
  <2>1. Len(ring) = 0 /\ ring \in Seq(Streams \X Int) /\ Len(wire) = 0
    BY DEF Init
  <2>2. \A r \in Relays : w[r].pc = "idle"
    BY DEF Init, Idle
  <2>3. heard = [p \in Packets |-> 0]
    BY DEF Init
  <2> QED BY <2>1, <2>2, <2>3, MediaSizes
          DEF HeardInv, RingTyped, Sequenced, Once, Remembered, Taken, Holds
<1>2. HeardInv => HeardOnce
  BY DEF HeardInv, Once, HeardOnce
<1> QED BY <1>1, <1>2, HeardStep, Inductive, PTL DEF Spec
=============================================================================
