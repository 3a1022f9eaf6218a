----------------------------- MODULE KeyCustody -----------------------------
(***************************************************************************)
(* What a migration promises about the WhatsApp keys, independently of how *)
(* the two servers talk: the "golden rule" of cmd/server/migration.go, the *)
(* same keys never run in two places and are never erased everywhere.      *)
(*                                                                         *)
(* "A" is the origin and "B" the destination.  has is the set of servers   *)
(* whose database holds the keys, run the set of servers whose clients may *)
(* be connected with them.  forced becomes TRUE when the administrator     *)
(* unlocks the origin by hand although the destination may hold the keys;  *)
(* from then on the exclusion is in the administrator's hands.             *)
(***************************************************************************)

VARIABLES has, run, forced

vars == <<has, run, forced>>

Server == {"A", "B"}

Init ==
  /\ has = {"A"}
  /\ run = {"A"}
  /\ forced = FALSE

\* Clients of one or both servers stop: a lock, a rollback or a crash.
Stop ==
  /\ run' \in SUBSET run
  /\ UNCHANGED <<has, forced>>

\* The destination may start while the origin keeps a frozen copy, the
\* origin only while no copy exists elsewhere.
Start(n) ==
  /\ n \in has
  /\ forced \/ (run \subseteq {n} /\ (n = "A" => has = {"A"}))
  /\ run' = run \union {n}
  /\ UNCHANGED <<has, forced>>

\* The snapshot of the frozen origin enters the destination's database.
Copy ==
  /\ forced \/ run = {}
  /\ has' = has \union {"B"}
  /\ UNCHANGED <<run, forced>>

\* The destination erases its copy: the origin must still have one.
DropCopy ==
  /\ "A" \in has
  /\ "B" \notin run
  /\ has' = has \ {"B"}
  /\ UNCHANGED <<run, forced>>

\* The origin erases its keys: the destination must have them.
Wipe ==
  /\ "B" \in has
  /\ has' = has \ {"A"}
  /\ run' = run \ {"A"}
  /\ UNCHANGED forced

\* The administrator releases the origin in spite of the copy.
Force ==
  /\ forced' = TRUE
  /\ run' \in {run, run \union ({"A"} \intersect has)}
  /\ UNCHANGED has

Next ==
  \/ Stop
  \/ \E n \in Server : Start(n)
  \/ Copy
  \/ DropCopy
  \/ Wipe
  \/ Force

Spec == Init /\ [][Next]_vars

=============================================================================
