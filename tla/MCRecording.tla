----------------------------- MODULE MCRecording -----------------------------
(***************************************************************************)
(* Recording started on a backlog: every call is over and left a finished  *)
(* recording on disk that was not handed off, as a process finds them when *)
(* it is started again.  There are more of them than the queue holds.      *)
(***************************************************************************)
EXTENDS Recording

\* The first state after a restart: resumeOnBoot has not run yet.
BacklogInit ==
  /\ call = [c \in Calls |-> "over"] /\ armed = [c \in Calls |-> TRUE]
  /\ live = [c \in Calls |-> "no"] /\ ans = [c \in Calls |-> "idle"]
  /\ fin = [c \in Calls |-> "idle"] /\ open = [c \in Calls |-> FALSE]
  /\ len = [c \in Calls |-> "long"] /\ wav = [c \in Calls |-> TRUE]
  /\ status \in [Calls -> {"recording", "uploading"}]
  /\ notified = [c \in Calls |-> FALSE]
  /\ ups = [c \in Calls |-> 0] /\ nots = [c \in Calls |-> 0]
  /\ b2 = [c \in Calls |-> "none"] /\ hooks = [c \in Calls |-> FALSE]
  /\ inflight = {} /\ jobs = << >>
  /\ wp = [w \in Workers |-> "idle"] /\ wc = [w \in Workers |-> NoCall]
  /\ wrow = [w \in Workers |-> NoRow]
  /\ config = TRUE
  /\ paused = FALSE /\ pauser = "idle" /\ pauses = 0
  /\ resumer = Starting /\ todo = NoRows /\ stale = NoStale
  /\ crashes = 0 /\ faults = 0 /\ salvaged = {} /\ twice = {}

BacklogSpec == BacklogInit /\ [][Next]_vars /\ Fairness
=============================================================================
