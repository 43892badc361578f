--------------------------- MODULE ClientLifespan ---------------------------
(***************************************************************************)
(* What the TCP server promises to the listeners of its clients, as the    *)
(* comments of ClientEventsListener tell it (src/src/net/tcp.h): a client  *)
(* is connected once, then its data is processed any number of times, by   *)
(* one thread at a time and each time by any thread, then it is shut down  *)
(* once, and its socket is destroyed after that.                           *)
(***************************************************************************)
CONSTANTS Clients, Workers, None

VARIABLES
  stage,    \* stage[c]: how far client c is in its life
  worker    \* worker[c]: the thread that owns the socket of c

vars == <<stage, worker>>

Init ==
  /\ stage = [c \in Clients |-> "absent"]
  /\ worker = [c \in Clients |-> None]

Idle(w) == \A c \in Clients : worker[c] # w

(* Client c goes from one stage to the next in the hands of w.             *)
Moves(c, from, to, w) ==
  /\ stage[c] = from
  /\ stage' = [stage EXCEPT ![c] = to]
  /\ worker' = [worker EXCEPT ![c] = w]

Arrives(c) == Moves(c, "absent", "waiting", None)
Accepted(c, w) == Idle(w) /\ Moves(c, "waiting", "accepted", w)
ConnectedEvent(c) == Moves(c, "accepted", "connected", worker[c])
Parked(c) == Moves(c, "connected", "idle", None)
Taken(c, w) == Idle(w) /\ Moves(c, "idle", "taken", w)
DataEvent(c) == Moves(c, "taken", "processed", worker[c])
Returned(c) == Moves(c, "processed", "idle", None)
ShutdownEvent(c) == Moves(c, "processed", "shut down", worker[c])
Destroyed(c) == Moves(c, "shut down", "absent", None)

(* An exception destroys the socket of the client its thread owns.         *)
Aborted(c) == \E from \in {"accepted", "taken", "processed"} : Moves(c, from, "absent", None)

Next ==
  \E c \in Clients :
    \/ Arrives(c) \/ ConnectedEvent(c) \/ Parked(c) \/ DataEvent(c) \/ Returned(c)
    \/ ShutdownEvent(c) \/ Destroyed(c) \/ Aborted(c)
    \/ \E w \in Workers : Accepted(c, w) \/ Taken(c, w)

Spec == Init /\ [][Next]_vars
=============================================================================
