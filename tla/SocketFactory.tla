----------------------------- MODULE SocketFactory -----------------------------
(***************************************************************************)
(* SocketFactory::boundSocket and connectedSocket                          *)
(* (src/src/net/sockets.h): the loop over the addresses of a name, every   *)
(* step of which may fail, and what becomes of the sockets and of the list *)
(* of addresses.  A caller calls again and again, keeps the sockets it is  *)
(* given and destroys them when it likes.                                  *)
(***************************************************************************)
EXTENDS Naturals

CONSTANTS
  N,         \* the number of addresses of the name
  Handles,   \* the descriptors
  NoHandle   \* a unique_ptr that holds no socket

ASSUME NAssumption == N \in Nat \ {0}
ASSUME HandlesAssumption == NoHandle \notin Handles

VARIABLES
  pc,        \* the place in the call, or how it has ended
  wanted,    \* what the caller asks of the socket
  info,      \* the list of addresses
  addr,      \* the address being tried, N + 1 after the last
  sock,      \* the local unique_ptr, and what the caller is given
  made,      \* what that socket has become
  error,     \* the address whose SystemException is kept, or 0
  open,      \* the descriptors that are open
  kept,      \* those of the sockets that were given out and not yet destroyed
  fate       \* history: what became of each address in this call

vars == <<pc, wanted, info, addr, sock, made, error, open, kept, fate>>

(* A socket is bound, perhaps with SO_REUSEADDR, or connected; either may  *)
(* be made non-blocking.                                                   *)
Wishes ==
  {w \in SUBSET {"reuse", "bound", "connected", "nonblocking"} :
     /\ "bound" \in w <=> "connected" \notin w
     /\ "reuse" \in w => "bound" \in w}

(* The exceptions of getaddrinfo, of the constructor of Socket and of the  *)
(* end of the function.                                                    *)
Exceptions == {"AddressInfoException", "invalid_argument", "RuntimeException"}
Places == {"socket", "reuse", "attach", "nonblocking", "free"}
Over == {"idle", "returned"} \cup Exceptions

Fates == {"untried", "failed", "invalid", "made"}

Init ==
  /\ pc = "idle" /\ wanted \in Wishes
  /\ info = "none" /\ addr = 1 /\ error = 0
  /\ sock = NoHandle /\ made = {}
  /\ open = {} /\ kept = {}
  /\ fate = [a \in 1..N |-> "untried"]

-----------------------------------------------------------------------------
(* The caller keeps the socket it is given.                                *)
Keep ==
  /\ pc = "returned"
  /\ kept' = kept \cup {sock} /\ sock' = NoHandle /\ made' = {}
  /\ pc' = "idle"
  /\ UNCHANGED <<wanted, info, addr, error, open, fate>>

(* A call begins; getaddrinfo may fail.                                    *)
Call(w) ==
  /\ pc \in Over \ {"returned"}
  /\ wanted' = w /\ addr' = 1 /\ error' = 0 /\ made' = {}
  /\ fate' = [a \in 1..N |-> "untried"]
  /\ \/ info' = "allocated" /\ pc' = "socket"
     \/ info' = "none" /\ pc' = "AddressInfoException"
  /\ UNCHANGED <<sock, open, kept>>

(* The destructor of a socket that was given out.                          *)
Destroy(h) ==
  /\ h \in kept
  /\ kept' = kept \ {h} /\ open' = open \ {h}
  /\ UNCHANGED <<pc, wanted, info, addr, sock, made, error, fate>>

-----------------------------------------------------------------------------
(* ::socket gives a handle, and the assignment destroys what sock held.    *)
MakeSocket(h) ==
  /\ pc = "socket" /\ h \notin open
  /\ sock' = h /\ made' = {} /\ open' = (open \ {sock}) \cup {h}
  /\ pc' = IF "reuse" \in wanted THEN "reuse" ELSE "attach"
  /\ UNCHANGED <<wanted, info, addr, error, kept, fate>>

(* ::socket fails.  invalid_argument is no SystemException: it leaves the  *)
(* loop and the function, and sock is destroyed.                           *)
MakeSocketFails ==
  /\ pc = "socket"
  /\ pc' = "invalid_argument"
  /\ fate' = [fate EXCEPT ![addr] = "invalid"]
  /\ sock' = NoHandle /\ made' = {} /\ open' = open \ {sock}
  /\ UNCHANGED <<wanted, info, addr, error, kept>>

(* Another address is tried, as long as there is one.                      *)
Continue ==
  /\ addr' = addr + 1
  /\ pc' = IF addr = N THEN "free" ELSE "socket"

(* The handler forgets to reset the pointer.                               *)
CatchKeepingSocket ==
  /\ error' = addr
  /\ fate' = [fate EXCEPT ![addr] = "failed"]
  /\ Continue
  /\ UNCHANGED <<wanted, info, kept, sock, made, open>>

(* The handler releases the socket instead of destroying it.               *)
CatchReleasing ==
  /\ error' = addr
  /\ fate' = [fate EXCEPT ![addr] = "failed"]
  /\ sock' = NoHandle /\ made' = {}
  /\ Continue
  /\ UNCHANGED <<wanted, info, kept, open>>

(* The handler of SystemException.                                         *)
Catch ==
  /\ error' = addr
  /\ fate' = [fate EXCEPT ![addr] = "failed"]
  /\ sock' = NoHandle /\ made' = {} /\ open' = open \ {sock}
  /\ Continue
  /\ UNCHANGED <<wanted, info, kept>>

(* The socket becomes f, and the call goes on at next.                     *)
Succeed(f, next) ==
  /\ made' = made \cup {f} /\ pc' = next
  /\ fate' = IF next = "free" THEN [fate EXCEPT ![addr] = "made"] ELSE fate
  /\ UNCHANGED <<wanted, info, addr, sock, error, open, kept>>

(* setsockopt(SO_REUSEADDR), before the socket is bound.                   *)
SetReuse ==
  /\ pc = "reuse"
  /\ Succeed("reuse", "attach") \/ Catch

Attach ==
  /\ pc = "attach"
  /\ \/ \E f \in wanted \cap {"bound", "connected"} :
          Succeed(f, IF "nonblocking" \in wanted THEN "nonblocking" ELSE "free")
     \/ Catch

SetNonBlocking ==
  /\ pc = "nonblocking"
  /\ Succeed("nonblocking", "free") \/ Catch

(* freeaddrinfo and the end of the function.                               *)
Free ==
  /\ pc = "free"
  /\ info' = "freed"
  /\ pc' = IF sock = NoHandle THEN "RuntimeException" ELSE "returned"
  /\ UNCHANGED <<wanted, addr, sock, made, error, open, kept, fate>>

Calls ==
  \/ \E w \in Wishes : Call(w)
  \/ \E h \in Handles : MakeSocket(h)
  \/ MakeSocketFails \/ SetReuse \/ Attach \/ SetNonBlocking \/ Free \/ Keep

Next == Calls \/ \E h \in Handles : Destroy(h)

Spec == Init /\ [][Next]_vars

-----------------------------------------------------------------------------
(* The types; the address is in the list while it is tried.                *)
TypeOK ==
  /\ pc \in Places \cup Over /\ wanted \in Wishes
  /\ info \in {"none", "allocated", "freed"}
  /\ addr \in 1..(N + 1) /\ error \in 0..N
  /\ pc \in Places \ {"free"} => addr \in 1..N
  /\ sock \in Handles \cup {NoHandle}
  /\ made \subseteq {"reuse", "bound", "connected", "nonblocking"}
  /\ open \subseteq Handles /\ kept \subseteq Handles
  /\ fate \in [1..N -> Fates]

(* Every open descriptor is of a socket that somebody will destroy, and of *)
(* no other: whatever fails, a call that ends with an exception leaves no  *)
(* socket behind (sockets.h:546-553), and one that returns leaves the one. *)
NoSocketLost ==
  /\ open = kept \cup (IF sock = NoHandle THEN {} ELSE {sock})
  /\ sock \notin kept
  /\ pc \in Exceptions \cup {"idle"} => sock = NoHandle
  /\ pc = "returned" => sock # NoHandle

(* What each address met: those before the current one failed with a       *)
(* system error, those after it are untried.                               *)
InOrder ==
  \A a \in 1..N :
    /\ a < addr => fate[a] = "failed"
    /\ a > addr => fate[a] = "untried"

(* What the socket has become at each place.                               *)
Progress ==
  /\ pc \in {"socket", "reuse"} => made = {}
  /\ pc = "reuse" => "reuse" \in wanted
  /\ pc = "attach" => made = wanted \cap {"reuse"}
  /\ pc = "nonblocking" => made = wanted \ {"nonblocking"} /\ "nonblocking" \in wanted
  /\ pc \in Places \ {"free"} => fate[addr] = "untried"
  /\ pc = "socket" => sock = NoHandle
  /\ pc \in {"reuse", "attach", "nonblocking"} => sock # NoHandle
  /\ pc \in {"free", "returned", "RuntimeException"} =>
       IF sock = NoHandle THEN addr = N + 1
                          ELSE addr \in 1..N /\ fate[addr] = "made" /\ made = wanted
  /\ pc \in Places => info = "allocated"
  /\ pc \in {"returned", "RuntimeException"} => info = "freed"
  /\ error = addr - 1

(* The socket that is returned is all the caller asked for, of the first   *)
(* address that gave one; the function says that it cannot create a socket *)
(* (sockets.h:555-561) only when each of them failed, with the error of    *)
(* the last; the list of addresses is freed by then.                       *)
FirstThatWorks ==
  /\ pc = "returned" =>
       /\ made = wanted /\ info = "freed"
       /\ \E a \in 1..N :
            fate[a] = "made" /\ \A b \in 1..N : (b < a => fate[b] = "failed") /\ (b > a => fate[b] = "untried")
  /\ pc = "RuntimeException" =>
       (\A a \in 1..N : fate[a] = "failed") /\ error = N /\ info = "freed"

(* The invariant the proofs carry.                                         *)
Inv == TypeOK /\ NoSocketLost /\ InOrder /\ Progress

(* "Tries the addresses until one is bound successfully."                  *)
(* (sockets.h:536): once there is a list, no call ends without a socket    *)
(* before the last address is tried.                                       *)
TriesEveryAddress ==
  pc \in {"invalid_argument", "RuntimeException"} => \A a \in 1..N : fate[a] # "untried"
=============================================================================
