-------------------------------- MODULE DemoApp --------------------------------
(***************************************************************************)
(* The demo application (src/src/main.cpp): the requests of an HTTPServer  *)
(* go through ErrorHandler, Logger and Hello.  Logger writes a line on     *)
(* cout for each, and keeps the lines apart with a mutex of its own.       *)
(*                                                                         *)
(* main() runs the server in one thread; the server and the mutex are      *)
(* meant for several, each of which serves one request at a time.          *)
(***************************************************************************)
EXTENDS Naturals, Sequences

CONSTANTS
  Threads,   \* the threads in run()
  None       \* the owner of an unlocked mutex

ASSUME NoneAssumption == None \notin Threads

(* What matters of a request: whether its URI can be converted to a string *)
(* (Uris, IsValid), and whether it has come to its end.                    *)
Requests == [writable : BOOLEAN, complete : BOOLEAN]

VARIABLES
  pc,        \* pc[t]: where thread t is, see Labels
  request,   \* request[t]: the request it serves
  got,       \* got[t]: what Logger gave ErrorHandler
  lock_,     \* Logger::lock_, the thread that has locked it
  line       \* who has written what on the unfinished line of cout

vars == <<pc, request, got, lock_, line>>

Writing == {"address", "uri", "rest", "unlock"}
Inside == {"error_handler", "logger", "hello", "wait"}
Labels == {"idle", "returned", "answer"} \cup Inside \cup Writing

TypeOK ==
  /\ pc \in [Threads -> Labels]
  /\ request \in [Threads -> Requests]
  /\ got \in [Threads -> {"none", "response", "exception"}]
  /\ lock_ \in Threads \cup {None}
  /\ line \in Seq(Threads \X {"address", "uri"})

Init ==
  /\ pc = [t \in Threads |-> "idle"]
  /\ request \in [Threads -> {[writable |-> TRUE, complete |-> TRUE]}]
  /\ got = [t \in Threads |-> "none"]
  /\ lock_ = None /\ line = <<>>

-----------------------------------------------------------------------------
Go(t, from, to) == pc[t] = from /\ pc' = [pc EXCEPT ![t] = to]

(* The listener asks for a response to request r: ErrorHandler is called.  *)
Ask(t, r) ==
  /\ Go(t, "idle", "error_handler")
  /\ request' = [request EXCEPT ![t] = r]
  /\ UNCHANGED <<got, lock_, line>>

(* ErrorHandler and Logger call handle() first.                            *)
Delegate(t) ==
  /\ Go(t, "error_handler", "logger") \/ Go(t, "logger", "hello")
  /\ UNCHANGED <<request, got, lock_, line>>

(* Hello gives its response to Logger.                                     *)
Hello(t) ==
  /\ Go(t, "hello", "wait")
  /\ UNCHANGED <<request, got, lock_, line>>

(* A mutex that its own thread may lock again.                             *)
LockRecursive(t) ==
  /\ lock_ \in {None, t}
  /\ Go(t, "wait", "address")
  /\ lock_' = t
  /\ UNCHANGED <<request, got, line>>

(* A thread that has left the mutex locked blocks here like any other.     *)
Lock(t) ==
  /\ lock_ = None
  /\ Go(t, "wait", "address")
  /\ lock_' = t
  /\ UNCHANGED <<request, got, line>>

WriteAddress(t) ==
  /\ Go(t, "address", "uri")
  /\ line' = Append(line, <<t, "address">>)
  /\ UNCHANGED <<request, got, lock_>>

(* The mutex is unlocked before the line is complete.                      *)
WriteUriUnlocking(t) ==
  /\ request[t].writable
  /\ Go(t, "uri", "rest")
  /\ line' = Append(line, <<t, "uri">>)
  /\ lock_' = None
  /\ UNCHANGED <<request, got>>

WriteUri(t) ==
  /\ request[t].writable
  /\ Go(t, "uri", "rest")
  /\ line' = Append(line, <<t, "uri">>)
  /\ UNCHANGED <<request, got, lock_>>

(* "Uri is invalid": the exception leaves process(), and nothing unlocks   *)
(* the mutex.                                                              *)
UriThrows(t) ==
  /\ ~request[t].writable
  /\ Go(t, "uri", "returned")
  /\ got' = [got EXCEPT ![t] = "exception"]
  /\ UNCHANGED <<request, lock_, line>>

(* What Hello gave, and the end of the line.                               *)
WriteRest(t) ==
  /\ Go(t, "rest", "unlock")
  /\ line' = <<>>
  /\ UNCHANGED <<request, got, lock_>>

(* The mutex stays locked for a request that has not come to its end.      *)
UnlockComplete(t) ==
  /\ Go(t, "unlock", "returned")
  /\ lock_' = IF request[t].complete THEN None ELSE lock_
  /\ got' = [got EXCEPT ![t] = "response"]
  /\ UNCHANGED <<request, line>>

Unlock(t) ==
  /\ Go(t, "unlock", "returned")
  /\ lock_' = None
  /\ got' = [got EXCEPT ![t] = "response"]
  /\ UNCHANGED <<request, line>>

(* ErrorHandler asks again after an exception.                             *)
ReturnRetrying(t) ==
  /\ IF got[t] = "exception" THEN Go(t, "returned", "logger") ELSE Go(t, "returned", "answer")
  /\ UNCHANGED <<request, got, lock_, line>>

(* ErrorHandler passes on the response, or makes one of the exception.     *)
Return(t) ==
  /\ Go(t, "returned", "answer")
  /\ UNCHANGED <<request, got, lock_, line>>

(* The listener sends the response.                                        *)
Answer(t) ==
  /\ Go(t, "answer", "idle")
  /\ got' = [got EXCEPT ![t] = "none"]
  /\ UNCHANGED <<request, lock_, line>>

Serve(t) ==
  \/ Delegate(t) \/ Hello(t)
  \/ Lock(t) \/ WriteAddress(t) \/ WriteUri(t) \/ UriThrows(t) \/ WriteRest(t) \/ Unlock(t)
  \/ Return(t) \/ Answer(t)

Next == \E t \in Threads : Serve(t) \/ \E r \in Requests : Ask(t, r)

Spec == Init /\ [][Next]_vars

(* A thread that can go on does; of those that wait for the mutex, one may *)
(* be passed over for ever.                                                *)
FairSpec == Spec /\ \A t \in Threads : WF_vars(Serve(t))

-----------------------------------------------------------------------------
(* The mutex is locked by a thread that no longer writes.                  *)
Abandoned == lock_ # None /\ pc[lock_] \notin Writing

(* The unfinished line is of one request, from its beginning: no thread    *)
(* writes between two pieces of another (main.cpp:28-43), and none goes on *)
(* with a line that an exception has cut.                                  *)
Pieces == <<"address", "uri">>
LinesAreWhole ==
  \A i \in DOMAIN line : i \in DOMAIN Pieces /\ line[i] = <<line[1][1], Pieces[i]>>

(* After an exception at main.cpp:32 the program has answered for the last *)
(* time but for the requests that are logged already: the others, of any   *)
(* thread and client, never get past Logger, and no later line is written. *)
LogEndsWhenAbandoned ==
  [][Abandoned =>
       /\ line' = line
       /\ \A t \in Threads : pc[t] \in Inside => pc'[t] \in Inside]_vars

(* With URIs that can be written only, the threads never all wait: as long *)
(* as some request is being served, answers are given.                     *)
AllWritable == \A t \in Threads : request[t].writable
KeepsAnswering ==
  []AllWritable =>
    \/ []<>(\A t \in Threads : pc[t] = "idle")
    \/ []<><<\E t \in Threads : Answer(t)>>_vars

-----------------------------------------------------------------------------
(* The middlewares of one thread, in terms of MiddlewareChain.             *)
Called(m, outcome) == [middleware |-> m, got |-> outcome]

StackOf(t) ==
  CASE pc[t] \in {"idle", "answer"} -> <<>>
    [] pc[t] = "error_handler" -> <<Called(0, "none")>>
    [] pc[t] = "logger" -> <<Called(0, "none"), Called(1, "none")>>
    [] pc[t] = "hello" -> <<Called(0, "none"), Called(1, "none"), Called(2, "none")>>
    [] pc[t] \in {"wait"} \cup Writing -> <<Called(0, "none"), Called(1, "response")>>
    [] pc[t] = "returned" -> <<Called(0, got[t])>>

CurrentOf(t) ==
  CASE pc[t] = "idle" -> 0
    [] pc[t] = "error_handler" -> 1
    [] pc[t] = "logger" -> 2
    [] OTHER -> 3

PassedOf(t) ==
  CASE pc[t] \in {"idle", "error_handler"} -> {}
    [] pc[t] = "logger" -> {0}
    [] OTHER -> {0, 1}

Chain(t) == INSTANCE MiddlewareChain WITH
  N <- 3, current <- CurrentOf(t), process_interrupted <- FALSE,
  stack <- StackOf(t), result <- IF pc[t] = "answer" THEN "response" ELSE "none",
  complete <- pc[t] # "idle" /\ request[t].complete, behaved <- TRUE,
  passed <- PassedOf(t), waiting <- 3

(* In each thread the middlewares of the demo keep to what MiddlewareChain *)
(* asks of well-behaved ones, so that what it shows of the server holds of *)
(* the demo: a request is handed on once, forward, also when Logger throws *)
(* and ErrorHandler catches.                                               *)
FollowsChain ==
  /\ \A t \in Threads : Chain(t)!Init
  /\ [][\A t \in Threads : Chain(t)!Next \/ UNCHANGED Chain(t)!vars]_vars
=============================================================================
