---------------------------- MODULE MiddlewareChain ----------------------------
(***************************************************************************)
(* HTTPServer::handle (src/src/http/server.h) and the MiddlewareStatus of  *)
(* one request: the list of middlewares, the call of one from inside       *)
(* another, and the way an unfinished chain is taken up again when more of *)
(* the request has come.                                                   *)
(*                                                                         *)
(* A middleware is the application's: it may call handle(), once or many   *)
(* times, return a response or nullptr, throw, and catch what handle()     *)
(* throws.  The middlewares are added before the server runs, as main()    *)
(* does, and are numbered from 0 as the list is.                           *)
(***************************************************************************)
EXTENDS Naturals, Sequences

CONSTANT N  \* the number of middlewares

ASSUME NAssumption == N \in Nat

VARIABLES
  current, process_interrupted,   \* the MiddlewareStatus of the request
  stack,      \* the calls of process() that have not returned: the middleware
              \* and what its last call of handle() gave
  result,     \* what handle() gave the listener
  complete,   \* the request the listener asks about is complete
  behaved,    \* whether the middlewares delegate at most once, and give no
              \* response only if they have not delegated or were given none
  \* history, of one request
  passed,     \* the middlewares that have handed the request to another
  waiting     \* the one that gave no response of its own accord, or N

vars == <<current, process_interrupted, stack, result, complete, behaved, passed, waiting>>

Outcomes == {"none", "response", "null", "exception"}
Calls == [middleware : Nat, got : Outcomes]

Init ==
  /\ current = 0 /\ process_interrupted = FALSE
  /\ stack = <<>> /\ result = "none" /\ complete = FALSE
  /\ behaved \in BOOLEAN
  /\ passed = {} /\ waiting = N

-----------------------------------------------------------------------------
Top == stack[Len(stack)]
Callers == SubSeq(stack, 1, Len(stack) - 1)

(* handle() gives r to its caller, whose calls are s.                      *)
Give(r, s) ==
  IF s = <<>>
    THEN stack' = s /\ result' = r
    ELSE stack' = [s EXCEPT ![Len(s)].got = r] /\ UNCHANGED result

(* The status still says that the chain was interrupted.                   *)
CallKeepingInterrupted ==
  IF current = N
    THEN /\ Give("exception", stack)
         /\ UNCHANGED <<current, process_interrupted, passed>>
    ELSE /\ stack' = Append(stack, [middleware |-> current, got |-> "none"])
         /\ current' = current + 1
         /\ passed' = IF stack = <<>> THEN passed ELSE passed \cup {Top.middleware}
         /\ UNCHANGED <<result, process_interrupted>>

(* The first half of handle(), until process().                            *)
Call ==
  IF current = N
    THEN /\ Give("exception", stack)
         /\ UNCHANGED <<current, process_interrupted, passed>>
    ELSE /\ stack' = Append(stack, [middleware |-> current, got |-> "none"])
         /\ current' = current + 1 /\ process_interrupted' = FALSE
         /\ passed' = IF stack = <<>> THEN passed ELSE passed \cup {Top.middleware}
         /\ UNCHANGED result

(* More of the request has come; c tells whether it is complete now.       *)
Ask(c) ==
  /\ stack = <<>> /\ result = "none"
  /\ complete' = c /\ waiting' = N
  /\ Call
  /\ UNCHANGED behaved

-----------------------------------------------------------------------------
(* What a middleware does, and the second half of the handle() it is       *)
(* called from.                                                            *)

Delegate ==
  /\ stack # <<>>
  /\ behaved => Top.got = "none"
  /\ Call
  /\ UNCHANGED <<complete, behaved, waiting>>

Respond ==
  /\ stack # <<>>
  /\ Give("response", Callers)
  /\ UNCHANGED <<current, process_interrupted, complete, behaved, passed, waiting>>

(* A chain that was interrupted further down is set back once more.        *)
GiveNothingEachTime ==
  /\ stack # <<>>
  /\ behaved => Top.got \in {"none", "null"}
  /\ Give("null", Callers)
  /\ process_interrupted' = TRUE /\ current' = current - 1
  /\ waiting' = IF Top.got = "none" THEN Top.middleware ELSE waiting
  /\ UNCHANGED <<complete, behaved, passed>>

(* The chain is not set back.                                              *)
GiveNothingGoingOn ==
  /\ stack # <<>>
  /\ behaved => Top.got \in {"none", "null"}
  /\ Give("null", Callers)
  /\ process_interrupted' = TRUE
  /\ waiting' = IF Top.got = "none" THEN Top.middleware ELSE waiting
  /\ UNCHANGED <<complete, behaved, passed, current>>

GiveNothing ==
  /\ stack # <<>>
  /\ behaved => Top.got \in {"none", "null"}
  /\ Give("null", Callers)
  /\ IF process_interrupted
       THEN UNCHANGED <<current, process_interrupted>>
       ELSE process_interrupted' = TRUE /\ current' = current - 1
  /\ waiting' = IF Top.got = "none" THEN Top.middleware ELSE waiting
  /\ UNCHANGED <<complete, behaved, passed>>

(* Its own exception, or one of handle() that it does not catch.           *)
Throw ==
  /\ stack # <<>>
  /\ Give("exception", Callers)
  /\ UNCHANGED <<current, process_interrupted, complete, behaved, passed, waiting>>

-----------------------------------------------------------------------------
(* resetRequestMiddlewareStatus.                                           *)
Reset ==
  /\ current' = 0 /\ process_interrupted' = FALSE
  /\ complete' = FALSE /\ passed' = {} /\ waiting' = N

(* A complete request without a response waits for more.                   *)
AnswerWaiting ==
  /\ result # "none" /\ result' = "none"
  /\ IF result = "null"
       THEN UNCHANGED <<current, process_interrupted, complete, passed, waiting>>
       ELSE Reset
  /\ UNCHANGED <<stack, behaved>>

(* The listener has a response, its own when handle() threw or when no     *)
(* more of the request will come; or it waits for more.                    *)
Answer ==
  /\ result # "none" /\ result' = "none"
  /\ IF result = "null" /\ ~complete
       THEN UNCHANGED <<current, process_interrupted, complete, passed, waiting>>
       ELSE Reset
  /\ UNCHANGED <<stack, behaved>>

(* Another client gets the listener before the request is complete.        *)
Reconnect ==
  /\ stack = <<>> /\ result = "none"
  /\ Reset
  /\ UNCHANGED <<stack, result, behaved>>

Application == Delegate \/ Respond \/ GiveNothing \/ Throw

Next ==
  \/ \E c \in BOOLEAN : Ask(c)
  \/ Application
  \/ Answer
  \/ Reconnect

Spec == Init /\ [][Next]_vars

(* A middleware returns in the end, and the listener goes on.              *)
FairSpec == Spec /\ WF_vars(Application \/ Answer)

-----------------------------------------------------------------------------
(* The types; the current middleware stays within the list.                *)
TypeOK ==
  /\ current \in 0..N /\ process_interrupted \in BOOLEAN
  /\ stack \in Seq(Calls)
  /\ result \in Outcomes /\ complete \in BOOLEAN /\ behaved \in BOOLEAN
  /\ passed \subseteq Nat /\ waiting \in Nat

(* The calls go forward through the list: none is inside another of the    *)
(* same middleware, and the next one is of a middleware not yet entered.   *)
NoReentrance ==
  /\ \A i \in DOMAIN stack : stack[i].middleware < current
  /\ \A i, j \in DOMAIN stack : i < j => stack[i].middleware < stack[j].middleware

(* The middleware to call is past all those that handed the request on,    *)
(* and past the last one called unless the chain is interrupted there.     *)
PastThose ==
  /\ \A m \in passed : m < current
  /\ ~process_interrupted => \A m \in passed : m + 1 < current
  /\ process_interrupted => current < N

(* When nothing is called the chain is interrupted or at its start; the    *)
(* listener is given a result then only.                                   *)
AtRest ==
  /\ stack = <<>> /\ result \in {"none", "null"} => process_interrupted \/ current = 0
  /\ stack # <<>> => result = "none"

(* A middleware that has called nothing is the last one called; the chain  *)
(* stays at one that gave no response.                                     *)
StaysThere ==
  /\ stack # <<>> /\ Top.got = "none" => current = Top.middleware + 1 /\ ~process_interrupted
  /\ behaved /\ waiting # N =>
       current = waiting /\ process_interrupted /\ (stack # <<>> => Top.got # "none")

(* The invariant the proofs carry.                                         *)
Inv == TypeOK /\ NoReentrance /\ PastThose /\ AtRest /\ StaysThere

(* A middleware that has handed a request on is never asked about the same *)
(* request again, whatever the middlewares do with what they are given.    *)
ForwardOnly ==
  [][Len(stack') > Len(stack) => stack'[Len(stack')].middleware \notin passed]_vars

(* handle() never throws "Middleware stack exhausted" (server.h:83) to the *)
(* listener for a chain that is taken up again: there is one to ask.       *)
ResumesInTheList == stack = <<>> /\ result = "none" => N = 0 \/ current < N

(* When more of a request comes, the first one asked is the middleware     *)
(* that gave no response for want of it (server.h:89-92), if no middleware *)
(* drops the response of another.                                          *)
ResumesWhereInterrupted ==
  behaved /\ stack = <<>> /\ result = "none" /\ waiting # N => current = waiting

(* A complete request is answered.                                         *)
CompleteIsAnswered == behaved /\ complete ~> ~complete
=============================================================================
