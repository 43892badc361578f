------------------------- MODULE MiddlewareChainProofs -------------------------
(***************************************************************************)
(* The chain of middlewares of MiddlewareChain, for any number of them and *)
(* whatever they do: Inv is inductive, and what the listener relies on     *)
(* follows from it.                                                        *)
(***************************************************************************)
EXTENDS MiddlewareChain, SequenceTheorems, TLAPS

(* handle() gives an outcome to its caller: the calls of the callers stay, *)
(* but for what the last of them got.                                      *)
LEMMA GiveKeepsCalls ==
  ASSUME NEW r \in Outcomes \ {"none"}, NEW s \in Seq(Calls), result \in Outcomes, Give(r, s)
  PROVE  /\ stack' \in Seq(Calls) /\ Len(stack') = Len(s)
         /\ \A i \in DOMAIN s : stack'[i].middleware = s[i].middleware
         /\ result' \in Outcomes
         /\ stack' # <<>> => stack'[Len(stack')].got = r /\ result' = result
         /\ stack' = <<>> => s = <<>> /\ result' = r
  <1>1. CASE s = <<>>
    BY <1>1 DEF Give
  <1>2. CASE s # <<>>
    <2>1. Len(s) \in 1..Len(s) /\ s[Len(s)] \in Calls
      BY <1>2
    <2>2. stack' = [s EXCEPT ![Len(s)].got = r] /\ result' = result
      BY <1>2 DEF Give
    <2>3. [s[Len(s)] EXCEPT !.got = r] \in Calls
      BY <2>1 DEF Calls
    <2>4. stack' = [s EXCEPT ![Len(s)] = [s[Len(s)] EXCEPT !.got = r]]
      BY <2>2
    <2>5. stack' \in Seq(Calls) /\ Len(stack') = Len(s) /\ DOMAIN stack' = DOMAIN s
      BY <2>1, <2>3, <2>4
    <2>6. stack'[Len(s)] = [s[Len(s)] EXCEPT !.got = r]
      BY <2>1, <2>4
    <2>7. \A i \in DOMAIN s : i # Len(s) => stack'[i] = s[i]
      BY <2>4
    <2>8. /\ [s[Len(s)] EXCEPT !.got = r].middleware = s[Len(s)].middleware
          /\ [s[Len(s)] EXCEPT !.got = r].got = r
      BY <2>1 DEF Calls
    <2>9. stack' # <<>>
      BY <1>2, <2>5
    <2> QED
      BY <2>2, <2>5, <2>6, <2>7, <2>8, <2>9
  <1> QED
    BY <1>1, <1>2

(* The callers of a middleware that runs.                                  *)
LEMMA CallersOfTop ==
  ASSUME Inv, stack # <<>>
  PROVE  /\ Callers \in Seq(Calls) /\ Len(Callers) = Len(stack) - 1
         /\ \A i \in DOMAIN Callers : i \in DOMAIN stack /\ Callers[i] = stack[i]
         /\ Top \in Calls /\ Top.middleware \in Nat /\ Top.middleware < current
         /\ \A i \in DOMAIN Callers : Callers[i].middleware < Top.middleware
  <1>1. stack \in Seq(Calls) /\ Len(stack) \in Nat /\ Len(stack) # 0
    BY DEF Inv, TypeOK
  <1>2. Len(stack) \in DOMAIN stack /\ Top \in Calls
    BY <1>1 DEF Top
  <1>3. /\ Callers \in Seq(Calls) /\ Len(Callers) = Len(stack) - 1
        /\ \A i \in DOMAIN Callers : i \in DOMAIN stack /\ i < Len(stack) /\ Callers[i] = stack[i]
    <2>1. /\ Callers \in Seq(Calls) /\ Len(Callers) = Len(stack) - 1
          /\ \A i \in 1 .. Len(stack) - 1 : Callers[i] = stack[i]
      <3>1. \A i \in 1 .. Len(stack) - 1 : stack[i] \in Calls
        BY <1>1
      <3>2. 1 \in Int /\ Len(stack) - 1 \in Int /\ Len(stack) - 1 >= 0
        BY <1>1
      <3> DEFINE n == Len(stack) - 1
      <3>3. /\ SubSeq(stack, 1, n) \in Seq(Calls)
            /\ Len(SubSeq(stack, 1, n)) = IF 1 <= n THEN n - 1 + 1 ELSE 0
            /\ \A i \in 1 .. n - 1 + 1 : SubSeq(stack, 1, n)[i] = stack[1 + i - 1]
        BY <3>1, <3>2, SubSeqProperties
      <3>4. Callers = SubSeq(stack, 1, n)
        BY DEF Callers
      <3>5. \A i \in 1 .. n : i \in 1 .. n - 1 + 1 /\ 1 + i - 1 = i
        BY <1>1, <3>2
      <3>6. \A i \in 1 .. n : SubSeq(stack, 1, n)[i] = stack[i]
        BY <3>3, <3>5
      <3>7. Len(SubSeq(stack, 1, n)) = n
        <4>1. n \in Nat
          BY <1>1
        <4> HIDE DEF n
        <4> QED
          BY <3>3, <4>1
      <3> HIDE DEF n
      <3>8. Callers \in Seq(Calls) /\ Len(Callers) = n /\ \A i \in 1 .. n : Callers[i] = stack[i]
        BY <3>3, <3>4, <3>6, <3>7
      <3> QED
        BY <3>8 DEF n
    <2> QED
      BY <1>1, <2>1
  <1>4. Top.middleware \in Nat /\ Top.middleware < current
    BY <1>2 DEF Top, Calls, Inv, NoReentrance
  <1> QED
    BY <1>2, <1>3, <1>4 DEF Top, Inv, NoReentrance

(* A process() that returns or throws leaves the order of the calls.       *)
LEMMA ReturnKeepsOrder ==
  ASSUME Inv, stack # <<>>, NEW r \in Outcomes \ {"none"}, Give(r, Callers),
         current' = current \/ (current' = current - 1)
  PROVE  /\ stack' \in Seq(Calls) /\ result' \in Outcomes
         /\ NoReentrance'
         /\ stack' # <<>> => Top'.got = r /\ result' = "none"
         /\ stack' = <<>> => result' = r
  <1>1. /\ Callers \in Seq(Calls) /\ Top.middleware \in Nat /\ Top.middleware < current
        /\ \A i \in DOMAIN Callers : Callers[i].middleware < Top.middleware
        /\ \A i \in DOMAIN Callers : i \in DOMAIN stack /\ Callers[i] = stack[i]
    BY CallersOfTop
  <1>2. result \in Outcomes /\ current \in Nat
    BY NAssumption DEF Inv, TypeOK
  <1>3. /\ stack' \in Seq(Calls) /\ Len(stack') = Len(Callers)
        /\ \A i \in DOMAIN Callers : stack'[i].middleware = Callers[i].middleware
        /\ result' \in Outcomes
        /\ stack' # <<>> => stack'[Len(stack')].got = r /\ result' = result
        /\ stack' = <<>> => result' = r
    BY <1>1, <1>2, GiveKeepsCalls
  <1>4. DOMAIN stack' = DOMAIN Callers
    BY <1>1, <1>3
  <1>5. \A i \in DOMAIN Callers : Callers[i].middleware \in Nat
    <2>1. \A i \in DOMAIN Callers : Callers[i] \in Calls
      BY CallersOfTop
    <2> QED
      BY <2>1 DEF Calls
  <1>6. \A i \in DOMAIN stack' : stack'[i].middleware < current'
    BY <1>1, <1>2, <1>3, <1>4, <1>5
  <1>7. \A i, j \in DOMAIN stack' : i < j => stack'[i].middleware < stack'[j].middleware
    BY <1>1, <1>3, <1>4 DEF Inv, NoReentrance
  <1> QED
    BY <1>3, <1>6, <1>7 DEF NoReentrance, Top, Inv, AtRest

-----------------------------------------------------------------------------
LEMMA InitInv == Init => Inv
  <1> SUFFICES ASSUME Init PROVE Inv
    OBVIOUS
  <1>1. stack \in Seq(Calls) /\ DOMAIN stack = {}
    BY DEF Init
  <1>2. TypeOK
    <2>1. current \in 0..N /\ waiting \in Nat /\ passed \subseteq Nat
      BY NAssumption DEF Init
    <2>2. /\ process_interrupted \in BOOLEAN /\ complete \in BOOLEAN /\ behaved \in BOOLEAN
          /\ result \in Outcomes
      BY DEF Init, Outcomes
    <2> QED
      BY <1>1, <2>1, <2>2 DEF TypeOK
  <1> QED
    BY <1>1, <1>2 DEF Init, Inv, NoReentrance, PastThose, AtRest, StaysThere

(* A call of the next middleware, or of none because the list is exhausted.*)
LEMMA CallKeepsInv ==
  ASSUME Inv, Call, result = "none", complete' \in BOOLEAN, behaved' = behaved,
         waiting' = N \/ (waiting' = waiting /\ stack # <<>> /\ (behaved => Top.got = "none"))
  PROVE  Inv'
  <1>1. /\ current \in 0..N /\ N \in Nat /\ process_interrupted \in BOOLEAN /\ stack \in Seq(Calls)
        /\ result \in Outcomes /\ passed \subseteq Nat /\ waiting \in Nat
        /\ behaved' \in BOOLEAN
    BY NAssumption DEF Inv, TypeOK
  <1>2. behaved => waiting' = N
    BY DEF Inv, StaysThere
  <1>3. CASE current = N
    <2>1. Give("exception", stack) /\ UNCHANGED <<current, process_interrupted, passed>>
      BY <1>3 DEF Call
    <2>2. /\ stack' \in Seq(Calls) /\ Len(stack') = Len(stack)
          /\ \A i \in DOMAIN stack : stack'[i].middleware = stack[i].middleware
          /\ result' \in Outcomes
          /\ stack' # <<>> => stack'[Len(stack')].got = "exception" /\ result' = result
          /\ stack' = <<>> => result' = "exception"
      BY <1>1, <2>1, GiveKeepsCalls DEF Outcomes
    <2>3. DOMAIN stack' = DOMAIN stack
      BY <1>1, <2>2
    <2>4. TypeOK'
      BY <1>1, <2>1, <2>2 DEF TypeOK
    <2>5. NoReentrance'
      BY <2>1, <2>2, <2>3 DEF NoReentrance, Inv
    <2>6. PastThose' /\ AtRest'
      BY <2>1, <2>2 DEF PastThose, AtRest, Inv
    <2>7. StaysThere'
      BY <1>2, <2>2 DEF StaysThere, Top
    <2> QED
      BY <2>4, <2>5, <2>6, <2>7 DEF Inv
  <1>4. CASE current # N
    <2> DEFINE c == [middleware |-> current, got |-> "none"]
    <2>1. /\ stack' = Append(stack, c) /\ current' = current + 1 /\ process_interrupted' = FALSE
          /\ passed' = IF stack = <<>> THEN passed ELSE passed \cup {Top.middleware}
          /\ result' = result
      BY <1>4 DEF Call
    <2>2. c \in Calls /\ c.middleware = current /\ c.got = "none"
      BY <1>1 DEF Calls, Outcomes
    <2>3. /\ stack' \in Seq(Calls) /\ Len(stack') = Len(stack) + 1 /\ stack'[Len(stack) + 1] = c
          /\ \A i \in DOMAIN stack : i \in 1..Len(stack) /\ stack'[i] = stack[i]
          /\ DOMAIN stack' = 1..Len(stack) + 1 /\ Len(stack) \in Nat
      BY <1>1, <2>1, <2>2
    <2>4. stack # <<>> => Top.middleware \in Nat /\ Top.middleware < current
      BY CallersOfTop
    <2>5. \A m \in passed' : m \in Nat /\ m < current
      BY <1>1, <2>1, <2>4 DEF Inv, PastThose
    <2>6. TypeOK'
      <3>1. current' \in 0..N /\ waiting' \in Nat
        BY <1>1, <1>4, <2>1
      <3>3. passed' \subseteq Nat
        BY <2>5
      <3>2. process_interrupted' \in BOOLEAN /\ complete' \in BOOLEAN /\ behaved' \in BOOLEAN /\ result' \in Outcomes
        BY <1>1, <2>1
      <3> QED
        BY <2>3, <3>1, <3>2, <3>3 DEF TypeOK
    <2>7. NoReentrance'
      <3>1. \A i \in DOMAIN stack : stack[i].middleware \in Nat /\ stack[i].middleware < current
        <4>1. \A i \in DOMAIN stack : stack[i] \in Calls
          BY <1>1
        <4> QED
          BY <4>1 DEF Inv, NoReentrance, Calls
      <3>2. \A i \in DOMAIN stack' : i \in DOMAIN stack \/ (i = Len(stack) + 1 /\ stack'[i].middleware = current)
        BY <1>1, <2>2, <2>3
      <3>3. \A i \in DOMAIN stack' : stack'[i].middleware < current'
        BY <1>1, <2>1, <2>3, <3>1, <3>2
      <3>4. \A i, j \in DOMAIN stack' : i < j => stack'[i].middleware < stack'[j].middleware
        <4> SUFFICES ASSUME NEW i \in DOMAIN stack', NEW j \in DOMAIN stack', i < j
                     PROVE  stack'[i].middleware < stack'[j].middleware
          OBVIOUS
        <4>1. i \in DOMAIN stack
          BY <2>3, <3>2
        <4>2. CASE j \in DOMAIN stack
          BY <2>3, <4>1, <4>2 DEF Inv, NoReentrance
        <4>3. CASE j \notin DOMAIN stack
          BY <2>3, <3>1, <3>2, <4>1, <4>3
        <4> QED
          BY <4>2, <4>3
      <3> QED
        BY <3>3, <3>4 DEF NoReentrance
    <2>8. PastThose'
      BY <1>1, <2>1, <2>5 DEF PastThose
    <2>9. stack' # <<>> /\ Top' = c
      BY <2>3 DEF Top
    <2>10. AtRest' /\ StaysThere'
      BY <1>1, <1>2, <2>1, <2>2, <2>9 DEF AtRest, StaysThere
    <2> QED
      BY <2>6, <2>7, <2>8, <2>10 DEF Inv
  <1> QED
    BY <1>3, <1>4

(* A response or an exception of a middleware.                             *)
LEMMA RespondOrThrowKeepsInv ==
  ASSUME Inv, Respond \/ Throw
  PROVE  Inv'
  <1>1. PICK r \in {"response", "exception"} :
          /\ stack # <<>> /\ Give(r, Callers)
          /\ UNCHANGED <<current, process_interrupted, complete, behaved, passed, waiting>>
    BY DEF Respond, Throw
  <1>2. /\ stack' \in Seq(Calls) /\ result' \in Outcomes /\ NoReentrance'
        /\ stack' # <<>> => Top'.got = r /\ result' = "none"
        /\ stack' = <<>> => result' = r
    BY <1>1, ReturnKeepsOrder DEF Outcomes
  <1>3. behaved /\ waiting # N => current = waiting /\ process_interrupted
    BY DEF Inv, StaysThere
  <1> QED
    BY <1>1, <1>2, <1>3 DEF Inv, TypeOK, PastThose, AtRest, StaysThere

(* A middleware without a response.                                        *)
LEMMA GiveNothingKeepsInv ==
  ASSUME Inv, GiveNothing
  PROVE  Inv'
  <1>1. /\ stack # <<>> /\ Give("null", Callers)
        /\ behaved => Top.got \in {"none", "null"}
        /\ waiting' = IF Top.got = "none" THEN Top.middleware ELSE waiting
        /\ complete' = complete /\ behaved' = behaved /\ passed' = passed
    BY DEF GiveNothing
  <1>2. /\ process_interrupted => current' = current
        /\ ~process_interrupted => current' = current - 1
        /\ process_interrupted' = TRUE
    BY DEF GiveNothing, Inv, TypeOK
  <1>3. /\ current \in 0..N /\ N \in Nat /\ process_interrupted \in BOOLEAN
        /\ complete \in BOOLEAN /\ behaved \in BOOLEAN /\ passed \subseteq Nat /\ waiting \in Nat
    BY NAssumption DEF Inv, TypeOK
  <1>4. Top.middleware \in Nat /\ Top.middleware < current
    BY <1>1, CallersOfTop
  <1>5. /\ stack' \in Seq(Calls) /\ result' \in Outcomes /\ NoReentrance'
        /\ stack' # <<>> => Top'.got = "null" /\ result' = "none"
        /\ stack' = <<>> => result' = "null"
    BY <1>1, <1>2, <1>3, ReturnKeepsOrder DEF Outcomes
  <1>6. TypeOK'
    BY <1>1, <1>2, <1>3, <1>4, <1>5 DEF TypeOK
  <1>7. PastThose'
    BY <1>1, <1>2, <1>3, <1>4 DEF PastThose, Inv
  <1>8. AtRest'
    BY <1>2, <1>5 DEF AtRest
  <1>9. behaved' /\ waiting' # N => current' = waiting'
    <2>1. CASE Top.got = "none"
      BY <1>1, <1>2, <1>3, <1>4, <2>1 DEF Inv, StaysThere
    <2>2. CASE Top.got # "none"
      BY <1>1, <1>2, <1>3, <2>2 DEF Inv, StaysThere
    <2> QED
      BY <2>1, <2>2
  <1>10. StaysThere'
    BY <1>2, <1>5, <1>9 DEF StaysThere
  <1> QED
    BY <1>5, <1>6, <1>7, <1>8, <1>10 DEF Inv

(* The listener answers or waits, or the status is made anew.              *)
LEMMA ListenerKeepsInv ==
  ASSUME Inv, Answer \/ Reconnect
  PROVE  Inv'
  <1>1. stack' = stack /\ result' \in Outcomes /\ behaved' = behaved /\ behaved \in BOOLEAN
    BY DEF Answer, Reconnect, Outcomes, Inv, TypeOK
  <1>2. CASE UNCHANGED <<current, process_interrupted, complete, passed, waiting>> /\ result = "null"
    BY <1>1, <1>2 DEF Inv, TypeOK, NoReentrance, PastThose, AtRest, StaysThere, Top
  <1>3. CASE Reset /\ stack = <<>>
    <2>1. current' \in 0..N /\ waiting' \in Nat /\ passed' = {}
      BY <1>3, NAssumption DEF Reset
    <2>2. process_interrupted' = FALSE /\ complete' = FALSE /\ current' = 0 /\ waiting' = N
      BY <1>3 DEF Reset
    <2>3. stack' = <<>> /\ stack' \in Seq(Calls) /\ DOMAIN stack' = {}
      BY <1>1, <1>3
    <2>4. TypeOK'
      BY <1>1, <2>1, <2>2, <2>3 DEF TypeOK
    <2>5. NoReentrance'
      BY <2>3 DEF NoReentrance
    <2> QED
      BY <2>1, <2>2, <2>3, <2>4, <2>5 DEF Inv, PastThose, AtRest, StaysThere
  <1> QED
    BY <1>2, <1>3 DEF Answer, Reconnect, Inv, AtRest

LEMMA NextInv == Inv /\ [Next]_vars => Inv'
  <1> SUFFICES ASSUME Inv, [Next]_vars PROVE Inv'
    OBVIOUS
  <1>1. ASSUME NEW c \in BOOLEAN, Ask(c) PROVE Inv'
    BY <1>1, CallKeepsInv DEF Ask
  <1>2. CASE Delegate
    BY <1>2, CallKeepsInv DEF Delegate, Inv, TypeOK, AtRest
  <1>3. CASE Respond \/ Throw
    BY <1>3, RespondOrThrowKeepsInv
  <1>4. CASE GiveNothing
    BY <1>4, GiveNothingKeepsInv
  <1>5. CASE Answer \/ Reconnect
    BY <1>5, ListenerKeepsInv
  <1>6. CASE UNCHANGED vars
    BY <1>6 DEF vars, Inv, TypeOK, NoReentrance, PastThose, AtRest, StaysThere, Top
  <1> QED
    BY <1>1, <1>2, <1>3, <1>4, <1>5, <1>6 DEF Next, Application

-----------------------------------------------------------------------------
(* The status and the calls keep their invariant.                          *)
THEOREM InvHolds == Spec => []Inv
  BY InitInv, NextInv, PTL DEF Spec

(* No middleware is asked again about a request it has handed on.          *)
THEOREM ChainGoesForward == Spec => ForwardOnly
  <1>1. Inv /\ [Next]_vars
          => [Len(stack') > Len(stack) => stack'[Len(stack')].middleware \notin passed]_vars
    <2> SUFFICES ASSUME Inv, Next, Len(stack') > Len(stack)
                 PROVE  stack'[Len(stack')].middleware \notin passed
      OBVIOUS
    <2>1. stack \in Seq(Calls) /\ result \in Outcomes /\ current \in Nat /\ passed \subseteq Nat
      BY NAssumption DEF Inv, TypeOK
    <2>2. CASE Call
      <3>1. current # N
        <4>1. Give("exception", stack) => Len(stack') = Len(stack)
          BY <2>1, GiveKeepsCalls DEF Outcomes
        <4> QED
          BY <2>1, <2>2, <4>1 DEF Call
      <3>2. stack'[Len(stack')].middleware = current
        BY <2>1, <2>2, <3>1 DEF Call
      <3> QED
        BY <2>1, <3>2 DEF Inv, PastThose
    <2>3. ASSUME NEW r \in {"response", "null", "exception"}, stack # <<>>, Give(r, Callers)
          PROVE  Len(stack') = Len(stack) - 1
      BY <2>1, <2>3, CallersOfTop, GiveKeepsCalls DEF Outcomes
    <2>4. CASE Respond \/ GiveNothing \/ Throw
      BY <2>1, <2>3, <2>4 DEF Respond, GiveNothing, Throw
    <2>5. CASE Answer \/ Reconnect
      BY <2>1, <2>5 DEF Answer, Reconnect
    <2> QED
      BY <2>2, <2>4, <2>5 DEF Next, Application, Ask, Delegate
  <1> QED
    BY <1>1, InvHolds, PTL DEF Spec, ForwardOnly

(* A chain taken up again has a middleware to ask.                         *)
THEOREM ChainResumesInTheList == Spec => []ResumesInTheList
  <1>1. Inv => ResumesInTheList
    BY NAssumption DEF Inv, TypeOK, PastThose, AtRest, ResumesInTheList
  <1> QED
    BY <1>1, InvHolds, PTL

(* It is the one that gave no response.                                    *)
THEOREM ChainResumesWhereInterrupted == Spec => []ResumesWhereInterrupted
  <1>1. Inv => ResumesWhereInterrupted
    BY DEF Inv, StaysThere, ResumesWhereInterrupted
  <1> QED
    BY <1>1, InvHolds, PTL
=============================================================================
