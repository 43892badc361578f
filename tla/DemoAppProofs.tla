----------------------------- MODULE DemoAppProofs -----------------------------
(***************************************************************************)
(* The demo application of DemoApp, for any number of threads: the lines   *)
(* of the log, what an exception in Logger does to it, and the chain of    *)
(* middlewares of each thread.                                             *)
(***************************************************************************)
EXTENDS DemoApp, SequenceTheorems, TLAPS

USE NoneAssumption

(* What the thread that has the mutex has written; a thread that has left  *)
(* Logger with the mutex has cut its line after the first piece.           *)
Written(t) ==
  CASE pc[t] \in {"address", "unlock"} -> <<>>
    [] pc[t] = "rest" -> << <<t, "address">>, <<t, "uri">> >>
    [] OTHER -> << <<t, "address">> >>

LineOfOwner == line = IF lock_ = None THEN <<>> ELSE Written(lock_)
WritersOwn == \A t \in Threads : pc[t] \in Writing => lock_ = t
IInv == TypeOK /\ LineOfOwner /\ WritersOwn

LEMMA InitIInv == Init => IInv
  <1> SUFFICES ASSUME Init PROVE IInv
    OBVIOUS
  <1>1. TypeOK
    <2>1. pc \in [Threads -> Labels] /\ lock_ \in Threads \cup {None} /\ line \in Seq(Threads \X {"address", "uri"})
      BY DEF Init, Labels
    <2>2. got \in [Threads -> {"none", "response", "exception"}]
      BY DEF Init
    <2>3. request \in [Threads -> Requests]
      <3>1. [writable |-> TRUE, complete |-> TRUE] \in Requests
        BY Zenon DEF Requests
      <3> QED
        BY <3>1 DEF Init
    <2> QED
      BY <2>1, <2>2, <2>3 DEF TypeOK
  <1> QED
    BY <1>1 DEF Init, IInv, LineOfOwner, WritersOwn, Writing

LEMMA AppendToOne ==
  ASSUME NEW a, NEW b
  PROVE  Append(<<a>>, b) = <<a, b>>
  <1> DEFINE S == {a, b}
             p == Append(<<a>>, b)
             q == <<a, b>>
  <1>1. p \in Seq(S) /\ Len(p) = 2 /\ p[1] = a /\ p[2] = b
    <2>1. <<a>> \in Seq(S) /\ Len(<<a>>) = 1 /\ <<a>>[1] = a
      OBVIOUS
    <2> QED
      BY <2>1, AppendProperties
  <1>2. q \in Seq(S) /\ Len(q) = 2 /\ q[1] = a /\ q[2] = b
    OBVIOUS
  <1>3. \A i \in 1..2 : p[i] = q[i]
    BY <1>1, <1>2
  <1> HIDE DEF p, q, S
  <1>4. p = q
    BY <1>1, <1>2, <1>3, SeqEqual
  <1> QED
    BY <1>4 DEF p, q

LEMMA AppendToTwo ==
  ASSUME NEW a, NEW b, NEW c
  PROVE  Append(<<a, b>>, c) = <<a, b, c>>
  <1> DEFINE S == {a, b, c}
             p == Append(<<a, b>>, c)
             q == <<a, b, c>>
  <1>1. p \in Seq(S) /\ Len(p) = 3 /\ p[1] = a /\ p[2] = b /\ p[3] = c
    <2>1. <<a, b>> \in Seq(S) /\ Len(<<a, b>>) = 2 /\ <<a, b>>[1] = a /\ <<a, b>>[2] = b
      OBVIOUS
    <2> QED
      BY <2>1, AppendProperties
  <1>2. q \in Seq(S) /\ Len(q) = 3 /\ q[1] = a /\ q[2] = b /\ q[3] = c
    OBVIOUS
  <1>3. \A i \in 1..3 : p[i] = q[i]
    BY <1>1, <1>2
  <1> HIDE DEF p, q, S
  <1>4. p = q
    BY <1>1, <1>2, <1>3, SeqEqual
  <1> QED
    BY <1>4 DEF p, q

(* The steps that leave the log alone.                                     *)
LEMMA OutsideKeepsIInv ==
  ASSUME IInv, NEW t \in Threads,
         \/ \E r \in Requests : Ask(t, r)
         \/ Delegate(t) \/ Hello(t) \/ Return(t) \/ Answer(t)
  PROVE  IInv'
  <1>1. /\ lock_' = lock_ /\ line' = line
        /\ pc[t] \notin Writing /\ pc'[t] \notin Writing /\ pc'[t] \in Labels
        /\ pc' = [pc EXCEPT ![t] = pc'[t]]
    BY DEF IInv, TypeOK, Ask, Delegate, Hello, Return, Answer, Go, Writing, Inside, Labels
  <1>2. TypeOK'
    <2>1. pc' \in [Threads -> Labels] /\ lock_' \in Threads \cup {None}
      BY <1>1 DEF IInv, TypeOK
    <2>2. request' \in [Threads -> Requests] /\ got' \in [Threads -> {"none", "response", "exception"}]
      BY DEF IInv, TypeOK, Ask, Delegate, Hello, Return, Answer
    <2> QED
      BY <1>1, <2>1, <2>2 DEF IInv, TypeOK
  <1>3. WritersOwn'
    BY <1>1 DEF IInv, TypeOK, WritersOwn
  <1>4. LineOfOwner'
    <2>1. ASSUME lock_ # None PROVE Written(lock_)' = Written(lock_)
      BY <1>1, <2>1 DEF IInv, TypeOK, Written, Writing
    <2> QED
      BY <1>1, <2>1 DEF IInv, LineOfOwner
  <1> QED
    BY <1>2, <1>3, <1>4 DEF IInv

(* The steps of Logger that write.                                         *)
LEMMA LoggingKeepsIInv ==
  ASSUME IInv, NEW t \in Threads,
         \/ Lock(t) \/ WriteAddress(t) \/ WriteUri(t) \/ UriThrows(t) \/ WriteRest(t) \/ Unlock(t)
  PROVE  IInv'
  <1>1. /\ pc' = [pc EXCEPT ![t] = pc'[t]] /\ pc'[t] \in Labels
        /\ request' = request
        /\ got' \in [Threads -> {"none", "response", "exception"}]
        /\ lock_ \in Threads \cup {None} /\ lock_' \in Threads \cup {None}
    BY DEF IInv, TypeOK, Lock, WriteAddress, WriteUri, UriThrows, WriteRest, Unlock, Go,
           Labels, Writing
  <1>2. line \in Seq(Threads \X {"address", "uri"})
    BY DEF IInv, TypeOK
  <1>3. line' \in Seq(Threads \X {"address", "uri"})
    <2>1. ASSUME NEW p \in {"address", "uri"}
          PROVE  Append(line, <<t, p>>) \in Seq(Threads \X {"address", "uri"})
      <3>1. <<t, p>> \in Threads \X {"address", "uri"}
        OBVIOUS
      <3> QED
        BY <1>2, <3>1
    <2>2. <<>> \in Seq(Threads \X {"address", "uri"})
      OBVIOUS
    <2>3. line' \in {line, <<>>, Append(line, <<t, "address">>), Append(line, <<t, "uri">>)}
      BY DEF Lock, WriteAddress, WriteUri, UriThrows, WriteRest, Unlock
    <2> QED
      BY <1>2, <2>1, <2>2, <2>3
  <1>4. TypeOK'
    <2>1. pc' \in [Threads -> Labels]
      BY <1>1 DEF IInv, TypeOK
    <2> QED
      BY <1>1, <1>3, <2>1 DEF IInv, TypeOK
  <1>5. pc[t] \in Writing => lock_ = t /\ line = Written(t)
    BY DEF IInv, WritersOwn, LineOfOwner
  <1>6. \A u \in Threads : u # t => pc'[u] = pc[u]
    BY <1>1 DEF IInv, TypeOK
  <1>7. CASE Lock(t)
    <2>1. lock_ = None /\ lock_' = t /\ line' = <<>> /\ pc'[t] = "address"
      BY <1>7 DEF Lock, Go, IInv, TypeOK, LineOfOwner
    <2> QED
      BY <1>4, <1>6, <2>1 DEF IInv, LineOfOwner, Written, WritersOwn
  <1>8. CASE WriteAddress(t)
    <2>1. lock_ = t /\ lock_' = t /\ line = <<>> /\ pc'[t] = "uri" /\ line' = Append(line, <<t, "address">>)
      BY <1>5, <1>8 DEF WriteAddress, Go, IInv, TypeOK, Writing, Written
    <2>2. line' = << <<t, "address">> >>
      BY <2>1
    <2> QED
      BY <1>4, <1>6, <2>1, <2>2 DEF IInv, LineOfOwner, Written, WritersOwn
  <1>9. CASE WriteUri(t)
    <2>1. /\ lock_ = t /\ lock_' = t /\ line = << <<t, "address">> >> /\ pc'[t] = "rest"
          /\ line' = Append(line, <<t, "uri">>)
      BY <1>5, <1>9 DEF WriteUri, Go, IInv, TypeOK, Writing, Written
    <2>2. line' = << <<t, "address">>, <<t, "uri">> >>
      BY <2>1, AppendToOne
    <2> QED
      BY <1>4, <1>6, <2>1, <2>2 DEF IInv, LineOfOwner, Written, WritersOwn
  <1>10. CASE UriThrows(t)
    <2>1. lock_ = t /\ lock_' = t /\ line' = << <<t, "address">> >> /\ pc'[t] = "returned"
      BY <1>5, <1>10 DEF UriThrows, Go, IInv, TypeOK, Writing, Written
    <2> QED
      BY <1>4, <1>6, <2>1 DEF IInv, LineOfOwner, Written, WritersOwn
  <1>11. CASE WriteRest(t)
    <2>1. lock_ = t /\ lock_' = t /\ line' = <<>> /\ pc'[t] = "unlock"
      BY <1>5, <1>11 DEF WriteRest, Go, IInv, TypeOK, Writing
    <2> QED
      BY <1>4, <1>6, <2>1 DEF IInv, LineOfOwner, Written, WritersOwn
  <1>12. CASE Unlock(t)
    <2>1. lock_ = t /\ lock_' = None /\ line' = <<>> /\ pc'[t] = "returned"
      BY <1>5, <1>12 DEF Unlock, Go, IInv, TypeOK, Writing, Written
    <2> QED
      BY <1>4, <1>6, <2>1 DEF IInv, LineOfOwner, WritersOwn, Writing
  <1> QED
    BY <1>7, <1>8, <1>9, <1>10, <1>11, <1>12

LEMMA NextIInv == IInv /\ [Next]_vars => IInv'
  <1> SUFFICES ASSUME IInv, [Next]_vars PROVE IInv'
    OBVIOUS
  <1>1. ASSUME NEW t \in Threads, Serve(t) PROVE IInv'
    BY <1>1, OutsideKeepsIInv, LoggingKeepsIInv DEF Serve
  <1>2. ASSUME NEW t \in Threads, NEW r \in Requests, Ask(t, r) PROVE IInv'
    BY <1>2, OutsideKeepsIInv
  <1>3. CASE UNCHANGED vars
    BY <1>3 DEF vars, IInv, TypeOK, LineOfOwner, Written, WritersOwn
  <1> QED
    BY <1>1, <1>2, <1>3 DEF Next

(* Types, who has the mutex, and what the unfinished line holds.           *)
THEOREM IInvHolds == Spec => []IInv
  BY InitIInv, NextIInv, PTL DEF Spec

-----------------------------------------------------------------------------
(* No line of the log mixes requests, whatever throws.                     *)
THEOREM LogLinesAreWhole == Spec => []LinesAreWhole
  <1>1. IInv => LinesAreWhole
    <2> SUFFICES ASSUME IInv PROVE LinesAreWhole
      OBVIOUS
    <2>1. PICK t : line \in {<<>>, << <<t, "address">> >>, << <<t, "address">>, <<t, "uri">> >>}
      <3>1. line = <<>> \/ line = Written(lock_)
        BY DEF IInv, LineOfOwner
      <3> QED
        BY <3>1 DEF Written
    <2> QED
      BY <2>1 DEF LinesAreWhole, Pieces
  <1> QED
    BY <1>1, IInvHolds, PTL

(* A mutex that an exception has left locked ends the log, and with it all *)
(* requests that are not logged yet.                                       *)
THEOREM LogEnds == Spec => LogEndsWhenAbandoned
  <1>1. IInv /\ [Next]_vars =>
          [Abandoned =>
             /\ line' = line
             /\ \A t \in Threads : pc[t] \in Inside => pc'[t] \in Inside]_vars
    <2> SUFFICES ASSUME IInv, Next, Abandoned
                 PROVE  /\ line' = line
                        /\ \A t \in Threads : pc[t] \in Inside => pc'[t] \in Inside
      OBVIOUS
    <2>1. /\ \A t \in Threads : pc[t] \notin Writing
          /\ lock_ # None /\ pc \in [Threads -> Labels]
      BY DEF IInv, TypeOK, WritersOwn, Abandoned
    <2>2. PICK t \in Threads : Serve(t) \/ \E r \in Requests : Ask(t, r)
      BY DEF Next
    <2>3. \/ \E r \in Requests : Ask(t, r)
          \/ Delegate(t) \/ Hello(t) \/ Return(t) \/ Answer(t)
      BY <2>1, <2>2 DEF Serve, Lock, WriteAddress, WriteUri, UriThrows, WriteRest, Unlock, Go, Writing
    <2>4. line' = line /\ pc' = [pc EXCEPT ![t] = pc'[t]] /\ (pc[t] \in Inside => pc'[t] \in Inside)
      BY <2>1, <2>3 DEF Ask, Delegate, Hello, Return, Answer, Go, Inside
    <2> QED
      BY <2>1, <2>4
  <1> QED
    BY <1>1, IInvHolds, PTL DEF Spec, LogEndsWhenAbandoned

-----------------------------------------------------------------------------
LEMMA CallersOfTwo ==
  ASSUME NEW a, NEW b
  PROVE  SubSeq(<<a, b>>, 1, Len(<<a, b>>) - 1) = <<a>>
  <1> DEFINE S == {a, b}
             s == <<a, b>>
             p == SubSeq(s, 1, 1)
             q == <<a>>
  <1>1. Len(s) - 1 = 1 /\ s[1] = a
    OBVIOUS
  <1>2. p \in Seq(S) /\ Len(p) = 1 /\ p[1] = a
    <2>1. \A i \in 1..1 : s[i] \in S
      BY <1>1
    <2> HIDE DEF s, S
    <2>2. /\ SubSeq(s, 1, 1) \in Seq(S)
          /\ Len(SubSeq(s, 1, 1)) = IF 1 <= 1 THEN 1 - 1 + 1 ELSE 0
          /\ \A i \in 1 .. 1 - 1 + 1 : SubSeq(s, 1, 1)[i] = s[1 + i - 1]
      BY <2>1, SubSeqProperties
    <2>3. p = SubSeq(s, 1, 1)
      OBVIOUS
    <2> HIDE DEF p
    <2> QED
      BY <1>1, <2>2, <2>3
  <1>3. q \in Seq(S) /\ Len(q) = 1 /\ q[1] = a
    OBVIOUS
  <1>4. p = q
    <2> HIDE DEF p, q, S
    <2> QED
      BY <1>2, <1>3, SeqEqual
  <1> QED
    BY <1>1, <1>4

LEMMA CallersOfThree ==
  ASSUME NEW a, NEW b, NEW c
  PROVE  SubSeq(<<a, b, c>>, 1, Len(<<a, b, c>>) - 1) = <<a, b>>
  <1> DEFINE S == {a, b, c}
             s == <<a, b, c>>
             p == SubSeq(s, 1, 2)
             q == <<a, b>>
  <1>1. Len(s) - 1 = 2 /\ s[1] = a /\ s[2] = b
    OBVIOUS
  <1>2. p \in Seq(S) /\ Len(p) = 2 /\ p[1] = a /\ p[2] = b
    <2>1. \A i \in 1..2 : s[i] \in S
      BY <1>1
    <2> HIDE DEF s, S
    <2>2. /\ SubSeq(s, 1, 2) \in Seq(S)
          /\ Len(SubSeq(s, 1, 2)) = IF 1 <= 2 THEN 2 - 1 + 1 ELSE 0
          /\ \A i \in 1 .. 2 - 1 + 1 : SubSeq(s, 1, 2)[i] = s[1 + i - 1]
      BY <2>1, SubSeqProperties
    <2>3. p = SubSeq(s, 1, 2)
      OBVIOUS
    <2> HIDE DEF p
    <2> QED
      BY <1>1, <2>2, <2>3
  <1>3. q \in Seq(S) /\ Len(q) = 2 /\ q[1] = a /\ q[2] = b
    OBVIOUS
  <1>4. p = q
    <2> HIDE DEF p, q, S
    <2>1. \A i \in 1..2 : p[i] = q[i]
      BY <1>2, <1>3
    <2> QED
      BY <1>2, <1>3, <2>1, SeqEqual
  <1> QED
    BY <1>1, <1>4

LEMMA CallersOfOne ==
  ASSUME NEW a
  PROVE  SubSeq(<<a>>, 1, Len(<<a>>) - 1) = <<>>
  <1>1. Len(<<a>>) - 1 = 0
    OBVIOUS
  <1> QED
    BY <1>1, SubSeqEmpty

(* A step of another thread.                                               *)
LEMMA OthersLeaveChain ==
  ASSUME NEW t \in Threads, pc'[t] = pc[t], request'[t] = request[t], got'[t] = got[t]
  PROVE  UNCHANGED Chain(t)!vars
  BY DEF Chain!vars, StackOf, CurrentOf, PassedOf

(* The listener asks, and the middlewares hand the request on.             *)
LEMMA AskIsAsk ==
  ASSUME IInv, NEW t \in Threads, NEW r \in Requests, Ask(t, r)
  PROVE  Chain(t)!Ask(r.complete) /\ r.complete \in BOOLEAN
  <1>1. pc[t] = "idle" /\ pc'[t] = "error_handler" /\ request'[t] = r
    BY DEF Ask, Go, IInv, TypeOK
  <1>2. /\ StackOf(t) = <<>> /\ StackOf(t)' = <<Called(0, "none")>>
        /\ CurrentOf(t) = 0 /\ CurrentOf(t)' = 1
        /\ PassedOf(t) = {} /\ PassedOf(t)' = {}
    BY <1>1 DEF StackOf, CurrentOf, PassedOf, Writing
  <1>3. Append(<<>>, Called(0, "none")) = <<Called(0, "none")>>
    OBVIOUS
  <1>4. r.complete \in BOOLEAN
    BY Zenon DEF Requests
  <1>5. Chain(t)!Call
    BY <1>1, <1>2, <1>3 DEF Chain!Call, Called
  <1> QED
    BY <1>1, <1>2, <1>4, <1>5 DEF Chain!Ask

LEMMA DelegateIsDelegate ==
  ASSUME IInv, NEW t \in Threads, Delegate(t)
  PROVE  Chain(t)!Delegate
  <1>1. request'[t] = request[t]
    BY DEF Delegate
  <1>2. CASE pc[t] = "error_handler" /\ pc'[t] = "logger"
    <2>1. /\ StackOf(t) = <<Called(0, "none")>>
          /\ StackOf(t)' = <<Called(0, "none"), Called(1, "none")>>
          /\ CurrentOf(t) = 1 /\ CurrentOf(t)' = 2
          /\ PassedOf(t) = {} /\ PassedOf(t)' = {0}
      BY <1>2 DEF StackOf, CurrentOf, PassedOf, Writing
    <2>2. Append(StackOf(t), Called(1, "none")) = StackOf(t)'
      BY <2>1, AppendToOne
    <2>3. Chain(t)!Top = Called(0, "none") /\ StackOf(t) # <<>>
      BY <2>1 DEF Chain!Top
    <2>4. Chain(t)!Call
      BY <1>2, <2>1, <2>2, <2>3 DEF Chain!Call, Called
    <2> QED
      BY <1>1, <1>2, <2>3, <2>4 DEF Chain!Delegate, Called
  <1>3. CASE pc[t] = "logger" /\ pc'[t] = "hello"
    <2>1. /\ StackOf(t) = <<Called(0, "none"), Called(1, "none")>>
          /\ StackOf(t)' = <<Called(0, "none"), Called(1, "none"), Called(2, "none")>>
          /\ CurrentOf(t) = 2 /\ CurrentOf(t)' = 3
          /\ PassedOf(t) = {0} /\ PassedOf(t)' = {0, 1}
      BY <1>3 DEF StackOf, CurrentOf, PassedOf, Writing
    <2>2. Append(StackOf(t), Called(2, "none")) = StackOf(t)'
      BY <2>1, AppendToTwo
    <2>3. Chain(t)!Top = Called(1, "none") /\ StackOf(t) # <<>>
      BY <2>1 DEF Chain!Top
    <2>4. Chain(t)!Call
      BY <1>3, <2>1, <2>2, <2>3 DEF Chain!Call, Called
    <2> QED
      BY <1>1, <1>3, <2>3, <2>4 DEF Chain!Delegate, Called
  <1> QED
    BY <1>2, <1>3 DEF Delegate, Go, IInv, TypeOK

(* Each return of a middleware gives its caller a response, but for the    *)
(* exception of Logger.                                                    *)
LEMMA ReturnsRespond ==
  ASSUME IInv, NEW t \in Threads, Hello(t) \/ Unlock(t) \/ Return(t)
  PROVE  Chain(t)!Respond
  <1>1. request'[t] = request[t]
    BY DEF Hello, Unlock, Return
  <1>2. CASE Hello(t)
    <2>1. pc[t] = "hello" /\ pc'[t] = "wait"
      BY <1>2 DEF Hello, Go, IInv, TypeOK
    <2>2. /\ StackOf(t) = <<Called(0, "none"), Called(1, "none"), Called(2, "none")>>
          /\ StackOf(t)' = <<Called(0, "none"), Called(1, "response")>>
          /\ CurrentOf(t) = 3 /\ CurrentOf(t)' = 3 /\ PassedOf(t)' = PassedOf(t)
      BY <2>1 DEF StackOf, CurrentOf, PassedOf, Writing
    <2>3. Chain(t)!Callers = <<Called(0, "none"), Called(1, "none")>>
      BY <2>2, CallersOfThree DEF Chain!Callers
    <2>4. Chain(t)!Give("response", Chain(t)!Callers)
      BY <2>1, <2>2, <2>3 DEF Chain!Give, Called
    <2> QED
      BY <1>1, <2>1, <2>2, <2>4 DEF Chain!Respond
  <1>3. CASE Unlock(t)
    <2>1. pc[t] = "unlock" /\ pc'[t] = "returned" /\ got'[t] = "response"
      BY <1>3 DEF Unlock, Go, IInv, TypeOK
    <2>2. /\ StackOf(t) = <<Called(0, "none"), Called(1, "response")>>
          /\ StackOf(t)' = <<Called(0, "response")>>
          /\ CurrentOf(t) = 3 /\ CurrentOf(t)' = 3 /\ PassedOf(t)' = PassedOf(t)
      BY <2>1 DEF StackOf, CurrentOf, PassedOf, Writing
    <2>3. Chain(t)!Callers = <<Called(0, "none")>>
      BY <2>2, CallersOfTwo DEF Chain!Callers
    <2>4. Chain(t)!Give("response", Chain(t)!Callers)
      BY <2>1, <2>2, <2>3 DEF Chain!Give, Called
    <2> QED
      BY <1>1, <2>1, <2>2, <2>4 DEF Chain!Respond
  <1>4. CASE Return(t)
    <2>1. pc[t] = "returned" /\ pc'[t] = "answer"
      BY <1>4 DEF Return, Go, IInv, TypeOK
    <2>2. /\ StackOf(t) = <<Called(0, got[t])>> /\ StackOf(t)' = <<>>
          /\ CurrentOf(t) = 3 /\ CurrentOf(t)' = 3 /\ PassedOf(t)' = PassedOf(t)
      BY <2>1 DEF StackOf, CurrentOf, PassedOf, Writing
    <2>3. Chain(t)!Callers = <<>>
      BY <2>2, CallersOfOne DEF Chain!Callers
    <2>4. Chain(t)!Give("response", Chain(t)!Callers)
      BY <2>1, <2>2, <2>3 DEF Chain!Give
    <2> QED
      BY <1>1, <2>1, <2>2, <2>4 DEF Chain!Respond
  <1> QED
    BY <1>2, <1>3, <1>4

LEMMA UriThrowsIsThrow ==
  ASSUME IInv, NEW t \in Threads, UriThrows(t)
  PROVE  Chain(t)!Throw
  <1>1. pc[t] = "uri" /\ pc'[t] = "returned" /\ got'[t] = "exception" /\ request'[t] = request[t]
    BY DEF UriThrows, Go, IInv, TypeOK
  <1>2. /\ StackOf(t) = <<Called(0, "none"), Called(1, "response")>>
        /\ StackOf(t)' = <<Called(0, "exception")>>
        /\ CurrentOf(t) = 3 /\ CurrentOf(t)' = 3 /\ PassedOf(t)' = PassedOf(t)
    BY <1>1 DEF StackOf, CurrentOf, PassedOf, Writing
  <1>3. Chain(t)!Callers = <<Called(0, "none")>>
    BY <1>2, CallersOfTwo DEF Chain!Callers
  <1>4. Chain(t)!Give("exception", Chain(t)!Callers)
    BY <1>1, <1>2, <1>3 DEF Chain!Give, Called
  <1> QED
    BY <1>1, <1>2, <1>4 DEF Chain!Throw

LEMMA AnswerIsAnswer ==
  ASSUME IInv, NEW t \in Threads, Answer(t)
  PROVE  Chain(t)!Answer
  <1>1. pc[t] = "answer" /\ pc'[t] = "idle"
    BY DEF Answer, Go, IInv, TypeOK
  <1>2. /\ StackOf(t) = <<>> /\ StackOf(t)' = <<>>
        /\ CurrentOf(t)' = 0 /\ PassedOf(t)' = {}
    BY <1>1 DEF StackOf, CurrentOf, PassedOf, Writing
  <1> QED
    BY <1>1, <1>2 DEF Chain!Answer, Chain!Reset

(* What Logger does with its mutex and cout is none of the chain's.        *)
LEMMA LoggingLeavesChain ==
  ASSUME IInv, NEW t \in Threads, Lock(t) \/ WriteAddress(t) \/ WriteUri(t) \/ WriteRest(t)
  PROVE  UNCHANGED Chain(t)!vars
  <1>1. /\ pc[t] \in {"wait", "address", "uri", "rest"} /\ pc'[t] \in Writing
        /\ request'[t] = request[t]
    BY DEF Lock, WriteAddress, WriteUri, WriteRest, Go, IInv, TypeOK, Writing
  <1>2. /\ StackOf(t)' = StackOf(t) /\ CurrentOf(t)' = CurrentOf(t) /\ PassedOf(t)' = PassedOf(t)
    BY <1>1 DEF StackOf, CurrentOf, PassedOf, Writing
  <1> QED
    BY <1>1, <1>2 DEF Chain!vars, Writing

LEMMA StepOfChain ==
  ASSUME IInv, [Next]_vars, NEW t \in Threads
  PROVE  Chain(t)!Next \/ UNCHANGED Chain(t)!vars
  <1>1. ASSUME NEW u \in Threads, u # t, Serve(u) \/ \E r \in Requests : Ask(u, r)
        PROVE  UNCHANGED Chain(t)!vars
    <2>1. pc'[t] = pc[t] /\ request'[t] = request[t] /\ got'[t] = got[t]
      BY <1>1 DEF IInv, TypeOK, Serve, Ask, Delegate, Hello, Lock, WriteAddress, WriteUri,
                  UriThrows, WriteRest, Unlock, Return, Answer, Go
    <2> QED
      BY <2>1, OthersLeaveChain
  <1>2. ASSUME NEW r \in Requests, Ask(t, r) PROVE Chain(t)!Next
    BY <1>2, AskIsAsk DEF Chain!Next
  <1>3. CASE Delegate(t)
    BY <1>3, DelegateIsDelegate DEF Chain!Next, Chain!Application
  <1>4. CASE Hello(t) \/ Unlock(t) \/ Return(t)
    BY <1>4, ReturnsRespond DEF Chain!Next, Chain!Application
  <1>5. CASE UriThrows(t)
    BY <1>5, UriThrowsIsThrow DEF Chain!Next, Chain!Application
  <1>6. CASE Answer(t)
    BY <1>6, AnswerIsAnswer DEF Chain!Next
  <1>7. CASE Lock(t) \/ WriteAddress(t) \/ WriteUri(t) \/ WriteRest(t)
    BY <1>7, LoggingLeavesChain
  <1>8. CASE UNCHANGED vars
    BY <1>8, OthersLeaveChain DEF vars
  <1>9. CASE Serve(t)
    BY <1>3, <1>4, <1>5, <1>6, <1>7, <1>9 DEF Serve
  <1> QED
    BY <1>1, <1>2, <1>8, <1>9 DEF Next

LEMMA StartOfChain ==
  ASSUME Init, NEW t \in Threads
  PROVE  Chain(t)!Init
  <1>1. pc[t] = "idle"
    BY DEF Init
  <1> QED
    BY <1>1 DEF Chain!Init, StackOf, CurrentOf, PassedOf, Writing

(* The middlewares of the demo are well-behaved ones of MiddlewareChain.   *)
THEOREM DemoFollowsChain == Spec => FollowsChain
  <1>1. Init => \A t \in Threads : Chain(t)!Init
    BY StartOfChain
  <1>2. IInv /\ [Next]_vars => [\A t \in Threads : Chain(t)!Next \/ UNCHANGED Chain(t)!vars]_vars
    BY StepOfChain
  <1> QED
    BY <1>1, <1>2, IInvHolds, PTL DEF Spec, FollowsChain

(* So each thread of the demo implements the specification of the chain.   *)
THEOREM EachThreadIsAChain ==
  ASSUME NEW t \in Threads
  PROVE  Spec => Chain(t)!Spec
  <1>1. Init => Chain(t)!Init
    BY StartOfChain
  <1>2. IInv /\ [Next]_vars => [Chain(t)!Next]_(Chain(t)!vars)
    BY StepOfChain
  <1> QED
    BY <1>1, <1>2, IInvHolds, PTL DEF Spec, Chain!Spec
=============================================================================
