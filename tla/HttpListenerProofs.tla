-------------------------- MODULE HttpListenerProofs --------------------------
(***************************************************************************)
(* The listener of HttpListener, for any streams of data cut in any way:   *)
(* Inv is inductive, and the parts of it a reader should know of hold.     *)
(* And for streams of the grammar, not cut inside a CRLF: the responses    *)
(* follow the requests (Framing).                                          *)
(***************************************************************************)
EXTENDS HttpListener, TLAPS

(* A token that arrives is one of the stream's.                            *)
LEMMA ReceiveKeepsTypes ==
  ASSUME TypeOK, Receive
  PROVE  /\ Token \in Tokens
         /\ UNCHANGED <<stream, avail, peer, open, output>>
         /\ pos' \in 0..avail /\ parts' \subseteq Nat
  <1>1. /\ stream \in Seq(Tokens) /\ avail \in 0..Len(stream) /\ pos \in 0..avail
        /\ parts \subseteq Nat /\ pos < avail
    BY DEF TypeOK, Receive
  <1>2. pos + 1 \in 1..Len(stream)
    BY <1>1
  <1>3. Token \in Tokens
    BY <1>1, <1>2 DEF Token
  <1>4. Token.req \in Nat
    BY <1>3 DEF Tokens
  <1>5. pos' \in 0..avail
    BY <1>1 DEF Receive
  <1> QED
    BY <1>1, <1>3, <1>4, <1>5 DEF Receive

(* A content length that can be read is a number.                          *)
LEMMA ContentLengthType ==
  ASSUME TypeOK
  PROVE  ContentLength \in Nat
  <1>1. lengths # <<>> => lengths[1] \in Tokens
    BY DEF TypeOK
  <1> QED
    BY <1>1 DEF ContentLength, Tokens

-----------------------------------------------------------------------------
LEMMA InitInv == Init => Inv
  <1> SUFFICES ASSUME Init PROVE Inv
    OBVIOUS
  <1>1. stream \in Seq(Tokens) /\ line_ \in Seq(Tokens) /\ lengths \in Seq(Tokens)
    BY DEF Init
  <1>2. output \in Seq([req : SUBSET Nat, status : {"answer", "400"}])
    BY DEF Init
  <1>3. avail \in 0..Len(stream) /\ pos \in 0..avail /\ loaded_body_size_ \in Nat /\ parts \subseteq Nat
    BY DEF Init
  <1>4. /\ peer \in Peers /\ chain \in {"start", "moved"} /\ pc \in Labels
        /\ state_ \in {"INVALID", "REQUEST_LINE", "HEADERS", "BODY"}
    BY DEF Init, Labels, Peers
  <1>5. /\ open \in BOOLEAN /\ response_sent_ \in BOOLEAN /\ keepAlive \in BOOLEAN
        /\ expect_lf \in BOOLEAN /\ line_started \in BOOLEAN /\ ending \in BOOLEAN
    BY DEF Init
  <1>6. TypeOK
    BY <1>1, <1>2, <1>3, <1>4, <1>5 DEF TypeOK
  <1>7. loaded_body_size_ <= ContentLength
    BY <1>3, <1>6, ContentLengthType DEF Init
  <1> QED
    BY <1>6, <1>7 DEF Init, Inv, WhereItIs, FreshRequest, BodyWithinLength

(* A reset leaves a listener without a request, wherever it goes on.       *)
LEMMA ResetKeepsInv ==
  ASSUME Inv, ResetRequestParsing, pc' \in {"idle", "return"},
         stream' \in Seq(Tokens), avail' \in 0..Len(stream'), pos' \in 0..avail',
         peer' \in Peers, open' \in BOOLEAN,
         output' \in Seq([req : SUBSET Nat, status : {"answer", "400"}]),
         UNCHANGED localVars
  PROVE  Inv'
  <1>1. /\ line_' \in Seq(Tokens) /\ lengths' \in Seq(Tokens) /\ lengths' = <<>>
        /\ state_' = "INVALID" /\ chain' = "start" /\ loaded_body_size_' = 0
        /\ parts' \subseteq Nat /\ pc' \in Labels
    BY DEF ResetRequestParsing, Labels
  <1>2. response_sent_' = FALSE /\ keepAlive' = FALSE
    BY DEF ResetRequestParsing
  <1>3. expect_lf' \in BOOLEAN /\ line_started' \in BOOLEAN /\ ending' \in BOOLEAN
    BY DEF Inv, TypeOK, localVars
  <1>4. TypeOK'
    BY <1>1, <1>2, <1>3 DEF TypeOK
  <1>5. ContentLength' = 0
    BY <1>1 DEF ContentLength
  <1> QED
    BY <1>1, <1>2, <1>4, <1>5 DEF Inv, WhereItIs, FreshRequest, BodyWithinLength

(* What happens to the socket alone, and the steps between the calls.      *)
LEMMA SocketKeepsInv ==
  ASSUME Inv, UNCHANGED <<listenerVars, parts, stream>>,
         UNCHANGED <<avail, pos>> \/ (avail' \in avail..Len(stream) /\ pos' = pos),
         peer' \in Peers, open' \in BOOLEAN,
         output' \in Seq([req : SUBSET Nat, status : {"answer", "400"}]),
         expect_lf' \in BOOLEAN, line_started' \in BOOLEAN, ending' \in BOOLEAN,
         \/ pc' = pc
         \/ pc' \in {"closed", "killed", "idle", "head", "refuse", "return"}
         \/ pc' = "receive" /\ state_ \in {"INVALID", "REQUEST_LINE"}
         \/ pc' = "body" /\ state_ = "HEADERS"
         \/ pc' \in {"handle", "complete"} /\ state_ \in {"HEADERS", "BODY"}
  PROVE  Inv'
  <1>1. /\ stream \in Seq(Tokens) /\ avail \in 0..Len(stream) /\ pos \in 0..avail
        /\ line_ \in Seq(Tokens) /\ lengths \in Seq(Tokens) /\ loaded_body_size_ \in Nat
        /\ state_ \in {"INVALID", "REQUEST_LINE", "HEADERS", "BODY"}
        /\ chain \in {"start", "moved"} /\ parts \subseteq Nat /\ pc \in Labels
    BY DEF Inv, TypeOK
  <1>2. response_sent_ \in BOOLEAN /\ keepAlive \in BOOLEAN
    BY DEF Inv, TypeOK
  <1>3. /\ stream' = stream /\ line_' = line_ /\ lengths' = lengths /\ state_' = state_
        /\ loaded_body_size_' = loaded_body_size_ /\ response_sent_' = response_sent_
        /\ keepAlive' = keepAlive /\ chain' = chain /\ parts' = parts
    BY DEF listenerVars, requestVars
  <1>4. avail' \in 0..Len(stream') /\ pos' \in 0..avail'
    BY <1>1, <1>3
  <1>5. pc' \in Labels
    BY <1>1 DEF Labels
  <1>6. TypeOK'
    BY <1>1, <1>2, <1>3, <1>4, <1>5 DEF TypeOK
  <1>7. ContentLength' = ContentLength
    BY <1>3 DEF ContentLength
  <1>8. WhereItIs'
    BY <1>3 DEF Inv, WhereItIs
  <1> QED
    BY <1>3, <1>6, <1>7, <1>8 DEF Inv, FreshRequest, BodyWithinLength

(* A response is one more record of the output.                            *)
LEMMA OutputType ==
  ASSUME TypeOK, NEW status \in {"answer", "400"}
  PROVE  Append(output, [req |-> parts, status |-> status])
           \in Seq([req : SUBSET Nat, status : {"answer", "400"}])
  BY DEF TypeOK

-----------------------------------------------------------------------------
(* receiveLine within a line, and a CRLF that is skipped.                  *)
LEMMA ReceiveKeepsInv ==
  ASSUME Inv, ReceiveCR \/ ReceiveText \/ ReceiveInvalid \/ SkipCRLF
  PROVE  Inv'
  <1>1. /\ Receive /\ pc = "receive" /\ ending' = ending
        /\ UNCHANGED <<requestVars, loaded_body_size_, response_sent_, chain>>
        /\ line_' \in {line_, Append(line_, Token)}
        /\ pc' \in {"receive", "refuse", "head"}
    BY DEF ReceiveCR, ReceiveText, ReceiveInvalid, SkipCRLF, EndOfLine, listenerVars, localVars
  <1>2. expect_lf' \in BOOLEAN /\ line_started' \in BOOLEAN
    BY DEF ReceiveCR, ReceiveText, ReceiveInvalid, SkipCRLF, localVars, Inv, TypeOK
  <1>3. /\ Token \in Tokens /\ UNCHANGED <<stream, avail, peer, open, output>>
        /\ pos' \in 0..avail /\ parts' \subseteq Nat
    BY <1>1, ReceiveKeepsTypes DEF Inv
  <1>4. line_' \in Seq(Tokens)
    <2>1. line_ \in Seq(Tokens)
      BY DEF Inv, TypeOK
    <2>2. Append(line_, Token) \in Seq(Tokens)
      BY <1>3, <2>1
    <2> QED
      BY <1>1, <2>1, <2>2
  <1>5. pc' \in Labels
    BY <1>1 DEF Labels
  <1>6. TypeOK'
    BY <1>1, <1>2, <1>3, <1>4, <1>5 DEF Inv, TypeOK, requestVars
  <1>7. ContentLength' = ContentLength
    BY <1>1 DEF ContentLength, requestVars
  <1>8. WhereItIs'
    BY <1>1 DEF Inv, WhereItIs, requestVars
  <1>9. FreshRequest' /\ BodyWithinLength'
    BY <1>1, <1>7 DEF Inv, FreshRequest, BodyWithinLength, requestVars
  <1> QED
    BY <1>6, <1>8, <1>9 DEF Inv

(* A line of the head that is complete: nothing of the body and no         *)
(* response is there yet.                                                  *)
LEMMA HeadKeepsInv ==
  ASSUME Inv, RequestLine \/ HeaderLine \/ EndOfHead
  PROVE  Inv'
  <1>1. /\ Receive /\ pc = "receive"
        /\ UNCHANGED <<loaded_body_size_, response_sent_, chain, localVars>>
    BY DEF RequestLine, HeaderLine, EndOfHead, EndOfLine
  <1>2. /\ Token \in Tokens /\ UNCHANGED <<stream, avail, peer, open, output>>
        /\ pos' \in 0..avail /\ parts' \subseteq Nat
    BY <1>1, ReceiveKeepsTypes DEF Inv
  <1>3. loaded_body_size_ = 0 /\ ~response_sent_ /\ chain = "start" /\ ContentLength \in Nat
    BY <1>1, ContentLengthType DEF Inv, WhereItIs
  <1>4. /\ line_' \in Seq(Tokens)
        /\ lengths' \in Seq(Tokens) /\ keepAlive' \in BOOLEAN
    <2>1. line_' \in {<<>>, line_}
      BY DEF RequestLine, HeaderLine, EndOfHead
    <2>2. ASSUME NEW first \in TextPositions, AddHeader(line_[first])
          PROVE  lengths' \in Seq(Tokens) /\ keepAlive' \in BOOLEAN
      <3>1. line_[first] \in Tokens
        BY DEF TextPositions, Inv, TypeOK
      <3>2. lengths' \in Seq(Tokens)
        <4>1. lengths \in Seq(Tokens)
          BY DEF Inv, TypeOK
        <4>2. Append(lengths, line_[first]) \in Seq(Tokens)
          BY <3>1, <4>1
        <4> QED
          BY <2>2, <4>1, <4>2 DEF AddHeader
      <3>3. keepAlive' \in BOOLEAN
        BY <2>2 DEF AddHeader
      <3> QED
        BY <3>2, <3>3
    <2>3. /\ UNCHANGED <<keepAlive, lengths>>
             => lengths' \in Seq(Tokens) /\ keepAlive' \in BOOLEAN
          /\ UNCHANGED requestVars => UNCHANGED <<keepAlive, lengths>>
      BY DEF Inv, TypeOK, requestVars
    <2>4. lengths' \in Seq(Tokens) /\ keepAlive' \in BOOLEAN
      BY <2>2, <2>3 DEF RequestLine, HeaderLine, EndOfHead
    <2>5. line_ \in Seq(Tokens) /\ <<>> \in Seq(Tokens)
      BY DEF Inv, TypeOK
    <2> QED
      BY <2>1, <2>4, <2>5
  <1>5. \/ /\ state_ = "INVALID" /\ state_' = "REQUEST_LINE" /\ pc' = "head"
           /\ UNCHANGED <<keepAlive, lengths>>
        \/ state_ = "REQUEST_LINE" /\ state_' = state_ /\ pc' \in {"head", "refuse"}
        \/ UNCHANGED requestVars /\ pc' = "refuse"
        \/ /\ state_' = "BODY" /\ pc' = "handle"
           /\ UNCHANGED <<keepAlive, lengths>>
        \/ /\ ContentLength # 0 /\ state_' = "HEADERS" /\ pc' = "body"
           /\ UNCHANGED <<keepAlive, lengths>>
    BY DEF RequestLine, HeaderLine, EndOfHead, requestVars
  <1>6. state_' \in {"INVALID", "REQUEST_LINE", "HEADERS", "BODY"} /\ pc' \in Labels
    BY <1>5 DEF Inv, TypeOK, Labels, requestVars
  <1>7. TypeOK'
    BY <1>1, <1>2, <1>4, <1>6 DEF Inv, TypeOK, localVars
  <1>8. ContentLength' \in Nat /\ (lengths' = lengths => ContentLength' = ContentLength)
    <2>1. ContentLength' \in Nat
      <3>1. lengths' # <<>> => lengths'[1] \in Tokens
        BY <1>4
      <3> QED
        BY <3>1 DEF ContentLength, Tokens
    <2> QED
      BY <2>1 DEF ContentLength
  <1>9. WhereItIs' /\ FreshRequest'
    BY <1>1, <1>3, <1>5 DEF Inv, WhereItIs, FreshRequest, requestVars
  <1>10. BodyWithinLength'
    BY <1>1, <1>3, <1>5, <1>8 DEF Inv, WhereItIs, BodyWithinLength, requestVars
  <1> QED
    BY <1>7, <1>9, <1>10 DEF Inv

(* The body: no more is taken than is missing.                             *)
LEMMA BodyKeepsInv ==
  ASSUME Inv, Body
  PROVE  Inv'
  <1> DEFINE remaining == ContentLength - loaded_body_size_
             received == IF avail - pos < remaining THEN avail - pos ELSE remaining
  <1>1. /\ pos' = pos + received
        /\ parts' = parts \cup {stream[i].req : i \in pos + 1 .. pos + received}
        /\ loaded_body_size_' = loaded_body_size_ + received
        /\ state_' = IF received = remaining THEN "BODY" ELSE state_
        /\ pc = "body" /\ pc' = "handle"
        /\ UNCHANGED <<stream, avail, peer, open, output, keepAlive, lengths, line_,
                       response_sent_, chain, localVars>>
    BY DEF Body
  <1>2. /\ stream \in Seq(Tokens) /\ avail \in 0..Len(stream) /\ pos \in 0..avail
        /\ loaded_body_size_ \in Nat /\ parts \subseteq Nat
    BY DEF Inv, TypeOK
  <1>3. state_ = "HEADERS" /\ ContentLength \in Nat /\ loaded_body_size_ < ContentLength
    BY <1>1, ContentLengthType DEF Inv, WhereItIs, BodyWithinLength
  <1>4. /\ remaining \in Nat /\ received \in Nat /\ received <= remaining
        /\ pos + received <= avail
    BY <1>2, <1>3
  <1>5. \A i \in pos + 1 .. pos + received : stream[i].req \in Nat
    <2>1. \A i \in pos + 1 .. pos + received : i \in 1..Len(stream)
      BY <1>2, <1>4
    <2>2. \A i \in pos + 1 .. pos + received : stream[i] \in Tokens
      BY <1>2, <2>1
    <2> QED
      BY <2>2 DEF Tokens
  <1>6. parts' \subseteq Nat
    BY <1>1, <1>2, <1>5
  <1>7. loaded_body_size_' \in Nat /\ pos' \in 0..avail
    BY <1>1, <1>2, <1>4
  <1>8. state_' \in {"HEADERS", "BODY"} /\ pc' \in Labels
    BY <1>1, <1>3 DEF Labels
  <1>9. TypeOK'
    BY <1>1, <1>6, <1>7, <1>8 DEF Inv, TypeOK, localVars
  <1>10. ContentLength' = ContentLength
    BY <1>1 DEF ContentLength
  <1>11. WhereItIs' /\ FreshRequest'
    BY <1>1, <1>8 DEF WhereItIs, FreshRequest
  <1>12. BodyWithinLength'
    BY <1>1, <1>2, <1>3, <1>4, <1>10 DEF BodyWithinLength
  <1> QED
    BY <1>9, <1>11, <1>12 DEF Inv

(* The application is asked, and the response sent.                        *)
LEMMA HandleKeepsInv ==
  ASSUME Inv, Respond \/ NoResponse
  PROVE  Inv'
  <1>1. /\ pc = "handle" /\ pc' \in {"complete", "killed"} /\ chain' \in {"start", "moved"}
        /\ UNCHANGED <<stream, avail, pos, peer, requestVars, line_, loaded_body_size_, localVars, parts>>
    BY DEF Respond, NoResponse, SendResponse, socketVars
  <1>2. response_sent_' \in BOOLEAN /\ open' \in BOOLEAN
    BY DEF Respond, NoResponse, SendResponse, socketVars, Inv, TypeOK
  <1>3. output' \in Seq([req : SUBSET Nat, status : {"answer", "400"}])
    <2>1. output' \in {output, Append(output, [req |-> parts, status |-> "answer"])}
      BY DEF Respond, NoResponse, SendResponse, socketVars
    <2> QED
      BY <2>1, OutputType DEF Inv, TypeOK
  <1>4. pc' \in Labels
    BY <1>1 DEF Labels
  <1>5. TypeOK'
    BY <1>1, <1>2, <1>3, <1>4 DEF Inv, TypeOK, requestVars, localVars
  <1>6. ContentLength' = ContentLength
    BY <1>1 DEF ContentLength, requestVars
  <1>7. state_' = state_ /\ state_ \in {"HEADERS", "BODY"}
    BY <1>1 DEF Inv, WhereItIs, requestVars
  <1>8. WhereItIs' /\ FreshRequest' /\ BodyWithinLength'
    BY <1>1, <1>6, <1>7 DEF Inv, WhereItIs, FreshRequest, BodyWithinLength
  <1> QED
    BY <1>5, <1>8 DEF Inv

LEMMA NextInv == Inv /\ [Next]_vars => Inv'
  <1> SUFFICES ASSUME Inv, [Next]_vars PROVE Inv'
    OBVIOUS
  <1> USE DEF socketVars
  <1>t. /\ peer \in Peers /\ pc \in Labels
        /\ output \in Seq([req : SUBSET Nat, status : {"answer", "400"}])
        /\ stream \in Seq(Tokens) /\ avail \in 0..Len(stream) /\ pos \in 0..avail
    BY DEF Inv, TypeOK
  <1>b. /\ open \in BOOLEAN /\ expect_lf \in BOOLEAN /\ line_started \in BOOLEAN
        /\ ending \in BOOLEAN
    BY DEF Inv, TypeOK
  <1>s. UNCHANGED localVars => expect_lf' \in BOOLEAN /\ line_started' \in BOOLEAN /\ ending' \in BOOLEAN
    BY <1>b DEF localVars
  <1>1. ASSUME NEW s \in Streams, Connected(s) PROVE Inv'
    <2>1. s \in Seq(Tokens) /\ stream' = s /\ avail' = 0 /\ pos' = 0 /\ output' = <<>>
      BY <1>1, StreamsAssumption DEF Connected
    <2>2. avail' \in 0..Len(stream') /\ pos' \in 0..avail'
      BY <2>1
    <2> QED
      BY <1>1, <2>1, <2>2, ResetKeepsInv DEF Connected, Peers
  <1>2. CASE Deliver
    <2>1. avail' \in avail..Len(stream)
      BY <1>2, <1>t DEF Deliver
    <2> QED
      BY <1>2, <1>t, <1>b, <1>s, <2>1, SocketKeepsInv DEF Deliver
  <1>3. CASE Leave
    <2>1. peer' \in Peers
      BY <1>3 DEF Leave, Peers
    <2> QED
      BY <1>3, <1>t, <1>b, <1>s, <2>1, SocketKeepsInv DEF Leave
  <1>4. CASE DataAvailable
    BY <1>4, <1>t, <1>b, SocketKeepsInv DEF DataAvailable
  <1>5. CASE NextLine
    <2>1. /\ UNCHANGED <<socketVars, listenerVars, ending, parts>>
          /\ expect_lf' \in BOOLEAN /\ line_started' \in BOOLEAN
          /\ \/ pc' = "receive" /\ state_ \in {"INVALID", "REQUEST_LINE"}
             \/ pc' = "body" /\ state_ = "HEADERS"
             \/ pc' = "handle" /\ state_ = "BODY"
      BY <1>5, <1>b DEF NextLine, Inv, TypeOK
    <2> QED
      BY <1>t, <1>b, <2>1, SocketKeepsInv
  <1>6. CASE LineIncomplete \/ RecvThrows
    <2>1. peer' \in Peers
      BY <1>6, <1>t DEF LineIncomplete, RecvThrows, Peers
    <2> QED
      BY <1>6, <1>t, <1>b, <1>s, <2>1, SocketKeepsInv DEF LineIncomplete, RecvThrows
  <1>7. CASE ReceiveCR \/ ReceiveText \/ ReceiveInvalid \/ SkipCRLF
    BY <1>7, ReceiveKeepsInv
  <1>8. CASE RequestLine \/ HeaderLine \/ EndOfHead
    BY <1>8, HeadKeepsInv
  <1>9. CASE Body
    BY <1>9, BodyKeepsInv
  <1>10. CASE Respond \/ NoResponse
    BY <1>10, HandleKeepsInv
  <1>11. CASE ResponseAlreadySent
    <2>1. state_ \in {"HEADERS", "BODY"}
      BY <1>11 DEF ResponseAlreadySent, Inv, WhereItIs
    <2> QED
      BY <1>11, <1>t, <1>b, <1>s, <2>1, SocketKeepsInv DEF ResponseAlreadySent
  <1>12. CASE Complete
    <2>1. /\ pc' = "return" /\ UNCHANGED <<stream, avail, pos, peer, output, localVars>>
          /\ \/ open' = (open /\ keepAlive) /\ ResetRequestParsing
             \/ UNCHANGED <<open, listenerVars, parts>>
      BY <1>12 DEF Complete
    <2>2. CASE open' = (open /\ keepAlive) /\ ResetRequestParsing
      <3>1. open' \in BOOLEAN
        BY <2>2
      <3> QED
        BY <1>t, <2>1, <2>2, <3>1, ResetKeepsInv
    <2>3. CASE UNCHANGED <<open, listenerVars, parts>>
      BY <1>t, <1>b, <1>s, <2>1, <2>3, SocketKeepsInv
    <2> QED
      BY <2>1, <2>2, <2>3
  <1>13. CASE Refuse
    <2>1. output' \in Seq([req : SUBSET Nat, status : {"answer", "400"}])
      BY <1>13, <1>t, OutputType DEF Refuse, SendResponse, Inv
    <2>2. pc' \in {"return", "killed"}
      BY <1>13 DEF Refuse, SendResponse
    <2> QED
      BY <1>13, <1>t, <1>b, <1>s, <2>1, <2>2, SocketKeepsInv DEF Refuse
  <1>14. CASE Return
    BY <1>14, <1>t, <1>b, <1>s, SocketKeepsInv DEF Return
  <1>15. CASE Killed \/ UNCHANGED vars
    BY <1>15, <1>t, <1>b, <1>s, SocketKeepsInv DEF Killed, vars
  <1> QED
    BY <1>1, <1>2, <1>3, <1>4, <1>5, <1>6, <1>7, <1>8, <1>9, <1>10, <1>11, <1>12, <1>13, <1>14,
       <1>15 DEF Next, Server

-----------------------------------------------------------------------------
(* Types, and how much of a request the listener has where.                *)
THEOREM InvHolds == Spec => []Inv
  BY InitInv, NextInv, PTL DEF Spec

(* Nothing of a request is left for the next one.                          *)
THEOREM RequestsStartFresh == Spec => []FreshRequest
  <1>1. Inv => FreshRequest
    BY DEF Inv
  <1> QED
    BY <1>1, InvHolds, PTL

(* No response is sent before the head of its request is complete.         *)
THEOREM ResponsesFollowHeads == Spec => []AnsweredAfterHead
  <1>1. Inv => AnsweredAfterHead
    BY DEF Inv, TypeOK, WhereItIs, AnsweredAfterHead
  <1> QED
    BY <1>1, InvHolds, PTL

(* No more body is received than the content length says.                  *)
THEOREM BodiesKeepTheirLength == Spec => []BodyWithinLength
  <1>1. Inv => BodyWithinLength
    BY DEF Inv
  <1> QED
    BY <1>1, InvHolds, PTL
-----------------------------------------------------------------------------
(* The framing of the streams: with CR and LF never cut apart, and streams *)
(* of the grammar, the listener reads each request as the client meant it. *)

(* Among the first n tokens of s, request r has one of these texts.        *)
Seen(s, texts, n, r) == \E k \in 1..n : s[k].req = r /\ s[k].text \in texts

(* What the listener knows of a head of which n tokens are in lines that   *)
(* it has read to the end.                                                 *)
HeadSoFar(s, n, r, state, keep, lens) ==
  /\ IF state = "INVALID" THEN ~Seen(s, RequestLines, n, r) ELSE Seen(s, {"request line"}, n, r)
  /\ keep <=> Seen(s, {"keep-alive"}, n, r)
  /\ lens # <<>> => Seen(s, LengthTexts, n, r)
  /\ \A k \in 1..n : s[k].req = r /\ s[k].text \in LengthTexts =>
       lens # <<>> /\ lens[1] = s[k]
  /\ ~Seen(s, {"bad request line", "bad header"}, n, r)

(* What the listener keeps of a line of which token p is the last to come, *)
(* and the tokens of the lines before.                                     *)
InLine(s, p, line) ==
  \/ line = <<>> /\ s[p].text = "lf" /\ ~HeadEnd(s, p)
  \/ line = <<>> /\ s[p].text = "cr" /\ LineStart(s, p)
  \/ line = <<s[p]>> /\ s[p].text \in LineTexts /\ LineStart(s, p)
  \/ line = <<s[p - 1]>> /\ p > 1 /\ s[p - 1].text \in LineTexts /\ s[p].text = "cr"

Finished(s, p, line) ==
  IF line = <<>> THEN p ELSE IF s[p].text = "cr" THEN p - 2 ELSE p - 1

(* Request i holds something bad; it is the last that is answered.         *)
Bad(s, i) == \E n \in DOMAIN s : s[n].req = i /\ s[n].text \in BadTexts
Final(s, i) == Bad(s, i) \/ ~\E n \in DOMAIN s : s[n].req = i /\ s[n].text = "keep-alive"

(* Where pos is in the stream: after a request, in a head, in a body.      *)
Request == Len(output) + 1

BetweenRequests ==
  /\ state_ = "INVALID" /\ line_ = <<>> /\ parts = {}
  /\ IF pos = 0 THEN output = <<>> ELSE Ended(stream, pos) /\ Len(output) = stream[pos].req

InHead ==
  /\ state_ \in {"INVALID", "REQUEST_LINE"}
  /\ pos > 0 /\ parts = {Request} /\ stream[pos].req = Request
  /\ InLine(stream, pos, line_)
  /\ line_ # <<>> => line_[1].text \in IF state_ = "INVALID" THEN RequestLines ELSE HeaderTexts
  /\ HeadSoFar(stream, Finished(stream, pos, line_), Request, state_, keepAlive, lengths)
  /\ stream[pos].text = "cr" => pc = "receive"

InBodyOf(m) ==
  /\ HeadEnd(stream, m) /\ pos = m + loaded_body_size_
  /\ ContentLength = BodyLength(stream, m)
  /\ parts = {stream[m].req}
  /\ stream[m].req = IF response_sent_ THEN Len(output) ELSE Request
  /\ HeadSoFar(stream, m, stream[m].req, state_, keepAlive, lengths)

InBody ==
  /\ state_ \in {"HEADERS", "BODY"}
  /\ \E m \in 1..pos : InBodyOf(m)
  /\ ~BadContentLength
  /\ state_ = "BODY" => loaded_body_size_ = ContentLength

Reads == open /\ pc \notin {"refuse", "closed", "killed"}
Place ==
  Reads =>
    /\ BetweenRequests \/ InHead \/ InBody
    /\ pc = "receive" => /\ expect_lf <=> parts # {} /\ stream[pos].text = "cr"
                         /\ line_started <=> line_ # <<>>
    /\ ~response_sent_ /\ output # <<>> => ~Final(stream, Len(output))

(* What the steps between the calls leave.                                 *)
Settled ==
  /\ state_ = "BODY" => pc \in {"handle", "complete", "killed"}
  /\ pc = "complete" /\ state_ = "BODY" => response_sent_
  /\ ending /\ pc \notin {"idle", "closed"} => peer # "open"
  /\ avail > 0 => stream[avail].text # "cr"
  /\ ~open => pc \in {"complete", "return", "closed", "killed"}
  /\ pc = "complete" /\ ~open => peer # "open"
  /\ pc = "closed" => ~open

(* What has been answered, and why a request is refused or the connection  *)
(* closed.                                                                 *)
Answers ==
  /\ \A i \in DOMAIN output :
       /\ output[i].req = {i}
       /\ output[i].status = "400" => Bad(stream, i)
       /\ i < Len(output) => ~Final(stream, i)
  /\ \A r \in parts : parts = {r} /\ r \in {Len(output), Request}

Refusing ==
  pc = "refuse" => peer = "gone" \/
    /\ parts = {Request} /\ Bad(stream, Request)
    /\ output # <<>> => ~Final(stream, Len(output))

ClosedByServer ==
  pc \in {"return", "closed"} /\ ~open /\ peer = "open" /\ output # <<>>
    => Final(stream, Len(output))

(* What clients send, and the invariant.                                   *)
FramedStreams == SplitCRLF = FALSE /\ \A s \in Streams : Framed(s)
Framing == Framed(stream) /\ Place /\ Settled /\ Answers /\ Refusing /\ ClosedByServer

(* Streams of the grammar.                                                 *)
LEMMA BodyLengthType ==
  ASSUME NEW s \in Seq(Tokens), NEW n \in 1..Len(s)
  PROVE  BodyLength(s, n) \in Nat
  <1> DEFINE said == {k \in 1..n : s[k].req = s[n].req /\ s[k].text \in LengthTexts}
  <1>1. CASE said = {}
    BY <1>1 DEF BodyLength
  <1>2. CASE said # {}
    <2>1. (CHOOSE k \in said : TRUE) \in said
      BY <1>2
    <2>2. PICK k \in said : BodyLength(s, n) = s[k].length
      BY <1>2, <2>1 DEF BodyLength
    <2>3. k \in 1..Len(s)
      OBVIOUS
    <2>4. s[k] \in Tokens
      BY <2>3
    <2> QED
      BY <2>2, <2>4 DEF Tokens
  <1> QED
    BY <1>1, <1>2

(* The parts of the grammar, token by token.                               *)
LEMMA BodyFollowsHead ==
  ASSUME NEW s \in Seq(Tokens), Framed(s), NEW m, NEW n \in 1..Len(s), HeadEnd(s, m), m < n
  PROVE  /\ m \in 1..Len(s) /\ BodyLength(s, m) \in Nat
         /\ n <= m + BodyLength(s, m) => s[n].text = "body" /\ s[n].req = s[m].req
         /\ n = m + BodyLength(s, m) + 1 => s[n].req = s[m].req + 1
  <1>1. m \in 1..Len(s) /\ m \in 1 .. n - 1 /\ n \in DOMAIN s
    BY DEF HeadEnd
  <1> QED
    BY <1>1, BodyLengthType DEF Framed, Bodied

LEMMA BodyHasHead ==
  ASSUME NEW s \in Seq(Tokens), Framed(s), NEW n \in 1..Len(s), s[n].text = "body"
  PROVE  \E m \in 1 .. n - 1 : HeadEnd(s, m) /\ n <= m + BodyLength(s, m)
  <1>1. n \in DOMAIN s
    OBVIOUS
  <1> QED
    BY <1>1 DEF Framed, Bodied

LEMMA NumbersGrow ==
  ASSUME NEW s \in Seq(Tokens), Framed(s), NEW n \in 1..Len(s)
  PROVE  /\ s[n].req \in Nat \ {0}
         /\ \A k \in 1..n : s[k].req <= s[n].req
         /\ n = 1 => s[n].req = 1
         /\ n > 1 /\ ~Ended(s, n - 1) => s[n].req = s[n - 1].req
  <1>1. n \in DOMAIN s /\ s[n] \in Tokens
    OBVIOUS
  <1>2. s[n].req \in Nat \ {0}
    BY <1>1 DEF Tokens
  <1> QED
    BY <1>1, <1>2 DEF Framed, Numbered

LEMMA LinesEnd ==
  ASSUME NEW s \in Seq(Tokens), Framed(s), NEW n \in 1..Len(s)
  PROVE  /\ s[n].text = "lf" => n > 1 /\ s[n - 1].text = "cr"
         /\ s[n].text \in LineTexts => LineStart(s, n) \/ s[n - 1].text = "cr"
         /\ n > 1 /\ s[n - 1].text = "cr" =>
              s[n].req = s[n - 1].req /\ s[n].text \in {"lf"} \cup BadTexts
         /\ n > 1 /\ s[n - 1].text \in LineTexts =>
              s[n].req = s[n - 1].req /\ s[n].text = "cr"
  <1>1. n \in DOMAIN s
    OBVIOUS
  <1> QED
    BY <1>1 DEF Framed, Lined

LEMMA HeadersFollowRequestLine ==
  ASSUME NEW s \in Seq(Tokens), Framed(s), NEW n \in 1..Len(s)
  PROVE  /\ s[n].text \in HeaderTexts => Asked(s, n)
         /\ s[n].text \in RequestLines /\ LineStart(s, n) => ~Asked(s, n)
         /\ s[n].text \in LengthTexts =>
              \A k \in 1 .. n - 1 : s[k].req = s[n].req => s[k].text \notin LengthTexts
  <1>1. n \in DOMAIN s
    OBVIOUS
  <1> QED
    BY <1>1 DEF Framed, Headed

(* No head ends within the body of another request.                        *)
LEMMA HeadsApart ==
  ASSUME NEW s \in Seq(Tokens), Framed(s), NEW m, NEW k, HeadEnd(s, m), HeadEnd(s, k), m < k
  PROVE  k > m + BodyLength(s, m)
  <1>1. m \in 1..Len(s) /\ k \in 1..Len(s) /\ s[k].text = "lf"
    BY DEF HeadEnd
  <1>2. BodyLength(s, m) \in Nat
    BY <1>1, BodyLengthType
  <1>3. k <= m + BodyLength(s, m) => s[k].text = "body"
    BY <1>1, BodyFollowsHead
  <1> QED
    BY <1>1, <1>2, <1>3

(* The end of a request: its last token is an LF or a unit of body of the  *)
(* same request as its head, and the next token is of the next request.    *)
LEMMA EndOfRequest ==
  ASSUME NEW s \in Seq(Tokens), Framed(s), NEW n \in 1..Len(s), Ended(s, n)
  PROVE  /\ s[n].text \in {"lf", "body"}
         /\ s[n].text = "lf" => HeadEnd(s, n)
         /\ n + 1 \in 1..Len(s) => /\ s[n + 1].req = s[n].req + 1
                                   /\ s[n + 1].text # "body"
  <1>1. PICK m \in 1..n : HeadEnd(s, m) /\ n = m + BodyLength(s, m)
    BY DEF Ended
  <1>2. m \in 1..Len(s) /\ s[m].text = "lf" /\ BodyLength(s, m) \in Nat
    BY <1>1, BodyLengthType DEF HeadEnd
  <1>3. m = n \/ (s[n].text = "body" /\ s[n].req = s[m].req)
    <2>1. m < n => s[n].text = "body" /\ s[n].req = s[m].req
      BY <1>1, <1>2, BodyFollowsHead
    <2> QED
      BY <1>1, <2>1
  <1>5. ASSUME n + 1 \in 1..Len(s)
        PROVE  s[n + 1].req = s[n].req + 1 /\ s[n + 1].text # "body"
    <2>1. s[n + 1].req = s[m].req + 1
      <3>1. m < n + 1 /\ n + 1 = m + BodyLength(s, m) + 1
        BY <1>1, <1>2
      <3> QED
        BY <1>1, <1>5, <3>1, BodyFollowsHead
    <2>2. SUFFICES ASSUME s[n + 1].text = "body" PROVE FALSE
      BY <1>3, <2>1
    <2>3. PICK k \in 1..n : HeadEnd(s, k) /\ n + 1 <= k + BodyLength(s, k)
      BY <1>5, <2>2, BodyHasHead
    <2>4. k \in 1..Len(s) /\ BodyLength(s, k) \in Nat
      BY <2>3, BodyLengthType
    <2>5. ~(m < k) /\ ~(k < m)
      <3>1. m < k => k > m + BodyLength(s, m)
        BY <1>1, <2>3, HeadsApart
      <3>2. k < m => m > k + BodyLength(s, k)
        BY <1>1, <2>3, HeadsApart
      <3> QED
        BY <1>1, <1>2, <2>3, <2>4, <3>1, <3>2
    <2>6. m = k
      BY <1>2, <2>4, <2>5
    <2> QED
      BY <1>1, <2>3, <2>6
  <1> QED
    BY <1>1, <1>2, <1>3, <1>5

(* Within a head the next token is of the same request, and no body.       *)
LEMMA WithinHead ==
  ASSUME NEW s \in Seq(Tokens), Framed(s), NEW n \in 1..Len(s), n + 1 \in 1..Len(s),
         s[n].text # "body", ~HeadEnd(s, n)
  PROVE  s[n + 1].req = s[n].req /\ s[n + 1].text # "body"
  <1>1. ~Ended(s, n)
    <2>1. SUFFICES ASSUME Ended(s, n) PROVE FALSE
      OBVIOUS
    <2> QED
      BY <2>1, EndOfRequest
  <1>2. s[n + 1].req = s[n].req
    <2>1. n + 1 > 1 /\ (n + 1) - 1 = n
      OBVIOUS
    <2> QED
      BY <1>1, <2>1, NumbersGrow
  <1>3. SUFFICES ASSUME s[n + 1].text = "body" PROVE FALSE
    BY <1>2
  <1>4. PICK k \in 1..n : HeadEnd(s, k) /\ n + 1 <= k + BodyLength(s, k)
    BY <1>3, BodyHasHead
  <1>5. k < n /\ k \in 1..Len(s) /\ BodyLength(s, k) \in Nat
    BY <1>4, BodyLengthType
  <1>6. s[n].text = "body"
    BY <1>4, <1>5, BodyFollowsHead
  <1> QED
    BY <1>6

-----------------------------------------------------------------------------
(* One more token that is no text of a line says nothing of the head.      *)
LEMMA SeenOneMore ==
  ASSUME NEW s, NEW texts, NEW n \in Nat, NEW r
  PROVE  Seen(s, texts, n + 1, r) <=>
           Seen(s, texts, n, r) \/ (s[n + 1].req = r /\ s[n + 1].text \in texts)
  <1>1. 1 .. n + 1 = 1..n \cup {n + 1}
    OBVIOUS
  <1> QED
    BY <1>1 DEF Seen

LEMMA HeadGoesOn ==
  ASSUME NEW s, NEW n \in Nat, NEW r, NEW state, NEW keep, NEW lens,
         HeadSoFar(s, n, r, state, keep, lens), s[n + 1].text \notin LineTexts
  PROVE  HeadSoFar(s, n + 1, r, state, keep, lens)
  <1>1. \A texts \in SUBSET LineTexts : Seen(s, texts, n + 1, r) <=> Seen(s, texts, n, r)
    BY SeenOneMore
  <1>2. /\ RequestLines \in SUBSET LineTexts /\ {"request line"} \in SUBSET LineTexts
        /\ {"keep-alive"} \in SUBSET LineTexts /\ LengthTexts \in SUBSET LineTexts
        /\ {"bad request line", "bad header"} \in SUBSET LineTexts
    BY DEF LineTexts, RequestLines, HeaderTexts, LengthTexts
  <1>3. \A k \in 1 .. n + 1 : s[k].text \in LengthTexts => k \in 1..n
    <2>1. \A k \in 1 .. n + 1 : k = n + 1 \/ k \in 1..n
      OBVIOUS
    <2> QED
      BY <1>2, <2>1
  <1> QED
    BY <1>1, <1>2, <1>3 DEF HeadSoFar

(* At the first token of a request nothing of its head has come.           *)
LEMMA HeadNotBegun ==
  ASSUME NEW s \in Seq(Tokens), Framed(s), NEW p \in 0..Len(s), NEW r \in Nat,
         p > 0 => s[p].req < r
  PROVE  HeadSoFar(s, p, r, "INVALID", FALSE, <<>>)
  <1>1. \A k \in 1..p : s[k].req # r
    <2>1. TAKE k \in 1..p
    <2>2. p \in 1..Len(s) /\ k \in 1..Len(s)
      OBVIOUS
    <2>3. s[k].req <= s[p].req /\ s[p].req \in Nat /\ s[k].req \in Nat
      BY <2>2, NumbersGrow
    <2> QED
      BY <2>3
  <1> QED
    BY <1>1 DEF HeadSoFar, Seen

(* Whether a token is of a line or of none.                                *)
LEMMA TextKinds ==
  ASSUME NEW t \in Tokens, t.text \notin {"body", "cr", "lf"}
  PROVE  t.text \in LineTexts
  BY DEF Tokens, Texts, LineTexts, RequestLines, HeaderTexts, LengthTexts

(* The places of receiveLine, with the token that comes next: at the start *)
(* of a line; after the CR of an empty line; after the text of a line;     *)
(* after the CR that follows it.                                           *)
AtStart ==
  /\ line_ = <<>> /\ ~expect_lf /\ ~line_started
  /\ LineStart(stream, pos + 1) /\ stream[pos + 1].text \in {"cr"} \cup LineTexts
AtEmptyLine ==
  /\ line_ = <<>> /\ expect_lf /\ ~line_started
  /\ pos > 0 /\ stream[pos].text = "cr" /\ LineStart(stream, pos)
  /\ stream[pos + 1].text \in {"lf"} \cup BadTexts
AtText ==
  /\ line_ = <<stream[pos]>> /\ ~expect_lf /\ line_started
  /\ pos > 0 /\ stream[pos].text \in LineTexts
  /\ stream[pos + 1].text = "cr"
AtEndOfText ==
  /\ line_ = <<stream[pos - 1]>> /\ expect_lf /\ line_started
  /\ pos > 1 /\ stream[pos - 1].text \in LineTexts /\ stream[pos].text = "cr"
  /\ stream[pos].req = stream[pos - 1].req /\ stream[pos - 1].req = Request
  /\ stream[pos + 1].text \in {"lf"} \cup BadTexts

LEMMA ReceiveFacts ==
  ASSUME Inv, Framing, pc = "receive", Receive
  PROVE  /\ UNCHANGED <<stream, avail, peer, open, output>>
         /\ pos \in Nat /\ pos' = pos + 1 /\ pos + 1 \in 1..Len(stream) /\ Request \in Nat
         /\ open /\ state_ \in {"INVALID", "REQUEST_LINE"} /\ ~response_sent_ /\ loaded_body_size_ = 0
         /\ stream[pos + 1].req = Request /\ parts' = {Request} /\ Token = stream[pos + 1]
         /\ HeadSoFar(stream, Finished(stream, pos, line_), Request, state_, keepAlive, lengths)
         /\ line_ # <<>> => line_[1].text \in IF state_ = "INVALID" THEN RequestLines ELSE HeaderTexts
         /\ AtStart \/ AtEmptyLine \/ AtText \/ AtEndOfText
  <1>1. /\ stream \in Seq(Tokens) /\ Framed(stream) /\ pos \in Nat /\ pos + 1 \in 1..Len(stream)
        /\ Len(output) \in Nat /\ Request \in Nat /\ Request = Len(output) + 1
    <2>1. /\ stream \in Seq(Tokens) /\ avail \in 0..Len(stream) /\ pos \in 0..avail /\ pos < avail
          /\ output \in Seq([req : SUBSET Nat, status : {"answer", "400"}])
      BY DEF Inv, TypeOK, Receive
    <2>2. Len(output) \in Nat
      BY <2>1
    <2> QED
      BY <2>1, <2>2 DEF Framing, Request
  <1>2. /\ UNCHANGED <<stream, avail, peer, open, output>> /\ pos' = pos + 1
        /\ parts' = parts \cup {stream[pos + 1].req} /\ Token = stream[pos + 1]
    BY DEF Receive, Token
  <1>3. state_ \in {"INVALID", "REQUEST_LINE"} /\ ~response_sent_ /\ loaded_body_size_ = 0
    BY DEF Inv, WhereItIs
  <1>4. open
    BY DEF Framing, Settled
  <1>5. /\ BetweenRequests \/ InHead
        /\ expect_lf <=> parts # {} /\ stream[pos].text = "cr"
        /\ line_started <=> line_ # <<>>
    BY <1>3, <1>4 DEF Framing, Place, Reads, InBody
  <1>6. stream[pos + 1] \in Tokens
    BY <1>1
  <1>7. CASE BetweenRequests
    <2>1. line_ = <<>> /\ parts = {} /\ ~expect_lf /\ ~line_started /\ state_ = "INVALID"
      BY <1>5, <1>7 DEF BetweenRequests
    <2>2. /\ stream[pos + 1].req = Request /\ LineStart(stream, pos + 1)
          /\ stream[pos + 1].text \notin {"body", "lf"}
          /\ pos > 0 => stream[pos].req < Request
      <3>1. CASE pos = 0
        <4>1. /\ output = <<>> /\ stream[1].req = 1 /\ stream[1].text # "lf" /\ LineStart(stream, 1)
          BY <1>1, <1>7, <3>1, NumbersGrow, LinesEnd DEF BetweenRequests, LineStart
        <4>2. stream[1].text # "body"
          BY <1>1, <3>1, BodyHasHead
        <4> QED
          BY <1>1, <3>1, <4>1, <4>2
      <3>2. CASE pos > 0
        <4>1. pos \in 1..Len(stream) /\ Ended(stream, pos) /\ Len(output) = stream[pos].req
          BY <1>1, <1>7, <3>2 DEF BetweenRequests
        <4>2. /\ stream[pos].text \in {"lf", "body"}
              /\ stream[pos + 1].req = stream[pos].req + 1 /\ stream[pos + 1].text # "body"
          BY <1>1, <4>1, EndOfRequest
        <4>3. stream[pos + 1].text # "lf"
          <5>1. stream[pos + 1].text = "lf" => stream[(pos + 1) - 1].text = "cr"
            BY <1>1, LinesEnd
          <5>2. (pos + 1) - 1 = pos
            BY <1>1
          <5> QED
            BY <4>2, <5>1, <5>2
        <4>4. LineStart(stream, pos + 1)
          <5>1. (pos + 1) - 1 = pos
            BY <1>1
          <5>2. stream[pos].req # stream[pos + 1].req
            BY <1>1, <4>1, <4>2
          <5> QED
            BY <5>1, <5>2 DEF LineStart
        <4> QED
          BY <1>1, <4>1, <4>2, <4>3, <4>4
      <3> QED
        BY <1>1, <3>1, <3>2
    <2>3. HeadSoFar(stream, pos, Request, "INVALID", FALSE, <<>>)
      <3>1. pos \in 0..Len(stream)
        BY <1>1
      <3> QED
        BY <1>1, <2>2, <3>1, HeadNotBegun
    <2>4. ~keepAlive /\ lengths = <<>> /\ keepAlive \in BOOLEAN
      BY <2>1 DEF Inv, FreshRequest, TypeOK
    <2>5. HeadSoFar(stream, Finished(stream, pos, line_), Request, state_, keepAlive, lengths)
      <3>1. keepAlive = FALSE
        BY <2>4
      <3> QED
        BY <2>1, <2>3, <2>4, <3>1 DEF Finished
    <2>6. AtStart
      BY <1>6, <2>1, <2>2, TextKinds DEF AtStart
    <2>7. parts' = {Request}
      BY <1>2, <2>1, <2>2
    <2> QED
      BY <1>1, <1>2, <1>3, <1>4, <2>1, <2>2, <2>5, <2>6, <2>7
  <1>8. CASE InHead
    <2>1. /\ pos > 0 /\ pos \in 1..Len(stream) /\ parts = {Request} /\ stream[pos].req = Request
          /\ InLine(stream, pos, line_)
          /\ HeadSoFar(stream, Finished(stream, pos, line_), Request, state_, keepAlive, lengths)
          /\ line_ # <<>> => line_[1].text \in IF state_ = "INVALID" THEN RequestLines ELSE HeaderTexts
      BY <1>1, <1>8 DEF InHead
    <2>2. expect_lf <=> stream[pos].text = "cr"
      BY <1>5, <2>1
    <2>3. stream[pos].text # "body" /\ ~HeadEnd(stream, pos)
      BY <2>1 DEF InLine, HeadEnd, LineTexts, RequestLines, HeaderTexts, LengthTexts
    <2>4. stream[pos + 1].req = Request /\ stream[pos + 1].text # "body"
      BY <1>1, <2>1, <2>3, WithinHead
    <2>5. parts' = {Request}
      BY <1>2, <2>1, <2>4
    <2>6. (pos + 1) - 1 = pos /\ pos + 1 > 1
      BY <1>1, <2>1
    <2>7. /\ stream[pos + 1].text = "lf" => stream[pos].text = "cr"
          /\ stream[pos].text = "cr" => stream[pos + 1].text \in {"lf"} \cup BadTexts
          /\ stream[pos].text \in LineTexts => stream[pos + 1].text = "cr"
      BY <1>1, <2>6, LinesEnd
    <2>8. AtStart \/ AtEmptyLine \/ AtText \/ AtEndOfText
      <3> USE <1>5, <2>2
      <3>1. CASE line_ = <<>> /\ stream[pos].text = "lf"
        <4>1. LineStart(stream, pos + 1)
          BY <2>6, <3>1 DEF LineStart
        <4>2. stream[pos + 1].text \in {"cr"} \cup LineTexts
          BY <1>6, <2>4, <2>7, <3>1, TextKinds
        <4> QED
          BY <3>1, <4>1, <4>2 DEF AtStart
      <3>2. CASE line_ = <<>> /\ stream[pos].text = "cr" /\ LineStart(stream, pos)
        BY <2>1, <2>7, <3>2 DEF AtEmptyLine
      <3>3. CASE line_ = <<stream[pos]>> /\ stream[pos].text \in LineTexts /\ LineStart(stream, pos)
        <4>1. stream[pos].text # "cr" /\ line_ # <<>>
          BY <3>3 DEF LineTexts, RequestLines, HeaderTexts, LengthTexts
        <4> QED
          BY <2>1, <2>7, <3>3, <4>1 DEF AtText
      <3>4. CASE /\ line_ = <<stream[pos - 1]>> /\ pos > 1
                 /\ stream[pos - 1].text \in LineTexts /\ stream[pos].text = "cr"
        <4>1. stream[pos].req = stream[pos - 1].req
          BY <1>1, <2>1, <3>4, LinesEnd
        <4>2. line_ # <<>>
          BY <3>4
        <4> QED
          BY <2>1, <2>7, <3>4, <4>1, <4>2 DEF AtEndOfText
      <3> QED
        BY <2>1, <3>1, <3>2, <3>3, <3>4 DEF InLine
    <2> QED
      BY <1>1, <1>2, <1>3, <1>4, <2>1, <2>4, <2>5, <2>8
  <1> QED
    BY <1>5, <1>7, <1>8

-----------------------------------------------------------------------------
(* A token that leaves the listener in a head, takes it into a body, or    *)
(* makes it refuse the request.                                            *)
LEMMA ReceiveKeepsFraming ==
  ASSUME Inv, Framing, pc = "receive", Receive, UNCHANGED <<ending, response_sent_>>,
         \/ pc' = "refuse" /\ Bad(stream, Request) /\ UNCHANGED state_
         \/ /\ pc' \in {"receive", "head", "body", "handle"}
            /\ state_' = "BODY" => pc' = "handle"
            /\ InHead' \/ InBody'
            /\ pc' = "receive" => /\ expect_lf' <=> stream[pos + 1].text = "cr"
                                  /\ line_started' <=> line_' # <<>>
  PROVE  Framing'
  <1>1. /\ UNCHANGED <<stream, avail, peer, open, output>> /\ pos' = pos + 1
        /\ open /\ parts' = {Request} /\ Request' = Request /\ ~response_sent_ /\ Request \in Nat
        /\ state_ # "BODY"
    BY ReceiveFacts DEF Request
  <1>2. output # <<>> => ~Final(stream, Len(output))
    BY <1>1 DEF Framing, Place, Reads
  <1>3. Framed(stream)'
    BY <1>1 DEF Framing
  <1>4. Place'
    <2>1. SUFFICES ASSUME pc' # "refuse"
                   PROVE  /\ InHead' \/ InBody'
                          /\ pc' = "receive" => /\ expect_lf' <=> parts' # {} /\ stream'[pos'].text = "cr"
                                                /\ line_started' <=> line_' # <<>>
                          /\ output' # <<>> => ~Final(stream', Len(output'))
      BY DEF Place, Reads
    <2> QED
      BY <1>1, <1>2, <2>1
  <1>5. Settled'
    BY <1>1 DEF Framing, Settled
  <1>6. Answers'
    BY <1>1 DEF Framing, Answers
  <1>7. Refusing'
    BY <1>1, <1>2 DEF Refusing
  <1>8. ClosedByServer'
    BY <1>1 DEF ClosedByServer
  <1> QED
    BY <1>3, <1>4, <1>5, <1>6, <1>7, <1>8 DEF Framing

(* A bad token of the request that is being read.                          *)
LEMMA BadToken ==
  ASSUME NEW s \in Seq(Tokens), NEW n \in 1..Len(s), s[n].text \in BadTexts
  PROVE  Bad(s, s[n].req)
  BY DEF Bad

(* receiveLine within a line.                                              *)
LEMMA ReceiveCRFraming ==
  ASSUME Inv, Framing, ReceiveCR
  PROVE  Framing'
  <1>1. /\ pc = "receive" /\ Receive /\ Token.text = "cr" /\ expect_lf' = TRUE /\ pc' = pc
        /\ UNCHANGED <<state_, keepAlive, lengths, line_, response_sent_, line_started, ending>>
    BY DEF ReceiveCR, listenerVars, requestVars
  <1>2. /\ UNCHANGED <<stream, output>> /\ pos \in Nat /\ pos' = pos + 1
        /\ state_ \in {"INVALID", "REQUEST_LINE"}
        /\ stream[pos + 1].req = Request /\ parts' = {Request} /\ Request' = Request
        /\ stream[pos + 1].text = "cr"
        /\ HeadSoFar(stream, Finished(stream, pos, line_), Request, state_, keepAlive, lengths)
        /\ line_ # <<>> => line_[1].text \in IF state_ = "INVALID" THEN RequestLines ELSE HeaderTexts
    BY <1>1, ReceiveFacts DEF Request
  <1>3. AtStart \/ AtText
    <2>1. ~AtEmptyLine /\ ~AtEndOfText
      BY <1>2 DEF AtEmptyLine, AtEndOfText, BadTexts
    <2> QED
      BY <1>1, <2>1, ReceiveFacts
  <1>4. /\ InLine(stream, pos + 1, line_) /\ (line_started <=> line_ # <<>>)
        /\ HeadSoFar(stream, Finished(stream, pos + 1, line_), Request, state_, keepAlive, lengths)
    <2>1. CASE AtStart
      <3>1. HeadSoFar(stream, pos + 1, Request, state_, keepAlive, lengths)
        <4>1. stream[pos + 1].text \notin LineTexts
          BY <1>2 DEF LineTexts, RequestLines, HeaderTexts, LengthTexts
        <4> QED
          BY <1>2, <2>1, <4>1, HeadGoesOn DEF AtStart, Finished
      <3> QED
        BY <1>2, <2>1, <3>1 DEF AtStart, InLine, Finished
    <2>2. CASE AtText
      <3>1. line_ # <<>> /\ line_ = <<stream[pos]>> /\ stream[pos].text \in LineTexts /\ pos > 0
        BY <2>2 DEF AtText
      <3>2. /\ stream[pos].text # "cr"
            /\ (pos + 1) - 1 = pos /\ (pos + 1) - 2 = pos - 1 /\ pos + 1 > 1
        <4>1. stream[pos].text # "cr"
          BY <3>1 DEF LineTexts, RequestLines, HeaderTexts, LengthTexts
        <4> QED
          BY <1>2, <3>1, <4>1
      <3>3. InLine(stream, pos + 1, line_)
        BY <1>2, <3>1, <3>2 DEF InLine
      <3> QED
        BY <1>2, <2>2, <3>1, <3>2, <3>3 DEF AtText, Finished
    <2> QED
      BY <1>3, <2>1, <2>2
  <1>5. InHead'
    BY <1>1, <1>2, <1>4 DEF InHead
  <1> QED
    BY <1>1, <1>2, <1>4, <1>5, ReceiveKeepsFraming

LEMMA ReceiveTextFraming ==
  ASSUME Inv, Framing, ReceiveText
  PROVE  Framing'
  <1>1. /\ pc = "receive" /\ Receive /\ Token.text # "cr" /\ ~expect_lf /\ pc' = pc
        /\ line_' = Append(line_, Token) /\ line_started' = TRUE /\ expect_lf' = expect_lf
        /\ UNCHANGED <<state_, keepAlive, lengths, response_sent_, ending>>
    BY DEF ReceiveText, requestVars
  <1>2. /\ UNCHANGED <<stream, output>> /\ pos \in Nat /\ pos' = pos + 1 /\ pos + 1 \in 1..Len(stream)
        /\ state_ \in {"INVALID", "REQUEST_LINE"} /\ Token = stream[pos + 1]
        /\ stream[pos + 1].req = Request /\ parts' = {Request} /\ Request' = Request
        /\ HeadSoFar(stream, Finished(stream, pos, line_), Request, state_, keepAlive, lengths)
    BY <1>1, ReceiveFacts DEF Request
  <1>3. AtStart
    <2>1. ~AtEmptyLine /\ ~AtEndOfText /\ ~AtText
      BY <1>1, <1>2 DEF AtEmptyLine, AtEndOfText, AtText
    <2> QED
      BY <1>1, <2>1, ReceiveFacts
  <1>4. /\ line_ = <<>> /\ LineStart(stream, pos + 1) /\ stream[pos + 1].text \in LineTexts
        /\ line_' = <<stream[pos + 1]>> /\ line_' # <<>> /\ line_'[1] = stream[pos + 1]
    BY <1>1, <1>2, <1>3 DEF AtStart
  <1>5. stream[pos + 1].text # "cr"
    BY <1>1, <1>2
  <1>6. HeadSoFar(stream, pos, Request, state_, keepAlive, lengths)
    BY <1>2, <1>4 DEF Finished
  <1>7. stream[pos + 1].text \in IF state_ = "INVALID" THEN RequestLines ELSE HeaderTexts
    <2>1. /\ stream[pos + 1].text \in HeaderTexts => Asked(stream, pos + 1)
          /\ stream[pos + 1].text \in RequestLines => ~Asked(stream, pos + 1)
      BY <1>2, <1>4, HeadersFollowRequestLine DEF Framing, Inv, TypeOK
    <2>2. (pos + 1) - 1 = pos
      BY <1>2
    <2>3. state_ = "INVALID" => ~Asked(stream, pos + 1)
      BY <1>2, <1>6, <2>2 DEF HeadSoFar, Seen, Asked
    <2>4. state_ # "INVALID" => Asked(stream, pos + 1)
      BY <1>2, <1>6, <2>2 DEF HeadSoFar, Seen, Asked, RequestLines
    <2> QED
      BY <1>4, <2>1, <2>3, <2>4 DEF LineTexts
  <1>8. InHead'
    <2>1. InLine(stream, pos + 1, line_')
      BY <1>4 DEF InLine
    <2>2. Finished(stream, pos + 1, line_') = pos
      BY <1>2, <1>4, <1>5 DEF Finished
    <2> QED
      BY <1>1, <1>2, <1>4, <1>5, <1>6, <1>7, <2>1, <2>2 DEF InHead
  <1> QED
    BY <1>1, <1>2, <1>4, <1>5, <1>8, ReceiveKeepsFraming

(* Something else than LF after CR.                                        *)
LEMMA ReceiveInvalidFraming ==
  ASSUME Inv, Framing, ReceiveInvalid
  PROVE  Framing'
  <1>1. /\ pc = "receive" /\ Receive /\ expect_lf /\ Token.text \notin {"cr", "lf"} /\ pc' = "refuse"
        /\ UNCHANGED <<state_, response_sent_, ending>>
    BY DEF ReceiveInvalid, listenerVars, requestVars, localVars
  <1>2. /\ stream[pos + 1].req = Request /\ Token = stream[pos + 1] /\ pos + 1 \in 1..Len(stream)
        /\ AtStart \/ AtEmptyLine \/ AtText \/ AtEndOfText
    BY <1>1, ReceiveFacts
  <1>3. stream[pos + 1].text \in BadTexts
    BY <1>1, <1>2 DEF AtStart, AtEmptyLine, AtText, AtEndOfText
  <1>4. Bad(stream, Request)
    BY <1>2, <1>3, BadToken DEF Inv, TypeOK
  <1> QED
    BY <1>1, <1>4, ReceiveKeepsFraming

-----------------------------------------------------------------------------
(* The end of a line: of an empty one or of one with a text.               *)
LEMMA EndOfLineFacts ==
  ASSUME Inv, Framing, EndOfLine
  PROVE  /\ pc = "receive" /\ Receive /\ expect_lf /\ UNCHANGED <<stream, output>>
         /\ pos \in Nat /\ pos' = pos + 1 /\ pos + 1 \in 1..Len(stream) /\ Request' = Request
         /\ state_ \in {"INVALID", "REQUEST_LINE"} /\ ~response_sent_ /\ loaded_body_size_ = 0
         /\ stream \in Seq(Tokens) /\ Framed(stream)
         /\ stream[pos + 1].req = Request /\ parts' = {Request} /\ stream[pos + 1].text = "lf"
         /\ HeadSoFar(stream, Finished(stream, pos, line_), Request, state_, keepAlive, lengths)
         /\ line_ # <<>> => line_[1].text \in IF state_ = "INVALID" THEN RequestLines ELSE HeaderTexts
         /\ line_started <=> line_ # <<>>
         /\ line_ = <<>> => AtEmptyLine
         /\ line_ # <<>> => AtEndOfText
  <1>1. pc = "receive" /\ Receive /\ expect_lf /\ Token.text = "lf"
    BY DEF EndOfLine
  <1>2. AtEmptyLine \/ AtEndOfText
    <2>1. ~AtStart /\ ~AtText
      BY <1>1 DEF AtStart, AtText
    <2> QED
      BY <1>1, <2>1, ReceiveFacts
  <1>3. AtEmptyLine => line_ = <<>> /\ ~line_started
    BY DEF AtEmptyLine
  <1>4. AtEndOfText => line_ # <<>> /\ line_started
    BY DEF AtEndOfText
  <1> QED
    BY <1>1, <1>2, <1>3, <1>4, ReceiveFacts DEF Request, Framing, Inv, TypeOK

(* After a line the listener is between the lines of the head.             *)
LEMMA NextLineOfHead ==
  ASSUME Inv, Framing, EndOfLine, pc' = "head", line_' = <<>>,
         state_' \in {"INVALID", "REQUEST_LINE"}, ~HeadEnd(stream, pos + 1),
         HeadSoFar(stream, pos + 1, Request, state_', keepAlive', lengths'),
         UNCHANGED <<ending, response_sent_>>
  PROVE  Framing'
  <1>1. /\ UNCHANGED <<stream, output>> /\ pos \in Nat /\ pos' = pos + 1 /\ Request' = Request
        /\ stream[pos + 1].req = Request /\ parts' = {Request} /\ stream[pos + 1].text = "lf"
        /\ pc = "receive" /\ Receive
    BY EndOfLineFacts
  <1>2. InLine(stream, pos + 1, <<>>) /\ Finished(stream, pos + 1, <<>>) = pos + 1
    BY <1>1 DEF InLine, Finished
  <1>3. InHead'
    BY <1>1, <1>2 DEF InHead
  <1> QED
    BY <1>1, <1>3, ReceiveKeepsFraming

(* CRLF before the request line.                                           *)
LEMMA SkipCRLFFraming ==
  ASSUME Inv, Framing, SkipCRLF
  PROVE  Framing'
  <1>1. /\ EndOfLine /\ state_ = "INVALID" /\ ~line_started /\ pc' = "head"
        /\ UNCHANGED <<state_, keepAlive, lengths, line_, response_sent_, ending>>
    BY DEF SkipCRLF, listenerVars, requestVars, localVars
  <1>2. /\ line_ = <<>> /\ pos \in Nat
        /\ stream[pos + 1].req = Request /\ stream[pos + 1].text = "lf"
        /\ HeadSoFar(stream, Finished(stream, pos, line_), Request, state_, keepAlive, lengths)
    BY <1>1, EndOfLineFacts
  <1>3. HeadSoFar(stream, pos, Request, state_, keepAlive, lengths)
    BY <1>2 DEF Finished
  <1>4. stream[pos + 1].text \notin LineTexts
    BY <1>2 DEF LineTexts, RequestLines, HeaderTexts, LengthTexts
  <1>5. HeadSoFar(stream, pos + 1, Request, state_, keepAlive, lengths)
    BY <1>2, <1>3, <1>4, HeadGoesOn
  <1>6. ~HeadEnd(stream, pos + 1)
    <2>1. (pos + 1) - 1 = pos
      BY <1>2
    <2>2. ~Asked(stream, pos + 1)
      BY <1>1, <1>2, <1>3, <2>1 DEF Asked, HeadSoFar, Seen
    <2> QED
      BY <2>2 DEF HeadEnd
  <1> QED
    BY <1>1, <1>2, <1>5, <1>6, NextLineOfHead

(* The line with a text h ends at pos + 1: it is no end of a head, and     *)
(* what is known of the head gains h.                                      *)
LEMMA EndOfText ==
  ASSUME Inv, Framing, EndOfLine, line_ # <<>>
  PROVE  /\ pos \in Nat /\ pos > 1 /\ line_ = <<stream[pos - 1]>> /\ line_[1] = stream[pos - 1]
         /\ stream[pos - 1].req = Request /\ ~HeadEnd(stream, pos + 1)
         /\ HeadSoFar(stream, pos - 2, Request, state_, keepAlive, lengths)
         /\ \A k \in 1 .. pos - 2 : k \in 1 .. pos + 1
         /\ pos - 1 \in 1..Len(stream)
         /\ \A texts \in SUBSET LineTexts :
              Seen(stream, texts, pos + 1, Request) <=>
                Seen(stream, texts, pos - 2, Request) \/ stream[pos - 1].text \in texts
         /\ \A k \in 1 .. pos + 1 :
              stream[k].text \in LineTexts => k = pos - 1 \/ k \in 1 .. pos - 2
  <1>1. /\ pos \in Nat /\ pos > 1 /\ line_ = <<stream[pos - 1]>>
        /\ stream[pos - 1].text \in LineTexts /\ stream[pos].text = "cr"
        /\ stream[pos].req = stream[pos - 1].req /\ stream[pos - 1].req = Request
        /\ pos + 1 \in 1..Len(stream) /\ stream[pos + 1].text = "lf"
        /\ HeadSoFar(stream, Finished(stream, pos, line_), Request, state_, keepAlive, lengths)
    BY EndOfLineFacts DEF AtEndOfText
  <1>2. HeadSoFar(stream, pos - 2, Request, state_, keepAlive, lengths)
    BY <1>1 DEF Finished
  <1>3. "lf" \notin LineTexts /\ "cr" \notin LineTexts
    BY DEF LineTexts, RequestLines, HeaderTexts, LengthTexts
  <1>4. ~HeadEnd(stream, pos + 1)
    <2>1. (pos + 1) - 1 = pos
      BY <1>1
    <2>2. ~LineStart(stream, pos)
      <3>1. stream[pos - 1].text # "lf"
        BY <1>1, <1>3
      <3> QED
        BY <1>1, <3>1 DEF LineStart
    <2> QED
      BY <2>1, <2>2 DEF HeadEnd
  <1>5. \A k \in 1 .. pos + 1 : k \in {pos - 1, pos, pos + 1} \/ k \in 1 .. pos - 2
    BY <1>1
  <1>6. ASSUME NEW texts \in SUBSET LineTexts
        PROVE  Seen(stream, texts, pos + 1, Request) <=>
                 Seen(stream, texts, pos - 2, Request) \/ stream[pos - 1].text \in texts
    <2>1. pos - 1 \in 1 .. pos + 1 /\ \A k \in 1 .. pos - 2 : k \in 1 .. pos + 1
      BY <1>1
    <2>2. stream[pos].text \notin texts /\ stream[pos + 1].text \notin texts
      BY <1>1, <1>3
    <2> QED
      BY <1>1, <1>5, <2>1, <2>2 DEF Seen
  <1>7. \A k \in 1 .. pos + 1 : stream[k].text \in LineTexts => k = pos - 1 \/ k \in 1 .. pos - 2
    BY <1>1, <1>3, <1>5
  <1>8. (\A k \in 1 .. pos - 2 : k \in 1 .. pos + 1) /\ pos - 1 \in 1..Len(stream)
    BY <1>1
  <1> QED
    BY <1>1, <1>2, <1>4, <1>6, <1>7, <1>8

LEMMA LineKinds ==
  /\ RequestLines \in SUBSET LineTexts /\ {"request line"} \in SUBSET LineTexts
  /\ {"keep-alive"} \in SUBSET LineTexts /\ LengthTexts \in SUBSET LineTexts
  /\ HeaderTexts \in SUBSET LineTexts
  /\ {"bad request line", "bad header"} \in SUBSET LineTexts
  BY DEF LineTexts, RequestLines, HeaderTexts, LengthTexts

(* parseRequestLine.                                                       *)
LEMMA RequestLineFraming ==
  ASSUME Inv, Framing, RequestLine
  PROVE  Framing'
  <1>1. /\ EndOfLine /\ state_ = "INVALID" /\ line_started
        /\ UNCHANGED <<response_sent_, ending>>
        /\ \/ /\ Holds("request line")
              /\ state_' = "REQUEST_LINE" /\ line_' = <<>>
              /\ pc' = "head" /\ keepAlive' = keepAlive /\ lengths' = lengths
           \/ (~Holds("request line") \/ Len(line_) > 1) /\ pc' = "refuse" /\ state_' = state_
    BY DEF RequestLine, localVars, requestVars
  <1> DEFINE h == stream[pos - 1]
  <1>2. /\ line_ # <<>> /\ line_ = <<h>> /\ h.text \in RequestLines /\ h.req = Request
        /\ pos \in Nat /\ pos - 1 \in 1..Len(stream) /\ stream \in Seq(Tokens)
        /\ pc = "receive" /\ Receive
    BY <1>1, EndOfLineFacts, EndOfText
  <1>3. Len(line_) = 1 /\ ~(Len(line_) > 1) /\ line_[1] = h /\ DOMAIN line_ = {1}
    BY <1>2
  <1>4. Holds("request line") <=> h.text = "request line"
    BY <1>3 DEF Holds
  <1>5. CASE h.text = "request line"
    <2>1. state_' = "REQUEST_LINE" /\ line_' = <<>> /\ pc' = "head" /\ keepAlive' = keepAlive /\ lengths' = lengths
      BY <1>1, <1>3, <1>4, <1>5
    <2>2. /\ HeadSoFar(stream, pos - 2, Request, state_, keepAlive, lengths)
          /\ ~HeadEnd(stream, pos + 1)
          /\ \A texts \in SUBSET LineTexts :
               Seen(stream, texts, pos + 1, Request) <=>
                 Seen(stream, texts, pos - 2, Request) \/ h.text \in texts
          /\ \A k \in 1 .. pos + 1 :
               stream[k].text \in LineTexts => k = pos - 1 \/ k \in 1 .. pos - 2
      BY <1>1, <1>2, EndOfText
    <2>3. /\ h.text \notin {"keep-alive"} /\ h.text \notin LengthTexts
          /\ h.text \notin {"bad request line", "bad header"}
      BY <1>5 DEF LengthTexts
    <2>4. /\ Seen(stream, {"request line"}, pos + 1, Request)
          /\ Seen(stream, {"keep-alive"}, pos + 1, Request) <=> Seen(stream, {"keep-alive"}, pos - 2, Request)
          /\ Seen(stream, LengthTexts, pos + 1, Request) <=> Seen(stream, LengthTexts, pos - 2, Request)
          /\ Seen(stream, {"bad request line", "bad header"}, pos + 1, Request) <=>
               Seen(stream, {"bad request line", "bad header"}, pos - 2, Request)
      BY <1>5, <2>2, <2>3, LineKinds
    <2>5. \A k \in 1 .. pos + 1 : stream[k].text \in LengthTexts => k \in 1 .. pos - 2
      BY <2>2, <2>3, LineKinds
    <2>6. HeadSoFar(stream, pos + 1, Request, state_', keepAlive', lengths')
      BY <1>1, <2>1, <2>2, <2>4, <2>5 DEF HeadSoFar
    <2> QED
      BY <1>1, <2>1, <2>2, <2>6, NextLineOfHead
  <1>6. CASE h.text # "request line"
    <2>1. h.text \in BadTexts
      BY <1>2, <1>6 DEF RequestLines, BadTexts
    <2>2. Bad(stream, Request)
      BY <1>2, <2>1, BadToken
    <2>3. pc' = "refuse" /\ state_' = state_
      BY <1>1, <1>4, <1>6
    <2> QED
      BY <1>1, <1>2, <2>2, <2>3, ReceiveKeepsFraming
  <1> QED
    BY <1>5, <1>6

(* parseHeaderLine.                                                        *)
LEMMA HeaderLineFraming ==
  ASSUME Inv, Framing, HeaderLine
  PROVE  Framing'
  <1>1. /\ EndOfLine /\ state_ = "REQUEST_LINE" /\ line_started
        /\ UNCHANGED <<state_, response_sent_, ending>> /\ ~response_sent_
        /\ \/ /\ ~HeaderThrows
              /\ \E first \in TextPositions :
                   (\A i \in TextPositions : first <= i) /\ AddHeader(line_[first])
              /\ line_' = <<>> /\ pc' = "head"
           \/ HeaderThrows /\ pc' = "refuse"
    BY EndOfLineFacts DEF HeaderLine, localVars
  <1> DEFINE h == stream[pos - 1]
  <1>2. /\ line_ # <<>> /\ line_ = <<h>> /\ h.text \in HeaderTexts /\ h.req = Request
        /\ pos \in Nat /\ pos - 1 \in 1..Len(stream) /\ stream \in Seq(Tokens) /\ Framed(stream)
        /\ pc = "receive" /\ Receive
    BY <1>1, EndOfLineFacts, EndOfText
  <1>3. line_[1] = h /\ DOMAIN line_ = {1}
    BY <1>2
  <1>4. TextPositions = {1}
    <2>1. h.text # "lf"
      BY <1>2 DEF HeaderTexts, LengthTexts
    <2> QED
      BY <1>3, <2>1 DEF TextPositions
  <1>5. HeaderThrows <=> h.text = "bad header"
    BY <1>3, <1>4 DEF HeaderThrows
  <1>6. CASE h.text # "bad header"
    <2>1. line_' = <<>> /\ pc' = "head" /\ AddHeader(h)
      BY <1>1, <1>3, <1>4, <1>5, <1>6
    <2>2. /\ keepAlive' <=> keepAlive \/ h.text = "keep-alive"
          /\ lengths' = IF h.text \in LengthTexts THEN Append(lengths, h) ELSE lengths
          /\ lengths \in Seq(Tokens) /\ h \in Tokens
      <3>1. lengths' = IF h.text \in LengthTexts THEN Append(lengths, h) ELSE lengths
        BY <2>1 DEF AddHeader, LengthTexts
      <3>2. keepAlive' <=> keepAlive \/ h.text = "keep-alive"
        BY <2>1 DEF AddHeader
      <3>3. lengths \in Seq(Tokens) /\ h \in Tokens
        BY <1>2 DEF Inv, TypeOK
      <3> QED
        BY <3>1, <3>2, <3>3
    <2>3. /\ HeadSoFar(stream, pos - 2, Request, state_, keepAlive, lengths)
          /\ ~HeadEnd(stream, pos + 1)
          /\ \A texts \in SUBSET LineTexts :
               Seen(stream, texts, pos + 1, Request) <=>
                 Seen(stream, texts, pos - 2, Request) \/ h.text \in texts
          /\ \A k \in 1 .. pos + 1 :
               stream[k].text \in LineTexts => k = pos - 1 \/ k \in 1 .. pos - 2
      BY <1>1, <1>2, EndOfText
    <2>4. h.text \notin {"request line"} /\ h.text \notin {"bad request line", "bad header"}
      BY <1>2, <1>6 DEF HeaderTexts, LengthTexts
    <2>5. /\ Seen(stream, {"request line"}, pos + 1, Request)
          /\ ~Seen(stream, {"bad request line", "bad header"}, pos + 1, Request)
          /\ keepAlive' <=> Seen(stream, {"keep-alive"}, pos + 1, Request)
      BY <1>1, <2>2, <2>3, <2>4, LineKinds DEF HeadSoFar
    <2>6. /\ lengths' # <<>> => Seen(stream, LengthTexts, pos + 1, Request)
          /\ \A k \in 1 .. pos + 1 : stream[k].req = Request /\ stream[k].text \in LengthTexts =>
               lengths' # <<>> /\ lengths'[1] = stream[k]
      <3>1. CASE h.text \in LengthTexts
        <4>1. ~Seen(stream, LengthTexts, pos - 2, Request)
          <5>1. \A k \in 1 .. (pos - 1) - 1 : stream[k].req = h.req => stream[k].text \notin LengthTexts
            BY <1>2, <3>1, HeadersFollowRequestLine
          <5>2. (pos - 1) - 1 = pos - 2
            BY <1>2
          <5> QED
            BY <1>2, <5>1, <5>2 DEF Seen
        <4>2. lengths = <<>>
          BY <2>3, <4>1 DEF HeadSoFar
        <4>3. lengths' # <<>> /\ lengths'[1] = h
          BY <2>2, <3>1, <4>2
        <4>4. \A k \in 1 .. pos + 1 :
                stream[k].req = Request /\ stream[k].text \in LengthTexts => k = pos - 1
          BY <2>3, <4>1, LineKinds DEF Seen
        <4>5. Seen(stream, LengthTexts, pos + 1, Request)
          BY <2>3, <3>1, LineKinds
        <4> QED
          BY <4>3, <4>4, <4>5
      <3>2. CASE h.text \notin LengthTexts
        <4>1. lengths' = lengths
          BY <2>2, <3>2
        <4>2. Seen(stream, LengthTexts, pos + 1, Request) <=> Seen(stream, LengthTexts, pos - 2, Request)
          BY <2>3, <3>2, LineKinds
        <4>3. \A k \in 1 .. pos + 1 : stream[k].text \in LengthTexts => k \in 1 .. pos - 2
          BY <2>3, <3>2, LineKinds
        <4> QED
          BY <2>3, <4>1, <4>2, <4>3 DEF HeadSoFar
      <3> QED
        BY <3>1, <3>2
    <2>7. HeadSoFar(stream, pos + 1, Request, state_', keepAlive', lengths')
      BY <1>1, <2>5, <2>6 DEF HeadSoFar
    <2> QED
      BY <1>1, <2>1, <2>3, <2>7, NextLineOfHead
  <1>7. CASE h.text = "bad header"
    <2>1. Bad(stream, Request)
      BY <1>2, <1>7, BadToken DEF BadTexts
    <2>2. pc' = "refuse"
      BY <1>1, <1>5, <1>7
    <2> QED
      BY <1>1, <1>2, <2>1, <2>2, ReceiveKeepsFraming
  <1> QED
    BY <1>6, <1>7

(* The head ends with the empty line that the client ended it with, and    *)
(* the length of the body is what the client said.                         *)
LEMMA EndOfHeadFraming ==
  ASSUME Inv, Framing, EndOfHead
  PROVE  Framing'
  <1>1. /\ EndOfLine /\ state_ = "REQUEST_LINE" /\ ~line_started
        /\ UNCHANGED <<response_sent_, ending, keepAlive, lengths, loaded_body_size_>>
        /\ IF BadContentLength
             THEN pc' = "refuse" /\ state_' = state_
             ELSE IF ContentLength = 0
               THEN state_' = "BODY" /\ pc' = "handle"
               ELSE state_' = "HEADERS" /\ pc' = "body"
    BY DEF EndOfHead, localVars
  <1>2. /\ pc = "receive" /\ Receive /\ UNCHANGED <<stream, output>> /\ Request' = Request
        /\ pos \in Nat /\ pos' = pos + 1 /\ pos + 1 \in 1..Len(stream) /\ line_ = <<>>
        /\ ~response_sent_ /\ loaded_body_size_ = 0 /\ stream \in Seq(Tokens) /\ Framed(stream)
        /\ stream[pos + 1].req = Request /\ parts' = {Request} /\ stream[pos + 1].text = "lf"
        /\ HeadSoFar(stream, Finished(stream, pos, line_), Request, state_, keepAlive, lengths)
        /\ AtEmptyLine
    BY <1>1, EndOfLineFacts
  <1>3. HeadSoFar(stream, pos, Request, state_, keepAlive, lengths)
    BY <1>2 DEF Finished
  <1>4. pos > 0 /\ stream[pos].text = "cr" /\ LineStart(stream, pos)
    BY <1>2 DEF AtEmptyLine
  <1>5. "lf" \notin LineTexts /\ (pos + 1) - 1 = pos
    BY <1>2 DEF LineTexts, RequestLines, HeaderTexts, LengthTexts
  <1>6. HeadSoFar(stream, pos + 1, Request, state_, keepAlive, lengths)
    BY <1>2, <1>3, <1>5, HeadGoesOn
  <1>7. CASE BadContentLength
    <2>1. Seen(stream, LengthTexts, pos, Request) /\ lengths # <<>> /\ lengths[1].text = "bad content-length"
      BY <1>3, <1>7 DEF HeadSoFar, BadContentLength
    <2>2. PICK k \in 1..pos : stream[k].req = Request /\ stream[k].text \in LengthTexts
      BY <2>1 DEF Seen
    <2>3. stream[k].text \in BadTexts
      BY <1>3, <2>1, <2>2 DEF HeadSoFar, BadTexts
    <2>4. k \in 1..Len(stream)
      BY <1>2
    <2>5. Bad(stream, Request)
      BY <1>2, <2>2, <2>3, <2>4, BadToken
    <2> QED
      BY <1>1, <1>2, <1>7, <2>5, ReceiveKeepsFraming
  <1>8. CASE ~BadContentLength
    <2>1. HeadEnd(stream, pos + 1)
      <3>1. Asked(stream, pos + 1)
        BY <1>1, <1>2, <1>3, <1>5 DEF HeadSoFar, Seen, Asked, RequestLines
      <3>2. pos + 1 \in 2..Len(stream)
        BY <1>2, <1>4
      <3> QED
        BY <1>2, <1>4, <1>5, <3>1, <3>2 DEF HeadEnd
    <2>2. ContentLength = BodyLength(stream, pos + 1)
      <3> DEFINE said == {k \in 1 .. pos + 1 : /\ stream[k].req = stream[pos + 1].req
                                               /\ stream[k].text \in LengthTexts}
      <3>1. CASE said = {}
        <4>1. lengths = <<>>
          BY <1>2, <1>6, <3>1 DEF HeadSoFar, Seen
        <4> QED
          BY <3>1, <4>1 DEF ContentLength, BodyLength
      <3>2. CASE said # {}
        <4>1. (CHOOSE k \in said : TRUE) \in said
          BY <3>2
        <4>2. PICK k \in said : BodyLength(stream, pos + 1) = stream[k].length
          BY <3>2, <4>1 DEF BodyLength
        <4>3. lengths # <<>> /\ lengths[1] = stream[k]
          BY <1>2, <1>6 DEF HeadSoFar
        <4> QED
          BY <4>2, <4>3 DEF ContentLength
      <3> QED
        BY <3>1, <3>2
    <2>3. /\ state_' \in {"HEADERS", "BODY"} /\ pc' \in {"body", "handle"}
          /\ state_' = "BODY" => ContentLength = 0 /\ pc' = "handle"
      BY <1>1, <1>8
    <2>4. ContentLength' = ContentLength /\ ~BadContentLength'
      BY <1>1, <1>8 DEF ContentLength, BadContentLength
    <2>5. HeadSoFar(stream, pos + 1, Request, state_', keepAlive, lengths)
      BY <1>1, <1>6, <2>3 DEF HeadSoFar
    <2>6. /\ HeadEnd(stream', pos + 1) /\ pos' = pos + 1 + loaded_body_size_'
          /\ ContentLength' = BodyLength(stream', pos + 1) /\ parts' = {stream'[pos + 1].req}
          /\ stream'[pos + 1].req = IF response_sent_' THEN Len(output') ELSE Request'
          /\ HeadSoFar(stream', pos + 1, stream'[pos + 1].req, state_', keepAlive', lengths')
      BY <1>1, <1>2, <2>1, <2>2, <2>4, <2>5
    <2>7. pos + 1 \in 1..pos'
      BY <1>2
    <2>8. InBody'
      <3>1. \E m \in 1..pos' : InBodyOf(m)'
        BY <2>6, <2>7 DEF InBodyOf
      <3> QED
        BY <1>1, <1>2, <2>3, <2>4, <3>1 DEF InBody
    <2> QED
      BY <1>1, <1>2, <2>3, <2>8, ReceiveKeepsFraming
  <1> QED
    BY <1>7, <1>8

-----------------------------------------------------------------------------
(* What comes after a head: the body, and nothing else of the request.     *)
LEMMA AfterHead ==
  ASSUME NEW s \in Seq(Tokens), Framed(s), NEW m, HeadEnd(s, m), NEW n \in 1..Len(s),
         s[n].req = s[m].req, n > m
  PROVE  s[n].text = "body"
  <1>1. /\ m \in 1..Len(s) /\ BodyLength(s, m) \in Nat
        /\ n <= m + BodyLength(s, m) => s[n].text = "body"
    BY BodyFollowsHead
  <1>2. SUFFICES ASSUME n > m + BodyLength(s, m) PROVE FALSE
    BY <1>1
  <1> DEFINE k == m + BodyLength(s, m) + 1
  <1>3. k \in 1..Len(s) /\ k \in 1..n /\ m < k
    BY <1>1, <1>2
  <1>4. s[k].req = s[m].req + 1
    BY <1>3, BodyFollowsHead
  <1>5. s[k].req <= s[n].req /\ s[n].req \in Nat /\ s[m].req \in Nat
    BY <1>1, <1>3, NumbersGrow
  <1> QED
    BY <1>4, <1>5

(* The state of the listener in a body.                                    *)
LEMMA InBodyFacts ==
  ASSUME Inv, Framing, Reads, state_ \in {"HEADERS", "BODY"}
  PROVE  /\ \E m \in 1..pos : InBodyOf(m)
         /\ ~BadContentLength /\ (state_ = "BODY" => loaded_body_size_ = ContentLength)
         /\ ~response_sent_ /\ output # <<>> => ~Final(stream, Len(output))
         /\ stream \in Seq(Tokens) /\ Framed(stream) /\ pos \in 0..Len(stream)
         /\ loaded_body_size_ \in Nat /\ ContentLength \in Nat
         /\ output \in Seq([req : SUBSET Nat, status : {"answer", "400"}])
  <1>1. InBody /\ (~response_sent_ /\ output # <<>> => ~Final(stream, Len(output))) /\ Framed(stream)
    BY DEF Framing, Place, BetweenRequests, InHead
  <1>2. /\ stream \in Seq(Tokens) /\ avail \in 0..Len(stream) /\ pos \in 0..avail
        /\ loaded_body_size_ \in Nat /\ ContentLength \in Nat
        /\ output \in Seq([req : SUBSET Nat, status : {"answer", "400"}])
    BY ContentLengthType DEF Inv, TypeOK
  <1>3. pos \in 0..Len(stream)
    BY <1>2
  <1> QED
    BY <1>1, <1>2, <1>3 DEF InBody

(* The place does not change when nothing of the request does.             *)
LEMMA PlaceStays ==
  ASSUME UNCHANGED <<stream, pos, parts, output, line_, requestVars, loaded_body_size_, response_sent_>>,
         BetweenRequests \/ InHead \/ InBody,
         InHead /\ stream[pos].text = "cr" => pc' = "receive"
  PROVE  (BetweenRequests \/ InHead \/ InBody)'
  <1>1. /\ stream' = stream /\ pos' = pos /\ parts' = parts /\ output' = output /\ line_' = line_
        /\ state_' = state_ /\ keepAlive' = keepAlive /\ lengths' = lengths
        /\ loaded_body_size_' = loaded_body_size_ /\ response_sent_' = response_sent_
        /\ Request' = Request
    BY DEF requestVars, Request
  <1>2. BetweenRequests => BetweenRequests'
    BY <1>1 DEF BetweenRequests
  <1>3. InHead => InHead'
    BY <1>1 DEF InHead
  <1>4. InBody => InBody'
    <2>1. ContentLength' = ContentLength /\ BadContentLength' = BadContentLength
      BY <1>1 DEF ContentLength, BadContentLength
    <2>2. ASSUME NEW m \in 1..pos, InBodyOf(m) PROVE InBodyOf(m)'
      BY <1>1, <2>1, <2>2 DEF InBodyOf
    <2> QED
      BY <1>1, <2>1, <2>2 DEF InBody
  <1> QED
    BY <1>2, <1>3, <1>4

(* The body stops where the request does.                                  *)
LEMMA BodyFraming ==
  ASSUME Inv, Framing, Body
  PROVE  Framing'
  <1> DEFINE remaining == ContentLength - loaded_body_size_
             received == IF avail - pos < remaining THEN avail - pos ELSE remaining
  <1>1. /\ pos' = pos + received
        /\ parts' = parts \cup {stream[i].req : i \in pos + 1 .. pos + received}
        /\ loaded_body_size_' = loaded_body_size_ + received
        /\ state_' = IF received = remaining THEN "BODY" ELSE state_
        /\ pc = "body" /\ pc' = "handle"
        /\ UNCHANGED <<stream, avail, peer, open, output, keepAlive, lengths, line_,
                       response_sent_, chain, localVars>>
    BY DEF Body
  <1>2. open /\ Reads /\ state_ = "HEADERS" /\ loaded_body_size_ < ContentLength
    BY <1>1 DEF Framing, Settled, Reads, Inv, WhereItIs, BodyWithinLength
  <1>3. PICK m \in 1..pos : InBodyOf(m)
    BY <1>2, InBodyFacts
  <1>4. /\ ~BadContentLength /\ stream \in Seq(Tokens) /\ Framed(stream) /\ pos \in 0..Len(stream)
        /\ loaded_body_size_ \in Nat /\ ContentLength \in Nat
        /\ ~response_sent_ /\ output # <<>> => ~Final(stream, Len(output))
    BY <1>2, InBodyFacts
  <1>5. avail \in 0..Len(stream) /\ pos \in 0..avail
    BY DEF Inv, TypeOK
  <1>6. /\ received \in Nat /\ received <= remaining /\ pos + received <= avail
        /\ remaining \in Nat
    BY <1>2, <1>4, <1>5
  <1>7. /\ HeadEnd(stream, m) /\ pos = m + loaded_body_size_
        /\ ContentLength = BodyLength(stream, m) /\ parts = {stream[m].req}
        /\ stream[m].req = IF response_sent_ THEN Len(output) ELSE Request
        /\ HeadSoFar(stream, m, stream[m].req, state_, keepAlive, lengths)
    BY <1>3 DEF InBodyOf
  <1>8. \A i \in pos + 1 .. pos + received : stream[i].req = stream[m].req
    <2>1. TAKE i \in pos + 1 .. pos + received
    <2>2. i \in 1..Len(stream) /\ m < i /\ i <= m + BodyLength(stream, m)
      BY <1>3, <1>4, <1>5, <1>6, <1>7
    <2> QED
      BY <1>4, <1>7, <2>2, BodyFollowsHead
  <1>9. parts' = parts
    BY <1>1, <1>7, <1>8
  <1>10. /\ UNCHANGED <<stream, avail, peer, open, output, keepAlive, lengths, response_sent_, ending>>
         /\ Request' = Request
    BY <1>1 DEF localVars, Request
  <1>11. ContentLength' = ContentLength /\ ~BadContentLength' /\ state_' \in {"HEADERS", "BODY"}
    BY <1>1, <1>2, <1>4, <1>10 DEF ContentLength, BadContentLength
  <1>12. InBody'
    <2>1. m \in 1..pos'
      BY <1>1, <1>4, <1>6
    <2>2. pos' = m + loaded_body_size_'
      BY <1>1, <1>3, <1>4, <1>6, <1>7
    <2>3. HeadSoFar(stream, m, stream[m].req, state_', keepAlive, lengths)
      BY <1>2, <1>7, <1>11 DEF HeadSoFar
    <2>4. InBodyOf(m)'
      BY <1>7, <1>9, <1>10, <1>11, <2>2, <2>3 DEF InBodyOf
    <2>5. state_' = "BODY" => loaded_body_size_' = ContentLength'
      BY <1>1, <1>2, <1>4, <1>6, <1>11
    <2> QED
      BY <1>11, <2>1, <2>4, <2>5 DEF InBody
  <1>13. Place'
    BY <1>1, <1>4, <1>10, <1>12 DEF Place
  <1>14. Settled' /\ Refusing' /\ ClosedByServer'
    BY <1>1, <1>2, <1>10 DEF Framing, Settled, Refusing, ClosedByServer
  <1>15. Answers'
    BY <1>9, <1>10 DEF Framing, Answers
  <1> QED
    BY <1>4, <1>10, <1>13, <1>14, <1>15 DEF Framing

(* The answer to the request whose head has come; none yet; or one before. *)
LEMMA RespondFraming ==
  ASSUME Inv, Framing, Respond
  PROVE  Framing'
  <1>1. /\ pc = "handle" /\ ~response_sent_ /\ response_sent_' = TRUE
        /\ output' = IF peer \in {"open", "hup"}
                       THEN Append(output, [req |-> parts, status |-> "answer"]) ELSE output
        /\ pc' = IF peer = "gone" THEN "killed" ELSE "complete"
        /\ open' = (open /\ peer \in {"open", "hup"})
        /\ UNCHANGED <<stream, avail, pos, peer, state_, keepAlive, lengths, loaded_body_size_, ending, parts>>
    BY DEF Respond, SendResponse, requestVars, localVars
  <1>2. open /\ Reads /\ state_ \in {"HEADERS", "BODY"}
    BY <1>1 DEF Framing, Settled, Reads, Inv, WhereItIs
  <1>3. PICK m \in 1..pos : InBodyOf(m)
    BY <1>2, InBodyFacts
  <1>4. /\ ~BadContentLength /\ (state_ = "BODY" => loaded_body_size_ = ContentLength)
        /\ output # <<>> => ~Final(stream, Len(output))
        /\ output \in Seq([req : SUBSET Nat, status : {"answer", "400"}]) /\ Framed(stream)
    BY <1>1, <1>2, InBodyFacts
  <1>5. peer \in Peers
    BY DEF Inv, TypeOK
  <1>6. parts = {Request} /\ stream[m].req = Request
    BY <1>1, <1>3 DEF InBodyOf
  <1>7. CASE peer \in {"open", "hup"}
    <2>1. /\ output' = Append(output, [req |-> parts, status |-> "answer"])
          /\ pc' = "complete" /\ open'
      BY <1>1, <1>2, <1>7
    <2>2. /\ Len(output') = Request /\ Len(output) \in Nat /\ Request = Len(output) + 1
          /\ output'[Request].req = {Request} /\ output'[Request].status = "answer"
          /\ DOMAIN output' = 1..Request
          /\ \A i \in 1 .. Request : i = Request \/ (i \in DOMAIN output /\ output'[i] = output[i])
      BY <1>4, <1>6, <2>1 DEF Request
    <2>3. InBody'
      <3>1. ContentLength' = ContentLength /\ BadContentLength' = BadContentLength
        BY <1>1 DEF ContentLength, BadContentLength
      <3>2. InBodyOf(m)'
        BY <1>1, <1>3, <1>6, <2>2, <3>1 DEF InBodyOf
      <3> QED
        BY <1>1, <1>2, <1>4, <3>1, <3>2 DEF InBody
    <2>4. Place'
      BY <1>1, <2>1, <2>3 DEF Place
    <2>5. Settled' /\ Refusing' /\ ClosedByServer'
      BY <1>1, <2>1 DEF Framing, Settled, Refusing, ClosedByServer
    <2>6. Answers'
      <3>1. \A i \in DOMAIN output' :
              /\ output'[i].req = {i}
              /\ output'[i].status = "400" => Bad(stream, i)
              /\ i < Len(output') => ~Final(stream, i)
        <4>1. TAKE i \in DOMAIN output'
        <4>2. CASE i = Request
          BY <2>2, <4>2
        <4>3. CASE i # Request
          <5>1. i \in DOMAIN output /\ output'[i] = output[i] /\ i \in 1..Len(output)
            BY <1>4, <2>2, <4>3
          <5>2. i < Len(output) \/ (i = Len(output) /\ output # <<>>)
            BY <1>4, <5>1
          <5> QED
            BY <1>4, <5>1, <5>2 DEF Framing, Answers
        <4> QED
          BY <4>2, <4>3
      <3> QED
        BY <1>1, <1>6, <2>2, <3>1 DEF Answers
    <2> QED
      BY <1>1, <1>4, <2>4, <2>5, <2>6 DEF Framing
  <1>8. CASE peer \notin {"open", "hup"}
    <2>1. output' = output /\ pc' \in {"killed", "complete"} /\ ~open' /\ peer' # "open"
      BY <1>1, <1>8
    <2>2. Place' /\ Settled' /\ Refusing' /\ ClosedByServer'
      BY <1>1, <2>1 DEF Framing, Settled, Refusing, ClosedByServer, Place, Reads
    <2>3. Answers'
      BY <1>1, <2>1 DEF Framing, Answers, Request
    <2> QED
      BY <1>1, <1>4, <2>2, <2>3 DEF Framing
  <1> QED
    BY <1>7, <1>8

(* A step that leaves the request, the output and the stream alone.        *)
LEMMA QuietFraming ==
  ASSUME Inv, Framing,
         UNCHANGED <<stream, pos, output, parts, line_, requestVars, loaded_body_size_, response_sent_>>,
         Reads' => Reads /\ (InHead /\ stream[pos].text = "cr" => pc' = "receive"),
         Reads' /\ pc' = "receive" => /\ expect_lf' <=> parts # {} /\ stream[pos].text = "cr"
                                      /\ line_started' <=> line_ # <<>>,
         Settled', Refusing', ClosedByServer'
  PROVE  Framing'
  <1>1. /\ stream' = stream /\ pos' = pos /\ parts' = parts /\ output' = output /\ line_' = line_
        /\ response_sent_' = response_sent_
    OBVIOUS
  <1>2. Framed(stream') /\ Answers'
    BY <1>1 DEF Framing, Answers, Request
  <1>3. ASSUME Reads' PROVE (BetweenRequests \/ InHead \/ InBody)'
    BY <1>3, PlaceStays DEF Framing, Place
  <1>4. Place'
    BY <1>1, <1>3 DEF Framing, Place
  <1> QED
    BY <1>2, <1>4 DEF Framing

(* The steps between the calls.                                            *)
LEMMA CallsFraming ==
  ASSUME Inv, Framing,
         DataAvailable \/ NextLine \/ LineIncomplete \/ RecvThrows \/ NoResponse
           \/ ResponseAlreadySent \/ Return
  PROVE  Framing'
  <1>1. UNCHANGED <<stream, pos, output, parts, line_, requestVars, loaded_body_size_, response_sent_, avail>>
    BY DEF DataAvailable, NextLine, LineIncomplete, RecvThrows, NoResponse, ResponseAlreadySent,
           Return, socketVars, listenerVars
  <1>2. state_' = state_ /\ stream' = stream /\ output' = output /\ parts' = parts /\ avail' = avail
        /\ response_sent_' = response_sent_
    BY <1>1 DEF requestVars
  <1>3. /\ state_ \in {"INVALID", "REQUEST_LINE", "HEADERS", "BODY"} /\ peer \in Peers
        /\ avail \in Nat /\ ending \in BOOLEAN
    BY DEF Inv, TypeOK
  <1>4. InHead => pos > 0 /\ pos \in Nat /\ (stream[pos].text = "cr" => pc = "receive")
    BY DEF InHead, Inv, TypeOK
  <1>5. CASE DataAvailable
    <2>1. /\ pc = "idle" /\ pc' = "head" /\ ending' = (peer # "open")
          /\ UNCHANGED <<peer, open>>
      BY <1>5 DEF DataAvailable, socketVars
    <2>2. Settled' /\ Refusing' /\ ClosedByServer' /\ (Reads' => Reads)
      BY <1>2, <2>1 DEF Framing, Settled, Refusing, ClosedByServer, Reads
    <2> QED
      BY <1>1, <1>4, <2>1, <2>2, QuietFraming
  <1>6. CASE NextLine
    <2>1. /\ pc = "head" /\ UNCHANGED <<peer, open, ending>> /\ open
          /\ \/ pc' = "receive" /\ ~expect_lf' /\ line_started' = (line_ # <<>>)
             \/ pc' = "body" /\ state_ = "HEADERS"
             \/ pc' = "handle" /\ state_ = "BODY"
      BY <1>3, <1>6 DEF NextLine, socketVars, Framing, Settled
    <2>2. state_ # "BODY"
      BY <2>1 DEF Framing, Settled
    <2>3. Settled' /\ Refusing' /\ ClosedByServer' /\ Reads
      BY <1>2, <2>1, <2>2 DEF Framing, Settled, Refusing, ClosedByServer, Reads
    <2>4. InHead => stream[pos].text # "cr"
      BY <1>4, <2>1
    <2>5. pc' = "receive" => ~(parts # {} /\ stream[pos].text = "cr")
      <3>1. pc' = "receive" => state_ \notin {"HEADERS", "BODY"}
        BY <1>6, <2>1 DEF NextLine
      <3> QED
        BY <2>3, <2>4, <3>1 DEF Framing, Place, BetweenRequests, InBody
    <2> QED
      BY <1>1, <2>1, <2>3, <2>4, <2>5, QuietFraming
  <1>7. CASE LineIncomplete
    <2>1. pc = "receive" /\ pc' = "return" /\ pos = avail /\ UNCHANGED <<peer, open, ending>>
      BY <1>7 DEF LineIncomplete, socketVars, localVars
    <2>2. open /\ state_ # "BODY" /\ (avail > 0 => stream[avail].text # "cr")
      BY <2>1 DEF Framing, Settled
    <2>3. Settled' /\ Refusing' /\ ClosedByServer' /\ Reads
      BY <1>2, <2>1, <2>2 DEF Framing, Settled, Refusing, ClosedByServer, Reads
    <2>4. InHead => stream[pos].text # "cr"
      BY <1>4, <2>1, <2>2
    <2> QED
      BY <1>1, <2>1, <2>3, <2>4, QuietFraming
  <1>8. CASE RecvThrows
    <2>1. pc \in {"receive", "body"} /\ pc' = "refuse" /\ peer' = "gone" /\ UNCHANGED <<open, ending>>
      BY <1>8 DEF RecvThrows, localVars
    <2>2. Settled' /\ Refusing' /\ ClosedByServer' /\ ~Reads'
      BY <1>2, <2>1 DEF Framing, Settled, Refusing, ClosedByServer, Reads
    <2> QED
      BY <1>1, <2>2, QuietFraming
  <1>9. CASE NoResponse \/ ResponseAlreadySent
    <2>1. /\ pc = "handle" /\ pc' = "complete" /\ UNCHANGED <<peer, open, ending>>
          /\ state_ = "BODY" => response_sent_
      BY <1>9 DEF NoResponse, ResponseAlreadySent, socketVars, localVars
    <2>2. Settled' /\ Refusing' /\ ClosedByServer' /\ (Reads' => Reads)
      BY <1>2, <2>1 DEF Framing, Settled, Refusing, ClosedByServer, Reads
    <2> QED
      BY <1>1, <1>4, <2>1, <2>2, QuietFraming
  <1>10. CASE Return
    <2>1. /\ pc = "return" /\ UNCHANGED <<peer, ending>>
          /\ \/ pc' = "idle" /\ open' = open /\ open
             \/ pc' = "closed" /\ open' = FALSE /\ (~open \/ ending)
      BY <1>3, <1>10 DEF Return, localVars
    <2>2. Settled' /\ Refusing' /\ ClosedByServer' /\ (Reads' => Reads)
      BY <1>2, <2>1 DEF Framing, Settled, Refusing, ClosedByServer, Reads
    <2> QED
      BY <1>1, <1>4, <2>1, <2>2, QuietFraming
  <1> QED
    BY <1>5, <1>6, <1>7, <1>8, <1>9, <1>10

(* What the client does, and the end of the process.                       *)
LEMMA ClientFraming ==
  ASSUME Inv, Framing, SplitCRLF = FALSE, Deliver \/ Leave \/ Killed \/ UNCHANGED vars
  PROVE  Framing'
  <1>1. /\ UNCHANGED <<stream, pos, output, parts, line_, requestVars, loaded_body_size_, response_sent_>>
        /\ UNCHANGED <<expect_lf, line_started, ending, pc, open>>
    BY DEF Deliver, Leave, Killed, vars, socketVars, listenerVars, localVars
  <1>2. state_' = state_ /\ stream' = stream /\ output' = output /\ parts' = parts
        /\ response_sent_' = response_sent_
    BY <1>1 DEF requestVars
  <1>3. \/ peer' = peer \/ peer' = "gone"
        \/ peer = "open"
    BY DEF Deliver, Leave, Killed, vars, socketVars
  <1>4. avail' = avail \/ stream[avail'].text # "cr"
    BY DEF Deliver, Leave, Killed, vars, socketVars
  <1>5. peer # "open" => peer' # "open"
    BY DEF Deliver, Leave, Killed, vars, socketVars
  <1>6. Settled'
    BY <1>1, <1>2, <1>4, <1>5 DEF Framing, Settled
  <1>7. Refusing' /\ ClosedByServer'
    <2>1. peer = "gone" => peer' = "gone"
      BY DEF Deliver, Leave, Killed, vars, socketVars
    <2> QED
      BY <1>1, <1>2, <1>5, <2>1 DEF Framing, Refusing, ClosedByServer, Request
  <1>8. Reads' => Reads /\ (InHead /\ stream[pos].text = "cr" => pc' = "receive")
    BY <1>1 DEF Reads, InHead
  <1>9. Reads' /\ pc' = "receive" => /\ expect_lf' <=> parts # {} /\ stream[pos].text = "cr"
                                     /\ line_started' <=> line_ # <<>>
    BY <1>1 DEF Framing, Place, Reads
  <1> QED
    BY <1>1, <1>6, <1>7, <1>8, <1>9, QuietFraming

(* The end of a request: where the client ended it.                        *)
LEMMA CompleteFraming ==
  ASSUME Inv, Framing, Complete
  PROVE  Framing'
  <1>1. pc = "complete" /\ pc' = "return" /\ UNCHANGED <<stream, avail, pos, peer, output, ending>>
    BY DEF Complete, localVars
  <1>2. ~open => peer # "open"
    BY <1>1 DEF Framing, Settled
  <1>3. CASE state_ # "BODY"
    <2>1. UNCHANGED <<open, listenerVars, parts, stream, pos, output>>
      BY <1>3, <1>1 DEF Complete
    <2>2. /\ UNCHANGED <<line_, requestVars, loaded_body_size_, response_sent_>>
          /\ state_' = state_
      BY <2>1 DEF listenerVars, requestVars
    <2>3. InHead => stream[pos].text # "cr"
      BY <1>1 DEF InHead
    <2>4. Settled' /\ Refusing' /\ ClosedByServer' /\ (Reads' => Reads)
      BY <1>1, <1>2, <1>3, <2>1, <2>2 DEF Framing, Settled, Refusing, ClosedByServer, Reads
    <2> QED
      BY <1>1, <2>1, <2>2, <2>3, <2>4, QuietFraming
  <1>4. CASE state_ = "BODY"
    <2>1. /\ open' = (open /\ keepAlive) /\ state_' = "INVALID" /\ line_' = <<>>
          /\ response_sent_' = FALSE /\ parts' = {}
      BY <1>4 DEF Complete, ResetRequestParsing
    <2>2. Answers' /\ Refusing' /\ Framed(stream)'
      BY <1>1, <2>1 DEF Framing, Answers, Refusing, Request
    <2>3. CASE ~open
      <3>1. ~open' /\ peer' # "open"
        BY <1>1, <1>2, <2>1, <2>3
      <3>2. Place' /\ Settled' /\ ClosedByServer'
        BY <1>1, <2>1, <3>1 DEF Framing, Place, Reads, Settled, ClosedByServer
      <3> QED
        BY <2>2, <3>2 DEF Framing
    <2>4. CASE open
      <3>1. Reads /\ response_sent_
        BY <1>1, <1>4, <2>4 DEF Reads, Framing, Settled
      <3>2. PICK m \in 1..pos : InBodyOf(m)
        BY <1>4, <3>1, InBodyFacts
      <3>3. /\ ~BadContentLength /\ loaded_body_size_ = ContentLength
            /\ stream \in Seq(Tokens) /\ Framed(stream) /\ pos \in 0..Len(stream)
            /\ loaded_body_size_ \in Nat
            /\ output \in Seq([req : SUBSET Nat, status : {"answer", "400"}])
        BY <1>4, <3>1, InBodyFacts
      <3>4. /\ HeadEnd(stream, m) /\ pos = m + BodyLength(stream, m)
            /\ stream[m].req = Len(output)
            /\ HeadSoFar(stream, m, Len(output), state_, keepAlive, lengths)
        BY <3>1, <3>2, <3>3 DEF InBodyOf
      <3>5. Ended(stream, pos) /\ pos # 0
        BY <3>2, <3>4 DEF Ended
      <3>6. stream[pos].req = Len(output)
        <4>1. pos \in 1..Len(stream) /\ (m < pos \/ m = pos)
          BY <3>2, <3>3
        <4>2. m < pos => stream[pos].req = stream[m].req
          <5>1. pos <= m + BodyLength(stream, m)
            BY <3>3, <3>4
          <5> QED
            BY <3>3, <3>4, <4>1, <5>1, BodyFollowsHead
        <4> QED
          BY <3>4, <4>1, <4>2
      <3>7. \A n \in DOMAIN stream : stream[n].req = Len(output) =>
              n \in 1..m \/ stream[n].text = "body"
        <4>1. SUFFICES ASSUME NEW n \in 1..Len(stream), stream[n].req = Len(output), n \notin 1..m
                       PROVE  stream[n].text = "body"
          BY <3>3
        <4>2. n > m
          BY <3>2, <4>1
        <4> QED
          BY <3>3, <3>4, <4>1, <4>2, AfterHead
      <3>8. ~Bad(stream, Len(output))
        <4>1. SUFFICES ASSUME NEW n \in DOMAIN stream, stream[n].req = Len(output),
                              stream[n].text \in BadTexts
                       PROVE  FALSE
          BY DEF Bad
        <4>2. n \in 1..m
          BY <3>7, <4>1 DEF BadTexts
        <4>3. stream[n].text = "bad content-length"
          BY <3>4, <4>1, <4>2 DEF HeadSoFar, Seen, BadTexts
        <4>4. lengths # <<>> /\ lengths[1] = stream[n]
          BY <3>4, <4>1, <4>2, <4>3 DEF HeadSoFar, LengthTexts
        <4> QED
          BY <3>3, <4>3, <4>4 DEF BadContentLength
      <3>9. Final(stream, Len(output)) <=> ~keepAlive
        <4>1. keepAlive <=> Seen(stream, {"keep-alive"}, m, Len(output))
          BY <3>4 DEF HeadSoFar
        <4>2. Seen(stream, {"keep-alive"}, m, Len(output)) <=>
                \E n \in DOMAIN stream : stream[n].req = Len(output) /\ stream[n].text = "keep-alive"
          <5>1. \A n \in 1..m : n \in DOMAIN stream
            BY <3>2, <3>3
          <5> QED
            BY <3>7, <5>1 DEF Seen
        <4> QED
          BY <3>8, <4>1, <4>2 DEF Final
      <3>10. CASE keepAlive
        <4>1. open' /\ ~Final(stream, Len(output))
          BY <2>1, <2>4, <3>9, <3>10
        <4>2. BetweenRequests'
          BY <1>1, <2>1, <3>5, <3>6 DEF BetweenRequests
        <4>3. Place' /\ Settled' /\ ClosedByServer'
          BY <1>1, <2>1, <4>1, <4>2 DEF Framing, Place, Settled, ClosedByServer
        <4> QED
          BY <2>2, <4>3 DEF Framing
      <3>11. CASE ~keepAlive
        <4>1. ~open' /\ Final(stream, Len(output))
          BY <2>1, <3>9, <3>11
        <4>2. Place' /\ Settled' /\ ClosedByServer'
          BY <1>1, <2>1, <4>1 DEF Framing, Place, Reads, Settled, ClosedByServer
        <4> QED
          BY <2>2, <4>2 DEF Framing
      <3> QED
        BY <3>10, <3>11
    <2> QED
      BY <2>3, <2>4
  <1> QED
    BY <1>3, <1>4

(* The catch.                                                              *)
LEMMA RefuseFraming ==
  ASSUME Inv, Framing, Refuse
  PROVE  Framing'
  <1>1. /\ pc = "refuse" /\ open' = FALSE
        /\ output' = IF peer \in {"open", "hup"}
                       THEN Append(output, [req |-> parts, status |-> "400"]) ELSE output
        /\ pc' = IF peer = "gone" THEN "killed" ELSE "return"
        /\ UNCHANGED <<stream, avail, pos, peer, state_, response_sent_, ending, parts>>
    BY DEF Refuse, SendResponse, listenerVars, requestVars, localVars
  <1>2. /\ output \in Seq([req : SUBSET Nat, status : {"answer", "400"}]) /\ peer \in Peers
        /\ Framed(stream)
    BY DEF Inv, TypeOK, Framing
  <1>3. Place' /\ Settled' /\ Refusing'
    BY <1>1 DEF Place, Reads, Framing, Settled, Refusing
  <1>4. CASE peer \in {"open", "hup"}
    <2>1. /\ parts = {Request} /\ Bad(stream, Request)
          /\ output # <<>> => ~Final(stream, Len(output))
      BY <1>1, <1>4 DEF Framing, Refusing
    <2>2. output' = Append(output, [req |-> parts, status |-> "400"])
      BY <1>1, <1>4
    <2>3. /\ Len(output') = Request /\ Len(output) \in Nat /\ Request = Len(output) + 1
          /\ output'[Request].req = {Request}
          /\ DOMAIN output' = 1..Request
          /\ \A i \in 1 .. Request : i = Request \/ (i \in DOMAIN output /\ output'[i] = output[i])
      BY <1>2, <2>1, <2>2 DEF Request
    <2>4. \A i \in DOMAIN output' :
            /\ output'[i].req = {i}
            /\ output'[i].status = "400" => Bad(stream, i)
            /\ i < Len(output') => ~Final(stream, i)
      <3>1. TAKE i \in DOMAIN output'
      <3>2. CASE i = Request
        BY <2>1, <2>3, <3>2
      <3>3. CASE i # Request
        <4>1. i \in DOMAIN output /\ output'[i] = output[i] /\ i \in 1..Len(output)
          BY <1>2, <2>3, <3>3
        <4>2. i < Len(output) \/ (i = Len(output) /\ output # <<>>)
          BY <1>2, <4>1
        <4> QED
          BY <2>1, <4>1, <4>2 DEF Framing, Answers
      <3> QED
        BY <3>2, <3>3
    <2>5. Answers'
      BY <1>1, <2>1, <2>3, <2>4 DEF Answers
    <2>6. ClosedByServer'
      BY <1>1, <2>1, <2>3 DEF ClosedByServer, Final
    <2> QED
      BY <1>1, <1>2, <1>3, <2>5, <2>6 DEF Framing
  <1>5. CASE peer \notin {"open", "hup"}
    <2>1. output' = output /\ peer' # "open"
      BY <1>1, <1>5
    <2>2. Answers' /\ ClosedByServer'
      BY <1>1, <2>1 DEF Framing, Answers, ClosedByServer, Request
    <2> QED
      BY <1>1, <1>2, <1>3, <2>2 DEF Framing
  <1> QED
    BY <1>4, <1>5

(* The start of a connection, and of the listener.                         *)
LEMMA ConnectedFraming ==
  ASSUME Inv, Framing, NEW s \in Streams, Framed(s), Connected(s)
  PROVE  Framing'
  <1>1. /\ stream' = s /\ avail' = 0 /\ pos' = 0 /\ open' = TRUE /\ output' = <<>>
        /\ state_' = "INVALID" /\ line_' = <<>> /\ parts' = {} /\ pc' = "idle"
    BY DEF Connected, ResetRequestParsing
  <1>2. BetweenRequests'
    BY <1>1 DEF BetweenRequests
  <1>3. Place' /\ Settled' /\ Refusing' /\ ClosedByServer'
    BY <1>1, <1>2 DEF Place, Settled, Refusing, ClosedByServer
  <1>4. Answers'
    BY <1>1 DEF Answers
  <1> QED
    BY <1>1, <1>3, <1>4 DEF Framing

LEMMA InitFraming == Init => Framing
  <1> SUFFICES ASSUME Init PROVE Framing
    OBVIOUS
  <1>1. /\ stream = <<>> /\ avail = 0 /\ open = FALSE /\ output = <<>> /\ parts = {}
        /\ pc = "closed" /\ state_ = "INVALID" /\ ending = FALSE
    BY DEF Init
  <1>2. Framed(stream)
    BY <1>1 DEF Framed, Numbered, Lined, Headed, Bodied
  <1> QED
    BY <1>1, <1>2 DEF Framing, Place, Reads, Settled, Answers, Refusing, ClosedByServer

LEMMA NextFraming ==
  ASSUME FramedStreams, Inv, Framing, [Next]_vars
  PROVE  Framing'
  <1>1. SplitCRLF = FALSE /\ \A s \in Streams : Framed(s)
    BY DEF FramedStreams
  <1>2. ASSUME NEW s \in Streams, Connected(s) PROVE Framing'
    BY <1>1, <1>2, ConnectedFraming
  <1>3. CASE Deliver \/ Leave \/ Killed \/ UNCHANGED vars
    BY <1>1, <1>3, ClientFraming
  <1>4. CASE DataAvailable \/ NextLine \/ LineIncomplete \/ RecvThrows \/ NoResponse
               \/ ResponseAlreadySent \/ Return
    BY <1>4, CallsFraming
  <1> QED
    BY <1>2, <1>3, <1>4, ReceiveCRFraming, ReceiveTextFraming, ReceiveInvalidFraming,
       SkipCRLFFraming, RequestLineFraming, HeaderLineFraming, EndOfHeadFraming, BodyFraming,
       RespondFraming, CompleteFraming, RefuseFraming DEF Next, Server

(* What Bad and Final say is what the properties say.                      *)
LEMMA EndsIsFinal ==
  ASSUME NEW i
  PROVE  (Malformed(i) <=> Bad(stream, i)) /\ (Ends(i) <=> Final(stream, i))
  BY DEF Malformed, Ends, Has, TokensOf, Bad, Final, BadTexts

(* The last token of a stream of whole requests leaves nothing unread.     *)
LEMMA IdleIsAnswered ==
  ASSUME Inv, Framing, Whole(stream), pc = "idle", pos = Len(stream), stream # <<>>
  PROVE  Ended(stream, pos) /\ Len(output) = stream[pos].req
  <1>1. /\ stream \in Seq(Tokens) /\ Framed(stream) /\ pos \in 1..Len(stream)
        /\ loaded_body_size_ \in Nat /\ ContentLength \in Nat
    BY ContentLengthType DEF Inv, TypeOK, Framing
  <1>2. Reads /\ state_ # "BODY"
    BY DEF Framing, Settled, Reads
  <1>3. \/ Ended(stream, pos)
        \/ pos > 1 /\ stream[pos - 1].text = "cr" /\ stream[pos].text # "lf"
    BY DEF Whole
  <1>4. Ended(stream, pos) => stream[pos].text = "body" \/ (stream[pos].text = "lf" /\ HeadEnd(stream, pos))
    BY <1>1, EndOfRequest
  <1>5. pos > 1 /\ stream[pos - 1].text = "cr" /\ stream[pos].text # "lf" =>
          stream[pos].text \in BadTexts /\ stream[pos].req = stream[pos - 1].req
    BY <1>1, LinesEnd
  <1>6. CASE BetweenRequests
    BY <1>1, <1>6 DEF BetweenRequests
  <1>7. CASE InHead
    <2>1. InLine(stream, pos, line_) /\ stream[pos].text # "cr"
      BY <1>7 DEF InHead
    <2>2. \/ stream[pos].text = "lf" /\ ~HeadEnd(stream, pos)
          \/ stream[pos].text \in LineTexts /\ LineStart(stream, pos)
      BY <2>1 DEF InLine
    <2>3. CASE stream[pos].text = "lf" /\ ~HeadEnd(stream, pos)
      BY <1>3, <1>4, <2>3
    <2>4. CASE stream[pos].text \in LineTexts /\ LineStart(stream, pos)
      <3>1. stream[pos].text \notin {"lf", "body"}
        BY <2>4 DEF LineTexts, RequestLines, HeaderTexts, LengthTexts
      <3>2. pos > 1 /\ stream[pos - 1].text = "cr" /\ stream[pos].req = stream[pos - 1].req
        BY <1>3, <1>4, <1>5, <3>1
      <3>3. pos # 1
        BY <1>1, <3>2
      <3>4. ~LineStart(stream, pos)
        BY <3>2, <3>3 DEF LineStart
      <3> QED
        BY <2>4, <3>4
    <2> QED
      BY <2>2, <2>3, <2>4
  <1>8. CASE InBody
    <2>1. PICK m \in 1..pos : InBodyOf(m)
      BY <1>8 DEF InBody
    <2>2. /\ HeadEnd(stream, m) /\ pos = m + loaded_body_size_ /\ ContentLength = BodyLength(stream, m)
          /\ loaded_body_size_ < ContentLength
      BY <1>2, <1>8, <2>1 DEF InBodyOf, InBody, Inv, BodyWithinLength
    <2>3. m = pos \/ stream[pos].text = "body"
      <3>1. m < pos /\ pos <= m + BodyLength(stream, m) => stream[pos].text = "body"
        BY <1>1, <2>2, BodyFollowsHead
      <3> QED
        BY <1>1, <2>1, <2>2, <3>1
    <2>4. stream[m].text = "lf" /\ m \in 1..Len(stream)
      BY <2>2 DEF HeadEnd
    <2>5. Ended(stream, pos)
      BY <1>3, <1>5, <2>3, <2>4 DEF BadTexts
    <2>6. PICK k \in 1..pos : HeadEnd(stream, k) /\ pos = k + BodyLength(stream, k)
      BY <2>5 DEF Ended
    <2>7. k \in 1..Len(stream) /\ BodyLength(stream, k) \in Nat
      BY <1>1, <2>6, BodyLengthType
    <2>8. (m < k => k > m + BodyLength(stream, m)) /\ (k < m => m > k + BodyLength(stream, k))
      BY <1>1, <2>2, <2>6, HeadsApart
    <2>9. m = k
      BY <1>1, <2>1, <2>2, <2>4, <2>6, <2>7, <2>8
    <2> QED
      BY <1>1, <2>2, <2>6, <2>9
  <1> QED
    BY <1>2, <1>6, <1>7, <1>8 DEF Framing, Place

-----------------------------------------------------------------------------
(* The invariants hold together, and with what is assumed of the clients.  *)
LEMMA FramingHolds == FramedStreams => (Spec => [](Inv /\ Framing))
  <1>1. Init => Inv /\ Framing
    BY InitInv, InitFraming
  <1>2. FramedStreams /\ (Inv /\ Framing) /\ [Next]_vars => (Inv /\ Framing)'
    BY NextInv, NextFraming
  <1>3. SUFFICES ASSUME FramedStreams PROVE Spec => [](Inv /\ Framing)
    OBVIOUS
  <1>4. (Inv /\ Framing) /\ [Next]_vars => (Inv /\ Framing)'
    BY <1>2, <1>3
  <1> QED
    BY <1>1, <1>4, PTL DEF Spec

(* The responses follow the requests, one each, however the data is cut    *)
(* (dataAvailable, receiveLine), except between CR and LF.                 *)
THEOREM ResponsesFollowRequests == FramedStreams => (Spec => []OneResponseEach)
  <1>1. Framing => OneResponseEach
    BY DEF Framing, Answers, OneResponseEach, Request
  <1> QED
    BY <1>1, FramingHolds, PTL

(* No well-formed request is refused (the catch of dataAvailable).         *)
THEOREM WellFormedRequestsAreAccepted == FramedStreams => (Spec => []WellFormedIsAccepted)
  <1>1. Framing => WellFormedIsAccepted
    BY EndsIsFinal DEF Framing, Answers, WellFormedIsAccepted
  <1> QED
    BY <1>1, FramingHolds, PTL

(* The server closes the connection after the first request that asks for  *)
(* that, or that it refuses (the keep-alive header, the catch).            *)
THEOREM ConnectionsEndOnRequest == FramedStreams => (Spec => []ClosesOnRequest)
  <1>1. ASSUME Inv, Framing PROVE ClosesOnRequest
    <2>1. SUFFICES ASSUME pc = "closed", peer = "open", NEW i \in DOMAIN output
                   PROVE  i = Len(output) <=> Ends(i)
      BY DEF ClosesOnRequest
    <2>2. output \in Seq([req : SUBSET Nat, status : {"answer", "400"}])
      BY <1>1 DEF Inv, TypeOK
    <2>3. output # <<>> /\ (i = Len(output) \/ i < Len(output))
      BY <2>2
    <2>4. ~open
      BY <1>1, <2>1 DEF Framing, Settled
    <2>5. i = Len(output) => Final(stream, i)
      BY <1>1, <2>1, <2>3, <2>4 DEF Framing, ClosedByServer
    <2>6. i < Len(output) => ~Final(stream, i)
      BY <1>1, <2>1 DEF Framing, Answers
    <2>7. ~(i = Len(output) /\ i < Len(output))
      BY <2>2
    <2> QED
      BY <2>3, <2>5, <2>6, <2>7, EndsIsFinal
  <1>2. Inv /\ Framing => ClosesOnRequest
    BY <1>1
  <1> QED
    BY <1>2, FramingHolds, PTL

(* When the server waits and everything has come, everything is answered.  *)
THEOREM EverythingIsAnswered ==
  FramedStreams /\ (\A s \in Streams : Whole(s)) => (Spec => []NothingLeftUnanswered)
  <1> DEFINE WholeStream == Whole(stream)
  <1>1. SUFFICES ASSUME FramedStreams, \A s \in Streams : Whole(s)
                 PROVE  Spec => []NothingLeftUnanswered
    OBVIOUS
  <1>2. Init => WholeStream
    BY DEF Init, Whole
  <1>3. WholeStream /\ [Next]_vars => WholeStream'
    <2>1. SUFFICES ASSUME WholeStream, [Next]_vars PROVE WholeStream'
      OBVIOUS
    <2>2. stream' = stream \/ stream' \in Streams
      BY <2>1 DEF Next, Server, vars, socketVars, Connected, Deliver, Leave, Killed, DataAvailable,
        NextLine, LineIncomplete, RecvThrows, ReceiveCR, ReceiveText, ReceiveInvalid, SkipCRLF,
        EndOfLine, Receive, RequestLine, HeaderLine, EndOfHead, Body, Respond, NoResponse,
        ResponseAlreadySent, Complete, Refuse, Return
    <2> QED
      BY <1>1, <2>1, <2>2
  <1>4. ASSUME Inv, Framing, WholeStream PROVE NothingLeftUnanswered
    <2>1. SUFFICES ASSUME pc = "idle", Arriving, pos = avail, NEW i \in Requests
                   PROVE  i \in DOMAIN output
      BY DEF NothingLeftUnanswered
    <2>2. /\ stream \in Seq(Tokens) /\ Framed(stream) /\ pos = Len(stream)
          /\ output \in Seq([req : SUBSET Nat, status : {"answer", "400"}])
      BY <1>4, <2>1 DEF Inv, TypeOK, Framing, Arriving
    <2>3. PICK n \in 1..Len(stream) : stream[n].req = i
      BY <2>2 DEF Requests
    <2>4. stream # <<>> /\ Len(stream) \in 1..Len(stream)
      BY <2>2, <2>3
    <2>5. Len(output) = stream[Len(stream)].req
      BY <1>4, <2>1, <2>2, <2>4, IdleIsAnswered
    <2>6. stream[n].req \in Nat \ {0} /\ stream[n].req <= stream[Len(stream)].req
      BY <2>2, <2>3, <2>4, NumbersGrow
    <2> QED
      BY <2>2, <2>3, <2>5, <2>6
  <1>5. Inv /\ Framing /\ WholeStream => NothingLeftUnanswered
    BY <1>4
  <1> HIDE DEF WholeStream
  <1> QED
    BY <1>1, <1>2, <1>3, <1>5, FramingHolds, PTL DEF Spec
=============================================================================
