----------------------------- MODULE HttpListener -----------------------------
(***************************************************************************)
(* HTTPServer::HTTPClientEventsListener (src/src/http/server.h): the       *)
(* parsing of the requests of one client at a time, over a non-blocking    *)
(* socket that gives the data in pieces, and the answers to them.          *)
(*                                                                         *)
(* What a client sends is a stream of tokens: carriage returns, line       *)
(* feeds, texts without either, and units of body.  A text stands for the  *)
(* whole content of a line; where a text is cut by the network does not    *)
(* matter to the code, for line_ keeps what was received of it.            *)
(*                                                                         *)
(* TCPServer calls the listener from one thread at a time (TcpServer,      *)
(* KeepsLifespan); a connection follows another on the same listener.      *)
(***************************************************************************)
EXTENDS Naturals, Sequences

CONSTANTS
  Streams,     \* the streams of tokens that clients may send
  SplitCRLF    \* whether a piece of data may end between CR and LF

(* A token is part of request number req of the stream.  The bad texts are *)
(* those the code throws on: a request line that does not parse, a header  *)
(* with a blank name or value, a content length that is no number.         *)
Texts == {"cr", "lf", "request line", "bad request line", "keep-alive", "content-length",
          "bad content-length", "header", "bad header", "body"}
Tokens == [req : Nat \ {0}, text : Texts, length : Nat]

ASSUME StreamsAssumption == Streams \subseteq Seq(Tokens)
ASSUME SplitAssumption == SplitCRLF \in BOOLEAN

VARIABLES
  \* the client and the socket
  stream,     \* what the client sends on this connection
  avail,      \* how many of its tokens have arrived
  pos,        \* how many of them recv() has returned
  peer,       \* what the kernel knows of the client, see Peers
  open,       \* the server has not closed the socket
  output,     \* the responses sent
  \* the members of the listener and of current_request_
  state_, line_, loaded_body_size_, response_sent_,
  keepAlive,  \* current_request_.hasHeader("keep-alive")
  lengths,    \* the values of its content-length header
  chain,      \* its middleware status: "start" of the list or "moved"
  \* dataAvailable and receiveLine
  pc,
  expect_lf, line_started,
  ending,     \* the event being processed says the client sends no more
  \* history
  parts       \* requests whose tokens were received since the last reset

socketVars == <<stream, avail, pos, peer, open, output>>
requestVars == <<state_, keepAlive, lengths>>
listenerVars == <<requestVars, line_, loaded_body_size_, response_sent_, chain>>
localVars == <<expect_lf, line_started, ending>>
vars == <<socketVars, listenerVars, localVars, pc, parts>>

(* "hup": it sends no more.  "reset": it has broken the connection, and no *)
(* call has reported that yet.  "gone": that has been reported, or it had  *)
(* hung up before, which hides the error from recv().                      *)
Peers == {"open", "hup", "reset", "gone"}

(* "killed": the process has got SIGPIPE, which nothing in src/ handles.   *)
Labels == {"closed", "killed", "idle", "head", "receive", "body", "handle", "complete", "refuse", "return"}

TypeOK ==
  /\ stream \in Seq(Tokens)
  /\ avail \in 0..Len(stream) /\ pos \in 0..avail
  /\ peer \in Peers /\ open \in BOOLEAN
  /\ output \in Seq([req : SUBSET Nat, status : {"answer", "400"}])
  /\ state_ \in {"INVALID", "REQUEST_LINE", "HEADERS", "BODY"}
  /\ line_ \in Seq(Tokens)
  /\ loaded_body_size_ \in Nat /\ response_sent_ \in BOOLEAN
  /\ keepAlive \in BOOLEAN /\ lengths \in Seq(Tokens)
  /\ chain \in {"start", "moved"}
  /\ pc \in Labels
  /\ expect_lf \in BOOLEAN /\ line_started \in BOOLEAN /\ ending \in BOOLEAN
  /\ parts \in SUBSET Nat

-----------------------------------------------------------------------------
Init ==
  /\ stream = <<>> /\ avail = 0 /\ pos = 0 /\ peer = "open" /\ open = FALSE /\ output = <<>>
  /\ state_ = "INVALID" /\ line_ = <<>> /\ loaded_body_size_ = 0 /\ response_sent_ = FALSE
  /\ keepAlive = FALSE /\ lengths = <<>> /\ chain = "start"
  /\ pc = "closed" /\ expect_lf = FALSE /\ line_started = FALSE /\ ending = FALSE
  /\ parts = {}

(* The count of the body is not reset.                                     *)
ResetForgettingBody ==
  /\ state_' = "INVALID" /\ keepAlive' = FALSE /\ lengths' = <<>>
  /\ chain' = "start"
  /\ line_' = <<>> /\ response_sent_' = FALSE
  /\ parts' = {} /\ UNCHANGED loaded_body_size_

(* The response of the request before still counts.                        *)
ResetForgettingResponse ==
  /\ state_' = "INVALID" /\ keepAlive' = FALSE /\ lengths' = <<>>
  /\ chain' = "start"
  /\ line_' = <<>> /\ loaded_body_size_' = 0
  /\ parts' = {} /\ UNCHANGED response_sent_

(* resetRequestParsing.                                                    *)
ResetRequestParsing ==
  /\ state_' = "INVALID" /\ keepAlive' = FALSE /\ lengths' = <<>>
  /\ chain' = "start"
  /\ line_' = <<>> /\ loaded_body_size_' = 0 /\ response_sent_' = FALSE
  /\ parts' = {}

(* getContentLength looks at the first content-length header.              *)
ContentLength == IF lengths = <<>> THEN 0 ELSE lengths[1].length
BadContentLength == lengths # <<>> /\ lengths[1].text = "bad content-length"

Token == stream[pos + 1]

(* recv() returns the next token; what has come before the connection      *)
(* broke is still there.                                                   *)
Receive ==
  /\ pos < avail
  /\ pos' = pos + 1
  /\ parts' = parts \cup {Token.req}
  /\ UNCHANGED <<stream, avail, peer, open, output>>

-----------------------------------------------------------------------------
(* connected(), for a client that will send s.                             *)
Connected(s) ==
  /\ pc = "closed"
  /\ stream' = s /\ avail' = 0 /\ pos' = 0 /\ peer' = "open" /\ open' = TRUE /\ output' = <<>>
  /\ ResetRequestParsing
  /\ pc' = "idle"
  /\ UNCHANGED localVars

(* The client sends some more, or hangs up, or breaks the connection.      *)
Deliver ==
  /\ pc \notin {"closed", "killed"} /\ peer = "open"
  /\ \E n \in avail + 1 .. Len(stream) :
       /\ SplitCRLF \/ stream[n].text # "cr"
       /\ avail' = n
  /\ UNCHANGED <<stream, pos, peer, open, output, listenerVars, localVars, pc, parts>>

Leave ==
  /\ pc \notin {"closed", "killed"}
  /\ \/ peer = "open" /\ peer' \in {"hup", "reset"}
     \/ peer = "hup" /\ peer' = "gone"
  /\ UNCHANGED <<stream, avail, pos, open, output, listenerVars, localVars, pc, parts>>

(* An event of the socket: TCPServer calls dataAvailable.                  *)
DataAvailable ==
  /\ pc = "idle" /\ (pos < avail \/ peer # "open")
  /\ ending' = (peer # "open")
  /\ pc' = "head"
  /\ UNCHANGED <<socketVars, listenerVars, expect_lf, line_started, parts>>

(* The loop over the lines of the head, and the start of receiveLine.      *)
(* line_ never ends with CR, so that expect_lf starts as FALSE; of an      *)
(* empty line_ back() reads a byte that is never CR.                       *)
NextLine ==
  /\ pc = "head"
  /\ CASE state_ \in {"INVALID", "REQUEST_LINE"} ->
            /\ line_started' = (line_ # <<>>) /\ expect_lf' = FALSE
            /\ pc' = "receive"
       [] state_ = "HEADERS" -> pc' = "body" /\ UNCHANGED <<expect_lf, line_started>>
       [] OTHER -> pc' = "handle" /\ UNCHANGED <<expect_lf, line_started>>
  /\ UNCHANGED <<socketVars, listenerVars, ending, parts>>

-----------------------------------------------------------------------------
(* receiveLine.                                                            *)

(* What has come of the line is forgotten.                                 *)
LineForgotten ==
  /\ pc = "receive" /\ pos = avail /\ peer # "reset"
  /\ pc' = "return" /\ line_' = <<>>
  /\ UNCHANGED <<socketVars, requestVars, loaded_body_size_, response_sent_, chain, localVars,
                 parts>>

(* The application is asked although nothing has changed.                  *)
LineIncompleteAsking ==
  /\ pc = "receive" /\ pos = avail /\ peer # "reset"
  /\ pc' = "handle"
  /\ UNCHANGED <<socketVars, listenerVars, localVars, parts>>

LineIncomplete ==
  /\ pc = "receive" /\ pos = avail /\ peer # "reset"
  /\ pc' = "return"
  /\ UNCHANGED <<socketVars, listenerVars, localVars, parts>>

(* recv() reports once that the connection is broken.                      *)
RecvThrows ==
  /\ pc \in {"receive", "body"} /\ pos = avail /\ peer = "reset"
  /\ peer' = "gone"
  /\ pc' = "refuse"
  /\ UNCHANGED <<stream, avail, pos, open, output, listenerVars, localVars, parts>>

ReceiveCR ==
  /\ pc = "receive" /\ Receive /\ Token.text = "cr"
  /\ expect_lf' = TRUE
  /\ UNCHANGED <<listenerVars, line_started, ending, pc>>

(* A line feed that follows no CR goes into the line like any character.   *)
ReceiveText ==
  /\ pc = "receive" /\ Receive /\ Token.text # "cr" /\ ~expect_lf
  /\ line_' = Append(line_, Token)
  /\ line_started' = TRUE
  /\ UNCHANGED <<requestVars, loaded_body_size_, response_sent_, chain, expect_lf, ending, pc>>

ReceiveInvalid ==
  /\ pc = "receive" /\ Receive /\ expect_lf /\ Token.text \notin {"cr", "lf"}
  /\ pc' = "refuse"
  /\ UNCHANGED <<listenerVars, localVars>>

EndOfLine == pc = "receive" /\ Receive /\ expect_lf /\ Token.text = "lf"

(* CRLF before the request line is skipped.                                *)
SkipCRLF ==
  /\ EndOfLine /\ state_ = "INVALID" /\ ~line_started
  /\ pc' = "head"
  /\ UNCHANGED <<listenerVars, localVars>>

(* parseRequestLine.  A line into which a line feed has let more than the  *)
(* request line may still happen to parse.                                 *)
Holds(text) == \E i \in DOMAIN line_ : line_[i].text = text

RequestLine ==
  /\ EndOfLine /\ state_ = "INVALID" /\ line_started
  /\ \/ /\ Holds("request line")
        /\ state_' = "REQUEST_LINE" /\ line_' = <<>>
        /\ pc' = "head"
        /\ UNCHANGED <<keepAlive, lengths>>
     \/ /\ ~Holds("request line") \/ Len(line_) > 1
        /\ pc' = "refuse"
        /\ UNCHANGED <<requestVars, line_>>
  /\ UNCHANGED <<loaded_body_size_, response_sent_, chain, localVars>>

(* parseHeaderLine: trim strips the line feeds around the name and value,  *)
(* and throws on a blank one.                                              *)
TextPositions == {i \in DOMAIN line_ : line_[i].text # "lf"}
HeaderThrows ==
  TextPositions = {} \/ \E i \in TextPositions : TextPositions = {i} /\ line_[i].text = "bad header"

AddHeader(h) ==
  /\ keepAlive' = (keepAlive \/ h.text = "keep-alive")
  /\ lengths' = IF h.text \in {"content-length", "bad content-length"}
                  THEN Append(lengths, h) ELSE lengths

(* Once the response is sent the header lines are not parsed any more.     *)
HeaderLine ==
  /\ EndOfLine /\ state_ = "REQUEST_LINE" /\ line_started
  /\ \/ /\ response_sent_
        /\ line_' = <<>> /\ pc' = "head"
        /\ UNCHANGED <<keepAlive, lengths>>
     \/ /\ ~response_sent_ /\ ~HeaderThrows
        /\ \E first \in TextPositions :
             (\A i \in TextPositions : first <= i) /\ AddHeader(line_[first])
        /\ line_' = <<>> /\ pc' = "head"
     \/ /\ ~response_sent_ /\ HeaderThrows
        /\ pc' = "refuse"
        /\ UNCHANGED <<keepAlive, lengths, line_>>
  /\ UNCHANGED <<state_, loaded_body_size_, response_sent_, chain, localVars>>

(* A request without a body waits for one.                                 *)
EndOfHeadWaiting ==
  /\ EndOfLine /\ state_ = "REQUEST_LINE" /\ ~line_started
  /\ IF BadContentLength
       THEN pc' = "refuse" /\ UNCHANGED state_
       ELSE state_' = "HEADERS" /\ pc' = "body"
  /\ UNCHANGED <<keepAlive, lengths, line_, loaded_body_size_, response_sent_, chain, localVars>>

(* The head ends at an empty line; a content length that is no number is   *)
(* an exception.                                                           *)
EndOfHead ==
  /\ EndOfLine /\ state_ = "REQUEST_LINE" /\ ~line_started
  /\ IF BadContentLength
       THEN pc' = "refuse" /\ UNCHANGED state_
       ELSE IF ContentLength = 0
         THEN state_' = "BODY" /\ pc' = "handle"
         ELSE state_' = "HEADERS" /\ pc' = "body"
  /\ UNCHANGED <<keepAlive, lengths, line_, loaded_body_size_, response_sent_, chain, localVars>>

-----------------------------------------------------------------------------
(* The rest of dataAvailable.                                              *)

(* The body takes all there is to receive.                                 *)
BodyGreedy ==
  /\ pc = "body" /\ (pos < avail \/ peer # "reset")
  /\ pos' = avail
  /\ parts' = parts \cup {stream[i].req : i \in pos + 1 .. avail}
  /\ loaded_body_size_' = loaded_body_size_ + avail - pos
  /\ state_' = IF loaded_body_size_' >= ContentLength THEN "BODY" ELSE state_
  /\ pc' = "handle"
  /\ UNCHANGED <<stream, avail, peer, open, output, keepAlive, lengths, line_, response_sent_,
                 chain, localVars>>

(* One recv() for all of the body that is missing.                         *)
Body ==
  /\ pc = "body" /\ (pos < avail \/ peer # "reset")
  /\ LET remaining == ContentLength - loaded_body_size_
         received == IF avail - pos < remaining THEN avail - pos ELSE remaining
     IN /\ pos' = pos + received
        /\ parts' = parts \cup {stream[i].req : i \in pos + 1 .. pos + received}
        /\ loaded_body_size_' = loaded_body_size_ + received
        /\ state_' = IF received = remaining THEN "BODY" ELSE state_
  /\ pc' = "handle"
  /\ UNCHANGED <<stream, avail, peer, open, output, keepAlive, lengths, line_, response_sent_,
                 chain, localVars>>

(* sendResponse: the socket takes the whole response; or send() is the one *)
(* that reports the broken connection, and throws; or that was reported    *)
(* before, and the signal ends the process.  A connection that breaks      *)
(* between its two send() is as one that breaks before them.               *)
SendResponse(status, next) ==
  /\ output' = IF peer \in {"open", "hup"}
                 THEN Append(output, [req |-> parts, status |-> status]) ELSE output
  /\ pc' = IF peer = "gone" THEN "killed" ELSE next

(* The application is asked for a response whenever more of the request is *)
(* there, until it gives one; when nothing more will come and it gives     *)
(* none, or when it throws, the response is an error.                      *)
Respond ==
  /\ pc = "handle" /\ ~response_sent_
  /\ response_sent_' = TRUE /\ chain' = "start"
  /\ SendResponse("answer", "complete")
  /\ open' = (open /\ peer \in {"open", "hup"})
  /\ UNCHANGED <<stream, avail, pos, peer, requestVars, line_, loaded_body_size_, localVars, parts>>

(* No response for a complete request is no error.                         *)
NoResponseAtAll ==
  /\ pc = "handle" /\ ~response_sent_
  /\ chain' \in {"start", "moved"}
  /\ pc' = "complete"
  /\ UNCHANGED <<socketVars, requestVars, line_, loaded_body_size_, response_sent_, localVars, parts>>

NoResponse ==
  /\ pc = "handle" /\ ~response_sent_ /\ state_ # "BODY"
  /\ chain' \in {"start", "moved"}
  /\ pc' = "complete"
  /\ UNCHANGED <<socketVars, requestVars, line_, loaded_body_size_, response_sent_, localVars, parts>>

ResponseAlreadySent ==
  /\ pc = "handle" /\ response_sent_
  /\ pc' = "complete"
  /\ UNCHANGED <<socketVars, listenerVars, localVars, parts>>

(* The connection is closed after each request.                            *)
CompleteClosing ==
  /\ pc = "complete"
  /\ IF state_ = "BODY"
       THEN open' = FALSE /\ ResetRequestParsing
       ELSE UNCHANGED <<open, listenerVars, parts>>
  /\ pc' = "return"
  /\ UNCHANGED <<stream, avail, pos, peer, output, localVars>>

Complete ==
  /\ pc = "complete"
  /\ IF state_ = "BODY"
       THEN open' = (open /\ keepAlive) /\ ResetRequestParsing
       ELSE UNCHANGED <<open, listenerVars, parts>>
  /\ pc' = "return"
  /\ UNCHANGED <<stream, avail, pos, peer, output, localVars>>

(* The catch of dataAvailable: 400, and the socket is closed.              *)
Refuse ==
  /\ pc = "refuse"
  /\ SendResponse("400", "return")
  /\ open' = FALSE
  /\ UNCHANGED <<stream, avail, pos, peer, listenerVars, localVars, parts>>

(* processClient destroys the socket that is closed, or whose client is    *)
(* done; otherwise it waits for the next event.                            *)
Return ==
  /\ pc = "return"
  /\ IF open /\ ~ending
       THEN pc' = "idle" /\ UNCHANGED open
       ELSE pc' = "closed" /\ open' = FALSE
  /\ UNCHANGED <<stream, avail, pos, peer, output, listenerVars, localVars, parts>>

(* Nothing starts the program again.                                       *)
Killed == pc = "killed" /\ UNCHANGED vars

Server ==
  \/ DataAvailable \/ NextLine
  \/ LineIncomplete \/ RecvThrows \/ ReceiveCR \/ ReceiveText \/ ReceiveInvalid
  \/ SkipCRLF \/ RequestLine \/ HeaderLine \/ EndOfHead
  \/ Body \/ Respond \/ NoResponse \/ ResponseAlreadySent \/ Complete \/ Refuse \/ Return

Next ==
  \/ \E s \in Streams : Connected(s)
  \/ Deliver \/ Leave
  \/ Server \/ Killed

Spec == Init /\ [][Next]_vars

(* TCPServer calls dataAvailable as long as there is data (TcpServer,      *)
(* DataIsRead), and the call goes on.                                      *)
FairSpec == Spec /\ WF_vars(Server)

-----------------------------------------------------------------------------
(* What a client's stream asks for.                                        *)

TokensOf(i) == {n \in DOMAIN stream : stream[n].req = i}
Requests == {stream[n].req : n \in DOMAIN stream}
Has(i, texts) == \E n \in TokensOf(i) : stream[n].text \in texts
Malformed(i) == Has(i, {"bad request line", "bad header", "bad content-length"})
Ends(i) == Malformed(i) \/ ~Has(i, {"keep-alive"})
Delivered(i) == i \in Requests /\ \A n \in TokensOf(i) : n <= avail
Arriving == avail = Len(stream) /\ peer = "open"

-----------------------------------------------------------------------------
(* The grammar of what clients send.  The server reads a stream by it      *)
(* until the first bad token it meets.                                     *)
RequestLines == {"request line", "bad request line"}
LengthTexts == {"content-length", "bad content-length"}
HeaderTexts == LengthTexts \cup {"keep-alive", "header", "bad header"}
LineTexts == RequestLines \cup HeaderTexts
BadTexts == {"bad request line", "bad header", "bad content-length"}

(* Token n of stream s is the first of a line; the request line of its     *)
(* request comes before it; it is the LF of the empty line after a head.   *)
LineStart(s, n) == n = 1 \/ s[n - 1].req # s[n].req \/ s[n - 1].text = "lf"
Asked(s, n) == \E k \in 1 .. n - 1 : s[k].req = s[n].req /\ s[k].text \in RequestLines
HeadEnd(s, n) ==
  n \in 2..Len(s) /\ s[n].text = "lf" /\ LineStart(s, n - 1) /\ Asked(s, n)

(* What the head that ends at token n says of the length of its body.      *)
BodyLength(s, n) ==
  LET said == {k \in 1..n : s[k].req = s[n].req /\ s[k].text \in LengthTexts}
  IN  IF said = {} THEN 0 ELSE s[CHOOSE k \in said : TRUE].length

(* Token n is the last of its request.                                     *)
Ended(s, n) == \E m \in 1..n : HeadEnd(s, m) /\ n = m + BodyLength(s, m)

(* Requests follow each other in order.                                    *)
Numbered(s) == \A n \in DOMAIN s :
  /\ n = 1 => s[n].req = 1
  /\ \A k \in 1..n : s[k].req <= s[n].req
  /\ n > 1 /\ s[n - 1].req # s[n].req => Ended(s, n - 1)

(* A text of a head is a line, which CR and LF end; after CR comes LF, or  *)
(* something bad.                                                          *)
Lined(s) == \A n \in DOMAIN s :
  /\ s[n].text = "lf" => n > 1 /\ s[n - 1].text = "cr"
  /\ s[n].text \in LineTexts => LineStart(s, n) \/ s[n - 1].text = "cr"
  /\ n > 1 /\ s[n - 1].text = "cr" =>
       s[n].req = s[n - 1].req /\ s[n].text \in {"lf"} \cup BadTexts
  /\ n > 1 /\ s[n - 1].text \in LineTexts =>
       s[n].req = s[n - 1].req /\ s[n].text = "cr"

(* The headers follow the request line, and the length is said once.       *)
Headed(s) == \A n \in DOMAIN s :
  /\ s[n].text \in HeaderTexts => Asked(s, n)
  /\ s[n].text \in RequestLines /\ LineStart(s, n) => ~Asked(s, n)
  /\ s[n].text \in LengthTexts =>
       \A k \in 1 .. n - 1 : s[k].req = s[n].req => s[k].text \notin LengthTexts

(* The body follows the head, as long as the head says, and then the next  *)
(* request.                                                                *)
Bodied(s) == \A n \in DOMAIN s :
  /\ \A m \in 1 .. n - 1 : HeadEnd(s, m) =>
       /\ n <= m + BodyLength(s, m) => s[n].text = "body" /\ s[n].req = s[m].req
       /\ n = m + BodyLength(s, m) + 1 => s[n].req = s[m].req + 1
  /\ s[n].text = "body" =>
       \E m \in 1 .. n - 1 : HeadEnd(s, m) /\ n <= m + BodyLength(s, m)

Framed(s) == Numbered(s) /\ Lined(s) /\ Headed(s) /\ Bodied(s)

(* The stream ends with a request, or with something bad after a CR.       *)
Whole(s) ==
  s # <<>> => Ended(s, Len(s)) \/ (Len(s) > 1 /\ s[Len(s) - 1].text = "cr" /\ s[Len(s)].text # "lf")

-----------------------------------------------------------------------------
(* Whatever the pieces the data comes in, the responses follow the         *)
(* requests: one each, in order, and no data of one request is taken for a *)
(* part of another (pipelined requests, bodies, early responses).          *)
OneResponseEach ==
  /\ \A i \in DOMAIN output : output[i].req = {i}
  /\ \A r \in parts : parts = {r} /\ r \in {Len(output), Len(output) + 1}

(* A well-formed request is never refused, wherever the network cuts it:   *)
(* "Line is incomplete." (server.h:134) keeps what it needs to go on.      *)
WellFormedIsAccepted ==
  \A i \in DOMAIN output : output[i].status = "400" => Malformed(i)

(* When the server waits for more and everything has come, it has answered *)
(* every request; when it has closed the connection of its own will, the   *)
(* last request answered is the first one that asks for that.              *)
NothingLeftUnanswered ==
  pc = "idle" /\ Arriving /\ pos = avail => \A i \in Requests : i \in DOMAIN output

ClosesOnRequest ==
  pc = "closed" /\ peer = "open" =>
    \A i \in DOMAIN output : i = Len(output) <=> Ends(i)

(* Nothing of a request is left when the next one begins: neither its      *)
(* headers, nor its response, nor the place the middleware stopped at.     *)
FreshRequest ==
  state_ = "INVALID" =>
    /\ loaded_body_size_ = 0 /\ ~response_sent_ /\ chain = "start"
    /\ ~keepAlive /\ lengths = <<>>

(* "No need to parse if the response is already sent." (server.h:196) is   *)
(* never the case: a response is sent when the head is complete, so that   *)
(* the length of the body is always known.                                 *)
AnsweredAfterHead ==
  response_sent_ => state_ \in {"HEADERS", "BODY"}

(* The body never goes past the content length, and the server waits for   *)
(* a body only while some of it is missing.                                *)
BodyWithinLength ==
  /\ loaded_body_size_ <= ContentLength
  /\ state_ = "HEADERS" => loaded_body_size_ < ContentLength

(* Where the listener is tells how much of the request it has: nothing of  *)
(* the body, and no response, before the head is complete, and nothing but *)
(* the body after it.                                                      *)
WhereItIs ==
  /\ state_ \in {"INVALID", "REQUEST_LINE"} =>
       loaded_body_size_ = 0 /\ ~response_sent_ /\ chain = "start"
  /\ pc = "receive" => state_ \in {"INVALID", "REQUEST_LINE"}
  /\ pc = "body" => state_ = "HEADERS"
  /\ pc \in {"handle", "complete"} => state_ \in {"HEADERS", "BODY"}

(* The invariant the proofs carry.                                         *)
Inv == TypeOK /\ WhereItIs /\ FreshRequest /\ BodyWithinLength

AllRequests == UNION {{s[n].req : n \in DOMAIN s} : s \in Streams}

(* A request that has come is answered, unless the client leaves or has    *)
(* asked for the end of the connection before.                             *)
RequestIsAnswered ==
  \A i \in AllRequests :
    (pc # "closed" /\ Delivered(i)) ~>
      \/ i \in DOMAIN output
      \/ pc \in {"closed", "killed"} /\ (peer # "open" \/ \E j \in DOMAIN output : Ends(j))

(* When parsing fails, "It is safer to close the connection and let the    *)
(* client start over" (server.h:227-229): the connection is closed and the *)
(* listener waits for another one.                                         *)
RefusedStartsOver == (pc = "refuse") ~> (pc = "closed" /\ ~open)
=============================================================================
