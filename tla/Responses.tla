------------------------------- MODULE Responses -------------------------------
(***************************************************************************)
(* The headers of an http::Message (src/src/http/messages.h), and          *)
(* HTTPServer::sendResponse (src/src/http/server.h), which writes the      *)
(* response that the application has made to the socket of the client, on  *)
(* a connection that is kept for many responses.                           *)
(*                                                                         *)
(* What is sent is a string of tokens: words, delimiters, and the CR and   *)
(* LF that end a line.  The values of headers and the content may hold any *)
(* of them; they are written as they are.  The socket does not block:      *)
(* send() takes what there is room for, and gives -1 when there is none;   *)
(* sendResponse looks at neither.                                          *)
(***************************************************************************)
EXTENDS Strings, TLC

CONSTANTS
  Names,          \* the names of headers as the application writes them
  Fold,           \* Fold[name]: the name in lower case
  Values,         \* the values it gives them, sequences of tokens
  Pieces,         \* what the content is made of, one character each
  Partial,        \* how much a socket that is nearly full may take of a send()
  MaxContent,     \* bounds: the length of a content,
  MaxCalls,       \* and, of a connection, the calls that set headers
  MaxResponses    \* and the responses

Length == "content-length"

(* A name is one word.                                                     *)
ASSUME NamesAssumption ==
  /\ Length \in Names /\ IsFiniteSet(Names) /\ Names \subseteq STRING \ ({":"} \cup Whitespace)
  /\ Fold \in [Names -> Names] /\ Fold[Length] = Length
  /\ \A n \in Names : Fold[Fold[n]] = Fold[n]

ASSUME ValuesAssumption == Values \subseteq Seq(STRING) /\ Pieces \subseteq STRING

ASSUME BoundsAssumption == Partial \subseteq Nat /\ MaxContent \in Nat

(* Numbers are written in digits, different ones differently.              *)
ASSUME NumeralsAssumption ==
  \A n \in 0..MaxContent :
    /\ ToString(n) \in STRING \ Whitespace
    /\ \A m \in 0..MaxContent : ToString(m) = ToString(n) => m = n

VARIABLES
  headers_, content,   \* the response that the application makes
  calls,               \* how many of its calls have set headers
  pc,                  \* "build", "head" or "content"
  stream,              \* all that send() has taken
  sent,                \* history: the responses given to sendResponse, and where each starts
  cut,                 \* history: the first one of them that send() cut, or 0
  \* a client
  arrived,             \* how much of the stream it has read
  reader,              \* "status", "headers", "content", or "stopped" by what it cannot read
  got,                 \* the headers of the response it is reading
  received             \* the responses it has read

serverVars == <<headers_, content, calls, pc, stream, sent, cut>>
clientVars == <<arrived, reader, got, received>>
vars == <<serverVars, clientVars>>

-----------------------------------------------------------------------------
(* The map of headers: from names in lower case to sequences of values.    *)

NoHeaders == [key \in {} |-> <<>>]

(* What is read where a name is expected may be something else.            *)
Lower(name) == IF name \in Names THEN Fold[name] ELSE name

HasHeader(h, name) == Lower(name) \in DOMAIN h
GetHeader(h, name) == h[Lower(name)]

Put(h, key, values) == [k \in DOMAIN h \cup {key} |-> IF k = key THEN values ELSE h[k]]

(* The name as it is written is the key.                                   *)
SetHeaderUnfolded(h, name, values) == Put(h, name, values)

(* setHeader, of one value or of a list of them.                           *)
SetHeader(h, name, values) == Put(h, Lower(name), values)

(* setAddedHeader; the map makes an empty entry for a new name.            *)
AddHeader(h, name, values) ==
  Put(h, Lower(name), (IF HasHeader(h, name) THEN GetHeader(h, name) ELSE <<>>) \o values)

UnsetHeader(h, name) == [k \in DOMAIN h \ {Lower(name)} |-> h[k]]

(* getContentLength; no result when stoul throws.                          *)
Decimal(n) == <<ToString(n)>>
Stoul(s) == {n \in 0..MaxContent : s # <<>> /\ s[1] = ToString(n)}
ContentLength(h) ==
  IF ~HasHeader(h, Length) \/ GetHeader(h, Length) = <<>>
    THEN {0} ELSE Stoul(GetHeader(h, Length)[1])

-----------------------------------------------------------------------------
(* What is written.                                                        *)

Join(values) ==
  FlattenSeq([i \in DOMAIN values |-> (IF i = 1 THEN <<>> ELSE <<",">>) \o values[i]])

StatusLine == <<"status">>
HeaderLine(h, key) == <<key, ":">> \o Join(h[key])
EmptyLine == <<>>
End == <<CR, LF>>

Lines(h) ==
  LET keys == SetToSeq(DOMAIN h)
  IN  <<StatusLine>> \o [i \in DOMAIN keys |-> HeaderLine(h, keys[i])] \o <<EmptyLine>>
HeadOf(h) == FlattenSeq([i \in DOMAIN Lines(h) |-> Lines(h)[i] \o End])

-----------------------------------------------------------------------------
Init ==
  /\ headers_ = NoHeaders /\ content = <<>> /\ calls = 0 /\ pc = "build"
  /\ stream = <<>> /\ sent = <<>> /\ cut = 0
  /\ arrived = 0 /\ reader = "status" /\ got = NoHeaders /\ received = <<>>

(* No line is longer than a string can be.                                 *)
Short(h) == \A key \in DOMAIN h : Len(HeaderLine(h, key)) < npos

(* The application sets the headers and writes the content.                *)
Build(h) ==
  /\ pc = "build" /\ calls < MaxCalls /\ Len(sent) < MaxResponses /\ Short(h)
  /\ headers_' = h /\ calls' = calls + 1
  /\ UNCHANGED <<content, pc, stream, sent, cut, clientVars>>

Write(piece) ==
  /\ pc = "build" /\ Len(content) < MaxContent
  /\ content' = Append(content, piece)
  /\ UNCHANGED <<headers_, calls, pc, stream, sent, cut, clientVars>>

(* The length is one more value of the header.                             *)
SendResponseAdding ==
  /\ pc = "build" /\ Len(sent) < MaxResponses
  /\ headers_' = AddHeader(headers_, Length, <<Decimal(Len(content))>>)
  /\ sent' = Append(sent, [headers |-> headers_, content |-> content, start |-> Len(stream)])
  /\ pc' = "head"
  /\ UNCHANGED <<content, calls, stream, cut, clientVars>>

SendResponse ==
  /\ pc = "build" /\ Len(sent) < MaxResponses
  /\ headers_' = SetHeader(headers_, Length, <<Decimal(Len(content))>>)
  /\ sent' = Append(sent, [headers |-> headers_, content |-> content, start |-> Len(stream)])
  /\ pc' = "head"
  /\ UNCHANGED <<content, calls, stream, cut, clientVars>>

(* send(): all of the string, or a part when there is no room for more.    *)
Send(text) ==
  \/ stream' = stream \o text /\ UNCHANGED cut
  \/ \E n \in Partial :
       /\ n < Len(text)
       /\ stream' = stream \o SubSeq(text, 1, n)
       /\ cut' = IF cut = 0 THEN Len(sent) ELSE cut

SendHead ==
  /\ pc = "head"
  /\ Send(HeadOf(headers_))
  /\ pc' = "content"
  /\ UNCHANGED <<headers_, content, calls, sent, clientVars>>

(* The response is destroyed then; the connection is kept.                 *)
SendContent ==
  /\ pc = "content"
  /\ Send(content)
  /\ headers_' = NoHeaders /\ content' = <<>> /\ pc' = "build"
  /\ UNCHANGED <<calls, sent, clientVars>>

Application ==
  \/ \E name \in Names, v \in Values :
       \/ Build(SetHeader(headers_, name, <<v>>))
       \/ Build(AddHeader(headers_, name, <<v>>))
  \/ \E name \in Names : Build(UnsetHeader(headers_, name)) \/ Build(SetHeader(headers_, name, <<>>))
  \/ \E piece \in Pieces : Write(piece)

Server == Application \/ SendResponse \/ SendHead \/ SendContent

-----------------------------------------------------------------------------
(* A client, which is not in the code, that reads responses as they are    *)
(* written: lines up to CR LF, header lines with the operations by which   *)
(* the server reads those of requests, then as much content as they say.   *)
(* A trim or stoul that throws leaves no result, and the client stops.     *)

(* Of a name with blanks in it, which is in no line that a name began, the *)
(* first word is kept.                                                     *)
ParseHeaderLine(h, s) ==
  LET colon == Find(s, <<":">>, 0)
  IN  {AddHeader(h, name[1], <<value>>) :
         name \in Trim(Substr(s, 0, colon)), value \in Trim(Substr(s, Plus(colon, 1), npos))}

(* What of the stream is before the next end of a line.                    *)
LineEnds == {e \in arrived..(Len(stream) - 2) : SubSeq(stream, e + 1, e + 2) = End}
Line == SubSeq(stream, arrived + 1, Min(LineEnds))

LineArrives ==
  /\ LineEnds # {} /\ arrived' = Min(LineEnds) + 2
  /\ UNCHANGED serverVars

Ends(headers, text, state) ==
  /\ received' = Append(received, [headers |-> headers, body |-> text])
  /\ reader' = state /\ got' = NoHeaders

Stops == Ends({}, <<>>, "stopped")

ReadStatusLine ==
  /\ reader = "status" /\ LineArrives
  /\ reader' = "headers"
  /\ UNCHANGED <<got, received>>

ReadHeaderLine ==
  /\ reader = "headers" /\ LineArrives /\ Line # EmptyLine
  /\ LET parsed == IF Len(Line) < npos THEN ParseHeaderLine(got, Line) ELSE {}
     IN  IF parsed = {} THEN Stops
                        ELSE got' \in parsed /\ UNCHANGED <<reader, received>>

ReadEmptyLine ==
  /\ reader = "headers" /\ LineArrives /\ Line = EmptyLine
  /\ IF ContentLength(got) = {} THEN Stops ELSE reader' = "content" /\ UNCHANGED <<got, received>>

ReadContent ==
  /\ reader = "content"
  /\ \E n \in ContentLength(got) :
       /\ arrived + n <= Len(stream) /\ arrived' = arrived + n
       /\ Ends({got}, SubSeq(stream, arrived + 1, arrived + n), "status")
  /\ UNCHANGED serverVars

Client == ReadStatusLine \/ ReadHeaderLine \/ ReadEmptyLine \/ ReadContent

Next == Server \/ Client

Spec == Init /\ [][Next]_vars

-----------------------------------------------------------------------------
(* The headers that the application has set, with the values of each in    *)
(* one line.                                                               *)
Blanks(h) == {k \in DOMAIN h \ {Length} : Trim(Join(h[k])) = {}}
Meant(r) ==
  [k \in DOMAIN r.headers \cup {Length} |->
     IF k = Length THEN <<Decimal(Len(r.content))>>
     ELSE <<CHOOSE t \in Trim(Join(r.headers[k])) : TRUE>>]

(* No header has an end of line in its values, which would end its line.   *)
InLines(h) == \A k \in DOMAIN h \ {Length} : \A p \in Positions(Join(h[k])) : ~At(Join(h[k]), End, p)

(* No send() has cut the response, and it and those before it have such    *)
(* headers only.                                                           *)
Plain(i) ==
  /\ cut = 0 \/ i < cut
  /\ \A j \in DOMAIN sent : j <= i => InLines(sent[j].headers)

(* The responses that the client has read of those.                        *)
Whole == {i \in DOMAIN received : Plain(i)}

(* Each response is read with all its content and nothing of the next one, *)
(* whatever is in the content and whatever the application has said about  *)
(* its length, under whatever spelling (server.h:33).  Not those from the  *)
(* first one on that a full socket has cut or that has an end of line in   *)
(* the values of a header: sendResponse notices neither.                   *)
BodiesStayApart ==
  \A i \in Whole : i <= Len(sent) /\
    (Blanks(sent[i].headers) = {} => received[i].body = sent[i].content)

(* The headers of a response are read as the application has set them,     *)
(* each with its values in one, up to the same first response, and unless  *)
(* one of them is blank: the reader throws for it, as for a blank header   *)
(* of a request.                                                           *)
HeadersAreRead ==
  \A i \in Whole : received[i].headers =
    IF Blanks(sent[i].headers) = {} THEN {Meant(sent[i])} ELSE {}
=============================================================================
