---------------------------- MODULE MCHttpListener ----------------------------
(* Instances of HttpListener for TLC: what clients send, built from        *)
(* requests of each kind.                                                  *)
EXTENDS HttpListener, TLC

Line(texts) == texts \o <<"cr", "lf">>

(* Requests as sequences of texts; the body has the length the header says.*)
Simple == Line(<<"request line">>) \o Line(<<"keep-alive">>) \o Line(<<>>)
WithBody ==
  Line(<<"request line">>) \o Line(<<"content-length">>) \o Line(<<"keep-alive">>) \o Line(<<>>)
    \o <<"body", "body">>
Closing ==
  Line(<<>>) \o Line(<<"request line">>) \o Line(<<"header">>) \o Line(<<"content-length">>)
    \o Line(<<>>) \o <<"body", "body">>
BadLine == Line(<<"bad request line">>) \o Line(<<>>)
StrayCR == <<"request line", "cr", "bad request line">>
BadHeader == Line(<<"request line">>) \o Line(<<"bad header">>) \o Line(<<>>)
BadLength == Line(<<"request line">>) \o Line(<<"bad content-length">>) \o Line(<<>>)

Number(i, texts) ==
  [n \in DOMAIN texts |->
     [req |-> i, text |-> texts[n], length |-> IF texts[n] = "content-length" THEN 2 ELSE 0]]

MCStreams ==
  {Number(1, Simple) \o Number(2, WithBody) \o Number(3, Closing)} \cup
  {Number(1, a) \o Number(2, b) :
     a \in {Simple, WithBody}, b \in {Simple, Closing, BadLine, StrayCR, BadHeader, BadLength}}

(* For the run that cuts anywhere.                                        *)
MCPair == {Number(1, Simple) \o Number(2, Simple)}

(* They are of the grammar the proofs assume.                              *)
ASSUME MCStreamsAssumption == \A s \in MCStreams \cup MCPair : Framed(s) /\ Whole(s)
=============================================================================
