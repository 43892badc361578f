----------------------------- MODULE MessagesProofs -----------------------------
(***************************************************************************)
(* Proofs about Responses, for any names and values of headers, any        *)
(* contents, and any parts that send() may take: BodiesStayApart and       *)
(* HeadersAreRead.                                                         *)
(*                                                                         *)
(* Inv says that up to the first response that is cut the stream is one    *)
(* response after the other (StreamFollows), and that, if no header before *)
(* there has an end of line in its values, the client is at a place of the *)
(* one it reads, with what it should have of it (ClientFollows).  Before   *)
(* that: what the operations on strings that write and read a header line  *)
(* compute of any value, and where each line of a head is in it (Places).  *)
(***************************************************************************)
EXTENDS Responses, UriProofs

-----------------------------------------------------------------------------
(* Header lines.  The facts about numbers, sequences and searches in a     *)
(* string are the first ones of UriProofs.                                 *)

(* A header line begins with its name and a colon.                         *)
LEMMA LineFacts ==
  ASSUME NEW k \in Token, NEW v \in Seq(Token)
  PROVE  /\ <<k, ":">> \o v \in Seq(Token) /\ Len(<<k, ":">> \o v) = 2 + Len(v)
         /\ (<<k, ":">> \o v)[1] = k /\ (<<k, ":">> \o v)[2] = ":"
         /\ \A i \in 1..Len(v) : (<<k, ":">> \o v)[2 + i] = v[i]
<1> DEFINE t == <<k, ":">>
<1>1. t \in Seq(Token) /\ Len(t) = 2 /\ t[1] = k /\ t[2] = ":"
  <2>1. ":" \in Token
    BY DEF Token, Delimiters
  <2> QED
    BY <2>1, TwoElements
<1> HIDE DEF t
<1>2. /\ t \o v \in Seq(Token) /\ Len(t \o v) = Len(t) + Len(v)
      /\ \A i \in 1..Len(t) : (t \o v)[i] = t[i]
      /\ \A i \in 1..Len(v) : (t \o v)[Len(t) + i] = v[i]
  <2>1. t \in Seq(Token) /\ v \in Seq(Token)
    BY <1>1
  <2>2. t \o v \in Seq(Token) /\ Len(t \o v) = Len(t) + Len(v)
    BY <2>1, ConcatFacts
  <2>3. \A i \in 1..Len(t) : (t \o v)[i] = t[i]
    BY <2>1, ConcatFacts
  <2>4. \A i \in 1..Len(v) : (t \o v)[Len(t) + i] = v[i]
    BY <2>1, ConcatFacts
  <2> QED
    BY <2>2, <2>3, <2>4
<1>3. (t \o v)[1] = k /\ (t \o v)[2] = ":"
  BY <1>1, <1>2
<1> QED
  BY <1>1, <1>2, <1>3 DEF t

(* The first colon of a header line is the one after its name.             *)
LEMMA ColonOfLine ==
  ASSUME NEW k \in Token \ {":"}, NEW v \in Seq(Token)
  PROVE  Find(<<k, ":">> \o v, <<":">>, 0) = 1
<1> DEFINE s == <<k, ":">> \o v
           c == <<":">>
           Found == {i \in Positions(s) : i >= 0 /\ At(s, c, i)}
<1>1. s \in Seq(Token) /\ Len(s) \in Nat /\ Len(s) >= 2 /\ s[1] = k /\ s[2] = ":"
  <2>1. Len(v) \in Nat
    OBVIOUS
  <2>2. /\ s \in Seq(Token) /\ Len(s) = 2 + Len(v) /\ s[1] = k /\ s[2] = ":"
    BY LineFacts
  <2> HIDE DEF s
  <2> QED
    BY <2>1, <2>2
<1>2. Len(c) = 1 /\ c[1] = ":"
  OBVIOUS
<1> HIDE DEF s
<1>3. SubSeq(s, 1, 1) = <<k>> /\ SubSeq(s, 2, 2) = c
  BY <1>1, SubSeqOfOne
<1>4. At(s, c, 1)
  BY <1>1, <1>2, <1>3 DEF At
<1>5. ~At(s, c, 0)
  <2>1. <<k>>[1] # c[1]
    BY <1>2
  <2>2. SubSeq(s, 0 + 1, 0 + Len(c)) # c
    BY <1>2, <1>3, <2>1
  <2> QED
    BY <2>2 DEF At
<1>6. Positions(s) \subseteq Nat /\ 1 \in Positions(s)
  BY <1>1 DEF Positions
<1> HIDE DEF c
<1>7. 1 \in Found /\ Found \subseteq Nat /\ 0 \notin Found
  BY <1>4, <1>5, <1>6
<1> HIDE DEF Found
<1>8. Min(Found) = 1
  <2>1. \A i \in Found : i \in Nat /\ i # 0
    BY <1>7
  <2>2. Found \subseteq Int /\ \A i \in Found : 1 <= i
    BY <2>1
  <2> QED
    BY <1>7, <2>2, MinIs
<1>9. Lowest(Found) = 1
  BY <1>7, <1>8 DEF Lowest
<1> QED
  BY <1>9 DEF Find, Found, s, c

(* substr up to the colon, and after it.                                   *)
LEMMA PartsOfLine ==
  ASSUME NEW k \in Token, NEW v \in Seq(Token), Len(v) < npos
  PROVE  /\ Substr(<<k, ":">> \o v, 0, 1) = <<k>>
         /\ Substr(<<k, ":">> \o v, 2, npos) = v
<1> DEFINE s == <<k, ":">> \o v
<1>1. s \in Seq(Token) /\ Len(s) = 2 + Len(v) /\ s[1] = k /\ \A i \in 1..Len(v) : s[2 + i] = v[i]
  BY LineFacts
<1>2. Len(v) \in Nat
  OBVIOUS
<1> HIDE DEF s
<1>3. Min({0 + 1, Len(s)}) = 1
  BY <1>1, <1>2, MinOfTwo
<1>4. SubSeq(s, 0 + 1, 1) = <<k>>
  BY <1>1, <1>2, SubSeqOfOne
<1>5. Min({2 + npos, Len(s)}) = Len(s)
  <2>1. Len(s) <= 2 + npos /\ 2 + npos \in Int /\ {2 + npos, Len(s)} = {Len(s), 2 + npos}
    BY <1>1, <1>2, Words
  <2> QED
    BY <1>1, <1>2, <2>1, MinOfTwo
<1>6. SubSeq(s, 2 + 1, Len(s)) = v
  <2> DEFINE u == SubSeq(s, 3, Len(s))
  <2>1. u \in Seq(Token) /\ Len(u) = Len(v) /\ \A i \in 1..Len(v) : u[i] = s[2 + i]
    BY <1>1, <1>2
  <2> HIDE DEF u
  <2>2. u = v
    BY <1>1, <2>1, SameSequence
  <2> QED
    BY <2>2 DEF u
<1> QED
  BY <1>3, <1>4, <1>5, <1>6 DEF Substr, s

LEMMA TrimWord ==
  ASSUME NEW k \in Token \ Whitespace
  PROVE  Trim(<<k>>) = {<<k>>}
<1> DEFINE s == <<k>>
           Kept == {i \in Positions(s) : s[i + 1] \notin Whitespace}
<1>1. s \in Seq(Token) /\ Len(s) = 1 /\ s[1] = k
  OBVIOUS
<1> HIDE DEF s
<1>2. Positions(s) = {0}
  BY <1>1 DEF Positions
<1>3. Kept = {0}
  BY <1>1, <1>2
<1>4. Min({0}) = 0 /\ Max({0}) = 0
  BY MinIs, MaxIs
<1>5. Lowest(Kept) = 0 /\ Highest(Kept) = 0
  BY <1>3, <1>4 DEF Lowest, Highest
<1>6. Plus(Minus(0, 0), 1) = 1
  BY Words DEF Plus, Minus
<1>7. Substr(s, 0, 1) = s
  <2>1. Min({0 + 1, Len(s)}) = 1
    BY <1>1, MinOfTwo
  <2>2. SubSeq(s, 1, 1) = s
    BY <1>1, SubSeqOfOne, OneElement
  <2> QED
    BY <2>1, <2>2 DEF Substr
<1> HIDE DEF Kept
<1>8. Trim(s) = {s}
  BY <1>5, <1>6, <1>7, Words DEF Trim, Kept
<1> QED
  BY <1>8 DEF s

(* trim has one result or none.                                            *)
LEMMA TrimIsOne ==
  ASSUME NEW s, Trim(s) # {}
  PROVE  Trim(s) = {CHOOSE t \in Trim(s) : TRUE}
BY DEF Trim

(* What parseHeaderLine makes of a line that has a name.                   *)
LEMMA LineIsParsed ==
  ASSUME NEW h, NEW k \in Token \ ({":"} \cup Whitespace), NEW v \in Seq(Token), Len(v) < npos
  PROVE  \A g : g \in ParseHeaderLine(h, <<k, ":">> \o v)
                  <=> \E t \in Trim(v) : g = AddHeader(h, k, <<t>>)
<1> DEFINE s == <<k, ":">> \o v
<1>1. Find(s, <<":">>, 0) = 1 /\ Plus(1, 1) = 2
  BY ColonOfLine, Words DEF Plus
<1>2. Trim(Substr(s, 0, 1)) = {<<k>>} /\ Substr(s, 2, npos) = v
  BY PartsOfLine, TrimWord
<1>3. <<k>>[1] = k
  OBVIOUS
<1> HIDE DEF s
<1> DEFINE NamePart == Trim(Substr(s, 0, Find(s, <<":">>, 0)))
           ValuePart == Trim(Substr(s, Plus(Find(s, <<":">>, 0), 1), npos))
<1>4. NamePart = {<<k>>} /\ ValuePart = Trim(v)
  BY <1>1, <1>2
<1>5. ParseHeaderLine(h, s) =
        {AddHeader(h, name[1], <<value>>) : name \in NamePart, value \in ValuePart}
  BY DEF ParseHeaderLine
<1> HIDE DEF NamePart, ValuePart
<1>6. ParseHeaderLine(h, s) = {AddHeader(h, <<k>>[1], <<value>>) : value \in Trim(v)}
  BY <1>4, <1>5
<1> QED
  BY <1>3, <1>6 DEF s

(* The order in which a map of finitely many names goes through them.      *)
LEMMA KeysFacts ==
  ASSUME NEW S, IsFiniteSet(S)
  PROVE  LET keys == SetToSeq(S) IN
         /\ keys \in Seq(S)
         /\ \A i, j \in 1..Len(keys) : keys[i] = keys[j] => i = j
         /\ \A x \in S : \E i \in 1..Len(keys) : keys[i] = x
<1> DEFINE n == Cardinality(S)
           keys == SetToSeq(S)
<1>1. n \in Nat /\ ExistsBijection(1..n, S)
  BY FS_CardinalityType
<1>2. \E f \in [1..n -> S] : IsInjective(f)
  BY <1>1 DEF ExistsBijection, Bijection, Injection
<1>3. keys \in [1..n -> S] /\ IsInjective(keys)
  BY <1>2 DEF SetToSeq
<1>4. IsFiniteSet(1..n) /\ Cardinality(1..n) = n
  BY <1>1, FS_Interval
<1>5. keys \in Injection(1..n, S)
  BY <1>3 DEF Injection
<1> HIDE DEF keys
<1>6. keys \in Surjection(1..n, S)
  BY <1>4, <1>5, FS_Injection
<1>7. keys \in Seq(S) /\ Len(keys) = n
  <2> HIDE DEF n
  <2> QED
    BY <1>1, <1>3
<1>8. \A i, j \in 1..n : keys[i] = keys[j] => i = j
  BY <1>3 DEF IsInjective
<1>9. \A x \in S : \E i \in 1..n : keys[i] = x
  BY <1>6 DEF Surjection
<1> QED
  BY <1>7, <1>8, <1>9 DEF keys

-----------------------------------------------------------------------------
(* Types.  A header that the application sets is short; what a client has  *)
(* read after a cut may be any tokens.                                     *)

Texts == {line \in Seq(Token) : Len(line) < npos}

Keys == {name \in Names : Fold[name] = name}
Maps(keys) == UNION {[D -> Seq(Seq(Token))] : D \in SUBSET keys}
Headers == {h \in Maps(Keys) : Short(h)}

Contents == {text \in Seq(Token) : Len(text) <= MaxContent}

Response == [headers : Headers, content : Contents, start : Nat]

TypeOK ==
  /\ headers_ \in Headers /\ content \in Contents /\ pc \in {"build", "head", "content"}
  /\ stream \in Seq(Token) /\ sent \in Seq(Response) /\ cut \in 0..Len(sent)
  /\ \A i \in 1..Len(sent) : sent[i].start <= Len(stream)
  /\ arrived \in 0..Len(stream) /\ reader \in {"status", "headers", "content", "stopped"}
  /\ got \in Maps(Token)
  /\ received \in Seq([headers : SUBSET Maps(Token), body : Seq(Token)])

(* A response as it is written.                                            *)
FinalHeaders(r) == SetHeader(r.headers, Length, <<Decimal(Len(r.content))>>)
HeadText(r) == HeadOf(FinalHeaders(r))
KeysOf(r) == SetToSeq(DOMAIN FinalHeaders(r))
Frame(r) == HeadText(r) \o r.content

(* The response being sent is the last one.                                *)
BeingSent ==
  pc # "build" =>
    /\ sent # <<>>
    /\ headers_ = FinalHeaders(sent[Len(sent)]) /\ content = sent[Len(sent)].content

Uncut(i) == cut = 0 \/ i < cut

(* Up to the first one that is cut, the responses follow each other in the *)
(* stream, the last one as far as it is written.                           *)
Follows(i) ==
  LET r == sent[i] IN
  /\ \A p \in 1..Len(Frame(r)) : r.start + p <= Len(stream) => stream[r.start + p] = Frame(r)[p]
  /\ i < Len(sent) => sent[i + 1].start = r.start + Len(Frame(r))
  /\ i = Len(sent) =>
       Len(stream) = r.start + (CASE pc = "build" -> Len(Frame(r))
                                  [] pc = "head" -> 0
                                  [] pc = "content" -> Len(HeadText(r)))

StreamFollows ==
  /\ IF sent = <<>> THEN stream = <<>> ELSE sent[1].start = 0
  /\ \A i \in 1..Len(sent) : Uncut(i) => Follows(i)

(* Where the lines of a head begin and end, each with its CR and LF.       *)
IsLayout(L, h) ==
  /\ L \in [0..Len(Lines(h)) -> Nat] /\ L[0] = 0 /\ Len(HeadOf(h)) = L[Len(Lines(h))]
  /\ \A k \in 1..Len(Lines(h)) :
       /\ L[k] = L[k - 1] + Len(Lines(h)[k]) + 2 /\ L[k] <= Len(HeadOf(h))
       /\ \A j \in 1..Len(Lines(h)[k]) : HeadOf(h)[L[k - 1] + j] = Lines(h)[k][j]
       /\ HeadOf(h)[L[k - 1] + Len(Lines(h)[k]) + 1] = CR
       /\ HeadOf(h)[L[k - 1] + Len(Lines(h)[k]) + 2] = LF
Places(h) == CHOOSE L : IsLayout(L, h)
Place(r, k) == Places(FinalHeaders(r))[k]

(* Where the client is in the next response that it reads.                 *)
Begin(i) == IF i = 1 THEN 0 ELSE sent[i - 1].start + Len(Frame(sent[i - 1]))

AtHeader(r, m) ==
  /\ arrived = r.start + Place(r, m + 1)
  /\ DOMAIN got = {KeysOf(r)[l] : l \in 1..m}
  /\ \A k \in DOMAIN got : k \notin Blanks(r.headers) /\ got[k] = Meant(r)[k]

InContent(r) ==
  /\ Blanks(r.headers) = {} /\ got = Meant(r)
  /\ arrived = r.start + Len(HeadText(r))

ClientAt(i) ==
  /\ IF reader = "status" THEN i <= Len(sent) + 1 /\ arrived = Begin(i) ELSE i <= Len(sent)
  /\ reader = "status" => got = NoHeaders
  /\ reader = "headers" => \E m \in 0..Len(KeysOf(sent[i])) : AtHeader(sent[i], m)
  /\ reader = "content" => InContent(sent[i])

ClientFollows == \A i \in {Len(received) + 1} : reader # "stopped" /\ Plain(i) => ClientAt(i)

(* What it has read.                                                       *)
AsMeant ==
  \A i \in Whole :
    /\ i <= Len(sent)
    /\ IF Blanks(sent[i].headers) = {}
         THEN received[i] = [headers |-> {Meant(sent[i])}, body |-> sent[i].content]
         ELSE received[i].headers = {}

Inv == TypeOK /\ BeingSent /\ StreamFollows /\ ClientFollows /\ AsMeant

-----------------------------------------------------------------------------
(* The strings that the client reads, whatever they are.                   *)

(* trim gives a string that is not empty.                                  *)
LEMMA TrimFacts ==
  ASSUME NEW s \in Seq(Token), Len(s) < npos, NEW t \in Trim(s)
  PROVE  t \in Seq(Token) /\ Len(t) \in 1..Len(s)
<1> DEFINE Kept == {i \in Positions(s) : s[i + 1] \notin Whitespace}
           start == Lowest(Kept)
           end == Highest(Kept)
<1>1. Len(s) \in Nat /\ Positions(s) = 0..(Len(s) - 1)
  BY DEF Positions
<1>4. Kept \subseteq 0..(Len(s) - 1)
  BY <1>1
<1>5. t = Substr(s, start, Plus(Minus(end, start), 1)) /\ start # npos
  BY DEF Trim
<1> HIDE DEF start, end, Kept
<1>6. Kept # {}
  BY <1>5 DEF Lowest, start
<1>7. start \in Kept /\ end \in Kept /\ start <= end
  <2>1. Len(s) - 1 \in Nat /\ Kept \subseteq Nat
    <3>1. PICK x \in Kept : x \in 0..(Len(s) - 1)
      BY <1>4, <1>6
    <3> QED
      BY <1>1, <1>4, <3>1
  <2>2. Min(Kept) \in Kept /\ \A y \in Kept : Min(Kept) <= y
    BY <1>6, <2>1, FiniteMin
  <2>3. Max(Kept) \in Kept
    BY <1>4, <1>6, <2>1, FiniteMax
  <2>4. start = Min(Kept) /\ end = Max(Kept)
    BY <1>6 DEF Lowest, Highest, start, end
  <2> QED
    BY <2>2, <2>3, <2>4
<1>8. start \in 0..(Len(s) - 1) /\ end \in 0..(Len(s) - 1) /\ Len(s) < 65535
  BY <1>4, <1>7, Words
<1>9. Plus(Minus(end, start), 1) = end - start + 1
  <2>1. Minus(end, start) = end - start
    BY <1>1, <1>7, <1>8, Words DEF Minus
  <2> QED
    BY <1>1, <1>7, <1>8, <2>1, Words DEF Plus
<1>10. end - start + 1 \in Nat /\ start \in 0..Len(s) /\ start + (end - start + 1) <= Len(s)
  BY <1>1, <1>7, <1>8
<1>11. t \in Seq(Token) /\ Len(t) = end - start + 1
  BY <1>5, <1>9, <1>10, SubstrFacts
<1> QED
  BY <1>1, <1>7, <1>8, <1>11

(* A map of headers and one more.                                          *)
LEMMA PutFacts ==
  ASSUME NEW h, NEW key, NEW values
  PROVE  /\ DOMAIN Put(h, key, values) = DOMAIN h \cup {key}
         /\ Put(h, key, values)[key] = values
         /\ \A k \in DOMAIN h \ {key} : Put(h, key, values)[k] = h[k]
BY DEF Put

LEMMA PutIsMap ==
  ASSUME NEW keys, NEW h \in Maps(keys), NEW key \in keys, NEW values \in Seq(Seq(Token))
  PROVE  Put(h, key, values) \in Maps(keys)
<1>1. PICK D \in SUBSET keys : h \in [D -> Seq(Seq(Token))]
  BY DEF Maps
<1>2. Put(h, key, values) \in [D \cup {key} -> Seq(Seq(Token))] /\ D \cup {key} \in SUBSET keys
  BY <1>1 DEF Put
<1> QED
  BY <1>2 DEF Maps

LEMMA MapFacts ==
  ASSUME NEW keys, NEW h \in Maps(keys)
  PROVE  /\ DOMAIN h \subseteq keys /\ h \in [DOMAIN h -> Seq(Seq(Token))]
         /\ \A k \in DOMAIN h : h[k] \in Seq(Seq(Token))
BY DEF Maps

LEMMA NamesFacts ==
  /\ Length \in Keys /\ Lower(Length) = Length /\ Keys \subseteq Token \ ({":"} \cup Whitespace)
  /\ IsFiniteSet(Keys)
  /\ \A k \in Keys : Lower(k) = k
  /\ \A name \in Names : Lower(name) \in Keys
  /\ \A name \in Token : Lower(name) \in Token
<1>1. IsFiniteSet(Names) /\ Keys \in SUBSET Names
  BY NamesAssumption DEF Keys
<1>2. IsFiniteSet(Keys)
  BY <1>1, FS_Subset
<1> QED
  BY <1>2, NamesAssumption DEF Keys, Lower, Token, Delimiters

(* Whatever the client takes for a header line, it has headers after it.   *)
LEMMA ParsedIsMap ==
  ASSUME NEW h \in Maps(Token), NEW s \in Texts, NEW g \in ParseHeaderLine(h, s)
  PROVE  g \in Maps(Token)
<1> DEFINE colon == Find(s, <<":">>, 0)
<1>1. s \in Seq(Token) /\ Len(s) < npos /\ Len(s) \in Nat
  BY DEF Texts
<1> DEFINE NamePart == Trim(Substr(s, 0, colon))
           ValuePart == Trim(Substr(s, Plus(colon, 1), npos))
<1>2. PICK name \in NamePart, value \in ValuePart : g = AddHeader(h, name[1], <<value>>)
  <2>1. ParseHeaderLine(h, s) =
          {AddHeader(h, name[1], <<value>>) : name \in NamePart, value \in ValuePart}
    BY DEF ParseHeaderLine
  <2> HIDE DEF NamePart, ValuePart
  <2>2. g \in {AddHeader(h, name[1], <<value>>) : name \in NamePart, value \in ValuePart}
    BY <2>1
  <2> QED
    BY <2>2
<1>3. colon = npos \/ colon \in 0..(Len(s) - 1)
  BY <1>1, FindFacts
<1> HIDE DEF colon
<1>4. colon \in Nat /\ Plus(colon, 1) \in 0..Len(s) /\ npos \in Nat
  BY <1>1, <1>3, Words DEF Plus
<1>5. /\ Substr(s, 0, colon) \in Seq(Token) /\ Len(Substr(s, 0, colon)) < npos
      /\ Substr(s, Plus(colon, 1), npos) \in Seq(Token)
      /\ Len(Substr(s, Plus(colon, 1), npos)) < npos
  <2>1. 0 \in 0..Len(s)
    BY <1>1
  <2>2. /\ Substr(s, 0, colon) \in Seq(Token)
        /\ Len(Substr(s, 0, colon)) = IF 0 + colon <= Len(s) THEN colon ELSE Len(s) - 0
    BY <1>1, <1>4, <2>1, SubstrFacts
  <2>3. /\ Substr(s, Plus(colon, 1), npos) \in Seq(Token)
        /\ Len(Substr(s, Plus(colon, 1), npos)) =
             IF Plus(colon, 1) + npos <= Len(s) THEN npos ELSE Len(s) - Plus(colon, 1)
    BY <1>1, <1>4, SubstrFacts
  <2> QED
    BY <1>1, <1>4, <2>2, <2>3
<1>6. name \in Seq(Token) /\ Len(name) >= 1 /\ value \in Seq(Token)
  BY <1>2, <1>5, TrimFacts
<1>7. name[1] \in Token
  BY <1>6
<1>8. Lower(name[1]) \in Token /\ <<value>> \in Seq(Seq(Token))
  BY <1>6, <1>7, NamesFacts
<1>9. (IF HasHeader(h, name[1]) THEN GetHeader(h, name[1]) ELSE <<>>) \o <<value>> \in Seq(Seq(Token))
  BY <1>8, MapFacts DEF HasHeader, GetHeader
<1> QED
  BY <1>2, <1>8, <1>9, PutIsMap DEF AddHeader

-----------------------------------------------------------------------------
(* What is written of a response.                                          *)

(* Values joined by commas are a string.                                   *)
LEMMA JoinFacts ==
  ASSUME NEW values \in Seq(Seq(Token))
  PROVE  /\ Join(values) \in Seq(Token)
         /\ Len(values) = 1 => Join(values) = values[1]
<1> DEFINE parts == [i \in DOMAIN values |-> (IF i = 1 THEN <<>> ELSE <<",">>) \o values[i]]
<1>1. \A i \in 1..Len(values) : values[i] \in Seq(Token)
  OBVIOUS
<1>2. <<",">> \in Seq(Token) /\ <<>> \in Seq(Token)
  BY SomeTokens, Singleton
<1>3. parts \in Seq(Seq(Token)) /\ Len(parts) = Len(values)
  <2> DEFINE comma(i) == IF i = 1 THEN <<>> ELSE <<",">>
  <2>1. ASSUME NEW i \in 1..Len(values) PROVE comma(i) \o values[i] \in Seq(Token)
    <3>1. comma(i) \in Seq(Token) /\ values[i] \in Seq(Token)
      BY <1>1, <1>2
    <3> HIDE DEF comma
    <3> QED
      BY <3>1, ConcatFacts
  <2>2. parts = [i \in 1..Len(values) |-> comma(i) \o values[i]]
    OBVIOUS
  <2> HIDE DEF comma, parts
  <2>3. Len(values) \in Nat
    OBVIOUS
  <2> QED
    BY <2>1, <2>2, <2>3
<1>4. Len(values) = 1 => parts[1] = values[1]
  BY <1>1
<1>5. Join(values) = FlattenSeq(parts)
  BY DEF Join
<1> HIDE DEF parts
<1>6. CASE parts = <<>>
  <2>1. Len(parts) = 0 /\ Len(values) = 0
    BY <1>3, <1>6
  <2>2. FlattenSeq(parts) = parts
    BY <2>1 DEF FlattenSeq
  <2>3. Join(values) = <<>>
    BY <1>5, <1>6, <2>2
  <2>4. Join(values) \in Seq(Token)
    BY <1>2, <2>3
  <2> QED
    BY <2>1, <2>4
<1>7. CASE parts # <<>>
  <2>1. PICK g \in [1..Len(parts) -> Seq(Token)] :
          /\ FlattenSeq(parts) = g[Len(parts)]
          /\ \A i \in 1..Len(parts) : g[i] = IF i = 1 THEN parts[i] ELSE g[i - 1] \o parts[i]
    BY <1>3, <1>7, Flattening
  <2>2. Len(parts) \in 1..Len(parts)
    BY <1>3, <1>7
  <2>3. Join(values) \in Seq(Token)
    BY <1>5, <2>1, <2>2
  <2>4. Len(values) = 1 => Join(values) = parts[1]
    BY <1>3, <1>5, <2>1, <2>2
  <2> QED
    BY <1>4, <2>3, <2>4
<1> QED
  BY <1>6, <1>7

LEMMA DecimalFacts ==
  ASSUME NEW n \in 0..MaxContent
  PROVE  /\ Decimal(n) \in Texts /\ Decimal(n) # <<>> /\ <<Decimal(n)>> \in Seq(Seq(Token))
         /\ Trim(Decimal(n)) = {Decimal(n)} /\ Stoul(Decimal(n)) = {n}
<1>1. ToString(n) \in Token \ Whitespace
  BY NumeralsAssumption DEF Token
<1>2. Decimal(n) = <<ToString(n)>>
  BY DEF Decimal
<1> DEFINE d == ToString(n)
<1> HIDE DEF d
<1>3. Decimal(n) \in Seq(Token) /\ Len(Decimal(n)) = 1 /\ Decimal(n) # <<>>
      /\ Decimal(n)[1] = ToString(n)
  BY <1>1, <1>2, Singleton
<1>4. <<Decimal(n)>> \in Seq(Seq(Token))
  BY <1>3, Singleton
<1>5. Decimal(n) \in Texts
  <2>1. 1 < npos
    BY Words
  <2> QED
    BY <1>3, <2>1 DEF Texts
<1>6. Trim(Decimal(n)) = {Decimal(n)}
  BY <1>1, <1>2, TrimWord
<1>7. Stoul(Decimal(n)) = {n}
  BY <1>3, NumeralsAssumption DEF Stoul
<1> QED
  BY <1>3, <1>4, <1>5, <1>6, <1>7

LEMMA HeadersFacts ==
  ASSUME NEW h \in Headers
  PROVE  /\ h \in Maps(Keys) /\ DOMAIN h \subseteq Keys /\ IsFiniteSet(DOMAIN h)
         /\ \A k \in DOMAIN h :
              /\ h[k] \in Seq(Seq(Token)) /\ Join(h[k]) \in Seq(Token) /\ Len(Join(h[k])) < npos
              /\ HeaderLine(h, k) \in Texts /\ HeaderLine(h, k) # EmptyLine
<1>1. h \in Maps(Keys) /\ Short(h)
  BY DEF Headers
<1>2. DOMAIN h \subseteq Keys /\ \A k \in DOMAIN h : h[k] \in Seq(Seq(Token))
  BY <1>1, MapFacts
<1>3. IsFiniteSet(DOMAIN h)
  BY <1>2, NamesFacts, FS_Subset
<1>4. ASSUME NEW k \in DOMAIN h
      PROVE  /\ Join(h[k]) \in Seq(Token) /\ Len(Join(h[k])) < npos
             /\ HeaderLine(h, k) \in Texts /\ HeaderLine(h, k) # EmptyLine
  <2>1. k \in Token /\ Join(h[k]) \in Seq(Token)
    BY <1>2, JoinFacts, NamesFacts
  <2>2. Len(HeaderLine(h, k)) < npos
    BY <1>1 DEF Short
  <2>3. HeaderLine(h, k) \in Seq(Token) /\ Len(HeaderLine(h, k)) = 2 + Len(Join(h[k]))
    BY <2>1, LineFacts DEF HeaderLine
  <2>4. Len(Join(h[k])) \in Nat
    BY <2>1
  <2>5. HeaderLine(h, k) # EmptyLine
    BY <2>3, <2>4 DEF EmptyLine
  <2> QED
    BY <2>1, <2>2, <2>3, <2>4, <2>5, Words DEF Texts
<1> QED
  BY <1>1, <1>2, <1>3, <1>4

(* The headers with the true length.                                       *)
LEMMA FinalFacts ==
  ASSUME NEW h \in Headers, NEW n \in 0..MaxContent
  PROVE  LET f == SetHeader(h, Length, <<Decimal(n)>>) IN
         /\ f \in Headers /\ DOMAIN f = DOMAIN h \cup {Length}
         /\ f[Length] = <<Decimal(n)>> /\ \A k \in DOMAIN h \ {Length} : f[k] = h[k]
         /\ Join(f[Length]) = Decimal(n)
<1> DEFINE f == SetHeader(h, Length, <<Decimal(n)>>)
<1>1. f = Put(h, Length, <<Decimal(n)>>)
  BY NamesFacts DEF SetHeader
<1>2. h \in Maps(Keys) /\ Length \in Keys /\ <<Decimal(n)>> \in Seq(Seq(Token))
  BY HeadersFacts, NamesFacts, DecimalFacts
<1> HIDE DEF f
<1>3. /\ f \in Maps(Keys) /\ DOMAIN f = DOMAIN h \cup {Length}
      /\ f[Length] = <<Decimal(n)>> /\ \A k \in DOMAIN h \ {Length} : f[k] = h[k]
  <2> DEFINE values == <<Decimal(n)>>
  <2> HIDE DEF values
  <2>1. f = Put(h, Length, values) /\ values \in Seq(Seq(Token))
    BY <1>1, <1>2 DEF values
  <2>2. Put(h, Length, values) \in Maps(Keys)
    BY <1>2, <2>1, PutIsMap
  <2>3. /\ DOMAIN Put(h, Length, values) = DOMAIN h \cup {Length}
        /\ Put(h, Length, values)[Length] = values
        /\ \A k \in DOMAIN h \ {Length} : Put(h, Length, values)[k] = h[k]
    BY DEF Put
  <2> QED
    BY <2>1, <2>2, <2>3 DEF values
<1>4. Join(f[Length]) = Decimal(n)
  <2>1. ASSUME NEW d PROVE Len(<<d>>) = 1 /\ <<d>>[1] = d
    OBVIOUS
  <2>2. Len(<<Decimal(n)>>) = 1 /\ <<Decimal(n)>>[1] = Decimal(n)
    BY <2>1
  <2> QED
    BY <1>2, <1>3, <2>2, JoinFacts
<1>5. Short(f)
  <2> SUFFICES ASSUME NEW k \in DOMAIN f PROVE Len(HeaderLine(f, k)) < npos
    BY DEF Short
  <2>1. CASE k = Length
    <3>1. HeaderLine(f, k) = <<Length, ":">> \o Decimal(n)
      BY <1>4, <2>1 DEF HeaderLine
    <3>2. Len(HeaderLine(f, k)) = 2 + Len(Decimal(n))
      BY <3>1, NamesFacts, DecimalFacts, LineFacts DEF Texts
    <3>3. Len(Decimal(n)) = 1
      BY DEF Decimal
    <3> QED
      BY <3>2, <3>3, Words
  <2>2. CASE k # Length
    <3>1. k \in DOMAIN h /\ HeaderLine(f, k) = HeaderLine(h, k)
      BY <1>3, <2>2 DEF HeaderLine
    <3> QED
      BY <3>1 DEF Headers, Short
  <2> QED
    BY <2>1, <2>2
<1> QED
  BY <1>3, <1>4, <1>5 DEF Headers, f

LEMMA ConcatOfThree ==
  ASSUME NEW T, NEW a \in T, NEW s \in Seq(T), NEW b \in T
  PROVE  LET u == <<a>> \o s \o <<b>> IN
         /\ u \in Seq(T) /\ Len(u) = Len(s) + 2 /\ u[1] = a /\ u[Len(s) + 2] = b
         /\ \A i \in 1..Len(s) : u[1 + i] = s[i]
OBVIOUS

LEMMA LinesFacts ==
  ASSUME NEW h \in Headers
  PROVE  LET keys == SetToSeq(DOMAIN h) IN
         /\ Lines(h) \in Seq(Texts) /\ Len(Lines(h)) = Len(keys) + 2
         /\ Lines(h)[1] = StatusLine /\ Lines(h)[Len(keys) + 2] = EmptyLine
         /\ \A i \in 1..Len(keys) : Lines(h)[1 + i] = HeaderLine(h, keys[i])
<1> DEFINE keys == SetToSeq(DOMAIN h)
           lines == [i \in DOMAIN keys |-> HeaderLine(h, keys[i])]
<1>1. keys \in Seq(DOMAIN h)
  BY HeadersFacts, KeysFacts
<1>2. Lines(h) = <<StatusLine>> \o lines \o <<EmptyLine>>
  BY DEF Lines
<1> HIDE DEF keys
<1>3. lines \in Seq(Texts) /\ Len(lines) = Len(keys)
      /\ \A i \in 1..Len(keys) : lines[i] = HeaderLine(h, keys[i])
  <2>1. \A i \in 1..Len(keys) : HeaderLine(h, keys[i]) \in Texts
    BY <1>1, HeadersFacts
  <2> QED
    BY <1>1, <2>1
<1>4. StatusLine \in Texts /\ EmptyLine \in Texts
  <2>1. <<"status">> \in Seq(Token) /\ Len(<<"status">>) = 1
    BY SomeTokens, Singleton
  <2> QED
    BY <2>1, Words DEF Texts, StatusLine, EmptyLine
<1> HIDE DEF lines
<1>5. /\ Lines(h) \in Seq(Texts) /\ Len(Lines(h)) = Len(lines) + 2
      /\ Lines(h)[1] = StatusLine /\ Lines(h)[Len(lines) + 2] = EmptyLine
      /\ \A i \in 1..Len(lines) : Lines(h)[1 + i] = lines[i]
  BY <1>2, <1>3, <1>4, ConcatOfThree
<1> QED
  BY <1>3, <1>5 DEF keys

(* A line and the end of it.                                               *)
LEMMA EndedLine ==
  ASSUME NEW line \in Seq(Token)
  PROVE  /\ line \o End \in Seq(Token) /\ Len(line \o End) = Len(line) + 2
         /\ \A j \in 1..Len(line) : (line \o End)[j] = line[j]
         /\ (line \o End)[Len(line) + 1] = CR /\ (line \o End)[Len(line) + 2] = LF
<1>1. End \in Seq(Token) /\ Len(End) = 2 /\ End[1] = CR /\ End[2] = LF
  BY SomeTokens, TwoElements DEF End
<1> DEFINE e == End
<1>2. e \in Seq(Token) /\ Len(e) = 2 /\ e[1] = CR /\ e[2] = LF
  BY <1>1
<1> HIDE DEF e
<1>3. /\ line \o e \in Seq(Token) /\ Len(line \o e) = Len(line) + Len(e)
      /\ \A j \in 1..Len(line) : (line \o e)[j] = line[j]
  BY <1>2, ConcatFacts
<1>4. \A j \in 1..Len(e) : (line \o e)[Len(line) + j] = e[j]
  <2>1. \A a, b \in Seq(Token) : \A j \in 1..Len(b) : (a \o b)[Len(a) + j] = b[j]
    BY ConcatFacts
  <2> QED
    BY <1>2, <2>1
<1>5. 1 \in 1..Len(e) /\ 2 \in 1..Len(e)
  BY <1>2
<1> QED
  BY <1>2, <1>3, <1>4, <1>5 DEF e

(* Where the lines of a head are.                                          *)
LEMMA PlacesFacts ==
  ASSUME NEW h \in Headers
  PROVE  HeadOf(h) \in Seq(Token) /\ IsLayout(Places(h), h)
<1> DEFINE lines == Lines(h)
           seqs == [i \in DOMAIN lines |-> lines[i] \o End]
           text == HeadOf(h)
           keys == SetToSeq(DOMAIN h)
<1>1. keys \in Seq(DOMAIN h)
  BY HeadersFacts, KeysFacts
<1>2. lines \in Seq(Texts) /\ Len(lines) = Len(keys) + 2
  BY LinesFacts
<1> HIDE DEF keys
<1>3. Len(lines) \in Nat /\ Len(lines) >= 1
  BY <1>1, <1>2
<1>4. text = FlattenSeq(seqs)
  BY DEF HeadOf
<1> HIDE DEF lines, text
<1>5. \A k \in 1..Len(lines) : lines[k] \in Seq(Token) /\ Len(lines[k]) \in Nat
  BY <1>2 DEF Texts
<1>6. ASSUME NEW k \in 1..Len(lines)
      PROVE  /\ seqs[k] \in Seq(Token) /\ Len(seqs[k]) = Len(lines[k]) + 2
             /\ \A j \in 1..Len(lines[k]) : seqs[k][j] = lines[k][j]
             /\ seqs[k][Len(lines[k]) + 1] = CR /\ seqs[k][Len(lines[k]) + 2] = LF
  <2>1. seqs[k] = lines[k] \o End
    BY <1>2
  <2> QED
    BY <1>5, <2>1, EndedLine
<1>7. seqs = [k \in 1..Len(lines) |-> seqs[k]]
  BY <1>2
<1> HIDE DEF seqs
<1>8. seqs \in Seq(Seq(Token)) /\ Len(seqs) = Len(lines) /\ seqs # <<>>
  BY <1>3, <1>6, <1>7
<1>9. /\ text \in Seq(Token)
      /\ \E L \in [0..Len(seqs) -> Nat] :
           /\ L[0] = 0 /\ Len(text) = L[Len(seqs)]
           /\ \A k \in 1..Len(seqs) :
                /\ L[k] = L[k - 1] + Len(seqs[k]) /\ L[k] <= Len(text)
                /\ \A j \in 1..Len(seqs[k]) : text[L[k - 1] + j] = seqs[k][j]
  BY <1>4, <1>8, FlattenIsLaidOut
<1>10. PICK L \in [0..Len(seqs) -> Nat] :
         /\ L[0] = 0 /\ Len(text) = L[Len(seqs)]
         /\ \A k \in 1..Len(seqs) :
              /\ L[k] = L[k - 1] + Len(seqs[k]) /\ L[k] <= Len(text)
              /\ \A j \in 1..Len(seqs[k]) : text[L[k - 1] + j] = seqs[k][j]
  BY <1>9
<1>11. ASSUME NEW k \in 1..Len(lines)
       PROVE  /\ L[k] = L[k - 1] + Len(lines[k]) + 2 /\ L[k] <= Len(text)
              /\ \A j \in 1..Len(lines[k]) : text[L[k - 1] + j] = lines[k][j]
              /\ text[L[k - 1] + Len(lines[k]) + 1] = CR
              /\ text[L[k - 1] + Len(lines[k]) + 2] = LF
  <2> DEFINE n == Len(lines[k])
             before == L[k - 1]
             one == seqs[k]
             line == lines[k]
  <2>1. n \in Nat /\ before \in Nat
    <3>1. k - 1 \in 0..Len(seqs)
      BY <1>3, <1>8
    <3> QED
      BY <1>5, <1>10, <3>1
  <2>2. /\ L[k] = before + Len(one) /\ L[k] <= Len(text)
        /\ \A j \in 1..Len(one) : text[before + j] = one[j]
    BY <1>8, <1>10
  <2>3. /\ Len(one) = n + 2 /\ \A j \in 1..n : one[j] = line[j]
        /\ one[n + 1] = CR /\ one[n + 2] = LF
    BY <1>6
  <2> HIDE DEF n, before, one, line
  <2>4. L[k] = before + n + 2 /\ L[k] <= Len(text)
    BY <2>1, <2>2, <2>3
  <2>5. \A j \in 1..n : text[before + j] = line[j]
    BY <2>1, <2>2, <2>3
  <2>6. text[before + n + 1] = CR
    <3>1. n + 1 \in 1..Len(one) /\ before + n + 1 = before + (n + 1)
      BY <2>1, <2>3
    <3> QED
      BY <2>2, <2>3, <3>1
  <2>7. text[before + n + 2] = LF
    <3>1. n + 2 \in 1..Len(one) /\ before + n + 2 = before + (n + 2)
      BY <2>1, <2>3
    <3> QED
      BY <2>2, <2>3, <3>1
  <2> QED
    BY <2>4, <2>5, <2>6, <2>7 DEF n, before, line
<1>12. IsLayout(L, h)
  BY <1>8, <1>10, <1>11 DEF IsLayout, lines, text
<1> QED
  BY <1>9, <1>12 DEF Places, text

LEMMA FrameFacts ==
  ASSUME NEW r \in Response
  PROVE  /\ FinalHeaders(r) \in Headers /\ r.headers \in Headers
         /\ r.content \in Seq(Token) /\ Len(r.content) \in 0..MaxContent /\ Len(r.content) \in Nat
         /\ HeadText(r) \in Seq(Token) /\ Len(HeadText(r)) \in Nat
         /\ Frame(r) \in Seq(Token) /\ Len(Frame(r)) = Len(HeadText(r)) + Len(r.content)
         /\ \A p \in 1..Len(HeadText(r)) : Frame(r)[p] = HeadText(r)[p]
         /\ \A p \in 1..Len(r.content) : Frame(r)[Len(HeadText(r)) + p] = r.content[p]
<1> DEFINE head == HeadText(r)
           text == r.content
<1>1. r.headers \in Headers /\ text \in Seq(Token) /\ Len(text) \in 0..MaxContent /\ Len(text) \in Nat
  <2>1. text \in Contents /\ r.headers \in Headers
    BY DEF Response
  <2> HIDE DEF text
  <2> QED
    BY <2>1, BoundsAssumption DEF Contents
<1>2. FinalHeaders(r) \in Headers
  BY <1>1, FinalFacts DEF FinalHeaders
<1>3. head \in Seq(Token)
  BY <1>2, PlacesFacts DEF HeadText
<1>4. Frame(r) = head \o text
  BY DEF Frame
<1> HIDE DEF head, text
<1>5. Len(head) \in Nat
  BY <1>3
<1>6. head \o text \in Seq(Token) /\ Len(head \o text) = Len(head) + Len(text)
  BY <1>1, <1>3, ConcatFacts
<1>7. \A i \in 1..Len(head) : (head \o text)[i] = head[i]
  BY <1>1, <1>3, ConcatFacts
<1>8. \A i \in 1..Len(text) : (head \o text)[Len(head) + i] = text[i]
  BY <1>1, <1>3, ConcatFacts
<1> QED
  BY <1>1, <1>2, <1>3, <1>4, <1>5, <1>6, <1>7, <1>8 DEF head, text

-----------------------------------------------------------------------------
(* What a client makes of a response that is whole.                        *)

LEMMA KeysOfFacts ==
  ASSUME NEW r \in Response
  PROVE  /\ KeysOf(r) \in Seq(Keys) /\ Len(KeysOf(r)) \in Nat
         /\ \A l, m \in 1..Len(KeysOf(r)) : KeysOf(r)[l] = KeysOf(r)[m] => l = m
         /\ {KeysOf(r)[l] : l \in 1..Len(KeysOf(r))} = DOMAIN r.headers \cup {Length}
         /\ DOMAIN FinalHeaders(r) = DOMAIN r.headers \cup {Length}
<1> DEFINE D == DOMAIN FinalHeaders(r)
           keys == KeysOf(r)
<1>1. r.headers \in Headers /\ Len(r.content) \in 0..MaxContent
  BY FrameFacts
<1>2. FinalHeaders(r) \in Headers /\ D = DOMAIN r.headers \cup {Length}
  BY <1>1, FinalFacts DEF FinalHeaders
<1>3. D \subseteq Keys /\ IsFiniteSet(D)
  BY <1>2, HeadersFacts
<1>4. keys = SetToSeq(D)
  BY DEF KeysOf
<1> HIDE DEF D, keys
<1>5. /\ keys \in Seq(D)
      /\ \A l, m \in 1..Len(keys) : keys[l] = keys[m] => l = m
      /\ \A x \in D : \E l \in 1..Len(keys) : keys[l] = x
  BY <1>3, <1>4, KeysFacts
<1>6. {keys[l] : l \in 1..Len(keys)} = D
  <2>1. \A l \in 1..Len(keys) : keys[l] \in D
    BY <1>5
  <2> QED
    BY <1>5, <2>1
<1>7. keys \in Seq(Keys) /\ Len(keys) \in Nat
  BY <1>3, <1>5
<1> QED
  BY <1>2, <1>5, <1>6, <1>7 DEF keys, D

(* One header, if none with its key has been read.                         *)
LEMMA HeaderIsRead ==
  ASSUME NEW r \in Response, NEW k \in DOMAIN FinalHeaders(r), NEW g, k \notin DOMAIN g
  PROVE  /\ k \in DOMAIN Meant(r) /\ k \in Token
         /\ ParseHeaderLine(g, HeaderLine(FinalHeaders(r), k)) =
              IF k \in Blanks(r.headers) THEN {} ELSE {Put(g, k, Meant(r)[k])}
<1> DEFINE v == Join(FinalHeaders(r)[k])
<1>1. r.headers \in Headers /\ Len(r.content) \in 0..MaxContent
  BY FrameFacts
<1>2. /\ FinalHeaders(r) \in Headers /\ DOMAIN FinalHeaders(r) = DOMAIN r.headers \cup {Length}
      /\ \A l \in DOMAIN r.headers \ {Length} : FinalHeaders(r)[l] = r.headers[l]
      /\ Join(FinalHeaders(r)[Length]) = Decimal(Len(r.content))
  BY <1>1, FinalFacts DEF FinalHeaders
<1>3. v \in Seq(Token) /\ Len(v) < npos /\ k \in Keys
  BY <1>2, HeadersFacts
<1>4. k \in Token \ ({":"} \cup Whitespace) /\ Lower(k) = k
  BY <1>3, NamesFacts
<1>5. HeaderLine(FinalHeaders(r), k) = <<k, ":">> \o v
  BY DEF HeaderLine
<1>6. k \in DOMAIN Meant(r)
  BY <1>2 DEF Meant
<1> HIDE DEF v
<1>7. \A f : f \in ParseHeaderLine(g, HeaderLine(FinalHeaders(r), k))
                <=> \E t \in Trim(v) : f = AddHeader(g, k, <<t>>)
  <2>1. k \in Token \ ({":"} \cup Whitespace) /\ v \in Seq(Token) /\ Len(v) < npos
    BY <1>3, <1>4
  <2>2. \A f : f \in ParseHeaderLine(g, <<k, ":">> \o v)
                 <=> \E t \in Trim(v) : f = AddHeader(g, k, <<t>>)
    BY <2>1, LineIsParsed, Zenon
  <2> QED
    BY <1>5, <2>2
<1>8. ASSUME NEW t \in Trim(v) PROVE AddHeader(g, k, <<t>>) = Put(g, k, <<t>>)
  <2>1. t \in Seq(Token)
    BY <1>3, TrimFacts
  <2>2. <<t>> \in Seq(Seq(Token))
    BY <2>1, Singleton
  <2>3. <<>> \o <<t>> = <<t>>
    BY <2>2
  <2> QED
    BY <1>4, <2>3 DEF AddHeader, HasHeader
<1>9. ParseHeaderLine(g, HeaderLine(FinalHeaders(r), k)) = {Put(g, k, <<t>>) : t \in Trim(v)}
  BY <1>7, <1>8
<1>10. CASE k = Length
  <2>1. Trim(v) = {Decimal(Len(r.content))}
    BY <1>1, <1>2, <1>10, DecimalFacts DEF v
  <2>2. Meant(r)[k] = <<Decimal(Len(r.content))>> /\ k \notin Blanks(r.headers)
    BY <1>10 DEF Meant, Blanks
  <2> QED
    BY <1>4, <1>6, <1>9, <2>1, <2>2
<1>11. CASE k # Length
  <2>1. k \in DOMAIN r.headers \ {Length} /\ v = Join(r.headers[k])
    BY <1>2, <1>11 DEF v
  <2>2. k \in Blanks(r.headers) <=> Trim(v) = {}
    BY <2>1 DEF Blanks
  <2>3. Meant(r)[k] = <<CHOOSE t \in Trim(v) : TRUE>>
    BY <1>11, <2>1 DEF Meant
  <2>4. Trim(v) # {} => Trim(v) = {CHOOSE t \in Trim(v) : TRUE}
    BY TrimIsOne
  <2>5. CASE Trim(v) = {}
    BY <1>4, <1>6, <1>9, <2>2, <2>5
  <2>6. CASE Trim(v) # {}
    BY <1>4, <1>6, <1>9, <2>2, <2>3, <2>4, <2>6
  <2> QED
    BY <2>5, <2>6
<1> QED
  BY <1>10, <1>11

(* All of them.                                                            *)
LEMMA HeadIsRead ==
  ASSUME NEW r \in Response, NEW g \in Maps(Token),
         DOMAIN g = {KeysOf(r)[l] : l \in 1..Len(KeysOf(r))},
         \A k \in DOMAIN g : k \notin Blanks(r.headers) /\ g[k] = Meant(r)[k]
  PROVE  g = Meant(r) /\ Blanks(r.headers) = {}
<1>1. DOMAIN g = DOMAIN r.headers \cup {Length}
  BY KeysOfFacts
<1>2. DOMAIN Meant(r) = DOMAIN r.headers \cup {Length}
  BY DEF Meant
<1>3. Meant(r) = [k \in DOMAIN g |-> Meant(r)[k]]
  BY <1>1, <1>2 DEF Meant
<1>4. g = [k \in DOMAIN g |-> g[k]]
  BY DEF Maps
<1>5. g = Meant(r)
  BY <1>3, <1>4
<1>6. Blanks(r.headers) \subseteq DOMAIN g
  BY <1>1 DEF Blanks
<1> QED
  BY <1>5, <1>6

LEMMA LengthIsRead ==
  ASSUME NEW r \in Response
  PROVE  ContentLength(Meant(r)) = {Len(r.content)}
<1>1. Len(r.content) \in 0..MaxContent
  BY FrameFacts
<1> DEFINE d == Decimal(Len(r.content))
<1>2. Length \in DOMAIN Meant(r) /\ Meant(r)[Length] = <<d>>
  BY DEF Meant
<1>3. Stoul(d) = {Len(r.content)}
  BY <1>1, DecimalFacts
<1> HIDE DEF d
<1>4. <<d>> # <<>> /\ <<d>>[1] = d
  OBVIOUS
<1> QED
  BY <1>2, <1>3, <1>4, NamesFacts DEF ContentLength, HasHeader, GetHeader

-----------------------------------------------------------------------------
(* The invariant, action by action.                                        *)

USE BoundsAssumption

LEMMA NoHeadersFacts == NoHeaders \in Headers /\ NoHeaders \in Maps(Token)
<1>1. NoHeaders \in [{} -> Seq(Seq(Token))] /\ DOMAIN NoHeaders = {}
  BY DEF NoHeaders
<1>2. {} \in SUBSET Keys /\ {} \in SUBSET Token
  OBVIOUS
<1>3. NoHeaders \in Maps(Keys) /\ NoHeaders \in Maps(Token)
  BY <1>1, <1>2 DEF Maps
<1> QED
  BY <1>1, <1>3 DEF Headers, Short

LEMMA InitHolds == Init => Inv
<1> SUFFICES ASSUME Init PROVE Inv
  OBVIOUS
<1>1. <<>> \in Contents
  BY DEF Contents
<1>2. TypeOK
  BY <1>1, NoHeadersFacts DEF Init, TypeOK
<1>3. BeingSent /\ StreamFollows /\ AsMeant
  BY DEF Init, BeingSent, StreamFollows, AsMeant, Whole
<1>4. ClientFollows
  BY DEF Init, ClientFollows, ClientAt, Begin
<1> QED
  BY <1>2, <1>3, <1>4 DEF Inv

LEMMA TokenNames == Names \subseteq Token /\ Values \subseteq Seq(Token) /\ Pieces \subseteq Token
<1>1. \A s \in Seq(STRING) : s \in Seq(Token)
  <2> SUFFICES ASSUME NEW s \in Seq(STRING) PROVE s \in Seq(Token)
    OBVIOUS
  <2>1. \A x \in STRING : x \in Token
    BY DEF Token
  <2>2. Len(s) \in Nat /\ s = [i \in 1..Len(s) |-> s[i]] /\ \A i \in 1..Len(s) : s[i] \in STRING
    OBVIOUS
  <2>3. s \in [1..Len(s) -> Token]
    BY <2>1, <2>2
  <2> QED
    BY <2>2, <2>3
<1> QED
  BY <1>1, NamesAssumption, ValuesAssumption DEF Token

(* What the application makes of the headers.                              *)
LEMMA CallsGiveHeaders ==
  ASSUME TypeOK, NEW name \in Names, NEW values \in Seq(Seq(Token))
  PROVE  /\ SetHeader(headers_, name, values) \in Maps(Keys)
         /\ AddHeader(headers_, name, values) \in Maps(Keys)
         /\ UnsetHeader(headers_, name) \in Maps(Keys)
<1>1. headers_ \in Maps(Keys) /\ Lower(name) \in Keys
  BY HeadersFacts, NamesFacts DEF TypeOK
<1>2. SetHeader(headers_, name, values) \in Maps(Keys)
  BY <1>1, PutIsMap DEF SetHeader
<1>3. AddHeader(headers_, name, values) \in Maps(Keys)
  <2> DEFINE old == IF HasHeader(headers_, name) THEN GetHeader(headers_, name) ELSE <<>>
  <2>1. old \in Seq(Seq(Token))
    BY <1>1, MapFacts DEF HasHeader, GetHeader
  <2> HIDE DEF old
  <2>2. old \o values \in Seq(Seq(Token))
    BY <2>1
  <2>3. AddHeader(headers_, name, values) = Put(headers_, Lower(name), old \o values)
    BY DEF AddHeader, old
  <2> QED
    BY <1>1, <2>2, <2>3, PutIsMap
<1>4. UnsetHeader(headers_, name) \in Maps(Keys)
  <2>1. PICK D \in SUBSET Keys : headers_ \in [D -> Seq(Seq(Token))]
    BY <1>1 DEF Maps
  <2>2. UnsetHeader(headers_, name) \in [D \ {Lower(name)} -> Seq(Seq(Token))]
    BY <2>1 DEF UnsetHeader
  <2> QED
    BY <2>1, <2>2 DEF Maps
<1> QED
  BY <1>2, <1>3, <1>4

(* What the server does with the rest leaves the client where it is.       *)
LEMMA ClientIsUndisturbed ==
  ASSUME Inv, UNCHANGED clientVars, cut' = cut \/ cut = 0,
         Len(sent') \in Nat, Len(sent) <= Len(sent'), DOMAIN sent' = 1..Len(sent'),
         \A i \in 1..Len(sent) : sent'[i] = sent[i]
  PROVE  ClientFollows' /\ AsMeant'
<1>1. /\ Len(sent) \in Nat /\ Len(received) \in Nat /\ received' = received
      /\ arrived' = arrived /\ reader' = reader /\ got' = got
      /\ DOMAIN sent = 1..Len(sent) /\ DOMAIN received = 1..Len(received)
  BY DEF Inv, TypeOK, clientVars
<1>2. ASSUME NEW i, Plain(i)' PROVE Plain(i)
  <2>1. \A j \in DOMAIN sent : j \in DOMAIN sent' /\ sent'[j] = sent[j]
    BY <1>1
  <2>2. cut = 0 \/ i < cut
    BY <1>2 DEF Plain
  <2>3. ASSUME NEW j \in DOMAIN sent, j <= i PROVE InLines(sent[j].headers)
    <3>1. InLines(sent'[j].headers)
      BY <1>2, <2>1, <2>3 DEF Plain
    <3> QED
      BY <2>1, <3>1
  <2> QED
    BY <2>2, <2>3 DEF Plain
<1>3. AsMeant'
  <2>1. Whole' \subseteq Whole
    BY <1>1, <1>2 DEF Whole
  <2>2. ASSUME NEW i \in Whole' PROVE i \in 1..Len(sent) /\ sent'[i] = sent[i]
    <3>1. i \in Nat \ {0}
      BY <1>1, <2>2 DEF Whole
    <3>2. i \in Whole
      BY <2>1, <2>2
    <3>3. i <= Len(sent)
      BY <3>2 DEF Inv, AsMeant
    <3> QED
      BY <1>1, <3>1, <3>3
  <2>3. ASSUME NEW i \in Whole'
        PROVE  /\ i <= Len(sent')
               /\ IF Blanks(sent'[i].headers) = {}
                    THEN received'[i] = [headers |-> {Meant(sent'[i])}, body |-> sent'[i].content]
                    ELSE received'[i].headers = {}
    <3>1. i \in Whole /\ i \in 1..Len(sent) /\ sent'[i] = sent[i] /\ received'[i] = received[i]
      BY <1>1, <2>1, <2>2, <2>3
    <3>2. i <= Len(sent')
      BY <1>1, <3>1
    <3> QED
      BY <3>1, <3>2 DEF Inv, AsMeant
  <2> QED
    BY <2>3 DEF AsMeant
<1>4. ClientFollows'
  <2> SUFFICES ASSUME NEW i \in {Len(received) + 1}, reader # "stopped", Plain(i)'
        PROVE  ClientAt(i)'
    BY <1>1 DEF ClientFollows
  <2>1. i \in Nat \ {0}
    BY <1>1
  <2>3. Plain(i)
    BY <1>2
  <2>4. ClientAt(i)
    BY <2>3 DEF Inv, ClientFollows
  <2>5. CASE reader = "status"
    <3>1. i # 1 => i - 1 \in 1..Len(sent)
      BY <1>1, <2>1, <2>4, <2>5 DEF ClientAt
    <3>2. Begin(i)' = Begin(i)
      BY <3>1 DEF Begin
    <3> QED
      BY <1>1, <2>1, <2>4, <2>5, <3>2 DEF ClientAt
  <2>6. CASE reader # "status"
    <3>1. i \in 1..Len(sent) /\ sent'[i] = sent[i]
      BY <1>1, <2>1, <2>4, <2>6 DEF ClientAt
    <3>2. got' = got /\ reader' = reader /\ i <= Len(sent')
      BY <1>1, <3>1
    <3>3. reader = "headers" => \E m \in 0..Len(KeysOf(sent[i])) : AtHeader(sent[i], m)'
      <4> SUFFICES ASSUME reader = "headers" PROVE \E m \in 0..Len(KeysOf(sent[i])) : AtHeader(sent[i], m)'
        OBVIOUS
      <4>1. PICK m \in 0..Len(KeysOf(sent[i])) : AtHeader(sent[i], m)
        BY <2>4 DEF ClientAt
      <4>2. AtHeader(sent[i], m)'
        BY <1>1, <3>1, <4>1 DEF AtHeader
      <4> QED
        BY <3>1, <4>2
    <3>4. reader = "content" => InContent(sent[i])'
      BY <1>1, <2>4, <3>1 DEF ClientAt, InContent
    <3> QED
      BY <2>6, <3>1, <3>2, <3>3, <3>4 DEF ClientAt
  <2> QED
    BY <2>5, <2>6
<1> QED
  BY <1>3, <1>4

(* Before a response is given to sendResponse, its headers and its content *)
(* are nobody else's.                                                      *)
LEMMA BuildingKeepsInv ==
  ASSUME Inv, pc = "build", headers_' \in Headers, content' \in Contents,
         UNCHANGED <<pc, stream, sent, cut, clientVars>>
  PROVE  Inv'
<1>1. TypeOK'
  BY DEF Inv, TypeOK, clientVars
<1>2. BeingSent'
  BY DEF BeingSent
<1>3. StreamFollows'
  BY DEF Inv, StreamFollows, Follows, Uncut
<1>4. Len(sent) \in Nat /\ DOMAIN sent = 1..Len(sent)
  BY DEF Inv, TypeOK
<1>5. ClientFollows' /\ AsMeant'
  BY <1>4, ClientIsUndisturbed
<1> QED
  BY <1>1, <1>2, <1>3, <1>5 DEF Inv

LEMMA BuildKeepsInv ==
  ASSUME Inv, NEW h \in Maps(Keys), Build(h)
  PROVE  Inv'
<1>1. h \in Headers /\ headers_' = h
  BY DEF Build, Headers
<1>2. content \in Contents
  BY DEF Inv, TypeOK
<1> QED
  BY <1>1, <1>2, BuildingKeepsInv DEF Build

LEMMA ApplicationKeepsInv ==
  ASSUME Inv, Application
  PROVE  Inv'
<1>1. TypeOK
  BY DEF Inv
<1>2. ASSUME NEW piece \in Pieces, Write(piece) PROVE Inv'
  <2>1. piece \in Token /\ content \in Seq(Token) /\ Len(content) \in Nat
        /\ headers_ \in Headers /\ Len(content) < MaxContent
    BY <1>1, <1>2, TokenNames DEF Write, TypeOK, Contents
  <2>2. Append(content, piece) \in Seq(Token) /\ Len(Append(content, piece)) = Len(content) + 1
    BY <2>1
  <2>3. content' = Append(content, piece)
    BY <1>2 DEF Write
  <2>4. content' \in Contents
    BY <2>1, <2>2, <2>3 DEF Contents
  <2> QED
    BY <1>2, <2>1, <2>4, BuildingKeepsInv DEF Write
<1>3. ASSUME NEW name \in Names, NEW v \in Values,
             Build(SetHeader(headers_, name, <<v>>)) \/ Build(AddHeader(headers_, name, <<v>>))
      PROVE  Inv'
  <2>1. v \in Seq(Token)
    BY TokenNames
  <2>2. <<v>> \in Seq(Seq(Token))
    BY <2>1, Singleton
  <2>3. SetHeader(headers_, name, <<v>>) \in Maps(Keys) /\ AddHeader(headers_, name, <<v>>) \in Maps(Keys)
    BY <1>1, <2>2, CallsGiveHeaders
  <2> QED
    BY <1>3, <2>3, BuildKeepsInv
<1>4. ASSUME NEW name \in Names,
             Build(UnsetHeader(headers_, name)) \/ Build(SetHeader(headers_, name, <<>>))
      PROVE  Inv'
  <2>1. <<>> \in Seq(Seq(Token))
    OBVIOUS
  <2>2. UnsetHeader(headers_, name) \in Maps(Keys) /\ SetHeader(headers_, name, <<>>) \in Maps(Keys)
    BY <1>1, <2>1, CallsGiveHeaders
  <2> QED
    BY <1>4, <2>2, BuildKeepsInv
<1> QED
  BY <1>2, <1>3, <1>4 DEF Application

(* A response starts where the one before it ends.                         *)
LEMMA SendResponseKeepsInv ==
  ASSUME Inv, SendResponse
  PROVE  Inv'
<1> DEFINE n == Len(sent)
           r == [headers |-> headers_, content |-> content, start |-> Len(stream)]
<1>1. /\ n \in Nat /\ Len(stream) \in Nat /\ r \in Response
      /\ r.headers = headers_ /\ r.content = content /\ r.start = Len(stream)
  BY DEF Inv, TypeOK, Response
<1>2. pc = "build" /\ pc' = "head" /\ sent' = Append(sent, r)
      /\ UNCHANGED <<content, stream, cut, arrived, reader, got, received>>
  BY DEF SendResponse, clientVars
<1>3. headers_' = FinalHeaders(r)
  BY <1>1 DEF SendResponse, FinalHeaders
<1>4. FinalHeaders(r) \in Headers
  BY <1>1, FrameFacts
<1> HIDE DEF r
<1>5. /\ sent' \in Seq(Response) /\ Len(sent') = n + 1 /\ sent'[n + 1] = r
      /\ DOMAIN sent' = 1..(n + 1) /\ \A i \in 1..n : sent'[i] = sent[i]
  BY <1>1, <1>2 DEF Inv, TypeOK
<1>6. TypeOK'
  <2>1. \A i \in 1..Len(sent') : sent'[i].start <= Len(stream')
    BY <1>1, <1>2, <1>5 DEF Inv, TypeOK
  <2> QED
    BY <1>2, <1>3, <1>4, <1>5, <2>1 DEF Inv, TypeOK
<1>7. BeingSent'
  <2>1. sent' # <<>>
    BY <1>1, <1>5
  <2> QED
    BY <1>1, <1>2, <1>3, <1>5, <2>1 DEF BeingSent
<1>8. StreamFollows'
  <2>1. sent' # <<>> /\ sent'[1].start = 0
    <3>0. sent' # <<>>
      BY <1>1, <1>5
    <3>1. CASE sent = <<>>
      <4>1. n = 0 /\ stream = <<>>
        BY <3>1 DEF Inv, StreamFollows
      <4>2. Len(stream) = 0
        BY <4>1
      <4>3. sent'[1] = r
        BY <1>5, <4>1
      <4> QED
        BY <1>1, <3>0, <4>2, <4>3
    <3>2. CASE sent # <<>>
      <4>1. 1 \in 1..n
        BY <1>1, <3>2 DEF Inv, TypeOK
      <4> QED
        BY <1>1, <1>5, <3>0, <3>2, <4>1 DEF Inv, StreamFollows
    <3> QED
      BY <3>1, <3>2
  <2>2. ASSUME NEW i \in 1..(n + 1), Uncut(i)' PROVE Follows(i)'
    <3>1. CASE i = n + 1
      <4>1. Len(Frame(r)) \in Nat
        BY <1>1, FrameFacts
      <4> QED
        BY <1>1, <1>2, <1>5, <3>1, <4>1 DEF Follows
    <3>2. CASE i # n + 1
      <4>1. i \in 1..n /\ Uncut(i)
        BY <1>1, <1>2, <2>2, <3>2 DEF Uncut
      <4>2. Follows(i)
        BY <4>1 DEF Inv, StreamFollows
      <4>3. sent'[i] = sent[i] /\ (i < n => sent'[i + 1] = sent[i + 1])
        BY <1>1, <1>5, <4>1
      <4>4. i = n => sent'[i + 1].start = Len(stream)
        BY <1>1, <1>5
      <4> QED
        BY <1>1, <1>2, <1>5, <4>1, <4>2, <4>3, <4>4 DEF Follows
    <3> QED
      BY <3>1, <3>2
  <2> QED
    BY <1>5, <2>1, <2>2 DEF StreamFollows
<1>9. ClientFollows' /\ AsMeant'
  <2>1. Len(sent') \in Nat /\ Len(sent) <= Len(sent') /\ DOMAIN sent' = 1..Len(sent')
    BY <1>1, <1>5
  <2> QED
    BY <1>1, <1>2, <1>5, <2>1, ClientIsUndisturbed DEF clientVars
<1> QED
  BY <1>6, <1>7, <1>8, <1>9 DEF Inv

LEMMA SentFacts ==
  ASSUME TypeOK, NEW i \in 1..Len(sent)
  PROVE  sent[i] \in Response /\ sent[i].start \in Nat /\ sent[i].start <= Len(stream)
<1>1. sent[i] \in Response /\ sent[i].start <= Len(stream)
  BY DEF TypeOK
<1> QED
  BY <1>1 DEF Response

(* send() appends all or a part; what it leaves out is a cut.              *)
LEMMA SendFacts ==
  ASSUME TypeOK, sent # <<>>, NEW text \in Seq(Token), Send(text)
  PROVE  /\ stream' \in Seq(Token) /\ Len(stream) <= Len(stream') /\ cut' \in 0..Len(sent)
         /\ cut' = cut \/ cut = 0
         /\ \A p \in 1..Len(stream) : stream'[p] = stream[p]
         /\ cut' = 0 =>
              /\ Len(stream') = Len(stream) + Len(text)
              /\ \A p \in 1..Len(text) : stream'[Len(stream) + p] = text[p]
<1>1. /\ stream \in Seq(Token) /\ Len(stream) \in Nat /\ cut \in 0..Len(sent)
      /\ Len(sent) \in Nat \ {0} /\ Len(text) \in Nat
  BY DEF TypeOK
<1>2. CASE stream' = stream \o text /\ UNCHANGED cut
  <2>1. /\ stream \o text \in Seq(Token) /\ Len(stream \o text) = Len(stream) + Len(text)
        /\ \A p \in 1..Len(stream) : (stream \o text)[p] = stream[p]
    BY <1>1, ConcatFacts
  <2>2. \A p \in 1..Len(text) : (stream \o text)[Len(stream) + p] = text[p]
    BY <1>1, ConcatFacts
  <2> QED
    BY <1>1, <1>2, <2>1, <2>2
<1>3. CASE \E n \in Partial : /\ n < Len(text) /\ stream' = stream \o SubSeq(text, 1, n)
                              /\ cut' = IF cut = 0 THEN Len(sent) ELSE cut
  <2>1. PICK n \in Partial : /\ n < Len(text) /\ stream' = stream \o SubSeq(text, 1, n)
                             /\ cut' = IF cut = 0 THEN Len(sent) ELSE cut
    BY <1>3
  <2>2. n \in 0..Len(text)
    BY <1>1, <2>1
  <2> DEFINE part == SubSeq(text, 1, n)
  <2>3. part \in Seq(Token)
    BY <1>1, <2>2
  <2> HIDE DEF part
  <2>4. /\ stream \o part \in Seq(Token) /\ Len(stream \o part) = Len(stream) + Len(part)
        /\ \A p \in 1..Len(stream) : (stream \o part)[p] = stream[p] /\ Len(part) \in Nat
    BY <1>1, <2>3, ConcatFacts
  <2>5. stream' = stream \o part
    BY <2>1 DEF part
  <2>6. Len(part) \in Nat
    BY <2>3
  <2>7. Len(stream) <= Len(stream \o part)
    BY <1>1, <2>4, <2>6
  <2>8. cut' # 0 /\ cut' \in 0..Len(sent) /\ (cut' = cut \/ cut = 0)
    BY <1>1, <2>1
  <2> QED
    BY <2>4, <2>5, <2>7, <2>8
<1> QED
  BY <1>2, <1>3 DEF Send

(* What a send writes when it cuts nothing continues the last response.    *)
LEMMA SendKeepsStreamFollows ==
  ASSUME Inv, sent # <<>>, NEW text \in Seq(Token), NEW off \in Nat, Send(text), sent' = sent,
         Follows(Len(sent)) => Len(stream) = sent[Len(sent)].start + off,
         \A p \in 1..Len(text) : Frame(sent[Len(sent)])[off + p] = text[p],
         off + Len(text) = CASE pc' = "build" -> Len(Frame(sent[Len(sent)]))
                             [] pc' = "head" -> 0
                             [] pc' = "content" -> Len(HeadText(sent[Len(sent)]))
  PROVE  StreamFollows'
<1> DEFINE n == Len(sent)
<1>1. n \in Nat \ {0} /\ stream \in Seq(Token) /\ Len(stream) \in Nat /\ Len(text) \in Nat
      /\ \A i \in 1..n : sent[i] \in Response /\ sent[i].start \in Nat /\ sent[i].start <= Len(stream)
  BY SentFacts DEF Inv, TypeOK
<1>2. /\ stream' \in Seq(Token) /\ Len(stream) <= Len(stream') /\ cut' \in 0..n
      /\ cut' = cut \/ cut = 0
      /\ \A p \in 1..Len(stream) : stream'[p] = stream[p]
      /\ cut' = 0 =>
           /\ Len(stream') = Len(stream) + Len(text)
           /\ \A p \in 1..Len(text) : stream'[Len(stream) + p] = text[p]
  BY SendFacts DEF Inv
<1>3. Len(stream') \in Nat
  BY <1>2
<1>4. ASSUME NEW i \in 1..n, Uncut(i)' PROVE Follows(i)'
  <2> DEFINE r == sent[i]
  <2>1. Follows(i) /\ r \in Response /\ r.start \in Nat
    BY <1>1, <1>2, <1>4 DEF Uncut, Inv, StreamFollows
  <2>2. Frame(r) \in Seq(Token) /\ Len(Frame(r)) \in Nat
    BY <2>1, FrameFacts
  <2>3. /\ \A p \in 1..Len(Frame(r)) : r.start + p <= Len(stream) => stream[r.start + p] = Frame(r)[p]
        /\ i < n => sent[i + 1].start = r.start + Len(Frame(r))
    BY <2>1 DEF Follows
  <2>4. CASE i < n
    <3>1. r.start + Len(Frame(r)) <= Len(stream)
      <4>1. i + 1 \in 1..n
        BY <1>1, <2>4
      <4>2. sent[i + 1].start <= Len(stream)
        BY <1>1, <4>1
      <4> QED
        BY <2>3, <2>4, <4>2
    <3>2. ASSUME NEW p \in 1..Len(Frame(r)) PROVE stream'[r.start + p] = Frame(r)[p]
      <4>1. r.start + p \in 1..Len(stream) /\ r.start + p <= Len(stream)
        BY <1>1, <2>1, <2>2, <3>1
      <4>2. \A q \in 1..Len(stream) : stream'[q] = stream[q]
        BY <1>2
      <4>3. stream[r.start + p] = Frame(r)[p]
        BY <2>3, <4>1
      <4> HIDE DEF r
      <4> QED
        BY <4>1, <4>2, <4>3
    <3> QED
      BY <1>1, <2>3, <2>4, <3>2 DEF Follows
  <2>5. CASE i = n
    <3>1. cut' = 0
      BY <1>1, <1>2, <1>4, <2>5 DEF Uncut
    <3>2. Len(stream) = r.start + off
      BY <2>1, <2>5
    <3>3. /\ \A p \in 1..Len(text) : stream'[r.start + (off + p)] = Frame(r)[off + p]
          /\ Len(stream') = r.start + (off + Len(text))
      <4>1. /\ Len(stream') = Len(stream) + Len(text)
            /\ \A p \in 1..Len(text) : stream'[Len(stream) + p] = text[p]
        BY <1>2, <3>1
      <4>2. \A p \in 1..Len(text) : text[p] = Frame(r)[off + p]
        BY <2>5
      <4>3. ASSUME NEW p \in 1..Len(text) PROVE stream'[r.start + (off + p)] = Frame(r)[off + p]
        <5>1. p \in Nat /\ Len(stream) + p = r.start + (off + p)
          BY <1>1, <2>1, <3>2
        <5>2. stream'[Len(stream) + p] = Frame(r)[off + p]
          BY <4>1, <4>2
        <5> QED
          BY <5>1, <5>2
      <4> QED
        BY <1>1, <2>1, <3>2, <4>1, <4>3
    <3>4. ASSUME NEW p \in 1..Len(Frame(r)), r.start + p <= Len(stream')
          PROVE  stream'[r.start + p] = Frame(r)[p]
      <4>1. CASE p <= off
        <5>1. r.start + p \in 1..Len(stream) /\ r.start + p <= Len(stream)
          BY <2>1, <2>2, <3>2, <4>1
        <5>2. \A k \in 1..Len(stream) : stream'[k] = stream[k]
          BY <1>2
        <5>3. stream[r.start + p] = Frame(r)[p]
          BY <2>3, <5>1
        <5> HIDE DEF r
        <5> QED
          BY <5>1, <5>2, <5>3
      <4>2. CASE p > off
        <5> DEFINE q == p - off
        <5>1. q \in 1..Len(text) /\ p = off + q
          <6>1. p \in Nat /\ r.start \in Nat /\ Len(text) \in Nat
            BY <1>1, <2>1, <2>2
          <6>2. r.start + p <= r.start + (off + Len(text))
            BY <3>3, <3>4
          <6> HIDE DEF r
          <6> QED
            BY <4>2, <6>1, <6>2
        <5> HIDE DEF q
        <5>2. stream'[r.start + (off + q)] = Frame(r)[off + q]
          BY <3>3, <5>1
        <5> QED
          BY <5>1, <5>2
      <4> QED
        BY <2>2, <4>1, <4>2
    <3>5. Len(stream') = r.start + (CASE pc' = "build" -> Len(Frame(r))
                                      [] pc' = "head" -> 0
                                      [] pc' = "content" -> Len(HeadText(r)))
      BY <2>5, <3>3
    <3>6. sent' = sent /\ ~(i < Len(sent))
      BY <1>1, <2>5
    <3> QED
      BY <2>5, <3>4, <3>5, <3>6 DEF Follows
  <2> QED
    BY <1>1, <2>4, <2>5
<1>5. sent # <<>> /\ sent[1].start = 0
  BY DEF Inv, StreamFollows
<1> QED
  BY <1>4, <1>5 DEF StreamFollows

(* A send changes nothing else that has a type.                            *)
LEMMA SendKeepsTypes ==
  ASSUME TypeOK, sent # <<>>, NEW text \in Seq(Token), Send(text), sent' = sent,
         headers_' \in Headers, content' \in Contents, pc' \in {"build", "head", "content"},
         UNCHANGED clientVars
  PROVE  TypeOK'
<1>1. stream' \in Seq(Token) /\ Len(stream) <= Len(stream') /\ cut' \in 0..Len(sent)
  BY SendFacts
<1>2. Len(stream) \in Nat /\ Len(stream') \in Nat
  BY <1>1 DEF TypeOK
<1>3. \A i \in 1..Len(sent') : sent'[i].start <= Len(stream')
  <2> SUFFICES ASSUME NEW i \in 1..Len(sent) PROVE sent[i].start <= Len(stream')
    OBVIOUS
  <2>1. sent[i].start \in Nat /\ sent[i].start <= Len(stream)
    BY SentFacts
  <2> QED
    BY <1>1, <1>2, <2>1
<1>4. arrived' \in 0..Len(stream')
  BY <1>1, <1>2 DEF TypeOK, clientVars
<1> QED
  BY <1>1, <1>3, <1>4 DEF TypeOK, clientVars

LEMMA SendHeadKeepsInv ==
  ASSUME Inv, SendHead
  PROVE  Inv'
<1> DEFINE n == Len(sent)
           r == sent[n]
           text == HeadOf(headers_)
<1>1. /\ pc = "head" /\ pc' = "content" /\ Send(text) /\ sent' = sent
      /\ headers_' = headers_ /\ content' = content /\ UNCHANGED clientVars
  BY DEF SendHead
<1>2. sent # <<>> /\ headers_ = FinalHeaders(r) /\ content = r.content
  BY <1>1 DEF Inv, BeingSent
<1>3. n \in Nat \ {0} /\ r \in Response /\ DOMAIN sent = 1..n
  BY <1>2 DEF Inv, TypeOK
<1>4. /\ text \in Seq(Token) /\ Len(text) \in Nat /\ Len(text) = Len(HeadText(r))
      /\ \A p \in 1..Len(text) : Frame(r)[p] = text[p]
  <2>1. text = HeadText(r)
    BY <1>2 DEF HeadText
  <2> QED
    BY <1>3, <2>1, FrameFacts
<1>5. Follows(n) => Len(stream) = r.start + 0
  BY <1>1, <1>3 DEF Follows
<1> HIDE DEF text
<1>6. StreamFollows'
  <2>1. \A p \in 1..Len(text) : Frame(r)[0 + p] = text[p]
    BY <1>4
  <2>2. 0 + Len(text) = CASE pc' = "build" -> Len(Frame(r))
                          [] pc' = "head" -> 0
                          [] pc' = "content" -> Len(HeadText(r))
    BY <1>1, <1>4
  <2> QED
    BY <1>1, <1>2, <1>4, <1>5, <2>1, <2>2, SendKeepsStreamFollows
<1>7. TypeOK'
  <2>1. TypeOK /\ headers_' \in Headers /\ content' \in Contents
    BY <1>1 DEF Inv, TypeOK
  <2> QED
    BY <1>1, <1>2, <1>4, <2>1, SendKeepsTypes
<1>8. BeingSent'
  BY <1>1, <1>2 DEF BeingSent
<1>9. ClientFollows' /\ AsMeant'
  <2>1. cut' = cut \/ cut = 0
    BY <1>1 DEF Send
  <2> QED
    BY <1>1, <1>3, <2>1, ClientIsUndisturbed
<1> QED
  BY <1>6, <1>7, <1>8, <1>9 DEF Inv

LEMMA SendContentKeepsInv ==
  ASSUME Inv, SendContent
  PROVE  Inv'
<1> DEFINE n == Len(sent)
           r == sent[n]
           off == Len(HeadText(r))
<1>1. /\ pc = "content" /\ pc' = "build" /\ Send(content) /\ sent' = sent
      /\ headers_' = NoHeaders /\ content' = <<>> /\ UNCHANGED clientVars
  BY DEF SendContent
<1>2. sent # <<>> /\ content = r.content
  BY <1>1 DEF Inv, BeingSent
<1>3. n \in Nat \ {0} /\ r \in Response /\ content \in Seq(Token) /\ DOMAIN sent = 1..n
  BY <1>2 DEF Inv, TypeOK, Contents
<1>5. Follows(n) => Len(stream) = r.start + off
  BY <1>1, <1>3 DEF Follows
<1>6. /\ off \in Nat /\ off + Len(content) = Len(Frame(r))
      /\ \A p \in 1..Len(content) : Frame(r)[off + p] = content[p]
  BY <1>2, <1>3, FrameFacts
<1> HIDE DEF off
<1>7. StreamFollows'
  <2>1. off + Len(content) = CASE pc' = "build" -> Len(Frame(r))
                               [] pc' = "head" -> 0
                               [] pc' = "content" -> Len(HeadText(r))
    BY <1>1, <1>6
  <2> QED
    BY <1>1, <1>2, <1>3, <1>5, <1>6, <2>1, SendKeepsStreamFollows
<1>8. TypeOK'
  <2>1. TypeOK /\ headers_' \in Headers
    BY <1>1, NoHeadersFacts DEF Inv
  <2>2. content' \in Contents
    BY <1>1 DEF Contents
  <2> QED
    BY <1>1, <1>2, <1>3, <2>1, <2>2, SendKeepsTypes
<1>9. BeingSent'
  BY <1>1 DEF BeingSent
<1>10. ClientFollows' /\ AsMeant'
  <2>1. cut' = cut \/ cut = 0
    BY <1>1 DEF Send
  <2> QED
    BY <1>1, <1>3, <2>1, ClientIsUndisturbed
<1> QED
  BY <1>7, <1>8, <1>9, <1>10 DEF Inv

-----------------------------------------------------------------------------
(* The client finds the lines of a response that is plain.                 *)

LEMMA SubSeqOfTwo ==
  ASSUME NEW T, NEW s \in Seq(T), NEW a \in 1..(Len(s) - 1)
  PROVE  SubSeq(s, a, a + 1) = <<s[a], s[a + 1]>>
<1> DEFINE t == SubSeq(s, a, a + 1)
           u == <<s[a], s[a + 1]>>
<1>1. a \in 1..(Len(s) + 1) /\ a + 1 \in (a - 1)..Len(s) /\ s[a] \in T /\ s[a + 1] \in T
  OBVIOUS
<1>2. t \in Seq(T) /\ Len(t) = 2 /\ t[1] = s[a] /\ t[2] = s[a + 1]
  <2>1. /\ t \in Seq(T) /\ Len(t) = (a + 1) - a + 1
        /\ \A i \in 1..((a + 1) - a + 1) : t[i] = s[a + i - 1]
    BY <1>1, SubSeqFacts
  <2>2. (a + 1) - a + 1 = 2 /\ a + 1 - 1 = a /\ a + 2 - 1 = a + 1 /\ 1 \in 1..2 /\ 2 \in 1..2
    OBVIOUS
  <2> HIDE DEF t
  <2> QED
    BY <2>1, <2>2
<1>3. u \in Seq(T) /\ Len(u) = 2 /\ u[1] = s[a] /\ u[2] = s[a + 1]
  BY <1>1, TwoElements
<1> HIDE DEF t, u
<1>4. \A i \in 1..Len(t) : t[i] = u[i]
  BY <1>2, <1>3
<1>5. t = u
  BY <1>2, <1>3, <1>4, SameSequence
<1> QED
  BY <1>5 DEF t, u

LEMMA EndFacts == CR # LF /\ CR # ":" /\ Len(End) = 2 /\ End[1] = CR /\ End[2] = LF
BY DEF End, CR, LF

(* An end of a line in a string is a CR and an LF after it.                *)
LEMMA EndPair ==
  ASSUME NEW s \in Seq(Token), NEW a \in 1..(Len(s) - 1)
  PROVE  (SubSeq(s, a, a + 1) = End) <=> (s[a] = CR /\ s[a + 1] = LF)
<1> DEFINE t == SubSeq(s, a, a + 1)
           x == s[a]
           y == s[a + 1]
<1>1. t = <<x, y>>
  BY SubSeqOfTwo
<1>2. End = <<CR, LF>>
  BY DEF End
<1> HIDE DEF t, x, y
<1>3. (t = End) <=> (x = CR /\ y = LF)
  BY <1>1, <1>2
<1> QED
  BY <1>3 DEF t, x, y

HasNoEnd(s) == \A p \in 1..(Len(s) - 1) : ~(s[p] = CR /\ s[p + 1] = LF)

LEMMA LineHasNoEnd ==
  ASSUME NEW r \in Response, InLines(r.headers), NEW k \in DOMAIN FinalHeaders(r)
  PROVE  HasNoEnd(HeaderLine(FinalHeaders(r), k))
<1> DEFINE v == Join(FinalHeaders(r)[k])
           s == <<k, ":">> \o v
<1>1. r.headers \in Headers /\ Len(r.content) \in 0..MaxContent
  BY FrameFacts
<1>2. /\ FinalHeaders(r) \in Headers /\ DOMAIN FinalHeaders(r) = DOMAIN r.headers \cup {Length}
      /\ \A l \in DOMAIN r.headers \ {Length} : FinalHeaders(r)[l] = r.headers[l]
      /\ Join(FinalHeaders(r)[Length]) = Decimal(Len(r.content))
  BY <1>1, FinalFacts DEF FinalHeaders
<1>3. v \in Seq(Token) /\ Len(v) \in Nat /\ k \in Keys
  BY <1>2, HeadersFacts
<1>4. k \in Token \ ({":"} \cup Whitespace)
  BY <1>3, NamesFacts
<1>5. ASSUME NEW p \in 1..(Len(v) - 1) PROVE ~(v[p] = CR /\ v[p + 1] = LF)
  <2>1. CASE k = Length
    <3>1. Len(v) = 1
      BY <1>2, <2>1, Singleton DEF Decimal
    <3> QED
      BY <3>1
  <2>2. CASE k # Length
    <3>1. k \in DOMAIN r.headers \ {Length} /\ v = Join(r.headers[k])
      BY <1>2, <2>2
    <3>2. p - 1 \in Positions(v)
      BY <1>3 DEF Positions
    <3>3. ~At(v, End, p - 1)
      BY <3>1, <3>2 DEF InLines
    <3> HIDE DEF v
    <3>4. (p - 1) + Len(End) <= Len(v) /\ (p - 1) + 1 = p /\ (p - 1) + Len(End) = p + 1
      BY <1>3, EndFacts
    <3>5. SubSeq(v, p, p + 1) # End
      BY <3>3, <3>4 DEF At
    <3> QED
      BY <1>3, <3>5, EndPair
  <2> QED
    BY <2>1, <2>2
<1>6. HeaderLine(FinalHeaders(r), k) = s
  BY DEF HeaderLine
<1>7. /\ Len(s) = 2 + Len(v) /\ s[1] = k /\ s[2] = ":"
      /\ \A i \in 1..Len(v) : s[2 + i] = v[i]
  BY <1>3, <1>4, LineFacts
<1>8. s[1] # CR /\ s[2] # CR
  BY <1>4, <1>7, EndFacts DEF Whitespace
<1> HIDE DEF s, v
<1>9. ASSUME NEW p \in 1..(Len(s) - 1), s[p] = CR, s[p + 1] = LF PROVE FALSE
  <2>1. p # 1 /\ p # 2
    BY <1>8, <1>9
  <2> DEFINE q == p - 2
  <2>2. q \in 1..(Len(v) - 1) /\ p = 2 + q /\ p + 1 = 2 + (q + 1) /\ q \in 1..Len(v) /\ q + 1 \in 1..Len(v)
    BY <1>3, <1>7, <2>1
  <2> HIDE DEF q
  <2>3. v[q] = CR /\ v[q + 1] = LF
    BY <1>7, <1>9, <2>2
  <2> QED
    BY <1>5, <2>2, <2>3
<1> QED
  BY <1>6, <1>9 DEF HasNoEnd

(* Where the lines of a response are, the end of each with it.             *)
LEMMA PlaceFacts ==
  ASSUME NEW r \in Response
  PROVE  LET n == Len(KeysOf(r))
             lines == Lines(FinalHeaders(r))
         IN  /\ n \in Nat /\ Len(lines) = n + 2 /\ lines \in Seq(Texts)
             /\ lines[1] = StatusLine /\ lines[n + 2] = EmptyLine
             /\ \A l \in 1..n : /\ KeysOf(r)[l] \in DOMAIN FinalHeaders(r)
                                /\ lines[1 + l] = HeaderLine(FinalHeaders(r), KeysOf(r)[l])
             /\ Place(r, 0) = 0 /\ Place(r, n + 2) = Len(HeadText(r))
             /\ \A k \in 0..(n + 2) : Place(r, k) \in Nat
             /\ \A k \in 1..(n + 2) :
                  /\ Place(r, k) = Place(r, k - 1) + Len(lines[k]) + 2
                  /\ Place(r, k) <= Len(HeadText(r))
                  /\ \A j \in 1..Len(lines[k]) : HeadText(r)[Place(r, k - 1) + j] = lines[k][j]
                  /\ HeadText(r)[Place(r, k - 1) + Len(lines[k]) + 1] = CR
                  /\ HeadText(r)[Place(r, k - 1) + Len(lines[k]) + 2] = LF
<1> DEFINE h == FinalHeaders(r)
           n == Len(KeysOf(r))
           lines == Lines(h)
<1>1. h \in Headers
  BY FrameFacts
<1>2. n \in Nat /\ DOMAIN h = {KeysOf(r)[l] : l \in 1..n}
  BY KeysOfFacts
<1>3. /\ lines \in Seq(Texts) /\ Len(lines) = n + 2
      /\ lines[1] = StatusLine /\ lines[n + 2] = EmptyLine
      /\ \A l \in 1..n : lines[1 + l] = HeaderLine(h, KeysOf(r)[l])
  BY <1>1, LinesFacts DEF KeysOf
<1>4. IsLayout(Places(h), h)
  BY <1>1, PlacesFacts
<1>5. \A k : Place(r, k) = Places(h)[k]
  BY DEF Place
<1>6. HeadText(r) = HeadOf(h)
  BY DEF HeadText
<1> HIDE DEF h
<1>7. /\ Places(h) \in [0..(n + 2) -> Nat] /\ Places(h)[0] = 0 /\ Len(HeadText(r)) = Places(h)[n + 2]
      /\ \A k \in 1..(n + 2) :
           /\ Places(h)[k] = Places(h)[k - 1] + Len(lines[k]) + 2 /\ Places(h)[k] <= Len(HeadText(r))
           /\ \A j \in 1..Len(lines[k]) : HeadText(r)[Places(h)[k - 1] + j] = lines[k][j]
           /\ HeadText(r)[Places(h)[k - 1] + Len(lines[k]) + 1] = CR
           /\ HeadText(r)[Places(h)[k - 1] + Len(lines[k]) + 2] = LF
  BY <1>3, <1>4, <1>6 DEF IsLayout
<1>8. \A l \in 1..n : KeysOf(r)[l] \in DOMAIN h
  BY <1>2
<1> HIDE DEF lines, n
<1>9. \A k \in 0..(n + 2) : Place(r, k) \in Nat
  BY <1>5, <1>7
<1>10. Place(r, 0) = 0 /\ Place(r, n + 2) = Len(HeadText(r))
  BY <1>2, <1>5, <1>7
<1>11. \A k \in 1..(n + 2) :
         /\ Place(r, k) = Place(r, k - 1) + Len(lines[k]) + 2 /\ Place(r, k) <= Len(HeadText(r))
         /\ \A j \in 1..Len(lines[k]) : HeadText(r)[Place(r, k - 1) + j] = lines[k][j]
         /\ HeadText(r)[Place(r, k - 1) + Len(lines[k]) + 1] = CR
         /\ HeadText(r)[Place(r, k - 1) + Len(lines[k]) + 2] = LF
  BY <1>5, <1>7, Zenon
<1> QED
  BY <1>2, <1>3, <1>8, <1>9, <1>10, <1>11 DEF h, lines, n

LEMMA LinesHaveNoEnd ==
  ASSUME NEW r \in Response, InLines(r.headers), NEW k \in 1..(Len(KeysOf(r)) + 2)
  PROVE  HasNoEnd(Lines(FinalHeaders(r))[k])
<1> DEFINE n == Len(KeysOf(r))
           lines == Lines(FinalHeaders(r))
<1>1. /\ n \in Nat /\ lines[1] = StatusLine /\ lines[n + 2] = EmptyLine
      /\ \A l \in 1..n : /\ KeysOf(r)[l] \in DOMAIN FinalHeaders(r)
                         /\ lines[1 + l] = HeaderLine(FinalHeaders(r), KeysOf(r)[l])
  BY PlaceFacts
<1> HIDE DEF n, lines
<1>2. k \in 1..(n + 2)
  BY DEF n
<1>3. CASE k = 1
  <2>1. Len(StatusLine) = 1
    BY SomeTokens, Singleton DEF StatusLine
  <2> QED
    BY <1>1, <1>3, <2>1 DEF HasNoEnd, lines
<1>4. CASE k = n + 2
  <2>1. Len(EmptyLine) = 0
    BY DEF EmptyLine
  <2> QED
    BY <1>1, <1>4, <2>1 DEF HasNoEnd, lines
<1>5. CASE k # 1 /\ k # n + 2
  <2>1. k - 1 \in 1..n /\ 1 + (k - 1) = k
    BY <1>1, <1>2, <1>5
  <2>2. lines[k] = HeaderLine(FinalHeaders(r), KeysOf(r)[k - 1]) /\ KeysOf(r)[k - 1] \in DOMAIN FinalHeaders(r)
    BY <1>1, <2>1
  <2> QED
    BY <2>2, LineHasNoEnd DEF lines
<1> QED
  BY <1>3, <1>4, <1>5

LEMMA LineEndFacts ==
  ASSUME Inv
  PROVE  /\ LineEnds \subseteq Nat
         /\ \A e \in Nat : (e \in LineEnds) <=>
              (arrived <= e /\ e <= Len(stream) - 2 /\ stream[e + 1] = CR /\ stream[e + 2] = LF)
<1>1. arrived \in Nat /\ stream \in Seq(Token) /\ Len(stream) \in Nat
  BY DEF Inv, TypeOK
<1>2. ASSUME NEW e \in Nat, e <= Len(stream) - 2
      PROVE  (SubSeq(stream, e + 1, e + 2) = End) <=> (stream[e + 1] = CR /\ stream[e + 2] = LF)
  <2>1. e + 1 \in 1..(Len(stream) - 1) /\ (e + 1) + 1 = e + 2
    BY <1>1, <1>2
  <2> QED
    BY <1>1, <2>1, EndPair
<1> QED
  BY <1>1, <1>2 DEF LineEnds

(* A response that is plain follows those before it.                       *)
LEMMA PlainFacts ==
  ASSUME Inv, NEW i \in 1..Len(sent), Plain(i)
  PROVE  Uncut(i) /\ Follows(i) /\ InLines(sent[i].headers)
<1>1. i \in DOMAIN sent /\ i <= i
  BY DEF Inv, TypeOK
<1> QED
  BY <1>1 DEF Plain, Uncut, Inv, StreamFollows

(* The first end of a line after a place where a head has a line is the    *)
(* one of that line.                                                       *)
HasLine(head, d, line) ==
  /\ d + Len(line) + 2 <= Len(head)
  /\ \A j \in 1..Len(line) : head[d + j] = line[j]
  /\ head[d + Len(line) + 1] = CR /\ head[d + Len(line) + 2] = LF

IsAt(head, s, start) == \A p \in 1..Len(head) : start + p <= Len(s) => s[start + p] = head[p]

AreEnds(ends, s, from) ==
  /\ ends \subseteq Nat
  /\ \A e \in Nat : (e \in ends) <=>
       (from <= e /\ e <= Len(s) - 2 /\ s[e + 1] = CR /\ s[e + 2] = LF)

LEMMA FirstEnd ==
  ASSUME NEW s \in Seq(Token), NEW start \in Nat, NEW head \in Seq(Token), NEW d \in Nat,
         NEW line \in Seq(Token), HasNoEnd(line), HasLine(head, d, line), IsAt(head, s, start),
         NEW ends, AreEnds(ends, s, start + d), ends # {}
  PROVE  Min(ends) = start + d + Len(line) /\ SubSeq(s, start + d + 1, Min(ends)) = line
<1> DEFINE c == Len(line)
           a == start + d
           e == Min(ends)
<1>1. c \in Nat /\ a \in Nat /\ Len(s) \in Nat /\ Len(head) \in Nat
  OBVIOUS
<1>2. ASSUME NEW q \in 1..(c + 2), a + q <= Len(s) PROVE s[a + q] = head[d + q]
  <2>1. d + q \in 1..Len(head) /\ start + (d + q) = a + q
    BY <1>1 DEF HasLine
  <2> QED
    BY <1>2, <2>1 DEF IsAt
<1>3. e \in ends /\ \A x \in ends : e <= x
  BY FiniteMin DEF AreEnds
<1>4. e \in Nat /\ a <= e /\ e <= Len(s) - 2 /\ s[e + 1] = CR /\ s[e + 2] = LF
  BY <1>3 DEF AreEnds
<1>5. \A j \in 1..c : head[d + j] = line[j]
  BY DEF HasLine
<1>6. head[d + (c + 1)] = CR /\ head[d + (c + 2)] = LF
  <2>1. d + c + 1 = d + (c + 1) /\ d + c + 2 = d + (c + 2)
    BY <1>1
  <2> QED
    BY <2>1 DEF HasLine
<1>7. \A x \in Nat : (a <= x /\ x <= Len(s) - 2 /\ s[x + 1] = CR /\ s[x + 2] = LF) => x \in ends
  BY DEF AreEnds
<1>14. \A p \in 1..(c - 1) : ~(line[p] = CR /\ line[p + 1] = LF)
  BY DEF HasNoEnd
<1> HIDE DEF a, e, c
<1>8. e >= a + c
  <2> SUFFICES ASSUME e < a + c PROVE FALSE
    BY <1>1, <1>4
  <2> DEFINE q == e - a + 1
  <2>1. q \in 1..c /\ a + q = e + 1 /\ a + (q + 1) = e + 2 /\ q \in Nat
    BY <1>1, <1>4
  <2> HIDE DEF q
  <2>2. line[q] = CR
    <3>1. q \in 1..(c + 2) /\ a + q <= Len(s)
      BY <1>1, <1>4, <2>1
    <3>2. s[a + q] = head[d + q]
      BY <1>2, <3>1
    <3> QED
      BY <1>4, <1>5, <2>1, <3>2
  <2>3. s[a + (q + 1)] = head[d + (q + 1)] /\ s[a + (q + 1)] = LF
    <3>1. q + 1 \in 1..(c + 2) /\ a + (q + 1) <= Len(s)
      BY <1>1, <1>4, <2>1
    <3>2. s[a + (q + 1)] = head[d + (q + 1)]
      BY <1>2, <3>1
    <3> QED
      BY <1>4, <2>1, <3>2
  <2>4. CASE q = c
    BY <1>6, <2>3, <2>4, EndFacts
  <2>5. CASE q # c
    <3>1. q + 1 \in 1..c /\ q \in 1..(c - 1)
      BY <1>1, <2>1, <2>5
    <3>2. line[q + 1] = LF
      BY <1>5, <2>3, <3>1
    <3> QED
      BY <1>14, <2>2, <3>1, <3>2
  <2> QED
    BY <2>4, <2>5
<1>9. a + c \in ends
  <2>1. /\ a + c \in Nat /\ a <= a + c /\ a + c <= Len(s) - 2
        /\ (a + c) + 1 = a + (c + 1) /\ (a + c) + 2 = a + (c + 2)
        /\ c + 1 \in 1..(c + 2) /\ c + 2 \in 1..(c + 2)
        /\ a + (c + 1) <= Len(s) /\ a + (c + 2) <= Len(s)
    <3>1. a + c <= Len(s) - 2
      BY <1>1, <1>4, <1>8
    <3> QED
      BY <1>1, <3>1
  <2>2. s[(a + c) + 1] = CR
    <3>1. s[a + (c + 1)] = head[d + (c + 1)]
      BY <1>2, <2>1
    <3> QED
      BY <1>6, <2>1, <3>1
  <2>3. s[(a + c) + 2] = LF
    <3>1. s[a + (c + 2)] = head[d + (c + 2)]
      BY <1>2, <2>1
    <3> QED
      BY <1>6, <2>1, <3>1
  <2> QED
    BY <1>7, <2>1, <2>2, <2>3
<1>10. e = a + c
  BY <1>1, <1>3, <1>4, <1>8, <1>9
<1>11. SubSeq(s, a + 1, e) = line
  <2> DEFINE t == SubSeq(s, a + 1, e)
  <2>1. a + 1 \in 1..(Len(s) + 1) /\ e \in ((a + 1) - 1)..Len(s) /\ e - (a + 1) + 1 = c
    BY <1>1, <1>4, <1>10
  <2>2. t \in Seq(Token) /\ Len(t) = c /\ \A j \in 1..c : t[j] = s[(a + 1) + j - 1]
    BY <2>1, SubSeqFacts
  <2> HIDE DEF t
  <2>3. ASSUME NEW j \in 1..c PROVE t[j] = line[j]
    <3>1. (a + 1) + j - 1 = a + j /\ a + j <= Len(s) /\ j \in 1..(c + 2)
      BY <1>1, <1>4, <1>10
    <3>2. s[a + j] = head[d + j]
      BY <1>2, <3>1
    <3> QED
      BY <1>5, <2>2, <3>1, <3>2
  <2>4. Len(line) = c
    BY DEF c
  <2>5. t = line
    BY <2>2, <2>3, <2>4, SameSequence
  <2> QED
    BY <2>5 DEF t
<1> QED
  BY <1>10, <1>11 DEF a, c, e

(* The next line that ends is the line that the response has there.        *)
LEMMA LineIsOfFrame ==
  ASSUME Inv, LineEnds # {}, NEW i \in 1..Len(sent), Plain(i),
         NEW m \in 1..(Len(KeysOf(sent[i])) + 2), arrived = sent[i].start + Place(sent[i], m - 1)
  PROVE  /\ Line = Lines(FinalHeaders(sent[i]))[m]
         /\ Min(LineEnds) + 2 = sent[i].start + Place(sent[i], m)
<1> DEFINE r == sent[i]
           line == Lines(FinalHeaders(r))[m]
           head == HeadText(r)
           d == Place(r, m - 1)
           start == r.start
           ends == LineEnds
<1>1. stream \in Seq(Token) /\ r \in Response /\ start \in Nat
  BY SentFacts DEF Inv, TypeOK
<1>2. m - 1 \in 0..(Len(KeysOf(r)) + 2) /\ Len(KeysOf(r)) \in Nat
  <2>1. Len(KeysOf(r)) \in Nat
    BY <1>1, KeysOfFacts
  <2> HIDE DEF r
  <2>2. m \in 1..(Len(KeysOf(r)) + 2)
    BY DEF r
  <2> QED
    BY <2>1, <2>2
<1>3. line \in Seq(Token) /\ Len(line) \in Nat
  <2>1. line \in Texts
    BY <1>1, <1>2, PlaceFacts
  <2> HIDE DEF line
  <2> QED
    BY <2>1 DEF Texts
<1>4. d \in Nat /\ Place(r, m) = d + Len(line) + 2 /\ HasLine(head, d, line)
  <2>1. /\ d \in Nat /\ Place(r, m) = d + Len(line) + 2 /\ Place(r, m) <= Len(head)
        /\ \A j \in 1..Len(line) : head[d + j] = line[j]
        /\ head[d + Len(line) + 1] = CR /\ head[d + Len(line) + 2] = LF
    BY <1>1, <1>2, PlaceFacts
  <2> HIDE DEF line, head, d
  <2> QED
    BY <2>1 DEF HasLine
<1>5. Follows(i) /\ InLines(r.headers)
  BY PlainFacts
<1>6. HasNoEnd(line)
  BY <1>1, <1>5, LinesHaveNoEnd
<1>7. /\ head \in Seq(Token) /\ Len(head) \in Nat /\ Len(head) <= Len(Frame(r)) /\ Len(Frame(r)) \in Nat
      /\ \A p \in 1..Len(head) : Frame(r)[p] = head[p]
  BY <1>1, FrameFacts
<1>8. IsAt(head, stream, start)
  <2> SUFFICES ASSUME NEW p \in 1..Len(head), start + p <= Len(stream)
               PROVE  stream[start + p] = head[p]
    BY DEF IsAt
  <2>1. p \in 1..Len(Frame(r))
    BY <1>7
  <2> QED
    BY <1>5, <1>7, <2>1 DEF Follows
<1>9. AreEnds(ends, stream, start + d) /\ ends # {}
  <2>1. arrived = start + d
    OBVIOUS
  <2> HIDE DEF start, d, ends
  <2> QED
    BY <2>1, LineEndFacts DEF ends, AreEnds
<1>10. arrived + 1 = start + d + 1
  OBVIOUS
<1> HIDE DEF line, head, d, start, ends
<1>11. Min(ends) = start + d + Len(line) /\ SubSeq(stream, start + d + 1, Min(ends)) = line
  BY <1>1, <1>3, <1>4, <1>6, <1>7, <1>8, <1>9, FirstEnd
<1>12. Line = line
  BY <1>10, <1>11, Zenon DEF Line, ends
<1>13. Min(ends) + 2 = start + Place(r, m)
  <2> DEFINE p == Place(r, m)
             c == Len(line)
             e == Min(ends)
  <2>1. p = d + c + 2 /\ e = start + d + c /\ start \in Nat /\ d \in Nat /\ c \in Nat
    BY <1>1, <1>3, <1>4, <1>11
  <2> HIDE DEF p, c, e
  <2> QED
    BY <2>1 DEF p, c, e
<1> QED
  BY <1>12, <1>13 DEF line, ends, start

-----------------------------------------------------------------------------
(* The client reads the lines and the content of a response that is plain. *)

LEMMA StartIsBegin ==
  ASSUME Inv, NEW i \in 1..Len(sent), Uncut(i)
  PROVE  sent[i].start = Begin(i)
<1>1. Len(sent) \in Nat /\ cut \in 0..Len(sent)
  BY DEF Inv, TypeOK
<1>2. CASE i = 1
  <2>1. sent # <<>>
    BY <1>1, <1>2
  <2> QED
    BY <1>2, <2>1 DEF Inv, StreamFollows, Begin
<1>3. CASE i # 1
  <2>1. i - 1 \in 1..Len(sent) /\ Uncut(i - 1) /\ i - 1 < Len(sent) /\ (i - 1) + 1 = i
    BY <1>1, <1>3 DEF Uncut
  <2>2. Follows(i - 1)
    BY <2>1 DEF Inv, StreamFollows
  <2> QED
    BY <1>3, <2>1, <2>2 DEF Follows, Begin
<1> QED
  BY <1>2, <1>3

(* The end of what is written is not before the end of a response.         *)
LEMMA NothingAfterTheLast ==
  ASSUME Inv, arrived < Len(stream), Uncut(Len(sent) + 1)
  PROVE  arrived # Begin(Len(sent) + 1)
<1> DEFINE n == Len(sent)
<1>1. n \in Nat /\ cut \in 0..n /\ arrived \in 0..Len(stream) /\ Len(stream) \in Nat
  BY DEF Inv, TypeOK
<1>2. CASE n = 0
  <2>1. sent = <<>>
    BY <1>2 DEF Inv, TypeOK
  <2>2. Len(stream) = 0
    BY <2>1 DEF Inv, StreamFollows
  <2> QED
    BY <1>1, <2>2
<1>3. CASE n # 0
  <2> DEFINE r == sent[n]
  <2>1. n \in 1..n /\ Uncut(n) /\ n + 1 # 1 /\ (n + 1) - 1 = n
    BY <1>1, <1>3 DEF Uncut
  <2>2. Follows(n)
    BY <2>1 DEF Inv, StreamFollows
  <2>3. r \in Response /\ r.start \in Nat
    BY <2>1, SentFacts DEF Inv
  <2>4. pc \in {"build", "head", "content"}
    BY DEF Inv, TypeOK
  <2>5. /\ Len(Frame(r)) \in Nat /\ Len(HeadText(r)) \in Nat
        /\ Len(HeadText(r)) <= Len(Frame(r))
    BY <2>3, FrameFacts
  <2>6. Len(stream) <= r.start + Len(Frame(r))
    <3>1. Len(stream) = r.start + (CASE pc = "build" -> Len(Frame(r))
                                     [] pc = "head" -> 0
                                     [] pc = "content" -> Len(HeadText(r)))
      BY <2>2 DEF Follows
    <3> QED
      BY <2>3, <2>4, <2>5, <3>1
  <2>7. Begin(n + 1) = r.start + Len(Frame(r))
    BY <2>1 DEF Begin
  <2> QED
    BY <1>1, <2>3, <2>5, <2>6, <2>7
<1> QED
  BY <1>2, <1>3

LEMMA LineArrivesFacts ==
  ASSUME Inv, LineArrives
  PROVE  /\ LineEnds # {} /\ arrived' = Min(LineEnds) + 2 /\ arrived < Len(stream)
         /\ arrived' \in 0..Len(stream) /\ Line \in Seq(Token) /\ UNCHANGED serverVars
<1> DEFINE e == Min(LineEnds)
<1>1. LineEnds # {} /\ arrived' = e + 2 /\ UNCHANGED serverVars
  BY DEF LineArrives
<1>2. arrived \in Nat /\ stream \in Seq(Token) /\ Len(stream) \in Nat
  BY DEF Inv, TypeOK
<1>3. e \in LineEnds
  BY <1>1, LineEndFacts, FiniteMin
<1>4. e \in Nat /\ arrived <= e /\ e <= Len(stream) - 2
  BY <1>3, LineEndFacts
<1> HIDE DEF e
<1>5. SubSeq(stream, arrived + 1, e) \in Seq(Token)
  <2>1. arrived + 1 \in 1..(Len(stream) + 1) /\ e \in ((arrived + 1) - 1)..Len(stream)
    BY <1>2, <1>4
  <2> QED
    BY <1>2, <2>1, SubSeqFacts
<1>6. arrived < Len(stream) /\ arrived' \in 0..Len(stream)
  BY <1>1, <1>2, <1>4
<1> QED
  BY <1>1, <1>5, <1>6 DEF Line, e

LEMMA ServerIsUndisturbed ==
  ASSUME Inv, UNCHANGED serverVars
  PROVE  /\ BeingSent' /\ StreamFollows' /\ UNCHANGED <<headers_, content, pc, stream, sent, cut>>
         /\ \A i : (Plain(i)' <=> Plain(i)) /\ (Blanks(sent[i].headers)' = Blanks(sent[i].headers))
<1>1. UNCHANGED <<headers_, content, pc, stream, sent, cut>>
  BY DEF serverVars
<1>2. BeingSent'
  BY <1>1 DEF Inv, BeingSent
<1>3. StreamFollows'
  BY <1>1 DEF Inv, StreamFollows, Follows, Uncut
<1>4. \A i : (Plain(i)' <=> Plain(i)) /\ (Blanks(sent[i].headers)' = Blanks(sent[i].headers))
  BY <1>1 DEF Plain
<1> QED
  BY <1>1, <1>2, <1>3, <1>4

(* A response is read, or what cannot be.                                  *)
LEMMA EndsKeepsInv ==
  ASSUME Inv, UNCHANGED serverVars, arrived' \in 0..Len(stream),
         NEW headers \in SUBSET Maps(Token), NEW text \in Seq(Token),
         NEW state \in {"status", "stopped"}, Ends(headers, text, state),
         \A i \in {Len(received) + 1} : Plain(i) =>
           /\ i <= Len(sent)
           /\ IF Blanks(sent[i].headers) = {}
                THEN headers = {Meant(sent[i])} /\ text = sent[i].content
                ELSE headers = {}
           /\ state = "status" => arrived' = sent[i].start + Len(Frame(sent[i]))
  PROVE  Inv'
<1> DEFINE n == Len(received)
           one == [headers |-> headers, body |-> text]
           Read == [headers : SUBSET Maps(Token), body : Seq(Token)]
<1>1. n \in Nat /\ one \in Read /\ received \in Seq(Read) /\ DOMAIN received = 1..n
  BY DEF Inv, TypeOK
<1>2. received' = Append(received, one) /\ reader' = state /\ got' = NoHeaders
  BY DEF Ends
<1>3. one.headers = headers /\ one = [headers |-> headers, body |-> text]
  OBVIOUS
<1> HIDE DEF one, Read
<1>4. /\ received' \in Seq(Read) /\ Len(received') = n + 1 /\ received'[n + 1] = one
      /\ DOMAIN received' = 1..(n + 1) /\ \A i \in 1..n : received'[i] = received[i]
  BY <1>1, <1>2
<1>5. UNCHANGED <<headers_, content, pc, stream, sent, cut>> /\ \A i : Plain(i)' <=> Plain(i)
  BY ServerIsUndisturbed
<1>6. TypeOK'
  <2>1. got' \in Maps(Token)
    BY <1>2, NoHeadersFacts
  <2> QED
    BY <1>2, <1>4, <1>5, <2>1 DEF Inv, TypeOK, Read
<1>7. ClientFollows'
  <2> SUFFICES ASSUME NEW i \in {n + 2}, state = "status", Plain(i)
        PROVE  ClientAt(i)'
    BY <1>1, <1>2, <1>4, <1>5 DEF ClientFollows
  <2>1. Plain(n + 1)
    <3>1. n + 1 <= i /\ cut \in Nat
      BY <1>1 DEF Inv, TypeOK
    <3>2. DOMAIN sent = 1..Len(sent) /\ Len(sent) \in Nat
      BY DEF Inv, TypeOK
    <3> QED
      BY <1>1, <3>1, <3>2 DEF Plain
  <2>2. n + 1 <= Len(sent) /\ arrived' = sent[n + 1].start + Len(Frame(sent[n + 1]))
    BY <2>1
  <2>3. Begin(i)' = sent[n + 1].start + Len(Frame(sent[n + 1]))
    BY <1>1, <1>5 DEF Begin
  <2> QED
    BY <1>1, <1>2, <1>5, <2>2, <2>3 DEF ClientAt, Inv, TypeOK
<1>8. AsMeant'
  <2> SUFFICES ASSUME NEW i \in Whole'
        PROVE  /\ i <= Len(sent)
               /\ IF Blanks(sent[i].headers) = {}
                    THEN received'[i] = [headers |-> {Meant(sent[i])}, body |-> sent[i].content]
                    ELSE received'[i].headers = {}
    BY <1>5 DEF AsMeant
  <2>1. i \in 1..(n + 1) /\ Plain(i)
    BY <1>1, <1>4, <1>5 DEF Whole
  <2>2. CASE i = n + 1
    BY <1>3, <1>4, <2>1, <2>2
  <2>3. CASE i # n + 1
    <3>1. i \in 1..n /\ received'[i] = received[i]
      BY <1>1, <1>4, <2>1, <2>3
    <3>2. i \in Whole
      BY <1>1, <2>1, <3>1 DEF Whole
    <3> QED
      BY <3>1, <3>2 DEF Inv, AsMeant
  <2> QED
    BY <2>2, <2>3
<1> QED
  BY <1>6, <1>7, <1>8, ServerIsUndisturbed DEF Inv

(* The client goes on with the same response.                              *)
LEMMA GoesOnKeepsInv ==
  ASSUME Inv, UNCHANGED serverVars, arrived' \in 0..Len(stream), received' = received,
         reader' \in {"headers", "content"}, got' \in Maps(Token),
         \A i \in {Len(received) + 1} : Plain(i) =>
           /\ i <= Len(sent)
           /\ reader' = "headers" => \E m \in 0..Len(KeysOf(sent[i])) : AtHeader(sent[i], m)'
           /\ reader' = "content" => InContent(sent[i])'
  PROVE  Inv'
<1>1. UNCHANGED <<headers_, content, pc, stream, sent, cut>> /\ \A i : Plain(i)' <=> Plain(i)
  BY ServerIsUndisturbed
<1>2. TypeOK'
  BY <1>1 DEF Inv, TypeOK
<1>3. ClientFollows'
  <2> SUFFICES ASSUME NEW i \in {Len(received) + 1}, Plain(i)
        PROVE  ClientAt(i)'
    BY <1>1 DEF ClientFollows
  <2>1. /\ i <= Len(sent')
        /\ reader' = "headers" => \E m \in 0..Len(KeysOf(sent'[i])) : AtHeader(sent[i], m)'
        /\ reader' = "content" => InContent(sent[i])'
    BY <1>1
  <2> QED
    BY <2>1 DEF ClientAt
<1>4. AsMeant'
  BY <1>1 DEF Inv, AsMeant, Whole
<1> QED
  BY <1>2, <1>3, <1>4, ServerIsUndisturbed DEF Inv

LEMMA ReadStatusLineKeepsInv ==
  ASSUME Inv, ReadStatusLine
  PROVE  Inv'
<1>1. /\ reader = "status" /\ reader' = "headers" /\ received' = received /\ got' = got
      /\ LineEnds # {} /\ arrived' = Min(LineEnds) + 2 /\ arrived < Len(stream)
      /\ arrived' \in 0..Len(stream) /\ UNCHANGED serverVars
  BY LineArrivesFacts DEF ReadStatusLine
<1>2. got' \in Maps(Token)
  BY <1>1 DEF Inv, TypeOK
<1>3. ASSUME NEW i \in {Len(received) + 1}, Plain(i)
      PROVE  i <= Len(sent) /\ \E m \in 0..Len(KeysOf(sent[i])) : AtHeader(sent[i], m)'
  <2>1. /\ i <= Len(sent) + 1 /\ arrived = Begin(i) /\ got = NoHeaders
        /\ i \in Nat \ {0} /\ Len(sent) \in Nat /\ Uncut(i)
    BY <1>1, <1>3 DEF Inv, ClientFollows, ClientAt, TypeOK, Plain, Uncut
  <2>2. i \in 1..Len(sent)
    <3>1. i # Len(sent) + 1
      BY <1>1, <2>1, NothingAfterTheLast
    <3> QED
      BY <2>1, <3>1
  <2> DEFINE r == sent[i]
  <2>3. r \in Response /\ r.start \in Nat /\ r.start = arrived
    BY <2>1, <2>2, StartIsBegin, SentFacts DEF Inv
  <2>4. Len(KeysOf(r)) \in Nat /\ Place(r, 0) = 0
    BY <2>3, PlaceFacts
  <2>5. Min(LineEnds) + 2 = r.start + Place(r, 1)
    <3>1. 1 \in 1..(Len(KeysOf(r)) + 2) /\ 1 - 1 = 0
      BY <2>4
    <3>2. arrived = r.start + Place(r, 1 - 1)
      BY <2>3, <2>4, <3>1
    <3> QED
      BY <1>1, <1>3, <2>2, <3>1, <3>2, LineIsOfFrame
  <2>6. AtHeader(r, 0)'
    <3>1. {KeysOf(r)[l] : l \in 1..0} = {} /\ DOMAIN NoHeaders = {} /\ 0 + 1 = 1
      BY DEF NoHeaders
    <3>2. sent' = sent
      BY <1>1 DEF serverVars
    <3> QED
      BY <1>1, <2>1, <2>5, <3>1, <3>2 DEF AtHeader
  <2>7. 0 \in 0..Len(KeysOf(r))
    BY <2>4
  <2> QED
    BY <2>2, <2>6, <2>7
<1> QED
  BY <1>1, <1>2, <1>3, GoesOnKeepsInv

(* Where the client is in a head, and what it reads next.                  *)
LEMMA InHead ==
  ASSUME Inv, LineEnds # {}, reader = "headers", NEW i \in {Len(received) + 1}, Plain(i)
  PROVE  /\ i \in 1..Len(sent) /\ sent[i] \in Response
         /\ \E m \in 0..Len(KeysOf(sent[i])) :
              /\ AtHeader(sent[i], m)
              /\ Line = IF m < Len(KeysOf(sent[i]))
                          THEN HeaderLine(FinalHeaders(sent[i]), KeysOf(sent[i])[m + 1])
                          ELSE EmptyLine
              /\ Min(LineEnds) + 2 = sent[i].start + Place(sent[i], m + 2)
<1> DEFINE r == sent[i]
           n == Len(KeysOf(r))
           lines == Lines(FinalHeaders(r))
<1>1. i \in 1..Len(sent) /\ \E m \in 0..n : AtHeader(r, m)
  BY DEF Inv, ClientFollows, ClientAt, TypeOK
<1>2. r \in Response
  BY <1>1, SentFacts DEF Inv
<1>3. PICK m \in 0..n : AtHeader(r, m)
  BY <1>1
<1>4. /\ n \in Nat /\ lines[n + 2] = EmptyLine
      /\ \A l \in 1..n : lines[1 + l] = HeaderLine(FinalHeaders(r), KeysOf(r)[l])
  BY <1>2, PlaceFacts
<1>5. Line = lines[m + 2] /\ Min(LineEnds) + 2 = r.start + Place(r, m + 2)
  <2>1. m + 2 \in 1..(n + 2) /\ (m + 2) - 1 = m + 1
    BY <1>3, <1>4
  <2>2. arrived = r.start + Place(r, (m + 2) - 1)
    BY <1>3, <2>1 DEF AtHeader
  <2> QED
    BY <1>1, <2>1, <2>2, LineIsOfFrame
<1>6. Line = IF m < n THEN HeaderLine(FinalHeaders(r), KeysOf(r)[m + 1]) ELSE EmptyLine
  <2> HIDE DEF lines, n
  <2>1. CASE m < n
    <3>1. m + 1 \in 1..n /\ 1 + (m + 1) = m + 2
      BY <1>3, <1>4, <2>1
    <3>2. lines[m + 2] = HeaderLine(FinalHeaders(r), KeysOf(r)[m + 1])
      BY <1>4, <3>1
    <3> QED
      BY <1>5, <2>1, <3>2
  <2>2. CASE ~(m < n)
    <3>1. m = n
      BY <1>3, <1>4, <2>2
    <3> QED
      BY <1>4, <1>5, <2>2, <3>1
  <2> QED
    BY <2>1, <2>2
<1> QED
  BY <1>1, <1>2, <1>3, <1>5, <1>6

LEMMA ReadHeaderLineKeepsInv ==
  ASSUME Inv, ReadHeaderLine
  PROVE  Inv'
<1> DEFINE parsed == IF Len(Line) < npos THEN ParseHeaderLine(got, Line) ELSE {}
<1>1. /\ reader = "headers" /\ Line # EmptyLine
      /\ LineEnds # {} /\ arrived' = Min(LineEnds) + 2
      /\ arrived' \in 0..Len(stream) /\ Line \in Seq(Token) /\ UNCHANGED serverVars
  BY LineArrivesFacts DEF ReadHeaderLine
<1>2. got \in Maps(Token) /\ Len(received) \in Nat
  BY DEF Inv, TypeOK
<1>3. sent' = sent
  BY <1>1 DEF serverVars
<1>4. ASSUME NEW i \in {Len(received) + 1}, Plain(i)
      PROVE  /\ i \in 1..Len(sent)
             /\ parsed = {} => Blanks(sent[i].headers) # {}
             /\ \A g \in parsed : \E m \in 0..Len(KeysOf(sent[i])) :
                  /\ arrived' = sent[i].start + Place(sent[i], m + 1)
                  /\ DOMAIN g = {KeysOf(sent[i])[l] : l \in 1..m}
                  /\ \A k \in DOMAIN g : k \notin Blanks(sent[i].headers) /\ g[k] = Meant(sent[i])[k]
  <2> DEFINE r == sent[i]
             n == Len(KeysOf(r))
  <2>1. i \in 1..Len(sent) /\ r \in Response
    BY <1>1, <1>4, InHead
  <2>2. PICK m \in 0..n :
          /\ AtHeader(r, m)
          /\ Line = IF m < n THEN HeaderLine(FinalHeaders(r), KeysOf(r)[m + 1]) ELSE EmptyLine
          /\ Min(LineEnds) + 2 = r.start + Place(r, m + 2)
    BY <1>1, <1>4, InHead
  <2>3. /\ n \in Nat /\ \A l, q \in 1..n : KeysOf(r)[l] = KeysOf(r)[q] => l = q
        /\ {KeysOf(r)[l] : l \in 1..n} = DOMAIN FinalHeaders(r)
    BY <2>1, KeysOfFacts
  <2>4. m + 1 \in 1..n /\ m \in Nat
    BY <1>1, <2>2, <2>3
  <2> DEFINE k == KeysOf(r)[m + 1]
  <2>5. k \in DOMAIN FinalHeaders(r)
    BY <2>3, <2>4
  <2>6. /\ DOMAIN got = {KeysOf(r)[l] : l \in 1..m}
        /\ \A key \in DOMAIN got : key \notin Blanks(r.headers) /\ got[key] = Meant(r)[key]
    BY <2>2 DEF AtHeader
  <2>7. k \notin DOMAIN got
    BY <2>3, <2>4, <2>6
  <2>8. Line = HeaderLine(FinalHeaders(r), k)
    BY <2>2, <2>3, <2>4
  <2>9. parsed = IF k \in Blanks(r.headers) THEN {} ELSE {Put(got, k, Meant(r)[k])}
    <3>1. FinalHeaders(r) \in Headers
      BY <2>1, FrameFacts
    <3>2. Line \in Texts
      BY <2>5, <2>8, <3>1, HeadersFacts
    <3>3. Len(Line) < npos
      BY <3>2 DEF Texts
    <3>4. ParseHeaderLine(got, Line) = IF k \in Blanks(r.headers) THEN {} ELSE {Put(got, k, Meant(r)[k])}
      BY <2>1, <2>5, <2>7, <2>8, HeaderIsRead
    <3> QED
      BY <3>3, <3>4
  <2>10. {KeysOf(r)[l] : l \in 1..(m + 1)} = {KeysOf(r)[l] : l \in 1..m} \cup {k}
    BY <2>4
  <2> HIDE DEF parsed, k
  <2>11. ASSUME NEW g \in parsed
         PROVE  /\ arrived' = r.start + Place(r, (m + 1) + 1)
                /\ DOMAIN g = {KeysOf(r)[l] : l \in 1..(m + 1)}
                /\ \A key \in DOMAIN g : key \notin Blanks(r.headers) /\ g[key] = Meant(r)[key]
    <3>1. g = Put(got, k, Meant(r)[k]) /\ k \notin Blanks(r.headers)
      BY <2>9, <2>11
    <3>2. /\ DOMAIN g = DOMAIN got \cup {k} /\ g[k] = Meant(r)[k]
          /\ \A key \in DOMAIN got \ {k} : g[key] = got[key]
      BY <3>1 DEF Put
    <3>3. arrived' = r.start + Place(r, (m + 1) + 1)
      <4>1. (m + 1) + 1 = m + 2
        BY <2>4
      <4> QED
        BY <1>1, <2>2, <4>1
    <3>4. DOMAIN g = {KeysOf(r)[l] : l \in 1..(m + 1)}
      BY <2>6, <2>10, <3>2
    <3> QED
      BY <2>6, <2>7, <3>1, <3>2, <3>3, <3>4
  <2>12. m + 1 \in 0..n
    BY <2>4
  <2>13. parsed = {} => Blanks(r.headers) # {}
    BY <2>9
  <2> QED
    BY <2>1, <2>11, <2>12, <2>13
<1>5. CASE parsed = {}
  <2>1. Ends({}, <<>>, "stopped")
    BY <1>5 DEF ReadHeaderLine, Stops
  <2>2. {} \in SUBSET Maps(Token) /\ <<>> \in Seq(Token)
    OBVIOUS
  <2> HIDE DEF parsed
  <2>3. \A i \in {Len(received) + 1} : Plain(i) => i <= Len(sent) /\ Blanks(sent[i].headers) # {}
    BY <1>4, <1>5
  <2> QED
    BY <1>1, <2>1, <2>2, <2>3, EndsKeepsInv
<1>6. CASE parsed # {}
  <2>1. got' \in parsed /\ reader' = "headers" /\ received' = received
    BY <1>1, <1>6 DEF ReadHeaderLine
  <2>2. got' \in Maps(Token)
    <3>1. Len(Line) < npos /\ got' \in ParseHeaderLine(got, Line)
      BY <2>1
    <3>2. Line \in Texts
      BY <1>1, <3>1 DEF Texts
    <3> QED
      BY <1>2, <3>1, <3>2, ParsedIsMap
  <2> HIDE DEF parsed
  <2>3. ASSUME NEW i \in {Len(received) + 1}, Plain(i)
        PROVE  i <= Len(sent) /\ \E m \in 0..Len(KeysOf(sent[i])) : AtHeader(sent[i], m)'
    <3>1. /\ i \in 1..Len(sent)
          /\ \E m \in 0..Len(KeysOf(sent[i])) :
               /\ arrived' = sent[i].start + Place(sent[i], m + 1)
               /\ DOMAIN got' = {KeysOf(sent[i])[l] : l \in 1..m}
               /\ \A k \in DOMAIN got' : k \notin Blanks(sent[i].headers) /\ got'[k] = Meant(sent[i])[k]
      BY <1>4, <2>1, <2>3
    <3>2. PICK m \in 0..Len(KeysOf(sent[i])) :
            /\ arrived' = sent[i].start + Place(sent[i], m + 1)
            /\ DOMAIN got' = {KeysOf(sent[i])[l] : l \in 1..m}
            /\ \A k \in DOMAIN got' : k \notin Blanks(sent[i].headers) /\ got'[k] = Meant(sent[i])[k]
      BY <3>1
    <3>3. AtHeader(sent[i], m)'
      BY <1>3, <3>2 DEF AtHeader
    <3> QED
      BY <3>1, <3>3
  <2> QED
    BY <1>1, <2>1, <2>2, <2>3, GoesOnKeepsInv
<1> QED
  BY <1>5, <1>6

LEMMA ReadEmptyLineKeepsInv ==
  ASSUME Inv, ReadEmptyLine
  PROVE  Inv'
<1>1. /\ reader = "headers" /\ Line = EmptyLine
      /\ LineEnds # {} /\ arrived' = Min(LineEnds) + 2
      /\ arrived' \in 0..Len(stream) /\ UNCHANGED serverVars
  BY LineArrivesFacts DEF ReadEmptyLine
<1>2. got \in Maps(Token) /\ {} \in SUBSET Maps(Token) /\ <<>> \in Seq(Token) /\ sent' = sent
  BY <1>1 DEF Inv, TypeOK, serverVars
<1>3. ASSUME NEW i \in {Len(received) + 1}, Plain(i)
      PROVE  /\ i <= Len(sent)
             /\ Blanks(sent[i].headers) = {} /\ got = Meant(sent[i])
             /\ ContentLength(got) = {Len(sent[i].content)}
             /\ arrived' = sent[i].start + Len(HeadText(sent[i]))
  <2> DEFINE r == sent[i]
             n == Len(KeysOf(r))
  <2>1. i \in 1..Len(sent) /\ r \in Response
    BY <1>1, <1>3, InHead
  <2>2. PICK m \in 0..n :
          /\ AtHeader(r, m)
          /\ Line = IF m < n THEN HeaderLine(FinalHeaders(r), KeysOf(r)[m + 1]) ELSE EmptyLine
          /\ Min(LineEnds) + 2 = r.start + Place(r, m + 2)
    BY <1>1, <1>3, InHead
  <2>3. n \in Nat /\ {KeysOf(r)[l] : l \in 1..n} = DOMAIN FinalHeaders(r)
    BY <2>1, KeysOfFacts
  <2>4. m = n
    <3>1. CASE m < n
      <4>1. KeysOf(r)[m + 1] \in DOMAIN FinalHeaders(r)
        BY <2>2, <2>3, <3>1
      <4>2. FinalHeaders(r) \in Headers
        BY <2>1, FrameFacts
      <4> QED
        BY <1>1, <2>2, <3>1, <4>1, <4>2, HeadersFacts
    <3>2. CASE ~(m < n)
      BY <2>2, <2>3, <3>2
    <3> QED
      BY <3>1, <3>2
  <2>5. /\ DOMAIN got = {KeysOf(r)[l] : l \in 1..n}
        /\ \A key \in DOMAIN got : key \notin Blanks(r.headers) /\ got[key] = Meant(r)[key]
    BY <2>2, <2>4 DEF AtHeader
  <2>6. got = Meant(r) /\ Blanks(r.headers) = {}
    BY <1>2, <2>1, <2>5, HeadIsRead
  <2>7. ContentLength(got) = {Len(r.content)}
    BY <2>1, <2>6, LengthIsRead
  <2>8. Place(r, n + 2) = Len(HeadText(r))
    BY <2>1, PlaceFacts
  <2>9. arrived' = r.start + Len(HeadText(r))
    BY <1>1, <2>2, <2>4, <2>8
  <2> QED
    BY <2>1, <2>6, <2>7, <2>9
<1>4. CASE ContentLength(got) = {}
  <2>1. Ends({}, <<>>, "stopped")
    BY <1>4 DEF ReadEmptyLine, Stops
  <2>2. \A i \in {Len(received) + 1} : ~Plain(i)
    BY <1>3, <1>4
  <2> QED
    BY <1>1, <1>2, <2>1, <2>2, EndsKeepsInv
<1>5. CASE ContentLength(got) # {}
  <2>1. reader' = "content" /\ got' = got /\ received' = received
    BY <1>5 DEF ReadEmptyLine
  <2>2. ASSUME NEW i \in {Len(received) + 1}, Plain(i)
        PROVE  i <= Len(sent) /\ InContent(sent[i])'
    BY <1>2, <1>3, <2>1, <2>2 DEF InContent
  <2> QED
    BY <1>1, <1>2, <2>1, <2>2, GoesOnKeepsInv
<1> QED
  BY <1>4, <1>5

LEMMA ReadContentKeepsInv ==
  ASSUME Inv, ReadContent
  PROVE  Inv'
<1>1. reader = "content" /\ UNCHANGED serverVars
  BY DEF ReadContent
<1>2. PICK n \in ContentLength(got) :
        /\ arrived + n <= Len(stream) /\ arrived' = arrived + n
        /\ Ends({got}, SubSeq(stream, arrived + 1, arrived + n), "status")
  BY DEF ReadContent
<1>3. /\ got \in Maps(Token) /\ {got} \in SUBSET Maps(Token)
      /\ arrived \in Nat /\ stream \in Seq(Token) /\ Len(stream) \in Nat
  BY DEF Inv, TypeOK
<1>4. n \in Nat
  BY <1>2 DEF ContentLength, Stoul
<1> DEFINE text == SubSeq(stream, arrived + 1, arrived + n)
<1>5. text \in Seq(Token) /\ Len(text) = n /\ \A j \in 1..n : text[j] = stream[arrived + j]
  <2>1. /\ arrived + 1 \in 1..(Len(stream) + 1)
        /\ arrived + n \in ((arrived + 1) - 1)..Len(stream) /\ (arrived + n) - (arrived + 1) + 1 = n
    BY <1>2, <1>3, <1>4
  <2>2. text \in Seq(Token) /\ Len(text) = n /\ \A j \in 1..n : text[j] = stream[(arrived + 1) + j - 1]
    BY <1>3, <2>1, SubSeqFacts
  <2> HIDE DEF text
  <2>3. \A j \in 1..n : (arrived + 1) + j - 1 = arrived + j
    BY <1>3, <1>4
  <2> QED
    BY <2>2, <2>3
<1>6. arrived' \in 0..Len(stream)
  BY <1>2, <1>3, <1>4
<1>7. Ends({got}, text, "status")
  BY <1>2
<1> HIDE DEF text
<1>8. ASSUME NEW i \in {Len(received) + 1}, Plain(i)
      PROVE  /\ i <= Len(sent) /\ Blanks(sent[i].headers) = {}
             /\ {got} = {Meant(sent[i])} /\ text = sent[i].content
             /\ arrived' = sent[i].start + Len(Frame(sent[i]))
  <2> DEFINE r == sent[i]
             c == Len(r.content)
             head == Len(HeadText(r))
             start == r.start
  <2>1. i \in 1..Len(sent) /\ InContent(r)
    BY <1>1, <1>8 DEF Inv, ClientFollows, ClientAt, TypeOK
  <2>2. r \in Response /\ start \in Nat
    BY <2>1, SentFacts DEF Inv
  <2>3. Blanks(r.headers) = {} /\ got = Meant(r) /\ arrived = start + head
    BY <2>1 DEF InContent
  <2>4. n = c
    BY <1>2, <2>2, <2>3, LengthIsRead
  <2>5. /\ r.content \in Seq(Token) /\ head \in Nat /\ Len(Frame(r)) = head + c
        /\ \A p \in 1..c : Frame(r)[head + p] = r.content[p]
    BY <2>2, FrameFacts
  <2>6. \A p \in 1..Len(Frame(r)) : start + p <= Len(stream) => stream[start + p] = Frame(r)[p]
    <3>1. Follows(i)
      BY <1>8, <2>1, PlainFacts
    <3> QED
      BY <3>1 DEF Follows
  <2>7. c = Len(r.content)
    OBVIOUS
  <2> HIDE DEF c, head, start, r
  <2>8. ASSUME NEW p \in 1..n PROVE text[p] = r.content[p]
    <3>1. /\ head + p \in 1..Len(Frame(r)) /\ start + (head + p) = arrived + p
          /\ arrived + p <= Len(stream)
      BY <1>2, <1>3, <1>4, <2>2, <2>3, <2>4, <2>5
    <3>2. stream[arrived + p] = Frame(r)[head + p]
      BY <2>6, <3>1
    <3> QED
      BY <1>5, <2>4, <2>5, <3>2
  <2>9. text = r.content
    BY <1>5, <2>4, <2>5, <2>7, <2>8, SameSequence
  <2>10. arrived' = start + Len(Frame(r))
    BY <1>2, <1>3, <1>4, <2>2, <2>3, <2>4, <2>5
  <2> QED
    BY <2>1, <2>3, <2>9, <2>10 DEF r, start
<1> QED
  BY <1>1, <1>3, <1>5, <1>6, <1>7, <1>8, EndsKeepsInv

LEMMA NextKeepsInv == Inv /\ [Next]_vars => Inv'
<1> SUFFICES ASSUME Inv, [Next]_vars PROVE Inv'
  OBVIOUS
<1>1. CASE Server
  BY <1>1, ApplicationKeepsInv, SendResponseKeepsInv, SendHeadKeepsInv, SendContentKeepsInv DEF Server
<1>2. CASE Client
  BY <1>2, ReadStatusLineKeepsInv, ReadHeaderLineKeepsInv, ReadEmptyLineKeepsInv, ReadContentKeepsInv
     DEF Client
<1>3. CASE UNCHANGED vars
  <2>1. UNCHANGED <<headers_, content, pc, stream, sent, cut, arrived, reader, got, received>>
        /\ UNCHANGED serverVars /\ UNCHANGED clientVars
    BY <1>3 DEF vars, serverVars, clientVars
  <2>2. TypeOK'
    BY <2>1 DEF Inv, TypeOK
  <2>3. BeingSent' /\ StreamFollows'
    BY <2>1, ServerIsUndisturbed
  <2>4. ClientFollows' /\ AsMeant'
    <3>1. Len(sent) \in Nat /\ DOMAIN sent = 1..Len(sent)
      BY DEF Inv, TypeOK
    <3> QED
      BY <2>1, <3>1, ClientIsUndisturbed
  <2> QED
    BY <2>2, <2>3, <2>4 DEF Inv
<1> QED
  BY <1>1, <1>2, <1>3 DEF Next

-----------------------------------------------------------------------------
(* What sendResponse writes on a connection, CR LF by CR LF, and what a    *)
(* client has read of it agree at every step of both, up to the first      *)
(* response that a send() cuts or that has an end of line in the values of *)
(* a header (server.h:30-61).                                              *)
THEOREM InvHolds == Spec => []Inv
BY InitHolds, NextKeepsInv, PTL DEF Spec

(* Every variable keeps its type; in particular no header line that the    *)
(* server has written is longer than a string can be (messages.h:92-118).  *)
THEOREM TypeCorrect == Spec => []TypeOK
<1>1. Inv => TypeOK
  BY DEF Inv
<1> QED
  BY <1>1, InvHolds, PTL

(* A client reads each response up to that one with all its content, which *)
(* may hold ends of lines, and nothing of the next one: sendResponse sets  *)
(* the true length last, under the one key that all spellings share        *)
(* (server.h:33, messages.h:104-108).                                      *)
THEOREM BodiesApart == Spec => []BodiesStayApart
<1>1. Inv => BodiesStayApart
  <2> SUFFICES ASSUME Inv, NEW i \in Whole
        PROVE  i <= Len(sent) /\ (Blanks(sent[i].headers) = {} => received[i].body = sent[i].content)
    BY DEF BodiesStayApart
  <2>1. /\ i <= Len(sent)
        /\ Blanks(sent[i].headers) = {} =>
             received[i] = [headers |-> {Meant(sent[i])}, body |-> sent[i].content]
        /\ Blanks(sent[i].headers) # {} => received[i].headers = {}
    BY DEF Inv, AsMeant
  <2> QED
    BY <2>1
<1> QED
  BY <1>1, InvHolds, PTL

(* What parseHeaderLine makes of the lines of such a response, each ended  *)
(* by CR LF alone, are the headers that the application has set, unless    *)
(* trim throws for a blank one (server.h:41-52, server.h:148-153).         *)
THEOREM HeadersAsSet == Spec => []HeadersAreRead
<1>1. Inv => HeadersAreRead
  <2> SUFFICES ASSUME Inv, NEW i \in Whole
        PROVE  received[i].headers = IF Blanks(sent[i].headers) = {} THEN {Meant(sent[i])} ELSE {}
    BY DEF HeadersAreRead
  <2>1. /\ i <= Len(sent)
        /\ Blanks(sent[i].headers) = {} =>
             received[i] = [headers |-> {Meant(sent[i])}, body |-> sent[i].content]
        /\ Blanks(sent[i].headers) # {} => received[i].headers = {}
    BY DEF Inv, AsMeant
  <2>2. CASE Blanks(sent[i].headers) = {}
    <3>1. \A h, b : [headers |-> h, body |-> b].headers = h
      OBVIOUS
    <3>2. received[i].headers = {Meant(sent[i])}
      BY <2>1, <2>2, <3>1
    <3> QED
      BY <2>2, <3>2
  <2>3. CASE Blanks(sent[i].headers) # {}
    BY <2>1, <2>3
  <2> QED
    BY <2>2, <2>3
<1> QED
  BY <1>1, InvHolds, PTL
=============================================================================
