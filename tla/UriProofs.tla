-------------------------------- MODULE UriProofs -------------------------------
(***************************************************************************)
(* Proofs about Uris, for parts that are any strings: ReadsWhatItWrites.   *)
(*                                                                         *)
(* First numbers, sequences and strings: what the searches, substr and     *)
(* split compute, of any string.  FlattenSeq and split are unfolded by     *)
(* induction over a set, which well-foundedness gives (Induction).         *)
(*                                                                         *)
(* Then the string that a URI was converted to (Written): where each part  *)
(* is in it (Cuts, Filled), and which delimiters each stretch holds        *)
(* (Held).  Marked says that each search of fromString finds the delimiter *)
(* that was written for it.  It is equivalent to Readable (ReadableIs), so *)
(* that what remains is: the parts are read back if (ReadsBack) and only   *)
(* if (MarksReadBack) the URI is Marked.                                   *)
(***************************************************************************)
EXTENDS Uris, WellFoundedInduction, FiniteSetTheorems, TLAPS

-----------------------------------------------------------------------------
(* Numbers and sequences.                                                  *)

(* Every set of natural numbers that has one has a least one.              *)
LEMMA LeastNatural ==
  ASSUME NEW S, S \subseteq Nat, S # {}
  PROVE  \E x \in S : \A y \in S : x <= y
<1> DEFINE R == {ss \in Nat \X Nat : ss[1] < ss[2]}
<1>1. IsWellFoundedOn(R, Nat)
  BY NatLessThanWellFounded DEF OpToRel
<1> HIDE DEF R
<1>2. PICK x \in S : \A y \in S : ~(<<y, x>> \in R)
  BY <1>1, WFMin
<1>3. \A y \in S : ~(y < x)
  BY <1>2 DEF R
<1> QED
  BY <1>3

(* Induction, over a set in place of a predicate.                          *)
LEMMA Induction ==
  ASSUME NEW S, 0 \in S, \A n \in Nat : n \in S => n + 1 \in S
  PROVE  Nat \subseteq S
<1> DEFINE Others == {n \in Nat : n \notin S}
<1> SUFFICES ASSUME Others # {} PROVE FALSE
  OBVIOUS
<1>1. PICK x \in Others : \A y \in Others : x <= y
  BY LeastNatural
<1>2. x \in Nat /\ x # 0
  OBVIOUS
<1>3. x - 1 \in Nat /\ (x - 1) + 1 = x
  BY <1>2
<1>4. x - 1 \notin Others
  BY <1>1, <1>3
<1> QED
  BY <1>3, <1>4

(* What FlattenSeq computes of a sequence that is not empty.               *)
LEMMA Flattening ==
  ASSUME NEW T, NEW seqs \in Seq(Seq(T)), seqs # <<>>
  PROVE  \E g \in [1..Len(seqs) -> Seq(T)] :
           /\ FlattenSeq(seqs) = g[Len(seqs)]
           /\ \A i \in 1..Len(seqs) : g[i] = IF i = 1 THEN seqs[i] ELSE g[i - 1] \o seqs[i]
<1> DEFINE N == Len(seqs)
           Follows(g, n) ==
             \A i \in 1..n : g[i] = IF i = 1 THEN seqs[i] ELSE g[i - 1] \o seqs[i]
           Reached == {n \in Nat : n <= N => \E g \in [1..n -> Seq(T)] : Follows(g, n)}
           flatten == CHOOSE g :
             g = [i \in 1..N |-> IF i = 1 THEN seqs[i] ELSE g[i - 1] \o seqs[i]]
<1>1. N \in Nat \ {0} /\ \A i \in 1..N : seqs[i] \in Seq(T)
  OBVIOUS
<1>2. 0 \in Reached
  <2>1. [i \in 1..0 |-> <<>>] \in [1..0 -> Seq(T)] /\ Follows([i \in 1..0 |-> <<>>], 0)
    OBVIOUS
  <2> QED
    BY <2>1
<1>3. ASSUME NEW n \in Nat, n \in Reached PROVE n + 1 \in Reached
  <2> SUFFICES ASSUME n + 1 <= N PROVE \E g \in [1..(n + 1) -> Seq(T)] : Follows(g, n + 1)
    OBVIOUS
  <2>1. PICK g \in [1..n -> Seq(T)] : Follows(g, n)
    BY <1>3, <1>1
  <2> DEFINE last == IF n + 1 = 1 THEN seqs[n + 1] ELSE g[n] \o seqs[n + 1]
             h == [i \in 1..(n + 1) |-> IF i = n + 1 THEN last ELSE g[i]]
  <2>2. last \in Seq(T)
    <3>1. CASE n = 0
      BY <3>1, <1>1
    <3>2. CASE n # 0
      <4>1. g[n] \in Seq(T) /\ seqs[n + 1] \in Seq(T)
        BY <3>2, <1>1
      <4> QED
        BY <4>1, <3>2
    <3> QED
      BY <3>1, <3>2
  <2> HIDE DEF last
  <2>3. h \in [1..(n + 1) -> Seq(T)]
    BY <2>2
  <2>4. ASSUME NEW i \in 1..(n + 1)
        PROVE  h[i] = IF i = 1 THEN seqs[i] ELSE h[i - 1] \o seqs[i]
    <3>1. CASE i = n + 1
      <4>1. h[i] = last /\ (n # 0 => h[i - 1] = g[n])
        BY <3>1
      <4>2. last = IF n = 0 THEN seqs[i] ELSE g[n] \o seqs[i]
        BY <3>1 DEF last
      <4>3. i - 1 = n /\ (i = 1 <=> n = 0)
        BY <3>1
      <4> QED
        BY <4>1, <4>2, <4>3
    <3>2. CASE i # n + 1
      <4>1. i \in 1..n /\ h[i] = g[i] /\ (i # 1 => h[i - 1] = g[i - 1])
        BY <3>2
      <4> HIDE DEF h
      <4> QED
        BY <2>1, <4>1
    <3> QED
      BY <3>1, <3>2
  <2> QED
    BY <2>3, <2>4
<1>4. N \in Reached
  <2>1. Nat \subseteq Reached
    <3> HIDE DEF Reached
    <3> QED
      BY <1>2, <1>3, Induction
  <2> HIDE DEF Reached
  <2> QED
    BY <1>1, <2>1
<1>5. PICK g \in [1..N -> Seq(T)] : Follows(g, N)
  <2>1. N <= N
    BY <1>1
  <2> QED
    BY <1>4, <2>1
<1>6. g = [i \in 1..N |-> IF i = 1 THEN seqs[i] ELSE g[i - 1] \o seqs[i]]
  BY <1>5
<1>7. flatten = [i \in 1..N |-> IF i = 1 THEN seqs[i] ELSE flatten[i - 1] \o seqs[i]]
  BY <1>6
<1>8. FlattenSeq(seqs) = flatten[N]
  BY <1>1 DEF FlattenSeq
<1> HIDE DEF flatten
<1>9. \A i \in 1..N : flatten[i] = IF i = 1 THEN seqs[i] ELSE flatten[i - 1] \o seqs[i]
  BY <1>7
<1> DEFINE Typed == {n \in Nat : n + 1 \in 1..N => flatten[n + 1] \in Seq(T)}
<1>10. 0 \in Typed
  BY <1>9, <1>1
<1>11. ASSUME NEW n \in Nat, n \in Typed PROVE n + 1 \in Typed
  <2> SUFFICES ASSUME (n + 1) + 1 \in 1..N PROVE flatten[(n + 1) + 1] \in Seq(T)
    OBVIOUS
  <2>1. flatten[n + 1] \in Seq(T) /\ seqs[(n + 1) + 1] \in Seq(T)
    BY <1>11, <1>1
  <2>2. flatten[(n + 1) + 1] = flatten[n + 1] \o seqs[(n + 1) + 1]
    <3>1. ((n + 1) + 1) - 1 = n + 1 /\ (n + 1) + 1 # 1
      OBVIOUS
    <3> QED
      BY <1>9, <3>1
  <2> QED
    BY <2>1, <2>2
<1>12. Nat \subseteq Typed
  <2> HIDE DEF Typed
  <2> QED
    BY <1>10, <1>11, Induction
<1>13. \A i \in 1..N : flatten[i] \in Seq(T)
  <2> TAKE i \in 1..N
  <2>1. i - 1 \in Nat /\ (i - 1) + 1 = i
    OBVIOUS
  <2> QED
    BY <2>1, <1>12
<1>14. flatten \in [1..N -> Seq(T)]
  BY <1>7, <1>13
<1> QED
  BY <1>8, <1>9, <1>14

(* The largest size_t.                                                     *)
LEMMA Words == npos = W - 1 /\ W = 65536
BY DEF W, npos

(* The least element is Min, the greatest is Max.                          *)
LEMMA MinIs ==
  ASSUME NEW S, S \subseteq Int, NEW x \in S, \A y \in S : x <= y
  PROVE  Min(S) = x
<1>1. PICK m \in S : Min(S) = m /\ \A y \in S : m <= y
  BY DEF Min
<1>2. m \in Int /\ x \in Int /\ m <= x /\ x <= m
  BY <1>1
<1> QED
  BY <1>1, <1>2

LEMMA MaxIs ==
  ASSUME NEW S, S \subseteq Int, NEW x \in S, \A y \in S : x >= y
  PROVE  Max(S) = x
<1>1. PICK m \in S : Max(S) = m /\ \A y \in S : m >= y
  BY DEF Max
<1>2. m \in Int /\ x \in Int /\ m <= x /\ x <= m
  BY <1>1
<1> QED
  BY <1>1, <1>2

(* Sequences of one and of two elements.                                   *)
LEMMA OneElement ==
  ASSUME NEW T, NEW s \in Seq(T), Len(s) = 1
  PROVE  s = <<s[1]>>
OBVIOUS

(* What the provers need to be told of short sequences, of parts of        *)
(* sequences and of two, one after the other.                              *)
LEMMA TwoElements ==
  ASSUME NEW T, NEW a \in T, NEW b \in T
  PROVE  <<a, b>> \in Seq(T) /\ Len(<<a, b>>) = 2 /\ <<a, b>>[1] = a /\ <<a, b>>[2] = b
OBVIOUS

LEMMA SubSeqFacts ==
  ASSUME NEW T, NEW s \in Seq(T), NEW a \in 1..(Len(s) + 1), NEW b \in (a - 1)..Len(s)
  PROVE  /\ SubSeq(s, a, b) \in Seq(T) /\ Len(SubSeq(s, a, b)) = b - a + 1
         /\ \A i \in 1..(b - a + 1) : SubSeq(s, a, b)[i] = s[a + i - 1]
OBVIOUS

LEMMA ConcatFacts ==
  ASSUME NEW T, NEW s \in Seq(T), NEW t \in Seq(T)
  PROVE  /\ s \o t \in Seq(T) /\ Len(s \o t) = Len(s) + Len(t)
         /\ \A i \in 1..Len(s) : (s \o t)[i] = s[i]
         /\ \A i \in 1..Len(t) : (s \o t)[Len(s) + i] = t[i]
OBVIOUS

LEMMA SameSequence ==
  ASSUME NEW T, NEW s \in Seq(T), NEW t \in Seq(T), Len(s) = Len(t),
         \A i \in 1..Len(s) : s[i] = t[i]
  PROVE  s = t
OBVIOUS

LEMMA SubSeqOfOne ==
  ASSUME NEW T, NEW s \in Seq(T), NEW i \in 1..Len(s)
  PROVE  SubSeq(s, i, i) = <<s[i]>>
<1> DEFINE u == SubSeq(s, i, i)
<1>1. u \in Seq(T) /\ Len(u) = 1 /\ u[1] = s[i]
  OBVIOUS
<1> HIDE DEF u
<1>2. u = <<u[1]>>
  BY <1>1, OneElement
<1> QED
  BY <1>1, <1>2 DEF u

LEMMA MinOfTwo ==
  ASSUME NEW a \in Int, NEW b \in Int, a <= b
  PROVE  Min({a, b}) = a
<1>1. {a, b} \subseteq Int /\ a \in {a, b} /\ \A y \in {a, b} : a <= y
  OBVIOUS
<1> QED
  BY <1>1, MinIs

(* A set of numbers up to n that is not empty has a greatest one, and a    *)
(* set of any numbers a least one.                                         *)
LEMMA FiniteMax ==
  ASSUME NEW n \in Nat, NEW S, S \subseteq 0..n, S # {}
  PROVE  Max(S) \in S /\ \A y \in S : y <= Max(S)
<1> DEFINE T == {n - x : x \in S}
<1>1. T \subseteq Nat /\ T # {}
  <2>1. \A x \in S : n - x \in Nat
    OBVIOUS
  <2>2. PICK x \in S : TRUE
    OBVIOUS
  <2>3. n - x \in T
    BY <2>2
  <2> QED
    BY <2>1, <2>3
<1>2. PICK t \in T : \A y \in T : t <= y
  BY <1>1, LeastNatural
<1>3. PICK x \in S : t = n - x
  BY <1>2
<1>4. \A y \in S : y <= x
  <2> TAKE y \in S
  <2>1. n - y \in T /\ n - x <= n - y
    BY <1>2, <1>3
  <2> QED
    BY <2>1
<1>5. S \subseteq Int /\ \A y \in S : x >= y
  BY <1>4
<1>6. Max(S) = x
  BY <1>5, MaxIs
<1> QED
  BY <1>4, <1>6

LEMMA FiniteMin ==
  ASSUME NEW S, S \subseteq Nat, S # {}
  PROVE  Min(S) \in S /\ \A y \in S : Min(S) <= y
<1>1. PICK x \in S : \A y \in S : x <= y
  BY LeastNatural
<1>2. Min(S) = x
  <2>1. S \subseteq Int
    OBVIOUS
  <2> QED
    BY <1>1, <2>1, MinIs
<1> QED
  BY <1>1, <1>2

(* The tokens of strings: all of them are in STRING, which the provers do  *)
(* not know of those named here.                                           *)
Token == STRING \cup Delimiters \cup Whitespace \cup {",", "status", "content-length"}

(* substr, from a position in the string: the n characters from there, or  *)
(* those that there are.                                                   *)
LEMMA SubstrFacts ==
  ASSUME NEW s \in Seq(Token), NEW from \in 0..Len(s), NEW n \in Nat
  PROVE  /\ Substr(s, from, n) \in Seq(Token)
         /\ Len(Substr(s, from, n)) = IF from + n <= Len(s) THEN n ELSE Len(s) - from
         /\ \A i \in 1..Len(Substr(s, from, n)) : Substr(s, from, n)[i] = s[from + i]
<1> DEFINE b == IF from + n <= Len(s) THEN from + n ELSE Len(s)
<1>1. Len(s) \in Nat /\ from \in Nat
  OBVIOUS
<1>2. Min({from + n, Len(s)}) = b
  <2>1. CASE from + n <= Len(s)
    BY <1>1, <2>1, MinOfTwo
  <2>2. CASE ~(from + n <= Len(s))
    <3>1. Len(s) <= from + n /\ {from + n, Len(s)} = {Len(s), from + n}
      BY <1>1, <2>2
    <3> QED
      BY <1>1, <2>2, <3>1, MinOfTwo
  <2> QED
    BY <2>1, <2>2
<1>3. from + 1 \in 1..(Len(s) + 1) /\ b \in ((from + 1) - 1)..Len(s)
  BY <1>1
<1>4. /\ SubSeq(s, from + 1, b) \in Seq(Token)
      /\ Len(SubSeq(s, from + 1, b)) = b - (from + 1) + 1
  BY <1>3, SubSeqFacts
<1>7. \A i \in 1..(b - (from + 1) + 1) : SubSeq(s, from + 1, b)[i] = s[from + i]
  <2>1. \A i \in 1..(b - (from + 1) + 1) : SubSeq(s, from + 1, b)[i] = s[(from + 1) + i - 1]
    BY <1>3, SubSeqFacts
  <2>2. \A i \in 1..(b - (from + 1) + 1) : (from + 1) + i - 1 = from + i
    BY <1>1
  <2> QED
    BY <2>1, <2>2
<1>5. Substr(s, from, n) = SubSeq(s, from + 1, b)
  BY <1>2 DEF Substr
<1>6. b - (from + 1) + 1 = IF from + n <= Len(s) THEN n ELSE Len(s) - from
  BY <1>1
<1> QED
  BY <1>4, <1>5, <1>6, <1>7

LEMMA Singleton ==
  ASSUME NEW T, NEW x \in T
  PROVE  /\ <<x>> \in Seq(T) /\ Len(<<x>>) = 1 /\ <<x>>[1] = x /\ <<x>> # <<>>
         /\ <<>> \in Seq(T)
OBVIOUS

-----------------------------------------------------------------------------
(* Searches for a token.                                                   *)

IsFirst(r, s, c, from) ==
  \/ r = npos /\ \A i \in Positions(s) : i >= from => s[i + 1] # c
  \/ /\ r \in Positions(s) /\ r >= from /\ s[r + 1] = c
     /\ \A i \in Positions(s) : i >= from /\ i < r => s[i + 1] # c

IsLast(r, s, c, from) ==
  \/ r = npos /\ \A i \in Positions(s) : i <= from => s[i + 1] # c
  \/ /\ r \in Positions(s) /\ r <= from /\ s[r + 1] = c
     /\ \A i \in Positions(s) : i <= from /\ i > r => s[i + 1] # c

IsFirstOther(r, s, c, from) ==
  \/ r = npos /\ \A i \in Positions(s) : i >= from => s[i + 1] = c
  \/ /\ r \in Positions(s) /\ r >= from /\ s[r + 1] # c
     /\ \A i \in Positions(s) : i >= from /\ i < r => s[i + 1] = c

LEMMA AtOne ==
  ASSUME NEW s \in Seq(Token), NEW c \in Token, NEW i \in Positions(s)
  PROVE  At(s, <<c>>, i) <=> s[i + 1] = c
<1>1. Len(s) \in Nat /\ i \in Nat /\ i + 1 \in 1..Len(s)
  BY DEF Positions
<1>2. Len(<<c>>) = 1 /\ <<c>>[1] = c
  OBVIOUS
<1>3. SubSeq(s, i + 1, i + 1) = <<s[i + 1]>>
  BY <1>1, SubSeqOfOne
<1>4. At(s, <<c>>, i) <=> <<s[i + 1]>> = <<c>>
  BY <1>1, <1>2, <1>3 DEF At
<1>5. <<s[i + 1]>>[1] = s[i + 1]
  OBVIOUS
<1> QED
  BY <1>2, <1>4, <1>5

(* find, rfind and find_first_not_of, of a token from a position on.       *)
LEMMA FindToken ==
  ASSUME NEW s \in Seq(Token), NEW c \in Token, NEW from \in Nat
  PROVE  IsFirst(Find(s, <<c>>, from), s, c, from)
<1> DEFINE Found == {i \in Positions(s) : i >= from /\ At(s, <<c>>, i)}
<1>1. Positions(s) \subseteq Nat
  BY DEF Positions
<1>2. \A i \in Positions(s) : i \in Found <=> i >= from /\ s[i + 1] = c
  BY AtOne
<1>3. Find(s, <<c>>, from) = Lowest(Found) /\ Found \subseteq Positions(s)
  BY DEF Find
<1> HIDE DEF Found
<1>4. Found # {} => Min(Found) \in Found /\ \A i \in Found : Min(Found) <= i
  BY <1>1, <1>3, FiniteMin
<1>5. CASE Found = {}
  BY <1>2, <1>3, <1>5 DEF IsFirst, Lowest
<1>6. CASE Found # {}
  <2> DEFINE r == Find(s, <<c>>, from)
  <2>1. r = Min(Found)
    BY <1>3, <1>6 DEF Lowest
  <2> HIDE DEF r
  <2>2. r \in Found /\ r \in Positions(s) /\ \A i \in Found : r <= i
    BY <1>3, <1>4, <1>6, <2>1
  <2>3. \A i \in Positions(s) : i < r => i \notin Found
    BY <1>1, <2>2
  <2>4. IsFirst(r, s, c, from)
    BY <1>2, <2>2, <2>3 DEF IsFirst
  <2> QED
    BY <2>4 DEF r
<1> QED
  BY <1>5, <1>6

LEMMA RFindToken ==
  ASSUME NEW s \in Seq(Token), NEW c \in Token, NEW from \in Nat
  PROVE  IsLast(RFind(s, <<c>>, from), s, c, from)
<1> DEFINE Found == {i \in Positions(s) : i <= from /\ At(s, <<c>>, i)}
<1>1. Positions(s) \subseteq 0..Len(s) /\ Len(s) \in Nat
  BY DEF Positions
<1>2. \A i \in Positions(s) : i \in Found <=> i <= from /\ s[i + 1] = c
  BY AtOne
<1>3. RFind(s, <<c>>, from) = Highest(Found) /\ Found \subseteq Positions(s)
  BY DEF RFind
<1> HIDE DEF Found
<1>4. Found # {} => Max(Found) \in Found /\ \A i \in Found : i <= Max(Found)
  BY <1>1, <1>3, FiniteMax
<1>5. CASE Found = {}
  BY <1>2, <1>3, <1>5 DEF IsLast, Highest
<1>6. CASE Found # {}
  <2> DEFINE r == RFind(s, <<c>>, from)
  <2>1. r = Max(Found)
    BY <1>3, <1>6 DEF Highest
  <2> HIDE DEF r
  <2>2. r \in Found /\ r \in Positions(s) /\ \A i \in Found : i <= r
    BY <1>3, <1>4, <1>6, <2>1
  <2>3. \A i \in Positions(s) : i > r => i \notin Found
    BY <1>1, <2>2
  <2>4. IsLast(r, s, c, from)
    BY <1>2, <2>2, <2>3 DEF IsLast
  <2> QED
    BY <2>4 DEF r
<1> QED
  BY <1>5, <1>6

LEMMA FindOther ==
  ASSUME NEW s \in Seq(Token), NEW c \in Token, NEW from \in Nat
  PROVE  IsFirstOther(FindFirstNotOf(s, c, from), s, c, from)
<1> DEFINE Found == {i \in Positions(s) : i >= from /\ s[i + 1] # c}
<1>1. Positions(s) \subseteq Nat
  BY DEF Positions
<1>2. \A i \in Positions(s) : i \in Found <=> i >= from /\ s[i + 1] # c
  OBVIOUS
<1>3. FindFirstNotOf(s, c, from) = Lowest(Found) /\ Found \subseteq Positions(s)
  BY DEF FindFirstNotOf
<1> HIDE DEF Found
<1>4. Found # {} => Min(Found) \in Found /\ \A i \in Found : Min(Found) <= i
  BY <1>1, <1>3, FiniteMin
<1>5. CASE Found = {}
  BY <1>2, <1>3, <1>5 DEF IsFirstOther, Lowest
<1>6. CASE Found # {}
  <2> DEFINE r == FindFirstNotOf(s, c, from)
  <2>1. r = Min(Found)
    BY <1>3, <1>6 DEF Lowest
  <2> HIDE DEF r
  <2>2. r \in Found /\ r \in Positions(s) /\ \A i \in Found : r <= i
    BY <1>3, <1>4, <1>6, <2>1
  <2>3. \A i \in Positions(s) : i < r => i \notin Found
    BY <1>1, <2>2
  <2>4. IsFirstOther(r, s, c, from)
    BY <1>2, <2>2, <2>3 DEF IsFirstOther
  <2> QED
    BY <2>4 DEF r
<1> QED
  BY <1>5, <1>6

-----------------------------------------------------------------------------
(* The text of a path: where its parts are.                                *)

(* L[k] is the length of the first k parts with their delimiters.          *)
Measures(L, path) ==
  /\ L \in [0..Len(path) -> Nat] /\ L[0] = 0
  /\ \A k \in 1..Len(path) : L[k] = L[k - 1] + 1 + Len(path[k])

LaidOut(L, path, t) ==
  /\ Measures(L, path) /\ Len(t) = L[Len(path)]
  /\ \A k \in 1..Len(path) :
       /\ L[k] <= Len(t) /\ t[L[k - 1] + 1] = "/"
       /\ \A j \in 1..Len(path[k]) : t[L[k - 1] + 1 + j] = path[k][j]

LEMMA SomeTokens ==
  /\ ":" \in Token /\ "/" \in Token /\ "@" \in Token /\ "?" \in Token /\ "#" \in Token
  /\ "," \in Token /\ "status" \in Token /\ CR \in Token /\ LF \in Token
BY DEF Token, Delimiters, Whitespace

(* A token and what comes after it.                                        *)
LEMMA OneAndRest ==
  ASSUME NEW T, NEW x \in T, NEW part \in Seq(T)
  PROVE  /\ <<x>> \o part \in Seq(T) /\ Len(<<x>> \o part) = 1 + Len(part)
         /\ (<<x>> \o part)[1] = x
         /\ \A j \in 1..Len(part) : (<<x>> \o part)[1 + j] = part[j]
<1> DEFINE t == <<x>>
<1>1. t \in Seq(T) /\ part \in Seq(T) /\ Len(t) = 1 /\ t[1] = x
  BY Singleton
<1> HIDE DEF t
<1>2. t \o part \in Seq(T) /\ Len(t \o part) = Len(t) + Len(part)
  BY <1>1, ConcatFacts
<1>3. \A i \in 1..Len(t) : (t \o part)[i] = t[i]
  BY <1>1, ConcatFacts
<1>4. \A i \in 1..Len(part) : (t \o part)[Len(t) + i] = part[i]
  <2> DEFINE y == part
  <2>1. y \in Seq(T)
    OBVIOUS
  <2> HIDE DEF y
  <2>2. \A i \in 1..Len(y) : (t \o y)[Len(t) + i] = y[i]
    BY <1>1, <2>1, ConcatFacts
  <2> QED
    BY <2>2 DEF y
<1>5. 1 \in 1..Len(t)
  BY <1>1
<1>6. (t \o part)[1] = x
  BY <1>1, <1>3, <1>5
<1>7. /\ t \o part \in Seq(T) /\ Len(t \o part) = 1 + Len(part) /\ (t \o part)[1] = x
      /\ \A j \in 1..Len(part) : (t \o part)[1 + j] = part[j]
  BY <1>1, <1>2, <1>4, <1>6
<1> QED
  BY <1>7 DEF t

(* Each of several sequences is where it should be in what FlattenSeq      *)
(* makes of them.                                                          *)
LEMMA FlattenIsLaidOut ==
  ASSUME NEW T, NEW seqs \in Seq(Seq(T)), seqs # <<>>
  PROVE  /\ FlattenSeq(seqs) \in Seq(T)
         /\ \E L \in [0..Len(seqs) -> Nat] :
              /\ L[0] = 0 /\ Len(FlattenSeq(seqs)) = L[Len(seqs)]
              /\ \A k \in 1..Len(seqs) :
                   /\ L[k] = L[k - 1] + Len(seqs[k]) /\ L[k] <= Len(FlattenSeq(seqs))
                   /\ \A j \in 1..Len(seqs[k]) : FlattenSeq(seqs)[L[k - 1] + j] = seqs[k][j]
<1> DEFINE m == Len(seqs)
           t == FlattenSeq(seqs)
<1>1. m \in Nat /\ m >= 1 /\ m = Len(seqs) /\ \A i \in 1..m : seqs[i] \in Seq(T)
  OBVIOUS
<1> HIDE DEF t, m
<1>6. PICK g \in [1..m -> Seq(T)] :
        /\ t = g[m]
        /\ \A i \in 1..m : g[i] = IF i = 1 THEN seqs[i] ELSE g[i - 1] \o seqs[i]
  BY <1>1, Flattening DEF t
<1> DEFINE L == [k \in 0..m |-> IF k = 0 THEN 0 ELSE Len(g[k])]
<1>7. \A k \in 1..m : /\ g[k] \in Seq(T) /\ Len(g[k]) \in Nat
                      /\ seqs[k] \in Seq(T) /\ Len(seqs[k]) \in Nat
  <2>1. \A q \in Seq(T) : Len(q) \in Nat
    OBVIOUS
  <2>2. \A k \in 1..m : g[k] \in Seq(T) /\ seqs[k] \in Seq(T)
    BY <1>1, <1>6
  <2> QED
    BY <2>1, <2>2
<1>8. L \in [0..m -> Nat] /\ L[0] = 0 /\ \A k \in 1..m : L[k] = Len(g[k])
  BY <1>1, <1>7
<1> HIDE DEF L
<1>9. ASSUME NEW k \in 1..m
      PROVE  /\ L[k] = L[k - 1] + Len(seqs[k]) /\ L[k - 1] \in Nat /\ Len(seqs[k]) \in Nat
             /\ \A j \in 1..Len(seqs[k]) : g[k][L[k - 1] + j] = seqs[k][j]
             /\ k > 1 => \A j \in 1..Len(g[k - 1]) : g[k][j] = g[k - 1][j]
  <2>0. k \in Nat /\ k >= 1 /\ seqs[k] \in Seq(T) /\ Len(seqs[k]) \in Nat
    BY <1>1, <1>7
  <2>1. CASE k = 1
    <3>0. 1 \in 1..m /\ k = 1 /\ k - 1 = 0
      BY <1>1, <2>1
    <3>1. g[1] = seqs[1]
      BY <1>6, <3>0
    <3>3. L[k - 1] = 0 /\ L[k] = Len(g[k])
      BY <1>8, <3>0
    <3>2. \A j \in 1..Len(seqs[k]) : 0 + j = j
      BY <2>0
    <3> QED
      BY <2>0, <3>0, <3>1, <3>2, <3>3
  <2>2. CASE k # 1
    <3>1. k - 1 \in 1..m
      BY <1>1, <2>0, <2>2
    <3>2. g[k] = g[k - 1] \o seqs[k] /\ L[k - 1] = Len(g[k - 1]) /\ L[k] = Len(g[k])
      BY <1>6, <1>8, <2>2, <3>1
    <3> DEFINE a == g[k - 1]
               b == seqs[k]
    <3>3. a \in Seq(T) /\ Len(a) \in Nat /\ b \in Seq(T) /\ Len(b) \in Nat
      BY <1>7, <2>0, <3>1
    <3>4. g[k] = a \o b
      BY <3>2
    <3> HIDE DEF a, b
    <3>5. Len(a \o b) = Len(a) + Len(b)
      BY <3>3, ConcatFacts
    <3>6. \A j \in 1..Len(a) : (a \o b)[j] = a[j]
      BY <3>3, ConcatFacts
    <3>7. \A j \in 1..Len(b) : (a \o b)[Len(a) + j] = b[j]
      BY <3>3, ConcatFacts
    <3> QED
      BY <2>0, <3>2, <3>3, <3>4, <3>5, <3>6, <3>7 DEF a, b
  <2> QED
    BY <2>1, <2>2
<1> DEFINE Begins(a, b) == Len(a) <= Len(b) /\ \A j \in 1..Len(a) : b[j] = a[j]
           Good == {n \in Nat : n + 1 \in 1..m => \A k \in 1..(n + 1) : Begins(g[k], g[n + 1])}
<1>10. 0 \in Good
  BY <1>1, <1>7
<1>11. ASSUME NEW n \in Nat, n \in Good PROVE n + 1 \in Good
  <2> SUFFICES ASSUME (n + 1) + 1 \in 1..m, NEW k \in 1..((n + 1) + 1)
               PROVE  Begins(g[k], g[(n + 1) + 1])
    OBVIOUS
  <2>1. CASE k = (n + 1) + 1
    BY <1>7, <2>1
  <2>2. CASE k # (n + 1) + 1
    <3>1. n + 1 \in 1..m /\ k \in 1..(n + 1) /\ k \in 1..m
      BY <1>1, <2>2
    <3>2. Begins(g[k], g[n + 1])
      BY <1>11, <3>1
    <3>3. ((n + 1) + 1) - 1 = n + 1 /\ (n + 1) + 1 > 1
      OBVIOUS
    <3> DEFINE a == g[k]
               b == g[n + 1]
               c == g[(n + 1) + 1]
    <3>4. \A j \in 1..Len(b) : c[j] = b[j]
      BY <1>9, <3>3
    <3>5. Len(c) >= Len(b)
      <4> DEFINE rest == seqs[(n + 1) + 1]
      <4>1. L[(n + 1) + 1] = L[n + 1] + Len(rest) /\ L[n + 1] \in Nat /\ Len(rest) \in Nat
        BY <1>9, <3>3
      <4>2. L[(n + 1) + 1] = Len(c) /\ L[n + 1] = Len(b)
        BY <1>8, <3>1
      <4> HIDE DEF b, c, rest
      <4> QED
        BY <4>1, <4>2
    <3>6. Len(a) \in Nat /\ Len(b) \in Nat /\ Len(c) \in Nat
      BY <1>7, <3>1
    <3>7. Begins(a, b)
      BY <3>2
    <3> HIDE DEF a, b, c
    <3>8. Len(a) <= Len(b) /\ \A j \in 1..Len(a) : j \in 1..Len(b) /\ b[j] = a[j]
      BY <3>6, <3>7
    <3>9. Begins(a, c)
      BY <3>4, <3>5, <3>6, <3>8
    <3> QED
      BY <3>9 DEF a, c
  <2> QED
    BY <2>1, <2>2
<1>12. Nat \subseteq Good
  <2> HIDE DEF Good
  <2> QED
    BY <1>10, <1>11, Induction
<1>13. ASSUME NEW k \in 1..m PROVE Begins(g[k], t)
  <2>1. m - 1 \in Nat /\ (m - 1) + 1 = m
    BY <1>1
  <2>2. m - 1 \in Good
    BY <1>12, <2>1
  <2>3. \A l \in 1..m : Begins(g[l], g[m])
    BY <1>1, <2>1, <2>2
  <2> QED
    BY <1>6, <2>3
<1> HIDE DEF Good
<1>14. ASSUME NEW k \in 1..m
       PROVE  /\ L[k] = L[k - 1] + Len(seqs[k]) /\ L[k] <= Len(t)
              /\ \A j \in 1..Len(seqs[k]) : t[L[k - 1] + j] = seqs[k][j]
  <2> DEFINE text == seqs[k]
             before == L[k - 1]
  <2>1. L[k] <= Len(t) /\ \A j \in 1..L[k] : t[j] = g[k][j]
    BY <1>8, <1>13
  <2>2. /\ L[k] = before + Len(text) /\ before \in Nat /\ Len(text) \in Nat
        /\ \A j \in 1..Len(text) : g[k][before + j] = text[j]
    BY <1>9
  <2> HIDE DEF text, before
  <2>3. ASSUME NEW j \in 1..Len(text) PROVE t[before + j] = text[j]
    <3>1. before + j \in 1..L[k]
      BY <2>2
    <3> QED
      BY <2>1, <2>2, <3>1
  <2> QED
    BY <2>1, <2>2, <2>3 DEF text, before
<1>15. Len(t) = L[m] /\ t \in Seq(T)
  BY <1>1, <1>6, <1>7, <1>8
<1> QED
  BY <1>1, <1>8, <1>14, <1>15 DEF t

(* Each segment of a path is in its text, at the place that one measure of *)
(* the path gives.                                                         *)
LEMMA PathIsLaidOut ==
  ASSUME NEW path \in Seq(Seq(Token)), path # <<>>
  PROVE  PathText(path) \in Seq(Token) /\ \E L : LaidOut(L, path, PathText(path))
<1> DEFINE m == Len(path)
           seqs == [i \in DOMAIN path |-> <<"/">> \o path[i]]
           t == PathText(path)
<1>1. m \in Nat /\ m >= 1 /\ m = Len(path) /\ DOMAIN path = 1..m /\ \A i \in 1..m : path[i] \in Seq(Token)
  OBVIOUS
<1>2. ASSUME NEW k \in 1..m
      PROVE  /\ seqs[k] \in Seq(Token) /\ Len(seqs[k]) = 1 + Len(path[k]) /\ seqs[k][1] = "/"
             /\ \A j \in 1..Len(path[k]) : seqs[k][1 + j] = path[k][j]
  <2> DEFINE part == path[k]
  <2>1. seqs[k] = <<"/">> \o part /\ part \in Seq(Token) /\ "/" \in Token
    BY <1>1, SomeTokens
  <2> HIDE DEF seqs, part
  <2>2. /\ seqs[k] \in Seq(Token) /\ Len(seqs[k]) = 1 + Len(part) /\ seqs[k][1] = "/"
        /\ \A j \in 1..Len(part) : seqs[k][1 + j] = part[j]
    BY <2>1, OneAndRest
  <2> QED
    BY <2>2 DEF part
<1>3. seqs = [i \in 1..m |-> seqs[i]]
  BY <1>1
<1>4. t = FlattenSeq(seqs)
  BY DEF PathText
<1> HIDE DEF seqs, t, m
<1>5. seqs \in Seq(Seq(Token)) /\ Len(seqs) = m /\ seqs # <<>>
  BY <1>1, <1>2, <1>3
<1>6. /\ t \in Seq(Token)
      /\ \E L \in [0..Len(seqs) -> Nat] :
           /\ L[0] = 0 /\ Len(t) = L[Len(seqs)]
           /\ \A k \in 1..Len(seqs) :
                /\ L[k] = L[k - 1] + Len(seqs[k]) /\ L[k] <= Len(t)
                /\ \A j \in 1..Len(seqs[k]) : t[L[k - 1] + j] = seqs[k][j]
  <2> DEFINE text == FlattenSeq(seqs)
  <2>1. /\ text \in Seq(Token)
        /\ \E L \in [0..Len(seqs) -> Nat] :
             /\ L[0] = 0 /\ Len(text) = L[Len(seqs)]
             /\ \A k \in 1..Len(seqs) :
                  /\ L[k] = L[k - 1] + Len(seqs[k]) /\ L[k] <= Len(text)
                  /\ \A j \in 1..Len(seqs[k]) : text[L[k - 1] + j] = seqs[k][j]
    BY <1>5, FlattenIsLaidOut, Zenon
  <2>2. t = text
    BY <1>4
  <2> HIDE DEF text
  <2> QED
    BY <2>1, <2>2, Zenon
<1>8. PICK L \in [0..Len(seqs) -> Nat] :
        /\ L[0] = 0 /\ Len(t) = L[Len(seqs)]
        /\ \A k \in 1..Len(seqs) :
             /\ L[k] = L[k - 1] + Len(seqs[k]) /\ L[k] <= Len(t)
             /\ \A j \in 1..Len(seqs[k]) : t[L[k - 1] + j] = seqs[k][j]
  BY <1>6
<1>7. /\ L \in [0..m -> Nat] /\ L[0] = 0 /\ Len(t) = L[m]
      /\ \A k \in 1..m :
           /\ L[k] = L[k - 1] + Len(seqs[k]) /\ L[k] <= Len(t)
           /\ \A j \in 1..Len(seqs[k]) : t[L[k - 1] + j] = seqs[k][j]
  <2>1. Len(seqs) = m
    BY <1>5
  <2>2. L \in [0..m -> Nat]
    BY <1>8, <2>1
  <2>3. L[0] = 0 /\ Len(t) = L[m]
    BY <1>8, <2>1
  <2>4. ASSUME NEW k \in 1..m
        PROVE  /\ L[k] = L[k - 1] + Len(seqs[k]) /\ L[k] <= Len(t)
               /\ \A j \in 1..Len(seqs[k]) : t[L[k - 1] + j] = seqs[k][j]
    <3>1. k \in 1..Len(seqs)
      BY <2>1
    <3> QED
      BY <1>8, <3>1
  <2> QED
    BY <2>2, <2>3, <2>4
<1>14. ASSUME NEW k \in 1..m
       PROVE  /\ L[k] = L[k - 1] + 1 + Len(path[k])
              /\ L[k] <= Len(t) /\ t[L[k - 1] + 1] = "/"
              /\ \A j \in 1..Len(path[k]) : t[L[k - 1] + 1 + j] = path[k][j]
  <2> DEFINE part == path[k]
             text == seqs[k]
             before == L[k - 1]
  <2>1. L[k] <= Len(t) /\ \A j \in 1..Len(text) : t[before + j] = text[j]
    BY <1>7
  <2>2. L[k] = before + Len(text) /\ before \in Nat
    <3>1. k - 1 \in 0..m
      BY <1>1
    <3> QED
      BY <1>7, <3>1
  <2>3. /\ Len(part) \in Nat /\ Len(text) = 1 + Len(part) /\ text[1] = "/"
        /\ \A j \in 1..Len(part) : text[1 + j] = part[j]
    BY <1>1, <1>2
  <2> HIDE DEF part, text, before
  <2>5. t[before + 1] = "/"
    <3>1. 1 \in 1..Len(text)
      BY <2>3
    <3> QED
      BY <2>1, <2>3, <3>1
  <2>6. ASSUME NEW j \in 1..Len(part) PROVE t[before + 1 + j] = part[j]
    <3>1. 1 + j \in 1..Len(text) /\ before + 1 + j = before + (1 + j)
      BY <2>2, <2>3
    <3> QED
      BY <2>1, <2>3, <3>1
  <2>7. L[k] = before + 1 + Len(part)
    BY <2>2, <2>3
  <2> QED
    BY <2>1, <2>5, <2>6, <2>7 DEF part, before
<1>15. LaidOut(L, path, t) /\ t \in Seq(Token)
  <2>1. Measures(L, path)
    BY <1>1, <1>7, <1>14 DEF Measures
  <2>2. Len(t) = L[m] /\ t \in Seq(Token)
    BY <1>6, <1>7
  <2> QED
    BY <1>1, <1>14, <2>1, <2>2 DEF LaidOut
<1> QED
  BY <1>15 DEF t

(* The measures of a path are one.                                         *)
LEMMA MeasuresAgree ==
  ASSUME NEW path \in Seq(Seq(Token)), NEW L, Measures(L, path), NEW M, Measures(M, path)
  PROVE  L[Len(path)] = M[Len(path)]
<1> DEFINE m == Len(path)
           Same == {n \in Nat : n \in 0..m => L[n] = M[n]}
<1>1. m \in Nat /\ m = Len(path)
  OBVIOUS
<1> HIDE DEF m
<1>2. 0 \in Same
  BY <1>1 DEF Measures
<1>3. ASSUME NEW n \in Nat, n \in Same PROVE n + 1 \in Same
  <2> SUFFICES ASSUME n + 1 \in 0..m PROVE L[n + 1] = M[n + 1]
    OBVIOUS
  <2>1. n + 1 \in 1..m /\ n \in 0..m /\ (n + 1) - 1 = n
    BY <1>1
  <2>2. L[n] = M[n]
    BY <1>3, <2>1
  <2>3. L[n + 1] = L[(n + 1) - 1] + 1 + Len(path[n + 1])
    BY <1>1, <2>1 DEF Measures
  <2>4. M[n + 1] = M[(n + 1) - 1] + 1 + Len(path[n + 1])
    BY <1>1, <2>1 DEF Measures
  <2> QED
    BY <2>1, <2>2, <2>3, <2>4
<1>4. Nat \subseteq Same
  <2> HIDE DEF Same
  <2> QED
    BY <1>2, <1>3, Induction
<1>5. m \in 0..m
  BY <1>1
<1> QED
  BY <1>1, <1>4, <1>5

(* Each token of the text is in a part or before it.                       *)
LEMMA InSomePart ==
  ASSUME NEW path \in Seq(Seq(Token)), NEW L, NEW t \in Seq(Token), LaidOut(L, path, t),
         NEW p \in 1..Len(t)
  PROVE  \E k \in 1..Len(path) : L[k - 1] < p /\ p <= L[k]
<1> DEFINE m == Len(path)
           S == {k \in 1..m : p <= L[k]}
<1>1. m \in Nat /\ m = Len(path) /\ p \in Nat /\ p >= 1
  OBVIOUS
<1> HIDE DEF m
<1>2. L \in [0..m -> Nat] /\ L[0] = 0 /\ Len(t) = L[m]
  BY <1>1 DEF LaidOut, Measures
<1>3. m \in S
  BY <1>1, <1>2
<1>4. S \subseteq Nat
  BY <1>1
<1>5. PICK k \in S : \A l \in S : k <= l
  BY <1>3, <1>4, LeastNatural
<1>6. k \in 1..m /\ p <= L[k] /\ k \in Nat
  BY <1>4, <1>5
<1>7. L[k - 1] < p
  <2>1. CASE k = 1
    BY <1>1, <1>2, <2>1
  <2>2. CASE k # 1
    <3>1. k - 1 \in 1..m /\ ~(k <= k - 1)
      BY <1>1, <1>6, <2>2
    <3>2. k - 1 \notin S
      BY <1>5, <3>1
    <3>4. k - 1 \in 0..m
      BY <1>1, <1>6
    <3>3. L[k - 1] \in Nat
      BY <1>2, <3>4
    <3> QED
      BY <1>1, <3>1, <3>2, <3>3
  <2> QED
    BY <2>1, <2>2
<1> QED
  BY <1>1, <1>6, <1>7

GoodPath(path) == \A i \in DOMAIN path : path[i] # <<>> /\ ~Has(path[i], "/")

(* The text of a path begins with a slash, and its other tokens are slashes *)
(* and those of the parts.                                                 *)
LEMMA PathTextFacts ==
  ASSUME NEW path \in Seq(Seq(Token))
  PROVE  LET t == PathText(path) IN
         /\ t \in Seq(Token) /\ Len(t) >= 1 /\ t[1] = "/"
         /\ path = <<>> => Len(t) = 1
         /\ \A p \in 1..Len(t) : t[p] = "/" \/ \E i \in DOMAIN path : Has(path[i], t[p])
         /\ \A i \in DOMAIN path, x \in Token : Has(path[i], x) => \E p \in 2..Len(t) : t[p] = x
         /\ GoodPath(path) /\ Len(t) >= 2 => t[2] # "/"
<1> DEFINE t == PathText(path)
<1>1. CASE path = <<>>
  <2>1. t = <<"/">> /\ DOMAIN path = {}
    BY <1>1 DEF PathText
  <2>2. t \in Seq(Token) /\ Len(t) = 1 /\ t[1] = "/"
    BY <2>1, SomeTokens, Singleton
  <2> HIDE DEF t
  <2> QED
    BY <2>1, <2>2 DEF t
<1>2. CASE path # <<>>
  <2>1. PICK L : LaidOut(L, path, t) /\ t \in Seq(Token)
    BY <1>2, PathIsLaidOut
  <2> HIDE DEF t
  <2> DEFINE m == Len(path)
  <2>2. m \in Nat /\ m >= 1 /\ m = Len(path) /\ DOMAIN path = 1..m
    BY <1>2
  <2> HIDE DEF m
  <2>3. \A k \in 1..m : path[k] \in Seq(Token) /\ Len(path[k]) \in Nat /\ DOMAIN path[k] = 1..Len(path[k])
    BY <2>2
  <2>4. /\ L \in [0..m -> Nat] /\ L[0] = 0 /\ Len(t) \in Nat
        /\ \A k \in 1..m :
             /\ L[k] = L[k - 1] + 1 + Len(path[k]) /\ L[k] <= Len(t) /\ t[L[k - 1] + 1] = "/"
             /\ \A j \in 1..Len(path[k]) : t[L[k - 1] + 1 + j] = path[k][j]
    BY <2>1, <2>2 DEF LaidOut, Measures
  <2>5. 1 \in 1..m /\ 1 - 1 = 0
    BY <2>2
  <2>6. L[1] = 1 + Len(path[1]) /\ L[1] <= Len(t) /\ t[1] = "/" /\ Len(path[1]) \in Nat
    BY <2>3, <2>4, <2>5
  <2>7. Len(t) >= 1
    BY <2>4, <2>6
  <2>8. ASSUME NEW p \in 1..Len(t) PROVE t[p] = "/" \/ \E i \in DOMAIN path : Has(path[i], t[p])
    <3>1. PICK k \in 1..m : L[k - 1] < p /\ p <= L[k]
      BY <2>1, <2>2, InSomePart
    <3> DEFINE part == path[k]
               before == L[k - 1]
    <3>0. k - 1 \in 0..m
      BY <2>2
    <3>2. before \in Nat /\ Len(part) \in Nat /\ DOMAIN part = 1..Len(part) /\ L[k] = before + 1 + Len(part)
      BY <2>3, <2>4, <3>0
    <3>3. t[before + 1] = "/" /\ \A j \in 1..Len(part) : t[before + 1 + j] = part[j]
      BY <2>4
    <3>4. before < p /\ p <= L[k]
      BY <3>1
    <3> HIDE DEF part, before
    <3>5. CASE p = before + 1
      BY <3>3, <3>5
    <3>6. CASE p # before + 1
      <4>1. p - (before + 1) \in 1..Len(part) /\ before + 1 + (p - (before + 1)) = p
        BY <2>4, <3>2, <3>4, <3>6
      <4>2. t[p] = part[p - (before + 1)]
        BY <3>3, <4>1
      <4>3. Has(part, t[p])
        BY <3>2, <4>1, <4>2 DEF Has, ToSet
      <4> QED
        BY <2>2, <4>3 DEF part
    <3> QED
      BY <3>5, <3>6
  <2>9. ASSUME NEW i \in DOMAIN path, NEW x \in Token, Has(path[i], x)
        PROVE  \E p \in 2..Len(t) : t[p] = x
    <3> DEFINE part == path[i]
               before == L[i - 1]
    <3>1. i \in 1..m
      BY <2>2
    <3>2. before \in Nat /\ Len(part) \in Nat /\ DOMAIN part = 1..Len(part) /\ L[i] = before + 1 + Len(part)
      BY <2>2, <2>3, <2>4, <3>1
    <3>3. L[i] <= Len(t) /\ \A j \in 1..Len(part) : t[before + 1 + j] = part[j]
      BY <2>4, <3>1
    <3>4. Has(part, x)
      BY <2>9
    <3> HIDE DEF part, before
    <3>5. PICK j \in 1..Len(part) : part[j] = x
      BY <3>2, <3>4 DEF Has, ToSet
    <3>6. before + 1 + j \in 2..Len(t)
      BY <2>4, <3>2, <3>3
    <3> QED
      BY <3>3, <3>5, <3>6
  <2>10. ASSUME GoodPath(path) PROVE t[2] # "/"
    <3> DEFINE part == path[1]
    <3>1. part # <<>> /\ ~Has(part, "/") /\ part \in Seq(Token) /\ DOMAIN part = 1..Len(part)
      BY <2>2, <2>3, <2>5, <2>10 DEF GoodPath
    <3>2. \A j \in 1..Len(part) : t[0 + 1 + j] = part[j]
      BY <2>4, <2>5
    <3> HIDE DEF part
    <3>3. 1 \in 1..Len(part)
      BY <3>1
    <3>4. t[2] = part[1]
      BY <3>2, <3>3
    <3> QED
      BY <3>1, <3>3, <3>4 DEF Has, ToSet
  <2> QED
    BY <1>2, <2>1, <2>6, <2>7, <2>8, <2>9, <2>10 DEF t
<1> QED
  BY <1>1, <1>2

-----------------------------------------------------------------------------
(* utils::split.                                                           *)

(* What holds of a position when it holds of all the later ones.           *)
LEMMA DownInduction ==
  ASSUME NEW N \in Nat, NEW S, \A e \in 0..N : (\A d \in (e + 1)..N : d \in S) => e \in S
  PROVE  0..N \subseteq S
<1> DEFINE Others == {e \in 0..N : e \notin S}
<1> SUFFICES ASSUME Others # {} PROVE FALSE
  OBVIOUS
<1>1. Others \subseteq 0..N
  OBVIOUS
<1> DEFINE e == Max(Others)
<1>2. e \in Others /\ \A d \in Others : d <= e
  <2> HIDE DEF Others
  <2> QED
    BY <1>1, FiniteMax
<1> HIDE DEF e
<1>3. \A d \in (e + 1)..N : d \in S
  <2> TAKE d \in (e + 1)..N
  <2>1. d \in 0..N /\ ~(d <= e)
    BY <1>2
  <2> QED
    BY <1>2, <2>1
<1> QED
  BY <1>2, <1>3

(* The next part at or after a position, and the position after it.        *)
StartOf(s, c, end) == FindFirstNotOf(s, c, end)
StopOf(s, c, end) == Find(s, <<c>>, StartOf(s, c, end))
AfterOf(s, c, end) == IF StopOf(s, c, end) = npos THEN Len(s) ELSE StopOf(s, c, end)
PartOf(s, c, end) == Substr(s, StartOf(s, c, end), Minus(StopOf(s, c, end), StartOf(s, c, end)))

PartsFrom(s, c, from, end) ==
  IF StartOf(s, c, end) = npos
    THEN <<>>
    ELSE <<PartOf(s, c, end)>> \o from[AfterOf(s, c, end)]

(* The next part that split finds: after delimiters only, without any, up  *)
(* to one or to the end.                                                   *)
LEMMA PartFacts ==
  ASSUME NEW s \in Seq(Token), Len(s) < npos, NEW c \in Token, NEW end \in 0..Len(s)
  PROVE  LET start == StartOf(s, c, end)
             after == AfterOf(s, c, end)
             part == PartOf(s, c, end)
         IN  /\ start = npos => \A i \in end..(Len(s) - 1) : s[i + 1] = c
             /\ start # npos =>
                  /\ start \in end..(Len(s) - 1) /\ after \in (start + 1)..Len(s)
                  /\ \A i \in end..(start - 1) : s[i + 1] = c
                  /\ \A i \in start..(after - 1) : s[i + 1] # c
                  /\ after # Len(s) => s[after + 1] = c
                  /\ part \in Seq(Token) /\ Len(part) = after - start
                  /\ \A j \in 1..Len(part) : part[j] = s[start + j]
<1> DEFINE start == StartOf(s, c, end)
           stop == StopOf(s, c, end)
           after == AfterOf(s, c, end)
           part == PartOf(s, c, end)
           n == Len(s)
<1>1. n \in Nat /\ n = Len(s) /\ n < 65535 /\ npos = 65535 /\ end \in 0..n
  BY Words
<1>2. Positions(s) = 0..(n - 1)
  BY DEF Positions
<1>3. IsFirstOther(start, s, c, end)
  <2>1. end \in Nat
    BY <1>1
  <2> QED
    BY <2>1, FindOther DEF StartOf
<1> HIDE DEF n, start
<1>4. CASE start = npos
  <2>1. \A i \in end..(n - 1) : s[i + 1] = c
    <3> TAKE i \in end..(n - 1)
    <3>1. i \in Positions(s) /\ i >= end /\ npos \notin Positions(s)
      BY <1>1, <1>2
    <3> QED
      BY <1>3, <1>4, <3>1 DEF IsFirstOther
  <2> QED
    BY <1>4, <2>1 DEF n, start
<1>5. CASE start # npos
  <2>1. /\ start \in 0..(n - 1) /\ start >= end /\ s[start + 1] # c
        /\ \A i \in Positions(s) : i >= end /\ i < start => s[i + 1] = c
    BY <1>2, <1>3, <1>5 DEF IsFirstOther
  <2>2. start \in Nat
    BY <2>1
  <2>3. IsFirst(stop, s, c, start)
    BY <2>2, FindToken DEF StopOf, start
  <2>4. after = (IF stop = npos THEN n ELSE stop) /\ part = Substr(s, start, Minus(stop, start))
    BY DEF AfterOf, PartOf, start, n
  <2> HIDE DEF stop, after, part
  <2>5. \A i \in end..(start - 1) : s[i + 1] = c
    <3> TAKE i \in end..(start - 1)
    <3>1. i \in Positions(s) /\ i >= end /\ i < start
      BY <1>1, <1>2, <2>1
    <3> QED
      BY <2>1, <3>1
  <2>6. CASE stop = npos
    <3>1. after = n
      BY <2>4, <2>6
    <3>2. \A i \in Positions(s) : i >= start => s[i + 1] # c
      BY <1>1, <1>2, <2>3, <2>6 DEF IsFirst
    <3>3. \A i \in start..(after - 1) : s[i + 1] # c
      <4> TAKE i \in start..(after - 1)
      <4>1. i \in Positions(s) /\ i >= start
        BY <1>1, <1>2, <2>1, <3>1
      <4> QED
        BY <3>2, <4>1
    <3>4. Minus(stop, start) = 65535 - start
      BY <1>1, <2>1, <2>6, Words DEF Minus
    <3> DEFINE k == 65535 - start
    <3>5. k \in Nat /\ start \in 0..Len(s) /\ ~(start + k <= Len(s)) /\ part = Substr(s, start, k)
      BY <1>1, <2>1, <2>4, <3>4
    <3> HIDE DEF k
    <3>6. part \in Seq(Token) /\ Len(part) = Len(s) - start /\ \A j \in 1..Len(part) : part[j] = s[start + j]
      BY <3>5, SubstrFacts
    <3>7. after \in (start + 1)..n
      BY <1>1, <2>1, <3>1
    <3>8. Len(part) = after - start
      BY <1>1, <3>1, <3>6
    <3> QED
      BY <1>1, <1>5, <2>1, <2>5, <3>1, <3>3, <3>6, <3>7, <3>8 DEF start, after, part
  <2>7. CASE stop # npos
    <3>1. after = stop
      BY <2>4, <2>7
    <3>2. /\ stop \in 0..(n - 1) /\ stop >= start /\ s[stop + 1] = c
          /\ \A i \in Positions(s) : i >= start /\ i < stop => s[i + 1] # c
      BY <1>2, <2>3, <2>7 DEF IsFirst
    <3>3. stop > start
      <4>1. stop # start
        BY <2>1, <3>2
      <4> QED
        BY <2>2, <3>2, <4>1
    <3>4. \A i \in start..(after - 1) : s[i + 1] # c
      <4> TAKE i \in start..(after - 1)
      <4>1. i \in Positions(s) /\ i >= start /\ i < stop
        BY <1>1, <1>2, <2>1, <3>1, <3>2
      <4> QED
        BY <3>2, <4>1
    <3>5. Minus(stop, start) = stop - start
      BY <1>1, <2>1, <3>2, <3>3, Words DEF Minus
    <3>6. stop - start \in Nat /\ start \in 0..Len(s) /\ start + (stop - start) <= Len(s)
      BY <1>1, <2>1, <3>2, <3>3
    <3>7. part \in Seq(Token) /\ Len(part) = stop - start /\ \A j \in 1..Len(part) : part[j] = s[start + j]
      BY <2>4, <3>5, <3>6, SubstrFacts
    <3>8. after \in (start + 1)..n
      BY <1>1, <2>1, <3>1, <3>2, <3>3
    <3> QED
      BY <1>1, <1>5, <2>1, <2>5, <3>1, <3>2, <3>4, <3>7, <3>8 DEF start, after, part
  <2> QED
    BY <2>6, <2>7
<1> QED
  BY <1>4, <1>5

(* The recursion of split is defined.                                      *)
LEMMA SplitUnfolds ==
  ASSUME NEW s \in Seq(Token), Len(s) < npos, NEW c \in Token
  PROVE  \E r \in [0..Len(s) -> Seq(Seq(Token))] :
           Split(s, c) = r[0] /\ \A end \in 0..Len(s) : r[end] = PartsFrom(s, c, r, end)
<1> DEFINE n == Len(s)
           Reached ==
             {e \in 0..n : \E h : \A d \in e..n : h[d] = PartsFrom(s, c, h, d)}
           f == CHOOSE h : h = [end \in 0..n |-> PartsFrom(s, c, h, end)]
<1>1. n \in Nat /\ n = Len(s) /\ n < npos
  OBVIOUS
<1>2. \A end \in 0..n :
        LET start == StartOf(s, c, end)
            after == AfterOf(s, c, end)
        IN  start # npos => start \in end..(n - 1) /\ after \in (start + 1)..n
                            /\ PartOf(s, c, end) \in Seq(Token)
  BY PartFacts
<1>3. \A end \in 0..n : StartOf(s, c, end) # npos =>
        AfterOf(s, c, end) \in (end + 1)..n /\ PartOf(s, c, end) \in Seq(Token)
  <2> TAKE end \in 0..n
  <2> HAVE StartOf(s, c, end) # npos
  <2> DEFINE start == StartOf(s, c, end)
             after == AfterOf(s, c, end)
  <2>1. start \in end..(n - 1) /\ after \in (start + 1)..n
    BY <1>2
  <2>2. PartOf(s, c, end) \in Seq(Token)
    BY <1>2
  <2> HIDE DEF start, after
  <2>3. after \in (end + 1)..n
    BY <1>1, <2>1
  <2> QED
    BY <2>2, <2>3 DEF after
<1> HIDE DEF n
<1>4. ASSUME NEW e \in 0..n, \A d \in (e + 1)..n : d \in Reached PROVE e \in Reached
  <2>1. PICK h : \A d \in (e + 1)..n : h[d] = PartsFrom(s, c, h, d)
    <3>1. CASE e = n
      <4>1. \A d \in (e + 1)..n : FALSE
        BY <1>1, <3>1
      <4> QED
        BY <4>1
    <3>2. CASE e # n
      <4>1. e + 1 \in (e + 1)..n
        BY <1>1, <3>2
      <4> QED
        BY <1>4, <4>1
    <3> QED
      BY <3>1, <3>2
  <2> DEFINE g == [d \in e..n |-> IF d = e THEN PartsFrom(s, c, h, e) ELSE h[d]]
  <2>2. ASSUME NEW d \in e..n PROVE g[d] = PartsFrom(s, c, g, d)
    <3>1. d \in 0..n /\ (d = e \/ d \in (e + 1)..n)
      BY <1>1
    <3>2. g[d] = PartsFrom(s, c, h, d)
      BY <2>1, <3>1
    <3>3. StartOf(s, c, d) # npos => AfterOf(s, c, d) \in e..n /\ AfterOf(s, c, d) # e
      <4> DEFINE after == AfterOf(s, c, d)
      <4>1. StartOf(s, c, d) # npos => after \in (d + 1)..n
        BY <1>3, <3>1
      <4> HIDE DEF after
      <4>2. StartOf(s, c, d) # npos => after \in e..n /\ after # e
        BY <1>1, <4>1
      <4> QED
        BY <4>2 DEF after
    <3>4. StartOf(s, c, d) # npos => g[AfterOf(s, c, d)] = h[AfterOf(s, c, d)]
      BY <3>3
    <3> HIDE DEF g
    <3> QED
      BY <3>2, <3>4 DEF PartsFrom
  <2> HIDE DEF g
  <2> QED
    BY <2>2
<1>5. 0 \in Reached
  <2> HIDE DEF Reached
  <2>1. 0..n \subseteq Reached
    BY <1>1, <1>4, DownInduction
  <2> QED
    BY <1>1, <2>1
<1>6. PICK h : \A d \in 0..n : h[d] = PartsFrom(s, c, h, d)
  BY <1>5
<1> DEFINE g == [d \in 0..n |-> h[d]]
<1>7. g = [end \in 0..n |-> PartsFrom(s, c, g, end)]
  <2>1. ASSUME NEW d \in 0..n PROVE h[d] = PartsFrom(s, c, g, d)
    <3>1. StartOf(s, c, d) # npos => AfterOf(s, c, d) \in 0..n
      <4> DEFINE after == AfterOf(s, c, d)
      <4>1. StartOf(s, c, d) # npos => after \in (d + 1)..n
        BY <1>3
      <4> HIDE DEF after
      <4>2. StartOf(s, c, d) # npos => after \in 0..n
        BY <1>1, <4>1
      <4> QED
        BY <4>2 DEF after
    <3>2. StartOf(s, c, d) # npos => g[AfterOf(s, c, d)] = h[AfterOf(s, c, d)]
      BY <3>1
    <3> HIDE DEF g
    <3> QED
      BY <1>6, <3>2 DEF PartsFrom
  <2>2. g = [d \in 0..n |-> h[d]]
    OBVIOUS
  <2> HIDE DEF g
  <2> QED
    BY <2>1, <2>2
<1> HIDE DEF g
<1>8. f = [end \in 0..n |-> PartsFrom(s, c, f, end)]
  BY <1>7
<1>9. Split(s, c) = f[0]
  BY DEF Split, PartsFrom, StartOf, StopOf, AfterOf, PartOf, n
<1> HIDE DEF f
<1>10. \A end \in 0..n : f[end] = PartsFrom(s, c, f, end)
  BY <1>8
<1> DEFINE Typed == {e \in 0..n : f[e] \in Seq(Seq(Token))}
<1>11. ASSUME NEW e \in 0..n, \A d \in (e + 1)..n : d \in Typed PROVE e \in Typed
  <2>1. CASE StartOf(s, c, e) = npos
    <3>1. f[e] = <<>>
      BY <1>10, <2>1 DEF PartsFrom
    <3>2. <<>> \in Seq(Seq(Token))
      OBVIOUS
    <3> QED
      BY <3>1, <3>2
  <2>2. CASE StartOf(s, c, e) # npos
    <3> DEFINE part == PartOf(s, c, e)
               rest == f[AfterOf(s, c, e)]
    <3>1. part \in Seq(Token) /\ rest \in Seq(Seq(Token))
      BY <1>3, <1>11, <2>2
    <3>2. f[e] = <<part>> \o rest
      BY <1>10, <2>2 DEF PartsFrom
    <3> HIDE DEF part, rest
    <3>3. <<part>> \o rest \in Seq(Seq(Token))
      BY <3>1, OneAndRest
    <3> QED
      BY <3>2, <3>3
  <2> QED
    BY <2>1, <2>2
<1>12. 0..n \subseteq Typed
  <2> HIDE DEF Typed
  <2> QED
    BY <1>1, <1>11, DownInduction
<1>13. f \in [0..n -> Seq(Seq(Token))]
  BY <1>8, <1>12
<1> QED
  BY <1>9, <1>10, <1>13 DEF n

(* A measure of a path with one more segment in front.                     *)
LEMMA MeasuresOfMore ==
  ASSUME NEW part \in Seq(Token), NEW rest \in Seq(Seq(Token)), NEW L, Measures(L, rest)
  PROVE  LET path == <<part>> \o rest IN
         \E M : Measures(M, path) /\ M[Len(path)] = 1 + Len(part) + L[Len(rest)]
<1> DEFINE path == <<part>> \o rest
           m == Len(rest)
           w == Len(part)
           M == [k \in 0..(m + 1) |-> IF k = 0 THEN 0 ELSE 1 + w + L[k - 1]]
<1>1. /\ path \in Seq(Seq(Token)) /\ Len(path) = 1 + m /\ path[1] = part
      /\ \A k \in 1..m : path[1 + k] = rest[k]
  BY OneAndRest
<1>2. m \in Nat /\ m = Len(rest) /\ w \in Nat /\ w = Len(part)
  OBVIOUS
<1>3. \A k \in 1..m : Len(rest[k]) \in Nat
  OBVIOUS
<1> HIDE DEF m, w, path
<1>4. /\ L \in [0..m -> Nat] /\ L[0] = 0
      /\ \A k \in 1..m : L[k] = L[k - 1] + 1 + Len(rest[k])
  BY <1>2 DEF Measures
<1>5. M \in [0..(m + 1) -> Nat]
  <2> SUFFICES ASSUME NEW k \in 0..(m + 1), k # 0 PROVE 1 + w + L[k - 1] \in Nat
    OBVIOUS
  <2>1. k - 1 \in 0..m
    BY <1>2
  <2>2. L[k - 1] \in Nat
    BY <1>4, <2>1
  <2> QED
    BY <1>2, <2>2
<1>6. M[0] = 0 /\ \A k \in 1..(m + 1) : M[k] = 1 + w + L[k - 1]
  BY <1>2
<1> HIDE DEF M
<1>7. ASSUME NEW k \in 1..(m + 1) PROVE M[k] = M[k - 1] + 1 + Len(path[k])
  <2>1. CASE k = 1
    <3>1. M[k] = 1 + w + 0 /\ M[k - 1] = 0 /\ Len(path[k]) = w
      BY <1>1, <1>2, <1>4, <1>6, <2>1
    <3> QED
      BY <1>2, <3>1
  <2>2. CASE k # 1
    <3> DEFINE l == k - 1
    <3>1. l \in 1..m /\ l \in 1..(m + 1) /\ l - 1 \in 0..m /\ k = 1 + l
      BY <1>2, <2>2
    <3> HIDE DEF l
    <3>2. M[k] = 1 + w + L[l] /\ M[l] = 1 + w + L[l - 1] /\ path[k] = rest[l]
      <4>1. k - 1 = l
        BY <1>2, <3>1
      <4>2. M[k] = 1 + w + L[l]
        BY <1>6, <4>1
      <4>3. M[l] = 1 + w + L[l - 1]
        BY <1>6, <3>1
      <4> QED
        BY <1>1, <3>1, <4>2, <4>3
    <3>3. L[l] = L[l - 1] + 1 + Len(rest[l]) /\ L[l - 1] \in Nat /\ Len(rest[l]) \in Nat
      BY <1>3, <1>4, <3>1
    <3> DEFINE a == L[l - 1]
               b == Len(rest[l])
    <3>4. L[l] = a + 1 + b /\ a \in Nat /\ b \in Nat /\ M[l] = 1 + w + a /\ Len(path[k]) = b
      BY <3>2, <3>3
    <3> HIDE DEF a, b
    <3>5. M[k] = M[l] + 1 + Len(path[k])
      BY <1>2, <3>2, <3>4
    <3> QED
      BY <3>5 DEF l
  <2> QED
    BY <2>1, <2>2
<1>8. Measures(M, path)
  <2>1. Len(path) = m + 1
    BY <1>1, <1>2
  <2> QED
    BY <1>5, <1>6, <1>7, <2>1 DEF Measures
<1>9. M[Len(path)] = 1 + w + L[m]
  <2>1. m + 1 \in 1..(m + 1) /\ (m + 1) - 1 = m /\ Len(path) = m + 1
    BY <1>1, <1>2
  <2> QED
    BY <1>6, <2>1
<1> QED
  BY <1>8, <1>9 DEF path, m, w

(* The parts that split gives are not empty, have no delimiter in them,    *)
(* hold all the other tokens, and with their delimiters are no longer than *)
(* the string and one delimiter before it.                                 *)
LEMMA SplitFacts ==
  ASSUME NEW s \in Seq(Token), Len(s) < npos
  PROVE  LET path == Split(s, "/") IN
         /\ path \in Seq(Seq(Token)) /\ GoodPath(path)
         /\ \A i \in 0..(Len(s) - 1) : s[i + 1] # "/" => \E k \in DOMAIN path : Has(path[k], s[i + 1])
         /\ Len(PathText(path)) <= Len(s) + 1
<1> DEFINE n == Len(s)
           Holds(path, e) ==
             \A i \in e..(n - 1) : s[i + 1] # "/" => \E k \in DOMAIN path : Has(path[k], s[i + 1])
           Fits(path, e) ==
             \E L : /\ Measures(L, path) /\ L[Len(path)] <= n - e + 1
                    /\ e = n \/ s[e + 1] = "/" => L[Len(path)] <= n - e
<1>0. "/" \in Token
  BY SomeTokens
<1>1. n \in Nat /\ n = Len(s) /\ n < npos /\ "/" \in Token
  BY <1>0
<1>2. PICK r \in [0..n -> Seq(Seq(Token))] :
        Split(s, "/") = r[0] /\ \A end \in 0..n : r[end] = PartsFrom(s, "/", r, end)
  BY <1>1, SplitUnfolds
<1> DEFINE S == {e \in 0..n : GoodPath(r[e]) /\ Holds(r[e], e) /\ Fits(r[e], e)}
<1>3. ASSUME NEW e \in 0..n, \A d \in (e + 1)..n : d \in S
      PROVE  GoodPath(r[e]) /\ Holds(r[e], e) /\ Fits(r[e], e)
  <2> DEFINE start == StartOf(s, "/", e)
             after == AfterOf(s, "/", e)
             part == PartOf(s, "/", e)
             path == r[e]
  <2>1. CASE start = npos
    <3>0. path = <<>>
      BY <1>2, <2>1 DEF PartsFrom
    <3>1. path = <<>> /\ DOMAIN path = {} /\ Len(path) = 0
      BY <3>0
    <3>2. \A i \in e..(n - 1) : s[i + 1] = "/"
      BY <1>1, <2>1, PartFacts
    <3> HIDE DEF path
    <3>3. GoodPath(path) /\ Holds(path, e)
      BY <3>1, <3>2 DEF GoodPath
    <3>4. Fits(path, e)
      <4> DEFINE L == [k \in 0..0 |-> 0]
      <4>1. Measures(L, path) /\ L[Len(path)] = 0
        BY <3>1 DEF Measures
      <4>2. 0 <= n - e /\ 0 <= n - e + 1
        BY <1>1
      <4> HIDE DEF L
      <4> QED
        BY <4>1, <4>2
    <3> QED
      BY <3>3, <3>4 DEF path
  <2>2. CASE start # npos
    <3> DEFINE rest == r[after]
    <3>1. path = <<part>> \o rest
      BY <1>2, <2>2 DEF PartsFrom
    <3>2. /\ start \in e..(n - 1) /\ after \in (start + 1)..n
          /\ \A i \in e..(start - 1) : s[i + 1] = "/"
          /\ \A i \in start..(after - 1) : s[i + 1] # "/"
          /\ after # n => s[after + 1] = "/"
          /\ part \in Seq(Token) /\ Len(part) = after - start
          /\ \A j \in 1..Len(part) : part[j] = s[start + j]
      BY <1>1, <2>2, PartFacts
    <3> HIDE DEF start, after, part, path, n
    <3>3. e \in Nat /\ start \in Nat /\ after \in Nat /\ e <= start /\ start < after /\ after <= n
      BY <1>1, <3>2
    <3>4. after \in (e + 1)..n /\ after \in 0..n
      BY <1>1, <3>3
    <3>5. rest \in Seq(Seq(Token)) /\ GoodPath(rest) /\ Holds(rest, after) /\ Fits(rest, after)
      BY <1>2, <1>3, <3>4
    <3> HIDE DEF rest
    <3>6. /\ path \in Seq(Seq(Token)) /\ Len(path) = 1 + Len(rest) /\ path[1] = part
          /\ \A k \in 1..Len(rest) : path[1 + k] = rest[k]
      BY <3>1, <3>2, <3>5, OneAndRest
    <3>7. /\ DOMAIN path = 1..Len(path) /\ DOMAIN rest = 1..Len(rest) /\ DOMAIN part = 1..Len(part)
          /\ Len(rest) \in Nat /\ Len(part) \in Nat
      BY <3>2, <3>5, <3>6
    <3>8. 1 \in DOMAIN path /\ \A k \in DOMAIN rest : 1 + k \in DOMAIN path
      BY <3>6, <3>7
    <3>9. GoodPath(path)
      <4>1. \A j \in DOMAIN part : part[j] # "/"
        <5> TAKE j \in DOMAIN part
        <5>1. start + j - 1 \in start..(after - 1) /\ (start + j - 1) + 1 = start + j
          BY <3>2, <3>3, <3>7
        <5> QED
          BY <3>2, <3>7, <5>1
      <4>2. part # <<>> /\ ~Has(part, "/")
        BY <3>2, <3>3, <4>1 DEF Has, ToSet
      <4>3. ASSUME NEW i \in DOMAIN path PROVE path[i] # <<>> /\ ~Has(path[i], "/")
        <5>1. CASE i = 1
          BY <3>6, <4>2, <5>1
        <5>2. CASE i # 1
          <6>1. i - 1 \in DOMAIN rest /\ 1 + (i - 1) = i
            BY <3>6, <3>7, <5>2
          <6>2. path[i] = rest[i - 1]
            BY <3>6, <3>7, <6>1
          <6> QED
            BY <3>5, <6>1, <6>2 DEF GoodPath
        <5> QED
          BY <5>1, <5>2
      <4> QED
        BY <4>3 DEF GoodPath
    <3>10. Holds(path, e)
      <4> SUFFICES ASSUME NEW i \in e..(n - 1), s[i + 1] # "/"
                   PROVE  \E k \in DOMAIN path : Has(path[k], s[i + 1])
        OBVIOUS
      <4>1. i >= start
        BY <1>1, <3>2, <3>3
      <4>2. CASE i < after
        <5>1. i - start + 1 \in 1..Len(part) /\ start + (i - start + 1) = i + 1
          BY <1>1, <3>2, <3>3, <4>1, <4>2
        <5>2. part[i - start + 1] = s[i + 1]
          BY <3>2, <5>1
        <5>3. Has(part, s[i + 1])
          BY <3>7, <5>1, <5>2 DEF Has, ToSet
        <5> QED
          BY <3>6, <3>8, <5>3
      <4>3. CASE ~(i < after)
        <5>1. i \in after..(n - 1)
          BY <1>1, <3>3, <4>3
        <5>2. PICK k \in DOMAIN rest : Has(rest[k], s[i + 1])
          BY <3>5, <5>1
        <5>3. path[1 + k] = rest[k]
          BY <3>6, <3>7
        <5> QED
          BY <3>8, <5>2, <5>3
      <4> QED
        BY <4>2, <4>3
    <3>11. Fits(path, e)
      <4>1. PICK L : /\ Measures(L, rest)
                     /\ after = n \/ s[after + 1] = "/" => L[Len(rest)] <= n - after
        BY <3>5
      <4>2. L[Len(rest)] <= n - after
        BY <3>2, <4>1
      <4>3. L[Len(rest)] \in Nat
        BY <3>7, <4>1 DEF Measures
      <4>4. PICK M : Measures(M, path) /\ M[Len(path)] = 1 + Len(part) + L[Len(rest)]
        BY <3>1, <3>2, <3>5, <4>1, MeasuresOfMore
      <4> DEFINE a == L[Len(rest)]
                 b == M[Len(path)]
      <4>5. a \in Nat /\ a <= n - after /\ b = 1 + Len(part) + a
        BY <4>2, <4>3, <4>4
      <4> HIDE DEF a, b
      <4>6. b <= n - start + 1
        BY <1>1, <3>2, <3>3, <4>5
      <4>7. e = n \/ s[e + 1] = "/" => start # e
        <5>1. start \in start..(after - 1)
          BY <3>3
        <5>2. s[start + 1] # "/" /\ start # n
          BY <1>1, <3>2, <3>3, <5>1
        <5> QED
          BY <5>2
      <4>8. b <= n - e + 1 /\ (e = n \/ s[e + 1] = "/" => b <= n - e)
        BY <1>1, <3>3, <4>5, <4>6, <4>7, <3>7
      <4> QED
        BY <4>4, <4>8 DEF b
    <3> QED
      BY <3>9, <3>10, <3>11 DEF path
  <2> QED
    BY <2>1, <2>2
<1>4. \A e \in 0..n : (\A d \in (e + 1)..n : d \in S) => e \in S
  BY <1>3
<1>5. 0 \in S
  <2> HIDE DEF S, n
  <2>1. 0..n \subseteq S
    BY <1>1, <1>4, DownInduction
  <2> QED
    BY <1>1, <2>1
<1> DEFINE path == Split(s, "/")
<1>6. path \in Seq(Seq(Token)) /\ GoodPath(path) /\ Holds(path, 0) /\ Fits(path, 0)
  <2>1. r[0] \in Seq(Seq(Token)) /\ path = r[0]
    BY <1>1, <1>2
  <2> HIDE DEF path
  <2> QED
    BY <1>5, <2>1
<1> HIDE DEF path
<1>7. Len(PathText(path)) <= n + 1
  <2>1. CASE path = <<>>
    <3>1. Len(PathText(path)) = 1
      BY <1>6, <2>1, PathTextFacts
    <3> QED
      BY <1>1, <3>1
  <2>2. CASE path # <<>>
    <3>1. PICK L : LaidOut(L, path, PathText(path))
      BY <1>6, <2>2, PathIsLaidOut
    <3>2. PICK M : Measures(M, path) /\ M[Len(path)] <= n - 0 + 1
      BY <1>6
    <3>3. Len(PathText(path)) = L[Len(path)] /\ Measures(L, path)
      BY <3>1 DEF LaidOut
    <3>4. L[Len(path)] = M[Len(path)]
      BY <1>6, <3>2, <3>3, MeasuresAgree
    <3> QED
      BY <1>1, <3>2, <3>3, <3>4
  <2> QED
    BY <2>1, <2>2
<1> QED
  BY <1>6, <1>7 DEF path

(* A tail is its first element and a shorter tail.                         *)
LEMMA SubSeqFromTo ==
  ASSUME NEW T, NEW s \in Seq(T), NEW k \in 1..Len(s)
  PROVE  SubSeq(s, k, Len(s)) = <<s[k]>> \o SubSeq(s, k + 1, Len(s))
<1> DEFINE a == SubSeq(s, k, Len(s))
           rest == SubSeq(s, k + 1, Len(s))
           n == Len(s)
<1>1. n \in Nat /\ n = Len(s) /\ k \in 1..n /\ s[k] \in T
  OBVIOUS
<1>2. /\ a \in Seq(T) /\ Len(a) = n - k + 1
      /\ \A i \in 1..(n - k + 1) : a[i] = s[k + i - 1]
  <2>1. k \in 1..(Len(s) + 1) /\ Len(s) \in (k - 1)..Len(s)
    BY <1>1
  <2> QED
    BY <1>1, <2>1, SubSeqFacts
<1>3. /\ rest \in Seq(T) /\ Len(rest) = n - (k + 1) + 1
      /\ \A i \in 1..(n - (k + 1) + 1) : rest[i] = s[(k + 1) + i - 1]
  <2>1. k + 1 \in 1..(Len(s) + 1) /\ Len(s) \in ((k + 1) - 1)..Len(s)
    BY <1>1
  <2> QED
    BY <1>1, <2>1, SubSeqFacts
<1> HIDE DEF a, rest, n
<1>4. /\ <<s[k]>> \o rest \in Seq(T) /\ Len(<<s[k]>> \o rest) = 1 + Len(rest)
      /\ (<<s[k]>> \o rest)[1] = s[k]
      /\ \A j \in 1..Len(rest) : (<<s[k]>> \o rest)[1 + j] = rest[j]
  BY <1>1, <1>3, OneAndRest
<1> DEFINE b == <<s[k]>> \o rest
<1> HIDE DEF b
<1>5. b \in Seq(T) /\ Len(b) = Len(a)
  BY <1>1, <1>2, <1>3, <1>4 DEF b
<1>6. ASSUME NEW i \in 1..Len(a) PROVE a[i] = b[i]
  <2>1. i \in 1..(n - k + 1)
    BY <1>2
  <2>2. a[i] = s[k + i - 1]
    BY <1>2, <2>1
  <2>3. CASE i = 1
    <3>1. k + i - 1 = k
      BY <1>1, <2>3
    <3> QED
      BY <1>4, <2>2, <2>3, <3>1 DEF b
  <2>4. CASE i # 1
    <3>1. i - 1 \in 1..(n - (k + 1) + 1) /\ (k + 1) + (i - 1) - 1 = k + i - 1 /\ 1 + (i - 1) = i
      BY <1>1, <2>1, <2>4
    <3>2. rest[i - 1] = s[k + i - 1]
      BY <1>3, <3>1
    <3>3. i - 1 \in 1..Len(rest)
      BY <1>3, <3>1
    <3>4. b[1 + (i - 1)] = rest[i - 1]
      BY <1>4, <3>3 DEF b
    <3> QED
      BY <2>2, <3>1, <3>2, <3>4
  <2> QED
    BY <2>3, <2>4
<1>7. a = b
  BY <1>2, <1>5, <1>6, SameSequence
<1> QED
  BY <1>7 DEF a, b, rest, n

(* split gives back the parts of a good path.                              *)
LEMMA SplitJoins ==
  ASSUME NEW path \in Seq(Seq(Token)), GoodPath(path),
         NEW s \in Seq(Token), Len(s) < npos, Len(PathText(path)) = Len(s) + 1,
         \A i \in 1..Len(s) : s[i] = PathText(path)[i + 1]
  PROVE  Split(s, "/") = path
<1> DEFINE n == Len(s)
           m == Len(path)
           t == PathText(path)
<1>1. n \in Nat /\ n = Len(s) /\ m \in Nat /\ m = Len(path)
  OBVIOUS
<1>2. n < npos /\ "/" \in Token
  BY SomeTokens
<1>3. t \in Seq(Token) /\ Len(t) = n + 1 /\ \A i \in 1..n : s[i] = t[i + 1]
  BY PathTextFacts
<1>4. PICK r \in [0..n -> Seq(Seq(Token))] :
        Split(s, "/") = r[0] /\ \A end \in 0..n : r[end] = PartsFrom(s, "/", r, end)
  BY <1>2, SplitUnfolds
<1>5. ASSUME NEW end \in 0..n
      PROVE  LET start == StartOf(s, "/", end)
                 after == AfterOf(s, "/", end)
                 part == PartOf(s, "/", end)
             IN  /\ start = npos => \A i \in end..(n - 1) : s[i + 1] = "/"
                 /\ start # npos =>
                      /\ start \in end..(n - 1) /\ after \in (start + 1)..n
                      /\ \A i \in end..(start - 1) : s[i + 1] = "/"
                      /\ \A i \in start..(after - 1) : s[i + 1] # "/"
                      /\ after # n => s[after + 1] = "/"
                      /\ part \in Seq(Token) /\ Len(part) = after - start
                      /\ \A j \in 1..Len(part) : part[j] = s[start + j]
  BY <1>2, PartFacts
<1>6. StartOf(s, "/", n) = npos /\ r[n] = <<>>
  <2>1. n \in 0..n
    BY <1>1
  <2> DEFINE start == StartOf(s, "/", n)
  <2>2. start # npos => start \in n..(n - 1)
    BY <1>5, <2>1
  <2> HIDE DEF start, n
  <2>3. start = npos
    BY <1>1, <2>2
  <2> QED
    BY <1>4, <2>1, <2>3 DEF PartsFrom, start
<1>7. CASE path = <<>>
  <2>1. Len(t) = 1
    BY <1>7, PathTextFacts
  <2> HIDE DEF n, t
  <2>2. n = 0
    BY <1>1, <1>3, <2>1
  <2> QED
    BY <1>4, <1>6, <1>7, <2>2
<1>8. CASE path # <<>>
  <2>1. PICK L : LaidOut(L, path, t)
    BY <1>8, PathIsLaidOut
  <2>2. \A k \in 1..m : path[k] \in Seq(Token) /\ Len(path[k]) \in Nat /\ DOMAIN path[k] = 1..Len(path[k])
    OBVIOUS
  <2>3. ASSUME NEW k \in 1..m PROVE path[k] # <<>> /\ \A j \in 1..Len(path[k]) : path[k][j] # "/"
    BY <2>2 DEF GoodPath, Has, ToSet
  <2> HIDE DEF n, m, t
  <2>4. /\ L \in [0..m -> Nat] /\ L[0] = 0 /\ L[m] = n + 1
        /\ \A k \in 1..m :
             /\ L[k] = L[k - 1] + 1 + Len(path[k]) /\ L[k] <= n + 1 /\ t[L[k - 1] + 1] = "/"
             /\ \A j \in 1..Len(path[k]) : t[L[k - 1] + 1 + j] = path[k][j]
    BY <1>1, <1>3, <2>1 DEF LaidOut, Measures
  <2>5. m >= 1
    BY <1>1, <1>8
  <2> DEFINE at == [k \in 0..m |-> IF k = 0 THEN 0 ELSE L[k] - 1]
             S == {k \in 0..m : r[at[k]] = SubSeq(path, k + 1, m)}
  <2>6. at[0] = 0 /\ \A k \in 1..m : at[k] = L[k] - 1
    BY <1>1
  <2>7. at[m] = n
    <3>1. m \in 1..m
      BY <1>1, <2>5
    <3> QED
      BY <1>1, <2>4, <2>6, <3>1
  <2> HIDE DEF at
  <2>8. ASSUME NEW k \in 0..m, \A l \in (k + 1)..m : l \in S
        PROVE  r[at[k]] = SubSeq(path, k + 1, m)
    <3>1. CASE k = m
      <4>1. SubSeq(path, m + 1, m) = <<>>
        BY <1>1
      <4> QED
        BY <1>6, <2>7, <3>1, <4>1
    <3>2. CASE k # m
      <4> DEFINE next == path[k + 1]
                 b == L[k]
                 c == L[k + 1]
                 w == Len(next)
                 e == at[k]
                 f == at[k + 1]
      <4>1. k + 1 \in 1..m /\ (k + 1) - 1 = k /\ k + 1 \in (k + 1)..m
        BY <1>1, <3>2
      <4>2. next \in Seq(Token) /\ next # <<>> /\ w \in Nat /\ \A j \in 1..w : next[j] # "/"
        BY <2>2, <2>3, <4>1
      <4>3. b \in Nat /\ c = b + 1 + w /\ c <= n + 1 /\ \A j \in 1..w : t[b + 1 + j] = next[j]
        BY <2>4, <4>1
      <4>4. f = c - 1
        BY <2>6, <4>1
      <4>5. /\ e \in 0..n /\ e <= b /\ b <= e + 1
            /\ e # b => s[e + 1] = "/"
        <5>1. CASE k = 0
          <6>1. e = 0 /\ b = 0
            BY <2>4, <2>6, <5>1
          <6> QED
            BY <1>1, <6>1
        <5>2. CASE k # 0
          <6>1. k \in 1..m /\ k - 1 \in 0..m
            BY <1>1, <5>2
          <6>2. e = b - 1
            BY <2>6, <6>1
          <6>3. L[k] = L[k - 1] + 1 + Len(path[k]) /\ L[k - 1] \in Nat /\ Len(path[k]) \in Nat
            BY <2>2, <2>4, <6>1
          <6>4. b >= 1 /\ b <= n
            <7>1. w >= 1
              BY <4>2
            <7> HIDE DEF w, b, c
            <7>2. b <= n
              BY <1>1, <4>2, <4>3, <7>1
            <7>3. b >= 1
              BY <6>3 DEF b
            <7> QED
              BY <7>2, <7>3
          <6>5. t[b + 1] = "/"
            BY <2>4, <4>1
          <6> HIDE DEF b, e
          <6>6. s[b] = t[b + 1]
            BY <1>1, <1>3, <4>3, <6>4
          <6> QED
            BY <1>1, <4>3, <6>2, <6>4, <6>5, <6>6
        <5> QED
          BY <5>1, <5>2
      <4>6. w >= 1
        BY <4>2
      <4>7. r[e] = PartsFrom(s, "/", r, e)
        BY <1>4, <4>5
      <4>8. f = n \/ s[f + 1] = "/"
        <5>1. CASE k + 1 = m
          BY <2>7, <5>1
        <5>2. CASE k + 1 # m
          <6>1. k + 2 \in 1..m /\ (k + 2) - 1 = k + 1
            BY <1>1, <4>1, <5>2
          <6>2. t[c + 1] = "/" /\ L[k + 2] = c + 1 + Len(path[k + 2]) /\ L[k + 2] <= n + 1
                /\ Len(path[k + 2]) \in Nat
            BY <2>2, <2>4, <6>1
          <6> DEFINE x == Len(path[k + 2])
                     y == L[k + 2]
          <6>3. y = c + 1 + x /\ y <= n + 1 /\ x \in Nat
            BY <6>2
          <6> HIDE DEF b, c, w, f, x, y
          <6>4. c \in 1..n
            BY <1>1, <4>2, <4>3, <6>3
          <6>5. s[c] = t[c + 1]
            BY <1>3, <6>4
          <6>6. f + 1 = c
            BY <4>4, <6>4
          <6> QED
            BY <6>2, <6>5, <6>6
        <5> QED
          BY <5>1, <5>2
      <4>9. \A l \in (k + 1)..m : r[at[l]] = SubSeq(path, l + 1, m)
        BY <2>8
      <4>10. r[f] = SubSeq(path, (k + 1) + 1, m)
        BY <4>1, <4>9
      <4> DEFINE start == StartOf(s, "/", e)
                 after == AfterOf(s, "/", e)
                 part == PartOf(s, "/", e)
      <4>11. /\ start = npos => \A i \in e..(n - 1) : s[i + 1] = "/"
             /\ start # npos =>
                  /\ start \in e..(n - 1) /\ after \in (start + 1)..n
                  /\ \A i \in e..(start - 1) : s[i + 1] = "/"
                  /\ \A i \in start..(after - 1) : s[i + 1] # "/"
                  /\ after # n => s[after + 1] = "/"
                  /\ part \in Seq(Token) /\ Len(part) = after - start
                  /\ \A j \in 1..Len(part) : part[j] = s[start + j]
        BY <1>5, <4>5
      <4>12. r[e] = IF start = npos THEN <<>> ELSE <<part>> \o r[after]
        BY <4>7 DEF PartsFrom
      <4> HIDE DEF next, b, c, w, e, f, start, after, part
      <4>13. ASSUME NEW j \in 1..w PROVE s[b + j] = next[j] /\ b + j \in 1..n /\ s[b + j] # "/"
        <5>1. b + j \in 1..n /\ (b + j) + 1 = b + 1 + j
          BY <1>1, <4>2, <4>3
        <5>2. s[b + j] = t[b + 1 + j]
          BY <1>3, <5>1
        <5> QED
          BY <4>2, <4>3, <5>1, <5>2
      <4>14. s[b + 1] # "/" /\ b \in e..(n - 1)
        <5>1. 1 \in 1..w
          BY <4>2, <4>6
        <5> QED
          BY <1>1, <4>3, <4>5, <4>13, <5>1
      <4>15. start # npos
        BY <4>11, <4>14
      <4>16. start = b
        <5>1. start \in Int /\ b \in Int /\ e \in Int /\ e <= start
          BY <1>1, <4>3, <4>5, <4>11, <4>15
        <5>2. ~(start > b)
          <6> SUFFICES ASSUME start > b PROVE FALSE
            OBVIOUS
          <6>1. b \in e..(start - 1)
            BY <4>5, <5>1
          <6> QED
            BY <4>11, <4>14, <4>15, <6>1
        <5>3. ~(start < b)
          <6> SUFFICES ASSUME start < b PROVE FALSE
            OBVIOUS
          <6>1. start = e /\ e # b
            BY <4>5, <5>1
          <6>2. s[start + 1] = "/" /\ after \in (start + 1)..n
            BY <4>5, <4>11, <4>15, <6>1
          <6>3. start \in start..(after - 1)
            BY <1>1, <5>1, <6>2
          <6> QED
            BY <4>11, <4>15, <6>2, <6>3
        <5> QED
          BY <5>1, <5>2, <5>3
      <4>17. after = f
        <5>1. after \in (b + 1)..n /\ f = b + w /\ b + w <= n
          BY <1>1, <4>2, <4>3, <4>4, <4>11, <4>15, <4>16
        <5>2. ~(after < f)
          <6> SUFFICES ASSUME after < f PROVE FALSE
            OBVIOUS
          <6>1. after # n /\ after - b + 1 \in 1..w /\ b + (after - b + 1) = after + 1
            BY <1>1, <4>2, <4>3, <5>1
          <6>2. s[after + 1] = "/"
            BY <4>11, <4>15, <6>1
          <6> QED
            BY <4>13, <6>1, <6>2
        <5>3. ~(after > f)
          <6> SUFFICES ASSUME after > f PROVE FALSE
            OBVIOUS
          <6>1. f # n /\ f \in b..(after - 1)
            BY <1>1, <4>2, <4>3, <5>1
          <6> QED
            BY <4>8, <4>11, <4>15, <4>16, <6>1
        <5> QED
          BY <1>1, <4>2, <4>3, <5>1, <5>2, <5>3
      <4>18. part = next
        <5>1. part \in Seq(Token) /\ Len(part) = w /\ \A j \in 1..Len(part) : part[j] = s[b + j]
          <6>1. after - start = w
            BY <4>2, <4>3, <4>4, <4>16, <4>17
          <6> QED
            BY <4>11, <4>15, <4>16, <6>1
        <5>2. next \in Seq(Token) /\ Len(next) = w
          BY <4>2 DEF w
        <5>3. \A j \in 1..Len(part) : part[j] = next[j]
          BY <4>13, <5>1
        <5> QED
          BY <5>1, <5>2, <5>3, SameSequence
      <4>19. r[e] = <<path[k + 1]>> \o SubSeq(path, (k + 1) + 1, m)
        BY <4>10, <4>12, <4>15, <4>17, <4>18 DEF next
      <4>20. SubSeq(path, k + 1, m) = <<path[k + 1]>> \o SubSeq(path, (k + 1) + 1, m)
        <5>1. k + 1 \in 1..Len(path)
          BY <1>1, <4>1
        <5> QED
          BY <1>1, <5>1, SubSeqFromTo
      <4> QED
        BY <4>19, <4>20 DEF e
    <3> QED
      BY <3>1, <3>2
  <2>9. \A k \in 0..m : (\A l \in (k + 1)..m : l \in S) => k \in S
    BY <2>8
  <2>10. 0 \in S
    <3> HIDE DEF S
    <3>1. 0..m \subseteq S
      BY <1>1, <2>9, DownInduction
    <3> QED
      BY <1>1, <3>1
  <2>11. r[0] = SubSeq(path, 1, m)
    BY <2>6, <2>10
  <2>12. SubSeq(path, 1, m) = path
    BY <1>1
  <2> QED
    BY <1>4, <2>11, <2>12
<1> QED
  BY <1>7, <1>8

-----------------------------------------------------------------------------
(* The string of a URI: where its parts are.                               *)

Uri ==
  [scheme : Seq(Token), user_info : Seq(Token), host : Seq(Token), port : Ports \cup {0},
   path : Seq(Seq(Token)), query : Seq(Token), fragment : Seq(Token)]

AuthorityAt(u) == IF u.scheme = <<>> THEN 0 ELSE Len(u.scheme) + 3
HostAt(u) == AuthorityAt(u) + (IF u.user_info = <<>> THEN 0 ELSE Len(u.user_info) + 1)
PortAt(u) == HostAt(u) + Len(u.host)
PathAt(u) == PortAt(u) + (IF u.port = 0 THEN 0 ELSE 2)
QueryAt(u) == PathAt(u) + Len(PathText(u.path))
FragmentAt(u) == QueryAt(u) + (IF u.query = <<>> THEN 0 ELSE 1 + Len(u.query))
EndAt(u) == FragmentAt(u) + (IF u.fragment = <<>> THEN 0 ELSE 1 + Len(u.fragment))

(* Nothing, before a string and after it.                                  *)
LEMMA EmptyConcat ==
  ASSUME NEW T, NEW s \in Seq(T)
  PROVE  <<>> \o s = s /\ s \o <<>> = s
OBVIOUS

(* A part and the delimiter after it, or before it.                        *)
LEMMA OptAfter ==
  ASSUME NEW part \in Seq(Token), NEW x \in Seq(Token)
  PROVE  LET t == Opt(part, <<>>, x) IN
         /\ t \in Seq(Token) /\ Len(t) = IF part = <<>> THEN 0 ELSE Len(part) + Len(x)
         /\ \A i \in 1..Len(part) : t[i] = part[i]
         /\ part # <<>> => \A i \in 1..Len(x) : t[Len(part) + i] = x[i]
<1> DEFINE t == Opt(part, <<>>, x)
<1>1. CASE part = <<>>
  <2>1. t = <<>>
    BY <1>1 DEF Opt
  <2> HIDE DEF t
  <2>2. t \in Seq(Token) /\ Len(t) = 0 /\ Len(part) = 0
    BY <1>1, <2>1
  <2> QED
    BY <1>1, <2>2 DEF t
<1>2. CASE part # <<>>
  <2>1. t = <<>> \o part \o x
    BY <1>2 DEF Opt
  <2>2. t = part \o x
    BY <2>1, EmptyConcat
  <2> HIDE DEF t
  <2>3. t \in Seq(Token) /\ Len(t) = Len(part) + Len(x)
    BY <2>2, ConcatFacts
  <2>4. \A i \in 1..Len(part) : t[i] = part[i]
    BY <2>2, ConcatFacts
  <2>5. \A i \in 1..Len(x) : t[Len(part) + i] = x[i]
    BY <2>2, ConcatFacts
  <2> QED
    BY <1>2, <2>3, <2>4, <2>5 DEF t
<1> QED
  BY <1>1, <1>2

LEMMA OptBefore ==
  ASSUME NEW part \in Seq(Token), NEW x \in Token
  PROVE  LET t == Opt(part, <<x>>, <<>>) IN
         /\ t \in Seq(Token) /\ Len(t) = IF part = <<>> THEN 0 ELSE 1 + Len(part)
         /\ part # <<>> => t[1] = x
         /\ \A i \in 1..Len(part) : t[1 + i] = part[i]
<1> DEFINE t == Opt(part, <<x>>, <<>>)
<1>1. CASE part = <<>>
  <2>1. t = <<>>
    BY <1>1 DEF Opt
  <2> HIDE DEF t
  <2>2. t \in Seq(Token) /\ Len(t) = 0 /\ Len(part) = 0
    BY <1>1, <2>1
  <2> QED
    BY <1>1, <2>2 DEF t
<1>2. CASE part # <<>>
  <2>1. t = <<x>> \o part \o <<>>
    BY <1>2 DEF Opt
  <2>2. /\ <<x>> \o part \in Seq(Token) /\ Len(<<x>> \o part) = 1 + Len(part)
        /\ (<<x>> \o part)[1] = x
        /\ \A j \in 1..Len(part) : (<<x>> \o part)[1 + j] = part[j]
    BY OneAndRest
  <2>3. (<<x>> \o part) \o <<>> = <<x>> \o part
    BY <2>2, EmptyConcat
  <2>4. t = <<x>> \o part
    BY <2>1, <2>3
  <2> HIDE DEF t
  <2> QED
    BY <1>2, <2>2, <2>4 DEF t
<1> QED
  BY <1>1, <1>2

LEMMA ThreeElements ==
  ASSUME NEW T, NEW a \in T, NEW b \in T, NEW c \in T
  PROVE  /\ <<a, b, c>> \in Seq(T) /\ Len(<<a, b, c>>) = 3
         /\ <<a, b, c>>[1] = a /\ <<a, b, c>>[2] = b /\ <<a, b, c>>[3] = c
OBVIOUS

(* More after a string of which something is known.                        *)
Appended(both, s, t, n, k) ==
  /\ both \in Seq(Token) /\ Len(both) = k /\ n \in Nat /\ k \in Nat /\ n <= k
  /\ \A i \in 1..n : both[i] = s[i]
  /\ \A i \in 1..Len(t) : both[n + i] = t[i]

LEMMA More ==
  ASSUME NEW s \in Seq(Token), NEW t \in Seq(Token), NEW both, both = s \o t,
         NEW n, n = Len(s), NEW k, k = n + Len(t)
  PROVE  Appended(both, s, t, n, k)
<1>1. s \o t \in Seq(Token) /\ Len(s \o t) = Len(s) + Len(t)
  BY ConcatFacts
<1>2. \A i \in 1..Len(s) : (s \o t)[i] = s[i]
  BY ConcatFacts
<1>3. \A i \in 1..Len(t) : (s \o t)[Len(s) + i] = t[i]
  BY ConcatFacts
<1>4. Len(s) \in Nat /\ Len(t) \in Nat
  OBVIOUS
<1> QED
  BY <1>1, <1>2, <1>3, <1>4 DEF Appended

(* Seven strings one after the other.                                      *)
Spread(s, A, B, C, D, E, F, G, b, c, d, e, f, g) ==
  /\ s \in Seq(Token) /\ Len(s) = g + Len(G)
  /\ \A i \in 1..Len(A) : s[i] = A[i]
  /\ \A i \in 1..Len(B) : s[b + i] = B[i]
  /\ \A i \in 1..Len(C) : s[c + i] = C[i]
  /\ \A i \in 1..Len(D) : s[d + i] = D[i]
  /\ \A i \in 1..Len(E) : s[e + i] = E[i]
  /\ \A i \in 1..Len(F) : s[f + i] = F[i]
  /\ \A i \in 1..Len(G) : s[g + i] = G[i]

(* Seven strings, one after the other: where each is.                      *)
LEMMA Seven ==
  ASSUME NEW A \in Seq(Token), NEW B \in Seq(Token), NEW C \in Seq(Token), NEW D \in Seq(Token),
         NEW E \in Seq(Token), NEW F \in Seq(Token), NEW G \in Seq(Token),
         NEW b, b = Len(A), NEW c, c = b + Len(B), NEW d, d = c + Len(C), NEW e, e = d + Len(D),
         NEW f, f = e + Len(E), NEW g, g = f + Len(F)
  PROVE  Spread(A \o B \o C \o D \o E \o F \o G, A, B, C, D, E, F, G, b, c, d, e, f, g)
<1> DEFINE s2 == A \o B
           s3 == s2 \o C
           s4 == s3 \o D
           s5 == s4 \o E
           s6 == s5 \o F
           s == s6 \o G
<1>0. s2 = A \o B /\ s3 = s2 \o C /\ s4 = s3 \o D /\ s5 = s4 \o E /\ s6 = s5 \o F /\ s = s6 \o G
  OBVIOUS
<1> HIDE DEF s2, s3, s4, s5, s6, s
<1>1. /\ s2 \in Seq(Token) /\ Len(s2) = c /\ b \in Nat /\ c \in Nat /\ b <= c
      /\ \A i \in 1..b : s2[i] = A[i]
      /\ \A i \in 1..Len(B) : s2[b + i] = B[i]
  <2>1. Appended(s2, A, B, b, c)
    BY <1>0, More
  <2> QED
    BY <2>1 DEF Appended
<1>2. /\ s3 \in Seq(Token) /\ Len(s3) = d /\ c \in Nat /\ d \in Nat /\ c <= d
      /\ \A i \in 1..c : s3[i] = s2[i]
      /\ \A i \in 1..Len(C) : s3[c + i] = C[i]
  <2>1. Appended(s3, s2, C, c, d)
    BY <1>0, <1>1, More
  <2> QED
    BY <2>1 DEF Appended
<1>3. /\ s4 \in Seq(Token) /\ Len(s4) = e /\ d \in Nat /\ e \in Nat /\ d <= e
      /\ \A i \in 1..d : s4[i] = s3[i]
      /\ \A i \in 1..Len(D) : s4[d + i] = D[i]
  <2>1. Appended(s4, s3, D, d, e)
    BY <1>0, <1>2, More
  <2> QED
    BY <2>1 DEF Appended
<1>4. /\ s5 \in Seq(Token) /\ Len(s5) = f /\ e \in Nat /\ f \in Nat /\ e <= f
      /\ \A i \in 1..e : s5[i] = s4[i]
      /\ \A i \in 1..Len(E) : s5[e + i] = E[i]
  <2>1. Appended(s5, s4, E, e, f)
    BY <1>0, <1>3, More
  <2> QED
    BY <2>1 DEF Appended
<1>5. /\ s6 \in Seq(Token) /\ Len(s6) = g /\ f \in Nat /\ g \in Nat /\ f <= g
      /\ \A i \in 1..f : s6[i] = s5[i]
      /\ \A i \in 1..Len(F) : s6[f + i] = F[i]
  <2>1. Appended(s6, s5, F, f, g)
    BY <1>0, <1>4, More
  <2> QED
    BY <2>1 DEF Appended
<1>6. /\ s \in Seq(Token) /\ Len(s) = g + Len(G)
      /\ \A i \in 1..g : s[i] = s6[i]
      /\ \A i \in 1..Len(G) : s[g + i] = G[i]
  <2>1. Appended(s, s6, G, g, g + Len(G))
    BY <1>0, <1>5, More
  <2> QED
    BY <2>1 DEF Appended
<1>7. /\ \A i \in 1..f : s[i] = s5[i]
      /\ \A i \in 1..e : s[i] = s4[i]
      /\ \A i \in 1..d : s[i] = s3[i]
      /\ \A i \in 1..c : s[i] = s2[i]
      /\ \A i \in 1..b : s[i] = A[i]
  <2>1. \A i \in 1..f : s[i] = s5[i]
    BY <1>4, <1>5, <1>6
  <2>2. \A i \in 1..e : s[i] = s4[i]
    BY <1>3, <1>4, <2>1
  <2>3. \A i \in 1..d : s[i] = s3[i]
    BY <1>2, <1>3, <2>2
  <2>4. \A i \in 1..c : s[i] = s2[i]
    BY <1>1, <1>2, <2>3
  <2> QED
    BY <1>1, <2>1, <2>2, <2>3, <2>4
<1>8. \A i \in 1..Len(B) : s[b + i] = B[i]
  <2> TAKE i \in 1..Len(B)
  <2>1. b + i \in 1..c
    BY <1>1
  <2> QED
    BY <1>1, <1>7, <2>1
<1>9. \A i \in 1..Len(C) : s[c + i] = C[i]
  <2> TAKE i \in 1..Len(C)
  <2>1. c + i \in 1..d
    BY <1>1, <1>2
  <2> QED
    BY <1>2, <1>7, <2>1
<1>10. \A i \in 1..Len(D) : s[d + i] = D[i]
  <2> TAKE i \in 1..Len(D)
  <2>1. d + i \in 1..e
    BY <1>2, <1>3
  <2> QED
    BY <1>3, <1>7, <2>1
<1>11. \A i \in 1..Len(E) : s[e + i] = E[i]
  <2> TAKE i \in 1..Len(E)
  <2>1. e + i \in 1..f
    BY <1>3, <1>4
  <2> QED
    BY <1>4, <1>7, <2>1
<1>12. \A i \in 1..Len(F) : s[f + i] = F[i]
  <2> TAKE i \in 1..Len(F)
  <2>1. f + i \in 1..g
    BY <1>4, <1>5
  <2> QED
    BY <1>5, <1>6, <2>1
<1> QED
  BY <1>1, <1>2, <1>3, <1>4, <1>5, <1>6, <1>7, <1>8, <1>9, <1>10, <1>11, <1>12 DEF Spread, s, s2, s3, s4, s5, s6

(* The places of the parts are in order, and the path is never empty.      *)
LEMMA CutFacts ==
  ASSUME NEW u \in Uri
  PROVE  /\ AuthorityAt(u) \in Nat /\ HostAt(u) \in Nat /\ PortAt(u) \in Nat /\ PathAt(u) \in Nat
         /\ QueryAt(u) \in Nat /\ FragmentAt(u) \in Nat /\ EndAt(u) \in Nat
         /\ AuthorityAt(u) <= HostAt(u) /\ HostAt(u) <= PortAt(u) /\ PortAt(u) <= PathAt(u)
         /\ PathAt(u) < QueryAt(u) /\ QueryAt(u) <= FragmentAt(u) /\ FragmentAt(u) <= EndAt(u)
<1>1. /\ Len(u.scheme) \in Nat /\ Len(u.user_info) \in Nat /\ Len(u.host) \in Nat
      /\ Len(u.query) \in Nat /\ Len(u.fragment) \in Nat
  BY DEF Uri
<1>2. Len(PathText(u.path)) \in Nat /\ Len(PathText(u.path)) >= 1
  <2>1. u.path \in Seq(Seq(Token))
    BY DEF Uri
  <2>2. PathText(u.path) \in Seq(Token) /\ Len(PathText(u.path)) >= 1
    BY <2>1, PathTextFacts
  <2> QED
    BY <2>2
<1>3. AuthorityAt(u) \in Nat
  BY <1>1 DEF AuthorityAt
<1>4. HostAt(u) \in Nat /\ AuthorityAt(u) <= HostAt(u)
  BY <1>1, <1>3 DEF HostAt
<1>5. PortAt(u) \in Nat /\ HostAt(u) <= PortAt(u)
  BY <1>1, <1>4 DEF PortAt
<1>6. PathAt(u) \in Nat /\ PortAt(u) <= PathAt(u)
  BY <1>5 DEF PathAt
<1>7. QueryAt(u) \in Nat /\ PathAt(u) < QueryAt(u)
  BY <1>2, <1>6 DEF QueryAt
<1>8. FragmentAt(u) \in Nat /\ QueryAt(u) <= FragmentAt(u)
  BY <1>1, <1>7 DEF FragmentAt
<1>9. EndAt(u) \in Nat /\ FragmentAt(u) <= EndAt(u)
  BY <1>1, <1>8 DEF EndAt
<1> QED
  BY <1>3, <1>4, <1>5, <1>6, <1>7, <1>8, <1>9

(* A port is written as a token that is no delimiter.                      *)
LEMMA Numerals ==
  ASSUME NEW p \in Ports
  PROVE  ToString(p) \in Token \ Delimiters
BY PortsAssumption DEF Token

(* Each part of a URI is in its string where it should be.                 *)
LEMMA Layout ==
  ASSUME NEW u \in Uri
  PROVE  LET s == Render(u)
             a == AuthorityAt(u)
             h == HostAt(u)
             c == PortAt(u)
             p == PathAt(u)
             q == QueryAt(u)
             f == FragmentAt(u)
         IN  /\ s \in Seq(Token) /\ Len(s) = EndAt(u)
             /\ \A i \in 1..Len(u.scheme) : s[i] = u.scheme[i]
             /\ u.scheme # <<>> => s[a - 2] = ":" /\ s[a - 1] = "/" /\ s[a] = "/"
             /\ \A i \in 1..Len(u.user_info) : s[a + i] = u.user_info[i]
             /\ u.user_info # <<>> => s[h] = "@"
             /\ \A i \in 1..Len(u.host) : s[h + i] = u.host[i]
             /\ u.port # 0 => s[c + 1] = ":" /\ s[c + 2] = ToString(u.port)
             /\ \A i \in 1..Len(PathText(u.path)) : s[p + i] = PathText(u.path)[i]
             /\ u.query # <<>> => s[q + 1] = "?"
             /\ \A i \in 1..Len(u.query) : s[q + 1 + i] = u.query[i]
             /\ u.fragment # <<>> => s[f + 1] = "#"
             /\ \A i \in 1..Len(u.fragment) : s[f + 1 + i] = u.fragment[i]
<1> DEFINE s == Render(u)
           A == Opt(u.scheme, <<>>, <<":", "/", "/">>)
           B == Opt(u.user_info, <<>>, <<"@">>)
           C == u.host
           D == IF u.port = 0 THEN <<>> ELSE <<":">> \o Number(u.port)
           E == PathText(u.path)
           F == Opt(u.query, <<"?">>, <<>>)
           G == Opt(u.fragment, <<"#">>, <<>>)
           a == AuthorityAt(u)
           h == HostAt(u)
           c == PortAt(u)
           p == PathAt(u)
           q == QueryAt(u)
           f == FragmentAt(u)
<1>1. /\ u.scheme \in Seq(Token) /\ u.user_info \in Seq(Token) /\ u.host \in Seq(Token)
      /\ u.port \in Ports \cup {0} /\ u.path \in Seq(Seq(Token))
      /\ u.query \in Seq(Token) /\ u.fragment \in Seq(Token)
  BY DEF Uri
<1>2. /\ ":" \in Token /\ "/" \in Token /\ "@" \in Token /\ "?" \in Token /\ "#" \in Token
  BY SomeTokens
<1>3. /\ Len(u.scheme) \in Nat /\ Len(u.user_info) \in Nat /\ Len(u.host) \in Nat
      /\ Len(u.query) \in Nat /\ Len(u.fragment) \in Nat
  BY <1>1
<1>4. /\ A \in Seq(Token) /\ Len(A) = (IF u.scheme = <<>> THEN 0 ELSE Len(u.scheme) + 3)
      /\ \A i \in 1..Len(u.scheme) : A[i] = u.scheme[i]
      /\ u.scheme # <<>> => /\ A[Len(u.scheme) + 1] = ":" /\ A[Len(u.scheme) + 2] = "/"
                            /\ A[Len(u.scheme) + 3] = "/"
  <2> DEFINE x == <<":", "/", "/">>
  <2>1. x \in Seq(Token) /\ Len(x) = 3 /\ x[1] = ":" /\ x[2] = "/" /\ x[3] = "/"
    BY <1>2, ThreeElements
  <2>2. A = Opt(u.scheme, <<>>, x)
    OBVIOUS
  <2> HIDE DEF x, A
  <2> DEFINE part == u.scheme
  <2>5. part \in Seq(Token) /\ A = Opt(part, <<>>, x)
    BY <1>1, <2>2
  <2> HIDE DEF part
  <2>6. /\ A \in Seq(Token) /\ Len(A) = (IF part = <<>> THEN 0 ELSE Len(part) + Len(x))
        /\ \A i \in 1..Len(part) : A[i] = part[i]
        /\ part # <<>> => \A i \in 1..Len(x) : A[Len(part) + i] = x[i]
    BY <2>1, <2>5, OptAfter
  <2>3. /\ A \in Seq(Token) /\ Len(A) = (IF u.scheme = <<>> THEN 0 ELSE Len(u.scheme) + Len(x))
        /\ \A i \in 1..Len(u.scheme) : A[i] = u.scheme[i]
        /\ u.scheme # <<>> => \A i \in 1..Len(x) : A[Len(u.scheme) + i] = x[i]
    BY <2>6 DEF part
  <2>4. 1 \in 1..Len(x) /\ 2 \in 1..Len(x) /\ 3 \in 1..Len(x)
    BY <2>1
  <2> QED
    BY <2>1, <2>3, <2>4
<1>5. /\ B \in Seq(Token) /\ Len(B) = (IF u.user_info = <<>> THEN 0 ELSE Len(u.user_info) + 1)
      /\ \A i \in 1..Len(u.user_info) : B[i] = u.user_info[i]
      /\ u.user_info # <<>> => B[Len(u.user_info) + 1] = "@"
  <2> DEFINE x == <<"@">>
  <2>1. x \in Seq(Token) /\ Len(x) = 1 /\ x[1] = "@"
    BY <1>2, Singleton
  <2>2. B = Opt(u.user_info, <<>>, x)
    OBVIOUS
  <2> HIDE DEF x, B
  <2> DEFINE part == u.user_info
  <2>5. part \in Seq(Token) /\ B = Opt(part, <<>>, x)
    BY <1>1, <2>2
  <2> HIDE DEF part
  <2>6. /\ B \in Seq(Token) /\ Len(B) = (IF part = <<>> THEN 0 ELSE Len(part) + Len(x))
        /\ \A i \in 1..Len(part) : B[i] = part[i]
        /\ part # <<>> => \A i \in 1..Len(x) : B[Len(part) + i] = x[i]
    BY <2>1, <2>5, OptAfter
  <2>3. /\ B \in Seq(Token) /\ Len(B) = (IF u.user_info = <<>> THEN 0 ELSE Len(u.user_info) + Len(x))
        /\ \A i \in 1..Len(u.user_info) : B[i] = u.user_info[i]
        /\ u.user_info # <<>> => \A i \in 1..Len(x) : B[Len(u.user_info) + i] = x[i]
    BY <2>6 DEF part
  <2>4. 1 \in 1..Len(x)
    BY <2>1
  <2> QED
    BY <2>1, <2>3, <2>4
<1>6. /\ D \in Seq(Token) /\ Len(D) = (IF u.port = 0 THEN 0 ELSE 2)
      /\ u.port # 0 => D[1] = ":" /\ D[2] = ToString(u.port)
  <2>1. CASE u.port = 0
    <3>1. D = <<>>
      BY <2>1
    <3> HIDE DEF D
    <3> QED
      BY <2>1, <3>1
  <2>2. CASE u.port # 0
    <3> DEFINE t == ToString(u.port)
    <3>1. t \in Token
      BY <1>1, <2>2, Numerals
    <3>2. D = <<":">> \o <<t>>
      BY <2>2 DEF Number
    <3> HIDE DEF t, D
    <3>3. <<t>> \in Seq(Token) /\ Len(<<t>>) = 1 /\ <<t>>[1] = t /\ 1 \in 1..1
      BY <3>1, Singleton
    <3>4. /\ D \in Seq(Token) /\ Len(D) = 1 + Len(<<t>>) /\ D[1] = ":"
          /\ \A j \in 1..Len(<<t>>) : D[1 + j] = <<t>>[j]
      BY <1>2, <3>2, <3>3, OneAndRest
    <3>5. D[1 + 1] = t
      BY <3>3, <3>4
    <3> QED
      BY <2>2, <3>3, <3>4, <3>5 DEF t
  <2> QED
    BY <2>1, <2>2
<1>7. E \in Seq(Token) /\ Len(E) \in Nat
  <2>1. E \in Seq(Token)
    BY <1>1, PathTextFacts
  <2> QED
    BY <2>1
<1>8. /\ F \in Seq(Token) /\ Len(F) = (IF u.query = <<>> THEN 0 ELSE 1 + Len(u.query))
      /\ u.query # <<>> => F[1] = "?"
      /\ \A i \in 1..Len(u.query) : F[1 + i] = u.query[i]
  BY <1>1, <1>2, OptBefore
<1>9. /\ G \in Seq(Token) /\ Len(G) = (IF u.fragment = <<>> THEN 0 ELSE 1 + Len(u.fragment))
      /\ u.fragment # <<>> => G[1] = "#"
      /\ \A i \in 1..Len(u.fragment) : G[1 + i] = u.fragment[i]
  BY <1>1, <1>2, OptBefore
<1>10. s = A \o B \o C \o D \o E \o F \o G
  BY DEF Render
<1> HIDE DEF s, A, B, C, D, E, F, G
<1>11. /\ a = Len(A) /\ h = a + Len(B) /\ c = h + Len(C) /\ p = c + Len(D) /\ q = p + Len(E)
       /\ f = q + Len(F) /\ EndAt(u) = f + Len(G)
  BY <1>4, <1>5, <1>6, <1>8, <1>9
     DEF AuthorityAt, HostAt, PortAt, PathAt, QueryAt, FragmentAt, EndAt, C, E
<1> HIDE DEF a, h, c, p, q, f
<1>12. /\ s \in Seq(Token) /\ Len(s) = f + Len(G)
       /\ a \in Nat /\ h \in Nat /\ c \in Nat /\ p \in Nat /\ q \in Nat /\ f \in Nat
       /\ \A i \in 1..Len(A) : s[i] = A[i]
       /\ \A i \in 1..Len(B) : s[a + i] = B[i]
       /\ \A i \in 1..Len(C) : s[h + i] = C[i]
       /\ \A i \in 1..Len(D) : s[c + i] = D[i]
       /\ \A i \in 1..Len(E) : s[p + i] = E[i]
       /\ \A i \in 1..Len(F) : s[q + i] = F[i]
       /\ \A i \in 1..Len(G) : s[f + i] = G[i]
  <2>1. C \in Seq(Token)
    BY <1>1 DEF C
  <2>2. a = Len(A) /\ h = a + Len(B) /\ c = h + Len(C) /\ p = c + Len(D) /\ q = p + Len(E)
        /\ f = q + Len(F)
    BY <1>11
  <2>3. /\ A \in Seq(Token) /\ B \in Seq(Token) /\ C \in Seq(Token) /\ D \in Seq(Token)
        /\ E \in Seq(Token) /\ F \in Seq(Token) /\ G \in Seq(Token)
    BY <1>4, <1>5, <1>6, <1>7, <1>8, <1>9, <2>1
  <2>4. Spread(A \o B \o C \o D \o E \o F \o G, A, B, C, D, E, F, G, a, h, c, p, q, f)
    BY <2>2, <2>3, Seven
  <2>5. Spread(s, A, B, C, D, E, F, G, a, h, c, p, q, f)
    BY <1>10, <2>4
  <2>6. /\ Len(A) \in Nat /\ Len(B) \in Nat /\ Len(C) \in Nat /\ Len(D) \in Nat
        /\ Len(E) \in Nat /\ Len(F) \in Nat
    BY <2>3
  <2>7. a \in Nat /\ h \in Nat /\ c \in Nat /\ p \in Nat /\ q \in Nat /\ f \in Nat
    BY <2>2, <2>6
  <2> QED
    BY <2>5, <2>7 DEF Spread
<1>13. \A i \in 1..Len(u.scheme) : s[i] = u.scheme[i]
  BY <1>3, <1>4, <1>12
<1>14. u.scheme # <<>> => s[a - 2] = ":" /\ s[a - 1] = "/" /\ s[a] = "/"
  <2> SUFFICES ASSUME u.scheme # <<>> PROVE s[a - 2] = ":" /\ s[a - 1] = "/" /\ s[a] = "/"
    OBVIOUS
  <2> DEFINE w == Len(u.scheme)
  <2>1. w \in Nat /\ Len(A) = w + 3 /\ a = w + 3
    BY <1>3, <1>4, <1>11
  <2>2. A[w + 1] = ":" /\ A[w + 2] = "/" /\ A[w + 3] = "/"
    BY <1>4
  <2> HIDE DEF w
  <2>3. w + 1 \in 1..Len(A) /\ w + 2 \in 1..Len(A) /\ w + 3 \in 1..Len(A)
        /\ a - 2 = w + 1 /\ a - 1 = w + 2
    BY <2>1
  <2> QED
    BY <1>12, <2>1, <2>2, <2>3
<1>15. \A i \in 1..Len(u.user_info) : s[a + i] = u.user_info[i]
  BY <1>3, <1>5, <1>12
<1>16. u.user_info # <<>> => s[h] = "@"
  <2> SUFFICES ASSUME u.user_info # <<>> PROVE s[h] = "@"
    OBVIOUS
  <2> DEFINE w == Len(u.user_info)
  <2>1. w \in Nat /\ Len(B) = w + 1 /\ h = a + (w + 1) /\ B[w + 1] = "@"
    BY <1>3, <1>5, <1>11
  <2> HIDE DEF w
  <2>2. w + 1 \in 1..Len(B)
    BY <2>1
  <2> QED
    BY <1>12, <2>1, <2>2
<1>17. \A i \in 1..Len(u.host) : s[h + i] = u.host[i]
  BY <1>12 DEF C
<1>18. u.port # 0 => s[c + 1] = ":" /\ s[c + 2] = ToString(u.port)
  <2> SUFFICES ASSUME u.port # 0 PROVE s[c + 1] = ":" /\ s[c + 2] = ToString(u.port)
    OBVIOUS
  <2>1. 1 \in 1..Len(D) /\ 2 \in 1..Len(D)
    BY <1>6
  <2> QED
    BY <1>6, <1>12, <2>1
<1>19. \A i \in 1..Len(PathText(u.path)) : s[p + i] = PathText(u.path)[i]
  BY <1>12 DEF E
<1>20. /\ u.query # <<>> => s[q + 1] = "?"
       /\ \A i \in 1..Len(u.query) : s[q + 1 + i] = u.query[i]
  <2> DEFINE w == Len(u.query)
  <2>1. /\ w \in Nat /\ Len(F) = (IF u.query = <<>> THEN 0 ELSE 1 + w)
        /\ u.query = <<>> => w = 0
        /\ \A i \in 1..w : F[1 + i] = u.query[i]
    BY <1>3, <1>8
  <2> HIDE DEF w
  <2>2. u.query # <<>> => s[q + 1] = "?"
    <3>1. u.query # <<>> => 1 \in 1..Len(F)
      BY <2>1
    <3> QED
      BY <1>8, <1>12, <3>1
  <2>3. ASSUME NEW i \in 1..w PROVE s[q + 1 + i] = u.query[i]
    <3>1. 1 + i \in 1..Len(F) /\ q + 1 + i = q + (1 + i)
      BY <1>12, <2>1
    <3> QED
      BY <1>12, <2>1, <3>1
  <2> QED
    BY <2>2, <2>3 DEF w
<1>21. /\ u.fragment # <<>> => s[f + 1] = "#"
       /\ \A i \in 1..Len(u.fragment) : s[f + 1 + i] = u.fragment[i]
  <2> DEFINE w == Len(u.fragment)
  <2>1. /\ w \in Nat /\ Len(G) = (IF u.fragment = <<>> THEN 0 ELSE 1 + w)
        /\ u.fragment = <<>> => w = 0
        /\ \A i \in 1..w : G[1 + i] = u.fragment[i]
    BY <1>3, <1>9
  <2> HIDE DEF w
  <2>2. u.fragment # <<>> => s[f + 1] = "#"
    <3>1. u.fragment # <<>> => 1 \in 1..Len(G)
      BY <2>1
    <3> QED
      BY <1>9, <1>12, <3>1
  <2>3. ASSUME NEW i \in 1..w PROVE s[f + 1 + i] = u.fragment[i]
    <3>1. 1 + i \in 1..Len(G) /\ f + 1 + i = f + (1 + i)
      BY <1>12, <2>1
    <3> QED
      BY <1>12, <2>1, <3>1
  <2> QED
    BY <2>2, <2>3 DEF w
<1>22. s \in Seq(Token) /\ Len(s) = EndAt(u)
  BY <1>11, <1>12
<1> QED
  BY <1>13, <1>14, <1>15, <1>16, <1>17, <1>18, <1>19, <1>20, <1>21, <1>22 DEF s, a, h, c, p, q, f

-----------------------------------------------------------------------------
(* The searches of fromString.                                             *)

SchemeEnd(s) == Find(s, <<":", "/", "/">>, 0)
AuthorityStart(s) == IF SchemeEnd(s) = npos THEN 0 ELSE SchemeEnd(s) + 3
UserEnd(s) == Find(s, <<"@">>, AuthorityStart(s))
HostStart(s) == IF UserEnd(s) = npos THEN AuthorityStart(s) ELSE UserEnd(s) + 1
Last1(s) == Minus(Len(s), 1)
FragmentMark(s) == RFind(s, <<"#">>, npos)
QueryEnd(s) == Before(FragmentMark(s), Last1(s))
QueryMark(s) == RFind(s, <<"?">>, QueryEnd(s))
PathEnd(s) == Before(QueryMark(s), QueryEnd(s))
PathMark(s) == Find(s, <<"/">>, HostStart(s))
PortEnd(s) == Before(PathMark(s), PathEnd(s))
PortMark(s) == RFind(s, <<":">>, PortEnd(s))
HostEnd(s) == Before(PortMark(s), PortEnd(s))

SchemeRead(s) == IF SchemeEnd(s) = npos THEN <<>> ELSE Substr(s, 0, SchemeEnd(s))
UserRead(s) ==
  IF UserEnd(s) = npos THEN <<>> ELSE Substr(s, AuthorityStart(s), UserEnd(s) - AuthorityStart(s))
HostRead(s) == Substr(s, HostStart(s), Plus(Minus(HostEnd(s), HostStart(s)), 1))
PortsRead(s) == IF PortMark(s) = npos THEN {0} ELSE PortIn(PartAfter(s, PortMark(s), PortEnd(s)))
PathRead(s) == Split(PartAfter(s, PathMark(s), PathEnd(s)), "/")
QueryRead(s) == PartAfter(s, QueryMark(s), QueryEnd(s))
FragmentRead(s) == PartAfter(s, FragmentMark(s), Last1(s))

(* fromString gives u, and nothing else, when each of its parts is u's.    *)
LEMMA FromStringIs ==
  ASSUME NEW s, NEW u \in Uri
  PROVE  FromString(s) = {u} <=>
           /\ u.scheme = SchemeRead(s) /\ u.user_info = UserRead(s) /\ u.host = HostRead(s)
           /\ PortsRead(s) = {u.port} /\ u.path = PathRead(s) /\ u.query = QueryRead(s)
           /\ u.fragment = FragmentRead(s)
<1> DEFINE scheme == SchemeRead(s)
           user == UserRead(s)
           host == HostRead(s)
           ports == PortsRead(s)
           path == PathRead(s)
           query == QueryRead(s)
           fragment == FragmentRead(s)
           Read(n) == [scheme |-> scheme, user_info |-> user, host |-> host, port |-> n,
                       path |-> path, query |-> query, fragment |-> fragment]
<1>1. FromString(s) = {Read(n) : n \in ports}
  BY DEF FromString, SchemeEnd, AuthorityStart, UserEnd, HostStart, Last1, FragmentMark, QueryEnd,
         QueryMark, PathEnd, PathMark, PortEnd, PortMark, HostEnd, SchemeRead, UserRead, HostRead,
         PortsRead, PathRead, QueryRead, FragmentRead
<1> HIDE DEF scheme, user, host, ports, path, query, fragment
<1>2. u = [scheme |-> u.scheme, user_info |-> u.user_info, host |-> u.host, port |-> u.port,
           path |-> u.path, query |-> u.query, fragment |-> u.fragment]
  BY DEF Uri
<1> DEFINE Same == /\ u.scheme = scheme /\ u.user_info = user /\ u.host = host /\ u.path = path
                   /\ u.query = query /\ u.fragment = fragment
<1>3. ASSUME NEW n PROVE Read(n) = u <=> Same /\ n = u.port
  <2>1. ASSUME Read(n) = u PROVE Same /\ n = u.port
    <3>1. /\ Read(n).scheme = scheme /\ Read(n).user_info = user /\ Read(n).host = host
          /\ Read(n).port = n
          /\ Read(n).path = path /\ Read(n).query = query /\ Read(n).fragment = fragment
      OBVIOUS
    <3> QED
      BY <2>1, <3>1
  <2>2. ASSUME Same, n = u.port PROVE Read(n) = u
    BY <1>2, <2>2
  <2> QED
    BY <2>1, <2>2
<1> HIDE DEF Read, Same
<1>4. FromString(s) = {u} <=> Same /\ ports = {u.port}
  <2>1. ASSUME FromString(s) = {u} PROVE Same /\ ports = {u.port}
    <3>1. \A n \in ports : Read(n) = u
      BY <1>1, <2>1
    <3>2. \E n \in ports : Read(n) = u
      BY <1>1, <2>1
    <3> QED
      BY <1>3, <3>1, <3>2
  <2>2. ASSUME Same, ports = {u.port} PROVE FromString(s) = {u}
    <3>1. \A n \in ports : Read(n) = u
      BY <1>3, <2>2
    <3> QED
      BY <1>1, <2>2, <3>1
  <2> QED
    BY <2>1, <2>2
<1> QED
  BY <1>4 DEF Same, scheme, user, host, ports, path, query, fragment

(* The differences and sums of size_t, with their wrap.                    *)
LEMMA Modulo ==
  ASSUME NEW x \in Nat, x < W + W
  PROVE  /\ x < W => x % W = x
         /\ W <= x => x % W = x - W
BY Words

(* The values of size_t.                                                   *)
Size == {x \in Nat : x < W}

LEMMA MinusIs ==
  ASSUME NEW a \in Size, NEW b \in Size
  PROVE  /\ b <= a => Minus(a, b) = a - b
         /\ a < b => Minus(a, b) = a - b + W
         /\ Minus(a, b) \in Size
<1> DEFINE x == a - b + W
<1>1. W \in Nat /\ a \in Nat /\ b \in Nat /\ a < W /\ b < W
  BY Words DEF Size
<1>2. x \in Nat /\ x < W + W /\ (b <= a => W <= x /\ x - W = a - b) /\ (a < b => x < W)
  BY <1>1
<1>3. Minus(a, b) = x % W
  BY DEF Minus
<1> HIDE DEF x
<1>4. x < W => x % W = x
  BY <1>2, Modulo
<1>5. W <= x => x % W = x - W
  BY <1>2, Modulo
<1>6. CASE b <= a
  <2>1. Minus(a, b) = a - b /\ a - b \in Nat /\ a - b < W
    BY <1>1, <1>2, <1>3, <1>5, <1>6
  <2> QED
    BY <1>1, <1>6, <2>1 DEF Size
<1>7. CASE a < b
  <2>1. Minus(a, b) = x /\ x < W
    BY <1>1, <1>2, <1>3, <1>4, <1>7
  <2> QED
    BY <1>1, <1>2, <1>7, <2>1 DEF Size, x
<1> QED
  BY <1>1, <1>6, <1>7

LEMMA PlusIs ==
  ASSUME NEW a \in Size
  PROVE  /\ a < npos => Plus(a, 1) = a + 1
         /\ a = npos => Plus(a, 1) = 0
<1>1. a \in Nat /\ a < W /\ npos = W - 1 /\ W \in Nat /\ W > 1
  BY Words DEF Size
<1>2. Plus(a, 1) = (a + 1) % W
  BY DEF Plus
<1>3. a + 1 \in Nat /\ a + 1 < W + W
  BY <1>1
<1>4. (a + 1 < W => (a + 1) % W = a + 1) /\ (W <= a + 1 => (a + 1) % W = (a + 1) - W)
  BY <1>3, Modulo
<1> QED
  BY <1>1, <1>2, <1>4

(* find gives npos or a position in the string.                            *)
LEMMA FindFacts ==
  ASSUME NEW s \in Seq(Token), NEW t, NEW from \in Nat
  PROVE  Find(s, t, from) = npos \/ Find(s, t, from) \in 0..(Len(s) - 1)
<1> DEFINE Found == {i \in Positions(s) : i >= from /\ At(s, t, i)}
<1>1. Found \subseteq 0..(Len(s) - 1) /\ Found \subseteq Nat
  BY DEF Positions
<1> HIDE DEF Found
<1>2. Found # {} => Min(Found) \in Found
  BY <1>1, FiniteMin
<1>3. Find(s, t, from) = Lowest(Found)
  BY DEF Find, Found
<1> QED
  BY <1>1, <1>2, <1>3 DEF Lowest

(* The first "://".                                                        *)
LEMMA SchemeSearch ==
  ASSUME NEW s \in Seq(Token), Len(s) < npos
  PROVE  /\ SchemeEnd(s) = npos \/ /\ SchemeEnd(s) \in 0..(Len(s) - 3)
                                   /\ s[SchemeEnd(s) + 1] = ":" /\ s[SchemeEnd(s) + 2] = "/"
                                   /\ s[SchemeEnd(s) + 3] = "/"
<1> DEFINE t == <<":", "/", "/">>
           r == SchemeEnd(s)
           Found == {i \in Positions(s) : i >= 0 /\ At(s, t, i)}
<1>1. Len(t) = 3 /\ t[1] = ":" /\ t[2] = "/" /\ t[3] = "/"
  OBVIOUS
<1>2. Found \subseteq Nat /\ r = Lowest(Found)
  BY DEF Positions, SchemeEnd, Find
<1>3. \A i \in Found : i \in Positions(s) /\ At(s, t, i)
  OBVIOUS
<1> HIDE DEF Found, t, r
<1>4. Found # {} => r \in Found
  BY <1>2, FiniteMin DEF Lowest
<1>5. Found = {} => r = npos
  BY <1>2 DEF Lowest
<1>6. ASSUME Found # {}
      PROVE  r \in 0..(Len(s) - 3) /\ s[r + 1] = ":" /\ s[r + 2] = "/" /\ s[r + 3] = "/"
  <2>1. r \in 0..(Len(s) - 1) /\ r + 3 <= Len(s) /\ SubSeq(s, r + 1, r + 3) = t
    BY <1>1, <1>3, <1>4, <1>6 DEF Positions, At
  <2>2. r + 1 \in 1..(Len(s) + 1) /\ r + 3 \in ((r + 1) - 1)..Len(s)
    BY <2>1
  <2>3. \A i \in 1..((r + 3) - (r + 1) + 1) : SubSeq(s, r + 1, r + 3)[i] = s[(r + 1) + i - 1]
    BY <2>2, SubSeqFacts
  <2>4. \A i \in 1..3 : t[i] = s[r + i]
    <3> TAKE i \in 1..3
    <3>1. i \in 1..((r + 3) - (r + 1) + 1) /\ (r + 1) + i - 1 = r + i
      BY <2>1
    <3> QED
      BY <2>1, <2>3, <3>1
  <2> QED
    BY <1>1, <2>1, <2>4
<1> QED
  BY <1>4, <1>5, <1>6 DEF r

(* What each search of fromString looks for, and between which positions.  *)
LEMMA SearchFacts ==
  ASSUME NEW s \in Seq(Token), Len(s) >= 1, Len(s) < npos
  PROVE  /\ AuthorityStart(s) \in 0..Len(s) /\ HostStart(s) \in 0..Len(s)
         /\ Last1(s) = Len(s) - 1
         /\ QueryEnd(s) \in Size /\ PathEnd(s) \in Size /\ PortEnd(s) \in Size
         /\ HostEnd(s) \in Size
         /\ IsFirst(UserEnd(s), s, "@", AuthorityStart(s))
         /\ IsFirst(PathMark(s), s, "/", HostStart(s))
         /\ IsLast(FragmentMark(s), s, "#", npos)
         /\ IsLast(QueryMark(s), s, "?", QueryEnd(s))
         /\ IsLast(PortMark(s), s, ":", PortEnd(s))
<1> DEFINE n == Len(s)
<1>1. n \in Nat /\ n >= 1 /\ n < 65535 /\ npos = 65535 /\ n = Len(s)
  BY Words
<1>2. Positions(s) = 0..(n - 1)
  BY DEF Positions
<1>3. "@" \in Token /\ "/" \in Token /\ "#" \in Token /\ "?" \in Token /\ ":" \in Token
  BY SomeTokens
<1> HIDE DEF n
<1>4. AuthorityStart(s) \in 0..n
  <2>1. SchemeEnd(s) = npos \/ SchemeEnd(s) \in 0..(n - 3)
    BY <1>1, SchemeSearch
  <2> DEFINE r == SchemeEnd(s)
  <2> HIDE DEF r
  <2>2. (IF r = npos THEN 0 ELSE r + 3) \in 0..n
    BY <1>1, <2>1 DEF r
  <2> QED
    BY <2>2 DEF AuthorityStart, r
<1>5. IsFirst(UserEnd(s), s, "@", AuthorityStart(s))
  <2>1. AuthorityStart(s) \in Nat
    BY <1>1, <1>4
  <2> QED
    BY <1>3, <2>1, FindToken DEF UserEnd
<1>6. HostStart(s) \in 0..n
  <2> DEFINE r == UserEnd(s)
  <2>1. r = npos \/ r \in 0..(n - 1)
    BY <1>2, <1>5 DEF IsFirst
  <2> HIDE DEF r
  <2>2. (IF r = npos THEN AuthorityStart(s) ELSE r + 1) \in 0..n
    BY <1>1, <1>4, <2>1
  <2> QED
    BY <2>2 DEF HostStart, r
<1>7. IsFirst(PathMark(s), s, "/", HostStart(s))
  <2>1. HostStart(s) \in Nat
    BY <1>1, <1>6
  <2> QED
    BY <1>3, <2>1, FindToken DEF PathMark
<1>8. Last1(s) = n - 1 /\ Last1(s) \in Size
  <2>1. n \in Size /\ 1 \in Size /\ 1 <= n
    BY <1>1, Words DEF Size
  <2>2. Minus(n, 1) = n - 1 /\ n - 1 \in Size
    BY <1>1, <2>1, MinusIs
  <2> QED
    BY <1>1, <2>2 DEF Last1
<1>9. ASSUME NEW r, NEW c, NEW from, IsLast(r, s, c, from) \/ IsFirst(r, s, c, from),
             NEW x \in Size
      PROVE  Before(r, x) \in Size
  <2>1. r = npos \/ r \in Size
    <3>1. r = npos \/ r \in 0..(n - 1)
      BY <1>2, <1>9 DEF IsLast, IsFirst
    <3> QED
      BY <1>1, <3>1, Words DEF Size
  <2>2. 1 \in Size
    BY Words DEF Size
  <2>3. r \in Size => Minus(r, 1) \in Size
    BY <2>2, MinusIs
  <2> QED
    BY <2>1, <2>3 DEF Before
<1>10. IsLast(FragmentMark(s), s, "#", npos)
  <2>1. npos \in Nat
    BY <1>1
  <2> QED
    BY <1>3, <2>1, RFindToken DEF FragmentMark
<1>11. QueryEnd(s) \in Size
  BY <1>8, <1>9, <1>10 DEF QueryEnd
<1>12. IsLast(QueryMark(s), s, "?", QueryEnd(s))
  <2>1. QueryEnd(s) \in Nat
    BY <1>11 DEF Size
  <2> QED
    BY <1>3, <2>1, RFindToken DEF QueryMark
<1>13. PathEnd(s) \in Size
  BY <1>9, <1>11, <1>12 DEF PathEnd
<1>14. PortEnd(s) \in Size
  BY <1>7, <1>9, <1>13 DEF PortEnd
<1>15. IsLast(PortMark(s), s, ":", PortEnd(s))
  <2>1. PortEnd(s) \in Nat
    BY <1>14 DEF Size
  <2> QED
    BY <1>3, <2>1, RFindToken DEF PortMark
<1>16. HostEnd(s) \in Size
  BY <1>9, <1>14, <1>15 DEF HostEnd
<1> QED
  BY <1>4, <1>5, <1>6, <1>7, <1>8, <1>10, <1>11, <1>12, <1>13, <1>14, <1>15, <1>16 DEF n


-----------------------------------------------------------------------------
(* Where a token is.                                                       *)

(* A token between two positions, the second one not included.             *)
Holds(s, from, to, x) == \E i \in from..(to - 1) : s[i + 1] = x

(* A stretch of the string holds a token: an empty one, one of length one, *)
(* two adjacent ones, one that is a part.                                  *)
LEMMA HoldsNone ==
  ASSUME NEW s, NEW k \in Nat, NEW x
  PROVE  ~Holds(s, k, k, x)
BY DEF Holds

LEMMA HoldsOne ==
  ASSUME NEW s, NEW k \in Nat, NEW x
  PROVE  Holds(s, k, k + 1, x) <=> s[k + 1] = x
<1>1. \A i \in k..((k + 1) - 1) : i = k
  OBVIOUS
<1>2. k \in k..((k + 1) - 1)
  OBVIOUS
<1> QED
  BY <1>1, <1>2 DEF Holds

LEMMA HoldsTwo ==
  ASSUME NEW s, NEW x, NEW j \in Nat, NEW k \in Nat, NEW l \in Nat, j <= k, k <= l
  PROVE  Holds(s, j, l, x) <=> Holds(s, j, k, x) \/ Holds(s, k, l, x)
<1>1. \A i \in j..(l - 1) : i \in j..(k - 1) \/ i \in k..(l - 1)
  OBVIOUS
<1>2. \A i \in j..(k - 1) : i \in j..(l - 1)
  OBVIOUS
<1>3. \A i \in k..(l - 1) : i \in j..(l - 1)
  OBVIOUS
<1> QED
  BY <1>1, <1>2, <1>3 DEF Holds

LEMMA HoldsPart ==
  ASSUME NEW s, NEW part \in Seq(Token), NEW x, NEW k \in Nat,
         \A i \in 1..Len(part) : s[k + i] = part[i], NEW l, l = k + Len(part)
  PROVE  Holds(s, k, l, x) <=> Has(part, x)
<1>1. Len(part) \in Nat /\ DOMAIN part = 1..Len(part)
  OBVIOUS
<1>2. Has(part, x) <=> \E i \in 1..Len(part) : part[i] = x
  BY <1>1 DEF Has, ToSet
<1>3. ASSUME Holds(s, k, l, x) PROVE \E i \in 1..Len(part) : part[i] = x
  <2>1. PICK i \in k..(l - 1) : s[i + 1] = x
    BY <1>3 DEF Holds
  <2> DEFINE j == i - k + 1
  <2>2. j \in 1..Len(part) /\ k + j = i + 1
    BY <1>1, <2>1
  <2> HIDE DEF j
  <2> QED
    BY <2>1, <2>2
<1>4. ASSUME NEW i \in 1..Len(part), part[i] = x PROVE Holds(s, k, l, x)
  <2> DEFINE j == k + i - 1
  <2>1. j \in k..(l - 1) /\ j + 1 = k + i
    BY <1>1
  <2> HIDE DEF j
  <2>2. s[j + 1] = x
    BY <1>4, <2>1
  <2> QED
    BY <2>1, <2>2 DEF Holds
<1> QED
  BY <1>2, <1>3, <1>4

(* What a search finds.                                                    *)
FoundFirst(r, s, x, from, n) ==
  /\ r = npos <=> ~Holds(s, from, n, x)
  /\ r # npos => r \in from..(n - 1) /\ s[r + 1] = x /\ ~Holds(s, from, r, x)
  /\ \A k \in from..(n - 1) : r = k <=> s[k + 1] = x /\ ~Holds(s, from, k, x)

FoundLast(r, s, x, to) ==
  /\ r = npos <=> ~Holds(s, 0, to, x)
  /\ r # npos => r \in 0..(to - 1) /\ s[r + 1] = x /\ ~Holds(s, r + 1, to, x)
  /\ \A k \in 0..(to - 1) : r = k <=> s[k + 1] = x /\ ~Holds(s, k + 1, to, x)

(* The results of find and rfind, in terms of the stretches that hold the  *)
(* token.                                                                  *)
LEMMA FirstIs ==
  ASSUME NEW s \in Seq(Token), NEW n \in Nat, n = Len(s), n < npos, NEW x, NEW from \in 0..n,
         NEW r, IsFirst(r, s, x, from)
  PROVE  FoundFirst(r, s, x, from, n)
<1>1. Positions(s) = 0..(n - 1) /\ npos \in Nat
  BY Words DEF Positions
<1>2. ASSUME r = npos PROVE ~Holds(s, from, n, x)
  <2>1. r \notin Positions(s)
    BY <1>1, <1>2
  <2>2. \A i \in Positions(s) : i >= from => s[i + 1] # x
    BY <2>1 DEF IsFirst
  <2>3. \A i \in from..(n - 1) : i \in Positions(s) /\ i >= from
    BY <1>1
  <2> QED
    BY <2>2, <2>3 DEF Holds
<1>3. ASSUME r # npos PROVE r \in from..(n - 1) /\ s[r + 1] = x /\ ~Holds(s, from, r, x)
  <2>1. /\ r \in Positions(s) /\ r >= from /\ s[r + 1] = x
        /\ \A i \in Positions(s) : i >= from /\ i < r => s[i + 1] # x
    BY <1>3 DEF IsFirst
  <2>2. r \in from..(n - 1)
    BY <1>1, <2>1
  <2>3. \A i \in from..(r - 1) : i \in Positions(s) /\ i >= from /\ i < r
    BY <1>1, <2>2
  <2> QED
    BY <2>1, <2>2, <2>3 DEF Holds
<1>4. ASSUME r # npos PROVE Holds(s, from, n, x)
  BY <1>3, <1>4 DEF Holds
<1>5. ASSUME NEW k \in from..(n - 1), r = k PROVE s[k + 1] = x /\ ~Holds(s, from, k, x)
  <2>1. r # npos
    BY <1>1, <1>5
  <2> QED
    BY <1>3, <1>5, <2>1
<1>6. ASSUME NEW k \in from..(n - 1), s[k + 1] = x, ~Holds(s, from, k, x) PROVE r = k
  <2>1. Holds(s, from, n, x)
    BY <1>6 DEF Holds
  <2>2. r \in from..(n - 1) /\ s[r + 1] = x /\ ~Holds(s, from, r, x)
    BY <1>2, <1>3, <2>1
  <2>3. k < r => k \in from..(r - 1)
    BY <2>2
  <2>4. r < k => r \in from..(k - 1)
    BY <2>2
  <2>5. ~(k < r) /\ ~(r < k)
    BY <1>6, <2>2, <2>3, <2>4 DEF Holds
  <2> QED
    BY <2>2, <2>5
<1> QED
  BY <1>2, <1>3, <1>4, <1>5, <1>6 DEF FoundFirst

LEMMA LastIs ==
  ASSUME NEW s \in Seq(Token), NEW n \in Nat, n = Len(s), n < npos, NEW x,
         NEW to \in 1..n, NEW last, last = to - 1 \/ (to = n /\ last = npos),
         NEW r, IsLast(r, s, x, last)
  PROVE  FoundLast(r, s, x, to)
<1>1. Positions(s) = 0..(n - 1) /\ npos \in Nat
  BY Words DEF Positions
<1>2. \A i \in Positions(s) : i <= last <=> i \in 0..(to - 1)
  BY <1>1
<1>3. \A i \in 0..(to - 1) : i \in Positions(s)
  BY <1>1
<1>4. ASSUME r = npos PROVE ~Holds(s, 0, to, x)
  <2>1. r \notin Positions(s)
    BY <1>1, <1>4
  <2>2. \A i \in Positions(s) : i <= last => s[i + 1] # x
    BY <2>1 DEF IsLast
  <2> QED
    BY <1>2, <1>3, <2>2 DEF Holds
<1>5. ASSUME r # npos PROVE r \in 0..(to - 1) /\ s[r + 1] = x /\ ~Holds(s, r + 1, to, x)
  <2>1. /\ r \in Positions(s) /\ r <= last /\ s[r + 1] = x
        /\ \A i \in Positions(s) : i <= last /\ i > r => s[i + 1] # x
    BY <1>5 DEF IsLast
  <2>2. r \in 0..(to - 1)
    BY <1>2, <2>1
  <2>3. \A i \in (r + 1)..(to - 1) : i \in 0..(to - 1) /\ i > r
    BY <2>2
  <2> QED
    BY <1>2, <1>3, <2>1, <2>2, <2>3 DEF Holds
<1>6. ASSUME r # npos PROVE Holds(s, 0, to, x)
  BY <1>5, <1>6 DEF Holds
<1>7. ASSUME NEW k \in 0..(to - 1), r = k PROVE s[k + 1] = x /\ ~Holds(s, k + 1, to, x)
  <2>1. r # npos
    BY <1>1, <1>7
  <2> QED
    BY <1>5, <1>7, <2>1
<1>8. ASSUME NEW k \in 0..(to - 1), s[k + 1] = x, ~Holds(s, k + 1, to, x) PROVE r = k
  <2>1. Holds(s, 0, to, x)
    BY <1>8 DEF Holds
  <2>2. r \in 0..(to - 1) /\ s[r + 1] = x /\ ~Holds(s, r + 1, to, x)
    BY <1>4, <1>5, <2>1
  <2>3. k < r => r \in (k + 1)..(to - 1)
    BY <2>2
  <2>4. r < k => k \in (r + 1)..(to - 1)
    BY <2>2
  <2>5. ~(k < r) /\ ~(r < k)
    BY <1>8, <2>2, <2>3, <2>4 DEF Holds
  <2> QED
    BY <2>2, <2>5
<1> QED
  BY <1>4, <1>5, <1>6, <1>7, <1>8 DEF FoundLast

(* The parts of a URI u in a string s, and the delimiters between them.     *)
Cuts(u, s, n, a, h, c, p, q, f) ==
  /\ s \in Seq(Token) /\ n = Len(s) /\ n < npos
  /\ n \in Nat /\ a \in Nat /\ h \in Nat /\ c \in Nat /\ p \in Nat /\ q \in Nat /\ f \in Nat
  /\ a <= h /\ h <= c /\ c <= p /\ p < q /\ q <= f /\ f <= n
  /\ IF u.scheme = <<>>
       THEN a = 0
       ELSE a = Len(u.scheme) + 3 /\ a > 3 /\ s[a - 2] = ":" /\ s[a - 1] = "/" /\ s[a] = "/"
  /\ IF u.user_info = <<>>
       THEN h = a
       ELSE h = a + Len(u.user_info) + 1 /\ h > a + 1 /\ s[h] = "@"
  /\ c = h + Len(u.host) /\ (u.host = <<>> <=> c = h)
  /\ IF u.port = 0
       THEN p = c
       ELSE p = c + 2 /\ s[c + 1] = ":" /\ s[c + 2] = ToString(u.port)
  /\ q = p + Len(PathText(u.path)) /\ s[p + 1] = "/"
  /\ IF u.query = <<>> THEN f = q ELSE f = q + 1 + Len(u.query) /\ f > q + 1 /\ s[q + 1] = "?"
  /\ IF u.fragment = <<>>
       THEN n = f
       ELSE n = f + 1 + Len(u.fragment) /\ n > f + 1 /\ s[f + 1] = "#"

Filled(u, s, a, h, p, q, f) ==
  /\ \A i \in 1..Len(u.scheme) : s[i] = u.scheme[i]
  /\ \A i \in 1..Len(u.user_info) : s[a + i] = u.user_info[i]
  /\ \A i \in 1..Len(u.host) : s[h + i] = u.host[i]
  /\ \A i \in 1..Len(PathText(u.path)) : s[p + i] = PathText(u.path)[i]
  /\ \A i \in 1..Len(u.query) : s[q + 1 + i] = u.query[i]
  /\ \A i \in 1..Len(u.fragment) : s[f + 1 + i] = u.fragment[i]

LEMMA NotEmpty ==
  ASSUME NEW T, NEW part \in Seq(T)
  PROVE  /\ Len(part) \in Nat
         /\ IF part = <<>> THEN Len(part) = 0 ELSE Len(part) > 0
<1>1. part # <<>> => Len(part) # 0
  OBVIOUS
<1>2. part = <<>> => Len(part) = 0
  OBVIOUS
<1> QED
  BY <1>1, <1>2

(* The string of a URI is cut at its places and filled with its parts.     *)
LEMMA RenderCuts ==
  ASSUME NEW u \in Uri, Len(Render(u)) < npos
  PROVE  /\ Cuts(u, Render(u), EndAt(u), AuthorityAt(u), HostAt(u), PortAt(u), PathAt(u), QueryAt(u),
                 FragmentAt(u))
         /\ Filled(u, Render(u), AuthorityAt(u), HostAt(u), PathAt(u), QueryAt(u), FragmentAt(u))
<1> DEFINE s == Render(u)
           n == EndAt(u)
           a == AuthorityAt(u)
           h == HostAt(u)
           c == PortAt(u)
           p == PathAt(u)
           q == QueryAt(u)
           f == FragmentAt(u)
           text == PathText(u.path)
<1>1. /\ a = IF u.scheme = <<>> THEN 0 ELSE Len(u.scheme) + 3
      /\ h = a + (IF u.user_info = <<>> THEN 0 ELSE Len(u.user_info) + 1)
      /\ c = h + Len(u.host)
      /\ p = c + (IF u.port = 0 THEN 0 ELSE 2)
      /\ q = p + Len(text)
      /\ f = q + (IF u.query = <<>> THEN 0 ELSE 1 + Len(u.query))
      /\ n = f + (IF u.fragment = <<>> THEN 0 ELSE 1 + Len(u.fragment))
  BY DEF AuthorityAt, HostAt, PortAt, PathAt, QueryAt, FragmentAt, EndAt
<1>2. /\ a \in Nat /\ h \in Nat /\ c \in Nat /\ p \in Nat /\ q \in Nat /\ f \in Nat /\ n \in Nat
      /\ a <= h /\ h <= c /\ c <= p /\ p < q /\ q <= f /\ f <= n
  BY CutFacts
<1>3. /\ s \in Seq(Token) /\ Len(s) = n
      /\ \A i \in 1..Len(u.scheme) : s[i] = u.scheme[i]
      /\ u.scheme # <<>> => s[a - 2] = ":" /\ s[a - 1] = "/" /\ s[a] = "/"
      /\ \A i \in 1..Len(u.user_info) : s[a + i] = u.user_info[i]
      /\ u.user_info # <<>> => s[h] = "@"
      /\ \A i \in 1..Len(u.host) : s[h + i] = u.host[i]
      /\ u.port # 0 => s[c + 1] = ":" /\ s[c + 2] = ToString(u.port)
      /\ \A i \in 1..Len(text) : s[p + i] = text[i]
      /\ u.query # <<>> => s[q + 1] = "?"
      /\ \A i \in 1..Len(u.query) : s[q + 1 + i] = u.query[i]
      /\ u.fragment # <<>> => s[f + 1] = "#"
      /\ \A i \in 1..Len(u.fragment) : s[f + 1 + i] = u.fragment[i]
  BY Layout
<1>4. /\ u.scheme \in Seq(Token) /\ u.user_info \in Seq(Token) /\ u.host \in Seq(Token)
      /\ u.path \in Seq(Seq(Token)) /\ u.query \in Seq(Token) /\ u.fragment \in Seq(Token)
  BY DEF Uri
<1>5. s[p + 1] = "/"
  <2>1. Len(text) \in Nat /\ Len(text) >= 1 /\ text[1] = "/"
    BY <1>4, PathTextFacts
  <2> QED
    BY <1>3, <2>1
<1>6. n < npos
  BY <1>3
<1>16. /\ u.scheme # <<>> => s[a - 2] = ":" /\ s[a - 1] = "/" /\ s[a] = "/"
       /\ u.user_info # <<>> => s[h] = "@"
       /\ u.port # 0 => s[c + 1] = ":" /\ s[c + 2] = ToString(u.port)
       /\ u.query # <<>> => s[q + 1] = "?"
       /\ u.fragment # <<>> => s[f + 1] = "#"
  BY <1>3
<1>17. /\ Len(u.scheme) \in Nat /\ (u.scheme = <<>> <=> Len(u.scheme) = 0)
       /\ Len(u.user_info) \in Nat /\ (u.user_info = <<>> <=> Len(u.user_info) = 0)
       /\ Len(u.host) \in Nat /\ (u.host = <<>> <=> Len(u.host) = 0)
       /\ Len(u.query) \in Nat /\ (u.query = <<>> <=> Len(u.query) = 0)
       /\ Len(u.fragment) \in Nat /\ (u.fragment = <<>> <=> Len(u.fragment) = 0)
  BY <1>4, NotEmpty
<1>18. /\ u.user_info = <<>> => h = a + 0
       /\ u.user_info # <<>> => h = a + (Len(u.user_info) + 1)
       /\ u.port = 0 => p = c + 0
       /\ u.port # 0 => p = c + 2
       /\ u.query = <<>> => f = q + 0
       /\ u.query # <<>> => f = q + (1 + Len(u.query))
       /\ u.fragment = <<>> => n = f + 0
       /\ u.fragment # <<>> => n = f + (1 + Len(u.fragment))
  BY <1>1
<1>19. /\ u.scheme = <<>> => a = 0
       /\ u.scheme # <<>> => a = Len(u.scheme) + 3
       /\ c = h + Len(u.host) /\ q = p + Len(text)
  BY <1>1
<1> HIDE DEF s, n, a, h, c, p, q, f, text
<1>7. IF u.scheme = <<>>
       THEN a = 0
       ELSE a = Len(u.scheme) + 3 /\ a > 3 /\ s[a - 2] = ":" /\ s[a - 1] = "/" /\ s[a] = "/"
  BY <1>16, <1>17, <1>19
<1>8. IF u.user_info = <<>>
       THEN h = a
       ELSE h = a + Len(u.user_info) + 1 /\ h > a + 1 /\ s[h] = "@"
  BY <1>2, <1>16, <1>17, <1>18
<1>9. c = h + Len(u.host) /\ (u.host = <<>> <=> c = h)
  BY <1>2, <1>17, <1>19
<1>10. IF u.port = 0
       THEN p = c
       ELSE p = c + 2 /\ s[c + 1] = ":" /\ s[c + 2] = ToString(u.port)
  BY <1>2, <1>16, <1>18
<1>11. IF u.query = <<>> THEN f = q ELSE f = q + 1 + Len(u.query) /\ f > q + 1 /\ s[q + 1] = "?"
  BY <1>2, <1>16, <1>17, <1>18
<1>12. IF u.fragment = <<>>
       THEN n = f
       ELSE n = f + 1 + Len(u.fragment) /\ n > f + 1 /\ s[f + 1] = "#"
  BY <1>2, <1>16, <1>17, <1>18
<1>13. q = p + Len(text)
  BY <1>19
<1>14. Cuts(u, s, n, a, h, c, p, q, f)
  BY <1>2, <1>3, <1>5, <1>6, <1>7, <1>8, <1>9, <1>10, <1>11, <1>12, <1>13 DEF Cuts, text
<1>15. Filled(u, s, a, h, p, q, f)
  BY <1>3 DEF Filled, text
<1> QED
  BY <1>14, <1>15 DEF s, n, a, h, c, p, q, f

(* Which delimiters are where.                                             *)
Held(u, s, n, a, h, c, p, q, f, x) ==
  /\ Holds(s, 0, a, x) <=> Has(u.scheme, x) \/ (u.scheme # <<>> /\ x \in {":", "/"})
  /\ Holds(s, a, h, x) <=> Has(u.user_info, x) \/ (u.user_info # <<>> /\ x = "@")
  /\ Holds(s, h, c, x) <=> Has(u.host, x)
  /\ Holds(s, c, p, x) <=> u.port # 0 /\ x = ":"
  /\ Holds(s, p, q, x) <=> x = "/" \/ PathHas(u, x)
  /\ Holds(s, q, f, x) <=> Has(u.query, x) \/ (u.query # <<>> /\ x = "?")
  /\ Holds(s, f, n, x) <=> Has(u.fragment, x) \/ (u.fragment # <<>> /\ x = "#")
  \* the same, without the delimiter
  /\ u.user_info # <<>> => (Holds(s, a, h - 1, x) <=> Has(u.user_info, x))
  /\ u.port # 0 => ~Holds(s, c + 1, p, x)
  /\ u.query # <<>> => (Holds(s, q + 1, f, x) <=> Has(u.query, x))
  /\ u.fragment # <<>> => (Holds(s, f + 1, n, x) <=> Has(u.fragment, x))

(* Which delimiters each stretch of the string holds: those of the part    *)
(* that it is, and the one that was written there.                         *)
LEMMA HeldIs ==
  ASSUME NEW u \in Uri, NEW s, NEW n, NEW a, NEW h, NEW c, NEW p, NEW q, NEW f,
         Cuts(u, s, n, a, h, c, p, q, f), Filled(u, s, a, h, p, q, f), NEW x \in Delimiters
  PROVE  Held(u, s, n, a, h, c, p, q, f, x)
<1>1. /\ s \in Seq(Token) /\ n = Len(s)
      /\ n \in Nat /\ a \in Nat /\ h \in Nat /\ c \in Nat /\ p \in Nat /\ q \in Nat /\ f \in Nat
      /\ a <= h /\ h <= c /\ c <= p /\ p < q /\ q <= f /\ f <= n
  BY DEF Cuts
<1>2. /\ u.scheme \in Seq(Token) /\ u.user_info \in Seq(Token) /\ u.host \in Seq(Token)
      /\ u.path \in Seq(Seq(Token)) /\ u.query \in Seq(Token) /\ u.fragment \in Seq(Token)
      /\ u.port \in Ports \cup {0}
  BY DEF Uri
<1>3. \A k \in Nat, l \in Nat : l = k => ~Holds(s, k, l, x)
  BY HoldsNone
<1>12. Len(u.scheme) \in Nat /\ Len(u.user_info) \in Nat /\ Len(u.query) \in Nat
       /\ Len(u.fragment) \in Nat
  BY <1>2
<1>4. ~Has(<<>>, x)
  BY DEF Has, ToSet
<1>5. Holds(s, 0, a, x) <=> Has(u.scheme, x) \/ (u.scheme # <<>> /\ x \in {":", "/"})
  <2>1. CASE u.scheme = <<>>
    <3>1. a = 0
      BY <2>1 DEF Cuts
    <3> QED
      BY <1>3, <1>4, <2>1, <3>1
  <2>2. CASE u.scheme # <<>>
    <3>1. a = Len(u.scheme) + 3 /\ a > 3 /\ s[a - 2] = ":" /\ s[a - 1] = "/" /\ s[a] = "/"
      BY <2>2 DEF Cuts
    <3> DEFINE k == a - 3
               l == a - 2
               m == a - 1
    <3>2. /\ k \in Nat /\ l \in Nat /\ m \in Nat /\ k <= l /\ l <= m /\ m <= a /\ 0 <= k
          /\ k <= a /\ l <= a /\ 0 \in Nat
          /\ l = k + 1 /\ m = l + 1 /\ a = m + 1 /\ k = 0 + Len(u.scheme)
      BY <1>1, <1>12, <3>1
    <3>3. \A i \in 1..Len(u.scheme) : s[0 + i] = u.scheme[i]
      BY <1>12 DEF Filled
    <3> HIDE DEF k
    <3>4. Holds(s, k, l, x) <=> x = ":"
      BY <3>1, <3>2, HoldsOne
    <3> HIDE DEF l
    <3>5. Holds(s, l, m, x) <=> x = "/"
      BY <3>1, <3>2, HoldsOne
    <3> HIDE DEF m
    <3>6. Holds(s, m, a, x) <=> x = "/"
      BY <3>1, <3>2, HoldsOne
    <3>7. Holds(s, 0, k, x) <=> Has(u.scheme, x)
      BY <1>2, <3>2, <3>3, HoldsPart
    <3>8. Holds(s, 0, a, x) <=> Holds(s, 0, k, x) \/ Holds(s, k, a, x)
      <4>1. 0 \in Nat /\ a \in Nat /\ k \in Nat /\ 0 <= k /\ k <= a
        BY <1>1, <3>2
      <4> QED
        BY <4>1, HoldsTwo
    <3>9. Holds(s, k, a, x) <=> Holds(s, k, l, x) \/ Holds(s, l, a, x)
      <4>1. k \in Nat /\ l \in Nat /\ a \in Nat /\ k <= l /\ l <= a
        BY <1>1, <3>2
      <4> QED
        BY <4>1, HoldsTwo
    <3>10. Holds(s, l, a, x) <=> Holds(s, l, m, x) \/ Holds(s, m, a, x)
      <4>1. l \in Nat /\ m \in Nat /\ a \in Nat /\ l <= m /\ m <= a
        BY <1>1, <3>2
      <4> QED
        BY <4>1, HoldsTwo
    <3> QED
      BY <2>2, <3>4, <3>5, <3>6, <3>7, <3>8, <3>9, <3>10
  <2> QED
    BY <2>1, <2>2
<1>6. /\ Holds(s, a, h, x) <=> Has(u.user_info, x) \/ (u.user_info # <<>> /\ x = "@")
      /\ u.user_info # <<>> => (Holds(s, a, h - 1, x) <=> Has(u.user_info, x))
  <2>1. CASE u.user_info = <<>>
    <3>1. h = a
      BY <2>1 DEF Cuts
    <3> QED
      BY <1>1, <1>3, <1>4, <2>1, <3>1
  <2>2. CASE u.user_info # <<>>
    <3>1. h = a + Len(u.user_info) + 1 /\ h > a + 1 /\ s[h] = "@"
      BY <2>2 DEF Cuts
    <3> DEFINE k == h - 1
    <3>2. k \in Nat /\ a <= k /\ k <= h /\ k + 1 = h /\ k = a + Len(u.user_info)
      BY <1>1, <1>12, <3>1
    <3>7. Holds(s, a, h - 1, x) <=> Holds(s, a, k, x)
      OBVIOUS
    <3> HIDE DEF k
    <3>3. \A i \in 1..Len(u.user_info) : s[a + i] = u.user_info[i]
      BY DEF Filled
    <3>4. Holds(s, a, k, x) <=> Has(u.user_info, x)
      BY <1>1, <1>2, <3>2, <3>3, HoldsPart
    <3>5. Holds(s, k, h, x) <=> x = "@"
      <4>1. Holds(s, k, k + 1, x) <=> s[k + 1] = x
        BY <3>2, HoldsOne
      <4> QED
        BY <3>1, <3>2, <4>1
    <3>6. Holds(s, a, h, x) <=> Holds(s, a, k, x) \/ Holds(s, k, h, x)
      <4>1. a \in Nat /\ k \in Nat /\ h \in Nat /\ a <= k /\ k <= h
        BY <1>1, <3>2
      <4> QED
        BY <4>1, HoldsTwo
    <3> QED
      BY <2>2, <3>4, <3>5, <3>6, <3>7
  <2> QED
    BY <2>1, <2>2
<1>7. Holds(s, h, c, x) <=> Has(u.host, x)
  <2>1. c = h + Len(u.host)
    BY DEF Cuts
  <2>2. \A i \in 1..Len(u.host) : s[h + i] = u.host[i]
    BY DEF Filled
  <2> QED
    BY <1>1, <1>2, <2>1, <2>2, HoldsPart
<1>8. /\ Holds(s, c, p, x) <=> u.port # 0 /\ x = ":"
      /\ u.port # 0 => ~Holds(s, c + 1, p, x)
  <2>1. CASE u.port = 0
    <3>1. p = c
      BY <2>1 DEF Cuts
    <3> QED
      BY <1>1, <1>3, <2>1, <3>1
  <2>2. CASE u.port # 0
    <3>1. p = c + 2 /\ s[c + 1] = ":" /\ s[c + 2] = ToString(u.port)
      BY <2>2 DEF Cuts
    <3>2. ToString(u.port) # x
      BY <1>2, <2>2, Numerals
    <3>3. c + 1 \in Nat /\ (c + 1) + 1 = c + 2 /\ p = (c + 1) + 1 /\ c <= c + 1 /\ c + 1 <= p
      BY <1>1, <3>1
    <3>4. Holds(s, c, c + 1, x) <=> x = ":"
      BY <1>1, <3>1, HoldsOne
    <3>5. ~Holds(s, c + 1, (c + 1) + 1, x)
      BY <3>1, <3>2, <3>3, HoldsOne
    <3>6. Holds(s, c, p, x) <=> Holds(s, c, c + 1, x) \/ Holds(s, c + 1, p, x)
      BY <1>1, <3>3, HoldsTwo
    <3> QED
      BY <2>2, <3>3, <3>4, <3>5, <3>6
  <2> QED
    BY <2>1, <2>2
<1>9. Holds(s, p, q, x) <=> x = "/" \/ PathHas(u, x)
  <2> DEFINE text == PathText(u.path)
  <2>1. /\ text \in Seq(Token) /\ Len(text) >= 1 /\ text[1] = "/"
        /\ \A i \in 1..Len(text) : text[i] = "/" \/ \E j \in DOMAIN u.path : Has(u.path[j], text[i])
        /\ \A j \in DOMAIN u.path, y \in Token :
             Has(u.path[j], y) => \E i \in 2..Len(text) : text[i] = y
    BY <1>2, PathTextFacts
  <2>2. q = p + Len(text) /\ \A i \in 1..Len(text) : s[p + i] = text[i]
    BY DEF Cuts, Filled
  <2> HIDE DEF text
  <2>3. Holds(s, p, q, x) <=> Has(text, x)
    BY <1>1, <2>1, <2>2, HoldsPart
  <2>4. Has(text, x) <=> \E i \in 1..Len(text) : text[i] = x
    <3>1. DOMAIN text = 1..Len(text)
      BY <2>1
    <3> QED
      BY <3>1 DEF Has, ToSet
  <2>5. x \in Token
    BY DEF Token
  <2>6. ASSUME NEW i \in 1..Len(text), text[i] = x PROVE x = "/" \/ PathHas(u, x)
    BY <2>1, <2>6 DEF PathHas
  <2>7. ASSUME x = "/" PROVE \E i \in 1..Len(text) : text[i] = x
    <3>1. 1 \in 1..Len(text)
      BY <2>1
    <3> QED
      BY <2>1, <2>7, <3>1
  <2>8. ASSUME PathHas(u, x) PROVE \E i \in 1..Len(text) : text[i] = x
    <3>1. \E i \in 2..Len(text) : text[i] = x
      BY <2>1, <2>5, <2>8 DEF PathHas
    <3>2. \A i \in 2..Len(text) : i \in 1..Len(text)
      OBVIOUS
    <3> QED
      BY <3>1, <3>2
  <2> QED
    BY <2>3, <2>4, <2>6, <2>7, <2>8
<1>10. /\ Holds(s, q, f, x) <=> Has(u.query, x) \/ (u.query # <<>> /\ x = "?")
       /\ u.query # <<>> => (Holds(s, q + 1, f, x) <=> Has(u.query, x))
  <2>1. CASE u.query = <<>>
    <3>1. f = q
      BY <2>1 DEF Cuts
    <3> QED
      BY <1>1, <1>3, <1>4, <2>1, <3>1
  <2>2. CASE u.query # <<>>
    <3>1. f = q + 1 + Len(u.query) /\ f > q + 1 /\ s[q + 1] = "?"
      BY <2>2 DEF Cuts
    <3> DEFINE k == q + 1
    <3>2. k \in Nat /\ q <= k /\ k <= f /\ f = k + Len(u.query)
      <4>1. q \in Nat /\ f \in Nat /\ Len(u.query) \in Nat
        BY <1>1, <1>12
      <4>2. f = q + 1 + Len(u.query) /\ f > q + 1
        BY <3>1
      <4>3. k \in Nat
        BY <4>1
      <4>4. q <= k
        BY <4>1
      <4>5. k <= f
        <5>1. f > q + 1
          BY <4>2
        <5> QED
          BY <4>1, <5>1
      <4>6. f = k + Len(u.query)
        BY <4>1, <4>2
      <4> QED
        BY <4>3, <4>4, <4>5, <4>6
    <3>7. Holds(s, q + 1, f, x) <=> Holds(s, k, f, x)
      OBVIOUS
    <3>3. \A i \in 1..Len(u.query) : s[k + i] = u.query[i]
      BY DEF Filled
    <3>4. Holds(s, q, k, x) <=> x = "?"
      BY <1>1, <3>1, HoldsOne
    <3> HIDE DEF k
    <3>5. Holds(s, k, f, x) <=> Has(u.query, x)
      BY <1>1, <1>2, <3>2, <3>3, HoldsPart
    <3>6. Holds(s, q, f, x) <=> Holds(s, q, k, x) \/ Holds(s, k, f, x)
      <4>1. q \in Nat /\ k \in Nat /\ f \in Nat /\ q <= k /\ k <= f
        BY <1>1, <3>2
      <4> QED
        BY <4>1, HoldsTwo
    <3> QED
      BY <2>2, <3>4, <3>5, <3>6, <3>7
  <2> QED
    BY <2>1, <2>2
<1>11. /\ Holds(s, f, n, x) <=> Has(u.fragment, x) \/ (u.fragment # <<>> /\ x = "#")
       /\ u.fragment # <<>> => (Holds(s, f + 1, n, x) <=> Has(u.fragment, x))
  <2>1. CASE u.fragment = <<>>
    <3>1. n = f
      BY <2>1 DEF Cuts
    <3> QED
      BY <1>1, <1>3, <1>4, <2>1, <3>1
  <2>2. CASE u.fragment # <<>>
    <3>1. n = f + 1 + Len(u.fragment) /\ n > f + 1 /\ s[f + 1] = "#"
      BY <2>2 DEF Cuts
    <3> DEFINE k == f + 1
    <3>2. k \in Nat /\ f <= k /\ k <= n /\ n = k + Len(u.fragment)
      <4>1. f \in Nat /\ n \in Nat /\ Len(u.fragment) \in Nat
        BY <1>1, <1>12
      <4>2. n = f + 1 + Len(u.fragment) /\ n > f + 1
        BY <3>1
      <4>3. k \in Nat
        BY <4>1
      <4>4. f <= k
        BY <4>1
      <4>5. k <= n
        <5>1. n > f + 1
          BY <4>2
        <5> QED
          BY <4>1, <5>1
      <4>6. n = k + Len(u.fragment)
        BY <4>1, <4>2
      <4> QED
        BY <4>3, <4>4, <4>5, <4>6
    <3>7. Holds(s, f + 1, n, x) <=> Holds(s, k, n, x)
      OBVIOUS
    <3>3. \A i \in 1..Len(u.fragment) : s[k + i] = u.fragment[i]
      BY DEF Filled
    <3>4. Holds(s, f, k, x) <=> x = "#"
      BY <1>1, <3>1, HoldsOne
    <3> HIDE DEF k
    <3>5. Holds(s, k, n, x) <=> Has(u.fragment, x)
      BY <1>1, <1>2, <3>2, <3>3, HoldsPart
    <3>6. Holds(s, f, n, x) <=> Holds(s, f, k, x) \/ Holds(s, k, n, x)
      <4>1. f \in Nat /\ k \in Nat /\ n \in Nat /\ f <= k /\ k <= n
        BY <1>1, <3>2
      <4> QED
        BY <4>1, HoldsTwo
    <3> QED
      BY <2>2, <3>4, <3>5, <3>6, <3>7
  <2> QED
    BY <2>1, <2>2
<1> QED
  BY <1>5, <1>6, <1>7, <1>8, <1>9, <1>10, <1>11 DEF Held

-----------------------------------------------------------------------------
(* The searches that find the delimiters that were written.                 *)

Written(u, s, n, a, h, c, p, q, f) ==
  /\ u \in Uri
  /\ Cuts(u, s, n, a, h, c, p, q, f)
  /\ Filled(u, s, a, h, p, q, f)

SchemeMarked(u, s) == SchemeEnd(s) = IF u.scheme = <<>> THEN npos ELSE Len(u.scheme)
UserMarked(u, s, h) == UserEnd(s) = IF u.user_info = <<>> THEN npos ELSE h - 1
FragmentMarked(u, s, f) == FragmentMark(s) = IF u.fragment = <<>> THEN npos ELSE f
QueryMarked(u, s, q) == QueryMark(s) = IF u.query = <<>> THEN npos ELSE q
PortMarked(u, s, c) == PortMark(s) = IF u.port = 0 THEN npos ELSE c

(* What is known of a string that was written.                             *)
LEMMA WrittenFacts ==
  ASSUME NEW u, NEW s, NEW n, NEW a, NEW h, NEW c, NEW p, NEW q, NEW f,
         Written(u, s, n, a, h, c, p, q, f)
  PROVE  /\ s \in Seq(Token) /\ n = Len(s) /\ n < npos /\ n >= 1
         /\ n \in Nat /\ a \in Nat /\ h \in Nat /\ c \in Nat /\ p \in Nat /\ q \in Nat /\ f \in Nat
         /\ a <= h /\ h <= c /\ c <= p /\ p < q /\ q <= f /\ f <= n
         /\ npos \in Nat /\ npos = W - 1 /\ W \in Nat
         /\ \A x \in Delimiters : Held(u, s, n, a, h, c, p, q, f, x)
<1>1. /\ s \in Seq(Token) /\ n = Len(s) /\ n < npos
      /\ n \in Nat /\ a \in Nat /\ h \in Nat /\ c \in Nat /\ p \in Nat /\ q \in Nat /\ f \in Nat
      /\ a <= h /\ h <= c /\ c <= p /\ p < q /\ q <= f /\ f <= n
  BY DEF Written, Cuts
<1>2. \A x \in Delimiters : Held(u, s, n, a, h, c, p, q, f, x)
  BY HeldIs DEF Written
<1>3. n >= 1
  BY <1>1
<1>4. npos \in Nat /\ npos = W - 1 /\ W \in Nat
  BY Words
<1> QED
  BY <1>1, <1>2, <1>3, <1>4

(* The position before one in the string, which wraps at the first one     *)
(* only.                                                                   *)
LEMMA Sizes ==
  ASSUME NEW n \in Nat, n < npos
  PROVE  /\ \A k \in 0..n : k \in Size
         /\ npos \in Size
         /\ \A k \in 1..n : Minus(k, 1) = k - 1
         /\ Minus(0, 1) = npos
<1>1. npos \in Nat /\ npos = W - 1 /\ W \in Nat /\ W > 1
  BY Words
<1>2. \A k \in 0..n : k \in Size
  BY <1>1 DEF Size
<1>3. npos \in Size /\ 1 \in Size /\ 0 \in Size
  BY <1>1 DEF Size
<1>4. ASSUME NEW k \in 1..n PROVE Minus(k, 1) = k - 1
  <2>1. k \in Size /\ 1 <= k
    BY <1>2
  <2> QED
    BY <1>3, <2>1, MinusIs
<1>5. Minus(0, 1) = 0 - 1 + W
  BY <1>3, MinusIs
<1> QED
  BY <1>1, <1>2, <1>3, <1>4, <1>5

(* The authority starts where it was written when the scheme is found.     *)
LEMMA AuthorityFound ==
  ASSUME NEW u, NEW s, NEW n, NEW a, NEW h, NEW c, NEW p, NEW q, NEW f,
         Written(u, s, n, a, h, c, p, q, f), SchemeMarked(u, s)
  PROVE  AuthorityStart(s) = a
<1>1. n < npos /\ n \in Nat /\ a \in Nat /\ a <= n /\ npos \in Nat
  <2>1. /\ n < npos /\ n \in Nat /\ a \in Nat /\ h \in Nat /\ c \in Nat /\ p \in Nat /\ q \in Nat
        /\ f \in Nat
        /\ a <= h /\ h <= c /\ c <= p /\ p < q /\ q <= f /\ f <= n /\ npos \in Nat
    BY WrittenFacts
  <2> QED
    BY <2>1
<1>2. CASE u.scheme = <<>>
  <2>1. a = 0
    BY <1>2 DEF Written, Cuts
  <2> QED
    BY <1>2, <2>1 DEF SchemeMarked, AuthorityStart
<1>3. CASE u.scheme # <<>>
  <2> DEFINE l == Len(u.scheme)
  <2>1. a = l + 3 /\ SchemeEnd(s) = l /\ l \in Nat
    <3>1. u.scheme \in Seq(Token)
      BY DEF Written, Uri
    <3> QED
      BY <1>3, <3>1 DEF SchemeMarked, Written, Cuts
  <2> HIDE DEF l
  <2>2. l # npos
    BY <1>1, <2>1
  <2> QED
    BY <2>1, <2>2 DEF AuthorityStart
<1> QED
  BY <1>2, <1>3

(* The first "@" is the one after the user info exactly under the two      *)
(* conjuncts of Readable on it; then the host starts where it was written. *)
LEMMA UserFound ==
  ASSUME NEW u, NEW s, NEW n, NEW a, NEW h, NEW c, NEW p, NEW q, NEW f,
         Written(u, s, n, a, h, c, p, q, f), AuthorityStart(s) = a
  PROVE  /\ UserMarked(u, s, h) <=>
              /\ ~Has(u.user_info, "@")
              /\ u.user_info = <<>> => ~Has(u.host, "@") /\ ~AfterHostHas(u, "@")
         /\ UserMarked(u, s, h) => HostStart(s) = h
<1>1. /\ s \in Seq(Token) /\ n = Len(s) /\ n < npos /\ n >= 1
      /\ n \in Nat /\ a \in Nat /\ h \in Nat /\ c \in Nat /\ p \in Nat /\ q \in Nat /\ f \in Nat
      /\ a <= h /\ h <= c /\ c <= p /\ p < q /\ q <= f /\ f <= n /\ npos \in Nat
  BY WrittenFacts
<1>2. Held(u, s, n, a, h, c, p, q, f, "@")
  BY WrittenFacts DEF Delimiters
<1>3. IsFirst(UserEnd(s), s, "@", a)
  <2>1. Len(s) >= 1 /\ Len(s) < npos
    BY <1>1
  <2>2. IsFirst(UserEnd(s), s, "@", AuthorityStart(s))
    BY <1>1, <2>1, SearchFacts
  <2> QED
    BY <2>2
<1>4. a \in 0..n
  BY <1>1
<1>5. /\ UserEnd(s) = npos <=> ~Holds(s, a, n, "@")
      /\ \A k \in a..(n - 1) : UserEnd(s) = k <=> s[k + 1] = "@" /\ ~Holds(s, a, k, "@")
  <2>1. FoundFirst(UserEnd(s), s, "@", a, n)
    BY <1>1, <1>3, <1>4, FirstIs
  <2> QED
    BY <2>1 DEF FoundFirst
<1>6. CASE u.user_info = <<>>
  <2>1. h = a
    BY <1>6 DEF Written, Cuts
  <2>2. Holds(s, a, n, "@") <=> Holds(s, h, c, "@") \/ Holds(s, c, p, "@") \/ Holds(s, p, q, "@")
                                  \/ Holds(s, q, f, "@") \/ Holds(s, f, n, "@")
    <3>1. h <= n /\ c <= n /\ p <= n /\ q <= n /\ p <= q
      BY <1>1
    <3>2. Holds(s, h, n, "@") <=> Holds(s, h, c, "@") \/ Holds(s, c, n, "@")
      BY <1>1, <3>1, HoldsTwo
    <3>3. Holds(s, c, n, "@") <=> Holds(s, c, p, "@") \/ Holds(s, p, n, "@")
      BY <1>1, <3>1, HoldsTwo
    <3>4. Holds(s, p, n, "@") <=> Holds(s, p, q, "@") \/ Holds(s, q, n, "@")
      BY <1>1, <3>1, HoldsTwo
    <3>5. Holds(s, q, n, "@") <=> Holds(s, q, f, "@") \/ Holds(s, f, n, "@")
      BY <1>1, <3>1, HoldsTwo
    <3> QED
      BY <2>1, <3>2, <3>3, <3>4, <3>5
  <2>3. Holds(s, a, n, "@") <=> Has(u.host, "@") \/ PathHas(u, "@") \/ Has(u.query, "@")
                                  \/ Has(u.fragment, "@")
    BY <1>2, <2>2 DEF Held
  <2>4. ~Has(u.user_info, "@")
    BY <1>6 DEF Has, ToSet
  <2>5. UserMarked(u, s, h) <=> UserEnd(s) = npos
    BY <1>6 DEF UserMarked
  <2>6. UserEnd(s) = npos => HostStart(s) = h
    BY <2>1 DEF HostStart
  <2> QED
    BY <1>5, <1>6, <2>3, <2>4, <2>5, <2>6 DEF AfterHostHas
<1>7. CASE u.user_info # <<>>
  <2>1. h > a + 1 /\ s[h] = "@"
    BY <1>7 DEF Written, Cuts
  <2> DEFINE k == h - 1
  <2>2. k \in a..(n - 1) /\ k + 1 = h /\ k # npos
    BY <1>1, <2>1
  <2>3. Holds(s, a, k, "@") <=> Has(u.user_info, "@")
    BY <1>2, <1>7 DEF Held
  <2>4. UserMarked(u, s, h) <=> UserEnd(s) = k
    BY <1>7 DEF UserMarked
  <2> HIDE DEF k
  <2>5. UserEnd(s) = k <=> ~Has(u.user_info, "@")
    BY <1>5, <2>1, <2>2, <2>3
  <2>6. UserEnd(s) = k => HostStart(s) = h
    BY <2>2 DEF HostStart
  <2> QED
    BY <1>7, <2>4, <2>5, <2>6
<1> QED
  BY <1>6, <1>7

(* The first "/" after the start of the host is in the host, or is the one *)
(* of the path.                                                            *)
LEMMA PathFound ==
  ASSUME NEW u, NEW s, NEW n, NEW a, NEW h, NEW c, NEW p, NEW q, NEW f,
         Written(u, s, n, a, h, c, p, q, f), HostStart(s) = h
  PROVE  /\ PathMark(s) \in h..p
         /\ PathMark(s) = p <=> ~Has(u.host, "/")
         /\ ~Holds(s, h, PathMark(s), "/")
         /\ s[PathMark(s) + 1] = "/"
<1>1. /\ s \in Seq(Token) /\ n = Len(s) /\ n < npos /\ n >= 1
      /\ n \in Nat /\ a \in Nat /\ h \in Nat /\ c \in Nat /\ p \in Nat /\ q \in Nat /\ f \in Nat
      /\ a <= h /\ h <= c /\ c <= p /\ p < q /\ q <= f /\ f <= n /\ npos \in Nat
  BY WrittenFacts
<1>2. Held(u, s, n, a, h, c, p, q, f, "/")
  BY WrittenFacts DEF Delimiters
<1>3. IsFirst(PathMark(s), s, "/", h)
  <2>1. Len(s) >= 1 /\ Len(s) < npos
    BY <1>1
  <2>2. IsFirst(PathMark(s), s, "/", HostStart(s))
    BY <1>1, <2>1, SearchFacts
  <2> QED
    BY <2>2
<1>4. h \in 0..n /\ p \in h..(n - 1)
  BY <1>1
<1>5. /\ PathMark(s) = npos <=> ~Holds(s, h, n, "/")
      /\ PathMark(s) # npos =>
           PathMark(s) \in h..(n - 1) /\ s[PathMark(s) + 1] = "/" /\ ~Holds(s, h, PathMark(s), "/")
      /\ \A k \in h..(n - 1) : PathMark(s) = k <=> s[k + 1] = "/" /\ ~Holds(s, h, k, "/")
  <2>1. FoundFirst(PathMark(s), s, "/", h, n)
    BY <1>1, <1>3, <1>4, FirstIs
  <2> QED
    BY <2>1 DEF FoundFirst
<1>6. s[p + 1] = "/"
  BY DEF Written, Cuts
<1>7. Holds(s, h, p, "/") <=> Has(u.host, "/")
  <2>1. Holds(s, h, p, "/") <=> Holds(s, h, c, "/") \/ Holds(s, c, p, "/")
    BY <1>1, HoldsTwo
  <2> QED
    BY <1>2, <2>1 DEF Held
<1>8. PathMark(s) = p <=> ~Has(u.host, "/")
  BY <1>4, <1>5, <1>6, <1>7
<1>9. Holds(s, h, n, "/")
  <2>1. p \in h..(n - 1)
    BY <1>4
  <2> QED
    BY <1>6, <2>1 DEF Holds
<1>10. PathMark(s) \in h..(n - 1) /\ s[PathMark(s) + 1] = "/" /\ ~Holds(s, h, PathMark(s), "/")
  BY <1>5, <1>9
<1>11. PathMark(s) <= p
  <2>1. p < PathMark(s) => p \in h..(PathMark(s) - 1)
    BY <1>4, <1>10
  <2>2. p < PathMark(s) => Holds(s, h, PathMark(s), "/")
    BY <1>6, <2>1 DEF Holds
  <2> QED
    BY <1>1, <1>10, <2>2
<1> QED
  BY <1>1, <1>8, <1>10, <1>11

(* The last "#" is the one of the fragment exactly under the conjuncts of  *)
(* Readable on it.                                                         *)
LEMMA FragmentFound ==
  ASSUME NEW u, NEW s, NEW n, NEW a, NEW h, NEW c, NEW p, NEW q, NEW f,
         Written(u, s, n, a, h, c, p, q, f)
  PROVE  /\ FragmentMarked(u, s, f) <=>
              /\ ~Has(u.fragment, "#")
              /\ u.fragment = <<>> => /\ ~AuthorityHas(u, "#") /\ ~PathHas(u, "#")
                                      /\ ~Has(u.query, "#")
         /\ FragmentMarked(u, s, f) => QueryEnd(s) = f - 1
<1>1. /\ s \in Seq(Token) /\ n = Len(s) /\ n < npos /\ n >= 1
      /\ n \in Nat /\ a \in Nat /\ h \in Nat /\ c \in Nat /\ p \in Nat /\ q \in Nat /\ f \in Nat
      /\ a <= h /\ h <= c /\ c <= p /\ p < q /\ q <= f /\ f <= n /\ npos \in Nat
  BY WrittenFacts
<1>2. Held(u, s, n, a, h, c, p, q, f, "#")
  BY WrittenFacts DEF Delimiters
<1> DEFINE r == FragmentMark(s)
<1>3. IsLast(r, s, "#", npos) /\ Last1(s) = n - 1
  <2>1. Len(s) >= 1 /\ Len(s) < npos
    BY <1>1
  <2>2. IsLast(FragmentMark(s), s, "#", npos) /\ Last1(s) = Len(s) - 1
    BY <1>1, <2>1, SearchFacts
  <2> QED
    BY <1>1, <2>2
<1>4. QueryEnd(s) = IF r = npos THEN n - 1 ELSE Minus(r, 1)
  BY <1>3 DEF QueryEnd, Before
<1> HIDE DEF r
<1>5. n \in 1..n
  BY <1>1
<1>10. FoundLast(r, s, "#", n)
  BY <1>1, <1>3, <1>5, LastIs
<1>6. r = npos <=> ~Holds(s, 0, n, "#")
  BY <1>10 DEF FoundLast
<1>7. \A k \in 0..(n - 1) : r = k <=> s[k + 1] = "#" /\ ~Holds(s, k + 1, n, "#")
  BY <1>10 DEF FoundLast
<1>8. CASE u.fragment = <<>>
  <2>1. n = f
    BY <1>8 DEF Written, Cuts
  <2>2. Holds(s, 0, n, "#") <=> Holds(s, 0, a, "#") \/ Holds(s, a, h, "#") \/ Holds(s, h, c, "#")
                                  \/ Holds(s, c, p, "#") \/ Holds(s, p, q, "#") \/ Holds(s, q, f, "#")
    <3>1. a <= n /\ h <= n /\ c <= n /\ p <= n /\ q <= n /\ p <= q /\ 0 \in Nat /\ 0 <= a
      BY <1>1
    <3>2. Holds(s, 0, n, "#") <=> Holds(s, 0, a, "#") \/ Holds(s, a, n, "#")
      BY <1>1, <3>1, HoldsTwo
    <3>3. Holds(s, a, n, "#") <=> Holds(s, a, h, "#") \/ Holds(s, h, n, "#")
      BY <1>1, <3>1, HoldsTwo
    <3>4. Holds(s, h, n, "#") <=> Holds(s, h, c, "#") \/ Holds(s, c, n, "#")
      BY <1>1, <3>1, HoldsTwo
    <3>5. Holds(s, c, n, "#") <=> Holds(s, c, p, "#") \/ Holds(s, p, n, "#")
      BY <1>1, <3>1, HoldsTwo
    <3>6. Holds(s, p, n, "#") <=> Holds(s, p, q, "#") \/ Holds(s, q, n, "#")
      BY <1>1, <3>1, HoldsTwo
    <3> QED
      BY <2>1, <3>2, <3>3, <3>4, <3>5, <3>6
  <2>3. Holds(s, 0, n, "#") <=> Has(u.scheme, "#") \/ Has(u.user_info, "#") \/ Has(u.host, "#")
                                  \/ PathHas(u, "#") \/ Has(u.query, "#")
    BY <1>2, <2>2 DEF Held
  <2>4. ~Has(u.fragment, "#")
    BY <1>8 DEF Has, ToSet
  <2>5. FragmentMarked(u, s, f) <=> r = npos
    BY <1>8 DEF FragmentMarked, r
  <2>6. r = npos => QueryEnd(s) = f - 1
    BY <1>4, <2>1
  <2> QED
    BY <1>6, <1>8, <2>3, <2>4, <2>5, <2>6 DEF AuthorityHas
<1>9. CASE u.fragment # <<>>
  <2>1. n > f + 1 /\ s[f + 1] = "#"
    BY <1>9 DEF Written, Cuts
  <2>2. f \in 0..(n - 1) /\ f \in 1..n /\ f # npos
    BY <1>1, <2>1
  <2>3. Holds(s, f + 1, n, "#") <=> Has(u.fragment, "#")
    BY <1>2, <1>9 DEF Held
  <2>4. FragmentMarked(u, s, f) <=> r = f
    BY <1>9 DEF FragmentMarked, r
  <2>5. r = f <=> ~Has(u.fragment, "#")
    BY <1>7, <2>1, <2>2, <2>3
  <2>6. r = f => QueryEnd(s) = f - 1
    <3>1. Minus(f, 1) = f - 1
      BY <1>1, <2>2, Sizes
    <3> QED
      BY <1>4, <2>2, <3>1
  <2> QED
    BY <1>9, <2>4, <2>5, <2>6
<1> QED
  BY <1>8, <1>9

(* So for the last "?" before the fragment.                                *)
LEMMA QueryFound ==
  ASSUME NEW u, NEW s, NEW n, NEW a, NEW h, NEW c, NEW p, NEW q, NEW f,
         Written(u, s, n, a, h, c, p, q, f), QueryEnd(s) = f - 1
  PROVE  /\ QueryMarked(u, s, q) <=>
              /\ ~Has(u.query, "?")
              /\ u.query = <<>> => ~AuthorityHas(u, "?") /\ ~PathHas(u, "?")
         /\ QueryMarked(u, s, q) => PathEnd(s) = q - 1
<1>1. /\ s \in Seq(Token) /\ n = Len(s) /\ n < npos /\ n >= 1
      /\ n \in Nat /\ a \in Nat /\ h \in Nat /\ c \in Nat /\ p \in Nat /\ q \in Nat /\ f \in Nat
      /\ a <= h /\ h <= c /\ c <= p /\ p < q /\ q <= f /\ f <= n /\ npos \in Nat
  BY WrittenFacts
<1>2. Held(u, s, n, a, h, c, p, q, f, "?")
  BY WrittenFacts DEF Delimiters
<1> DEFINE r == QueryMark(s)
<1>3. IsLast(r, s, "?", f - 1)
  <2>1. Len(s) >= 1 /\ Len(s) < npos
    BY <1>1
  <2>2. IsLast(QueryMark(s), s, "?", QueryEnd(s))
    BY <1>1, <2>1, SearchFacts
  <2> QED
    BY <2>2
<1>4. PathEnd(s) = IF r = npos THEN f - 1 ELSE Minus(r, 1)
  BY DEF PathEnd, Before
<1> HIDE DEF r
<1>5. f \in 1..n
  BY <1>1
<1>10. FoundLast(r, s, "?", f)
  BY <1>1, <1>3, <1>5, LastIs
<1>6. r = npos <=> ~Holds(s, 0, f, "?")
  BY <1>10 DEF FoundLast
<1>7. \A k \in 0..(f - 1) : r = k <=> s[k + 1] = "?" /\ ~Holds(s, k + 1, f, "?")
  BY <1>10 DEF FoundLast
<1>8. CASE u.query = <<>>
  <2>1. f = q
    BY <1>8 DEF Written, Cuts
  <2>2. Holds(s, 0, q, "?") <=> Holds(s, 0, a, "?") \/ Holds(s, a, h, "?") \/ Holds(s, h, c, "?")
                                  \/ Holds(s, c, p, "?") \/ Holds(s, p, q, "?")
    <3>1. a <= q /\ h <= q /\ c <= q /\ p <= q /\ 0 \in Nat /\ 0 <= a
      BY <1>1
    <3>2. Holds(s, 0, q, "?") <=> Holds(s, 0, a, "?") \/ Holds(s, a, q, "?")
      BY <1>1, <3>1, HoldsTwo
    <3>3. Holds(s, a, q, "?") <=> Holds(s, a, h, "?") \/ Holds(s, h, q, "?")
      BY <1>1, <3>1, HoldsTwo
    <3>4. Holds(s, h, q, "?") <=> Holds(s, h, c, "?") \/ Holds(s, c, q, "?")
      BY <1>1, <3>1, HoldsTwo
    <3>5. Holds(s, c, q, "?") <=> Holds(s, c, p, "?") \/ Holds(s, p, q, "?")
      BY <1>1, <3>1, HoldsTwo
    <3> QED
      BY <3>2, <3>3, <3>4, <3>5
  <2>3. Holds(s, 0, q, "?") <=> Has(u.scheme, "?") \/ Has(u.user_info, "?") \/ Has(u.host, "?")
                                  \/ PathHas(u, "?")
    BY <1>2, <2>2 DEF Held
  <2>4. ~Has(u.query, "?")
    BY <1>8 DEF Has, ToSet
  <2>5. QueryMarked(u, s, q) <=> r = npos
    BY <1>8 DEF QueryMarked, r
  <2>6. r = npos => PathEnd(s) = q - 1
    BY <1>4, <2>1
  <2>7. r = npos <=> ~Holds(s, 0, q, "?")
    BY <1>6, <2>1
  <2> QED
    BY <1>8, <2>3, <2>4, <2>5, <2>6, <2>7 DEF AuthorityHas
<1>9. CASE u.query # <<>>
  <2>1. f > q + 1 /\ s[q + 1] = "?"
    BY <1>9 DEF Written, Cuts
  <2>2. q \in 0..(f - 1) /\ q \in 1..n /\ q # npos
    BY <1>1, <2>1
  <2>3. Holds(s, q + 1, f, "?") <=> Has(u.query, "?")
    BY <1>2, <1>9 DEF Held
  <2>4. QueryMarked(u, s, q) <=> r = q
    BY <1>9 DEF QueryMarked, r
  <2>5. r = q <=> ~Has(u.query, "?")
    BY <1>7, <2>1, <2>2, <2>3
  <2>6. r = q => PathEnd(s) = q - 1
    <3>1. Minus(q, 1) = q - 1
      BY <1>1, <2>2, Sizes
    <3> QED
      BY <1>4, <2>2, <3>1
  <2> QED
    BY <1>9, <2>4, <2>5, <2>6
<1> QED
  BY <1>8, <1>9

(* And for the last ":" before the path; if the path is at position 0, the *)
(* one before it is npos, and the search goes through the whole string.    *)
LEMMA PortFound ==
  ASSUME NEW u, NEW s, NEW n, NEW a, NEW h, NEW c, NEW p, NEW q, NEW f,
         Written(u, s, n, a, h, c, p, q, f), IsValid(u), PathMark(s) = p
  PROVE  /\ PortEnd(s) = Minus(p, 1)
         /\ PortMarked(u, s, c) <=>
              /\ u.port = 0 => /\ u.scheme = <<>> /\ ~Has(u.user_info, ":")
                               /\ ~Has(u.host, ":")
              /\ u.scheme = <<>> /\ u.host = <<>> => ~AfterHostHas(u, ":")
<1>1. /\ s \in Seq(Token) /\ n = Len(s) /\ n < npos /\ n >= 1
      /\ n \in Nat /\ a \in Nat /\ h \in Nat /\ c \in Nat /\ p \in Nat /\ q \in Nat /\ f \in Nat
      /\ a <= h /\ h <= c /\ c <= p /\ p < q /\ q <= f /\ f <= n /\ npos \in Nat
  BY WrittenFacts
<1>2. Held(u, s, n, a, h, c, p, q, f, ":")
  BY WrittenFacts DEF Delimiters
<1> DEFINE r == PortMark(s)
<1>3. PortEnd(s) = Minus(p, 1)
  <2>1. p # npos
    BY <1>1
  <2> QED
    BY <2>1 DEF PortEnd, Before
<1>4. IsLast(r, s, ":", Minus(p, 1))
  <2>1. Len(s) >= 1 /\ Len(s) < npos
    BY <1>1
  <2>2. IsLast(PortMark(s), s, ":", PortEnd(s))
    BY <1>1, <2>1, SearchFacts
  <2> QED
    BY <1>3, <2>2
<1>5. PortMarked(u, s, c) <=> r = IF u.port = 0 THEN npos ELSE c
  BY DEF PortMarked
<1> HIDE DEF r
<1>6. CASE p = 0
  <2>1. Minus(p, 1) = npos
    BY <1>1, <1>6, Sizes
  <2>2. n \in 1..n
    BY <1>1
  <2>3. r = npos <=> ~Holds(s, 0, n, ":")
    <3>1. FoundLast(r, s, ":", n)
      BY <1>1, <1>4, <2>1, <2>2, LastIs
    <3> QED
      BY <3>1 DEF FoundLast
  <2>4. u.port = 0 /\ c = 0 /\ h = 0 /\ a = 0
    <3>1. c = 0 /\ h = 0 /\ a = 0
      BY <1>1, <1>6
    <3>2. u.port # 0 => p = c + 2
      BY DEF Written, Cuts
    <3> QED
      BY <1>6, <3>1, <3>2
  <2>5. u.scheme = <<>> /\ u.user_info = <<>> /\ u.host = <<>>
    <3>1. u.scheme # <<>> => a > 3
      BY DEF Written, Cuts
    <3>2. u.user_info # <<>> => h > a + 1
      BY DEF Written, Cuts
    <3>3. u.host = <<>>
      BY <2>4 DEF Written, Cuts
    <3> QED
      BY <2>4, <3>1, <3>2, <3>3
  <2>6. ~Has(u.user_info, ":") /\ ~Has(u.host, ":")
    BY <2>5 DEF Has, ToSet
  <2>7. Holds(s, 0, n, ":") <=> Holds(s, p, q, ":") \/ Holds(s, q, f, ":") \/ Holds(s, f, n, ":")
    <3>1. p <= n /\ q <= n /\ p <= q /\ 0 \in Nat
      BY <1>1
    <3>2. Holds(s, p, n, ":") <=> Holds(s, p, q, ":") \/ Holds(s, q, n, ":")
      BY <1>1, <3>1, HoldsTwo
    <3>3. Holds(s, q, n, ":") <=> Holds(s, q, f, ":") \/ Holds(s, f, n, ":")
      BY <1>1, <3>1, HoldsTwo
    <3> QED
      BY <1>6, <3>2, <3>3
  <2>8. Holds(s, 0, n, ":") <=> AfterHostHas(u, ":")
    BY <1>2, <2>7 DEF Held, AfterHostHas
  <2> QED
    BY <1>3, <1>5, <2>3, <2>4, <2>5, <2>6, <2>8
<1>7. CASE p # 0
  <2>1. p \in 1..n /\ Minus(p, 1) = p - 1
    <3>1. p \in 1..n
      BY <1>1, <1>7
    <3> QED
      BY <1>1, <3>1, Sizes
  <2>7. FoundLast(r, s, ":", p)
    BY <1>1, <1>4, <2>1, LastIs
  <2>2. r = npos <=> ~Holds(s, 0, p, ":")
    BY <2>7 DEF FoundLast
  <2>3. \A k \in 0..(p - 1) : r = k <=> s[k + 1] = ":" /\ ~Holds(s, k + 1, p, ":")
    BY <2>7 DEF FoundLast
  <2>4. ~(u.scheme = <<>> /\ u.host = <<>>)
    <3>1. ASSUME u.scheme = <<>>, u.host = <<>> PROVE FALSE
      <4>1. u.user_info = <<>> /\ u.port = 0
        BY <3>1 DEF IsValid
      <4>2. a = 0 /\ h = a /\ c = h /\ p = c
        BY <3>1, <4>1 DEF Written, Cuts
      <4> QED
        BY <1>7, <4>2
    <3> QED
      BY <3>1
  <2>5. CASE u.port = 0
    <3>1. p = c
      BY <2>5 DEF Written, Cuts
    <3>2. Holds(s, 0, p, ":") <=> Holds(s, 0, a, ":") \/ Holds(s, a, h, ":") \/ Holds(s, h, c, ":")
      <4>1. a <= p /\ h <= p /\ 0 \in Nat /\ 0 <= a
        BY <1>1
      <4>2. Holds(s, 0, p, ":") <=> Holds(s, 0, a, ":") \/ Holds(s, a, p, ":")
        BY <1>1, <4>1, HoldsTwo
      <4>3. Holds(s, a, p, ":") <=> Holds(s, a, h, ":") \/ Holds(s, h, p, ":")
        BY <1>1, <4>1, HoldsTwo
      <4> QED
        BY <3>1, <4>2, <4>3
    <3>3. u.scheme = <<>> => ~Has(u.scheme, ":")
      BY DEF Has, ToSet
    <3>4. Holds(s, 0, p, ":") <=> u.scheme # <<>> \/ Has(u.user_info, ":") \/ Has(u.host, ":")
      BY <1>2, <3>2, <3>3 DEF Held
    <3> QED
      BY <1>3, <1>5, <2>2, <2>4, <2>5, <3>4
  <2>6. CASE u.port # 0
    <3>1. p = c + 2 /\ s[c + 1] = ":"
      BY <2>6 DEF Written, Cuts
    <3>2. c \in 0..(p - 1)
      BY <1>1, <3>1
    <3>3. ~Holds(s, c + 1, p, ":")
      BY <1>2, <2>6 DEF Held
    <3>4. r = c
      BY <2>3, <3>1, <3>2, <3>3
    <3> QED
      BY <1>3, <1>5, <2>4, <2>6, <3>4
  <2> QED
    BY <2>5, <2>6
<1> QED
  BY <1>6, <1>7

Marked(u, s, h, c, p, q, f) ==
  /\ SchemeMarked(u, s) /\ UserMarked(u, s, h) /\ PathMark(s) = p
  /\ FragmentMarked(u, s, f) /\ QueryMarked(u, s, q) /\ PortMarked(u, s, c)

(* A URI is readable when each search finds what was written, and split the *)
(* parts of the path.                                                       *)
LEMMA ReadableIs ==
  ASSUME NEW u, NEW s, NEW n, NEW a, NEW h, NEW c, NEW p, NEW q, NEW f,
         Written(u, s, n, a, h, c, p, q, f), s = Render(u), IsValid(u)
  PROVE  Readable(u) <=> Marked(u, s, h, c, p, q, f) /\ GoodPath(u.path)
<1> DEFINE R1 == SchemeMarked(u, s)
           R2 == /\ ~Has(u.user_info, "@")
                 /\ u.user_info = <<>> => ~Has(u.host, "@") /\ ~AfterHostHas(u, "@")
           R3 == ~Has(u.host, "/")
           R4 == /\ u.port = 0 => /\ u.scheme = <<>> /\ ~Has(u.user_info, ":")
                                  /\ ~Has(u.host, ":")
                 /\ u.scheme = <<>> /\ u.host = <<>> => ~AfterHostHas(u, ":")
           R5 == /\ ~Has(u.fragment, "#")
                 /\ u.fragment = <<>> => /\ ~AuthorityHas(u, "#") /\ ~PathHas(u, "#")
                                         /\ ~Has(u.query, "#")
           R6 == /\ ~Has(u.query, "?")
                 /\ u.query = <<>> => ~AuthorityHas(u, "?") /\ ~PathHas(u, "?")
           R7 == GoodPath(u.path)
<1>1. Readable(u) <=> R1 /\ R2 /\ R3 /\ R4 /\ R5 /\ R6 /\ R7
  <2>1. R1 <=> Find(Render(u), <<":", "/", "/">>, 0) = IF u.scheme = <<>> THEN npos ELSE Len(u.scheme)
    BY DEF SchemeMarked, SchemeEnd
  <2> HIDE DEF R1
  <2> QED
    BY <2>1 DEF Readable, GoodPath
<1>2. R1 => (R2 <=> UserMarked(u, s, h))
  <2>1. SUFFICES ASSUME R1 PROVE R2 <=> UserMarked(u, s, h)
    OBVIOUS
  <2>2. AuthorityStart(s) = a
    BY <2>1, AuthorityFound
  <2> QED
    BY <2>2, UserFound
<1>3. R1 /\ R2 => (R3 <=> PathMark(s) = p)
  <2>1. SUFFICES ASSUME R1, R2 PROVE R3 <=> PathMark(s) = p
    OBVIOUS
  <2>2. AuthorityStart(s) = a
    BY <2>1, AuthorityFound
  <2>3. UserMarked(u, s, h)
    BY <1>2, <2>1
  <2>4. HostStart(s) = h
    BY <2>2, <2>3, UserFound
  <2> QED
    BY <2>4, PathFound
<1>4. PathMark(s) = p => (R4 <=> PortMarked(u, s, c))
  <2>1. SUFFICES ASSUME PathMark(s) = p PROVE R4 <=> PortMarked(u, s, c)
    OBVIOUS
  <2> QED
    BY <2>1, PortFound
<1>5. R5 <=> FragmentMarked(u, s, f)
  BY FragmentFound
<1>6. FragmentMarked(u, s, f) => (R6 <=> QueryMarked(u, s, q))
  <2>1. SUFFICES ASSUME FragmentMarked(u, s, f) PROVE R6 <=> QueryMarked(u, s, q)
    OBVIOUS
  <2>2. QueryEnd(s) = f - 1
    BY <2>1, FragmentFound
  <2> QED
    BY <2>2, QueryFound
<1>7. R1 <=> SchemeMarked(u, s)
  OBVIOUS
<1> HIDE DEF R1, R2, R3, R4, R5, R6, R7
<1>8. Readable(u) <=> Marked(u, s, h, c, p, q, f) /\ R7
  BY <1>1, <1>2, <1>3, <1>4, <1>5, <1>6, <1>7 DEF Marked
<1> QED
  BY <1>8 DEF R7

-----------------------------------------------------------------------------
(* What is read when every search finds what was written.                   *)

(* substr, when what is there is known.                                    *)
LEMMA SubstrIs ==
  ASSUME NEW s \in Seq(Token), NEW part \in Seq(Token), NEW k \in Nat, k + Len(part) <= Len(s),
         \A i \in 1..Len(part) : s[k + i] = part[i], NEW l, l = Len(part)
  PROVE  Substr(s, k, l) = part
<1>1. Len(part) \in Nat /\ Len(s) \in Nat
  OBVIOUS
<1>2. k \in 0..Len(s) /\ l \in Nat /\ k + l <= Len(s)
  BY <1>1
<1> DEFINE t == Substr(s, k, l)
<1>3. t \in Seq(Token)
  BY <1>2, SubstrFacts
<1>4. Len(t) = l
  BY <1>2, SubstrFacts
<1>5. \A i \in 1..Len(t) : t[i] = s[k + i]
  BY <1>2, SubstrFacts
<1> HIDE DEF t
<1>6. t = part
  BY <1>3, <1>4, <1>5, SameSequence
<1> QED
  BY <1>6 DEF t

LEMMA EmptySubstr ==
  ASSUME NEW s \in Seq(Token), NEW k \in 0..Len(s)
  PROVE  Substr(s, k, 0) = <<>>
<1>1. <<>> \in Seq(Token) /\ Len(<<>>) = 0 /\ k \in Nat /\ k + 0 <= Len(s)
  OBVIOUS
<1>2. \A i \in 1..Len(<<>>) : s[k + i] = <<>>[i]
  OBVIOUS
<1> QED
  BY <1>1, <1>2, SubstrIs

(* The length of the host, and where it ends.                               *)
LEMMA HostLength ==
  ASSUME NEW n \in Nat, n < npos, NEW h \in 0..n, NEW c \in h..n, NEW e \in Size
  PROVE  /\ Plus(Minus(e, h), 1) = c - h <=> e = Minus(c, 1)
         /\ Plus(Minus(e, h), 1) \in Nat
<1>1. npos \in Nat /\ npos = W - 1 /\ W \in Nat /\ W > 1
  BY Words
<1>2. e \in Nat /\ e < W /\ h \in Size /\ c \in Size /\ h \in Nat /\ c \in Nat /\ h <= c /\ c < npos
  BY <1>1 DEF Size
<1>3. Minus(c, 1) = IF c = 0 THEN npos ELSE c - 1
  <2>1. c = 0 => Minus(c, 1) = npos
    BY Sizes
  <2>2. c # 0 => c \in 1..n
    BY <1>2
  <2>3. c # 0 => Minus(c, 1) = c - 1
    BY <2>2, Sizes
  <2> QED
    BY <2>1, <2>3
<1> DEFINE m == Minus(e, h)
<1>4. /\ h <= e => m = e - h
      /\ e < h => m = e - h + W
      /\ m \in Size
  BY <1>2, MinusIs
<1> HIDE DEF m
<1>5. /\ m < npos => Plus(m, 1) = m + 1
      /\ m = npos => Plus(m, 1) = 0
  BY <1>4, PlusIs
<1>6. m \in Nat /\ m <= npos
  BY <1>1, <1>4 DEF Size
<1>7. Plus(m, 1) = IF m = npos THEN 0 ELSE m + 1
  BY <1>1, <1>5, <1>6
<1>8. m = IF h <= e THEN e - h ELSE e - h + W
  BY <1>2, <1>4
<1>9. Plus(m, 1) = c - h <=> e = Minus(c, 1)
  <2>1. CASE h <= e
    <3>1. m = e - h
      BY <1>8, <2>1
    <3>2. CASE m = npos
      <4>1. h = 0 /\ e = npos
        BY <1>1, <1>2, <3>1, <3>2
      <4> QED
        BY <1>1, <1>2, <1>3, <1>7, <3>2, <4>1
    <3>3. CASE m # npos
      <4>1. Plus(m, 1) = e - h + 1
        BY <1>2, <1>7, <3>1, <3>3
      <4>2. c = 0 => e # npos
        BY <1>1, <1>2, <3>1, <3>3
      <4> QED
        BY <1>1, <1>2, <1>3, <2>1, <4>1, <4>2
    <3> QED
      BY <3>2, <3>3
  <2>2. CASE e < h
    <3>1. m = e - h + W /\ c # 0
      BY <1>2, <1>8, <2>2
    <3>2. CASE m = npos
      <4>1. e = h - 1
        BY <1>1, <1>2, <3>1, <3>2
      <4>2. Plus(m, 1) = 0
        BY <1>7, <3>2
      <4>3. Minus(c, 1) = c - 1
        BY <1>3, <3>1
      <4> QED
        BY <1>2, <4>1, <4>2, <4>3
    <3>3. CASE m # npos
      <4>1. Plus(m, 1) = e - h + W + 1
        BY <1>1, <1>2, <1>7, <3>1, <3>3
      <4>2. Minus(c, 1) = c - 1
        BY <1>3, <3>1
      <4>3. e # h - 1
        BY <1>1, <1>2, <3>1, <3>3
      <4>4. e # c - 1
        BY <1>2, <2>2, <4>3
      <4>5. e - h + W + 1 # c - h
        BY <1>1, <1>2
      <4> QED
        BY <4>1, <4>2, <4>4, <4>5
    <3> QED
      BY <3>2, <3>3
  <2> QED
    BY <1>2, <2>1, <2>2
<1>10. Plus(m, 1) \in Nat
  BY <1>6, <1>7
<1> QED
  BY <1>9, <1>10 DEF m

(* The part between two positions.                                         *)
LEMMA PartAfterIs ==
  ASSUME NEW s \in Seq(Token), NEW n \in Nat, n = Len(s), n < npos,
         NEW start \in 0..(n - 1), NEW end \in start..(n - 1)
  PROVE  LET t == PartAfter(s, start, end) IN
         /\ t \in Seq(Token) /\ Len(t) = end - start
         /\ \A i \in 1..Len(t) : t[i] = s[start + 1 + i]
<1>1. start \in 0..n /\ end \in 0..n /\ start \in Nat /\ end \in Nat /\ start <= end /\ start # npos
  BY Words
<1>2. start \in Size /\ end \in Size
  BY <1>1, Sizes
<1>3. Minus(end, start) = end - start
  BY <1>1, <1>2, MinusIs
<1> DEFINE t == Substr(s, start + 1, end - start)
<1>4. PartAfter(s, start, end) = t
  BY <1>1, <1>3 DEF PartAfter
<1>5. start + 1 \in 0..Len(s) /\ end - start \in Nat /\ (start + 1) + (end - start) <= Len(s)
  BY <1>1
<1>6. t \in Seq(Token)
  BY <1>5, SubstrFacts
<1>7. Len(t) = end - start
  BY <1>5, SubstrFacts
<1>8. \A i \in 1..Len(t) : t[i] = s[(start + 1) + i]
  BY <1>5, SubstrFacts
<1> HIDE DEF t
<1> QED
  BY <1>4, <1>6, <1>7, <1>8

LEMMA PartAfterEquals ==
  ASSUME NEW s \in Seq(Token), NEW n \in Nat, n = Len(s), n < npos,
         NEW start \in 0..(n - 1), NEW end \in start..(n - 1), NEW part \in Seq(Token),
         Len(part) = end - start, \A i \in 1..Len(part) : s[start + 1 + i] = part[i]
  PROVE  PartAfter(s, start, end) = part
<1> DEFINE t == PartAfter(s, start, end)
<1>1. t \in Seq(Token) /\ Len(t) = end - start
  BY PartAfterIs
<1>2. \A i \in 1..Len(t) : t[i] = s[start + 1 + i]
  BY PartAfterIs
<1> HIDE DEF t
<1>3. t = part
  BY <1>1, <1>2, SameSequence
<1> QED
  BY <1>3 DEF t

ReadBack(u, s) ==
  /\ u.scheme = SchemeRead(s) /\ u.user_info = UserRead(s) /\ u.host = HostRead(s)
  /\ PortsRead(s) = {u.port} /\ u.path = PathRead(s) /\ u.query = QueryRead(s)
  /\ u.fragment = FragmentRead(s)

(* When every search finds what was written, every part is read back.      *)
LEMMA ReadsBack ==
  ASSUME NEW u, NEW s, NEW n, NEW a, NEW h, NEW c, NEW p, NEW q, NEW f,
         Written(u, s, n, a, h, c, p, q, f), IsValid(u), Marked(u, s, h, c, p, q, f),
         GoodPath(u.path)
  PROVE  ReadBack(u, s)
<1>1. /\ s \in Seq(Token) /\ n = Len(s) /\ n < npos /\ n >= 1
      /\ n \in Nat /\ a \in Nat /\ h \in Nat /\ c \in Nat /\ p \in Nat /\ q \in Nat /\ f \in Nat
      /\ a <= h /\ h <= c /\ c <= p /\ p < q /\ q <= f /\ f <= n /\ npos \in Nat
  BY WrittenFacts
<1>2. /\ u.scheme \in Seq(Token) /\ u.user_info \in Seq(Token) /\ u.host \in Seq(Token)
      /\ u.path \in Seq(Seq(Token)) /\ u.query \in Seq(Token) /\ u.fragment \in Seq(Token)
      /\ u.port \in Ports \cup {0}
  BY DEF Written, Uri
<1>3. /\ Len(u.scheme) \in Nat /\ Len(u.user_info) \in Nat /\ Len(u.host) \in Nat
      /\ Len(u.query) \in Nat /\ Len(u.fragment) \in Nat
  BY <1>2
<1>4. AuthorityStart(s) = a
  BY AuthorityFound DEF Marked
<1>5. HostStart(s) = h
  BY <1>4, UserFound DEF Marked
<1>6. QueryEnd(s) = f - 1
  BY FragmentFound DEF Marked
<1>7. PathEnd(s) = q - 1
  BY <1>6, QueryFound DEF Marked
<1>8. PortEnd(s) = Minus(p, 1)
  BY PortFound DEF Marked
<1>9. HostEnd(s) = Minus(c, 1)
  <2>1. CASE u.port = 0
    <3>1. PortMark(s) = npos
      BY <2>1 DEF Marked, PortMarked
    <3>2. p = c
      BY <2>1 DEF Written, Cuts
    <3> QED
      BY <1>8, <3>1, <3>2 DEF HostEnd, Before
  <2>2. CASE u.port # 0
    <3>1. PortMark(s) = c
      BY <2>2 DEF Marked, PortMarked
    <3>2. c # npos
      BY <1>1
    <3> QED
      BY <3>1, <3>2 DEF HostEnd, Before
  <2> QED
    BY <2>1, <2>2
<1>10. u.scheme = SchemeRead(s)
  <2>1. CASE u.scheme = <<>>
    BY <2>1 DEF Marked, SchemeMarked, SchemeRead
  <2>2. CASE u.scheme # <<>>
    <3>1. SchemeEnd(s) = Len(u.scheme)
      BY <2>2 DEF Marked, SchemeMarked
    <3>2. a = Len(u.scheme) + 3
      BY <2>2 DEF Written, Cuts
    <3>3. 0 \in Nat /\ 0 + Len(u.scheme) <= Len(s) /\ Len(u.scheme) # npos
      BY <1>1, <1>3, <3>2
    <3>4. \A i \in 1..Len(u.scheme) : s[0 + i] = u.scheme[i]
      BY <1>3 DEF Written, Filled
    <3>5. Substr(s, 0, Len(u.scheme)) = u.scheme
      <4> DEFINE part == u.scheme
      <4>1. s \in Seq(Token) /\ part \in Seq(Token) /\ 0 \in Nat /\ 0 + Len(part) <= Len(s)
        BY <1>1, <1>2, <3>3
      <4>2. \A i \in 1..Len(part) : s[0 + i] = part[i]
        BY <3>4
      <4> HIDE DEF part
      <4>3. Substr(s, 0, Len(part)) = part
        BY <4>1, <4>2, SubstrIs
      <4> QED
        BY <4>3 DEF part
    <3> QED
      BY <3>1, <3>3, <3>5 DEF SchemeRead
  <2> QED
    BY <2>1, <2>2
<1>11. u.user_info = UserRead(s)
  <2>1. CASE u.user_info = <<>>
    BY <2>1 DEF Marked, UserMarked, UserRead
  <2>2. CASE u.user_info # <<>>
    <3>1. UserEnd(s) = h - 1
      BY <2>2 DEF Marked, UserMarked
    <3>2. h = a + Len(u.user_info) + 1
      BY <2>2 DEF Written, Cuts
    <3>3. a + Len(u.user_info) <= Len(s) /\ h - 1 # npos /\ (h - 1) - a = Len(u.user_info)
      BY <1>1, <1>3, <3>2
    <3>4. \A i \in 1..Len(u.user_info) : s[a + i] = u.user_info[i]
      BY DEF Written, Filled
    <3>5. Substr(s, a, (h - 1) - a) = u.user_info
      <4> DEFINE part == u.user_info
                 l == (h - 1) - a
      <4>1. s \in Seq(Token) /\ part \in Seq(Token) /\ a \in Nat /\ a + Len(part) <= Len(s)
            /\ l = Len(part)
        BY <1>1, <1>2, <3>3
      <4>2. \A i \in 1..Len(part) : s[a + i] = part[i]
        BY <3>4
      <4> HIDE DEF part, l
      <4>3. Substr(s, a, l) = part
        BY <4>1, <4>2, SubstrIs
      <4> QED
        BY <4>3 DEF part, l
    <3> QED
      BY <1>4, <3>1, <3>3, <3>5 DEF UserRead
  <2> QED
    BY <2>1, <2>2
<1>12. u.host = HostRead(s)
  <2>1. h \in 0..n /\ c \in h..n /\ c \in 0..n
    BY <1>1
  <2>2. Minus(c, 1) \in Size
    <3>1. c \in Size /\ 1 \in Size
      BY <1>1, <2>1, Sizes
    <3> QED
      BY <3>1, MinusIs
  <2>3. Plus(Minus(Minus(c, 1), h), 1) = c - h
    BY <1>1, <2>1, <2>2, HostLength
  <2>4. c - h = Len(u.host) /\ h + Len(u.host) <= Len(s)
    <3>1. c = h + Len(u.host)
      BY DEF Written, Cuts
    <3> QED
      BY <1>1, <1>3, <3>1
  <2>5. \A i \in 1..Len(u.host) : s[h + i] = u.host[i]
    BY DEF Written, Filled
  <2>6. Substr(s, h, c - h) = u.host
    <3> DEFINE part == u.host
               l == c - h
    <3>1. s \in Seq(Token) /\ part \in Seq(Token) /\ h \in Nat /\ h + Len(part) <= Len(s)
          /\ l = Len(part)
      BY <1>1, <1>2, <2>4
    <3>2. \A i \in 1..Len(part) : s[h + i] = part[i]
      BY <2>5
    <3> HIDE DEF part, l
    <3>3. Substr(s, h, l) = part
      BY <3>1, <3>2, SubstrIs
    <3> QED
      BY <3>3 DEF part, l
  <2> QED
    BY <1>5, <1>9, <2>3, <2>6 DEF HostRead
<1>13. PortsRead(s) = {u.port}
  <2>1. CASE u.port = 0
    BY <2>1 DEF Marked, PortMarked, PortsRead
  <2>2. CASE u.port # 0
    <3>1. PortMark(s) = c
      BY <2>2 DEF Marked, PortMarked
    <3>2. p = c + 2 /\ s[c + 2] = ToString(u.port)
      BY <2>2 DEF Written, Cuts
    <3>3. p \in 1..n /\ c # npos
      BY <1>1, <3>2
    <3>4. PortEnd(s) = c + 1
      <4>1. Minus(p, 1) = p - 1
        BY <1>1, <3>3, Sizes
      <4> QED
        BY <1>1, <1>8, <3>2, <4>1
    <3>5. u.port \in Ports
      BY <1>2, <2>2
    <3> DEFINE numeral == <<ToString(u.port)>>
    <3>6. numeral \in Seq(Token) /\ Len(numeral) = 1 /\ numeral[1] = ToString(u.port)
          /\ numeral # <<>>
      <4>1. ToString(u.port) \in Token
        BY <3>5, Numerals
      <4> QED
        BY <4>1, Singleton
    <3> HIDE DEF numeral
    <3>7. PartAfter(s, c, c + 1) = numeral
      <4>1. c \in 0..(n - 1) /\ c + 1 \in c..(n - 1) /\ Len(numeral) = (c + 1) - c
        BY <1>1, <3>2, <3>6
      <4>2. \A i \in 1..Len(numeral) : s[c + 1 + i] = numeral[i]
        <5> TAKE i \in 1..Len(numeral)
        <5>1. i = 1 /\ c + 1 + i = c + 2
          BY <1>1, <3>6
        <5> QED
          BY <3>2, <3>6, <5>1
      <4> QED
        BY <1>1, <3>6, <4>1, <4>2, PartAfterEquals
    <3>8. PortsRead(s) = PortIn(numeral)
      BY <3>1, <3>3, <3>4, <3>7 DEF PortsRead
    <3>9. PortIn(numeral) = {u.port}
      <4>1. \A m \in Ports : ToString(u.port) = ToString(m) <=> m = u.port
        BY <3>5, PortsAssumption
      <4> QED
        BY <3>5, <3>6, <4>1 DEF PortIn
    <3> QED
      BY <3>8, <3>9
  <2> QED
    BY <2>1, <2>2
<1>14. u.path = PathRead(s)
  <2> DEFINE t == PartAfter(s, p, q - 1)
             text == PathText(u.path)
  <2>1. p \in 0..(n - 1) /\ q - 1 \in p..(n - 1)
    BY <1>1
  <2>10. /\ t \in Seq(Token) /\ Len(t) = (q - 1) - p
         /\ \A i \in 1..Len(t) : t[i] = s[p + 1 + i]
    <3> DEFINE end == q - 1
    <3>1. end \in p..(n - 1)
      BY <2>1
    <3> HIDE DEF end
    <3>2. LET x == PartAfter(s, p, end) IN
          /\ x \in Seq(Token) /\ Len(x) = end - p
          /\ \A i \in 1..Len(x) : x[i] = s[p + 1 + i]
      BY <1>1, <2>1, <3>1, PartAfterIs
    <3> QED
      BY <3>2 DEF end
  <2>2. t \in Seq(Token) /\ Len(t) = (q - 1) - p
    BY <2>10
  <2>3. \A i \in 1..Len(t) : t[i] = s[p + 1 + i]
    BY <2>10
  <2>4. text \in Seq(Token) /\ Len(text) \in Nat
    BY <1>2, PathTextFacts
  <2>5. q = p + Len(text) /\ \A i \in 1..Len(text) : s[p + i] = text[i]
    BY DEF Written, Cuts, Filled
  <2>6. PathRead(s) = Split(t, "/")
    BY <1>7 DEF Marked, PathRead
  <2> HIDE DEF t, text
  <2>7. Len(t) \in Nat /\ Len(text) = Len(t) + 1 /\ Len(t) < npos
    BY <1>1, <2>2, <2>4, <2>5
  <2>8. \A i \in 1..Len(t) : t[i] = text[i + 1]
    <3> TAKE i \in 1..Len(t)
    <3>1. i + 1 \in 1..Len(text) /\ p + 1 + i = p + (i + 1)
      BY <1>1, <2>7
    <3> QED
      BY <2>3, <2>5, <3>1
  <2>9. Split(t, "/") = u.path
    BY <1>2, <2>2, <2>7, <2>8, SplitJoins DEF text
  <2> QED
    BY <2>6, <2>9
<1>15. u.query = QueryRead(s)
  <2>1. CASE u.query = <<>>
    BY <2>1 DEF Marked, QueryMarked, QueryRead, PartAfter
  <2>2. CASE u.query # <<>>
    <3>1. QueryMark(s) = q
      BY <2>2 DEF Marked, QueryMarked
    <3>2. f = q + 1 + Len(u.query)
      BY <2>2 DEF Written, Cuts
    <3>3. f > q + 1
      BY <2>2 DEF Written, Cuts
    <3>4. q \in 0..(n - 1) /\ f - 1 \in q..(n - 1)
      BY <1>1, <3>3
    <3>5. Len(u.query) = (f - 1) - q
      <4> DEFINE l == Len(u.query)
      <4>1. f = q + 1 + l /\ f \in Nat /\ q \in Nat /\ l \in Nat
        BY <1>1, <1>3, <3>2
      <4> HIDE DEF l
      <4>2. l = (f - 1) - q
        BY <4>1
      <4> QED
        BY <4>2 DEF l
    <3>6. \A i \in 1..Len(u.query) : s[q + 1 + i] = u.query[i]
      BY DEF Written, Filled
    <3>7. PartAfter(s, q, f - 1) = u.query
      <4> DEFINE part == u.query
                 end == f - 1
      <4>1. /\ s \in Seq(Token) /\ n \in Nat /\ n = Len(s) /\ n < npos
            /\ q \in 0..(n - 1) /\ end \in q..(n - 1) /\ part \in Seq(Token)
            /\ Len(part) = end - q
        BY <1>1, <1>2, <3>4, <3>5
      <4>2. \A i \in 1..Len(part) : s[q + 1 + i] = part[i]
        BY <3>6
      <4> HIDE DEF part, end
      <4>3. PartAfter(s, q, end) = part
        BY <4>1, <4>2, PartAfterEquals
      <4> QED
        BY <4>3 DEF part, end
    <3> QED
      BY <1>6, <3>1, <3>7 DEF QueryRead
  <2> QED
    BY <2>1, <2>2
<1>16. u.fragment = FragmentRead(s)
  <2>1. CASE u.fragment = <<>>
    BY <2>1 DEF Marked, FragmentMarked, FragmentRead, PartAfter
  <2>2. CASE u.fragment # <<>>
    <3>1. FragmentMark(s) = f
      BY <2>2 DEF Marked, FragmentMarked
    <3>2. n = f + 1 + Len(u.fragment)
      BY <2>2 DEF Written, Cuts
    <3>3. n > f + 1
      BY <2>2 DEF Written, Cuts
    <3>4. f \in 0..(n - 1) /\ n - 1 \in f..(n - 1)
      BY <1>1, <3>3
    <3>5. Len(u.fragment) = (n - 1) - f
      <4> DEFINE l == Len(u.fragment)
      <4>1. n = f + 1 + l /\ n \in Nat /\ f \in Nat /\ l \in Nat
        BY <1>1, <1>3, <3>2
      <4> HIDE DEF l
      <4>2. l = (n - 1) - f
        BY <4>1
      <4> QED
        BY <4>2 DEF l
    <3>6. \A i \in 1..Len(u.fragment) : s[f + 1 + i] = u.fragment[i]
      BY DEF Written, Filled
    <3>7. PartAfter(s, f, n - 1) = u.fragment
      <4> DEFINE part == u.fragment
                 end == n - 1
      <4>1. /\ s \in Seq(Token) /\ n \in Nat /\ n = Len(s) /\ n < npos
            /\ f \in 0..(n - 1) /\ end \in f..(n - 1) /\ part \in Seq(Token)
            /\ Len(part) = end - f
        BY <1>1, <1>2, <3>4, <3>5
      <4>2. \A i \in 1..Len(part) : s[f + 1 + i] = part[i]
        BY <3>6
      <4> HIDE DEF part, end
      <4>3. PartAfter(s, f, end) = part
        BY <4>1, <4>2, PartAfterEquals
      <4> QED
        BY <4>3 DEF part, end
    <3>8. Last1(s) = n - 1
      BY <1>1, SearchFacts
    <3> QED
      BY <3>1, <3>7, <3>8 DEF FragmentRead
  <2> QED
    BY <2>1, <2>2
<1> QED
  BY <1>10, <1>11, <1>12, <1>13, <1>14, <1>15, <1>16 DEF ReadBack

-----------------------------------------------------------------------------
(* What is read when it is what was written.                                *)

(* Whatever split is given, its parts are not empty and have no delimiter. *)
LEMMA ReadPathIsGood ==
  ASSUME NEW s \in Seq(Token), Len(s) >= 1, Len(s) < npos
  PROVE  GoodPath(PathRead(s))
<1> DEFINE t == PartAfter(s, PathMark(s), PathEnd(s))
<1>1. Len(s) \in Nat
  OBVIOUS
<1>2. t \in Seq(Token) /\ Len(t) < npos
  <2>1. CASE PathMark(s) = npos
    <3>1. t = <<>>
      BY <2>1 DEF PartAfter
    <3> HIDE DEF t
    <3>2. <<>> \in Seq(Token) /\ Len(<<>>) = 0
      OBVIOUS
    <3>3. 0 < npos
      BY Words
    <3> QED
      BY <3>1, <3>2, <3>3
  <2>2. CASE PathMark(s) # npos
    <3> DEFINE from == PathMark(s) + 1
               l == Minus(PathEnd(s), PathMark(s))
    <3>1. t = Substr(s, from, l)
      BY <2>2 DEF PartAfter
    <3>2. PathMark(s) \in 0..(Len(s) - 1)
      <4>1. IsFirst(PathMark(s), s, "/", HostStart(s))
        BY SearchFacts
      <4> QED
        BY <2>2, <4>1 DEF IsFirst, Positions
    <3>3. from \in 0..Len(s)
      BY <1>1, <3>2
    <3>4. l \in Nat
      <4>1. PathMark(s) \in Size
        BY <1>1, <3>2, Sizes
      <4>2. PathEnd(s) \in Size
        BY SearchFacts
      <4>3. l \in Size
        BY <4>1, <4>2, MinusIs
      <4> QED
        BY <4>3 DEF Size
    <3> HIDE DEF t, from, l
    <3>5. Substr(s, from, l) \in Seq(Token)
      BY <3>3, <3>4, SubstrFacts
    <3>6. Len(Substr(s, from, l)) = IF from + l <= Len(s) THEN l ELSE Len(s) - from
      BY <3>3, <3>4, SubstrFacts
    <3>7. Len(Substr(s, from, l)) <= Len(s)
      BY <1>1, <3>3, <3>4, <3>6
    <3>8. Len(t) <= Len(s) /\ Len(t) \in Nat /\ npos \in Nat
      BY <3>1, <3>5, <3>7, Words
    <3> QED
      BY <1>1, <3>1, <3>5, <3>8
  <2> QED
    BY <2>1, <2>2
<1>3. PathRead(s) = Split(t, "/")
  BY DEF PathRead
<1> HIDE DEF t
<1> QED
  BY <1>2, <1>3, SplitFacts

(* The host that is read is a part of the string.                           *)
LEMMA HostReadFacts ==
  ASSUME NEW s \in Seq(Token), Len(s) >= 1, Len(s) < npos
  PROVE  LET k == HostStart(s)
             l == Plus(Minus(HostEnd(s), k), 1)
         IN  /\ HostRead(s) \in Seq(Token) /\ l \in Nat
             /\ Len(HostRead(s)) = IF k + l <= Len(s) THEN l ELSE Len(s) - k
             /\ k + Len(HostRead(s)) <= Len(s)
             /\ \A i \in 1..Len(HostRead(s)) : HostRead(s)[i] = s[k + i]
<1> DEFINE k == HostStart(s)
           l == Plus(Minus(HostEnd(s), k), 1)
           host == HostRead(s)
<1>1. Len(s) \in Nat
  OBVIOUS
<1>2. k \in 0..Len(s) /\ HostEnd(s) \in Size
  BY SearchFacts
<1>3. l \in Nat
  <2>1. Len(s) \in k..Len(s)
    BY <1>1, <1>2
  <2> QED
    BY <1>1, <1>2, <2>1, HostLength
<1>4. host = Substr(s, k, l)
  BY DEF HostRead
<1> HIDE DEF k, l, host
<1>5. host \in Seq(Token)
  BY <1>2, <1>3, <1>4, SubstrFacts
<1>6. Len(host) = IF k + l <= Len(s) THEN l ELSE Len(s) - k
  BY <1>2, <1>3, <1>4, SubstrFacts
<1>7. \A i \in 1..Len(host) : host[i] = s[k + i]
  BY <1>2, <1>3, <1>4, SubstrFacts
<1>8. k + Len(host) <= Len(s)
  BY <1>1, <1>2, <1>3, <1>6
<1> QED
  BY <1>3, <1>5, <1>6, <1>7, <1>8 DEF k, l, host

(* No string that is read back begins with the delimiter that ends a       *)
(* scheme.                                                                 *)
LEMMA NoEmptyScheme ==
  ASSUME NEW u, NEW s, NEW n, NEW a, NEW h, NEW c, NEW p, NEW q, NEW f,
         Written(u, s, n, a, h, c, p, q, f), IsValid(u), ReadBack(u, s), GoodPath(u.path),
         u.scheme = <<>>, SchemeEnd(s) = 0, n >= 3,
         s[1] = ":", s[2] = "/", s[3] = "/"
  PROVE  FALSE
<1>1. /\ s \in Seq(Token) /\ n = Len(s) /\ n < npos /\ n >= 1
      /\ n \in Nat /\ a \in Nat /\ h \in Nat /\ c \in Nat /\ p \in Nat /\ q \in Nat /\ f \in Nat
      /\ a <= h /\ h <= c /\ c <= p /\ p < q /\ q <= f /\ f <= n /\ npos \in Nat
  BY WrittenFacts
<1>2. /\ u.user_info \in Seq(Token) /\ u.host \in Seq(Token) /\ u.path \in Seq(Seq(Token))
      /\ Len(u.user_info) \in Nat /\ Len(u.host) \in Nat
  BY DEF Written, Uri
<1>3. a = 0
  BY DEF Written, Cuts
<1>4. AuthorityStart(s) = 3
  BY Words DEF AuthorityStart
<1> DEFINE ue == UserEnd(s)
<1>5. ue = npos \/ (ue \in 3..(n - 1) /\ s[ue + 1] = "@" /\ ~Holds(s, 3, ue, "@"))
  <2>1. IsFirst(ue, s, "@", 3)
    <3>1. Len(s) >= 1 /\ Len(s) < npos
      BY <1>1
    <3>2. IsFirst(UserEnd(s), s, "@", AuthorityStart(s))
      BY <1>1, <3>1, SearchFacts
    <3> QED
      BY <1>4, <3>2
  <2>2. 3 \in 0..n
    BY <1>1
  <2> HIDE DEF ue
  <2>3. FoundFirst(ue, s, "@", 3, n)
    BY <1>1, <2>1, <2>2, FirstIs
  <2> QED
    BY <2>3 DEF FoundFirst
<1>6. u.user_info = IF ue = npos THEN <<>> ELSE Substr(s, 3, ue - 3)
  BY <1>4 DEF ReadBack, UserRead
<1> HIDE DEF ue
<1>7. ue # npos => Len(u.user_info) = ue - 3
  <2>1. SUFFICES ASSUME ue # npos PROVE Len(u.user_info) = ue - 3
    OBVIOUS
  <2>2. ue \in 3..(n - 1)
    BY <1>5, <2>1
  <2> DEFINE l == ue - 3
  <2>3. l \in Nat /\ 3 \in 0..Len(s) /\ 3 + l <= Len(s)
    BY <1>1, <2>2
  <2>4. u.user_info = Substr(s, 3, l)
    BY <1>6, <2>1
  <2> HIDE DEF l
  <2>5. Len(Substr(s, 3, l)) = l
    BY <1>1, <2>3, SubstrFacts
  <2> QED
    BY <2>4, <2>5 DEF l
<1>8. CASE u.user_info # <<>>
  <2> DEFINE l == Len(u.user_info)
  <2>1. h = l + 1 /\ h > 1 /\ s[h] = "@"
    BY <1>1, <1>2, <1>3, <1>8 DEF Written, Cuts
  <2>2. ue # npos
    BY <1>6, <1>8
  <2>3. ue \in 3..(n - 1) /\ ue = l + 3 /\ ~Holds(s, 3, ue, "@") /\ l \in Nat
    BY <1>1, <1>2, <1>5, <1>7, <2>2
  <2> HIDE DEF l
  <2>4. l # 1 /\ l # 2 /\ l # 0
    BY <2>1, <2>3
  <2>5. l \in 3..(ue - 1) /\ s[l + 1] = "@"
    BY <2>1, <2>3, <2>4
  <2> QED
    BY <2>3, <2>5 DEF Holds
<1>9. CASE u.user_info = <<>>
  <2>1. h = 0
    BY <1>3, <1>9 DEF Written, Cuts
  <2> DEFINE k == HostStart(s)
             L == Len(u.host)
  <2>2. k \in 3..n
    <3>1. ue # npos => ue = 3
      <4>1. SUFFICES ASSUME ue # npos PROVE ue = 3
        OBVIOUS
      <4>2. Len(u.user_info) = 0
        BY <1>9
      <4> QED
        BY <1>1, <1>5, <1>7, <4>1, <4>2
    <3>2. k = IF ue = npos THEN 3 ELSE ue + 1
      BY <1>4 DEF HostStart, ue
    <3>3. ue # npos => 3 + 1 <= n
      BY <1>1, <1>5, <3>1
    <3> QED
      BY <1>1, <3>1, <3>2, <3>3
  <2>3. LET l == Plus(Minus(HostEnd(s), k), 1)
        IN  /\ l \in Nat /\ L = (IF k + l <= n THEN l ELSE n - k) /\ k + L <= n
            /\ \A i \in 1..L : u.host[i] = s[k + i]
    <3>1. Len(s) >= 1 /\ Len(s) < npos
      BY <1>1
    <3>2. u.host = HostRead(s)
      BY DEF ReadBack
    <3> QED
      BY <1>1, <3>1, <3>2, HostReadFacts
  <2>4. L \in Nat /\ c = L /\ \A i \in 1..L : s[i] = u.host[i]
    <3>1. c = h + L
      BY DEF Written, Cuts
    <3>2. \A i \in 1..L : s[h + i] = u.host[i]
      BY DEF Written, Filled
    <3>3. \A i \in 1..L : h + i = i
      BY <2>1
    <3> QED
      BY <1>2, <2>1, <3>1, <3>2, <3>3
  <2> HIDE DEF k, L
  <2>5. L # 0
    <3>1. SUFFICES ASSUME L = 0 PROVE FALSE
      OBVIOUS
    <3>2. u.host = <<>>
      BY <2>1, <2>4, <3>1 DEF Written, Cuts
    <3>3. u.port = 0
      BY <3>2 DEF IsValid
    <3>4. p = c /\ s[p + 1] = "/"
      BY <3>3 DEF Written, Cuts
    <3> QED
      BY <2>4, <3>1, <3>4
  <2>6. s[k + 1] = ":"
    <3>1. 1 \in 1..L
      BY <2>4, <2>5
    <3> QED
      BY <2>3, <2>4, <3>1
  <2>7. L = 1
    <3>1. SUFFICES ASSUME L >= 2 PROVE FALSE
      BY <2>4, <2>5
    <3>2. s[k + 2] = "/"
      <4>1. 2 \in 1..L
        BY <2>4, <3>1
      <4> QED
        BY <2>3, <2>4, <4>1
    <3>3. k \in Nat /\ k >= 3 /\ k + 1 \in k..(n - 1) /\ k \in 0..n
      BY <1>1, <2>2, <2>3, <2>4, <3>1
    <3>4. PathMark(s) = k + 1
      <4>1. Len(s) >= 1 /\ Len(s) < npos
        BY <1>1
      <4>2. IsFirst(PathMark(s), s, "/", k)
        BY <1>1, <4>1, SearchFacts DEF k
      <4>3. FoundFirst(PathMark(s), s, "/", k, n)
        BY <1>1, <3>3, <4>2, FirstIs
      <4>4. ~Holds(s, k, k + 1, "/")
        BY <2>6, <3>3, HoldsOne
      <4>5. s[(k + 1) + 1] = "/"
        BY <3>2, <3>3
      <4> QED
        BY <3>3, <4>3, <4>4, <4>5 DEF FoundFirst
    <3>5. PortEnd(s) = k
      <4>1. k + 1 \in 1..n /\ k + 1 # npos
        BY <1>1, <3>3
      <4>2. Minus(k + 1, 1) = (k + 1) - 1
        BY <1>1, <4>1, Sizes
      <4>3. (k + 1) - 1 = k
        BY <3>3
      <4> QED
        BY <3>4, <4>1, <4>2, <4>3 DEF PortEnd, Before
    <3>6. PortMark(s) = k
      <4>1. Len(s) >= 1 /\ Len(s) < npos
        BY <1>1
      <4>2. IsLast(PortMark(s), s, ":", k)
        BY <1>1, <3>5, <4>1, SearchFacts
      <4> DEFINE to == k + 1
      <4>3. to \in 1..n /\ k = to - 1 /\ k \in 0..(to - 1) /\ to \in Nat /\ k + 1 = to
        BY <1>1, <3>3
      <4> HIDE DEF to
      <4>4. FoundLast(PortMark(s), s, ":", to)
        BY <1>1, <4>2, <4>3, LastIs
      <4>5. ~Holds(s, to, to, ":")
        BY <4>3, HoldsNone
      <4> QED
        BY <2>6, <4>3, <4>4, <4>5 DEF FoundLast
    <3>7. HostEnd(s) = Minus(k, 1)
      <4>1. k # npos
        BY <1>1, <3>3
      <4> QED
        BY <3>6, <4>1 DEF HostEnd, Before
    <3>8. Plus(Minus(Minus(k, 1), k), 1) = k - k
      <4>1. k \in k..n
        BY <1>1, <3>3
      <4>2. HostEnd(s) \in Size
        <5>1. Len(s) >= 1 /\ Len(s) < npos
          BY <1>1
        <5> QED
          BY <1>1, <5>1, SearchFacts
      <4> QED
        BY <1>1, <3>3, <3>7, <4>1, <4>2, HostLength
    <3>9. L = 0
      <4>1. k - k = 0 /\ k + 0 <= n
        BY <1>1, <3>3
      <4> QED
        BY <2>3, <3>7, <3>8, <4>1
    <3> QED
      BY <2>5, <3>9
  <2>8. u.port = 0
    <3>1. u.port # 0 => s[c + 1] = ":"
      BY DEF Written, Cuts
    <3> QED
      BY <2>4, <2>7, <3>1
  <2>9. p = 1
    <3>1. p = c
      BY <2>8 DEF Written, Cuts
    <3> QED
      BY <2>4, <2>7, <3>1
  <2> DEFINE text == PathText(u.path)
  <2>10. /\ Len(text) \in Nat /\ Len(text) >= 1
         /\ Len(text) >= 2 => text[2] # "/"
    BY <1>2, PathTextFacts
  <2>11. q = p + Len(text) /\ \A i \in 1..Len(text) : s[p + i] = text[i]
    BY DEF Written, Cuts, Filled
  <2> HIDE DEF text
  <2>12. CASE Len(text) >= 2
    <3>1. 2 \in 1..Len(text) /\ p + 2 = 3
      BY <2>9, <2>10, <2>12
    <3> QED
      BY <2>10, <2>11, <2>12, <3>1
  <2>13. CASE Len(text) < 2
    <3>1. q = 2
      BY <2>9, <2>10, <2>11, <2>13
    <3>2. u.query = <<>>
      <4>1. u.query # <<>> => s[q + 1] = "?"
        BY DEF Written, Cuts
      <4> QED
        BY <3>1, <4>1
    <3>3. f = 2
      BY <3>1, <3>2 DEF Written, Cuts
    <3>4. u.fragment = <<>>
      <4>1. u.fragment # <<>> => s[f + 1] = "#"
        BY DEF Written, Cuts
      <4> QED
        BY <3>3, <4>1
    <3>5. n = 2
      BY <3>3, <3>4 DEF Written, Cuts
    <3> QED
      BY <3>5
  <2> QED
    BY <2>10, <2>12, <2>13
<1> QED
  BY <1>8, <1>9

(* When the scheme is read back, the first "://" is the one after it;      *)
(* where there is no scheme, it is not at the beginning (NoEmptyScheme).   *)
LEMMA SchemeReadBack ==
  ASSUME NEW u, NEW s, NEW n, NEW a, NEW h, NEW c, NEW p, NEW q, NEW f,
         Written(u, s, n, a, h, c, p, q, f), IsValid(u), ReadBack(u, s), GoodPath(u.path)
  PROVE  SchemeMarked(u, s)
<1>1. s \in Seq(Token) /\ n = Len(s) /\ n < npos /\ n \in Nat
  BY WrittenFacts
<1> DEFINE r == SchemeEnd(s)
<1>2. r = npos \/ (r \in 0..(n - 3) /\ s[r + 1] = ":" /\ s[r + 2] = "/" /\ s[r + 3] = "/")
  BY <1>1, SchemeSearch
<1>3. u.scheme = IF r = npos THEN <<>> ELSE Substr(s, 0, r)
  BY DEF ReadBack, SchemeRead
<1> HIDE DEF r
<1>4. r # npos => Len(u.scheme) = r
  <2>1. SUFFICES ASSUME r # npos PROVE Len(u.scheme) = r
    OBVIOUS
  <2>2. r \in Nat /\ 0 \in 0..Len(s) /\ 0 + r <= Len(s)
    BY <1>1, <1>2, <2>1
  <2>3. Len(Substr(s, 0, r)) = r
    BY <1>1, <2>2, SubstrFacts
  <2> QED
    BY <1>3, <2>1, <2>3
<1>5. CASE u.scheme # <<>>
  BY <1>3, <1>4, <1>5 DEF SchemeMarked, r
<1>6. CASE u.scheme = <<>>
  <2>1. r = npos
    <3>1. SUFFICES ASSUME r # npos PROVE FALSE
      OBVIOUS
    <3>2. r = 0
      BY <1>4, <1>6, <3>1
    <3>3. n >= 3
      BY <1>1, <1>2, <3>1, <3>2
    <3>4. s[1] = ":" /\ s[2] = "/" /\ s[3] = "/"
      BY <1>2, <3>1, <3>2
    <3> QED
      BY <1>6, <3>2, <3>3, <3>4, NoEmptyScheme DEF r
  <2> QED
    BY <1>6, <2>1 DEF SchemeMarked, r
<1> QED
  BY <1>5, <1>6

(* When the user info is read back, the first "@" is the one after it.     *)
LEMMA UserReadBack ==
  ASSUME NEW u, NEW s, NEW n, NEW a, NEW h, NEW c, NEW p, NEW q, NEW f,
         Written(u, s, n, a, h, c, p, q, f), ReadBack(u, s), AuthorityStart(s) = a
  PROVE  UserMarked(u, s, h)
<1>1. /\ s \in Seq(Token) /\ n = Len(s) /\ n < npos /\ n >= 1
      /\ n \in Nat /\ a \in Nat /\ h \in Nat /\ c \in Nat /\ p \in Nat /\ q \in Nat /\ f \in Nat
      /\ a <= h /\ h <= c /\ c <= p /\ p < q /\ q <= f /\ f <= n /\ npos \in Nat
  BY WrittenFacts
<1>2. /\ u.user_info \in Seq(Token) /\ u.host \in Seq(Token)
      /\ Len(u.user_info) \in Nat /\ Len(u.host) \in Nat
  BY DEF Written, Uri
<1> DEFINE ue == UserEnd(s)
<1>3. ue = npos \/ (ue \in a..(n - 1) /\ s[ue + 1] = "@")
  <2>1. IsFirst(ue, s, "@", a)
    <3>1. Len(s) >= 1 /\ Len(s) < npos
      BY <1>1
    <3>2. IsFirst(UserEnd(s), s, "@", AuthorityStart(s))
      BY <1>1, <3>1, SearchFacts
    <3> QED
      BY <3>2
  <2>2. a \in 0..n
    BY <1>1
  <2> HIDE DEF ue
  <2>3. FoundFirst(ue, s, "@", a, n)
    BY <1>1, <2>1, <2>2, FirstIs
  <2> QED
    BY <2>3 DEF FoundFirst
<1>4. u.user_info = IF ue = npos THEN <<>> ELSE Substr(s, a, ue - a)
  BY DEF ReadBack, UserRead
<1> HIDE DEF ue
<1>5. ue # npos => Len(u.user_info) = ue - a
  <2>1. SUFFICES ASSUME ue # npos PROVE Len(u.user_info) = ue - a
    OBVIOUS
  <2>2. ue \in a..(n - 1)
    BY <1>3, <2>1
  <2> DEFINE l == ue - a
  <2>3. l \in Nat /\ a \in 0..Len(s) /\ a + l <= Len(s)
    BY <1>1, <2>2
  <2>4. u.user_info = Substr(s, a, l)
    BY <1>4, <2>1
  <2> HIDE DEF l
  <2>5. Len(Substr(s, a, l)) = l
    BY <1>1, <2>3, SubstrFacts
  <2> QED
    BY <2>4, <2>5 DEF l
<1>6. CASE u.user_info # <<>>
  <2> DEFINE l == Len(u.user_info)
  <2>1. h = a + l + 1 /\ l \in Nat
    BY <1>2, <1>6 DEF Written, Cuts
  <2>2. ue # npos
    BY <1>4, <1>6
  <2>3. l = ue - a /\ ue \in a..(n - 1)
    BY <1>3, <1>5, <2>2
  <2> HIDE DEF l
  <2>4. ue = h - 1
    BY <1>1, <2>1, <2>3
  <2> QED
    BY <1>6, <2>4 DEF UserMarked, ue
<1>7. CASE u.user_info = <<>>
  <2>1. h = a
    BY <1>7 DEF Written, Cuts
  <2>2. ue = npos
    <3>1. SUFFICES ASSUME ue # npos PROVE FALSE
      OBVIOUS
    <3>2. ue = a /\ s[a + 1] = "@"
      <4>1. Len(u.user_info) = 0
        BY <1>7
      <4>2. ue \in a..(n - 1) /\ s[ue + 1] = "@" /\ ue - a = 0
        BY <1>3, <1>5, <3>1, <4>1
      <4>3. ue = a
        BY <1>1, <4>2
      <4> QED
        BY <4>2, <4>3
    <3> DEFINE L == Len(u.host)
    <3>3. HostStart(s) = a + 1
      BY <3>1, <3>2 DEF HostStart, ue
    <3>4. \A i \in 1..L : u.host[i] = s[(a + 1) + i]
      <4>1. Len(s) >= 1 /\ Len(s) < npos
        BY <1>1
      <4>2. u.host = HostRead(s)
        BY DEF ReadBack
      <4> QED
        BY <1>1, <3>3, <4>1, <4>2, HostReadFacts
    <3>5. c = a + L /\ \A i \in 1..L : s[a + i] = u.host[i]
      BY <2>1 DEF Written, Cuts, Filled
    <3>6. L \in Nat
      BY <1>2
    <3> HIDE DEF L
    <3> DEFINE S == {i \in 1..(L + 1) : s[a + i] # "@"}
    <3>7. S = {}
      <4>1. SUFFICES ASSUME S # {} PROVE FALSE
        OBVIOUS
      <4>2. S \subseteq Nat
        OBVIOUS
      <4> HIDE DEF S
      <4>3. PICK m \in S : \A y \in S : m <= y
        BY <4>1, <4>2, LeastNatural
      <4>4. m \in 1..(L + 1) /\ s[a + m] # "@"
        BY <4>3 DEF S
      <4>5. m # 1
        BY <3>2, <4>4
      <4> DEFINE j == m - 1
      <4>6. j \in 1..L /\ j \in 1..(L + 1) /\ j < m /\ (a + 1) + j = a + m
        BY <1>1, <3>6, <4>4, <4>5
      <4> HIDE DEF j
      <4>7. j \notin S
        BY <3>6, <4>3, <4>4, <4>6
      <4>8. s[a + j] = "@"
        BY <4>6, <4>7 DEF S
      <4>9. s[a + m] = s[a + j]
        <5>1. u.host[j] = s[(a + 1) + j] /\ s[a + j] = u.host[j]
          BY <3>4, <3>5, <4>6
        <5> QED
          BY <4>6, <5>1
      <4> QED
        BY <4>4, <4>8, <4>9
    <3>8. s[c + 1] = "@"
      <4>1. L + 1 \in 1..(L + 1) /\ c + 1 = a + (L + 1)
        BY <1>1, <3>5, <3>6
      <4>2. s[a + (L + 1)] = "@"
        BY <3>7, <4>1
      <4> QED
        BY <4>1, <4>2
    <3>9. CASE u.port = 0
      <4>1. p = c /\ s[p + 1] = "/"
        BY <3>9 DEF Written, Cuts
      <4> QED
        BY <3>8, <4>1
    <3>10. CASE u.port # 0
      <4>1. s[c + 1] = ":"
        BY <3>10 DEF Written, Cuts
      <4> QED
        BY <3>8, <4>1
    <3> QED
      BY <3>9, <3>10
  <2> QED
    BY <1>7, <2>2 DEF UserMarked, ue
<1> QED
  BY <1>6, <1>7

(* When the host is read back, the port is looked for at its end.          *)
LEMMA HostReadBack ==
  ASSUME NEW u, NEW s, NEW n, NEW a, NEW h, NEW c, NEW p, NEW q, NEW f,
         Written(u, s, n, a, h, c, p, q, f), ReadBack(u, s), HostStart(s) = h
  PROVE  HostEnd(s) = Minus(c, 1)
<1>1. /\ s \in Seq(Token) /\ n = Len(s) /\ n < npos /\ n >= 1
      /\ n \in Nat /\ a \in Nat /\ h \in Nat /\ c \in Nat /\ p \in Nat /\ q \in Nat /\ f \in Nat
      /\ a <= h /\ h <= c /\ c <= p /\ p < q /\ q <= f /\ f <= n /\ npos \in Nat
  BY WrittenFacts
<1>2. Len(s) >= 1 /\ Len(s) < npos
  BY <1>1
<1> DEFINE L == Len(u.host)
           l == Plus(Minus(HostEnd(s), h), 1)
<1>3. l \in Nat /\ L = (IF h + l <= n THEN l ELSE n - h)
  <2>1. u.host = HostRead(s)
    BY DEF ReadBack
  <2> QED
    BY <1>1, <1>2, <2>1, HostReadFacts
<1>4. c = h + L /\ L \in Nat
  BY DEF Written, Cuts, Uri
<1>5. HostEnd(s) \in Size
  BY <1>1, <1>2, SearchFacts
<1>6. l = c - h
  <2> HIDE DEF l, L
  <2>1. c < n
    BY <1>1
  <2>2. L = c - h
    BY <1>1, <1>4
  <2>3. L # n - h
    BY <1>1, <2>1, <2>2
  <2> QED
    BY <1>3, <2>2, <2>3
<1>7. h \in 0..n /\ c \in h..n
  BY <1>1
<1> QED
  BY <1>1, <1>5, <1>6, <1>7, HostLength

(* No two positions in the string have the same one before them.           *)
LEMMA MinusOne ==
  ASSUME NEW n \in Nat, n < npos
  PROVE  \A x \in 0..n, y \in 0..n : Minus(x, 1) = Minus(y, 1) => x = y
<1> SUFFICES ASSUME NEW x \in 0..n, NEW y \in 0..n, Minus(x, 1) = Minus(y, 1) PROVE x = y
  OBVIOUS
<1>1. /\ Minus(x, 1) = IF x = 0 THEN npos ELSE x - 1
      /\ Minus(y, 1) = IF y = 0 THEN npos ELSE y - 1
  <2>1. \A z \in 0..n : z # 0 => z \in 1..n
    OBVIOUS
  <2>2. \A z \in 1..n : Minus(z, 1) = z - 1
    BY Sizes
  <2>3. Minus(0, 1) = npos
    BY Sizes
  <2> QED
    BY <2>1, <2>2, <2>3
<1>2. npos \in Nat
  BY Words
<1> QED
  BY <1>1, <1>2

(* When the fragment is read back, the last "#" is the one before it, or   *)
(* it is the last character of the string, before an empty fragment.       *)
LEMMA FragmentReadBack ==
  ASSUME NEW u, NEW s, NEW n, NEW a, NEW h, NEW c, NEW p, NEW q, NEW f,
         Written(u, s, n, a, h, c, p, q, f), ReadBack(u, s)
  PROVE  \/ FragmentMarked(u, s, f) /\ QueryEnd(s) = f - 1
         \/ QueryEnd(s) = f - 2 /\ f - 2 >= p
<1>1. /\ s \in Seq(Token) /\ n = Len(s) /\ n < npos /\ n >= 1
      /\ n \in Nat /\ p \in Nat /\ q \in Nat /\ f \in Nat
      /\ p < q /\ q <= f /\ f <= n /\ npos \in Nat
  BY WrittenFacts
<1> DEFINE r == FragmentMark(s)
<1>2. Last1(s) = n - 1 /\ IsLast(r, s, "#", npos)
  <2>1. Len(s) >= 1 /\ Len(s) < npos
    BY <1>1
  <2> QED
    BY <1>1, <2>1, SearchFacts
<1>3. u.fragment = PartAfter(s, r, n - 1)
  BY <1>2 DEF ReadBack, FragmentRead
<1>4. QueryEnd(s) = IF r = npos THEN n - 1 ELSE Minus(r, 1)
  BY <1>2 DEF QueryEnd, Before
<1> HIDE DEF r
<1>5. r # npos => r \in 0..(n - 1) /\ s[r + 1] = "#"
  <2>1. n \in 1..n
    BY <1>1
  <2>2. FoundLast(r, s, "#", n)
    BY <1>1, <1>2, <2>1, LastIs
  <2> QED
    BY <2>2 DEF FoundLast
<1>6. r # npos => Len(u.fragment) = (n - 1) - r
  <2>1. SUFFICES ASSUME r # npos PROVE Len(u.fragment) = (n - 1) - r
    OBVIOUS
  <2> DEFINE end == n - 1
  <2>2. r \in 0..(n - 1) /\ end \in r..(n - 1) /\ u.fragment = PartAfter(s, r, end)
    BY <1>1, <1>3, <1>5, <2>1
  <2> HIDE DEF end
  <2>3. Len(PartAfter(s, r, end)) = end - r
    BY <1>1, <2>2, PartAfterIs
  <2> QED
    BY <2>2, <2>3 DEF end
<1>7. CASE u.fragment # <<>>
  <2> DEFINE l == Len(u.fragment)
  <2>1. n = f + 1 + l /\ l \in Nat
    BY <1>7 DEF Written, Cuts, Uri
  <2>2. r # npos
    BY <1>3, <1>7 DEF PartAfter
  <2>3. l = (n - 1) - r /\ r \in 0..(n - 1)
    BY <1>5, <1>6, <2>2
  <2> HIDE DEF l
  <2>4. r = f /\ f \in 1..n
    BY <1>1, <2>1, <2>3
  <2>5. Minus(f, 1) = f - 1
    BY <1>1, <2>4, Sizes
  <2> QED
    BY <1>4, <1>7, <2>2, <2>4, <2>5 DEF FragmentMarked, r
<1>8. CASE u.fragment = <<>>
  <2>1. n = f
    BY <1>8 DEF Written, Cuts
  <2>2. CASE r = npos
    BY <1>4, <1>8, <2>1, <2>2 DEF FragmentMarked, r
  <2>3. CASE r # npos
    <3>1. Len(u.fragment) = 0
      BY <1>8
    <3>2. r = n - 1 /\ s[r + 1] = "#"
      BY <1>1, <1>5, <1>6, <2>3, <3>1
    <3>3. s[p + 1] = "/"
      BY DEF Written, Cuts
    <3>4. r # p
      BY <3>2, <3>3
    <3>5. r \in 1..n /\ r - 1 = f - 2 /\ f - 2 >= p
      BY <1>1, <2>1, <3>2, <3>4
    <3>6. Minus(r, 1) = r - 1
      BY <1>1, <3>5, Sizes
    <3> QED
      BY <1>4, <2>3, <3>5, <3>6
  <2> QED
    BY <2>2, <2>3
<1> QED
  BY <1>7, <1>8

(* So for the query; if the path ends where it was written, both were      *)
(* found.                                                                  *)
LEMMA QueryReadBack ==
  ASSUME NEW u, NEW s, NEW n, NEW a, NEW h, NEW c, NEW p, NEW q, NEW f,
         Written(u, s, n, a, h, c, p, q, f), ReadBack(u, s)
  PROVE  /\ PathEnd(s) \in p..(q - 1)
         /\ PathEnd(s) = q - 1 => FragmentMarked(u, s, f) /\ QueryMarked(u, s, q)
<1>1. /\ s \in Seq(Token) /\ n = Len(s) /\ n < npos /\ n >= 1
      /\ n \in Nat /\ p \in Nat /\ q \in Nat /\ f \in Nat
      /\ p < q /\ q <= f /\ f <= n /\ npos \in Nat
  BY WrittenFacts
<1> DEFINE r == QueryMark(s)
           e == QueryEnd(s)
<1>2. \/ e = f - 1 /\ FragmentMarked(u, s, f)
      \/ e = f - 2 /\ f - 2 >= p
  BY FragmentReadBack
<1>3. IsLast(r, s, "?", e)
  <2>1. Len(s) >= 1 /\ Len(s) < npos
    BY <1>1
  <2> QED
    BY <1>1, <2>1, SearchFacts
<1>4. u.query = PartAfter(s, r, e)
  BY DEF ReadBack, QueryRead
<1>5. PathEnd(s) = IF r = npos THEN e ELSE Minus(r, 1)
  BY DEF PathEnd, Before
<1> HIDE DEF r, e
<1>6. e \in Nat /\ p <= e /\ e <= f - 1 /\ e <= n - 1
  BY <1>1, <1>2
<1>7. s[p + 1] = "/"
  BY DEF Written, Cuts
<1>8. r # npos => r \in 0..e /\ s[r + 1] = "?"
  <2> DEFINE to == e + 1
  <2>1. to \in 1..n /\ e = to - 1
    BY <1>1, <1>6
  <2> HIDE DEF to
  <2>2. FoundLast(r, s, "?", to)
    BY <1>1, <1>3, <2>1, LastIs
  <2> QED
    BY <2>1, <2>2 DEF FoundLast
<1>9. r # npos => Len(u.query) = e - r
  <2>1. SUFFICES ASSUME r # npos PROVE Len(u.query) = e - r
    OBVIOUS
  <2>2. r \in 0..(n - 1) /\ e \in r..(n - 1)
    BY <1>1, <1>6, <1>8, <2>1
  <2>3. Len(PartAfter(s, r, e)) = e - r
    BY <1>1, <2>2, PartAfterIs
  <2> QED
    BY <1>4, <2>3
<1>10. r # npos => r # p /\ r \in 0..n
  BY <1>1, <1>6, <1>7, <1>8
<1>11. \A k \in 1..n : Minus(k, 1) = k - 1
  BY <1>1, Sizes
<1>12. CASE u.query # <<>>
  <2> DEFINE l == Len(u.query)
  <2>1. f = q + 1 + l /\ l \in Nat
    BY <1>12 DEF Written, Cuts, Uri
  <2>2. r # npos
    BY <1>4, <1>12 DEF PartAfter
  <2>3. l = e - r /\ r \in 0..e
    BY <1>8, <1>9, <2>2
  <2> HIDE DEF l
  <2>4. r = e - (f - q - 1)
    BY <1>1, <1>6, <2>1, <2>3
  <2>5. CASE e = f - 1
    <3>1. r = q /\ q \in 1..n
      BY <1>1, <2>4, <2>5
    <3>2. PathEnd(s) = q - 1
      BY <1>5, <1>11, <2>2, <3>1
    <3>3. QueryMarked(u, s, q)
      BY <1>12, <3>1 DEF QueryMarked, r
    <3>4. FragmentMarked(u, s, f)
      BY <1>1, <1>2, <2>5
    <3> QED
      BY <1>1, <3>2, <3>3, <3>4
  <2>6. CASE e = f - 2
    <3>1. r = q - 1 /\ r # p
      BY <1>1, <1>10, <2>2, <2>4, <2>6
    <3>2. r \in 1..n /\ r - 1 \in p..(q - 1) /\ r - 1 # q - 1
      BY <1>1, <3>1
    <3>3. PathEnd(s) = r - 1
      BY <1>5, <1>11, <2>2, <3>2
    <3> QED
      BY <3>2, <3>3
  <2> QED
    BY <1>2, <2>5, <2>6
<1>13. CASE u.query = <<>>
  <2>1. f = q
    BY <1>13 DEF Written, Cuts
  <2>2. CASE r = npos
    <3>1. PathEnd(s) = e
      BY <1>5, <2>2
    <3>2. QueryMarked(u, s, q)
      BY <1>13, <2>2 DEF QueryMarked, r
    <3>3. e = q - 1 => FragmentMarked(u, s, f)
      BY <1>1, <1>2, <2>1
    <3> QED
      BY <1>1, <1>6, <2>1, <3>1, <3>2, <3>3
  <2>3. CASE r # npos
    <3>1. Len(u.query) = 0
      BY <1>13
    <3>2. r = e /\ r # p
      BY <1>6, <1>8, <1>9, <1>10, <2>3, <3>1
    <3>3. r \in 1..n /\ r - 1 \in p..(q - 1) /\ r - 1 # q - 1
      BY <1>1, <1>6, <2>1, <3>2
    <3>4. PathEnd(s) = r - 1
      BY <1>5, <1>11, <2>3, <3>3
    <3> QED
      BY <3>3, <3>4
  <2> QED
    BY <2>2, <2>3
<1> QED
  BY <1>12, <1>13

(* When the parts are read back, the first "/" is the one of the path,     *)
LEMMA PathMarkReadBack ==
  ASSUME NEW u, NEW s, NEW n, NEW a, NEW h, NEW c, NEW p, NEW q, NEW f,
         Written(u, s, n, a, h, c, p, q, f), ReadBack(u, s), HostStart(s) = h
  PROVE  PathMark(s) = p
<1>1. /\ s \in Seq(Token) /\ n = Len(s) /\ n < npos /\ n >= 1
      /\ n \in Nat /\ a \in Nat /\ h \in Nat /\ c \in Nat /\ p \in Nat /\ q \in Nat /\ f \in Nat
      /\ a <= h /\ h <= c /\ c <= p /\ p < q /\ q <= f /\ f <= n /\ npos \in Nat
  BY WrittenFacts
<1>2. Len(s) >= 1 /\ Len(s) < npos
  BY <1>1
<1> DEFINE pm == PathMark(s)
           po == PortMark(s)
<1>3. pm \in h..p /\ s[pm + 1] = "/"
  BY PathFound
<1>4. HostEnd(s) = Minus(c, 1)
  BY HostReadBack
<1>5. IsLast(po, s, ":", PortEnd(s)) /\ HostEnd(s) = IF po = npos THEN PortEnd(s) ELSE Minus(po, 1)
  BY <1>1, <1>2, SearchFacts DEF HostEnd, Before
<1>6. pm # npos => PortEnd(s) = Minus(pm, 1)
  BY DEF PortEnd, Before
<1> SUFFICES ASSUME pm # p PROVE FALSE
  OBVIOUS
<1> HIDE DEF pm, po
<1>7. pm \in 0..(c - 1)
  <2>1. ~Holds(s, c, p, "/")
    <3>1. Held(u, s, n, a, h, c, p, q, f, "/")
      BY WrittenFacts DEF Delimiters
    <3> QED
      BY <3>1 DEF Held
  <2>2. ~(pm \in c..(p - 1))
    BY <1>3, <2>1 DEF Holds
  <2> QED
    BY <1>1, <1>3, <2>2
<1>8. c \in 1..n /\ c \in 0..n /\ pm \in 0..n /\ pm # npos
  BY <1>1, <1>7
<1>9. Minus(c, 1) = c - 1 /\ c - 1 # npos
  <2>1. Minus(c, 1) = c - 1
    BY <1>1, <1>8, Sizes
  <2> QED
    BY <1>1, <1>8, <2>1
<1>10. CASE pm # 0
  <2>1. pm \in 1..n /\ pm - 1 \in Nat /\ pm - 1 # c - 1
    BY <1>1, <1>7, <1>8, <1>10
  <2>2. PortEnd(s) = pm - 1
    <3>1. Minus(pm, 1) = pm - 1
      BY <1>1, <2>1, Sizes
    <3> QED
      BY <1>6, <1>8, <3>1
  <2>3. po # npos
    BY <1>4, <1>5, <1>9, <2>1, <2>2
  <2>4. po \in 0..(pm - 1)
    <3>1. FoundLast(po, s, ":", pm)
      BY <1>1, <1>5, <2>1, <2>2, LastIs
    <3> QED
      BY <2>3, <3>1 DEF FoundLast
  <2>5. po \in 0..n /\ po # c
    BY <1>1, <1>7, <1>8, <2>4
  <2>6. Minus(po, 1) = Minus(c, 1)
    BY <1>4, <1>5, <2>3
  <2> QED
    BY <1>1, <1>8, <2>5, <2>6, MinusOne
<1>11. CASE pm = 0
  <2>1. PortEnd(s) = npos
    <3>1. Minus(0, 1) = npos
      BY <1>1, Sizes
    <3> QED
      BY <1>6, <1>8, <1>11, <3>1
  <2>2. po # npos
    BY <1>4, <1>5, <1>9, <2>1
  <2>3. FoundLast(po, s, ":", n)
    <3>1. n \in 1..n
      BY <1>1
    <3> QED
      BY <1>1, <1>5, <2>1, <3>1, LastIs
  <2>4. po \in 0..(n - 1) /\ s[po + 1] = ":" /\ ~Holds(s, po + 1, n, ":")
    BY <2>2, <2>3 DEF FoundLast
  <2>5. po = c
    <3>1. po \in 0..n
      BY <1>1, <2>4
    <3>2. Minus(po, 1) = Minus(c, 1)
      BY <1>4, <1>5, <2>2
    <3> QED
      BY <1>1, <1>8, <3>1, <3>2, MinusOne
  <2>6. s[c + 1] = ":" /\ ~Holds(s, c + 1, n, ":")
    BY <2>4, <2>5
  <2>7. p = c + 2
    <3>1. u.port # 0
      <4>1. u.port = 0 => p = c
        BY DEF Written, Cuts
      <4>2. s[p + 1] = "/"
        BY DEF Written, Cuts
      <4> QED
        BY <2>6, <4>1, <4>2
    <3> QED
      BY <3>1 DEF Written, Cuts
  <2> DEFINE e == PathEnd(s)
             t == PartAfter(s, 0, e)
  <2>8. e \in p..(q - 1)
    BY QueryReadBack
  <2>9. e \in 0..(n - 1) /\ 0 \in 0..(n - 1)
    BY <1>1, <2>8
  <2>10. u.path = Split(t, "/")
    BY <1>11 DEF ReadBack, PathRead, pm
  <2> HIDE DEF e
  <2>11. t \in Seq(Token) /\ Len(t) = e - 0
    BY <1>1, <2>9, PartAfterIs
  <2>12. \A i \in 1..Len(t) : t[i] = s[0 + 1 + i]
    BY <1>1, <2>9, PartAfterIs
  <2> HIDE DEF t
  <2>13. Len(t) = e /\ Len(t) < npos
    BY <1>1, <2>9, <2>11
  <2>14. c \in 1..Len(t) /\ 0 + 1 + c = c + 1
    BY <1>1, <1>8, <2>7, <2>8, <2>13
  <2>15. t[c] = ":"
    BY <2>6, <2>12, <2>14
  <2>16. PathHas(u, ":")
    <3> DEFINE k == c - 1
    <3>1. k \in 0..(Len(t) - 1) /\ k + 1 = c
      BY <1>1, <2>13, <2>14
    <3> HIDE DEF k
    <3>2. t[k + 1] = ":" /\ t[k + 1] # "/"
      BY <2>15, <3>1
    <3>3. \A i \in 0..(Len(t) - 1) : t[i + 1] # "/" =>
            \E j \in DOMAIN u.path : Has(u.path[j], t[i + 1])
      BY <2>10, <2>11, <2>13, SplitFacts
    <3> QED
      BY <3>1, <3>2, <3>3 DEF PathHas
  <2>17. Holds(s, p, q, ":")
    <3>1. Held(u, s, n, a, h, c, p, q, f, ":")
      BY WrittenFacts DEF Delimiters
    <3> QED
      BY <2>16, <3>1 DEF Held
  <2>18. PICK i \in p..(q - 1) : s[i + 1] = ":"
    BY <2>17 DEF Holds
  <2>19. i \in (c + 1)..(n - 1)
    BY <1>1, <2>7, <2>18
  <2> QED
    BY <2>6, <2>18, <2>19 DEF Holds
<1> QED
  BY <1>10, <1>11

(* the path that is read ends where it was written,                        *)
LEMMA PathEndReadBack ==
  ASSUME NEW u, NEW s, NEW n, NEW a, NEW h, NEW c, NEW p, NEW q, NEW f,
         Written(u, s, n, a, h, c, p, q, f), ReadBack(u, s), PathMark(s) = p
  PROVE  PathEnd(s) = q - 1
<1>1. /\ s \in Seq(Token) /\ n = Len(s) /\ n < npos
      /\ n \in Nat /\ p \in Nat /\ q \in Nat /\ f \in Nat /\ p < q /\ q <= f /\ f <= n /\ npos \in Nat
  BY WrittenFacts
<1> DEFINE e == PathEnd(s)
           t == PartAfter(s, p, e)
           l == Len(PathText(u.path))
<1>2. e \in p..(q - 1)
  BY QueryReadBack
<1>3. p \in 0..(n - 1) /\ e \in p..(n - 1)
  BY <1>1, <1>2
<1>4. u.path = Split(t, "/")
  BY DEF ReadBack, PathRead
<1>5. q = p + l
  BY DEF Written, Cuts
<1> HIDE DEF e
<1>6. t \in Seq(Token) /\ Len(t) = e - p
  BY <1>1, <1>3, PartAfterIs
<1> HIDE DEF t
<1>7. Len(t) < npos /\ Len(t) \in Nat
  BY <1>1, <1>3, <1>6
<1>8. l <= Len(t) + 1
  BY <1>4, <1>6, <1>7, SplitFacts
<1>9. l \in Nat
  <2>1. u.path \in Seq(Seq(Token))
    BY DEF Written, Uri
  <2> QED
    BY <2>1, PathTextFacts
<1> HIDE DEF l
<1>10. e = q - 1
  BY <1>1, <1>2, <1>5, <1>6, <1>8, <1>9
<1> QED
  BY <1>10 DEF e

(* and the last ":" is the one of the port.                                *)
LEMMA PortReadBack ==
  ASSUME NEW u, NEW s, NEW n, NEW a, NEW h, NEW c, NEW p, NEW q, NEW f,
         Written(u, s, n, a, h, c, p, q, f), ReadBack(u, s), HostStart(s) = h
  PROVE  PortMarked(u, s, c)
<1>1. /\ s \in Seq(Token) /\ n = Len(s) /\ n < npos /\ n >= 1
      /\ n \in Nat /\ c \in Nat /\ p \in Nat /\ q \in Nat /\ f \in Nat
      /\ c <= p /\ p < q /\ q <= f /\ f <= n /\ npos \in Nat
  BY WrittenFacts
<1>2. HostEnd(s) = Minus(c, 1)
  BY HostReadBack
<1> DEFINE po == PortMark(s)
<1>3. po # npos => po \in 0..(n - 1) /\ s[po + 1] = ":"
  <2>1. Len(s) >= 1 /\ Len(s) < npos
    BY <1>1
  <2>2. IsLast(po, s, ":", PortEnd(s))
    BY <1>1, <2>1, SearchFacts
  <2> QED
    BY <1>1, <2>2 DEF IsLast, Positions
<1>4. po # npos => HostEnd(s) = Minus(po, 1)
  BY DEF HostEnd, Before
<1> HIDE DEF po
<1>5. po # npos => po = c
  <2>1. po # npos => po \in 0..n
    BY <1>1, <1>3
  <2>2. c \in 0..n
    BY <1>1
  <2> QED
    BY <1>1, <1>2, <1>4, <2>1, <2>2, MinusOne
<1>6. CASE u.port # 0
  <2>1. po # npos
    <3>1. PortsRead(s) = {u.port}
      BY DEF ReadBack
    <3>2. po = npos => PortsRead(s) = {0}
      BY DEF PortsRead, po
    <3> QED
      BY <1>6, <3>1, <3>2
  <2> QED
    BY <1>5, <1>6, <2>1 DEF PortMarked, po
<1>7. CASE u.port = 0
  <2>1. p = c /\ s[p + 1] = "/"
    BY <1>7 DEF Written, Cuts
  <2>2. po = npos
    BY <1>3, <1>5, <2>1
  <2> QED
    BY <1>7, <2>2 DEF PortMarked, po
<1> QED
  BY <1>6, <1>7

(* All in all: when every part is read back, every search found what was   *)
(* written.                                                                *)
LEMMA MarksReadBack ==
  ASSUME NEW u, NEW s, NEW n, NEW a, NEW h, NEW c, NEW p, NEW q, NEW f,
         Written(u, s, n, a, h, c, p, q, f), IsValid(u), ReadBack(u, s)
  PROVE  Marked(u, s, h, c, p, q, f) /\ GoodPath(u.path)
<1>1. s \in Seq(Token) /\ Len(s) >= 1 /\ Len(s) < npos
  BY WrittenFacts
<1>2. GoodPath(u.path)
  <2>1. GoodPath(PathRead(s))
    BY <1>1, ReadPathIsGood
  <2>2. u.path = PathRead(s)
    BY DEF ReadBack
  <2> QED
    BY <2>1, <2>2
<1>3. SchemeMarked(u, s)
  BY <1>2, SchemeReadBack
<1>4. AuthorityStart(s) = a
  BY <1>3, AuthorityFound
<1>5. UserMarked(u, s, h)
  BY <1>4, UserReadBack
<1>6. HostStart(s) = h
  BY <1>4, <1>5, UserFound
<1>7. PathMark(s) = p
  BY <1>6, PathMarkReadBack
<1>8. PathEnd(s) = q - 1
  BY <1>7, PathEndReadBack
<1>9. FragmentMarked(u, s, f) /\ QueryMarked(u, s, q)
  BY <1>8, QueryReadBack
<1>10. PortMarked(u, s, c)
  BY <1>6, PortReadBack
<1> QED
  BY <1>2, <1>3, <1>5, <1>7, <1>9, <1>10 DEF Marked

-----------------------------------------------------------------------------
(* The equivalence, of one URI.                                            *)
LEMMA ReadBackExactly ==
  ASSUME NEW u \in Uri, IsValid(u), Len(Render(u)) < npos
  PROVE  FromString(Render(u)) = {u} <=> Readable(u)
<1> DEFINE s == Render(u)
           n == EndAt(u)
           a == AuthorityAt(u)
           h == HostAt(u)
           c == PortAt(u)
           p == PathAt(u)
           q == QueryAt(u)
           f == FragmentAt(u)
<1>1. Written(u, s, n, a, h, c, p, q, f)
  BY RenderCuts DEF Written
<1>2. FromString(s) = {u} <=> ReadBack(u, s)
  BY FromStringIs DEF ReadBack
<1>3. s = Render(u)
  OBVIOUS
<1> HIDE DEF s, n, a, h, c, p, q, f
<1>4. Readable(u) <=> Marked(u, s, h, c, p, q, f) /\ GoodPath(u.path)
  BY <1>1, <1>3, ReadableIs
<1>5. Readable(u) => ReadBack(u, s)
  BY <1>1, <1>4, ReadsBack
<1>6. ReadBack(u, s) => Readable(u)
  BY <1>1, <1>4, MarksReadBack
<1> QED
  BY <1>2, <1>3, <1>5, <1>6

(* Sequences over a larger set.                                            *)
LEMMA MoreElements ==
  ASSUME NEW S, NEW T, S \subseteq T
  PROVE  Seq(S) \subseteq Seq(T)
<1> SUFFICES ASSUME NEW s \in Seq(S) PROVE s \in Seq(T)
  OBVIOUS
<1>1. Len(s) \in Nat /\ s = [i \in 1..Len(s) |-> s[i]] /\ \A i \in 1..Len(s) : s[i] \in S
  OBVIOUS
<1>2. s \in [1..Len(s) -> T]
  BY <1>1
<1> QED
  BY <1>1, <1>2

(* The parts of a URI are strings, and its port is one of the ports: the    *)
(* setters of uri.h keep the types of its members.                          *)
THEOREM UriTypeCorrect == UriSpec => [](uri \in Uri)
<1>3. Empty \in Uri
  <2>1. <<>> \in Seq(Token) /\ <<>> \in Seq(Seq(Token))
    OBVIOUS
  <2> QED
    BY <2>1 DEF Empty, Uri
<1>1. UriInit => uri \in Uri
  BY <1>3 DEF UriInit
<1>2. uri \in Uri /\ [UriNext]_uri => (uri \in Uri)'
  <2> SUFFICES ASSUME uri \in Uri, [UriNext]_uri PROVE uri' \in Uri
    OBVIOUS
  <2>1. Seq(STRING) \subseteq Seq(Token) /\ Seq(Seq(STRING)) \subseteq Seq(Seq(Token))
    <3>1. STRING \subseteq Token
      BY DEF Token
    <3>2. Seq(STRING) \subseteq Seq(Token)
      BY <3>1, MoreElements
    <3> QED
      BY <3>2, MoreElements
  <2>2. /\ Schemes \subseteq Seq(Token) /\ UserInfos \subseteq Seq(Token) /\ Hosts \subseteq Seq(Token)
        /\ Queries \subseteq Seq(Token) /\ Fragments \subseteq Seq(Token)
        /\ Paths \subseteq Seq(Seq(Token))
    BY <2>1, PartsAssumption
  <2>3. ASSUME NEW scheme \in Schemes, SetScheme(scheme) PROVE uri' \in Uri
    BY <2>2, <2>3 DEF SetScheme, Uri
  <2>4. ASSUME NEW user_info \in UserInfos, SetUserInfo(user_info) PROVE uri' \in Uri
    BY <2>2, <2>4 DEF SetUserInfo, Uri
  <2>5. ASSUME NEW host \in Hosts, SetHost(host) PROVE uri' \in Uri
    BY <2>2, <2>5 DEF SetHost, Uri
  <2>6. ASSUME NEW port \in Ports, SetPort(port) PROVE uri' \in Uri
    BY <2>6 DEF SetPort, Uri
  <2>7. ASSUME NEW path \in Paths, SetPath(path) PROVE uri' \in Uri
    BY <2>2, <2>7 DEF SetPath, Uri
  <2>8. ASSUME NEW query \in Queries, SetQuery(query) PROVE uri' \in Uri
    BY <2>2, <2>8 DEF SetQuery, Uri
  <2>9. ASSUME NEW fragment \in Fragments, SetFragment(fragment) PROVE uri' \in Uri
    BY <2>2, <2>9 DEF SetFragment, Uri
  <2>10. CASE Clear
    BY <1>3, <2>10 DEF Clear
  <2>11. CASE UNCHANGED uri
    BY <2>11
  <2> QED
    BY <2>3, <2>4, <2>5, <2>6, <2>7, <2>8, <2>9, <2>10, <2>11 DEF UriNext
<1> QED
  BY <1>1, <1>2, PTL DEF UriSpec

(* fromString gives back exactly the readable ones of the URIs that were    *)
(* converted to strings, whatever their parts, as long as the string is.    *)
THEOREM ReadsExactlyTheReadable == UriSpec => []ReadsWhatItWrites
<1>1. uri \in Uri => ReadsWhatItWrites
  BY ReadBackExactly DEF ReadsWhatItWrites
<1> QED
  BY <1>1, UriTypeCorrect, PTL
=============================================================================
