-------------------------------- MODULE Strings --------------------------------
(***************************************************************************)
(* The operations of std::string that the code uses, with positions from   *)
(* 0, npos and the wrap of size_t, and utils::split                        *)
(* (src/src/utils/utils.cpp).  A string is a sequence of tokens: a         *)
(* delimiter is one, and so is a word that no search looks into.           *)
(***************************************************************************)
EXTENDS Integers, Sequences, FiniteSetsExt, SequencesExt

(* size_t has W values; the strings are shorter.                           *)
W == 2^16
npos == W - 1
Plus(a, b) == (a + b) % W
Minus(a, b) == (a - b + W) % W

Positions(s) == 0..(Len(s) - 1)
Lowest(S) == IF S = {} THEN npos ELSE Min(S)
Highest(S) == IF S = {} THEN npos ELSE Max(S)

(* The string t is in s at position i.                                     *)
At(s, t, i) == i + Len(t) <= Len(s) /\ SubSeq(s, i + 1, i + Len(t)) = t

Find(s, t, from) == Lowest({i \in Positions(s) : i >= from /\ At(s, t, i)})
RFind(s, t, from) == Highest({i \in Positions(s) : i <= from /\ At(s, t, i)})
FindFirstNotOf(s, c, from) == Lowest({i \in Positions(s) : i >= from /\ s[i + 1] # c})

(* substr, from a position in the string or at its end.                    *)
Substr(s, from, n) == SubSeq(s, from + 1, Min({from + n, Len(s)}))

(* The parts of s between delimiters, the empty ones left out.             *)
Split(s, c) ==
  LET from[end \in 0..Len(s)] ==
        LET start == FindFirstNotOf(s, c, end)
            stop == Find(s, <<c>>, start)
        IN  IF start = npos
              THEN <<>>
              ELSE <<Substr(s, start, Minus(stop, start))>>
                     \o from[IF stop = npos THEN Len(s) ELSE stop]
  IN  from[0]

Blank == " "
CR == "\r"
LF == "\n"
Whitespace == {Blank, CR, LF}

(* trim: nothing but white space is an exception of substr, for which      *)
(* there is no result.                                                     *)
Trim(s) ==
  LET start == Lowest({i \in Positions(s) : s[i + 1] \notin Whitespace})
      end == Highest({i \in Positions(s) : s[i + 1] \notin Whitespace})
  IN  IF start = npos THEN {} ELSE {Substr(s, start, Plus(Minus(end, start), 1))}
=============================================================================
