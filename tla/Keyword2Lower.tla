---------------------------- MODULE Keyword2Lower ----------------------------
(***************************************************************************)
(* MergeODF::keyword2Lower (DocumentBroker.cpp 3527-3547), which doMergeTo *)
(* applies to a JSON request body for "null", "true" and "false" before    *)
(* parsing it, so that NULL, True or FALSE parse as JSON literals.  The    *)
(* keyword is the regular expression, matched ignoring case; every match  *)
(* not touching a double quote on either side is overwritten with the     *)
(* keyword, and the search goes on after the match.  For a match at       *)
(* offset 0, in[offset - 1] is in[npos]: the byte before the buffer, as in *)
(* isNumber.  No keyword of the three overlaps itself, so the matches the *)
(* loop finds are all the occurrences.                                     *)
(***************************************************************************)
EXTENDS IsNumber

CONSTANT Fold   \* RE_CASELESS: character -> the lower-case letter it matches

Quote == "\""

(* The keyword matches s at 0-based offset o, ignoring case.               *)
MatchesAt(s, kw, o) ==
    /\ o + Len(kw) <= Len(s)
    /\ \A i \in 1..Len(kw) : Fold[s[o + i]] = kw[i]

(* re.match(in, p, match): the first match at or after offset p, or npos. *)
FirstMatch(s, kw, p) ==
    IF \E o \in p..Len(s) : MatchesAt(s, kw, o)
      THEN CHOOSE o \in p..Len(s) : MatchesAt(s, kw, o)
                                   /\ \A q \in p..o - 1 : ~MatchesAt(s, kw, q)
      ELSE NPos

(* for (idx...) in[match.offset + idx] = keyword[idx];                      *)
Overwrite(s, o, kw) ==
    [i \in DOMAIN s |-> IF i \in o + 1..o + Len(kw) THEN kw[i - o] ELSE s[i]]

(* Mutant: the search goes on one character after the end of the match.  *)
RECURSIVE MatchLoopSkipping(_, _, _, _)
MatchLoopSkipping(s, kw, o, g) ==
    IF o = NPos THEN s
    ELSE LET t == IF At(s, g, o - 1) # Quote /\ At(s, g, o + Len(kw)) # Quote
                    THEN Overwrite(s, o, kw) ELSE s
         IN  MatchLoopSkipping(t, kw, FirstMatch(t, kw, o + Len(kw) + 1), g)

(* The while loop, at the match at offset o (npos: no more matches); the  *)
(* byte before the buffer is g.  A match at offset 0 reads in[-1], which  *)
(* At reads as in[npos].                                                   *)
RECURSIVE MatchLoop(_, _, _, _)
MatchLoop(s, kw, o, g) ==
    IF o = NPos THEN s
    ELSE LET t == IF At(s, g, o - 1) # Quote /\ At(s, g, o + Len(kw)) # Quote
                    THEN Overwrite(s, o, kw) ELSE s
         IN  MatchLoop(t, kw, FirstMatch(t, kw, o + Len(kw)), g)

(* keyword2Lower(in, keyword) when the byte before the buffer is g.        *)
Keyword2Lower(in, keyword, g) == MatchLoop(in, keyword, FirstMatch(in, keyword, 0), g)

(* The results keyword2Lower(in, keyword) can return.                      *)
Keyword2LowerResults(in, keyword) == {Keyword2Lower(in, keyword, g) : g \in BeforeBuffer}

(* Reference: position i of s is inside a JSON string literal when an odd  *)
(* number of quotes precede it (the bodies checked have no backslashes).  *)
InString(s, i) == (Len(SelectSeq(SubSeq(s, 1, i - 1), LAMBDA c : c = Quote)) % 2) = 1

(* An occurrence of the keyword outside the string literals, and one that *)
(* touches a quote, which a JSON body never has outside its strings.     *)
Literal(s, kw, o) == MatchesAt(s, kw, o) /\ ~InString(s, o + 1)
Glued(s, kw, o) ==
    \/ o > 0 /\ s[o] = Quote
    \/ o + Len(kw) < Len(s) /\ s[o + Len(kw) + 1] = Quote

(* The intended result: every literal outside the strings in lower case.  *)
LoweredRef(s, kw) ==
    [i \in DOMAIN s |->
        IF \E o \in 0..Len(s) : Literal(s, kw, o) /\ i \in o + 1..o + Len(kw)
          THEN kw[i - CHOOSE o \in 0..Len(s) : Literal(s, kw, o) /\ i \in o + 1..o + Len(kw)]
          ELSE s[i]]
=============================================================================
