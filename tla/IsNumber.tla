------------------------------ MODULE IsNumber ------------------------------
(***************************************************************************)
(* isNumber() of DocumentBroker.cpp (1867-1892), used by the merge         *)
(* template parser to accept "enum" and "auto" field values.  A string is  *)
(* a sequence of characters; the code's indices are 0-based positions,    *)
(* s[size()] is the terminating NUL, and std::string::npos + 1 wraps to 0. *)
(* find_first_not_of(' ') returns npos, not size(), for a string of       *)
(* blanks, and s[npos] then reads the byte before the buffer: undefined    *)
(* behaviour, modelled as any of the bytes BeforeBuffer.                   *)
(***************************************************************************)
EXTENDS Integers, Sequences

CONSTANTS
    Digits,       \* the characters std::isdigit accepts
    BeforeBuffer  \* the bytes s[npos] can read in the build

NPos == -1     \* std::string::npos, as a position that wraps to 0
Nul == "NUL"   \* the terminator read at s[size()]
Signs == {"+", "-"}

(* s[p] for a 0-based position p, with `g' the byte at s[npos].           *)
At(s, g, p) ==
    IF p = NPos THEN g ELSE IF p < Len(s) THEN s[p + 1] ELSE Nul

(* s.find_first_not_of(' ').                                               *)
FindFirstNotOf(s) ==
    IF \E i \in 1..Len(s) : s[i] # " "
      THEN CHOOSE p \in 0..Len(s) - 1 : s[p + 1] # " " /\ \A q \in 0..p - 1 : s[q + 1] = " "
      ELSE NPos

(* The significand loop: count digits and points until another char.     *)
RECURSIVE Significand(_, _, _, _, _)
Significand(s, g, p, nm, pt) ==
    IF At(s, g, p) \in Digits THEN Significand(s, g, p + 1, nm + 1, pt)
    ELSE IF At(s, g, p) = "." THEN Significand(s, g, p + 1, nm, pt + 1)
    ELSE <<p, nm, pt>>

(* while (s[char_pos] == ' ') ++char_pos;                                   *)
RECURSIVE SkipBlanks(_, _, _)
SkipBlanks(s, g, p) ==
    IF At(s, g, p) = " " THEN SkipBlanks(s, g, p + 1) ELSE p

(* Mutant: the at-least-one-digit test dropped from the significand check. *)
IsNumberWithoutDigit(s, g) ==
    LET p0 == FindFirstNotOf(s)
        p1 == IF At(s, g, p0) \in Signs THEN p0 + 1 ELSE p0
        r  == Significand(s, g, p1, 0, 0)
    IN  IF p0 = Len(s) \/ r[3] > 1 THEN FALSE
        ELSE SkipBlanks(s, g, r[1]) = Len(s)

(* isNumber(s) when the byte at s[npos] is g.                              *)
IsNumberWith(s, g) ==
    LET p0 == FindFirstNotOf(s)
        p1 == IF At(s, g, p0) \in Signs THEN p0 + 1 ELSE p0
        r  == Significand(s, g, p1, 0, 0)
    IN  IF p0 = Len(s) \/ r[3] > 1 \/ r[2] < 1 THEN FALSE
        ELSE SkipBlanks(s, g, r[1]) = Len(s)

(* The results isNumber(s) can return.                                     *)
IsNumberResults(s) == {IsNumberWith(s, g) : g \in BeforeBuffer}

(* Reference, from the code's comments: blanks, an optional sign, digits  *)
(* and at most one point with at least one digit, blanks.                  *)
Blank(s, i, j) == \A k \in i..j : s[k] = " "
Significant(m) ==
    LET body == IF Len(m) > 0 /\ m[1] \in Signs THEN Tail(m) ELSE m
    IN  /\ \A k \in 1..Len(body) : body[k] \in Digits \cup {"."}
        /\ \E k \in 1..Len(body) : body[k] \in Digits
        /\ \A k, l \in 1..Len(body) : body[k] = "." /\ body[l] = "." => k = l
IsNumberRef(s) ==
    \E a, b \in 0..Len(s) :
        /\ a + b <= Len(s)
        /\ Blank(s, 1, a) /\ Blank(s, Len(s) - b + 1, Len(s))
        /\ Significant(SubSeq(s, a + 1, Len(s) - b))
=============================================================================
