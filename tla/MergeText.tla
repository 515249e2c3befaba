------------------------------ MODULE MergeText ------------------------------
(***************************************************************************)
(* The text routines of the merge-to handler, each checked against a      *)
(* reference definition on every string of up to MaxLen characters over   *)
(* Alphabet: isNumber (a template field value) and keyword2Lower (a JSON   *)
(* request body); and parseArray2Form, on every HTML form of up to        *)
(* MaxFields fields.  The state is the input under test, a string or a     *)
(* form; it never changes.                                                 *)
(***************************************************************************)
EXTENDS Keyword2Lower, ArrayForm

CONSTANTS
    Alphabet,  \* characters the strings are made of
    MaxLen,    \* longest string checked
    Keyword,   \* a keyword of keyword2Lower, in lower case
    FormVars, FormGroups, FormKeys, FormValues,  \* names and values of fields
    IndexTexts,  \* texts between the first brackets of a grouped field
    MaxFields    \* most fields in a form checked

ASSUME /\ " " \in Alphabet /\ Quote \in Alphabet /\ Digits \subseteq Alphabet
       /\ Fold \in [Alphabet -> Alphabet]
       /\ \A i \in DOMAIN Keyword : Keyword[i] \in Alphabet
       /\ DOMAIN Stoi \subseteq IndexTexts /\ MaxFields \in Nat

Strings == UNION {[1..n -> Alphabet] : n \in 0..MaxLen}

(* A form field as the regular expression of parseArray2Form splits its  *)
(* name, with its value.                                                   *)
Fields ==
    [kind : {"plain"}, var : FormVars, value : FormValues]
    \cup [kind : {"group"}, grp : FormGroups, idx : IndexTexts, key : FormKeys,
          value : FormValues]
Forms == UNION {[1..n -> Fields] : n \in 0..MaxFields}

VARIABLES
    str,   \* the string argument
    form   \* the form argument

Init == \/ str \in Strings /\ form = <<>>
        \/ str = <<>> /\ form \in Forms
Next == UNCHANGED <<str, form>>
Spec == Init /\ [][Next]_<<str, form>>

-----------------------------------------------------------------------------
(* Properties                                                              *)

(* isNumber agrees with the reference on every string, including "" and   *)
(* strings of blanks, for which find_first_not_of returns npos and the    *)
(* code reads s[npos], and signs alone, lone points, "1." and ".1".        *)
AgreesEverywhere == IsNumberResults(str) = {IsNumberRef(str)}

(* keyword2Lower turns every keyword outside the string literals of a     *)
(* JSON body to lower case and changes nothing else outside them: the     *)
(* match loop finds every occurrence, the quote test spares them, and a   *)
(* match at offset 0 (the read of in[-1]) is lowered too.                  *)
LiteralsLowered ==
    (\A o \in 0..Len(str) : Literal(str, Keyword, o) => ~Glued(str, Keyword, o))
        => \A out \in Keyword2LowerResults(str, Keyword) :
               \A i \in DOMAIN str :
                   ~InString(str, i) => out[i] = LoweredRef(str, Keyword)[i]

(* parseArray2Form builds the object the form describes: each group's    *)
(* array lists one object per index used, in ascending index order even  *)
(* when the fields come out of order or skip an index (the slots resize  *)
(* leaves empty are dropped), each key with its last value; a negative   *)
(* or non-numeric index ends the merge with a std::exception, and a group *)
(* named like a plain field with the Poco exception doMergeTo catches.    *)
FormGroupsCompacted == ParseArray2Form(form) = FormJsonRef(form)
=============================================================================
