---------------------------- MODULE MC_MergeText ----------------------------
(* Values for checking MergeText with TLC.  The keyword "nu" stands for    *)
(* null, true and false: letters matched ignoring case, and no keyword    *)
(* that overlaps itself.  With libstdc++ a string of up to 15 characters  *)
(* keeps them in the object, after the 8-byte length, and a longer one on *)
(* the heap, after glibc's chunk header: either way the byte before the   *)
(* buffer is the high byte of a size, NUL for any string checked here.     *)
EXTENDS MergeText

MCAlphabet == {" ", "+", "-", "1", ".", Quote, "n", "N", "u", "U"}
MCDigits == {"1"}
MCFold == [c \in MCAlphabet |-> CASE c = "N" -> "n" [] c = "U" -> "u" [] OTHER -> c]
MCKeyword == <<"n", "u">>
MCBeforeBuffer == {Nul}

(* Forms: a plain field may share its name with the group; "2" without    *)
(* "0" leaves a hole in the vector; "-1" and "" are indices stoi returns  *)
(* a negative for and throws on.                                           *)
MCFormVars == {"g", "p"}
MCFormGroups == {"g"}
MCFormKeys == {"k1", "k2"}
MCFormValues == {"a", "b"}
MCIndexTexts == {"0", "2", "-1", ""}
MCStoi == [t \in {"0", "2", "-1"} |-> CASE t = "0" -> 0 [] t = "2" -> 2 [] OTHER -> -1]
=============================================================================
