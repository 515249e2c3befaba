------------------------------ MODULE ArrayForm ------------------------------
(***************************************************************************)
(* MergeODF::parseArray2Form (DocumentBroker.cpp 3550-3632), which        *)
(* doMergeTo applies to a POSTed HTML form: a field named grp[n][key] is  *)
(* collected into grpNames[grp], a vector grown to n + 1 slots, as        *)
(* slot n's key; any other field is set in formJson as it is.  A second   *)
(* loop appends every non-empty slot of each group, in slot order, to an  *)
(* array formJson[grp].  A field is what the regular expression makes of *)
(* its name: a plain field, or a grouped one with the three bracket-free  *)
(* sub-matches grp, n and key; n is std::stoi of the middle one.  An      *)
(* exception leaves the function: std::invalid_argument from stoi or     *)
(* std::out_of_range from at() escapes doMergeTo's                        *)
(* catch (Poco::Exception&) to handleMergeTo's merge error; a             *)
(* Poco::NullPointerException, from getArray of a name already set to a   *)
(* plain value, is caught there and leaves the object null.                *)
(***************************************************************************)
EXTENDS Integers, Sequences
LOCAL INSTANCE SequencesExt   \* FoldLeft, SetToSortSeq
LOCAL INSTANCE TLC            \* :> and @@

CONSTANT Stoi   \* index text -> std::stoi of it, for the texts stoi parses

Escaped == "std::exception"    \* reaches handleMergeTo: 503 merge error
Caught  == "Poco::Exception"   \* caught in doMergeTo, object stays null
NoError == "none"

Plain(f) == f.kind = "plain"

(* First loop, for one field.  A negative n gives (unsigned)(n + 1) = 0   *)
(* for -1, so no resize, and at(n) throws; a smaller n asks resize for    *)
(* more than max_size().  Either throws a std::exception.                  *)
CollectField(acc, f) ==
    IF acc.err # NoError THEN acc
    ELSE IF Plain(f) THEN [acc EXCEPT !.json = (f.var :> f.value) @@ @]
    ELSE IF f.idx \notin DOMAIN Stoi \/ Stoi[f.idx] < 0
      THEN [acc EXCEPT !.err = Escaped]
    ELSE LET n    == Stoi[f.idx]
             v    == IF f.grp \in DOMAIN acc.grp THEN acc.grp[f.grp] ELSE <<>>
             grow == IF Len(v) < n + 1
                       THEN v \o [j \in 1..(n + 1 - Len(v)) |-> <<>>] ELSE v
             slot == [grow EXCEPT ![n + 1] = (f.key :> f.value) @@ @]
         IN  [acc EXCEPT !.grp = (f.grp :> slot) @@ @]

NonEmpty(m) == DOMAIN m # {}

(* Mutant: the array also gets the empty slots that resize left.          *)
EmitGroupsKeepingEmpty(acc) ==
    IF \E g \in DOMAIN acc.grp : g \in DOMAIN acc.json
      THEN [err |-> Caught, json |-> <<>>]
      ELSE [err |-> NoError,
            json |-> [g \in DOMAIN acc.grp |-> acc.grp[g]] @@ acc.json]

(* Second loop: every non-empty slot, in order, is added to the array of  *)
(* its group; the array is created unless formJson has the name, and a    *)
(* plain value under that name makes getArray return null.                *)
EmitGroups(acc) ==
    IF \E g \in DOMAIN acc.grp : g \in DOMAIN acc.json
      THEN [err |-> Caught, json |-> <<>>]
      ELSE [err |-> NoError,
            json |-> [g \in DOMAIN acc.grp |-> SelectSeq(acc.grp[g], NonEmpty)]
                     @@ acc.json]

(* parseArray2Form(form): the error it throws, or formJson.               *)
ParseArray2Form(form) ==
    LET acc == FoldLeft(CollectField, [json |-> <<>>, grp |-> <<>>, err |-> NoError], form)
    IN  IF acc.err # NoError THEN [err |-> acc.err, json |-> <<>>] ELSE EmitGroups(acc)

-----------------------------------------------------------------------------
(* Reference: the object the form describes.  grp[n][key] rows become an  *)
(* array of grp in ascending n, one object per n that occurs, each key    *)
(* with the value of its last field; a plain name has its last value.  An *)
(* index that is not a natural number, or a group named like a plain      *)
(* field, has no such object.                                              *)

LastOf(form, S) == form[CHOOSE i \in S : \A j \in S : j <= i].value
GroupRows(form, g) == {i \in DOMAIN form : ~Plain(form[i]) /\ form[i].grp = g}
PlainRows(form, x) == {i \in DOMAIN form : Plain(form[i]) /\ form[i].var = x}
Groups(form) == {form[i].grp : i \in {i \in DOMAIN form : ~Plain(form[i])}}
Vars(form) == {form[i].var : i \in {i \in DOMAIN form : Plain(form[i])}}

BadIndex(form) ==
    \E i \in DOMAIN form : ~Plain(form[i])
                           /\ (form[i].idx \notin DOMAIN Stoi \/ Stoi[form[i].idx] < 0)

Row(form, g, n) ==
    LET rs == {i \in GroupRows(form, g) : Stoi[form[i].idx] = n}
    IN  [k \in {form[i].key : i \in rs} |-> LastOf(form, {i \in rs : form[i].key = k})]

GroupArray(form, g) ==
    LET ns == SetToSortSeq({Stoi[form[i].idx] : i \in GroupRows(form, g)}, <)
    IN  [j \in DOMAIN ns |-> Row(form, g, ns[j])]

FormJsonRef(form) ==
    IF BadIndex(form) THEN [err |-> Escaped, json |-> <<>>]
    ELSE IF Groups(form) \cap Vars(form) # {} THEN [err |-> Caught, json |-> <<>>]
    ELSE [err |-> NoError,
          json |-> [x \in Groups(form) \cup Vars(form) |->
                      IF x \in Groups(form) THEN GroupArray(form, x)
                      ELSE LastOf(form, PlainRows(form, x))]]
=============================================================================
