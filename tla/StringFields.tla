---------------------------- MODULE StringFields ----------------------------
(***************************************************************************)
(* What splitString (http.cpp) is to return: the fields of a piece of text *)
(* between separators, as StringDesc_t records.  Offsets count from 0, as  *)
(* in the source.                                                          *)
(***************************************************************************)
EXTENDS Integers, SequencesExt

Char(str, k) == str[k + 1]

\* desc is a longest run of characters of [start, end) outside ptrn.
IsField(str, start, end, ptrn, desc) ==
    LET stop == desc.start + desc.length
    IN  /\ desc.length > 0
        /\ start <= desc.start
        /\ stop <= end
        /\ \A k \in desc.start..(stop - 1) : Char(str, k) \notin ptrn
        /\ desc.start = start \/ Char(str, desc.start - 1) \in ptrn
        /\ stop = end \/ Char(str, stop) \in ptrn

FieldSet(str, start, end, ptrn) ==
    {d \in [start : start..end, length : 1..(end - start)] : IsField(str, start, end, ptrn, d)}

\* How many of the fields lie in front of d.
Rank(fields, d) == Cardinality({e \in fields : e.start < d.start})

\* All fields, from left to right.
Fields(str, start, end, ptrn) ==
    LET fields == FieldSet(str, start, end, ptrn)
    IN  [k \in 1..Cardinality(fields) |-> CHOOSE d \in fields : Rank(fields, d) = k - 1]

\* copyString: the text of a field.
Text(str, desc) == SubSeq(str, desc.start + 1, desc.start + desc.length)
=============================================================================
