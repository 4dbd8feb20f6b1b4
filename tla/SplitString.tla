---------------------------- MODULE SplitString -----------------------------
(***************************************************************************)
(* splitString (http.cpp): one call of it, one action per turn of its      *)
(* loop.  Callers reuse the list of an earlier call, parseUrl even while   *)
(* it takes start and end from that list: they are passed by value, and    *)
(* the list is cleared first.                                              *)
(***************************************************************************)
EXTENDS StringFields

CONSTANTS Chars,
          Strings,    \* bound: the texts
          Leftovers,  \* bound: the lists of earlier calls
          ptrn        \* the separators

Descs == [start : Nat, length : Nat]

ASSUME StringsAssumption == Strings \subseteq Seq(Chars) /\ Leftovers \subseteq Seq(Descs)

VARIABLES str, start, end,   \* the arguments
          list, i, s, pc

vars == <<str, start, end, list, i, s, pc>>

Init ==
    /\ str \in Strings
    /\ end \in 0..Len(str)
    /\ start \in 0..end
    /\ list \in Leftovers
    /\ i = start
    /\ s = start
    /\ pc = "call"

\* if (list.size() > 0) list.clear()
Clear ==
    /\ pc = "call"
    /\ pc' = "scan"
    /\ list' = <<>>
    /\ UNCHANGED <<str, start, end, i, s>>

\* Mutant: empty fields are listed too.
PushFieldAlways == list' = Append(list, [start |-> s, length |-> i - s])

\* if ((i - s) > 0) push_back.  Both are unsigned: the difference is greater
\* than 0 whenever they differ.
PushField ==
    list' = IF i # s THEN Append(list, [start |-> s, length |-> i - s]) ELSE list

\* Mutant: the next field starts at the separator.
SeparatorKept ==
    /\ pc = "scan"
    /\ i < end
    /\ Char(str, i) \in ptrn
    /\ PushField
    /\ s' = i
    /\ i' = i + 1
    /\ UNCHANGED <<str, start, end, pc>>

Separator ==
    /\ pc = "scan"
    /\ i < end
    /\ Char(str, i) \in ptrn
    /\ PushField
    /\ s' = i + 1
    /\ i' = i + 1
    /\ UNCHANGED <<str, start, end, pc>>

Other ==
    /\ pc = "scan"
    /\ i < end
    /\ Char(str, i) \notin ptrn
    /\ i' = i + 1
    /\ UNCHANGED <<str, start, end, list, s, pc>>

\* The last field has no separator behind it.
Return ==
    /\ pc = "scan"
    /\ i >= end
    /\ PushField
    /\ pc' = "done"
    /\ UNCHANGED <<str, start, end, i, s>>

Next == Clear \/ Separator \/ Other \/ Return

Spec == Init /\ [][Next]_vars

-----------------------------------------------------------------------------
TypeOK ==
    /\ str \in Seq(Chars)
    /\ end \in 0..Len(str)
    /\ start \in 0..end
    /\ list \in Seq(Descs)
    /\ i \in Nat
    /\ s \in Nat
    /\ pc \in {"call", "scan", "done"}

Stop(desc) == desc.start + desc.length

\* list holds the fields that lie before limit: nothing else, in order, and
\* no character outside ptrn is missed.
FieldsBefore(limit) ==
    /\ \A k \in 1..Len(list) :
          IsField(str, start, end, ptrn, list[k]) /\ Stop(list[k]) <= limit
    /\ \A k, l \in 1..Len(list) : k < l => Stop(list[k]) <= list[l].start
    /\ \A c \in start..(limit - 1) : Char(str, c) \notin ptrn =>
          \E k \in 1..Len(list) : list[k].start <= c /\ c < Stop(list[k])

\* The loop of splitString: everything before s is done, [s, i) is part of a
\* field, and s never overtakes i, whose unsigned difference would be huge.
SplitInv ==
    /\ TypeOK
    /\ pc = "call" => i = start /\ s = start
    /\ pc = "scan" =>
          /\ start <= s
          /\ s <= i
          /\ i <= end
          /\ s = start \/ Char(str, s - 1) \in ptrn
          /\ \A c \in s..(i - 1) : Char(str, c) \notin ptrn
          /\ FieldsBefore(s)
    /\ pc = "done" => FieldsBefore(end)

\* splitString returns the fields of its piece of text, whatever the list
\* held before.
ReturnsFields == pc = "done" => list = Fields(str, start, end, ptrn)
=============================================================================
