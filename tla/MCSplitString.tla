--------------------------- MODULE MCSplitString ----------------------------
(***************************************************************************)
(* SplitString for TLC: all texts up to a length, and lists that are empty *)
(* or left over from another call.                                         *)
(***************************************************************************)
EXTENDS SplitString

CONSTANT MaxLength   \* bound: characters of a text

MCStrings == BoundedSeq(Chars, MaxLength)
MCLeftovers == {<<>>, <<[start |-> 0, length |-> 1]>>}
=============================================================================
