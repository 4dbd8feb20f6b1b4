------------------------- MODULE SplitStringProofs --------------------------
(***************************************************************************)
(* splitString returns the fields of any text, for any set of separators.  *)
(***************************************************************************)
EXTENDS SplitString, FiniteSetTheorems, SequenceTheorems, TLAPS

\* What PushField leaves in the list when [s, i) is a field up to the limit,
\* or empty.
LEMMA PushFacts ==
    ASSUME SplitInv, pc = "scan", PushField, UNCHANGED <<str, start, end>>,
           NEW limit \in Int, i <= limit, limit <= i + 1,
           i = end \/ Char(str, i) \in ptrn,
           limit = i \/ Char(str, i) \in ptrn
    PROVE  /\ list' \in Seq(Descs)
           /\ FieldsBefore(limit)'
<1>0. /\ TypeOK /\ start \in Nat /\ end \in Nat /\ s \in Nat /\ i \in Nat /\ Len(list) \in Nat
      /\ start <= s /\ s <= i /\ i <= end
      /\ s = start \/ Char(str, s - 1) \in ptrn
      /\ \A c \in s..(i - 1) : Char(str, c) \notin ptrn
      /\ FieldsBefore(s)
  BY DEF SplitInv, TypeOK
<1>t. \A k \in 1..Len(list) : list[k] \in Descs /\ list[k].start \in Nat /\ list[k].length \in Nat
  <2> SUFFICES ASSUME NEW k \in 1..Len(list)
               PROVE  list[k] \in Descs /\ list[k].start \in Nat /\ list[k].length \in Nat
    OBVIOUS
  <2>1. list[k] \in Descs
    BY <1>0, ElementOfSeq DEF TypeOK
  <2> QED
    BY <2>1 DEF Descs
<1>1. CASE i = s
  <2>1. list' = list
    BY <1>1 DEF PushField
  <2>2. \A k \in 1..Len(list) :
           IsField(str, start, end, ptrn, list[k]) /\ Stop(list[k]) <= limit
    BY <1>0, <1>1, <1>t DEF FieldsBefore, Stop
  <2>3. \A c \in start..(limit - 1) : Char(str, c) \notin ptrn =>
           \E k \in 1..Len(list) : list[k].start <= c /\ c < Stop(list[k])
    <3> SUFFICES ASSUME NEW c \in start..(limit - 1), Char(str, c) \notin ptrn
                 PROVE  \E k \in 1..Len(list) : list[k].start <= c /\ c < Stop(list[k])
      OBVIOUS
    <3>1. c # i
      BY <1>0
    <3>2. c \in start..(s - 1)
      BY <1>0, <1>1, <3>1
    <3> QED
      BY <1>0, <3>2 DEF FieldsBefore
  <2> QED
    BY <1>0, <2>1, <2>2, <2>3 DEF FieldsBefore, TypeOK, Stop, IsField, Char
<1>2. CASE i # s
  <2> DEFINE desc == [start |-> s, length |-> i - s]
  <2>0. i - s \in Nat /\ i - s > 0
    BY <1>0, <1>2
  <2>1. desc \in Descs /\ desc.start = s /\ desc.length = i - s /\ Stop(desc) = i
    BY <1>0, <2>0 DEF Descs, Stop
  <2>2. list' = Append(list, desc)
    BY <1>2 DEF PushField
  <2>3. IsField(str, start, end, ptrn, desc)
    BY <1>0, <2>0, <2>1 DEF IsField, Stop
  <2> HIDE DEF desc
  <2>4. /\ list' \in Seq(Descs)
        /\ Len(list') = Len(list) + 1
        /\ \A k \in 1..Len(list) : list'[k] = list[k]
        /\ list'[Len(list) + 1] = desc
    BY <1>0, <2>1, <2>2, AppendProperties DEF TypeOK
  <2>5. \A k \in 1..Len(list') : k \in 1..Len(list) \/ k = Len(list) + 1
    BY <1>0, <2>4
  <2>6. \A k \in 1..Len(list') :
           IsField(str, start, end, ptrn, list'[k]) /\ Stop(list'[k]) <= limit
    <3> SUFFICES ASSUME NEW k \in 1..Len(list')
                 PROVE  IsField(str, start, end, ptrn, list'[k]) /\ Stop(list'[k]) <= limit
      OBVIOUS
    <3>1. CASE k \in 1..Len(list)
      <4>1. list'[k] = list[k] /\ Stop(list[k]) \in Int
        BY <1>t, <2>4, <3>1 DEF Stop
      <4>2. IsField(str, start, end, ptrn, list[k]) /\ Stop(list[k]) <= s
        BY <1>0, <3>1 DEF FieldsBefore
      <4> QED
        BY <1>0, <4>1, <4>2
    <3>2. CASE k = Len(list) + 1
      BY <2>1, <2>3, <2>4, <3>2
    <3> QED
      BY <2>5, <3>1, <3>2
  <2>7. \A k, l \in 1..Len(list') : k < l => Stop(list'[k]) <= list'[l].start
    <3> SUFFICES ASSUME NEW k \in 1..Len(list'), NEW l \in 1..Len(list'), k < l
                 PROVE  Stop(list'[k]) <= list'[l].start
      OBVIOUS
    <3>1. k \in 1..Len(list) /\ list'[k] = list[k]
      BY <1>0, <2>4, <2>5
    <3>2. CASE l \in 1..Len(list)
      BY <1>0, <2>4, <3>1, <3>2 DEF FieldsBefore
    <3>3. CASE l = Len(list) + 1
      BY <1>0, <2>1, <2>4, <3>1, <3>3 DEF FieldsBefore
    <3> QED
      BY <2>5, <3>2, <3>3
  <2>8. \A c \in start..(limit - 1) : Char(str, c) \notin ptrn =>
           \E k \in 1..Len(list') : list'[k].start <= c /\ c < Stop(list'[k])
    <3> SUFFICES ASSUME NEW c \in start..(limit - 1), Char(str, c) \notin ptrn
                 PROVE  \E k \in 1..Len(list') : list'[k].start <= c /\ c < Stop(list'[k])
      OBVIOUS
    <3>1. c # i \/ (i = end /\ limit = i)
      BY <1>0
    <3>2. c \in Int /\ c < i
      BY <1>0, <3>1
    <3>3. CASE c < s
      <4>1. c \in start..(s - 1)
        BY <1>0, <3>2, <3>3
      <4>2. PICK k \in 1..Len(list) : list[k].start <= c /\ c < Stop(list[k])
        BY <1>0, <4>1 DEF FieldsBefore
      <4> QED
        BY <1>0, <2>4, <4>2
    <3>4. CASE s <= c
      <4>1. Len(list) + 1 \in 1..Len(list')
        BY <1>0, <2>4
      <4> QED
        BY <2>1, <2>4, <3>2, <3>4, <4>1
    <3> QED
      BY <1>0, <3>2, <3>3, <3>4
  <2> QED
    BY <2>4, <2>6, <2>7, <2>8 DEF FieldsBefore, IsField, Char, Stop
<1> QED
  BY <1>1, <1>2

\* Every turn of the loop keeps the invariant.
LEMMA StepInv == SplitInv /\ [Next]_vars => SplitInv'
<1> SUFFICES ASSUME SplitInv, [Next]_vars PROVE SplitInv'
  OBVIOUS
<1>0. TypeOK /\ start \in Nat /\ end \in Nat /\ start <= end /\ end <= Len(str) /\ Len(str) \in Nat
  BY DEF SplitInv, TypeOK
<1>1. CASE Clear
  <2>1. list' = <<>> /\ Len(list') = 0 /\ list' \in Seq(Descs)
    BY <1>1, EmptySeq DEF Clear
  <2>2. FieldsBefore(start)'
    BY <1>0, <1>1, <2>1 DEF Clear, FieldsBefore
  <2> QED
    BY <1>0, <1>1, <2>1, <2>2 DEF Clear, SplitInv, TypeOK, FieldsBefore
<1>2. CASE Separator
  <2>0. i \in Nat
    BY <1>0 DEF TypeOK
  <2>1. PICK n \in Int : n = i + 1
    BY <2>0
  <2>2. list' \in Seq(Descs) /\ FieldsBefore(n)'
    BY <1>2, <2>0, <2>1, PushFacts DEF Separator
  <2>3. FieldsBefore(s)'
    BY <1>2, <2>1, <2>2 DEF Separator, FieldsBefore
  <2>4. TypeOK'
    BY <1>0, <1>2, <2>0, <2>2 DEF Separator, TypeOK
  <2>5. start' <= s' /\ s' <= i' /\ i' <= end'
    <3>1. start <= s /\ s <= i /\ s \in Nat /\ i < end
      BY <1>0, <1>2 DEF Separator, SplitInv, TypeOK
    <3> QED
      BY <1>0, <1>2, <2>0, <3>1 DEF Separator
  <2>6. Char(str, s - 1)' \in ptrn /\ s' - 1 = i
    BY <1>2, <2>0 DEF Separator, Char
  <2>7. s'..(i' - 1) = {}
    BY <1>2, <2>0 DEF Separator
  <2> QED
    BY <1>2, <2>3, <2>4, <2>5, <2>6, <2>7 DEF Separator, SplitInv
<1>3. CASE Other
  <2>1. FieldsBefore(s)' /\ pc = "scan"
    BY <1>3 DEF Other, SplitInv, FieldsBefore
  <2> QED
    BY <1>0, <1>3, <2>1 DEF Other, SplitInv, TypeOK, FieldsBefore, Char
<1>4. CASE Return
  <2>1. pc = "scan" /\ i \in Nat /\ i = end
    BY <1>0, <1>4 DEF Return, SplitInv, TypeOK
  <2>2. PICK n \in Int : n = i
    BY <2>1
  <2>3. list' \in Seq(Descs) /\ FieldsBefore(n)'
    BY <1>4, <2>1, <2>2, PushFacts DEF Return
  <2>4. FieldsBefore(end)'
    BY <1>4, <2>1, <2>2, <2>3 DEF Return, FieldsBefore
  <2> QED
    BY <1>0, <1>4, <2>1, <2>3, <2>4 DEF Return, SplitInv, TypeOK
<1>5. CASE UNCHANGED vars
  BY <1>5 DEF vars, SplitInv, TypeOK, FieldsBefore
<1> QED
  BY <1>1, <1>2, <1>3, <1>4, <1>5 DEF Next

\* splitString of http.cpp never leaves the invariant of its loop, so it
\* returns exactly the fields, in order, and s never overtakes i.
THEOREM SplitStringCorrect == Spec => []SplitInv
<1>1. Init => SplitInv
  BY StringsAssumption DEF Init, SplitInv, TypeOK
<1> QED
  BY <1>1, StepInv, PTL DEF Spec

\* Two fields of a piece of text that share a character are the same.
LEMMA FieldsDisjoint ==
    ASSUME TypeOK, NEW d \in Descs, NEW e \in Descs,
           IsField(str, start, end, ptrn, d), IsField(str, start, end, ptrn, e),
           d.start <= e.start, e.start < Stop(d)
    PROVE  d = e
<1>1. /\ d.start \in Nat /\ d.length \in Nat /\ e.start \in Nat /\ e.length \in Nat
      /\ d = [start |-> d.start, length |-> d.length]
      /\ e = [start |-> e.start, length |-> e.length]
  BY DEF Descs
<1>2. /\ \A k \in d.start..(d.start + d.length - 1) : Char(str, k) \notin ptrn
      /\ \A k \in e.start..(e.start + e.length - 1) : Char(str, k) \notin ptrn
  BY <1>1 DEF IsField
<1>3. d.start = e.start
  <2> SUFFICES ASSUME d.start < e.start PROVE FALSE
    BY <1>1
  <2>1. start \in Nat /\ start <= d.start
    BY DEF TypeOK, IsField
  <2>2. Char(str, e.start - 1) \in ptrn
    BY <1>1, <2>1 DEF IsField
  <2>3. e.start - 1 \in d.start..(d.start + d.length - 1)
    BY <1>1 DEF Stop
  <2> QED
    BY <1>2, <2>2, <2>3
<1>4. Stop(d) \in Int /\ Stop(e) \in Int /\ end \in Int
  BY <1>1 DEF Stop, TypeOK
<1>5. ASSUME Stop(d) < Stop(e) PROVE FALSE
  <2>1. Stop(d) # end /\ Char(str, Stop(d)) \in ptrn
    BY <1>4, <1>5 DEF IsField, Stop
  <2>2. Stop(d) \in e.start..(e.start + e.length - 1)
    BY <1>1, <1>5 DEF Stop
  <2> QED
    BY <1>2, <2>1, <2>2
<1>6. ASSUME Stop(e) < Stop(d) PROVE FALSE
  <2>1. Stop(e) # end /\ Char(str, Stop(e)) \in ptrn
    BY <1>4, <1>6 DEF IsField, Stop
  <2>2. Stop(e) \in d.start..(d.start + d.length - 1)
    BY <1>1, <1>3, <1>6 DEF Stop, IsField
  <2> QED
    BY <1>2, <2>1, <2>2
<1>7. Stop(d) = Stop(e)
  BY <1>4, <1>5, <1>6
<1> QED
  BY <1>1, <1>3, <1>7 DEF Stop

\* A list that has what the loop leaves when it is over is the list of fields:
\* it numbers them from left to right.
LEMMA ListIsFields ==
    ASSUME TypeOK, FieldsBefore(end)
    PROVE  list = Fields(str, start, end, ptrn)
<1> DEFINE S == FieldSet(str, start, end, ptrn)
           n == Len(list)
<1>1. /\ n \in Nat /\ list \in [1..n -> Descs]
      /\ start \in Nat /\ end \in Nat /\ end <= Len(str)
  BY LenProperties DEF TypeOK
<1>2. \A d \in S : d \in Descs /\ IsField(str, start, end, ptrn, d)
  BY <1>1 DEF FieldSet, Descs
<1>3. \A k \in 1..n : list[k] \in S
  <2> SUFFICES ASSUME NEW k \in 1..n PROVE list[k] \in S
    OBVIOUS
  <2>1. list[k] \in Descs /\ IsField(str, start, end, ptrn, list[k])
    BY <1>1 DEF FieldsBefore
  <2>2. list[k].start \in start..end /\ list[k].length \in 1..(end - start)
    BY <1>1, <2>1 DEF Descs, IsField
  <2> QED
    BY <2>1, <2>2 DEF FieldSet, Descs
<1>4. \A k, l \in 1..n : k < l => list[k].start < list[l].start
  <2> SUFFICES ASSUME NEW k \in 1..n, NEW l \in 1..n, k < l
               PROVE  list[k].start < list[l].start
    OBVIOUS
  <2>1. list[k] \in Descs /\ list[l] \in Descs /\ IsField(str, start, end, ptrn, list[k])
    BY <1>1 DEF FieldsBefore
  <2>2. Stop(list[k]) <= list[l].start
    BY DEF FieldsBefore
  <2> QED
    BY <2>1, <2>2 DEF Descs, IsField, Stop
<1>5. \A d \in S : \E k \in 1..n : list[k] = d
  <2> SUFFICES ASSUME NEW d \in S PROVE \E k \in 1..n : list[k] = d
    OBVIOUS
  <2>1. d \in Descs /\ IsField(str, start, end, ptrn, d)
    BY <1>2
  <2>2. d.start \in start..(end - 1) /\ Char(str, d.start) \notin ptrn
    BY <1>1, <2>1 DEF Descs, IsField
  <2>3. PICK k \in 1..n : list[k].start <= d.start /\ d.start < Stop(list[k])
    BY <2>2 DEF FieldsBefore
  <2>4. list[k] \in Descs /\ IsField(str, start, end, ptrn, list[k])
    BY <1>1 DEF FieldsBefore
  <2> QED
    BY <2>1, <2>3, <2>4, FieldsDisjoint
<1>6. Cardinality(S) = n
  <2>1. \A k, l \in 1..n : list[k] = list[l] => k = l
    <3> SUFFICES ASSUME NEW k \in 1..n, NEW l \in 1..n, list[k] = list[l] PROVE k = l
      OBVIOUS
    <3>1. list[k] \in Descs
      BY <1>1
    <3> QED
      BY <1>4, <3>1 DEF Descs
  <2>2. list \in [1..n -> S]
    BY <1>1, <1>3
  <2>3. list \in Bijection(1..n, S)
    BY <1>5, <2>1, <2>2 DEF Bijection, Injection, Surjection, IsInjective
  <2> QED
    BY <1>1, <2>3, FS_CountingElements DEF ExistsBijection
<1>7. \A k \in 1..n : Rank(S, list[k]) = k - 1
  <2> SUFFICES ASSUME NEW k \in 1..n PROVE Rank(S, list[k]) = k - 1
    OBVIOUS
  <2> DEFINE before == {e \in S : e.start < list[k].start}
             f == [j \in 1..(k - 1) |-> list[j]]
  <2>1. \A j \in 1..n : list[j] \in Descs /\ list[j].start \in Nat
    BY <1>1 DEF Descs
  <2>2. \A j \in 1..n : list[j] \in before <=> j < k
    BY <1>3, <1>4, <2>1
  <2>3. f \in [1..(k - 1) -> before]
    BY <2>2
  <2>4. \A j, l \in 1..(k - 1) : f[j] = f[l] => j = l
    BY <1>4, <2>1
  <2>5. \A e \in before : \E j \in 1..(k - 1) : f[j] = e
    BY <1>5, <2>2
  <2> HIDE DEF before, f
  <2>6. f \in Bijection(1..(k - 1), before)
    BY <2>3, <2>4, <2>5 DEF Bijection, Injection, Surjection, IsInjective
  <2>7. Cardinality(before) = k - 1
    BY <2>6, FS_CountingElements DEF ExistsBijection
  <2> QED
    BY <2>7 DEF Rank, before
<1>8. \A k \in 1..n : (CHOOSE d \in S : Rank(S, d) = k - 1) = list[k]
  <2> SUFFICES ASSUME NEW k \in 1..n
               PROVE  (CHOOSE d \in S : Rank(S, d) = k - 1) = list[k]
    OBVIOUS
  <2>1. \A d \in S : Rank(S, d) = k - 1 => d = list[k]
    BY <1>5, <1>7
  <2> QED
    BY <1>3, <1>7, <2>1
<1> HIDE DEF S
<1>9. list = [k \in 1..n |-> CHOOSE d \in S : Rank(S, d) = k - 1]
  BY <1>1, <1>8
<1> QED
  BY <1>6, <1>9 DEF Fields, S

\* splitString returns the fields of its piece of text, from left to right,
\* whatever the list held before.
THEOREM SplitStringReturns == Spec => []ReturnsFields
<1>1. SplitInv => ReturnsFields
  BY ListIsFields DEF SplitInv, ReturnsFields
<1> QED
  BY <1>1, SplitStringCorrect, PTL
=============================================================================
