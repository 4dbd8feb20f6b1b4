------------------------- MODULE HttpMessageProofs --------------------------
(***************************************************************************)
(* parseHttpMessage finds the header, the peer id and the command of any   *)
(* text, whatever its length.                                              *)
(***************************************************************************)
EXTENDS HttpMessage, FiniteSetTheorems, SequenceTheorems, TLAPS

-----------------------------------------------------------------------------
(***************************************************************************)
(* Least and greatest elements.                                            *)
(***************************************************************************)
LEMMA LeastNat ==
    ASSUME NEW S \in SUBSET Nat, S # {}
    PROVE  \E x \in S : \A y \in S : x <= y
<1>1. PICK x \in S : \A y \in S : ~(<<y, x>> \in OpToRel(<, Nat))
    BY NatLessThanWellFounded, WFMin
<1>2. ASSUME NEW y \in S PROVE x <= y
    <2>1. x \in Nat /\ y \in Nat
        OBVIOUS
    <2>2. ASSUME y < x PROVE <<y, x>> \in OpToRel(<, Nat)
        BY <2>1, <2>2 DEF OpToRel
    <2>3. ~(y < x)
        BY <1>1, <2>2, Zenon
    <2>. QED
        BY <2>1, <2>3
<1>. QED
    BY <1>2

LEMMA MinOfNats ==
    ASSUME NEW S \in SUBSET Nat, S # {}
    PROVE  Min(S) \in S /\ \A y \in S : Min(S) <= y
BY LeastNat DEF Min

LEMMA MinIs ==
    ASSUME NEW S \in SUBSET Int, NEW x \in S, \A y \in S : x <= y
    PROVE  Min(S) = x
<1>1. \A z \in S : (\A y \in S : z <= y) => z = x
    OBVIOUS
<1>. QED
    BY <1>1 DEF Min

LEMMA MaxOfBounded ==
    ASSUME NEW n \in Nat, NEW S \in SUBSET 0..n, S # {}
    PROVE  Max(S) \in S /\ \A y \in S : Max(S) >= y
<1>. DEFINE T == {n - y : y \in S}
<1>1. \A y \in S : n - y \in Nat
    OBVIOUS
<1>2. PICK z \in T : \A y \in T : z <= y
    <2>1. T \in SUBSET Nat /\ T # {}
        BY <1>1
    <2>. HIDE DEF T
    <2>. QED
        BY <2>1, LeastNat
<1>3. PICK x \in S : z = n - x
    OBVIOUS
<1>4. \A y \in S : x >= y
    BY <1>2, <1>3
<1>. QED
    BY <1>4 DEF Max

-----------------------------------------------------------------------------
(***************************************************************************)
(* The fields of a piece of text.                                          *)
(***************************************************************************)

\* What it means to be a field, with the types the provers need.
LEMMA FieldFacts ==
    ASSUME NEW str, NEW start \in Nat, NEW end \in Nat, NEW ptrn,
           NEW d \in FieldSet(str, start, end, ptrn)
    PROVE  /\ d.start \in Nat /\ d.length \in Nat /\ d.length > 0
           /\ d = [start |-> d.start, length |-> d.length]
           /\ start <= d.start /\ d.start + d.length <= end
           /\ \A k \in d.start..(d.start + d.length - 1) : Char(str, k) \notin ptrn
           /\ d.start = start \/ Char(str, d.start - 1) \in ptrn
           /\ d.start + d.length = end \/ Char(str, d.start + d.length) \in ptrn
BY DEF FieldSet, IsField

LEMMA FieldsFinite ==
    ASSUME NEW str, NEW start \in Nat, NEW end \in Nat, NEW ptrn
    PROVE  IsFiniteSet(FieldSet(str, start, end, ptrn))
<1>. DEFINE S == FieldSet(str, start, end, ptrn)
            T == (start..end) \X (1..(end - start))
            f == [d \in S |-> <<d.start, d.length>>]
<1>1. IsFiniteSet(T)
    <2>1. IsFiniteSet(start..end) /\ IsFiniteSet(1..(end - start))
        BY FS_Interval
    <2>. QED
        BY <2>1, FS_Product
<1>2. f \in [S -> T]
    BY DEF FieldSet
<1>3. \A d, e \in S : f[d] = f[e] => d = e
    BY DEF FieldSet
<1>. HIDE DEF S, T, f
<1>4. f \in Injection(S, T)
    BY <1>2, <1>3 DEF Injection, IsInjective
<1>. QED
    BY <1>1, <1>4, FS_Injection DEF S

\* No two fields start at the same place.
LEMMA FieldsDiffer ==
    ASSUME NEW str, NEW start \in Nat, NEW end \in Nat, NEW ptrn,
           NEW d \in FieldSet(str, start, end, ptrn), NEW e \in FieldSet(str, start, end, ptrn),
           d.start = e.start
    PROVE  d = e
<1>1. /\ d.start \in Nat /\ d.length \in Nat /\ d.length > 0 /\ d.start + d.length <= end
      /\ d = [start |-> d.start, length |-> d.length]
      /\ \A k \in d.start..(d.start + d.length - 1) : Char(str, k) \notin ptrn
      /\ d.start + d.length = end \/ Char(str, d.start + d.length) \in ptrn
    BY DEF FieldSet, IsField
<1>2. /\ e.start \in Nat /\ e.length \in Nat /\ e.length > 0 /\ e.start + e.length <= end
      /\ e = [start |-> e.start, length |-> e.length]
      /\ \A k \in e.start..(e.start + e.length - 1) : Char(str, k) \notin ptrn
      /\ e.start + e.length = end \/ Char(str, e.start + e.length) \in ptrn
    BY DEF FieldSet, IsField
<1>3. ASSUME d.length < e.length PROVE FALSE
    <2>1. d.start + d.length \in e.start..(e.start + e.length - 1) /\ d.start + d.length # end
        BY <1>1, <1>2, <1>3
    <2>. QED
        BY <1>1, <1>2, <2>1
<1>4. ASSUME e.length < d.length PROVE FALSE
    <2>1. e.start + e.length \in d.start..(d.start + d.length - 1) /\ e.start + e.length # end
        BY <1>1, <1>2, <1>4
    <2>. QED
        BY <1>1, <1>2, <2>1
<1>. QED
    BY <1>1, <1>2, <1>3, <1>4

\* Every number from 0 on is the rank of a field, so Fields lists fields.
LEMMA FieldsListed ==
    ASSUME NEW str, NEW start \in Nat, NEW end \in Nat, NEW ptrn
    PROVE  LET S == FieldSet(str, start, end, ptrn)
               L == Fields(str, start, end, ptrn)
           IN  /\ Cardinality(S) \in Nat
               /\ L \in Seq(S) /\ Len(L) = Cardinality(S)
               /\ \A k \in 1..Len(L) : L[k] \in S /\ Rank(S, L[k]) = k - 1
<1>. DEFINE S == FieldSet(str, start, end, ptrn)
            L == Fields(str, start, end, ptrn)
            n == Cardinality(S)
            Before(d) == {e \in S : e.start < d.start}
            f == [d \in S |-> Rank(S, d)]
<1>1. IsFiniteSet(S) /\ n \in Nat
    BY FieldsFinite, FS_CardinalityType
<1>2. \A d \in S : d.start \in Nat
    BY FieldFacts
<1>3. \A d, e \in S : d.start = e.start => d = e
    BY FieldsDiffer
<1>. HIDE DEF S
<1>4. /\ \A d \in S : IsFiniteSet(Before(d)) /\ Rank(S, d) = Cardinality(Before(d))
      /\ \A d \in S : Rank(S, d) \in 0..(n - 1) /\ Rank(S, d) \in Nat
    <2>. SUFFICES ASSUME NEW d \in S
                  PROVE  /\ IsFiniteSet(Before(d)) /\ Rank(S, d) = Cardinality(Before(d))
                         /\ Rank(S, d) \in 0..(n - 1) /\ Rank(S, d) \in Nat
        OBVIOUS
    <2>1. Before(d) \in SUBSET S /\ d \notin Before(d)
        BY <1>2
    <2>2. IsFiniteSet(Before(d)) /\ Cardinality(Before(d)) <= n /\ Cardinality(Before(d)) # n
        BY <1>1, <2>1, FS_Subset
    <2>3. Cardinality(Before(d)) \in Nat
        BY <2>2, FS_CardinalityType
    <2>. QED
        BY <1>1, <2>2, <2>3 DEF Rank
<1>5. \A d, e \in S : d.start < e.start => Rank(S, d) < Rank(S, e)
    <2>. SUFFICES ASSUME NEW d \in S, NEW e \in S, d.start < e.start
                  PROVE  Rank(S, d) < Rank(S, e)
        OBVIOUS
    <2>1. Before(d) \in SUBSET Before(e) /\ d \in Before(e) /\ d \notin Before(d)
        BY <1>2
    <2>2. IsFiniteSet(Before(e)) /\ Rank(S, d) = Cardinality(Before(d)) /\ Rank(S, e) = Cardinality(Before(e))
        BY <1>4
    <2>3. Rank(S, d) \in Nat /\ Rank(S, e) \in Nat
        BY <1>4
    <2>4. Rank(S, d) <= Rank(S, e) /\ Rank(S, d) # Rank(S, e)
        <3>. HIDE DEF Before
        <3>. QED
            BY <2>1, <2>2, FS_Subset
    <2>. QED
        BY <2>3, <2>4
<1>6. f \in Injection(S, 0..(n - 1))
    <2>1. \A d, e \in S : Rank(S, d) = Rank(S, e) => d = e
        <3>. SUFFICES ASSUME NEW d \in S, NEW e \in S, Rank(S, d) = Rank(S, e) PROVE d = e
            OBVIOUS
        <3>1. Rank(S, d) \in Nat /\ d.start \in Nat /\ e.start \in Nat
            BY <1>2, <1>4
        <3>2. ~(d.start < e.start) /\ ~(e.start < d.start)
            BY <1>5, <3>1
        <3>. QED
            BY <1>3, <3>1, <3>2
    <2>2. f \in [S -> 0..(n - 1)] /\ \A d, e \in S : f[d] = f[e] => d = e
        BY <1>4, <2>1
    <2>. HIDE DEF f, n
    <2>. QED
        BY <2>2 DEF Injection, IsInjective
<1>7. IsFiniteSet(0..(n - 1)) /\ Cardinality(0..(n - 1)) = n
    BY <1>1, FS_Interval
<1>8. f \in Surjection(S, 0..(n - 1))
    <2>. HIDE DEF f
    <2>. QED
        BY <1>6, <1>7, FS_Injection
<1>9. \A k \in 1..n : \E d \in S : Rank(S, d) = k - 1
    <2>. SUFFICES ASSUME NEW k \in 1..n PROVE \E d \in S : Rank(S, d) = k - 1
        OBVIOUS
    <2>1. k - 1 \in 0..(n - 1)
        BY <1>1
    <2>2. \A t \in 0..(n - 1) : \E d \in S : f[d] = t
        <3>. HIDE DEF f, n
        <3>. QED
            BY <1>8 DEF Surjection
    <2>. QED
        BY <2>1, <2>2
<1>10. L = [k \in 1..n |-> CHOOSE d \in S : Rank(S, d) = k - 1]
    BY DEF Fields, S
<1>11. \A k \in 1..n : L[k] \in S /\ Rank(S, L[k]) = k - 1
    BY <1>9, <1>10
<1>. HIDE DEF L, n
<1>12. L \in Seq(S) /\ Len(L) = n
    <2>1. L \in [1..n -> S]
        BY <1>10, <1>11
    <2>. QED
        BY <1>1, <2>1
<1>. QED
    BY <1>1, <1>11, <1>12 DEF S, L, n

LEMMA FieldsEmpty ==
    ASSUME NEW str, NEW start \in Nat, NEW end \in Nat, NEW ptrn
    PROVE  Fields(str, start, end, ptrn) = <<>> <=> FieldSet(str, start, end, ptrn) = {}
<1>. DEFINE S == FieldSet(str, start, end, ptrn)
            L == Fields(str, start, end, ptrn)
<1>1. L \in Seq(S) /\ Len(L) = Cardinality(S)
    BY FieldsListed
<1>2. Cardinality(S) = 0 <=> S = {}
    BY FieldsFinite, FS_EmptySet
<1>. HIDE DEF S, L
<1>3. L = <<>> <=> Len(L) = 0
    BY <1>1, EmptySeq
<1>. QED
    BY <1>1, <1>2, <1>3 DEF S, L

\* The last field of the list is the one that no other starts behind.
LEMMA LastField ==
    ASSUME NEW str, NEW start \in Nat, NEW end \in Nat, NEW ptrn,
           NEW d \in FieldSet(str, start, end, ptrn),
           \A e \in FieldSet(str, start, end, ptrn) : e.start <= d.start
    PROVE  LET L == Fields(str, start, end, ptrn) IN L # <<>> /\ L[Len(L)] = d
<1>. DEFINE S == FieldSet(str, start, end, ptrn)
            L == Fields(str, start, end, ptrn)
            m == Cardinality(S)
            e == L[m]
            before == {c \in S : c.start < e.start}
<1>1. L # <<>>
    BY FieldsEmpty
<1>2. /\ m \in Nat /\ Len(L) = m /\ IsFiniteSet(S)
      /\ \A k \in 1..m : L[k] \in S /\ Rank(S, L[k]) = k - 1
    BY FieldsListed, FieldsFinite
<1>3. m # 0
    BY <1>2, FS_EmptySet
<1>4. e \in S /\ Rank(S, e) = m - 1
    BY <1>2, <1>3
<1>5. \A c \in S : c.start \in Nat
    BY DEF FieldSet
<1>6. ASSUME e # d PROVE FALSE
    <2>1. e.start < d.start
        <3>1. e.start # d.start
            BY <1>4, <1>6, FieldsDiffer
        <3>. QED
            BY <1>4, <1>5, <3>1
    <2>. HIDE DEF S, e
    <2>2. before \in SUBSET ((S \ {d}) \ {e})
        <3>1. e.start \in Nat /\ d.start \in Nat
            BY <1>4, <1>5 DEF S
        <3>. QED
            BY <1>5, <2>1, <3>1
    <2>3. IsFiniteSet(S \ {d}) /\ Cardinality(S \ {d}) = m - 1
        BY <1>2, d \in S, FS_RemoveElement DEF S
    <2>4. IsFiniteSet((S \ {d}) \ {e}) /\ Cardinality((S \ {d}) \ {e}) = m - 2
        BY <1>2, <1>4, <1>6, <2>3, FS_RemoveElement
    <2>5. Cardinality(before) <= m - 2
        BY <2>2, <2>4, FS_Subset
    <2>. QED
        BY <1>2, <1>4, <2>5 DEF Rank
<1>. QED
    BY <1>1, <1>2, <1>6

-----------------------------------------------------------------------------
(***************************************************************************)
(* The URL.                                                                *)
(***************************************************************************)

\* The last part of the path is between the last "/" that has something behind
\* it and the last symbol that is no "/".
LEMMA LastPart ==
    ASSUME NEW url \in Seq(STRING)
    PROVE  /\ LastEnd(url) \in 0..Len(url)
           /\ LastEnd(url) # 0 => url[LastEnd(url)] # "/"
           /\ \A k \in 1..Len(url) : url[k] # "/" => k <= LastEnd(url)
           /\ LastStart(url) \in 0..LastEnd(url)
           /\ LastEnd(url) # 0 => LastStart(url) < LastEnd(url)
           /\ LastStart(url) # 0 => url[LastStart(url)] = "/"
           /\ \A k \in 1..LastEnd(url) : url[k] = "/" => k <= LastStart(url)
<1>. DEFINE n == Len(url)
            S == {0} \cup {k \in 1..n : url[k] # "/"}
            last == LastEnd(url)
            T == {0} \cup {k \in 1..last : url[k] = "/"}
            slash == LastStart(url)
<1>1. n \in Nat
    OBVIOUS
<1>2. last \in S /\ \A y \in S : last >= y
    <2>1. S \in SUBSET 0..n /\ S # {}
        BY <1>1
    <2>2. last = Max(S)
        BY DEF LastEnd
    <2>. HIDE DEF S, last
    <2>. QED
        BY <1>1, <2>1, <2>2, MaxOfBounded
<1>3. last \in 0..n /\ (last # 0 => url[last] # "/") /\ \A k \in 1..n : url[k] # "/" => k <= last
    BY <1>1, <1>2
<1>. HIDE DEF last
<1>4. slash \in T /\ \A y \in T : slash >= y
    <2>1. T \in SUBSET 0..last /\ T # {} /\ last \in Nat
        BY <1>1, <1>3
    <2>2. slash = Max(T)
        BY DEF LastStart, last
    <2>. HIDE DEF T, slash
    <2>. QED
        BY <2>1, <2>2, MaxOfBounded
<1>. HIDE DEF slash
<1>5. /\ slash \in 0..last /\ (slash # 0 => url[slash] = "/")
      /\ \A k \in 1..last : url[k] = "/" => k <= slash
    BY <1>1, <1>3, <1>4
<1>6. last # 0 => slash < last
    BY <1>1, <1>3, <1>5
<1>. QED
    BY <1>3, <1>5, <1>6 DEF last, slash

\* parseUrl takes the first word of the last part, and throws exactly if there
\* is such a part without a word.
LEMMA ParsesUrl ==
    ASSUME NEW url \in Seq(STRING)
    PROVE  parseUrl(url).cmd = Command(url) /\ (parseUrl(url).throws <=> NoCommand(url))
<1>. DEFINE n == Len(url)
            last == LastEnd(url)
            slash == LastStart(url)
            S == FieldSet(url, 0, n, {"/"})
            parts == Fields(url, 0, n, {"/"})
<1>1. /\ n \in Nat /\ last \in 0..n /\ slash \in 0..last
      /\ last # 0 => url[last] # "/" /\ slash < last
      /\ \A k \in 1..n : url[k] # "/" => k <= last
      /\ slash # 0 => url[slash] = "/"
      /\ \A k \in 1..last : url[k] = "/" => k <= slash
    BY LastPart
<1>. HIDE DEF last, slash
<1>2. CASE last = 0
    <2>1. \A k \in 1..n : url[k] = "/"
        BY <1>1, <1>2
    <2>2. S = {}
        <3>. SUFFICES ASSUME NEW d \in S PROVE FALSE
            OBVIOUS
        <3>1. /\ d.start \in Nat /\ d.length \in Nat /\ d.length > 0 /\ d.start + d.length <= n
              /\ \A k \in d.start..(d.start + d.length - 1) : Char(url, k) \notin {"/"}
            BY <1>1 DEF FieldSet, IsField
        <3>2. d.start \in d.start..(d.start + d.length - 1) /\ d.start + 1 \in 1..n
            BY <1>1, <3>1
        <3>. QED
            BY <2>1, <3>1, <3>2 DEF Char
    <2>3. parts = <<>>
        BY <1>1, <2>2, FieldsEmpty
    <2>4. Names(url) = <<>>
        <3>1. slash = 0
            BY <1>1, <1>2
        <3>2. FieldSet(url, 0, 0, {"?"}) = {}
            BY DEF FieldSet
        <3>3. Fields(url, 0, 0, {"?"}) = <<>>
            BY <3>2, FieldsEmpty
        <3>. QED
            BY <1>2, <3>1, <3>3 DEF Names, last, slash
    <2>5. parseUrl(url) = [cmd |-> <<>>, throws |-> FALSE]
        BY <2>3 DEF parseUrl
    <2>. QED
        BY <2>1, <2>4, <2>5 DEF Command, NoCommand
<1>3. CASE last # 0
    <2>. DEFINE d == [start |-> slash, length |-> last - slash]
    <2>1. d \in S
        <3>1. d.start \in 0..n /\ d.length \in 1..(n - 0) /\ d.start + d.length = last
            BY <1>1, <1>3
        <3>2. \A k \in slash..(last - 1) : Char(url, k) \notin {"/"}
            BY <1>1 DEF Char
        <3>3. slash = 0 \/ Char(url, slash - 1) \in {"/"}
            BY <1>1 DEF Char
        <3>4. last = n \/ Char(url, last) \in {"/"}
            BY <1>1 DEF Char
        <3>5. IsField(url, 0, n, {"/"}, d)
            BY <1>1, <1>3, <3>1, <3>2, <3>3, <3>4 DEF IsField
        <3>. QED
            BY <3>1, <3>5 DEF FieldSet
    <2>2. \A e \in S : e.start <= d.start
        <3>. SUFFICES ASSUME NEW e \in S, slash < e.start PROVE FALSE
            BY <1>1 DEF FieldSet
        <3>1. /\ e.start \in Nat /\ e.length \in Nat /\ e.length > 0 /\ e.start + e.length <= n
              /\ \A k \in e.start..(e.start + e.length - 1) : Char(url, k) \notin {"/"}
              /\ e.start = 0 \/ Char(url, e.start - 1) \in {"/"}
            BY <1>1 DEF FieldSet, IsField
        <3>2. e.start \in 1..n /\ url[e.start] = "/" /\ e.start + 1 \in 1..n /\ url[e.start + 1] # "/"
            BY <1>1, <3>1 DEF Char
        <3>. QED
            BY <1>1, <3>2
    <2>3. parts # <<>> /\ parts[Len(parts)] = d
        <3>. HIDE DEF d
        <3>. QED
            BY <1>1, <2>1, <2>2, LastField
    <2>4. /\ parts[Len(parts)].start = slash
          /\ parts[Len(parts)].start + parts[Len(parts)].length = last
        BY <1>1, <2>3
    <2>. HIDE DEF parts
    <2>5. parseUrl(url) = IF Names(url) = <<>> THEN [cmd |-> <<>>, throws |-> TRUE]
                          ELSE [cmd |-> Text(url, Names(url)[1]), throws |-> FALSE]
        <3>1. Names(url) = Fields(url, slash, last, {"?"})
            BY DEF Names, last, slash
        <3>. QED
            BY <2>3, <2>4, <3>1 DEF parseUrl, parts
    <2>6. last \in 1..n /\ url[last] # "/"
        BY <1>1, <1>3
    <2>. QED
        BY <2>5, <2>6 DEF Command, NoCommand
<1>. QED
    BY <1>2, <1>3

LEMMA EmptyUrl == Command(<<>>) = <<>> /\ ~NoCommand(<<>>)
<1>1. <<>> \in Seq(STRING) /\ Len(<<>>) = 0
    OBVIOUS
<1>2. FieldSet(<<>>, 0, 0, {"/"}) = {}
    BY DEF FieldSet
<1>3. Fields(<<>>, 0, 0, {"/"}) = <<>>
    BY <1>2, FieldsEmpty
<1>4. parseUrl(<<>>) = [cmd |-> <<>>, throws |-> FALSE]
    BY <1>1, <1>3 DEF parseUrl
<1>5. parseUrl(<<>>).cmd = Command(<<>>) /\ (parseUrl(<<>>).throws <=> NoCommand(<<>>))
    BY <1>1, ParsesUrl
<1>. QED
    BY <1>4, <1>5

-----------------------------------------------------------------------------
(***************************************************************************)
(* The lines of the buffer.                                                *)
(***************************************************************************)

\* The ends of two lines do not overlap.
LEMMA EolFacts ==
    ASSUME buffer \in Seq(STRING), NEW k \in Int, Eol(k)
    PROVE  /\ k \in Nat /\ k + 1 < Len(buffer)
           /\ ~Eol(k + 1) /\ ~Eol(k - 1)
BY DEF Eol, Char

\* The first empty line, or the end of the buffer.
LEMMA FirstEmpty ==
    ASSUME buffer \in Seq(STRING)
    PROVE  LET e == Min(EmptyLines \cup {Len(buffer)}) IN
           /\ e \in 0..Len(buffer)
           /\ e \in EmptyLines \/ e = Len(buffer)
           /\ \A k \in EmptyLines : e <= k
<1>. DEFINE S == EmptyLines \cup {Len(buffer)}
            e == Min(S)
<1>1. Len(buffer) \in Nat /\ \A k \in EmptyLines : k \in Nat
    BY DEF EmptyLines, Offsets
<1>2. S \in SUBSET Nat /\ S # {}
    BY <1>1
<1>. HIDE DEF S
<1>3. e \in S /\ \A k \in S : e <= k
    BY <1>2, MinOfNats
<1>4. e \in Nat /\ e <= Len(buffer)
    BY <1>2, <1>3 DEF S
<1>5. e \in EmptyLines \/ e = Len(buffer)
    BY <1>3 DEF S
<1>6. \A k \in EmptyLines : e <= k
    BY <1>3 DEF S
<1>. HIDE DEF e
<1>7. e \in 0..Len(buffer)
    BY <1>1, <1>4
<1>. QED
    BY <1>5, <1>6, <1>7 DEF S, e

LEMMA LineFacts ==
    ASSUME buffer \in Seq(STRING), NEW l \in HeaderLines
    PROVE  /\ l[1] \in Nat /\ l[2] \in Nat /\ l = <<l[1], l[2]>>
           /\ l[1] < l[2] /\ l[2] < Len(buffer)
           /\ l[2] <= Min(EmptyLines \cup {Len(buffer)})
           /\ Eol(l[2]) /\ StartsLine(l[1])
           /\ \A k \in l[1]..(l[2] - 1) : ~Eol(k)
<1>. DEFINE e == Min(EmptyLines \cup {Len(buffer)})
<1>1. e \in 0..Len(buffer) /\ Len(buffer) \in Nat
    BY FirstEmpty
<1>. HIDE DEF e
<1>2. /\ l \in (0..e) \X (0..e) /\ l[1] < l[2] /\ Eol(l[2]) /\ StartsLine(l[1])
      /\ \A k \in l[1]..(l[2] - 1) : ~Eol(k)
    BY DEF HeaderLines, e
<1>3. l[1] \in Nat /\ l[2] \in Nat /\ l[2] <= e /\ l = <<l[1], l[2]>>
    BY <1>1, <1>2
<1>4. l[2] + 1 < Len(buffer)
    BY <1>2, <1>3, EolFacts
<1>. QED
    BY <1>1, <1>2, <1>3, <1>4 DEF e

\* Two lines that start at the same place are the same.
LEMMA LineUnique ==
    ASSUME buffer \in Seq(STRING), NEW l \in HeaderLines, NEW m \in HeaderLines, l[1] = m[1]
    PROVE  l = m
<1>1. /\ l[1] \in Nat /\ l[2] \in Nat /\ l = <<l[1], l[2]>> /\ l[1] < l[2] /\ Eol(l[2])
      /\ \A k \in l[1]..(l[2] - 1) : ~Eol(k)
    BY LineFacts
<1>2. /\ m[1] \in Nat /\ m[2] \in Nat /\ m = <<m[1], m[2]>> /\ m[1] < m[2] /\ Eol(m[2])
      /\ \A k \in m[1]..(m[2] - 1) : ~Eol(k)
    BY LineFacts
<1>3. ~(l[2] < m[2]) /\ ~(m[2] < l[2])
    BY <1>1, <1>2
<1>. QED
    BY <1>1, <1>2, <1>3

\* Where a line starts, no other is going on.
LEMMA StartBehind ==
    ASSUME buffer \in Seq(STRING), NEW l \in HeaderLines, NEW k \in Nat, StartsLine(k),
           l[1] < k
    PROVE  l[2] < k
<1>1. /\ l[1] \in Nat /\ l[2] \in Nat /\ StartsLine(l[1]) /\ Eol(l[2])
      /\ \A c \in l[1]..(l[2] - 1) : ~Eol(c)
    BY LineFacts
<1>. SUFFICES ASSUME k <= l[2] PROVE FALSE
    BY <1>1
<1>2. Eol(k - 2) /\ k - 2 \in Nat
    BY <1>1, EolFacts DEF StartsLine
<1>3. l[1] # k - 1
    <2>. SUFFICES ASSUME l[1] = k - 1 PROVE FALSE
        OBVIOUS
    <2>1. l[1] # 0 /\ Eol(l[1] - 2)
        BY <1>1, <1>2 DEF StartsLine
    <2>2. Eol((k - 2) - 1)
        BY <1>2, <2>1
    <2>. QED
        BY <1>2, <2>2, EolFacts
<1>4. k - 2 \in l[1]..(l[2] - 1)
    BY <1>1, <1>2, <1>3
<1>. QED
    BY <1>1, <1>2, <1>4

\* What is said of the text alone does not change while the text does not.
LEMMA SameText ==
    ASSUME buffer' = buffer
    PROVE  /\ \A k : (Eol(k)' <=> Eol(k)) /\ (StartsLine(k)' <=> StartsLine(k))
           /\ EmptyLines' = EmptyLines /\ HeaderLines' = HeaderLines /\ Pragmas' = Pragmas
           /\ \A lines : LastPragma(lines)' = LastPragma(lines)
           /\ Url' = Url
<1>1. \A k : Eol(k)' <=> Eol(k)
    BY DEF Eol
<1>2. \A k : StartsLine(k)' <=> StartsLine(k)
    BY <1>1 DEF StartsLine
<1>3. EmptyLines' = EmptyLines
    BY <1>1, <1>2 DEF EmptyLines, Offsets
<1>4. HeaderLines' = HeaderLines
    BY <1>1, <1>2, <1>3 DEF HeaderLines
<1>5. Pragmas' = Pragmas
    BY <1>4 DEF Pragmas, IsPragma
<1>6. \A lines : LastPragma(lines)' = LastPragma(lines)
    BY DEF LastPragma
<1>7. Url' = Url
    BY <1>4 DEF Url, First
<1>. QED
    BY <1>1, <1>2, <1>3, <1>4, <1>5, <1>6, <1>7

-----------------------------------------------------------------------------
(***************************************************************************)
(* The loop.                                                               *)
(***************************************************************************)
LEMMA AdvanceInv == ASSUME ParserInv, Advance PROVE ParserInv'
<1>1. /\ buffer \in Seq(STRING) /\ Len(buffer) \in Nat /\ i \in 0..Len(buffer) /\ lineStart \in 0..i
      /\ AtLine /\ FoundSoFar
    BY DEF ParserInv, TypeOK, Advance
<1>2. /\ i < Len(buffer) /\ ~Eol(i) /\ i' = i + 1 /\ pc = "parse"
      /\ UNCHANGED <<buffer, lineStart, lineNo, cmd, pragma, data, ret, pc>>
    BY DEF Advance
<1>3. TypeOK'
    BY <1>1, <1>2 DEF ParserInv, TypeOK
<1>4. AtLine'
    <2>1. StartsLine(lineStart)' /\ (lineNo' = 0 <=> lineStart' = 0)
        BY <1>1, <1>2, SameText DEF AtLine
    <2>2. \A k \in 0..(i' - 1) : Eol(k) => k + 2 <= lineStart
        BY <1>1, <1>2 DEF AtLine
    <2>3. \A k \in EmptyLines : i' <= k
        <3>. SUFFICES ASSUME NEW k \in EmptyLines PROVE i + 1 <= k
            BY <1>2
        <3>1. k \in Int /\ Eol(k) /\ i <= k
            BY <1>1 DEF AtLine, EmptyLines, Offsets
        <3>. QED
            BY <1>1, <1>2, <3>1
    <2>. QED
        BY <1>2, <2>1, <2>2, <2>3, SameText DEF AtLine
<1>5. FoundSoFar'
    <2>1. \A l \in Pragmas : l[2] < i + 1 <=> l[2] < i
        <3>. SUFFICES ASSUME NEW l \in Pragmas PROVE l[2] < i + 1 <=> l[2] < i
            OBVIOUS
        <3>1. l[2] \in Nat /\ Eol(l[2])
            BY <1>1, LineFacts DEF Pragmas
        <3>. QED
            BY <1>1, <1>2, <3>1
    <2>2. {l \in Pragmas : l[2] < i + 1} = {l \in Pragmas : l[2] < i}
        BY <2>1
    <2>. QED
        BY <1>1, <1>2, <2>2, SameText DEF FoundSoFar
<1>. QED
    BY <1>2, <1>3, <1>4, <1>5 DEF ParserInv, HeaderFound, PragmaFound, CommandFound

\* The line that ends at i becomes a line of the header, and nothing else does.
LEMMA EndOfLineFacts ==
    ASSUME ParserInv, EndOfLine
    PROVE  /\ buffer' = buffer /\ i' = i + 2 /\ i \in Nat /\ lineStart \in Nat
           /\ i + 2 <= Len(buffer) /\ lineNo \in Nat
           /\ AtLine /\ FoundSoFar /\ AtLine'
           /\ <<lineStart, i>> \in HeaderLines
           /\ \A l \in HeaderLines : l[2] < i + 2 <=> l[2] < i \/ l = <<lineStart, i>>
           /\ \A l \in HeaderLines : l[2] < i => l[1] < lineStart
<1>1. /\ buffer \in Seq(STRING) /\ Len(buffer) \in Nat /\ i \in Nat /\ i <= Len(buffer)
      /\ lineStart \in Nat /\ lineStart <= i /\ lineNo \in Nat /\ AtLine /\ FoundSoFar
    BY DEF ParserInv, TypeOK, EndOfLine
<1>2. /\ Eol(i) /\ i # lineStart /\ buffer' = buffer
      /\ lineNo' = lineNo + 1 /\ lineStart' = i + 2 /\ i' = i + 2
    BY DEF EndOfLine
<1>3. i + 1 < Len(buffer) /\ ~Eol(i + 1)
    BY <1>1, <1>2, EolFacts
<1>4. ~StartsLine(i)
    <2>1. i # 0
        BY <1>1, <1>2
    <2>2. ASSUME Eol(i - 2) PROVE FALSE
        <3>1. i - 2 \in 0..(i - 1)
            BY <1>1, <2>2, EolFacts
        <3>. QED
            BY <1>1, <1>2, <2>2, <3>1 DEF AtLine
    <2>. QED
        BY <2>1, <2>2 DEF StartsLine
<1>5. AtLine'
    <2>1. StartsLine(i + 2)
        BY <1>1, <1>2 DEF StartsLine
    <2>2. \A k \in 0..(i + 1) : Eol(k) => k + 2 <= i + 2
        BY <1>1, <1>3
    <2>3. \A k \in EmptyLines : i + 2 <= k
        <3>. SUFFICES ASSUME NEW k \in EmptyLines PROVE i + 2 <= k
            OBVIOUS
        <3>1. k \in Int /\ Eol(k) /\ StartsLine(k) /\ i <= k
            BY <1>1 DEF AtLine, EmptyLines, Offsets
        <3>. QED
            BY <1>1, <1>3, <1>4, <3>1
    <2>4. StartsLine(lineStart)'
        BY <1>2, <2>1 DEF StartsLine, Eol
    <2>5. lineNo' # 0 /\ lineStart' # 0 /\ i' - 1 = i + 1
        BY <1>1, <1>2
    <2>. QED
        BY <1>2, <2>2, <2>3, <2>4, <2>5, SameText DEF AtLine
<1>6. <<lineStart, i>> \in HeaderLines
    <2>. DEFINE e == Min(EmptyLines \cup {Len(buffer)})
    <2>1. e \in 0..Len(buffer) /\ (e \in EmptyLines \/ e = Len(buffer))
        BY <1>1, FirstEmpty
    <2>. HIDE DEF e
    <2>2. i <= e
        BY <1>1, <2>1 DEF AtLine
    <2>3. lineStart \in 0..e /\ i \in 0..e /\ lineStart < i
        BY <1>1, <1>2, <2>1, <2>2
    <2>4. StartsLine(lineStart)
        BY <1>1 DEF AtLine
    <2>5. \A k \in lineStart..(i - 1) : ~Eol(k)
        BY <1>1 DEF AtLine
    <2>. QED
        BY <1>2, <2>3, <2>4, <2>5 DEF HeaderLines, e
<1>7. ASSUME NEW l \in HeaderLines, l[2] < i PROVE l[1] < lineStart
    <2>1. l[1] \in Nat /\ l[2] \in Nat /\ l[1] < l[2] /\ Eol(l[2])
        BY <1>1, LineFacts
    <2>2. l[2] + 2 <= lineStart
        BY <1>1, <1>7, <2>1 DEF AtLine
    <2>. QED
        BY <1>1, <2>1, <2>2
<1>8. ASSUME NEW l \in HeaderLines, l[2] = i PROVE l = <<lineStart, i>>
    <2>1. /\ l[1] \in Nat /\ l[2] \in Nat /\ l = <<l[1], l[2]>> /\ l[1] < l[2] /\ StartsLine(l[1])
        BY <1>1, LineFacts
    <2>2. l[1] <= lineStart
        <3>1. CASE l[1] = 0
            BY <1>1, <3>1
        <3>2. CASE Eol(l[1] - 2)
            <4>1. l[1] - 2 \in 0..(i - 1)
                BY <1>1, <1>8, <2>1, <3>2, EolFacts
            <4>2. (l[1] - 2) + 2 <= lineStart
                BY <1>1, <3>2, <4>1 DEF AtLine
            <4>. QED
                BY <1>1, <2>1, <4>2
        <3>. QED
            BY <2>1, <3>1, <3>2 DEF StartsLine
    <2>3. ~(l[1] < lineStart)
        <3>1. StartsLine(lineStart)
            BY <1>1 DEF AtLine
        <3>2. l[1] < lineStart => l[2] < lineStart
            BY <1>1, <3>1, StartBehind
        <3>. QED
            BY <1>1, <1>8, <3>2
    <2>. QED
        BY <1>1, <1>8, <2>1, <2>2, <2>3
<1>9. ASSUME NEW l \in HeaderLines PROVE l[2] < i + 2 <=> l[2] < i \/ l = <<lineStart, i>>
    <2>1. l[2] \in Nat /\ Eol(l[2])
        BY <1>1, LineFacts
    <2>2. l[2] # i + 1
        BY <1>3, <2>1
    <2>3. l = <<lineStart, i>> => l[2] = i
        OBVIOUS
    <2>. QED
        BY <1>1, <1>8, <2>1, <2>2, <2>3
<1>. QED
    BY <1>1, <1>2, <1>3, <1>5, <1>6, <1>7, <1>9

\* The line that ends is the request line: the URL is its second word.
LEMMA RequestLineInv == ASSUME ParserInv, RequestLine PROVE ParserInv'
<1>. DEFINE words == Fields(buffer, 0, i, {"SP"})
            text == Text(buffer, words[2])
<1>1. /\ buffer' = buffer /\ i' = i + 2 /\ i \in Nat /\ i + 2 <= Len(buffer)
      /\ AtLine /\ FoundSoFar /\ AtLine'
      /\ <<lineStart, i>> \in HeaderLines
      /\ \A l \in HeaderLines : l[2] < i + 2 <=> l[2] < i \/ l = <<lineStart, i>>
    BY EndOfLineFacts DEF RequestLine
<1>2. /\ lineNo = 0 /\ lineNo' = 1 /\ lineStart' = i + 2 /\ pragma' = pragma
      /\ data' = data /\ ret' = ret /\ pc = "parse"
    BY DEF RequestLine, EndOfLine
<1>3. lineStart = 0 /\ cmd = <<>> /\ ~ret /\ data = NoData
    BY <1>1, <1>2 DEF AtLine, FoundSoFar
<1>4. buffer \in Seq(STRING) /\ Len(buffer) \in Nat
    BY DEF ParserInv, TypeOK
<1>5. First = <<0, i>>
    <2>1. \A l \in HeaderLines : l[1] \in Nat
        BY <1>4, LineFacts
    <2>2. \A l \in HeaderLines : l[1] = 0 => l = <<0, i>>
        <3>. SUFFICES ASSUME NEW l \in HeaderLines, l[1] = 0 PROVE l = <<0, i>>
            OBVIOUS
        <3>1. <<0, i>> \in HeaderLines /\ <<0, i>>[1] = 0
            BY <1>1, <1>3
        <3>. QED
            BY <1>4, <3>1, LineUnique
    <2>3. <<0, i>> \in HeaderLines /\ <<0, i>>[1] = 0
        BY <1>1, <1>3
    <2>4. \A l \in HeaderLines : (\A m \in HeaderLines : l[1] <= m[1]) => l[1] = 0
        BY <2>1, <2>3
    <2>5. \A m \in HeaderLines : <<0, i>>[1] <= m[1]
        BY <2>1, <2>3
    <2>. QED
        BY <2>2, <2>3, <2>4, <2>5 DEF First
<1>6. Url = IF Len(words) < 2 THEN <<>> ELSE text
    BY <1>1, <1>5 DEF Url
<1>7. Len(words) \in Nat /\ (Len(words) >= 2 => text \in Seq(STRING))
    <2>. DEFINE S == FieldSet(buffer, 0, i, {"SP"})
    <2>1. Len(words) \in Nat /\ \A k \in 1..Len(words) : words[k] \in S
        BY <1>1, FieldsListed
    <2>. HIDE DEF words
    <2>2. ASSUME Len(words) >= 2 PROVE text \in Seq(STRING)
        <3>. DEFINE d == words[2]
        <3>1. d \in S
            BY <2>1, <2>2
        <3>. HIDE DEF d
        <3>2. d.start \in Nat /\ d.length \in Nat /\ d.start + d.length <= i
            BY <1>1, <3>1 DEF FieldSet, IsField
        <3>3. \A k \in (d.start + 1)..(d.start + d.length) : buffer[k] \in STRING
            <4>. SUFFICES ASSUME NEW k \in (d.start + 1)..(d.start + d.length)
                          PROVE  buffer[k] \in STRING
                OBVIOUS
            <4>1. k \in 1..Len(buffer)
                BY <1>1, <1>4, <3>2
            <4>. QED
                BY <1>4, <4>1, ElementOfSeq
        <3>4. d.start + 1 \in Int /\ d.start + d.length \in Int
            BY <3>2
        <3>5. SubSeq(buffer, d.start + 1, d.start + d.length) \in Seq(STRING)
            BY <3>3, <3>4, SubSeqProperties
        <3>. QED
            BY <3>5 DEF Text, d
    <2>. QED
        BY <2>1, <2>2
<1>8. /\ Len(words) >= 2 => cmd' = parseUrl(text).cmd
                            /\ pc' = IF parseUrl(text).throws THEN "thrown" ELSE pc
      /\ Len(words) < 2 => cmd' = cmd /\ pc' = pc
    <2>. HIDE DEF words
    <2>1. IF Len(words) > 1
          THEN cmd' = parseUrl(text).cmd /\ pc' = IF parseUrl(text).throws THEN "thrown" ELSE pc
          ELSE UNCHANGED <<cmd, pc>>
        BY <1>3 DEF RequestLine, words
    <2>. QED
        BY <1>7, <2>1
<1>. HIDE DEF words, text
<1>9. /\ cmd' = Command(Url)
      /\ pc' = IF NoCommand(Url) THEN "thrown" ELSE "parse"
    <2>1. CASE Len(words) < 2
        BY <1>2, <1>3, <1>6, <1>8, <2>1, EmptyUrl
    <2>2. CASE Len(words) >= 2
        <3>1. Url = text /\ text \in Seq(STRING)
            BY <1>6, <1>7, <2>2
        <3>2. parseUrl(text).cmd = Command(text) /\ (parseUrl(text).throws <=> NoCommand(text))
            BY <3>1, ParsesUrl
        <3>. QED
            BY <1>2, <1>8, <2>2, <3>1, <3>2
    <2>. QED
        BY <1>7, <2>1, <2>2
<1>10. TypeOK'
    <2>1. i' \in 0..Len(buffer') /\ lineStart' \in 0..i'
        BY <1>1, <1>2, <1>4
    <2>2. pc' \in {"parse", "done", "thrown"}
        BY <1>9
    <2>3. ret' \in BOOLEAN
        BY <1>2 DEF ParserInv, TypeOK
    <2>. QED
        BY <1>1, <1>2, <1>4, <2>1, <2>2, <2>3 DEF TypeOK
<1>11. FoundSoFar' \/ pc' = "thrown"
    <2>. SUFFICES ASSUME ~NoCommand(Url) PROVE FoundSoFar'
        BY <1>9
    <2>1. \A l \in Pragmas : l \in HeaderLines /\ l # <<0, i>>
        <3>. SUFFICES ASSUME NEW l \in Pragmas, l = <<0, i>> PROVE FALSE
            BY DEF Pragmas
        <3>1. PICK m \in HeaderLines : m[1] < l[1]
            BY DEF Pragmas
        <3>2. m[1] \in Nat
            BY <1>4, LineFacts
        <3>. QED
            BY <3>1, <3>2
    <2>2. {l \in Pragmas : l[2] < i + 2} = {l \in Pragmas : l[2] < i}
        BY <1>1, <1>3, <2>1
    <2>3. pragma' = LastPragma({l \in Pragmas : l[2] < i + 2})
        BY <1>1, <1>2, <2>2 DEF FoundSoFar
    <2>4. <<0, i>> \in HeaderLines /\ <<0, i>>[1] = 0
        BY <1>1, <1>3
    <2>. QED
        BY <1>1, <1>2, <1>3, <1>9, <2>3, <2>4, SameText DEF FoundSoFar
<1>12. Url' = Url
    BY <1>1, SameText
<1>. QED
    BY <1>1, <1>2, <1>3, <1>9, <1>10, <1>11, <1>12
    DEF ParserInv, HeaderFound, PragmaFound, CommandFound

\* A line with the header's name in front of its first blank.
LEMMA PragmaLine ==
    ASSUME buffer \in Seq(STRING), <<lineStart, i>> \in HeaderLines
    PROVE  LET line == SubSeq(buffer, lineStart + 1, i)
               pos == SelectInSeq(line, LAMBDA c : c = "SP")
           IN  /\ (pos > 0 /\ SubSeq(line, 1, pos - 1) = <<"Pragma:">>) <=> IsPragma(<<lineStart, i>>)
               /\ IsPragma(<<lineStart, i>>) =>
                     SubSeq(line, pos + 1, Len(line)) = SubSeq(buffer, lineStart + 3, i)
<1>. DEFINE line == SubSeq(buffer, lineStart + 1, i)
            blanks == {k \in 1..Len(line) : line[k] = "SP"}
            pos == SelectInSeq(line, LAMBDA c : c = "SP")
<1>1. /\ lineStart \in Nat /\ i \in Nat /\ lineStart < i /\ i + 1 < Len(buffer) /\ Len(buffer) \in Nat
      /\ buffer[i + 1] = "CR"
    <2>1. /\ <<lineStart, i>>[1] \in Nat /\ <<lineStart, i>>[2] \in Nat
          /\ <<lineStart, i>>[1] < <<lineStart, i>>[2] /\ Eol(<<lineStart, i>>[2])
        BY LineFacts
    <2>2. lineStart \in Nat /\ i \in Nat /\ lineStart < i /\ Eol(i)
        BY <2>1
    <2>. QED
        BY <2>2 DEF Eol, Char
<1>2. /\ line \in Seq(STRING) /\ Len(line) = i - lineStart
      /\ \A k \in 1..(i - lineStart) : line[k] = buffer[lineStart + k]
    <2>1. \A k \in (lineStart + 1)..i : buffer[k] \in STRING
        BY <1>1, ElementOfSeq
    <2>2. lineStart + 1 \in Int /\ i \in Int
        BY <1>1
    <2>3. /\ line \in Seq(STRING)
          /\ Len(line) = IF lineStart + 1 <= i THEN i - (lineStart + 1) + 1 ELSE 0
          /\ \A k \in 1..(i - (lineStart + 1) + 1) : line[k] = buffer[lineStart + 1 + k - 1]
        BY <2>1, <2>2, SubSeqProperties
    <2>. HIDE DEF line
    <2>. QED
        BY <1>1, <2>3
<1>3. pos = IF blanks # {} THEN Min(blanks) ELSE 0
    BY DEF SelectInSeq
<1>. HIDE DEF line, pos
<1>4. IsPragma(<<lineStart, i>>) <=> buffer[lineStart + 1] = "Pragma:" /\ buffer[lineStart + 2] = "SP"
    BY <1>1 DEF IsPragma, Char
<1>5. ASSUME IsPragma(<<lineStart, i>>) PROVE pos = 2 /\ i - lineStart >= 2 /\ line[1] = "Pragma:"
    <2>1. lineStart + 1 # i
        BY <1>1, <1>4, <1>5
    <2>2. 1 \in 1..(i - lineStart) /\ 2 \in 1..(i - lineStart)
        BY <1>1, <2>1
    <2>3. line[1] = "Pragma:" /\ line[2] = "SP"
        BY <1>2, <1>4, <1>5, <2>2
    <2>4. 2 \in blanks /\ 1 \notin blanks /\ blanks \in SUBSET Int
        BY <1>2, <2>2, <2>3
    <2>5. \A k \in blanks : 2 <= k
        BY <2>4
    <2>. HIDE DEF blanks
    <2>6. Min(blanks) = 2
        BY <2>4, <2>5, MinIs
    <2>. QED
        BY <1>1, <1>3, <2>1, <2>3, <2>4, <2>6
<1>6. ASSUME pos > 0, SubSeq(line, 1, pos - 1) = <<"Pragma:">> PROVE IsPragma(<<lineStart, i>>)
    <2>1. blanks # {}
        BY <1>3, <1>6
    <2>2. blanks \in SUBSET Nat
        BY <1>1, <1>2
    <2>3. Min(blanks) \in blanks
        BY <2>1, <2>2, MinOfNats
    <2>4. pos \in 1..(i - lineStart) /\ line[pos] = "SP"
        BY <1>2, <1>3, <2>1, <2>3
    <2>5. /\ Len(SubSeq(line, 1, pos - 1)) = IF 1 <= pos - 1 THEN (pos - 1) - 1 + 1 ELSE 0
          /\ \A k \in 1..((pos - 1) - 1 + 1) : SubSeq(line, 1, pos - 1)[k] = line[1 + k - 1]
        <3>1. \A k \in 1..(pos - 1) : line[k] \in STRING
            <4>. SUFFICES ASSUME NEW k \in 1..(pos - 1) PROVE line[k] \in STRING
                OBVIOUS
            <4>1. k \in 1..Len(line)
                BY <1>1, <1>2, <2>4
            <4>. QED
                BY <1>2, <4>1, ElementOfSeq
        <3>2. pos - 1 \in Int
            BY <1>1, <2>4
        <3>. QED
            BY <3>1, <3>2, SubSeqProperties
    <2>6. Len(SubSeq(line, 1, pos - 1)) = 1 /\ SubSeq(line, 1, pos - 1)[1] = "Pragma:"
        <3>1. Len(<<"Pragma:">>) = 1 /\ <<"Pragma:">>[1] = "Pragma:"
            OBVIOUS
        <3>. QED
            BY <1>6, <3>1, Zenon
    <2>7. pos = 2
        BY <1>1, <2>4, <2>5, <2>6
    <2>8. line[1] = "Pragma:" /\ line[2] = "SP"
        BY <2>4, <2>5, <2>6, <2>7
    <2>. QED
        BY <1>1, <1>2, <1>4, <2>4, <2>7, <2>8
<1>7. ASSUME IsPragma(<<lineStart, i>>)
      PROVE  SubSeq(line, 1, pos - 1) = <<"Pragma:">>
    <2>1. pos = 2 /\ i - lineStart >= 2 /\ line[1] = "Pragma:"
        BY <1>5, <1>7
    <2>. DEFINE P == {"Pragma:"}
    <2>2. \A k \in 1..1 : line[k] \in P
        BY <2>1
    <2>. HIDE DEF P
    <2>3. /\ SubSeq(line, 1, 1) \in Seq(P) /\ Len(SubSeq(line, 1, 1)) = 1
          /\ SubSeq(line, 1, 1)[1] = line[1]
        BY <2>2, SubSeqProperties
    <2>4. <<"Pragma:">> \in Seq(P) /\ Len(<<"Pragma:">>) = 1 /\ <<"Pragma:">>[1] = "Pragma:"
        BY DEF P
    <2>5. \A k \in 1..1 : SubSeq(line, 1, 1)[k] = <<"Pragma:">>[k]
        BY <2>1, <2>3, <2>4
    <2>6. SubSeq(line, 1, 1) = <<"Pragma:">>
        BY <2>3, <2>4, <2>5, SeqEqual
    <2>. QED
        BY <2>1, <2>6
<1>8. ASSUME IsPragma(<<lineStart, i>>)
      PROVE  SubSeq(line, pos + 1, Len(line)) = SubSeq(buffer, lineStart + 3, i)
    <2>1. pos = 2 /\ i - lineStart >= 2
        BY <1>5, <1>8
    <2>. QED
        BY <1>1, <1>2, <2>1
<1>9. pos > 0 /\ SubSeq(line, 1, pos - 1) = <<"Pragma:">> <=> IsPragma(<<lineStart, i>>)
    BY <1>5, <1>6, <1>7
<1>. QED
    BY <1>8, <1>9 DEF line, pos

LEMMA HeaderLineInv == ASSUME ParserInv, HeaderLine PROVE ParserInv'
<1>. DEFINE line == SubSeq(buffer, lineStart + 1, i)
            pos == SelectInSeq(line, LAMBDA c : c = "SP")
            here == <<lineStart, i>>
            old == {l \in Pragmas : l[2] < i}
            new == {l \in Pragmas : l[2] < i + 2}
<1>1. /\ buffer' = buffer /\ i' = i + 2 /\ i \in Nat /\ lineStart \in Nat /\ i + 2 <= Len(buffer)
      /\ AtLine /\ FoundSoFar /\ AtLine' /\ lineNo \in Nat
      /\ here \in HeaderLines
      /\ \A l \in HeaderLines : l[2] < i + 2 <=> l[2] < i \/ l = here
      /\ \A l \in HeaderLines : l[2] < i => l[1] < lineStart
    BY EndOfLineFacts DEF HeaderLine
<1>2. /\ lineNo > 0 /\ lineNo' = lineNo + 1 /\ lineStart' = i + 2 /\ pc = "parse"
      /\ UNCHANGED <<data, ret, cmd, pc>>
    BY DEF HeaderLine, EndOfLine
<1>3. pragma' = IF pos > 0 /\ SubSeq(line, 1, pos - 1) = <<"Pragma:">>
                THEN atoi(SubSeq(line, pos + 1, Len(line)))
                ELSE pragma
    BY DEF HeaderLine
<1>4. buffer \in Seq(STRING) /\ Len(buffer) \in Nat /\ ret \in BOOLEAN
    BY DEF ParserInv, TypeOK
<1>5. pragma' = IF IsPragma(here) THEN atoi(SubSeq(buffer, lineStart + 3, i)) ELSE pragma
    <2>1. /\ (pos > 0 /\ SubSeq(line, 1, pos - 1) = <<"Pragma:">>) <=> IsPragma(here)
          /\ IsPragma(here) =>
                SubSeq(line, pos + 1, Len(line)) = SubSeq(buffer, lineStart + 3, i)
        BY <1>1, <1>4, PragmaLine
    <2>. HIDE DEF line, pos, here
    <2>2. CASE IsPragma(here)
        BY <1>3, <2>1, <2>2, Zenon
    <2>3. CASE ~IsPragma(here)
        BY <1>3, <2>1, <2>3, Zenon
    <2>. QED
        BY <2>2, <2>3
<1>. HIDE DEF line, pos
<1>6. pragma = LastPragma(old)
    BY <1>1 DEF FoundSoFar
<1>7. here \in Pragmas <=> IsPragma(here)
    <2>1. PICK m \in HeaderLines : m[1] = 0
        BY <1>1, <1>2 DEF FoundSoFar
    <2>2. lineStart # 0 /\ here[1] = lineStart
        BY <1>1, <1>2 DEF AtLine
    <2>3. m[1] < here[1]
        BY <1>1, <2>1, <2>2
    <2>. QED
        BY <1>1, <2>3 DEF Pragmas
<1>8. new = IF IsPragma(here) THEN old \cup {here} ELSE old
    <2>1. \A l \in Pragmas : l \in HeaderLines
        BY DEF Pragmas
    <2>2. \A l : l \in new <=> l \in old \/ (l = here /\ IsPragma(here))
        BY <1>1, <1>7, <2>1
    <2>. QED
        BY <2>2
<1>9. pragma' = LastPragma(new)
    <2>1. CASE ~IsPragma(here)
        BY <1>5, <1>6, <1>8, <2>1
    <2>2. CASE IsPragma(here)
        <3>1. here \in new /\ new = old \cup {here} /\ here[1] = lineStart /\ here[2] = i
            BY <1>8, <2>2
        <3>2. \A l \in old : l \in HeaderLines /\ l[1] \in Nat /\ l[1] < lineStart
            <4>. SUFFICES ASSUME NEW l \in old
                          PROVE  l \in HeaderLines /\ l[1] \in Nat /\ l[1] < lineStart
                OBVIOUS
            <4>1. l \in HeaderLines /\ l[2] < i
                BY DEF Pragmas
            <4>. QED
                BY <1>1, <1>4, <4>1, LineFacts
        <3>. HIDE DEF new, old, here
        <3>3. \A m \in new : m[1] <= here[1]
            BY <1>1, <3>1, <3>2
        <3>4. \A l \in new : (\A m \in new : m[1] <= l[1]) => l = here
            BY <1>1, <3>1, <3>2
        <3>5. (CHOOSE l \in new : \A m \in new : m[1] <= l[1]) = here
            BY <3>1, <3>3, <3>4
        <3>6. LastPragma(new) = atoi(SubSeq(buffer, here[1] + 3, here[2]))
            BY <3>1, <3>5 DEF LastPragma
        <3>. QED
            BY <1>5, <2>2, <3>1, <3>6
    <2>. QED
        BY <2>1, <2>2
<1>10. FoundSoFar'
    <2>1. /\ ~ret /\ data = NoData /\ cmd = Command(Url) /\ ~NoCommand(Url)
          /\ \E l \in HeaderLines : l[1] = 0
        BY <1>1, <1>2 DEF FoundSoFar
    <2>2. lineNo' # 0
        BY <1>1, <1>2
    <2>. QED
        BY <1>1, <1>2, <1>9, <2>1, <2>2, SameText DEF FoundSoFar
<1>11. TypeOK'
    <2>1. i' \in 0..Len(buffer') /\ lineStart' \in 0..i' /\ lineNo' \in Nat
        BY <1>1, <1>2, <1>4
    <2>. QED
        BY <1>1, <1>2, <1>4, <2>1 DEF TypeOK
<1>. QED
    BY <1>1, <1>2, <1>10, <1>11 DEF ParserInv, HeaderFound, PragmaFound, CommandFound

LEMMA EndOfHeaderInv == ASSUME ParserInv, EndOfHeader PROVE ParserInv'
<1>1. /\ buffer \in Seq(STRING) /\ Len(buffer) \in Nat /\ i \in Nat /\ lineStart \in Nat /\ lineNo \in Nat
      /\ AtLine /\ FoundSoFar
    BY DEF ParserInv, TypeOK, EndOfHeader
<1>2. /\ Eol(i) /\ i = lineStart /\ i' = i + 2 /\ ret' = TRUE /\ pc' = "done"
      /\ data' = IF i + 2 < Len(buffer) THEN i + 2 ELSE data
      /\ UNCHANGED <<buffer, lineStart, lineNo, cmd, pragma>>
    BY DEF EndOfHeader
<1>3. i + 1 < Len(buffer)
    BY <1>1, <1>2, EolFacts
<1>4. i \in EmptyLines /\ \A k \in EmptyLines : i <= k /\ k \in Int
    BY <1>1, <1>2, <1>3 DEF EmptyLines, Offsets, AtLine
<1>5. Min(EmptyLines) = i
    BY <1>4, MinIs
<1>6. \A l \in HeaderLines : l[1] \in Nat /\ l[2] \in Nat /\ l[1] < l[2] /\ l[2] < i
    <2>. SUFFICES ASSUME NEW l \in HeaderLines
                  PROVE  l[1] \in Nat /\ l[2] \in Nat /\ l[1] < l[2] /\ l[2] < i
        OBVIOUS
    <2>1. /\ l[1] \in Nat /\ l[2] \in Nat /\ l[1] < l[2]
          /\ l[2] <= Min(EmptyLines \cup {Len(buffer)})
        BY <1>1, LineFacts
    <2>2. Min(EmptyLines \cup {Len(buffer)}) = i
        <3>. DEFINE S == EmptyLines \cup {Len(buffer)}
        <3>1. \A y \in S : y \in Int /\ i <= y
            <4>. SUFFICES ASSUME NEW y \in S PROVE y \in Int /\ i <= y
                OBVIOUS
            <4>1. CASE y = Len(buffer)
                BY <1>1, <1>3, <4>1
            <4>2. CASE y \in EmptyLines
                BY <1>4, <4>2
            <4>. QED
                BY <4>1, <4>2
        <3>2. i \in S
            BY <1>4
        <3>. HIDE DEF S
        <3>3. Min(S) = i
            BY <3>1, <3>2, MinIs
        <3>. QED
            BY <3>3 DEF S
    <2>3. StartsLine(i)
        BY <1>1, <1>2 DEF AtLine
    <2>4. l[1] < i
        BY <1>1, <2>1, <2>2
    <2>. QED
        BY <1>1, <2>1, <2>3, <2>4, StartBehind
<1>7. pragma = LastPragma(Pragmas)
    <2>1. {l \in Pragmas : l[2] < i} = Pragmas
        BY <1>6 DEF Pragmas
    <2>. QED
        BY <1>1, <2>1 DEF FoundSoFar
<1>8. cmd = Command(Url) /\ ~NoCommand(Url)
    <2>1. CASE lineNo = 0
        <3>1. lineStart = 0 /\ cmd = <<>>
            BY <1>1, <2>1 DEF AtLine, FoundSoFar
        <3>2. HeaderLines = {}
            BY <1>1, <1>2, <1>6, <3>1
        <3>3. Url = <<>>
            BY <3>2 DEF Url
        <3>. QED
            BY <3>1, <3>3, EmptyUrl
    <2>2. CASE lineNo > 0
        BY <1>1, <2>2 DEF FoundSoFar
    <2>. QED
        BY <1>1, <2>1, <2>2
<1>9. data' = IF i + 2 < Len(buffer) THEN i + 2 ELSE NoData
    BY <1>1, <1>2 DEF FoundSoFar
<1>10. TypeOK'
    <2>1. i' \in 0..Len(buffer') /\ lineStart' \in 0..i'
        BY <1>1, <1>2, <1>3
    <2>. QED
        BY <1>1, <1>2, <2>1 DEF TypeOK
<1>11. HeaderFound'
    <2>1. EmptyLines' = EmptyLines
        BY <1>2, SameText
    <2>2. EmptyLines # {}
        BY <1>4
    <2>. QED
        BY <1>2, <1>5, <1>9, <2>1, <2>2 DEF HeaderFound
<1>12. PragmaFound'
    BY <1>2, <1>7, SameText DEF PragmaFound
<1>13. CommandFound'
    BY <1>2, <1>8, SameText DEF CommandFound
<1>. QED
    BY <1>2, <1>10, <1>11, <1>12, <1>13 DEF ParserInv

LEMMA EndOfBufferInv == ASSUME ParserInv, EndOfBuffer PROVE ParserInv'
<1>1. /\ i \in 0..Len(buffer) /\ Len(buffer) \in Nat /\ AtLine /\ FoundSoFar /\ TypeOK
    BY DEF ParserInv, TypeOK, EndOfBuffer
<1>2. /\ i >= Len(buffer) /\ pc' = "done"
      /\ UNCHANGED <<buffer, i, lineStart, lineNo, cmd, pragma, data, ret>>
    BY DEF EndOfBuffer
<1>3. EmptyLines = {}
    BY <1>1, <1>2 DEF AtLine, EmptyLines, Offsets
<1>4. ~ret
    BY <1>1 DEF FoundSoFar
<1>5. TypeOK'
    BY <1>1, <1>2 DEF TypeOK
<1>6. EmptyLines' = EmptyLines
    BY <1>2, SameText
<1>. QED
    BY <1>2, <1>3, <1>4, <1>5, <1>6 DEF ParserInv, HeaderFound, PragmaFound, CommandFound

LEMMA ParserInit == Init => ParserInv
<1>. SUFFICES ASSUME Init PROVE ParserInv
    OBVIOUS
<1>1. /\ buffer \in Seq(STRING) /\ Len(buffer) \in Nat /\ i = 0 /\ lineStart = 0 /\ lineNo = 0
      /\ cmd = <<>> /\ pragma = 0 /\ data = NoData /\ ret = FALSE /\ pc = "parse"
    BY BuffersAssumption DEF Init
<1>2. TypeOK
    <2>1. i \in 0..Len(buffer) /\ lineStart \in 0..i /\ lineNo \in Nat
        BY <1>1
    <2>2. ret \in BOOLEAN /\ pc \in {"parse", "done", "thrown"}
        BY <1>1
    <2>. QED
        BY <1>1, <2>1, <2>2 DEF TypeOK
<1>3. AtLine
    BY <1>1 DEF AtLine, StartsLine, EmptyLines, Offsets
<1>4. {l \in Pragmas : l[2] < i} = {}
    <2>. SUFFICES ASSUME NEW l \in Pragmas PROVE ~(l[2] < i)
        OBVIOUS
    <2>1. l[2] \in Nat
        BY <1>1, LineFacts DEF Pragmas
    <2>. QED
        BY <1>1, <2>1
<1>5. FoundSoFar
    <2>1. LastPragma({}) = 0
        BY DEF LastPragma
    <2>2. pragma = LastPragma({l \in Pragmas : l[2] < i})
        BY <1>1, <1>4, <2>1, Zenon
    <2>3. ~ret /\ data = NoData /\ ~(lineNo > 0)
        BY <1>1
    <2>. QED
        BY <1>1, <2>2, <2>3 DEF FoundSoFar
<1>. QED
    BY <1>1, <1>2, <1>3, <1>5 DEF ParserInv, HeaderFound, PragmaFound, CommandFound

LEMMA ParserNext == ParserInv /\ [Next]_vars => ParserInv'
<1>. SUFFICES ASSUME ParserInv, [Next]_vars PROVE ParserInv'
    OBVIOUS
<1>1. CASE UNCHANGED vars
    <2>1. UNCHANGED <<buffer, i, lineStart, lineNo, cmd, pragma, data, ret, pc>>
        BY <1>1 DEF vars
    <2>2. TypeOK'
        BY <2>1 DEF ParserInv, TypeOK
    <2>3. pc = "parse" => AtLine' /\ FoundSoFar'
        BY <2>1, SameText DEF ParserInv, AtLine, FoundSoFar
    <2>4. HeaderFound' /\ PragmaFound' /\ CommandFound'
        BY <2>1, SameText DEF ParserInv, HeaderFound, PragmaFound, CommandFound
    <2>. QED
        BY <2>1, <2>2, <2>3, <2>4 DEF ParserInv
<1>. QED
    BY <1>1, AdvanceInv, RequestLineInv, HeaderLineInv, EndOfHeaderInv, EndOfBufferInv DEF Next

-----------------------------------------------------------------------------
(***************************************************************************)
(* The theorems.                                                           *)
(***************************************************************************)

\* The loop of parseHttpMessage never passes an end of a line without taking
\* the line, and at each turn it has found what the lines before it say.
THEOREM ParserInvariant == Spec => []ParserInv
BY ParserInit, ParserNext, PTL DEF Spec

\* parseHttpMessage succeeds exactly on a text with an empty line, and data is
\* what follows the first one, or nullptr.
THEOREM ParserFindsHeader == Spec => []HeaderFound
<1>1. ParserInv => HeaderFound
    BY DEF ParserInv
<1>. QED
    BY <1>1, ParserInvariant, PTL

\* pragma is the number of the last Pragma line between the request line and
\* the first empty line.
THEOREM ParserFindsPragma == Spec => []PragmaFound
<1>1. ParserInv => PragmaFound
    BY DEF ParserInv
<1>. QED
    BY <1>1, ParserInvariant, PTL

\* The command is the first word of the last part of the URL's path, and
\* parseUrl throws exactly if that part has no word.
THEOREM ParserFindsCommand == Spec => []CommandFound
<1>1. ParserInv => CommandFound
    BY DEF ParserInv
<1>. QED
    BY <1>1, ParserInvariant, PTL
=============================================================================
