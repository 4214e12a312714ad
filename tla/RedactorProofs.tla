--------------------------- MODULE RedactorProofs ---------------------------
(* Secrets are withheld from any text, however it is cut, for any alphabet.  *)
EXTENDS Redactor, FiniteSetTheorems, SequenceTheorems, TLAPS

-----------------------------------------------------------------------------
(* Counting: a set with 0 and every successor has every number.  The numbers *)
(* up to a bound that it lacks would map, one down, into fewer.              *)
LEMMA Counting ==
  ASSUME NEW T, 0 \in T, \A n \in Nat : n \in T => n + 1 \in T, NEW bound \in Nat
  PROVE  bound \in T
<1> SUFFICES ASSUME bound \notin T PROVE FALSE OBVIOUS
<1>1. PICK K : K = (0..bound) \ T OBVIOUS
<1>2. \A k \in K : k - 1 \in K \ {bound}
  <2> SUFFICES ASSUME NEW k \in K PROVE k - 1 \in K \ {bound} OBVIOUS
  <2>1. k \in Nat /\ k <= bound /\ k # 0 /\ k \notin T BY <1>1
  <2>2. k - 1 \in Nat /\ k - 1 < bound /\ (k - 1) + 1 = k BY <2>1
  <2> QED BY <1>1, <2>1, <2>2
<1>3. bound \in K BY <1>1
<1>4. IsFiniteSet(K)
  <2>1. IsFiniteSet(0..bound) BY FS_Interval
  <2> QED BY <1>1, <2>1, FS_Subset
<1>5. IsFiniteSet(K \ {bound}) /\ Cardinality(K \ {bound}) = Cardinality(K) - 1
  BY <1>3, <1>4, FS_RemoveElement
<1>6. Cardinality(K) \in Nat BY <1>4, FS_CardinalityType
<1>7. PICK down : down = [k \in K |-> k - 1] OBVIOUS
<1>8. down \in [K -> K \ {bound}] BY <1>2, <1>7
<1>9. Cardinality(K \ {bound}) < Cardinality(K) BY <1>5, <1>6
<1>10. \E x, y \in K : x # y /\ down[x] = down[y] BY <1>4, <1>5, <1>8, <1>9, FS_PigeonHole
<1> QED BY <1>1, <1>7, <1>10

-----------------------------------------------------------------------------
(* Texts: what follows a position, and what begins a text.                   *)
LEMMA FromIs ==
  ASSUME NEW A, NEW text \in Seq(A), NEW i \in 1..(Len(text) + 1)
  PROVE  /\ From(text, i) \in Seq(A)
         /\ Len(From(text, i)) = Len(text) - i + 1
         /\ \A j \in 1..(Len(text) - i + 1) : From(text, i)[j] = text[i + j - 1]
<1>1. Len(text) \in Nat /\ i \in Int /\ Len(text) \in Int OBVIOUS
<1>2. \A j \in i..Len(text) : text[j] \in A OBVIOUS
<1>3. /\ SubSeq(text, i, Len(text)) \in Seq(A)
      /\ Len(SubSeq(text, i, Len(text))) = IF i <= Len(text) THEN Len(text) - i + 1 ELSE 0
      /\ \A j \in 1..(Len(text) - i + 1) : SubSeq(text, i, Len(text))[j] = text[i + j - 1]
  BY <1>1, <1>2, SubSeqProperties
<1> QED BY <1>1, <1>3 DEF From

LEMMA FromFrom ==
  ASSUME NEW A, NEW text \in Seq(A), NEW i \in 1..(Len(text) + 1),
         NEW j \in 1..(Len(text) - i + 2)
  PROVE  From(From(text, i), j) = From(text, i + j - 1)
<1>1. i + j - 1 \in 1..(Len(text) + 1) OBVIOUS
<1>2. PICK u : u = From(text, i) OBVIOUS
<1>3. /\ u \in Seq(A) /\ Len(u) = Len(text) - i + 1
      /\ \A k \in 1..(Len(text) - i + 1) : u[k] = text[i + k - 1]
  BY <1>2, FromIs
<1>4. j \in 1..(Len(u) + 1) BY <1>3
<1>5. /\ From(u, j) \in Seq(A) /\ Len(From(u, j)) = Len(u) - j + 1
      /\ \A k \in 1..(Len(u) - j + 1) : From(u, j)[k] = u[j + k - 1]
  BY <1>3, <1>4, FromIs
<1>6. /\ From(text, i + j - 1) \in Seq(A)
      /\ Len(From(text, i + j - 1)) = Len(text) - (i + j - 1) + 1
      /\ \A k \in 1..(Len(text) - (i + j - 1) + 1) :
           From(text, i + j - 1)[k] = text[(i + j - 1) + k - 1]
  BY <1>1, FromIs
<1>7. Len(From(u, j)) = Len(From(text, i + j - 1)) BY <1>3, <1>5, <1>6
<1>8. \A k \in 1..Len(From(u, j)) : From(u, j)[k]
        = From(text, i + j - 1)[k]
  <2> SUFFICES ASSUME NEW k \in 1..Len(From(u, j))
               PROVE From(u, j)[k] = From(text, i + j - 1)[k]
    OBVIOUS
  <2>1. From(u, j)[k] = u[j + k - 1] BY <1>3, <1>5
  <2>2. j + k - 1 \in 1..(Len(text) - i + 1) BY <1>3, <1>5
  <2>3. u[j + k - 1] = text[i + (j + k - 1) - 1] BY <1>3, <2>2
  <2>4. From(text, i + j - 1)[k] = text[(i + j - 1) + k - 1] BY <1>3, <1>5, <1>6
  <2>5. i + (j + k - 1) - 1 = (i + j - 1) + k - 1 BY <1>3, <1>5
  <2> QED BY <2>1, <2>3, <2>4, <2>5
<1> QED BY <1>2, <1>5, <1>6, <1>7, <1>8, SeqEqual

LEMMA FromConcat ==
  ASSUME NEW A, NEW text \in Seq(A), NEW more \in Seq(A), NEW i \in 1..(Len(text) + 1)
  PROVE  From(text \o more, i) = From(text, i) \o more
<1>1. PICK u : u = From(text, i) OBVIOUS
<1>2. PICK whole : whole = text \o more OBVIOUS
<1>3. /\ whole \in Seq(A) /\ Len(whole) = Len(text) + Len(more)
      /\ \A k \in 1..(Len(text) + Len(more)) :
           whole[k] = IF k <= Len(text) THEN text[k] ELSE more[k - Len(text)]
  BY <1>2, ConcatProperties
<1>4. /\ u \in Seq(A) /\ Len(u) = Len(text) - i + 1
      /\ \A k \in 1..(Len(text) - i + 1) : u[k] = text[i + k - 1]
  BY <1>1, FromIs
<1>5. /\ u \o more \in Seq(A) /\ Len(u \o more) = Len(u) + Len(more)
      /\ \A k \in 1..(Len(u) + Len(more)) :
           (u \o more)[k] = IF k <= Len(u) THEN u[k] ELSE more[k - Len(u)]
  BY <1>4, ConcatProperties
<1>6. i \in 1..(Len(whole) + 1) BY <1>3
<1>7. /\ From(whole, i) \in Seq(A)
      /\ Len(From(whole, i)) = Len(whole) - i + 1
      /\ \A k \in 1..(Len(whole) - i + 1) : From(whole, i)[k] = whole[i + k - 1]
  BY <1>3, <1>6, FromIs
<1>8. Len(From(whole, i)) = Len(u \o more) BY <1>3, <1>4, <1>5, <1>7
<1>9. \A k \in 1..Len(From(whole, i)) : From(whole, i)[k] = (u \o more)[k]
  <2> SUFFICES ASSUME NEW k \in 1..Len(From(whole, i))
               PROVE  From(whole, i)[k] = (u \o more)[k]
    OBVIOUS
  <2>1. /\ Len(text) \in Nat /\ Len(more) \in Nat /\ i \in Nat /\ k \in Nat
        /\ 1 <= i /\ i <= Len(text) + 1 /\ 1 <= k /\ k <= Len(text) + Len(more) - i + 1
    BY <1>3, <1>7
  <2>2. From(whole, i)[k] = whole[i + k - 1] BY <1>3, <1>7, <2>1
  <2>3. i + k - 1 \in 1..(Len(text) + Len(more)) BY <2>1
  <2>4. CASE k <= Len(u)
    <3>0. i + k - 1 <= Len(text) /\ k \in 1..(Len(text) - i + 1)
            /\ k \in 1..(Len(u) + Len(more))
      BY <1>4, <2>1, <2>4
    <3>1. whole[i + k - 1] = text[i + k - 1] BY <1>3, <2>3, <3>0
    <3>2. u[k] = text[i + k - 1] BY <1>4, <3>0
    <3>3. (u \o more)[k] = u[k] BY <1>5, <2>4, <3>0
    <3> QED BY <2>2, <3>1, <3>2, <3>3
  <2>5. CASE ~(k <= Len(u))
    <3>0. ~(i + k - 1 <= Len(text)) BY <1>4, <2>1, <2>5
    <3>1. whole[i + k - 1] = more[(i + k - 1) - Len(text)] BY <1>3, <2>3, <3>0
    <3>2. (u \o more)[k] = more[k - Len(u)] BY <1>4, <1>5, <2>1, <2>5
    <3>3. (i + k - 1) - Len(text) = k - Len(u) BY <1>4, <2>1
    <3> QED BY <2>2, <3>1, <3>2, <3>3
  <2> QED BY <2>4, <2>5
<1> QED BY <1>1, <1>2, <1>5, <1>7, <1>8, <1>9, SeqEqual

LEMMA FirstAndRest ==
  ASSUME NEW A, NEW text \in Seq(A), text # <<>>
  PROVE  /\ text[1] \in A /\ text = <<text[1]>> \o From(text, 2)
         /\ From(text, 2) \in Seq(A) /\ Len(From(text, 2)) = Len(text) - 1
<1>1. Len(text) \in Nat /\ Len(text) >= 1 /\ text[1] \in A BY EmptySeq
<1>2. SubSeq(text, 1, Len(text)) = <<text[1]>> \o SubSeq(text, 2, Len(text))
  <2>1. 1 \in 1..Len(text) /\ Len(text) \in 1..Len(text) /\ 1 + 1 = 2 BY <1>1
  <2> QED BY <2>1, SubSeqRecursiveFirst
<1>3. SubSeq(text, 1, Len(text)) = text
  <2>1. /\ SubSeq(text, 1, Len(text)) \in Seq(A)
        /\ Len(SubSeq(text, 1, Len(text))) = Len(text)
        /\ \A i \in 1..Len(text) : SubSeq(text, 1, Len(text))[i] = text[i]
    BY <1>1
  <2> QED BY <2>1, SeqEqual
<1>4. 2 \in 1..(Len(text) + 1) BY <1>1
<1> QED BY <1>1, <1>2, <1>3, <1>4, FromIs DEF From

LEMMA Begins ==
  ASSUME NEW A, NEW x \in Seq(A), NEW t \in Seq(A)
  PROVE  IsPrefix(x, t) <=> Len(x) <= Len(t) /\ \A i \in 1..Len(x) : x[i] = t[i]
<1> SUFFICES ASSUME Len(x) <= Len(t)
             PROVE  SubSeq(x, 1, Len(x)) = SubSeq(t, 1, Len(x))
                    <=> \A i \in 1..Len(x) : x[i] = t[i]
  BY DEF IsPrefix
<1>1. Len(x) \in Nat /\ Len(t) \in Nat OBVIOUS
<1>2. PICK u : u = SubSeq(x, 1, Len(x)) OBVIOUS
<1>3. PICK v : v = SubSeq(t, 1, Len(x)) OBVIOUS
<1>4. /\ u \in Seq(A) /\ Len(u) = Len(x) /\ \A i \in 1..Len(x) : u[i] = x[i]
      /\ v \in Seq(A) /\ Len(v) = Len(x) /\ \A i \in 1..Len(x) : v[i] = t[i]
  BY <1>1, <1>2, <1>3, SubSeqProperties
<1>5. u = v <=> \A i \in 1..Len(x) : u[i] = v[i] BY <1>4, SeqEqual
<1> QED BY <1>2, <1>3, <1>4, <1>5

(* Of two that begin one text, one begins the other.                         *)
LEMMA BeginsOne ==
  ASSUME NEW A, NEW x \in Seq(A), NEW t \in Seq(A), NEW text \in Seq(A),
         IsPrefix(x, text), IsPrefix(t, text), Len(x) <= Len(t)
  PROVE  IsPrefix(x, t)
  BY Begins

LEMMA BeginsConcat ==
  ASSUME NEW A, NEW x \in Seq(A), NEW text \in Seq(A), NEW more \in Seq(A)
  PROVE  /\ IsPrefix(x, text) => IsPrefix(x, text \o more)
         /\ IsPrefix(text, text \o more)
         /\ IsPrefix(x, text \o more)
              => IsPrefix(x, text) \/ IsPrefix(text, x)
         /\ IsPrefix(text \o more, x) => IsPrefix(text, x)
<1>1. PICK whole : whole = text \o more OBVIOUS
<1>2. /\ whole \in Seq(A) /\ Len(whole) = Len(text) + Len(more)
      /\ \A k \in 1..(Len(text) + Len(more)) :
           whole[k] = IF k <= Len(text) THEN text[k] ELSE more[k - Len(text)]
  BY <1>1, ConcatProperties
<1>3. Len(x) \in Nat /\ Len(text) \in Nat /\ Len(more) \in Nat OBVIOUS
<1>4. \A k \in 1..Len(text) : whole[k] = text[k]
  <2> SUFFICES ASSUME NEW k \in 1..Len(text) PROVE whole[k] = text[k] OBVIOUS
  <2>1. k \in 1..(Len(text) + Len(more)) /\ k <= Len(text) BY <1>3
  <2> QED BY <1>2, <2>1
<1>5. IsPrefix(x, text) => IsPrefix(x, whole)
  <2>1. IsPrefix(x, text)
          <=> Len(x) <= Len(text) /\ \A i \in 1..Len(x) : x[i] = text[i]
    BY Begins
  <2>2. IsPrefix(x, whole)
          <=> Len(x) <= Len(whole) /\ \A i \in 1..Len(x) : x[i] = whole[i]
    BY <1>2, Begins
  <2> QED BY <1>2, <1>3, <1>4, <2>1, <2>2
<1>6. IsPrefix(text, whole)
  <2>1. Len(text) <= Len(whole) BY <1>2, <1>3
  <2>2. IsPrefix(text, whole)
          <=> Len(text) <= Len(whole) /\ \A i \in 1..Len(text) : text[i] = whole[i]
    BY <1>2, Begins
  <2> QED BY <1>4, <2>1, <2>2
<1>7. IsPrefix(x, whole) => IsPrefix(x, text) \/ IsPrefix(text, x)
  <2>1. CASE Len(x) <= Len(text) BY <1>2, <1>6, <2>1, BeginsOne
  <2>2. CASE Len(text) <= Len(x) BY <1>2, <1>6, <2>2, BeginsOne
  <2> QED BY <1>3, <2>1, <2>2
<1>8. IsPrefix(whole, x) => IsPrefix(text, x) BY <1>2, <1>3, <1>4, Begins
<1> QED BY <1>1, <1>5, <1>6, <1>7, <1>8

-----------------------------------------------------------------------------
(* The secrets a writer may be created with are texts, none of them empty.   *)
SecretsTyped == secrets \subseteq Seq(Alphabet) /\ <<>> \notin secrets

LEMMA MatchedSecret ==
  ASSUME SecretsTyped, NEW rest \in Seq(Alphabet)
  PROVE  IF \E x \in secrets : IsPrefix(x, rest)
         THEN /\ matchAt(rest) \in secrets
              /\ IsPrefix(matchAt(rest), rest)
              /\ matchAt(rest) # <<>>
              /\ Len(matchAt(rest)) \in 1..Len(rest)
         ELSE matchAt(rest) = <<>>
<1>1. PICK M : M = {x \in secrets : IsPrefix(x, rest)} OBVIOUS
<1>2. CASE M = {} BY <1>1, <1>2 DEF matchAt
<1>3. CASE M # {}
  <2>1. \A x \in M : /\ x \in secrets /\ IsPrefix(x, rest) /\ x # <<>>
                     /\ Len(x) \in Nat /\ Len(x) \in 1..Len(rest)
    <3> SUFFICES ASSUME NEW x \in M
                 PROVE x \in secrets /\ IsPrefix(x, rest) /\ x # <<>>
                                          /\ Len(x) \in Nat /\ Len(x) \in 1..Len(rest)
      OBVIOUS
    <3>1. x \in Seq(Alphabet) /\ x # <<>> /\ IsPrefix(x, rest) BY <1>1 DEF SecretsTyped
    <3>2. Len(x) \in Nat \ {0} BY <3>1, EmptySeq
    <3>3. Len(x) <= Len(rest) BY <3>1 DEF IsPrefix
    <3> QED BY <1>1, <3>1, <3>2, <3>3
  <2>2. \E x \in M : \A t \in M : Len(t) <= Len(x)
    <3> SUFFICES ASSUME \A x \in M : \E t \in M : ~(Len(t) <= Len(x)) PROVE FALSE
      OBVIOUS
    <3>1. PICK T : T = {n \in Nat : \E x \in M : Len(x) >= n} OBVIOUS
    <3>2. 0 \in T BY <1>3, <2>1, <3>1
    <3>3. \A n \in Nat : n \in T => n + 1 \in T
      <4> SUFFICES ASSUME NEW n \in Nat, NEW x \in M, Len(x) >= n PROVE n + 1 \in T
        BY <3>1
      <4>1. PICK t \in M : ~(Len(t) <= Len(x)) OBVIOUS
      <4>2. Len(t) >= n + 1 BY <2>1, <4>1
      <4> QED BY <3>1, <4>2
    <3>4. Len(rest) + 1 \in T BY <3>2, <3>3, Counting
    <3> QED BY <2>1, <3>1, <3>4
  <2>3. matchAt(rest) = CHOOSE x \in M : \A t \in M : Len(t) <= Len(x)
    BY <1>1, <1>3 DEF matchAt
  <2>4. matchAt(rest) \in M BY <2>2, <2>3
  <2> QED BY <1>1, <1>3, <2>1, <2>4
<1> QED BY <1>2, <1>3

(* What consume makes of the text from index on, where it goes on with g.    *)
Scanned(text, final, g, index) ==
  LET rest == From(text, index)
      secret == matchAt(rest)
  IN CASE rest = <<>> -> [out |-> <<>>, keep |-> <<>>]
       [] rest # <<>> /\ secret # <<>> ->
            [g[index + Len(secret)] EXCEPT !.out = <<Mask>> \o @]
       [] rest # <<>> /\ secret = <<>> /\ ~final /\ startsIncompleteSecret(rest) ->
            [out |-> <<>>, keep |-> rest]
       [] OTHER -> [g[index + 1] EXCEPT !.out = <<text[index]>> \o @]

Scans(text, final, scan) ==
  \A i \in 1..(Len(text) + 1) : scan[i] = Scanned(text, final, scan, i)

LEMMA ScanAhead ==
  ASSUME SecretsTyped, NEW text \in Seq(Alphabet), NEW i \in 1..(Len(text) + 1)
  PROVE  /\ From(text, i) = <<>> <=> i = Len(text) + 1
         /\ From(text, i) # <<>> => i + 1 \in (i + 1)..(Len(text) + 1)
         /\ matchAt(From(text, i)) # <<>> =>
              i + Len(matchAt(From(text, i))) \in (i + 1)..(Len(text) + 1)
<1>1. From(text, i) \in Seq(Alphabet)
        /\ Len(From(text, i)) = Len(text) - i + 1
  BY FromIs
<1>2. Len(text) \in Nat /\ i \in Nat OBVIOUS
<1>3. From(text, i) = <<>> <=> i = Len(text) + 1
  <2>1. From(text, i) = <<>> <=> Len(From(text, i)) = 0 BY <1>1, EmptySeq
  <2> QED BY <1>1, <1>2, <2>1
<1>4. matchAt(From(text, i)) # <<>>
        => Len(matchAt(From(text, i))) \in 1..Len(From(text, i))
  BY <1>1, MatchedSecret
<1> QED BY <1>1, <1>2, <1>3, <1>4

LEMMA ScannedSame ==
  ASSUME NEW text, NEW final, NEW g, NEW h, NEW i,
         From(text, i) # <<>> => g[i + 1] = h[i + 1],
         matchAt(From(text, i)) # <<>> =>
           g[i + Len(matchAt(From(text, i)))]
             = h[i + Len(matchAt(From(text, i)))]
  PROVE  Scanned(text, final, g, i) = Scanned(text, final, h, i)
  BY DEF Scanned

LEMMA ConsumeUnfolds ==
  ASSUME SecretsTyped, NEW text \in Seq(Alphabet), NEW final
  PROVE  \E scan : consume(text, final) = scan[1] /\ Scans(text, final, scan)
<1> DEFINE L == Len(text)
           Rec == CHOOSE g : g = [i \in 1..(L + 1) |-> Scanned(text, final, g, i)]
<1>1. consume(text, final) = Rec[1] BY DEF consume, Scanned
<1>2. L \in Nat OBVIOUS
<1>3. PICK T : T = {m \in Nat : m <= L =>
                      \E g : g = [i \in (L + 1 - m)..(L + 1) |-> Scanned(text, final, g, i)]}
  OBVIOUS
<1>4. 0 \in T
  <2>1. From(text, L + 1) = <<>> BY <1>2, ScanAhead
  <2>2. \A g : Scanned(text, final, g, L + 1) = [out |-> <<>>, keep |-> <<>>]
    BY <2>1 DEF Scanned
  <2>3. PICK g : g = [i \in (L + 1)..(L + 1) |-> [out |-> <<>>, keep |-> <<>>]] OBVIOUS
  <2>4. \A i \in (L + 1)..(L + 1) : i = L + 1 BY <1>2
  <2>5. g = [i \in (L + 1)..(L + 1) |-> Scanned(text, final, g, i)] BY <2>2, <2>3, <2>4
  <2>6. L + 1 - 0 = L + 1 BY <1>2
  <2> QED BY <1>3, <2>5, <2>6
<1>5. \A m \in Nat : m \in T => m + 1 \in T
  <2> SUFFICES ASSUME NEW m \in Nat, m + 1 <= L, NEW g,
                      g = [i \in (L + 1 - m)..(L + 1) |-> Scanned(text, final, g, i)]
               PROVE  \E h : h = [i \in (L + 1 - (m + 1))..(L + 1)
                        |-> Scanned(text, final, h, i)]
    BY <1>2, <1>3
  <2>1. PICK h : h = [i \in (L + 1 - (m + 1))..(L + 1) |-> Scanned(text, final, g, i)] OBVIOUS
  <2>2. \A i \in (L + 1 - m)..(L + 1) : h[i] = g[i]
    <3>1. \A i \in (L + 1 - m)..(L + 1) : i \in (L + 1 - (m + 1))..(L + 1) BY <1>2
    <3> QED BY <2>1, <3>1
  <2>3. ASSUME NEW i \in (L + 1 - (m + 1))..(L + 1)
        PROVE  Scanned(text, final, g, i) = Scanned(text, final, h, i)
    <3>1. i \in 1..(L + 1) BY <1>2
    <3>2. \A k \in (i + 1)..(L + 1) : k \in (L + 1 - m)..(L + 1) BY <1>2
    <3>3. \A k \in (i + 1)..(L + 1) : g[k] = h[k] BY <2>2, <3>2
    <3>4. /\ From(text, i) # <<>> => i + 1 \in (i + 1)..(L + 1)
          /\ matchAt(From(text, i)) # <<>> =>
               i + Len(matchAt(From(text, i))) \in (i + 1)..(L + 1)
      BY <3>1, ScanAhead
    <3>5. /\ From(text, i) # <<>> => g[i + 1] = h[i + 1]
          /\ matchAt(From(text, i)) # <<>> =>
               g[i + Len(matchAt(From(text, i)))]
                 = h[i + Len(matchAt(From(text, i)))]
      BY <3>3, <3>4
    <3> QED BY <3>5, ScannedSame
  <2>4. h = [i \in (L + 1 - (m + 1))..(L + 1) |-> Scanned(text, final, h, i)]
    BY <2>1, <2>3
  <2> QED BY <2>4
<1>6. L \in T BY <1>2, <1>4, <1>5, Counting
<1>7. \E g : g = [i \in 1..(L + 1) |-> Scanned(text, final, g, i)]
  <2>1. L + 1 - L = 1 BY <1>2
  <2> QED BY <1>2, <1>3, <1>6, <2>1
<1>8. Rec = [i \in 1..(L + 1) |-> Scanned(text, final, Rec, i)] BY <1>7
<1> HIDE DEF Rec
<1>9. \A i \in 1..(L + 1) : Rec[i] = Scanned(text, final, Rec, i)
  <2>1. PICK r : r = Rec OBVIOUS
  <2>2. r = [i \in 1..(L + 1) |-> Scanned(text, final, r, i)] BY <1>8, <2>1
  <2> QED BY <2>1, <2>2
<1>10. Scans(text, final, Rec) BY <1>9 DEF Scans
<1> WITNESS Rec
<1> QED BY <1>1, <1>10

(* Where a scan is says all about what is to come.                           *)
LEMMA ScanSuffix ==
  ASSUME SecretsTyped, NEW text \in Seq(Alphabet), NEW final, NEW scan,
           Scans(text, final, scan),
         NEW from \in 1..(Len(text) + 1)
  PROVE  consume(From(text, from), final) = scan[from]
<1>1. PICK u : u = From(text, from) OBVIOUS
<1>2. PICK L : L = Len(u) OBVIOUS
<1>3. /\ u \in Seq(Alphabet) /\ L = Len(text) - from + 1 /\ L \in Nat
      /\ Len(text) \in Nat /\ from \in Nat
      /\ \A j \in 1..L : u[j] = text[from + j - 1]
  <2>1. /\ u \in Seq(Alphabet) /\ Len(u) = Len(text) - from + 1
        /\ \A j \in 1..(Len(text) - from + 1) : u[j] = text[from + j - 1]
    BY <1>1, FromIs
  <2>2. /\ Len(text) \in Nat /\ from \in Nat /\ from <= Len(text) + 1
        /\ L = Len(text) - from + 1
    BY <1>2, <2>1
  <2>3. L \in Nat BY <2>2
  <2>4. \A j \in 1..L : u[j] = text[from + j - 1] BY <2>1, <2>2
  <2> QED BY <2>1, <2>2, <2>3, <2>4
<1>4. PICK own : /\ consume(u, final) = own[1]
                 /\ \A i \in 1..(L + 1) : own[i] = Scanned(u, final, own, i)
  <2>1. \E own : consume(u, final) = own[1] /\ Scans(u, final, own)
    BY <1>3, ConsumeUnfolds
  <2> QED BY <1>2, <2>1 DEF Scans
<1>5. ASSUME NEW j \in 1..(L + 1),
             \A k \in (j + 1)..(L + 1) : own[k] = scan[from + k - 1]
      PROVE  own[j] = scan[from + j - 1]
  <2>1. PICK i : i = from + j - 1 OBVIOUS
  <2>2. i \in 1..(Len(text) + 1) /\ j \in 1..(Len(text) - from + 2) BY <1>3, <2>1
  <2>3. PICK rest : rest = From(u, j) OBVIOUS
  <2>4. rest = From(text, i) BY <1>1, <2>1, <2>2, <2>3, FromFrom
  <2>5. own[j] = Scanned(u, final, own, j) BY <1>4
  <2>6. scan[i] = Scanned(text, final, scan, i) BY <2>2 DEF Scans
  <2>7. PICK secret : secret = matchAt(rest) OBVIOUS
  <2>8. /\ rest = <<>> <=> j = L + 1
        /\ rest # <<>> => j + 1 \in (j + 1)..(L + 1)
        /\ secret # <<>> => j + Len(secret) \in (j + 1)..(L + 1)
    BY <1>2, <1>3, <2>3, <2>7, ScanAhead
  <2>9. rest # <<>> => own[j + 1] = scan[i + 1]
    <3>1. rest # <<>> => own[j + 1] = scan[from + (j + 1) - 1] BY <1>5, <2>8
    <3>2. from + (j + 1) - 1 = i + 1 BY <1>3, <2>1
    <3> QED BY <3>1, <3>2
  <2>10. secret # <<>> => own[j + Len(secret)] = scan[i + Len(secret)]
    <3> SUFFICES ASSUME secret # <<>> PROVE own[j + Len(secret)] = scan[i + Len(secret)]
      OBVIOUS
    <3>1. own[j + Len(secret)] = scan[from + (j + Len(secret)) - 1] BY <1>5, <2>8
    <3>2. Len(secret) \in Nat
      <4>1. rest \in Seq(Alphabet) BY <2>2, <2>4, FromIs
      <4> QED BY <2>7, <4>1, MatchedSecret
    <3>3. from + (j + Len(secret)) - 1 = i + Len(secret) BY <1>3, <2>1, <3>2
    <3> QED BY <3>1, <3>3
  <2>11. rest # <<>> => u[j] = text[i] BY <1>3, <2>1, <2>8
  <2> QED BY <2>1, <2>3, <2>4, <2>5, <2>6, <2>7, <2>9, <2>10, <2>11 DEF Scanned
<1>6. PICK T : T = {m \in Nat : \A k \in 1..(L + 1) :
                                 k >= L + 1 - m => own[k] = scan[from + k - 1]}
  OBVIOUS
<1>7. 0 \in T
  <2> SUFFICES ASSUME NEW k \in 1..(L + 1), k >= L + 1 - 0 PROVE own[k] = scan[from + k - 1]
    BY <1>6
  <2>1. (k + 1)..(L + 1) = {} BY <1>3
  <2> QED BY <1>5, <2>1
<1>8. \A m \in Nat : m \in T => m + 1 \in T
  <2> SUFFICES ASSUME NEW m \in Nat, m \in T, NEW j \in 1..(L + 1), j >= L + 1 - (m + 1)
               PROVE  own[j] = scan[from + j - 1]
    <3>1. \A m \in Nat : m + 1 \in Nat OBVIOUS
    <3> QED BY <1>6, <3>1
  <2>1. \A k \in (j + 1)..(L + 1) : k \in 1..(L + 1) /\ k >= L + 1 - m BY <1>3
  <2> QED BY <1>5, <1>6, <2>1
<1>9. L \in T BY <1>3, <1>7, <1>8, Counting
<1>10. own[1] = scan[from]
  <2>1. 1 \in 1..(L + 1) /\ 1 >= L + 1 - L /\ from + 1 - 1 = from BY <1>3
  <2> QED BY <1>6, <1>9, <2>1
<1> QED BY <1>1, <1>4, <1>10

LEMMA ConsumeStep ==
  ASSUME SecretsTyped, NEW text \in Seq(Alphabet), NEW final
  PROVE  consume(text, final) =
           IF text = <<>> THEN [out |-> <<>>, keep |-> <<>>]
           ELSE IF matchAt(text) # <<>>
           THEN [consume(From(text, 1 + Len(matchAt(text))),
                  final)
                   EXCEPT !.out = <<Mask>> \o @]
           ELSE IF ~final /\ startsIncompleteSecret(text)
           THEN [out |-> <<>>, keep |-> text]
           ELSE [consume(From(text, 2), final)
                   EXCEPT !.out = <<text[1]>> \o @]
<1>1. PICK scan : consume(text, final) = scan[1] /\ Scans(text, final, scan)
  BY ConsumeUnfolds
<1>2. 1 \in 1..(Len(text) + 1) OBVIOUS
<1>3. From(text, 1) = text
  <2>1. /\ From(text, 1) \in Seq(Alphabet) /\ Len(From(text, 1)) = Len(text)
        /\ \A j \in 1..Len(text) : From(text, 1)[j] = text[j]
    BY <1>2, FromIs
  <2> QED BY <2>1, SeqEqual
<1>4. scan[1] = Scanned(text, final, scan, 1) BY <1>1, <1>2 DEF Scans
<1>5. ASSUME NEW i \in 1..(Len(text) + 1)
      PROVE scan[i] = consume(From(text, i), final)
  BY <1>1, ScanSuffix
<1>6. text # <<>> => scan[2] = consume(From(text, 2), final)
  <2>1. text # <<>> => 2 \in 1..(Len(text) + 1) BY EmptySeq
  <2> QED BY <1>5, <2>1
<1>7. matchAt(text) # <<>> =>
        scan[1 + Len(matchAt(text))]
          = consume(From(text, 1 + Len(matchAt(text))), final)
  <2>1. matchAt(text) # <<>>
          => 1 + Len(matchAt(text)) \in 1..(Len(text) + 1)
    BY MatchedSecret
  <2> QED BY <1>5, <2>1
<1>8. text = <<>> => matchAt(text) = <<>>
  <2>1. matchAt(text) # <<>> => Len(matchAt(text)) \in 1..Len(text) BY MatchedSecret
  <2> QED BY <2>1
<1>9. CASE text = <<>> BY <1>1, <1>3, <1>4, <1>9 DEF Scanned
<1>10. CASE text # <<>> /\ matchAt(text) # <<>>
  BY <1>1, <1>3, <1>4, <1>7, <1>10 DEF Scanned
<1>11. CASE text # <<>> /\ matchAt(text) = <<>> /\ ~final
              /\ startsIncompleteSecret(text)
  BY <1>1, <1>3, <1>4, <1>11 DEF Scanned
<1>12. CASE text # <<>> /\ matchAt(text) = <<>>
              /\ ~(~final /\ startsIncompleteSecret(text))
  <2>1. scan[1] = [scan[1 + 1] EXCEPT !.out = <<text[1]>> \o @]
    BY <1>3, <1>4, <1>12 DEF Scanned
  <2>2. scan[1 + 1] = consume(From(text, 2), final) BY <1>6, <1>12
  <2> QED BY <1>1, <1>12, <2>1, <2>2
<1> QED BY <1>8, <1>9, <1>10, <1>11, <1>12

(* What consume passes on and keeps: texts, and only what may become a       *)
(* secret is kept.                                                           *)
Consumed == [out : Seq(Alphabet \cup {Mask}), keep : Seq(Alphabet)]

LEMMA Shorter ==
  ASSUME SecretsTyped, NEW text \in Seq(Alphabet), text # <<>>
  PROVE  /\ From(text, 2) \in Seq(Alphabet)
         /\ Len(From(text, 2)) < Len(text)
         /\ matchAt(text) # <<>> =>
              /\ From(text, 1 + Len(matchAt(text))) \in Seq(Alphabet)
              /\ Len(From(text, 1 + Len(matchAt(text)))) < Len(text)
<1>1. Len(text) \in Nat /\ Len(text) >= 1 BY EmptySeq
<1>2. 2 \in 1..(Len(text) + 1) BY <1>1
<1>3. From(text, 2) \in Seq(Alphabet) /\ Len(From(text, 2)) < Len(text)
  BY <1>1, <1>2, FromIs
<1>4. ASSUME matchAt(text) # <<>>
      PROVE  /\ From(text, 1 + Len(matchAt(text))) \in Seq(Alphabet)
             /\ Len(From(text, 1 + Len(matchAt(text)))) < Len(text)
  <2>1. Len(matchAt(text)) \in 1..Len(text) BY <1>4, MatchedSecret
  <2>2. PICK k : k = 1 + Len(matchAt(text)) OBVIOUS
  <2>3. k \in 1..(Len(text) + 1) /\ k >= 2 BY <1>1, <2>1, <2>2
  <2>4. From(text, k) \in Seq(Alphabet)
          /\ Len(From(text, k)) = Len(text) - k + 1
    BY <2>3, FromIs
  <2> QED BY <1>1, <2>2, <2>3, <2>4
<1> QED BY <1>3, <1>4

LEMMA ConsumeTyped ==
  ASSUME SecretsTyped, NEW text \in Seq(Alphabet), NEW final
  PROVE  /\ consume(text, final) \in Consumed
         /\ consume(text, final).keep # <<>> =>
              ~final /\ startsIncompleteSecret(consume(text, final).keep)
<1> DEFINE Typed(t) == /\ consume(t, final) \in Consumed
                       /\ consume(t, final).keep # <<>> =>
                            ~final /\ startsIncompleteSecret(consume(t,
                              final).keep)
<1>1. PICK T : T = {n \in Nat : \A t \in Seq(Alphabet) : Len(t) <= n => Typed(t)} OBVIOUS
<1>2. ASSUME NEW t \in Seq(Alphabet), \A u \in Seq(Alphabet) : Len(u) < Len(t) => Typed(u)
      PROVE  Typed(t)
  <2>1. CASE t = <<>>
    <3>1. consume(t, final) = [out |-> <<>>, keep |-> <<>>] BY <2>1, ConsumeStep
    <3> QED BY <3>1 DEF Consumed
  <2>2. CASE t # <<>> /\ matchAt(t) # <<>>
    <3>1. PICK u : u = From(t, 1 + Len(matchAt(t))) OBVIOUS
    <3>2. Typed(u) BY <1>2, <2>2, <3>1, Shorter
    <3>3. consume(t, final)
            = [consume(u, final) EXCEPT !.out = <<Mask>> \o @]
      BY <2>2, <3>1, ConsumeStep
    <3>4. PICK after \in Consumed : after = consume(u, final) BY <3>2
    <3>5. <<Mask>> \o after.out \in Seq(Alphabet \cup {Mask})
      <4>1. <<Mask>> \in Seq(Alphabet \cup {Mask}) OBVIOUS
      <4> QED BY <4>1, ConcatProperties DEF Consumed
    <3>6. consume(t, final) = [out |-> <<Mask>> \o after.out, keep |-> after.keep]
      BY <3>3, <3>4 DEF Consumed
    <3> QED BY <3>2, <3>4, <3>5, <3>6 DEF Consumed
  <2>3. CASE t # <<>> /\ matchAt(t) = <<>> /\ ~final
               /\ startsIncompleteSecret(t)
    <3>1. consume(t, final) = [out |-> <<>>, keep |-> t] BY <2>3, ConsumeStep
    <3> QED BY <2>3, <3>1 DEF Consumed
  <2>4. CASE t # <<>> /\ matchAt(t) = <<>>
               /\ ~(~final /\ startsIncompleteSecret(t))
    <3>1. PICK u : u = From(t, 2) OBVIOUS
    <3>2. Typed(u) BY <1>2, <2>4, <3>1, Shorter
    <3>3. consume(t, final)
            = [consume(u, final) EXCEPT !.out = <<t[1]>> \o @]
      BY <2>4, <3>1, ConsumeStep
    <3>4. PICK after \in Consumed : after = consume(u, final) BY <3>2
    <3>5. <<t[1]>> \o after.out \in Seq(Alphabet \cup {Mask})
      <4>1. t[1] \in Alphabet BY <2>4, FirstAndRest
      <4>2. <<t[1]>> \in Seq(Alphabet \cup {Mask}) BY <4>1
      <4> QED BY <4>2, ConcatProperties DEF Consumed
    <3>6. consume(t, final) = [out |-> <<t[1]>> \o after.out, keep |-> after.keep]
      BY <3>3, <3>4 DEF Consumed
    <3> QED BY <3>2, <3>4, <3>5, <3>6 DEF Consumed
  <2> QED BY <2>1, <2>2, <2>3, <2>4
<1> HIDE DEF Typed
<1>3. 0 \in T
  <2> SUFFICES ASSUME NEW t \in Seq(Alphabet), Len(t) <= 0 PROVE Typed(t) BY <1>1
  <2>1. \A u \in Seq(Alphabet) : ~(Len(u) < Len(t)) OBVIOUS
  <2> QED BY <1>2, <2>1
<1>4. \A n \in Nat : n \in T => n + 1 \in T
  <2> SUFFICES ASSUME NEW n \in Nat, n \in T, NEW t \in Seq(Alphabet), Len(t) <= n + 1
               PROVE  Typed(t)
    BY <1>1
  <2>1. \A u \in Seq(Alphabet) : Len(u) < Len(t) => Len(u) <= n OBVIOUS
  <2> QED BY <1>1, <1>2, <2>1
<1>5. Len(text) \in T BY <1>3, <1>4, Counting
<1>6. Typed(text) BY <1>1, <1>5
<1> QED BY <1>6 DEF Typed

LEMMA ConcatFirst ==
  ASSUME NEW B, NEW sign \in B, NEW x \in Seq(B), NEW t \in Seq(B)
  PROVE  <<sign>> \o (x \o t) = (<<sign>> \o x) \o t
<1>1. <<sign>> \in Seq(B) OBVIOUS
<1> QED BY <1>1, ConcatAssociative

LEMMA ConcatMiddle ==
  ASSUME NEW B, NEW x \in Seq(B), NEW sign \in B, NEW t \in Seq(B)
  PROVE  (x \o <<sign>>) \o t = x \o (<<sign>> \o t)
<1>1. <<sign>> \in Seq(B) OBVIOUS
<1> QED BY <1>1, ConcatAssociative

(* Whatever comes after a text: what is passed on before it is final.        *)
LEMMA Split ==
  ASSUME SecretsTyped, PrefixFree, NEW yes, yes, NEW no, ~no,
         NEW text \in Seq(Alphabet), NEW more \in Seq(Alphabet)
  PROVE  consume(text \o more, yes).out =
           consume(text, no).out
             \o consume(consume(text, no).keep \o more, yes).out
<1> DEFINE Splits(t) == consume(t \o more, yes).out =
                          consume(t, no).out
                            \o consume(consume(t, no).keep \o more, yes).out
<1>7. PICK B : B = Alphabet \cup {Mask} OBVIOUS
<1>0. \A t \in Seq(Alphabet) : \A final : consume(t, final) \in Consumed BY ConsumeTyped
<1>1. PICK T : T = {n \in Nat : \A t \in Seq(Alphabet) : Len(t) <= n => Splits(t)} OBVIOUS
<1>2. ASSUME NEW t \in Seq(Alphabet), \A u \in Seq(Alphabet) : Len(u) < Len(t) => Splits(u)
      PROVE  Splits(t)
  <2>0. PICK both \in Seq(Alphabet) : both = t \o more BY ConcatProperties
  <2>1. ASSUME t = <<>> \/ (matchAt(t) = <<>> /\ startsIncompleteSecret(t))
        PROVE  Splits(t)
    <3>1. matchAt(<<>>) = <<>>
      <4>1. matchAt(<<>>) # <<>> => Len(matchAt(<<>>)) \in 1..Len(<<>>)
        BY EmptySeq, MatchedSecret
      <4> QED BY <4>1, EmptySeq
    <3>2. consume(t, no) = [out |-> <<>>, keep |-> t]
      <4>1. CASE t = <<>> BY <4>1, ConsumeStep
      <4>2. CASE t # <<>> BY <2>1, <4>2, ConsumeStep
      <4> QED BY <4>1, <4>2
    <3>3. consume(both, yes).out \in Seq(B) BY <1>7, <1>0 DEF Consumed
    <3>4. <<>> \o consume(both, yes).out = consume(both, yes).out BY <3>3, ConcatEmptySeq
    <3>5. consume(t, no).out = <<>> /\ consume(t, no).keep = t BY <3>2
    <3>6. consume(t, no).out
            \o consume(consume(t, no).keep \o more, yes).out
            = <<>> \o consume(both, yes).out
      BY <2>0, <3>5
    <3> QED BY <2>0, <3>4, <3>6
  <2>2. ASSUME NEW sign \in B, NEW u \in Seq(Alphabet), Splits(u),
               consume(t, no)
                 = [consume(u, no) EXCEPT !.out = <<sign>> \o @],
               consume(both, yes)
                 = [consume(u \o more, yes) EXCEPT !.out = <<sign>> \o @]
        PROVE  Splits(t)
    <3>1. PICK early \in Consumed : early = consume(u, no) BY <1>0
    <3>2. early.keep \o more \in Seq(Alphabet) BY ConcatProperties DEF Consumed
    <3>3. PICK late \in Seq(B) : late = consume(early.keep \o more, yes).out
      BY <1>7, <1>0, <3>2 DEF Consumed
    <3>4. PICK full \in Consumed : full = consume(u \o more, yes)
      <4>1. u \o more \in Seq(Alphabet) BY ConcatProperties
      <4> QED BY <1>0, <4>1
    <3>5. full.out = early.out \o late BY <2>2, <3>1, <3>3, <3>4
    <3>6. consume(t, no) = [out |-> <<sign>> \o early.out, keep |-> early.keep]
      BY <2>2, <3>1 DEF Consumed
    <3>7. consume(both, yes).out = <<sign>> \o full.out BY <2>2, <3>4 DEF Consumed
    <3>8. early.out \in Seq(B) BY <1>7 DEF Consumed
    <3>10. <<sign>> \o (early.out \o late) = (<<sign>> \o early.out) \o late
      <4>1. PICK middle \in Seq(B) : middle = early.out BY <3>8
      <4>2. <<sign>> \o (middle \o late) = (<<sign>> \o middle) \o late BY ConcatFirst
      <4> QED BY <4>1, <4>2
    <3>11. /\ consume(t, no).out = <<sign>> \o early.out
           /\ consume(t, no).keep = early.keep
      <4>1. PICK some : some = <<sign>> \o early.out OBVIOUS
      <4>2. consume(t, no) = [out |-> some, keep |-> early.keep] BY <3>6, <4>1
      <4> QED BY <4>1, <4>2
    <3>12. consume(t, no).out
             \o consume(consume(t, no).keep \o more, yes).out
             = (<<sign>> \o early.out) \o late
      BY <3>3, <3>11
    <3>13. consume(both, yes).out = <<sign>> \o (early.out \o late) BY <3>5, <3>7
    <3> QED BY <2>0, <3>10, <3>12, <3>13
  <2>3. CASE t # <<>> /\ matchAt(t) # <<>>
    <3>1. PICK key : key = matchAt(t) OBVIOUS
    <3>2. key \in secrets /\ key # <<>> /\ IsPrefix(key, t) /\ Len(key) \in 1..Len(t)
      BY <2>3, <3>1, MatchedSecret
    <3>3. key \in Seq(Alphabet) BY <3>2 DEF SecretsTyped
    <3>4. IsPrefix(key, both) BY <2>0, <3>2, <3>3, BeginsConcat
    <3>5. matchAt(both) \in secrets /\ matchAt(both) # <<>>
            /\ IsPrefix(matchAt(both), both)
      BY <3>2, <3>4, MatchedSecret
    <3>6. matchAt(both) \in Seq(Alphabet) BY <3>5 DEF SecretsTyped
    <3>7. matchAt(both) = key
      <4>1. CASE Len(key) <= Len(matchAt(both))
        <5>1. IsPrefix(key, matchAt(both)) BY <3>3, <3>4, <3>5, <3>6, <4>1, BeginsOne
        <5> QED BY <3>2, <3>5, <5>1 DEF PrefixFree, IsStrictPrefix
      <4>2. CASE Len(matchAt(both)) <= Len(key)
        <5>1. IsPrefix(matchAt(both), key) BY <3>3, <3>4, <3>5, <3>6, <4>2, BeginsOne
        <5> QED BY <3>2, <3>5, <5>1 DEF PrefixFree, IsStrictPrefix
      <4>3. Len(key) \in Nat /\ Len(matchAt(both)) \in Nat BY <3>3, <3>6
      <4> QED BY <4>1, <4>2, <4>3
    <3>8. PICK u : u = From(t, 1 + Len(key)) OBVIOUS
    <3>9. u \in Seq(Alphabet) /\ Len(u) < Len(t) BY <2>3, <3>1, <3>8, Shorter
    <3>10. From(both, 1 + Len(key)) = u \o more
      <4>1. 1 + Len(key) \in 1..(Len(t) + 1) BY <3>2
      <4> QED BY <2>0, <3>8, <4>1, FromConcat
    <3>11. both # <<>>
      <4>1. IsPrefix(key, <<>>) => Len(key) = 0 BY <3>3, EmptySeq DEF IsPrefix
      <4> QED BY <3>2, <3>4, <4>1
    <3>12. consume(t, no) = [consume(u, no) EXCEPT !.out = <<Mask>> \o @]
      BY <2>3, <3>1, <3>8, ConsumeStep
    <3>13. consume(both, yes)
             = [consume(u \o more, yes) EXCEPT !.out = <<Mask>> \o @]
      BY <3>5, <3>7, <3>10, <3>11, ConsumeStep
    <3>14. Mask \in B /\ Splits(u) BY <1>7, <1>2, <3>9
    <3> HIDE DEF Splits
    <3> QED BY <2>2, <3>9, <3>12, <3>13, <3>14
  <2>4. CASE t # <<>> /\ matchAt(t) = <<>> /\ ~startsIncompleteSecret(t)
    <3>1. matchAt(both) = <<>>
      <4> SUFFICES ASSUME NEW key \in secrets, IsPrefix(key, both) PROVE FALSE
        BY MatchedSecret
      <4>1. key \in Seq(Alphabet) BY DEF SecretsTyped
      <4>2. IsPrefix(key, t) \/ IsPrefix(t, key) BY <2>0, <4>1, BeginsConcat
      <4>3. ~IsPrefix(key, t)
        <5>1. IsPrefix(key, t) => matchAt(t) # <<>> BY MatchedSecret
        <5> QED BY <2>4, <5>1
      <4>4. IsPrefix(t, key) /\ t # key
        <5>1. IsPrefix(t, key) BY <4>2, <4>3
        <5> QED BY <4>3, <5>1
      <4> QED BY <2>4, <4>4 DEF startsIncompleteSecret, IsStrictPrefix
    <3>2. PICK u : u = From(t, 2) OBVIOUS
    <3>3. u \in Seq(Alphabet) /\ Len(u) < Len(t) BY <2>4, <3>2, Shorter
    <3>4. Len(t) \in Nat \ {0} BY <2>4, EmptySeq
    <3>5. From(both, 2) = u \o more
      <4>1. 2 \in 1..(Len(t) + 1) BY <3>4
      <4> QED BY <2>0, <3>2, <4>1, FromConcat
    <3>6. both[1] = t[1] /\ both # <<>>
      <4>1. /\ Len(both) = Len(t) + Len(more)
            /\ \A k \in 1..(Len(t) + Len(more)) :
                 both[k] = IF k <= Len(t) THEN t[k] ELSE more[k - Len(t)]
        BY <2>0, ConcatProperties
      <4>2. Len(both) # 0 /\ 1 \in 1..(Len(t) + Len(more)) /\ 1 <= Len(t) BY <3>4, <4>1
      <4> QED BY <4>1, <4>2, EmptySeq
    <3>7. consume(t, no) = [consume(u, no) EXCEPT !.out = <<t[1]>> \o @]
      BY <2>4, <3>2, ConsumeStep
    <3>8. consume(both, yes)
            = [consume(u \o more, yes) EXCEPT !.out = <<t[1]>> \o @]
      <4>1. ~(~yes /\ startsIncompleteSecret(both)) OBVIOUS
      <4>2. consume(both, yes) = [consume(From(both, 2), yes)
              EXCEPT !.out = <<both[1]>> \o @]
        BY <3>1, <3>6, <4>1, ConsumeStep
      <4> QED BY <3>5, <3>6, <4>2
    <3>9. t[1] \in B /\ Splits(u) BY <1>7, <1>2, <2>4, <3>3, FirstAndRest
    <3> HIDE DEF Splits
    <3> QED BY <2>2, <3>3, <3>7, <3>8, <3>9
  <2> HIDE DEF Splits
  <2> QED BY <2>1, <2>3, <2>4
<1> HIDE DEF Splits
<1>3. 0 \in T
  <2> SUFFICES ASSUME NEW t \in Seq(Alphabet), Len(t) <= 0 PROVE Splits(t) BY <1>1
  <2>1. \A u \in Seq(Alphabet) : ~(Len(u) < Len(t)) OBVIOUS
  <2> QED BY <1>2, <2>1
<1>4. \A n \in Nat : n \in T => n + 1 \in T
  <2> SUFFICES ASSUME NEW n \in Nat, n \in T, NEW t \in Seq(Alphabet), Len(t) <= n + 1
               PROVE  Splits(t)
    BY <1>1
  <2>1. \A u \in Seq(Alphabet) : Len(u) < Len(t) => Len(u) <= n OBVIOUS
  <2> QED BY <1>1, <1>2, <2>1
<1>5. Len(text) \in T BY <1>3, <1>4, Counting
<1>6. Splits(text) BY <1>1, <1>5
<1> QED BY <1>6 DEF Splits

(* What has left hides the secrets, and goes on hiding them whatever the     *)
(* text to come is made into: where only plain characters left, no secret    *)
(* begins that ends in the text, and while more may follow none that         *)
(* outlasts it.                                                              *)
Signs == Alphabet \cup {Mask}
Hidden(sent) == \A i \in 1..Len(sent) : \A key \in secrets : ~IsPrefix(key,
  From(sent, i))
Blocked(text, final) ==
  \A key \in secrets : ~IsPrefix(key, text)
    /\ (~final => ~IsPrefix(text, key))
Quiet(sent, rest, final) ==
  \A i \in 1..Len(sent) :
    From(sent, i) \in Seq(Alphabet) => Blocked(From(sent, i) \o rest, final)

LEMMA BeginsLast ==
  ASSUME NEW A, NEW x \in Seq(A), NEW t \in Seq(A), NEW sign \in A,
         IsPrefix(x, t \o <<sign>>), ~IsPrefix(x, t)
  PROVE  x = t \o <<sign>>
<1>1. PICK u \in Seq(A) : u = t \o <<sign>>
  <2>1. <<sign>> \in Seq(A) OBVIOUS
  <2> QED BY <2>1, ConcatProperties
<1>2. Len(u) = Len(t) + 1 /\ \A i \in 1..Len(t) : u[i] = t[i] BY <1>1
<1>3. Len(x) <= Len(u) /\ \A i \in 1..Len(x) : x[i] = u[i] BY <1>1, Begins
<1>4. ~(Len(x) <= Len(t)) BY <1>2, <1>3, Begins
<1>5. Len(x) = Len(u) BY <1>2, <1>3, <1>4
<1> QED BY <1>1, <1>3, <1>5, SeqEqual

(* One more sign that leaves.                                                *)
LEMMA OneSign ==
  ASSUME NEW sent \in Seq(Signs), NEW sign \in Signs
  PROVE  /\ sent \o <<sign>> \in Seq(Signs) /\ Len(sent \o <<sign>>) = Len(sent) + 1
         /\ \A i \in 1..(Len(sent) + 1) :
              /\ From(sent, i) \in Seq(Signs)
              /\ From(sent \o <<sign>>, i) = From(sent, i) \o <<sign>>
         /\ From(sent, Len(sent) + 1) = <<>>
<1>1. <<sign>> \in Seq(Signs) OBVIOUS
<1>2. sent \o <<sign>> \in Seq(Signs) /\ Len(sent \o <<sign>>) = Len(sent) + 1 OBVIOUS
<1>3. ASSUME NEW i \in 1..(Len(sent) + 1)
      PROVE  /\ From(sent, i) \in Seq(Signs)
             /\ From(sent \o <<sign>>, i) = From(sent, i) \o <<sign>>
  BY <1>1, FromIs, FromConcat
<1>4. From(sent, Len(sent) + 1) = <<>>
  <2>1. Len(sent) + 1 \in 1..(Len(sent) + 1) OBVIOUS
  <2>2. /\ From(sent, Len(sent) + 1) \in Seq(Signs)
        /\ Len(From(sent, Len(sent) + 1)) = Len(sent) - (Len(sent) + 1) + 1
    BY <2>1, FromIs
  <2>3. Len(From(sent, Len(sent) + 1)) = 0 BY <2>2
  <2> QED BY <2>2, <2>3, EmptySeq
<1> QED BY <1>2, <1>3, <1>4

(* A sign completes a secret only as its last.                               *)
LEMMA OneSignHides ==
  ASSUME SecretsTyped, NEW sent \in Seq(Signs), NEW sign \in Signs, Hidden(sent),
         NEW i \in 1..(Len(sent) + 1), NEW key \in secrets,
         IsPrefix(key, From(sent \o <<sign>>, i))
  PROVE  key = From(sent, i) \o <<sign>>
<1>1. PICK t \in Seq(Signs) : t = From(sent, i) BY OneSign
<1>2. IsPrefix(key, t \o <<sign>>) BY <1>1, OneSign
<1>3. key \in Seq(Signs)
  <2>1. key \in Seq(Alphabet) /\ Alphabet \subseteq Signs BY DEF SecretsTyped, Signs
  <2> QED BY <2>1, SeqMonotonic
<1>4. ~IsPrefix(key, t)
  <2>1. CASE i \in 1..Len(sent) BY <1>1, <2>1 DEF Hidden
  <2>2. CASE i = Len(sent) + 1
    <3>1. t = <<>> BY <1>1, <2>2, OneSign
    <3>2. Len(key) \in Nat \ {0} BY <1>3, EmptySeq DEF SecretsTyped
    <3>3. Len(<<>>) = 0 BY EmptySeq
    <3> QED BY <3>1, <3>2, <3>3 DEF IsPrefix
  <2> QED BY <2>1, <2>2
<1> QED BY <1>1, <1>2, <1>3, <1>4, BeginsLast

(* The mask ends every secret there could be.                                *)
LEMMA MaskHides ==
  ASSUME SecretsTyped, Mask \notin Alphabet, NEW sent \in Seq(Signs), Hidden(sent),
         NEW rest, NEW final
  PROVE  /\ Hidden(sent \o <<Mask>>) /\ Quiet(sent \o <<Mask>>, rest, final)
<1>0. Mask \in Signs BY DEF Signs
<1>1. ASSUME NEW i \in 1..(Len(sent) + 1)
      PROVE  From(sent, i) \o <<Mask>> \notin Seq(Alphabet)
  <2>1. PICK t \in Seq(Signs) : t = From(sent, i) BY <1>0, OneSign
  <2>2. (t \o <<Mask>>)[Len(t) + 1] = Mask /\ Len(t \o <<Mask>>) = Len(t) + 1 BY <1>0
  <2>3. t \o <<Mask>> \in Seq(Alphabet) => (t \o <<Mask>>)[Len(t) + 1] \in Alphabet
    <3> SUFFICES ASSUME NEW u \in Seq(Alphabet), u = t \o <<Mask>>
                 PROVE  u[Len(t) + 1] \in Alphabet
      OBVIOUS
    <3>1. Len(t) + 1 \in 1..Len(u) BY <2>2
    <3> QED BY <3>1, ElementOfSeq
  <2> QED BY <2>1, <2>2, <2>3
<1>2. Len(sent \o <<Mask>>) = Len(sent) + 1 BY <1>0, OneSign
<1>3. Hidden(sent \o <<Mask>>)
  <2> SUFFICES ASSUME NEW i \in 1..(Len(sent) + 1), NEW key \in secrets,
                      IsPrefix(key, From(sent \o <<Mask>>, i))
               PROVE  FALSE
    BY <1>2 DEF Hidden
  <2>1. key = From(sent, i) \o <<Mask>> BY <1>0, OneSignHides
  <2> QED BY <1>1, <2>1 DEF SecretsTyped
<1>4. Quiet(sent \o <<Mask>>, rest, final)
  <2> SUFFICES ASSUME NEW i \in 1..(Len(sent) + 1)
               PROVE  From(sent \o <<Mask>>, i) \notin Seq(Alphabet)
    BY <1>2 DEF Quiet
  <2> QED BY <1>0, <1>1, OneSign
<1> QED BY <1>3, <1>4

(* A character that begins no secret, complete or not.                       *)
LEMMA PlainHides ==
  ASSUME SecretsTyped, NEW sent \in Seq(Signs), NEW text \in Seq(Alphabet), NEW final,
         Hidden(sent), Quiet(sent, text, final), text # <<>>, matchAt(text) = <<>>,
         ~(~final /\ startsIncompleteSecret(text))
  PROVE  /\ Hidden(sent \o <<text[1]>>)
         /\ Quiet(sent \o <<text[1]>>, From(text, 2), final)
<1>1. PICK sign : sign = text[1] OBVIOUS
<1>2. PICK rest \in Seq(Alphabet) : rest = From(text, 2) BY FirstAndRest
<1>3. sign \in Alphabet /\ sign \in Signs /\ text = <<sign>> \o rest
  BY <1>1, <1>2, FirstAndRest DEF Signs
<1>4. Len(sent \o <<sign>>) = Len(sent) + 1 BY <1>3, OneSign
<1>5. Blocked(text, final)
  <2> SUFFICES ASSUME NEW key \in secrets
               PROVE  ~IsPrefix(key, text)
                        /\ (~final => ~IsPrefix(text, key))
    BY DEF Blocked
  <2>1. ~IsPrefix(key, text)
    <3>1. IsPrefix(key, text) => matchAt(text) # <<>> BY MatchedSecret
    <3> QED BY <3>1
  <2>2. IsPrefix(text, key) => startsIncompleteSecret(text)
    BY <2>1 DEF startsIncompleteSecret, IsStrictPrefix
  <2> QED BY <2>1, <2>2
<1>6. ASSUME NEW i \in 1..(Len(sent) + 1), From(sent, i) \in Seq(Alphabet)
      PROVE  Blocked((From(sent, i) \o <<sign>>) \o rest, final)
  <2>1. PICK t \in Seq(Alphabet) : t = From(sent, i) BY <1>6
  <2>2. (t \o <<sign>>) \o rest = t \o text
    <3>1. <<sign>> \in Seq(Alphabet) BY <1>3
    <3> QED BY <1>3, <3>1, ConcatAssociative
  <2>3. Blocked(t \o text, final)
    <3>1. CASE i \in 1..Len(sent) BY <2>1, <3>1 DEF Quiet
    <3>2. CASE i = Len(sent) + 1
      <4>1. t = <<>> BY <1>3, <2>1, <3>2, OneSign
      <4>2. t \o text = text BY <4>1, ConcatEmptySeq
      <4> QED BY <1>5, <4>2
    <3> QED BY <3>1, <3>2
  <2> QED BY <2>1, <2>2, <2>3
<1>7. ASSUME NEW i \in 1..(Len(sent) + 1), From(sent, i) \o <<sign>> \in Seq(Alphabet)
      PROVE  From(sent, i) \in Seq(Alphabet)
  <2>1. PICK t \in Seq(Signs) : t = From(sent, i) BY <1>3, OneSign
  <2>2. PICK u \in Seq(Alphabet) : u = t \o <<sign>> BY <1>7, <2>1
  <2>3. Len(u) = Len(t) + 1 /\ \A k \in 1..Len(t) : u[k] = t[k] BY <1>3, <2>2
  <2>4. \A k \in 1..Len(t) : t[k] \in Alphabet
    <3> SUFFICES ASSUME NEW k \in 1..Len(t) PROVE t[k] \in Alphabet OBVIOUS
    <3>1. k \in 1..Len(u) BY <2>3
    <3> QED BY <2>3, <3>1, ElementOfSeq
  <2>5. t \in Seq(Alphabet)
    <3>1. SubSeq(t, 1, Len(t)) \in Seq(Alphabet) BY <2>4, SubSeqProperties
    <3> QED BY <3>1, SubSeqFull
  <2> QED BY <2>1, <2>5
<1>8. Hidden(sent \o <<sign>>)
  <2> SUFFICES ASSUME NEW i \in 1..(Len(sent) + 1), NEW key \in secrets,
                      IsPrefix(key, From(sent \o <<sign>>, i))
               PROVE  FALSE
    BY <1>4 DEF Hidden
  <2>1. key = From(sent, i) \o <<sign>> BY <1>3, OneSignHides
  <2>2. key \in Seq(Alphabet) BY DEF SecretsTyped
  <2>3. Blocked(key \o rest, final) BY <1>6, <1>7, <2>1, <2>2
  <2>4. IsPrefix(key, key \o rest) BY <2>2, BeginsConcat
  <2> QED BY <2>3, <2>4 DEF Blocked
<1>9. Quiet(sent \o <<sign>>, rest, final)
  <2> SUFFICES ASSUME NEW i \in 1..(Len(sent) + 1),
                      From(sent \o <<sign>>, i) \in Seq(Alphabet)
               PROVE  Blocked(From(sent \o <<sign>>, i) \o rest, final)
    BY <1>4 DEF Quiet
  <2> QED BY <1>3, <1>6, <1>7, OneSign
<1> QED BY <1>1, <1>2, <1>8, <1>9

LEMMA Hides ==
  ASSUME SecretsTyped, Mask \notin Alphabet, NEW sent \in Seq(Signs),
           NEW text \in Seq(Alphabet),
         NEW final, Hidden(sent), Quiet(sent, text, final)
  PROVE  /\ Hidden(sent \o consume(text, final).out)
         /\ Quiet(sent
              \o consume(text, final).out, consume(text, final).keep, final)
<1> DEFINE Safe(o, t) == o \in Seq(Signs) /\ Hidden(o) /\ Quiet(o, t, final)
           Stays(t) == \A o : Safe(o, t) =>
                              Safe(o \o consume(t, final).out,
                                consume(t, final).keep)
<1>1. PICK T : T = {n \in Nat : \A t \in Seq(Alphabet) : Len(t) <= n => Stays(t)} OBVIOUS
<1>2. ASSUME NEW t \in Seq(Alphabet), \A u \in Seq(Alphabet) : Len(u) < Len(t) => Stays(u)
      PROVE  Stays(t)
  <2> SUFFICES ASSUME NEW o \in Seq(Signs), Hidden(o), Quiet(o, t, final)
               PROVE  Safe(o \o consume(t, final).out,
                        consume(t, final).keep)
    OBVIOUS
  <2>1. ASSUME consume(t, final) = [out |-> <<>>, keep |-> t]
        PROVE  Safe(o \o consume(t, final).out, consume(t, final).keep)
    <3>1. consume(t, final).out = <<>> /\ consume(t, final).keep = t BY <2>1
    <3>2. o \o <<>> = o BY ConcatEmptySeq
    <3> QED BY <3>1, <3>2
  <2>2. ASSUME NEW sign \in Signs, NEW u \in Seq(Alphabet), Stays(u),
               Hidden(o \o <<sign>>), Quiet(o \o <<sign>>, u, final),
               consume(t, final)
                 = [consume(u, final) EXCEPT !.out = <<sign>> \o @]
        PROVE  Safe(o \o consume(t, final).out, consume(t, final).keep)
    <3>1. o \o <<sign>> \in Seq(Signs) BY OneSign
    <3>2. Safe((o \o <<sign>>)
            \o consume(u, final).out, consume(u, final).keep)
      BY <2>2, <3>1
    <3>3. PICK after \in Consumed : after = consume(u, final) BY ConsumeTyped
    <3>4. /\ consume(t, final).out = <<sign>> \o after.out
          /\ consume(t, final).keep = after.keep
      BY <2>2, <3>3 DEF Consumed
    <3>5. (o \o <<sign>>) \o after.out = o \o (<<sign>> \o after.out)
      <4>1. PICK middle \in Seq(Signs) : middle = after.out BY DEF Consumed, Signs
      <4>2. (o \o <<sign>>) \o middle = o \o (<<sign>> \o middle) BY ConcatMiddle
      <4> QED BY <4>1, <4>2
    <3> QED BY <3>2, <3>3, <3>4, <3>5
  <2>3. CASE t = <<>> BY <2>1, <2>3, ConsumeStep
  <2>4. CASE t # <<>> /\ matchAt(t) # <<>>
    <3>1. PICK u : u = From(t, 1 + Len(matchAt(t))) OBVIOUS
    <3>2. u \in Seq(Alphabet) /\ Stays(u) BY <1>2, <2>4, <3>1, Shorter
    <3>3. consume(t, final)
            = [consume(u, final) EXCEPT !.out = <<Mask>> \o @]
      BY <2>4, <3>1, ConsumeStep
    <3>4. Mask \in Signs /\ Hidden(o \o <<Mask>>) /\ Quiet(o \o <<Mask>>, u, final)
      BY MaskHides DEF Signs
    <3> HIDE DEF Safe, Stays
    <3> QED BY <2>2, <3>2, <3>3, <3>4
  <2>5. CASE t # <<>> /\ matchAt(t) = <<>> /\ ~final
               /\ startsIncompleteSecret(t)
    <3>1. consume(t, final) = [out |-> <<>>, keep |-> t] BY <2>5, ConsumeStep
    <3> QED BY <2>1, <3>1
  <2>6. CASE t # <<>> /\ matchAt(t) = <<>>
               /\ ~(~final /\ startsIncompleteSecret(t))
    <3>1. PICK u : u = From(t, 2) OBVIOUS
    <3>2. u \in Seq(Alphabet) /\ Stays(u) BY <1>2, <2>6, <3>1, Shorter
    <3>3. consume(t, final)
            = [consume(u, final) EXCEPT !.out = <<t[1]>> \o @]
      BY <2>6, <3>1, ConsumeStep
    <3>4. Hidden(o \o <<t[1]>>) /\ Quiet(o \o <<t[1]>>, u, final)
      BY <2>6, <3>1, PlainHides
    <3>5. t[1] \in Signs BY <2>6, FirstAndRest DEF Signs
    <3> HIDE DEF Safe, Stays
    <3> QED BY <2>2, <3>2, <3>3, <3>4, <3>5
  <2> QED BY <2>3, <2>4, <2>5, <2>6
<1> HIDE DEF Stays
<1>3. 0 \in T
  <2> SUFFICES ASSUME NEW t \in Seq(Alphabet), Len(t) <= 0 PROVE Stays(t) BY <1>1
  <2>1. \A u \in Seq(Alphabet) : ~(Len(u) < Len(t)) OBVIOUS
  <2> QED BY <1>2, <2>1
<1>4. \A n \in Nat : n \in T => n + 1 \in T
  <2> SUFFICES ASSUME NEW n \in Nat, n \in T, NEW t \in Seq(Alphabet), Len(t) <= n + 1
               PROVE  Stays(t)
    BY <1>1
  <2>1. \A u \in Seq(Alphabet) : Len(u) < Len(t) => Len(u) <= n OBVIOUS
  <2> QED BY <1>1, <1>2, <2>1
<1>5. Len(text) \in T BY <1>3, <1>4, Counting
<1>6. Stays(text) BY <1>1, <1>5
<1> QED BY <1>6 DEF Stays

(* What a text in one piece is made into.                                    *)
Whole(text) == consume(text, TRUE).out

LEMMA WholeTyped ==
  ASSUME SecretsTyped, NEW text \in Seq(Alphabet)
  PROVE  Whole(text) \in Seq(Signs)
<1>1. consume(text, TRUE) \in Consumed BY ConsumeTyped
<1> QED BY <1>1 DEF Whole, Consumed, Signs

(* What has left and what is pending make what the whole text would.         *)
Parted(text, sent, rest) ==
  \A more \in Seq(Alphabet) :
    Whole(text \o more) = sent \o Whole(rest \o more)

RedactingInv ==
  /\ SecretsTyped
  /\ pending \in Seq(Alphabet) /\ written \in Seq(Alphabet) /\ output \in Seq(Signs)
  /\ flushed \in BOOLEAN
  /\ Hidden(output)
  /\ ~flushed => Quiet(output, pending, FALSE)
  /\ pending # <<>> => startsIncompleteSecret(pending)
  /\ PrefixFree => IF flushed THEN output = Whole(written)
                   ELSE Parted(written, output, pending)

(* Whatever does not touch the secrets reads a text as before.               *)
LEMMA RedactingSame ==
  ASSUME secrets' = secrets
  PROVE  /\ \A text, final : consume(text, final)' = consume(text, final)
         /\ \A text : startsIncompleteSecret(text)'
              = startsIncompleteSecret(text)
         /\ \A text : Whole(text)' = Whole(text)
         /\ PrefixFree' = PrefixFree /\ SecretsTyped' = SecretsTyped
  BY DEF Whole, consume, matchAt, startsIncompleteSecret,
    PrefixFree, SecretsTyped

LEMMA RedactingInit == ASSUME MaskAssumption, Init PROVE RedactingInv
<1>1. /\ SecretsTyped /\ pending = <<>> /\ output = <<>> /\ written = <<>> /\ flushed = FALSE
  BY DEF Init, MaskAssumption, SecretsTyped
<1>2. /\ pending \in Seq(Alphabet) /\ written \in Seq(Alphabet) /\ output \in Seq(Signs)
      /\ Len(output) = 0
  BY <1>1, EmptySeq
<1>3. Hidden(output) /\ Quiet(output, pending, FALSE) BY <1>2 DEF Hidden, Quiet
<1>4. Parted(written, output, pending)
  <2> SUFFICES ASSUME NEW more \in Seq(Alphabet)
               PROVE  Whole(written \o more)
                        = output \o Whole(pending \o more)
    BY DEF Parted
  <2>1. PICK whole : whole = Whole(more) OBVIOUS
  <2>2. whole \in Seq(Signs) BY <1>1, <2>1, WholeTyped
  <2>3. <<>> \o more = more BY ConcatEmptySeq
  <2>4. <<>> \o whole = whole BY <2>2, ConcatEmptySeq
  <2> QED BY <1>1, <2>1, <2>3, <2>4
<1> QED BY <1>1, <1>2, <1>3, <1>4 DEF RedactingInv

(* More text, before it is final, is all the same to what has left.          *)
LEMMA BlockedMore ==
  ASSUME SecretsTyped, NEW text \in Seq(Alphabet), NEW rest \in Seq(Alphabet),
         NEW more \in Seq(Alphabet), Blocked(text \o rest, FALSE)
  PROVE  Blocked(text \o (rest \o more), FALSE)
<1>1. PICK u \in Seq(Alphabet) : u = text \o rest BY ConcatProperties
<1>2. text \o (rest \o more) = u \o more BY <1>1, ConcatAssociative
<1> SUFFICES ASSUME NEW key \in secrets
             PROVE  ~IsPrefix(key, u \o more) /\ ~IsPrefix(u \o more, key)
  BY <1>2 DEF Blocked
<1>3. ~IsPrefix(key, u) /\ ~IsPrefix(u, key) BY <1>1 DEF Blocked
<1>4. key \in Seq(Alphabet) BY DEF SecretsTyped
<1> QED BY <1>3, <1>4, BeginsConcat

LEMMA QuietMore ==
  ASSUME SecretsTyped, NEW sent, NEW rest \in Seq(Alphabet), NEW more \in Seq(Alphabet),
         Quiet(sent, rest, FALSE)
  PROVE  Quiet(sent, rest \o more, FALSE)
<1> SUFFICES ASSUME NEW i \in 1..Len(sent), From(sent, i) \in Seq(Alphabet)
             PROVE  Blocked(From(sent, i) \o (rest \o more), FALSE)
  BY DEF Quiet
<1>1. Blocked(From(sent, i) \o rest, FALSE) BY DEF Quiet
<1> QED BY <1>1, BlockedMore

LEMMA ConcatSigns ==
  ASSUME NEW x \in Seq(Signs), NEW t \in Seq(Signs), NEW u \in Seq(Signs)
  PROVE  (x \o t) \o u = x \o (t \o u)
  BY ConcatAssociative

LEMMA ConcatTexts ==
  ASSUME NEW x \in Seq(Alphabet), NEW t \in Seq(Alphabet), NEW u \in Seq(Alphabet)
  PROVE  (x \o t) \o u = x \o (t \o u)
  BY ConcatAssociative

(* A piece of text more, and what it makes leave.                            *)
LEMMA SplitAnywhere ==
  ASSUME SecretsTyped, PrefixFree, NEW text \in Seq(Alphabet)
  PROVE  \A more \in Seq(Alphabet) :
           Whole(text \o more) =
             consume(text, FALSE).out
               \o Whole(consume(text, FALSE).keep \o more)
  BY Split DEF Whole

LEMMA PartedMore ==
  ASSUME SecretsTyped, PrefixFree, NEW old \in Seq(Alphabet), NEW sent \in Seq(Signs),
         NEW rest \in Seq(Alphabet), Parted(old, sent, rest), NEW input \in Seq(Alphabet),
         NEW text \in Seq(Alphabet), text = rest \o input
  PROVE  Parted(old \o input, sent
           \o consume(text, FALSE).out, consume(text, FALSE).keep)
<1>1. PICK passed : passed = consume(text, FALSE) OBVIOUS
<1>2. passed \in Consumed BY <1>1, ConsumeTyped
<1> SUFFICES ASSUME NEW more, more \in Seq(Alphabet)
             PROVE  Whole((old \o input) \o more)
                      = (sent \o passed.out) \o Whole(passed.keep \o more)
  BY <1>1 DEF Parted
<1>5. (old \o input) \o more = old \o (input \o more) BY ConcatTexts
<1>6. (rest \o input) \o more = rest \o (input \o more) BY ConcatTexts
<1>7. Whole(old \o (input \o more))
        = sent \o Whole(rest \o (input \o more))
  <2>1. input \o more \in Seq(Alphabet) BY ConcatProperties
  <2> QED BY <2>1 DEF Parted
<1>8. Whole(text \o more) = passed.out \o Whole(passed.keep \o more)
  BY <1>1, SplitAnywhere
<1>9. PICK late : late = Whole(passed.keep \o more) OBVIOUS
<1>10. passed.out \in Seq(Signs) /\ late \in Seq(Signs)
  <2>1. passed.keep \o more \in Seq(Alphabet) BY <1>2, ConcatProperties DEF Consumed
  <2> QED BY <1>2, <1>9, <2>1, WholeTyped DEF Consumed, Signs
<1>11. (sent \o passed.out) \o late = sent \o (passed.out \o late) BY <1>10, ConcatSigns
<1> QED BY <1>5, <1>6, <1>7, <1>8, <1>9, <1>11

LEMMA RedactingWrite ==
  ASSUME MaskAssumption, RedactingInv, NEW input \in Chunks, Write(input)
  PROVE  RedactingInv'
<1>1. /\ ~flushed /\ UNCHANGED <<secrets, flushed>> /\ written' = written \o input
      /\ output' = output \o consume(pending \o input, FALSE).out
      /\ pending' = consume(pending \o input, FALSE).keep
  BY DEF Write
<1>2. /\ SecretsTyped /\ Mask \notin Alphabet /\ input \in Seq(Alphabet)
      /\ pending \in Seq(Alphabet) /\ written \in Seq(Alphabet) /\ output \in Seq(Signs)
      /\ flushed \in BOOLEAN
  BY DEF RedactingInv, MaskAssumption
<1>3. PICK text \in Seq(Alphabet) : text = pending \o input BY <1>2, ConcatProperties
<1>4. PICK passed \in Consumed : passed = consume(text, FALSE) BY <1>2, ConsumeTyped
<1>5. /\ output' = output \o passed.out /\ pending' = passed.keep
      /\ passed.out \in Seq(Signs) /\ passed.keep \in Seq(Alphabet)
  BY <1>1, <1>3, <1>4 DEF Consumed, Signs
<1>6. SecretsTyped' /\ PrefixFree' = PrefixFree BY <1>1, <1>2, RedactingSame
<1>7. /\ pending' \in Seq(Alphabet) /\ written' \in Seq(Alphabet)
      /\ output' \in Seq(Signs) /\ flushed' = FALSE
  BY <1>1, <1>2, <1>5, ConcatProperties
<1>8. Hidden(output)' /\ Quiet(output, pending, FALSE)'
  <2>1. Hidden(output) /\ Quiet(output, pending, FALSE) BY <1>1 DEF RedactingInv
  <2>2. Quiet(output, text, FALSE) BY <1>2, <1>3, <2>1, QuietMore
  <2>3. Hidden(output \o passed.out) /\ Quiet(output \o passed.out, passed.keep, FALSE)
    BY <1>2, <1>4, <2>1, <2>2, Hides
  <2>4. Hidden(output') /\ Quiet(output', pending', FALSE) BY <1>5, <2>3
  <2> QED BY <1>1, <2>4 DEF Hidden, Quiet, Blocked
<1>9. pending' # <<>> => startsIncompleteSecret(pending)'
  <2>1. pending' # <<>> => startsIncompleteSecret(pending')
    BY <1>2, <1>4, <1>5, ConsumeTyped
  <2> QED BY <1>1, <2>1 DEF startsIncompleteSecret
<1>10. PrefixFree => Parted(written, output, pending)'
  <2> SUFFICES ASSUME PrefixFree PROVE Parted(written', output', pending')
    BY <1>1, RedactingSame DEF Parted
  <2>1. Parted(written, output, pending) BY <1>1 DEF RedactingInv
  <2> QED BY <1>1, <1>2, <1>3, <2>1, PartedMore
<1> QED BY <1>6, <1>7, <1>8, <1>9, <1>10 DEF RedactingInv

LEMMA RedactingFlush ==
  ASSUME MaskAssumption, RedactingInv, FlushTo
  PROVE  RedactingInv'
<1>1. /\ ~flushed /\ flushed' = TRUE /\ UNCHANGED <<secrets, written>> /\ pending' = <<>>
      /\ output' = output \o consume(pending, TRUE).out
  BY DEF FlushTo
<1>2. /\ SecretsTyped /\ Mask \notin Alphabet
      /\ pending \in Seq(Alphabet) /\ written \in Seq(Alphabet) /\ output \in Seq(Signs)
  BY DEF RedactingInv, MaskAssumption
<1>3. PICK passed \in Consumed : passed = consume(pending, TRUE) BY <1>2, ConsumeTyped
<1>4. output' = output \o passed.out /\ passed.out \in Seq(Signs)
  BY <1>1, <1>3 DEF Consumed, Signs
<1>5. SecretsTyped' /\ PrefixFree' = PrefixFree BY <1>1, <1>2, RedactingSame
<1>6. pending' \in Seq(Alphabet) /\ written' \in Seq(Alphabet) /\ output' \in Seq(Signs)
  <2>1. output \o passed.out \in Seq(Signs) BY <1>2, <1>4, ConcatProperties
  <2>2. <<>> \in Seq(Alphabet) BY EmptySeq
  <2> QED BY <1>1, <1>2, <1>4, <2>1, <2>2
<1>7. Hidden(output)'
  <2>1. Hidden(output) /\ Quiet(output, pending, FALSE) BY <1>1 DEF RedactingInv
  <2>2. Quiet(output, pending, TRUE) BY <2>1 DEF Quiet, Blocked
  <2>3. Hidden(output \o passed.out) BY <1>2, <1>3, <2>1, <2>2, Hides
  <2> QED BY <1>1, <1>4, <2>3 DEF Hidden
<1>8. PrefixFree => output' = Whole(written)'
  <2> SUFFICES ASSUME PrefixFree PROVE output' = Whole(written)
    BY <1>1, RedactingSame
  <2>1. <<>> \in Seq(Alphabet) BY EmptySeq
  <2>2. Whole(written \o <<>>) = output \o Whole(pending \o <<>>)
    BY <1>1, <2>1 DEF RedactingInv, Parted
  <2>3. written \o <<>> = written /\ pending \o <<>> = pending BY <1>2, ConcatEmptySeq
  <2>4. Whole(pending) = passed.out BY <1>3 DEF Whole
  <2> QED BY <1>4, <2>2, <2>3, <2>4
<1> QED BY <1>1, <1>5, <1>6, <1>7, <1>8 DEF RedactingInv

LEMMA RedactingStep ==
  ASSUME MaskAssumption, RedactingInv, [Next]_vars
  PROVE  RedactingInv'
<1>1. ASSUME NEW input \in Chunks, Write(input) PROVE RedactingInv'
  BY <1>1, RedactingWrite
<1>2. CASE FlushTo BY <1>2, RedactingFlush
<1>3. CASE UNCHANGED vars
  <2>1. UNCHANGED <<secrets, pending, output, written, flushed>> BY <1>3 DEF vars
  <2>2. SecretsTyped' /\ PrefixFree' = PrefixFree BY <2>1, RedactingSame DEF RedactingInv
  <2>3. Hidden(output)' = Hidden(output) BY <2>1 DEF Hidden
  <2>4. Quiet(output, pending, FALSE)' = Quiet(output, pending, FALSE)
    BY <2>1 DEF Quiet, Blocked
  <2>5. startsIncompleteSecret(pending)' = startsIncompleteSecret(pending)
    BY <2>1 DEF startsIncompleteSecret
  <2>6. Whole(written)' = Whole(written)
    <3>1. Whole(written') = Whole(written) BY <2>1
    <3> QED BY <2>1, <3>1, RedactingSame
  <2>7. Parted(written, output, pending) => Parted(written, output, pending)'
    <3>1. Parted(written, output, pending) => Parted(written', output', pending') BY <2>1
    <3>2. Parted(written', output', pending') => Parted(written, output, pending)'
      BY <2>1, RedactingSame DEF Parted
    <3> QED BY <3>1, <3>2
  <2>8. /\ Hidden(output)' /\ (~flushed => Quiet(output, pending, FALSE))'
        /\ (pending # <<>> => startsIncompleteSecret(pending))'
    BY <2>1, <2>3, <2>4, <2>5 DEF RedactingInv
  <2>9. /\ pending' \in Seq(Alphabet) /\ written' \in Seq(Alphabet)
        /\ output' \in Seq(Signs) /\ flushed' \in BOOLEAN
    BY <2>1 DEF RedactingInv
  <2>10. PrefixFree' => IF flushed' THEN output' = Whole(written)'
                        ELSE Parted(written, output, pending)'
    BY <2>1, <2>2, <2>6, <2>7 DEF RedactingInv
  <2> QED BY <2>2, <2>8, <2>9, <2>10 DEF RedactingInv
<1> QED BY <1>1, <1>2, <1>3 DEF Next

LEMMA RedactingEnough == ASSUME RedactingInv PROVE SecretsWithheld
  BY DEF RedactingInv, SecretsWithheld, Hidden, Shown, Whole

(* However what a child writes is cut into pieces, and whatever the secrets   *)
(* are: none leaves whole, no more is held back than could become one, and    *)
(* when no secret begins another, what was shown in the end is what masking   *)
(* the whole text at once would have shown (redactor.Write, FlushTo).         *)
THEOREM NoSecretShown == ASSUME MaskAssumption PROVE Spec => []SecretsWithheld
<1>1. Init => RedactingInv BY RedactingInit
<1>2. RedactingInv /\ [Next]_vars => RedactingInv' BY RedactingStep
<1>3. RedactingInv => SecretsWithheld BY RedactingEnough
<1> QED BY <1>1, <1>2, <1>3, PTL DEF Spec
=============================================================================
