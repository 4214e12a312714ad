------------------------- MODULE ConfigurationProofs -------------------------
(* What configuration files compose to, for any files and any number of them, *)
(* and what requests then run with, for any number of requests, providers,    *)
(* versions of the files, snapshots of the stores and reloads.                *)
EXTENDS ConfigCompose, FiniteSetTheorems, SequenceTheorems, TLAPS

-----------------------------------------------------------------------------
(* Loops of any length.  A recursive function is unfolded, and a fact about  *)
(* its n-th value is proved for every n, without a theorem that takes an     *)
(* operator: with Counting, for the set of the n it is proved for.           *)

(* Counting: a set with 0 and every successor has every number.  The numbers *)
(* up to a bound that it lacks would map, one down, into fewer.              *)
LEMMA Counting ==
  ASSUME NEW T, 0 \in T, \A n \in Nat : n \in T => n + 1 \in T, NEW bound \in Nat
  PROVE  bound \in T
<1> SUFFICES ASSUME bound \notin T PROVE FALSE OBVIOUS
<1>1. PICK K : K = (0..bound) \ T OBVIOUS
<1>2. \A k \in K : k - 1 \in K \ {bound}
  <2> SUFFICES ASSUME NEW k \in K PROVE k - 1 \in K \ {bound} OBVIOUS
  <2>1. k \in Nat /\ k <= bound /\ k # 0 /\ k \notin T BY <1>1
  <2>2. k - 1 \in Nat /\ k - 1 < bound /\ (k - 1) + 1 = k BY <2>1
  <2> QED BY <1>1, <2>1, <2>2
<1>3. bound \in K BY <1>1
<1>4. IsFiniteSet(K)
  <2>1. IsFiniteSet(0..bound) BY FS_Interval
  <2> QED BY <1>1, <2>1, FS_Subset
<1>5. IsFiniteSet(K \ {bound}) /\ Cardinality(K \ {bound}) = Cardinality(K) - 1
  BY <1>3, <1>4, FS_RemoveElement
<1>6. Cardinality(K) \in Nat BY <1>4, FS_CardinalityType
<1>7. PICK down : down = [k \in K |-> k - 1] OBVIOUS
<1>8. down \in [K -> K \ {bound}] BY <1>2, <1>7
<1>9. Cardinality(K \ {bound}) < Cardinality(K) BY <1>5, <1>6
<1>10. \E x, y \in K : x # y /\ down[x] = down[y] BY <1>4, <1>5, <1>8, <1>9, FS_PigeonHole
<1> QED BY <1>1, <1>7, <1>10

(* The function that Kept is made of exists.                                 *)
LEMMA KeptUnfolds ==
  ASSUME NEW list, NEW S, Len(list) \in Nat
  PROVE  \E upTo :
           /\ Kept(list, S) = upTo[Len(list)] /\ upTo[0] = <<>>
           /\ \A n \in 1..Len(list) :
                upTo[n] = IF list[n] \in S THEN Append(upTo[n - 1], list[n]) ELSE upTo[n - 1]
<1> DEFINE Entry(g, n) ==
             IF n = 0 THEN <<>>
             ELSE IF list[n] \in S THEN Append(g[n - 1], list[n]) ELSE g[n - 1]
           Rec == CHOOSE g : g = [n \in 0..Len(list) |-> Entry(g, n)]
<1>0. \A g, h, n : n = 0 \/ g[n - 1] = h[n - 1] => Entry(g, n) = Entry(h, n) OBVIOUS
<1>1. Kept(list, S) = Rec[Len(list)] BY DEF Kept
<1>2. \A g : Entry(g, 0) = <<>> OBVIOUS
<1>3. \A g : \A n \in 1..Len(list) :
        Entry(g, n) = IF list[n] \in S THEN Append(g[n - 1], list[n]) ELSE g[n - 1] OBVIOUS
<1> HIDE DEF Entry
<1>4. PICK T : T = {m \in Nat : \E g : g = [n \in 0..m |-> Entry(g, n)]} OBVIOUS
<1>5. 0 \in T
  <2>1. PICK g : g = [n \in 0..0 |-> <<>>] OBVIOUS
  <2>2. g = [n \in 0..0 |-> Entry(g, n)] BY <1>2, <2>1
  <2> QED BY <1>4, <2>2
<1>6. \A m \in Nat : m \in T => m + 1 \in T
  <2> SUFFICES ASSUME NEW m \in Nat, NEW g, g = [n \in 0..m |-> Entry(g, n)]
               PROVE  \E h : h = [n \in 0..(m + 1) |-> Entry(h, n)]
    BY <1>4
  <2>1. PICK h : h = [n \in 0..(m + 1) |-> Entry(g, n)] OBVIOUS
  <2>2. \A n \in 0..m : h[n] = g[n] BY <2>1
  <2>3. \A n \in 0..(m + 1) : n = 0 \/ n - 1 \in 0..m OBVIOUS
  <2>4. \A n \in 0..(m + 1) : Entry(g, n) = Entry(h, n) BY <1>0, <2>2, <2>3
  <2>5. h = [n \in 0..(m + 1) |-> Entry(h, n)] BY <2>1, <2>4
  <2> QED BY <2>5
<1>7. Len(list) \in T BY <1>5, <1>6, Counting
<1>8. Rec = [n \in 0..Len(list) |-> Entry(Rec, n)] BY <1>4, <1>7
<1> HIDE DEF Rec
<1>9. \A n \in 0..Len(list) : Rec[n] = Entry(Rec, n)
  <2>1. PICK r : r = Rec OBVIOUS
  <2>2. r = [n \in 0..Len(list) |-> Entry(r, n)] BY <1>8, <2>1
  <2> QED BY <2>1, <2>2
<1>10. Kept(list, S) = Rec[Len(list)] /\ Rec[0] = <<>> BY <1>1, <1>2, <1>9
<1>11. \A n \in 1..Len(list) :
         Rec[n] = IF list[n] \in S THEN Append(Rec[n - 1], list[n]) ELSE Rec[n - 1]
  <2> SUFFICES ASSUME NEW n \in 1..Len(list)
               PROVE  Rec[n] = IF list[n] \in S THEN Append(Rec[n - 1], list[n]) ELSE Rec[n - 1]
    OBVIOUS
  <2>1. n \in 0..Len(list) OBVIOUS
  <2>2. Entry(Rec, n) = IF list[n] \in S THEN Append(Rec[n - 1], list[n]) ELSE Rec[n - 1]
    BY <1>3
  <2> QED BY <1>9, <2>1, <2>2
<1> WITNESS Rec
<1> QED BY <1>10, <1>11

(* Kept is the subsequence of the members in S: member i is that   *)
(* of place from[i].                                                         *)
Picks(kept, list, n, S, from) ==
  /\ from \in [1..Len(kept) -> 1..n]
  /\ \A i \in 1..Len(kept) : kept[i] = list[from[i]]
  /\ \A i, j \in 1..Len(kept) : i < j => from[i] < from[j]
  /\ \A k \in 1..n : list[k] \in S => \E i \in 1..Len(kept) : from[i] = k

LEMMA KeptPicks ==
  ASSUME NEW A, NEW list \in Seq(A), NEW S
  PROVE  /\ Kept(list, S) \in Seq(A \cap S)
         /\ \E from : Picks(Kept(list, S), list, Len(list), S, from)
<1>1. Len(list) \in Nat OBVIOUS
<1>2. PICK upTo :
        /\ Kept(list, S) = upTo[Len(list)] /\ upTo[0] = <<>>
        /\ \A n \in 1..Len(list) :
             upTo[n] = IF list[n] \in S THEN Append(upTo[n - 1], list[n]) ELSE upTo[n - 1]
  BY <1>1, KeptUnfolds
<1> DEFINE Holds(n) == /\ upTo[n] \in Seq(A \cap S)
                      /\ \E from : Picks(upTo[n], list, n, S, from)
<1>3. PICK T : T = {n \in Nat : n <= Len(list) => Holds(n)} OBVIOUS
<1>4. 0 \in T
  <2>1. upTo[0] \in Seq(A \cap S) /\ Len(upTo[0]) = 0 BY <1>2
  <2>2. PICK from : from = [i \in 1..0 |-> 0] OBVIOUS
  <2>3. Picks(upTo[0], list, 0, S, from) BY <2>1, <2>2 DEF Picks
  <2> QED BY <1>3, <2>1, <2>3
<1>5. \A n \in Nat : n \in T => n + 1 \in T
  <2> SUFFICES ASSUME NEW n \in Nat, n + 1 <= Len(list), Holds(n) PROVE Holds(n + 1)
    <3> HIDE DEF Holds
    <3> QED BY <1>1, <1>3
  <2>1. PICK k : k = upTo[n] OBVIOUS
  <2>2. k \in Seq(A \cap S) /\ Len(k) \in Nat BY <2>1
  <2>3. PICK from : Picks(k, list, n, S, from) BY <2>1
  <2>4. n + 1 \in 1..Len(list) /\ (n + 1) - 1 = n BY <1>1
  <2>5. upTo[n + 1] = IF list[n + 1] \in S THEN Append(k, list[n + 1]) ELSE k
    BY <1>2, <2>1, <2>4
  <2>6. CASE list[n + 1] \notin S
    <3>1. upTo[n + 1] = k BY <2>5, <2>6
    <3>2. from \in [1..Len(k) -> 1..(n + 1)]
      <4>1. \A i \in 1..n : i \in 1..(n + 1) OBVIOUS
      <4> QED BY <2>3, <4>1 DEF Picks
    <3>3. \A l \in 1..(n + 1) : list[l] \in S => l \in 1..n BY <2>6
    <3>4. Picks(k, list, n + 1, S, from) BY <2>3, <3>2, <3>3 DEF Picks
    <3> QED BY <2>2, <3>1, <3>4
  <2>7. CASE list[n + 1] \in S
    <3>1. PICK m : m = Append(k, list[n + 1]) OBVIOUS
    <3>2. list[n + 1] \in A \cap S BY <2>4, <2>7
    <3>3. /\ m \in Seq(A \cap S) /\ Len(m) = Len(k) + 1
          /\ \A i \in 1..Len(k) : m[i] = k[i]
          /\ m[Len(k) + 1] = list[n + 1]
      BY <2>2, <3>1, <3>2
    <3>4. PICK to : to = [i \in 1..(Len(k) + 1) |-> IF i = Len(k) + 1 THEN n + 1 ELSE from[i]]
      OBVIOUS
    <3>5. /\ to[Len(k) + 1] = n + 1
          /\ \A i \in 1..Len(k) : to[i] = from[i] /\ from[i] \in 1..n
      BY <2>2, <2>3, <3>4 DEF Picks
    <3>6. Picks(m, list, n + 1, S, to)
      <4>1. to \in [1..Len(m) -> 1..(n + 1)]
        <5>1. \A i \in 1..(Len(k) + 1) : to[i] \in 1..(n + 1)
          <6> SUFFICES ASSUME NEW i \in 1..(Len(k) + 1) PROVE to[i] \in 1..(n + 1)
            OBVIOUS
          <6>1. CASE i = Len(k) + 1 BY <3>5, <6>1
          <6>2. CASE i \in 1..Len(k)
            <7>1. to[i] \in 1..n BY <3>5, <6>2
            <7> QED BY <7>1
          <6> QED BY <2>2, <6>1, <6>2
        <5>2. 1..Len(m) = 1..(Len(k) + 1) BY <3>3
        <5>3. to = [i \in 1..(Len(k) + 1) |-> to[i]] BY <3>4
        <5> QED BY <5>1, <5>2, <5>3
      <4>2. \A i \in 1..Len(m) : m[i] = list[to[i]]
        <5> SUFFICES ASSUME NEW i \in 1..Len(m) PROVE m[i] = list[to[i]] OBVIOUS
        <5>1. CASE i = Len(k) + 1 BY <3>3, <3>5, <5>1
        <5>2. CASE i \in 1..Len(k)
          <6>1. k[i] = list[from[i]] BY <2>3, <5>2 DEF Picks
          <6> QED BY <3>3, <3>5, <5>2, <6>1
        <5> QED BY <2>2, <3>3, <5>1, <5>2
      <4>3. \A i, j \in 1..Len(m) : i < j => to[i] < to[j]
        <5> SUFFICES ASSUME NEW i \in 1..Len(m), NEW j \in 1..Len(m), i < j
                     PROVE  to[i] < to[j]
          OBVIOUS
        <5>1. i \in 1..Len(k) BY <2>2, <3>3
        <5>2. CASE j = Len(k) + 1 BY <3>5, <5>1, <5>2
        <5>3. CASE j \in 1..Len(k) BY <2>3, <3>5, <5>1, <5>3 DEF Picks
        <5>4. Len(k) \in Nat /\ j \in 1..(Len(k) + 1) BY <2>2, <3>3
        <5>5. j = Len(k) + 1 \/ j \in 1..Len(k) BY <5>4
        <5> QED BY <5>2, <5>3, <5>5
      <4>4. \A l \in 1..(n + 1) : list[l] \in S => \E i \in 1..Len(m) : to[i] = l
        <5> SUFFICES ASSUME NEW l \in 1..(n + 1), list[l] \in S
                     PROVE  \E i \in 1..Len(m) : to[i] = l
          OBVIOUS
        <5>1. CASE l = n + 1 BY <2>2, <3>3, <3>5, <5>1
        <5>2. CASE l \in 1..n
          <6>1. PICK i \in 1..Len(k) : from[i] = l BY <2>3, <5>2 DEF Picks
          <6>2. to[i] = l BY <3>5, <6>1
          <6>3. i \in 1..Len(m) BY <2>2, <3>3
          <6> QED BY <6>2, <6>3
        <5> QED BY <5>1, <5>2
      <4> QED BY <4>1, <4>2, <4>3, <4>4 DEF Picks
    <3> QED BY <2>5, <2>7, <3>1, <3>3, <3>6
  <2> QED BY <2>6, <2>7
<1>6. Len(list) \in T BY <1>1, <1>4, <1>5, Counting
<1> QED BY <1>1, <1>2, <1>3, <1>6

(* The fields composed one after the other.                                  *)
LEMMA FieldsUnfold ==
  ASSUME NEW inherited, NEW given, NEW kind, Len(given) \in Nat
  PROVE  \E upTo :
           /\ composeHTTPFields(inherited, given, kind) = upTo[Len(given)] /\ upTo[0] = inherited
           /\ \A n \in 1..Len(given) : upTo[n] = PlaceField(upTo[n - 1], given[n], kind)
<1> DEFINE Entry(g, n) == IF n = 0 THEN inherited ELSE PlaceField(g[n - 1], given[n], kind)
           Rec == CHOOSE g : g = [n \in 0..Len(given) |-> Entry(g, n)]
<1>0. \A g, h, n : n = 0 \/ g[n - 1] = h[n - 1] => Entry(g, n) = Entry(h, n) OBVIOUS
<1>1. composeHTTPFields(inherited, given, kind) = Rec[Len(given)] BY DEF composeHTTPFields
<1>2. \A g : Entry(g, 0) = inherited OBVIOUS
<1>3. \A g : \A n \in 1..Len(given) : Entry(g, n) = PlaceField(g[n - 1], given[n], kind) OBVIOUS
<1> HIDE DEF Entry
<1>4. PICK T : T = {m \in Nat : \E g : g = [n \in 0..m |-> Entry(g, n)]} OBVIOUS
<1>5. 0 \in T
  <2>1. PICK g : g = [n \in 0..0 |-> inherited] OBVIOUS
  <2>2. g = [n \in 0..0 |-> Entry(g, n)] BY <1>2, <2>1
  <2> QED BY <1>4, <2>2
<1>6. \A m \in Nat : m \in T => m + 1 \in T
  <2> SUFFICES ASSUME NEW m \in Nat, NEW g, g = [n \in 0..m |-> Entry(g, n)]
               PROVE  \E h : h = [n \in 0..(m + 1) |-> Entry(h, n)]
    BY <1>4
  <2>1. PICK h : h = [n \in 0..(m + 1) |-> Entry(g, n)] OBVIOUS
  <2>2. \A n \in 0..m : h[n] = g[n] BY <2>1
  <2>3. \A n \in 0..(m + 1) : n = 0 \/ n - 1 \in 0..m OBVIOUS
  <2>4. \A n \in 0..(m + 1) : Entry(g, n) = Entry(h, n) BY <1>0, <2>2, <2>3
  <2>5. h = [n \in 0..(m + 1) |-> Entry(h, n)] BY <2>1, <2>4
  <2> QED BY <2>5
<1>7. Len(given) \in T BY <1>5, <1>6, Counting
<1>8. Rec = [n \in 0..Len(given) |-> Entry(Rec, n)] BY <1>4, <1>7
<1> HIDE DEF Rec
<1>9. \A n \in 0..Len(given) : Rec[n] = Entry(Rec, n)
  <2>1. PICK r : r = Rec OBVIOUS
  <2>2. r = [n \in 0..Len(given) |-> Entry(r, n)] BY <1>8, <2>1
  <2> QED BY <2>1, <2>2
<1>10. composeHTTPFields(inherited, given, kind) = Rec[Len(given)] /\ Rec[0] = inherited
  BY <1>1, <1>2, <1>9
<1>11. \A n \in 1..Len(given) : Rec[n] = PlaceField(Rec[n - 1], given[n], kind)
  <2> SUFFICES ASSUME NEW n \in 1..Len(given) PROVE Rec[n] = PlaceField(Rec[n - 1], given[n], kind)
    OBVIOUS
  <2>1. n \in 0..Len(given) OBVIOUS
  <2>2. Entry(Rec, n) = PlaceField(Rec[n - 1], given[n], kind) BY <1>3
  <2> QED BY <1>9, <2>1, <2>2
<1> WITNESS Rec
<1> QED BY <1>10, <1>11

(* The definitions composed one after the other.                             *)
LEMMA NamedUnfold ==
  ASSUME NEW definitions, NEW partials, Len(partials) \in Nat
  PROVE  \E upTo :
           /\ ComposeNamed(definitions, partials) = upTo[Len(partials)] /\ upTo[0] = definitions
           /\ \A n \in 1..Len(partials) : upTo[n] = PlaceNamed(upTo[n - 1], partials[n])
<1> DEFINE Entry(g, n) == IF n = 0 THEN definitions ELSE PlaceNamed(g[n - 1], partials[n])
           Rec == CHOOSE g : g = [n \in 0..Len(partials) |-> Entry(g, n)]
<1>0. \A g, h, n : n = 0 \/ g[n - 1] = h[n - 1] => Entry(g, n) = Entry(h, n) OBVIOUS
<1>1. ComposeNamed(definitions, partials) = Rec[Len(partials)] BY DEF ComposeNamed
<1>2. \A g : Entry(g, 0) = definitions OBVIOUS
<1>3. \A g : \A n \in 1..Len(partials) : Entry(g, n) = PlaceNamed(g[n - 1], partials[n]) OBVIOUS
<1> HIDE DEF Entry
<1>4. PICK T : T = {m \in Nat : \E g : g = [n \in 0..m |-> Entry(g, n)]} OBVIOUS
<1>5. 0 \in T
  <2>1. PICK g : g = [n \in 0..0 |-> definitions] OBVIOUS
  <2>2. g = [n \in 0..0 |-> Entry(g, n)] BY <1>2, <2>1
  <2> QED BY <1>4, <2>2
<1>6. \A m \in Nat : m \in T => m + 1 \in T
  <2> SUFFICES ASSUME NEW m \in Nat, NEW g, g = [n \in 0..m |-> Entry(g, n)]
               PROVE  \E h : h = [n \in 0..(m + 1) |-> Entry(h, n)]
    BY <1>4
  <2>1. PICK h : h = [n \in 0..(m + 1) |-> Entry(g, n)] OBVIOUS
  <2>2. \A n \in 0..m : h[n] = g[n] BY <2>1
  <2>3. \A n \in 0..(m + 1) : n = 0 \/ n - 1 \in 0..m OBVIOUS
  <2>4. \A n \in 0..(m + 1) : Entry(g, n) = Entry(h, n) BY <1>0, <2>2, <2>3
  <2>5. h = [n \in 0..(m + 1) |-> Entry(h, n)] BY <2>1, <2>4
  <2> QED BY <2>5
<1>7. Len(partials) \in T BY <1>5, <1>6, Counting
<1>8. Rec = [n \in 0..Len(partials) |-> Entry(Rec, n)] BY <1>4, <1>7
<1> HIDE DEF Rec
<1>9. \A n \in 0..Len(partials) : Rec[n] = Entry(Rec, n)
  <2>1. PICK r : r = Rec OBVIOUS
  <2>2. r = [n \in 0..Len(partials) |-> Entry(r, n)] BY <1>8, <2>1
  <2> QED BY <2>1, <2>2
<1>10. ComposeNamed(definitions, partials) = Rec[Len(partials)] /\ Rec[0] = definitions
  BY <1>1, <1>2, <1>9
<1>11. \A n \in 1..Len(partials) : Rec[n] = PlaceNamed(Rec[n - 1], partials[n])
  <2> SUFFICES ASSUME NEW n \in 1..Len(partials) PROVE Rec[n] = PlaceNamed(Rec[n - 1], partials[n])
    OBVIOUS
  <2>1. n \in 0..Len(partials) OBVIOUS
  <2>2. Entry(Rec, n) = PlaceNamed(Rec[n - 1], partials[n]) BY <1>3
  <2> QED BY <1>9, <2>1, <2>2
<1> WITNESS Rec
<1> QED BY <1>10, <1>11

-----------------------------------------------------------------------------
(* Reading a tree: the children of a kind, and what no two of them share.    *)
LEMMA ChildrenOf ==
  ASSUME NEW n, n.kids \in Seq(ToSet(n.kids)), NEW S
  PROVE  /\ Kept(n.kids, S) \in Seq(ToSet(n.kids) \cap S)
         /\ Len(Kept(n.kids, S)) \in Nat
         /\ ToSet(Kept(n.kids, S)) \subseteq ToSet(n.kids) \cap S
<1>1. Kept(n.kids, S) \in Seq(ToSet(n.kids) \cap S) BY KeptPicks
<1>2. PICK k : k = Kept(n.kids, S) OBVIOUS
<1>3. k \in Seq(ToSet(n.kids) \cap S) BY <1>1, <1>2
<1>4. Len(k) \in Nat BY <1>3
<1>5. DOMAIN k = 1..Len(k) /\ \A i \in 1..Len(k) : k[i] \in ToSet(n.kids) \cap S BY <1>3
<1>6. ToSet(k) \subseteq ToSet(n.kids) \cap S BY <1>5 DEF ToSet
<1> QED BY <1>1, <1>2, <1>4, <1>6

LEMMA KidsAre ==
  ASSUME NEW n, n.kids \in Seq(ToSet(n.kids)), NEW kind
  PROVE  /\ Kids(n, kind) \in Seq(ToSet(n.kids)) /\ Len(Kids(n, kind)) \in Nat
         /\ \A p \in 1..Len(Kids(n, kind)) :
              Kids(n, kind)[p] \in ToSet(n.kids) /\ Kids(n, kind)[p].kind = kind
<1> DEFINE S == {kid \in ToSet(n.kids) : kid.kind = kind}
<1>1. Kids(n, kind) = Kept(n.kids, S) BY DEF Kids
<1>5. \A x \in ToSet(n.kids) \cap S : x \in ToSet(n.kids) /\ x.kind = kind OBVIOUS
<1> HIDE DEF S
<1>2. PICK k : k = Kids(n, kind) OBVIOUS
<1>3. k \in Seq(ToSet(n.kids) \cap S) BY <1>1, <1>2, ChildrenOf
<1>4. Len(k) \in Nat /\ \A p \in 1..Len(k) : k[p] \in ToSet(n.kids) \cap S BY <1>3
<1>6. k \in Seq(ToSet(n.kids)) BY <1>3, <1>4
<1> QED BY <1>2, <1>4, <1>5, <1>6

(* Two definitions of a file have different names.                           *)
LEMMA KeysDiffer ==
  ASSUME NEW n, n.kids \in Seq(ToSet(n.kids)), AcceptsNode(n),
         NEW kind \in {"mcp", "lsp"},
         NEW p \in 1..Len(Kids(n, kind)), NEW q \in 1..Len(Kids(n, kind)), p # q
  PROVE  Key(Kids(n, kind)[p]) # Key(Kids(n, kind)[q])
<1> DEFINE S == {kid \in ToSet(n.kids) : kid.kind = kind}
<1>1. PICK k : k = Kids(n, kind) OBVIOUS
<1>2. k = Kept(n.kids, S) BY <1>1 DEF Kids
<1>3. PICK from : Picks(k, n.kids, Len(n.kids), S, from) BY <1>2, KeptPicks
<1>4. Len(k) \in Nat /\ k[p].kind = kind /\ k[q].kind = kind BY <1>1, KidsAre
<1>5. /\ from[p] \in 1..Len(n.kids) /\ from[q] \in 1..Len(n.kids)
      /\ k[p] = n.kids[from[p]] /\ k[q] = n.kids[from[q]]
  BY <1>1, <1>3 DEF Picks
<1>6. from[p] # from[q]
  <2>1. Len(n.kids) \in Nat OBVIOUS
  <2>2. CASE p < q
    <3>1. from[p] < from[q] BY <1>1, <1>3, <2>2 DEF Picks
    <3> QED BY <1>5, <2>1, <3>1
  <2>3. CASE q < p
    <3>1. from[q] < from[p] BY <1>1, <1>3, <2>3 DEF Picks
    <3> QED BY <1>5, <2>1, <3>1
  <2>4. p < q \/ q < p BY <1>1, <1>4
  <2> QED BY <2>2, <2>3, <2>4
<1>7. kind \notin Repeatable BY DEF Repeatable
<1>8. \A i, j \in 1..Len(n.kids) : n.kids[i].kind = n.kids[j].kind /\ i # j =>
        n.kids[i].kind \in Repeatable \/ Key(n.kids[i]) # Key(n.kids[j])
  BY DEF AcceptsNode
<1> QED BY <1>1, <1>4, <1>5, <1>6, <1>7, <1>8

(* The lists a node holds are as long as its children of their kind.         *)
LEMMA EntriesAre ==
  ASSUME NEW n, n.kids \in Seq(ToSet(n.kids)), NEW kind
  PROVE  /\ Len(Entries(n, kind)) \in Nat
         /\ \E S : Entries(n, kind) \in Seq(S)
<1>1. PICK l : l = Len(Kids(n, kind)) OBVIOUS
<1>2. l \in Nat BY <1>1, KidsAre
<1>3. Entries(n, kind) = [i \in 1..l |-> Kids(n, kind)[i].props[1]] BY <1>1 DEF Entries
<1>4. PICK e : e = [i \in 1..l |-> Kids(n, kind)[i].props[1]] OBVIOUS
<1>5. PICK S : S = {Kids(n, kind)[i].props[1] : i \in 1..l} OBVIOUS
<1>6. e \in Seq(S) /\ Len(e) = l BY <1>2, <1>4, <1>5
<1>7. Entries(n, kind) = e BY <1>3, <1>4
<1> QED BY <1>2, <1>6, <1>7

-----------------------------------------------------------------------------
(* Numbers below a bound have a greatest among them.                         *)
LEMMA MaxOf ==
  ASSUME NEW S \in SUBSET Nat, S # {}, NEW m \in Nat, \A x \in S : x < m
  PROVE  Max(S) \in S /\ \A y \in S : Max(S) >= y
<1>1. \E x \in S : \A y \in S : x >= y
  <2> SUFFICES ASSUME \A x \in S : \E y \in S : ~(x >= y) PROVE FALSE OBVIOUS
  <2>1. PICK T : T = {n \in Nat : \E x \in S : x >= n} OBVIOUS
  <2>2. 0 \in T
    <3>1. PICK x : x \in S OBVIOUS
    <3>2. x \in Nat /\ x >= 0 BY <3>1
    <3> QED BY <2>1, <3>1, <3>2
  <2>3. \A n \in Nat : n \in T => n + 1 \in T
    <3> SUFFICES ASSUME NEW n \in Nat, NEW x \in S, x >= n PROVE n + 1 \in T BY <2>1
    <3>1. PICK y \in S : ~(x >= y) OBVIOUS
    <3> QED BY <2>1, <3>1
  <2>4. m \in T BY <2>2, <2>3, Counting
  <2>5. PICK x \in S : x >= m BY <2>1, <2>4
  <2> QED BY <2>5
<1> QED BY <1>1 DEF Max

(* The strongest of what files give, when one more gives something.          *)
LEMMA StrongestGrows ==
  ASSUME NEW f, NEW g, NEW m \in Nat, NEW nothing,
         DOMAIN f \subseteq Nat, \A i \in DOMAIN f : i < m,
         DOMAIN g = DOMAIN f \cup {m}, \A i \in DOMAIN f : g[i] = f[i]
  PROVE  StrongestOf(g, nothing)
           = IF g[m] = nothing THEN StrongestOf(f, nothing) ELSE g[m]
<1>1. PICK before : before = {i \in DOMAIN f : f[i] # nothing} OBVIOUS
<1>2. PICK giving : giving = {i \in DOMAIN g : g[i] # nothing} OBVIOUS
<1>3. /\ StrongestOf(f, nothing) = IF before = {} THEN nothing ELSE f[Max(before)]
      /\ StrongestOf(g, nothing) = IF giving = {} THEN nothing ELSE g[Max(giving)]
  BY <1>1, <1>2 DEF StrongestOf
<1>4. CASE g[m] = nothing
  <2>1. giving = before BY <1>1, <1>2, <1>4
  <2>2. CASE before = {} BY <1>3, <1>4, <2>1, <2>2
  <2>3. CASE before # {}
    <3>1. before \in SUBSET Nat /\ \A x \in before : x < m BY <1>1
    <3>2. Max(before) \in before BY <2>3, <3>1, MaxOf
    <3>3. g[Max(before)] = f[Max(before)] BY <1>1, <3>2
    <3> QED BY <1>3, <1>4, <2>1, <2>3, <3>3
  <2> QED BY <2>2, <2>3
<1>5. CASE g[m] # nothing
  <2>1. m \in giving /\ giving \in SUBSET Nat /\ \A y \in giving : m >= y BY <1>2, <1>5
  <2>2. \A x \in giving : x < m + 1 BY <2>1
  <2>3. Max(giving) \in giving /\ Max(giving) >= m
    <3>1. giving # {} /\ m + 1 \in Nat BY <2>1
    <3> QED BY <2>1, <2>2, <3>1, MaxOf
  <2>4. Max(giving) = m
    <3>1. PICK x : x = Max(giving) OBVIOUS
    <3>2. x \in Nat /\ m >= x /\ x >= m BY <2>1, <2>3, <3>1
    <3> QED BY <3>1, <3>2
  <2> QED BY <1>3, <1>5, <2>1, <2>4
<1> QED BY <1>4, <1>5

LEMMA StrongestOfNone ==
  ASSUME NEW f, DOMAIN f = {}, NEW nothing
  PROVE  StrongestOf(f, nothing) = nothing
  BY DEF StrongestOf
-----------------------------------------------------------------------------
(* What files list, place by place: one more at a place after all there were. *)
OnPlaces(g) == \A x \in DOMAIN g : x[1] \in Nat /\ x[2] \in Nat
Follows(h, g, z) ==
  /\ DOMAIN h = DOMAIN g \cup {z} /\ z[1] \in Nat /\ z[2] \in Nat
  /\ \A x \in DOMAIN g : h[x] = g[x] /\ Before(x, z)

LEMMA BeforeNone ==
  ASSUME NEW z, z[1] \in Nat, z[2] \in Nat PROVE ~Before(z, z)
  BY DEF Before

LEMMA NamesDiffer ==
  ASSUME NEW names, NEW g, OnPlaces(g), InOrder(names, g), DOMAIN names \subseteq Nat,
         NEW p \in DOMAIN names, NEW q \in DOMAIN names, names[p] = names[q]
  PROVE  p = q
<1>1. ASSUME NEW i \in DOMAIN names, NEW j \in DOMAIN names, names[i] = names[j], i < j
      PROVE  FALSE
  <2>1. PICK x \in DOMAIN g :
          g[x] = names[i] /\ \A y \in DOMAIN g : g[y] = names[j] => Before(x, y)
    BY <1>1 DEF InOrder
  <2>2. Before(x, x) BY <1>1, <2>1
  <2> QED BY <2>2, BeforeNone DEF OnPlaces
<1>2. ~(p < q) /\ ~(q < p) BY <1>1
<1> QED BY <1>2

LEMMA NamesRepeat ==
  ASSUME NEW names, NEW g, NEW h, NEW z, InOrder(names, g), Follows(h, g, z),
         NEW p \in DOMAIN names, h[z] = names[p]
  PROVE  InOrder(names, h)
<1>1. {names[i] : i \in DOMAIN names} = {g[x] : x \in DOMAIN g} BY DEF InOrder
<1>2. {h[x] : x \in DOMAIN h} = {names[i] : i \in DOMAIN names} BY <1>1 DEF Follows
<1>3. ASSUME NEW i \in DOMAIN names, NEW j \in DOMAIN names, i < j
      PROVE  \E x \in DOMAIN h :
               h[x] = names[i] /\ \A y \in DOMAIN h : h[y] = names[j] => Before(x, y)
  <2>1. PICK x \in DOMAIN g :
          g[x] = names[i] /\ \A y \in DOMAIN g : g[y] = names[j] => Before(x, y)
    BY <1>3 DEF InOrder
  <2> QED BY <2>1 DEF Follows
<1> QED BY <1>2, <1>3 DEF InOrder

LEMMA NamesGrow ==
  ASSUME NEW names, NEW more, NEW g, NEW h, NEW z, InOrder(names, g), Follows(h, g, z),
         NEW l \in Nat, DOMAIN names = 1..l, DOMAIN more = 1..(l + 1),
         \A i \in 1..l : more[i] = names[i], more[l + 1] = h[z],
         \A i \in 1..l : names[i] # h[z]
  PROVE  InOrder(more, h)
<1>1. {names[i] : i \in 1..l} = {g[x] : x \in DOMAIN g} BY DEF InOrder
<1>2. 1..(l + 1) = (1..l) \cup {l + 1} OBVIOUS
<1>3. {more[i] : i \in DOMAIN more} = {names[i] : i \in 1..l} \cup {h[z]} BY <1>2
<1>4. {h[x] : x \in DOMAIN h} = {g[x] : x \in DOMAIN g} \cup {h[z]} BY DEF Follows
<1>5. ASSUME NEW i \in DOMAIN more, NEW j \in DOMAIN more, i < j
      PROVE  \E x \in DOMAIN h :
               h[x] = more[i] /\ \A y \in DOMAIN h : h[y] = more[j] => Before(x, y)
  <2>1. i \in 1..l BY <1>5
  <2>2. CASE j \in 1..l
    <3>1. PICK x \in DOMAIN g :
            g[x] = names[i] /\ \A y \in DOMAIN g : g[y] = names[j] => Before(x, y)
      BY <1>5, <2>1, <2>2 DEF InOrder
    <3> QED BY <2>1, <2>2, <3>1 DEF Follows
  <2>3. CASE j = l + 1
    <3>0. names[i] \in {names[k] : k \in 1..l} BY <2>1
    <3>1. names[i] \in {g[x] : x \in DOMAIN g} BY <1>1, <3>0
    <3>2. PICK x \in DOMAIN g : g[x] = names[i] BY <3>1
    <3>3. \A y \in DOMAIN g : g[y] # h[z] BY <1>1
    <3> QED BY <2>1, <2>3, <3>2, <3>3 DEF Follows
  <2> QED BY <1>2, <2>2, <2>3
<1> QED BY <1>1, <1>3, <1>4, <1>5 DEF InOrder

(* A field put in its place keeps the fields merged.                         *)
LEMMA FieldPlaced ==
  ASSUME NEW fields, NEW g, NEW h, NEW z, NEW kind, OnPlaces(g), Follows(h, g, z),
         Merged(fields, g, kind)
  PROVE  Merged(PlaceField(fields, h[z], kind), h, kind)
<1>1. PICK key : key = [f \in {h[x] : x \in DOMAIN h} |-> httpFieldKey(kind, f.name)] OBVIOUS
<1>2. PICK S : S = {g[x] : x \in DOMAIN g} OBVIOUS
<1>3. PICK R : R = {h[x] : x \in DOMAIN h} OBVIOUS
<1>4. /\ S \subseteq R /\ h[z] \in R /\ DOMAIN g \subseteq DOMAIN h /\ z \in DOMAIN h
      /\ \A x \in DOMAIN g : g[x] \in S
  BY <1>2, <1>3 DEF Follows
<1>5. \A f \in R : key[f] = httpFieldKey(kind, f.name) BY <1>1, <1>3
<1>6. PICK l : l = Len(fields) OBVIOUS
<1>7. /\ fields \in Seq(S) /\ fields \in Seq(R) /\ l \in Nat /\ DOMAIN fields = 1..l
      /\ \A p \in 1..l : fields[p] \in S /\ fields[p] \in R
  BY <1>2, <1>4, <1>6 DEF Merged
<1>8. PICK names : names = [p \in 1..l |-> key[fields[p]]] OBVIOUS
<1>9. PICK gs : gs = [x \in DOMAIN g |-> key[g[x]]] OBVIOUS
<1>10. PICK hs : hs = [x \in DOMAIN h |-> key[h[x]]] OBVIOUS
<1>11. InOrder(names, gs)
  <2>1. names = [p \in DOMAIN fields |-> httpFieldKey(kind, fields[p].name)]
    BY <1>5, <1>7, <1>8
  <2>2. gs = [x \in DOMAIN g |-> httpFieldKey(kind, g[x].name)] BY <1>4, <1>5, <1>9
  <2> QED BY <2>1, <2>2 DEF Merged
<1>12. OnPlaces(gs) /\ Follows(hs, gs, z) BY <1>4, <1>9, <1>10 DEF OnPlaces, Follows
<1>13. hs = [x \in DOMAIN h |-> httpFieldKey(kind, h[x].name)] BY <1>1, <1>10
<1>14. hs[z] = key[h[z]] BY <1>4, <1>10
<1>15. \A p \in 1..l : \E x \in DOMAIN g :
         /\ fields[p] = g[x]
         /\ \A y \in DOMAIN g : key[g[y]] = key[g[x]] => y = x \/ Before(y, x)
  BY <1>4, <1>5, <1>7 DEF Merged
<1>16. PICK same : same = {i \in 1..l : key[fields[i]] = key[h[z]]} OBVIOUS
<1>17. PlaceField(fields, h[z], kind) =
         IF same = {} THEN Append(fields, h[z])
         ELSE [fields EXCEPT ![CHOOSE i \in same : TRUE] = h[z]]
  <2>1. same = {i \in 1..Len(fields) : httpFieldKey(kind, fields[i].name)
                                         = httpFieldKey(kind, h[z].name)}
    BY <1>4, <1>5, <1>6, <1>7, <1>16
  <2> QED BY <2>1 DEF PlaceField
<1>18. PICK new : new = PlaceField(fields, h[z], kind) OBVIOUS
<1>19. ASSUME NEW p \in 1..l, key[fields[p]] # key[h[z]]
       PROVE  \E x \in DOMAIN h :
                /\ fields[p] = h[x]
                /\ \A y \in DOMAIN h : key[h[y]] = key[h[x]] => y = x \/ Before(y, x)
  <2>1. PICK x \in DOMAIN g :
          /\ fields[p] = g[x]
          /\ \A y \in DOMAIN g : key[g[y]] = key[g[x]] => y = x \/ Before(y, x)
    BY <1>15
  <2> QED BY <1>19, <2>1 DEF Follows
<1>20. \A y \in DOMAIN h : key[h[y]] = key[h[z]] => y = z \/ Before(y, z) BY DEF Follows
<1>21. CASE same = {}
  <2>1. /\ new \in Seq(R) /\ DOMAIN new = 1..(l + 1) /\ new[l + 1] = h[z]
        /\ \A p \in 1..l : new[p] = fields[p]
    <3>1. new = Append(fields, h[z]) BY <1>17, <1>18, <1>21
    <3> QED BY <1>4, <1>6, <1>7, <3>1
  <2>2. 1..(l + 1) = (1..l) \cup {l + 1} BY <1>7
  <2>3. PICK more : more = [p \in DOMAIN new |-> httpFieldKey(kind, new[p].name)] OBVIOUS
  <2>4. /\ DOMAIN more = 1..(l + 1) /\ more[l + 1] = hs[z]
        /\ \A p \in 1..l : more[p] = names[p]
    BY <1>4, <1>5, <1>7, <1>8, <1>14, <2>1, <2>2, <2>3
  <2>5. \A i \in 1..l : names[i] # hs[z] BY <1>8, <1>14, <1>16, <1>21
  <2>6. DOMAIN names = 1..l BY <1>8
  <2>7. InOrder(more, hs) BY <1>7, <1>11, <1>12, <2>4, <2>5, <2>6, NamesGrow
  <2>8. ASSUME NEW p \in DOMAIN new
        PROVE  \E x \in DOMAIN h :
                 /\ new[p] = h[x]
                 /\ \A y \in DOMAIN h : key[h[y]] = key[h[x]] => y = x \/ Before(y, x)
    <3>1. CASE p = l + 1 BY <1>4, <1>20, <2>1, <3>1
    <3>2. CASE p \in 1..l
      <4>1. key[fields[p]] # key[h[z]] BY <1>16, <1>21, <3>2
      <4> QED BY <1>19, <2>1, <3>2, <4>1
    <3> QED BY <2>1, <2>2, <3>1, <3>2
  <2>9. \A x \in DOMAIN h : h[x] \in R BY <1>3
  <2> QED BY <1>3, <1>5, <1>13, <1>18, <2>1, <2>3, <2>7, <2>8, <2>9 DEF Merged
<1>22. CASE same # {}
  <2>1. PICK c : c = CHOOSE i \in same : TRUE OBVIOUS
  <2>2. c \in 1..l /\ key[fields[c]] = key[h[z]] BY <1>16, <1>22, <2>1
  <2>3. new = [fields EXCEPT ![c] = h[z]] BY <1>17, <1>18, <1>22, <2>1
  <2>4. /\ new \in Seq(R) /\ DOMAIN new = 1..l /\ new[c] = h[z]
        /\ \A p \in 1..l : p # c => new[p] = fields[p]
    BY <1>4, <1>7, <2>2, <2>3
  <2>5. names = [p \in DOMAIN new |-> httpFieldKey(kind, new[p].name)]
    <3>1. \A p \in 1..l : key[fields[p]] = httpFieldKey(kind, new[p].name)
      BY <1>4, <1>5, <1>7, <2>2, <2>4
    <3> QED BY <1>8, <2>4, <3>1
  <2>6. hs[z] = names[c] /\ c \in DOMAIN names BY <1>8, <1>14, <2>2
  <2>7. InOrder(names, hs) BY <1>11, <1>12, <2>6, NamesRepeat
  <2>8. ASSUME NEW p \in DOMAIN new
        PROVE  \E x \in DOMAIN h :
                 /\ new[p] = h[x]
                 /\ \A y \in DOMAIN h : key[h[y]] = key[h[x]] => y = x \/ Before(y, x)
    <3>1. CASE p = c BY <1>4, <1>20, <2>4, <3>1
    <3>2. CASE p # c
      <4>1. p \in 1..l /\ DOMAIN names = 1..l /\ DOMAIN names \subseteq Nat BY <1>8, <2>4
      <4>2. key[fields[p]] # key[h[z]]
        <5>1. names[p] # names[c] BY <1>11, <1>12, <2>2, <3>2, <4>1, NamesDiffer
        <5> QED BY <1>8, <2>2, <4>1, <5>1
      <4> QED BY <1>19, <2>4, <3>2, <4>1, <4>2
    <3> QED BY <3>1, <3>2
  <2>9. \A x \in DOMAIN h : h[x] \in R BY <1>3
  <2>10. InOrder([p \in DOMAIN new |-> httpFieldKey(kind, new[p].name)],
                 [x \in DOMAIN h |-> httpFieldKey(kind, h[x].name)])
    BY <1>13, <2>5, <2>7
  <2>11. \A p \in DOMAIN new : \E x \in DOMAIN h :
           /\ new[p] = h[x]
           /\ \A y \in DOMAIN h :
                httpFieldKey(kind, h[y].name) = httpFieldKey(kind, h[x].name) =>
                    y = x \/ Before(y, x)
    BY <1>5, <2>8, <2>9
  <2> QED BY <1>3, <1>18, <2>4, <2>10, <2>11 DEF Merged
<1> QED BY <1>21, <1>22
(* The first places of a file.                                               *)
Places(m, l) == {<<m, p>> : p \in 1..l}

(* What file m lists comes after what the files before it list.              *)
Extends(h, g, m, given) ==
  /\ DOMAIN h = DOMAIN g \cup Places(m, Len(given))
  /\ \A x \in DOMAIN g : h[x] = g[x]
  /\ \A p \in 1..Len(given) : h[<<m, p>>] = given[p]

(* The fields of one more file, one after the other.                         *)
LEMMA FieldsMerged ==
  ASSUME NEW fields, NEW g, NEW h, NEW kind, NEW given, NEW m \in Nat,
         Merged(fields, g, kind), OnPlaces(g), \A x \in DOMAIN g : x[1] < m,
         Len(given) \in Nat, g = [x \in DOMAIN g |-> g[x]],
         h = [x \in DOMAIN h |-> h[x]],
         Extends(h, g, m, given)
  PROVE  Merged(composeHTTPFields(fields, given, kind), h, kind)
<1> DEFINE Upto(k) == [x \in DOMAIN g \cup Places(m, k) |->
                         IF x \in DOMAIN g THEN g[x] ELSE given[x[2]]]
<1>1. PICK upTo :
        /\ composeHTTPFields(fields, given, kind) = upTo[Len(given)] /\ upTo[0] = fields
        /\ \A n \in 1..Len(given) : upTo[n] = PlaceField(upTo[n - 1], given[n], kind)
  BY FieldsUnfold
<1>2. PICK T : T = {k \in Nat : k <= Len(given) => Merged(upTo[k], Upto(k), kind)} OBVIOUS
<1>3. 0 \in T
  <2>1. Places(m, 0) = {} BY DEF Places
  <2>2. Upto(0) = g BY <2>1
  <2>3. Merged(upTo[0], Upto(0), kind) BY <1>1, <2>2
  <2> QED BY <1>2, <2>3
<1>4. \A k \in Nat : k \in T => k + 1 \in T
  <2> SUFFICES ASSUME NEW k \in Nat, k + 1 <= Len(given), Merged(upTo[k], Upto(k), kind)
               PROVE  Merged(upTo[k + 1], Upto(k + 1), kind)
    <3> HIDE DEF Upto
    <3> QED BY <1>2
  <2>1. PICK z : z = <<m, k + 1>> OBVIOUS
  <2>2. z[1] = m /\ z[2] = k + 1 BY <2>1
  <2>3. z \notin DOMAIN g BY <2>2
  <2>4. DOMAIN Upto(k) = DOMAIN g \cup Places(m, k) OBVIOUS
  <2>5. \A x \in DOMAIN Upto(k) :
          /\ x[1] \in Nat /\ x[2] \in Nat /\ Before(x, z)
    <3> SUFFICES ASSUME NEW x \in DOMAIN Upto(k)
                 PROVE  x[1] \in Nat /\ x[2] \in Nat /\ Before(x, z)
      OBVIOUS
    <3>1. CASE x \in DOMAIN g BY <2>2, <3>1 DEF OnPlaces, Before
    <3>2. CASE x \in Places(m, k)
      <4>1. PICK p \in 1..k : x = <<m, p>> BY <3>2 DEF Places
      <4>2. x[1] = m /\ x[2] = p /\ p < k + 1 BY <4>1
      <4> QED BY <2>2, <4>2 DEF Before
    <3> QED BY <2>4, <3>1, <3>2
  <2>6. DOMAIN Upto(k + 1) = DOMAIN Upto(k) \cup {z}
    <3>1. 1..(k + 1) = (1..k) \cup {k + 1} OBVIOUS
    <3>2. Places(m, k + 1) = Places(m, k) \cup {z} BY <2>1, <3>1 DEF Places
    <3> QED BY <2>4, <3>2
  <2>7. \A x \in DOMAIN Upto(k) : Upto(k + 1)[x] = Upto(k)[x]
    <3>1. \A x \in DOMAIN Upto(k) : x \in DOMAIN Upto(k + 1) BY <2>6
    <3> QED BY <3>1
  <2>8. Upto(k + 1)[z] = given[k + 1]
    <3>1. z \in DOMAIN Upto(k + 1) BY <2>6
    <3> QED BY <2>2, <2>3, <3>1
  <2> HIDE DEF Upto
  <2>9. OnPlaces(Upto(k)) /\ Follows(Upto(k + 1), Upto(k), z)
    BY <2>2, <2>5, <2>6, <2>7 DEF OnPlaces, Follows
  <2>10. Merged(PlaceField(upTo[k], given[k + 1], kind), Upto(k + 1), kind)
    BY <2>8, <2>9, FieldPlaced
  <2>11. k + 1 \in 1..Len(given) /\ (k + 1) - 1 = k OBVIOUS
  <2> QED BY <1>1, <2>10, <2>11
<1>5. Merged(upTo[Len(given)], Upto(Len(given)), kind)
  <2> HIDE DEF Upto
  <2>1. Len(given) \in T BY <1>3, <1>4, Counting
  <2> QED BY <1>2, <2>1
<1>6. h = Upto(Len(given))
  <2>1. \A x \in DOMAIN h : h[x] = IF x \in DOMAIN g THEN g[x] ELSE given[x[2]]
    <3> SUFFICES ASSUME NEW x \in DOMAIN h, x \notin DOMAIN g PROVE h[x] = given[x[2]]
      BY DEF Extends
    <3>1. PICK p \in 1..Len(given) : x = <<m, p>> BY DEF Extends, Places
    <3> QED BY <3>1 DEF Extends
  <2> QED BY <2>1 DEF Extends
<1> HIDE DEF Upto
<1> QED BY <1>1, <1>5, <1>6

-----------------------------------------------------------------------------
(* Nodes of several files, and of one more.                                  *)
Grows(more, at, m, n) ==
  /\ DOMAIN at \subseteq Nat /\ m \in Nat /\ \A i \in DOMAIN at : i < m
  /\ DOMAIN more = DOMAIN at \cup {m} /\ more[m] = n
  /\ \A i \in DOMAIN at : more[i] = at[i]

Listing(lists) == \A i \in DOMAIN lists : i \in Nat /\ Len(lists[i]) \in Nat

LEMMA ListedOnPlaces ==
  ASSUME NEW lists, Listing(lists)
  PROVE  /\ OnPlaces(Listed(lists))
         /\ Listed(lists) = [x \in DOMAIN Listed(lists) |-> Listed(lists)[x]]
         /\ \A i \in DOMAIN lists : \A p \in 1..Len(lists[i]) :
              <<i, p>> \in DOMAIN Listed(lists) /\ Listed(lists)[<<i, p>>] = lists[i][p]
         /\ \A x \in DOMAIN Listed(lists) :
              /\ x[1] \in DOMAIN lists /\ x[2] \in 1..Len(lists[x[1]]) /\ x = <<x[1], x[2]>>
              /\ Listed(lists)[x] = lists[x[1]][x[2]]
<1>1. PICK P : P = UNION {{i} \X (1..Len(lists[i])) : i \in DOMAIN lists} OBVIOUS
<1>2. Listed(lists) = [x \in P |-> lists[x[1]][x[2]]] BY <1>1 DEF Listed
<1>3. ASSUME NEW x \in P
      PROVE  x[1] \in DOMAIN lists /\ x[2] \in 1..Len(lists[x[1]]) /\ x = <<x[1], x[2]>>
  <2>1. PICK i \in DOMAIN lists : x \in {i} \X (1..Len(lists[i])) BY <1>1
  <2> QED BY <2>1
<1>4. ASSUME NEW i \in DOMAIN lists, NEW p \in 1..Len(lists[i]) PROVE <<i, p>> \in P
  <2>1. <<i, p>> \in {i} \X (1..Len(lists[i])) OBVIOUS
  <2> QED BY <1>1, <2>1
<1>5. OnPlaces(Listed(lists)) BY <1>2, <1>3 DEF OnPlaces, Listing
<1> QED BY <1>2, <1>3, <1>4, <1>5

LEMMA ListedGrows ==
  ASSUME NEW lists, NEW more, NEW m, NEW new, Grows(more, lists, m, new), Listing(more)
  PROVE  Extends(Listed(more), Listed(lists), m, new)
<1>0. Listing(lists) BY DEF Grows, Listing
<1>1. PICK g : g = Listed(lists) OBVIOUS
<1>2. PICK h : h = Listed(more) OBVIOUS
<1>3. /\ \A i \in DOMAIN lists : \A p \in 1..Len(lists[i]) :
           <<i, p>> \in DOMAIN g /\ g[<<i, p>>] = lists[i][p]
      /\ \A x \in DOMAIN g : /\ x[1] \in DOMAIN lists /\ x[2] \in 1..Len(lists[x[1]])
                             /\ x = <<x[1], x[2]>> /\ g[x] = lists[x[1]][x[2]]
  BY <1>0, <1>1, ListedOnPlaces
<1>4. /\ \A i \in DOMAIN more : \A p \in 1..Len(more[i]) :
           <<i, p>> \in DOMAIN h /\ h[<<i, p>>] = more[i][p]
      /\ \A x \in DOMAIN h : /\ x[1] \in DOMAIN more /\ x[2] \in 1..Len(more[x[1]])
                             /\ x = <<x[1], x[2]>> /\ h[x] = more[x[1]][x[2]]
      /\ h = [x \in DOMAIN h |-> h[x]]
  BY <1>2, ListedOnPlaces
<1>5. /\ DOMAIN more = DOMAIN lists \cup {m} /\ more[m] = new /\ m \notin DOMAIN lists
      /\ \A i \in DOMAIN lists : more[i] = lists[i]
  BY DEF Grows
<1>6. ASSUME NEW x \in DOMAIN g PROVE x \in DOMAIN h /\ h[x] = g[x]
  BY <1>3, <1>4, <1>5
<1>7. ASSUME NEW p \in 1..Len(new)
      PROVE  <<m, p>> \in DOMAIN h /\ h[<<m, p>>] = new[p] /\ <<m, p>> \notin DOMAIN g
  BY <1>3, <1>4, <1>5
<1>8. ASSUME NEW x \in DOMAIN h PROVE x \in DOMAIN g \/ x \in Places(m, Len(new))
  <2>1. CASE x[1] \in DOMAIN lists
    <3>1. <<x[1], x[2]>> \in DOMAIN g BY <1>3, <1>4, <1>5, <2>1
    <3> QED BY <1>4, <3>1
  <2>2. CASE x[1] = m
    <3>1. x = <<m, x[2]>> /\ x[2] \in 1..Len(new) BY <1>4, <1>5, <2>2
    <3> QED BY <3>1 DEF Places
  <2> QED BY <1>4, <1>5, <2>1, <2>2
<1>9. DOMAIN h = DOMAIN g \cup Places(m, Len(new)) BY <1>6, <1>7, <1>8 DEF Places
<1> QED BY <1>1, <1>2, <1>6, <1>7, <1>9 DEF Extends
-----------------------------------------------------------------------------
(* Each part of a definition, when one more file gives it.                   *)
Tidy(at) == \A i \in DOMAIN at : i \in Nat /\ at[i].kids \in Seq(ToSet(at[i].kids))

LEMMA FieldsNone ==
  ASSUME NEW at, DOMAIN at = {}, NEW kind
  PROVE  FieldsGiven(<<>>, at, kind)
<1>1. PICK lists : lists = [i \in DOMAIN at |-> Entries(at[i], kind)] OBVIOUS
<1>2. PICK g : g = Listed(lists) OBVIOUS
<1>3. DOMAIN g = {} BY <1>1, <1>2 DEF Listed
<1>4. PICK fields : fields = <<>> OBVIOUS
<1>5. /\ fields \in Seq({g[x] : x \in DOMAIN g}) /\ DOMAIN fields = {} BY <1>4
<1>6. PICK names : names = [p \in DOMAIN fields |-> httpFieldKey(kind, fields[p].name)] OBVIOUS
<1>7. PICK gs : gs = [x \in DOMAIN g |-> httpFieldKey(kind, g[x].name)] OBVIOUS
<1>8. InOrder(names, gs) BY <1>3, <1>5, <1>6, <1>7 DEF InOrder
<1>9. Merged(fields, g, kind) BY <1>5, <1>6, <1>7, <1>8 DEF Merged
<1> QED BY <1>1, <1>2, <1>4, <1>9 DEF FieldsGiven

LEMMA FieldsStep ==
  ASSUME NEW fields, NEW at, NEW more, NEW m, NEW n, NEW kind,
         FieldsGiven(fields, at, kind), Grows(more, at, m, n), Tidy(more)
  PROVE  FieldsGiven(composeHTTPFields(fields, Entries(n, kind), kind), more, kind)
<1>1. PICK lists : lists = [i \in DOMAIN at |-> Entries(at[i], kind)] OBVIOUS
<1>2. PICK longer : longer = [i \in DOMAIN more |-> Entries(more[i], kind)] OBVIOUS
<1>3. PICK given : given = Entries(n, kind) OBVIOUS
<1>4. Grows(longer, lists, m, given) BY <1>1, <1>2, <1>3 DEF Grows
<1>5. Listing(longer) BY <1>2, EntriesAre DEF Listing, Tidy
<1>6. Listing(lists) BY <1>4, <1>5 DEF Listing, Grows
<1>7. PICK g : g = Listed(lists) OBVIOUS
<1>8. PICK h : h = Listed(longer) OBVIOUS
<1>9. Extends(h, g, m, given) BY <1>4, <1>5, <1>7, <1>8, ListedGrows
<1>10. /\ OnPlaces(g) /\ g = [x \in DOMAIN g |-> g[x]]
       /\ h = [x \in DOMAIN h |-> h[x]]
       /\ \A x \in DOMAIN g : x[1] \in DOMAIN lists
  BY <1>5, <1>6, <1>7, <1>8, ListedOnPlaces
<1>11. m \in Nat /\ \A x \in DOMAIN g : x[1] < m BY <1>4, <1>10 DEF Grows
<1>12. Len(given) \in Nat BY <1>4, <1>5 DEF Listing, Grows
<1>13. Merged(fields, g, kind) BY <1>1, <1>7 DEF FieldsGiven
<1>14. Merged(composeHTTPFields(fields, given, kind), h, kind)
  BY <1>9, <1>10, <1>11, <1>12, <1>13, FieldsMerged
<1> QED BY <1>2, <1>3, <1>8, <1>14 DEF FieldsGiven

LEMMA StrongestOfMore ==
  ASSUME NEW f, NEW g, NEW m, NEW v, NEW nothing, Grows(g, f, m, v)
  PROVE  StrongestOf(g, nothing) = IF v = nothing THEN StrongestOf(f, nothing) ELSE v
<1>1. /\ DOMAIN f \subseteq Nat /\ m \in Nat /\ DOMAIN g = DOMAIN f \cup {m} /\ g[m] = v
      /\ \A i \in DOMAIN f : i < m /\ g[i] = f[i]
  BY DEF Grows
<1> QED BY <1>1, StrongestGrows

LEMMA ValueGrows ==
  ASSUME NEW at, NEW more, NEW m, NEW n, NEW kind, Grows(more, at, m, n)
  PROVE  StrongestOf([i \in DOMAIN more |-> ValueOf(more[i], kind)], None)
           = Stronger(StrongestOf([i \in DOMAIN at |-> ValueOf(at[i], kind)], None),
                      ValueOf(n, kind))
<1>1. PICK f : f = [i \in DOMAIN at |-> ValueOf(at[i], kind)] OBVIOUS
<1>2. PICK g : g = [i \in DOMAIN more |-> ValueOf(more[i], kind)] OBVIOUS
<1>3. Grows(g, f, m, ValueOf(n, kind)) BY <1>1, <1>2 DEF Grows
<1> QED BY <1>1, <1>2, <1>3, StrongestOfMore DEF Stronger

LEMMA ArgumentGrows ==
  ASSUME NEW at, NEW more, NEW m, NEW n, Grows(more, at, m, n)
  PROVE  StrongestOf([i \in DOMAIN more |-> Argument(more[i])], None)
           = Stronger(StrongestOf([i \in DOMAIN at |-> Argument(at[i])], None), Argument(n))
<1>1. PICK f : f = [i \in DOMAIN at |-> Argument(at[i])] OBVIOUS
<1>2. PICK g : g = [i \in DOMAIN more |-> Argument(more[i])] OBVIOUS
<1>3. Grows(g, f, m, Argument(n)) BY <1>1, <1>2 DEF Grows
<1> QED BY <1>1, <1>2, <1>3, StrongestOfMore DEF Stronger

LEMMA EmptyDomain == ASSUME NEW at, at = <<>> PROVE DOMAIN at = {}
  OBVIOUS

LEMMA EmptyFunction ==
  ASSUME NEW at, at = [i \in DOMAIN at |-> at[i]], DOMAIN at = {}
  PROVE  at = <<>>
  OBVIOUS

LEMMA StdioStep ==
  ASSUME NEW slot, NEW at, NEW more, NEW m, NEW n,
         StdioSlot(slot, at), Grows(more, at, m, n), Tidy(more)
  PROVE  StdioSlot(composeStdio(slot, n), more)
<1>1. PICK was : was = IF slot = NoSlot THEN EmptyStdio ELSE slot OBVIOUS
<1>2. StdioGiven(was, at)
  <2>1. CASE slot # NoSlot BY <1>1, <2>1 DEF StdioSlot
  <2>2. CASE slot = NoSlot
    <3>1. DOMAIN at = {} BY <2>2, EmptyDomain DEF StdioSlot
    <3>2. /\ StrongestOf([i \in DOMAIN at |-> Argument(at[i])], None) = None
          /\ StrongestOf([i \in DOMAIN at |-> ValuesOf(at[i], "arg")], <<>>) = <<>>
      BY <3>1, StrongestOfNone
    <3>3. was = [command |-> None, args |-> <<>>, env |-> <<>>]
      BY <1>1, <2>2 DEF EmptyStdio
    <3>4. was.env = <<>> BY <3>3
    <3>5. FieldsGiven(was.env, at, "env") BY <3>1, <3>4, FieldsNone
    <3> QED BY <3>2, <3>3, <3>4, <3>5 DEF StdioGiven
  <2> QED BY <2>1, <2>2
<1>3. PICK new : new = composeStdio(slot, n) OBVIOUS
<1>4. new = [command |-> Stronger(was.command, Argument(n)),
             args |-> StrongerList(was.args, ValuesOf(n, "arg")),
             env |-> composeHTTPFields(was.env, Entries(n, "env"), "env")]
  BY <1>1, <1>3 DEF composeStdio
<1>5. FieldsGiven(new.env, more, "env")
  <2>1. FieldsGiven(was.env, at, "env") BY <1>2 DEF StdioGiven
  <2> QED BY <1>4, <2>1, FieldsStep
<1>6. new.command = StrongestOf([i \in DOMAIN more |-> Argument(more[i])], None)
  <2>1. was.command = StrongestOf([i \in DOMAIN at |-> Argument(at[i])], None)
    BY <1>2 DEF StdioGiven
  <2> QED BY <1>4, <2>1, ArgumentGrows
<1>7. new.args = StrongestOf([i \in DOMAIN more |-> ValuesOf(more[i], "arg")], <<>>)
  <2>1. PICK f : f = [i \in DOMAIN at |-> ValuesOf(at[i], "arg")] OBVIOUS
  <2>2. PICK g : g = [i \in DOMAIN more |-> ValuesOf(more[i], "arg")] OBVIOUS
  <2>3. Grows(g, f, m, ValuesOf(n, "arg")) BY <2>1, <2>2 DEF Grows
  <2>4. StrongestOf(g, <<>>) = StrongerList(StrongestOf(f, <<>>), ValuesOf(n, "arg"))
    <3>1. PICK nothing : nothing = <<>> OBVIOUS
    <3>2. StrongestOf(g, nothing)
            = IF ValuesOf(n, "arg") = nothing THEN StrongestOf(f, nothing) ELSE ValuesOf(n, "arg")
      BY <2>3, StrongestOfMore
    <3> QED BY <3>1, <3>2 DEF StrongerList
  <2>5. was.args = StrongestOf(f, <<>>) BY <1>2, <2>1 DEF StdioGiven
  <2> QED BY <1>4, <2>2, <2>4, <2>5
<1>8. StdioGiven(new, more)
  <2>1. new = [command |-> new.command, args |-> new.args, env |-> new.env] BY <1>4
  <2> QED BY <1>5, <1>6, <1>7, <2>1 DEF StdioGiven
<1>9. new # NoSlot
  <2>1. "command" \in DOMAIN new BY <1>4
  <2> QED BY <2>1, EmptyDomain DEF NoSlot
<1>10. more # <<>> BY EmptyDomain DEF Grows
<1> QED BY <1>3, <1>8, <1>9, <1>10 DEF StdioSlot
LEMMA OAuthStep ==
  ASSUME NEW slot, NEW at, NEW more, NEW m, NEW n,
         slot = NoSlot <=> at = <<>>, slot # NoSlot => OAuthGiven(slot, at),
         Grows(more, at, m, n)
  PROVE  composeOAuth(slot, n) # NoSlot /\ OAuthGiven(composeOAuth(slot, n), more)
<1>1. PICK was : was = IF slot = NoSlot THEN EmptyOAuth ELSE slot OBVIOUS
<1>2. OAuthGiven(was, at)
  <2>1. CASE slot # NoSlot BY <1>1, <2>1
  <2>2. CASE slot = NoSlot
    <3>1. DOMAIN at = {} BY <2>2, EmptyDomain
    <3>2. \A kind : StrongestOf([i \in DOMAIN at |-> ValueOf(at[i], kind)], None) = None
      BY <3>1, StrongestOfNone
    <3>3. was = [clientId |-> None, clientSecret |-> None, redirectUri |-> None]
      BY <1>1, <2>2 DEF EmptyOAuth
    <3> QED BY <3>2, <3>3 DEF OAuthGiven
  <2> QED BY <2>1, <2>2
<1>3. PICK new : new = composeOAuth(slot, n) OBVIOUS
<1>4. new = [clientId |-> Stronger(was.clientId, ValueOf(n, "client-id")),
             clientSecret |-> Stronger(was.clientSecret, ValueOf(n, "client-secret")),
             redirectUri |-> Stronger(was.redirectUri, ValueOf(n, "redirect-uri"))]
  BY <1>1, <1>3 DEF composeOAuth
<1>5. /\ was.clientId = StrongestOf([i \in DOMAIN at |-> ValueOf(at[i], "client-id")], None)
      /\ was.clientSecret = StrongestOf([i \in DOMAIN at |-> ValueOf(at[i], "client-secret")], None)
      /\ was.redirectUri = StrongestOf([i \in DOMAIN at |-> ValueOf(at[i], "redirect-uri")], None)
  BY <1>2 DEF OAuthGiven
<1>6. OAuthGiven(new, more) BY <1>4, <1>5, ValueGrows DEF OAuthGiven
<1>7. "clientId" \in DOMAIN new BY <1>4
<1> QED BY <1>3, <1>6, <1>7, EmptyDomain DEF NoSlot

(* The children of a kind, of one more node.                                 *)
LEMMA WithinGrows ==
  ASSUME NEW at, NEW more, NEW m, NEW n, NEW kind, Grows(more, at, m, n)
  PROVE  IF Has(n, kind) THEN Grows(Within(more, kind), Within(at, kind), m, The(n, kind))
         ELSE Within(more, kind) = Within(at, kind)
<1>1. PICK w : w = Within(at, kind) OBVIOUS
<1>2. PICK v : v = Within(more, kind) OBVIOUS
<1>3. /\ w = [i \in {j \in DOMAIN at : Has(at[j], kind)} |-> The(at[i], kind)]
      /\ v = [i \in {j \in DOMAIN more : Has(more[j], kind)} |-> The(more[i], kind)]
  BY <1>1, <1>2 DEF Within
<1>4. \A i \in DOMAIN w : i \in DOMAIN at /\ Has(at[i], kind) /\ w[i] = The(at[i], kind) BY <1>3
<1>5. CASE Has(n, kind)
  <2>1. DOMAIN v = DOMAIN w \cup {m} BY <1>3, <1>5 DEF Grows
  <2>2. v[m] = The(n, kind) BY <1>3, <1>5 DEF Grows
  <2>3. \A i \in DOMAIN w : v[i] = w[i] BY <1>3, <1>4 DEF Grows
  <2>4. Grows(v, w, m, The(n, kind)) BY <1>4, <2>1, <2>2, <2>3 DEF Grows
  <2> QED BY <1>1, <1>2, <1>5, <2>4
<1>6. CASE ~Has(n, kind)
  <2>1. DOMAIN v = DOMAIN w BY <1>3, <1>6 DEF Grows
  <2>2. \A i \in DOMAIN w : v[i] = w[i] BY <1>3, <1>4 DEF Grows
  <2>3. v = [i \in DOMAIN v |-> v[i]] /\ w = [i \in DOMAIN w |-> w[i]] BY <1>3
  <2>4. v = w BY <2>1, <2>2, <2>3
  <2> QED BY <1>1, <1>2, <1>6, <2>4
<1> QED BY <1>5, <1>6

LEMMA WithinNone ==
  ASSUME NEW at, DOMAIN at = {}, NEW kind PROVE Within(at, kind) = <<>>
<1>1. PICK w : w = Within(at, kind) OBVIOUS
<1>2. w = [i \in {j \in DOMAIN at : Has(at[j], kind)} |-> The(at[i], kind)] BY <1>1 DEF Within
<1>3. DOMAIN w = {} /\ w = [i \in DOMAIN w |-> w[i]] BY <1>2
<1> QED BY <1>1, <1>3, EmptyFunction

LEMMA HTTPNone ==
  ASSUME NEW at, DOMAIN at = {}, NEW kind PROVE HTTPGiven(EmptyHTTP(kind), at)
<1>1. PICK http : http = EmptyHTTP(kind) OBVIOUS
<1>2. http = [kind |-> kind, endpoint |-> None, query |-> <<>>, headers |-> <<>>, oauth |-> NoSlot]
  BY <1>1 DEF EmptyHTTP
<1>3. StrongestOf([i \in DOMAIN at |-> Argument(at[i])], None) = None BY StrongestOfNone
<1>4. http.query = <<>> /\ http.headers = <<>> /\ http.oauth = NoSlot /\ http.kind = kind BY <1>2
<1>5. FieldsGiven(http.query, at, "query") /\ FieldsGiven(http.headers, at, "header")
  BY <1>4, FieldsNone
<1>6. Within(at, "oauth") = <<>> BY WithinNone
<1>7. http = [kind |-> http.kind,
              endpoint |-> StrongestOf([i \in DOMAIN at |-> Argument(at[i])], None),
              query |-> http.query, headers |-> http.headers, oauth |-> http.oauth]
  BY <1>2, <1>3, <1>4
<1> QED BY <1>1, <1>4, <1>5, <1>6, <1>7 DEF HTTPGiven

LEMMA HTTPStep ==
  ASSUME NEW was, NEW at, NEW more, NEW m, NEW n, HTTPGiven(was, at),
         Grows(more, at, m, n), Tidy(more), \A i \in DOMAIN at : at[i].kind = n.kind
  PROVE  HTTPSlot(composeHTTP(was, n), more)
<1>1. PICK new : new = composeHTTP(was, n) OBVIOUS
<1>2. new = [kind |-> n.kind,
             endpoint |-> Stronger(was.endpoint, Argument(n)),
             query |-> composeHTTPFields(was.query, Entries(n, "query"), "query"),
             headers |-> composeHTTPFields(was.headers, Entries(n, "header"), "header"),
             oauth |-> IF Has(n, "oauth") THEN composeOAuth(was.oauth, The(n, "oauth"))
                       ELSE was.oauth]
  BY <1>1 DEF composeHTTP
<1>3. \A i \in DOMAIN more : new.kind = more[i].kind BY <1>2 DEF Grows
<1>4. new.endpoint = StrongestOf([i \in DOMAIN more |-> Argument(more[i])], None)
  <2>1. was.endpoint = StrongestOf([i \in DOMAIN at |-> Argument(at[i])], None)
    BY DEF HTTPGiven
  <2> QED BY <1>2, <2>1, ArgumentGrows
<1>5. FieldsGiven(new.query, more, "query") /\ FieldsGiven(new.headers, more, "header")
  <2>1. FieldsGiven(was.query, at, "query") /\ FieldsGiven(was.headers, at, "header")
    BY DEF HTTPGiven
  <2> QED BY <1>2, <2>1, FieldsStep
<1>6. /\ new.oauth = NoSlot <=> Within(more, "oauth") = <<>>
      /\ new.oauth # NoSlot => OAuthGiven(new.oauth, Within(more, "oauth"))
  <2>1. PICK w : w = Within(at, "oauth") OBVIOUS
  <2>2. PICK v : v = Within(more, "oauth") OBVIOUS
  <2>3. was.oauth = NoSlot <=> w = <<>> BY <2>1 DEF HTTPGiven
  <2>4. was.oauth # NoSlot => OAuthGiven(was.oauth, w) BY <2>1 DEF HTTPGiven
  <2>5. CASE Has(n, "oauth")
    <3>1. Grows(v, w, m, The(n, "oauth")) BY <2>1, <2>2, <2>5, WithinGrows
    <3>2. new.oauth = composeOAuth(was.oauth, The(n, "oauth")) BY <1>2, <2>5
    <3>3. new.oauth # NoSlot /\ OAuthGiven(new.oauth, v)
      BY <2>3, <2>4, <3>1, <3>2, OAuthStep
    <3>4. v # <<>> BY <3>1, EmptyDomain DEF Grows
    <3> QED BY <2>2, <3>3, <3>4
  <2>6. CASE ~Has(n, "oauth")
    <3>1. v = w BY <2>1, <2>2, <2>6, WithinGrows
    <3>2. new.oauth = was.oauth BY <1>2, <2>6
    <3> QED BY <2>2, <2>3, <2>4, <3>1, <3>2
  <2> QED BY <2>5, <2>6
<1>7. new = [kind |-> new.kind, endpoint |-> new.endpoint, query |-> new.query,
             headers |-> new.headers, oauth |-> new.oauth]
  BY <1>2
<1>8. HTTPGiven(new, more) BY <1>3, <1>4, <1>5, <1>6, <1>7 DEF HTTPGiven
<1>9. "kind" \in DOMAIN new BY <1>2
<1>10. new # NoSlot /\ more # <<>> BY <1>9, EmptyDomain DEF NoSlot, Grows
<1> QED BY <1>1, <1>8, <1>10 DEF HTTPSlot
-----------------------------------------------------------------------------
(* Transports, and the last run of them of one kind, of one more definition. *)
LEMMA TransportsGrow ==
  ASSUME NEW at, NEW more, NEW m, NEW n, Grows(more, at, m, n)
  PROVE  IF TransportOf(n) # <<>>
         THEN Grows(TransportsOf(more), TransportsOf(at), m, TransportOf(n)[1])
         ELSE TransportsOf(more) = TransportsOf(at)
<1>1. PICK w : w = TransportsOf(at) OBVIOUS
<1>2. PICK v : v = TransportsOf(more) OBVIOUS
<1>3. /\ w = [i \in {j \in DOMAIN at : TransportOf(at[j]) # <<>>} |-> TransportOf(at[i])[1]]
      /\ v = [i \in {j \in DOMAIN more : TransportOf(more[j]) # <<>>} |-> TransportOf(more[i])[1]]
  BY <1>1, <1>2 DEF TransportsOf
<1>4. \A i \in DOMAIN w :
        i \in DOMAIN at /\ TransportOf(at[i]) # <<>> /\ w[i] = TransportOf(at[i])[1]
  BY <1>3
<1>5. CASE TransportOf(n) # <<>>
  <2>1. DOMAIN v = DOMAIN w \cup {m} BY <1>3, <1>5 DEF Grows
  <2>2. v[m] = TransportOf(n)[1] BY <1>3, <1>5 DEF Grows
  <2>3. \A i \in DOMAIN w : v[i] = w[i] BY <1>3, <1>4 DEF Grows
  <2>4. Grows(v, w, m, TransportOf(n)[1]) BY <1>4, <2>1, <2>2, <2>3 DEF Grows
  <2> QED BY <1>1, <1>2, <1>5, <2>4
<1>6. CASE TransportOf(n) = <<>>
  <2>1. DOMAIN v = DOMAIN w BY <1>3, <1>6 DEF Grows
  <2>2. \A i \in DOMAIN w : v[i] = w[i] BY <1>3, <1>4 DEF Grows
  <2>3. v = [i \in DOMAIN v |-> v[i]] /\ w = [i \in DOMAIN w |-> w[i]] BY <1>3
  <2>4. v = w BY <2>1, <2>2, <2>3
  <2> QED BY <1>1, <1>2, <1>6, <2>4
<1> QED BY <1>5, <1>6

LEMMA RunIs ==
  ASSUME NEW at, DOMAIN at \subseteq Nat
  PROVE  /\ LastRun(at) = [i \in DOMAIN LastRun(at) |-> LastRun(at)[i]]
         /\ \A i \in DOMAIN LastRun(at) : i \in DOMAIN at /\ LastRun(at)[i] = at[i]
         /\ \A j \in DOMAIN at : j \in DOMAIN LastRun(at) <=>
              \A k \in DOMAIN at : k >= j => at[k].kind = at[j].kind
         /\ \A i, j \in DOMAIN LastRun(at) : at[i].kind = at[j].kind
<1>1. PICK D : D = {j \in DOMAIN at : \A k \in DOMAIN at : k >= j => at[k].kind = at[j].kind}
  OBVIOUS
<1>2. LastRun(at) = [i \in D |-> at[i]] BY <1>1 DEF LastRun
<1>3. ASSUME NEW i \in D, NEW j \in D PROVE at[i].kind = at[j].kind
  <2>1. i \in Nat /\ j \in Nat BY <1>1
  <2>2. i >= j \/ j >= i BY <2>1
  <2> QED BY <1>1, <2>2
<1>4. PICK r : r = LastRun(at) OBVIOUS
<1>5. DOMAIN r = D /\ r = [i \in D |-> r[i]] /\ \A i \in D : r[i] = at[i] BY <1>2, <1>4
<1> QED BY <1>1, <1>3, <1>4, <1>5

LEMMA RunGrows ==
  ASSUME NEW at, NEW more, NEW m, NEW t, Grows(more, at, m, t)
  PROVE  IF \A i \in DOMAIN LastRun(at) : LastRun(at)[i].kind = t.kind
         THEN Grows(LastRun(more), LastRun(at), m, t)
         ELSE Grows(LastRun(more), <<>>, m, t)
<1>1. PICK r : r = LastRun(at) OBVIOUS
<1>2. PICK s : s = LastRun(more) OBVIOUS
<1>3. DOMAIN at \subseteq Nat /\ DOMAIN more \subseteq Nat /\ m \in DOMAIN more BY DEF Grows
<1>4. /\ \A i \in DOMAIN r : i \in DOMAIN at /\ r[i] = at[i]
      /\ \A j \in DOMAIN at : j \in DOMAIN r <=>
           \A k \in DOMAIN at : k >= j => at[k].kind = at[j].kind
      /\ \A i, j \in DOMAIN r : at[i].kind = at[j].kind
  BY <1>1, <1>3, RunIs
<1>5. /\ \A i \in DOMAIN s : i \in DOMAIN more /\ s[i] = more[i]
      /\ \A j \in DOMAIN more : j \in DOMAIN s <=>
           \A k \in DOMAIN more : k >= j => more[k].kind = more[j].kind
  BY <1>2, <1>3, RunIs
<1>6. /\ \A i \in DOMAIN at : i \in DOMAIN more /\ i < m /\ i \in Nat /\ more[i] = at[i]
      /\ \A i \in DOMAIN more : i = m \/ i \in DOMAIN at
      /\ more[m] = t /\ m \in Nat
  BY DEF Grows
<1>7. m \in DOMAIN s
  <2>1. \A k \in DOMAIN more : k >= m => k = m BY <1>6
  <2> QED BY <1>3, <1>5, <2>1
<1>8. \A j \in DOMAIN s : j = m \/ (j \in DOMAIN r /\ at[j].kind = t.kind)
  <2> SUFFICES ASSUME NEW j \in DOMAIN s, j # m PROVE j \in DOMAIN r /\ at[j].kind = t.kind
    OBVIOUS
  <2>1. j \in DOMAIN at /\ more[j] = at[j] /\ m >= j BY <1>5, <1>6
  <2>2. \A k \in DOMAIN more : k >= j => more[k].kind = more[j].kind BY <1>5
  <2>3. \A k \in DOMAIN at : k >= j => at[k].kind = at[j].kind BY <1>6, <2>1, <2>2
  <2> QED BY <1>3, <1>4, <1>6, <2>1, <2>2, <2>3
<1>9. CASE \A i \in DOMAIN r : r[i].kind = t.kind
  <2>1. \A j \in DOMAIN r : j \in DOMAIN s
    <3> SUFFICES ASSUME NEW j \in DOMAIN r PROVE j \in DOMAIN s OBVIOUS
    <3>1. j \in DOMAIN at /\ at[j].kind = t.kind /\ more[j] = at[j] BY <1>4, <1>6, <1>9
    <3>2. \A k \in DOMAIN more : k >= j => more[k].kind = more[j].kind
      BY <1>4, <1>6, <3>1
    <3> QED BY <1>5, <1>6, <3>1, <3>2
  <2>2. DOMAIN s = DOMAIN r \cup {m} BY <1>7, <1>8, <2>1
  <2>3. s[m] = t BY <1>5, <1>6, <1>7
  <2>4. \A i \in DOMAIN r : i \in Nat /\ i < m /\ s[i] = r[i] BY <1>4, <1>5, <1>6, <2>1
  <2>5. Grows(s, r, m, t) BY <1>6, <2>2, <2>3, <2>4 DEF Grows
  <2> QED BY <1>1, <1>2, <1>9, <2>5
<1>10. CASE ~\A i \in DOMAIN r : r[i].kind = t.kind
  <2>1. PICK i \in DOMAIN r : at[i].kind # t.kind BY <1>4, <1>10
  <2>2. \A j \in DOMAIN s : j = m BY <1>4, <1>8, <2>1
  <2>3. PICK none : none = <<>> OBVIOUS
  <2>4. DOMAIN none = {} BY <2>3
  <2>5. DOMAIN s = DOMAIN none \cup {m} BY <1>7, <2>2, <2>4
  <2>6. s[m] = t BY <1>5, <1>6, <1>7
  <2>7. Grows(s, none, m, t) BY <1>6, <2>4, <2>5, <2>6 DEF Grows
  <2> QED BY <1>1, <1>2, <1>10, <2>3, <2>7
<1> QED BY <1>9, <1>10

(* Definitions whose children, and theirs, are lists.                        *)
Deep(at) ==
  \A i \in DOMAIN at :
    /\ i \in Nat /\ at[i].kids \in Seq(ToSet(at[i].kids))
    /\ \A kid \in ToSet(at[i].kids) : kid.kids \in Seq(ToSet(kid.kids))

LEMMA TheIsKid ==
  ASSUME NEW n, n.kids \in Seq(ToSet(n.kids))
  PROVE  /\ \A kind : Has(n, kind) => The(n, kind) \in ToSet(n.kids)
         /\ TransportOf(n) # <<>> => TransportOf(n)[1] \in ToSet(n.kids)
<1>1. ASSUME NEW kind, Has(n, kind) PROVE The(n, kind) \in ToSet(n.kids)
  <2>1. PICK k : k = Kids(n, kind) OBVIOUS
  <2>2. k \in Seq(ToSet(n.kids)) /\ k # <<>> BY <1>1, <2>1, KidsAre DEF Has
  <2>3. k[1] \in ToSet(n.kids) BY <2>2
  <2> QED BY <2>1, <2>3 DEF The
<1>2. ASSUME TransportOf(n) # <<>> PROVE TransportOf(n)[1] \in ToSet(n.kids)
  <2>1. PICK S : S = {kid \in ToSet(n.kids) : kid.kind \in Transports} OBVIOUS
  <2>2. PICK k : k = TransportOf(n) OBVIOUS
  <2>3. k = Kept(n.kids, S) BY <2>1, <2>2 DEF TransportOf
  <2>4. k \in Seq(ToSet(n.kids) \cap S) /\ k # <<>> BY <1>2, <2>2, <2>3, ChildrenOf
  <2>5. k[1] \in ToSet(n.kids) \cap S BY <2>4
  <2> QED BY <2>2, <2>5
<1> QED BY <1>1, <1>2

LEMMA TransportsTidy ==
  ASSUME NEW at, Deep(at) PROVE Tidy(TransportsOf(at)) /\ Tidy(LastRun(TransportsOf(at)))
<1>1. PICK w : w = TransportsOf(at) OBVIOUS
<1>2. w = [i \in {j \in DOMAIN at : TransportOf(at[j]) # <<>>} |-> TransportOf(at[i])[1]]
  BY <1>1 DEF TransportsOf
<1>3. ASSUME NEW i \in DOMAIN w PROVE i \in Nat /\ w[i].kids \in Seq(ToSet(w[i].kids))
  <2>1. i \in DOMAIN at /\ TransportOf(at[i]) # <<>> /\ w[i] = TransportOf(at[i])[1] BY <1>2
  <2>2. w[i] \in ToSet(at[i].kids) BY <2>1, TheIsKid DEF Deep
  <2> QED BY <2>1, <2>2 DEF Deep
<1>4. Tidy(w) BY <1>3 DEF Tidy
<1>5. DOMAIN w \subseteq Nat BY <1>3
<1>6. \A i \in DOMAIN LastRun(w) : i \in DOMAIN w /\ LastRun(w)[i] = w[i] BY <1>5, RunIs
<1>7. Tidy(LastRun(w)) BY <1>4, <1>6 DEF Tidy
<1> QED BY <1>1, <1>4, <1>7

LEMMA WithinTidy ==
  ASSUME NEW at, Deep(at), NEW kind PROVE Tidy(Within(at, kind))
<1>1. PICK w : w = Within(at, kind) OBVIOUS
<1>2. w = [i \in {j \in DOMAIN at : Has(at[j], kind)} |-> The(at[i], kind)]
  BY <1>1 DEF Within
<1>3. ASSUME NEW i \in DOMAIN w PROVE i \in Nat /\ w[i].kids \in Seq(ToSet(w[i].kids))
  <2>1. i \in DOMAIN at /\ Has(at[i], kind) /\ w[i] = The(at[i], kind) BY <1>2
  <2>2. w[i] \in ToSet(at[i].kids) BY <2>1, TheIsKid DEF Deep
  <2> QED BY <2>1, <2>2 DEF Deep
<1> QED BY <1>1, <1>3 DEF Tidy
-----------------------------------------------------------------------------
(* A server's two slots hold the last run of its transports.                 *)
IsLocal(run) == \E i \in DOMAIN run : run[i].kind = "stdio"
SlotsGiven(stdio, http, run) ==
  /\ StdioSlot(stdio, IF IsLocal(run) THEN run ELSE <<>>)
  /\ HTTPSlot(http, IF IsLocal(run) THEN <<>> ELSE run)

(* A run, and what it is with one more transport.                            *)
OneKind(run) ==
  run = [i \in DOMAIN run |-> run[i]] /\ \A i, j \in DOMAIN run : run[i].kind = run[j].kind
Continued(more, run, m, t) ==
  IF \A i \in DOMAIN run : run[i].kind = t.kind
  THEN Grows(more, run, m, t) ELSE Grows(more, <<>>, m, t)

LEMMA ServerGivenIs ==
  ASSUME NEW server, NEW name, NEW at, NEW scope
  PROVE  ServerGiven(server, name, at, scope) <=>
           /\ server = [name |-> name,
                        scope |-> Stronger(scope, StrongestOf([i \in DOMAIN at |-> ValueOf(at[i], "scope")], None)),
                        stdio |-> server.stdio, http |-> server.http]
           /\ SlotsGiven(server.stdio, server.http, LastRun(TransportsOf(at)))
  BY DEF ServerGiven, SlotsGiven, IsLocal

LEMMA StdioGivenNext ==
  ASSUME NEW stdio, NEW http, NEW run, NEW more, NEW m, NEW t, t.kind = "stdio",
         SlotsGiven(stdio, http, run), OneKind(run), Tidy(more), Continued(more, run, m, t)
  PROVE  SlotsGiven(composeStdio(IF http # NoSlot THEN NoSlot ELSE stdio, t), NoSlot, more)
<1>1. PICK none : none = <<>> OBVIOUS
<1>2. DOMAIN none = {} /\ StdioSlot(NoSlot, none) /\ HTTPSlot(NoSlot, none)
  BY <1>1 DEF StdioSlot, HTTPSlot, NoSlot
<1>3. IsLocal(more) BY DEF Grows, IsLocal, Continued
<1>4. PICK slot : slot = IF http # NoSlot THEN NoSlot ELSE stdio OBVIOUS
<1>5. StdioSlot(composeStdio(slot, t), more)
  <2>1. CASE http # NoSlot
    <3>1. ~IsLocal(run) /\ run # none BY <1>1, <2>1 DEF SlotsGiven, HTTPSlot
    <3>2. DOMAIN run # {} BY <1>1, <3>1, EmptyFunction DEF OneKind
    <3>3. Grows(more, none, m, t) BY <1>1, <3>1, <3>2 DEF IsLocal, Continued
    <3>4. StdioSlot(slot, none) BY <1>2, <1>4, <2>1
    <3> QED BY <3>3, <3>4, StdioStep
  <2>2. CASE http = NoSlot
    <3>1. IsLocal(run) \/ run = none BY <1>1, <2>2 DEF SlotsGiven, HTTPSlot
    <3>2. StdioSlot(slot, run) BY <1>1, <1>4, <2>2, <3>1 DEF SlotsGiven
    <3>3. \A i \in DOMAIN run : run[i].kind = t.kind BY <1>2, <3>1 DEF IsLocal, OneKind
    <3>4. Grows(more, run, m, t) BY <3>3 DEF Continued
    <3> QED BY <3>2, <3>4, StdioStep
  <2> QED BY <2>1, <2>2
<1> QED BY <1>1, <1>2, <1>3, <1>4, <1>5 DEF SlotsGiven

LEMMA HTTPGivenNext ==
  ASSUME NEW server, NEW run, NEW more, NEW m, NEW t, t.kind # "stdio",
         SlotsGiven(server.stdio, server.http, run), OneKind(run), Tidy(more),
         Continued(more, run, m, t)
  PROVE  SlotsGiven(NoSlot, composeHTTP(Inherited(server, t.kind), t), more)
<1>1. PICK none : none = <<>> OBVIOUS
<1>2. DOMAIN none = {} /\ StdioSlot(NoSlot, none) BY <1>1 DEF StdioSlot, NoSlot
<1>3. ~IsLocal(more) BY <1>1, <1>2 DEF Grows, IsLocal, Continued
<1>4. PICK was : was = Inherited(server, t.kind) OBVIOUS
<1>5. HTTPSlot(composeHTTP(was, t), more)
  <2>1. CASE server.stdio # NoSlot \/ server.http = NoSlot \/ server.http.kind # t.kind
    <3>1. was = EmptyHTTP(t.kind) BY <1>4, <2>1 DEF Inherited
    <3>2. CASE run = none
      <4>1. Grows(more, none, m, t) BY <1>2, <3>2 DEF Continued
      <4> QED BY <1>2, <3>1, <4>1, HTTPNone, HTTPStep
    <3>3. CASE run # none
      <4>1. DOMAIN run # {} BY <1>1, <3>3, EmptyFunction DEF OneKind
      <4>2. ~\A i \in DOMAIN run : run[i].kind = t.kind
        <5>1. CASE IsLocal(run) BY <5>1 DEF IsLocal
        <5>2. CASE ~IsLocal(run)
          <6>1. HTTPSlot(server.http, run) /\ server.stdio = NoSlot
            BY <1>1, <5>2 DEF SlotsGiven, StdioSlot
          <6>2. HTTPGiven(server.http, run) /\ server.http # NoSlot
            BY <1>1, <3>3, <6>1 DEF HTTPSlot
          <6>3. \A i \in DOMAIN run : run[i].kind = server.http.kind BY <6>2 DEF HTTPGiven
          <6> QED BY <2>1, <4>1, <6>1, <6>2, <6>3
        <5> QED BY <5>1, <5>2
      <4>3. Grows(more, none, m, t) BY <1>1, <4>2 DEF Continued
      <4> QED BY <1>2, <3>1, <4>3, HTTPNone, HTTPStep
    <3> QED BY <3>2, <3>3
  <2>2. CASE ~(server.stdio # NoSlot \/ server.http = NoSlot \/ server.http.kind # t.kind)
    <3>1. was = server.http BY <1>4, <2>2 DEF Inherited
    <3>2. ~IsLocal(run) BY <1>1, <2>2 DEF SlotsGiven, HTTPSlot
    <3>3. HTTPGiven(was, run) BY <1>1, <2>2, <3>1, <3>2 DEF SlotsGiven, HTTPSlot
    <3>4. \A i \in DOMAIN run : run[i].kind = t.kind BY <2>2, <3>1, <3>3 DEF HTTPGiven
    <3>5. Grows(more, run, m, t) BY <3>4 DEF Continued
    <3> QED BY <3>3, <3>4, <3>5, HTTPStep
  <2> QED BY <2>1, <2>2
<1> QED BY <1>1, <1>2, <1>3, <1>4, <1>5 DEF SlotsGiven

(* A server of one more definition.                                          *)
LEMMA ServerStep ==
  ASSUME NEW server, NEW name, NEW at, NEW more, NEW m, NEW n,
         ServerGiven(server, name, at, None), Grows(more, at, m, n), Deep(more)
  PROVE  ServerGiven(ComposeServer(server, n), name, more, None)
<1>1. PICK new : new = ComposeServer(server, n) OBVIOUS
<1>2. PICK run : run = LastRun(TransportsOf(at)) OBVIOUS
<1>3. PICK longer : longer = LastRun(TransportsOf(more)) OBVIOUS
<1>4. PICK t : t = TransportOf(n)[1] OBVIOUS
<1>5. PICK scope : scope = Stronger(server.scope, ValueOf(n, "scope")) OBVIOUS
<1>6. server = [name |-> name, scope |-> server.scope, stdio |-> server.stdio, http |-> server.http]
  <2>1. PICK given : given = Stronger(None, StrongestOf([i \in DOMAIN at |-> ValueOf(at[i], "scope")], None))
    OBVIOUS
  <2>2. server = [name |-> name, scope |-> given, stdio |-> server.stdio, http |-> server.http]
    BY <2>1, ServerGivenIs
  <2> QED BY <2>2
<1>7. SlotsGiven(server.stdio, server.http, run) BY <1>2, ServerGivenIs
<1>8. scope = Stronger(None, StrongestOf([i \in DOMAIN more |-> ValueOf(more[i], "scope")], None))
  <2>1. server.scope
          = Stronger(None, StrongestOf([i \in DOMAIN at |-> ValueOf(at[i], "scope")], None))
    BY ServerGivenIs
  <2>2. \A v : Stronger(None, v) = v BY DEF Stronger
  <2> QED BY <1>5, <2>1, <2>2, ValueGrows
<1>9. DOMAIN at \subseteq Nat /\ DOMAIN TransportsOf(at) \subseteq Nat
  <2>1. DOMAIN TransportsOf(at) \subseteq DOMAIN at BY DEF TransportsOf
  <2> QED BY <2>1 DEF Grows
<1>10. OneKind(run) BY <1>2, <1>9, RunIs DEF OneKind
<1>11. Tidy(longer) BY <1>3, TransportsTidy
<1>12. CASE TransportOf(n) = <<>>
  <2>1. longer = run BY <1>2, <1>3, <1>12, TransportsGrow
  <2>2. new = [server EXCEPT !.scope = scope] BY <1>1, <1>5, <1>12 DEF ComposeServer
  <2>3. new = [name |-> name, scope |-> scope, stdio |-> server.stdio, http |-> server.http]
    BY <1>6, <2>2
  <2>4. SlotsGiven(new.stdio, new.http, longer) BY <1>7, <2>1, <2>3
  <2> QED BY <1>1, <1>3, <1>8, <2>3, <2>4, ServerGivenIs
<1>13. CASE TransportOf(n) # <<>>
  <2>1. Continued(longer, run, m, t)
    BY <1>2, <1>3, <1>4, <1>13, TransportsGrow, RunGrows DEF Continued
  <2>2. CASE t.kind = "stdio"
    <3>1. PICK stdio : stdio = composeStdio(IF server.http # NoSlot THEN NoSlot ELSE server.stdio, t)
      OBVIOUS
    <3>2. new = [server EXCEPT !.scope = scope, !.stdio = stdio, !.http = NoSlot]
      BY <1>1, <1>4, <1>5, <1>6, <1>13, <2>2, <3>1 DEF ComposeServer
    <3>3. new = [name |-> name, scope |-> scope, stdio |-> stdio, http |-> NoSlot]
      <4>1. DOMAIN new = {"name", "scope", "stdio", "http"} BY <1>6, <3>2
      <4>2. new.name = name /\ new.scope = scope /\ new.stdio = stdio /\ new.http = NoSlot
        BY <1>6, <3>2
      <4>3. new = [i \in DOMAIN new |-> new[i]] BY <3>2
      <4> QED BY <4>1, <4>2, <4>3
    <3>4. SlotsGiven(stdio, NoSlot, longer)
      BY <1>7, <1>10, <1>11, <2>1, <2>2, <3>1, StdioGivenNext
    <3>5. SlotsGiven(new.stdio, new.http, longer) BY <3>3, <3>4
    <3> QED BY <1>1, <1>3, <1>8, <3>3, <3>5, ServerGivenIs
  <2>3. CASE t.kind # "stdio"
    <3>1. PICK http : http = composeHTTP(Inherited(server, t.kind), t) OBVIOUS
    <3>2. new = [server EXCEPT !.scope = scope, !.stdio = NoSlot, !.http = http]
      BY <1>1, <1>4, <1>5, <1>6, <1>13, <2>3, <3>1 DEF ComposeServer
    <3>3. new = [name |-> name, scope |-> scope, stdio |-> NoSlot, http |-> http]
      <4>1. DOMAIN new = {"name", "scope", "stdio", "http"} BY <1>6, <3>2
      <4>2. new.name = name /\ new.scope = scope /\ new.stdio = NoSlot /\ new.http = http
        BY <1>6, <3>2
      <4>3. new = [i \in DOMAIN new |-> new[i]] BY <3>2
      <4> QED BY <4>1, <4>2, <4>3
    <3>4. SlotsGiven(NoSlot, http, longer)
      BY <1>7, <1>10, <1>11, <2>1, <2>3, <3>1, HTTPGivenNext
    <3>5. SlotsGiven(new.stdio, new.http, longer) BY <3>3, <3>4
    <3> QED BY <1>1, <1>3, <1>8, <3>3, <3>5, ServerGivenIs
  <2> QED BY <2>2, <2>3
<1> QED BY <1>12, <1>13

LEMMA ServerNew ==
  ASSUME NEW name, NEW at, DOMAIN at = {}
  PROVE  ServerGiven(NewServer(name), name, at, None)
<1>1. PICK new : new = NewServer(name) OBVIOUS
<1>2. new = [name |-> name, scope |-> None, stdio |-> NoSlot, http |-> NoSlot]
  BY <1>1 DEF NewServer
<1>3. StrongestOf([i \in DOMAIN at |-> ValueOf(at[i], "scope")], None) = None
  BY StrongestOfNone
<1>4. PICK run : run = LastRun(TransportsOf(at)) OBVIOUS
<1>5. DOMAIN TransportsOf(at) = {} BY DEF TransportsOf
<1>6. run = [i \in DOMAIN run |-> run[i]] /\ DOMAIN run = {} BY <1>4, <1>5, RunIs
<1>7. run = <<>> BY <1>6, EmptyFunction
<1>8. SlotsGiven(NoSlot, NoSlot, run) BY <1>7 DEF SlotsGiven, StdioSlot, HTTPSlot
<1>9. SlotsGiven(new.stdio, new.http, run) BY <1>2, <1>8
<1>10. Stronger(None, None) = None BY DEF Stronger
<1>11. new = [name |-> name,
              scope |-> Stronger(None, StrongestOf([i \in DOMAIN at |-> ValueOf(at[i], "scope")], None)),
              stdio |-> new.stdio, http |-> new.http]
  <2>1. new.stdio = NoSlot /\ new.http = NoSlot BY <1>2
  <2> QED BY <1>2, <1>3, <1>10, <2>1
<1> QED BY <1>1, <1>4, <1>9, <1>11, ServerGivenIs

(* A language server of one more definition.                                 *)
LEMMA LSPStep ==
  ASSUME NEW lsp, NEW name, NEW at, NEW more, NEW m, NEW n,
         LSPGiven(lsp, name, at, None), Grows(more, at, m, n), Deep(more)
  PROVE  LSPGiven(ComposeLSP(lsp, n), name, more, None)
<1> DEFINE Strongest(kind, a) == StrongestOf([i \in DOMAIN a |-> ValueOf(a[i], kind)], None)
<1>1. PICK new : new = ComposeLSP(lsp, n) OBVIOUS
<1>2. PICK stdio : stdio = IF Has(n, "stdio") THEN composeStdio(lsp.stdio, The(n, "stdio"))
                          ELSE lsp.stdio
  OBVIOUS
<1>3. PICK f : f = [i \in DOMAIN at |-> Selectors(at[i])] OBVIOUS
<1>4. PICK g : g = [i \in DOMAIN more |-> Selectors(more[i])] OBVIOUS
<1>5. \A kind : Strongest(kind, more) = Stronger(Strongest(kind, at), ValueOf(n, kind)) BY ValueGrows
<1>6. \A v : Stronger(None, v) = v BY DEF Stronger
<1>7. StrongestOf(g, <<>>) = StrongerList(StrongestOf(f, <<>>), Selectors(n))
  <2>1. PICK nothing : nothing = <<>> OBVIOUS
  <2>2. Grows(g, f, m, Selectors(n)) BY <1>3, <1>4 DEF Grows
  <2>3. StrongestOf(g, nothing)
          = IF Selectors(n) = nothing THEN StrongestOf(f, nothing) ELSE Selectors(n)
    BY <2>2, StrongestOfMore
  <2> QED BY <2>1, <2>3 DEF StrongerList
<1>8. /\ lsp = [name |-> name, scope |-> Strongest("scope", at),
                implementationId |-> Strongest("implementation-id", at),
                selectors |-> StrongestOf(f, <<>>),
                options |-> Strongest("initialization-options", at), stdio |-> lsp.stdio]
      /\ StdioSlot(lsp.stdio, Within(at, "stdio"))
  BY <1>3, <1>6 DEF LSPGiven
<1>10. new = [name |-> name, scope |-> Stronger(lsp.scope, ValueOf(n, "scope")),
              implementationId |-> Stronger(lsp.implementationId, ValueOf(n, "implementation-id")),
              selectors |-> StrongerList(lsp.selectors, Selectors(n)),
              options |-> Stronger(lsp.options, ValueOf(n, "initialization-options")),
              stdio |-> stdio]
  <2>1. PICK v1 : v1 = Stronger(lsp.scope, ValueOf(n, "scope")) OBVIOUS
  <2>2. PICK v2 : v2 = Stronger(lsp.implementationId, ValueOf(n, "implementation-id")) OBVIOUS
  <2>3. PICK v3 : v3 = StrongerList(lsp.selectors, Selectors(n)) OBVIOUS
  <2>4. PICK v4 : v4 = Stronger(lsp.options, ValueOf(n, "initialization-options")) OBVIOUS
  <2>5. new = [lsp EXCEPT !.scope = v1, !.implementationId = v2, !.selectors = v3, !.options = v4,
                          !.stdio = stdio]
    BY <1>1, <1>2, <1>8, <2>1, <2>2, <2>3, <2>4 DEF ComposeLSP
  <2>6. lsp = [name |-> name, scope |-> lsp.scope, implementationId |-> lsp.implementationId,
               selectors |-> lsp.selectors, options |-> lsp.options, stdio |-> lsp.stdio]
    BY <1>8
  <2>7. DOMAIN new = {"name", "scope", "implementationId", "selectors", "options", "stdio"}
    BY <2>5, <2>6
  <2>8. /\ new.name = name /\ new.scope = v1 /\ new.implementationId = v2
        /\ new.selectors = v3 /\ new.options = v4 /\ new.stdio = stdio
    BY <2>5, <2>6
  <2>9. new = [i \in DOMAIN new |-> new[i]] BY <2>5
  <2>10. new = [name |-> name, scope |-> v1, implementationId |-> v2, selectors |-> v3,
                options |-> v4, stdio |-> stdio]
    BY <2>7, <2>8, <2>9
  <2> QED BY <2>1, <2>2, <2>3, <2>4, <2>10
<1> HIDE DEF Strongest
<1>11. new = [name |-> name, scope |-> Strongest("scope", more),
              implementationId |-> Strongest("implementation-id", more),
              selectors |-> StrongestOf(g, <<>>),
              options |-> Strongest("initialization-options", more), stdio |-> new.stdio]
  BY <1>5, <1>7, <1>8, <1>10
<1>12. StdioSlot(new.stdio, Within(more, "stdio"))
  <2>1. new.stdio = stdio BY <1>10
  <2>2. Tidy(Within(more, "stdio")) BY WithinTidy
  <2>3. CASE Has(n, "stdio")
    <3>1. Grows(Within(more, "stdio"), Within(at, "stdio"), m, The(n, "stdio"))
      BY <2>3, WithinGrows
    <3>2. stdio = composeStdio(lsp.stdio, The(n, "stdio")) BY <1>2, <2>3
    <3> QED BY <1>8, <2>1, <2>2, <3>1, <3>2, StdioStep
  <2>4. CASE ~Has(n, "stdio")
    <3>1. Within(more, "stdio") = Within(at, "stdio") BY <2>4, WithinGrows
    <3> QED BY <1>2, <1>8, <2>1, <2>4, <3>1
  <2> QED BY <2>3, <2>4
<1> QED BY <1>1, <1>4, <1>6, <1>11, <1>12 DEF LSPGiven, Strongest

LEMMA LSPNew ==
  ASSUME NEW name, NEW at, DOMAIN at = {}
  PROVE  LSPGiven(NewLSP(name), name, at, None)
<1>1. PICK new : new = NewLSP(name) OBVIOUS
<1>2. new = [name |-> name, scope |-> None, implementationId |-> None, selectors |-> <<>>,
             options |-> None, stdio |-> NoSlot]
  BY <1>1 DEF NewLSP
<1>3. \A kind : StrongestOf([i \in DOMAIN at |-> ValueOf(at[i], kind)], None) = None
  BY StrongestOfNone
<1>4. StrongestOf([i \in DOMAIN at |-> Selectors(at[i])], <<>>) = <<>> BY StrongestOfNone
<1>5. Stronger(None, None) = None BY DEF Stronger
<1>6. Within(at, "stdio") = <<>> BY WithinNone
<1>7. new.stdio = NoSlot BY <1>2
<1>8. StdioSlot(new.stdio, Within(at, "stdio")) BY <1>6, <1>7 DEF StdioSlot
<1> QED BY <1>1, <1>2, <1>3, <1>4, <1>5, <1>8 DEF LSPGiven
-----------------------------------------------------------------------------
(* The definitions of a kind that one more file gives, one after the other.  *)
LEMMA GivenNamed ==
  ASSUME NEW definition, NEW kind, NEW name, NEW at, NEW scope,
         Given(definition, kind, name, at, scope)
  PROVE  definition.name = name
<1>1. CASE kind = "mcp"
  <2>1. PICK s : s = Stronger(scope, StrongestOf([i \in DOMAIN at |-> ValueOf(at[i], "scope")], None))
    OBVIOUS
  <2>2. definition = [name |-> name, scope |-> s, stdio |-> definition.stdio, http |-> definition.http]
    BY <1>1, <2>1 DEF Given, ServerGiven
  <2> QED BY <2>2
<1>2. CASE kind # "mcp"
  <2>1. LSPGiven(definition, name, at, scope) BY <1>2 DEF Given
  <2> QED BY <2>1 DEF LSPGiven
<1> QED BY <1>1, <1>2

LEMMA GivenStep ==
  ASSUME NEW definition, NEW kind \in {"mcp", "lsp"}, NEW name, NEW at, NEW more, NEW m, NEW d,
         d.kind = kind, Given(definition, kind, name, at, None), Grows(more, at, m, d), Deep(more)
  PROVE  Given(ComposeOne(definition, d), kind, name, more, None)
<1>1. CASE kind = "mcp"
  <2>1. ServerGiven(definition, name, at, None) BY <1>1 DEF Given
  <2>2. ServerGiven(ComposeServer(definition, d), name, more, None) BY <2>1, ServerStep
  <2> QED BY <1>1, <2>2 DEF Given, ComposeOne
<1>2. CASE kind # "mcp"
  <2>1. LSPGiven(definition, name, at, None) BY <1>2 DEF Given
  <2>2. LSPGiven(ComposeLSP(definition, d), name, more, None) BY <2>1, LSPStep
  <2> QED BY <1>2, <2>2 DEF Given, ComposeOne
<1> QED BY <1>1, <1>2

LEMMA GivenNew ==
  ASSUME NEW kind \in {"mcp", "lsp"}, NEW d, d.kind = kind, NEW at, DOMAIN at = {}
  PROVE  Given(New(d), kind, Key(d), at, None)
<1>1. CASE kind = "mcp" BY <1>1, ServerNew DEF Given, New
<1>2. CASE kind # "mcp" BY <1>2, LSPNew DEF Given, New
<1> QED BY <1>1, <1>2

(* Definitions whose names are in the order they are listed in, each as the  *)
(* nodes of its name give it.                                                *)
NamedAt(definitions, g, kind, nodes) ==
  /\ definitions \in Seq(ToSet(definitions))
  /\ InOrder([p \in DOMAIN definitions |-> definitions[p].name], g)
  /\ \A p \in DOMAIN definitions :
       Given(definitions[p], kind, definitions[p].name, nodes[definitions[p].name], None)

LEMMA SequenceIs ==
  ASSUME NEW list, NEW l \in Nat, list = [i \in 1..l |-> list[i]]
  PROVE  list \in Seq(ToSet(list)) /\ Len(list) = l
<1>1. PICK S : S = ToSet(list) OBVIOUS
<1>2. \A i \in 1..l : list[i] \in S BY <1>1 DEF ToSet
<1>3. list \in Seq(S) BY <1>2
<1> QED BY <1>1, <1>3

(* What one more definition d changes of the nodes given for each name.      *)
AddsTo(then, nodes, g, m, d) ==
  /\ \A x \in DOMAIN g : g[x] # Key(d) => then[g[x]] = nodes[g[x]]
  /\ Grows(then[Key(d)], nodes[Key(d)], m, d) /\ Deep(then[Key(d)])
  /\ (\A x \in DOMAIN g : g[x] # Key(d)) => DOMAIN nodes[Key(d)] = {}

LEMMA NamedPlaced ==
  ASSUME NEW definitions, NEW g, NEW h, NEW z, NEW kind \in {"mcp", "lsp"}, NEW d, NEW m,
         NEW nodes, NEW then, NamedAt(definitions, g, kind, nodes),
         OnPlaces(g), Follows(h, g, z), h[z] = Key(d), d.kind = kind,
         AddsTo(then, nodes, g, m, d)
  PROVE  NamedAt(PlaceNamed(definitions, d), h, kind, then)
<1>0. /\ \A x \in DOMAIN g : g[x] # Key(d) => then[g[x]] = nodes[g[x]]
      /\ Grows(then[Key(d)], nodes[Key(d)], m, d) /\ Deep(then[Key(d)])
      /\ (\A x \in DOMAIN g : g[x] # Key(d)) => DOMAIN nodes[Key(d)] = {}
  BY DEF AddsTo
<1>1. PICK l : l = Len(definitions) OBVIOUS
<1>2. PICK key : key = Key(d) OBVIOUS
<1>3. l \in Nat /\ DOMAIN definitions = 1..l /\ definitions = [i \in 1..l |-> definitions[i]]
  <2>1. definitions \in Seq(ToSet(definitions)) BY DEF NamedAt
  <2>2. PICK S : S = ToSet(definitions) OBVIOUS
  <2>3. definitions \in Seq(S) BY <2>1, <2>2
  <2> QED BY <1>1, <2>3
<1>4. PICK names : names = [p \in 1..l |-> definitions[p].name] OBVIOUS
<1>5. InOrder(names, g) BY <1>3, <1>4 DEF NamedAt
<1>6. \A p \in 1..l : Given(definitions[p], kind, names[p], nodes[names[p]], None)
  BY <1>3, <1>4 DEF NamedAt
<1>7. PICK same : same = {i \in 1..l : names[i] = key} OBVIOUS
<1>8. PICK new : new = PlaceNamed(definitions, d) OBVIOUS
<1>9. new = IF same = {} THEN Append(definitions, ComposeOne(New(d), d))
            ELSE [definitions EXCEPT ![CHOOSE i \in same : TRUE] = ComposeOne(@, d)]
  <2>1. same = {i \in 1..Len(definitions) : definitions[i].name = Key(d)}
    BY <1>1, <1>2, <1>4, <1>7
  <2> QED BY <1>8, <2>1 DEF PlaceNamed
<1>10. \A p \in 1..l : names[p] # key => then[names[p]] = nodes[names[p]]
  <2> SUFFICES ASSUME NEW p \in 1..l, names[p] # key PROVE then[names[p]] = nodes[names[p]]
    OBVIOUS
  <2>1. names[p] \in {names[i] : i \in DOMAIN names} BY <1>4
  <2>2. PICK x \in DOMAIN g : g[x] = names[p] BY <1>5, <2>1 DEF InOrder
  <2> QED BY <1>0, <1>2, <2>2
<1>11. CASE same = {}
  <2>1. PICK one : one = ComposeOne(New(d), d) OBVIOUS
  <2>2. new = Append(definitions, one) BY <1>9, <1>11, <2>1
  <2>3. /\ DOMAIN new = 1..(l + 1) /\ new[l + 1] = one /\ new = [i \in 1..(l + 1) |-> new[i]]
        /\ \A p \in 1..l : new[p] = definitions[p]
    <3>1. PICK T : T = ToSet(definitions) \cup {one} OBVIOUS
    <3>2. \A p \in 1..l : definitions[p] \in T BY <1>3, <3>1 DEF ToSet
    <3>3. definitions \in Seq(T) /\ one \in T
      <4>1. definitions \in Seq(ToSet(definitions)) /\ one \in T BY <3>1 DEF NamedAt
      <4>2. Len(definitions) = l /\ l \in Nat BY <1>1, <1>3
      <4>3. definitions \in [1..l -> T] BY <1>3, <3>2
      <4> QED BY <4>1, <4>2, <4>3
    <3> QED BY <1>1, <1>3, <2>2, <3>3
  <2>4. 1..(l + 1) = (1..l) \cup {l + 1} BY <1>3
  <2>5. \A x \in DOMAIN g : g[x] # key
    <3>1. \A i \in DOMAIN names : names[i] # key BY <1>4, <1>7, <1>11
    <3>2. {names[i] : i \in DOMAIN names} = {g[x] : x \in DOMAIN g} BY <1>5 DEF InOrder
    <3> QED BY <3>1, <3>2
  <2>6. Given(one, kind, key, then[key], None)
    <3>1. Given(New(d), kind, key, nodes[key], None) BY <1>0, <1>2, <2>5, GivenNew
    <3> QED BY <1>0, <1>2, <2>1, <3>1, GivenStep
  <2>7. one.name = key BY <2>6, GivenNamed
  <2>8. PICK more : more = [p \in DOMAIN new |-> new[p].name] OBVIOUS
  <2>9. /\ DOMAIN more = 1..(l + 1) /\ more[l + 1] = h[z]
        /\ \A p \in 1..l : more[p] = names[p]
    BY <1>2, <1>3, <1>4, <2>3, <2>4, <2>7, <2>8
  <2>10. InOrder(more, h)
    <3>1. DOMAIN names = 1..l /\ \A i \in 1..l : names[i] # h[z] BY <1>2, <1>4, <1>7, <1>11
    <3> QED BY <1>3, <1>5, <2>9, <3>1, NamesGrow
  <2>11. \A p \in DOMAIN new : Given(new[p], kind, new[p].name, then[new[p].name], None)
    <3> SUFFICES ASSUME NEW p \in DOMAIN new
                 PROVE  Given(new[p], kind, new[p].name, then[new[p].name], None)
      OBVIOUS
    <3>1. CASE p = l + 1 BY <2>3, <2>6, <2>7, <3>1
    <3>2. CASE p \in 1..l
      <4>1. new[p] = definitions[p] /\ new[p].name = names[p] /\ names[p] # key
        BY <1>4, <1>7, <1>11, <2>3, <3>2
      <4>2. Given(definitions[p], kind, names[p], then[names[p]], None)
        BY <1>6, <1>10, <3>2, <4>1
      <4> QED BY <4>1, <4>2
    <3> QED BY <2>3, <2>4, <3>1, <3>2
  <2>12. new \in Seq(ToSet(new))
    <3>1. l + 1 \in Nat BY <1>3
    <3> QED BY <2>3, <3>1, SequenceIs
  <2> QED BY <1>8, <2>8, <2>10, <2>11, <2>12 DEF NamedAt
<1>12. CASE same # {}
  <2>1. PICK c : c = CHOOSE i \in same : TRUE OBVIOUS
  <2>2. c \in 1..l /\ names[c] = key BY <1>7, <1>12, <2>1
  <2>3. PICK one : one = ComposeOne(definitions[c], d) OBVIOUS
  <2>4. new = [definitions EXCEPT ![c] = one] BY <1>9, <1>12, <2>1, <2>3
  <2>5. /\ DOMAIN new = 1..l /\ new[c] = one /\ new = [i \in 1..l |-> new[i]]
        /\ \A p \in 1..l : p # c => new[p] = definitions[p]
    BY <1>3, <2>2, <2>4
  <2>6. Given(one, kind, key, then[key], None)
    <3>1. Given(definitions[c], kind, key, nodes[key], None) BY <1>6, <2>2
    <3> QED BY <1>0, <1>2, <2>3, <3>1, GivenStep
  <2>7. one.name = key BY <2>6, GivenNamed
  <2>8. names = [p \in DOMAIN new |-> new[p].name]
    <3>1. \A p \in 1..l : new[p].name = names[p] BY <1>4, <2>2, <2>5, <2>7
    <3> QED BY <1>4, <2>5, <3>1
  <2>9. InOrder(names, h)
    <3>1. h[z] = names[c] /\ c \in DOMAIN names BY <1>2, <1>4, <2>2
    <3> QED BY <1>5, <3>1, NamesRepeat
  <2>10. \A p \in DOMAIN new : Given(new[p], kind, new[p].name, then[new[p].name], None)
    <3> SUFFICES ASSUME NEW p \in DOMAIN new
                 PROVE  Given(new[p], kind, new[p].name, then[new[p].name], None)
      OBVIOUS
    <3>1. CASE p = c BY <2>5, <2>6, <2>7, <3>1
    <3>2. CASE p # c
      <4>1. p \in 1..l /\ new[p] = definitions[p] /\ new[p].name = names[p]
        BY <1>4, <2>5, <3>2
      <4>2. names[p] # key
        <5>1. DOMAIN names \subseteq Nat /\ p \in DOMAIN names /\ c \in DOMAIN names
          BY <1>4, <2>2, <4>1
        <5>2. names[p] # names[c] BY <1>5, <3>2, <5>1, NamesDiffer
        <5> QED BY <2>2, <5>2
      <4>3. Given(definitions[p], kind, names[p], then[names[p]], None)
        BY <1>6, <1>10, <4>1, <4>2
      <4> QED BY <4>1, <4>3
    <3> QED BY <3>1, <3>2
  <2>11. new \in Seq(ToSet(new)) BY <1>3, <2>5, SequenceIs
  <2> QED BY <1>8, <2>8, <2>9, <2>10, <2>11 DEF NamedAt
<1> QED BY <1>11, <1>12
LEMMA DefinesIs ==
  ASSUME NEW n, n.kids \in Seq(ToSet(n.kids)), NEW kind, NEW name
  PROVE  Defines(n, kind, name) <=>
           \E p \in 1..Len(Kids(n, kind)) : Key(Kids(n, kind)[p]) = name
<1>1. PICK k : k = Kids(n, kind) OBVIOUS
<1>2. k \in Seq(ToSet(n.kids)) BY <1>1, KidsAre
<1>3. DOMAIN k = 1..Len(k) BY <1>2
<1>4. ToSet(k) = {k[p] : p \in 1..Len(k)} BY <1>3 DEF ToSet
<1> QED BY <1>1, <1>4 DEF Defines

LEMMA DefinitionIs ==
  ASSUME NEW n, n.kids \in Seq(ToSet(n.kids)), AcceptsNode(n), NEW kind \in {"mcp", "lsp"},
         NEW p \in 1..Len(Kids(n, kind))
  PROVE  (CHOOSE d \in ToSet(Kids(n, kind)) : Key(d) = Key(Kids(n, kind)[p])) = Kids(n, kind)[p]
<1>1. PICK k : k = Kids(n, kind) OBVIOUS
<1>2. k \in Seq(ToSet(n.kids)) BY <1>1, KidsAre
<1>3. DOMAIN k = 1..Len(k) BY <1>2
<1>4. ToSet(k) = {k[q] : q \in 1..Len(k)} BY <1>3 DEF ToSet
<1>5. \A d \in ToSet(k) : Key(d) = Key(k[p]) => d = k[p]
  <2> SUFFICES ASSUME NEW q \in 1..Len(k), Key(k[q]) = Key(k[p]) PROVE q = p BY <1>4
  <2> QED BY <1>1, KeysDiffer
<1>6. k[p] \in ToSet(k) BY <1>1, <1>4
<1> QED BY <1>1, <1>5, <1>6

LEMMA DefinitionsGrow ==
  ASSUME NEW files, NEW more, NEW m, NEW n, NEW kind, NEW name, Grows(more, files, m, n)
  PROVE  IF Defines(n, kind, name)
         THEN Grows(Definitions(more, kind, name), Definitions(files, kind, name), m,
                    CHOOSE d \in ToSet(Kids(n, kind)) : Key(d) = name)
         ELSE Definitions(more, kind, name) = Definitions(files, kind, name)
<1>1. PICK w : w = Definitions(files, kind, name) OBVIOUS
<1>2. PICK v : v = Definitions(more, kind, name) OBVIOUS
<1> DEFINE Def(f) == CHOOSE d \in ToSet(Kids(f, kind)) : Key(d) = name
<1>3. /\ w = [i \in {j \in DOMAIN files : Defines(files[j], kind, name)} |-> Def(files[i])]
      /\ v = [i \in {j \in DOMAIN more : Defines(more[j], kind, name)} |-> Def(more[i])]
  BY <1>1, <1>2 DEF Definitions
<1> HIDE DEF Def
<1>4. \A i \in DOMAIN w :
        i \in DOMAIN files /\ Defines(files[i], kind, name) /\ w[i] = Def(files[i])
  BY <1>3
<1>5. CASE Defines(n, kind, name)
  <2>1. DOMAIN v = DOMAIN w \cup {m} BY <1>3, <1>5 DEF Grows
  <2>2. v[m] = Def(n) BY <1>3, <1>5 DEF Grows
  <2>3. \A i \in DOMAIN w : v[i] = w[i] BY <1>3, <1>4 DEF Grows
  <2>4. Grows(v, w, m, Def(n)) BY <1>4, <2>1, <2>2, <2>3 DEF Grows
  <2> QED BY <1>1, <1>2, <1>5, <2>4 DEF Def
<1>6. CASE ~Defines(n, kind, name)
  <2>1. DOMAIN v = DOMAIN w BY <1>3, <1>6 DEF Grows
  <2>2. \A i \in DOMAIN w : v[i] = w[i] BY <1>3, <1>4 DEF Grows
  <2>3. v = [i \in DOMAIN v |-> v[i]] /\ w = [i \in DOMAIN w |-> w[i]] BY <1>3
  <2>4. v = w BY <2>1, <2>2, <2>3
  <2> QED BY <1>1, <1>2, <1>6, <2>4
<1> QED BY <1>5, <1>6

(* Files that the parser accepts.                                            *)
ParsedFile(n) ==
  /\ AcceptsNode(n) /\ n.kids \in Seq(ToSet(n.kids))
  /\ \A d \in ToSet(n.kids) :
       /\ d.kids \in Seq(ToSet(d.kids))
       /\ \A t \in ToSet(d.kids) : t.kids \in Seq(ToSet(t.kids))
Parsed(files) == \A i \in DOMAIN files : i \in Nat /\ ParsedFile(files[i])

LEMMA DefinitionsDeep ==
  ASSUME NEW files, Parsed(files), NEW kind, NEW name
  PROVE  Deep(Definitions(files, kind, name))
<1>1. PICK w : w = Definitions(files, kind, name) OBVIOUS
<1>2. w = [i \in {j \in DOMAIN files : Defines(files[j], kind, name)} |->
             CHOOSE d \in ToSet(Kids(files[i], kind)) : Key(d) = name]
  BY <1>1 DEF Definitions
<1>3. ASSUME NEW i \in DOMAIN w
      PROVE  /\ i \in Nat /\ w[i].kids \in Seq(ToSet(w[i].kids))
             /\ \A kid \in ToSet(w[i].kids) : kid.kids \in Seq(ToSet(kid.kids))
  <2>1. i \in DOMAIN files /\ Defines(files[i], kind, name) BY <1>2
  <2>2. i \in Nat /\ ParsedFile(files[i]) BY <2>1 DEF Parsed
  <2>3. PICK d \in ToSet(Kids(files[i], kind)) : Key(d) = name BY <2>1 DEF Defines
  <2>4. w[i] \in ToSet(Kids(files[i], kind)) BY <1>2, <2>3
  <2>5. w[i] \in ToSet(files[i].kids)
    <3>1. PICK k : k = Kids(files[i], kind) OBVIOUS
    <3>2. k \in Seq(ToSet(files[i].kids)) BY <2>2, <3>1, KidsAre DEF ParsedFile
    <3>3. \A p \in DOMAIN k : k[p] \in ToSet(files[i].kids) BY <3>2
    <3> QED BY <2>4, <3>1, <3>3 DEF ToSet
  <2> QED BY <2>2, <2>5 DEF ParsedFile
<1> QED BY <1>1, <1>3 DEF Deep

LEMMA NamedStep ==
  ASSUME NEW definitions, NEW kind \in {"mcp", "lsp"}, NEW files, NEW more, NEW m, NEW n,
         NamedGiven(definitions, kind, files, None), Grows(more, files, m, n), Parsed(more)
  PROVE  NamedGiven(ComposeNamed(definitions, Kids(n, kind)), kind, more, None)
<1>1. PICK partials : partials = Kids(n, kind) OBVIOUS
<1>2. PICK l : l = Len(partials) OBVIOUS
<1>3. m \in DOMAIN more /\ more[m] = n /\ m \in Nat BY DEF Grows
<1>4. ParsedFile(n) BY <1>3 DEF Parsed
<1>5. l \in Nat /\ \A p \in 1..l : partials[p].kind = kind
  BY <1>1, <1>2, <1>4, KidsAre DEF ParsedFile
<1>6. PICK keys : keys = KeysOf(n, kind) OBVIOUS
<1>7. keys = [p \in 1..l |-> Key(partials[p])] BY <1>1, <1>2, <1>6 DEF KeysOf
<1>8. \A p, q \in 1..l : keys[p] = keys[q] => p = q
  <2> SUFFICES ASSUME NEW p \in 1..l, NEW q \in 1..l, p # q PROVE keys[p] # keys[q]
    OBVIOUS
  <2>1. AcceptsNode(n) /\ n.kids \in Seq(ToSet(n.kids)) BY <1>4 DEF ParsedFile
  <2>2. p \in 1..Len(Kids(n, kind)) /\ q \in 1..Len(Kids(n, kind)) BY <1>1, <1>2
  <2>3. Key(Kids(n, kind)[p]) # Key(Kids(n, kind)[q]) BY <2>1, <2>2, KeysDiffer
  <2> QED BY <1>1, <1>7, <2>3
<1>9. PICK lists : lists = [i \in DOMAIN files |-> KeysOf(files[i], kind)] OBVIOUS
<1>10. PICK longer : longer = [i \in DOMAIN more |-> KeysOf(more[i], kind)] OBVIOUS
<1>11. Grows(longer, lists, m, keys) BY <1>6, <1>9, <1>10 DEF Grows
<1>12. Listing(longer)
  <2> SUFFICES ASSUME NEW i \in DOMAIN more PROVE i \in Nat /\ Len(longer[i]) \in Nat
    BY <1>10 DEF Listing
  <2>1. i \in Nat /\ ParsedFile(more[i]) BY DEF Parsed
  <2>2. PICK k : k = Len(Kids(more[i], kind)) OBVIOUS
  <2>3. k \in Nat BY <2>1, <2>2, KidsAre DEF ParsedFile
  <2>4. longer[i] = [p \in 1..k |-> Key(Kids(more[i], kind)[p])] BY <1>10, <2>2 DEF KeysOf
  <2>5. Len(longer[i]) = k BY <2>3, <2>4
  <2> QED BY <2>1, <2>3, <2>5
<1>13. Listing(lists) BY <1>11, <1>12 DEF Listing, Grows
<1>14. Len(keys) = l BY <1>5, <1>7
<1>15. PICK g : g = Listed(lists) OBVIOUS
<1>16. PICK h : h = Listed(longer) OBVIOUS
<1>17. Extends(h, g, m, keys) BY <1>11, <1>12, <1>15, <1>16, ListedGrows
<1>18. /\ OnPlaces(g) /\ g = [x \in DOMAIN g |-> g[x]] /\ h = [x \in DOMAIN h |-> h[x]]
       /\ \A x \in DOMAIN g : x[1] \in DOMAIN lists
       /\ \A i \in DOMAIN lists : \A p \in 1..Len(lists[i]) :
            <<i, p>> \in DOMAIN g /\ g[<<i, p>>] = lists[i][p]
  BY <1>12, <1>13, <1>15, <1>16, ListedOnPlaces
<1>19. \A x \in DOMAIN g : x[1] < m BY <1>11, <1>18 DEF Grows
<1> DEFINE Upto(k) == [x \in DOMAIN g \cup Places(m, k) |->
                         IF x \in DOMAIN g THEN g[x] ELSE keys[x[2]]]
           Names == {h[x] : x \in DOMAIN h}
           NodesOf(k) == [name \in Names |->
                            IF \E q \in 1..k : keys[q] = name
                            THEN Definitions(more, kind, name) ELSE Definitions(files, kind, name)]
<1>20. PICK upTo :
         /\ ComposeNamed(definitions, partials) = upTo[l] /\ upTo[0] = definitions
         /\ \A k \in 1..l : upTo[k] = PlaceNamed(upTo[k - 1], partials[k])
  <2>1. Len(partials) \in Nat BY <1>2, <1>5
  <2>2. PICK upTo :
          /\ ComposeNamed(definitions, partials) = upTo[Len(partials)] /\ upTo[0] = definitions
          /\ \A k \in 1..Len(partials) : upTo[k] = PlaceNamed(upTo[k - 1], partials[k])
    BY <2>1, NamedUnfold
  <2> QED BY <1>2, <2>2
<1>21. \A x \in DOMAIN g : x \in DOMAIN h /\ g[x] = h[x] /\ g[x] \in Names
  BY <1>17 DEF Extends
<1>22. \A p \in 1..l : keys[p] \in Names
  <2> SUFFICES ASSUME NEW p \in 1..l PROVE keys[p] \in Names OBVIOUS
  <2>1. <<m, p>> \in DOMAIN h /\ h[<<m, p>>] = keys[p] BY <1>14, <1>17 DEF Extends, Places
  <2> QED BY <2>1
<1> HIDE DEF Names
<1>23. PICK T : T = {k \in Nat : k <= l => NamedAt(upTo[k], Upto(k), kind, NodesOf(k))} OBVIOUS
<1>25. 0 \in T
  <2>1. Places(m, 0) = {} BY DEF Places
  <2>2. Upto(0) = g BY <1>18, <2>1
  <2>3. \A name \in Names : NodesOf(0)[name] = Definitions(files, kind, name) OBVIOUS
  <2> HIDE DEF NodesOf, Upto
  <2>4. PICK names : names = [p \in DOMAIN definitions |-> definitions[p].name] OBVIOUS
  <2>5. /\ definitions \in Seq(ToSet(definitions)) /\ InOrder(names, g)
        /\ \A p \in DOMAIN definitions :
             Given(definitions[p], kind, names[p], Definitions(files, kind, names[p]), None)
    BY <1>9, <1>15, <2>4 DEF NamedGiven
  <2>6. \A p \in DOMAIN definitions : names[p] \in Names
    <3>1. {names[p] : p \in DOMAIN names} = {g[x] : x \in DOMAIN g} BY <2>5 DEF InOrder
    <3>2. \A p \in DOMAIN names : names[p] \in {g[x] : x \in DOMAIN g} BY <3>1
    <3> QED BY <1>21, <2>4, <3>2
  <2>7. NamedAt(definitions, g, kind, NodesOf(0)) BY <2>3, <2>4, <2>5, <2>6 DEF NamedAt
  <2> QED BY <1>20, <1>23, <2>2, <2>7
<1>26. \A k \in Nat : k \in T => k + 1 \in T
  <2> SUFFICES ASSUME NEW k \in Nat, k + 1 <= l, NamedAt(upTo[k], Upto(k), kind, NodesOf(k))
               PROVE  NamedAt(upTo[k + 1], Upto(k + 1), kind, NodesOf(k + 1))
    <3> HIDE DEF Upto, NodesOf
    <3> QED BY <1>5, <1>23
  <2>1. PICK z : z = <<m, k + 1>> OBVIOUS
  <2>2. z[1] = m /\ z[2] = k + 1 /\ m \in Nat BY <1>3, <2>1
  <2>3. z \notin DOMAIN g BY <1>19, <2>2
  <2>4. DOMAIN Upto(k) = DOMAIN g \cup Places(m, k) OBVIOUS
  <2>5. \A x \in DOMAIN Upto(k) : x[1] \in Nat /\ x[2] \in Nat /\ Before(x, z)
    <3> SUFFICES ASSUME NEW x \in DOMAIN Upto(k)
                 PROVE  x[1] \in Nat /\ x[2] \in Nat /\ Before(x, z)
      OBVIOUS
    <3>1. CASE x \in DOMAIN g BY <1>18, <1>19, <2>2, <3>1 DEF OnPlaces, Before
    <3>2. CASE x \in Places(m, k)
      <4>1. PICK p \in 1..k : x = <<m, p>> BY <3>2 DEF Places
      <4>2. x[1] = m /\ x[2] = p /\ p < k + 1 BY <4>1
      <4> QED BY <2>2, <4>2 DEF Before
    <3> QED BY <2>4, <3>1, <3>2
  <2>6. DOMAIN Upto(k + 1) = DOMAIN Upto(k) \cup {z}
    <3>1. 1..(k + 1) = (1..k) \cup {k + 1} OBVIOUS
    <3>2. Places(m, k + 1) = Places(m, k) \cup {z} BY <2>1, <3>1 DEF Places
    <3> QED BY <2>4, <3>2
  <2>7. \A x \in DOMAIN Upto(k) : Upto(k + 1)[x] = Upto(k)[x]
    <3>1. \A x \in DOMAIN Upto(k) : x \in DOMAIN Upto(k + 1) BY <2>6
    <3> QED BY <3>1
  <2>8. Upto(k + 1)[z] = keys[k + 1]
    <3>1. z \in DOMAIN Upto(k + 1) BY <2>6
    <3> QED BY <2>2, <2>3, <3>1
  <2>9. ASSUME NEW x \in DOMAIN Upto(k) PROVE Upto(k)[x] \in Names
    <3>1. CASE x \in DOMAIN g BY <1>21, <3>1
    <3>2. CASE x \notin DOMAIN g
      <4>1. PICK p \in 1..k : x = <<m, p>> BY <2>4, <3>2 DEF Places
      <4>2. Upto(k)[x] = keys[p] BY <3>2, <4>1
      <4>3. p \in 1..l BY <1>5
      <4> QED BY <1>22, <4>2, <4>3
    <3> QED BY <3>1, <3>2
  <2>10. PICK d : d = partials[k + 1] OBVIOUS
  <2>11. PICK key : key = Key(d) OBVIOUS
  <2>12. /\ k + 1 \in 1..l /\ (k + 1) - 1 = k /\ d.kind = kind /\ keys[k + 1] = key
         /\ key \in Names /\ \A q \in 1..k : keys[q] # key
    <3>1. k + 1 \in 1..l /\ (k + 1) - 1 = k /\ \A q \in 1..k : q \in 1..l /\ q # k + 1
      BY <1>5
    <3> QED BY <1>5, <1>7, <1>8, <1>22, <2>10, <2>11, <3>1
  <2>13. upTo[k + 1] = PlaceNamed(upTo[k], d) BY <1>20, <2>10, <2>12
  <2>14. /\ NodesOf(k + 1)[key] = Definitions(more, kind, key)
         /\ NodesOf(k)[key] = Definitions(files, kind, key)
    <3>1. k + 1 \in 1..(k + 1) OBVIOUS
    <3> QED BY <2>12, <3>1
  <2>15. ASSUME NEW name \in Names, name # key PROVE NodesOf(k + 1)[name] = NodesOf(k)[name]
    <3>1. 1..(k + 1) = (1..k) \cup {k + 1} OBVIOUS
    <3>2. (\E q \in 1..(k + 1) : keys[q] = name) <=> (\E q \in 1..k : keys[q] = name)
      BY <2>12, <2>15, <3>1
    <3> QED BY <3>2
  <2>16. Grows(Definitions(more, kind, key), Definitions(files, kind, key), m, d)
    <3>1. Kids(n, kind)[k + 1] = d /\ k + 1 \in 1..Len(Kids(n, kind))
      BY <1>1, <1>2, <2>10, <2>12
    <3>2. AcceptsNode(n) /\ n.kids \in Seq(ToSet(n.kids)) BY <1>4 DEF ParsedFile
    <3>3. Defines(n, kind, key) BY <2>11, <3>1, <3>2, DefinesIs
    <3>4. (CHOOSE e \in ToSet(Kids(n, kind)) : Key(e) = key) = d
      BY <2>11, <3>1, <3>2, DefinitionIs
    <3> QED BY <3>3, <3>4, DefinitionsGrow
  <2>17. Deep(Definitions(more, kind, key)) BY DefinitionsDeep
  <2>18. ASSUME \A x \in DOMAIN Upto(k) : Upto(k)[x] # key
         PROVE  DOMAIN Definitions(files, kind, key) = {}
    <3> SUFFICES ASSUME NEW i \in DOMAIN files, Defines(files[i], kind, key) PROVE FALSE
      BY DEF Definitions
    <3>1. ParsedFile(files[i]) BY DEF Grows, Parsed
    <3>2. PICK r : r = Kids(files[i], kind) OBVIOUS
    <3>3. PICK p \in 1..Len(r) : Key(r[p]) = key BY <3>1, <3>2, DefinesIs DEF ParsedFile
    <3>4. Len(r) \in Nat BY <3>1, <3>2, KidsAre DEF ParsedFile
    <3>5. lists[i] = [q \in 1..Len(r) |-> Key(r[q])] BY <1>9, <3>2 DEF KeysOf
    <3>6. Len(lists[i]) = Len(r) /\ lists[i][p] = key BY <3>3, <3>4, <3>5
    <3>7. <<i, p>> \in DOMAIN g /\ g[<<i, p>>] = key BY <1>9, <1>18, <3>6
    <3>8. <<i, p>> \in DOMAIN Upto(k) /\ Upto(k)[<<i, p>>] = key BY <3>7
    <3> QED BY <2>18, <3>8
  <2> HIDE DEF Upto, NodesOf
  <2>19. OnPlaces(Upto(k)) /\ Follows(Upto(k + 1), Upto(k), z)
    BY <2>2, <2>5, <2>6, <2>7 DEF OnPlaces, Follows
  <2>20. PICK a : a = Upto(k) OBVIOUS
  <2>21. PICK b : b = Upto(k + 1) OBVIOUS
  <2>22. PICK nodes : nodes = NodesOf(k) OBVIOUS
  <2>23. PICK then : then = NodesOf(k + 1) OBVIOUS
  <2>24. /\ NamedAt(upTo[k], a, kind, nodes) /\ OnPlaces(a) /\ Follows(b, a, z) /\ b[z] = Key(d)
    BY <2>8, <2>11, <2>12, <2>19, <2>20, <2>21, <2>22
  <2>25. AddsTo(then, nodes, a, m, d)
    BY <2>9, <2>11, <2>14, <2>15, <2>16, <2>17, <2>18, <2>20, <2>22, <2>23 DEF AddsTo
  <2>26. NamedAt(PlaceNamed(upTo[k], d), b, kind, then) BY <2>12, <2>24, <2>25, NamedPlaced
  <2> QED BY <2>13, <2>21, <2>23, <2>26
<1>27. NamedAt(upTo[l], Upto(l), kind, NodesOf(l))
  <2> HIDE DEF Upto, NodesOf
  <2>1. l \in T BY <1>5, <1>25, <1>26, Counting
  <2> QED BY <1>5, <1>23, <2>1
<1>28. h = Upto(l)
  <2>1. \A x \in DOMAIN h : h[x] = IF x \in DOMAIN g THEN g[x] ELSE keys[x[2]]
    <3> SUFFICES ASSUME NEW x \in DOMAIN h, x \notin DOMAIN g PROVE h[x] = keys[x[2]]
      BY <1>21
    <3>1. PICK p \in 1..l : x = <<m, p>> BY <1>14, <1>17 DEF Extends, Places
    <3> QED BY <1>14, <1>17, <3>1 DEF Extends
  <2> QED BY <1>14, <1>17, <1>18, <2>1 DEF Extends
<1>29. ASSUME NEW name \in Names PROVE NodesOf(l)[name] = Definitions(more, kind, name)
  <2>1. CASE \E q \in 1..l : keys[q] = name BY <2>1
  <2>2. CASE ~\E q \in 1..l : keys[q] = name
    <3>1. ~Defines(n, kind, name) BY <1>1, <1>2, <1>4, <1>7, <2>2, DefinesIs DEF ParsedFile
    <3>2. Definitions(more, kind, name) = Definitions(files, kind, name)
      BY <3>1, DefinitionsGrow
    <3> QED BY <2>2, <3>2
  <2> QED BY <2>1, <2>2
<1> HIDE DEF Upto, NodesOf
<1>30. PICK new : new = upTo[l] OBVIOUS
<1>31. PICK names : names = [p \in DOMAIN new |-> new[p].name] OBVIOUS
<1>32. /\ new \in Seq(ToSet(new)) /\ InOrder(names, h)
       /\ \A p \in DOMAIN new : Given(new[p], kind, names[p], NodesOf(l)[names[p]], None)
  BY <1>27, <1>28, <1>30, <1>31 DEF NamedAt
<1>33. \A p \in DOMAIN new : names[p] \in Names
  <2>1. {names[p] : p \in DOMAIN names} = {h[x] : x \in DOMAIN h} BY <1>32 DEF InOrder
  <2>2. \A p \in DOMAIN names : names[p] \in {h[x] : x \in DOMAIN h} BY <2>1
  <2> QED BY <1>31, <2>2 DEF Names
<1>34. NamedGiven(new, kind, more, None)
  BY <1>10, <1>16, <1>29, <1>31, <1>32, <1>33 DEF NamedGiven
<1> QED BY <1>1, <1>20, <1>30, <1>34
-----------------------------------------------------------------------------
(* A whole configuration: of no file, of one more, and completed.            *)
NoDefaults == [gitRoot |-> None, scope |-> None]

LEMMA DocumentedIs ==
  ASSUME NEW c, NEW files, NEW defaults
  PROVE  Documented(c, files, defaults) <=>
           /\ c = [root |-> c.root, gitRoot |-> c.gitRoot, identities |-> c.identities,
                   servers |-> c.servers, lsps |-> c.lsps]
           /\ c.root = StrongestOf([i \in DOMAIN files |-> ValueOf(files[i], "root")], None)
           /\ c.gitRoot = Stronger(defaults.gitRoot,
                                   StrongestOf([i \in DOMAIN files |-> ValueOf(files[i], "git-root")], None))
           /\ c.identities = StrongestOf([i \in DOMAIN files |-> Identities(files[i])], <<>>)
           /\ NamedGiven(c.servers, "mcp", files, defaults.scope)
           /\ NamedGiven(c.lsps, "lsp", files, defaults.scope)
<1>1. PICK a : a = StrongestOf([i \in DOMAIN files |-> ValueOf(files[i], "root")], None) OBVIOUS
<1>2. PICK b : b = Stronger(defaults.gitRoot,
                            StrongestOf([i \in DOMAIN files |-> ValueOf(files[i], "git-root")], None))
  OBVIOUS
<1>3. PICK e : e = StrongestOf([i \in DOMAIN files |-> Identities(files[i])], <<>>) OBVIOUS
<1>4. Documented(c, files, defaults) <=>
        /\ c = [root |-> a, gitRoot |-> b, identities |-> e, servers |-> c.servers, lsps |-> c.lsps]
        /\ NamedGiven(c.servers, "mcp", files, defaults.scope)
        /\ NamedGiven(c.lsps, "lsp", files, defaults.scope)
  BY <1>1, <1>2, <1>3 DEF Documented
<1>5. c = [root |-> a, gitRoot |-> b, identities |-> e, servers |-> c.servers, lsps |-> c.lsps]
        <=> /\ c = [root |-> c.root, gitRoot |-> c.gitRoot, identities |-> c.identities,
                    servers |-> c.servers, lsps |-> c.lsps]
            /\ c.root = a /\ c.gitRoot = b /\ c.identities = e
  <2>1. ASSUME c = [root |-> a, gitRoot |-> b, identities |-> e,
                    servers |-> c.servers, lsps |-> c.lsps]
        PROVE  c.root = a /\ c.gitRoot = b /\ c.identities = e
    BY <2>1
  <2> QED BY <2>1
<1> QED BY <1>1, <1>2, <1>3, <1>4, <1>5

LEMMA NamedNone ==
  ASSUME NEW kind, NEW files, DOMAIN files = {}
  PROVE  NamedGiven(<<>>, kind, files, None)
<1>1. PICK lists : lists = [i \in DOMAIN files |-> KeysOf(files[i], kind)] OBVIOUS
<1>2. PICK g : g = Listed(lists) OBVIOUS
<1>3. DOMAIN g = {} BY <1>1, <1>2 DEF Listed
<1>4. PICK none : none = <<>> OBVIOUS
<1>5. none \in Seq(ToSet(none)) /\ DOMAIN none = {} BY <1>4
<1>6. PICK names : names = [p \in DOMAIN none |-> none[p].name] OBVIOUS
<1>7. InOrder(names, g) BY <1>3, <1>5, <1>6 DEF InOrder
<1> QED BY <1>1, <1>2, <1>4, <1>5, <1>6, <1>7 DEF NamedGiven

LEMMA ComposeNone ==
  ASSUME NEW files, DOMAIN files = {}
  PROVE  Documented(EmptyConfig, files, NoDefaults)
<1>1. PICK c : c = EmptyConfig OBVIOUS
<1>2. c = [root |-> None, gitRoot |-> None, identities |-> <<>>, servers |-> <<>>, lsps |-> <<>>]
  BY <1>1 DEF EmptyConfig
<1>3. /\ StrongestOf([i \in DOMAIN files |-> ValueOf(files[i], "root")], None) = None
      /\ StrongestOf([i \in DOMAIN files |-> ValueOf(files[i], "git-root")], None) = None
      /\ StrongestOf([i \in DOMAIN files |-> Identities(files[i])], <<>>) = <<>>
  BY StrongestOfNone
<1>4. NoDefaults.gitRoot = None /\ NoDefaults.scope = None BY DEF NoDefaults
<1>5. Stronger(None, None) = None BY DEF Stronger
<1>6. NamedGiven(<<>>, "mcp", files, None) /\ NamedGiven(<<>>, "lsp", files, None) BY NamedNone
<1>7. /\ c.root = None /\ c.gitRoot = None /\ c.identities = <<>>
      /\ c.servers = <<>> /\ c.lsps = <<>>
      /\ c = [root |-> c.root, gitRoot |-> c.gitRoot, identities |-> c.identities,
              servers |-> c.servers, lsps |-> c.lsps]
  BY <1>2
<1> QED BY <1>1, <1>3, <1>4, <1>5, <1>6, <1>7, DocumentedIs

LEMMA ComposeStep ==
  ASSUME NEW c, NEW files, NEW more, NEW m, NEW n,
         Documented(c, files, NoDefaults), Grows(more, files, m, n), Parsed(more)
  PROVE  Documented(Compose(c, n), more, NoDefaults)
<1>1. PICK new : new = Compose(c, n) OBVIOUS
<1>2. new = [root |-> Stronger(c.root, ValueOf(n, "root")),
             gitRoot |-> Stronger(c.gitRoot, ValueOf(n, "git-root")),
             identities |-> StrongerList(c.identities, Identities(n)),
             servers |-> ComposeNamed(c.servers, Kids(n, "mcp")),
             lsps |-> ComposeNamed(c.lsps, Kids(n, "lsp"))]
  BY <1>1 DEF Compose
<1>3. NoDefaults.gitRoot = None /\ NoDefaults.scope = None BY DEF NoDefaults
<1>4. \A v : Stronger(None, v) = v BY DEF Stronger
<1>5. /\ c.root = StrongestOf([i \in DOMAIN files |-> ValueOf(files[i], "root")], None)
      /\ c.gitRoot = StrongestOf([i \in DOMAIN files |-> ValueOf(files[i], "git-root")], None)
      /\ c.identities = StrongestOf([i \in DOMAIN files |-> Identities(files[i])], <<>>)
      /\ NamedGiven(c.servers, "mcp", files, None) /\ NamedGiven(c.lsps, "lsp", files, None)
  BY <1>3, <1>4, DocumentedIs
<1>6. new.root = StrongestOf([i \in DOMAIN more |-> ValueOf(more[i], "root")], None)
  BY <1>2, <1>5, ValueGrows
<1>7. new.gitRoot = StrongestOf([i \in DOMAIN more |-> ValueOf(more[i], "git-root")], None)
  BY <1>2, <1>5, ValueGrows
<1>8. new.identities = StrongestOf([i \in DOMAIN more |-> Identities(more[i])], <<>>)
  <2>1. PICK f : f = [i \in DOMAIN files |-> Identities(files[i])] OBVIOUS
  <2>2. PICK g : g = [i \in DOMAIN more |-> Identities(more[i])] OBVIOUS
  <2>3. PICK nothing : nothing = <<>> OBVIOUS
  <2>4. Grows(g, f, m, Identities(n)) BY <2>1, <2>2 DEF Grows
  <2>5. StrongestOf(g, nothing)
          = IF Identities(n) = nothing THEN StrongestOf(f, nothing) ELSE Identities(n)
    BY <2>4, StrongestOfMore
  <2> QED BY <1>2, <1>5, <2>1, <2>2, <2>3, <2>5 DEF StrongerList
<1>9. NamedGiven(new.servers, "mcp", more, None) BY <1>2, <1>5, NamedStep
<1>10. NamedGiven(new.lsps, "lsp", more, None) BY <1>2, <1>5, NamedStep
<1>11. new = [root |-> new.root, gitRoot |-> new.gitRoot, identities |-> new.identities,
              servers |-> new.servers, lsps |-> new.lsps]
  BY <1>2
<1> QED BY <1>1, <1>3, <1>4, <1>6, <1>7, <1>8, <1>9, <1>10, <1>11, DocumentedIs

LEMMA GivenScoped ==
  ASSUME NEW definition, NEW kind, NEW name, NEW at, Given(definition, kind, name, at, None),
         NEW scoped, scoped = [definition EXCEPT !.scope = IF @ = None THEN Workspace ELSE @]
  PROVE  Given(scoped, kind, name, at, Workspace)
<1>1. PICK v : v = StrongestOf([i \in DOMAIN at |-> ValueOf(at[i], "scope")], None) OBVIOUS
<1>2. Stronger(None, v) = v /\ Stronger(Workspace, v) = IF v = None THEN Workspace ELSE v
  BY DEF Stronger
<1>3. CASE kind = "mcp"
  <2>1. PICK run : run = LastRun(TransportsOf(at)) OBVIOUS
  <2>2. /\ definition = [name |-> name, scope |-> v, stdio |-> definition.stdio,
                         http |-> definition.http]
        /\ SlotsGiven(definition.stdio, definition.http, run)
    BY <1>1, <1>2, <1>3, <2>1, ServerGivenIs DEF Given
  <2>3. scoped = [name |-> name, scope |-> Stronger(Workspace, v), stdio |-> definition.stdio,
                  http |-> definition.http]
    BY <1>2, <2>2
  <2>4. scoped.stdio = definition.stdio /\ scoped.http = definition.http BY <2>3
  <2>5. scoped = [name |-> name, scope |-> Stronger(Workspace, v), stdio |-> scoped.stdio,
                  http |-> scoped.http]
    BY <2>3, <2>4
  <2>6. SlotsGiven(scoped.stdio, scoped.http, run) BY <2>2, <2>4
  <2>7. ServerGiven(scoped, name, at, Workspace) BY <1>1, <2>1, <2>5, <2>6, ServerGivenIs
  <2> QED BY <1>3, <2>7 DEF Given
<1>4. CASE kind # "mcp"
  <2>1. PICK a : a = StrongestOf([i \in DOMAIN at |-> ValueOf(at[i], "implementation-id")], None)
    OBVIOUS
  <2>2. PICK b : b = StrongestOf([i \in DOMAIN at |-> Selectors(at[i])], <<>>) OBVIOUS
  <2>3. PICK e : e = StrongestOf([i \in DOMAIN at |-> ValueOf(at[i], "initialization-options")], None)
    OBVIOUS
  <2>4. /\ definition = [name |-> name, scope |-> v, implementationId |-> a, selectors |-> b,
                         options |-> e, stdio |-> definition.stdio]
        /\ StdioSlot(definition.stdio, Within(at, "stdio"))
    BY <1>1, <1>2, <1>4, <2>1, <2>2, <2>3 DEF Given, LSPGiven
  <2>5. scoped = [name |-> name, scope |-> Stronger(Workspace, v), implementationId |-> a,
                  selectors |-> b, options |-> e, stdio |-> definition.stdio]
    BY <1>2, <2>4
  <2>6. scoped.stdio = definition.stdio BY <2>5
  <2>7. LSPGiven(scoped, name, at, Workspace)
    BY <1>1, <2>1, <2>2, <2>3, <2>4, <2>5, <2>6 DEF LSPGiven
  <2> QED BY <1>4, <2>7 DEF Given
<1> QED BY <1>3, <1>4

LEMMA NamedScoped ==
  ASSUME NEW definitions, NEW kind, NEW files, NamedGiven(definitions, kind, files, None)
  PROVE  NamedGiven(Scoped(definitions), kind, files, Workspace)
<1>1. PICK l : l = Len(definitions) OBVIOUS
<1>2. l \in Nat /\ DOMAIN definitions = 1..l
  <2>1. PICK S : S = ToSet(definitions) OBVIOUS
  <2>2. definitions \in Seq(S) BY <2>1 DEF NamedGiven
  <2> QED BY <1>1, <2>2
<1>3. PICK new : new = Scoped(definitions) OBVIOUS
<1>4. new = [i \in 1..l |-> [definitions[i] EXCEPT !.scope = IF @ = None THEN Workspace ELSE @]]
  BY <1>1, <1>3 DEF Scoped
<1>5. DOMAIN new = 1..l /\ new = [i \in 1..l |-> new[i]] BY <1>4
<1>6. new \in Seq(ToSet(new)) BY <1>2, <1>5, SequenceIs
<1>7. ASSUME NEW p \in 1..l
      PROVE  LET name == definitions[p].name
             IN /\ Given(new[p], kind, name, Definitions(files, kind, name), Workspace)
                /\ new[p].name = name
  <2>1. PICK name : name = definitions[p].name OBVIOUS
  <2>2. PICK at : at = Definitions(files, kind, name) OBVIOUS
  <2>3. Given(definitions[p], kind, name, at, None) BY <1>2, <2>1, <2>2 DEF NamedGiven
  <2>4. new[p] = [definitions[p] EXCEPT !.scope = IF @ = None THEN Workspace ELSE @] BY <1>4
  <2>5. Given(new[p], kind, name, at, Workspace) BY <2>3, <2>4, GivenScoped
  <2>6. new[p].name = name BY <2>5, GivenNamed
  <2> QED BY <2>1, <2>2, <2>5, <2>6
<1>8. [p \in DOMAIN new |-> new[p].name] = [p \in DOMAIN definitions |-> definitions[p].name]
  BY <1>2, <1>5, <1>7
<1>9. InOrder([p \in DOMAIN new |-> new[p].name], Listed([i \in DOMAIN files |-> KeysOf(files[i], kind)]))
  BY <1>8 DEF NamedGiven
<1> QED BY <1>3, <1>5, <1>6, <1>7, <1>9 DEF NamedGiven

LEMMA CompleteStep ==
  ASSUME NEW c, NEW files, Documented(c, files, NoDefaults)
  PROVE  Documented(WithDefaults(c), files, Defaults)
<1>1. PICK new : new = WithDefaults(c) OBVIOUS
<1>2. PICK v : v = IF c.gitRoot = None THEN [as |-> "", text |-> TRUE] ELSE c.gitRoot OBVIOUS
<1>3. PICK s : s = Scoped(c.servers) OBVIOUS
<1>4. PICK l : l = Scoped(c.lsps) OBVIOUS
<1>5. c = [root |-> c.root, gitRoot |-> c.gitRoot, identities |-> c.identities,
           servers |-> c.servers, lsps |-> c.lsps]
  BY DocumentedIs
<1>6. new = [c EXCEPT !.gitRoot = v, !.servers = s, !.lsps = l]
  BY <1>1, <1>2, <1>3, <1>4, <1>5 DEF WithDefaults
<1>7. /\ DOMAIN new = {"root", "gitRoot", "identities", "servers", "lsps"}
      /\ new.root = c.root /\ new.gitRoot = v /\ new.identities = c.identities
      /\ new.servers = s /\ new.lsps = l /\ new = [f \in DOMAIN new |-> new[f]]
  BY <1>5, <1>6
<1>8. new = [root |-> new.root, gitRoot |-> new.gitRoot, identities |-> new.identities,
             servers |-> new.servers, lsps |-> new.lsps]
  BY <1>7
<1>9. /\ NoDefaults.gitRoot = None /\ NoDefaults.scope = None /\ Defaults.scope = Workspace
      /\ Defaults.gitRoot = [as |-> "", text |-> TRUE]
  BY DEF NoDefaults, Defaults
<1>10. new.gitRoot = Stronger(Defaults.gitRoot,
                              StrongestOf([i \in DOMAIN files |-> ValueOf(files[i], "git-root")], None))
  <2>1. PICK g : g = StrongestOf([i \in DOMAIN files |-> ValueOf(files[i], "git-root")], None)
    OBVIOUS
  <2>2. c.gitRoot = g BY <1>9, <2>1, DocumentedIs DEF Stronger
  <2> QED BY <1>2, <1>7, <1>9, <2>1, <2>2 DEF Stronger
<1>11. /\ new.root = StrongestOf([i \in DOMAIN files |-> ValueOf(files[i], "root")], None)
       /\ new.identities = StrongestOf([i \in DOMAIN files |-> Identities(files[i])], <<>>)
  BY <1>7, DocumentedIs
<1>12. NamedGiven(new.servers, "mcp", files, Workspace) /\ NamedGiven(new.lsps, "lsp", files, Workspace)
  BY <1>3, <1>4, <1>7, <1>9, NamedScoped, DocumentedIs
<1> QED BY <1>1, <1>8, <1>9, <1>10, <1>11, <1>12, DocumentedIs
-----------------------------------------------------------------------------
(* Templates: none is left once they are expanded.                           *)
Expanded(v) == v = None \/ v.as # "template"

LEMMA ValueExpanded == ASSUME NEW v PROVE Expanded(materializeValue(v))
<1>1. CASE v # None /\ v.as = "template"
  <2>1. PICK w : w = materializeValue(v) OBVIOUS
  <2>2. PICK text : text = Expansion[v.text] OBVIOUS
  <2>3. w = [as |-> "", text |-> text] BY <1>1, <2>1, <2>2 DEF materializeValue
  <2>4. w.as = "" BY <2>3
  <2> QED BY <2>1, <2>4 DEF Expanded
<1>2. CASE ~(v # None /\ v.as = "template") BY <1>2 DEF Expanded, materializeValue
<1> QED BY <1>1, <1>2

LEMMA EntriesExpanded ==
  ASSUME NEW entries PROVE \A v \in EntryValues(MaterializeEntries(entries)) : Expanded(v)
<1>1. PICK m : m = MaterializeEntries(entries) OBVIOUS
<1>2. m = [i \in 1..Len(entries) |->
             [name |-> entries[i].name, value |-> materializeValue(entries[i].value)]]
  BY <1>1 DEF MaterializeEntries
<1>3. \A i \in DOMAIN m : m[i].value = materializeValue(entries[i].value) BY <1>2
<1>4. \A i \in DOMAIN m : Expanded(m[i].value) BY <1>3, ValueExpanded
<1> QED BY <1>1, <1>4 DEF EntryValues, ToSet

LEMMA ServerExpanded ==
  ASSUME NEW server, NEW name, NEW at, NEW scope, ServerGiven(server, name, at, scope)
  PROVE  Templates(materializeServer(server)) = {}
<1>1. PICK new : new = materializeServer(server) OBVIOUS
<1>2. PICK s : s = Stronger(scope, StrongestOf([i \in DOMAIN at |-> ValueOf(at[i], "scope")], None))
  OBVIOUS
<1>3. server = [name |-> name, scope |-> s, stdio |-> server.stdio, http |-> server.http]
  BY <1>2 DEF ServerGiven
<1>4. \A v \in ValuesIn(new) : Expanded(v)
  <2>1. CASE server.http = NoSlot
    <3>1. PICK stdio : stdio = materializeStdio(server.stdio) OBVIOUS
    <3>2. new = [server EXCEPT !.stdio = stdio] BY <1>1, <1>3, <2>1, <3>1 DEF materializeServer
    <3>3. new.http = NoSlot /\ new.stdio = stdio BY <1>3, <2>1, <3>2
    <3>4. /\ stdio.command = materializeValue(server.stdio.command)
          /\ stdio.args = [i \in 1..Len(server.stdio.args) |-> materializeValue(server.stdio.args[i])]
          /\ stdio.env = MaterializeEntries(server.stdio.env)
      BY <3>1 DEF materializeStdio
    <3>5. Expanded(stdio.command) BY <3>4, ValueExpanded
    <3>6. \A v \in ToSet(stdio.args) : Expanded(v) BY <3>4, ValueExpanded DEF ToSet
    <3>7. \A v \in EntryValues(stdio.env) : Expanded(v) BY <3>4, EntriesExpanded
    <3>8. ValuesIn(new)
            = ({stdio.command} \cup ToSet(stdio.args) \cup EntryValues(stdio.env)) \ {None}
      BY <3>3 DEF ValuesIn
    <3> QED BY <3>5, <3>6, <3>7, <3>8
  <2>2. CASE server.http # NoSlot
    <3>1. PICK http : http = materializeHTTP(server.http) OBVIOUS
    <3>2. new = [server EXCEPT !.http = http] BY <1>1, <1>3, <2>2, <3>1 DEF materializeServer
    <3>3. new.http = http BY <1>3, <3>2
    <3>4. /\ http.endpoint = materializeValue(server.http.endpoint)
          /\ http.query = MaterializeEntries(server.http.query)
          /\ http.headers = MaterializeEntries(server.http.headers)
          /\ http.oauth = materializeOAuth(server.http.oauth)
          /\ "kind" \in DOMAIN http
      BY <3>1 DEF materializeHTTP
    <3>5. http # NoSlot BY <3>4, EmptyDomain DEF NoSlot
    <3>6. PICK oauth : oauth = IF http.oauth = NoSlot THEN {}
                               ELSE {http.oauth.clientId, http.oauth.clientSecret, http.oauth.redirectUri}
      OBVIOUS
    <3>7. \A v \in oauth : Expanded(v)
      <4>1. CASE server.http.oauth = NoSlot
        <5>1. http.oauth = NoSlot BY <3>4, <4>1 DEF materializeOAuth
        <5> QED BY <3>6, <5>1
      <4>2. CASE server.http.oauth # NoSlot
        <5>1. PICK o : o = server.http.oauth OBVIOUS
        <5>2. http.oauth = [clientId |-> materializeValue(o.clientId),
                            clientSecret |-> materializeValue(o.clientSecret),
                            redirectUri |-> materializeValue(o.redirectUri)]
          BY <3>4, <4>2, <5>1 DEF materializeOAuth
        <5>3. /\ http.oauth.clientId = materializeValue(o.clientId)
              /\ http.oauth.clientSecret = materializeValue(o.clientSecret)
              /\ http.oauth.redirectUri = materializeValue(o.redirectUri)
          BY <5>2
        <5> QED BY <3>6, <5>3, ValueExpanded
      <4> QED BY <4>1, <4>2
    <3>8. Expanded(http.endpoint) BY <3>4, ValueExpanded
    <3>9. /\ \A v \in EntryValues(http.query) : Expanded(v)
          /\ \A v \in EntryValues(http.headers) : Expanded(v)
      BY <3>4, EntriesExpanded
    <3>10. ValuesIn(new) = ({http.endpoint} \cup EntryValues(http.query)
                              \cup EntryValues(http.headers) \cup oauth) \ {None}
      BY <3>3, <3>5, <3>6 DEF ValuesIn
    <3> QED BY <3>7, <3>8, <3>9, <3>10
  <2> QED BY <2>1, <2>2
<1>5. None \notin ValuesIn(new) BY DEF ValuesIn
<1>6. {w \in ValuesIn(new) : w.as = "template"} = {} BY <1>4, <1>5 DEF Expanded
<1> QED BY <1>1, <1>6 DEF Templates

-----------------------------------------------------------------------------
(* The state machine.  What is documented of the finished configuration      *)
(* holds all along of the part composed, with nothing by default.            *)
Composed == [i \in 1..next |-> read[i]]

IInv ==
  /\ Len(read) \in Nat /\ read = [i \in 1..Len(read) |-> read[i]]
  /\ read \in Seq(ToSet(read))
  /\ \A i \in 1..Len(read) : ParsedFile(read[i])
  /\ next \in 0..Len(read)
  /\ phase \in {"reading", "composing"} => Documented(config, Composed, NoDefaults)
  /\ ComposedAsDocumented

LEMMA AcceptedIsParsed ==
  ASSUME ComposeAssumption, NEW d \in Documents, Accepts(d) PROVE ParsedFile(d)
<1>1. d \in Nodes(d) /\ ToSet(d.kids) \subseteq Nodes(d) BY DEF Nodes, Below
<1>2. \A n \in ToSet(d.kids) : ToSet(n.kids) \subseteq Nodes(d)
  <2> SUFFICES ASSUME NEW n \in ToSet(d.kids), NEW t \in ToSet(n.kids) PROVE t \in Nodes(d)
    OBVIOUS
  <2>1. n \in Below({d}) BY DEF Below
  <2>2. t \in Below(Below({d})) BY <2>1 DEF Below
  <2> QED BY <2>2 DEF Nodes
<1>3. \A m \in Nodes(d) : m.kids \in Seq(ToSet(m.kids)) BY DEF ComposeAssumption
<1>4. AcceptsNode(d) BY <1>1 DEF Accepts
<1> QED BY <1>1, <1>2, <1>3, <1>4 DEF ParsedFile

LEMMA InitIInv == Init => IInv
<1> SUFFICES ASSUME Init PROVE IInv OBVIOUS
<1>1. phase = "reading" /\ read = <<>> /\ next = 0 /\ config = EmptyConfig BY DEF Init
<1>2. PICK none : none = <<>> OBVIOUS
<1>3. /\ Len(none) = 0 /\ none = [i \in 1..Len(none) |-> none[i]] /\ none \in Seq(ToSet(none))
  BY <1>2
<1>4. DOMAIN Composed = {} BY <1>1 DEF Composed
<1>5. Documented(config, Composed, NoDefaults) BY <1>1, <1>4, ComposeNone
<1> QED BY <1>1, <1>2, <1>3, <1>5 DEF IInv, ComposedAsDocumented

LEMMA LoadIInv ==
  ASSUME ComposeAssumption, IInv, NEW d \in Documents, Load(d) PROVE IInv'
<1>1. phase = "reading" /\ next' = next /\ config' = config BY DEF Load
<1>2. PICK l : l = Len(read) OBVIOUS
<1>3. /\ l \in Nat /\ read = [i \in 1..l |-> read[i]] /\ next \in 0..l
      /\ \A i \in 1..l : ParsedFile(read[i])
      /\ Documented(config, Composed, NoDefaults)
  BY <1>1, <1>2 DEF IInv
<1>4. CASE Accepts(d)
  <2>1. read' = Append(read, d) /\ phase' = phase BY <1>4 DEF Load
  <2>2. ParsedFile(d) BY <1>4, AcceptedIsParsed
  <2>3. PICK T : T = ToSet(read) \cup {d} OBVIOUS
  <2>4. read \in Seq(T)
    <3>1. \A i \in 1..l : read[i] \in T BY <1>3, <2>3 DEF ToSet
    <3>2. read \in [1..l -> T] BY <1>3, <3>1
    <3>3. Len(read) = l /\ l \in Nat /\ read \in Seq(ToSet(read)) BY <1>2, <1>3 DEF IInv
    <3> QED BY <3>2, <3>3
  <2>5. /\ read' \in Seq(T) /\ Len(read') = l + 1 /\ DOMAIN read' = 1..(l + 1)
        /\ read'[l + 1] = d /\ \A i \in 1..l : read'[i] = read[i]
    BY <1>2, <1>3, <2>1, <2>3, <2>4
  <2>6. read' = [i \in 1..(l + 1) |-> read'[i]] BY <2>5
  <2>7. read' \in Seq(ToSet(read')) BY <1>3, <2>6, SequenceIs
  <2>8. \A i \in 1..(l + 1) : ParsedFile(read'[i])
    <3>1. 1..(l + 1) = (1..l) \cup {l + 1} BY <1>3
    <3> QED BY <1>3, <2>2, <2>5, <3>1
  <2>9. Composed' = Composed BY <1>1, <1>3, <2>5 DEF Composed
  <2>10. Documented(config, Composed, NoDefaults)' BY <1>1, <1>3, <2>9
  <2>11. ComposedAsDocumented' BY <1>1, <2>1 DEF ComposedAsDocumented
  <2>12. next' \in 0..(l + 1) BY <1>1, <1>3
  <2> QED BY <1>3, <2>5, <2>6, <2>7, <2>8, <2>10, <2>11, <2>12 DEF IInv
<1>5. CASE ~Accepts(d)
  <2>1. read' = read /\ phase' = "failed" BY <1>5 DEF Load
  <2> QED BY <1>1, <2>1 DEF IInv, ComposedAsDocumented
<1> QED BY <1>4, <1>5

LEMMA ComposeNextIInv == ASSUME IInv, ComposeNext PROVE IInv'
<1>1. /\ phase \in {"reading", "composing"} /\ next < Len(read) /\ phase' = "composing"
      /\ next' = next + 1 /\ config' = Compose(config, read[next + 1]) /\ read' = read
  BY DEF ComposeNext
<1>2. PICK m : m = next + 1 OBVIOUS
<1>3. PICK files : files = Composed OBVIOUS
<1>4. PICK more : more = [i \in 1..m |-> read[i]] OBVIOUS
<1>5. /\ Len(read) \in Nat /\ next \in 0..Len(read) /\ \A i \in 1..Len(read) : ParsedFile(read[i])
      /\ Documented(config, files, NoDefaults)
  BY <1>1, <1>3 DEF IInv
<1>6. next \in Nat /\ m \in 1..Len(read) /\ m \in Nat BY <1>1, <1>2, <1>5
<1>7. 1..m = (1..next) \cup {m} BY <1>2, <1>6
<1>8. files = [i \in 1..next |-> read[i]] BY <1>3 DEF Composed
<1>9. Grows(more, files, m, read[m])
  <2>1. DOMAIN files = 1..next /\ DOMAIN more = 1..m BY <1>4, <1>8
  <2>2. \A i \in 1..next : i < m /\ more[i] = files[i] BY <1>2, <1>4, <1>6, <1>7, <1>8
  <2>3. more[m] = read[m] BY <1>4, <1>7
  <2> QED BY <1>6, <1>7, <2>1, <2>2, <2>3 DEF Grows
<1>10. Parsed(more)
  <2>1. \A i \in 1..m : i \in Nat /\ i \in 1..Len(read) BY <1>5, <1>6
  <2> QED BY <1>4, <1>5, <2>1 DEF Parsed
<1>11. Documented(Compose(config, read[m]), more, NoDefaults)
  BY <1>5, <1>9, <1>10, ComposeStep
<1>12. Composed' = more BY <1>1, <1>2, <1>4 DEF Composed
<1>13. Documented(config, Composed, NoDefaults)' BY <1>1, <1>2, <1>11, <1>12
<1>14. next' \in 0..Len(read') BY <1>1, <1>2, <1>6
<1>15. ComposedAsDocumented' BY <1>1 DEF ComposedAsDocumented
<1> QED BY <1>1, <1>13, <1>14, <1>15 DEF IInv

LEMMA CompleteIInv == ASSUME IInv, Complete PROVE IInv'
<1>1. /\ phase = "composing" /\ next = Len(read) /\ config' = WithDefaults(config)
      /\ phase' \in {"done", "failed"} /\ read' = read /\ next' = next
  BY DEF Complete
<1>2. Documented(config, Composed, NoDefaults) /\ read = [i \in 1..Len(read) |-> read[i]]
  BY <1>1 DEF IInv
<1>3. Composed = read BY <1>1, <1>2 DEF Composed
<1>4. Documented(config', read, Defaults) BY <1>1, <1>2, <1>3, CompleteStep
<1>5. ComposedAsDocumented' BY <1>1, <1>4 DEF ComposedAsDocumented
<1> QED BY <1>1, <1>5 DEF IInv

LEMMA MaterializeIInv ==
  ASSUME IInv, NEW i \in 1..Len(config.servers), NEW context \in Contexts, Materialize(i, context)
  PROVE  IInv'
<1>1. PICK server : server = config.servers[i] OBVIOUS
<1>2. PICK new : new = materializeServer(server) OBVIOUS
<1>3. /\ phase = "done" /\ read' = read /\ next' = next
      /\ \/ phase' = "ready" /\ config' = [config EXCEPT !.servers = <<new>>]
         \/ phase' = "failed" /\ config' = config
  BY <1>1, <1>2 DEF Materialize
<1>4. Documented(config, read, Defaults) BY <1>3 DEF IInv, ComposedAsDocumented
<1>5. CASE phase' = "failed" BY <1>3, <1>5 DEF IInv, ComposedAsDocumented
<1>6. CASE phase' = "ready" /\ config' = [config EXCEPT !.servers = <<new>>]
  <2>1. NamedGiven(config.servers, "mcp", read, Defaults.scope)
        /\ "servers" \in DOMAIN config
    <3>1. config = [root |-> config.root, gitRoot |-> config.gitRoot,
                    identities |-> config.identities, servers |-> config.servers,
                    lsps |-> config.lsps]
      BY <1>4, DocumentedIs
    <3>2. "servers" \in DOMAIN config BY <3>1
    <3> QED BY <1>4, <3>2, DocumentedIs
  <2>2. i \in DOMAIN config.servers
    <3>1. PICK S : S = ToSet(config.servers) OBVIOUS
    <3>2. config.servers \in Seq(S) BY <2>1, <3>1 DEF NamedGiven
    <3> QED BY <3>2
  <2>3. PICK at : at = Definitions(read, "mcp", server.name) OBVIOUS
  <2>4. ServerGiven(server, server.name, at, Defaults.scope)
    BY <1>1, <2>1, <2>2, <2>3 DEF NamedGiven, Given
  <2>5. Templates(new) = {} BY <1>2, <2>4, ServerExpanded
  <2>6. config'.servers[1] = new
    <3>1. config'.servers = <<new>> BY <1>6, <2>1
    <3> QED BY <3>1
  <2>7. ComposedAsDocumented' BY <1>6, <2>5, <2>6 DEF ComposedAsDocumented
  <2> QED BY <1>3, <1>6, <2>7 DEF IInv
<1> QED BY <1>3, <1>5, <1>6

LEMMA NextIInv == ComposeAssumption => (IInv /\ [Next]_vars => IInv')
<1> SUFFICES ASSUME ComposeAssumption, IInv, [Next]_vars PROVE IInv' OBVIOUS
<1>1. ASSUME NEW d \in Documents, Load(d) PROVE IInv' BY <1>1, LoadIInv
<1>2. CASE ComposeNext BY <1>2, ComposeNextIInv
<1>3. CASE Complete BY <1>3, CompleteIInv
<1>4. ASSUME NEW i \in 1..Len(config.servers), NEW context \in Contexts, Materialize(i, context)
      PROVE  IInv'
  BY <1>4, MaterializeIInv
<1>5. CASE UNCHANGED vars BY <1>5 DEF vars, IInv, Composed, ComposedAsDocumented
<1> QED BY <1>1, <1>2, <1>3, <1>4, <1>5 DEF Next

(* For any files, any number of them and any contexts: the configuration an   *)
(* accepted set of files composes to is the documented one, and a server      *)
(* expanded for an invocation holds no template.                              *)
THEOREM AlwaysComposedAsDocumented == ComposeAssumption => (Spec => []ComposedAsDocumented)
<1> SUFFICES ASSUME ComposeAssumption PROVE Spec => []ComposedAsDocumented OBVIOUS
<1>1. Init => IInv BY InitIInv
<1>2. IInv /\ [Next]_vars => IInv' BY NextIInv
<1>3. IInv => ComposedAsDocumented BY DEF IInv
<1> QED BY <1>1, <1>2, <1>3, PTL DEF Spec

-----------------------------------------------------------------------------
(* What a daemon serves requests with, of what its files compose to. *)
CONSTANTS Requests, Providers, Asks, LSPs, Versions, ExecutionOf, Snapshots, SecretsOf,
          MaxGeneration
VARIABLES session, holders, stopping, generation, configs, pools, secretCache, starting,
          file, store, floor, pc, gen, wants, mine, cached, snap, at, work
Reuse == INSTANCE SecretReuse

ReuseStages == {"new", "lookup", "keep", "admit", "reuse", "drop", "work", "done"}

(* Where a request's configuration, and where its snapshot too, is settled.  *)
ReuseSettled(r) == pc[r] \in {"reuse", "drop", "work", "done"}

FilesTyped ==
  /\ generation \in Reuse!Generations /\ file \in Versions /\ store \in Snapshots
  /\ configs \in [Reuse!Generations -> Versions \cup {None}]
  /\ floor \in [Reuse!Generations -> Nat]

RequestsTyped ==
  /\ pc \in [Requests -> ReuseStages] /\ gen \in [Requests -> Reuse!Generations]
  /\ cached \in [Requests -> Versions] /\ snap \in [Requests -> Snapshots]
  /\ wants \in [Requests -> SUBSET Providers]
  /\ \A r \in Requests : pc[r] # "new" => wants[r] \in Asks

PoolsTyped ==
  /\ DOMAIN pools = Reuse!PoolKeys /\ \A k \in Reuse!PoolKeys : pools[k] \in Reuse!Entries \cup {None}
  /\ DOMAIN at = Reuse!Workers /\ \A w \in Reuse!Workers : at[w] \in Reuse!Entries \cup {None}
  /\ DOMAIN secretCache = Reuse!MetadataKeys /\ DOMAIN work = Reuse!Workers

ReuseTyped == FilesTyped /\ RequestsTyped /\ PoolsTyped

-----------------------------------------------------------------------------
(* A configuration is cached for the generation under way only; who is       *)
(* admitted in it was given that one, and what was loaded since it began is  *)
(* no older than its files were.                                             *)
CachedForNow == \A g \in Reuse!Generations : configs[g] # None =>
  g = generation /\ configs[g] >= floor[g]

AdmittedAlike == \A r \in Requests : Reuse!Admitted(r) /\ gen[r] = generation =>
  configs[generation] = cached[r]

ConfigLoaded == \A r \in Requests : pc[r] = "keep" => cached[r] >= floor[gen[r]]

Chronological ==
  /\ \A r \in Requests : gen[r] <= generation
  /\ \A g \in Reuse!Generations : g <= generation => floor[g] <= file

ConfigInv ==
  /\ ReuseTyped /\ CachedForNow /\ AdmittedAlike /\ ConfigLoaded /\ Chronological
  /\ Reuse!OneConfiguration /\ Reuse!FreshAfterReload

-----------------------------------------------------------------------------
(* An entry is in the pool under the key its creator had, and still has;     *)
(* memory leads from metadata and a snapshot to the keys these make; so what *)
(* a worker found has the key that the worker would give it.                 *)
EntryMade(e) == ReuseSettled(e[1])

PooledUnderKey == \A k \in Reuse!PoolKeys : pools[k] # None =>
  EntryMade(pools[k]) /\ Reuse!CreatedUnder(pools[k]) = k

RememberedAsMade == \A m \in Reuse!MetadataKeys : secretCache[m] # None =>
  \A z \in m.wants : secretCache[m].keys[z] =
    [provider |-> z, gen |-> m.gen, execution |-> m.execution,
     value |-> SecretsOf[secretCache[m].snapshot]]

FoundUnderKey == \A w \in Reuse!Workers : at[w] # None =>
  /\ EntryMade(w) /\ EntryMade(at[w])
  /\ Reuse!CreatedUnder(at[w]) = Reuse!PoolKey(w, w[1])

WorkersSettled == \A w \in Reuse!Workers : work[w] # "none" => EntryMade(w)

SessionsInv == PooledUnderKey /\ RememberedAsMade /\ FoundUnderKey /\ WorkersSettled

ReuseInv == ConfigInv /\ SessionsInv

-----------------------------------------------------------------------------
LEMMA WorkerParts ==
  ASSUME NEW w \in Reuse!Workers
  PROVE  w[1] \in Requests /\ w[2] \in Providers /\ w = <<w[1], w[2]>>
  BY DEF Reuse!Workers, Reuse!Entries

LEMMA PoolKeyType ==
  ASSUME ReuseTyped, NEW w \in Reuse!Workers
  PROVE  Reuse!PoolKey(w, w[1]) \in Reuse!PoolKeys
  BY WorkerParts DEF ReuseTyped, RequestsTyped, Reuse!PoolKey, Reuse!PoolKeys,
       Reuse!Executions, Reuse!Values

LEMMA MetadataKeyType ==
  ASSUME ReuseTyped, NEW r \in Requests, pc[r] # "new"
  PROVE  Reuse!MetadataKey(r) \in Reuse!MetadataKeys
  BY DEF ReuseTyped, RequestsTyped, Reuse!MetadataKey, Reuse!MetadataKeys,
       Reuse!Executions

(* What a step of the files, of an entry and of a worker leaves alone.       *)
ReuseFileStep == Reuse!Edit \/ Reuse!UpdateSecrets \/ Reuse!Reload

ReuseEntryStep(e) == Reuse!Publish(e) \/ Reuse!PublishError(e)

ReuseWorkerStep(w) ==
  \/ Reuse!Reuse(w) \/ Reuse!NoReuse(w) \/ Reuse!ReuseLeased(w)
  \/ Reuse!ReuseFailed(w) \/ Reuse!GiveBackReused(w)
  \/ Reuse!Acquire(w) \/ Reuse!AcquireRefused(w) \/ Reuse!Lease(w)
  \/ Reuse!LeaseRefused(w) \/ Reuse!Release(w)

ReuseRequestStep(r) ==
  \/ Reuse!Arrive(r) \/ Reuse!FindConfig(r) \/ Reuse!LoadConfig(r)
  \/ Reuse!KeepRefused(r) \/ Reuse!KeepConfig(r)
  \/ Reuse!Mismatch(r) \/ Reuse!Capture(r) \/ Reuse!AllReused(r) \/ Reuse!Resolve(r)
  \/ Reuse!ResolveFails(r)
  \/ Reuse!RememberMCP(r) \/ Reuse!RememberLSP(r) \/ Reuse!Answer(r)

LEMMA ReuseNextParts ==
  ASSUME Reuse!Next
  PROVE  \/ ReuseFileStep \/ (\E e \in Reuse!Entries : ReuseEntryStep(e))
         \/ (\E r \in Requests : ReuseRequestStep(r))
         \/ \E w \in Reuse!Workers : ReuseWorkerStep(w)
  BY DEF Reuse!Next, ReuseFileStep, ReuseEntryStep, ReuseRequestStep, ReuseWorkerStep

LEMMA FileStepLeaves ==
  ASSUME ReuseFileStep PROVE UNCHANGED Reuse!requestVars
  BY DEF ReuseFileStep, Reuse!Edit, Reuse!UpdateSecrets, Reuse!Reload

LEMMA EntryStepLeaves ==
  ASSUME NEW e \in Reuse!Entries, ReuseEntryStep(e)
  PROVE  UNCHANGED <<generation, configs, secretCache, Reuse!fileVars, Reuse!requestVars>>
  BY DEF ReuseEntryStep, Reuse!Publish, Reuse!PublishError

(* A worker's step moves its handler on within its settled stages, if at all. *)
LEMMA WorkerStepLeaves ==
  ASSUME NEW w \in Reuse!Workers, ReuseWorkerStep(w)
  PROVE  /\ UNCHANGED <<generation, configs, Reuse!fileVars, gen, wants, cached, snap>>
         /\ \/ pc' = pc
            \/ pc[w[1]] = "reuse" /\ pc' = [pc EXCEPT ![w[1]] = "drop"]
  BY DEF ReuseWorkerStep, Reuse!Reuse, Reuse!NoReuse, Reuse!ReuseLeased,
       Reuse!ReuseFailed, Reuse!GiveBackReused, Reuse!Acquire,
         Reuse!AcquireRefused, Reuse!Lease, Reuse!LeaseRefused, Reuse!Release,
         Reuse!Goto, Reuse!daemonVars, Reuse!requestVars

(* How a request comes by its configuration, step by step.                   *)
LEMMA RequestStepCases ==
  ASSUME NEW r \in Requests, ReuseRequestStep(r)
  PROVE  /\ UNCHANGED <<generation, Reuse!fileVars>>
         /\ \/ Reuse!Arrive(r) \/ Reuse!FindConfig(r) \/ Reuse!LoadConfig(r)
            \/ Reuse!KeepConfig(r) \/ Reuse!Capture(r)
            \/ /\ UNCHANGED <<configs, gen, wants, cached, snap>>
               /\ \E from, to \in ReuseStages :
                    /\ Reuse!Goto(r, from, to) /\ to # "new" /\ from \notin {"new", "done"}
                    /\ ReuseSettled(r) \/ to = "done"
                    /\ from \in {"reuse", "drop", "work"} => to \in {"work", "done"}
            \/ UNCHANGED <<configs, gen, wants, cached, snap, pc>>
<1> USE DEF ReuseStages, ReuseSettled, Reuse!Goto, Reuse!Spawn, Reuse!Remember,
           Reuse!daemonVars, Reuse!requestVars
<1>1. CASE Reuse!Arrive(r) \/ Reuse!FindConfig(r) \/ Reuse!LoadConfig(r) \/
           Reuse!KeepConfig(r) \/ Reuse!Capture(r)
  BY <1>1 DEF Reuse!Arrive, Reuse!FindConfig, Reuse!LoadConfig, Reuse!KeepConfig,
       Reuse!Capture
<1>2. CASE Reuse!KeepRefused(r) \/ Reuse!Mismatch(r) \/ Reuse!AllReused(r) \/
           Reuse!Resolve(r) \/ Reuse!ResolveFails(r)
  BY <1>2 DEF Reuse!KeepRefused, Reuse!Mismatch, Reuse!AllReused, Reuse!Resolve,
       Reuse!ResolveFails
<1>3. CASE Reuse!RememberMCP(r)
  BY <1>3 DEF Reuse!RememberMCP
<1>4. CASE Reuse!RememberLSP(r) \/ Reuse!Answer(r)
  BY <1>4 DEF Reuse!RememberLSP, Reuse!Answer
<1> QED BY <1>1, <1>2, <1>3, <1>4 DEF ReuseRequestStep

(* Once settled, always settled, and alike.                                  *)
LEMMA SettledStays ==
  ASSUME ReuseTyped, [Reuse!Next]_(Reuse!vars), NEW r \in Requests, ReuseSettled(r)
  PROVE  ReuseSettled(r)' /\ gen'[r] = gen[r] /\ cached'[r] = cached[r] /\ snap'[r] = snap[r]
<1> USE DEF ReuseTyped, RequestsTyped
<1>1. CASE UNCHANGED Reuse!requestVars
  BY <1>1 DEF Reuse!requestVars, ReuseSettled
<1>2. ASSUME NEW w \in Reuse!Workers, ReuseWorkerStep(w)
      PROVE  ReuseSettled(r)' /\ gen'[r] = gen[r] /\ cached'[r] = cached[r] /\ snap'[r] = snap[r]
  BY <1>2, WorkerStepLeaves, WorkerParts DEF ReuseSettled
<1>3. ASSUME NEW other \in Requests, ReuseRequestStep(other)
      PROVE  ReuseSettled(r)' /\ gen'[r] = gen[r] /\ cached'[r] = cached[r] /\ snap'[r] = snap[r]
  <2>1. CASE Reuse!Arrive(other) \/ Reuse!FindConfig(other) \/
             Reuse!LoadConfig(other) \/ Reuse!KeepConfig(other) \/ Reuse!Capture(other)
    <3>1. r # other
      BY <2>1 DEF Reuse!Arrive, Reuse!FindConfig, Reuse!LoadConfig, Reuse!KeepConfig,
           Reuse!Capture, Reuse!Goto, ReuseSettled
    <3> QED BY <2>1, <3>1
            DEF Reuse!Arrive, Reuse!FindConfig, Reuse!LoadConfig, Reuse!KeepConfig,
            Reuse!Capture, Reuse!Goto, ReuseSettled
  <2>2. CASE /\ UNCHANGED <<configs, gen, wants, cached, snap>>
             /\ \E from, to \in ReuseStages :
                  /\ Reuse!Goto(other, from, to) /\ to # "new" /\ from \notin {"new", "done"}
                  /\ ReuseSettled(other) \/ to = "done"
                  /\ from \in {"reuse", "drop", "work"} => to \in {"work", "done"}
    BY <2>2 DEF Reuse!Goto, ReuseSettled, ReuseStages
  <2>3. CASE UNCHANGED <<configs, gen, wants, cached, snap, pc>>
    BY <2>3 DEF ReuseSettled
  <2> QED BY <1>3, <2>1, <2>2, <2>3, RequestStepCases
<1> QED
  BY <1>1, <1>2, <1>3, ReuseNextParts, FileStepLeaves, EntryStepLeaves DEF Reuse!vars

LEMMA FilesTypedStep ==
  ASSUME Reuse!ReuseAssumption, ReuseTyped, [Reuse!Next]_(Reuse!vars)
  PROVE  FilesTyped'
<1> USE DEF Reuse!ReuseAssumption, ReuseTyped, FilesTyped, Reuse!Generations
<1>1. CASE ReuseFileStep
  <2>1. CASE Reuse!Edit \/ Reuse!UpdateSecrets
    BY <2>1 DEF Reuse!Edit, Reuse!UpdateSecrets, Reuse!daemonVars
  <2>2. CASE Reuse!Reload
    <3>1. generation' \in Reuse!Generations /\ UNCHANGED <<file, store>>
      BY <2>2 DEF Reuse!Reload
    <3>2. configs' \in [Reuse!Generations -> Versions \cup {None}]
      BY <2>2 DEF Reuse!Reload
    <3>3. floor' \in [Reuse!Generations -> Nat] BY <2>2 DEF Reuse!Reload
    <3> QED BY <3>1, <3>2, <3>3
  <2> QED BY <1>1, <2>1, <2>2 DEF ReuseFileStep
<1>2. CASE UNCHANGED <<generation, configs, Reuse!fileVars>>
  BY <1>2 DEF Reuse!fileVars
<1>3. ASSUME NEW r \in Requests, Reuse!KeepConfig(r) PROVE FilesTyped'
  <2>1. PICK v \in Versions \cup {None} : configs' = [configs EXCEPT ![gen[r]] = v]
    BY <1>3 DEF Reuse!KeepConfig, RequestsTyped
  <2>2. UNCHANGED <<generation, Reuse!fileVars>> BY <1>3 DEF Reuse!KeepConfig
  <2> QED BY <2>1, <2>2 DEF Reuse!fileVars
<1>4. ASSUME NEW r \in Requests, ReuseRequestStep(r), ~Reuse!KeepConfig(r)
      PROVE  UNCHANGED <<generation, configs, Reuse!fileVars>>
  BY <1>4, RequestStepCases
  DEF Reuse!Arrive, Reuse!FindConfig, Reuse!LoadConfig, Reuse!Capture, Reuse!daemonVars
<1>5. CASE UNCHANGED Reuse!vars
  BY <1>2, <1>5 DEF Reuse!vars, Reuse!daemonVars
<1> QED BY <1>1, <1>2, <1>3, <1>4, <1>5, ReuseNextParts, EntryStepLeaves, WorkerStepLeaves

LEMMA RequestsTypedStep ==
  ASSUME Reuse!ReuseAssumption, ReuseTyped, [Reuse!Next]_(Reuse!vars)
  PROVE  RequestsTyped'
<1> USE DEF ReuseTyped, RequestsTyped
<1>1. CASE UNCHANGED Reuse!requestVars
  BY <1>1 DEF Reuse!requestVars
<1>2. ASSUME NEW w \in Reuse!Workers, ReuseWorkerStep(w) PROVE RequestsTyped'
  BY <1>2, WorkerStepLeaves, WorkerParts DEF ReuseStages
<1>3. ASSUME NEW other \in Requests, ReuseRequestStep(other) PROVE RequestsTyped'
  <2>1. CASE Reuse!Arrive(other)
    BY <2>1 DEF Reuse!Arrive, Reuse!Goto, FilesTyped, Reuse!ReuseAssumption, ReuseStages
  <2>2. CASE Reuse!FindConfig(other)
    BY <2>2 DEF Reuse!FindConfig, Reuse!Goto, FilesTyped, ReuseStages
  <2>3. CASE Reuse!LoadConfig(other)
    BY <2>3 DEF Reuse!LoadConfig, Reuse!Goto, FilesTyped, ReuseStages
  <2>4. CASE Reuse!KeepConfig(other)
    <3>1. PICK v \in Versions : cached' = [cached EXCEPT ![other] = v]
      BY <2>4 DEF Reuse!KeepConfig, FilesTyped
    <3> QED BY <2>4, <3>1 DEF Reuse!KeepConfig, Reuse!Goto, ReuseStages
  <2>5. CASE Reuse!Capture(other)
    BY <2>5 DEF Reuse!Capture, Reuse!Goto, FilesTyped, ReuseStages
  <2>6. CASE /\ UNCHANGED <<configs, gen, wants, cached, snap>>
             /\ \E from, to \in ReuseStages :
                  /\ Reuse!Goto(other, from, to) /\ to # "new" /\ from \notin {"new", "done"}
                  /\ ReuseSettled(other) \/ to = "done"
                  /\ from \in {"reuse", "drop", "work"} => to \in {"work", "done"}
    BY <2>6 DEF Reuse!Goto
  <2>7. CASE UNCHANGED <<configs, gen, wants, cached, snap, pc>>
    BY <2>7
  <2> QED BY <1>3, <2>1, <2>2, <2>3, <2>4, <2>5, <2>6, <2>7, RequestStepCases
<1> QED
  BY <1>1, <1>2, <1>3, ReuseNextParts, FileStepLeaves, EntryStepLeaves DEF Reuse!vars

(* Who is admitted afterwards was before, with the same configuration, or    *)
(* has just found one or had its own accepted.                               *)
LEMMA RequestAdmission ==
  ASSUME ReuseTyped, [Reuse!Next]_(Reuse!vars), NEW r \in Requests, Reuse!Admitted(r)'
  PROVE  /\ gen'[r] = gen[r]
         /\ \/ Reuse!Admitted(r) /\ cached'[r] = cached[r]
            \/ Reuse!FindConfig(r) \/ Reuse!KeepConfig(r)
<1> USE DEF ReuseTyped, RequestsTyped, Reuse!Admitted
<1>1. CASE UNCHANGED Reuse!requestVars
  BY <1>1 DEF Reuse!requestVars
<1>2. ASSUME NEW w \in Reuse!Workers, ReuseWorkerStep(w)
      PROVE  Reuse!Admitted(r) /\ gen'[r] = gen[r] /\ cached'[r] = cached[r]
  BY <1>2, WorkerStepLeaves, WorkerParts
<1>3. ASSUME NEW other \in Requests, ReuseRequestStep(other)
      PROVE  /\ gen'[r] = gen[r]
             /\ \/ Reuse!Admitted(r) /\ cached'[r] = cached[r]
                \/ Reuse!FindConfig(r) \/ Reuse!KeepConfig(r)
  <2>1. CASE Reuse!Arrive(other) \/ Reuse!FindConfig(other) \/
             Reuse!LoadConfig(other) \/ Reuse!KeepConfig(other) \/ Reuse!Capture(other)
    BY <2>1 DEF Reuse!Arrive, Reuse!FindConfig, Reuse!LoadConfig, Reuse!KeepConfig,
         Reuse!Capture, Reuse!Goto
  <2>2. CASE /\ UNCHANGED <<configs, gen, wants, cached, snap>>
             /\ \E from, to \in ReuseStages :
                  /\ Reuse!Goto(other, from, to) /\ to # "new" /\ from \notin {"new", "done"}
                  /\ ReuseSettled(other) \/ to = "done"
                  /\ from \in {"reuse", "drop", "work"} => to \in {"work", "done"}
    BY <2>2 DEF Reuse!Goto, ReuseSettled
  <2>3. CASE UNCHANGED <<configs, gen, wants, cached, snap, pc>>
    BY <2>3
  <2> QED BY <1>3, <2>1, <2>2, <2>3, RequestStepCases
<1> QED
  BY <1>1, <1>2, <1>3, ReuseNextParts, FileStepLeaves, EntryStepLeaves DEF Reuse!vars

(* Who is about to keep a configuration has it since before, or has just     *)
(* read it from the files.                                                   *)
LEMMA ConfigLoading ==
  ASSUME ReuseTyped, [Reuse!Next]_(Reuse!vars), NEW r \in Requests
  PROVE  /\ gen'[r] \in {gen[r], generation}
         /\ pc'[r] = "keep" =>
              /\ gen'[r] = gen[r]
              /\ (pc[r] = "keep" /\ cached'[r] = cached[r]) \/ Reuse!LoadConfig(r)
<1> USE DEF ReuseTyped, RequestsTyped
<1>1. CASE UNCHANGED Reuse!requestVars
  BY <1>1 DEF Reuse!requestVars
<1>2. ASSUME NEW w \in Reuse!Workers, ReuseWorkerStep(w)
      PROVE  UNCHANGED <<gen, cached>> /\ (pc'[r] = "keep" => pc[r] = "keep")
  BY <1>2, WorkerStepLeaves, WorkerParts
<1>3. ASSUME NEW other \in Requests, ReuseRequestStep(other)
      PROVE  /\ gen'[r] \in {gen[r], generation}
             /\ pc'[r] = "keep" =>
                  /\ gen'[r] = gen[r]
                  /\ (pc[r] = "keep" /\ cached'[r] = cached[r]) \/ Reuse!LoadConfig(r)
  <2>1. CASE Reuse!Arrive(other) \/ Reuse!FindConfig(other) \/
             Reuse!LoadConfig(other) \/ Reuse!KeepConfig(other) \/ Reuse!Capture(other)
    BY <2>1 DEF Reuse!Arrive, Reuse!FindConfig, Reuse!LoadConfig, Reuse!KeepConfig,
         Reuse!Capture, Reuse!Goto
  <2>2. CASE /\ UNCHANGED <<configs, gen, wants, cached, snap>>
             /\ \E from, to \in ReuseStages :
                  /\ Reuse!Goto(other, from, to) /\ to # "new" /\ from \notin {"new", "done"}
                  /\ ReuseSettled(other) \/ to = "done"
                  /\ from \in {"reuse", "drop", "work"} => to \in {"work", "done"}
    BY <2>2 DEF Reuse!Goto, ReuseSettled
  <2>3. CASE UNCHANGED <<configs, gen, wants, cached, snap, pc>>
    BY <2>3
  <2> QED BY <1>3, <2>1, <2>2, <2>3, RequestStepCases
<1> QED
  BY <1>1, <1>2, <1>3, ReuseNextParts, FileStepLeaves, EntryStepLeaves DEF Reuse!vars

(* Only a reload and the keeping of a configuration touch the cache of them. *)
LEMMA ConfigCaching ==
  ASSUME ReuseTyped, [Reuse!Next]_(Reuse!vars), ~Reuse!Reload
  PROVE  /\ generation' = generation /\ floor' = floor /\ file' \in {file, file + 1}
         /\ configs' = configs \/ \E r \in Requests : Reuse!KeepConfig(r)
<1>1. CASE ReuseFileStep
  BY <1>1 DEF ReuseFileStep, Reuse!Edit, Reuse!UpdateSecrets, Reuse!daemonVars
<1>2. ASSUME NEW r \in Requests, ReuseRequestStep(r)
      PROVE  UNCHANGED <<generation, Reuse!fileVars>> /\ (configs' = configs \/ Reuse!KeepConfig(r))
  BY <1>2, RequestStepCases
  DEF Reuse!Arrive, Reuse!FindConfig, Reuse!LoadConfig, Reuse!Capture, Reuse!daemonVars
<1> QED
  BY <1>1, <1>2, ReuseNextParts, EntryStepLeaves, WorkerStepLeaves DEF Reuse!vars,
       Reuse!fileVars, Reuse!daemonVars

LEMMA ReloadStep ==
  ASSUME Reuse!ReuseAssumption, ConfigInv, Reuse!Reload
  PROVE  /\ CachedForNow' /\ AdmittedAlike' /\ ConfigLoaded' /\ Chronological'
         /\ Reuse!OneConfiguration' /\ Reuse!FreshAfterReload'
<1>1. /\ UNCHANGED <<pc, gen, cached, file>> /\ generation' = generation + 1
      /\ configs' = [g \in Reuse!Generations |-> None]
      /\ floor' = [floor EXCEPT ![generation + 1] = file]
  BY DEF Reuse!Reload, Reuse!requestVars
<1>2. generation \in Nat /\ file \in Nat /\ floor \in [Reuse!Generations -> Nat]
      /\ \A r \in Requests : gen[r] \in Reuse!Generations /\ gen[r] <= generation /\ gen[r] \in Nat
  BY DEF ConfigInv, ReuseTyped, FilesTyped, RequestsTyped, Reuse!ReuseAssumption,
       Chronological, Reuse!Generations
<1>3. \A g \in Reuse!Generations : g <= generation => floor'[g] = floor[g]
  BY <1>1, <1>2 DEF Reuse!Generations
<1>4. CachedForNow' BY <1>1 DEF CachedForNow
<1>5. AdmittedAlike' BY <1>1, <1>2 DEF AdmittedAlike
<1>6. ConfigLoaded' BY <1>1, <1>2, <1>3 DEF ConfigInv, ConfigLoaded
<1>7. Chronological'
  BY <1>1, <1>2, <1>3 DEF ConfigInv, Chronological, Reuse!Generations
<1>8. Reuse!OneConfiguration'
  BY <1>1 DEF ConfigInv, Reuse!OneConfiguration, Reuse!Admitted
<1>9. Reuse!FreshAfterReload'
  BY <1>1, <1>2, <1>3 DEF ConfigInv, Reuse!FreshAfterReload, Reuse!Admitted
<1> QED BY <1>4, <1>5, <1>6, <1>7, <1>8, <1>9

LEMMA ConfigStep ==
  ASSUME Reuse!ReuseAssumption, ConfigInv, [Reuse!Next]_(Reuse!vars)
  PROVE  /\ CachedForNow' /\ AdmittedAlike' /\ ConfigLoaded' /\ Chronological'
         /\ Reuse!OneConfiguration' /\ Reuse!FreshAfterReload'
<1> SUFFICES ASSUME ~Reuse!Reload
             PROVE  /\ CachedForNow' /\ AdmittedAlike' /\ ConfigLoaded' /\ Chronological'
                    /\ Reuse!OneConfiguration' /\ Reuse!FreshAfterReload'
  BY ReloadStep
<1>1. /\ generation' = generation /\ floor' = floor /\ file' \in {file, file + 1}
      /\ configs' = configs \/ \E r \in Requests : Reuse!KeepConfig(r)
  BY ConfigCaching DEF ConfigInv
<1>2. /\ generation \in Reuse!Generations /\ generation \in Nat /\ file \in Nat
      /\ floor \in [Reuse!Generations -> Nat] /\ configs \in [Reuse!Generations -> Versions \cup {None}]
      /\ \A r \in Requests : gen[r] \in Reuse!Generations /\ cached[r] \in Versions
      /\ \A v \in Versions : v \in Nat /\ v # None
  BY DEF ConfigInv, ReuseTyped, FilesTyped, RequestsTyped, Reuse!ReuseAssumption,
       Reuse!Generations
<1>3. \A r \in Requests : gen[r] <= generation /\ floor[gen[r]] <= file
  BY <1>2 DEF ConfigInv, Chronological
(* Who keeps a configuration keeps the generation's, which it may have just set. *)
<1>4. ASSUME NEW r \in Requests, Reuse!KeepConfig(r)
      PROVE  /\ gen[r] = generation /\ gen' = gen /\ cached'[r] \in Versions
             /\ configs' = [configs EXCEPT ![generation] = cached'[r]]
             /\ configs[generation] = None \/ configs[generation] = cached'[r]
             /\ cached'[r] >= floor[generation]
             /\ \A other \in Requests : other # r => cached'[other] = cached[other]
  <2>1. /\ pc[r] = "keep" /\ gen[r] = generation /\ gen' = gen
        /\ cached' = [cached EXCEPT ![r] =
                        IF configs[gen[r]] = None THEN cached[r] ELSE configs[gen[r]]]
        /\ configs' = [configs EXCEPT ![gen[r]] =
                         IF configs[gen[r]] = None THEN cached[r] ELSE configs[gen[r]]]
    BY <1>4 DEF Reuse!KeepConfig, Reuse!Goto, Reuse!Retired
  <2>2. cached'[r] = IF configs[generation] = None THEN cached[r] ELSE configs[generation]
    BY <2>1 DEF ConfigInv, ReuseTyped, RequestsTyped
  <2>3. cached[r] >= floor[generation] BY <2>1 DEF ConfigInv, ConfigLoaded
  <2>4. configs[generation] # None => configs[generation] >= floor[generation]
    BY <1>2 DEF ConfigInv, CachedForNow
  <2> QED BY <1>2, <2>1, <2>2, <2>3, <2>4 DEF ConfigInv, ReuseTyped, RequestsTyped
(* So nobody else is affected. *)
<1>5. /\ \A g \in Reuse!Generations : configs'[g] # None => g = generation /\ configs'[g] >= floor[g]
      /\ \A g \in Reuse!Generations : configs[g] # None => configs'[g] = configs[g]
  <2>1. CASE configs' = configs BY <1>2, <2>1 DEF ConfigInv, CachedForNow
  <2>2. CASE \E r \in Requests : Reuse!KeepConfig(r)
    BY <1>2, <1>4, <2>2 DEF ConfigInv, CachedForNow
  <2> QED BY <1>1, <2>1, <2>2
<1>6. ASSUME NEW r \in Requests, Reuse!Admitted(r)'
      PROVE  /\ gen'[r] = gen[r]
             /\ \/ Reuse!Admitted(r) /\ cached'[r] = cached[r]
                \/ gen[r] = generation
             /\ gen[r] = generation => configs'[generation] = cached'[r]
  <2>1. CASE Reuse!Admitted(r) /\ gen'[r] = gen[r] /\ cached'[r] = cached[r]
    <3>1. gen[r] = generation => configs[generation] = cached[r] /\ cached[r] # None
      BY <1>2, <2>1 DEF ConfigInv, AdmittedAlike
    <3> QED BY <1>2, <1>5, <2>1, <3>1
  <2>2. CASE Reuse!FindConfig(r)
    <3>1. /\ configs[gen[r]] # None /\ gen' = gen /\ configs' = configs
          /\ cached' = [cached EXCEPT ![r] = configs[gen[r]]]
      BY <2>2 DEF Reuse!FindConfig, Reuse!daemonVars
    <3>2. gen[r] = generation BY <1>2, <3>1 DEF ConfigInv, CachedForNow
    <3> QED BY <3>1, <3>2 DEF ConfigInv, ReuseTyped, RequestsTyped
  <2>3. CASE Reuse!KeepConfig(r)
    BY <1>2, <1>4, <2>3
  <2> QED BY <1>6, <2>1, <2>2, <2>3, RequestAdmission DEF ConfigInv
<1>7. CachedForNow' BY <1>1, <1>5 DEF CachedForNow
<1>8. AdmittedAlike' BY <1>1, <1>6 DEF AdmittedAlike
<1>9. ConfigLoaded'
  <2> SUFFICES ASSUME NEW r \in Requests, pc'[r] = "keep" PROVE cached'[r] >= floor[gen'[r]]
    BY <1>1 DEF ConfigLoaded
  <2>1. CASE pc[r] = "keep" /\ cached'[r] = cached[r] /\ gen'[r] = gen[r]
    BY <2>1 DEF ConfigInv, ConfigLoaded
  <2>2. CASE Reuse!LoadConfig(r) /\ gen'[r] = gen[r]
    <3>1. cached'[r] = file
      BY <2>2 DEF Reuse!LoadConfig, ConfigInv, ReuseTyped, RequestsTyped
    <3> QED BY <1>2, <1>3, <2>2, <3>1
  <2> QED BY <2>1, <2>2, ConfigLoading DEF ConfigInv
<1>10. Chronological'
  <2>1. \A r \in Requests : gen'[r] <= generation
    BY <1>2, <1>3, ConfigLoading DEF ConfigInv
  <2>2. \A g \in Reuse!Generations : g <= generation => floor[g] <= file'
    <3>1. file' \in Nat /\ file <= file' BY <1>1, <1>2
    <3>2. \A g \in Reuse!Generations : floor[g] \in Nat /\ (g <= generation => floor[g] <= file)
      BY <1>2 DEF ConfigInv, Chronological
    <3> QED BY <1>2, <3>1, <3>2
  <2> QED BY <1>1, <2>1, <2>2 DEF Chronological
<1>11. Reuse!OneConfiguration'
  <2> SUFFICES ASSUME NEW other \in Requests, NEW r \in Requests,
                      Reuse!Admitted(other)', Reuse!Admitted(r)',
                      gen'[other] = gen'[r]
               PROVE  cached'[other] = cached'[r]
    BY DEF Reuse!OneConfiguration
  <2>1. CASE gen[r] = generation BY <1>6, <2>1
  <2>2. CASE gen[r] # generation
    BY <1>6, <2>2 DEF ConfigInv, Reuse!OneConfiguration
  <2> QED BY <2>1, <2>2
<1>12. Reuse!FreshAfterReload'
  <2> SUFFICES ASSUME NEW r \in Requests, Reuse!Admitted(r)'
               PROVE cached'[r] >= floor[gen'[r]]
    BY <1>1 DEF Reuse!FreshAfterReload
  <2>1. CASE gen[r] = generation
    <3>1. configs'[generation] = cached'[r] /\ gen'[r] = generation BY <1>6, <2>1
    <3>2. cached'[r] # None
      <4>1. cached'[r] \in Versions
        BY RequestsTypedStep DEF ConfigInv, RequestsTyped
      <4> QED BY <1>2, <4>1
    <3> QED BY <1>2, <1>5, <3>1, <3>2
  <2>2. CASE gen[r] # generation
    BY <1>6, <2>2 DEF ConfigInv, Reuse!FreshAfterReload
  <2> QED BY <2>1, <2>2
<1> QED BY <1>7, <1>8, <1>9, <1>10, <1>11, <1>12

-----------------------------------------------------------------------------
(* What can happen to a place in the pool, to what a worker found, to what   *)
(* is remembered and to a worker.                                            *)
LEMMA MadeStays ==
  ASSUME ReuseTyped, [Reuse!Next]_(Reuse!vars), NEW e \in Reuse!Entries, EntryMade(e)
  PROVE  /\ EntryMade(e)' /\ Reuse!CreatedUnder(e)' = Reuse!CreatedUnder(e)
         /\ Reuse!PoolKey(e, e[1])' = Reuse!PoolKey(e, e[1])
<1>1. e[1] \in Requests BY WorkerParts DEF Reuse!Workers
<1> QED BY <1>1, SettledStays DEF EntryMade, Reuse!CreatedUnder, Reuse!PoolKey

LEMMA PoolDomains ==
  ASSUME ReuseTyped, [Reuse!Next]_(Reuse!vars)
  PROVE  /\ DOMAIN pools' = Reuse!PoolKeys /\ DOMAIN secretCache' = Reuse!MetadataKeys
         /\ DOMAIN at' = Reuse!Workers /\ DOMAIN work' = Reuse!Workers
<1> USE DEF ReuseTyped, PoolsTyped
<1>1. DOMAIN pools' = Reuse!PoolKeys /\ DOMAIN secretCache' = Reuse!MetadataKeys
  <2>1. CASE ReuseFileStep \/ UNCHANGED Reuse!vars
    BY <2>1 DEF ReuseFileStep, Reuse!Edit, Reuse!UpdateSecrets, Reuse!Reload,
         Reuse!daemonVars, Reuse!vars
  <2>2. ASSUME NEW e \in Reuse!Entries, ReuseEntryStep(e)
        PROVE  DOMAIN pools' = Reuse!PoolKeys /\ DOMAIN secretCache' = Reuse!MetadataKeys
    BY <2>2 DEF ReuseEntryStep, Reuse!Publish, Reuse!PublishError
  <2>3. ASSUME NEW r \in Requests, ReuseRequestStep(r)
        PROVE  DOMAIN pools' = Reuse!PoolKeys /\ DOMAIN secretCache' = Reuse!MetadataKeys
    BY <2>3 DEF ReuseRequestStep, Reuse!Arrive, Reuse!FindConfig, Reuse!LoadConfig,
         Reuse!KeepRefused, Reuse!KeepConfig, Reuse!Mismatch,
                Reuse!Capture, Reuse!AllReused, Reuse!Resolve, Reuse!ResolveFails,
                Reuse!Spawn, Reuse!RememberMCP, Reuse!RememberLSP,
                Reuse!Remember, Reuse!Answer, Reuse!daemonVars
  <2>4. ASSUME NEW w \in Reuse!Workers, ReuseWorkerStep(w)
        PROVE  DOMAIN pools' = Reuse!PoolKeys /\ DOMAIN secretCache' = Reuse!MetadataKeys
    BY <2>4 DEF ReuseWorkerStep, Reuse!Reuse, Reuse!NoReuse, Reuse!ReuseLeased,
         Reuse!ReuseFailed, Reuse!GiveBackReused, Reuse!Acquire,
                Reuse!AcquireRefused, Reuse!Lease, Reuse!LeaseRefused, Reuse!Release,
                Reuse!daemonVars
  <2> QED BY <2>1, <2>2, <2>3, <2>4, ReuseNextParts
<1>2. DOMAIN at' = Reuse!Workers /\ DOMAIN work' = Reuse!Workers
  <2>1. CASE UNCHANGED Reuse!requestVars
    BY <2>1 DEF Reuse!requestVars
  <2>2. ASSUME NEW r \in Requests, ReuseRequestStep(r)
        PROVE  DOMAIN at' = Reuse!Workers /\ DOMAIN work' = Reuse!Workers
    BY <2>2 DEF ReuseRequestStep, Reuse!Arrive, Reuse!FindConfig, Reuse!LoadConfig,
         Reuse!KeepRefused, Reuse!KeepConfig, Reuse!Mismatch,
                Reuse!Capture, Reuse!AllReused, Reuse!Resolve, Reuse!ResolveFails,
                Reuse!Spawn, Reuse!RememberMCP, Reuse!RememberLSP,
                Reuse!Remember, Reuse!Answer, Reuse!Turn
  <2>3. ASSUME NEW w \in Reuse!Workers, ReuseWorkerStep(w)
        PROVE  DOMAIN at' = Reuse!Workers /\ DOMAIN work' = Reuse!Workers
    BY <2>3 DEF ReuseWorkerStep, Reuse!Reuse, Reuse!NoReuse, Reuse!ReuseLeased,
         Reuse!ReuseFailed, Reuse!GiveBackReused, Reuse!Acquire,
                Reuse!AcquireRefused, Reuse!Lease, Reuse!LeaseRefused, Reuse!Release,
                Reuse!Turn, Reuse!requestVars
  <2> QED
    BY <2>1, <2>2, <2>3, ReuseNextParts, FileStepLeaves, EntryStepLeaves DEF Reuse!vars
<1> QED BY <1>1, <1>2

LEMMA PoolChanges ==
  ASSUME ReuseTyped, [Reuse!Next]_(Reuse!vars), NEW k \in Reuse!PoolKeys
  PROVE  \/ pools'[k] \in {pools[k], None}
         \/ \E w \in Reuse!Workers : Reuse!Acquire(w) /\ k = Reuse!PoolKey(w, w[1]) /\ pools'[k] = w
<1> USE DEF ReuseTyped, PoolsTyped
<1>1. CASE ReuseFileStep
  BY <1>1 DEF ReuseFileStep, Reuse!Edit, Reuse!UpdateSecrets, Reuse!Reload,
       Reuse!daemonVars
<1>2. ASSUME NEW e \in Reuse!Entries, ReuseEntryStep(e)
      PROVE  pools'[k] \in {pools[k], None}
  BY <1>2 DEF ReuseEntryStep, Reuse!Publish, Reuse!PublishError
<1>3. ASSUME NEW r \in Requests, ReuseRequestStep(r)
      PROVE  pools'[k] \in {pools[k], None}
  BY <1>3 DEF ReuseRequestStep, Reuse!Arrive, Reuse!FindConfig, Reuse!LoadConfig,
       Reuse!KeepRefused, Reuse!KeepConfig, Reuse!Mismatch,
              Reuse!Capture, Reuse!AllReused, Reuse!Resolve, Reuse!ResolveFails,
              Reuse!Spawn, Reuse!RememberMCP, Reuse!RememberLSP,
              Reuse!Remember, Reuse!Answer, Reuse!daemonVars
<1>4. ASSUME NEW w \in Reuse!Workers, Reuse!Acquire(w)
      PROVE  pools'[k] = pools[k] \/ (k = Reuse!PoolKey(w, w[1]) /\ pools'[k] = w)
  BY <1>4 DEF Reuse!Acquire
<1>5. ASSUME NEW w \in Reuse!Workers, ReuseWorkerStep(w), ~Reuse!Acquire(w)
      PROVE pools' = pools
  BY <1>5 DEF ReuseWorkerStep, Reuse!Reuse, Reuse!NoReuse, Reuse!ReuseLeased,
       Reuse!ReuseFailed, Reuse!GiveBackReused,
              Reuse!AcquireRefused, Reuse!Lease, Reuse!LeaseRefused, Reuse!Release,
              Reuse!daemonVars
<1>6. CASE UNCHANGED Reuse!vars
  BY <1>6 DEF Reuse!vars, Reuse!daemonVars
<1> QED BY <1>1, <1>2, <1>3, <1>4, <1>5, <1>6, ReuseNextParts

LEMMA FindingChanges ==
  ASSUME ReuseTyped, [Reuse!Next]_(Reuse!vars), NEW w \in Reuse!Workers
  PROVE  \/ at'[w] \in {at[w], None}
         \/ Reuse!Reuse(w) /\ at'[w] = Reuse!Remembered(w, w[1])
         \/ /\ Reuse!Acquire(w)
            /\ \/ at'[w] = pools[Reuse!PoolKey(w, w[1])] /\ at'[w] # None
               \/ at'[w] = w
<1> USE DEF ReuseTyped, PoolsTyped
<1>1. CASE ReuseFileStep
  BY <1>1, FileStepLeaves DEF Reuse!requestVars
<1>2. ASSUME NEW e \in Reuse!Entries, ReuseEntryStep(e) PROVE at' = at
  BY <1>2, EntryStepLeaves DEF Reuse!requestVars
<1>3. ASSUME NEW r \in Requests, ReuseRequestStep(r) PROVE at' = at
  BY <1>3 DEF ReuseRequestStep, Reuse!Arrive, Reuse!FindConfig, Reuse!LoadConfig,
       Reuse!KeepRefused, Reuse!KeepConfig, Reuse!Mismatch,
              Reuse!Capture, Reuse!AllReused, Reuse!Resolve, Reuse!ResolveFails,
              Reuse!Spawn, Reuse!RememberMCP, Reuse!RememberLSP,
              Reuse!Remember, Reuse!Answer
<1>4. ASSUME NEW v \in Reuse!Workers, Reuse!Acquire(v)
      PROVE  \/ at'[w] = at[w]
             \/ /\ v = w
                /\ at'[w] = w \/ (at'[w] = pools[Reuse!PoolKey(w, w[1])] /\ at'[w] # None)
  BY <1>4 DEF Reuse!Acquire
<1>5. ASSUME NEW v \in Reuse!Workers, Reuse!Reuse(v)
      PROVE  at'[w] = at[w] \/ (v = w /\ at'[w] = Reuse!Remembered(w, w[1]))
  BY <1>5 DEF Reuse!Reuse
<1>6. ASSUME NEW v \in Reuse!Workers, ReuseWorkerStep(v), ~Reuse!Acquire(v), ~Reuse!Reuse(v)
      PROVE  at'[w] \in {at[w], None}
  BY <1>6 DEF ReuseWorkerStep, Reuse!NoReuse, Reuse!ReuseLeased, Reuse!ReuseFailed,
       Reuse!GiveBackReused,
              Reuse!AcquireRefused, Reuse!Lease, Reuse!LeaseRefused, Reuse!Release,
              Reuse!requestVars
<1>7. CASE UNCHANGED Reuse!vars
  BY <1>7 DEF Reuse!vars, Reuse!requestVars
<1> QED BY <1>1, <1>2, <1>3, <1>4, <1>5, <1>6, <1>7, ReuseNextParts

LEMMA MemoryChanges ==
  ASSUME ReuseTyped, [Reuse!Next]_(Reuse!vars), NEW m \in Reuse!MetadataKeys
  PROVE  \/ secretCache'[m] \in {secretCache[m], None}
         \/ \E r \in Requests :
              /\ m = Reuse!MetadataKey(r)
              /\ secretCache'[m] = [snapshot |-> snap[r],
                                    keys |-> [z \in wants[r] |-> Reuse!PoolKey(<<r, z>>, r)]]
<1> USE DEF ReuseTyped, PoolsTyped
<1>1. CASE ReuseFileStep
  BY <1>1 DEF ReuseFileStep, Reuse!Edit, Reuse!UpdateSecrets, Reuse!Reload,
       Reuse!daemonVars
<1>2. ASSUME NEW e \in Reuse!Entries, ReuseEntryStep(e) PROVE secretCache' = secretCache
  BY <1>2, EntryStepLeaves
<1>3. ASSUME NEW r \in Requests, Reuse!Remember(r)
      PROVE  \/ secretCache'[m] = secretCache[m]
             \/ /\ m = Reuse!MetadataKey(r)
                /\ secretCache'[m] = [snapshot |-> snap[r],
                                      keys |-> [z \in wants[r] |-> Reuse!PoolKey(<<r, z>>, r)]]
  <2> DEFINE memo == [snapshot |-> snap[r], keys |-> [z \in wants[r] |-> Reuse!PoolKey(<<r, z>>, r)]]
  <2>1. secretCache' = [secretCache EXCEPT ![Reuse!MetadataKey(r)] = memo]
    BY <1>3 DEF Reuse!Remember
  <2> HIDE DEF memo
  <2>2. secretCache'[m] = secretCache[m] \/ (m = Reuse!MetadataKey(r) /\ secretCache'[m] = memo)
    BY <2>1
  <2> QED BY <2>2 DEF memo
<1>4. ASSUME NEW r \in Requests, ReuseRequestStep(r), ~Reuse!Remember(r)
      PROVE secretCache' = secretCache
  BY <1>4 DEF ReuseRequestStep, Reuse!Arrive, Reuse!FindConfig, Reuse!LoadConfig,
       Reuse!KeepRefused, Reuse!KeepConfig, Reuse!Mismatch,
              Reuse!Capture, Reuse!AllReused, Reuse!Resolve, Reuse!ResolveFails,
              Reuse!Spawn, Reuse!RememberMCP, Reuse!RememberLSP,
              Reuse!Answer, Reuse!daemonVars
<1>5. ASSUME NEW w \in Reuse!Workers, ReuseWorkerStep(w)
      PROVE  secretCache'[m] \in {secretCache[m], None}
  BY <1>5 DEF ReuseWorkerStep, Reuse!Reuse, Reuse!NoReuse, Reuse!ReuseLeased,
       Reuse!ReuseFailed, Reuse!GiveBackReused, Reuse!Acquire,
              Reuse!AcquireRefused, Reuse!Lease, Reuse!LeaseRefused, Reuse!Release,
              Reuse!daemonVars
<1>6. CASE UNCHANGED Reuse!vars
  BY <1>6 DEF Reuse!vars, Reuse!daemonVars
<1> QED BY <1>1, <1>2, <1>3, <1>4, <1>5, <1>6, ReuseNextParts

LEMMA WorkChanges ==
  ASSUME ReuseTyped, [Reuse!Next]_(Reuse!vars), NEW w \in Reuse!Workers
  PROVE  work'[w] # "none" => work[w] # "none" \/ ReuseSettled(w[1])'
<1> USE DEF ReuseTyped, PoolsTyped
<1>1. CASE ReuseFileStep
  BY <1>1, FileStepLeaves DEF Reuse!requestVars
<1>2. ASSUME NEW e \in Reuse!Entries, ReuseEntryStep(e) PROVE work' = work
  BY <1>2, EntryStepLeaves DEF Reuse!requestVars
<1>3. ASSUME NEW v, NEW from, NEW to, from # "none", Reuse!Turn(v, from, to)
      PROVE  work'[w] # "none" => work[w] # "none"
  BY <1>3 DEF Reuse!Turn
<1>4. ASSUME NEW v \in Reuse!Workers, ReuseWorkerStep(v)
      PROVE  work' = work \/ \E from \in {"acquire", "wait", "leased", "remembered", "reused"} :
                                 \E to : Reuse!Turn(v, from, to)
  BY <1>4 DEF ReuseWorkerStep, Reuse!Reuse, Reuse!NoReuse, Reuse!ReuseLeased,
       Reuse!ReuseFailed, Reuse!GiveBackReused, Reuse!Acquire,
              Reuse!AcquireRefused, Reuse!Lease, Reuse!LeaseRefused, Reuse!Release,
              Reuse!requestVars
<1>5. ASSUME NEW r \in Requests, Reuse!AllReused(r) \/ Reuse!Resolve(r)
      PROVE  work'[w] # "none" => work[w] # "none" \/ ReuseSettled(w[1])'
  <2>1. PICK from \in {"reuse", "drop"}, state \in {"reused", "acquire"} : Reuse!Spawn(r, from, state)
    BY <1>5 DEF Reuse!AllReused, Reuse!Resolve
  <2>2. pc'[r] = "work" /\ (w \notin Reuse!WorkersOf(r) => work'[w] = work[w])
    BY <2>1 DEF Reuse!Spawn, Reuse!Goto, RequestsTyped
  <2>3. w \in Reuse!WorkersOf(r) => w[1] = r BY DEF Reuse!WorkersOf
  <2> QED BY <2>2, <2>3 DEF ReuseSettled
<1>6. ASSUME NEW r \in Requests, ReuseRequestStep(r), ~Reuse!AllReused(r), ~Reuse!Resolve(r)
      PROVE  work' = work \/ \E v \in Reuse!WorkersOf(r) : Reuse!Turn(v, "leased", "remembered")
  BY <1>6 DEF ReuseRequestStep, Reuse!Arrive, Reuse!FindConfig, Reuse!LoadConfig,
       Reuse!KeepRefused, Reuse!KeepConfig, Reuse!Mismatch,
              Reuse!Capture, Reuse!ResolveFails, Reuse!RememberMCP, Reuse!RememberLSP,
              Reuse!Answer
<1>7. CASE UNCHANGED Reuse!vars
  BY <1>7 DEF Reuse!vars, Reuse!requestVars
<1> QED BY <1>1, <1>2, <1>3, <1>4, <1>5, <1>6, <1>7, ReuseNextParts

-----------------------------------------------------------------------------
(* What is remembered for the snapshot that a request captured leads to the  *)
(* key which the request makes itself.                                       *)
LEMMA RememberedKey ==
  ASSUME ReuseTyped, SessionsInv, NEW w \in Reuse!Workers, Reuse!Reuse(w)
  PROVE  /\ Reuse!Remembered(w, w[1]) = pools[Reuse!PoolKey(w, w[1])]
         /\ Reuse!Remembered(w, w[1]) # None /\ EntryMade(w)
<1> DEFINE r == w[1]
           m == secretCache[Reuse!MetadataKey(r)]
<1>1. /\ r \in Requests /\ pc[r] = "reuse" /\ w[2] \in wants[r] /\ Reuse!Remembered(w, r) # None
  BY WorkerParts DEF Reuse!Reuse, Reuse!WorkersOf
<1>2. Reuse!MetadataKey(r) \in Reuse!MetadataKeys BY <1>1, MetadataKeyType
<1>3. m # None /\ m.snapshot = snap[r] /\ Reuse!Remembered(w, r) = pools[m.keys[w[2]]]
  BY <1>1 DEF Reuse!Remembered
<1>4. m.keys[w[2]] = [provider |-> w[2], gen |-> gen[r], execution |-> ExecutionOf[cached[r]],
                      value |-> SecretsOf[snap[r]]]
  BY <1>1, <1>2, <1>3 DEF SessionsInv, RememberedAsMade, Reuse!MetadataKey
<1>5. m.keys[w[2]] = Reuse!PoolKey(w, r) BY <1>4 DEF Reuse!PoolKey
<1> QED BY <1>1, <1>3, <1>5 DEF EntryMade, ReuseSettled

(* Whoever works or has found something is settled, and so is what it found. *)
LEMMA AcquireMade ==
  ASSUME SessionsInv, NEW w \in Reuse!Workers, Reuse!Acquire(w)
  PROVE  EntryMade(w)
  BY DEF Reuse!Acquire, Reuse!Turn, SessionsInv, WorkersSettled

LEMMA PoolsTypedStep ==
  ASSUME ReuseTyped, SessionsInv, [Reuse!Next]_(Reuse!vars)
  PROVE  PoolsTyped'
<1>1. ASSUME NEW k \in Reuse!PoolKeys PROVE pools'[k] \in Reuse!Entries \cup {None}
  BY PoolChanges DEF ReuseTyped, PoolsTyped, Reuse!Workers
<1>2. ASSUME NEW w \in Reuse!Workers PROVE at'[w] \in Reuse!Entries \cup {None}
  <2>1. CASE Reuse!Reuse(w) /\ at'[w] = Reuse!Remembered(w, w[1])
    BY <2>1, RememberedKey, PoolKeyType DEF ReuseTyped, PoolsTyped
  <2>2. pools[Reuse!PoolKey(w, w[1])] \in Reuse!Entries \cup {None} /\ w \in Reuse!Entries
    BY PoolKeyType DEF ReuseTyped, PoolsTyped, Reuse!Workers
  <2> QED BY <2>1, <2>2, FindingChanges DEF ReuseTyped, PoolsTyped
<1> QED BY <1>1, <1>2, PoolDomains DEF PoolsTyped

LEMMA PooledStep ==
  ASSUME ReuseTyped, SessionsInv, [Reuse!Next]_(Reuse!vars)
  PROVE  PooledUnderKey'
<1> SUFFICES ASSUME NEW k \in Reuse!PoolKeys, NEW e \in Reuse!Entries, pools'[k] = e, e # None
             PROVE  EntryMade(e)' /\ Reuse!CreatedUnder(e)' = k
  BY PoolsTypedStep DEF PoolsTyped, PooledUnderKey, EntryMade, ReuseSettled,
       Reuse!CreatedUnder, Reuse!PoolKey
<1>1. CASE pools'[k] = pools[k]
  <2>1. EntryMade(e) /\ Reuse!CreatedUnder(e) = k
    BY <1>1 DEF SessionsInv, PooledUnderKey
  <2> QED BY <2>1, MadeStays
<1>2. ASSUME NEW w \in Reuse!Workers, Reuse!Acquire(w), k = Reuse!PoolKey(w, w[1]), pools'[k] = w
      PROVE  EntryMade(e)' /\ Reuse!CreatedUnder(e)' = k
  <2>1. EntryMade(e) /\ Reuse!CreatedUnder(e) = k
    BY <1>2, AcquireMade DEF Reuse!CreatedUnder
  <2> QED BY <2>1, MadeStays
<1> QED BY <1>1, <1>2, PoolChanges

LEMMA ReuseFoundStep ==
  ASSUME ReuseTyped, SessionsInv, [Reuse!Next]_(Reuse!vars)
  PROVE  FoundUnderKey'
<1> SUFFICES ASSUME NEW w \in Reuse!Workers, NEW e \in Reuse!Entries, at'[w] = e, e # None
             PROVE  EntryMade(w)' /\ EntryMade(e)' /\ Reuse!CreatedUnder(e)' = Reuse!PoolKey(w, w[1])'
  BY PoolsTypedStep DEF PoolsTyped, FoundUnderKey, EntryMade, ReuseSettled,
       Reuse!CreatedUnder, Reuse!PoolKey
<1>1. EntryMade(w) /\ EntryMade(e) /\ Reuse!CreatedUnder(e) = Reuse!PoolKey(w, w[1])
  <2>1. CASE at'[w] = at[w]
    BY <2>1 DEF SessionsInv, FoundUnderKey
  <2>2. ASSUME pools[Reuse!PoolKey(w, w[1])] = e
        PROVE  EntryMade(e) /\ Reuse!CreatedUnder(e) = Reuse!PoolKey(w, w[1])
    BY <2>2, PoolKeyType DEF SessionsInv, PooledUnderKey
  <2>3. CASE Reuse!Reuse(w) /\ at'[w] = Reuse!Remembered(w, w[1])
    BY <2>2, <2>3, RememberedKey
  <2>4. CASE Reuse!Acquire(w) /\ at'[w] = pools[Reuse!PoolKey(w, w[1])]
    BY <2>2, <2>4, AcquireMade
  <2>5. CASE Reuse!Acquire(w) /\ at'[w] = w
    BY <2>5, AcquireMade DEF Reuse!CreatedUnder
  <2> QED BY <2>1, <2>3, <2>4, <2>5, FindingChanges
<1> QED BY <1>1, MadeStays DEF Reuse!Workers

LEMMA RememberedStep ==
  ASSUME ReuseTyped, SessionsInv, [Reuse!Next]_(Reuse!vars)
  PROVE  RememberedAsMade'
<1> SUFFICES ASSUME NEW m \in Reuse!MetadataKeys, secretCache'[m] # None, NEW z \in m.wants
             PROVE  secretCache'[m].keys[z] =
                      [provider |-> z, gen |-> m.gen, execution |-> m.execution,
                       value |-> SecretsOf[secretCache'[m].snapshot]]
  BY DEF RememberedAsMade
<1>1. CASE secretCache'[m] = secretCache[m]
  BY <1>1 DEF SessionsInv, RememberedAsMade
<1>2. ASSUME NEW r \in Requests, m = Reuse!MetadataKey(r),
             secretCache'[m] = [snapshot |-> snap[r],
                                keys |-> [x \in wants[r] |-> Reuse!PoolKey(<<r, x>>, r)]]
      PROVE  secretCache'[m].keys[z] =
               [provider |-> z, gen |-> m.gen, execution |-> m.execution,
                value |-> SecretsOf[secretCache'[m].snapshot]]
  BY <1>2 DEF Reuse!MetadataKey, Reuse!PoolKey
<1> QED BY <1>1, <1>2, MemoryChanges

LEMMA ReuseWorkersStep ==
  ASSUME ReuseTyped, SessionsInv, [Reuse!Next]_(Reuse!vars)
  PROVE  WorkersSettled'
<1> SUFFICES ASSUME NEW w \in Reuse!Workers, work'[w] # "none" PROVE EntryMade(w)'
  BY DEF WorkersSettled
<1>1. CASE work[w] # "none"
  BY <1>1, MadeStays DEF SessionsInv, WorkersSettled, Reuse!Workers
<1>2. CASE ReuseSettled(w[1])'
  BY <1>2 DEF EntryMade
<1> QED BY <1>1, <1>2, WorkChanges

-----------------------------------------------------------------------------
LEMMA ReuseInit == ASSUME Reuse!ReuseAssumption, Reuse!Init PROVE ReuseInv
<1>1. FilesTyped
  BY DEF Reuse!Init, FilesTyped, Reuse!ReuseAssumption, Reuse!Generations
<1>2. RequestsTyped
  BY DEF Reuse!Init, RequestsTyped, Reuse!ReuseAssumption, Reuse!Generations, ReuseStages
<1>3. PoolsTyped
  BY DEF Reuse!Init, PoolsTyped
<1>4. CachedForNow /\ AdmittedAlike /\ ConfigLoaded /\ Chronological
  BY DEF Reuse!Init, CachedForNow, AdmittedAlike, Reuse!Admitted, ConfigLoaded,
       Chronological, Reuse!Generations
<1>5. Reuse!OneConfiguration /\ Reuse!FreshAfterReload
  BY DEF Reuse!Init, Reuse!OneConfiguration, Reuse!FreshAfterReload, Reuse!Admitted
<1>6. SessionsInv
  BY DEF Reuse!Init, SessionsInv, PooledUnderKey, RememberedAsMade, FoundUnderKey,
       WorkersSettled
<1> QED BY <1>1, <1>2, <1>3, <1>4, <1>5, <1>6 DEF ReuseInv, ConfigInv, ReuseTyped

(* The invariant is inductive.                                               *)
THEOREM ReuseInvariance ==
  ASSUME Reuse!ReuseAssumption PROVE Reuse!Spec => []ReuseInv
<1>1. Reuse!Init => ReuseInv
  BY ReuseInit
<1>2. ReuseInv /\ [Reuse!Next]_(Reuse!vars) => ReuseInv'
  <2> SUFFICES ASSUME ReuseInv, [Reuse!Next]_(Reuse!vars) PROVE ReuseInv' OBVIOUS
  <2>1. ReuseTyped /\ SessionsInv BY DEF ReuseInv, ConfigInv
  <2>2. ReuseTyped'
    BY <2>1, FilesTypedStep, RequestsTypedStep, PoolsTypedStep DEF ReuseTyped
  <2>3. ConfigInv' BY <2>2, ConfigStep DEF ReuseInv, ConfigInv
  <2>4. SessionsInv'
    BY <2>1, PooledStep, ReuseFoundStep, RememberedStep, ReuseWorkersStep DEF SessionsInv
  <2> QED BY <2>3, <2>4 DEF ReuseInv
<1> QED BY <1>1, <1>2, PTL DEF Reuse!Spec

(* All requests of a generation run with one configuration, however their    *)
(* loads, the edits of the files and the reloads interleave.                 *)
THEOREM OneConfigurationEach ==
  ASSUME Reuse!ReuseAssumption PROVE Reuse!Spec => []Reuse!OneConfiguration
<1>1. ReuseInv => Reuse!OneConfiguration BY DEF ReuseInv, ConfigInv
<1> QED BY ReuseInvariance, <1>1, PTL

(* Who arrives after a reload runs with nothing older than it.               *)
THEOREM ReloadIsFinal ==
  ASSUME Reuse!ReuseAssumption PROVE Reuse!Spec => []Reuse!FreshAfterReload
<1>1. ReuseInv => Reuse!FreshAfterReload BY DEF ReuseInv, ConfigInv
<1> QED BY ReuseInvariance, <1>1, PTL

(* A session that is new, shared or reused without decrypting anything runs  *)
(* with the execution and the secret values the request itself captured.     *)
THEOREM LeasesAsCaptured ==
  ASSUME Reuse!ReuseAssumption PROVE Reuse!Spec => []Reuse!ServedAsCaptured
<1>1. ReuseInv => Reuse!ServedAsCaptured
  BY DEF ReuseInv, SessionsInv, FoundUnderKey, Reuse!ServedAsCaptured, Reuse!Leasing
<1> QED BY ReuseInvariance, <1>1, PTL
=============================================================================
