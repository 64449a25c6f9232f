----------------------------- MODULE HistoryProofs -----------------------------
(* What kt_getHistory guarantees for any answers of its providers that are  *)
(* arrays of rows with fields of their kind, any limits and any number of   *)
(* sources: an empty page is proven empty, a page keeps its shape, hides    *)
(* nothing that fits on it, and says of no movement more than its rows do.  *)
(* First what the operators on rows and pages return, then the invariant    *)
(* of HistoryRead and each of its steps.                                    *)
EXTENDS HistoryRead, FiniteSetTheorems, SequenceTheorems, TLAPS

(* InOrder counts, for each member, those before it: distinct members have  *)
(* distinct counts, and n distinct counts below n leave none out.           *)

Ordered(S, R) ==
    /\ \A p \in S : <<p, p>> \notin R
    /\ \A p, q \in S : p # q => <<p, q>> \in R \/ <<q, p>> \in R
    /\ \A p, q, r \in S : <<p, q>> \in R /\ <<q, r>> \in R => <<p, r>> \in R

\* o lists the n members of S in the order of R.
Lists(S, R, n, o) ==
    /\ n \in Nat
    /\ o \in [1 .. n -> S]
    /\ \A i, j \in 1 .. n : i < j => <<o[i], o[j]>> \in R /\ o[i] # o[j]
    /\ \A p \in S : \E i \in 1 .. n : o[i] = p

\* The members of a finite set that is ordered in full can be listed in order.
LEMMA InOrderFits ==
    ASSUME NEW S, IsFiniteSet(S), NEW R, Ordered(S, R)
    PROVE  Lists(S, R, Cardinality(S), InOrder(S, R))
  <1> DEFINE n == Cardinality(S)
             below(p) == {q \in S : <<q, p>> \in R}
             rank == [p \in S |-> 1 + Cardinality(below(p))]
             o == InOrder(S, R)
  <1>1. n \in Nat
    BY FS_CardinalityType
  <1>2. ASSUME NEW p \in S
        PROVE  /\ IsFiniteSet(below(p)) /\ Cardinality(below(p)) \in Nat
               /\ Cardinality(below(p)) < n
    <2>1. below(p) \subseteq S /\ p \in S \ below(p)
      BY DEF Ordered
    <2>2. IsFiniteSet(below(p)) /\ Cardinality(below(p)) <= n /\ Cardinality(below(p)) # n
      <3> HIDE DEF below
      <3> QED  BY <2>1, FS_Subset
    <2>3. Cardinality(below(p)) \in Nat
      BY <2>2, FS_CardinalityType
    <2> QED  BY <1>1, <2>2, <2>3
  <1>3. ASSUME NEW p \in S, NEW q \in S, <<p, q>> \in R
        PROVE  Cardinality(below(p)) < Cardinality(below(q))
    <2>1. below(p) \subseteq below(q)
      BY <1>3 DEF Ordered
    <2>2. p \in below(q) /\ p \notin below(p)
      BY <1>3 DEF Ordered
    <2>3. /\ Cardinality(below(p)) <= Cardinality(below(q))
          /\ Cardinality(below(p)) # Cardinality(below(q))
      <3>1. IsFiniteSet(below(q))
        BY <1>2
      <3> HIDE DEF below
      <3> QED  BY <2>1, <2>2, <3>1, FS_Subset
    <2>4. Cardinality(below(p)) \in Nat /\ Cardinality(below(q)) \in Nat
      BY <1>2
    <2> HIDE DEF below
    <2> QED  BY <2>3, <2>4
  <1>4. rank \in Injection(S, 1 .. n)
    <2>1. \A p \in S : rank[p] \in 1 .. n
      <3> HIDE DEF below
      <3> QED  BY <1>1, <1>2
    <2>2. ASSUME NEW p \in S, NEW q \in S, p # q PROVE rank[p] # rank[q]
      <3>1. <<p, q>> \in R \/ <<q, p>> \in R
        BY <2>2 DEF Ordered
      <3>2. Cardinality(below(p)) \in Nat /\ Cardinality(below(q)) \in Nat
        BY <1>2
      <3>3. \/ Cardinality(below(p)) < Cardinality(below(q))
            \/ Cardinality(below(q)) < Cardinality(below(p))
        BY <1>3, <3>1
      <3> HIDE DEF below
      <3> QED  BY <3>2, <3>3
    <2> HIDE DEF below
    <2> QED  BY <2>1, <2>2 DEF Injection, IsInjective
  <1>5. rank \in Surjection(S, 1 .. n)
    <2>1. IsFiniteSet(1 .. n) /\ Cardinality(1 .. n) = n
      BY <1>1, FS_Interval
    <2> HIDE DEF rank
    <2> QED  BY <1>4, <2>1, FS_Injection
  <1>6. ASSUME NEW i \in 1 .. n
        PROVE  o[i] \in S /\ rank[o[i]] = i
    <2>1. \E p \in S : rank[p] = i
      <3> HIDE DEF rank
      <3> QED  BY <1>5 DEF Surjection
    <2>2. \E p \in S : Cardinality(below(p)) = i - 1
      <3>1. PICK p \in S : rank[p] = i
        BY <2>1
      <3>2. Cardinality(below(p)) \in Nat
        BY <1>2
      <3> HIDE DEF below
      <3> QED  BY <3>1, <3>2
    <2>3. o[i] = CHOOSE p \in S : Cardinality(below(p)) = i - 1
      BY DEF InOrder
    <2>4. o[i] \in S /\ Cardinality(below(o[i])) = i - 1
      BY <2>2, <2>3
    <2> HIDE DEF below, o
    <2> QED  BY <1>1, <2>4
  <1>7. o \in [1 .. n -> S]
    BY <1>6 DEF InOrder
  <1>8. ASSUME NEW i \in 1 .. n, NEW j \in 1 .. n, i < j
        PROVE  <<o[i], o[j]>> \in R /\ o[i] # o[j]
    <2>1. o[i] \in S /\ o[j] \in S /\ rank[o[i]] = i /\ rank[o[j]] = j
      BY <1>6
    <2>2. o[i] # o[j]
      BY <1>8, <2>1
    <2>3. ~(<<o[j], o[i]>> \in R)
      <3> SUFFICES ASSUME <<o[j], o[i]>> \in R PROVE FALSE
        OBVIOUS
      <3>1. Cardinality(below(o[j])) < Cardinality(below(o[i]))
        BY <1>3, <2>1
      <3>2. Cardinality(below(o[j])) \in Nat /\ Cardinality(below(o[i])) \in Nat
        BY <1>2, <2>1
      <3> HIDE DEF below, o
      <3> QED  BY <1>8, <2>1, <3>1, <3>2
    <2> HIDE DEF o, rank
    <2> QED  BY <2>1, <2>2, <2>3 DEF Ordered
  <1>9. ASSUME NEW p \in S PROVE \E i \in 1 .. n : o[i] = p
    <2>1. rank[p] \in 1 .. n
      <3> HIDE DEF rank
      <3> QED  BY <1>4 DEF Injection
    <2>2. o[rank[p]] \in S /\ rank[o[rank[p]]] = rank[p]
      BY <1>6, <2>1
    <2>3. o[rank[p]] = p
      <3> HIDE DEF rank, o
      <3> QED  BY <1>4, <2>2 DEF Injection, IsInjective
    <2> QED  BY <2>1, <2>3
  <1> QED  BY <1>1, <1>7, <1>8, <1>9 DEF Lists

-----------------------------------------------------------------------------
(* Lists: sequences of whatever they hold.                                  *)

\* There are n numbers from 1 to n.
LEMMA UpTo ==
    ASSUME NEW n \in Nat
    PROVE  IsFiniteSet(1 .. n) /\ Cardinality(1 .. n) = n
  BY FS_Interval

\* What an array is: its places, its length, and its elements.
LEMMA ArrayFits ==
    ASSUME NEW s, Array(s)
    PROVE  /\ Len(s) \in Nat /\ DOMAIN s = 1 .. Len(s)
           /\ s = <<>> <=> Len(s) = 0
           /\ IsFiniteSet(DOMAIN s) /\ Cardinality(DOMAIN s) = Len(s)
           /\ \A i \in DOMAIN s : s[i] \in ToSet(s)
           /\ \A x \in ToSet(s) : \E i \in DOMAIN s : s[i] = x
  <1>1. Len(s) \in Nat /\ DOMAIN s = 1 .. Len(s)
    BY LenProperties DEF Array
  <1>2. s = <<>> <=> Len(s) = 0
    BY EmptySeq DEF Array
  <1>3. IsFiniteSet(1 .. Len(s)) /\ Cardinality(1 .. Len(s)) = Len(s)
    BY <1>1, UpTo
  <1>4. /\ \A i \in DOMAIN s : s[i] \in ToSet(s)
        /\ \A x \in ToSet(s) : \E i \in DOMAIN s : s[i] = x
    BY DEF ToSet
  <1> QED  BY <1>1, <1>2, <1>3, <1>4

\* A function on 1 .. n is an array of length n.
LEMMA MakesArray ==
    ASSUME NEW S, NEW n \in Nat, NEW s \in [1 .. n -> S]
    PROVE  Array(s) /\ Len(s) = n /\ DOMAIN s = 1 .. n
  <1>1. s \in [1 .. n -> ToSet(s)]
    BY DEF ToSet
  <1>2. s \in Seq(ToSet(s))
    BY <1>1, SeqDef
  <1>3. DOMAIN s = 1 .. n /\ DOMAIN s = 1 .. Len(s) /\ Len(s) \in Nat
    BY <1>2, LenProperties
  <1>4. Len(s) = n
    <2>1. Cardinality(1 .. n) = n
      BY UpTo
    <2>2. Cardinality(1 .. Len(s)) = Len(s)
      BY <1>3, UpTo
    <2> QED  BY <1>3, <2>1, <2>2
  <1> QED  BY <1>2, <1>3, <1>4 DEF Array

\* Two arrays end to end are an array of the elements of both.
LEMMA ConcatFits ==
    ASSUME NEW s, NEW t, Array(s), Array(t)
    PROVE  /\ Array(s \o t) /\ ToSet(s \o t) = ToSet(s) \cup ToSet(t)
           /\ s \o t = <<>> <=> s = <<>> /\ t = <<>>
  <1> DEFINE S == ToSet(s) \cup ToSet(t)
  <1>1. s \in Seq(S) /\ t \in Seq(S)
    BY SeqMonotonic DEF Array
  <1>2. /\ s \o t \in Seq(S) /\ Len(s \o t) = Len(s) + Len(t)
        /\ \A i \in 1 .. Len(s) + Len(t) :
             (s \o t)[i] = IF i <= Len(s) THEN s[i] ELSE t[i - Len(s)]
    BY <1>1, ConcatProperties
  <1>3. /\ Len(s) \in Nat /\ DOMAIN s = 1 .. Len(s) /\ Len(t) \in Nat /\ DOMAIN t = 1 .. Len(t)
        /\ DOMAIN (s \o t) = 1 .. Len(s) + Len(t)
    BY <1>1, <1>2, LenProperties
  <1>4. ToSet(s \o t) = S
    <2>1. ToSet(s \o t) \subseteq S
      BY <1>2, <1>3 DEF ToSet
    <2>2. ASSUME NEW x \in ToSet(s) PROVE x \in ToSet(s \o t)
      <3>1. PICK i \in 1 .. Len(s) : s[i] = x
        BY <1>3 DEF ToSet
      <3>2. i \in DOMAIN (s \o t) /\ (s \o t)[i] = x
        BY <1>2, <1>3, <3>1
      <3> QED  BY <3>2 DEF ToSet
    <2>3. ASSUME NEW x \in ToSet(t) PROVE x \in ToSet(s \o t)
      <3>1. PICK i \in 1 .. Len(t) : t[i] = x
        BY <1>3 DEF ToSet
      <3>2. i + Len(s) \in DOMAIN (s \o t) /\ (s \o t)[i + Len(s)] = x
        BY <1>2, <1>3, <3>1
      <3> QED  BY <3>2 DEF ToSet
    <2> QED  BY <2>1, <2>2, <2>3
  <1>5. s \o t = <<>> <=> s = <<>> /\ t = <<>>
    BY <1>1, <1>2, <1>3, EmptySeq
  <1> QED  BY <1>2, <1>4, <1>5 DEF Array
-----------------------------------------------------------------------------
(* The operators that pages are made with.                                  *)

\* The places that are kept are listed from the first to the last.
LEMMA KeepFits ==
    ASSUME NEW places \in SUBSET Int, IsFiniteSet(places)
    PROVE  LET c == Cardinality(places)
               o == InOrder(places, Ascending(places))
           IN  /\ c \in Nat /\ (c = 0 <=> places = {})
               /\ o \in [1 .. c -> places]
               /\ \A i, j \in 1 .. c : i < j => o[i] < o[j]
               /\ \A p \in places : \E n \in 1 .. c : o[n] = p
  <1> DEFINE R == Ascending(places)
             o == InOrder(places, R)
             c == Cardinality(places)
  <1>1. \A p, q \in places : <<p, q>> \in R <=> p < q
    BY DEF Ascending
  <1> HIDE DEF R
  <1>2. Ordered(places, R)
    BY <1>1 DEF Ordered
  <1>3. /\ c \in Nat
        /\ o \in [1 .. c -> places]
        /\ \A i, j \in 1 .. c : i < j => <<o[i], o[j]>> \in R /\ o[i] # o[j]
        /\ \A p \in places : \E n \in 1 .. c : o[n] = p
    <2>1. Lists(places, R, c, o)
      BY <1>2, InOrderFits
    <2> HIDE DEF o, c
    <2> QED  BY <2>1 DEF Lists
  <1>4. c = 0 <=> places = {}
    BY FS_EmptySet
  <1> HIDE DEF o, c
  <1>5. \A i, j \in 1 .. c : i < j => o[i] < o[j]
    BY <1>1, <1>3
  <1> QED  BY <1>3, <1>4, <1>5 DEF o, c, R

\* What is kept of an array is what stood at the kept places.
LEMMA KeepsElements ==
    ASSUME NEW s, Array(s), NEW places \in SUBSET DOMAIN s
    PROVE  /\ Array(Keep(s, places))
           /\ ToSet(Keep(s, places)) = {s[i] : i \in places}
           /\ Keep(s, places) = <<>> <=> places = {}
  <1> DEFINE c == Cardinality(places)
             o == InOrder(places, Ascending(places))
  <1>1. places \in SUBSET Int /\ IsFiniteSet(places)
    BY ArrayFits, FS_Subset
  <1>2. /\ c \in Nat /\ (c = 0 <=> places = {})
        /\ o \in [1 .. c -> places]
        /\ \A p \in places : \E n \in 1 .. c : o[n] = p
    BY <1>1, KeepFits
  <1>3. Keep(s, places) = [n \in 1 .. c |-> s[o[n]]]
    BY DEF Keep
  <1> HIDE DEF c, o
  <1>4. Keep(s, places) \in [1 .. c -> ToSet(s)]
    BY <1>2, <1>3, ArrayFits
  <1>5. Array(Keep(s, places)) /\ Len(Keep(s, places)) = c /\ DOMAIN Keep(s, places) = 1 .. c
    BY <1>2, <1>4, MakesArray
  <1>6. ToSet(Keep(s, places)) = {s[i] : i \in places}
    <2>1. \A i \in 1 .. c : Keep(s, places)[i] = s[o[i]] /\ o[i] \in places
      BY <1>2, <1>3
    <2> QED  BY <1>2, <1>5, <2>1 DEF ToSet
  <1>7. Keep(s, places) = <<>> <=> places = {}
    BY <1>2, <1>5, ArrayFits
  <1> QED  BY <1>5, <1>6, <1>7

Timed(s) == \A i \in DOMAIN s : s[i].time \in Int

\* Sorting by time loses nothing, adds nothing, and puts the newest first.
LEMMA NewestFits ==
    ASSUME NEW s, Array(s), Timed(s)
    PROVE  /\ Array(Newest(s)) /\ Len(Newest(s)) = Len(s)
           /\ ToSet(Newest(s)) = ToSet(s) /\ Timed(Newest(s))
           /\ \A i, j \in DOMAIN Newest(s) : i < j => Newest(s)[i].time >= Newest(s)[j].time
  <1> DEFINE D == DOMAIN s
             R == Newer(s)
             o == InOrder(D, R)
             t(i) == s[i].time
  <1>1. D \subseteq Int /\ IsFiniteSet(D) /\ Cardinality(D) = Len(s) /\ D = 1 .. Len(s)
    BY ArrayFits
  <1>2. \A p, q \in D : <<p, q>> \in R <=> t(p) > t(q) \/ (t(p) = t(q) /\ p < q)
    BY DEF Newer
  <1>3. \A p \in D : t(p) \in Int
    BY DEF Timed
  <1>4. Newest(s) = [n \in D |-> s[o[n]]]
    BY DEF Newest
  <1>0. ToSet(s) = {s[i] : i \in D}
    BY DEF ToSet
  <1> HIDE DEF R, D, t
  <1>6. Ordered(D, R)
    BY <1>1, <1>2, <1>3 DEF Ordered
  <1>7. /\ o \in [D -> D]
        /\ \A i, j \in D : i < j => <<o[i], o[j]>> \in R
        /\ \A p \in D : \E n \in D : o[n] = p
    <2>1. /\ o \in [1 .. Cardinality(D) -> D]
          /\ \A i, j \in 1 .. Cardinality(D) : i < j => <<o[i], o[j]>> \in R /\ o[i] # o[j]
          /\ \A p \in D : \E n \in 1 .. Cardinality(D) : o[n] = p
      <3>1. Lists(D, R, Cardinality(D), o)
        BY <1>1, <1>6, InOrderFits
      <3> HIDE DEF o
      <3> QED  BY <3>1 DEF Lists
    <2> HIDE DEF o
    <2> QED  BY <1>1, <2>1
  <1> HIDE DEF o
  <1>8. \A i \in D : Newest(s)[i] = s[o[i]] /\ o[i] \in D
    BY <1>4, <1>7
  <1>9. Newest(s) \in [1 .. Len(s) -> ToSet(s)]
    BY <1>0, <1>1, <1>4, <1>7
  <1>10. Array(Newest(s)) /\ Len(Newest(s)) = Len(s) /\ DOMAIN Newest(s) = D
    <2>1. Len(s) \in Nat
      BY ArrayFits
    <2> QED  BY <1>1, <1>9, <2>1, MakesArray
  <1>11. ToSet(Newest(s)) = ToSet(s)
    <2>1. ToSet(Newest(s)) = {Newest(s)[i] : i \in D}
      BY <1>10 DEF ToSet
    <2> QED  BY <1>0, <1>7, <1>8, <2>1
  <1>12. Timed(Newest(s))
    BY <1>3, <1>8, <1>10 DEF Timed, t
  <1>13. ASSUME NEW i \in D, NEW j \in D, i < j
         PROVE  t(o[i]) >= t(o[j])
    <2>1. <<o[i], o[j]>> \in R /\ o[i] \in D /\ o[j] \in D
      BY <1>7, <1>13
    <2>2. t(o[i]) > t(o[j]) \/ t(o[i]) = t(o[j])
      BY <1>2, <2>1
    <2>3. t(o[i]) \in Int /\ t(o[j]) \in Int
      BY <1>3, <2>1
    <2> QED  BY <2>2, <2>3
  <1>14. \A i, j \in D : i < j => Newest(s)[i].time >= Newest(s)[j].time
    BY <1>8, <1>13 DEF t
  <1> QED  BY <1>10, <1>11, <1>12, <1>14

\* The lesser of two integers.
LEMMA MinOfTwo ==
    ASSUME NEW a \in Int, NEW b \in Int
    PROVE  Min({a, b}) \in {a, b} /\ Min({a, b}) <= a /\ Min({a, b}) <= b
  <1>1. \E x \in {a, b} : \A y \in {a, b} : x <= y
    OBVIOUS
  <1> QED  BY <1>1 DEF Min

\* A page: no longer than the limit, newest first, nothing named twice.
Shaped(P, limit_) ==
    /\ Array(P) /\ Len(P) <= limit_
    /\ \A i, j \in DOMAIN P : i < j => P[i].time >= P[j].time /\ P[i].id # P[j].id

\* A page cut from sorted records has the shape of a page.
LEMMA CutFits ==
    ASSUME NEW s, Array(s), NEW l \in Nat \ {0},
           \A i, j \in DOMAIN s : i < j => s[i].time >= s[j].time
    PROVE  /\ Shaped(Cut(s, l), l)
           /\ ToSet(Cut(s, l)) \subseteq ToSet(s)
           /\ Cut(s, l) = <<>> => s = <<>>
  <1> DEFINE F == Firsts(s)
             c == Cardinality(F)
             o == InOrder(F, Ascending(F))
             k == Min({l, c})
  <1>1. F \in SUBSET DOMAIN s /\ F \in SUBSET Int /\ IsFiniteSet(F)
    <2>1. F \in SUBSET DOMAIN s
      BY DEF Firsts
    <2> HIDE DEF F
    <2> QED  BY <2>1, ArrayFits, FS_Subset
  <1>2. /\ c \in Nat /\ (c = 0 <=> F = {})
        /\ o \in [1 .. c -> F]
        /\ \A i, j \in 1 .. c : i < j => o[i] < o[j]
    <2> HIDE DEF F
    <2> QED  BY <1>1, KeepFits
  <1>3. Keep(s, F) = [n \in 1 .. c |-> s[o[n]]]
    BY DEF Keep
  <1>4. Cut(s, l) = [n \in 1 .. k |-> Keep(s, F)[n]]
    BY DEF Cut
  <1>5. \A i, j \in F : i < j => s[i].id # s[j].id
    <2> SUFFICES ASSUME NEW i \in F, NEW j \in F, i < j PROVE s[i].id # s[j].id
      OBVIOUS
    <2>1. i \in DOMAIN s /\ j \in DOMAIN s /\ DOMAIN s = 1 .. Len(s) /\ Len(s) \in Nat
      BY <1>1, ArrayFits
    <2>2. i \in 1 .. (j - 1)
      BY <2>1
    <2> QED  BY <2>2 DEF Firsts
  <1>6. s # <<>> => F # {}
    <2> SUFFICES ASSUME s # <<>> PROVE 1 \in F
      OBVIOUS
    <2>1. 1 \in DOMAIN s
      BY ArrayFits
    <2> QED  BY <2>1 DEF Firsts
  <1> HIDE DEF F, c, o
  <1>7. k \in Nat /\ k <= l /\ k <= c /\ (k = 0 => c = 0)
    <2>1. k \in {l, c} /\ k <= l /\ k <= c
      BY <1>2, MinOfTwo
    <2> QED  BY <1>2, <2>1
  <1> HIDE DEF k
  <1>8. \A n \in 1 .. k : n \in 1 .. c /\ Cut(s, l)[n] = s[o[n]] /\ o[n] \in F /\ o[n] \in DOMAIN s
    BY <1>1, <1>2, <1>3, <1>4, <1>7
  <1>9. Cut(s, l) \in [1 .. k -> ToSet(s)]
    BY <1>4, <1>8, ArrayFits
  <1>10. Array(Cut(s, l)) /\ Len(Cut(s, l)) = k /\ DOMAIN Cut(s, l) = 1 .. k
    BY <1>7, <1>9, MakesArray
  <1>11. ASSUME NEW i \in 1 .. k, NEW j \in 1 .. k, i < j
         PROVE  Cut(s, l)[i].time >= Cut(s, l)[j].time /\ Cut(s, l)[i].id # Cut(s, l)[j].id
    <2>1. o[i] < o[j]
      BY <1>2, <1>8, <1>11
    <2>2. s[o[i]].time >= s[o[j]].time /\ s[o[i]].id # s[o[j]].id
      BY <1>5, <1>8, <2>1
    <2> QED  BY <1>8, <2>2
  <1>12. ToSet(Cut(s, l)) \subseteq ToSet(s)
    BY <1>9, <1>10 DEF ToSet
  <1>13. Cut(s, l) = <<>> => s = <<>>
    BY <1>2, <1>6, <1>7, <1>10, ArrayFits
  <1> QED  BY <1>7, <1>10, <1>11, <1>12, <1>13 DEF Shaped

\* A page made of any dated records has its shape, and only these records.
LEMMA PageFits ==
    ASSUME NEW s, Array(s), Timed(s), NEW l \in Nat \ {0}
    PROVE  /\ Shaped(Cut(Newest(s), l), l)
           /\ ToSet(Cut(Newest(s), l)) \subseteq ToSet(s)
           /\ Cut(Newest(s), l) = <<>> => s = <<>>
  <1>1. /\ Array(Newest(s)) /\ Len(Newest(s)) = Len(s) /\ ToSet(Newest(s)) = ToSet(s)
        /\ \A i, j \in DOMAIN Newest(s) : i < j => Newest(s)[i].time >= Newest(s)[j].time
    BY NewestFits
  <1>2. Newest(s) = <<>> => s = <<>>
    BY <1>1, ArrayFits
  <1> QED  BY <1>1, <1>2, CutFits

\* A family of lists.
Family(f) ==
    /\ IsFiniteSet(DOMAIN f) /\ DOMAIN f \subseteq Int
    /\ \A i \in DOMAIN f : Array(f[i])

\* A row has finitely many places.
LEMMA PairsAreFinite ==
    ASSUME NEW i, NEW n \in Nat
    PROVE  IsFiniteSet({i} \X (1 .. n))
  <1> DEFINE g == [k \in 1 .. n |-> <<i, k>>]
  <1>1. g \in Surjection(1 .. n, {i} \X (1 .. n))
    <2>1. g \in [1 .. n -> {i} \X (1 .. n)]
      OBVIOUS
    <2>2. ASSUME NEW p \in {i} \X (1 .. n) PROVE \E k \in 1 .. n : g[k] = p
      <3>1. p[2] \in 1 .. n /\ g[p[2]] = p
        OBVIOUS
      <3> QED  BY <3>1
    <2> QED  BY <2>1, <2>2 DEF Surjection
  <1>2. IsFiniteSet(1 .. n)
    BY UpTo
  <1> QED  BY <1>1, <1>2, FS_Surjection

\* The places of a family are finitely many, and in order.
LEMMA PlacesFits ==
    ASSUME NEW f, Family(f)
    PROVE  /\ IsFiniteSet(Places(f))
           /\ \A p \in Places(f) : /\ p = <<p[1], p[2]>> /\ p[1] \in Int /\ p[2] \in Int
                                   /\ p[1] \in DOMAIN f /\ p[2] \in DOMAIN f[p[1]]
           /\ \A i \in DOMAIN f : \A k \in DOMAIN f[i] : <<i, k>> \in Places(f)
  <1> DEFINE column == [i \in DOMAIN f |-> {i} \X (DOMAIN f[i])]
             columns == {column[i] : i \in DOMAIN f}
  <1>1. column \in Surjection(DOMAIN f, columns)
    BY DEF Surjection
  <1>2. IsFiniteSet(columns)
    <2> HIDE DEF columns, column
    <2> QED  BY <1>1, FS_Surjection DEF Family
  <1>3. \A C \in columns : IsFiniteSet(C)
    <2> SUFFICES ASSUME NEW i \in DOMAIN f PROVE IsFiniteSet({i} \X (DOMAIN f[i]))
      OBVIOUS
    <2>1. DOMAIN f[i] = 1 .. Len(f[i]) /\ Len(f[i]) \in Nat
      BY ArrayFits DEF Family
    <2> QED  BY <2>1, PairsAreFinite
  <1>4. Places(f) = UNION columns
    BY DEF Places
  <1>5. IsFiniteSet(Places(f))
    <2> HIDE DEF columns
    <2> QED  BY <1>2, <1>3, <1>4, FS_UNION
  <1>6. \A i \in DOMAIN f : DOMAIN f[i] \subseteq Int
    BY ArrayFits DEF Family
  <1>7. ASSUME NEW p \in Places(f)
        PROVE  /\ p = <<p[1], p[2]>> /\ p[1] \in Int /\ p[2] \in Int
               /\ p[1] \in DOMAIN f /\ p[2] \in DOMAIN f[p[1]]
    <2>1. PICK i \in DOMAIN f : p \in {i} \X (DOMAIN f[i])
      BY DEF Places
    <2>2. i \in Int
      BY DEF Family
    <2> QED  BY <1>6, <2>1, <2>2
  <1>8. \A i \in DOMAIN f : \A k \in DOMAIN f[i] : <<i, k>> \in Places(f)
    BY DEF Places
  <1> QED  BY <1>5, <1>7, <1>8

\* The sequences of a family, chained, are an array of their elements.
LEMMA ChainFits ==
    ASSUME NEW f, Family(f)
    PROVE  /\ Array(Chain(f))
           /\ \A m \in ToSet(Chain(f)) : \E i \in DOMAIN f : m \in ToSet(f[i])
           /\ \A i \in DOMAIN f : ToSet(f[i]) \subseteq ToSet(Chain(f))
           /\ Chain(f) = <<>> <=> \A i \in DOMAIN f : f[i] = <<>>
  <1> DEFINE P == Places(f)
             R == Earlier(P)
             c == Cardinality(P)
             o == InOrder(P, R)
             at(p) == f[p[1]][p[2]]
  <1>1. /\ IsFiniteSet(P)
        /\ \A p \in P : /\ p = <<p[1], p[2]>> /\ p[1] \in Int /\ p[2] \in Int
                        /\ p[1] \in DOMAIN f /\ p[2] \in DOMAIN f[p[1]]
        /\ \A i \in DOMAIN f : \A k \in DOMAIN f[i] : <<i, k>> \in P
    BY PlacesFits
  <1>2. \A p, q \in P : <<p, q>> \in R <=>
          p[1] < q[1] \/ (p[1] = q[1] /\ p[2] < q[2])
    BY DEF Earlier
  <1>3. Ordered(P, R)
    <2> HIDE DEF P, R
    <2>1. \A p \in P : <<p, p>> \notin R
      BY <1>1, <1>2
    <2>2. \A p, q \in P : p # q => <<p, q>> \in R \/ <<q, p>> \in R
      <3> SUFFICES ASSUME NEW p \in P, NEW q \in P, p # q
                   PROVE  <<p, q>> \in R \/ <<q, p>> \in R
        OBVIOUS
      <3>1. p[1] # q[1] \/ p[2] # q[2]
        BY <1>1
      <3>2. p[1] \in Int /\ q[1] \in Int /\ p[2] \in Int /\ q[2] \in Int
        BY <1>1
      <3> QED  BY <1>2, <3>1, <3>2
    <2>3. \A p, q, r \in P : <<p, q>> \in R /\ <<q, r>> \in R => <<p, r>> \in R
      <3> SUFFICES ASSUME NEW p \in P, NEW q \in P, NEW r \in P, <<p, q>> \in R, <<q, r>> \in R
                   PROVE  <<p, r>> \in R
        OBVIOUS
      <3>1. /\ p[1] < q[1] \/ (p[1] = q[1] /\ p[2] < q[2])
            /\ q[1] < r[1] \/ (q[1] = r[1] /\ q[2] < r[2])
        BY <1>2
      <3>2. /\ p[1] \in Int /\ q[1] \in Int /\ r[1] \in Int
            /\ p[2] \in Int /\ q[2] \in Int /\ r[2] \in Int
        BY <1>1
      <3>3. p[1] < r[1] \/ (p[1] = r[1] /\ p[2] < r[2])
        BY <3>1, <3>2
      <3> QED  BY <1>2, <3>3
    <2> QED  BY <2>1, <2>2, <2>3 DEF Ordered
  <1>4. /\ c \in Nat /\ (c = 0 <=> P = {})
        /\ o \in [1 .. c -> P]
        /\ \A p \in P : \E n \in 1 .. c : o[n] = p
    <2> HIDE DEF P, R
    <2>1. Lists(P, R, c, o)
      BY <1>1, <1>3, InOrderFits
    <2>2. c = 0 <=> P = {}
      BY <1>1, FS_EmptySet
    <2> HIDE DEF c, o
    <2> QED  BY <2>1, <2>2 DEF Lists
  <1>5. Chain(f) = [n \in 1 .. c |-> f[o[n][1]][o[n][2]]]
    BY DEF Chain
  <1> HIDE DEF P, R, c, o
  <1>6. \A n \in 1 .. c : o[n] \in P /\ Chain(f)[n] = at(o[n])
    BY <1>4, <1>5
  <1>7. Chain(f) \in [1 .. c -> {at(p) : p \in P}]
    BY <1>4, <1>5
  <1>8. Array(Chain(f)) /\ Len(Chain(f)) = c /\ DOMAIN Chain(f) = 1 .. c
    <2> HIDE DEF at
    <2> QED  BY <1>4, <1>7, MakesArray
  <1>9. ASSUME NEW m \in ToSet(Chain(f))
        PROVE  \E i \in DOMAIN f : m \in ToSet(f[i])
    <2>1. PICK n \in 1 .. c : m = Chain(f)[n]
      BY <1>8 DEF ToSet
    <2>2. o[n] \in P /\ m = f[o[n][1]][o[n][2]]
      BY <1>6, <2>1
    <2>3. o[n][1] \in DOMAIN f /\ o[n][2] \in DOMAIN f[o[n][1]]
      BY <1>1, <2>2
    <2>4. m \in ToSet(f[o[n][1]])
      BY <2>2, <2>3 DEF ToSet
    <2> QED  BY <2>3, <2>4
  <1>10. ASSUME NEW i \in DOMAIN f, NEW m \in ToSet(f[i])
         PROVE  m \in ToSet(Chain(f))
    <2>1. PICK k \in DOMAIN f[i] : m = f[i][k]
      BY DEF ToSet
    <2>2. <<i, k>> \in P
      BY <1>1
    <2>3. PICK n \in 1 .. c : o[n] = <<i, k>>
      BY <1>4, <2>2
    <2>4. Chain(f)[n] = m
      BY <1>6, <2>1, <2>3
    <2> QED  BY <1>8, <2>4 DEF ToSet
  <1>11. Chain(f) = <<>> <=> \A i \in DOMAIN f : f[i] = <<>>
    <2>1. Chain(f) = <<>> <=> c = 0
      BY <1>4, <1>8, ArrayFits
    <2>2. \A i \in DOMAIN f : f[i] = <<>> <=> DOMAIN f[i] = {}
      <3> SUFFICES ASSUME NEW i \in DOMAIN f PROVE f[i] = <<>> <=> DOMAIN f[i] = {}
        OBVIOUS
      <3>1. /\ Len(f[i]) \in Nat /\ DOMAIN f[i] = 1 .. Len(f[i])
            /\ f[i] = <<>> <=> Len(f[i]) = 0
        BY ArrayFits DEF Family
      <3> QED  BY <3>1
    <2>3. P = {} <=> \A i \in DOMAIN f : DOMAIN f[i] = {}
      BY <1>1
    <2> QED  BY <1>4, <2>1, <2>2, <2>3
  <1> QED  BY <1>8, <1>9, <1>10, <1>11

\* What a page of rows comes to.
LEMMA CollectFits ==
    ASSUME NEW rows, NEW told, Family(told)
    PROVE  LET fd == Collect(rows, told)
           IN  /\ fd.ok \in BOOLEAN /\ Array(fd.moves)
               /\ fd.moves # <<>> => fd.ok
               /\ fd.ok => DOMAIN rows = {} \/ DOMAIN told # {}
               /\ \A m \in ToSet(fd.moves) : \E i \in DOMAIN told : m \in ToSet(told[i])
               /\ \A i \in DOMAIN told : ToSet(told[i]) \subseteq ToSet(fd.moves)
  <1>1. /\ Array(Chain(told))
        /\ \A m \in ToSet(Chain(told)) : \E i \in DOMAIN told : m \in ToSet(told[i])
        /\ \A i \in DOMAIN told : ToSet(told[i]) \subseteq ToSet(Chain(told))
        /\ Chain(told) = <<>> <=> \A i \in DOMAIN told : told[i] = <<>>
    BY ChainFits
  <1>2. Array(<<>>) /\ ToSet(<<>>) = {}
    <2>1. DOMAIN (<<>>) = {} /\ ToSet(<<>>) = {<<>>[i] : i \in DOMAIN (<<>>)}
      BY DEF ToSet
    <2> QED  BY <2>1, EmptySeq DEF Array
  <1>3. CASE DOMAIN told # DOMAIN rows /\ \A i \in DOMAIN told : told[i] = <<>>
    <2>1. Collect(rows, told) = [ok |-> FALSE, moves |-> <<>>]
      BY <1>3 DEF Collect, Failed
    <2> QED  BY <1>2, <1>3, <2>1
  <1>4. CASE ~(DOMAIN told # DOMAIN rows /\ \A i \in DOMAIN told : told[i] = <<>>)
    <2>1. Collect(rows, told) = [ok |-> TRUE, moves |-> Chain(told)]
      BY <1>4 DEF Collect, Feed
    <2>2. DOMAIN rows = {} \/ DOMAIN told # {}
      BY <1>4
    <2> DEFINE fd == Collect(rows, told)
    <2>3. fd.ok = TRUE /\ fd.moves = Chain(told)
      BY <2>1
    <2> QED  BY <1>1, <2>2, <2>3
  <1> QED  BY <1>3, <1>4

-----------------------------------------------------------------------------
(* What one row tells.                                                      *)

\* An array of one element, and of none.
LEMMA Single ==
    ASSUME NEW m
    PROVE  Array(<<m>>) /\ ToSet(<<m>>) = {m} /\ Array(<<>>) /\ ToSet(<<>>) = {}
  <1>1. DOMAIN (<<m>>) = {1} /\ <<m>>[1] = m /\ DOMAIN (<<>>) = {}
    OBVIOUS
  <1>2. ToSet(<<m>>) = {m} /\ ToSet(<<>>) = {}
    BY <1>1 DEF ToSet
  <1>3. <<m>> \in Seq({m}) /\ <<>> \in Seq({})
    OBVIOUS
  <1> QED  BY <1>2, <1>3 DEF Array

\* The form of every movement.
IsMove(m) == m = Move(m.hash, m.from, m.to, m.value, m.time, m.status, m.asset, m.tag)

\* Every movement has its form by construction.
LEMMA MoveIs ==
    ASSUME NEW h, NEW x, NEW y, NEW v, NEW t, NEW s, NEW a, NEW g
    PROVE  IsMove(Move(h, x, y, v, t, s, a, g))
  BY DEF IsMove, Move

\* A row bears out a movement.
Evidence(f, x, m) ==
    /\ x # Bad /\ Names(x, m.hash)
    /\ m.status \in {"ok", "failed"} =>
         /\ m.status = "failed" <=> Denies(f, x)
         /\ m.status = "ok" => Affirms(f, x)

\* What tells the movements of the feeds apart, and whose coin they move.
Tagged(f, m) ==
    /\ f = "trc20" => m.tag = <<"trc20">>
    /\ f = "native" => m.tag[1] = "contract"
    /\ f = "traces" => m.tag[1] = "internal"
    /\ f \in {"tx", "internal"} => m.asset = Coin

Telling(f, x, s) ==
    Array(s) /\ \A m \in ToSet(s) : IsMove(m) /\ m.time \in Int /\ Tagged(f, m) /\ Evidence(f, x, m)

\* Etherscan's two flags bear out the status that is read from them.
LEMMA FlagsTell ==
    ASSUME NEW x
    PROVE  LET s == EtherscanExecutionStatus(x)
               denied == Member(x, "isError") = "1" \/ Member(x, "txreceipt_status") = "0"
               affirmed == Member(x, "isError") = "0" \/ Member(x, "txreceipt_status") = "1"
           IN  /\ s = "ok" => affirmed /\ ~denied
               /\ s = "failed" => denied
  BY DEF EtherscanExecutionStatus

\* What a normal transaction of an explorer tells rests on its row.
LEMMA TxTells ==
    ASSUME NEW x, Sound("tx", x), Numeric("tx", x)
    PROVE  Telling("tx", x, TxMoves(x))
  <1>1. x # Bad /\ "hash" \in DOMAIN x /\ x.timeStamp \in Int
    BY DEF Sound, EtherscanTx, Fits, Numeric, Explorer
  <1> DEFINE m == Move(x.hash, x.from, x.to, x.value, x.timeStamp, EtherscanExecutionStatus(x), Coin, Null)
  <1>2. TxMoves(x) = <<m>>
    BY DEF TxMoves
  <1>3. m.hash = x.hash /\ m.time = x.timeStamp /\ m.status = EtherscanExecutionStatus(x)
    BY DEF Move
  <1>9. IsMove(m) /\ Tagged("tx", m)
    BY MoveIs DEF Tagged, Move
  <1> HIDE DEF m
  <1>4. Names(x, m.hash)
    BY <1>1, <1>3 DEF Names, Member
  <1>5. Evidence("tx", x, m)
    BY <1>1, <1>3, <1>4, FlagsTell DEF Evidence, Denies, Affirms, Explorer
  <1> QED  BY <1>9, <1>1, <1>2, <1>3, <1>5, Single DEF Telling

\* What a token transfer of an explorer tells rests on its row.
LEMMA TokenTells ==
    ASSUME NEW x, Sound("token", x), Numeric("token", x)
    PROVE  Telling("token", x, TokenMoves(x))
  <1>1. x # Bad /\ "hash" \in DOMAIN x /\ x.timeStamp \in Int
    BY DEF Sound, EtherscanTokenTx, Fits, Numeric, Explorer
  <1> DEFINE m == Move(x.hash, x.from, x.to, x.value, x.timeStamp,
                       EtherscanTokenExecutionStatus(x), x.contractAddress, Member(x, "logIndex"))
  <1>2. TokenMoves(x) = <<m>>
    BY DEF TokenMoves
  <1>3. m.hash = x.hash /\ m.time = x.timeStamp /\ m.status = EtherscanTokenExecutionStatus(x)
    BY DEF Move
  <1>9. IsMove(m) /\ Tagged("token", m)
    BY MoveIs DEF Tagged, Move
  <1> HIDE DEF m
  <1>4. Names(x, m.hash)
    BY <1>1, <1>3 DEF Names, Member
  <1>5. Evidence("token", x, m)
    <2>1. CASE Member(x, "isError") = Null /\ Member(x, "txreceipt_status") = Null
      <3>1. m.status = "ok"
        BY <1>3, <2>1 DEF EtherscanTokenExecutionStatus
      <3>2. ~Denies("token", x) /\ Affirms("token", x)
        BY <2>1, HistoryConstants DEF Denies, Affirms, Explorer
      <3> QED  BY <1>1, <1>4, <3>1, <3>2 DEF Evidence
    <2>2. CASE ~(Member(x, "isError") = Null /\ Member(x, "txreceipt_status") = Null)
      <3>1. m.status = EtherscanExecutionStatus(x)
        BY <1>3, <2>2 DEF EtherscanTokenExecutionStatus
      <3> QED  BY <1>1, <1>4, <3>1, FlagsTell DEF Evidence, Denies, Affirms, Explorer
    <2> QED  BY <2>1, <2>2
  <1> QED  BY <1>9, <1>1, <1>2, <1>3, <1>5, Single DEF Telling

\* What an internal transfer of an explorer tells rests on its row.
LEMMA InternalTells ==
    ASSUME NEW x, Sound("internal", x), Numeric("internal", x)
    PROVE  Telling("internal", x, InternalMoves(x))
  <1>1. x # Bad /\ x.timeStamp \in Int /\ ("hash" \in DOMAIN x \/ "transactionHash" \in DOMAIN x)
    BY DEF Sound, EtherscanInternalTx, Fits, OneOf, Numeric, Explorer
  <1> DEFINE h == IF "hash" \in DOMAIN x THEN x.hash ELSE x.transactionHash
             m == Move(h, x.from, x.to, x.value, x.timeStamp, EtherscanExecutionStatus(x), Coin,
                       IF "traceId" \in DOMAIN x THEN x.traceId ELSE x.index)
  <1>2. InternalMoves(x) = <<m>>
    BY DEF InternalMoves
  <1>3. m.hash = h /\ m.time = x.timeStamp /\ m.status = EtherscanExecutionStatus(x)
    BY DEF Move
  <1>9. IsMove(m) /\ Tagged("internal", m)
    BY MoveIs DEF Tagged, Move
  <1>0. Names(x, h)
    BY <1>1 DEF Names, Member
  <1> HIDE DEF m, h
  <1>5. Evidence("internal", x, m)
    BY <1>0, <1>1, <1>3, FlagsTell DEF Evidence, Denies, Affirms, Explorer
  <1> QED  BY <1>9, <1>1, <1>2, <1>3, <1>5, Single DEF Telling

\* What a transfer of Alchemy tells rests on its row.
LEMMA AlchemyTells ==
    ASSUME NEW f \in Transfer, NEW x, Sound(f, x), Numeric(f, x)
    PROVE  /\ Telling(f, x, AlchemyMoves(x))
           /\ \E m \in ToSet(AlchemyMoves(x)) : m.from = x.from /\ m.to = x.to
  <1>1. x # Bad /\ "hash" \in DOMAIN x /\ x.blockNum \in Int /\ (BlockTime(x) = Null \/ BlockTime(x) \in Int)
    BY DEF Sound, AlchemyTransfer, Fits, Numeric, Explorer, Transfer
  <1> DEFINE t == IF BlockTime(x) = Null THEN -x.blockNum ELSE BlockTime(x)
             m == Move(x.hash, x.from, x.to, x.value, t, "ok",
                       IF x.category = "erc20" THEN x.address ELSE Coin, x.uniqueId)
  <1>2. AlchemyMoves(x) = <<m>>
    BY DEF AlchemyMoves
  <1>3. m.hash = x.hash /\ m.time = t /\ m.status = "ok" /\ m.from = x.from /\ m.to = x.to
    BY DEF Move
  <1>9. IsMove(m) /\ Tagged(f, m)
    BY MoveIs DEF Tagged, Transfer, Move
  <1>4. t \in Int
    BY <1>1
  <1> HIDE DEF m, t
  <1>5. Names(x, m.hash)
    BY <1>1, <1>3 DEF Names, Member
  <1>6. Evidence(f, x, m)
    BY <1>1, <1>3, <1>5 DEF Evidence, Denies, Affirms, Explorer, Transfer
  <1>7. Array(AlchemyMoves(x)) /\ ToSet(AlchemyMoves(x)) = {m}
    BY <1>2, Single
  <1> QED  BY <1>9, <1>3, <1>4, <1>6, <1>7 DEF Telling

\* What a transfer of Helius tells rests on its row.
LEMMA HeliusTells ==
    ASSUME NEW x, Sound("helius", x), Numeric("helius", x)
    PROVE  Telling("helius", x, HeliusMoves(x))
  <1>1. /\ x # Bad /\ x.blockTime \in Int
        /\ "signature" \in DOMAIN x /\ "confirmationStatus" \in DOMAIN x
    BY DEF Sound, HeliusTransfer, Fits, Numeric, Explorer
  <1> DEFINE s == CASE x.confirmationStatus \in {"confirmed", "finalized"} -> "ok"
                    [] x.confirmationStatus = "processed"                  -> "pending"
                    [] OTHER                                               -> "unknown"
             m == Move(x.signature, x.fromUserAccount, x.toUserAccount, x.amount, x.blockTime, s,
                       x.mint, <<x.transactionIdx, x.instructionIdx, Member(x, "innerInstructionIdx")>>)
  <1>2. HeliusMoves(x) = <<m>>
    BY DEF HeliusMoves
  <1>3. m.hash = x.signature /\ m.time = x.blockTime /\ m.status = s
    BY DEF Move
  <1>9. IsMove(m) /\ Tagged("helius", m)
    BY MoveIs DEF Tagged, Move
  <1>4. /\ s = "ok" => x.confirmationStatus \in {"confirmed", "finalized"}
        /\ s # "failed"
    OBVIOUS
  <1> HIDE DEF m, s
  <1>5. Names(x, m.hash)
    BY <1>1, <1>3 DEF Names, Member
  <1>6. Evidence("helius", x, m)
    BY <1>1, <1>3, <1>4, <1>5 DEF Evidence, Denies, Affirms, Explorer, Member
  <1> QED  BY <1>9, <1>1, <1>2, <1>3, <1>6, Single DEF Telling

\* What a TRC-20 event tells rests on its row.
LEMMA TRC20Tells ==
    ASSUME NEW x, Sound("trc20", x), Numeric("trc20", x)
    PROVE  Telling("trc20", x, TRC20Moves(x))
  <1>1. CASE x.type # "Transfer"
    BY <1>1, Single DEF TRC20Moves, Telling
  <1>2. CASE x.type = "Transfer"
    <2>1. x # Bad /\ "transaction_id" \in DOMAIN x /\ x.block_timestamp \in Int
      BY <1>2 DEF Sound, TronTRC20, Fits, Numeric, Explorer
    <2> DEFINE m == Move(x.transaction_id, x.from, x.to, x.value, x.block_timestamp, "ok",
                         x.address, <<"trc20">>)
    <2>2. TRC20Moves(x) = <<m>>
      BY <1>2 DEF TRC20Moves
    <2>3. m.hash = x.transaction_id /\ m.time = x.block_timestamp /\ m.status = "ok"
      BY DEF Move
    <2>6. IsMove(m) /\ Tagged("trc20", m)
      BY MoveIs DEF Tagged, Move
    <2> HIDE DEF m
    <2>4. Names(x, m.hash)
      BY <2>1, <2>3 DEF Names, Member
    <2>5. Evidence("trc20", x, m)
      BY <2>1, <2>3, <2>4 DEF Evidence, Denies, Affirms, Explorer
    <2> QED  BY <2>1, <2>2, <2>3, <2>5, <2>6, Single DEF Telling
  <1> QED  BY <1>1, <1>2

\* What the contracts of a TRON transaction tell rests on its row.
LEMMA NativeTells ==
    ASSUME NEW x, Sound("native", x), Numeric("native", x)
    PROVE  Telling("native", x, NativeMoves(x))
  <1>1. x # Bad /\ "txID" \in DOMAIN x /\ x.block_timestamp \in Int /\ Array(x.contract)
    BY DEF Sound, TronNative, Fits, Numeric, Explorer
  <1> DEFINE M(i) == Move(x.txID, x.contract[i].owner_address, x.contract[i].to_address,
                          x.contract[i].amount, x.block_timestamp, TronStatus(x),
                          IF "asset_name" \in DOMAIN x.contract[i] THEN x.contract[i].asset_name
                          ELSE Coin, <<"contract", i>>)
             told == [i \in DOMAIN x.contract |->
                        IF x.contract[i].type \notin Transfers THEN <<>> ELSE <<M(i)>>]
  <1>2. NativeMoves(x) = Chain(told)
    BY DEF NativeMoves
  <1>3. \A i : M(i).hash = x.txID /\ M(i).time = x.block_timestamp /\ M(i).status = TronStatus(x)
    BY DEF Move
  <1>10. \A i : IsMove(M(i)) /\ Tagged("native", M(i))
    BY MoveIs DEF Tagged, Move
  <1>4. /\ TronStatus(x) = "ok" => "ret" \in DOMAIN x /\ x.ret # <<>> /\ ~Denies("native", x)
        /\ TronStatus(x) = "failed" => Denies("native", x)
    BY DEF TronStatus, Denies, Explorer
  <1>5. \A i : Evidence("native", x, M(i))
    <2> SUFFICES ASSUME NEW i PROVE Evidence("native", x, M(i))
      OBVIOUS
    <2> HIDE DEF M
    <2>1. Names(x, M(i).hash)
      BY <1>1, <1>3 DEF Names, Member
    <2>2. TronStatus(x) = "ok" => Affirms("native", x)
      BY <1>4 DEF Affirms, Explorer
    <2> QED  BY <1>1, <1>3, <1>4, <2>1, <2>2 DEF Evidence
  <1> HIDE DEF M
  <1>6. ASSUME NEW i \in DOMAIN told
        PROVE  Array(told[i]) /\ \A m \in ToSet(told[i]) : m = M(i)
    BY Single
  <1>7. IsFiniteSet(DOMAIN told) /\ DOMAIN told \subseteq Int
    <2>1. DOMAIN told = 1 .. Len(x.contract) /\ IsFiniteSet(DOMAIN x.contract)
      BY <1>1, ArrayFits
    <2> QED  BY <2>1
  <1> HIDE DEF told
  <1>8. /\ Array(Chain(told))
        /\ \A m \in ToSet(Chain(told)) : \E i \in DOMAIN told : m \in ToSet(told[i])
    BY <1>6, <1>7, ChainFits DEF Family
  <1>9. \A m \in ToSet(Chain(told)) : \E i \in DOMAIN told : m = M(i)
    BY <1>6, <1>8
  <1> QED  BY <1>10, <1>1, <1>2, <1>3, <1>5, <1>8, <1>9 DEF Telling

\* What an internal transaction of TRON tells rests on its row.
LEMMA TracesTell ==
    ASSUME NEW x, Sound("traces", x), Numeric("traces", x)
    PROVE  Telling("traces", x, TronInternalMoves(x))
  <1>1. x # Bad /\ "tx_id" \in DOMAIN x /\ x.block_timestamp \in Int
    BY DEF Sound, TronInternal, Fits, Numeric, Explorer
  <1> DEFINE s == CASE Member(x.data, "rejected") = TRUE  -> "failed"
                    [] Member(x.data, "rejected") = FALSE -> "ok"
                    [] OTHER                              -> "unknown"
             M(value, asset) == Move(x.tx_id, x.from_address, x.to_address, x.data[value],
                                     x.block_timestamp, s, asset, <<"internal", x.internal_tx_id>>)
             P(value, asset) == IF Member(x.data, value) \in {Null, 0} THEN <<>>
                                ELSE <<M(value, asset)>>
  <1>2. TronInternalMoves(x) = P("call_value", Coin) \o P("call_token_value", Member(x.data, "token_id"))
    BY DEF TronInternalMoves
  <1>3. \A value, asset : /\ M(value, asset).hash = x.tx_id
                          /\ M(value, asset).time = x.block_timestamp
                          /\ M(value, asset).status = s
    BY DEF Move
  <1>7. \A value, asset : IsMove(M(value, asset)) /\ Tagged("traces", M(value, asset))
    BY MoveIs DEF Tagged, Move
  <1>4. /\ s = "ok" => Member(x.data, "rejected") = FALSE
        /\ s = "failed" => Member(x.data, "rejected") = TRUE
    OBVIOUS
  <1> HIDE DEF M, s
  <1>5. \A value, asset : Evidence("traces", x, M(value, asset))
    <2> SUFFICES ASSUME NEW value, NEW asset PROVE Evidence("traces", x, M(value, asset))
      OBVIOUS
    <2>1. Names(x, M(value, asset).hash)
      BY <1>1, <1>3 DEF Names, Member
    <2> QED  BY <1>1, <1>3, <1>4, <2>1 DEF Evidence, Denies, Affirms, Explorer
  <1>6. \A value, asset : Telling("traces", x, P(value, asset))
    <2> SUFFICES ASSUME NEW value, NEW asset PROVE Telling("traces", x, P(value, asset))
      OBVIOUS
    <2>1. CASE P(value, asset) = <<>>
      BY <2>1, Single DEF Telling
    <2>2. CASE P(value, asset) = <<M(value, asset)>>
      BY <1>1, <1>3, <1>5, <1>7, <2>2, Single DEF Telling
    <2> QED  BY <2>1, <2>2
  <1> HIDE DEF P
  <1> QED  BY <1>2, <1>6, ConcatFits DEF Telling

-----------------------------------------------------------------------------
(* What one feed tells.                                                     *)

RowMoves(f, x) ==
    CASE f = "trc20"    -> TRC20Moves(x)
      [] f = "native"   -> NativeMoves(x)
      [] f = "traces"   -> TronInternalMoves(x)
      [] f = "tx"       -> TxMoves(x)
      [] f = "token"    -> TokenMoves(x)
      [] f = "internal" -> InternalMoves(x)
      [] f = "helius"   -> HeliusMoves(x)
      [] OTHER          -> AlchemyMoves(x)

RowsTell(f, rows) ==
    [i \in {j \in DOMAIN rows : Sound(f, rows[j])} |-> RowMoves(f, rows[i])]

RowFeeds == Every \ {"times"}

\* The feeds that are made of rows.
LEMMA RowFeedsAre ==
    RowFeeds = {"trc20", "native", "traces", "from", "to", "tx", "token", "internal", "helius"}
  BY DEF RowFeeds, Every, Tron, Transfer, Explorer

\* Every feed is decoded in one way: a page is accepted, and its sound rows collected.
LEMMA DecodedRows ==
    ASSUME NEW f \in RowFeeds, NEW a
    PROVE  Decoded(f, a) = IF Accepted(f, a) THEN Collect(Rows(f, a), RowsTell(f, Rows(f, a)))
                           ELSE Failed
  <1>1. CASE f = "trc20"
    BY <1>1 DEF Decoded, Movements, TRC20Transfers, Page, Accepted, Rows, RowsTell, RowMoves, Sound,
                Tron, Explorer, Transfer
  <1>2. CASE f = "native"
    BY <1>2 DEF Decoded, Movements, NativeTransactions, Page, Accepted, Rows, RowsTell, RowMoves, Sound,
                Tron, Explorer, Transfer
  <1>3. CASE f = "traces"
    BY <1>3 DEF Decoded, Movements, InternalTransactions, Page, Accepted, Rows, RowsTell, RowMoves, Sound,
                Tron, Explorer, Transfer
  <1>4. CASE f \in Transfer
    <2>1. Decoded(f, a) = Alchemy(a)
      BY <1>4 DEF Decoded, Movements, Transfer
    <2>2. /\ Accepted(f, a) = RpcRows(a) /\ Rows(f, a) = a.result
          /\ \A x : Sound(f, x) = AlchemyTransfer(x) /\ RowMoves(f, x) = AlchemyMoves(x)
      BY <1>4 DEF Accepted, Rows, Sound, RowMoves, Tron, Explorer, Transfer
    <2> QED  BY <2>1, <2>2 DEF Alchemy, Page, RowsTell
  <1>5. CASE f = "tx"
    BY <1>5 DEF Decoded, Movements, TxList, Page, Accepted, Rows, RowsTell, RowMoves, Sound,
                Tron, Explorer, Transfer
  <1>6. CASE f = "token"
    BY <1>6 DEF Decoded, Movements, TokenTxList, Page, Accepted, Rows, RowsTell, RowMoves, Sound,
                Tron, Explorer, Transfer
  <1>7. CASE f = "internal"
    BY <1>7 DEF Decoded, Movements, InternalTxList, Page, Accepted, Rows, RowsTell, RowMoves, Sound,
                Tron, Explorer, Transfer
  <1>8. CASE f = "helius"
    BY <1>8 DEF Decoded, Movements, Helius, Page, Accepted, Rows, RowsTell, RowMoves, Sound,
                Tron, Explorer, Transfer
  <1> QED  BY <1>1, <1>2, <1>3, <1>4, <1>5, <1>6, <1>7, <1>8, RowFeedsAre DEF Transfer

\* What a sound row of any feed tells rests on it.
LEMMA RowTells ==
    ASSUME NEW f \in RowFeeds, NEW x, Sound(f, x), Numeric(f, x)
    PROVE  Telling(f, x, RowMoves(f, x))
  <1>1. CASE f \in Transfer
    <2>1. RowMoves(f, x) = AlchemyMoves(x)
      BY <1>1 DEF RowMoves, Transfer
    <2> QED  BY <1>1, <2>1, AlchemyTells
  <1>2. CASE f \notin Transfer
    BY <1>2, RowFeedsAre, TRC20Tells, NativeTells, TracesTell, TxTells, TokenTells, InternalTells,
       HeliusTells DEF RowMoves, Transfer
  <1> QED  BY <1>1, <1>2

\* What a feed came to, and what it rests on.
Tells(f, g) ==
    /\ g.ok \in BOOLEAN /\ Array(g.moves)
    /\ g.moves # <<>> => g.ok
    /\ g.ok => Rows(f, g.raw) = <<>> \/ \E r \in ToSet(Rows(f, g.raw)) : Sound(f, r)
    /\ \A m \in ToSet(g.moves) :
         /\ IsMove(m) /\ m.time \in Int /\ Tagged(f, m)
         /\ \E x \in ToSet(Rows(f, g.raw)) : Evidence(f, x, m)
    /\ g.moves = <<>> \/ \E a \in Answers(f) : g.moves = Movements(f, a).moves
    /\ f \in Transfer /\ g.moves # <<>> => \E m \in ToSet(g.moves) : Touches(m)

\* An array is empty when it has no elements.
LEMMA NotEmpty ==
    ASSUME NEW s, Array(s)
    PROVE  s = <<>> <=> ToSet(s) = {}
  <1>1. /\ Len(s) \in Nat /\ DOMAIN s = 1 .. Len(s) /\ (s = <<>> <=> Len(s) = 0)
        /\ \A i \in DOMAIN s : s[i] \in ToSet(s)
    BY ArrayFits
  <1>2. Len(s) # 0 => s[1] \in ToSet(s)
    BY <1>1
  <1> QED  BY <1>1, <1>2, Single

\* A feed that failed tells nothing.
LEMMA FailedTells ==
    ASSUME NEW f, NEW a
    PROVE  Tells(f, [raw |-> a, ok |-> FALSE, moves |-> <<>>])
  BY Single DEF Tells

\* What a feed came to rests on its rows, whatever its source answered.
LEMMA FeedTells ==
    ASSUME NEW f \in RowFeeds, NEW a \in Answers(f) \cup {Bad}
    PROVE  Tells(f, [raw |-> a, ok |-> Decoded(f, a).ok, moves |-> Decoded(f, a).moves])
  <1> DEFINE rows == Rows(f, a)
             told == RowsTell(f, rows)
             fd == Collect(rows, told)
  <1>1. CASE ~Accepted(f, a)
    <2>1. Decoded(f, a).ok = FALSE /\ Decoded(f, a).moves = <<>>
      BY <1>1, DecodedRows DEF Failed
    <2> QED  BY <2>1, FailedTells
  <1>2. CASE Accepted(f, a)
    <2>1. a \in Answers(f)
      BY <1>2 DEF Accepted, TronRows, ExplorerRows, RpcRows
    <2>2. Array(rows) /\ \A r \in ToSet(rows) : Sound(f, r) => Numeric(f, r)
      BY <1>2, <2>1, WellFormedRows DEF RowFeeds
    <2>3. Decoded(f, a) = fd
      BY <1>2, DecodedRows
    <2>11. Decoded(f, a) = Movements(f, a)
      BY DEF Decoded, RowFeeds
    <2>4. DOMAIN told = {j \in DOMAIN rows : Sound(f, rows[j])}
      BY DEF RowsTell
    <2>5. ASSUME NEW i \in DOMAIN told
          PROVE  /\ rows[i] \in ToSet(rows) /\ Sound(f, rows[i])
                 /\ told[i] = RowMoves(f, rows[i])
                 /\ Telling(f, rows[i], told[i])
      <3>1. i \in DOMAIN rows /\ Sound(f, rows[i]) /\ told[i] = RowMoves(f, rows[i])
        BY DEF RowsTell
      <3>2. rows[i] \in ToSet(rows)
        BY <3>1 DEF ToSet
      <3> HIDE DEF told, rows
      <3> QED  BY <2>2, <3>1, <3>2, RowTells
    <2> HIDE DEF told, rows
    <2>6. Family(told)
      <3>1. IsFiniteSet(DOMAIN rows) /\ DOMAIN rows \subseteq Int
        BY <2>2, ArrayFits
      <3>2. DOMAIN told \subseteq DOMAIN rows
        BY <2>4
      <3>3. IsFiniteSet(DOMAIN told)
        BY <3>1, <3>2, FS_Subset
      <3> QED  BY <2>5, <3>1, <3>2, <3>3 DEF Family, Telling
    <2>7. /\ fd.ok \in BOOLEAN /\ Array(fd.moves)
          /\ fd.moves # <<>> => fd.ok
          /\ fd.ok => DOMAIN rows = {} \/ DOMAIN told # {}
          /\ \A m \in ToSet(fd.moves) : \E i \in DOMAIN told : m \in ToSet(told[i])
          /\ \A i \in DOMAIN told : ToSet(told[i]) \subseteq ToSet(fd.moves)
      BY <2>6, CollectFits
    <2> HIDE DEF fd
    <2>8. fd.ok => rows = <<>> \/ \E r \in ToSet(rows) : Sound(f, r)
      <3>1. DOMAIN rows = {} => rows = <<>>
        BY <2>2, ArrayFits
      <3> QED  BY <2>5, <2>7, <3>1
    <2>9. ASSUME NEW m \in ToSet(fd.moves)
          PROVE  IsMove(m) /\ m.time \in Int /\ Tagged(f, m) /\ \E x \in ToSet(rows) : Evidence(f, x, m)
      <3>1. PICK i \in DOMAIN told : m \in ToSet(told[i])
        BY <2>7
      <3> QED  BY <2>5, <3>1 DEF Telling
    <2>10. ASSUME f \in Transfer, fd.moves # <<>>
           PROVE  \E m \in ToSet(fd.moves) : Touches(m)
      <3>1. /\ Rows(f, a) = a.result /\ RpcRows(a)
            /\ \A x : Sound(f, x) <=> AlchemyTransfer(x)
        BY <1>2, <2>10 DEF Rows, Accepted, Sound, Tron, Explorer, Transfer
      <3>2. \E r \in ToSet(rows) : Sound(f, r)
        <4>1. ToSet(fd.moves) # {}
          BY <2>7, <2>10, NotEmpty
        <4> QED  BY <2>5, <2>7, <4>1
      <3>3. PICK r \in ToSet(a.result) : AlchemyTransfer(r) /\ r[f] = Wallet
        BY <2>1, <2>10, <3>1, <3>2, OwnTransfers DEF rows
      <3>4. r \in ToSet(rows) /\ Sound(f, r) /\ (r.from = Wallet \/ r.to = Wallet)
        BY <2>10, <3>1, <3>3 DEF rows, Transfer
      <3>5. PICK j \in DOMAIN rows : rows[j] = r
        BY <3>4 DEF ToSet
      <3>6. j \in DOMAIN told
        BY <2>4, <3>4, <3>5
      <3>7. told[j] = AlchemyMoves(r)
        BY <2>5, <2>10, <3>5, <3>6 DEF RowMoves, Transfer
      <3>8. PICK m \in ToSet(AlchemyMoves(r)) : m.from = r.from /\ m.to = r.to
        BY <2>2, <2>10, <3>4, AlchemyTells
      <3>9. Touches(m)
        BY <3>4, <3>8 DEF Touches
      <3> QED  BY <2>7, <3>6, <3>7, <3>8, <3>9
    <2> QED  BY <2>1, <2>3, <2>7, <2>8, <2>9, <2>10, <2>11 DEF Tells, rows
  <1> QED  BY <1>1, <1>2

-----------------------------------------------------------------------------
(* What a page shows.                                                       *)

\* A record, or another form of the movement, says what the movement says.
Kin(r, m) == r.hash = m.hash /\ r.status = m.status /\ r.time = m.time

Shown(t, s) == \A r \in ToSet(t) : \E m \in ToSet(s) : Kin(r, m)

Datable(s) == \A m \in ToSet(s) : IsMove(m) /\ m.time \in Int

\* Records made one by one of movements are kin to them.
LEMMA MapFits ==
    ASSUME NEW s, Array(s), NEW t, t = [i \in DOMAIN s |-> t[i]],
           \A i \in DOMAIN s : Kin(t[i], s[i])
    PROVE  Array(t) /\ Shown(t, s) /\ (t = <<>> <=> s = <<>>)
  <1>1. DOMAIN t = DOMAIN s
    OBVIOUS
  <1>2. DOMAIN s = 1 .. Len(s) /\ Len(s) \in Nat /\ (s = <<>> <=> Len(s) = 0)
        /\ \A i \in DOMAIN s : s[i] \in ToSet(s)
    BY ArrayFits
  <1>3. t \in [1 .. Len(s) -> ToSet(t)]
    BY <1>1, <1>2 DEF ToSet
  <1>4. Array(t) /\ Len(t) = Len(s)
    BY <1>2, <1>3, MakesArray
  <1>5. t = <<>> <=> Len(t) = 0
    BY <1>4, ArrayFits
  <1>6. Shown(t, s)
    BY <1>1, <1>2 DEF Shown, ToSet
  <1> QED  BY <1>2, <1>4, <1>5, <1>6

\* A record is kin to the movement it shows.
LEMMA ShowKin ==
    ASSUME NEW m, NEW id
    PROVE  Kin(Show(m, id), m)
  BY DEF Kin, Show, Entry

\* The wallet's movements are those of the feed that touch it.
LEMMA MineFits ==
    ASSUME NEW s, Array(s)
    PROVE  /\ Array(Mine(s)) /\ ToSet(Mine(s)) = {m \in ToSet(s) : Touches(m)}
           /\ ToSet(Mine(s)) \subseteq ToSet(s)
           /\ Mine(s) = <<>> => \A m \in ToSet(s) : ~Touches(m)
  <1> DEFINE P == {i \in DOMAIN s : Touches(s[i])}
  <1>1. Mine(s) = Keep(s, P)
    BY DEF Mine
  <1>2. P \in SUBSET DOMAIN s
    OBVIOUS
  <1>3. {s[i] : i \in P} = {m \in ToSet(s) : Touches(m)}
    BY DEF ToSet
  <1> HIDE DEF P
  <1>4. Array(Keep(s, P)) /\ ToSet(Keep(s, P)) = {s[i] : i \in P}
    BY <1>2, KeepsElements
  <1>5. Array(Mine(s)) /\ ToSet(Mine(s)) = {m \in ToSet(s) : Touches(m)}
    BY <1>1, <1>3, <1>4
  <1>6. Mine(s) = <<>> => ToSet(Mine(s)) = {}
    BY <1>5, NotEmpty
  <1> QED  BY <1>5, <1>6

\* The page cut from records that are kin to movements.
LEMMA ShownPage ==
    ASSUME NEW t, Array(t), NEW M, \A r \in ToSet(t) : \E m \in M : Kin(r, m),
           \A m \in M : m.time \in Int, NEW l \in Nat \ {0}
    PROVE  /\ Shaped(Cut(Newest(t), l), l)
           /\ \A r \in ToSet(Cut(Newest(t), l)) : \E m \in M : Kin(r, m)
           /\ Cut(Newest(t), l) = <<>> => t = <<>>
  <1>1. Timed(t)
    <2> SUFFICES ASSUME NEW i \in DOMAIN t PROVE t[i].time \in Int
      BY DEF Timed
    <2>1. PICK m \in M : Kin(t[i], m)
      BY ArrayFits
    <2> QED  BY <2>1 DEF Kin
  <1>2. /\ Shaped(Cut(Newest(t), l), l)
        /\ ToSet(Cut(Newest(t), l)) \subseteq ToSet(t)
        /\ Cut(Newest(t), l) = <<>> => t = <<>>
    BY <1>1, PageFits
  <1> QED  BY <1>2

\* A page of Alchemy's transfers has its shape and is empty only for want of any.
LEMMA AlchemyPageFits ==
    ASSUME NEW moves, Array(moves), Datable(moves), NEW l \in Nat \ {0}
    PROVE  /\ Shaped(AlchemyPage(moves, l), l)
           /\ Shown(AlchemyPage(moves, l), moves)
           /\ AlchemyPage(moves, l) = <<>> => \A m \in ToSet(moves) : ~Touches(m)
  <1> DEFINE s == Mine(moves)
             t == [i \in DOMAIN s |-> Show(s[i], s[i].tag)]
  <1>1. /\ Array(s) /\ ToSet(s) \subseteq ToSet(moves)
        /\ s = <<>> => \A m \in ToSet(moves) : ~Touches(m)
    BY MineFits
  <1>2. AlchemyPage(moves, l) = Cut(Newest(t), l)
    BY DEF AlchemyPage
  <1> HIDE DEF s
  <1>3. \A i \in DOMAIN s : Kin(t[i], s[i])
    BY ShowKin
  <1>4. t = [i \in DOMAIN s |-> t[i]]
    OBVIOUS
  <1> HIDE DEF t
  <1>5. Array(t) /\ Shown(t, s) /\ (t = <<>> <=> s = <<>>)
    BY <1>1, <1>3, <1>4, MapFits
  <1>6. \A r \in ToSet(t) : \E m \in ToSet(moves) : Kin(r, m)
    BY <1>1, <1>5 DEF Shown
  <1>7. /\ Shaped(Cut(Newest(t), l), l)
        /\ \A r \in ToSet(Cut(Newest(t), l)) : \E m \in ToSet(moves) : Kin(r, m)
        /\ Cut(Newest(t), l) = <<>> => t = <<>>
    BY <1>5, <1>6, ShownPage DEF Datable
  <1> QED  BY <1>1, <1>2, <1>5, <1>7 DEF Shown

\* A page of TRON has its shape, and shows only what its feeds told.
LEMMA TronPageFits ==
    ASSUME NEW a, NEW b, NEW c, Array(a), Array(b), Array(c),
           Datable(a), Datable(b), Datable(c), NEW l \in Nat \ {0}
    PROVE  /\ Shaped(TronPage(a, b, c, l), l)
           /\ \A r \in ToSet(TronPage(a, b, c, l)) :
                \E m \in ToSet(a) \cup ToSet(b) \cup ToSet(c) : Kin(r, m)
  <1> DEFINE s == Mine(a) \o Mine(b) \o Mine(c)
             t == [i \in DOMAIN s |-> TronShow(s[i])]
             M == ToSet(a) \cup ToSet(b) \cup ToSet(c)
  <1>1. Array(s) /\ ToSet(s) \subseteq M
    <2>1. /\ Array(Mine(a)) /\ ToSet(Mine(a)) \subseteq ToSet(a)
          /\ Array(Mine(b)) /\ ToSet(Mine(b)) \subseteq ToSet(b)
          /\ Array(Mine(c)) /\ ToSet(Mine(c)) \subseteq ToSet(c)
      BY MineFits
    <2>2. /\ Array(Mine(a) \o Mine(b))
          /\ ToSet(Mine(a) \o Mine(b)) = ToSet(Mine(a)) \cup ToSet(Mine(b))
      BY <2>1, ConcatFits
    <2>3. Array(s) /\ ToSet(s) = ToSet(Mine(a) \o Mine(b)) \cup ToSet(Mine(c))
      BY <2>1, <2>2, ConcatFits
    <2> HIDE DEF s
    <2> QED  BY <2>1, <2>2, <2>3
  <1>2. TronPage(a, b, c, l) = Cut(Newest(t), l)
    BY DEF TronPage
  <1> HIDE DEF s
  <1>3. \A i \in DOMAIN s : Kin(t[i], s[i])
    <2> SUFFICES ASSUME NEW i \in DOMAIN s PROVE Kin(TronShow(s[i]), s[i])
      OBVIOUS
    <2> QED  BY DEF TronShow, Show, Entry, Kin
  <1>4. t = [i \in DOMAIN s |-> t[i]]
    OBVIOUS
  <1> HIDE DEF t
  <1>5. Array(t) /\ Shown(t, s)
    BY <1>1, <1>3, <1>4, MapFits
  <1>6. \A m \in M : m.time \in Int
    BY DEF Datable
  <1>7. \A r \in ToSet(t) : \E m \in M : Kin(r, m)
    BY <1>1, <1>5 DEF Shown
  <1> HIDE DEF M
  <1>8. /\ Shaped(Cut(Newest(t), l), l)
        /\ \A r \in ToSet(Cut(Newest(t), l)) : \E m \in M : Kin(r, m)
    BY <1>5, <1>6, <1>7, ShownPage
  <1> QED  BY <1>2, <1>8 DEF M

\* A page of the explorers has its shape, and shows only what its feeds told.
LEMMA EvmPageFits ==
    ASSUME NEW a, NEW b, NEW c, Array(a), Array(b), Array(c),
           Datable(a), Datable(b), Datable(c), NEW l \in Nat \ {0}
    PROVE  /\ Shaped(EvmPage(a, b, c, l), l)
           /\ \A r \in ToSet(EvmPage(a, b, c, l)) :
                \E m \in ToSet(a) \cup ToSet(b) \cup ToSet(c) : Kin(r, m)
  <1> DEFINE n == Numbered(b)
             e == Mine(n)
             g == Traces(a, c)
             k == Keep(a, {i \in DOMAIN a : a[i].value # 0 /\ Touches(a[i])})
             te == [i \in DOMAIN e |-> Show(e[i], <<e[i].hash, e[i].tag>>)]
             tg == [i \in DOMAIN g |-> Show(g[i], <<g[i].hash, "internal", g[i].tag>>)]
             tk == [i \in DOMAIN k |-> Show(k[i], <<k[i].hash>>)]
             t == te \o tg \o tk
             M == ToSet(a) \cup ToSet(b) \cup ToSet(c)
  <1>1. EvmPage(a, b, c, l) = Cut(Newest(t), l)
    BY DEF EvmPage
  <1>2. Array(e) /\ Shown(e, b)
    <2>1. n = [i \in DOMAIN b |-> n[i]]
      BY DEF Numbered
    <2>2. \A i \in DOMAIN b : Kin(n[i], b[i])
      <3> SUFFICES ASSUME NEW i \in DOMAIN b PROVE Kin(n[i], b[i])
        OBVIOUS
      <3>1. b[i] = Move(b[i].hash, b[i].from, b[i].to, b[i].value, b[i].time, b[i].status,
                        b[i].asset, b[i].tag)
        BY ArrayFits DEF Datable, IsMove
      <3> QED  BY <3>1 DEF Numbered, Kin, Move
    <2> HIDE DEF n
    <2>3. Array(n) /\ Shown(n, b)
      BY <2>1, <2>2, MapFits
    <2>4. Array(e) /\ ToSet(e) \subseteq ToSet(n)
      BY <2>3, MineFits
    <2> HIDE DEF e
    <2> QED  BY <2>3, <2>4 DEF Shown
  <1>3. Array(g) /\ ToSet(g) \subseteq ToSet(c)
    <2> DEFINE P == {i \in DOMAIN c :
                       /\ c[i].value # 0 /\ Touches(c[i])
                       /\ \A x \in ToSet(Mine(a)) : MovementKey(x) # MovementKey(c[i])}
    <2>1. g = Keep(c, P) /\ P \in SUBSET DOMAIN c
      BY DEF Traces
    <2> HIDE DEF P, g
    <2>2. Array(Keep(c, P)) /\ ToSet(Keep(c, P)) = {c[i] : i \in P}
      BY <2>1, KeepsElements
    <2> QED  BY <2>1, <2>2 DEF ToSet
  <1>4. Array(k) /\ ToSet(k) \subseteq ToSet(a)
    <2> DEFINE P == {i \in DOMAIN a : a[i].value # 0 /\ Touches(a[i])}
    <2>1. k = Keep(a, P) /\ P \in SUBSET DOMAIN a
      OBVIOUS
    <2> HIDE DEF P, k
    <2>2. Array(Keep(a, P)) /\ ToSet(Keep(a, P)) = {a[i] : i \in P}
      BY <2>1, KeepsElements
    <2> QED  BY <2>1, <2>2 DEF ToSet
  <1> HIDE DEF n, e, g, k
  <1>5. Array(te) /\ Shown(te, e)
    <2>1. te = [i \in DOMAIN e |-> te[i]] /\ \A i \in DOMAIN e : Kin(te[i], e[i])
      BY ShowKin
    <2> HIDE DEF te
    <2> QED  BY <1>2, <2>1, MapFits
  <1>6. Array(tg) /\ Shown(tg, g)
    <2>1. tg = [i \in DOMAIN g |-> tg[i]] /\ \A i \in DOMAIN g : Kin(tg[i], g[i])
      BY ShowKin
    <2> HIDE DEF tg
    <2> QED  BY <1>3, <2>1, MapFits
  <1>7. Array(tk) /\ Shown(tk, k)
    <2>1. tk = [i \in DOMAIN k |-> tk[i]] /\ \A i \in DOMAIN k : Kin(tk[i], k[i])
      BY ShowKin
    <2> HIDE DEF tk
    <2> QED  BY <1>4, <2>1, MapFits
  <1> HIDE DEF te, tg, tk
  <1>8. Array(t) /\ ToSet(t) = ToSet(te) \cup ToSet(tg) \cup ToSet(tk)
    <2>1. Array(te \o tg) /\ ToSet(te \o tg) = ToSet(te) \cup ToSet(tg)
      BY <1>5, <1>6, ConcatFits
    <2>2. Array(t) /\ ToSet(t) = ToSet(te \o tg) \cup ToSet(tk)
      BY <1>7, <2>1, ConcatFits
    <2> HIDE DEF t
    <2> QED  BY <2>1, <2>2
  <1> HIDE DEF t
  <1>9. \A m \in M : m.time \in Int
    BY DEF Datable
  <1>10. \A r \in ToSet(t) : \E m \in M : Kin(r, m)
    <2>1. \A r \in ToSet(te) : \E m \in ToSet(b) : Kin(r, m)
      <3> SUFFICES ASSUME NEW r \in ToSet(te) PROVE \E m \in ToSet(b) : Kin(r, m)
        OBVIOUS
      <3>1. PICK x \in ToSet(e) : Kin(r, x)
        BY <1>5 DEF Shown
      <3>2. PICK m \in ToSet(b) : Kin(x, m)
        BY <1>2, <3>1 DEF Shown
      <3> QED  BY <3>1, <3>2 DEF Kin
    <2>2. \A r \in ToSet(tg) : \E m \in ToSet(c) : Kin(r, m)
      BY <1>3, <1>6 DEF Shown
    <2>3. \A r \in ToSet(tk) : \E m \in ToSet(a) : Kin(r, m)
      BY <1>4, <1>7 DEF Shown
    <2> QED  BY <1>8, <2>1, <2>2, <2>3
  <1> HIDE DEF M
  <1>11. /\ Shaped(Cut(Newest(t), l), l)
         /\ \A r \in ToSet(Cut(Newest(t), l)) : \E m \in M : Kin(r, m)
    BY <1>8, <1>9, <1>10, ShownPage
  <1> QED  BY <1>1, <1>11 DEF M

\* Helius' page is cut as it comes.
LEMMA HeliusPageFits ==
    ASSUME NEW s, Array(s), NEW l \in Nat
    PROVE  Shown(HeliusPage(s, l), s)
  <1> DEFINE a == Mine(s)
             k == Min({l, Len(a)})
             R(m) == [Show(m, <<m.hash, m.tag>>) EXCEPT
                        !.scale = IF m.asset = WrappedSol THEN "chain" ELSE @,
                        !.verified = @ \/ m.asset = WrappedSol,
                        !.asset = IF @ = WrappedSol THEN Coin ELSE @]
  <1>1. HeliusPage(s, l) = [i \in 1 .. k |-> R(a[i])]
    BY DEF HeliusPage
  <1>2. \A m : Kin(R(m), m)
    BY DEF Kin, Show, Entry
  <1>3. Array(a) /\ ToSet(a) \subseteq ToSet(s)
    BY MineFits
  <1> HIDE DEF R, a
  <1>4. Len(a) \in Nat /\ DOMAIN a = 1 .. Len(a) /\ \A i \in DOMAIN a : a[i] \in ToSet(a)
    BY <1>3, ArrayFits
  <1>5. k \in Int /\ k <= Len(a)
    <2> DEFINE n == Len(a)
    <2>1. n \in Nat /\ k = Min({l, n})
      BY <1>4
    <2> HIDE DEF n, k
    <2>2. Min({l, n}) \in {l, n} /\ Min({l, n}) <= n
      BY <2>1, MinOfTwo
    <2> QED  BY <2>1, <2>2 DEF n
  <1> HIDE DEF k
  <1>6. \A i \in 1 .. k : a[i] \in ToSet(s)
    BY <1>3, <1>4, <1>5
  <1> QED  BY <1>1, <1>2, <1>6 DEF Shown, ToSet

-----------------------------------------------------------------------------
(* What a page does not hide.  A claim on the page is a movement with the   *)
(* name that it goes by there: the claim is met by a record of that name,   *)
(* unless the page is full of newer ones.                                   *)

\* A finite set of integers that is not empty has a least one.
LEMMA LeastOf ==
    ASSUME NEW S \in SUBSET Int, IsFiniteSet(S), S # {}
    PROVE  \E p \in S : \A q \in S : p <= q
  <1> DEFINE c == Cardinality(S)
             o == InOrder(S, Ascending(S))
  <1>1. /\ c \in Nat /\ (c = 0 <=> S = {})
        /\ o \in [1 .. c -> S]
        /\ \A i, j \in 1 .. c : i < j => o[i] < o[j]
        /\ \A p \in S : \E n \in 1 .. c : o[n] = p
    BY KeepFits
  <1> HIDE DEF c, o
  <1>2. 1 \in 1 .. c
    <2>1. c \in Nat /\ c # 0
      BY <1>1
    <2> QED  BY <2>1
  <1>3. ASSUME NEW q \in S PROVE o[1] <= q
    <2>1. PICK n \in 1 .. c : o[n] = q
      BY <1>1
    <2>2. o[1] \in Int /\ o[n] \in Int
      BY <1>1, <1>2
    <2>3. n = 1 \/ o[1] < o[n]
      BY <1>1, <1>2
    <2> QED  BY <2>1, <2>2, <2>3
  <1> QED  BY <1>1, <1>2, <1>3

\* What a page leaves out of sorted records is named on it already, or older than it.
LEMMA CutIsWhole ==
    ASSUME NEW s, Array(s), Timed(s), NEW l \in Nat \ {0}, NEW p \in DOMAIN s,
           \A i, j \in DOMAIN s : i < j => s[i].time >= s[j].time
    PROVE  LET P == Cut(s, l)
           IN  \/ \E i \in DOMAIN P : P[i].id = s[p].id
               \/ Len(P) = l /\ \A i \in DOMAIN P : P[i].time >= s[p].time
  <1> DEFINE F == Firsts(s)
             c == Cardinality(F)
             o == InOrder(F, Ascending(F))
             k == Min({l, c})
             P == Cut(s, l)
             S == {j \in DOMAIN s : s[j].id = s[p].id}
  <1>0. /\ IsFiniteSet(DOMAIN s) /\ DOMAIN s = 1 .. Len(s) /\ Len(s) \in Nat
        /\ \A i \in DOMAIN s : s[i] \in ToSet(s)
    BY ArrayFits
  <1>1. F \in SUBSET DOMAIN s /\ F \in SUBSET Int /\ IsFiniteSet(F)
    <2>1. F \in SUBSET DOMAIN s
      BY DEF Firsts
    <2> HIDE DEF F
    <2> QED  BY <1>0, <2>1, FS_Subset
  <1>2. PICK q \in S : \A j \in S : q <= j
    <2>1. S \in SUBSET DOMAIN s /\ S # {}
      OBVIOUS
    <2> HIDE DEF S
    <2>2. S \in SUBSET Int /\ IsFiniteSet(S)
      BY <1>0, <2>1, FS_Subset
    <2> QED  BY <2>1, <2>2, LeastOf
  <1>3. q \in F /\ s[q].id = s[p].id /\ q <= p
    <2>1. q \in DOMAIN s /\ s[q].id = s[p].id /\ q <= p
      BY <1>2
    <2>2. ASSUME NEW j \in 1 .. (q - 1) PROVE s[j].id # s[q].id
      <3>1. j \in DOMAIN s /\ ~(q <= j)
        BY <1>0, <2>1
      <3> QED  BY <1>2, <2>1, <3>1
    <2> QED  BY <2>1, <2>2 DEF Firsts
  <1>4. Keep(s, F) = [n \in 1 .. c |-> s[o[n]]]
    BY DEF Keep
  <1>5. P = [n \in 1 .. k |-> Keep(s, F)[n]]
    BY DEF Cut
  <1>6. /\ c \in Nat
        /\ o \in [1 .. c -> F]
        /\ \A i, j \in 1 .. c : i < j => o[i] < o[j]
        /\ \A x \in F : \E n \in 1 .. c : o[n] = x
    <2> HIDE DEF F
    <2> QED  BY <1>1, KeepFits
  <1> HIDE DEF F, c, o, S
  <1>7. k \in {l, c} /\ k <= c
    <2>1. c \in Int /\ l \in Int
      BY <1>6
    <2> QED  BY <2>1, MinOfTwo
  <1> HIDE DEF k
  <1>8. \A n \in 1 .. k : n \in 1 .. c /\ P[n] = s[o[n]] /\ o[n] \in F /\ o[n] \in DOMAIN s
    BY <1>1, <1>4, <1>5, <1>6, <1>7
  <1>9. P \in [1 .. k -> ToSet(s)] /\ k \in Nat
    BY <1>0, <1>5, <1>6, <1>7, <1>8
  <1>10. Len(P) = k /\ DOMAIN P = 1 .. k
    <2> HIDE DEF P
    <2> QED  BY <1>9, MakesArray
  <1>11. PICK n \in 1 .. c : o[n] = q
    BY <1>3, <1>6
  <1> HIDE DEF P
  <1>12. CASE n <= k
    <2>1. n \in 1 .. k
      BY <1>12
    <2> QED  BY <1>3, <1>8, <1>10, <1>11, <2>1 DEF P
  <1>13. CASE ~(n <= k)
    <2>1. k = l
      BY <1>6, <1>7, <1>13
    <2>2. ASSUME NEW i \in 1 .. k PROVE P[i].time >= s[p].time
      <3>1. i \in 1 .. c /\ i < n
        BY <1>6, <1>8, <1>9, <1>13
      <3>2. o[i] < q /\ o[i] \in DOMAIN s
        BY <1>6, <1>8, <1>11, <3>1
      <3>3. o[i] < p
        BY <1>0, <1>1, <1>3, <3>2
      <3> QED  BY <1>8, <3>2, <3>3
    <2> QED  BY <1>10, <2>1, <2>2 DEF P
  <1> QED  BY <1>12, <1>13

\* What a page leaves out of any dated records is named on it already, or older than it.
LEMMA PageIsWhole ==
    ASSUME NEW t, Array(t), Timed(t), NEW l \in Nat \ {0}, NEW r \in ToSet(t)
    PROVE  LET P == Cut(Newest(t), l)
           IN  \/ \E i \in DOMAIN P : P[i].id = r.id
               \/ Len(P) = l /\ \A i \in DOMAIN P : P[i].time >= r.time
  <1>1. /\ Array(Newest(t)) /\ ToSet(Newest(t)) = ToSet(t) /\ Timed(Newest(t))
        /\ \A i, j \in DOMAIN Newest(t) : i < j => Newest(t)[i].time >= Newest(t)[j].time
    BY NewestFits
  <1>2. PICK p \in DOMAIN Newest(t) : Newest(t)[p] = r
    BY <1>1, ArrayFits
  <1> QED  BY <1>1, <1>2, CutIsWhole

Claims(f, S) == {[name |-> Name(f, m), move |-> m] : m \in S}

\* A record tells of a claim.
Tale(r, c) == r.id = c.name /\ r.time = c.move.time /\ Shows(r, c.move)

Full(P, l, time) == Len(P) = l /\ \A i \in DOMAIN P : P[i].time >= time

Met(P, l, c) ==
    (\E i \in DOMAIN P : P[i].id = c.name /\ Shows(P[i], c.move)) \/ Full(P, l, c.move.time)

\* Where on a page a movement is to be seen.
Sightings(P, m) == {i \in DOMAIN P : Shows(P[i], m)}

\* A record that shows a movement shows every movement like it.
LEMMA AlikeIsShown ==
    ASSUME NEW r, NEW x, NEW y, Alike(x, y)
    PROVE  Shows(r, x) <=> Shows(r, y)
  BY DEF Alike, Shows

\* Records that tell of all claims, and of nothing else, leave no claim unmet when a
\* page is cut from them.
LEMMA ClaimsAreMet ==
    ASSUME NEW t, Array(t), NEW l \in Nat \ {0}, NEW C,
           \A r \in ToSet(t) : \E c \in C : Tale(r, c),
           \A c \in C : \E r \in ToSet(t) : Tale(r, c),
           \A c \in C : c.move.time \in Int,
           \A c, d \in C : c.name = d.name => Alike(c.move, d.move)
    PROVE  \A c \in C : Met(Cut(Newest(t), l), l, c)
  <1> SUFFICES ASSUME NEW c \in C PROVE Met(Cut(Newest(t), l), l, c)
    OBVIOUS
  <1> DEFINE P == Cut(Newest(t), l)
  <1>1. Timed(t)
    <2> SUFFICES ASSUME NEW i \in DOMAIN t PROVE t[i].time \in Int
      BY DEF Timed
    <2>1. PICK d \in C : Tale(t[i], d)
      BY ArrayFits
    <2> QED  BY <2>1 DEF Tale
  <1>2. PICK r \in ToSet(t) : Tale(r, c)
    OBVIOUS
  <1>3. \/ \E i \in DOMAIN P : P[i].id = r.id
        \/ Len(P) = l /\ \A i \in DOMAIN P : P[i].time >= r.time
    BY <1>1, PageIsWhole
  <1>4. ToSet(P) \subseteq ToSet(t) /\ \A i \in DOMAIN P : P[i] \in ToSet(P)
    <2>1. Array(P) /\ ToSet(P) \subseteq ToSet(t)
      BY <1>1, PageFits DEF Shaped
    <2> HIDE DEF P
    <2> QED  BY <2>1, ArrayFits
  <1> HIDE DEF P
  <1>5. CASE \E i \in DOMAIN P : P[i].id = r.id
    <2>1. PICK i \in DOMAIN P : P[i].id = r.id
      BY <1>5
    <2>2. PICK d \in C : Tale(P[i], d)
      BY <1>4
    <2>3. Alike(c.move, d.move)
      BY <1>2, <2>1, <2>2 DEF Tale
    <2>4. P[i].id = c.name /\ Shows(P[i], c.move)
      BY <1>2, <2>1, <2>2, <2>3, AlikeIsShown DEF Tale
    <2> QED  BY <2>4 DEF Met, P
  <1>6. CASE Len(P) = l /\ \A i \in DOMAIN P : P[i].time >= r.time
    BY <1>2, <1>6 DEF Met, Full, Tale, P
  <1> QED  BY <1>3, <1>5, <1>6

\* An array has finitely many elements.
LEMMA SetIsFinite ==
    ASSUME NEW s, Array(s)
    PROVE  IsFiniteSet(ToSet(s))
  <1> DEFINE g == [i \in DOMAIN s |-> s[i]]
  <1>1. g \in Surjection(DOMAIN s, ToSet(s))
    BY DEF Surjection, ToSet
  <1>2. IsFiniteSet(DOMAIN s)
    BY ArrayFits
  <1> HIDE DEF g
  <1> QED  BY <1>1, <1>2, FS_Surjection

\* Movements that differ in their tag alone, each with a name of its own, are
\* on the page as often as there are of them.
LEMMA TwinsAreShown ==
    ASSUME NEW P, Array(P), NEW l, NEW f, NEW m, IsMove(m), NEW T, IsFiniteSet(T),
           \A t \in T : IsMove(t) /\ [t EXCEPT !.tag = m.tag] = m,
           \A t, u \in T : Name(f, t) = Name(f, u) => t.tag = u.tag,
           \A t \in T : Met(P, l, [name |-> Name(f, t), move |-> t])
    PROVE  Full(P, l, m.time) \/ Cardinality(Sightings(P, m)) >= Cardinality(T)
  <1> SUFFICES ASSUME ~Full(P, l, m.time)
               PROVE  Cardinality(Sightings(P, m)) >= Cardinality(T)
    OBVIOUS
  <1> DEFINE B == Sightings(P, m)
             g == [t \in T |-> CHOOSE i \in DOMAIN P : P[i].id = Name(f, t) /\ Shows(P[i], t)]
  <1>1. ASSUME NEW t \in T
        PROVE  /\ t = Move(m.hash, m.from, m.to, m.value, m.time, m.status, m.asset, t.tag)
               /\ Alike(t, m) /\ t.time = m.time
    <2>1. /\ t = Move(t.hash, t.from, t.to, t.value, t.time, t.status, t.asset, t.tag)
          /\ [t EXCEPT !.tag = m.tag] = m
      BY DEF IsMove
    <2>2. m = Move(t.hash, t.from, t.to, t.value, t.time, t.status, t.asset, m.tag)
      BY <2>1 DEF Move
    <2> QED  BY <2>1, <2>2 DEF Move, Alike
  <1>2. ASSUME NEW t \in T
        PROVE  g[t] \in B /\ P[g[t]].id = Name(f, t)
    <2>1. ~Full(P, l, t.time)
      BY <1>1
    <2>2. \E i \in DOMAIN P : P[i].id = Name(f, t) /\ Shows(P[i], t)
      BY <2>1 DEF Met
    <2>3. g[t] \in DOMAIN P /\ P[g[t]].id = Name(f, t) /\ Shows(P[g[t]], t)
      BY <2>2
    <2> HIDE DEF g
    <2> QED  BY <1>1, <2>3, AlikeIsShown DEF Sightings
  <1>3. g \in Injection(T, B)
    <2>1. g \in [T -> B]
      <3> HIDE DEF B
      <3> QED  BY <1>2
    <2>2. ASSUME NEW t \in T, NEW u \in T, g[t] = g[u] PROVE t = u
      <3>1. Name(f, t) = Name(f, u)
        <4> HIDE DEF g
        <4> QED  BY <1>2, <2>2
      <3> QED  BY <1>1, <3>1
    <2> HIDE DEF g, B
    <2> QED  BY <2>1, <2>2 DEF Injection, IsInjective
  <1>4. IsFiniteSet(B)
    <2>1. IsFiniteSet(DOMAIN P) /\ B \subseteq DOMAIN P
      BY ArrayFits DEF Sightings
    <2> HIDE DEF B
    <2> QED  BY <2>1, FS_Subset
  <1>5. Cardinality(T) <= Cardinality(B)
    <2> HIDE DEF g, B
    <2> QED  BY <1>3, <1>4, FS_Injection
  <1>6. Cardinality(T) \in Nat /\ Cardinality(B) \in Nat
    <2> HIDE DEF B
    <2> QED  BY <1>4, FS_CardinalityType
  <1> HIDE DEF B
  <1> QED  BY <1>5, <1>6 DEF B

\* What is seen somewhere on a page is seen there at least once.
LEMMA ShownOnce ==
    ASSUME NEW P, Array(P), NEW m, \E i \in DOMAIN P : Shows(P[i], m)
    PROVE  Cardinality(Sightings(P, m)) >= 1
  <1> DEFINE B == Sightings(P, m)
  <1>1. B \subseteq DOMAIN P /\ B # {} /\ IsFiniteSet(DOMAIN P)
    BY ArrayFits DEF Sightings
  <1> HIDE DEF B
  <1>2. Cardinality(B) \in Nat /\ Cardinality(B) # 0
    BY <1>1, FS_Subset, FS_CardinalityType, FS_EmptySet
  <1> QED  BY <1>2 DEF B

-----------------------------------------------------------------------------
(* The block times that Alchemy is asked for: as many answers as there are   *)
(* blocks, each for another of them, leave none out.                         *)

\* No block that Alchemy is asked for goes without its time.
LEMMA TimesCover ==
    ASSUME NEW moves, Array(moves), Datable(moves),
           NEW a, Array(a), BlockTimestamps(a, Undated(moves)),
           NEW i \in DOMAIN moves, moves[i].time < 0
    PROVE  \E e \in ToSet(a) : e.id = -moves[i].time
  <1> DEFINE U == {j \in DOMAIN moves : moves[j].time < 0}
             B == Undated(moves)
             g == [j \in U |-> -moves[j].time]
             d == [k \in DOMAIN a |-> a[k].id]
  <1>1. IsFiniteSet(U) /\ U \subseteq DOMAIN moves
    <2>1. IsFiniteSet(DOMAIN moves)
      BY ArrayFits
    <2>2. U \subseteq DOMAIN moves
      OBVIOUS
    <2> HIDE DEF U
    <2> QED  BY <2>1, <2>2, FS_Subset
  <1>2. B = {-moves[j].time : j \in U}
    BY DEF Undated
  <1>3. g \in Surjection(U, B)
    <2> HIDE DEF U, B
    <2> QED  BY <1>2 DEF Surjection
  <1>4. i \in U
    OBVIOUS
  <1>5. /\ Len(a) = Cardinality(B) /\ \A k \in DOMAIN a : a[k].id \in B
        /\ \A j, k \in DOMAIN a : a[j].id = a[k].id => j = k
    BY DEF BlockTimestamps
  <1>6. /\ DOMAIN a = 1 .. Len(a) /\ IsFiniteSet(DOMAIN a) /\ Cardinality(DOMAIN a) = Len(a)
        /\ \A k \in DOMAIN a : a[k] \in ToSet(a)
    BY ArrayFits
  <1>7. -moves[i].time \in B
    BY <1>2, <1>4
  <1> HIDE DEF U, B
  <1>8. IsFiniteSet(B)
    <2> HIDE DEF g
    <2> QED  BY <1>1, <1>3, FS_Surjection
  <1>9. d \in Injection(DOMAIN a, B)
    BY <1>5 DEF Injection, IsInjective
  <1>10. d \in Surjection(DOMAIN a, B)
    <2> HIDE DEF d
    <2> QED  BY <1>5, <1>6, <1>8, <1>9, FS_Injection
  <1>11. PICK k \in DOMAIN a : d[k] = -moves[i].time
    <2> HIDE DEF d
    <2> QED  BY <1>7, <1>10 DEF Surjection
  <1> QED  BY <1>6, <1>11

\* The movement once its block time is known, which comes after any that
\* stood in for it.
Redated(d, m) == d.tag = m.tag /\ d.status = m.status /\ Alike(d, m) /\ d.time >= m.time

\* Dating movements changes their time and nothing else, and loses none.
LEMMA DatedFits ==
    ASSUME NEW moves, Array(moves), Datable(moves),
           NEW a \in Answers("times"), BlockTimestamps(a, Undated(moves))
    PROVE  LET D == Dated(moves, a)
           IN  /\ Array(D) /\ Datable(D) /\ (D = <<>> <=> moves = <<>>)
               /\ \A d \in ToSet(D) : \E m \in ToSet(moves) : Redated(d, m)
               /\ \A m \in ToSet(moves) : \E d \in ToSet(D) : Redated(d, m)
  <1> DEFINE D == Dated(moves, a)
  <1>1. a # Bad
    BY DEF BlockTimestamps
  <1>2. Array(a) /\ \A r \in ToSet(a) : Fits(r, {"id", "timestamp"}, {}) => r.timestamp \in Nat
    BY <1>1, WellFormedTimes
  <1>3. \A e \in ToSet(a) : e.timestamp \in Nat
    <2>1. \A k \in DOMAIN a : Fits(a[k], {"id", "timestamp"}, {})
      BY DEF BlockTimestamps
    <2> QED  BY <1>2, <2>1 DEF ToSet
  <1>4. /\ Len(moves) \in Nat /\ DOMAIN moves = 1 .. Len(moves)
        /\ (moves = <<>> <=> Len(moves) = 0)
        /\ \A i \in DOMAIN moves : moves[i] \in ToSet(moves)
        /\ \A m \in ToSet(moves) : \E i \in DOMAIN moves : moves[i] = m
    BY ArrayFits
  <1>5. ASSUME NEW i \in DOMAIN moves
        PROVE  /\ IsMove(D[i]) /\ D[i].time \in Int
               /\ Redated(D[i], moves[i])
    <2>1. IsMove(moves[i]) /\ moves[i].time \in Int
      BY <1>4 DEF Datable
    <2>2. CASE moves[i].time >= 0
      <3>1. D[i] = moves[i]
        BY <2>2 DEF Dated
      <3> QED  BY <2>1, <3>1 DEF Redated, Alike
    <2>3. CASE moves[i].time < 0
      <3> DEFINE e == CHOOSE x \in ToSet(a) : x.id = -moves[i].time
      <3>1. \E x \in ToSet(a) : x.id = -moves[i].time
        BY <1>2, <2>3, TimesCover
      <3>2. e \in ToSet(a)
        BY <3>1
      <3>3. e.timestamp \in Nat
        BY <1>3, <3>2
      <3>4. D[i] = [moves[i] EXCEPT !.time = e.timestamp]
        BY <2>1, <2>3 DEF Dated
      <3> HIDE DEF e, D
      <3>5. D[i] = Move(moves[i].hash, moves[i].from, moves[i].to, moves[i].value, e.timestamp,
                        moves[i].status, moves[i].asset, moves[i].tag)
        BY <2>1, <3>4 DEF IsMove, Move
      <3>6. /\ D[i].hash = moves[i].hash /\ D[i].status = moves[i].status
            /\ D[i].from = moves[i].from /\ D[i].to = moves[i].to /\ D[i].value = moves[i].value
            /\ D[i].asset = moves[i].asset /\ D[i].tag = moves[i].tag /\ D[i].time = e.timestamp
        BY <3>5 DEF Move
      <3>7. D[i].time \in Int /\ D[i].time >= moves[i].time
        BY <2>1, <2>3, <3>3, <3>6
      <3>8. IsMove(D[i])
        BY <3>5, MoveIs
      <3> QED  BY <3>6, <3>7, <3>8 DEF Redated, Alike
    <2> QED  BY <2>1, <2>2, <2>3
  <1>6. DOMAIN D = DOMAIN moves /\ D = [i \in DOMAIN moves |-> D[i]]
    BY DEF Dated
  <1> HIDE DEF D
  <1>7. D \in [1 .. Len(moves) -> ToSet(D)]
    BY <1>4, <1>6 DEF ToSet
  <1>8. Array(D) /\ Len(D) = Len(moves)
    BY <1>4, <1>7, MakesArray
  <1>9. D = <<>> <=> moves = <<>>
    BY <1>4, <1>8, ArrayFits
  <1>10. Datable(D)
    BY <1>5, <1>6 DEF Datable, ToSet
  <1>11. \A d \in ToSet(D) : \E m \in ToSet(moves) : Redated(d, m)
    BY <1>4, <1>5, <1>6 DEF ToSet
  <1>12. \A m \in ToSet(moves) : \E d \in ToSet(D) : Redated(d, m)
    <2> SUFFICES ASSUME NEW m \in ToSet(moves) PROVE \E d \in ToSet(D) : Redated(d, m)
      OBVIOUS
    <2>1. PICK i \in DOMAIN moves : moves[i] = m
      BY <1>4
    <2>2. D[i] \in ToSet(D) /\ Redated(D[i], m)
      BY <1>5, <1>6, <2>1 DEF ToSet
    <2> QED  BY <2>2
  <1> QED  BY <1>8, <1>9, <1>10, <1>11, <1>12 DEF D

-----------------------------------------------------------------------------
(* The invariant: what each feed came to rests on its rows, the movements    *)
(* that wait for their block times come from the two directions, what is     *)
(* cached has the shape of a page of its limit, and an answer is backed by   *)
(* the feeds it was made of.                                                 *)

Stages == {"idle", "tron", "alchemy", "times", "explorer", "helius", "owner", "accounts", "detail"}

Merging == {"tron", "alchemy", "times", "explorer"}

Bounded == stage \in Stages /\ limit \in Limits /\ setup \in Setups

FeedsInv ==
    /\ got = [f \in Every \cup {"detail"} |-> got[f]]
    /\ \A f \in RowFeeds : got[f] = Null \/ Tells(f, got[f])

Joint ==
    /\ Array(page) /\ Datable(page)
    /\ \A m \in ToSet(page) : \E f \in Transfer : m \in ToSet(got[f].moves)
    /\ \A f \in Transfer : ToSet(got[f].moves) \subseteq ToSet(page)
    /\ \E m \in ToSet(page) : Touches(m)

TimesInv ==
    /\ stage = "alchemy" => got["times"] = Null
    /\ stage = "times" =>
         /\ \A f \in Transfer : got[f] # Null
         /\ Joint
         /\ got["times"] # Null /\ got["times"].ok =>
              got["times"].moves \in Answers("times") /\ BlockTimestamps(got["times"].moves, Undated(page))

Formed(a, l) == a.status = "ok" /\ a.by \in Merging => Shaped(a.records, l)

CacheInv ==
    /\ cached = [l \in Limits |-> cached[l]]
    /\ \A l \in Limits :
         cached[l] = Null \/ (/\ cached[l] = Told(cached[l].status, cached[l].records, cached[l].by)
                              /\ Formed(cached[l], l))

Vouched(g, fs, R) ==
    \A r \in ToSet(R) : r.status \in {"ok", "failed"} =>
        \E f \in fs : g[f].ok /\ \E x \in ToSet(Rows(f, g[f].raw)) :
            /\ x # Bad /\ Names(x, r.hash)
            /\ r.status = "failed" <=> Denies(f, x)
            /\ r.status = "ok" => Affirms(f, x)

Grounded(g, f) ==
    g[f].ok /\ (Rows(f, g[f].raw) = <<>> \/ \E r \in ToSet(Rows(f, g[f].raw)) : Sound(f, r))

\* What an answer may say on the strength of what the feeds came to.
Backed(g, by, R) ==
    /\ R = <<>> => (\A f \in Needed(by) : Grounded(g, f)) /\ (by = "detail" => g["detail"] = Null)
    /\ by # "detail" => Vouched(g, Used(by), R)

\* A page leaves out no movement that it has room for.
Whole(g, l, by, R) ==
    \A f \in Used(by) : \A m \in ToSet(Mine(g[f].moves)) :
        LET twins == {t \in ToSet(Apart(f, g[f].moves)) : [t EXCEPT !.tag = m.tag] = m}
        IN  \/ m.value = 0
            \/ Full(R, l, m.time)
            \/ Cardinality(Sightings(R, m))
                  >= IF f \in {"tx", "internal"} THEN 1 ELSE Cardinality(twins)

ReplyInv ==
    /\ stage # "idle" => reply = Nothing
    /\ Formed(reply, limit)
    /\ Answered => /\ Backed(got, reply.by, reply.records)
                   /\ reply.by \in Merging => Whole(got, limit, reply.by, reply.records)

HistoryInv == Bounded /\ FeedsInv /\ TimesInv /\ CacheInv /\ ReplyInv

\* A limit is a positive number.
LEMMA LimitsFit == \A l \in Limits : l \in Nat \ {0}
  BY HistoryConstants DEF Limits

\* The invariant holds at the start.
LEMMA HistoryStart == HistoryInit => HistoryInv
  <1> SUFFICES ASSUME HistoryInit PROVE HistoryInv
    OBVIOUS
  <1>1. Bounded
    BY HistoryConstants DEF HistoryInit, Bounded, Stages
  <1>2. FeedsInv
    BY DEF HistoryInit, FeedsInv, Unheard, RowFeeds
  <1>3. TimesInv
    BY DEF HistoryInit, TimesInv
  <1>4. CacheInv
    BY DEF HistoryInit, CacheInv
  <1>5. ReplyInv
    BY DEF HistoryInit, ReplyInv, Nothing, Formed, Answered
  <1> QED  BY <1>1, <1>2, <1>3, <1>4, <1>5 DEF HistoryInv

\* Records that are kin to what feeds told of are vouched for by their rows.
LEMMA KinAreVouched ==
    ASSUME FeedsInv, NEW fs \in SUBSET RowFeeds, \A f \in fs : got[f] # Null,
           NEW R, \A r \in ToSet(R) : \E f \in fs : \E m \in ToSet(got[f].moves) :
                      r.hash = m.hash /\ r.status = m.status
    PROVE  Vouched(got, fs, R)
  <1> SUFFICES ASSUME NEW r \in ToSet(R), r.status \in {"ok", "failed"}
               PROVE  \E f \in fs : got[f].ok /\ \E x \in ToSet(Rows(f, got[f].raw)) :
                          /\ x # Bad /\ Names(x, r.hash)
                          /\ r.status = "failed" <=> Denies(f, x)
                          /\ r.status = "ok" => Affirms(f, x)
    BY DEF Vouched
  <1>1. PICK f \in fs : \E m \in ToSet(got[f].moves) : r.hash = m.hash /\ r.status = m.status
    OBVIOUS
  <1>2. PICK m \in ToSet(got[f].moves) : r.hash = m.hash /\ r.status = m.status
    BY <1>1
  <1>3. Tells(f, got[f])
    BY DEF FeedsInv
  <1>4. got[f].ok
    BY <1>2, <1>3, NotEmpty DEF Tells
  <1>5. PICK x \in ToSet(Rows(f, got[f].raw)) : Evidence(f, x, m)
    BY <1>2, <1>3 DEF Tells
  <1>6. /\ x # Bad /\ Names(x, r.hash)
        /\ r.status = "failed" <=> Denies(f, x)
        /\ r.status = "ok" => Affirms(f, x)
    BY <1>2, <1>5 DEF Evidence
  <1> QED  BY <1>4, <1>5, <1>6

\* A feed that did not fail sent no rows, or one sound row at least.
LEMMA OkIsHeard ==
    ASSUME FeedsInv, NEW f \in RowFeeds, got[f] # Null, got[f].ok
    PROVE  Grounded(got, f)
  BY DEF FeedsInv, Tells, Grounded

\* What a feed came to is an array of dated movements.
LEMMA FeedArrays ==
    ASSUME FeedsInv, NEW f \in RowFeeds, got[f] # Null
    PROVE  Array(got[f].moves) /\ Datable(got[f].moves)
  BY DEF FeedsInv, Tells, Datable

\* An answer that is backed and has the shape of a page keeps the invariant.
LEMMA AnswerKeeps ==
    ASSUME HistoryInv, NEW R, Answer("ok", R), UNCHANGED <<setup, limit, got>>,
           stage # "idle", Backed(got, stage, R),
           stage \in Merging => Shaped(R, limit) /\ Whole(got, limit, stage, R)
    PROVE  HistoryInv'
  <1> DEFINE a == Told("ok", R, stage)
  <1>1. /\ stage' = "idle" /\ reply' = a /\ cached' = [cached EXCEPT ![limit] = a]
        /\ limit' = limit /\ setup' = setup /\ got' = got
    BY DEF Answer, Tell
  <1>2. a.status = "ok" /\ a.records = R /\ a.by = stage /\ a = Told(a.status, a.records, a.by)
    BY DEF Told
  <1>3. Formed(a, limit)
    BY <1>2 DEF Formed
  <1> HIDE DEF a
  <1>4. Bounded'
    BY <1>1 DEF HistoryInv, Bounded, Stages
  <1>5. FeedsInv'
    BY <1>1 DEF HistoryInv, FeedsInv
  <1>6. TimesInv'
    BY <1>1 DEF TimesInv
  <1>7. CacheInv'
    <2>1. CacheInv /\ limit \in Limits
      BY DEF HistoryInv, Bounded
    <2>2. cached' = [l \in Limits |-> IF l = limit THEN a ELSE cached[l]]
      BY <1>1, <2>1 DEF CacheInv
    <2>3. cached' = [l \in Limits |-> cached'[l]]
      BY <2>2
    <2>4. ASSUME NEW l \in Limits
          PROVE  cached'[l] = Null \/ (/\ cached'[l] = Told(cached'[l].status, cached'[l].records, cached'[l].by)
                                       /\ Formed(cached'[l], l))
      <3>1. CASE l = limit
        BY <1>2, <1>3, <2>2, <3>1
      <3>2. CASE l # limit
        BY <2>1, <2>2, <3>2 DEF CacheInv
      <3> QED  BY <3>1, <3>2
    <2> QED  BY <2>3, <2>4 DEF CacheInv
  <1>8. ReplyInv'
    <2>1. /\ stage' = "idle" /\ Formed(reply', limit') /\ Backed(got', reply'.by, reply'.records)
          /\ reply'.by \in Merging => Whole(got', limit', reply'.by, reply'.records)
      BY <1>1, <1>2, <1>3
    <2> QED  BY <2>1 DEF ReplyInv
  <1> QED  BY <1>4, <1>5, <1>6, <1>7, <1>8 DEF HistoryInv

-----------------------------------------------------------------------------
(* What each merged page leaves out.                                        *)

\* Two movements of one feed that go by one name are alike.
LEMMA UniqueNames ==
    ASSUME FeedsInv, NEW f \in RowFeeds \ {"helius"}, got[f] # Null,
           NEW x \in ToSet(Apart(f, got[f].moves)), NEW y \in ToSet(Apart(f, got[f].moves)),
           Name(f, x) = Name(f, y)
    PROVE  Alike(x, y)
  <1>1. got[f].moves = <<>> \/ \E a \in Answers(f) : got[f].moves = Movements(f, a).moves
    BY DEF FeedsInv, Tells
  <1>2. CASE got[f].moves = <<>>
    <2>1. DOMAIN Apart(f, <<>>) = {}
      BY DEF Apart, Numbered
    <2> QED  BY <1>2, <2>1 DEF ToSet
  <1>3. CASE \E a \in Answers(f) : got[f].moves = Movements(f, a).moves
    BY <1>3, NamesAreUnique DEF RowFeeds
  <1> QED  BY <1>1, <1>2, <1>3

\* One transfer goes by one name in both directions.
LEMMA TransferNames ==
    ASSUME FeedsInv, \A f \in Transfer : got[f] # Null, NEW f \in Transfer, NEW g \in Transfer,
           NEW x \in ToSet(got[f].moves), NEW y \in ToSet(got[g].moves), x.tag = y.tag
    PROVE  Alike(x, y)
  <1>1. /\ f \in RowFeeds \ {"helius"} /\ g \in RowFeeds \ {"helius"}
        /\ \A m : Name(f, m) = m.tag
        /\ Apart(f, got[f].moves) = got[f].moves
    BY RowFeedsAre DEF Transfer, Name, Apart, Tron
  <1>2. CASE f = g
    BY <1>1, <1>2, UniqueNames
  <1>3. CASE f # g
    <2>1. got[f].moves # <<>> /\ got[g].moves # <<>>
      BY Single
    <2>2. PICK a \in Answers(f) : got[f].moves = Alchemy(a).moves
      BY <1>1, <2>1 DEF FeedsInv, Tells, Movements, Transfer
    <2>3. PICK b \in Answers(g) : got[g].moves = Alchemy(b).moves
      BY <1>1, <2>1 DEF FeedsInv, Tells, Movements, Transfer
    <2>4. CASE f = "from" /\ g = "to"
      BY <2>2, <2>3, <2>4, NamesAreUnique
    <2>5. CASE f = "to" /\ g = "from"
      <3>1. Alike(y, x)
        BY <2>2, <2>3, <2>5, NamesAreUnique
      <3> QED  BY <3>1 DEF Alike
    <2> QED  BY <1>3, <2>4, <2>5 DEF Transfer
  <1> QED  BY <1>2, <1>3

\* What the feeds came to stays what it is while they are left alone.
LEMMA FeedsKeep ==
    ASSUME FeedsInv, got' = got \/ got' = Unheard
    PROVE  FeedsInv'
  <1>1. CASE got' = got
    BY <1>1 DEF FeedsInv
  <1>2. CASE got' = Unheard
    BY <1>2 DEF FeedsInv, Unheard, RowFeeds
  <1> QED  BY <1>1, <1>2

\* An error that is answered keeps the invariant.
LEMMA FailKeeps ==
    ASSUME HistoryInv, Fail, UNCHANGED <<setup, limit, got>>
    PROVE  HistoryInv'
  <1>1. /\ stage' = "idle" /\ reply' = Told("error", <<>>, stage) /\ cached' = cached
        /\ limit' = limit /\ setup' = setup /\ got' = got
    BY DEF Fail, Tell
  <1>2. reply'.status = "error"
    BY <1>1 DEF Told
  <1>3. Bounded'
    BY <1>1 DEF HistoryInv, Bounded, Stages
  <1>4. FeedsInv'
    BY <1>1, FeedsKeep DEF HistoryInv
  <1>5. TimesInv'
    BY <1>1 DEF TimesInv
  <1>6. CacheInv'
    BY <1>1 DEF HistoryInv, CacheInv
  <1>7. ReplyInv'
    BY <1>1, <1>2 DEF ReplyInv, Formed, Answered
  <1> QED  BY <1>3, <1>4, <1>5, <1>6, <1>7 DEF HistoryInv

\* A request that goes on has not been answered.
LEMMA GoesOn ==
    ASSUME HistoryInv, stage # "idle", stage' \in Stages, FeedsInv', TimesInv',
           UNCHANGED <<setup, limit, reply, cached>>
    PROVE  HistoryInv'
  <1>1. limit' = limit /\ setup' = setup /\ reply' = reply /\ cached' = cached
    OBVIOUS
  <1>2. Bounded'
    BY <1>1 DEF HistoryInv, Bounded
  <1>3. CacheInv'
    BY <1>1 DEF HistoryInv, CacheInv
  <1>4. reply' = Nothing
    BY <1>1 DEF HistoryInv, ReplyInv
  <1>5. ReplyInv'
    BY <1>4 DEF ReplyInv, Formed, Answered, Nothing
  <1> QED  BY <1>2, <1>3, <1>5 DEF HistoryInv

\* A stage that starts keeps the invariant.
LEMMA EnterKeeps ==
    ASSUME HistoryInv, stage # "idle", NEW s \in Stages \ {"alchemy", "times"}, Enter(s),
           UNCHANGED <<setup, limit>>, got' = got \/ got' = Unheard
    PROVE  HistoryInv'
  <1>1. stage' = s /\ UNCHANGED <<reply, cached>>
    BY DEF Enter
  <1>2. FeedsInv'
    BY FeedsKeep DEF HistoryInv
  <1>3. TimesInv'
    BY <1>1 DEF TimesInv
  <1> QED  BY <1>1, <1>2, <1>3, GoesOn

\* A request that comes in keeps the invariant.
LEMMA AskKeeps ==
    ASSUME HistoryInv, Ask
    PROVE  HistoryInv'
  <1>1. stage = "idle" /\ got' = Unheard /\ setup' = setup
    BY DEF Ask
  <1>2. FeedsInv' /\ got'["times"] = Null
    BY <1>1, FeedsKeep DEF HistoryInv, Unheard, Every
  <1>3. PICK asked \in Asked :
          \/ /\ asked # Null /\ asked <= 0
             /\ reply' = [Nothing EXCEPT !.status = "refused"]
             /\ UNCHANGED <<stage, limit, cached>>
          \/ /\ asked # Null => asked > 0
             /\ limit' = IF asked = Null THEN DefaultLimit ELSE Min({asked, MaxLimit})
             /\ Look(limit')
    BY DEF Ask
  <1>4. CASE /\ reply' = [Nothing EXCEPT !.status = "refused"]
             /\ UNCHANGED <<stage, limit, cached>>
    <2>1. reply'.status = "refused"
      BY <1>4 DEF Nothing
    <2>2. Bounded' /\ CacheInv' /\ TimesInv'
      BY <1>1, <1>2, <1>4 DEF HistoryInv, Bounded, CacheInv, TimesInv
    <2>3. ReplyInv'
      BY <1>1, <1>4, <2>1 DEF ReplyInv, Formed, Answered
    <2> QED  BY <1>2, <2>2, <2>3 DEF HistoryInv
  <1>5. CASE /\ asked # Null => asked > 0
             /\ limit' = IF asked = Null THEN DefaultLimit ELSE Min({asked, MaxLimit})
             /\ Look(limit')
    <2>1. limit' \in Limits
      <3>1. CASE asked = Null
        BY <1>5, <3>1, HistoryConstants
      <3>2. CASE asked # Null
        <4>1. asked \in Int /\ asked > 0 /\ MaxLimit \in Nat /\ MaxLimit > 0
          BY <1>5, <3>2, HistoryConstants DEF Limits
        <4>2. /\ Min({asked, MaxLimit}) \in {asked, MaxLimit} /\ Min({asked, MaxLimit}) <= MaxLimit
          BY <4>1, MinOfTwo
        <4> QED  BY <1>5, <3>2, <4>1, <4>2 DEF Limits
      <3> QED  BY <3>1, <3>2
    <2> DEFINE l == limit'
    <2>2. CacheInv /\ Bounded
      BY DEF HistoryInv
    <2>3. CASE /\ cached[l] # Null /\ reply' = [cached[l] EXCEPT !.fresh = FALSE]
               /\ UNCHANGED <<stage, cached>>
      <3>1. cached[l] = Told(cached[l].status, cached[l].records, cached[l].by) /\ Formed(cached[l], l)
        BY <2>1, <2>2, <2>3 DEF CacheInv
      <3>2. /\ reply'.status = cached[l].status /\ reply'.by = cached[l].by
            /\ reply'.records = cached[l].records /\ reply'.fresh = FALSE
        BY <2>3, <3>1 DEF Told
      <3>3. Bounded' /\ CacheInv' /\ TimesInv'
        BY <1>1, <1>2, <2>1, <2>2, <2>3 DEF Bounded, CacheInv, TimesInv
      <3>4. ReplyInv'
        BY <1>1, <2>3, <3>1, <3>2 DEF ReplyInv, Formed, Answered
      <3> QED  BY <1>2, <3>3, <3>4 DEF HistoryInv
    <2>4. CASE stage' = FirstStage /\ reply' = Nothing /\ UNCHANGED cached
      <3>1. FirstStage \in Stages /\ FirstStage # "times"
        BY <2>2, HistoryConstants DEF FirstStage, Stages, Bounded
      <3>2. Bounded' /\ CacheInv' /\ TimesInv'
        BY <1>1, <1>2, <2>1, <2>2, <2>4, <3>1 DEF Bounded, CacheInv, TimesInv
      <3>3. ReplyInv'
        BY <2>4 DEF ReplyInv, Formed, Answered, Nothing
      <3> QED  BY <1>2, <3>2, <3>3 DEF HistoryInv
    <2>5. CASE /\ cached[l] = Null /\ reply' = Told("unsupported", <<>>, "idle")
               /\ cached' = [cached EXCEPT ![l] = reply'] /\ UNCHANGED stage
      <3>1. /\ reply'.status = "unsupported"
            /\ reply' = Told(reply'.status, reply'.records, reply'.by)
        BY <2>5 DEF Told
      <3>2. Bounded' /\ TimesInv'
        BY <1>1, <1>2, <2>1, <2>2, <2>5 DEF Bounded, TimesInv
      <3>3. Formed(reply', l)
        BY <3>1 DEF Formed
      <3>4. CacheInv'
        <4>1. cached' = [k \in Limits |-> IF k = l THEN reply' ELSE cached[k]]
          BY <2>2, <2>5 DEF CacheInv
        <4> DEFINE q == reply'
        <4> HIDE DEF l, q
        <4>2. cached' = [k \in Limits |-> cached'[k]]
          BY <4>1
        <4>3. \A k \in Limits :
                cached'[k] = Null \/ (/\ cached'[k] = Told(cached'[k].status, cached'[k].records, cached'[k].by)
                                      /\ Formed(cached'[k], k))
          BY <2>2, <3>1, <3>3, <4>1 DEF CacheInv
        <4> QED  BY <4>2, <4>3 DEF CacheInv
      <3>5. ReplyInv'
        BY <1>1, <2>5, <3>1, <3>3 DEF ReplyInv, Answered
      <3> QED  BY <1>2, <3>2, <3>4, <3>5 DEF HistoryInv
    <2> QED  BY <1>5, <2>3, <2>4, <2>5 DEF Look
  <1> QED  BY <1>3, <1>4, <1>5

\* A source that answers, or fails, keeps the invariant.
LEMMA ReadKeeps ==
    ASSUME HistoryInv, NEW f \in Every, Read(f)
    PROVE  HistoryInv'
  <1>1. /\ stage \in {"tron", "alchemy", "times", "explorer", "helius"}
        /\ f \in Feeds(stage) /\ got[f] = Null
        /\ stage' = stage /\ page' = page
        /\ UNCHANGED <<setup, limit, reply, cached>>
    BY DEF Read
  <1>2. PICK a \in Answers(f) \cup {Bad} : got' = got \/ got' = [got EXCEPT ![f] = Heeded(f, a)]
    BY DEF Read
  <1>3. f \in RowFeeds \/ f = "times"
    BY DEF RowFeeds
  <1>4. (stage = "times" => f = "times") /\ (stage = "alchemy" => f \in Transfer)
    BY <1>1 DEF Feeds
  <1>5. FeedsInv
    BY DEF HistoryInv
  <1>6. CASE got' = got
    <2>1. FeedsInv' /\ TimesInv'
      BY <1>1, <1>5, <1>6, FeedsKeep DEF HistoryInv, TimesInv, Joint, Datable
    <2> QED  BY <1>1, <2>1, GoesOn DEF Stages
  <1>7. CASE got' = [got EXCEPT ![f] = Heeded(f, a)]
    <2>1. got' = [g \in Every \cup {"detail"} |-> IF g = f THEN Heeded(f, a) ELSE got[g]]
      BY <1>5, <1>7 DEF FeedsInv
    <2>2. f \in RowFeeds => Tells(f, Heeded(f, a))
      BY FeedTells DEF Heeded
    <2>3. FeedsInv'
      <3>1. got' = [g \in Every \cup {"detail"} |-> got'[g]]
        BY <2>1
      <3>2. ASSUME NEW g \in RowFeeds PROVE got'[g] = Null \/ Tells(g, got'[g])
        BY <1>5, <2>1, <2>2 DEF FeedsInv, RowFeeds
      <3> QED  BY <3>1, <3>2 DEF FeedsInv
    <2>4. TimesInv'
      <3>0. stage = "alchemy" => got'["times"] = Null
        BY <1>4, <2>1 DEF HistoryInv, TimesInv, Transfer, Every
      <3> SUFFICES ASSUME stage = "times" PROVE TimesInv'
        BY <1>1, <3>0 DEF TimesInv
      <3>1. f = "times" /\ TimesInv
        BY <1>4 DEF HistoryInv
      <3>2. \A t \in Transfer : got'[t] = got[t]
        BY <2>1, <3>1 DEF Transfer, Every
      <3>3. (\A t \in Transfer : got'[t] # Null) /\ Joint'
        BY <1>1, <3>1, <3>2 DEF TimesInv, Joint, Datable
      <3>4. got'["times"] = Heeded("times", a)
        BY <2>1, <3>1
      <3>5. got'["times"].ok =>
              got'["times"].moves \in Answers("times") /\ BlockTimestamps(got'["times"].moves, Undated(page))
        <4>1. /\ got'["times"].ok = Decoded("times", a).ok
              /\ got'["times"].moves = Decoded("times", a).moves
          BY <3>4 DEF Heeded
        <4>2. Decoded("times", a) =
                IF BlockTimestamps(a, Undated(page)) THEN Feed(a) ELSE Failed
          BY DEF Decoded, Transfer
        <4>3. CASE BlockTimestamps(a, Undated(page))
          <5>1. a # Bad
            BY <4>3 DEF BlockTimestamps
          <5>2. got'["times"].moves = a
            BY <4>1, <4>2, <4>3 DEF Feed
          <5> QED  BY <1>2, <3>1, <4>3, <5>1, <5>2
        <4>4. CASE ~BlockTimestamps(a, Undated(page))
          BY <4>1, <4>2, <4>4 DEF Failed
        <4> QED  BY <4>3, <4>4
      <3> QED  BY <1>1, <3>3, <3>5 DEF TimesInv
    <2> QED  BY <1>1, <2>3, <2>4, GoesOn DEF Stages
  <1> QED  BY <1>2, <1>6, <1>7

\* A feed whose every movement of the wallet is met on the page.
LEMMA FeedIsWhole ==
    ASSUME NEW P, Array(P), NEW l, NEW f, NEW s, Array(s),
           \A t \in ToSet(s) :
              IsMove(t) /\ (Touches(t) => Met(P, l, [name |-> Name(f, t), move |-> t])),
           \A t, u \in ToSet(s) : Name(f, t) = Name(f, u) => t.tag = u.tag,
           NEW m, IsMove(m), Touches(m)
    PROVE  \/ Full(P, l, m.time)
           \/ Cardinality(Sightings(P, m))
                >= Cardinality({t \in ToSet(s) : [t EXCEPT !.tag = m.tag] = m})
  <1> DEFINE T == {t \in ToSet(s) : [t EXCEPT !.tag = m.tag] = m}
  <1>1. IsFiniteSet(ToSet(s)) /\ T \subseteq ToSet(s)
    BY SetIsFinite
  <1>2. IsFiniteSet(T)
    <2> HIDE DEF T
    <2> QED  BY <1>1, FS_Subset
  <1>3. ASSUME NEW t \in T PROVE Touches(t)
    <2>1. [t EXCEPT !.tag = m.tag] = m
          /\ t = Move(t.hash, t.from, t.to, t.value, t.time, t.status, t.asset, t.tag)
      BY DEF IsMove
    <2>2. m.from = t.from /\ m.to = t.to
      BY <2>1 DEF Move
    <2> QED  BY <2>2 DEF Touches
  <1>4. /\ \A t \in T : IsMove(t) /\ [t EXCEPT !.tag = m.tag] = m
        /\ \A t, u \in T : Name(f, t) = Name(f, u) => t.tag = u.tag
        /\ \A t \in T : Met(P, l, [name |-> Name(f, t), move |-> t])
    BY <1>1, <1>3
  <1> HIDE DEF T
  <1>5. Full(P, l, m.time) \/ Cardinality(Sightings(P, m)) >= Cardinality(T)
    <2>1. Array(P) /\ IsMove(m)
      OBVIOUS
    <2> QED  BY ONLY <1>2, <1>4, <2>1, TwinsAreShown
  <1> QED  BY <1>5 DEF T

\* A record that goes by the name of a movement tells of it.
LEMMA ShowTells ==
    ASSUME NEW f, NEW m, NEW id, id = Name(f, m)
    PROVE  Tale(Show(m, id), [name |-> Name(f, m), move |-> m])
  BY DEF Tale, Show, Entry, Shows, Direction

\* TRON's records tell of the movements they are made of.
LEMMA TronShowTells ==
    ASSUME NEW f \in Tron, NEW m
    PROVE  Tale(TronShow(m), [name |-> Name(f, m), move |-> m])
  <1> DEFINE r == TronShow(m)
             e == Show(m, TronId(m))
  <1>1. /\ r.id = e.id /\ r.time = e.time /\ r.hash = e.hash /\ r.value = e.value
        /\ r.asset = e.asset /\ r.from = e.from /\ r.to = e.to /\ r.direction = e.direction
    BY DEF TronShow, Show, Entry
  <1>2. Name(f, m) = TronId(m)
    BY DEF Name, Tron
  <1>3. Tale(e, [name |-> Name(f, m), move |-> m])
    BY <1>2, ShowTells
  <1> HIDE DEF e
  <1> QED  BY <1>1, <1>3 DEF Tale, Shows

\* Records made one by one of movements tell of them all.
LEMMA MapTells ==
    ASSUME NEW f, NEW s, Array(s), NEW t, t = [i \in DOMAIN s |-> t[i]],
           \A i \in DOMAIN s : Tale(t[i], [name |-> Name(f, s[i]), move |-> s[i]])
    PROVE  /\ Array(t)
           /\ \A r \in ToSet(t) : \E c \in Claims(f, ToSet(s)) : Tale(r, c)
           /\ \A c \in Claims(f, ToSet(s)) : \E r \in ToSet(t) : Tale(r, c)
  <1>1. DOMAIN t = DOMAIN s
    OBVIOUS
  <1>2. DOMAIN s = 1 .. Len(s) /\ Len(s) \in Nat
        /\ \A i \in DOMAIN s : s[i] \in ToSet(s)
    BY ArrayFits
  <1>3. t \in [1 .. Len(s) -> ToSet(t)]
    BY <1>1, <1>2 DEF ToSet
  <1>4. Array(t)
    BY <1>2, <1>3, MakesArray
  <1>5. ASSUME NEW r \in ToSet(t) PROVE \E c \in Claims(f, ToSet(s)) : Tale(r, c)
    <2>1. PICK i \in DOMAIN s : r = t[i]
      BY <1>1 DEF ToSet
    <2>2. [name |-> Name(f, s[i]), move |-> s[i]] \in Claims(f, ToSet(s))
      BY <1>2 DEF Claims
    <2> QED  BY <2>1, <2>2
  <1>6. ASSUME NEW c \in Claims(f, ToSet(s)) PROVE \E r \in ToSet(t) : Tale(r, c)
    <2>1. PICK m \in ToSet(s) : c = [name |-> Name(f, m), move |-> m]
      BY DEF Claims
    <2>2. PICK i \in DOMAIN s : s[i] = m
      BY DEF ToSet
    <2>3. t[i] \in ToSet(t) /\ Tale(t[i], c)
      BY <1>1, <2>1, <2>2 DEF ToSet
    <2> QED  BY <2>3
  <1> QED  BY <1>4, <1>5, <1>6

\* No name of TRON's is shared by two feeds, nor by two tags of one.
LEMMA TronNamesTell ==
    ASSUME NEW f \in Tron, NEW g \in Tron, NEW x, NEW y, Tagged(f, x), Tagged(g, y),
           TronId(x) = TronId(y)
    PROVE  f = g /\ x.tag = y.tag
  <1>1. \A h1, h2, a1, a2, g1, g2, p, q, v :
          /\ <<h1, a1>> # <<h2, g2, a2>>
          /\ <<h1, a1>> # <<h2, a2, p, q, v>>
          /\ <<h1, g1, a1>> # <<h2, a2, p, q, v>>
          /\ <<h1, g1, a1>> = <<h2, g2, a2>> => g1 = g2
    OBVIOUS
  <1>2. /\ <<"trc20">>[1] = "trc20" /\ <<"contract", 1>>[1] = "contract"
        /\ "trc20" # "contract" /\ "trc20" # "internal" /\ "contract" # "internal"
    OBVIOUS
  <1>3. ASSUME NEW h \in Tron, NEW m, Tagged(h, m)
        PROVE  /\ h = "trc20" => m.tag = <<"trc20">> /\ TronId(m) = <<m.hash, m.asset, m.from, m.to, m.value>>
               /\ h = "native" => /\ m.tag[1] = "contract"
                                  /\ \/ TronId(m) = <<m.hash, m.tag, m.asset>>
                                     \/ TronId(m) = <<m.hash, m.asset>> /\ m.tag = <<"contract", 1>>
               /\ h = "traces" => m.tag[1] = "internal" /\ TronId(m) = <<m.hash, m.tag, m.asset>>
    <2>1. CASE h = "trc20"
      BY <1>2, <1>3, <2>1 DEF Tagged, TronId
    <2>2. CASE h = "native"
      <3>1. m.tag[1] = "contract" /\ m.tag # <<"trc20">>
        BY <1>2, <1>3, <2>2 DEF Tagged
      <3> QED  BY <2>2, <3>1 DEF TronId
    <2>3. CASE h = "traces"
      <3>1. m.tag[1] = "internal" /\ m.tag # <<"trc20">> /\ m.tag # <<"contract", 1>>
        BY <1>2, <1>3, <2>3 DEF Tagged
      <3> QED  BY <2>3, <3>1 DEF TronId
    <2> QED  BY <2>1, <2>2, <2>3 DEF Tron
  <1>4. CASE f = "trc20"
    BY <1>1, <1>3, <1>4 DEF Tron
  <1>5. CASE f = "native"
    BY <1>1, <1>2, <1>3, <1>5 DEF Tron
  <1>6. CASE f = "traces"
    BY <1>1, <1>2, <1>3, <1>6 DEF Tron
  <1> QED  BY <1>4, <1>5, <1>6 DEF Tron

\* The page of TRON's three feeds hides nothing.
LEMMA TronIsWhole ==
    ASSUME FeedsInv, \A f \in Tron : got[f] # Null, NEW l \in Nat \ {0}
    PROVE  Whole(got, l, "tron",
                 TronPage(got["trc20"].moves, got["native"].moves, got["traces"].moves, l))
  <1> DEFINE a == got["trc20"].moves
             b == got["native"].moves
             c == got["traces"].moves
             s == Mine(a) \o Mine(b) \o Mine(c)
             t == [i \in DOMAIN s |-> TronShow(s[i])]
             P == TronPage(a, b, c, l)
             C == Claims("trc20", ToSet(s))
  <1>0. Tron \subseteq RowFeeds \ {"helius"} /\ {"trc20", "native", "traces"} = Tron
    BY RowFeedsAre DEF Tron
  <1>1. ASSUME NEW f \in Tron
        PROVE  /\ Array(got[f].moves) /\ Datable(got[f].moves)
               /\ \A m \in ToSet(got[f].moves) : IsMove(m) /\ m.time \in Int /\ Tagged(f, m)
    <2>1. f \in RowFeeds
      BY <1>0
    <2> QED  BY <2>1, FeedArrays DEF FeedsInv, Tells
  <1>2. /\ Array(s)
        /\ \A m \in ToSet(s) : \E f \in Tron : m \in ToSet(got[f].moves)
        /\ \A f \in Tron : ToSet(Mine(got[f].moves)) \subseteq ToSet(s)
    <2>1. Array(a) /\ Array(b) /\ Array(c)
      BY <1>0, <1>1
    <2>2. /\ Array(Mine(a)) /\ ToSet(Mine(a)) \subseteq ToSet(a)
          /\ Array(Mine(b)) /\ ToSet(Mine(b)) \subseteq ToSet(b)
          /\ Array(Mine(c)) /\ ToSet(Mine(c)) \subseteq ToSet(c)
      BY <2>1, MineFits
    <2>3. /\ Array(Mine(a) \o Mine(b))
          /\ ToSet(Mine(a) \o Mine(b)) = ToSet(Mine(a)) \cup ToSet(Mine(b))
      BY <2>2, ConcatFits
    <2>4. Array(s) /\ ToSet(s) = ToSet(Mine(a) \o Mine(b)) \cup ToSet(Mine(c))
      BY <2>2, <2>3, ConcatFits
    <2> HIDE DEF s
    <2>5. \A f \in Tron : f = "trc20" \/ f = "native" \/ f = "traces"
      BY <1>0
    <2> QED  BY <1>0, <2>2, <2>3, <2>4, <2>5
  <1>3. P = Cut(Newest(t), l)
    BY DEF TronPage
  <1> HIDE DEF s
  <1>4. t = [i \in DOMAIN s |-> t[i]]
        /\ \A i \in DOMAIN s : Tale(t[i], [name |-> Name("trc20", s[i]), move |-> s[i]])
    BY <1>0, TronShowTells
  <1> HIDE DEF t
  <1>5. /\ Array(t)
        /\ \A r \in ToSet(t) : \E d \in C : Tale(r, d)
        /\ \A d \in C : \E r \in ToSet(t) : Tale(r, d)
    BY <1>2, <1>4, MapTells
  <1>6. \A f \in Tron : \A m : Name(f, m) = TronId(m)
    BY DEF Name, Tron
  <1>7. ASSUME NEW x \in ToSet(s), NEW y \in ToSet(s), TronId(x) = TronId(y)
        PROVE  Alike(x, y)
    <2>1. PICK f \in Tron : x \in ToSet(got[f].moves)
      BY <1>2
    <2>2. PICK g \in Tron : y \in ToSet(got[g].moves)
      BY <1>2
    <2>3. f = g
      BY <1>1, <1>7, <2>1, <2>2, TronNamesTell
    <2>4. Apart(f, got[f].moves) = got[f].moves
      BY DEF Apart, Tron
    <2> QED  BY <1>0, <1>6, <1>7, <2>1, <2>2, <2>3, <2>4, UniqueNames
  <1>8. /\ \A d \in C : d.move.time \in Int
        /\ \A d, e \in C : d.name = e.name => Alike(d.move, e.move)
    <2>1. \A m \in ToSet(s) : m.time \in Int
      BY <1>1, <1>2
    <2>2. \A d \in C : d.name = TronId(d.move) /\ d.move \in ToSet(s)
      BY <1>0, <1>6 DEF Claims
    <2> HIDE DEF C
    <2> QED  BY <1>7, <2>1, <2>2
  <1>9. \A d \in C : Met(P, l, d)
    <2> HIDE DEF C, P
    <2> QED  BY <1>3, <1>5, <1>8, ClaimsAreMet
  <1>10. \A m \in ToSet(s) : Met(P, l, [name |-> TronId(m), move |-> m])
    <2>1. \A m \in ToSet(s) : [name |-> TronId(m), move |-> m] \in C
      BY <1>0, <1>6 DEF Claims
    <2> HIDE DEF C, P
    <2> QED  BY <1>9, <2>1
  <1>11. Array(P)
    <2>1. Array(a) /\ Datable(a) /\ Array(b) /\ Datable(b) /\ Array(c) /\ Datable(c)
      BY <1>0, <1>1
    <2> HIDE DEF a, b, c
    <2> QED  BY <2>1, TronPageFits DEF Shaped
  <1> HIDE DEF P
  <1>12. ASSUME NEW f \in Tron, NEW m \in ToSet(Mine(got[f].moves))
         PROVE  \/ Full(P, l, m.time)
                \/ Cardinality(Sightings(P, m))
                     >= Cardinality({x \in ToSet(got[f].moves) : [x EXCEPT !.tag = m.tag] = m})
    <2> DEFINE z == got[f].moves
    <2>1. Array(z) /\ \A x \in ToSet(z) : IsMove(x) /\ Tagged(f, x)
      BY <1>1
    <2>2. ToSet(Mine(z)) = {x \in ToSet(z) : Touches(x)} /\ ToSet(Mine(z)) \subseteq ToSet(s)
      BY <1>2, <2>1, MineFits
    <2>3. ASSUME NEW x \in ToSet(z), Touches(x)
          PROVE  Met(P, l, [name |-> Name(f, x), move |-> x])
      BY <1>6, <1>10, <2>2, <2>3
    <2>4. \A x, y \in ToSet(z) : Name(f, x) = Name(f, y) => x.tag = y.tag
      BY <1>6, <2>1, TronNamesTell
    <2>5. IsMove(m) /\ Touches(m)
      BY <2>1, <2>2
    <2> HIDE DEF z
    <2>6. \A x \in ToSet(z) :
            IsMove(x) /\ (Touches(x) => Met(P, l, [name |-> Name(f, x), move |-> x]))
      BY <2>1, <2>3
    <2>7. \/ Full(P, l, m.time)
          \/ Cardinality(Sightings(P, m)) >= Cardinality({x \in ToSet(z) : [x EXCEPT !.tag = m.tag] = m})
      BY <1>11, <2>1, <2>4, <2>5, <2>6, FeedIsWhole
    <2> QED  BY <2>7 DEF z
  <1>13. \A f \in Tron : Apart(f, got[f].moves) = got[f].moves /\ f \notin {"tx", "internal"}
    BY DEF Apart, Tron
  <1>14. Used("tron") = Tron
    BY DEF Used, Feeds
  <1> QED  BY <1>12, <1>13, <1>14 DEF Whole, P

\* A page of Alchemy's transfers, whose names are their own.
LEMMA TransfersAreMet ==
    ASSUME NEW moves, Array(moves), Datable(moves), NEW l \in Nat \ {0},
           \A x, y \in ToSet(moves) : x.tag = y.tag => Alike(x, y),
           NEW m \in ToSet(moves), Touches(m)
    PROVE  Met(AlchemyPage(moves, l), l, [name |-> m.tag, move |-> m])
  <1> DEFINE s == Mine(moves)
             t == [i \in DOMAIN s |-> Show(s[i], s[i].tag)]
             C == Claims("from", ToSet(s))
             P == AlchemyPage(moves, l)
  <1>1. Array(s) /\ ToSet(s) = {x \in ToSet(moves) : Touches(x)}
    BY MineFits
  <1>2. P = Cut(Newest(t), l)
    BY DEF AlchemyPage
  <1>3. \A x : Name("from", x) = x.tag
    BY DEF Name, Tron
  <1> HIDE DEF s
  <1>4. t = [i \in DOMAIN s |-> t[i]]
        /\ \A i \in DOMAIN s : Tale(t[i], [name |-> Name("from", s[i]), move |-> s[i]])
    BY <1>3, ShowTells
  <1> HIDE DEF t
  <1>5. /\ Array(t)
        /\ \A r \in ToSet(t) : \E d \in C : Tale(r, d)
        /\ \A d \in C : \E r \in ToSet(t) : Tale(r, d)
    BY <1>1, <1>4, MapTells
  <1>6. \A d \in C : d.name = d.move.tag /\ d.move \in ToSet(moves)
    BY <1>1, <1>3 DEF Claims
  <1>7. [name |-> m.tag, move |-> m] \in C
    BY <1>1, <1>3 DEF Claims
  <1> HIDE DEF C, P
  <1>8. /\ \A d \in C : d.move.time \in Int
        /\ \A d, e \in C : d.name = e.name => Alike(d.move, e.move)
    BY <1>6 DEF Datable
  <1>9. \A d \in C : Met(P, l, d)
    BY <1>2, <1>5, <1>8, ClaimsAreMet
  <1> QED  BY <1>7, <1>9 DEF P

\* A page that meets the transfers of both directions hides nothing.
LEMMA AlchemyIsWhole ==
    ASSUME FeedsInv, \A f \in Transfer : got[f] # Null, NEW l, NEW P, Array(P),
           \A f \in Transfer : \A m \in ToSet(got[f].moves) :
              Touches(m) => Met(P, l, [name |-> m.tag, move |-> m]),
           NEW by \in {"alchemy", "times"}
    PROVE  Whole(got, l, by, P)
  <1>1. Used(by) = Transfer /\ Transfer \subseteq RowFeeds
    BY RowFeedsAre DEF Used, Feeds, Transfer
  <1>2. \A f \in Transfer : /\ Apart(f, got[f].moves) = got[f].moves /\ f \notin {"tx", "internal"}
                            /\ \A m : Name(f, m) = m.tag
    BY DEF Apart, Transfer, Name, Tron
  <1>3. ASSUME NEW f \in Transfer, NEW m \in ToSet(Mine(got[f].moves))
        PROVE  \/ Full(P, l, m.time)
               \/ Cardinality(Sightings(P, m))
                    >= Cardinality({x \in ToSet(got[f].moves) : [x EXCEPT !.tag = m.tag] = m})
    <2> DEFINE z == got[f].moves
    <2>1. Array(z) /\ \A x \in ToSet(z) : IsMove(x)
      BY <1>1, FeedArrays DEF Datable
    <2>2. IsMove(m) /\ Touches(m)
      BY <2>1, MineFits
    <2>3. \A x \in ToSet(z) :
            IsMove(x) /\ (Touches(x) => Met(P, l, [name |-> Name(f, x), move |-> x]))
      BY <1>2, <2>1
    <2>4. \A x, y \in ToSet(z) : Name(f, x) = Name(f, y) => x.tag = y.tag
      BY <1>2
    <2> HIDE DEF z
    <2>5. \/ Full(P, l, m.time)
          \/ Cardinality(Sightings(P, m)) >= Cardinality({x \in ToSet(z) : [x EXCEPT !.tag = m.tag] = m})
      BY <2>1, <2>2, <2>3, <2>4, FeedIsWhole
    <2> QED  BY <2>5 DEF z
  <1> QED  BY <1>1, <1>2, <1>3 DEF Whole

\* Numbering the token rows changes their tags and nothing else.
LEMMA NumberedFits ==
    ASSUME NEW s, Array(s), Datable(s)
    PROVE  /\ Array(Numbered(s)) /\ Datable(Numbered(s))
           /\ \A m \in ToSet(s) : Touches(m) =>
                \E x \in ToSet(Numbered(s)) : Touches(x) /\ x.time = m.time
  <1> DEFINE n == Numbered(s)
  <1>1. n = [i \in DOMAIN s |-> n[i]]
    BY DEF Numbered
  <1>2. ASSUME NEW i \in DOMAIN s
        PROVE  IsMove(n[i]) /\ Kin(n[i], s[i])
    <2>1. s[i] = Move(s[i].hash, s[i].from, s[i].to, s[i].value, s[i].time, s[i].status,
                      s[i].asset, s[i].tag)
      BY ArrayFits DEF Datable, IsMove
    <2>2. CASE s[i].tag # Null
      BY <2>1, <2>2 DEF Numbered, IsMove, Kin
    <2>3. CASE s[i].tag = Null
      <3>1. n[i] = [s[i] EXCEPT !.tag = i - 1]
        BY <2>3 DEF Numbered
      <3> HIDE DEF n
      <3>2. n[i] = Move(s[i].hash, s[i].from, s[i].to, s[i].value, s[i].time, s[i].status,
                        s[i].asset, i - 1)
        BY <2>1, <3>1 DEF Move
      <3>3. IsMove(n[i])
        BY <3>2, MoveIs
      <3>4. Kin(n[i], s[i])
        BY <3>2 DEF Kin, Move
      <3> QED  BY <3>3, <3>4
    <2> QED  BY <2>2, <2>3
  <1>3. ASSUME NEW i \in DOMAIN s
        PROVE  n[i].from = s[i].from /\ n[i].to = s[i].to
    <2>1. s[i] = Move(s[i].hash, s[i].from, s[i].to, s[i].value, s[i].time, s[i].status,
                      s[i].asset, s[i].tag)
      BY ArrayFits DEF Datable, IsMove
    <2> QED  BY <2>1 DEF Numbered, Move
  <1> HIDE DEF n
  <1>4. Array(n) /\ Shown(n, s)
    BY <1>1, <1>2, MapFits
  <1>5. DOMAIN n = DOMAIN s /\ \A i \in DOMAIN s : s[i] \in ToSet(s) /\ n[i] \in ToSet(n)
    BY <1>1 DEF ToSet
  <1>6. ASSUME NEW x \in ToSet(n) PROVE IsMove(x) /\ x.time \in Int
    <2>1. PICK i \in DOMAIN s : x = n[i]
      BY <1>5 DEF ToSet
    <2>2. s[i].time \in Int
      BY <1>5 DEF Datable
    <2> QED  BY <1>2, <2>1, <2>2 DEF Kin
  <1>7. ASSUME NEW m \in ToSet(s), Touches(m)
        PROVE  \E x \in ToSet(n) : Touches(x) /\ x.time = m.time
    <2>1. PICK i \in DOMAIN s : m = s[i]
      BY DEF ToSet
    <2>2. n[i] \in ToSet(n) /\ Touches(n[i]) /\ n[i].time = m.time
      BY <1>2, <1>3, <1>5, <1>7, <2>1 DEF Touches, Kin
    <2> QED  BY <2>2
  <1> QED  BY <1>4, <1>6, <1>7 DEF Datable, n

\* The three feeds of an explorer name their movements in three ways.
LEMMA EvmNames ==
    \A x, y : /\ Name("tx", x) = <<x.hash>>
              /\ Name("token", x) = <<x.hash, x.tag>>
              /\ Name("internal", x) = <<x.hash, "internal", x.tag>>
              /\ Name("tx", x) # Name("token", y)
              /\ Name("tx", x) # Name("internal", y)
              /\ Name("token", x) # Name("internal", y)
              /\ Name("token", x) = Name("token", y) => x.tag = y.tag
  <1>1. \A x : /\ Name("tx", x) = <<x.hash>>
               /\ Name("token", x) = <<x.hash, x.tag>>
               /\ Name("internal", x) = <<x.hash, "internal", x.tag>>
    BY DEF Name, Tron
  <1>2. \A h, k, a, b, c : /\ <<h>> # <<k, a>> /\ <<h>> # <<k, b, a>> /\ <<h, c>> # <<k, b, a>>
                           /\ <<h, a>> = <<k, b>> => a = b
    OBVIOUS
  <1> SUFFICES ASSUME NEW x, NEW y
               PROVE  /\ Name("tx", x) # Name("token", y)
                      /\ Name("tx", x) # Name("internal", y)
                      /\ Name("token", x) # Name("internal", y)
                      /\ Name("token", x) = Name("token", y) => x.tag = y.tag
    BY <1>1
  <1> DEFINE h == x.hash
             k == y.hash
             u == x.tag
             v == y.tag
  <1>3. /\ Name("tx", x) = <<h>> /\ Name("token", x) = <<h, u>>
        /\ Name("token", y) = <<k, v>> /\ Name("internal", y) = <<k, "internal", v>>
    BY <1>1
  <1> HIDE DEF h, k, u, v
  <1>4. /\ <<h>> # <<k, v>> /\ <<h>> # <<k, "internal", v>> /\ <<h, u>> # <<k, "internal", v>>
        /\ <<h, u>> = <<k, v>> => u = v
    BY <1>2
  <1>5. /\ Name("tx", x) # Name("token", y)
        /\ Name("tx", x) # Name("internal", y)
        /\ Name("token", x) # Name("internal", y)
        /\ Name("token", x) = Name("token", y) => u = v
    BY <1>3, <1>4
  <1> QED  BY <1>5 DEF u, v

\* Which movements make the records of a page of an explorer: a, b, and c are
\* its normal, token, and internal ones.
Events(b) == Mine(Numbered(b))
Normal(a) == Keep(a, {i \in DOMAIN a : a[i].value # 0 /\ Touches(a[i])})
EvmClaims(a, b, c) ==
    Claims("token", ToSet(Events(b))) \cup Claims("internal", ToSet(Traces(a, c)))
        \cup Claims("tx", ToSet(Normal(a)))

EvmRecords(a, b, c, l) ==
    /\ ToSet(Events(b)) = {x \in ToSet(Numbered(b)) : Touches(x)}
    /\ ToSet(Normal(a)) = {x \in ToSet(a) : x.value # 0 /\ Touches(x)}
    /\ ToSet(Traces(a, c)) =
         {x \in ToSet(c) : /\ x.value # 0 /\ Touches(x)
                           /\ \A y \in ToSet(Mine(a)) : MovementKey(y) # MovementKey(x)}
    /\ \E t : /\ Array(t) /\ EvmPage(a, b, c, l) = Cut(Newest(t), l)
              /\ \A r \in ToSet(t) : \E d \in EvmClaims(a, b, c) : Tale(r, d)
              /\ \A d \in EvmClaims(a, b, c) : \E r \in ToSet(t) : Tale(r, d)

\* The records that a page of an explorer is cut from tell of these movements, and of
\* no other.
LEMMA EvmRecordsTell ==
    ASSUME NEW a, NEW b, NEW c, Array(a), Array(b), Array(c),
           Datable(a), Datable(b), Datable(c), NEW l
    PROVE  EvmRecords(a, b, c, l)
  <1> DEFINE e == Events(b)
             g == Traces(a, c)
             k == Normal(a)
             te == [i \in DOMAIN e |-> Show(e[i], <<e[i].hash, e[i].tag>>)]
             tg == [i \in DOMAIN g |-> Show(g[i], <<g[i].hash, "internal", g[i].tag>>)]
             tk == [i \in DOMAIN k |-> Show(k[i], <<k[i].hash>>)]
             t == te \o tg \o tk
  <1>1. EvmPage(a, b, c, l) = Cut(Newest(t), l)
    BY DEF EvmPage, Events, Normal
  <1>2. Array(e) /\ ToSet(e) = {x \in ToSet(Numbered(b)) : Touches(x)}
    BY NumberedFits, MineFits DEF Events
  <1>3. /\ Array(g)
        /\ ToSet(g) = {x \in ToSet(c) : /\ x.value # 0 /\ Touches(x)
                                        /\ \A y \in ToSet(Mine(a)) : MovementKey(y) # MovementKey(x)}
    <2> DEFINE Q == {i \in DOMAIN c :
                       /\ c[i].value # 0 /\ Touches(c[i])
                       /\ \A y \in ToSet(Mine(a)) : MovementKey(y) # MovementKey(c[i])}
    <2>1. g = Keep(c, Q) /\ Q \in SUBSET DOMAIN c
      BY DEF Traces
    <2>2. {c[i] : i \in Q} = {x \in ToSet(c) : /\ x.value # 0 /\ Touches(x)
                                /\ \A y \in ToSet(Mine(a)) : MovementKey(y) # MovementKey(x)}
      BY DEF ToSet
    <2> HIDE DEF Q, g
    <2>3. Array(Keep(c, Q)) /\ ToSet(Keep(c, Q)) = {c[i] : i \in Q}
      BY <2>1, KeepsElements
    <2> QED  BY <2>1, <2>2, <2>3
  <1>4. Array(k) /\ ToSet(k) = {x \in ToSet(a) : x.value # 0 /\ Touches(x)}
    <2> DEFINE Q == {i \in DOMAIN a : a[i].value # 0 /\ Touches(a[i])}
    <2>1. k = Keep(a, Q) /\ Q \in SUBSET DOMAIN a
      BY DEF Normal
    <2>2. {a[i] : i \in Q} = {x \in ToSet(a) : x.value # 0 /\ Touches(x)}
      BY DEF ToSet
    <2> HIDE DEF Q, k
    <2>3. Array(Keep(a, Q)) /\ ToSet(Keep(a, Q)) = {a[i] : i \in Q}
      BY <2>1, KeepsElements
    <2> QED  BY <2>1, <2>2, <2>3
  <1> HIDE DEF e, g, k
  <1>5. /\ Array(te)
        /\ \A r \in ToSet(te) : \E d \in Claims("token", ToSet(e)) : Tale(r, d)
        /\ \A d \in Claims("token", ToSet(e)) : \E r \in ToSet(te) : Tale(r, d)
    <2>1. te = [i \in DOMAIN e |-> te[i]]
          /\ \A i \in DOMAIN e : Tale(te[i], [name |-> Name("token", e[i]), move |-> e[i]])
      BY EvmNames, ShowTells
    <2> HIDE DEF te
    <2> QED  BY <1>2, <2>1, MapTells
  <1>6. /\ Array(tg)
        /\ \A r \in ToSet(tg) : \E d \in Claims("internal", ToSet(g)) : Tale(r, d)
        /\ \A d \in Claims("internal", ToSet(g)) : \E r \in ToSet(tg) : Tale(r, d)
    <2>1. tg = [i \in DOMAIN g |-> tg[i]]
          /\ \A i \in DOMAIN g : Tale(tg[i], [name |-> Name("internal", g[i]), move |-> g[i]])
      BY EvmNames, ShowTells
    <2> HIDE DEF tg
    <2> QED  BY <1>3, <2>1, MapTells
  <1>7. /\ Array(tk)
        /\ \A r \in ToSet(tk) : \E d \in Claims("tx", ToSet(k)) : Tale(r, d)
        /\ \A d \in Claims("tx", ToSet(k)) : \E r \in ToSet(tk) : Tale(r, d)
    <2>1. tk = [i \in DOMAIN k |-> tk[i]]
          /\ \A i \in DOMAIN k : Tale(tk[i], [name |-> Name("tx", k[i]), move |-> k[i]])
      BY EvmNames, ShowTells
    <2> HIDE DEF tk
    <2> QED  BY <1>4, <2>1, MapTells
  <1> HIDE DEF te, tg, tk
  <1>8. Array(t) /\ ToSet(t) = ToSet(te) \cup ToSet(tg) \cup ToSet(tk)
    <2>1. Array(te \o tg) /\ ToSet(te \o tg) = ToSet(te) \cup ToSet(tg)
      BY <1>5, <1>6, ConcatFits
    <2>2. Array(t) /\ ToSet(t) = ToSet(te \o tg) \cup ToSet(tk)
      BY <1>7, <2>1, ConcatFits
    <2> HIDE DEF t
    <2> QED  BY <2>1, <2>2
  <1> HIDE DEF t
  <1> DEFINE E == Claims("token", ToSet(e))
             G == Claims("internal", ToSet(g))
             K == Claims("tx", ToSet(k))
  <1>9. EvmClaims(a, b, c) = E \cup G \cup K
    BY DEF EvmClaims, e, g, k
  <1>10. /\ \A r \in ToSet(t) : \E d \in EvmClaims(a, b, c) : Tale(r, d)
         /\ \A d \in EvmClaims(a, b, c) : \E r \in ToSet(t) : Tale(r, d)
    <2> HIDE DEF E, G, K
    <2>1. /\ \A r \in ToSet(te) : \E d \in E : Tale(r, d)
          /\ \A d \in E : \E r \in ToSet(te) : Tale(r, d)
          /\ \A r \in ToSet(tg) : \E d \in G : Tale(r, d)
          /\ \A d \in G : \E r \in ToSet(tg) : Tale(r, d)
          /\ \A r \in ToSet(tk) : \E d \in K : Tale(r, d)
          /\ \A d \in K : \E r \in ToSet(tk) : Tale(r, d)
      BY <1>5, <1>6, <1>7 DEF E, G, K
    <2> QED  BY <1>8, <1>9, <2>1
  <1> QED  BY <1>1, <1>2, <1>3, <1>4, <1>8, <1>10 DEF EvmRecords, e, g, k

\* The page of an explorer's three feeds hides nothing: an internal movement that is
\* left out is a normal one told twice.
LEMMA EvmIsWhole ==
    ASSUME FeedsInv, \A f \in Explorer : got[f] # Null, NEW l \in Nat \ {0}
    PROVE  Whole(got, l, "explorer",
                 EvmPage(got["tx"].moves, got["token"].moves, got["internal"].moves, l))
  <1> DEFINE a == got["tx"].moves
             b == got["token"].moves
             c == got["internal"].moves
             P == EvmPage(a, b, c, l)
             C == EvmClaims(a, b, c)
  <1>0. Explorer \subseteq RowFeeds \ {"helius"} /\ {"tx", "token", "internal"} = Explorer
    BY RowFeedsAre DEF Explorer
  <1>1. /\ Array(a) /\ Datable(a) /\ Array(b) /\ Datable(b) /\ Array(c) /\ Datable(c)
        /\ \A x \in ToSet(a) \cup ToSet(c) : x.asset = Coin
    <2>1. /\ Array(a) /\ Datable(a) /\ Array(b) /\ Datable(b) /\ Array(c) /\ Datable(c)
      BY <1>0, FeedArrays
    <2>2. \A x \in ToSet(a) : Tagged("tx", x)
      BY <1>0 DEF FeedsInv, Tells
    <2>3. \A x \in ToSet(c) : Tagged("internal", x)
      BY <1>0 DEF FeedsInv, Tells
    <2> QED  BY <2>1, <2>2, <2>3 DEF Tagged
  <1>2. Array(Numbered(b)) /\ Datable(Numbered(b))
    BY <1>1, NumberedFits
  <1>3. /\ Apart("tx", a) = a /\ Apart("internal", c) = c /\ Apart("token", b) = Numbered(b)
    BY DEF Apart
  <1>4. /\ \A x, y \in ToSet(a) : Name("tx", x) = Name("tx", y) => Alike(x, y)
        /\ \A x, y \in ToSet(c) : Name("internal", x) = Name("internal", y) => Alike(x, y)
        /\ \A x, y \in ToSet(Numbered(b)) : Name("token", x) = Name("token", y) => Alike(x, y)
    <2>1. "tx" \in Explorer /\ "token" \in Explorer /\ "internal" \in Explorer
      BY <1>0
    <2>2. \A f \in Explorer : \A x, y \in ToSet(Apart(f, got[f].moves)) :
            Name(f, x) = Name(f, y) => Alike(x, y)
      BY <1>0, UniqueNames
    <2> QED  BY <1>3, <2>1, <2>2
  <1>5. /\ ToSet(Events(b)) = {x \in ToSet(Numbered(b)) : Touches(x)}
        /\ ToSet(Normal(a)) = {x \in ToSet(a) : x.value # 0 /\ Touches(x)}
        /\ ToSet(Traces(a, c)) =
             {x \in ToSet(c) : /\ x.value # 0 /\ Touches(x)
                               /\ \A y \in ToSet(Mine(a)) : MovementKey(y) # MovementKey(x)}
        /\ \E t : /\ Array(t) /\ P = Cut(Newest(t), l)
                  /\ \A r \in ToSet(t) : \E d \in C : Tale(r, d)
                  /\ \A d \in C : \E r \in ToSet(t) : Tale(r, d)
    <2> HIDE DEF a, b, c
    <2>1. EvmRecords(a, b, c, l)
      BY <1>1, EvmRecordsTell
    <2> QED  BY <2>1 DEF EvmRecords
  <1>6. PICK t : /\ Array(t) /\ P = Cut(Newest(t), l)
                 /\ \A r \in ToSet(t) : \E d \in C : Tale(r, d)
                 /\ \A d \in C : \E r \in ToSet(t) : Tale(r, d)
    BY <1>5
  <1>7. Array(P)
    <2> HIDE DEF a, b, c
    <2> QED  BY <1>1, EvmPageFits DEF Shaped
  <1> HIDE DEF a, b, c, P
  <1>8. ASSUME NEW d \in C
        PROVE  \/ d.name = Name("token", d.move) /\ d.move \in ToSet(Numbered(b))
               \/ d.name = Name("internal", d.move) /\ d.move \in ToSet(c)
               \/ d.name = Name("tx", d.move) /\ d.move \in ToSet(a)
    BY <1>5 DEF EvmClaims, Claims
  <1>9. /\ \A x \in ToSet(Events(b)) : [name |-> Name("token", x), move |-> x] \in C
        /\ \A x \in ToSet(Traces(a, c)) : [name |-> Name("internal", x), move |-> x] \in C
        /\ \A x \in ToSet(Normal(a)) : [name |-> Name("tx", x), move |-> x] \in C
    BY DEF EvmClaims, Claims
  <1> HIDE DEF C
  <1>10. \A d \in C : Met(P, l, d)
    <2>1. \A d \in C : d.move.time \in Int
      BY <1>1, <1>2, <1>8 DEF Datable
    <2>2. ASSUME NEW d \in C, NEW e \in C, d.name = e.name
          PROVE  Alike(d.move, e.move)
      <3> DEFINE x == d.move
                 y == e.move
      <3>0. /\ Name("tx", x) # Name("token", y) /\ Name("tx", y) # Name("token", x)
            /\ Name("tx", x) # Name("internal", y) /\ Name("tx", y) # Name("internal", x)
            /\ Name("token", x) # Name("internal", y) /\ Name("token", y) # Name("internal", x)
        BY EvmNames
      <3>1. CASE d.name = Name("token", d.move) /\ d.move \in ToSet(Numbered(b))
        <4>1. e.name = Name("token", e.move) /\ e.move \in ToSet(Numbered(b))
          BY <1>8, <2>2, <3>0, <3>1
        <4> QED  BY <1>4, <2>2, <3>1, <4>1
      <3>2. CASE d.name = Name("internal", d.move) /\ d.move \in ToSet(c)
        <4>1. e.name = Name("internal", e.move) /\ e.move \in ToSet(c)
          BY <1>8, <2>2, <3>0, <3>2
        <4> QED  BY <1>4, <2>2, <3>2, <4>1
      <3>3. CASE d.name = Name("tx", d.move) /\ d.move \in ToSet(a)
        <4>1. e.name = Name("tx", e.move) /\ e.move \in ToSet(a)
          BY <1>8, <2>2, <3>0, <3>3
        <4> QED  BY <1>4, <2>2, <3>3, <4>1
      <3> QED  BY <1>8, <3>1, <3>2, <3>3
    <2> QED  BY <1>6, <2>1, <2>2, ClaimsAreMet
  <1>11. ASSUME NEW m \in ToSet(Mine(b))
         PROVE  \/ Full(P, l, m.time)
                \/ Cardinality(Sightings(P, m))
                     >= Cardinality({x \in ToSet(Numbered(b)) : [x EXCEPT !.tag = m.tag] = m})
    <2>1. IsMove(m) /\ Touches(m)
      BY <1>1, MineFits DEF Datable
    <2>2. \A x \in ToSet(Numbered(b)) :
            IsMove(x) /\ (Touches(x) => Met(P, l, [name |-> Name("token", x), move |-> x]))
      BY <1>2, <1>5, <1>9, <1>10 DEF Datable
    <2>3. \A x, y \in ToSet(Numbered(b)) : Name("token", x) = Name("token", y) => x.tag = y.tag
      BY EvmNames
    <2> QED  BY <1>2, <1>7, <2>1, <2>2, <2>3, FeedIsWhole
  <1>12. ASSUME NEW m \in ToSet(Mine(a)), m.value # 0
         PROVE  Full(P, l, m.time) \/ \E i \in DOMAIN P : Shows(P[i], m)
    <2>1. m \in ToSet(Normal(a))
      BY <1>1, <1>5, <1>12, MineFits
    <2>2. Met(P, l, [name |-> Name("tx", m), move |-> m])
      BY <1>9, <1>10, <2>1
    <2> QED  BY <2>2 DEF Met
  <1>13. ASSUME NEW m \in ToSet(Mine(c)), m.value # 0
         PROVE  Full(P, l, m.time) \/ \E i \in DOMAIN P : Shows(P[i], m)
    <2>1. m \in ToSet(c) /\ Touches(m)
      BY <1>1, MineFits
    <2>2. CASE m \in ToSet(Traces(a, c))
      <3>1. Met(P, l, [name |-> Name("internal", m), move |-> m])
        BY <1>9, <1>10, <2>2
      <3> QED  BY <3>1 DEF Met
    <2>3. CASE m \notin ToSet(Traces(a, c))
      <3>1. PICK x \in ToSet(Mine(a)) : MovementKey(x) = MovementKey(m)
        BY <1>5, <1>13, <2>1, <2>3
      <3>2. /\ x.hash = m.hash /\ x.from = m.from /\ x.to = m.to /\ x.value = m.value
            /\ x.time = m.time
        BY <3>1 DEF MovementKey
      <3>3. x \in ToSet(a)
        BY <1>1, MineFits
      <3>4. Alike(x, m)
        BY <1>1, <2>1, <3>2, <3>3 DEF Alike
      <3>5. Full(P, l, x.time) \/ \E i \in DOMAIN P : Shows(P[i], x)
        BY <1>12, <1>13, <3>2
      <3> QED  BY <3>2, <3>4, <3>5, AlikeIsShown
    <2> QED  BY <2>2, <2>3
  <1>14. /\ \A m \in ToSet(Mine(a)) : m.value = 0 \/ Full(P, l, m.time) \/ Cardinality(Sightings(P, m)) >= 1
         /\ \A m \in ToSet(Mine(c)) : m.value = 0 \/ Full(P, l, m.time) \/ Cardinality(Sightings(P, m)) >= 1
    BY <1>7, <1>12, <1>13, ShownOnce
  <1>15. Used("explorer") = {"tx", "token", "internal"}
    BY <1>0 DEF Used, Feeds
  <1>16. Whole(got, l, "explorer", P)
    <2> SUFFICES ASSUME NEW f \in {"tx", "token", "internal"}, NEW m \in ToSet(Mine(got[f].moves))
                 PROVE  \/ m.value = 0
                        \/ Full(P, l, m.time)
                        \/ Cardinality(Sightings(P, m))
                             >= IF f \in {"tx", "internal"} THEN 1
                                ELSE Cardinality({t1 \in ToSet(Apart(f, got[f].moves)) : [t1 EXCEPT !.tag = m.tag] = m})
      BY <1>15 DEF Whole
    <2>1. CASE f = "token"
      BY <1>3, <1>11, <2>1 DEF b
    <2>2. CASE f = "tx"
      BY <1>14, <2>2 DEF a
    <2>3. CASE f = "internal"
      BY <1>14, <2>3 DEF c
    <2> QED  BY <2>1, <2>2, <2>3
  <1> QED  BY <1>16 DEF P, a, b, c

\* The feeds that each answer is made of.
LEMMA UsedAre ==
    /\ Used("tron") = Tron /\ Needed("tron") = Tron
    /\ Used("alchemy") = Transfer /\ Needed("alchemy") = Transfer
    /\ Used("times") = Transfer /\ Needed("times") = Transfer
    /\ Used("explorer") = Explorer /\ Needed("explorer") = {"tx", "token"}
    /\ Used("helius") = {"helius"} /\ Needed("helius") = {"helius"}
    /\ Needed("detail") = {}
  BY DEF Used, Needed, Feeds, Tron, Transfer, Explorer

\* tronHistory keeps the invariant.
LEMMA TronKeeps ==
    ASSUME HistoryInv, TronDone, UNCHANGED <<setup, limit>>
    PROVE  HistoryInv'
  <1> DEFINE R == TronPage(got["trc20"].moves, got["native"].moves, got["traces"].moves, limit)
  <1>1. /\ stage = "tron" /\ (\A f \in Tron : got[f] # Null) /\ got' = got
        /\ IF ~Ok(Tron) /\ R = <<>> THEN Fail ELSE Answer("ok", R)
    BY DEF TronDone, AllRead, Feeds
  <1>2. FeedsInv /\ limit \in Nat \ {0}
    BY LimitsFit DEF HistoryInv, Bounded
  <1>3. Tron \subseteq RowFeeds
    BY RowFeedsAre DEF Tron
  <1>4. \A f \in Tron : Array(got[f].moves) /\ Datable(got[f].moves)
    BY <1>1, <1>2, <1>3, FeedArrays
  <1>5. /\ Shaped(R, limit)
        /\ \A r \in ToSet(R) : \E m \in ToSet(got["trc20"].moves) \cup ToSet(got["native"].moves)
                                          \cup ToSet(got["traces"].moves) : Kin(r, m)
    BY <1>2, <1>4, TronPageFits DEF Tron
  <1>8. Whole(got, limit, stage, R)
    BY <1>1, <1>2, TronIsWhole
  <1> HIDE DEF R
  <1>6. CASE ~Ok(Tron) /\ R = <<>>
    BY <1>1, <1>6, FailKeeps
  <1>7. CASE ~(~Ok(Tron) /\ R = <<>>)
    <2>1. \A r \in ToSet(R) : \E f \in Tron : \E m \in ToSet(got[f].moves) :
            r.hash = m.hash /\ r.status = m.status
      BY <1>5 DEF Tron, Kin
    <2>2. Vouched(got, Tron, R)
      BY <1>1, <1>2, <1>3, <2>1, KinAreVouched
    <2>3. R = <<>> => \A f \in Tron : Grounded(got, f)
      BY <1>1, <1>2, <1>3, <1>7, OkIsHeard DEF Ok
    <2>4. Backed(got, stage, R)
      BY <1>1, <2>2, <2>3, UsedAre DEF Backed
    <2> QED  BY <1>1, <1>5, <1>7, <1>8, <2>4, AnswerKeeps
  <1> QED  BY <1>6, <1>7

\* evmHistory keeps the invariant.
LEMMA ExplorerKeeps ==
    ASSUME HistoryInv, ExplorerDone, UNCHANGED <<setup, limit>>
    PROVE  HistoryInv'
  <1> DEFINE R == EvmPage(got["tx"].moves, got["token"].moves, got["internal"].moves, limit)
  <1>1. /\ stage = "explorer" /\ (\A f \in Explorer : got[f] # Null) /\ got' = got
        /\ IF Ok({"tx", "token"}) \/ R # <<>> THEN Answer("ok", R) ELSE Fail
    BY DEF ExplorerDone, AllRead, Feeds
  <1>2. FeedsInv /\ limit \in Nat \ {0}
    BY LimitsFit DEF HistoryInv, Bounded
  <1>3. Explorer \subseteq RowFeeds
    BY RowFeedsAre DEF Explorer
  <1>4. \A f \in Explorer : Array(got[f].moves) /\ Datable(got[f].moves)
    BY <1>1, <1>2, <1>3, FeedArrays
  <1>5. /\ Shaped(R, limit)
        /\ \A r \in ToSet(R) : \E m \in ToSet(got["tx"].moves) \cup ToSet(got["token"].moves)
                                          \cup ToSet(got["internal"].moves) : Kin(r, m)
    BY <1>2, <1>4, EvmPageFits DEF Explorer
  <1>8. Whole(got, limit, stage, R)
    BY <1>1, <1>2, EvmIsWhole
  <1> HIDE DEF R
  <1>6. CASE ~(Ok({"tx", "token"}) \/ R # <<>>)
    BY <1>1, <1>6, FailKeeps
  <1>7. CASE Ok({"tx", "token"}) \/ R # <<>>
    <2>1. \A r \in ToSet(R) : \E f \in Explorer : \E m \in ToSet(got[f].moves) :
            r.hash = m.hash /\ r.status = m.status
      BY <1>5 DEF Explorer, Kin
    <2>2. Vouched(got, Explorer, R)
      BY <1>1, <1>2, <1>3, <2>1, KinAreVouched
    <2>3. R = <<>> => \A f \in {"tx", "token"} : Grounded(got, f)
      BY <1>1, <1>2, <1>3, <1>7, OkIsHeard DEF Ok, Explorer
    <2>4. Backed(got, stage, R)
      BY <1>1, <2>2, <2>3, UsedAre DEF Backed
    <2> QED  BY <1>1, <1>5, <1>7, <1>8, <2>4, AnswerKeeps
  <1> QED  BY <1>6, <1>7

\* Helius' answer keeps the invariant.
LEMMA HeliusKeeps ==
    ASSUME HistoryInv, HeliusDone, UNCHANGED <<setup, limit>>
    PROVE  HistoryInv'
  <1> DEFINE R == HeliusPage(got["helius"].moves, limit)
  <1>1. stage = "helius" /\ got["helius"] # Null
    BY DEF HeliusDone, AllRead, Feeds
  <1>2. FeedsInv /\ limit \in Nat
    BY LimitsFit DEF HistoryInv, Bounded
  <1>3. "helius" \in RowFeeds
    BY RowFeedsAre
  <1>4. Array(got["helius"].moves)
    BY <1>1, <1>2, <1>3, FeedArrays
  <1>5. Shown(R, got["helius"].moves)
    BY <1>2, <1>4, HeliusPageFits
  <1> HIDE DEF R
  <1>6. CASE got["helius"].ok /\ Answer("ok", R) /\ UNCHANGED got
    <2>1. Vouched(got, {"helius"}, R)
      BY <1>1, <1>2, <1>3, <1>5, KinAreVouched DEF Shown, Kin
    <2>2. Grounded(got, "helius")
      BY <1>1, <1>2, <1>3, <1>6, OkIsHeard
    <2>3. Backed(got, stage, R)
      BY <1>1, <2>1, <2>2, UsedAre DEF Backed
    <2> QED  BY <1>1, <1>6, <2>3, AnswerKeeps DEF Merging
  <1>7. CASE Enter("owner") /\ got' = Unheard
    BY <1>1, <1>7, EnterKeeps DEF Stages
  <1> QED  BY <1>6, <1>7 DEF HeliusDone, R

\* Falling back from Alchemy keeps the invariant.
LEMMA FallbackKeeps ==
    ASSUME HistoryInv, stage # "idle", Fallback, UNCHANGED <<setup, limit>>
    PROVE  HistoryInv'
  <1>1. (Fail /\ UNCHANGED got) \/ (Enter("explorer") /\ got' = Unheard)
    BY DEF Fallback
  <1>2. CASE Fail /\ UNCHANGED got
    BY <1>2, FailKeeps
  <1>3. CASE Enter("explorer") /\ got' = Unheard
    BY <1>3, EnterKeeps DEF Stages
  <1> QED  BY <1>1, <1>2, <1>3

\* The two directions of Alchemy, in either order.
LEMMA DirectionsJoin ==
    ASSUME FeedsInv, \A f \in Transfer : got[f] # Null,
           NEW f \in Transfer, NEW g \in Transfer, f # g
    PROVE  LET moves == got[f].moves \o got[g].moves
           IN  /\ Array(moves) /\ Datable(moves)
               /\ \A m \in ToSet(moves) : \E x \in Transfer : m \in ToSet(got[x].moves)
               /\ \A x \in Transfer : ToSet(got[x].moves) \subseteq ToSet(moves)
               /\ moves # <<>> => \E m \in ToSet(moves) : Touches(m)
  <1> DEFINE a == got[f].moves
             b == got[g].moves
  <1>1. f \in RowFeeds /\ g \in RowFeeds
    BY RowFeedsAre DEF Transfer
  <1>2. Array(a) /\ Datable(a) /\ Array(b) /\ Datable(b)
    BY <1>1, FeedArrays
  <1>3. /\ a # <<>> => \E m \in ToSet(a) : Touches(m)
        /\ b # <<>> => \E m \in ToSet(b) : Touches(m)
    BY <1>1 DEF FeedsInv, Tells
  <1>4. /\ \A m \in ToSet(a) : \E x \in Transfer : m \in ToSet(got[x].moves)
        /\ \A m \in ToSet(b) : \E x \in Transfer : m \in ToSet(got[x].moves)
    OBVIOUS
  <1> HIDE DEF a, b
  <1>5. /\ Array(a \o b) /\ ToSet(a \o b) = ToSet(a) \cup ToSet(b)
        /\ a \o b = <<>> <=> a = <<>> /\ b = <<>>
    BY <1>2, ConcatFits
  <1>6. Datable(a \o b)
    BY <1>2, <1>5 DEF Datable
  <1>7. \A x \in Transfer : ToSet(got[x].moves) \subseteq ToSet(a \o b)
    <2>1. \A x \in Transfer : x = f \/ x = g
      BY DEF Transfer
    <2>2. ToSet(a) \subseteq ToSet(a \o b) /\ ToSet(b) \subseteq ToSet(a \o b)
      BY <1>5
    <2> QED  BY <2>1, <2>2 DEF a, b
  <1>8. /\ \A m \in ToSet(a \o b) : \E x \in Transfer : m \in ToSet(got[x].moves)
        /\ a \o b # <<>> => \E m \in ToSet(a \o b) : Touches(m)
    BY <1>3, <1>4, <1>5
  <1> QED  BY <1>5, <1>6, <1>7, <1>8 DEF a, b

\* Alchemy's two directions, once joined, keep the invariant.
LEMMA AlchemyKeeps ==
    ASSUME HistoryInv, AlchemyDone, UNCHANGED <<setup, limit>>
    PROVE  HistoryInv'
  <1>1. stage = "alchemy" /\ \A f \in Transfer : got[f] # Null
    BY DEF AlchemyDone, AllRead, Feeds
  <1>2. FeedsInv /\ limit \in Nat \ {0}
    BY LimitsFit DEF HistoryInv, Bounded
  <1>3. Transfer \subseteq RowFeeds
    BY RowFeedsAre DEF Transfer
  <1>4. PICK f \in Transfer :
          LET moves == got[f].moves \o got[CHOOSE x \in Transfer : x # f].moves
          IN  CASE ~Ok(Transfer) /\ moves = <<>> -> Fallback
                [] Undated(moves) # {}           -> Enter("times") /\ page' = moves /\ UNCHANGED got
                [] OTHER                         -> Answer("ok", AlchemyPage(moves, limit)) /\ UNCHANGED got
    BY DEF AlchemyDone
  <1> DEFINE g == CHOOSE x \in Transfer : x # f
             moves == got[f].moves \o got[g].moves
  <1>5. g \in Transfer /\ g # f
    BY DEF Transfer
  <1>6. /\ Array(moves) /\ Datable(moves)
        /\ \A m \in ToSet(moves) : \E x \in Transfer : m \in ToSet(got[x].moves)
        /\ \A x \in Transfer : ToSet(got[x].moves) \subseteq ToSet(moves)
        /\ moves # <<>> => \E m \in ToSet(moves) : Touches(m)
    <2> HIDE DEF g
    <2> QED  BY <1>1, <1>2, <1>5, DirectionsJoin
  <1>7. \/ ~Ok(Transfer) /\ moves = <<>> /\ Fallback
        \/ /\ Ok(Transfer) \/ moves # <<>>
           /\ Undated(moves) # {}
           /\ Enter("times") /\ page' = moves /\ UNCHANGED got
        \/ /\ Ok(Transfer) \/ moves # <<>>
           /\ Answer("ok", AlchemyPage(moves, limit)) /\ UNCHANGED got
    <2>1. moves = <<>> => Undated(moves) = {}
      <3> SUFFICES ASSUME moves = <<>> PROVE Undated(moves) = {}
        OBVIOUS
      <3>1. DOMAIN moves = {}
        OBVIOUS
      <3> HIDE DEF moves
      <3> QED  BY <3>1 DEF Undated
    <2> DEFINE none == ~Ok(Transfer) /\ moves = <<>>
               some == Undated(moves) # {}
               dated == Enter("times") /\ page' = moves /\ UNCHANGED got
               told == Answer("ok", AlchemyPage(moves, limit)) /\ UNCHANGED got
    <2>2. (CASE none -> Fallback [] some -> dated [] OTHER -> told)
      BY <1>4
    <2>3. ~(none /\ some)
      BY <2>1
    <2>4. (none /\ Fallback) \/ (~none /\ some /\ dated) \/ (~none /\ told)
      <3> HIDE DEF none, some, dated, told
      <3> QED  BY <2>2, <2>3
    <2> HIDE DEF moves
    <2> QED  BY <2>4
  <1> HIDE DEF moves
  <1>8. CASE Fallback
    BY <1>1, <1>8, FallbackKeeps
  <1>9. CASE Undated(moves) # {} /\ Enter("times") /\ page' = moves /\ UNCHANGED got
    <2>1. stage' = "times" /\ UNCHANGED <<reply, cached>> /\ page' = moves /\ got' = got
      BY <1>9 DEF Enter
    <2>2. moves # <<>>
      <3> SUFFICES ASSUME moves = <<>> PROVE Undated(moves) = {}
        BY <1>9
      <3>1. DOMAIN moves = {}
        OBVIOUS
      <3> QED  BY <3>1 DEF Undated
    <2>3. TimesInv'
      <3>1. \A x \in Transfer : got'[x] # Null
        BY <1>1, <2>1
      <3>2. Array(page') /\ Datable(page') /\ \E m \in ToSet(page') : Touches(m)
        BY <1>6, <2>1, <2>2
      <3>3. /\ \A m \in ToSet(page') : \E x \in Transfer : m \in ToSet(got'[x].moves)
            /\ \A x \in Transfer : ToSet(got'[x].moves) \subseteq ToSet(page')
        BY <1>6, <2>1
      <3>4. Joint'
        BY <3>2, <3>3 DEF Joint
      <3>5. got'["times"] = Null
        BY <1>1, <2>1 DEF HistoryInv, TimesInv
      <3> QED  BY <2>1, <3>1, <3>4, <3>5 DEF TimesInv
    <2>4. FeedsInv'
      BY <1>2, <2>1, FeedsKeep
    <2> QED  BY <1>1, <2>1, <2>3, <2>4, GoesOn DEF Stages
  <1>10. CASE /\ Ok(Transfer) \/ moves # <<>>
              /\ Answer("ok", AlchemyPage(moves, limit)) /\ UNCHANGED got
    <2> DEFINE R == AlchemyPage(moves, limit)
    <2>1. /\ Shaped(R, limit) /\ Shown(R, moves)
          /\ R = <<>> => \A m \in ToSet(moves) : ~Touches(m)
      BY <1>2, <1>6, AlchemyPageFits
    <2> HIDE DEF R
    <2>2. \A r \in ToSet(R) : \E x \in Transfer : \E m \in ToSet(got[x].moves) :
            r.hash = m.hash /\ r.status = m.status
      BY <1>6, <2>1 DEF Shown, Kin
    <2>3. Vouched(got, Transfer, R)
      BY <1>1, <1>2, <1>3, <2>2, KinAreVouched
    <2>4. R = <<>> => \A x \in Transfer : Grounded(got, x)
      BY <1>1, <1>2, <1>3, <1>6, <1>10, <2>1, OkIsHeard DEF Ok
    <2>5. Backed(got, stage, R)
      BY <1>1, <2>3, <2>4, UsedAre DEF Backed
    <2>6. \A x, y \in ToSet(moves) : x.tag = y.tag => Alike(x, y)
      BY <1>1, <1>2, <1>6, TransferNames
    <2>7. \A m \in ToSet(moves) : Touches(m) => Met(R, limit, [name |-> m.tag, move |-> m])
      BY <1>2, <1>6, <2>6, TransfersAreMet DEF R
    <2>8. \A x \in Transfer : \A m \in ToSet(got[x].moves) :
            Touches(m) => Met(R, limit, [name |-> m.tag, move |-> m])
      BY <1>6, <2>7
    <2>9. Whole(got, limit, stage, R)
      BY <1>1, <1>2, <2>1, <2>8, AlchemyIsWhole DEF Shaped
    <2> QED  BY <1>1, <1>10, <2>1, <2>5, <2>9, AnswerKeeps DEF R
  <1> QED  BY <1>7, <1>8, <1>9, <1>10

\* The block times that Alchemy was asked for keep the invariant.
LEMMA TimesKeeps ==
    ASSUME HistoryInv, TimesDone, UNCHANGED <<setup, limit>>
    PROVE  HistoryInv'
  <1>1. stage = "times" /\ got["times"] # Null
    BY DEF TimesDone, AllRead, Feeds, Transfer
  <1>2. FeedsInv /\ limit \in Nat \ {0}
    BY LimitsFit DEF HistoryInv, Bounded
  <1>3. Transfer \subseteq RowFeeds
    BY RowFeedsAre DEF Transfer
  <1>4. /\ \A f \in Transfer : got[f] # Null
        /\ Joint
        /\ got["times"].ok => /\ got["times"].moves \in Answers("times")
                              /\ BlockTimestamps(got["times"].moves, Undated(page))
    BY <1>1 DEF HistoryInv, TimesInv
  <1>5. CASE ~got["times"].ok
    <2>1. Fallback
      BY <1>5 DEF TimesDone
    <2> QED  BY <1>1, <2>1, FallbackKeeps
  <1>6. CASE got["times"].ok
    <2> DEFINE D == Dated(page, got["times"].moves)
               R == AlchemyPage(D, limit)
    <2>1. Answer("ok", R) /\ UNCHANGED got
      BY <1>6 DEF TimesDone
    <2>2. /\ Array(D) /\ Datable(D)
          /\ \A d \in ToSet(D) : \E m \in ToSet(page) : Redated(d, m)
          /\ \A m \in ToSet(page) : \E d \in ToSet(D) : Redated(d, m)
      BY <1>4, <1>6, DatedFits DEF Joint
    <2> HIDE DEF D
    <2>3. /\ Shaped(R, limit) /\ Shown(R, D)
          /\ R = <<>> => \A d \in ToSet(D) : ~Touches(d)
      BY <1>2, <2>2, AlchemyPageFits
    <2> HIDE DEF R
    <2>4. \A r \in ToSet(R) : \E f \in Transfer : \E m \in ToSet(got[f].moves) :
            r.hash = m.hash /\ r.status = m.status
      <3> SUFFICES ASSUME NEW r \in ToSet(R)
                   PROVE  \E f \in Transfer : \E m \in ToSet(got[f].moves) :
                            r.hash = m.hash /\ r.status = m.status
        OBVIOUS
      <3>1. PICK d \in ToSet(D) : Kin(r, d)
        BY <2>3 DEF Shown
      <3>2. PICK m \in ToSet(page) : d.hash = m.hash /\ d.status = m.status
        BY <2>2 DEF Redated, Alike
      <3>3. PICK f \in Transfer : m \in ToSet(got[f].moves)
        BY <1>4 DEF Joint
      <3> QED  BY <3>1, <3>2, <3>3 DEF Kin
    <2>5. Vouched(got, Transfer, R)
      BY <1>2, <1>3, <1>4, <2>4, KinAreVouched
    <2>6. R # <<>>
      <3>1. PICK m \in ToSet(page) : Touches(m)
        BY <1>4 DEF Joint
      <3>2. PICK d \in ToSet(D) : Redated(d, m)
        BY <2>2
      <3>3. Touches(d)
        BY <3>1, <3>2 DEF Redated, Alike, Touches
      <3> QED  BY <2>3, <3>3
    <2>7. Backed(got, stage, R)
      BY <1>1, <2>5, <2>6, UsedAre DEF Backed
    <2>8. ASSUME NEW x \in ToSet(D), NEW y \in ToSet(D), x.tag = y.tag
          PROVE  Alike(x, y)
      <3>1. PICK m \in ToSet(page) : Redated(x, m)
        BY <2>2
      <3>2. PICK n \in ToSet(page) : Redated(y, n)
        BY <2>2
      <3>3. Alike(m, n)
        <4>1. m.tag = n.tag
          BY <2>8, <3>1, <3>2 DEF Redated
        <4>2. PICK f \in Transfer : m \in ToSet(got[f].moves)
          BY <1>4 DEF Joint
        <4>3. PICK g \in Transfer : n \in ToSet(got[g].moves)
          BY <1>4 DEF Joint
        <4> QED  BY <1>2, <1>4, <4>1, <4>2, <4>3, TransferNames
      <3> QED  BY <3>1, <3>2, <3>3 DEF Redated, Alike
    <2>9. ASSUME NEW m \in ToSet(page), Touches(m)
          PROVE  Met(R, limit, [name |-> m.tag, move |-> m])
      <3>1. PICK d \in ToSet(D) : Redated(d, m)
        BY <2>2
      <3>2. Touches(d) /\ d.tag = m.tag /\ Alike(d, m) /\ d.time >= m.time
        BY <2>9, <3>1 DEF Redated, Alike, Touches
      <3>3. Met(R, limit, [name |-> d.tag, move |-> d])
        BY <1>2, <2>2, <2>8, <3>2, TransfersAreMet DEF R
      <3>4. CASE \E i \in DOMAIN R : R[i].id = d.tag /\ Shows(R[i], d)
        BY <3>2, <3>4, AlikeIsShown DEF Met
      <3>5. CASE Full(R, limit, d.time)
        <4>1. d.time \in Int /\ m.time \in Int
          BY <1>4, <2>2 DEF Datable, Joint
        <4>2. \A i \in DOMAIN R : R[i].time \in Int
          BY <2>2, <2>3 DEF Shown, Kin, Datable, ToSet
        <4>3. Full(R, limit, m.time)
          BY <3>2, <3>5, <4>1, <4>2 DEF Full
        <4> QED  BY <4>3 DEF Met
      <3> QED  BY <3>3, <3>4, <3>5 DEF Met
    <2>10. \A f \in Transfer : \A m \in ToSet(got[f].moves) :
             Touches(m) => Met(R, limit, [name |-> m.tag, move |-> m])
      BY <1>4, <2>9 DEF Joint
    <2>11. Whole(got, limit, stage, R)
      BY <1>1, <1>2, <1>4, <2>3, <2>10, AlchemyIsWhole DEF Shaped
    <2> QED  BY <1>1, <2>1, <2>3, <2>7, <2>11, AnswerKeeps
  <1> QED  BY <1>5, <1>6

\* The walk through Solana's signatures keeps the invariant.
LEMMA WalkKeeps ==
    ASSUME HistoryInv, Owner \/ Accounts \/ Detail \/ DetailDone
    PROVE  HistoryInv'
  <1>1. CASE Owner
    <2>1. stage = "owner" /\ UNCHANGED <<setup, limit, got>> /\ (Fail \/ Enter("accounts"))
      BY <1>1 DEF Owner
    <2>2. CASE Fail
      BY <2>1, <2>2, FailKeeps
    <2>3. CASE Enter("accounts")
      BY <2>1, <2>3, EnterKeeps DEF Stages
    <2> QED  BY <2>1, <2>2, <2>3
  <1>2. CASE Accounts
    <2>1. stage = "accounts" /\ UNCHANGED <<setup, limit, got>> /\ Enter("detail")
      BY <1>2 DEF Accounts
    <2> QED  BY <2>1, EnterKeeps DEF Stages
  <1>3. CASE Detail
    <2>1. /\ stage = "detail" /\ stage' = stage /\ UNCHANGED <<setup, limit, reply, cached>>
          /\ got' = got \/ got' = [got EXCEPT !["detail"] = Failed]
      BY <1>3 DEF Detail
    <2>2. FeedsInv /\ \A f \in RowFeeds : f # "detail"
      BY RowFeedsAre DEF HistoryInv
    <2>3. FeedsInv'
      <3>1. CASE got' = got
        BY <2>2, <3>1, FeedsKeep
      <3>2. CASE got' = [got EXCEPT !["detail"] = Failed]
        BY <2>2, <3>2 DEF FeedsInv, RowFeeds
      <3> QED  BY <2>1, <3>1, <3>2
    <2>4. TimesInv'
      BY <2>1 DEF TimesInv
    <2> QED  BY <2>1, <2>3, <2>4, GoesOn DEF Stages
  <1>4. CASE DetailDone
    <2>1. /\ stage = "detail" /\ UNCHANGED <<setup, limit, got>>
          /\ IF page = <<>> /\ got["detail"] # Null THEN Fail ELSE Answer("ok", page)
      BY <1>4 DEF DetailDone
    <2>2. CASE page = <<>> /\ got["detail"] # Null
      BY <2>1, <2>2, FailKeeps
    <2>3. CASE ~(page = <<>> /\ got["detail"] # Null)
      <3>1. Backed(got, stage, page)
        BY <2>1, <2>3, UsedAre DEF Backed
      <3> QED  BY <2>1, <2>3, <3>1, AnswerKeeps DEF Merging
    <2> QED  BY <2>2, <2>3
  <1> QED  BY <1>1, <1>2, <1>3, <1>4

\* A caller that leaves, and a page that is forgotten, keep the invariant.
LEMMA RestKeeps ==
    ASSUME HistoryInv, Leave \/ Expire \/ UNCHANGED historyVars
    PROVE  HistoryInv'
  <1>1. CASE Leave \/ UNCHANGED historyVars
    <2>1. UNCHANGED <<setup, stage, limit, got, page, reply, cached>>
      BY <1>1 DEF Leave, historyVars
    <2>2. Bounded' /\ FeedsInv' /\ TimesInv' /\ CacheInv' /\ ReplyInv'
      BY <2>1 DEF HistoryInv, Bounded, FeedsInv, TimesInv, Joint, Datable, CacheInv, ReplyInv, Answered
    <2> QED  BY <2>2 DEF HistoryInv
  <1>2. CASE Expire
    <2>1. stage = "idle" /\ UNCHANGED <<setup, stage, limit, got, page, reply>>
      BY <1>2 DEF Expire
    <2>2. PICK l \in Limits : cached' = [cached EXCEPT ![l] = Null]
      BY <1>2 DEF Expire
    <2>3. Bounded' /\ FeedsInv' /\ TimesInv' /\ ReplyInv'
      BY <2>1 DEF HistoryInv, Bounded, FeedsInv, TimesInv, Joint, ReplyInv, Answered
    <2>4. CacheInv'
      <3>1. CacheInv
        BY DEF HistoryInv
      <3>2. cached' = [k \in Limits |-> IF k = l THEN Null ELSE cached[k]]
        BY <2>2, <3>1 DEF CacheInv
      <3> QED  BY <3>1, <3>2 DEF CacheInv
    <2> QED  BY <2>3, <2>4 DEF HistoryInv
  <1> QED  BY <1>1, <1>2

\* Every step keeps the invariant.
LEMMA HistoryKeeps == HistoryInv /\ [HistoryNext]_historyVars => HistoryInv'
  <1> SUFFICES ASSUME HistoryInv, [HistoryNext]_historyVars PROVE HistoryInv'
    OBVIOUS
  <1>1. CASE Ask
    BY <1>1, AskKeeps
  <1>2. CASE \E f \in Every : Read(f)
    BY <1>2, ReadKeeps
  <1>3. CASE Joined
    <2>1. UNCHANGED <<setup, limit>> /\ (TronDone \/ AlchemyDone \/ TimesDone \/ ExplorerDone \/ HeliusDone)
      BY <1>3 DEF Joined
    <2> QED  BY <2>1, TronKeeps, AlchemyKeeps, TimesKeeps, ExplorerKeeps, HeliusKeeps
  <1>4. CASE Owner \/ Accounts \/ Detail \/ DetailDone
    BY <1>4, WalkKeeps
  <1>5. CASE Leave \/ Expire \/ UNCHANGED historyVars
    BY <1>5, RestKeeps
  <1> QED  BY <1>1, <1>2, <1>3, <1>4, <1>5 DEF HistoryNext, HistoryStep

\* The invariant holds in every state of every behaviour.
LEMMA HistoryAlways == HistorySpec => []HistoryInv
  BY HistoryStart, HistoryKeeps, PTL DEF HistorySpec

\* That a wallet has no history is never told, nor kept, on the strength of a
\* feed that failed or of a page without one sound row (history.go:178-180, 299-304,
\* upstream/alchemy.go:296-301).
THEOREM EmptinessIsProven == HistorySpec => []EmptyPageIsProven
  <1>1. HistoryInv => EmptyPageIsProven
    BY DEF HistoryInv, ReplyInv, Backed, Grounded, EmptyPageIsProven, RowsOf
  <1> QED  BY <1>1, HistoryAlways, PTL

\* Every merged page, whether it comes from upstream or out of the cache, is
\* newest first, names nothing twice and keeps to the limit asked for
\* (handlers/history.go:277-290, 446-460, 739-752).
THEOREM PagesAreShaped == HistorySpec => []PageShape
  <1>1. HistoryInv => PageShape
    BY DEF HistoryInv, ReplyInv, Formed, Merging, Shaped, PageShape
  <1> QED  BY <1>1, HistoryAlways, PTL

\* A movement is shown as executed or as failed only on the word of a row of
\* its transaction (upstream/history.go:18-53, 101-105).
THEOREM StatusesAreEvidence == HistorySpec => []StatusIsEvidence
  <1>1. HistoryInv => StatusIsEvidence
    BY DEF HistoryInv, ReplyInv, Backed, Vouched, StatusIsEvidence, RowsOf
  <1> QED  BY <1>1, HistoryAlways, PTL

\* A movement that a feed told of is on the page, as often as the feed tells it
\* apart, unless the page is full of newer ones: a shared transaction hash hides
\* nothing (history.go:116-118, 436-440).
THEOREM NothingIsHidden == HistorySpec => []NoMovementHidden
  <1>1. HistoryInv => NoMovementHidden
    BY DEF HistoryInv, ReplyInv, Whole, Full, Sightings, Merging, Merged, NoMovementHidden
  <1> QED  BY <1>1, HistoryAlways, PTL
=============================================================================
