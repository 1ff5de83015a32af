---------------------------- MODULE AshmemProofs ----------------------------
(***************************************************************************)
(* For any areas, ranges and sizes: the lists of ranges are exact whatever *)
(* users pin and unpin and the shrinker purges, and ashmem keeps what      *)
(* AshmemPages promises the user of an area.                               *)
(***************************************************************************)
EXTENDS Ashmem, SequenceTheorems, FiniteSetTheorems, NaturalsInduction,
  WellFoundedInduction, TLAPS

-----------------------------------------------------------------------------
(* Lists.                                                                  *)

LEMMA SubSeqFacts ==
  ASSUME NEW S, NEW s \in Seq(S), NEW m \in Int, NEW n \in Int,
         1 <= m, m <= n + 1, n <= Len(s)
  PROVE  /\ SubSeq(s, m, n) \in Seq(S)
         /\ Len(SubSeq(s, m, n)) = n - m + 1
         /\ \A i \in 1 .. n - m + 1 : SubSeq(s, m, n)[i] = s[m + i - 1]
<1>1. \A i \in m .. n : s[i] \in S
  <2> TAKE i \in m .. n
  <2>1. Len(s) \in Nat
    BY LenProperties
  <2>2. i \in 1 .. Len(s)
    BY <2>1
  <2> QED BY <2>2, ElementOfSeq
<1>2. /\ SubSeq(s, m, n) \in Seq(S)
      /\ Len(SubSeq(s, m, n)) = IF m <= n THEN n - m + 1 ELSE 0
      /\ \A i \in 1 .. n - m + 1 : SubSeq(s, m, n)[i] = s[m + i - 1]
  BY <1>1, SubSeqProperties
<1> QED BY <1>2

LEMMA RemoveAtFacts ==
  ASSUME NEW S, NEW s \in Seq(S), NEW k \in 1 .. Len(s)
  PROVE  /\ RemoveAt(s, k) \in Seq(S)
         /\ Len(RemoveAt(s, k)) = Len(s) - 1
         /\ \A i \in 1 .. Len(s) - 1 :
              RemoveAt(s, k)[i] = IF i < k THEN s[i] ELSE s[i + 1]
<1> DEFINE front == SubSeq(s, 1, k - 1)
           back == SubSeq(s, k + 1, Len(s))
<1>1. Len(s) \in Nat /\ k \in Int /\ 1 <= k /\ k <= Len(s)
  BY LenProperties
<1>2. /\ front \in Seq(S) /\ Len(front) = k - 1
      /\ \A i \in 1 .. k - 1 : front[i] = s[i]
  <2>1. /\ front \in Seq(S) /\ Len(front) = (k - 1) - 1 + 1
        /\ \A i \in 1 .. (k - 1) - 1 + 1 : front[i] = s[1 + i - 1]
    BY <1>1, SubSeqFacts
  <2> HIDE DEF front
  <2>2. ASSUME NEW i \in 1 .. k - 1 PROVE front[i] = s[i]
    <3>1. 1 + i - 1 = i /\ i \in 1 .. (k - 1) - 1 + 1
      BY <1>1
    <3> QED BY <2>1, <3>1
  <2> QED BY <1>1, <2>1, <2>2
<1>3. /\ back \in Seq(S) /\ Len(back) = Len(s) - k
      /\ \A i \in 1 .. Len(s) - k : back[i] = s[k + i]
  <2>1. /\ back \in Seq(S) /\ Len(back) = Len(s) - (k + 1) + 1
        /\ \A i \in 1 .. Len(s) - (k + 1) + 1 : back[i] = s[(k + 1) + i - 1]
    BY <1>1, SubSeqFacts
  <2> HIDE DEF back
  <2>2. ASSUME NEW i \in 1 .. Len(s) - k PROVE back[i] = s[k + i]
    <3>1. (k + 1) + i - 1 = k + i /\ i \in 1 .. Len(s) - (k + 1) + 1
      BY <1>1
    <3> QED BY <2>1, <3>1
  <2> QED BY <1>1, <2>1, <2>2
<1>4. RemoveAt(s, k) = front \o back
  BY DEF RemoveAt
<1> HIDE DEF front, back
<1>5. /\ front \o back \in Seq(S)
      /\ Len(front \o back) = Len(front) + Len(back)
      /\ \A i \in 1 .. Len(front) + Len(back) : (front \o back)[i] =
           IF i <= Len(front) THEN front[i] ELSE back[i - Len(front)]
  BY <1>2, <1>3, ConcatProperties
<1>6. ASSUME NEW i \in 1 .. Len(s) - 1
      PROVE  (front \o back)[i] = IF i < k THEN s[i] ELSE s[i + 1]
  <2>1. i \in 1 .. Len(front) + Len(back)
    BY <1>1, <1>2, <1>3
  <2>2. CASE i < k
    <3>1. i <= Len(front) /\ i \in 1 .. k - 1
      BY <2>2, <1>1, <1>2
    <3> QED BY <2>1, <2>2, <3>1, <1>2, <1>5
  <2>3. CASE ~ (i < k)
    <3>1. /\ ~ (i <= Len(front)) /\ i - Len(front) = i - k + 1
          /\ i - k + 1 \in 1 .. Len(s) - k /\ k + (i - k + 1) = i + 1
      BY <2>3, <1>1, <1>2
    <3>2. back[i - k + 1] = s[i + 1]
      BY <3>1, <1>3
    <3> QED BY <2>1, <2>3, <3>1, <3>2, <1>5
  <2> QED BY <2>2, <2>3
<1> QED BY <1>1, <1>2, <1>3, <1>4, <1>5, <1>6

LEMMA InsertAtFacts ==
  ASSUME NEW S, NEW s \in Seq(S), NEW k \in 1 .. Len(s) + 1, NEW a \in S
  PROVE  /\ InsertAt(s, k, a) \in Seq(S)
         /\ Len(InsertAt(s, k, a)) = Len(s) + 1
         /\ \A i \in 1 .. Len(s) + 1 :
              InsertAt(s, k, a)[i] =
                IF i < k THEN s[i] ELSE IF i = k THEN a ELSE s[i - 1]
<1> DEFINE front == SubSeq(s, 1, k - 1)
           back == SubSeq(s, k, Len(s))
<1>1. Len(s) \in Nat /\ k \in Int /\ 1 <= k /\ k <= Len(s) + 1
  BY LenProperties
<1>2. /\ front \in Seq(S) /\ Len(front) = k - 1
      /\ \A i \in 1 .. k - 1 : front[i] = s[i]
  <2>1. /\ front \in Seq(S) /\ Len(front) = (k - 1) - 1 + 1
        /\ \A i \in 1 .. (k - 1) - 1 + 1 : front[i] = s[1 + i - 1]
    BY <1>1, SubSeqFacts
  <2> HIDE DEF front
  <2>2. ASSUME NEW i \in 1 .. k - 1 PROVE front[i] = s[i]
    <3>1. 1 + i - 1 = i /\ i \in 1 .. (k - 1) - 1 + 1
      BY <1>1
    <3> QED BY <2>1, <3>1
  <2> QED BY <1>1, <2>1, <2>2
<1>3. /\ back \in Seq(S) /\ Len(back) = Len(s) - k + 1
      /\ \A i \in 1 .. Len(s) - k + 1 : back[i] = s[k + i - 1]
  BY <1>1, SubSeqFacts
<1>4. InsertAt(s, k, a) = (front \o <<a>>) \o back
  BY DEF InsertAt
<1> HIDE DEF front, back
<1>5. front \o <<a>> = Append(front, a)
  BY <1>2, AppendIsConcat
<1>6. /\ Append(front, a) \in Seq(S) /\ Len(Append(front, a)) = k
      /\ \A i \in 1 .. k - 1 : Append(front, a)[i] = s[i]
      /\ Append(front, a)[k] = a
  <2>1. /\ Append(front, a) \in Seq(S)
        /\ Len(Append(front, a)) = Len(front) + 1
        /\ \A i \in 1 .. Len(front) : Append(front, a)[i] = front[i]
        /\ Append(front, a)[Len(front) + 1] = a
    BY <1>2, AppendProperties
  <2>2. Len(front) + 1 = k
    BY <1>1, <1>2
  <2> QED BY <1>2, <2>1, <2>2
<1> DEFINE fa == Append(front, a)
<1> HIDE DEF fa
<1>7. /\ fa \o back \in Seq(S)
      /\ Len(fa \o back) = Len(fa) + Len(back)
      /\ \A i \in 1 .. Len(fa) + Len(back) : (fa \o back)[i] =
           IF i <= Len(fa) THEN fa[i] ELSE back[i - Len(fa)]
  BY <1>6, <1>3, ConcatProperties DEF fa
<1>8. ASSUME NEW i \in 1 .. Len(s) + 1
      PROVE  (fa \o back)[i] =
               IF i < k THEN s[i] ELSE IF i = k THEN a ELSE s[i - 1]
  <2>1. Len(fa) = k /\ i \in 1 .. Len(fa) + Len(back)
    BY <1>1, <1>3, <1>6 DEF fa
  <2>2. CASE i < k
    <3>1. i <= Len(fa) /\ i \in 1 .. k - 1
      BY <2>1, <2>2, <1>1
    <3>2. fa[i] = s[i]
      BY <3>1, <1>6 DEF fa
    <3> QED BY <2>1, <2>2, <3>1, <3>2, <1>7
  <2>3. CASE i = k
    <3>1. i <= Len(fa) /\ ~ (i < k)
      BY <2>1, <2>3, <1>1
    <3>2. fa[i] = a
      BY <2>3, <1>6 DEF fa
    <3> QED BY <2>1, <2>3, <3>1, <3>2, <1>7
  <2>4. CASE k < i
    <3>1. /\ ~ (i <= Len(fa)) /\ i - Len(fa) = i - k /\ i # k /\ ~ (i < k)
          /\ i - k \in 1 .. Len(s) - k + 1 /\ k + (i - k) - 1 = i - 1
      BY <2>1, <2>4, <1>1
    <3>2. back[i - k] = s[i - 1]
      BY <3>1, <1>3
    <3> QED BY <2>1, <2>4, <3>1, <3>2, <1>7
  <2>5. i < k \/ i = k \/ k < i
    BY <1>1
  <2> QED BY <2>2, <2>3, <2>4, <2>5
<1>9. InsertAt(s, k, a) = fa \o back /\ Len(fa) + Len(back) = Len(s) + 1
  BY <1>1, <1>3, <1>4, <1>5, <1>6 DEF fa
<1> QED BY <1>7, <1>8, <1>9

(* A list of ranges, each on it once, without one of them.                 *)
LEMMA WithoutFacts ==
  ASSUME NEW R, NEW s \in Seq(R), IsInjective(s), NEW i \in Range(s)
  PROVE  /\ Without(s, i) \in Seq(R) /\ IsInjective(Without(s, i))
         /\ Range(Without(s, i)) = Range(s) \ {i}
         /\ \E k \in 1 .. Len(s) :
              /\ s[k] = i /\ Len(Without(s, i)) = Len(s) - 1
              /\ \A m \in 1 .. Len(s) - 1 :
                   Without(s, i)[m] = IF m < k THEN s[m] ELSE s[m + 1]
<1>1. Len(s) \in Nat /\ DOMAIN s = 1 .. Len(s)
  BY LenProperties
<1>2. \E n \in DOMAIN s : s[n] = i
  BY DEF Range
<1>3. PICK k \in 1 .. Len(s) : k = PositionOf(s, i) /\ s[k] = i
  BY <1>1, <1>2 DEF PositionOf
<1>4. PICK t : t = Without(s, i)
  OBVIOUS
<1>5. /\ t \in Seq(R) /\ Len(t) = Len(s) - 1
      /\ \A m \in 1 .. Len(s) - 1 : t[m] = IF m < k THEN s[m] ELSE s[m + 1]
  BY <1>3, <1>4, RemoveAtFacts DEF Without
<1>6. DOMAIN t = 1 .. Len(s) - 1
  BY <1>5, LenProperties
<1>7. IsInjective(t)
  <2>1. \A m, n \in DOMAIN s : s[m] = s[n] => m = n
    BY DEF IsInjective
  <2>2. ASSUME NEW m \in DOMAIN t, NEW n \in DOMAIN t, t[m] = t[n]
        PROVE  m = n
    <3>1. PICK m1 \in DOMAIN s : t[m] = s[m1] /\ m1 = IF m < k THEN m ELSE m + 1
      BY <1>1, <1>5, <1>6
    <3>2. PICK n1 \in DOMAIN s : t[n] = s[n1] /\ n1 = IF n < k THEN n ELSE n + 1
      BY <1>1, <1>5, <1>6
    <3>3. m1 = n1
      BY <2>1, <2>2, <3>1, <3>2
    <3> QED BY <1>1, <1>6, <3>1, <3>2, <3>3
  <2> QED BY <2>2 DEF IsInjective
<1>8. Range(t) = Range(s) \ {i}
  <2>1. ASSUME NEW x \in Range(t) PROVE x \in Range(s) \ {i}
    <3>1. PICK m \in DOMAIN t : x = t[m]
      BY <2>1 DEF Range
    <3>2. PICK m1 \in DOMAIN s : x = s[m1] /\ m1 # k
      BY <1>1, <1>5, <1>6, <3>1
    <3>3. s[m1] # s[k]
      BY <1>1, <3>2 DEF IsInjective
    <3> QED BY <1>3, <3>2, <3>3 DEF Range
  <2>2. ASSUME NEW x \in Range(s) \ {i} PROVE x \in Range(t)
    <3>1. PICK m1 \in DOMAIN s : x = s[m1] /\ m1 # k
      BY <1>3, <2>2 DEF Range
    <3>2. PICK m \in DOMAIN t : m = IF m1 < k THEN m1 ELSE m1 - 1
      BY <1>1, <1>6, <3>1
    <3>3. t[m] = s[m1]
      BY <1>1, <1>5, <1>6, <3>1, <3>2
    <3> QED BY <3>1, <3>3 DEF Range
  <2> QED BY <2>1, <2>2
<1> QED BY <1>3, <1>4, <1>5, <1>7, <1>8

(* A list of ranges, each on it once, with another one at position k.      *)
LEMMA InsertFacts ==
  ASSUME NEW R, NEW s \in Seq(R), IsInjective(s), NEW i \in R, i \notin Range(s),
         NEW k \in 1 .. Len(s) + 1
  PROVE  /\ InsertAt(s, k, i) \in Seq(R) /\ IsInjective(InsertAt(s, k, i))
         /\ Range(InsertAt(s, k, i)) = Range(s) \cup {i}
<1>1. Len(s) \in Nat /\ DOMAIN s = 1 .. Len(s)
  BY LenProperties
<1>4. PICK t : t = InsertAt(s, k, i)
  OBVIOUS
<1>5. /\ t \in Seq(R) /\ Len(t) = Len(s) + 1
      /\ \A m \in 1 .. Len(s) + 1 :
           t[m] = IF m < k THEN s[m] ELSE IF m = k THEN i ELSE s[m - 1]
  <2>1. /\ InsertAt(s, k, i) \in Seq(R)
        /\ Len(InsertAt(s, k, i)) = Len(s) + 1
        /\ \A m \in 1 .. Len(s) + 1 :
             InsertAt(s, k, i)[m] =
               IF m < k THEN s[m] ELSE IF m = k THEN i ELSE s[m - 1]
    BY InsertAtFacts
  <2> QED BY <1>4, <2>1
<1>6. DOMAIN t = 1 .. Len(s) + 1
  BY <1>5, LenProperties
<1>2. ASSUME NEW m \in DOMAIN t, m # k
      PROVE  \E m1 \in DOMAIN s : t[m] = s[m1] /\ m1 = IF m < k THEN m ELSE m - 1
  <2>1. CASE m < k
    <3>1. m \in DOMAIN s /\ m \in 1 .. Len(s) + 1
      BY <1>1, <1>6, <2>1
    <3> QED BY <1>5, <2>1, <3>1
  <2>2. CASE m > k
    <3>1. m - 1 \in DOMAIN s /\ m \in 1 .. Len(s) + 1 /\ ~ (m < k)
      BY <1>1, <1>6, <2>2
    <3>2. t[m] = s[m - 1]
      BY <1>2, <1>5, <3>1
    <3> QED BY <3>1, <3>2
  <2> QED BY <1>2, <1>6, <2>1, <2>2
<1>3. t[k] = i /\ k \in DOMAIN t
  BY <1>1, <1>5, <1>6
<1>9. \A m1 \in DOMAIN s : s[m1] # i
  BY DEF Range
<1>7. IsInjective(t)
  <2>1. \A m, n \in DOMAIN s : s[m] = s[n] => m = n
    BY DEF IsInjective
  <2>2. ASSUME NEW m \in DOMAIN t, NEW n \in DOMAIN t, t[m] = t[n]
        PROVE  m = n
    <3>1. CASE m = k \/ n = k
      BY <1>2, <1>3, <1>9, <2>2, <3>1
    <3>2. CASE m # k /\ n # k
      <4>1. PICK m1 \in DOMAIN s : t[m] = s[m1] /\ m1 = IF m < k THEN m ELSE m - 1
        BY <1>2, <3>2
      <4>2. PICK n1 \in DOMAIN s : t[n] = s[n1] /\ n1 = IF n < k THEN n ELSE n - 1
        BY <1>2, <3>2
      <4>3. m1 = n1
        BY <2>1, <2>2, <4>1, <4>2
      <4> QED BY <1>1, <1>6, <3>2, <4>1, <4>2, <4>3
    <3> QED BY <3>1, <3>2
  <2> QED BY <2>2 DEF IsInjective
<1>8. Range(t) = Range(s) \cup {i}
  <2>1. ASSUME NEW x \in Range(t) PROVE x \in Range(s) \cup {i}
    <3>1. PICK m \in DOMAIN t : x = t[m]
      BY <2>1 DEF Range
    <3> QED BY <1>2, <1>3, <3>1 DEF Range
  <2>2. ASSUME NEW x \in Range(s) PROVE x \in Range(t)
    <3>1. PICK m1 \in DOMAIN s : x = s[m1]
      BY <2>2 DEF Range
    <3>2. PICK m \in DOMAIN t : m = IF m1 < k THEN m1 ELSE m1 + 1
      BY <1>1, <1>6, <3>1
    <3>3. t[m] = s[m1]
      <4>1. CASE m1 < k
        BY <1>5, <1>6, <3>2, <4>1
      <4>2. CASE ~ (m1 < k)
        <5>1. ~ (m < k) /\ m # k /\ m - 1 = m1
          BY <1>1, <3>2, <4>2
        <5>2. t[m] = s[m - 1]
          BY <1>5, <1>6, <5>1
        <5> QED BY <5>1, <5>2
      <4> QED BY <4>1, <4>2
    <3> QED BY <3>1, <3>3 DEF Range
  <2>3. i \in Range(t)
    BY <1>3 DEF Range
  <2> QED BY <2>1, <2>2, <2>3
<1> QED BY <1>4, <1>5, <1>7, <1>8

LEMMA AppendFacts ==
  ASSUME NEW R, NEW s \in Seq(R), IsInjective(s), NEW i \in R, i \notin Range(s)
  PROVE  /\ Append(s, i) \in Seq(R) /\ IsInjective(Append(s, i))
         /\ Range(Append(s, i)) = Range(s) \cup {i}
<1>1. Len(s) \in Nat /\ DOMAIN s = 1 .. Len(s)
  BY LenProperties
<1>2. PICK t : t = Append(s, i)
  OBVIOUS
<1>3. /\ t \in Seq(R) /\ Len(t) = Len(s) + 1
      /\ \A m \in 1 .. Len(s) : t[m] = s[m]
      /\ t[Len(s) + 1] = i
  BY <1>2, AppendProperties
<1>4. DOMAIN t = 1 .. Len(s) + 1
  BY <1>3, LenProperties
<1>5. DOMAIN t = DOMAIN s \cup {Len(s) + 1} /\ Len(s) + 1 \notin DOMAIN s
  BY <1>1, <1>4
<1>6. \A m1 \in DOMAIN s : s[m1] # i /\ t[m1] = s[m1]
  BY <1>1, <1>3 DEF Range
<1>7. IsInjective(t)
  BY <1>3, <1>5, <1>6 DEF IsInjective
<1>8. Range(t) = Range(s) \cup {i}
  BY <1>3, <1>5, <1>6 DEF Range
<1> QED BY <1>2, <1>3, <1>7, <1>8

-----------------------------------------------------------------------------
(* What holds of the ranges and the lists they are on whenever the mutex   *)
(* is free.                                                                *)

RangeRecs ==
  [asma : Areas \cup {0}, pgstart : Int, pgend : Int, purged : BOOLEAN]

Stores ==
  [range : [Ranges -> RangeRecs], unpinned : [Areas -> Seq(Ranges)],
   lru : Seq(Ranges), lru_count : 0 .. SIZE_MAX]

(* A range may have no page, but never less than none.                     *)
Bounded(s, e) == 0 <= s /\ s <= e + 1 /\ e <= SIZE_MAX

Good(r) == r = NoRange \/ (r.asma \in Areas /\ Bounded(r.pgstart, r.pgend))

OnLru(r) == r.asma \in Areas /\ ~ r.purged

AllGood(rg) == \A i \in Ranges : Good(rg[i])

Descends(list, rg) ==
  \A m, n \in 1 .. Len(list) :
    m < n => rg[list[m]].pgstart > rg[list[n]].pgend

ListOf(list, rg, a) ==
  /\ IsInjective(list)
  /\ Range(list) = {i \in Ranges : rg[i].asma = a}
  /\ Descends(list, rg)

LruOf(list, rg) ==
  IsInjective(list) /\ Range(list) = {i \in Ranges : OnLru(rg[i])}

(* The pages that can be freed.                                            *)
LruPages(rg) ==
  {x \in Ranges \X Pages : OnLru(rg[x[1]]) /\ x[2] \in PagesOf(rg[x[1]])}

StoreInv(S) ==
  /\ S \in Stores
  /\ AllGood(S.range)
  /\ \A a \in Areas : ListOf(S.unpinned[a], S.range, a)
  /\ LruOf(S.lru, S.range)
  /\ S.lru_count = Unsigned(Cardinality(LruPages(S.range)))

-----------------------------------------------------------------------------
(* Unsigned integers.                                                      *)

LEMMA ModOf ==
  ASSUME NEW B \in Nat, B > 0, NEW q \in Int, NEW r \in 0 .. B - 1
  PROVE  (q * B + r) % B = r
OBVIOUS

LEMMA DivMod ==
  ASSUME NEW B \in Nat, B > 0, NEW x \in Int
  PROVE  \E q \in Int, r \in 0 .. B - 1 : x = q * B + r /\ x % B = r
<1>1. /\ x = (x \div B) * B + (x % B)
      /\ x \div B \in Int /\ x % B \in 0 .. B - 1
  OBVIOUS
<1> QED BY <1>1

LEMMA WidthFacts == SIZE_MAX \in Nat /\ SIZE_MAX + 1 \in Nat /\ SIZE_MAX + 1 > 0
BY AshmemAssumption

LEMMA UnsignedType ==
  ASSUME NEW x \in Int
  PROVE  Unsigned(x) \in 0 .. SIZE_MAX
<1>1. PICK B \in Nat : B = SIZE_MAX + 1 /\ B > 0
  BY WidthFacts
<1>2. PICK q \in Int, r \in 0 .. B - 1 : x = q * B + r /\ x % B = r
  BY <1>1, DivMod
<1>3. 0 .. B - 1 = 0 .. SIZE_MAX
  BY <1>1, WidthFacts
<1> QED BY <1>1, <1>2, <1>3 DEF Unsigned

LEMMA UnsignedSmall ==
  ASSUME NEW x \in 0 .. SIZE_MAX
  PROVE  Unsigned(x) = x
<1>1. PICK B \in Nat : B = SIZE_MAX + 1 /\ B > 0
  BY WidthFacts
<1>2. 0 \in Int /\ x \in 0 .. B - 1 /\ 0 * B + x = x
  BY <1>1, WidthFacts
<1>3. (0 * B + x) % B = x
  BY <1>1, <1>2, ModOf
<1> QED BY <1>1, <1>2, <1>3 DEF Unsigned

(* Numbers that differ by a multiple of 2^32.                              *)
LEMMA UnsignedSame ==
  ASSUME NEW x \in Int, NEW y \in Int, NEW c \in Int,
         NEW B \in Nat, B = SIZE_MAX + 1, x = y + c * B
  PROVE  Unsigned(x) = Unsigned(y)
<1>1. B > 0
  BY WidthFacts
<1>2. PICK q \in Int, r \in 0 .. B - 1 : y = q * B + r /\ y % B = r
  BY <1>1, DivMod
<1>3. x = q * B + r + c * B
  BY <1>2
<1>4. q * B + c * B = (q + c) * B
  BY Z3
<1>5. q * B \in Int /\ c * B \in Int /\ r \in Int
  OBVIOUS
<1>6. x = (q + c) * B + r
  BY <1>3, <1>4, <1>5
<1>7. q + c \in Int
  OBVIOUS
<1>8. ((q + c) * B + r) % B = r
  BY <1>1, <1>7, ModOf
<1> QED BY <1>2, <1>6, <1>8 DEF Unsigned

LEMMA UnsignedMultiple ==
  ASSUME NEW x \in Int, NEW B \in Nat, B = SIZE_MAX + 1
  PROVE  \E c \in Int : c * B \in Int /\ Unsigned(x) = x + c * B
<1>1. B > 0
  BY WidthFacts
<1>2. PICK q \in Int, r \in 0 .. B - 1 : x = q * B + r /\ x % B = r
  BY <1>1, DivMod
<1>3. (- q) * B = - (q * B)
  BY Z3
<1>4. - q \in Int /\ q * B \in Int /\ (- q) * B \in Int
  OBVIOUS
<1>5. r = x + (- q) * B
  BY <1>2, <1>3, <1>4
<1> QED BY <1>2, <1>4, <1>5 DEF Unsigned

LEMMA UnsignedPlus ==
  ASSUME NEW x \in Int, NEW d \in Int
  PROVE  /\ Unsigned(Unsigned(x) + d) = Unsigned(x + d)
         /\ Unsigned(x + Unsigned(d)) = Unsigned(x + d)
         /\ Unsigned(x - Unsigned(d)) = Unsigned(x - d)
<1>1. PICK B \in Nat : B = SIZE_MAX + 1
  BY WidthFacts
<1>2. PICK c \in Int : c * B \in Int /\ Unsigned(x) = x + c * B
  BY <1>1, UnsignedMultiple
<1>3. PICK f \in Int : f * B \in Int /\ Unsigned(d) = d + f * B
  BY <1>1, UnsignedMultiple
<1>4. (- f) * B = - (f * B)
  BY Z3
<1>5. /\ Unsigned(x) + d = (x + d) + c * B
      /\ x + Unsigned(d) = (x + d) + f * B
      /\ x - Unsigned(d) = (x - d) + (- f) * B
  BY <1>2, <1>3, <1>4
<1>6. /\ Unsigned(x) + d \in Int /\ x + Unsigned(d) \in Int
      /\ x - Unsigned(d) \in Int /\ x + d \in Int /\ x - d \in Int /\ - f \in Int
  BY <1>2, <1>3
<1>7. Unsigned(Unsigned(x) + d) = Unsigned(x + d)
  <2>1. PICK u \in Int, v \in Int, l \in Int : u = Unsigned(x) + d /\ v = x + d /\ l = c
    BY <1>6
  <2>2. u = v + l * B
    BY <1>5, <2>1
  <2>3. Unsigned(u) = Unsigned(v)
    BY <1>1, <2>2, UnsignedSame
  <2> QED BY <2>1, <2>3
<1>8. Unsigned(x + Unsigned(d)) = Unsigned(x + d)
  <2>1. PICK u \in Int, v \in Int, l \in Int : u = x + Unsigned(d) /\ v = x + d /\ l = f
    BY <1>6
  <2>2. u = v + l * B
    BY <1>5, <2>1
  <2>3. Unsigned(u) = Unsigned(v)
    BY <1>1, <2>2, UnsignedSame
  <2> QED BY <2>1, <2>3
<1>9. Unsigned(x - Unsigned(d)) = Unsigned(x - d)
  <2>1. PICK u \in Int, v \in Int, l \in Int : u = x - Unsigned(d) /\ v = x - d /\ l = - f
    BY <1>6
  <2>2. u = v + l * B
    BY <1>5, <2>1
  <2>3. Unsigned(u) = Unsigned(v)
    BY <1>1, <2>2, UnsignedSame
  <2> QED BY <2>1, <2>3
<1> QED BY <1>7, <1>8, <1>9

LEMMA UnsignedMinus ==
  ASSUME NEW x \in Int, NEW d \in Int
  PROVE  Unsigned(Unsigned(x) - d) = Unsigned(x - d)
<1>1. - d \in Int /\ x + (- d) = x - d
  OBVIOUS
<1>2. PICK u \in Int : u = Unsigned(x) /\ u + (- d) = u - d
  BY UnsignedType
<1>3. Unsigned(Unsigned(x) + (- d)) = Unsigned(x + (- d))
  BY <1>1, UnsignedPlus
<1> QED BY <1>1, <1>2, <1>3

LEMMA UnsignedShrink ==
  ASSUME NEW x \in Int, NEW y \in Int, NEW z \in Int
  PROVE  Unsigned(x - (Unsigned(y) - Unsigned(z))) = Unsigned(x - y + z)
<1>1. PICK u \in Int, v \in Int : u = Unsigned(y) /\ v = Unsigned(z)
  BY UnsignedType
<1>2. x - (u - v) = (x + v) - u /\ (x + v) - y = (x - y) + v
      /\ x + v \in Int /\ x - y \in Int
  OBVIOUS
<1>3. Unsigned((x + v) - u) = Unsigned((x + v) - y)
  BY <1>1, <1>2, UnsignedPlus
<1>4. Unsigned((x - y) + v) = Unsigned((x - y) + z)
  BY <1>1, <1>2, UnsignedPlus
<1> QED BY <1>1, <1>2, <1>3, <1>4

-----------------------------------------------------------------------------
(* Counting the pages of the LRU list.                                     *)

(* The pages of a range, which range_size counts modulo 2^32.              *)
Span(r) == r.pgend - r.pgstart + 1

Spot(i, r) == {x \in Ranges \X Pages : x[1] = i /\ x[2] \in PagesOf(r)}

Others(rg, i) == {x \in LruPages(rg) : x[1] # i}

Weight(r) == IF OnLru(r) THEN Span(r) ELSE 0

LEMMA NoRangeFacts ==
  NoRange \in RangeRecs /\ Good(NoRange) /\ ~ OnLru(NoRange)
    /\ NoRange.asma \notin Areas /\ NoRange.asma = 0
BY AshmemAssumption DEF NoRange, RangeRecs, Good, OnLru

LEMMA GoodFacts ==
  ASSUME NEW r \in RangeRecs, Good(r), r.asma \in Areas
  PROVE  /\ Bounded(r.pgstart, r.pgend) /\ r # NoRange
         /\ r.pgstart \in Int /\ r.pgend \in Int /\ Span(r) \in Nat
         /\ r.purged \in BOOLEAN
BY NoRangeFacts, AshmemAssumption DEF Good, RangeRecs, Bounded, Span

LEMMA PagesFinite == IsFiniteSet(Ranges \X Pages)
<1>1. 0 \in Int /\ SIZE_MAX \in Int
  BY AshmemAssumption
<1>2. IsFiniteSet(0 .. SIZE_MAX)
  BY <1>1, FS_Interval
<1> QED BY <1>2, AshmemAssumption, FS_Product DEF Pages

LEMMA SpotSize ==
  ASSUME NEW i \in Ranges, NEW r \in RangeRecs, Good(r), r.asma \in Areas
  PROVE  IsFiniteSet(Spot(i, r)) /\ Cardinality(Spot(i, r)) = Span(r)
<1>1. PICK s \in Int, e \in Int : s = r.pgstart /\ e = r.pgend /\ Bounded(s, e)
  BY GoodFacts
<1>2. Spot(i, r) = {i} \X (s .. e)
  <2>1. s .. e \subseteq Pages /\ PagesOf(r) = s .. e
    BY <1>1, AshmemAssumption DEF Pages, PagesOf, Bounded
  <2> QED BY <2>1 DEF Spot
<1>3. /\ IsFiniteSet(s .. e)
      /\ Cardinality(s .. e) = IF s > e THEN 0 ELSE e - s + 1
  BY <1>1, FS_Interval
<1>4. IsFiniteSet({i}) /\ Cardinality({i}) = 1
  BY FS_Singleton
<1>5. /\ IsFiniteSet({i} \X (s .. e))
      /\ Cardinality({i} \X (s .. e)) = Cardinality({i}) * Cardinality(s .. e)
  BY <1>3, <1>4, FS_Product
<1>6. PICK c \in Int : c = Cardinality(s .. e) /\ c = e - s + 1
  BY <1>1, <1>3 DEF Bounded
<1>7. Cardinality({i} \X (s .. e)) = c
  BY <1>4, <1>5, <1>6
<1> QED BY <1>1, <1>2, <1>5, <1>6, <1>7 DEF Span

(* The pages of the LRU list are those of one range, if it is on it, and   *)
(* those of the others.                                                    *)
LEMMA CountAt ==
  ASSUME NEW rg \in [Ranges -> RangeRecs], AllGood(rg), NEW i \in Ranges
  PROVE  /\ Cardinality(Others(rg, i)) \in Nat
         /\ Cardinality(LruPages(rg)) =
              Cardinality(Others(rg, i)) + Weight(rg[i])
<1>1. LruPages(rg) \in SUBSET (Ranges \X Pages)
      /\ Others(rg, i) \in SUBSET (Ranges \X Pages)
  BY DEF LruPages, Others
<1>2. IsFiniteSet(Others(rg, i))
  BY <1>1, PagesFinite, FS_Subset
<1>3. Cardinality(Others(rg, i)) \in Nat
  BY <1>2, FS_CardinalityType
<1>4. CASE OnLru(rg[i])
  <2>1. rg[i] \in RangeRecs /\ Good(rg[i]) /\ rg[i].asma \in Areas
    BY <1>4 DEF AllGood, OnLru
  <2>2. /\ IsFiniteSet(Spot(i, rg[i]))
        /\ Cardinality(Spot(i, rg[i])) = Span(rg[i])
    BY <2>1, SpotSize
  <2>3. LruPages(rg) = Others(rg, i) \cup Spot(i, rg[i])
    BY <1>4 DEF LruPages, Others, Spot
  <2>4. Others(rg, i) \cap Spot(i, rg[i]) = {}
    BY DEF Others, Spot
  <2>5. Cardinality(Others(rg, i) \cup Spot(i, rg[i])) =
          Cardinality(Others(rg, i)) + Cardinality(Spot(i, rg[i]))
            - Cardinality(Others(rg, i) \cap Spot(i, rg[i]))
    BY <1>2, <2>2, FS_Union
  <2>6. Cardinality({}) = 0
    BY FS_EmptySet
  <2>7. Span(rg[i]) \in Nat
    BY <2>1, GoodFacts
  <2>8. PICK c \in Nat, z \in Nat :
          c = Cardinality(Others(rg, i)) /\ z = Span(rg[i])
    BY <1>3, <2>7
  <2>9. Cardinality(LruPages(rg)) = c + z - 0
    BY <2>2, <2>3, <2>4, <2>5, <2>6, <2>8
  <2>10. Weight(rg[i]) = z
    BY <1>4, <2>8 DEF Weight
  <2>11. Cardinality(LruPages(rg)) = c + z
    BY <2>9
  <2> QED BY <1>3, <2>8, <2>10, <2>11
<1>5. CASE ~ OnLru(rg[i])
  <2>1. LruPages(rg) = Others(rg, i)
    BY <1>5 DEF LruPages, Others
  <2> QED BY <1>3, <1>5, <2>1 DEF Weight
<1> QED BY <1>3, <1>4, <1>5

LEMMA Recount ==
  ASSUME NEW rg \in [Ranges -> RangeRecs], AllGood(rg), NEW i \in Ranges,
         NEW r \in RangeRecs, Good(r), NEW rh, rh = [rg EXCEPT ![i] = r]
  PROVE  /\ rh \in [Ranges -> RangeRecs] /\ AllGood(rh)
         /\ Cardinality(LruPages(rg)) \in Int /\ Weight(r) \in Int
         /\ Weight(rg[i]) \in Int
         /\ Cardinality(LruPages(rh)) =
              Cardinality(LruPages(rg)) - Weight(rg[i]) + Weight(r)
<1>1. rh \in [Ranges -> RangeRecs] /\ rh[i] = r
      /\ \A j \in Ranges : j # i => rh[j] = rg[j]
  OBVIOUS
<1>2. AllGood(rh)
  BY <1>1 DEF AllGood
<1>3. Others(rh, i) = Others(rg, i)
  BY <1>1 DEF Others, LruPages
<1>4. \A q \in RangeRecs : Good(q) => Weight(q) \in Int
  BY GoodFacts DEF Weight, OnLru
<1>5. Weight(r) \in Int /\ Weight(rg[i]) \in Int
  BY <1>4 DEF AllGood
<1>6. /\ Cardinality(Others(rg, i)) \in Nat
      /\ Cardinality(LruPages(rg)) =
           Cardinality(Others(rg, i)) + Weight(rg[i])
  BY CountAt
<1>7. Cardinality(LruPages(rh)) = Cardinality(Others(rh, i)) + Weight(rh[i])
  BY <1>1, <1>2, CountAt
<1>8. PICK c \in Nat, x \in Int, y \in Int :
        c = Cardinality(Others(rg, i)) /\ x = Weight(rg[i]) /\ y = Weight(r)
  BY <1>5, <1>6
<1>9. Cardinality(LruPages(rg)) = c + x /\ Cardinality(LruPages(rh)) = c + y
  BY <1>1, <1>3, <1>6, <1>7, <1>8
<1> QED BY <1>1, <1>2, <1>8, <1>9

-----------------------------------------------------------------------------
(* The order of a list.                                                    *)

(* It is kept when ranges lose pages.                                      *)
LEMMA DescendsNarrow ==
  ASSUME NEW list \in Seq(Ranges), NEW rg \in [Ranges -> RangeRecs],
         NEW rh \in [Ranges -> RangeRecs], Descends(list, rg),
         \A j \in Range(list) : /\ rh[j].pgstart >= rg[j].pgstart
                                /\ rh[j].pgend <= rg[j].pgend
  PROVE  Descends(list, rh)
<1> SUFFICES ASSUME NEW m \in 1 .. Len(list), NEW n \in 1 .. Len(list), m < n
             PROVE  rh[list[m]].pgstart > rh[list[n]].pgend
  BY DEF Descends
<1>1. DOMAIN list = 1 .. Len(list)
  BY LenProperties
<1>2. PICK i \in Ranges, j \in Ranges :
        i = list[m] /\ j = list[n] /\ i \in Range(list) /\ j \in Range(list)
  BY <1>1, ElementOfSeq DEF Range
<1>3. rg[i].pgstart > rg[j].pgend
  BY <1>2 DEF Descends
<1>4. /\ rh[i].pgstart >= rg[i].pgstart /\ rh[j].pgend <= rg[j].pgend
      /\ rg[i].pgstart \in Int /\ rg[j].pgend \in Int
      /\ rh[i].pgstart \in Int /\ rh[j].pgend \in Int
  BY <1>2 DEF RangeRecs
<1>5. rh[i].pgstart > rh[j].pgend
  BY <1>3, <1>4
<1> QED BY <1>2, <1>5

(* It is kept when a range goes.                                           *)
LEMMA DescendsWithout ==
  ASSUME NEW s \in Seq(Ranges), NEW rg, Descends(s, rg), IsInjective(s),
         NEW i \in Range(s)
  PROVE  Descends(Without(s, i), rg)
<1>1. PICK t : t = Without(s, i)
  OBVIOUS
<1>2. PICK k \in 1 .. Len(s) :
        /\ Len(t) = Len(s) - 1
        /\ \A m \in 1 .. Len(s) - 1 : t[m] = IF m < k THEN s[m] ELSE s[m + 1]
  <2>1. PICK k \in 1 .. Len(s) :
          /\ s[k] = i /\ Len(Without(s, i)) = Len(s) - 1
          /\ \A m \in 1 .. Len(s) - 1 :
               Without(s, i)[m] = IF m < k THEN s[m] ELSE s[m + 1]
    BY WithoutFacts
  <2> QED BY <1>1, <2>1
<1>3. Len(s) \in Nat
  BY LenProperties
<1>4. ASSUME NEW m \in 1 .. Len(t), NEW n \in 1 .. Len(t), m < n
      PROVE  rg[t[m]].pgstart > rg[t[n]].pgend
  <2>1. PICK m1 \in 1 .. Len(s) :
          t[m] = s[m1] /\ m1 = IF m < k THEN m ELSE m + 1
    BY <1>2, <1>3
  <2>2. PICK n1 \in 1 .. Len(s) :
          t[n] = s[n1] /\ n1 = IF n < k THEN n ELSE n + 1
    BY <1>2, <1>3
  <2>3. m1 < n1
    BY <1>2, <1>3, <1>4, <2>1, <2>2
  <2>4. rg[s[m1]].pgstart > rg[s[n1]].pgend
    BY <2>3 DEF Descends
  <2> QED BY <2>1, <2>2, <2>4
<1> QED BY <1>1, <1>4 DEF Descends

(* It is kept when a range comes where it belongs.                         *)
LEMMA DescendsInsert ==
  ASSUME NEW s \in Seq(Ranges), NEW rg, Descends(s, rg),
         NEW k \in 1 .. Len(s) + 1, NEW i \in Ranges,
         \A m \in 1 .. Len(s) :
           /\ m < k => rg[s[m]].pgstart > rg[i].pgend
           /\ m >= k => rg[i].pgstart > rg[s[m]].pgend
  PROVE  Descends(InsertAt(s, k, i), rg)
<1>1. PICK t : t = InsertAt(s, k, i)
  OBVIOUS
<1>2. /\ Len(t) = Len(s) + 1
      /\ \A m \in 1 .. Len(s) + 1 :
           t[m] = IF m < k THEN s[m] ELSE IF m = k THEN i ELSE s[m - 1]
  <2>1. /\ Len(InsertAt(s, k, i)) = Len(s) + 1
        /\ \A m \in 1 .. Len(s) + 1 :
             InsertAt(s, k, i)[m] =
               IF m < k THEN s[m] ELSE IF m = k THEN i ELSE s[m - 1]
    BY InsertAtFacts, SMTT(30)
  <2> QED BY <1>1, <2>1
<1>3. Len(s) \in Nat
  BY LenProperties
<1>4. ASSUME NEW m \in 1 .. Len(t), m # k
      PROVE  \E m1 \in 1 .. Len(s) :
               t[m] = s[m1] /\ (m < k => m1 = m) /\ (m > k => m1 = m - 1)
  <2>1. CASE m < k
    <3>1. m \in 1 .. Len(s) /\ m \in 1 .. Len(s) + 1 /\ ~ (m > k)
      BY <1>2, <1>3, <2>1
    <3> QED BY <1>2, <2>1, <3>1
  <2>2. CASE m > k
    <3>1. m - 1 \in 1 .. Len(s) /\ m \in 1 .. Len(s) + 1 /\ ~ (m < k)
      BY <1>2, <1>3, <2>2
    <3>2. t[m] = s[m - 1]
      BY <1>2, <1>4, <3>1
    <3> QED BY <3>1, <3>2
  <2> QED BY <1>2, <1>3, <1>4, <2>1, <2>2
<1>5. t[k] = i
  BY <1>2, <1>3
<1>6. ASSUME NEW m \in 1 .. Len(t), NEW n \in 1 .. Len(t), m < n
      PROVE  rg[t[m]].pgstart > rg[t[n]].pgend
  <2>1. CASE m = k
    <3>1. n # k /\ n > k
      BY <1>2, <1>3, <1>6, <2>1
    <3>2. PICK n1 \in 1 .. Len(s) : t[n] = s[n1] /\ n1 = n - 1
      BY <1>4, <3>1
    <3>3. n1 >= k
      BY <1>2, <1>3, <3>1, <3>2
    <3>4. rg[i].pgstart > rg[s[n1]].pgend
      BY <3>3
    <3> QED BY <1>5, <2>1, <3>2, <3>4
  <2>2. CASE n = k
    <3>1. m # k /\ m < k
      BY <1>2, <1>3, <1>6, <2>2
    <3>2. PICK m1 \in 1 .. Len(s) : t[m] = s[m1] /\ m1 = m
      BY <1>4, <3>1
    <3>4. rg[s[m1]].pgstart > rg[i].pgend
      BY <3>1, <3>2
    <3> QED BY <1>5, <2>2, <3>2, <3>4
  <2>3. CASE m # k /\ n # k
    <3>1. PICK m1 \in 1 .. Len(s) :
            t[m] = s[m1] /\ (m < k => m1 = m) /\ (m > k => m1 = m - 1)
      BY <1>4, <2>3
    <3>2. PICK n1 \in 1 .. Len(s) :
            t[n] = s[n1] /\ (n < k => n1 = n) /\ (n > k => n1 = n - 1)
      BY <1>4, <2>3
    <3>3. m1 < n1
      BY <1>2, <1>3, <1>6, <2>3, <3>1, <3>2
    <3>4. rg[s[m1]].pgstart > rg[s[n1]].pgend
      BY <3>3 DEF Descends
    <3> QED BY <3>1, <3>2, <3>4
  <2> QED BY <2>1, <2>2, <2>3
<1> QED BY <1>1, <1>6 DEF Descends

-----------------------------------------------------------------------------
(* Operations on a range.                                                  *)

LEMMA StoreFacts ==
  ASSUME NEW S, StoreInv(S)
  PROVE  /\ S \in Stores
         /\ S.range \in [Ranges -> RangeRecs] /\ AllGood(S.range)
         /\ S.unpinned \in [Areas -> Seq(Ranges)]
         /\ S.lru \in Seq(Ranges) /\ S.lru_count \in 0 .. SIZE_MAX
         /\ \A a \in Areas : ListOf(S.unpinned[a], S.range, a)
         /\ LruOf(S.lru, S.range)
         /\ S.lru_count = Unsigned(Cardinality(LruPages(S.range)))
BY DEF StoreInv, Stores

LEMMA LruType ==
  ASSUME NEW S \in Stores, NEW l \in Seq(Ranges), NEW c \in 0 .. SIZE_MAX
  PROVE  [S EXCEPT !.lru = l, !.lru_count = c] \in Stores
BY DEF Stores

LEMMA SpanInt ==
  ASSUME NEW r \in RangeRecs
  PROVE  Span(r) \in Int /\ range_size(r) = Unsigned(Span(r))
BY DEF RangeRecs, Span, range_size

LEMMA CountInt ==
  ASSUME NEW S \in Stores
  PROVE  S.lru_count \in Int /\ Unsigned(S.lru_count) = S.lru_count
<1>1. S.lru_count \in 0 .. SIZE_MAX
  BY DEF Stores
<1> QED BY <1>1, UnsignedSmall

LEMMA DelLru ==
  ASSUME NEW S \in Stores, NEW i \in Ranges, Without(S.lru, i) \in Seq(Ranges),
         NEW D, D = lru_del(S, i)
  PROVE  /\ D \in Stores /\ D.range = S.range /\ D.unpinned = S.unpinned
         /\ D.lru = Without(S.lru, i)
         /\ D.lru_count = Unsigned(S.lru_count - Span(S.range[i]))
<1>0. PICK m \in Int, z \in Int :
        /\ m = S.lru_count /\ z = Span(S.range[i])
        /\ range_size(S.range[i]) = Unsigned(z)
  <2>1. S.range[i] \in RangeRecs
    BY DEF Stores
  <2> QED BY <2>1, SpanInt, CountInt
<1>1. PICK l \in Seq(Ranges), c \in 0 .. SIZE_MAX :
        l = Without(S.lru, i) /\ c = Unsigned(m - z) /\ c = Unsigned(m - Unsigned(z))
  <2>1. Unsigned(m - Unsigned(z)) = Unsigned(m - z)
    BY UnsignedPlus
  <2>2. Unsigned(m - z) \in 0 .. SIZE_MAX
    <3>1. m - z \in Int
      OBVIOUS
    <3> QED BY <3>1, UnsignedType
  <2> QED BY <2>1, <2>2
<1>2. D = [S EXCEPT !.lru = l, !.lru_count = c]
  BY <1>0, <1>1 DEF lru_del
<1>3. D \in Stores /\ D.range = S.range /\ D.unpinned = S.unpinned
      /\ D.lru = l /\ D.lru_count = c
  BY <1>2, LruType DEF Stores
<1> QED BY <1>0, <1>1, <1>3

LEMMA DelFields ==
  ASSUME NEW S \in Stores, NEW i \in Ranges, NEW a \in Areas,
         S.range[i].asma = a,
         Without(S.unpinned[a], i) \in Seq(Ranges),
         ~ S.range[i].purged => Without(S.lru, i) \in Seq(Ranges),
         NEW T, T = range_del(S, i)
  PROVE  /\ T \in Stores
         /\ T.range = [S.range EXCEPT ![i] = NoRange]
         /\ T.unpinned = [S.unpinned EXCEPT ![a] = Without(S.unpinned[a], i)]
         /\ T.lru = IF S.range[i].purged THEN S.lru ELSE Without(S.lru, i)
         /\ T.lru_count = Unsigned(S.lru_count - Weight(S.range[i]))
<1>1. PICK D : D = IF range_on_lru(S.range[i]) THEN lru_del(S, i) ELSE S
  OBVIOUS
<1>2. T = [D EXCEPT !.unpinned[a] = Without(@, i), !.range[i] = NoRange]
  BY <1>1 DEF range_del
<1>3. /\ D \in Stores /\ D.range = S.range /\ D.unpinned = S.unpinned
      /\ D.lru = IF S.range[i].purged THEN S.lru ELSE Without(S.lru, i)
      /\ D.lru_count = Unsigned(S.lru_count - Weight(S.range[i]))
  <2>1. CASE S.range[i].purged
    <3>1. Weight(S.range[i]) = 0 /\ S.lru_count - 0 = S.lru_count
      BY <2>1, CountInt DEF Weight, OnLru
    <3> QED BY <1>1, <2>1, <3>1, CountInt DEF range_on_lru
  <2>2. CASE ~ S.range[i].purged
    <3>1. Weight(S.range[i]) = Span(S.range[i])
      BY <2>2 DEF Weight, OnLru
    <3> QED BY <1>1, <2>2, <3>1, DelLru DEF range_on_lru
  <2> QED BY <2>1, <2>2
<1>4. NoRange \in RangeRecs
  BY NoRangeFacts
<1>5. T \in Stores
  <2>1. PICK u \in Seq(Ranges), r \in RangeRecs :
          u = Without(D.unpinned[a], i) /\ r = NoRange
    BY <1>3, <1>4
  <2>2. T = [D EXCEPT !.unpinned[a] = u, !.range[i] = r]
    BY <1>2, <2>1
  <2>3. D \in Stores
    BY <1>3
  <2>4. [D EXCEPT !.unpinned[a] = u, !.range[i] = r] \in Stores
    BY <2>3 DEF Stores
  <2> QED BY <2>2, <2>4
<1>6. /\ T.range = [D.range EXCEPT ![i] = NoRange]
      /\ T.unpinned = [D.unpinned EXCEPT ![a] = Without(D.unpinned[a], i)]
      /\ T.lru = D.lru /\ T.lru_count = D.lru_count
  BY <1>2, <1>3 DEF Stores
<1> QED BY <1>3, <1>5, <1>6

(* range_del                                                               *)
LEMMA DelKeeps ==
  ASSUME NEW S, StoreInv(S), NEW i \in Ranges, NEW a \in Areas,
         S.range[i].asma = a, NEW T, T = range_del(S, i)
  PROVE  /\ StoreInv(T)
         /\ T.range = [S.range EXCEPT ![i] = NoRange]
         /\ T.unpinned = [S.unpinned EXCEPT ![a] = Without(S.unpinned[a], i)]
<1>1. /\ S \in Stores
      /\ S.range \in [Ranges -> RangeRecs] /\ AllGood(S.range)
      /\ S.unpinned \in [Areas -> Seq(Ranges)]
      /\ S.lru \in Seq(Ranges) /\ S.lru_count \in 0 .. SIZE_MAX
      /\ \A b \in Areas : ListOf(S.unpinned[b], S.range, b)
      /\ LruOf(S.lru, S.range)
      /\ S.lru_count = Unsigned(Cardinality(LruPages(S.range)))
  BY StoreFacts
<1>2. PICK rg : rg = [S.range EXCEPT ![i] = NoRange]
  OBVIOUS
<1>3. PICK un : un = [S.unpinned EXCEPT ![a] = Without(S.unpinned[a], i)]
  OBVIOUS
<1>4. PICK l : l = IF S.range[i].purged THEN S.lru ELSE Without(S.lru, i)
  OBVIOUS
<1>5. PICK c : c = Unsigned(S.lru_count - Weight(S.range[i]))
  OBVIOUS
<1>7. /\ rg \in [Ranges -> RangeRecs] /\ AllGood(rg)
      /\ Cardinality(LruPages(S.range)) \in Int
      /\ Weight(NoRange) \in Int /\ Weight(S.range[i]) \in Int
      /\ Cardinality(LruPages(rg)) =
           Cardinality(LruPages(S.range)) - Weight(S.range[i]) + Weight(NoRange)
  BY <1>1, <1>2, NoRangeFacts, Recount
<1>8. c = Unsigned(Cardinality(LruPages(rg)))
  <2>1. Weight(NoRange) = 0
    BY NoRangeFacts DEF Weight
  <2>2. PICK x \in Int, y \in Int :
          x = Cardinality(LruPages(S.range)) /\ y = Weight(S.range[i])
    BY <1>7
  <2>3. c = Unsigned(Unsigned(x) - y) /\ Cardinality(LruPages(rg)) = x - y
    BY <1>1, <1>5, <1>7, <2>1, <2>2
  <2>4. Unsigned(Unsigned(x) - y) = Unsigned(x - y)
    BY UnsignedMinus
  <2> QED BY <2>3, <2>4
<1>9. rg[i] = NoRange /\ \A j \in Ranges : j # i => rg[j] = S.range[j]
  BY <1>1, <1>2
<1>10. ListOf(S.unpinned[a], S.range, a) /\ S.unpinned[a] \in Seq(Ranges)
       /\ i \in Range(S.unpinned[a])
  BY <1>1 DEF ListOf
<1>11. PICK t : t = Without(S.unpinned[a], i)
  OBVIOUS
<1>12. t \in Seq(Ranges) /\ IsInjective(t)
       /\ Range(t) = Range(S.unpinned[a]) \ {i}
  BY <1>10, <1>11, WithoutFacts DEF ListOf
<1>13. ListOf(t, rg, a)
  <2>1. Range(t) = {j \in Ranges : rg[j].asma = a}
    BY <1>9, <1>10, <1>12, NoRangeFacts DEF ListOf
  <2>2. Descends(t, S.range)
    BY <1>10, <1>11, DescendsWithout DEF ListOf
  <2>3. Descends(t, rg)
    <3>1. \A j \in Range(t) : /\ rg[j].pgstart >= S.range[j].pgstart
                              /\ rg[j].pgend <= S.range[j].pgend
      BY <1>1, <1>9, <1>10, <1>12 DEF ListOf, RangeRecs
    <3> QED BY <1>1, <1>7, <1>12, <2>2, <3>1, DescendsNarrow
  <2> QED BY <1>12, <2>1, <2>3 DEF ListOf
<1>14. un \in [Areas -> Seq(Ranges)] /\ un[a] = t
       /\ \A b \in Areas : b # a => un[b] = S.unpinned[b]
  BY <1>1, <1>3, <1>11, <1>12
<1>15. ASSUME NEW b \in Areas, b # a PROVE ListOf(un[b], rg, b)
  <2>1. ListOf(S.unpinned[b], S.range, b) /\ S.unpinned[b] \in Seq(Ranges)
    BY <1>1
  <2>2. Range(S.unpinned[b]) = {j \in Ranges : rg[j].asma = b}
    BY <1>9, <1>15, <2>1, NoRangeFacts DEF ListOf
  <2>3. \A j \in Range(S.unpinned[b]) : /\ rg[j].pgstart >= S.range[j].pgstart
                                        /\ rg[j].pgend <= S.range[j].pgend
    <3> TAKE j \in Range(S.unpinned[b])
    <3>1. j \in Ranges /\ S.range[j].asma = b
      BY <2>1 DEF ListOf
    <3>2. rg[j] = S.range[j]
      BY <1>9, <1>15, <3>1
    <3> QED BY <1>1, <3>1, <3>2 DEF RangeRecs
  <2>4. Descends(S.unpinned[b], rg)
    BY <1>1, <1>7, <2>1, <2>3, DescendsNarrow DEF ListOf
  <2> QED BY <1>14, <1>15, <2>1, <2>2, <2>4 DEF ListOf
<1>16. l \in Seq(Ranges) /\ LruOf(l, rg)
  <2>1. CASE S.range[i].purged
    <3>1. {j \in Ranges : OnLru(rg[j])} = {j \in Ranges : OnLru(S.range[j])}
      BY <1>9, <2>1, NoRangeFacts DEF OnLru
    <3> QED BY <1>1, <1>4, <2>1, <3>1 DEF LruOf
  <2>2. CASE ~ S.range[i].purged
    <3>1. i \in Range(S.lru) /\ IsInjective(S.lru)
      BY <1>1, <2>2 DEF LruOf, OnLru
    <3>2. l \in Seq(Ranges) /\ IsInjective(l) /\ Range(l) = Range(S.lru) \ {i}
      BY <1>1, <1>4, <2>2, <3>1, WithoutFacts
    <3>3. {j \in Ranges : OnLru(rg[j])} = {j \in Ranges : OnLru(S.range[j])} \ {i}
      BY <1>9, NoRangeFacts
    <3> QED BY <1>1, <3>2, <3>3 DEF LruOf
  <2> QED BY <2>1, <2>2
<1>17. \A b \in Areas : ListOf(un[b], rg, b)
  BY <1>13, <1>14, <1>15
<1>6. /\ T \in Stores /\ T.range = rg /\ T.unpinned = un /\ T.lru = l
      /\ T.lru_count = c
  <2>2. ~ S.range[i].purged => Without(S.lru, i) \in Seq(Ranges)
    BY <1>4, <1>16
  <2>3. S \in Stores /\ Without(S.unpinned[a], i) \in Seq(Ranges)
    BY <1>1, <1>11, <1>12
  <2>4. /\ T \in Stores
        /\ T.range = [S.range EXCEPT ![i] = NoRange]
        /\ T.unpinned = [S.unpinned EXCEPT ![a] = Without(S.unpinned[a], i)]
        /\ T.lru = IF S.range[i].purged THEN S.lru ELSE Without(S.lru, i)
        /\ T.lru_count = Unsigned(S.lru_count - Weight(S.range[i]))
    BY <2>2, <2>3, DelFields
  <2> QED BY <1>2, <1>3, <1>4, <1>5, <2>4
<1>18. StoreInv(T)
  BY <1>6, <1>7, <1>8, <1>16, <1>17 DEF StoreInv
<1> QED BY <1>2, <1>3, <1>6, <1>18

(* A list whose ranges lose pages at most.                                 *)
LEMMA ListNarrow ==
  ASSUME NEW list \in Seq(Ranges), NEW rg \in [Ranges -> RangeRecs],
         NEW rh \in [Ranges -> RangeRecs], NEW a, ListOf(list, rg, a),
         \A j \in Ranges : /\ rg[j].asma = a <=> rh[j].asma = a
                           /\ rg[j].asma = a =>
                                /\ rh[j].pgstart >= rg[j].pgstart
                                /\ rh[j].pgend <= rg[j].pgend
  PROVE  ListOf(list, rh, a)
<1>1. Range(list) = {j \in Ranges : rh[j].asma = a}
  BY DEF ListOf
<1>2. \A j \in Range(list) : /\ rh[j].pgstart >= rg[j].pgstart
                             /\ rh[j].pgend <= rg[j].pgend
  BY DEF ListOf
<1>3. Descends(list, rh)
  BY <1>2, DescendsNarrow DEF ListOf
<1> QED BY <1>1, <1>3 DEF ListOf

LEMMA NarrowedRec ==
  ASSUME NEW r \in RangeRecs, NEW s \in Int, NEW e \in Int
  PROVE  [r EXCEPT !.pgstart = s, !.pgend = e] =
           [asma |-> r.asma, pgstart |-> s, pgend |-> e, purged |-> r.purged]
<1>1. [r EXCEPT !.pgstart = s, !.pgend = e] \in RangeRecs
  BY DEF RangeRecs
<1>2. PICK q \in RangeRecs : q = [r EXCEPT !.pgstart = s, !.pgend = e]
  BY <1>1
<1>3. /\ q.asma = r.asma /\ q.pgstart = s /\ q.pgend = e
      /\ q.purged = r.purged
  BY <1>2 DEF RangeRecs
<1>4. q = [asma |-> q.asma, pgstart |-> q.pgstart, pgend |-> q.pgend,
           purged |-> q.purged]
  BY DEF RangeRecs
<1> QED BY <1>2, <1>3, <1>4

LEMMA PurgedRec ==
  ASSUME NEW r \in RangeRecs
  PROVE  [r EXCEPT !.purged = TRUE] =
           [asma |-> r.asma, pgstart |-> r.pgstart, pgend |-> r.pgend,
            purged |-> TRUE]
<1>1. [r EXCEPT !.purged = TRUE] \in RangeRecs
  BY DEF RangeRecs
<1>2. PICK q \in RangeRecs : q = [r EXCEPT !.purged = TRUE]
  BY <1>1
<1>3. /\ q.asma = r.asma /\ q.pgstart = r.pgstart /\ q.pgend = r.pgend
      /\ q.purged = TRUE
  BY <1>2 DEF RangeRecs
<1>4. q = [asma |-> q.asma, pgstart |-> q.pgstart, pgend |-> q.pgend,
           purged |-> q.purged]
  BY DEF RangeRecs
<1> QED BY <1>2, <1>3, <1>4

LEMMA ShrinkFields ==
  ASSUME NEW S \in Stores, NEW i \in Ranges, S.range[i].asma \in Areas,
         NEW s \in Int, NEW e \in Int, NEW q, q = [asma |-> S.range[i].asma,
           pgstart |-> s, pgend |-> e, purged |-> S.range[i].purged],
         NEW T, T = range_shrink(S, i, s, e)
  PROVE  /\ q \in RangeRecs /\ T \in Stores
         /\ T.range = [S.range EXCEPT ![i] = q]
         /\ T.unpinned = S.unpinned /\ T.lru = S.lru
         /\ T.lru_count = Unsigned(S.lru_count - Weight(S.range[i]) + Weight(q))
<1>1. S.range[i] \in RangeRecs
  BY DEF Stores
<1>2. q \in RangeRecs
  BY <1>1 DEF RangeRecs
<1>3. PICK D : D = [S EXCEPT !.range[i].pgstart = s, !.range[i].pgend = e]
  OBVIOUS
<1>4. q = [S.range[i] EXCEPT !.pgstart = s, !.pgend = e]
  BY <1>1, NarrowedRec
<1>5. D = [S EXCEPT !.range[i] = q]
  BY <1>3, <1>4 DEF Stores
<1>6. D \in Stores
  BY <1>2, <1>5 DEF Stores
<1>7. /\ D.range = [S.range EXCEPT ![i] = q] /\ D.unpinned = S.unpinned
      /\ D.lru = S.lru /\ D.lru_count = S.lru_count
  BY <1>5 DEF Stores
<1>8. D.range[i] = q /\ S.lru_count \in Int
  BY <1>7, CountInt DEF Stores
<1>9. PICK x \in Int, y \in Int :
        /\ x = Span(S.range[i]) /\ y = Span(q)
        /\ range_size(S.range[i]) = Unsigned(x) /\ range_size(q) = Unsigned(y)
  BY <1>1, <1>2, SpanInt
<1>10. CASE S.range[i].purged
  <2>1. T = D /\ Weight(S.range[i]) = 0 /\ Weight(q) = 0
    BY <1>3, <1>10 DEF range_shrink, range_on_lru, Weight, OnLru
  <2>2. Unsigned(S.lru_count - 0 + 0) = S.lru_count
    <3>1. S.lru_count - 0 + 0 = S.lru_count
      BY <1>8
    <3> QED BY <3>1, CountInt
  <2> QED BY <1>2, <1>6, <1>7, <1>8, <2>1, <2>2
<1>11. CASE ~ S.range[i].purged
  <2>1. PICK c \in 0 .. SIZE_MAX :
          /\ c = Unsigned(S.lru_count - (Unsigned(x) - Unsigned(y)))
          /\ c = Unsigned(S.lru_count - x + y)
    <3>1. Unsigned(S.lru_count - (Unsigned(x) - Unsigned(y))) =
            Unsigned(S.lru_count - x + y)
      BY <1>8, UnsignedShrink
    <3>2. S.lru_count - x + y \in Int
      BY <1>8
    <3>3. Unsigned(S.lru_count - x + y) \in 0 .. SIZE_MAX
      BY <3>2, UnsignedType
    <3> QED BY <3>1, <3>3
  <2>2. Weight(S.range[i]) = x /\ Weight(q) = y
    BY <1>9, <1>11 DEF Weight, OnLru
  <2>3. T = [D EXCEPT !.lru_count = c]
    BY <1>3, <1>7, <1>8, <1>9, <1>11, <2>1 DEF range_shrink, range_on_lru
  <2>4. T \in Stores
    BY <1>6, <2>3 DEF Stores
  <2>5. T.range = D.range /\ T.unpinned = D.unpinned /\ T.lru = D.lru
        /\ T.lru_count = c
    BY <1>6, <2>3 DEF Stores
  <2> QED BY <1>2, <1>7, <2>1, <2>2, <2>4, <2>5
<1> QED BY <1>10, <1>11

(* range_shrink                                                            *)
LEMMA ShrinkKeeps ==
  ASSUME NEW S, StoreInv(S), NEW i \in Ranges, S.range[i].asma \in Areas,
         NEW s \in Int, NEW e \in Int, Bounded(s, e),
         S.range[i].pgstart <= s, e <= S.range[i].pgend,
         NEW q, q = [asma |-> S.range[i].asma,
           pgstart |-> s, pgend |-> e, purged |-> S.range[i].purged],
         NEW T, T = range_shrink(S, i, s, e)
  PROVE  /\ StoreInv(T) /\ q \in RangeRecs
         /\ T.range = [S.range EXCEPT ![i] = q]
         /\ T.unpinned = S.unpinned
<1>1. /\ S \in Stores
      /\ S.range \in [Ranges -> RangeRecs] /\ AllGood(S.range)
      /\ S.unpinned \in [Areas -> Seq(Ranges)]
      /\ S.lru \in Seq(Ranges) /\ S.lru_count \in 0 .. SIZE_MAX
      /\ \A b \in Areas : ListOf(S.unpinned[b], S.range, b)
      /\ LruOf(S.lru, S.range)
      /\ S.lru_count = Unsigned(Cardinality(LruPages(S.range)))
  BY StoreFacts
<1>2. /\ q \in RangeRecs /\ T \in Stores
      /\ T.range = [S.range EXCEPT ![i] = q]
      /\ T.unpinned = S.unpinned /\ T.lru = S.lru
      /\ T.lru_count = Unsigned(S.lru_count - Weight(S.range[i]) + Weight(q))
  BY <1>1, ShrinkFields
<1>3. /\ q.asma = S.range[i].asma /\ q.pgstart = s /\ q.pgend = e
      /\ q.purged = S.range[i].purged
  OBVIOUS
<1>4. Good(q)
  BY <1>3 DEF Good
<1>5. /\ T.range \in [Ranges -> RangeRecs] /\ AllGood(T.range)
      /\ Cardinality(LruPages(S.range)) \in Int
      /\ Cardinality(LruPages(T.range)) =
           Cardinality(LruPages(S.range)) - Weight(S.range[i]) + Weight(q)
  BY <1>1, <1>2, <1>4, Recount
<1>6. T.range[i] = q /\ \A j \in Ranges : j # i => T.range[j] = S.range[j]
  BY <1>1, <1>2
<1>7. ASSUME NEW b \in Areas PROVE ListOf(T.unpinned[b], T.range, b)
  <2>1. S.unpinned[b] \in Seq(Ranges) /\ ListOf(S.unpinned[b], S.range, b)
    BY <1>1
  <2>2. ASSUME NEW j \in Ranges
        PROVE  /\ S.range[j].asma = b <=> T.range[j].asma = b
               /\ S.range[j].asma = b =>
                    /\ T.range[j].pgstart >= S.range[j].pgstart
                    /\ T.range[j].pgend <= S.range[j].pgend
    <3>1. S.range[j] \in RangeRecs
      BY <1>1
    <3>2. S.range[j].pgstart \in Int /\ S.range[j].pgend \in Int
      BY <3>1 DEF RangeRecs
    <3>3. CASE j = i
      BY <1>3, <1>6, <3>2, <3>3
    <3>4. CASE j # i
      BY <1>6, <3>2, <3>4
    <3> QED BY <3>3, <3>4
  <2> QED BY <1>1, <1>2, <1>5, <2>1, <2>2, ListNarrow
<1>8. LruOf(T.lru, T.range)
  <2>1. \A j \in Ranges : OnLru(T.range[j]) <=> OnLru(S.range[j])
    BY <1>3, <1>6 DEF OnLru
  <2> QED BY <1>1, <1>2, <2>1 DEF LruOf
<1>9. T.lru_count = Unsigned(Cardinality(LruPages(T.range)))
  <2>1. PICK x \in Int, y \in Int :
          /\ x = Cardinality(LruPages(S.range))
          /\ y = Weight(q) - Weight(S.range[i])
          /\ x - Weight(S.range[i]) + Weight(q) = x + y
          /\ S.lru_count - Weight(S.range[i]) + Weight(q) = S.lru_count + y
    <3>1. Weight(q) \in Int /\ Weight(S.range[i]) \in Int
      <4>1. S.range[i] \in RangeRecs
        BY <1>1
      <4>2. Span(q) \in Int /\ Span(S.range[i]) \in Int
        BY <1>2, <4>1, SpanInt
      <4> QED BY <4>2 DEF Weight
    <3>2. S.lru_count \in Int
      BY <1>1, CountInt
    <3> QED BY <1>5, <3>1, <3>2
  <2>2. T.lru_count = Unsigned(Unsigned(x) + y)
    BY <1>1, <1>2, <2>1
  <2>3. Unsigned(Unsigned(x) + y) = Unsigned(x + y)
    BY UnsignedPlus
  <2> QED BY <1>5, <2>1, <2>2, <2>3
<1> QED BY <1>1, <1>2, <1>5, <1>7, <1>8, <1>9 DEF StoreInv

(* A range is purged and leaves the LRU list.                              *)
LEMMA PurgeKeeps ==
  ASSUME NEW S, StoreInv(S), NEW i \in Ranges, OnLru(S.range[i]),
         NEW q, q = [asma |-> S.range[i].asma, pgstart |-> S.range[i].pgstart,
                     pgend |-> S.range[i].pgend, purged |-> TRUE],
         NEW T, T = lru_del([S EXCEPT !.range[i].purged = TRUE], i)
  PROVE  /\ StoreInv(T) /\ q \in RangeRecs
         /\ T.range = [S.range EXCEPT ![i] = q]
<1>1. /\ S \in Stores
      /\ S.range \in [Ranges -> RangeRecs] /\ AllGood(S.range)
      /\ S.unpinned \in [Areas -> Seq(Ranges)]
      /\ S.lru \in Seq(Ranges) /\ S.lru_count \in 0 .. SIZE_MAX
      /\ \A b \in Areas : ListOf(S.unpinned[b], S.range, b)
      /\ LruOf(S.lru, S.range)
      /\ S.lru_count = Unsigned(Cardinality(LruPages(S.range)))
  BY StoreFacts
<1>2. S.range[i] \in RangeRecs /\ S.range[i].asma \in Areas /\ Good(S.range[i])
      /\ ~ S.range[i].purged
  BY <1>1 DEF OnLru, AllGood
<1>3. /\ Bounded(S.range[i].pgstart, S.range[i].pgend)
      /\ Span(S.range[i]) \in Nat
  BY <1>2, GoodFacts
<1>4. /\ q.asma = S.range[i].asma /\ q.pgstart = S.range[i].pgstart
      /\ q.pgend = S.range[i].pgend /\ q.purged
  OBVIOUS
<1>5. q \in RangeRecs /\ Good(q) /\ ~ OnLru(q)
      /\ Span(q) = Span(S.range[i])
  BY <1>2, <1>3, <1>4 DEF RangeRecs, Good, OnLru, Span
<1>6. PICK D : D = [S EXCEPT !.range[i].purged = TRUE]
  OBVIOUS
<1>7. D = [S EXCEPT !.range[i] = q]
  <2>1. q = [S.range[i] EXCEPT !.purged = TRUE]
    BY <1>2, PurgedRec
  <2> QED BY <1>1, <1>6, <2>1 DEF Stores
<1>8. D \in Stores
  BY <1>1, <1>5, <1>7 DEF Stores
<1>9. /\ D.range = [S.range EXCEPT ![i] = q] /\ D.unpinned = S.unpinned
      /\ D.lru = S.lru /\ D.lru_count = S.lru_count
  BY <1>1, <1>7 DEF Stores
<1>10. i \in Range(S.lru) /\ IsInjective(S.lru)
  BY <1>1 DEF LruOf
<1>11. PICK l \in Seq(Ranges) :
         /\ l = Without(S.lru, i) /\ IsInjective(l)
         /\ Range(l) = Range(S.lru) \ {i}
  BY <1>1, <1>10, WithoutFacts
<1>12. D.range[i] = q
  BY <1>1, <1>9
<1>13. /\ T \in Stores /\ T.range = D.range /\ T.unpinned = D.unpinned
       /\ T.lru = l /\ T.lru_count = Unsigned(D.lru_count - Span(D.range[i]))
  <2>1. Without(D.lru, i) \in Seq(Ranges)
    BY <1>9, <1>11
  <2>2. T = lru_del(D, i)
    BY <1>6
  <2>3. /\ T \in Stores /\ T.range = D.range /\ T.unpinned = D.unpinned
        /\ T.lru = Without(D.lru, i)
        /\ T.lru_count = Unsigned(D.lru_count - Span(D.range[i]))
    BY <1>8, <2>1, <2>2, DelLru
  <2> QED BY <1>9, <1>11, <2>3
<1>14. /\ T.range \in [Ranges -> RangeRecs] /\ AllGood(T.range)
       /\ Cardinality(LruPages(S.range)) \in Int
       /\ Cardinality(LruPages(T.range)) =
            Cardinality(LruPages(S.range)) - Weight(S.range[i]) + Weight(q)
  <2>1. T.range = [S.range EXCEPT ![i] = q]
    BY <1>9, <1>13
  <2>2. S.range \in [Ranges -> RangeRecs] /\ AllGood(S.range)
    BY <1>1
  <2>3. q \in RangeRecs /\ Good(q)
    BY <1>5
  <2>0. PICK rh : rh = T.range
    OBVIOUS
  <2>4. PICK rg \in [Ranges -> RangeRecs], r \in RangeRecs :
          rg = S.range /\ r = q /\ rh = T.range /\ AllGood(rg) /\ Good(r)
    BY <2>0, <2>2, <2>3
  <2>5. rh = [rg EXCEPT ![i] = r]
    BY <2>1, <2>4
  <2>6. /\ rh \in [Ranges -> RangeRecs] /\ AllGood(rh)
        /\ Cardinality(LruPages(rg)) \in Int
        /\ Cardinality(LruPages(rh)) =
             Cardinality(LruPages(rg)) - Weight(rg[i]) + Weight(r)
    <3>1. AllGood(rg) /\ Good(r)
      BY <2>4
    <3> HIDE <2>4
    <3> QED BY <2>5, <3>1, Recount
  <2> QED BY <2>4, <2>6
<1>15. T.lru_count = Unsigned(Cardinality(LruPages(T.range)))
  <2>1. Weight(q) = 0 /\ Weight(S.range[i]) = Span(S.range[i])
    BY <1>5 DEF Weight
  <2>2. PICK x \in Int, y \in Nat :
          x = Cardinality(LruPages(S.range)) /\ y = Span(S.range[i])
    BY <1>3, <1>14
  <2>3. Cardinality(LruPages(T.range)) = x - y
    BY <1>14, <2>1, <2>2
  <2>4. T.lru_count = Unsigned(Unsigned(x) - y)
    BY <1>1, <1>5, <1>9, <1>12, <1>13, <2>2
  <2>5. Unsigned(Unsigned(x) - y) = Unsigned(x - y)
    BY UnsignedMinus
  <2> QED BY <2>3, <2>4, <2>5
<1>16. T.range[i] = q /\ \A j \in Ranges : j # i => T.range[j] = S.range[j]
  BY <1>1, <1>9, <1>13
<1>17. ASSUME NEW b \in Areas PROVE ListOf(T.unpinned[b], T.range, b)
  <2>1. S.unpinned[b] \in Seq(Ranges) /\ ListOf(S.unpinned[b], S.range, b)
    BY <1>1
  <2>2. ASSUME NEW j \in Ranges
        PROVE  /\ S.range[j].asma = b <=> T.range[j].asma = b
               /\ S.range[j].asma = b =>
                    /\ T.range[j].pgstart >= S.range[j].pgstart
                    /\ T.range[j].pgend <= S.range[j].pgend
    <3>1. S.range[j] \in RangeRecs
      BY <1>1
    <3>2. S.range[j].pgstart \in Int /\ S.range[j].pgend \in Int
      BY <3>1 DEF RangeRecs
    <3>3. CASE j = i
      BY <1>4, <1>16, <3>2, <3>3
    <3>4. CASE j # i
      <4>1. T.range[j] = S.range[j]
        BY <1>16, <3>4
      <4> QED BY <3>2, <4>1
    <3> QED BY <3>3, <3>4
  <2> QED BY <1>1, <1>9, <1>13, <1>14, <2>1, <2>2, ListNarrow
<1>18. LruOf(T.lru, T.range)
  <2>1. {j \in Ranges : OnLru(T.range[j])} =
          {j \in Ranges : OnLru(S.range[j])} \ {i}
    BY <1>5, <1>16
  <2> QED BY <1>1, <1>11, <1>13, <2>1 DEF LruOf
<1> QED BY <1>5, <1>9, <1>13, <1>14, <1>15, <1>17, <1>18 DEF StoreInv

(* list_add_tail                                                           *)
Extended(list, i) == Append(list, i)

LEMMA AddLru ==
  ASSUME NEW S \in Stores, NEW i \in Ranges,
         NEW l \in Seq(Ranges), l = Extended(S.lru, i),
         NEW x \in Int, x = Span(S.range[i]), NEW D, D = lru_add(S, i)
  PROVE  /\ D \in Stores /\ D.range = S.range /\ D.unpinned = S.unpinned
         /\ D.lru = l /\ D.lru_count = Unsigned(S.lru_count + x)
<1>0. PICK m \in Int :
        m = S.lru_count /\ range_size(S.range[i]) = Unsigned(x)
  <2>1. S.range[i] \in RangeRecs
    BY DEF Stores
  <2> QED BY <2>1, SpanInt, CountInt
<1>1. PICK c \in 0 .. SIZE_MAX :
        c = Unsigned(m + x) /\ c = Unsigned(m + Unsigned(x))
  <2>1. Unsigned(m + Unsigned(x)) = Unsigned(m + x)
    BY UnsignedPlus
  <2>2. Unsigned(m + x) \in 0 .. SIZE_MAX
    <3>1. m + x \in Int
      OBVIOUS
    <3> QED BY <3>1, UnsignedType
  <2> QED BY <2>1, <2>2
<1>2. D = [S EXCEPT !.lru = l, !.lru_count = c]
  BY <1>0, <1>1 DEF lru_add, Extended
<1>3. D \in Stores
  BY <1>2, LruType
<1> QED BY <1>0, <1>1, <1>2, <1>3 DEF Stores

(* The range that range_alloc makes.                                       *)
NewRec(a, purged, s, e) ==
  [asma |-> a, pgstart |-> s, pgend |-> e, purged |-> purged]

LEMMA NewRecFacts ==
  ASSUME NEW a \in Areas, NEW purged \in BOOLEAN, NEW s \in Int, NEW e \in Int,
         Bounded(s, e)
  PROVE  /\ NewRec(a, purged, s, e) \in RangeRecs
         /\ Good(NewRec(a, purged, s, e))
         /\ NewRec(a, purged, s, e).asma = a
         /\ NewRec(a, purged, s, e).pgstart = s
         /\ NewRec(a, purged, s, e).pgend = e
         /\ NewRec(a, purged, s, e).purged = purged
         /\ Span(NewRec(a, purged, s, e)) \in Int
BY DEF NewRec, RangeRecs, Good, Span

(* The range that kmem_cache_zalloc returns.                               *)
Fresh(S) == CHOOSE j \in Ranges : j \notin Allocated(S)

LEMMA AllocFields ==
  ASSUME NEW S \in Stores, NEW a \in Areas, NEW pos, NEW purged \in BOOLEAN,
         NEW s \in Int, NEW e \in Int, Bounded(s, e),
         NEW i \in Ranges, i = Fresh(S),
         NEW u \in Seq(Ranges), u = InsertAt(S.unpinned[a], pos, i),
         NEW T, T = range_alloc(S, a, pos, purged, s, e),
         NEW q \in RangeRecs, q = NewRec(a, purged, s, e),
         NEW x \in Int, x = Span(q),
         NEW l \in Seq(Ranges), l = Extended(S.lru, i)
  PROVE  /\ T \in Stores
         /\ T.range = [S.range EXCEPT ![i] = q]
         /\ T.unpinned = [S.unpinned EXCEPT ![a] = u]
         /\ T.lru = IF purged THEN S.lru ELSE l
         /\ T.lru_count =
              IF purged THEN S.lru_count ELSE Unsigned(S.lru_count + x)
<1>1. PICK D : D = [S EXCEPT !.range[i] = q, !.unpinned[a] = u]
  OBVIOUS
<1>2. T = IF purged THEN D ELSE lru_add(D, i)
  BY <1>1 DEF range_alloc, NewRec, Fresh
<1>3. D \in Stores
  BY <1>1 DEF Stores
<1>4. /\ D.range = [S.range EXCEPT ![i] = q]
      /\ D.unpinned = [S.unpinned EXCEPT ![a] = u]
      /\ D.lru = S.lru /\ D.lru_count = S.lru_count
  BY <1>1 DEF Stores
<1>5. D.range[i] = q
  BY <1>4 DEF Stores
<1>6. CASE purged
  BY <1>2, <1>3, <1>4, <1>6
<1>7. CASE ~ purged
  <2>1. T = lru_add(D, i) /\ l = Extended(D.lru, i) /\ x = Span(D.range[i])
    BY <1>2, <1>4, <1>5, <1>7
  <2>2. /\ T \in Stores /\ T.range = D.range /\ T.unpinned = D.unpinned
        /\ T.lru = l /\ T.lru_count = Unsigned(D.lru_count + x)
    BY <1>3, <2>1, AddLru
  <2> QED BY <1>4, <1>7, <2>2
<1> QED BY <1>6, <1>7

(* Where in the list of an area the new range goes.                        *)
Belongs(R, list, pos, s, e) ==
  \A m \in 1 .. Len(list) :
    /\ m < pos => R.range[list[m]].pgstart > e
    /\ m >= pos => s > R.range[list[m]].pgend

(* range_alloc, at a position where the range belongs.                     *)
LEMMA AllocKeeps ==
  ASSUME NEW S, StoreInv(S), NEW a \in Areas,
         NEW list, list = S.unpinned[a], NEW pos \in 1 .. Len(list) + 1,
         NEW purged \in BOOLEAN, NEW s \in Int, NEW e \in Int, Bounded(s, e),
         Allocated(S) # Ranges, Belongs(S, list, pos, s, e),
         NEW T, T = range_alloc(S, a, pos, purged, s, e)
  PROVE  /\ StoreInv(T) /\ Fresh(S) \in Ranges /\ S.range[Fresh(S)] = NoRange
         /\ T.range = [S.range EXCEPT ![Fresh(S)] = NewRec(a, purged, s, e)]
<1>1. /\ S \in Stores
      /\ S.range \in [Ranges -> RangeRecs] /\ AllGood(S.range)
      /\ S.unpinned \in [Areas -> Seq(Ranges)]
      /\ S.lru \in Seq(Ranges) /\ S.lru_count \in 0 .. SIZE_MAX
      /\ \A b \in Areas : ListOf(S.unpinned[b], S.range, b)
      /\ LruOf(S.lru, S.range)
      /\ S.lru_count = Unsigned(Cardinality(LruPages(S.range)))
  BY StoreFacts
<1>2. PICK i \in Ranges : i = Fresh(S) /\ S.range[i] = NoRange
  BY DEF Allocated, Fresh
<1>3. PICK q \in RangeRecs : q = NewRec(a, purged, s, e)
  BY NewRecFacts
<1>4. /\ q.asma = a /\ q.pgstart = s /\ q.pgend = e /\ q.purged = purged
      /\ Good(q) /\ Span(q) \in Int
  BY <1>3, NewRecFacts
<1>5. list \in Seq(Ranges)
  BY <1>1
<1>6. ListOf(list, S.range, a)
  BY <1>1, <1>5
<1>7. i \notin Range(list) /\ i \notin Range(S.lru)
  BY <1>1, <1>2, <1>6, NoRangeFacts DEF ListOf, LruOf
<1>8. PICK u \in Seq(Ranges) :
        /\ u = InsertAt(list, pos, i) /\ IsInjective(u)
        /\ Range(u) = Range(list) \cup {i}
  BY <1>5, <1>6, <1>7, InsertFacts DEF ListOf
<1>9. PICK l \in Seq(Ranges) :
        /\ l = Append(S.lru, i) /\ IsInjective(l)
        /\ Range(l) = Range(S.lru) \cup {i}
  BY <1>1, <1>7, AppendFacts DEF LruOf
<1>10. /\ T \in Stores
       /\ T.range = [S.range EXCEPT ![i] = q]
       /\ T.unpinned = [S.unpinned EXCEPT ![a] = u]
       /\ T.lru = IF purged THEN S.lru ELSE l
       /\ T.lru_count =
            IF purged THEN S.lru_count ELSE Unsigned(S.lru_count + Span(q))
  <2>1. u = InsertAt(S.unpinned[a], pos, i) /\ l = Extended(S.lru, i)
    BY <1>5, <1>8, <1>9 DEF Extended
  <2>2. PICK x \in Int : x = Span(q)
    BY <1>4
  <2>3. S \in Stores
    BY <1>1
  <2>4. i = Fresh(S)
    BY <1>2
  <2>5. /\ T \in Stores
        /\ T.range = [S.range EXCEPT ![i] = q]
        /\ T.unpinned = [S.unpinned EXCEPT ![a] = u]
        /\ T.lru = IF purged THEN S.lru ELSE l
        /\ T.lru_count =
              IF purged THEN S.lru_count ELSE Unsigned(S.lru_count + x)
    BY <1>3, <2>1, <2>2, <2>3, <2>4, AllocFields
  <2> QED BY <2>2, <2>5
<1>11. PICK rg \in [Ranges -> RangeRecs] :
         rg = T.range /\ rg = [S.range EXCEPT ![i] = q]
  BY <1>1, <1>10
<1>12. rg[i] = q /\ \A j \in Ranges : j # i => rg[j] = S.range[j]
  BY <1>1, <1>11
<1>13. /\ AllGood(rg) /\ Cardinality(LruPages(S.range)) \in Int
       /\ Cardinality(LruPages(rg)) =
            Cardinality(LruPages(S.range)) - Weight(S.range[i]) + Weight(q)
  <2>1. S.range \in [Ranges -> RangeRecs] /\ AllGood(S.range) /\ Good(q)
        /\ rg = [S.range EXCEPT ![i] = q]
    BY <1>1, <1>4, <1>11
  <2> QED BY <2>1, Recount
<1>14. T.lru_count = Unsigned(Cardinality(LruPages(rg)))
  <2>1. Weight(S.range[i]) = 0
    BY <1>2, NoRangeFacts DEF Weight
  <2>2. PICK x \in Int, y \in Int :
          x = Cardinality(LruPages(S.range)) /\ y = Span(q)
    BY <1>4, <1>13
  <2>3. Weight(q) = IF purged THEN 0 ELSE y
    BY <1>4, <2>2 DEF Weight, OnLru
  <2>4. Cardinality(LruPages(rg)) = IF purged THEN x ELSE x + y
    BY <1>13, <2>1, <2>2, <2>3
  <2>5. T.lru_count = IF purged THEN Unsigned(x) ELSE Unsigned(Unsigned(x) + y)
    BY <1>1, <1>10, <2>2
  <2>6. Unsigned(Unsigned(x) + y) = Unsigned(x + y)
    BY UnsignedPlus
  <2> QED BY <2>4, <2>5, <2>6
<1>15. \A j \in Range(list) : j \in Ranges /\ j # i /\ rg[j] = S.range[j]
  BY <1>6, <1>7, <1>12 DEF ListOf
<1>16. ListOf(u, rg, a)
  <2>1. Range(u) = {j \in Ranges : rg[j].asma = a}
    BY <1>4, <1>6, <1>8, <1>12 DEF ListOf
  <2>2. Descends(list, rg)
    <3>1. \A j \in Range(list) : /\ rg[j].pgstart >= S.range[j].pgstart
                                 /\ rg[j].pgend <= S.range[j].pgend
      <4> TAKE j \in Range(list)
      <4>1. rg[j] = S.range[j] /\ S.range[j] \in RangeRecs
        BY <1>1, <1>15
      <4> QED BY <4>1 DEF RangeRecs
    <3> QED BY <1>1, <1>6, <3>1, DescendsNarrow DEF ListOf
  <2>3. \A m \in 1 .. Len(list) :
          /\ m < pos => rg[list[m]].pgstart > rg[i].pgend
          /\ m >= pos => rg[i].pgstart > rg[list[m]].pgend
    <3> TAKE m \in 1 .. Len(list)
    <3>1. list[m] \in Range(list)
      BY LenProperties DEF Range
    <3>2. rg[list[m]] = S.range[list[m]]
      BY <1>15, <3>1
    <3>3. /\ m < pos => S.range[list[m]].pgstart > e
          /\ m >= pos => s > S.range[list[m]].pgend
      BY DEF Belongs
    <3> QED BY <1>4, <1>12, <3>2, <3>3
  <2>4. Descends(u, rg)
    <3>1. InsertAt(list, pos, i) = u
      BY <1>8
    <3>2. Descends(InsertAt(list, pos, i), rg)
      BY <1>5, <2>2, <2>3, DescendsInsert
    <3> QED BY <3>1, <3>2
  <2> QED BY <1>8, <2>1, <2>4 DEF ListOf
<1>17. ASSUME NEW b \in Areas PROVE ListOf(T.unpinned[b], rg, b)
  <2>1. CASE b = a
    BY <1>1, <1>10, <1>16, <2>1
  <2>2. CASE b # a
    <3>1. T.unpinned[b] = S.unpinned[b]
      BY <1>1, <1>10, <2>2
    <3>2. S.unpinned[b] \in Seq(Ranges) /\ ListOf(S.unpinned[b], S.range, b)
      BY <1>1
    <3>3. ASSUME NEW j \in Ranges
          PROVE  /\ S.range[j].asma = b <=> rg[j].asma = b
                 /\ S.range[j].asma = b => /\ rg[j].pgstart >= S.range[j].pgstart
                                           /\ rg[j].pgend <= S.range[j].pgend
      <4>1. S.range[j] \in RangeRecs
        BY <1>1
      <4>2. S.range[j].pgstart \in Int /\ S.range[j].pgend \in Int
        BY <4>1 DEF RangeRecs
      <4>3. CASE j = i
        BY <1>2, <1>4, <1>12, <2>2, <4>3, NoRangeFacts
      <4>4. CASE j # i
        <5>1. rg[j] = S.range[j]
          BY <1>12, <4>4
        <5> QED BY <4>2, <5>1
      <4> QED BY <4>3, <4>4
    <3>4. ListOf(S.unpinned[b], rg, b)
      BY <1>1, <3>2, <3>3, ListNarrow
    <3> QED BY <3>1, <3>4
  <2> QED BY <2>1, <2>2
<1>18. LruOf(T.lru, rg)
  <2>1. CASE purged
    <3>1. {j \in Ranges : OnLru(rg[j])} = {j \in Ranges : OnLru(S.range[j])}
      BY <1>2, <1>4, <1>12, <2>1, NoRangeFacts DEF OnLru
    <3> QED BY <1>1, <1>10, <2>1, <3>1 DEF LruOf
  <2>2. CASE ~ purged
    <3>1. {j \in Ranges : OnLru(rg[j])} =
            {j \in Ranges : OnLru(S.range[j])} \cup {i}
      BY <1>4, <1>12, <2>2 DEF OnLru
    <3> QED BY <1>1, <1>9, <1>10, <2>2, <3>1 DEF LruOf
  <2> QED BY <2>1, <2>2
<1>19. StoreInv(T)
  BY <1>10, <1>11, <1>13, <1>14, <1>17, <1>18 DEF StoreInv
<1> QED BY <1>2, <1>3, <1>10, <1>19

-----------------------------------------------------------------------------
(* Walks over a list.  A walk is a recursive function of the number of     *)
(* turns; what holds after no turn and is kept by a turn holds at its end. *)

LEMMA SmallestOf ==
  ASSUME NEW T \in SUBSET Nat, T # {}
  PROVE  \E d \in T : \A e \in T : d <= e
<1> DEFINE Less == OpToRel(<, Nat)
<1>1. IsWellFoundedOn(Less, Nat)
  BY NatLessThanWellFounded
<1>2. \A i, j \in Nat : i < j => <<i, j>> \in Less
  BY DEF OpToRel
<1> HIDE DEF Less
<1>3. PICK d \in T : \A e \in T : ~ (<<e, d>> \in Less)
  BY <1>1, WFMin
<1>4. \A e \in T : ~ (e < d)
  BY <1>2, <1>3
<1> QED BY <1>4

LEMMA Turns ==
  ASSUME NEW T, NEW N \in Nat, 0 \in T,
         \A n \in 0 .. N - 1 : n \in T => n + 1 \in T
  PROVE  N \in T
<1> SUFFICES ASSUME N \notin T PROVE FALSE
  OBVIOUS
<1> DEFINE out == {n \in 0 .. N : n \notin T}
<1>1. N \in out /\ out \in SUBSET Nat
  OBVIOUS
<1> HIDE DEF out
<1>2. PICK d \in out : \A e \in out : d <= e
  BY <1>1, SmallestOf
<1>3. d \in Nat /\ d <= N /\ d \notin T
  BY <1>2 DEF out
<1>4. CASE d = 0
  BY <1>3, <1>4
<1>5. CASE d # 0
  <2>1. PICK n \in 0 .. N - 1 : d = n + 1
    <3>1. d - 1 \in 0 .. N - 1 /\ d = (d - 1) + 1
      BY <1>3, <1>5
    <3> QED BY <3>1
  <2>2. n \in T
    <3>1. n \notin out
      BY <1>2, <2>1
    <3> QED BY <2>1, <3>1 DEF out
  <2> QED BY <1>3, <2>1, <2>2
<1> QED BY <1>4, <1>5

-----------------------------------------------------------------------------
(* ashmem_release: every range of the area goes.                           *)

DeleteTurn(f, S, list, n) == IF n = 0 THEN S ELSE range_del(f[n - 1], list[n])

DeleteTurns(f, S, list, N) == f = [n \in 0 .. N |-> DeleteTurn(f, S, list, n)]

LEMMA DeleteUnfold ==
  ASSUME NEW list, Len(list) \in Nat
  PROVE  \E f : /\ DeleteTurns(f, ash, list, Len(list))
                /\ DeleteAll(list) = f[Len(list)]
<1>1. PICK S : S = ash
  OBVIOUS
<1>2. \E f : DeleteTurns(f, S, list, Len(list))
  <2> DEFINE T == {N \in Nat : \E f : DeleteTurns(f, S, list, N)}
  <2>1. 0 \in T
    <3>1. PICK f : f = [n \in 0 .. 0 |-> S]
      OBVIOUS
    <3>2. f = [n \in 0 .. 0 |-> DeleteTurn(f, S, list, n)]
      <4>1. \A n \in 0 .. 0 : DeleteTurn(f, S, list, n) = S
        BY DEF DeleteTurn
      <4> QED BY <3>1, <4>1
    <3> QED BY <3>2 DEF DeleteTurns
  <2>2. ASSUME NEW N \in Nat, N \in T PROVE N + 1 \in T
    <3>1. PICK f : f = [n \in 0 .. N |-> DeleteTurn(f, S, list, n)]
      BY <2>2 DEF DeleteTurns
    <3>2. PICK g : g = [n \in 0 .. N + 1 |-> DeleteTurn(f, S, list, n)]
      OBVIOUS
    <3>3. ASSUME NEW n \in 0 .. N + 1
          PROVE  DeleteTurn(g, S, list, n) = DeleteTurn(f, S, list, n)
      <4>1. CASE n = 0
        BY <4>1 DEF DeleteTurn
      <4>2. CASE n # 0
        <5>1. n - 1 \in 0 .. N /\ n - 1 \in 0 .. N + 1
          BY <4>2
        <5>2. f[n - 1] = g[n - 1]
          BY <3>1, <3>2, <5>1
        <5> QED BY <4>2, <5>2 DEF DeleteTurn
      <4> QED BY <4>1, <4>2
    <3>4. g = [n \in 0 .. N + 1 |-> DeleteTurn(g, S, list, n)]
      BY <3>2, <3>3
    <3> QED BY <3>4 DEF DeleteTurns
  <2> HIDE DEF T
  <2>3. Len(list) \in T
    BY <2>1, <2>2, Turns
  <2> QED BY <2>3 DEF T
<1>3. PICK f : f = (CHOOSE g : DeleteTurns(g, S, list, Len(list)))
  OBVIOUS
<1>4. DeleteTurns(f, S, list, Len(list))
  BY <1>2, <1>3
<1>5. DeleteAll(list) = f[Len(list)]
  BY <1>1, <1>3 DEF DeleteAll, DeleteTurns, DeleteTurn
<1> QED BY <1>1, <1>4, <1>5

(* What a walk over a list of an area knows of it.                         *)
InOrder(list, S, a) ==
  /\ list \in Seq(Ranges) /\ Len(list) \in Nat
  /\ DOMAIN list = 1 .. Len(list)
  /\ \A m \in 1 .. Len(list) :
       list[m] \in Ranges /\ S.range[list[m]].asma = a
  /\ \A m, n \in 1 .. Len(list) : list[m] = list[n] => m = n
  /\ \A j \in Ranges : S.range[j].asma = a =>
       \E m \in 1 .. Len(list) : list[m] = j
  /\ \A m, n \in 1 .. Len(list) :
       m < n => S.range[list[m]].pgstart > S.range[list[n]].pgend

LEMMA ListInOrder ==
  ASSUME NEW S, StoreInv(S), NEW a \in Areas, NEW list, list = S.unpinned[a]
  PROVE  InOrder(list, S, a)
<1>1. list \in Seq(Ranges) /\ ListOf(list, S.range, a)
  BY StoreFacts
<1>2. Len(list) \in Nat /\ DOMAIN list = 1 .. Len(list)
  BY <1>1, LenProperties
<1>3. \A m \in 1 .. Len(list) : list[m] \in Range(list)
  BY <1>2 DEF Range
<1>4. \A j \in Range(list) : \E m \in 1 .. Len(list) : list[m] = j
  BY <1>2 DEF Range
<1>5. Range(list) = {i \in Ranges : S.range[i].asma = a}
  BY <1>1 DEF ListOf
<1>6. \A m, n \in 1 .. Len(list) : list[m] = list[n] => m = n
  BY <1>1, <1>2 DEF ListOf, IsInjective
<1>7. Descends(list, S.range)
  BY <1>1 DEF ListOf
<1> QED BY <1>1, <1>2, <1>3, <1>4, <1>5, <1>6, <1>7 DEF InOrder, Descends

LEMMA ListFacts ==
  ASSUME NEW S, StoreInv(S), NEW a \in Areas, NEW list, list = S.unpinned[a]
  PROVE  /\ list \in Seq(Ranges) /\ Len(list) \in Nat
         /\ DOMAIN list = 1 .. Len(list)
         /\ \A m \in 1 .. Len(list) :
              list[m] \in Ranges /\ S.range[list[m]].asma = a
         /\ \A m, n \in 1 .. Len(list) : list[m] = list[n] => m = n
         /\ \A j \in Ranges : S.range[j].asma = a =>
              \E m \in 1 .. Len(list) : list[m] = j
         /\ \A m, n \in 1 .. Len(list) :
              m < n => S.range[list[m]].pgstart > S.range[list[n]].pgend
<1>1. InOrder(list, S, a)
  BY ListInOrder
<1> QED BY <1>1 DEF InOrder

Among(list, n, j) == \E m \in 1 .. n : list[m] = j

Deleted(R, S, list, n) ==
  /\ StoreInv(R)
  /\ \A j \in Ranges :
       R.range[j] = IF Among(list, n, j) THEN NoRange ELSE S.range[j]

LEMMA ReleaseKeeps ==
  ASSUME NEW S, S = ash, StoreInv(S), NEW a \in Areas,
         NEW T, T = DeleteAll(ash.unpinned[a])
  PROVE  /\ StoreInv(T)
         /\ \A j \in Ranges :
              T.range[j] = IF S.range[j].asma = a THEN NoRange ELSE S.range[j]
<1>1. PICK list : list = S.unpinned[a]
  OBVIOUS
<1>2. /\ list \in Seq(Ranges) /\ Len(list) \in Nat
      /\ \A m \in 1 .. Len(list) :
           list[m] \in Ranges /\ S.range[list[m]].asma = a
      /\ \A m, n \in 1 .. Len(list) : list[m] = list[n] => m = n
      /\ \A j \in Ranges : S.range[j].asma = a =>
           \E m \in 1 .. Len(list) : list[m] = j
  BY <1>1, ListFacts
<1>3. PICK f : DeleteTurns(f, S, list, Len(list)) /\ T = f[Len(list)]
  BY <1>1, <1>2, DeleteUnfold
<1>4. \A n \in 0 .. Len(list) : f[n] = DeleteTurn(f, S, list, n)
  BY <1>3 DEF DeleteTurns
<1> DEFINE kept == {n \in Nat : Deleted(f[n], S, list, n)}
<1>5. 0 \in kept
  <2>1. f[0] = S
    BY <1>2, <1>4 DEF DeleteTurn
  <2>2. \A j \in Ranges : ~ Among(list, 0, j)
    BY DEF Among
  <2> QED BY <2>1, <2>2 DEF Deleted
<1>6. ASSUME NEW n \in 0 .. Len(list) - 1, n \in kept PROVE n + 1 \in kept
  <2>1. PICK k \in 1 .. Len(list) : k = n + 1
    BY <1>2
  <2>2. PICK i \in Ranges : i = list[k] /\ S.range[i].asma = a
    BY <1>2
  <2>3. PICK P : P = f[n] /\ Deleted(P, S, list, n)
    BY <1>6
  <2>4. ~ Among(list, n, i)
    BY <1>2, <2>1, <2>2 DEF Among
  <2>5. StoreInv(P) /\ P.range[i].asma = a
    BY <2>2, <2>3, <2>4 DEF Deleted
  <2>6. PICK Q : Q = range_del(P, i)
    OBVIOUS
  <2>7. f[k] = Q
    <3>1. k \in 0 .. Len(list) /\ k # 0 /\ k - 1 = n
      BY <1>2, <2>1
    <3> QED BY <1>4, <2>2, <2>3, <2>6, <3>1 DEF DeleteTurn
  <2>8. StoreInv(Q) /\ Q.range = [P.range EXCEPT ![i] = NoRange]
    BY <2>5, <2>6, DelKeeps
  <2>9. \A j \in Ranges : Among(list, k, j) <=> Among(list, n, j) \/ j = i
    BY <2>1, <2>2 DEF Among
  <2>10. P.range \in [Ranges -> RangeRecs]
    BY <2>5, StoreFacts
  <2>11. Deleted(Q, S, list, k)
    BY <2>3, <2>8, <2>9, <2>10 DEF Deleted
  <2> QED BY <2>1, <2>7, <2>11
<1> HIDE DEF kept
<1>7. Len(list) \in kept
  BY <1>2, <1>5, <1>6, Turns
<1>8. Deleted(T, S, list, Len(list))
  BY <1>3, <1>7 DEF kept
<1>9. \A j \in Ranges : Among(list, Len(list), j) <=> S.range[j].asma = a
  BY <1>2 DEF Among
<1> QED BY <1>8, <1>9 DEF Deleted

-----------------------------------------------------------------------------
(* ashmem_shrink: the ranges it takes from the LRU list are purged.        *)

PurgeTurn(f, S, list, nr, n) ==
  IF n = 0 THEN [S |-> S, nr |-> nr, done |-> FALSE, purged |-> {}]
  ELSE PurgeRange(f[n - 1], list[n])

PurgeTurns(f, S, list, nr, N) ==
  f = [n \in 0 .. N |-> PurgeTurn(f, S, list, nr, n)]

LEMMA PurgeUnfold ==
  ASSUME NEW list, list = ash.lru, Len(list) \in Nat, NEW nr
  PROVE  \E f : /\ PurgeTurns(f, ash, list, nr, Len(list))
                /\ PurgeWalk(nr) = f[Len(list)]
<1>1. PICK S : S = ash
  OBVIOUS
<1>2. \E f : PurgeTurns(f, S, list, nr, Len(list))
  <2> DEFINE T == {N \in Nat : \E f : PurgeTurns(f, S, list, nr, N)}
  <2>1. 0 \in T
    <3>1. PICK w : w = [S |-> S, nr |-> nr, done |-> FALSE, purged |-> {}]
      OBVIOUS
    <3>2. PICK f : f = [n \in 0 .. 0 |-> w]
      OBVIOUS
    <3>3. f = [n \in 0 .. 0 |-> PurgeTurn(f, S, list, nr, n)]
      <4>1. \A n \in 0 .. 0 : PurgeTurn(f, S, list, nr, n) = w
        BY <3>1 DEF PurgeTurn
      <4> QED BY <3>2, <4>1
    <3> QED BY <3>3 DEF PurgeTurns
  <2>2. ASSUME NEW N \in Nat, N \in T PROVE N + 1 \in T
    <3>1. PICK f : f = [n \in 0 .. N |-> PurgeTurn(f, S, list, nr, n)]
      BY <2>2 DEF PurgeTurns
    <3>2. PICK g : g = [n \in 0 .. N + 1 |-> PurgeTurn(f, S, list, nr, n)]
      OBVIOUS
    <3>3. ASSUME NEW n \in 0 .. N + 1
          PROVE  PurgeTurn(g, S, list, nr, n) = PurgeTurn(f, S, list, nr, n)
      <4>1. CASE n = 0
        BY <4>1 DEF PurgeTurn
      <4>2. CASE n # 0
        <5>1. n - 1 \in 0 .. N /\ n - 1 \in 0 .. N + 1
          BY <4>2
        <5>2. f[n - 1] = g[n - 1]
          BY <3>1, <3>2, <5>1
        <5> QED BY <4>2, <5>2 DEF PurgeTurn
      <4> QED BY <4>1, <4>2
    <3>4. g = [n \in 0 .. N + 1 |-> PurgeTurn(g, S, list, nr, n)]
      BY <3>2, <3>3
    <3> QED BY <3>4 DEF PurgeTurns
  <2> HIDE DEF T
  <2>3. Len(list) \in T
    BY <2>1, <2>2, Turns
  <2> QED BY <2>3 DEF T
<1>3. PICK f : f = (CHOOSE g : PurgeTurns(g, S, list, nr, Len(list)))
  OBVIOUS
<1>4. PurgeTurns(f, S, list, nr, Len(list))
  BY <1>2, <1>3
<1>5. PurgeWalk(nr) = f[Len(list)]
  BY <1>1, <1>3 DEF PurgeWalk, PurgeTurns, PurgeTurn
<1> QED BY <1>1, <1>4, <1>5

Purged(r) == [asma |-> r.asma, pgstart |-> r.pgstart, pgend |-> r.pgend,
              purged |-> TRUE]

PurgedSoFar(w, S, list, n) ==
  /\ StoreInv(w.S) /\ w.purged \subseteq Ranges
  /\ \A j \in w.purged : Among(list, n, j)
  /\ \A j \in Ranges :
       w.S.range[j] = IF j \in w.purged THEN Purged(S.range[j]) ELSE S.range[j]

LEMMA ShrinkerKeeps ==
  ASSUME NEW S, S = ash, StoreInv(S), NEW nr, NEW w, w = PurgeWalk(nr)
  PROVE  /\ StoreInv(w.S) /\ w.purged \subseteq Ranges
         /\ \A j \in w.purged : OnLru(S.range[j])
         /\ \A j \in Ranges :
              w.S.range[j] =
                IF j \in w.purged THEN Purged(S.range[j]) ELSE S.range[j]
<1>1. PICK list : list = S.lru
  OBVIOUS
<1>2. /\ list \in Seq(Ranges) /\ LruOf(list, S.range)
  BY <1>1, StoreFacts
<1>3. Len(list) \in Nat /\ DOMAIN list = 1 .. Len(list)
  BY <1>2, LenProperties
<1>4. /\ \A m \in 1 .. Len(list) : list[m] \in Ranges /\ OnLru(S.range[list[m]])
      /\ \A m, n \in 1 .. Len(list) : list[m] = list[n] => m = n
  <2>1. \A m \in 1 .. Len(list) : list[m] \in Range(list)
    BY <1>3 DEF Range
  <2> QED BY <1>2, <1>3, <2>1 DEF LruOf, IsInjective
<1>5. PICK f : PurgeTurns(f, S, list, nr, Len(list)) /\ w = f[Len(list)]
  BY <1>1, <1>3, PurgeUnfold
<1>6. \A n \in 0 .. Len(list) : f[n] = PurgeTurn(f, S, list, nr, n)
  BY <1>5 DEF PurgeTurns
<1> DEFINE kept == {n \in Nat : PurgedSoFar(f[n], S, list, n)}
<1>7. 0 \in kept
  <2>0. 0 \in 0 .. Len(list)
    BY <1>3
  <2>1. f[0] = [S |-> S, nr |-> nr, done |-> FALSE, purged |-> {}]
    BY <1>6, <2>0 DEF PurgeTurn
  <2>2. f[0].S = S /\ f[0].purged = {}
    BY <2>1
  <2> QED BY <2>2 DEF PurgedSoFar
<1>8. ASSUME NEW n \in 0 .. Len(list) - 1, n \in kept PROVE n + 1 \in kept
  <2>1. PICK k \in 1 .. Len(list) : k = n + 1
    BY <1>3
  <2>2. PICK i \in Ranges : i = list[k] /\ OnLru(S.range[i])
    BY <1>4
  <2>3. PICK v : v = f[n] /\ PurgedSoFar(v, S, list, n)
    BY <1>8
  <2>4. f[k] = PurgeRange(v, i)
    <3>1. k \in 0 .. Len(list) /\ k # 0 /\ k - 1 = n
      BY <1>3, <2>1
    <3> QED BY <1>6, <2>2, <2>3, <3>1 DEF PurgeTurn
  <2>5. \A j \in Ranges : Among(list, k, j) <=> Among(list, n, j) \/ j = i
    BY <2>1, <2>2 DEF Among
  <2>6. CASE v.done
    <3>1. f[k] = v
      BY <2>4, <2>6 DEF PurgeRange
    <3>2. PurgedSoFar(v, S, list, k)
      BY <2>3, <2>5 DEF PurgedSoFar
    <3> QED BY <2>1, <3>1, <3>2
  <2>7. CASE ~ v.done
    <3>1. PICK P : P = v.S /\ StoreInv(P)
      BY <2>3 DEF PurgedSoFar
    <3>2. PICK Q : Q = lru_del([P EXCEPT !.range[i].purged = TRUE], i)
      OBVIOUS
    <3>3. f[k].S = Q /\ f[k].purged = v.purged \cup {i}
      BY <2>4, <2>7, <3>1, <3>2 DEF PurgeRange
    <3>4. i \notin v.purged
      BY <1>4, <2>1, <2>2, <2>3 DEF PurgedSoFar, Among
    <3>5. P.range[i] = S.range[i]
      BY <2>3, <3>1, <3>4 DEF PurgedSoFar
    <3>6. OnLru(P.range[i])
      BY <2>2, <3>5
    <3>7. StoreInv(Q) /\ Q.range = [P.range EXCEPT ![i] = Purged(P.range[i])]
      <4>1. PICK q : q = [asma |-> P.range[i].asma,
                          pgstart |-> P.range[i].pgstart,
                          pgend |-> P.range[i].pgend, purged |-> TRUE]
        OBVIOUS
      <4>2. StoreInv(P)
        BY <3>1
      <4>3. StoreInv(Q) /\ Q.range = [P.range EXCEPT ![i] = q]
        BY <3>2, <3>6, <4>1, <4>2, PurgeKeeps
      <4> QED BY <4>1, <4>3 DEF Purged
    <3>8. P.range \in [Ranges -> RangeRecs]
      BY <3>1, StoreFacts
    <3>9. \A j \in Ranges :
            Q.range[j] = IF j \in v.purged \cup {i} THEN Purged(S.range[j])
                         ELSE S.range[j]
      BY <2>3, <3>1, <3>5, <3>7, <3>8 DEF PurgedSoFar
    <3>10. v.purged \cup {i} \subseteq Ranges
           /\ \A j \in v.purged \cup {i} : Among(list, k, j)
      BY <2>3, <2>5 DEF PurgedSoFar
    <3>11. PurgedSoFar(f[k], S, list, k)
      BY <3>3, <3>7, <3>9, <3>10 DEF PurgedSoFar
    <3> QED BY <2>1, <3>11
  <2> QED BY <2>6, <2>7
<1> HIDE DEF kept
<1>9. Len(list) \in kept
  BY <1>3, <1>7, <1>8, Turns
<1>10. PurgedSoFar(w, S, list, Len(list))
  BY <1>5, <1>9 DEF kept
<1>11. \A j \in w.purged : OnLru(S.range[j])
  BY <1>4, <1>10 DEF PurgedSoFar, Among
<1> QED BY <1>10, <1>11 DEF PurgedSoFar


-----------------------------------------------------------------------------
(* ashmem_unpin: the ranges the pages touch are merged into one.           *)

UnpinTurn(f, S, a, s, e, fails, n) ==
  IF n = 0 THEN [S |-> S, s |-> s, e |-> e, purged |-> FALSE, done |-> FALSE]
  ELSE UnpinPass(f[n - 1], a, fails)

UnpinTurns(f, S, a, s, e, fails, N) ==
  f = [n \in 0 .. N |-> UnpinTurn(f, S, a, s, e, fails, n)]

LEMMA UnpinUnfold ==
  ASSUME NEW a, NEW s, NEW e, NEW fails, NEW K \in Nat,
         K = Len(ash.unpinned[a]) + 1
  PROVE  \E f : /\ UnpinTurns(f, ash, a, s, e, fails, K)
                /\ ashmem_unpin(a, s, e, fails) = f[K]
<1>1. PICK S : S = ash
  OBVIOUS
<1>2. \E f : UnpinTurns(f, S, a, s, e, fails, K)
  <2> DEFINE T == {N \in Nat : \E f : UnpinTurns(f, S, a, s, e, fails, N)}
  <2>1. 0 \in T
    <3>1. PICK w : w = [S |-> S, s |-> s, e |-> e, purged |-> FALSE, done |-> FALSE]
      OBVIOUS
    <3>2. PICK f : f = [n \in 0 .. 0 |-> w]
      OBVIOUS
    <3>3. f = [n \in 0 .. 0 |-> UnpinTurn(f, S, a, s, e, fails, n)]
      <4>1. \A n \in 0 .. 0 : UnpinTurn(f, S, a, s, e, fails, n) = w
        BY <3>1 DEF UnpinTurn
      <4> QED BY <3>2, <4>1
    <3> QED BY <3>3 DEF UnpinTurns
  <2>2. ASSUME NEW N \in Nat, N \in T PROVE N + 1 \in T
    <3>1. PICK f : f = [n \in 0 .. N |-> UnpinTurn(f, S, a, s, e, fails, n)]
      BY <2>2 DEF UnpinTurns
    <3>2. PICK g : g = [n \in 0 .. N + 1 |-> UnpinTurn(f, S, a, s, e, fails, n)]
      OBVIOUS
    <3>3. ASSUME NEW n \in 0 .. N + 1
          PROVE  UnpinTurn(g, S, a, s, e, fails, n) = UnpinTurn(f, S, a, s, e, fails, n)
      <4>1. CASE n = 0
        BY <4>1 DEF UnpinTurn
      <4>2. CASE n # 0
        <5>1. n - 1 \in 0 .. N /\ n - 1 \in 0 .. N + 1
          BY <4>2
        <5>2. f[n - 1] = g[n - 1]
          BY <3>1, <3>2, <5>1
        <5> QED BY <4>2, <5>2 DEF UnpinTurn
      <4> QED BY <4>1, <4>2
    <3>4. g = [n \in 0 .. N + 1 |-> UnpinTurn(g, S, a, s, e, fails, n)]
      BY <3>2, <3>3
    <3> QED BY <3>4 DEF UnpinTurns
  <2> HIDE DEF T
  <2>3. K \in T
    BY <2>1, <2>2, Turns
  <2> QED BY <2>3 DEF T
<1>3. PICK f : f = (CHOOSE g : UnpinTurns(g, S, a, s, e, fails, K))
  OBVIOUS
<1>4. UnpinTurns(f, S, a, s, e, fails, K)
  BY <1>2, <1>3
<1>5. ashmem_unpin(a, s, e, fails) = f[K]
  BY <1>1, <1>3 DEF ashmem_unpin, UnpinTurns, UnpinTurn
<1> QED BY <1>1, <1>4, <1>5

(* The pages an area's ranges hold, and those of its purged ranges.        *)
Covered(R, a, p) ==
  \E j \in Ranges : R.range[j].asma = a /\ p \in PagesOf(R.range[j])

PurgedAt(R, a, p) ==
  \E j \in Ranges : /\ R.range[j].asma = a /\ R.range[j].purged
                    /\ p \in PagesOf(R.range[j])

(* The ranges of the other areas are the same in R and S.                  *)
Apart(R, S, a) ==
  \A j \in Ranges :
    S.range[j].asma \in Areas \ {a} \/ R.range[j].asma \in Areas \ {a} =>
      R.range[j] = S.range[j]

(* Two ranges of an area share no page.                                    *)
LEMMA Disjoint ==
  ASSUME NEW S, StoreInv(S), NEW a \in Areas, NEW i \in Ranges, NEW j \in Ranges,
         S.range[i].asma = a, S.range[j].asma = a, i # j, NEW p \in Int,
         p \in PagesOf(S.range[i])
  PROVE  p \notin PagesOf(S.range[j])
<1>1. PICK list : list = S.unpinned[a]
  OBVIOUS
<1>2. /\ Len(list) \in Nat
      /\ \A k \in Ranges : S.range[k].asma = a =>
           \E m \in 1 .. Len(list) : list[m] = k
      /\ \A m, n \in 1 .. Len(list) :
           m < n => S.range[list[m]].pgstart > S.range[list[n]].pgend
  BY <1>1, ListFacts, SMTT(30)
<1>3. PICK m \in 1 .. Len(list) : list[m] = i
  BY <1>2
<1>4. PICK n \in 1 .. Len(list) : list[n] = j
  BY <1>2
<1>5. m < n \/ n < m
  BY <1>2, <1>3, <1>4
<1>6. S.range[i].pgstart > S.range[j].pgend \/ S.range[j].pgstart > S.range[i].pgend
  BY <1>2, <1>3, <1>4, <1>5
<1>7. S.range \in [Ranges -> RangeRecs]
  BY StoreFacts
<1>8. /\ S.range[i].pgstart \in Int /\ S.range[i].pgend \in Int
      /\ S.range[j].pgstart \in Int /\ S.range[j].pgend \in Int
  BY <1>7 DEF RangeRecs
<1> QED BY <1>6, <1>8 DEF PagesOf

(* No range of the area is touched by the pages.                           *)
Alone(R, list, s, e) ==
  \A m \in 1 .. Len(list) : \/ range_before_page(R.range[list[m]], s)
                            \/ ~ page_range_in_range(R.range[list[m]], s, e)

(* The ranges at which a pass of the walk ends.                            *)
Stops(w, list) ==
  {n \in DOMAIN list : LET r == w.S.range[list[n]] IN
                       \/ range_before_page(r, w.s)
                       \/ page_range_in_range(r, w.s, w.e)}

(* A range that does not end the pass is behind the pages.                 *)
LEMMA Behind ==
  ASSUME NEW r \in RangeRecs, NEW s \in Int, NEW e \in Int, Bounded(s, e),
         Bounded(r.pgstart, r.pgend),
         ~ range_before_page(r, s), ~ page_range_in_range(r, s, e)
  PROVE  r.pgstart > e
<1>1. r.pgstart \in Int /\ r.pgend \in Int
  BY DEF RangeRecs
<1> QED BY <1>1, AshmemAssumption DEF Bounded, range_before_page, page_range_in_range, page_in_range,
          page_range_subsumes_range

(* How a pass of the walk ends.                                            *)
LEMMA PassCases ==
  ASSUME NEW w, StoreInv(w.S), NEW a \in Areas, NEW fails, w.s \in Int,
         w.e \in Int, Bounded(w.s, w.e), ~ w.done,
         NEW list, list = w.S.unpinned[a], NEW v, v = UnpinPass(w, a, fails)
  PROVE  \/ \E pos \in 1 .. Len(list) + 1 :
              /\ Belongs(w.S, list, pos, w.s, w.e) /\ Alone(w.S, list, w.s, w.e)
              /\ v = Insert(w, a, pos, fails)
         \/ \E i \in Ranges :
              /\ w.S.range[i].asma = a
              /\ w.S.range[i].pgstart <= w.s /\ w.S.range[i].pgend >= w.e
              /\ v = [w EXCEPT !.done = TRUE]
         \/ \E i \in Ranges :
              /\ w.S.range[i].asma = a
              /\ page_range_in_range(w.S.range[i], w.s, w.e)
              /\ v = Merge(w, i)
<1>0. PICK R : R = w.S
  OBVIOUS
<1>1. PICK s \in Int, e \in Int : R = w.S /\ s = w.s /\ e = w.e
  BY <1>0
<1>2. StoreInv(R) /\ Bounded(s, e) /\ list = R.unpinned[a]
  BY <1>1
<1>3. /\ list \in Seq(Ranges) /\ Len(list) \in Nat /\ DOMAIN list = 1 .. Len(list)
      /\ \A m \in 1 .. Len(list) :
           list[m] \in Ranges /\ R.range[list[m]].asma = a
      /\ \A m, n \in 1 .. Len(list) :
           m < n => R.range[list[m]].pgstart > R.range[list[n]].pgend
  BY <1>2, ListFacts, SMTT(30)
<1>4. \A m \in 1 .. Len(list) :
        /\ R.range[list[m]] \in RangeRecs
        /\ Bounded(R.range[list[m]].pgstart, R.range[list[m]].pgend)
        /\ R.range[list[m]].pgstart \in Int /\ R.range[list[m]].pgend \in Int
  <2> TAKE m \in 1 .. Len(list)
  <2>1. PICK i \in Ranges : i = list[m] /\ R.range[i].asma = a
    BY <1>3
  <2>2. R.range[i] \in RangeRecs /\ Good(R.range[i])
    BY <1>2, StoreFacts DEF AllGood
  <2> QED BY <2>1, <2>2, GoodFacts
<1>5. PICK stops, pos : stops = Stops(w, list) /\ pos = Min(stops)
  OBVIOUS
<1>6. v = IF stops = {} THEN Insert(w, a, Len(list) + 1, fails)
          ELSE IF range_before_page(w.S.range[list[pos]], w.s)
            THEN Insert(w, a, pos, fails)
          ELSE IF page_range_subsumed_by_range(w.S.range[list[pos]], w.s, w.e)
            THEN [w EXCEPT !.done = TRUE]
          ELSE Merge(w, list[pos])
  BY <1>5 DEF UnpinPass, Stops
<1>7. \A m \in 1 .. Len(list) :
        m \in stops <=> \/ range_before_page(R.range[list[m]], s)
                        \/ page_range_in_range(R.range[list[m]], s, e)
  BY <1>1, <1>3, <1>5 DEF Stops
<1>8. ASSUME NEW m \in 1 .. Len(list), m \notin stops
      PROVE  /\ R.range[list[m]].pgstart > e
             /\ ~ page_range_in_range(R.range[list[m]], s, e)
  BY <1>2, <1>4, <1>7, <1>8, Behind
<1>9. CASE stops = {}
  <2>0. Len(list) \in Nat
    BY <1>3
  <2>1. PICK q \in 1 .. Len(list) + 1 : q = Len(list) + 1
    BY <2>0
  <2>2. Belongs(R, list, q, s, e)
    BY <1>3, <1>8, <1>9, <2>1 DEF Belongs
  <2>3. Alone(R, list, s, e)
    BY <1>8, <1>9 DEF Alone
  <2>4. v = Insert(w, a, q, fails)
    BY <1>6, <1>9, <2>1
  <2> QED BY <1>1, <2>2, <2>3, <2>4
<1>10. CASE stops # {}
  <2>1. stops \subseteq 1 .. Len(list)
    BY <1>3, <1>5 DEF Stops
  <2>2. \E d \in stops : \A x \in stops : d <= x
    BY <1>3, <1>10, <2>1, SmallestOf
  <2>3. pos \in stops /\ \A x \in stops : pos <= x
    BY <1>5, <2>2 DEF Min
  <2>4. pos \in 1 .. Len(list) /\ pos \in 1 .. Len(list) + 1
    BY <1>3, <2>1, <2>3
  <2>5. PICK i \in Ranges : i = list[pos] /\ R.range[i].asma = a
    BY <1>3, <2>4
  <2>6. \A m \in 1 .. Len(list) : m < pos => m \notin stops
    BY <2>3, <2>4
  <2>7. CASE range_before_page(R.range[i], s)
    <3>1. v = Insert(w, a, pos, fails)
      BY <1>1, <1>6, <1>10, <2>5, <2>7
    <3>2. ASSUME NEW m \in 1 .. Len(list), m >= pos
          PROVE  s > R.range[list[m]].pgend
      <4>1. CASE m = pos
        BY <1>4, <2>5, <2>7, <4>1 DEF range_before_page
      <4>2. CASE m > pos
        <5>1. R.range[i].pgstart > R.range[list[m]].pgend
          BY <1>3, <2>4, <2>5, <4>2
        <5>2. R.range[i].pgstart <= R.range[i].pgend + 1
          BY <1>4, <2>4, <2>5 DEF Bounded
        <5>3. R.range[i].pgend < s
          BY <2>7 DEF range_before_page
        <5>4. /\ R.range[list[m]].pgend \in Int /\ R.range[i].pgstart \in Int
              /\ R.range[i].pgend \in Int
          BY <1>4, <2>4, <2>5
        <5> QED BY <5>1, <5>2, <5>3, <5>4, SMTT(30)
      <4> QED BY <2>4, <3>2, <4>1, <4>2
    <3>3. Belongs(R, list, pos, s, e)
      BY <1>8, <2>6, <3>2 DEF Belongs
    <3>4. ASSUME NEW m \in 1 .. Len(list)
          PROVE  \/ range_before_page(R.range[list[m]], s)
                 \/ ~ page_range_in_range(R.range[list[m]], s, e)
      <4>1. CASE m < pos
        BY <1>8, <2>6, <4>1
      <4>2. CASE m >= pos
        <5>1. s > R.range[list[m]].pgend
          BY <3>2, <4>2
        <5> QED BY <1>4, <5>1 DEF range_before_page
      <4> QED BY <2>4, <4>1, <4>2
    <3>5. Alone(R, list, s, e)
      BY <3>4 DEF Alone
    <3> QED BY <1>1, <2>4, <3>1, <3>3, <3>5
  <2>8. CASE ~ range_before_page(R.range[i], s)
             /\ page_range_subsumed_by_range(R.range[i], s, e)
    <3>1. v = [w EXCEPT !.done = TRUE]
      BY <1>1, <1>6, <1>10, <2>5, <2>8
    <3>2. R.range[i].pgstart <= s /\ R.range[i].pgend >= e
      BY <2>8 DEF page_range_subsumed_by_range
    <3> QED BY <1>1, <2>5, <3>1, <3>2
  <2>9. CASE ~ range_before_page(R.range[i], s)
             /\ ~ page_range_subsumed_by_range(R.range[i], s, e)
    <3>1. v = Merge(w, i)
      BY <1>1, <1>6, <1>10, <2>5, <2>9
    <3>2. page_range_in_range(R.range[i], s, e)
      BY <1>7, <2>3, <2>4, <2>5, <2>9
    <3> QED BY <1>1, <2>5, <3>1, <3>2
  <2> QED BY <2>7, <2>8, <2>9
<1> QED BY <1>9, <1>10

(* A range that is merged: the new pages are its pages and the old ones.   *)
LEMMA HullFacts ==
  ASSUME NEW r \in RangeRecs, NEW s \in Int, NEW e \in Int, Bounded(s, e),
         Bounded(r.pgstart, r.pgend), page_range_in_range(r, s, e),
         NEW s1, s1 = IF r.pgstart < s THEN r.pgstart ELSE s,
         NEW e1, e1 = IF r.pgend > e THEN r.pgend ELSE e
  PROVE  /\ s1 \in Int /\ e1 \in Int /\ Bounded(s1, e1)
         /\ \A p \in Int : p \in s1 .. e1 <=> p \in s .. e \/ p \in PagesOf(r)
<1>1. PICK x \in Int, y \in Int : x = r.pgstart /\ y = r.pgend
  BY DEF RangeRecs
<1>2. (x <= s /\ y >= s) \/ (x <= e /\ y >= e) \/ (x >= s /\ y <= e)
  BY <1>1 DEF page_range_in_range, page_in_range, page_range_subsumes_range
<1>3. s1 \in Int /\ e1 \in Int
  BY <1>1
<1>4. /\ 0 <= s /\ s <= e + 1 /\ e <= SIZE_MAX
      /\ 0 <= x /\ x <= y + 1 /\ y <= SIZE_MAX /\ SIZE_MAX \in Int
  BY <1>1, AshmemAssumption DEF Bounded
<1>5. s1 = (IF x < s THEN x ELSE s) /\ e1 = (IF y > e THEN y ELSE e)
  BY <1>1
<1>6. 0 <= s1 /\ s1 <= e1 + 1 /\ e1 <= SIZE_MAX
  BY <1>2, <1>3, <1>4, <1>5
<1>7. ASSUME NEW p \in Int
      PROVE  p \in s1 .. e1 <=> p \in s .. e \/ p \in PagesOf(r)
  BY <1>1, <1>2, <1>3, <1>4, <1>5 DEF PagesOf
<1> QED BY <1>3, <1>6, <1>7 DEF Bounded

LEMMA DelEffect ==
  ASSUME NEW S, StoreInv(S), NEW i \in Ranges, NEW a \in Areas,
         S.range[i].asma = a, NEW T, T = range_del(S, i)
  PROVE  /\ StoreInv(T) /\ Apart(T, S, a) /\ Allocated(T) # Ranges
         /\ \A j \in Ranges :
              T.range[j] = IF j = i THEN NoRange ELSE S.range[j]
         /\ \A p \in Int : /\ Covered(S, a, p) <=>
                                Covered(T, a, p) \/ p \in PagesOf(S.range[i])
                           /\ p \in PagesOf(S.range[i]) => ~ Covered(T, a, p)
                           /\ PurgedAt(S, a, p) =>
                                \/ PurgedAt(T, a, p)
                                \/ S.range[i].purged /\ p \in PagesOf(S.range[i])
                           /\ PurgedAt(T, a, p) => PurgedAt(S, a, p)
         /\ Len(T.unpinned[a]) = Len(S.unpinned[a]) - 1
<1>1. /\ StoreInv(T) /\ T.range = [S.range EXCEPT ![i] = NoRange]
      /\ T.unpinned = [S.unpinned EXCEPT ![a] = Without(S.unpinned[a], i)]
  BY DelKeeps
<1>2. S.range \in [Ranges -> RangeRecs] /\ S.unpinned \in [Areas -> Seq(Ranges)]
      /\ ListOf(S.unpinned[a], S.range, a)
  BY StoreFacts
<1>3. \A j \in Ranges : T.range[j] = IF j = i THEN NoRange ELSE S.range[j]
  BY <1>1, <1>2
<1>4. T.range[i] = NoRange /\ T.range[i].asma \notin Areas
  BY <1>3, NoRangeFacts
<1>5. Allocated(T) # Ranges
  BY <1>4 DEF Allocated
<1>6. Apart(T, S, a)
  BY <1>3, <1>4 DEF Apart
<1>7. ASSUME NEW p \in Int
      PROVE  /\ Covered(S, a, p) <=>
                  Covered(T, a, p) \/ p \in PagesOf(S.range[i])
             /\ PurgedAt(S, a, p) =>
                  \/ PurgedAt(T, a, p)
                  \/ S.range[i].purged /\ p \in PagesOf(S.range[i])
             /\ PurgedAt(T, a, p) => PurgedAt(S, a, p)
  BY <1>3, <1>4 DEF Covered, PurgedAt
<1>8. ASSUME NEW p \in Int, p \in PagesOf(S.range[i])
      PROVE  ~ Covered(T, a, p)
  <2> SUFFICES ASSUME NEW j \in Ranges, T.range[j].asma = a,
                      p \in PagesOf(T.range[j])
               PROVE  FALSE
    BY DEF Covered
  <2>1. j # i /\ S.range[j].asma = a /\ p \in PagesOf(S.range[j])
    BY <1>3, <1>4
  <2> QED BY <1>8, <2>1, Disjoint
<1>9. Len(T.unpinned[a]) = Len(S.unpinned[a]) - 1
  <2>1. PICK list \in Seq(Ranges) : list = S.unpinned[a]
    BY <1>2
  <2>2. i \in Range(list) /\ IsInjective(list)
    BY <1>2, <2>1 DEF ListOf
  <2>3. Len(Without(list, i)) = Len(list) - 1
    BY <2>2, WithoutFacts
  <2>4. T.unpinned[a] = Without(list, i)
    BY <1>1, <1>2, <2>1
  <2> QED BY <2>1, <2>3, <2>4
<1> QED BY <1>1, <1>3, <1>5, <1>6, <1>7, <1>8, <1>9

LEMMA AllocEffect ==
  ASSUME NEW S, StoreInv(S), NEW a \in Areas, NEW list, list = S.unpinned[a],
         NEW pos \in 1 .. Len(list) + 1, NEW purged \in BOOLEAN,
         NEW s \in Int, NEW e \in Int, Bounded(s, e), Allocated(S) # Ranges,
         Belongs(S, list, pos, s, e),
         NEW T, T = range_alloc(S, a, pos, purged, s, e)
  PROVE  /\ StoreInv(T) /\ Apart(T, S, a)
         /\ \A p \in Int :
              /\ Covered(T, a, p) <=> Covered(S, a, p) \/ p \in s .. e
              /\ PurgedAt(T, a, p) <=>
                   PurgedAt(S, a, p) \/ (purged /\ p \in s .. e)
<1>1. PICK i \in Ranges :
        /\ StoreInv(T) /\ S.range[i] = NoRange
        /\ T.range = [S.range EXCEPT ![i] = NewRec(a, purged, s, e)]
  <2>1. /\ StoreInv(T) /\ Fresh(S) \in Ranges /\ S.range[Fresh(S)] = NoRange
        /\ T.range = [S.range EXCEPT ![Fresh(S)] = NewRec(a, purged, s, e)]
    BY AllocKeeps
  <2> QED BY <2>1
<1>2. PICK q : q = NewRec(a, purged, s, e)
  OBVIOUS
<1>3. q.asma = a /\ q.pgstart = s /\ q.pgend = e /\ q.purged = purged
  BY <1>2, NewRecFacts
<1>4. PagesOf(q) = s .. e
  BY <1>3 DEF PagesOf
<1>5. S.range \in [Ranges -> RangeRecs]
  BY StoreFacts
<1>6. \A j \in Ranges : T.range[j] = IF j = i THEN q ELSE S.range[j]
  BY <1>1, <1>2, <1>5
<1>7. S.range[i].asma \notin Areas
  BY <1>1, NoRangeFacts
<1>8. Apart(T, S, a)
  BY <1>3, <1>6, <1>7 DEF Apart
<1>9. ASSUME NEW p \in Int
      PROVE  Covered(T, a, p) <=> Covered(S, a, p) \/ p \in s .. e
  BY <1>3, <1>4, <1>6, <1>7 DEF Covered
<1>10. ASSUME NEW p \in Int
       PROVE  PurgedAt(T, a, p) <=> PurgedAt(S, a, p) \/ (purged /\ p \in s .. e)
  BY <1>3, <1>4, <1>6, <1>7 DEF PurgedAt
<1> QED BY <1>1, <1>8, <1>9, <1>10

LEMMA ApartTrans ==
  ASSUME NEW S, NEW R, NEW T, NEW a, Apart(R, S, a), Apart(T, R, a)
  PROVE  Apart(T, S, a)
BY DEF Apart

UnpinStates ==
  [S : Stores, s : Int, e : Int, purged : BOOLEAN, done : BOOLEAN]

(* The walk is not over: w.s .. w.e are the pages the new range will have, *)
(* and purged is on record for the pages that were taken from purged       *)
(* ranges.  After the first pass a range is free.                          *)
Going(w, S, a, s, e, n) ==
  /\ w \in UnpinStates /\ StoreInv(w.S) /\ Apart(w.S, S, a) /\ Bounded(w.s, w.e)
  /\ \A p \in Int : p \in w.s .. w.e \/ Covered(w.S, a, p) <=>
                      p \in s .. e \/ Covered(S, a, p)
  /\ \A p \in Int : PurgedAt(S, a, p) =>
                      \/ PurgedAt(w.S, a, p)
                      \/ w.purged /\ p \in w.s .. w.e /\ ~ Covered(w.S, a, p)
  /\ Len(w.S.unpinned[a]) = Len(S.unpinned[a]) - n
  /\ Allocated(w.S) # Ranges \/ (w.S = S /\ w.s = s /\ w.e = e)

(* R is S after s .. e are unpinned.                                       *)
Given(R, S, a, s, e, fails) ==
  /\ StoreInv(R) /\ Apart(R, S, a)
  /\ \A p \in Int : Covered(R, a, p) => p \in s .. e \/ Covered(S, a, p)
  /\ ~ fails => \A p \in Int : /\ p \in s .. e \/ Covered(S, a, p) =>
                                    Covered(R, a, p)
                               /\ PurgedAt(S, a, p) => PurgedAt(R, a, p)

UnpinSoFar(w, S, a, s, e, fails, n) ==
  IF w.done THEN Given(w.S, S, a, s, e, fails) ELSE Going(w, S, a, s, e, n)

LEMMA GoingFacts ==
  ASSUME NEW w, NEW S, NEW a, NEW s, NEW e, NEW n, Going(w, S, a, s, e, n)
  PROVE  /\ StoreInv(w.S) /\ Apart(w.S, S, a) /\ Bounded(w.s, w.e)
         /\ w.s \in Int /\ w.e \in Int /\ w.purged \in BOOLEAN
BY DEF Going, UnpinStates

LEMMA InsertStep ==
  ASSUME NEW w, NEW S, NEW a \in Areas, NEW s, NEW e, NEW n,
         Going(w, S, a, s, e, n), NEW list, list = w.S.unpinned[a],
         NEW pos \in 1 .. Len(list) + 1, Belongs(w.S, list, pos, w.s, w.e),
         NEW fails \in BOOLEAN, fails \/ Allocated(w.S) # Ranges,
         NEW v, v = Insert(w, a, pos, fails)
  PROVE  v.done /\ Given(v.S, S, a, s, e, fails)
<1>1. PICK R : R = IF fails THEN w.S ELSE range_alloc(w.S, a, pos, w.purged, w.s, w.e)
  OBVIOUS
<1>2. v = [w EXCEPT !.S = R, !.done = TRUE]
  BY <1>1 DEF Insert
<1>3. v.done /\ v.S = R
  <2>1. w \in UnpinStates
    BY DEF Going
  <2> QED BY <1>2, <2>1 DEF UnpinStates
<1>4. /\ StoreInv(w.S) /\ Apart(w.S, S, a) /\ Bounded(w.s, w.e)
      /\ w.s \in Int /\ w.e \in Int /\ w.purged \in BOOLEAN
  BY GoingFacts
<1>5. /\ \A p \in Int : p \in w.s .. w.e \/ Covered(w.S, a, p) <=>
                          p \in s .. e \/ Covered(S, a, p)
      /\ \A p \in Int : PurgedAt(S, a, p) =>
                      \/ PurgedAt(w.S, a, p)
                      \/ w.purged /\ p \in w.s .. w.e /\ ~ Covered(w.S, a, p)
  BY DEF Going
<1>6. CASE fails
  BY <1>1, <1>3, <1>4, <1>5, <1>6 DEF Given
<1>7. CASE ~ fails
  <2>1. PICK P : P = w.S
    OBVIOUS
  <2>2. PICK x \in Int, y \in Int : x = w.s /\ y = w.e
    BY <1>4
  <2>3. PICK b \in BOOLEAN : b = w.purged
    BY <1>4
  <2>4. StoreInv(P) /\ list = P.unpinned[a] /\ Bounded(x, y)
        /\ Allocated(P) # Ranges /\ Belongs(P, list, pos, x, y)
    BY <1>4, <1>7, <2>1, <2>2
  <2>5. R = range_alloc(P, a, pos, b, x, y)
    BY <1>1, <1>7, <2>1, <2>2, <2>3
  <2>6. /\ StoreInv(R) /\ Apart(R, P, a)
        /\ \A p \in Int :
             /\ Covered(R, a, p) <=> Covered(P, a, p) \/ p \in x .. y
             /\ PurgedAt(R, a, p) <=> PurgedAt(P, a, p) \/ (b /\ p \in x .. y)
    BY <2>4, <2>5, AllocEffect
  <2>7. Apart(R, S, a)
    BY <1>4, <2>1, <2>6, ApartTrans
  <2>8. \A p \in Int : Covered(R, a, p) <=> p \in s .. e \/ Covered(S, a, p)
    BY <1>5, <2>1, <2>2, <2>6
  <2>9. \A p \in Int : PurgedAt(S, a, p) => PurgedAt(R, a, p)
    BY <1>5, <2>1, <2>2, <2>3, <2>6
  <2> QED BY <1>3, <2>6, <2>7, <2>8, <2>9 DEF Given
<1> QED BY <1>6, <1>7

LEMMA SubsumedStep ==
  ASSUME NEW w, NEW S, NEW a \in Areas, NEW s, NEW e, NEW n,
         Going(w, S, a, s, e, n), NEW i \in Ranges, w.S.range[i].asma = a,
         w.S.range[i].pgstart <= w.s, w.S.range[i].pgend >= w.e, NEW fails,
         NEW v, v = [w EXCEPT !.done = TRUE]
  PROVE  v.done /\ Given(v.S, S, a, s, e, fails)
<1>1. v.done /\ v.S = w.S
  <2>1. w \in UnpinStates
    BY DEF Going
  <2> QED BY <2>1 DEF UnpinStates
<1>2. /\ StoreInv(w.S) /\ Apart(w.S, S, a)
      /\ w.s \in Int /\ w.e \in Int /\ w.purged \in BOOLEAN
  BY GoingFacts
<1>3. /\ \A p \in Int : p \in w.s .. w.e \/ Covered(w.S, a, p) <=>
                          p \in s .. e \/ Covered(S, a, p)
      /\ \A p \in Int : PurgedAt(S, a, p) =>
                      \/ PurgedAt(w.S, a, p)
                      \/ w.purged /\ p \in w.s .. w.e /\ ~ Covered(w.S, a, p)
  BY DEF Going
<1>4. ASSUME NEW p \in Int, p \in w.s .. w.e PROVE Covered(w.S, a, p)
  <2>1. w.S.range \in [Ranges -> RangeRecs]
    BY <1>2, StoreFacts
  <2>2. w.S.range[i].pgstart \in Int /\ w.S.range[i].pgend \in Int
    BY <2>1 DEF RangeRecs
  <2>3. p \in PagesOf(w.S.range[i])
    BY <1>2, <1>4, <2>2 DEF PagesOf
  <2> QED BY <2>3 DEF Covered
<1>5. \A p \in Int : Covered(w.S, a, p) <=> p \in s .. e \/ Covered(S, a, p)
  BY <1>3, <1>4
<1>6. \A p \in Int : PurgedAt(S, a, p) => PurgedAt(w.S, a, p)
  BY <1>3, <1>4
<1> QED BY <1>1, <1>2, <1>5, <1>6 DEF Given

LEMMA MergeStep ==
  ASSUME NEW w, NEW S, NEW a \in Areas, NEW s, NEW e, NEW n \in Nat,
         Len(S.unpinned[a]) \in Nat,
         Going(w, S, a, s, e, n), NEW i \in Ranges, w.S.range[i].asma = a,
         page_range_in_range(w.S.range[i], w.s, w.e),
         NEW v, v = Merge(w, i)
  PROVE  ~ v.done /\ Going(v, S, a, s, e, n + 1)
<1>1. PICK P : P = w.S
  OBVIOUS
<1>2. PICK r : r = P.range[i]
  OBVIOUS
<1>3. /\ StoreInv(P) /\ Apart(P, S, a) /\ Bounded(w.s, w.e)
      /\ w.s \in Int /\ w.e \in Int /\ w.purged \in BOOLEAN
  BY <1>1, GoingFacts
<1>4. PICK x \in Int, y \in Int : x = w.s /\ y = w.e /\ Bounded(x, y)
  BY <1>3
<1>5. r \in RangeRecs /\ Good(r) /\ r.asma = a
  BY <1>1, <1>2, <1>3, StoreFacts DEF AllGood
<1>6. Bounded(r.pgstart, r.pgend) /\ r.purged \in BOOLEAN
  BY <1>5, GoodFacts
<1>7. PICK R : R = range_del(P, i)
  OBVIOUS
<1>8. PICK x1 : x1 = IF r.pgstart < x THEN r.pgstart ELSE x
  OBVIOUS
<1>9. PICK y1 : y1 = IF r.pgend > y THEN r.pgend ELSE y
  OBVIOUS
<1>10. page_range_in_range(r, x, y)
  BY <1>1, <1>2, <1>4
<1>11. /\ x1 \in Int /\ y1 \in Int /\ Bounded(x1, y1)
       /\ \A p \in Int : p \in x1 .. y1 <=> p \in x .. y \/ p \in PagesOf(r)
  BY <1>4, <1>5, <1>6, <1>8, <1>9, <1>10, HullFacts
<1>12. PICK b \in BOOLEAN : b = (w.purged \/ r.purged)
  BY <1>3, <1>6
<1>13. v = [S |-> R, s |-> x1, e |-> y1, purged |-> b, done |-> FALSE]
  BY <1>1, <1>2, <1>4, <1>7, <1>8, <1>9, <1>12 DEF Merge
<1>14. v.S = R /\ v.s = x1 /\ v.e = y1 /\ v.purged = b /\ ~ v.done
  BY <1>13
<1>15. /\ StoreInv(R) /\ Apart(R, P, a) /\ Allocated(R) # Ranges
       /\ \A p \in Int : /\ Covered(P, a, p) <=>
                              Covered(R, a, p) \/ p \in PagesOf(r)
                         /\ p \in PagesOf(r) => ~ Covered(R, a, p)
                         /\ PurgedAt(P, a, p) =>
                              PurgedAt(R, a, p) \/ (r.purged /\ p \in PagesOf(r))
       /\ Len(R.unpinned[a]) = Len(P.unpinned[a]) - 1
  <2>0. StoreInv(P)
    BY <1>3
  <2>1. P.range[i].asma = a
    BY <1>1
  <2>2. /\ StoreInv(R) /\ Apart(R, P, a) /\ Allocated(R) # Ranges
        /\ \A p \in Int : /\ Covered(P, a, p) <=>
                               Covered(R, a, p) \/ p \in PagesOf(P.range[i])
                          /\ p \in PagesOf(P.range[i]) => ~ Covered(R, a, p)
                          /\ PurgedAt(P, a, p) =>
                               \/ PurgedAt(R, a, p)
                               \/ P.range[i].purged /\ p \in PagesOf(P.range[i])
        /\ Len(R.unpinned[a]) = Len(P.unpinned[a]) - 1
    BY <1>7, <2>0, <2>1, DelEffect, SMTT(30)
  <2> QED BY <1>2, <2>2
<1>16. v \in UnpinStates
  <2>1. R \in Stores
    BY <1>15, StoreFacts
  <2> QED BY <1>11, <1>13, <2>1 DEF UnpinStates
<1>17. Apart(R, S, a)
  BY <1>3, <1>15, ApartTrans
<1>18. \A p \in Int : p \in x1 .. y1 \/ Covered(R, a, p) <=>
                        p \in s .. e \/ Covered(S, a, p)
  <2>1. \A p \in Int : p \in x .. y \/ Covered(P, a, p) <=>
                         p \in s .. e \/ Covered(S, a, p)
    BY <1>1, <1>4 DEF Going
  <2> QED BY <1>11, <1>15, <2>1
<1>19. \A p \in Int : PurgedAt(S, a, p) =>
                      \/ PurgedAt(R, a, p)
                      \/ b /\ p \in x1 .. y1 /\ ~ Covered(R, a, p)
  <2>1. \A p \in Int : PurgedAt(S, a, p) =>
                      \/ PurgedAt(P, a, p)
                      \/ w.purged /\ p \in x .. y /\ ~ Covered(P, a, p)
    BY <1>1, <1>4 DEF Going
  <2> QED BY <1>11, <1>12, <1>15, <2>1
<1>20. Len(R.unpinned[a]) = Len(S.unpinned[a]) - (n + 1)
  <2>1. Len(P.unpinned[a]) = Len(S.unpinned[a]) - n
    BY <1>1 DEF Going
  <2> QED BY <1>15, <2>1
<1> QED BY <1>11, <1>14, <1>15, <1>16, <1>17, <1>18, <1>19, <1>20 DEF Going

(* One pass.                                                               *)
LEMMA UnpinStep ==
  ASSUME NEW w, NEW S, StoreInv(S), NEW a \in Areas, NEW s \in Int, NEW e \in Int,
         NEW fails \in BOOLEAN, NEW n \in Nat, NEW v, v = UnpinPass(w, a, fails),
         fails \/ (Alone(S, S.unpinned[a], s, e) => Allocated(S) # Ranges),
         UnpinSoFar(w, S, a, s, e, fails, n)
  PROVE  UnpinSoFar(v, S, a, s, e, fails, n + 1)
<1>1. CASE w.done
  <2>1. v = w
    BY <1>1 DEF UnpinPass
  <2> QED BY <1>1, <2>1 DEF UnpinSoFar
<1>2. CASE ~ w.done
  <2>1. Going(w, S, a, s, e, n)
    BY <1>2 DEF UnpinSoFar
  <2>2. /\ StoreInv(w.S) /\ Bounded(w.s, w.e) /\ w.s \in Int /\ w.e \in Int
    BY <2>1, GoingFacts
  <2>3. PICK list : list = w.S.unpinned[a]
    OBVIOUS
  <2>4. \/ \E pos \in 1 .. Len(list) + 1 :
             /\ Belongs(w.S, list, pos, w.s, w.e) /\ Alone(w.S, list, w.s, w.e)
             /\ v = Insert(w, a, pos, fails)
        \/ \E i \in Ranges :
             /\ w.S.range[i].asma = a
             /\ w.S.range[i].pgstart <= w.s /\ w.S.range[i].pgend >= w.e
             /\ v = [w EXCEPT !.done = TRUE]
        \/ \E i \in Ranges :
             /\ w.S.range[i].asma = a
             /\ page_range_in_range(w.S.range[i], w.s, w.e)
             /\ v = Merge(w, i)
    BY <1>2, <2>2, <2>3, PassCases
  <2>5. ASSUME NEW pos \in 1 .. Len(list) + 1,
               Belongs(w.S, list, pos, w.s, w.e), Alone(w.S, list, w.s, w.e),
               v = Insert(w, a, pos, fails)
        PROVE  v.done /\ Given(v.S, S, a, s, e, fails)
    <3>1. fails \/ Allocated(w.S) # Ranges
      BY <2>1, <2>3, <2>5 DEF Going
    <3> QED BY <2>1, <2>3, <2>5, <3>1, InsertStep
  <2>6. ASSUME NEW i \in Ranges, w.S.range[i].asma = a,
               w.S.range[i].pgstart <= w.s, w.S.range[i].pgend >= w.e,
               v = [w EXCEPT !.done = TRUE]
        PROVE  v.done /\ Given(v.S, S, a, s, e, fails)
    BY <2>1, <2>6, SubsumedStep
  <2>7. ASSUME NEW i \in Ranges, w.S.range[i].asma = a,
               page_range_in_range(w.S.range[i], w.s, w.e), v = Merge(w, i)
        PROVE  ~ v.done /\ Going(v, S, a, s, e, n + 1)
    <3>1. PICK l : l = S.unpinned[a]
      OBVIOUS
    <3>2. Len(l) \in Nat
      BY <3>1, ListFacts
    <3>3. Len(S.unpinned[a]) \in Nat
      BY <3>1, <3>2
    <3> QED BY <2>1, <2>7, <3>3, MergeStep
  <2>8. \/ v.done /\ Given(v.S, S, a, s, e, fails)
        \/ ~ v.done /\ Going(v, S, a, s, e, n + 1)
    BY <2>4, <2>5, <2>6, <2>7
  <2> QED BY <2>8 DEF UnpinSoFar
<1> QED BY <1>1, <1>2

LEMMA UnpinKeeps ==
  ASSUME NEW S, S = ash, StoreInv(S), NEW a \in Areas, NEW s \in Int, NEW e \in Int,
         Bounded(s, e), NEW fails \in BOOLEAN,
         fails \/ (Alone(S, S.unpinned[a], s, e) => Allocated(S) # Ranges),
         NEW w, w = ashmem_unpin(a, s, e, fails)
  PROVE  Given(w.S, S, a, s, e, fails)
<1>1. PICK list : list = S.unpinned[a]
  OBVIOUS
<1>2. Len(list) \in Nat
  BY <1>1, ListFacts
<1>3. PICK K \in Nat : K = Len(list) + 1
  BY <1>2
<1>4. PICK f : UnpinTurns(f, S, a, s, e, fails, K) /\ w = f[K]
  BY <1>1, <1>3, UnpinUnfold
<1>5. \A n \in 0 .. K : f[n] = UnpinTurn(f, S, a, s, e, fails, n)
  BY <1>4 DEF UnpinTurns
<1> DEFINE kept == {n \in Nat : UnpinSoFar(f[n], S, a, s, e, fails, n)}
<1>6. 0 \in kept
  <2>1. PICK v : v = [S |-> S, s |-> s, e |-> e, purged |-> FALSE, done |-> FALSE]
    OBVIOUS
  <2>2. f[0] = v
    <3>1. 0 \in 0 .. K
      BY <1>3
    <3> QED BY <1>5, <2>1, <3>1 DEF UnpinTurn
  <2>3. v.S = S /\ v.s = s /\ v.e = e /\ ~ v.done
    BY <2>1
  <2>4. v \in UnpinStates
    <3>1. S \in Stores
      BY StoreFacts
    <3> QED BY <2>1, <3>1 DEF UnpinStates
  <2>5. Apart(S, S, a)
    BY DEF Apart
  <2>6. Len(S.unpinned[a]) = Len(S.unpinned[a]) - 0
    BY <1>1, <1>2
  <2>7. Going(v, S, a, s, e, 0)
    BY <2>3, <2>4, <2>5, <2>6 DEF Going
  <2>8. UnpinSoFar(v, S, a, s, e, fails, 0)
    BY <2>3, <2>7 DEF UnpinSoFar
  <2> QED BY <2>2, <2>8
<1>7. ASSUME NEW n \in 0 .. K - 1, n \in kept PROVE n + 1 \in kept
  <2>1. PICK k \in 1 .. K : k = n + 1
    BY <1>3
  <2>2. f[k] = UnpinPass(f[n], a, fails)
    <3>1. k \in 0 .. K /\ k # 0 /\ k - 1 = n
      BY <1>3, <2>1
    <3> QED BY <1>5, <3>1 DEF UnpinTurn
  <2>3. PICK u : u = f[n]
    OBVIOUS
  <2>4. PICK v : v = f[k]
    OBVIOUS
  <2>5. UnpinSoFar(u, S, a, s, e, fails, n) /\ n \in Nat
        /\ v = UnpinPass(u, a, fails)
    BY <1>7, <2>2, <2>3, <2>4
  <2>6. UnpinSoFar(v, S, a, s, e, fails, n + 1)
    BY <2>5, UnpinStep
  <2> QED BY <2>1, <2>4, <2>6
<1> HIDE DEF kept
<1>8. K \in kept
  BY <1>3, <1>6, <1>7, Turns
<1>9. UnpinSoFar(w, S, a, s, e, fails, K)
  BY <1>4, <1>8 DEF kept
<1>10. ASSUME Going(w, S, a, s, e, K) PROVE FALSE
  <2>1. StoreInv(w.S)
    BY <1>10, GoingFacts
  <2>2. PICK R : R = w.S
    OBVIOUS
  <2>3. PICK l : l = R.unpinned[a]
    OBVIOUS
  <2>4. Len(l) \in Nat
    BY <2>1, <2>2, <2>3, ListFacts
  <2>5. Len(l) = Len(list) - K
    BY <1>1, <1>10, <2>2, <2>3 DEF Going
  <2> QED BY <1>2, <1>3, <2>4, <2>5
<1> QED BY <1>9, <1>10 DEF UnpinSoFar


-----------------------------------------------------------------------------
(* ashmem_pin: the pages are cut out of the ranges.                        *)

PinTurn(f, S, list, s, e, fails, n) ==
  IF n = 0 THEN [S |-> S, ret |-> FALSE, done |-> FALSE]
  ELSE PinRange(f[n - 1], list[n], s, e, fails)

PinTurns(f, S, list, s, e, fails, N) ==
  f = [n \in 0 .. N |-> PinTurn(f, S, list, s, e, fails, n)]

LEMMA PinUnfold ==
  ASSUME NEW a, NEW s, NEW e, NEW fails, NEW list, list = ash.unpinned[a],
         Len(list) \in Nat
  PROVE  \E f : /\ PinTurns(f, ash, list, s, e, fails, Len(list))
                /\ ashmem_pin(a, s, e, fails) = f[Len(list)]
<1>1. PICK S : S = ash
  OBVIOUS
<1>2. \E f : PinTurns(f, S, list, s, e, fails, Len(list))
  <2> DEFINE T == {N \in Nat : \E f : PinTurns(f, S, list, s, e, fails, N)}
  <2>1. 0 \in T
    <3>1. PICK w : w = [S |-> S, ret |-> FALSE, done |-> FALSE]
      OBVIOUS
    <3>2. PICK f : f = [n \in 0 .. 0 |-> w]
      OBVIOUS
    <3>3. f = [n \in 0 .. 0 |-> PinTurn(f, S, list, s, e, fails, n)]
      <4>1. \A n \in 0 .. 0 : PinTurn(f, S, list, s, e, fails, n) = w
        BY <3>1 DEF PinTurn
      <4> QED BY <3>2, <4>1
    <3> QED BY <3>3 DEF PinTurns
  <2>2. ASSUME NEW N \in Nat, N \in T PROVE N + 1 \in T
    <3>1. PICK f : f = [n \in 0 .. N |-> PinTurn(f, S, list, s, e, fails, n)]
      BY <2>2 DEF PinTurns
    <3>2. PICK g : g = [n \in 0 .. N + 1 |-> PinTurn(f, S, list, s, e, fails, n)]
      OBVIOUS
    <3>3. ASSUME NEW n \in 0 .. N + 1
          PROVE  PinTurn(g, S, list, s, e, fails, n) = PinTurn(f, S, list, s, e, fails, n)
      <4>1. CASE n = 0
        BY <4>1 DEF PinTurn
      <4>2. CASE n # 0
        <5>1. n - 1 \in 0 .. N /\ n - 1 \in 0 .. N + 1
          BY <4>2
        <5>2. f[n - 1] = g[n - 1]
          BY <3>1, <3>2, <5>1
        <5> QED BY <4>2, <5>2 DEF PinTurn
      <4> QED BY <4>1, <4>2
    <3>4. g = [n \in 0 .. N + 1 |-> PinTurn(g, S, list, s, e, fails, n)]
      BY <3>2, <3>3
    <3> QED BY <3>4 DEF PinTurns
  <2> HIDE DEF T
  <2>3. PICK K \in Nat : K = Len(list)
    OBVIOUS
  <2>4. K \in T
    BY <2>1, <2>2, Turns
  <2> QED BY <2>3, <2>4 DEF T
<1>3. PICK f : f = (CHOOSE g : PinTurns(g, S, list, s, e, fails, Len(list)))
  OBVIOUS
<1>4. PinTurns(f, S, list, s, e, fails, Len(list))
  BY <1>2, <1>3
<1>5. ashmem_pin(a, s, e, fails) = f[Len(list)]
  BY <1>1, <1>3 DEF ashmem_pin, PinTurns, PinTurn
<1> QED BY <1>1, <1>4, <1>5

(* What is left of a range r when s .. e are cut out of it.                *)
Piece(q, r, a, s, e) ==
  /\ q.asma = a /\ q.purged = r.purged
  /\ \A p \in Int : p \in PagesOf(q) => p \in PagesOf(r) /\ p \notin s .. e

(* R is P after s .. e are cut out of the range i.                         *)
Cut(R, P, a, i, s, e, fails) ==
  /\ StoreInv(R) /\ Apart(R, P, a)
  /\ \A j \in Ranges : j # i /\ P.range[j].asma = a => R.range[j] = P.range[j]
  /\ \A p \in Int : Covered(R, a, p) => Covered(P, a, p)
  /\ ~ fails => \A p \in Int : p \notin s .. e =>
                  /\ Covered(P, a, p) => Covered(R, a, p)
                  /\ PurgedAt(P, a, p) => PurgedAt(R, a, p)
  /\ \A j \in Ranges, p \in Int :
       R.range[j].asma = a /\ p \in PagesOf(R.range[j]) /\ p \in s .. e =>
         j # i /\ P.range[j].asma = a

LEMMA CutPieces ==
  ASSUME NEW P, NEW a \in Areas, NEW i \in Ranges, P.range[i].asma = a,
         NEW s, NEW e, NEW fails, NEW R, StoreInv(R),
         \A j \in Ranges : j # i =>
           \/ R.range[j] = P.range[j]
           \/ P.range[j] = NoRange /\ Piece(R.range[j], P.range[i], a, s, e),
         \/ R.range[i] = NoRange
         \/ Piece(R.range[i], P.range[i], a, s, e),
         ~ fails => \A p \in Int :
           p \in PagesOf(P.range[i]) /\ p \notin s .. e =>
             \E j \in Ranges : /\ Piece(R.range[j], P.range[i], a, s, e)
                               /\ p \in PagesOf(R.range[j])
  PROVE  Cut(R, P, a, i, s, e, fails)
<1>1. NoRange.asma \notin Areas
  BY NoRangeFacts
<1>2. Apart(R, P, a)
  <2> SUFFICES ASSUME NEW j \in Ranges,
                      P.range[j].asma \in Areas \ {a}
                        \/ R.range[j].asma \in Areas \ {a}
               PROVE  R.range[j] = P.range[j]
    BY DEF Apart
  <2>1. CASE j = i
    BY <1>1, <2>1 DEF Piece
  <2>2. CASE j # i
    BY <1>1, <2>2 DEF Piece
  <2> QED BY <2>1, <2>2
<1>3. ASSUME NEW j \in Ranges, j # i, P.range[j].asma = a
      PROVE  R.range[j] = P.range[j]
  BY <1>1, <1>3
<1>4. ASSUME NEW j \in Ranges, NEW p \in Int, R.range[j].asma = a,
             p \in PagesOf(R.range[j])
      PROVE  \/ p \in PagesOf(P.range[i]) /\ p \notin s .. e
             \/ j # i /\ P.range[j].asma = a /\ R.range[j] = P.range[j]
  <2>1. CASE Piece(R.range[j], P.range[i], a, s, e)
    BY <1>4, <2>1 DEF Piece
  <2>2. CASE ~ Piece(R.range[j], P.range[i], a, s, e)
    BY <1>1, <1>4, <2>2
  <2> QED BY <2>1, <2>2
<1>5. \A p \in Int : Covered(R, a, p) => Covered(P, a, p)
  BY <1>4 DEF Covered
<1>6. ASSUME ~ fails, NEW p \in Int, p \notin s .. e
      PROVE  /\ Covered(P, a, p) => Covered(R, a, p)
             /\ PurgedAt(P, a, p) => PurgedAt(R, a, p)
  <2>1. ASSUME NEW k \in Ranges, P.range[k].asma = a, p \in PagesOf(P.range[k])
        PROVE  \E j \in Ranges : /\ R.range[j].asma = a
                                 /\ R.range[j].purged = P.range[k].purged
                                 /\ p \in PagesOf(R.range[j])
    <3>1. CASE k = i
      BY <1>6, <2>1, <3>1 DEF Piece
    <3>2. CASE k # i
      BY <1>3, <2>1, <3>2
    <3> QED BY <3>1, <3>2
  <2>2. Covered(P, a, p) => Covered(R, a, p)
    BY <2>1 DEF Covered
  <2>3. PurgedAt(P, a, p) => PurgedAt(R, a, p)
    BY <2>1 DEF PurgedAt
  <2> QED BY <2>2, <2>3
<1>7. ASSUME NEW j \in Ranges, NEW p \in Int, R.range[j].asma = a,
             p \in PagesOf(R.range[j]), p \in s .. e
      PROVE  j # i /\ P.range[j].asma = a
  BY <1>4, <1>7
<1> QED BY <1>2, <1>3, <1>5, <1>6, <1>7 DEF Cut

(* The split: range_alloc and then range_shrink, whose intermediate store  *)
(* is out of order, do what range_shrink and then range_alloc do.          *)
LEMMA SplitCommutes ==
  ASSUME NEW P \in Stores, NEW a \in Areas, NEW i \in Ranges,
         P.range[i].asma = a, NEW pos, NEW b \in BOOLEAN,
         NEW x \in Int, NEW y \in Int, Bounded(x, y),
         NEW u \in Int, NEW v \in Int,
         NEW k \in Ranges, k = Fresh(P), P.range[k] = NoRange,
         NEW list \in Seq(Ranges), list = InsertAt(P.unpinned[a], pos, k)
  PROVE  range_shrink(range_alloc(P, a, pos, b, x, y), i, u, v) =
           range_alloc(range_shrink(P, i, u, v), a, pos, b, x, y)
<1>2. k # i
  BY NoRangeFacts
<1>3. PICK q \in RangeRecs : q = NewRec(a, b, x, y)
  BY NewRecFacts
<1>4. PICK z \in Int : z = Span(q)
  BY <1>3, NewRecFacts
<1>5. PICK l \in Seq(Ranges) : l = Extended(P.lru, k)
  BY AppendProperties DEF Extended, Stores
<1>7. PICK h : h = [asma |-> a, pgstart |-> u, pgend |-> v,
                    purged |-> P.range[i].purged]
  OBVIOUS
<1>8. PICK A : A = range_alloc(P, a, pos, b, x, y)
  OBVIOUS
<1>9. /\ A \in Stores
      /\ A.range = [P.range EXCEPT ![k] = q]
      /\ A.unpinned = [P.unpinned EXCEPT ![a] = list]
      /\ A.lru = IF b THEN P.lru ELSE l
      /\ A.lru_count = IF b THEN P.lru_count ELSE Unsigned(P.lru_count + z)
  BY <1>3, <1>4, <1>5, <1>8, AllocFields
<1>10. PICK T : T = range_shrink(A, i, u, v)
  OBVIOUS
<1>11. A.range[i] = P.range[i]
  BY <1>2, <1>9 DEF Stores
<1>12. /\ h \in RangeRecs /\ T \in Stores
       /\ T.range = [A.range EXCEPT ![i] = h]
       /\ T.unpinned = A.unpinned /\ T.lru = A.lru
       /\ T.lru_count = Unsigned(A.lru_count - Weight(A.range[i]) + Weight(h))
  <2>1. A \in Stores /\ A.range[i].asma \in Areas
    BY <1>9, <1>11
  <2>2. h = [asma |-> A.range[i].asma, pgstart |-> u, pgend |-> v,
             purged |-> A.range[i].purged]
    BY <1>7, <1>11
  <2> QED BY <1>10, <2>1, <2>2, ShrinkFields
<1>13. PICK B : B = range_shrink(P, i, u, v)
  OBVIOUS
<1>14. /\ B \in Stores
       /\ B.range = [P.range EXCEPT ![i] = h]
       /\ B.unpinned = P.unpinned /\ B.lru = P.lru
       /\ B.lru_count = Unsigned(P.lru_count - Weight(P.range[i]) + Weight(h))
  <2>1. h = [asma |-> P.range[i].asma, pgstart |-> u, pgend |-> v,
             purged |-> P.range[i].purged]
    BY <1>7
  <2> QED BY <1>13, <2>1, ShrinkFields
<1>15. Fresh(B) = k
  <2>1. h # NoRange
    <3>1. h.asma = a
      BY <1>7
    <3> QED BY <3>1, NoRangeFacts
  <2>2. P.range[i] # NoRange
    BY NoRangeFacts
  <2>3. \A j \in Ranges : B.range[j] # NoRange <=> P.range[j] # NoRange
    BY <1>14, <2>1, <2>2 DEF Stores
  <2>4. Allocated(B) = Allocated(P)
    BY <2>3 DEF Allocated
  <2> QED BY <2>4 DEF Fresh
<1>16. PICK Q : Q = range_alloc(B, a, pos, b, x, y)
  OBVIOUS
<1>17. /\ Q \in Stores
       /\ Q.range = [B.range EXCEPT ![k] = q]
       /\ Q.unpinned = [B.unpinned EXCEPT ![a] = list]
       /\ Q.lru = IF b THEN B.lru ELSE l
       /\ Q.lru_count = IF b THEN B.lru_count ELSE Unsigned(B.lru_count + z)
  <2>1. k = Fresh(B) /\ B \in Stores
    BY <1>14, <1>15
  <2>2. list = InsertAt(B.unpinned[a], pos, k) /\ l = Extended(B.lru, k)
    BY <1>5, <1>14
  <2> QED BY <1>3, <1>4, <1>16, <2>1, <2>2, AllocFields
<1>18. T.range = Q.range
  <2>1. PICK rg \in [Ranges -> RangeRecs] : rg = P.range
    BY DEF Stores
  <2>2. T.range = [[rg EXCEPT ![k] = q] EXCEPT ![i] = h]
    BY <1>9, <1>12, <2>1
  <2>3. Q.range = [[rg EXCEPT ![i] = h] EXCEPT ![k] = q]
    BY <1>14, <1>17, <2>1
  <2> QED BY <1>2, <2>2, <2>3
<1>19. T.unpinned = Q.unpinned /\ T.lru = Q.lru
  BY <1>9, <1>12, <1>14, <1>17
<1>20. T.lru_count = Q.lru_count
  <2>1. PICK g \in Int, f \in Int : g = Weight(P.range[i]) /\ f = Weight(h)
    <3>1. P.range[i] \in RangeRecs /\ h \in RangeRecs
      BY <1>12 DEF Stores
    <3>2. Span(P.range[i]) \in Int /\ Span(h) \in Int
      BY <3>1, SpanInt
    <3>3. Weight(P.range[i]) \in Int /\ Weight(h) \in Int
      BY <3>2 DEF Weight
    <3> QED BY <3>3
  <2>2. PICK c \in Int : c = P.lru_count
    BY CountInt
  <2>3. CASE b
    BY <1>9, <1>11, <1>12, <1>14, <1>17, <2>3
  <2>4. CASE ~ b
    <3>1. T.lru_count = Unsigned(Unsigned(c + z) - g + f)
      BY <1>9, <1>11, <1>12, <2>1, <2>2, <2>4
    <3>2. Q.lru_count = Unsigned(Unsigned(c - g + f) + z)
      BY <1>14, <1>17, <2>1, <2>2, <2>4
    <3>3. PICK d \in Int, t \in Int, v1 \in Int : d = f - g /\ t = c + z /\ v1 = c - g + f
      OBVIOUS
    <3>4. PICK o \in Int : o = Unsigned(t) /\ o - g + f = o + d
      BY <3>3, UnsignedType
    <3>5. Unsigned(Unsigned(t) + d) = Unsigned(t + d)
      BY UnsignedPlus
    <3>6. Unsigned(Unsigned(v1) + z) = Unsigned(v1 + z)
      BY UnsignedPlus
    <3>7. t + d = v1 + z
      BY <3>3
    <3> QED BY <3>1, <3>2, <3>3, <3>4, <3>5, <3>6, <3>7
  <2> QED BY <2>3, <2>4
<1>21. T = Q
  <2>1. /\ T = [range |-> T.range, unpinned |-> T.unpinned, lru |-> T.lru,
                lru_count |-> T.lru_count]
        /\ Q = [range |-> Q.range, unpinned |-> Q.unpinned, lru |-> Q.lru,
                lru_count |-> Q.lru_count]
    BY <1>12, <1>17 DEF Stores
  <2> QED BY <1>18, <1>19, <1>20, <2>1
<1> QED BY <1>8, <1>10, <1>13, <1>16, <1>21

(* The range loses its start or its end.                                   *)
LEMMA NarrowEffect ==
  ASSUME NEW P, StoreInv(P), NEW a \in Areas, NEW i \in Ranges,
         NEW r, r = P.range[i], r.asma = a, NEW s, NEW e, NEW fails,
         NEW u \in Int, NEW v \in Int, Bounded(u, v), r.pgstart <= u, v <= r.pgend,
         \A p \in Int : p \in u .. v => p \in PagesOf(r) /\ p \notin s .. e,
         ~ fails => \A p \in Int : p \in PagesOf(r) /\ p \notin s .. e =>
                                     p \in u .. v,
         NEW R, R = range_shrink(P, i, u, v)
  PROVE  Cut(R, P, a, i, s, e, fails) /\ Allocated(R) \subseteq Allocated(P)
<1>1. PICK q : q = [asma |-> P.range[i].asma, pgstart |-> u, pgend |-> v,
                    purged |-> P.range[i].purged]
  OBVIOUS
<1>2. StoreInv(R) /\ R.range = [P.range EXCEPT ![i] = q]
  <2>1. P.range[i].asma \in Areas /\ P.range[i].pgstart <= u /\ v <= P.range[i].pgend
    OBVIOUS
  <2> QED BY <1>1, <2>1, ShrinkKeeps
<1>3. P.range \in [Ranges -> RangeRecs]
  BY StoreFacts
<1>4. \A j \in Ranges : R.range[j] = IF j = i THEN q ELSE P.range[j]
  BY <1>2, <1>3
<1>5. q.asma = a /\ q.purged = r.purged /\ PagesOf(q) = u .. v
  BY <1>1 DEF PagesOf
<1>6. Piece(q, P.range[i], a, s, e)
  BY <1>5 DEF Piece
<1>7. \A j \in Ranges : j # i => R.range[j] = P.range[j]
  BY <1>4
<1>8. R.range[i] = q
  BY <1>4
<1>9. ~ fails => \A p \in Int :
        p \in PagesOf(P.range[i]) /\ p \notin s .. e =>
          \E j \in Ranges : /\ Piece(R.range[j], P.range[i], a, s, e)
                            /\ p \in PagesOf(R.range[j])
  BY <1>5, <1>6, <1>8
<1>10. Piece(R.range[i], P.range[i], a, s, e)
  BY <1>6, <1>8
<1>11. P.range[i].asma = a
  OBVIOUS
<1>12. Cut(R, P, a, i, s, e, fails)
  <2>1. StoreInv(R)
    BY <1>2
  <2> QED BY <1>7, <1>9, <1>10, <1>11, <2>1, CutPieces
<1>13. Allocated(R) \subseteq Allocated(P)
  BY <1>7, <1>11, NoRangeFacts DEF Allocated
<1> QED BY <1>12, <1>13

(* The range loses its middle.                                             *)
LEMMA SplitEffect ==
  ASSUME NEW P, StoreInv(P), NEW a \in Areas, NEW i \in Ranges,
         NEW r, r = P.range[i], r.asma = a, NEW s \in Int, NEW e \in Int,
         Bounded(s, e), r.pgstart < s, e < r.pgend, NEW fails,
         Allocated(P) # Ranges,
         NEW R, R = range_shrink(
                      range_alloc(P, r.asma, PositionOf(P.unpinned[r.asma], i),
                                  r.purged, e + 1, r.pgend),
                      i, r.pgstart, s - 1)
  PROVE  Cut(R, P, a, i, s, e, fails)
<1>1. r \in RangeRecs /\ Good(r) /\ P \in Stores
  BY StoreFacts DEF AllGood
<1>2. PICK x \in Int, y \in Int : x = r.pgstart /\ y = r.pgend /\ Bounded(x, y)
  BY <1>1, GoodFacts
<1>3. PICK b \in BOOLEAN : b = r.purged
  BY <1>1, GoodFacts
<1>4. PICK e1 \in Int, s1 \in Int : e1 = e + 1 /\ s1 = s - 1
  OBVIOUS
<1>5. x < s /\ e < y
  BY <1>2
<1>6. Bounded(e1, y) /\ Bounded(x, s1) /\ x <= x /\ s1 <= y
  BY <1>2, <1>4, <1>5, AshmemAssumption DEF Bounded
<1>7. PICK old : old = P.unpinned[a]
  OBVIOUS
<1>8. /\ old \in Seq(Ranges) /\ Len(old) \in Nat /\ DOMAIN old = 1 .. Len(old)
      /\ \A m \in 1 .. Len(old) : old[m] \in Ranges /\ P.range[old[m]].asma = a
      /\ \A m, n \in 1 .. Len(old) : old[m] = old[n] => m = n
      /\ \A j \in Ranges : P.range[j].asma = a =>
           \E m \in 1 .. Len(old) : old[m] = j
      /\ \A m, n \in 1 .. Len(old) :
           m < n => P.range[old[m]].pgstart > P.range[old[n]].pgend
  <2>1. InOrder(old, P, a)
    BY <1>7, ListInOrder
  <2> QED BY <2>1 DEF InOrder
<1>9. PICK pos \in 1 .. Len(old) : pos = PositionOf(old, i) /\ old[pos] = i
  <2>1. \E m \in DOMAIN old : old[m] = i
    BY <1>8
  <2> QED BY <1>8, <2>1 DEF PositionOf
<1>10. PICK k \in Ranges : k = Fresh(P) /\ P.range[k] = NoRange
  BY DEF Allocated, Fresh
<1>11. k # i
  BY <1>10, NoRangeFacts
<1>12. PICK list \in Seq(Ranges) : list = InsertAt(P.unpinned[a], pos, k)
  <2>1. pos \in 1 .. Len(old) + 1
    BY <1>8
  <2>2. InsertAt(old, pos, k) \in Seq(Ranges)
    BY <1>8, <2>1, InsertAtFacts
  <2> QED BY <1>7, <2>2
<1>13. PICK B : B = range_shrink(P, i, x, s1)
  OBVIOUS
<1>14. R = range_alloc(B, a, pos, b, e1, y)
  <2>1. R = range_shrink(range_alloc(P, a, pos, b, e1, y), i, x, s1)
    BY <1>2, <1>3, <1>4, <1>7, <1>9
  <2>2. P.range[i].asma = a /\ k = Fresh(P) /\ P.range[k] = NoRange
        /\ Bounded(e1, y) /\ P \in Stores
    BY <1>1, <1>6, <1>10
  <2>3. range_shrink(range_alloc(P, a, pos, b, e1, y), i, x, s1) =
          range_alloc(range_shrink(P, i, x, s1), a, pos, b, e1, y)
    BY <1>12, <2>2, SplitCommutes
  <2> QED BY <1>13, <2>1, <2>3
<1>15. PICK h : h = [asma |-> P.range[i].asma, pgstart |-> x, pgend |-> s1,
                     purged |-> P.range[i].purged]
  OBVIOUS
<1>16. /\ StoreInv(B) /\ B.range = [P.range EXCEPT ![i] = h]
       /\ B.unpinned = P.unpinned
  <2>1. P.range[i].asma \in Areas /\ P.range[i].pgstart <= x
        /\ s1 <= P.range[i].pgend /\ Bounded(x, s1)
    BY <1>2, <1>6
  <2> QED BY <1>13, <1>15, <2>1, ShrinkKeeps
<1>17. P.range \in [Ranges -> RangeRecs]
  BY StoreFacts
<1>18. \A j \in Ranges : B.range[j] = IF j = i THEN h ELSE P.range[j]
  BY <1>16, <1>17
<1>19. h.asma = a /\ h.pgstart = x /\ h.pgend = s1 /\ h.purged = r.purged
  BY <1>15
<1>20. B.range[k] = NoRange /\ Allocated(B) # Ranges
  BY <1>10, <1>11, <1>18 DEF Allocated
<1>21. \A m \in 1 .. Len(old) : P.range[old[m]].pgstart \in Int
                                /\ P.range[old[m]].pgend \in Int
  BY <1>8, <1>17 DEF RangeRecs
<1>22. ASSUME NEW m \in 1 .. Len(old)
       PROVE  /\ m < pos => B.range[old[m]].pgstart > y
              /\ m >= pos => e1 > B.range[old[m]].pgend
  <2>1. old[m] \in Ranges
    BY <1>8
  <2>2. CASE m = pos
    <3>1. B.range[old[m]].pgend = s1
      BY <1>9, <1>18, <1>19, <2>2
    <3>2. s <= e + 1
      BY DEF Bounded
    <3> QED BY <1>4, <2>2, <3>1, <3>2
  <2>3. CASE m < pos
    <3>1. P.range[old[m]].pgstart > y
      BY <1>2, <1>8, <1>9, <2>3
    <3>2. old[m] # i
      BY <1>8, <1>9, <2>3
    <3> QED BY <1>18, <2>1, <2>3, <3>1, <3>2
  <2>4. CASE m > pos
    <3>1. x > P.range[old[m]].pgend
      BY <1>2, <1>8, <1>9, <2>4
    <3>2. x < e1
      BY <1>4, <1>5 DEF Bounded
    <3>3. old[m] # i
      BY <1>8, <1>9, <2>4
    <3>4. B.range[old[m]] = P.range[old[m]]
      BY <1>18, <2>1, <3>3
    <3> QED BY <1>21, <2>4, <3>1, <3>2, <3>4
  <2> QED BY <1>9, <2>2, <2>3, <2>4
<1>23. Belongs(B, old, pos, e1, y)
  BY <1>22 DEF Belongs
<1>24. PICK q : q = NewRec(a, b, e1, y)
  OBVIOUS
<1>25. Fresh(B) = k
  <2>1. h # NoRange /\ P.range[i] # NoRange
    BY <1>19, NoRangeFacts
  <2>2. \A j \in Ranges : B.range[j] # NoRange <=> P.range[j] # NoRange
    BY <1>18, <2>1
  <2>3. Allocated(B) = Allocated(P)
    BY <2>2 DEF Allocated
  <2> QED BY <1>10, <2>3 DEF Fresh
<1>26. StoreInv(R) /\ R.range = [B.range EXCEPT ![k] = q]
  <2>1. old = B.unpinned[a] /\ StoreInv(B) /\ Bounded(e1, y)
        /\ Allocated(B) # Ranges
    BY <1>6, <1>7, <1>16, <1>20
  <2>2. pos \in 1 .. Len(old) + 1
    BY <1>8, <1>9
  <2>4. /\ StoreInv(R) /\ Fresh(B) \in Ranges /\ B.range[Fresh(B)] = NoRange
        /\ R.range = [B.range EXCEPT ![Fresh(B)] = NewRec(a, b, e1, y)]
    BY <1>14, <1>23, <2>1, <2>2, AllocKeeps
  <2> QED BY <1>24, <1>25, <2>4
<1>27. B.range \in [Ranges -> RangeRecs]
  BY <1>16, StoreFacts
<1>28. \A j \in Ranges :
         R.range[j] = IF j = k THEN q ELSE IF j = i THEN h ELSE P.range[j]
  BY <1>18, <1>26, <1>27
<1>29. q.asma = a /\ q.pgstart = e1 /\ q.pgend = y /\ q.purged = r.purged
  BY <1>3, <1>24 DEF NewRec
<1>30. PagesOf(q) = e1 .. y /\ PagesOf(h) = x .. s1 /\ PagesOf(r) = x .. y
  BY <1>2, <1>19, <1>29 DEF PagesOf
<1>31. \A p \in Int : /\ p \in e1 .. y \/ p \in x .. s1 =>
                           p \in x .. y /\ p \notin s .. e
                      /\ p \in x .. y /\ p \notin s .. e =>
                           p \in e1 .. y \/ p \in x .. s1
  <2>1. 0 <= s /\ s <= e + 1
    BY DEF Bounded
  <2> QED BY <1>4, <1>5, <2>1
<1>32. Piece(q, r, a, s, e) /\ Piece(h, r, a, s, e)
  BY <1>19, <1>29, <1>30, <1>31 DEF Piece
<1>33. R.range[k] = q /\ R.range[i] = h
  BY <1>11, <1>28
<1>34. \A j \in Ranges : j # i =>
           \/ R.range[j] = P.range[j]
           \/ P.range[j] = NoRange /\ Piece(R.range[j], P.range[i], a, s, e)
  BY <1>10, <1>28, <1>32
<1>35. ~ fails => \A p \in Int :
         p \in PagesOf(P.range[i]) /\ p \notin s .. e =>
           \E j \in Ranges : /\ Piece(R.range[j], P.range[i], a, s, e)
                             /\ p \in PagesOf(R.range[j])
  BY <1>30, <1>31, <1>32, <1>33
<1>36. P.range[i].asma = a /\ Piece(R.range[i], P.range[i], a, s, e) /\ StoreInv(R)
  BY <1>26, <1>32, <1>33
<1> QED BY <1>34, <1>35, <1>36, CutPieces

LEMMA CutEffect ==
  ASSUME NEW P, StoreInv(P), NEW a \in Areas, NEW i \in Ranges,
         NEW r, r = P.range[i], r.asma = a, NEW s \in Int, NEW e \in Int,
         Bounded(s, e), ~ range_before_page(r, s), page_range_in_range(r, s, e),
         NEW fails \in BOOLEAN,
         fails \/ (r.pgstart < s /\ e < r.pgend => Allocated(P) # Ranges),
         NEW R, R = CutRange(P, i, s, e, fails)
  PROVE  /\ Cut(R, P, a, i, s, e, fails)
         /\ ~ (r.pgstart < s /\ e < r.pgend) => Allocated(R) \subseteq Allocated(P)
<1>1. r \in RangeRecs /\ Good(r)
  BY StoreFacts DEF AllGood
<1>2. PICK x \in Int, y \in Int : x = r.pgstart /\ y = r.pgend /\ Bounded(x, y)
  BY <1>1, GoodFacts
<1>3. PICK e1 \in Int, s1 \in Int : e1 = e + 1 /\ s1 = s - 1
  OBVIOUS
<1>4. /\ y >= s
      /\ (x <= s /\ y >= s) \/ (x <= e /\ y >= e) \/ (x >= s /\ y <= e)
  BY <1>2 DEF range_before_page, page_range_in_range, page_in_range,
              page_range_subsumes_range
<1>5. /\ 0 <= s /\ s <= e + 1 /\ e <= SIZE_MAX /\ SIZE_MAX \in Int
      /\ 0 <= x /\ x <= y + 1 /\ y <= SIZE_MAX
  BY <1>2, AshmemAssumption DEF Bounded
<1>6. PagesOf(r) = x .. y
  BY <1>2 DEF PagesOf
<1>7. CASE x >= s /\ y <= e
  <2>1. R = range_del(P, i)
    BY <1>2, <1>7 DEF CutRange, page_range_subsumes_range
  <2>2. P.range[i].asma = a
    OBVIOUS
  <2>3. /\ StoreInv(R)
        /\ \A j \in Ranges : R.range[j] = IF j = i THEN NoRange ELSE P.range[j]
    BY <2>1, <2>2, DelEffect
  <2>4. \A j \in Ranges : j # i => R.range[j] = P.range[j]
    BY <2>3
  <2>5. R.range[i] = NoRange /\ StoreInv(R)
    BY <2>3
  <2>6. \A p \in Int : ~ (p \in PagesOf(P.range[i]) /\ p \notin s .. e)
    BY <1>6, <1>7
  <2>7. Cut(R, P, a, i, s, e, fails)
    BY <2>2, <2>4, <2>5, <2>6, CutPieces
  <2>8. Allocated(R) \subseteq Allocated(P)
    BY <2>4, <2>5 DEF Allocated
  <2> QED BY <2>7, <2>8
<1>8. CASE x >= s /\ y > e
  <2>1. R = range_shrink(P, i, e1, y)
    BY <1>2, <1>3, <1>8 DEF CutRange, page_range_subsumes_range
  <2>2. /\ Bounded(e1, y) /\ r.pgstart <= e1 /\ y <= r.pgend
    BY <1>2, <1>3, <1>4, <1>5, <1>8 DEF Bounded
  <2>3. \A p \in Int : p \in e1 .. y <=> p \in PagesOf(r) /\ p \notin s .. e
    BY <1>3, <1>4, <1>5, <1>6, <1>8
  <2>4. Cut(R, P, a, i, s, e, fails) /\ Allocated(R) \subseteq Allocated(P)
    BY <2>1, <2>2, <2>3, NarrowEffect
  <2> QED BY <2>4
<1>9. CASE x < s /\ (y <= e \/ fails)
  <2>1. R = range_shrink(P, i, x, s1)
    BY <1>2, <1>3, <1>9 DEF CutRange, page_range_subsumes_range
  <2>2. /\ Bounded(x, s1) /\ r.pgstart <= x /\ s1 <= r.pgend
    BY <1>2, <1>3, <1>4, <1>5, <1>9 DEF Bounded
  <2>3. \A p \in Int : /\ p \in x .. s1 => p \in PagesOf(r) /\ p \notin s .. e
    BY <1>3, <1>4, <1>5, <1>6, <1>9
  <2>4. ~ fails => \A p \in Int :
          p \in PagesOf(r) /\ p \notin s .. e => p \in x .. s1
    BY <1>3, <1>4, <1>5, <1>6, <1>9
  <2>5. Cut(R, P, a, i, s, e, fails) /\ Allocated(R) \subseteq Allocated(P)
    BY <2>1, <2>2, <2>3, <2>4, NarrowEffect
  <2> QED BY <2>5
<1>10. CASE x < s /\ y > e /\ ~ fails
  <2>1. R = range_shrink(
              range_alloc(P, r.asma, PositionOf(P.unpinned[r.asma], i),
                          r.purged, e + 1, r.pgend),
              i, r.pgstart, s - 1)
    BY <1>2, <1>10 DEF CutRange, page_range_subsumes_range
  <2>2. r.pgstart < s /\ e < r.pgend /\ Allocated(P) # Ranges
    BY <1>2, <1>10
  <2>3. Cut(R, P, a, i, s, e, fails)
    BY <2>1, <2>2, SplitEffect
  <2> QED BY <2>2, <2>3
<1> QED BY <1>7, <1>8, <1>9, <1>10

PinStates == [S : Stores, ret : BOOLEAN, done : BOOLEAN]

(* After n turns: the ranges still to come are as they were, and are the   *)
(* only ones that hold pages that are pinned; no other page is lost.       *)
PinSoFar(w, S, list, a, s, e, fails, n) ==
  /\ w \in PinStates /\ StoreInv(w.S) /\ Apart(w.S, S, a)
  /\ ~ w.done => /\ Allocated(w.S) \subseteq Allocated(S)
                 /\ \A m \in 1 .. Len(list) :
                      m > n => w.S.range[list[m]] = S.range[list[m]]
  /\ \A p \in Int : Covered(w.S, a, p) => Covered(S, a, p)
  /\ ~ fails => \A p \in Int : p \notin s .. e =>
                  /\ Covered(S, a, p) => Covered(w.S, a, p)
                  /\ PurgedAt(S, a, p) => PurgedAt(w.S, a, p)
  /\ \A p \in Int : PurgedAt(S, a, p) /\ p \in s .. e =>
                      w.ret \/ PurgedAt(w.S, a, p)
  /\ \A j \in Ranges, p \in Int :
       w.S.range[j].asma = a /\ p \in PagesOf(w.S.range[j]) /\ p \in s .. e =>
         ~ w.done /\ \E m \in 1 .. Len(list) : m > n /\ list[m] = j

(* R is S after s .. e are pinned, and ret the answer.                     *)
Taken(R, ret, S, a, s, e, fails) ==
  /\ StoreInv(R) /\ Apart(R, S, a) /\ ret \in BOOLEAN
  /\ \A p \in Int : /\ Covered(R, a, p) => Covered(S, a, p) /\ p \notin s .. e
                    /\ PurgedAt(S, a, p) /\ p \in s .. e => ret
  /\ ~ fails => \A p \in Int : p \notin s .. e =>
                  /\ Covered(S, a, p) => Covered(R, a, p)
                  /\ PurgedAt(S, a, p) => PurgedAt(R, a, p)

LEMMA StopStep ==
  ASSUME NEW w, NEW S, NEW list, NEW a, NEW s, NEW e, NEW fails, NEW n, NEW k,
         PinSoFar(w, S, list, a, s, e, fails, n),
         \A j \in Ranges, p \in Int :
           ~ (w.S.range[j].asma = a /\ p \in PagesOf(w.S.range[j]) /\ p \in s .. e),
         NEW v, v = [w EXCEPT !.done = TRUE]
  PROVE  PinSoFar(v, S, list, a, s, e, fails, k)
<1>1. w \in PinStates
  BY DEF PinSoFar
<1>2. v \in PinStates /\ v.S = w.S /\ v.ret = w.ret /\ v.done
  BY <1>1 DEF PinStates
<1> QED BY <1>2 DEF PinSoFar

LEMMA PinStateFields ==
  ASSUME NEW R, NEW b \in BOOLEAN, NEW d \in BOOLEAN,
         NEW v, v = [S |-> R, ret |-> b, done |-> d]
  PROVE  /\ v.S = R /\ v.ret = b /\ v.done = d
         /\ R \in Stores => v \in PinStates
BY DEF PinStates

LEMMA CutStep ==
  ASSUME NEW w, NEW S, StoreInv(S), NEW list, NEW a \in Areas,
         list = S.unpinned[a], NEW s \in Int, NEW e \in Int, Bounded(s, e),
         NEW fails \in BOOLEAN, NEW n, NEW k \in 1 .. Len(list), n = k - 1,
         PinSoFar(w, S, list, a, s, e, fails, n), ~ w.done,
         NEW i \in Ranges, i = list[k], NEW r, r = w.S.range[i],
         ~ range_before_page(r, s), page_range_in_range(r, s, e),
         fails \/ (r.pgstart < s /\ e < r.pgend => Allocated(S) # Ranges),
         NEW v, v = [S |-> CutRange(w.S, i, s, e, fails),
                     ret |-> PurgedBefore(w.ret, r),
                     done |-> r.pgstart < s /\ e < r.pgend]
  PROVE  PinSoFar(v, S, list, a, s, e, fails, k)
<1>1. PICK P : P = w.S
  OBVIOUS
<1>2. PICK R : R = CutRange(P, i, s, e, fails)
  OBVIOUS
<1>3. InOrder(list, S, a)
  BY ListInOrder
<1>4. /\ StoreInv(P) /\ Apart(P, S, a) /\ Allocated(P) \subseteq Allocated(S)
      /\ \A m \in 1 .. Len(list) : m > n => P.range[list[m]] = S.range[list[m]]
      /\ w.ret \in BOOLEAN
  BY <1>1 DEF PinSoFar, PinStates
<1>23. /\ \A m \in 1 .. Len(list) :
            list[m] \in Ranges /\ S.range[list[m]].asma = a
       /\ \A m, o \in 1 .. Len(list) : list[m] = list[o] => m = o
       /\ \A m, o \in 1 .. Len(list) :
            m < o => S.range[list[m]].pgstart > S.range[list[o]].pgend
  BY <1>3 DEF InOrder
<1>24. Len(list) \in Nat
  BY <1>3 DEF InOrder
<1>25. k \in Int
  BY <1>24
<1>5. k > n
  BY <1>25
<1>6. r = S.range[i] /\ r = P.range[i] /\ r.asma = a
  <2>1. P.range[list[k]] = S.range[list[k]] /\ S.range[list[k]].asma = a
    BY <1>4, <1>5, <1>23
  <2> QED BY <1>1, <2>1
<1>7. fails \/ (r.pgstart < s /\ e < r.pgend => Allocated(P) # Ranges)
  BY <1>4 DEF Allocated
<1>8. /\ Cut(R, P, a, i, s, e, fails)
      /\ ~ (r.pgstart < s /\ e < r.pgend) => Allocated(R) \subseteq Allocated(P)
  <2>1. StoreInv(P) /\ r = P.range[i] /\ r.asma = a
    BY <1>4, <1>6
  <2> QED BY <1>2, <1>7, <2>1, CutEffect
<1>9. PICK d \in BOOLEAN : d = (r.pgstart < s /\ e < r.pgend)
  OBVIOUS
<1>10. r.purged \in BOOLEAN
  <2>1. P.range \in [Ranges -> RangeRecs]
    BY <1>4, StoreFacts
  <2> QED BY <1>6, <2>1 DEF RangeRecs
<1>11. PICK b \in BOOLEAN : b = (w.ret \/ r.purged)
  BY <1>4, <1>10
<1>12. v = [S |-> R, ret |-> b, done |-> d]
  BY <1>1, <1>2, <1>9, <1>11 DEF PurgedBefore
<1>13. v.S = R /\ v.ret = b /\ v.done = d
  BY <1>12
<1>14. StoreInv(R) /\ Apart(R, P, a)
  BY <1>8 DEF Cut
<1>15. v \in PinStates
  <2>1. R \in Stores
    BY <1>14, StoreFacts
  <2> QED BY <1>12, <2>1, PinStateFields, ZenonT(60)
<1>16. Apart(R, S, a)
  BY <1>4, <1>14, ApartTrans
<1>17. ASSUME ~ d PROVE Allocated(R) \subseteq Allocated(S)
  BY <1>4, <1>8, <1>9, <1>17
<1>18. ASSUME NEW m \in 1 .. Len(list), m > k
       PROVE  R.range[list[m]] = S.range[list[m]]
  <2>1. m # k /\ m > n
    BY <1>5, <1>18, <1>24, <1>25
  <2>2. P.range[list[m]] = S.range[list[m]]
    BY <1>4, <2>1
  <2>3. list[m] \in Ranges /\ list[m] # list[k] /\ S.range[list[m]].asma = a
    BY <1>23, <2>1
  <2> QED BY <1>8, <2>2, <2>3 DEF Cut
<1>19. \A p \in Int : Covered(R, a, p) => Covered(S, a, p)
  <2>1. \A p \in Int : Covered(P, a, p) => Covered(S, a, p)
    BY <1>1 DEF PinSoFar
  <2> QED BY <1>8, <2>1 DEF Cut
<1>20. ~ fails => \A p \in Int : p \notin s .. e =>
                    /\ Covered(S, a, p) => Covered(R, a, p)
                    /\ PurgedAt(S, a, p) => PurgedAt(R, a, p)
  <2>1. ~ fails => \A p \in Int : p \notin s .. e =>
                     /\ Covered(S, a, p) => Covered(P, a, p)
                     /\ PurgedAt(S, a, p) => PurgedAt(P, a, p)
    BY <1>1 DEF PinSoFar
  <2>2. ~ fails => \A p \in Int : p \notin s .. e =>
                     /\ Covered(P, a, p) => Covered(R, a, p)
                     /\ PurgedAt(P, a, p) => PurgedAt(R, a, p)
    BY <1>8 DEF Cut
  <2> QED BY <2>1, <2>2
<1>21. ASSUME NEW p \in Int, PurgedAt(S, a, p), p \in s .. e
       PROVE  b \/ PurgedAt(R, a, p)
  <2>1. w.ret \/ PurgedAt(P, a, p)
    BY <1>1, <1>21 DEF PinSoFar
  <2>2. ASSUME NEW j \in Ranges, P.range[j].asma = a, P.range[j].purged,
               p \in PagesOf(P.range[j])
        PROVE  b \/ PurgedAt(R, a, p)
    <3>1. CASE j = i
      BY <1>6, <1>11, <2>2, <3>1
    <3>2. CASE j # i
      <4>1. R.range[j] = P.range[j]
        BY <1>8, <2>2, <3>2 DEF Cut
      <4> QED BY <2>2, <4>1 DEF PurgedAt
    <3> QED BY <3>1, <3>2
  <2>3. CASE w.ret
    BY <1>11, <2>3
  <2>4. CASE PurgedAt(P, a, p)
    BY <2>2, <2>4 DEF PurgedAt
  <2> QED BY <2>1, <2>3, <2>4
<1>22. ASSUME NEW j \in Ranges, NEW p \in Int, R.range[j].asma = a,
              p \in PagesOf(R.range[j]), p \in s .. e
       PROVE  ~ d /\ \E m \in 1 .. Len(list) : m > k /\ list[m] = j
  <2>1. j # i /\ P.range[j].asma = a
    BY <1>8, <1>22 DEF Cut
  <2>2. R.range[j] = P.range[j]
    BY <1>8, <2>1 DEF Cut
  <2>3. PICK m \in 1 .. Len(list) : m > n /\ list[m] = j
    BY <1>1, <1>22, <2>1, <2>2 DEF PinSoFar
  <2>4. m > k
    BY <1>24, <1>25, <2>1, <2>3
  <2>5. ~ d
    <3>1. S.range[i].pgstart > S.range[j].pgend
      BY <1>23, <2>3, <2>4
    <3>2. R.range[j] = S.range[j]
      BY <1>18, <2>3, <2>4
    <3>3. S.range \in [Ranges -> RangeRecs]
      BY StoreFacts
    <3>4. S.range[j].pgend \in Int /\ S.range[j].pgstart \in Int
          /\ S.range[i].pgstart \in Int
      BY <3>3 DEF RangeRecs
    <3>5. p <= S.range[j].pgend /\ p >= s
      BY <1>22, <3>2, <3>4, SMTT(30) DEF PagesOf
    <3>6. ~ (S.range[i].pgstart < s)
      BY <3>1, <3>4, <3>5, SMTT(30)
    <3> QED BY <1>6, <1>9, <3>6
  <2> QED BY <2>3, <2>4, <2>5
<1> QED BY <1>13, <1>14, <1>15, <1>16, <1>17, <1>18, <1>19, <1>20, <1>21, <1>22
        DEF PinSoFar

(* One range of the walk.                                                  *)
LEMMA PinStep ==
  ASSUME NEW w, NEW S, StoreInv(S), NEW list, NEW a \in Areas,
         list = S.unpinned[a], NEW s \in Int, NEW e \in Int, Bounded(s, e),
         NEW fails \in BOOLEAN, NEW n, NEW k \in 1 .. Len(list), n = k - 1,
         PinSoFar(w, S, list, a, s, e, fails, n),
         NEW i \in Ranges, i = list[k],
         fails \/ (S.range[i].pgstart < s /\ e < S.range[i].pgend =>
                     Allocated(S) # Ranges),
         NEW v, v = PinRange(w, i, s, e, fails)
  PROVE  PinSoFar(v, S, list, a, s, e, fails, k)
<1>1. PICK r : r = w.S.range[i]
  OBVIOUS
<1>2. InOrder(list, S, a)
  BY ListInOrder
<1>3. Len(list) \in Nat
  BY <1>2 DEF InOrder
<1>4. k \in Int
  BY <1>3
<1>5. k > n /\ n \in Int
  BY <1>4
<1>6. CASE w.done
  <2>1. v = [w EXCEPT !.done = TRUE]
    BY <1>6 DEF PinRange
  <2>2. \A j \in Ranges, p \in Int :
          ~ (w.S.range[j].asma = a /\ p \in PagesOf(w.S.range[j]) /\ p \in s .. e)
    BY <1>6 DEF PinSoFar
  <2> QED BY <2>1, <2>2, StopStep
<1>7. CASE ~ w.done
  <2>1. \A m \in 1 .. Len(list) : m > n => w.S.range[list[m]] = S.range[list[m]]
    BY <1>7 DEF PinSoFar
  <2>2. /\ \A m \in 1 .. Len(list) :
             list[m] \in Ranges /\ S.range[list[m]].asma = a
        /\ \A m, o \in 1 .. Len(list) :
             m < o => S.range[list[m]].pgstart > S.range[list[o]].pgend
    BY <1>2 DEF InOrder
  <2>3. r = S.range[i] /\ r.asma = a
    <3>1. w.S.range[list[k]] = S.range[list[k]] /\ S.range[list[k]].asma = a
      BY <1>5, <2>1, <2>2
    <3> QED BY <1>1, <3>1
  <2>4. S.range \in [Ranges -> RangeRecs] /\ AllGood(S.range)
    BY StoreFacts
  <2>5. r \in RangeRecs /\ Good(r)
    BY <2>3, <2>4 DEF AllGood
  <2>6. Bounded(r.pgstart, r.pgend) /\ r.pgstart \in Int /\ r.pgend \in Int
    BY <2>3, <2>5, GoodFacts
  <2>7. \A j \in Ranges, p \in Int :
          w.S.range[j].asma = a /\ p \in PagesOf(w.S.range[j]) /\ p \in s .. e =>
            \E m \in 1 .. Len(list) : m > n /\ list[m] = j
    BY DEF PinSoFar
  <2>8. CASE range_before_page(r, s)
    <3>1. v = [w EXCEPT !.done = TRUE]
      BY <1>1, <2>8 DEF PinRange
    <3>2. ASSUME NEW j \in Ranges, NEW p \in Int, w.S.range[j].asma = a,
                 p \in PagesOf(w.S.range[j]), p \in s .. e
          PROVE  FALSE
      <4>1. PICK m \in 1 .. Len(list) : m > n /\ list[m] = j
        BY <2>7, <3>2
      <4>2. w.S.range[j] = S.range[j]
        BY <2>1, <4>1
      <4>3. S.range[j].pgend \in Int /\ S.range[j].pgstart \in Int
        BY <2>4 DEF RangeRecs
      <4>4. s <= S.range[j].pgend
        BY <3>2, <4>2, <4>3 DEF PagesOf
      <4>5. r.pgend < s /\ r.pgstart <= r.pgend + 1
        BY <2>6, <2>8 DEF range_before_page, Bounded
      <4>6. m \in Int /\ (m = k \/ k < m)
        BY <1>3, <1>4, <4>1
      <4>7. CASE m = k
        BY <2>3, <2>6, <4>1, <4>4, <4>5, <4>7, SMTT(30)
      <4>8. CASE k < m
        <5>1. r.pgstart > S.range[j].pgend
          BY <2>2, <2>3, <4>1, <4>8
        <5> QED BY <2>6, <4>3, <4>4, <4>5, <5>1
      <4> QED BY <4>6, <4>7, <4>8
    <3>3. \A j \in Ranges, p \in Int :
          ~ (w.S.range[j].asma = a /\ p \in PagesOf(w.S.range[j]) /\ p \in s .. e)
      BY <3>2
    <3> QED BY <3>1, <3>3, StopStep
  <2>9. CASE ~ range_before_page(r, s) /\ ~ page_range_in_range(r, s, e)
    <3>1. v = w
      BY <1>1, <1>7, <2>9 DEF PinRange
    <3>2. r.pgstart > e
      BY <2>5, <2>6, <2>9, Behind
    <3>3. ASSUME NEW j \in Ranges, NEW p \in Int, w.S.range[j].asma = a,
                 p \in PagesOf(w.S.range[j]), p \in s .. e
          PROVE  \E m \in 1 .. Len(list) : m > k /\ list[m] = j
      <4>1. PICK m \in 1 .. Len(list) : m > n /\ list[m] = j
        BY <2>7, <3>3
      <4>2. m # k
        <5> SUFFICES ASSUME m = k PROVE FALSE
          OBVIOUS
        <5>1. w.S.range[j] = r
          BY <1>1, <4>1
        <5> QED BY <2>6, <3>2, <3>3, <5>1 DEF PagesOf
      <4>3. m > k
        BY <1>3, <1>4, <4>1, <4>2
      <4> QED BY <4>1, <4>3
    <3>4. \A m \in 1 .. Len(list) : m > k => m > n
      BY <1>3, <1>4
    <3> QED BY <1>7, <3>1, <3>3, <3>4 DEF PinSoFar
  <2>10. CASE ~ range_before_page(r, s) /\ page_range_in_range(r, s, e)
    <3>1. v = [S |-> CutRange(w.S, i, s, e, fails),
               ret |-> PurgedBefore(w.ret, r),
               done |-> r.pgstart < s /\ e < r.pgend]
      BY <1>1, <1>7, <2>10 DEF PinRange
    <3>2. fails \/ (r.pgstart < s /\ e < r.pgend => Allocated(S) # Ranges)
      BY <2>3
    <3> QED BY <1>1, <1>7, <2>10, <3>1, <3>2, CutStep, ZenonT(30)
  <2> QED BY <2>8, <2>9, <2>10
<1> QED BY <1>6, <1>7

(* A range is free when one has to be split.                               *)
RoomToSplit(S, a, s, e) ==
  \A j \in Ranges : S.range[j].asma = a /\ S.range[j].pgstart < s
                     /\ e < S.range[j].pgend => Allocated(S) # Ranges

LEMMA PinKeeps ==
  ASSUME NEW S, S = ash, StoreInv(S), NEW a \in Areas, NEW s \in Int, NEW e \in Int,
         Bounded(s, e), NEW fails \in BOOLEAN,
         fails \/ RoomToSplit(S, a, s, e),
         NEW w, w = ashmem_pin(a, s, e, fails)
  PROVE  Taken(w.S, w.ret, S, a, s, e, fails)
<1>1. PICK list : list = S.unpinned[a]
  OBVIOUS
<1>2. InOrder(list, S, a)
  BY <1>1, ListInOrder
<1>3. Len(list) \in Nat
  BY <1>2 DEF InOrder
<1>4. PICK f : PinTurns(f, S, list, s, e, fails, Len(list)) /\ w = f[Len(list)]
  BY <1>1, <1>3, PinUnfold
<1>5. \A n \in 0 .. Len(list) : f[n] = PinTurn(f, S, list, s, e, fails, n)
  BY <1>4 DEF PinTurns
<1> DEFINE kept == {n \in Nat : PinSoFar(f[n], S, list, a, s, e, fails, n)}
<1>6. 0 \in kept
  <2>1. PICK v : v = [S |-> S, ret |-> FALSE, done |-> FALSE]
    OBVIOUS
  <2>2. f[0] = v
    <3>1. 0 \in 0 .. Len(list)
      BY <1>3
    <3> QED BY <1>5, <2>1, <3>1 DEF PinTurn
  <2>3. v.S = S /\ ~ v.done
    BY <2>1
  <2>4. v \in PinStates
    <3>1. S \in Stores
      BY StoreFacts
    <3> QED BY <2>1, <3>1 DEF PinStates
  <2>5. Apart(S, S, a)
    BY DEF Apart
  <2>6. ASSUME NEW j \in Ranges, S.range[j].asma = a
        PROVE  \E m \in 1 .. Len(list) : m > 0 /\ list[m] = j
    <3>1. PICK m \in 1 .. Len(list) : list[m] = j
      BY <1>2, <2>6 DEF InOrder
    <3>2. m > 0
      BY <1>3
    <3> QED BY <3>1, <3>2
  <2>7. PinSoFar(v, S, list, a, s, e, fails, 0)
    BY <2>3, <2>4, <2>5, <2>6 DEF PinSoFar
  <2> QED BY <2>2, <2>7
<1>7. ASSUME NEW n \in 0 .. Len(list) - 1, n \in kept PROVE n + 1 \in kept
  <2>1. PICK k \in 1 .. Len(list) : k = n + 1
    BY <1>3
  <2>2. k \in 0 .. Len(list) /\ k # 0 /\ k - 1 = n /\ n + 1 \in Nat
    BY <1>3, <2>1
  <2>3. PICK i \in Ranges : i = list[k] /\ S.range[i].asma = a
    BY <1>2 DEF InOrder
  <2>4. PICK u : u = f[n]
    OBVIOUS
  <2>5. PICK v : v = f[k]
    OBVIOUS
  <2>6. v = PinRange(u, i, s, e, fails)
    BY <1>5, <2>2, <2>3, <2>4, <2>5 DEF PinTurn
  <2>7. PinSoFar(u, S, list, a, s, e, fails, n) /\ n = k - 1
    BY <1>7, <2>2, <2>4
  <2>8. fails \/ (S.range[i].pgstart < s /\ e < S.range[i].pgend =>
                    Allocated(S) # Ranges)
    BY <2>3 DEF RoomToSplit
  <2>9. PinSoFar(v, S, list, a, s, e, fails, k)
    <3>1. i = list[k] /\ list = S.unpinned[a]
      BY <1>1, <2>3
    <3> HIDE DEF kept
    <3> QED BY <2>6, <2>7, <2>8, <3>1, PinStep
  <2> QED BY <2>1, <2>2, <2>5, <2>9
<1> HIDE DEF kept
<1>8. Len(list) \in kept
  <2>1. PICK K \in Nat : K = Len(list)
    BY <1>3
  <2>2. \A n \in 0 .. K - 1 : n \in kept => n + 1 \in kept
    BY <1>7, <2>1
  <2>3. K \in kept
    BY <1>6, <2>2, Turns
  <2> QED BY <2>1, <2>3
<1>9. PinSoFar(w, S, list, a, s, e, fails, Len(list))
  BY <1>4, <1>8 DEF kept
<1>10. ASSUME NEW p \in Int, Covered(w.S, a, p) PROVE p \notin s .. e
  <2> SUFFICES ASSUME p \in s .. e PROVE FALSE
    OBVIOUS
  <2>1. PICK j \in Ranges : w.S.range[j].asma = a /\ p \in PagesOf(w.S.range[j])
    BY <1>10 DEF Covered
  <2>2. PICK m \in 1 .. Len(list) : m > Len(list)
    BY <1>9, <2>1 DEF PinSoFar
  <2> QED BY <1>3, <2>2
<1>11. \A p \in Int : PurgedAt(w.S, a, p) => Covered(w.S, a, p)
  BY DEF PurgedAt, Covered
<1>12. w.ret \in BOOLEAN
  BY <1>9 DEF PinSoFar, PinStates
<1> QED BY <1>9, <1>10, <1>11, <1>12 DEF PinSoFar, Taken


-----------------------------------------------------------------------------
(* The invariant.                                                          *)

(* The ranges of R are ranges of open areas ...                            *)
Owned(R, open) ==
  \A j \in Ranges : R.range[j].asma \in Areas => R.range[j].asma \in open

(* ... inside the largest of the sizes h[a] that the area has had, or up   *)
(* to SIZE_MAX when PAGE_ALIGN makes one of them 0.                        *)
InArea(h, a, p) ==
  p \in Pages /\ \E n \in h[a] : p < PAGE_ALIGN(n) \/ PAGE_ALIGN(n) = 0

Inside(R, h) ==
  \A a \in Areas, p \in Int : Covered(R, a, p) => InArea(h, a, p)

Held(h) == h \in [Areas -> SUBSET Int] /\ \A a \in Areas : h[a] \subseteq Sizes[a]

Settings ==
  /\ size \in [Areas -> Int] /\ file \in [Areas -> Int]
  /\ \A a \in Areas : {size[a], file[a]} \subseteq Sizes[a] \cup {0}
  /\ Held(held)
  /\ call.cmd = "size" => call.asma \in Areas /\ call.arg \in Sizes[call.asma]
  /\ opened \subseteq Areas /\ answer \in BOOLEAN
  /\ given \in [Areas -> SUBSET Pages]
  /\ discarded \in [Areas -> SUBSET Pages]

AshmemInv ==
  StoreInv(ash) /\ Owned(ash, opened) /\ Inside(ash, held) /\ Settings

(* The pages g that users gave are the pages that ranges hold, and the     *)
(* pages d that were discarded are in purged ranges.                       *)
Recorded(R, g, d) ==
  \A a \in Areas, p \in Int : /\ p \in g[a] <=> Covered(R, a, p)
                              /\ p \in d[a] => PurgedAt(R, a, p)

LEMMA SizesFacts ==
  ASSUME NEW a \in Areas, NEW n \in Sizes[a]
  PROVE  n \in Nat /\ n <= AddrPages /\ PAGE_ALIGN(n) \in 0 .. AddrPages - 1
<1>1. n \in Nat /\ n <= AddrPages
  BY AshmemAssumption
<1>2. PICK N \in Nat : N = AddrPages /\ N > 0
  BY AshmemAssumption
<1>3. PICK q \in Int, t \in 0 .. N - 1 : n = q * N + t /\ n % N = t
  BY <1>1, <1>2, DivMod
<1> QED BY <1>1, <1>2, <1>3 DEF PAGE_ALIGN

LEMMA MinusOne == Unsigned(0 - 1) = SIZE_MAX
<1>1. PICK B \in Nat, M \in Nat : B = SIZE_MAX + 1 /\ M = SIZE_MAX
  BY WidthFacts
<1>2. M \in Int /\ 0 - 1 \in Int /\ M \in 0 .. SIZE_MAX
  BY <1>1
<1>3. (0 - 1) * B = 0 - B
  BY Z3
<1>4. 0 - 1 = M + (0 - 1) * B
  BY <1>1, <1>3
<1>5. Unsigned(0 - 1) = Unsigned(M)
  BY <1>1, <1>2, <1>4, UnsignedSame
<1>6. Unsigned(M) = M
  BY <1>2, UnsignedSmall
<1> QED BY <1>1, <1>5, <1>6

(* The arguments of a pin or unpin that are let through.                   *)
LEMMA ArgumentFacts ==
  ASSUME NEW a \in Areas, NEW n \in Sizes[a], NEW m \in Sizes[a],
         NEW h, n \in h[a], m \in h[a],
         NEW offset \in 0 .. AddrPages - 1, NEW length \in 0 .. AddrPages - 1,
         PinArguments(a, offset, length, n, m),
         NEW s, NEW e, s = offset, e = pgend(offset, length, n)
  PROVE  /\ s \in Int /\ e \in Int /\ Bounded(s, e)
         /\ \A p \in s .. e : InArea(h, a, p)
         /\ s .. e \subseteq Pages /\ a \in opened
<1>1. PICK N \in Nat, M \in Nat : N = AddrPages /\ N > 0 /\ M = SIZE_MAX /\ N <= M
  BY AshmemAssumption
<1>2. PICK y \in Int, z \in Int :
        /\ y = PAGE_ALIGN(n) /\ y \in 0 .. N - 1
        /\ z = PAGE_ALIGN(m) /\ z \in 0 .. N - 1
  BY <1>1, SizesFacts
<1>3. offset \in Int /\ 0 <= offset /\ length \in Int /\ 0 <= length
  BY <1>1
<1>4. PICK t : t = (y - offset) % N
  OBVIOUS
<1>5. t \in Int /\ 0 <= t /\ (offset = 0 => t = y)
  <2>1. PICK d \in Int : d = y - offset
    BY <1>3
  <2>2. PICK q \in Int, v \in 0 .. N - 1 : d = q * N + v /\ d % N = v
    BY <1>1, DivMod
  <2>3. ASSUME offset = 0 PROVE t = y
    <3>1. d = y /\ 0 * N + y = y /\ 0 \in Int
      BY <1>2, <2>1, <2>3
    <3>2. (0 * N + y) % N = y
      BY <1>1, <1>2, <3>1, ModOf
    <3> QED BY <1>4, <2>1, <3>1, <3>2
  <2> QED BY <1>4, <2>1, <2>2, <2>3
<1>6. PICK len : len = Length(offset, length, n)
  OBVIOUS
<1>7. len = IF length = 0 THEN t ELSE length
  BY <1>1, <1>2, <1>4, <1>6 DEF Length
<1>8. len \in Int /\ 0 <= len
  BY <1>3, <1>5, <1>7
<1>9. offset + len <= z /\ a \in opened
  BY <1>2, <1>6 DEF PinArguments
<1>10. e = Unsigned(offset + len - 1)
  BY <1>6 DEF pgend
<1>11. CASE offset + len = 0
  <2>1. offset = 0 /\ len = 0 /\ offset + len - 1 = 0 - 1
    BY <1>3, <1>8, <1>11
  <2>2. y = 0
    BY <1>5, <1>7, <2>1
  <2>3. e = M /\ s = 0
    BY <1>1, <1>10, <2>1, MinusOne
  <2>4. Bounded(s, e) /\ s .. e = Pages
    BY <1>1, <2>3 DEF Bounded, Pages
  <2>5. \A p \in Pages : InArea(h, a, p)
    BY <1>2, <2>2 DEF InArea
  <2> QED BY <1>9, <2>3, <2>4, <2>5
<1>12. CASE offset + len # 0
  <2>1. PICK v \in 0 .. M : v = offset + len - 1 /\ v < z
    BY <1>1, <1>2, <1>3, <1>8, <1>9, <1>12
  <2>2. e = v
    BY <1>1, <1>10, <2>1, UnsignedSmall
  <2>3. Bounded(s, e)
    BY <1>1, <1>3, <1>8, <2>1, <2>2 DEF Bounded
  <2>4. ASSUME NEW p \in s .. e PROVE InArea(h, a, p)
    <3>1. p \in Int /\ 0 <= p /\ p <= M /\ p < z
      BY <1>1, <1>2, <1>3, <2>1, <2>2
    <3>2. p \in Pages
      BY <1>1, <3>1 DEF Pages
    <3>3. p < PAGE_ALIGN(m)
      BY <1>2, <3>1
    <3> QED BY <3>2, <3>3 DEF InArea
  <2>5. \A p \in s .. e : InArea(h, a, p)
    BY <2>4
  <2>6. s .. e \subseteq Pages
    BY <2>5 DEF InArea
  <2> QED BY <1>3, <1>9, <2>1, <2>2, <2>3, <2>5, <2>6
<1> QED BY <1>11, <1>12

LEMMA ApartCovers ==
  ASSUME NEW R, NEW S, NEW a, Apart(R, S, a), NEW b \in Areas, b # a, NEW p
  PROVE  /\ Covered(R, b, p) <=> Covered(S, b, p)
         /\ PurgedAt(R, b, p) <=> PurgedAt(S, b, p)
<1>1. \A j \in Ranges : R.range[j].asma = b \/ S.range[j].asma = b =>
                          R.range[j] = S.range[j]
  BY DEF Apart
<1> QED BY <1>1 DEF Covered, PurgedAt

LEMMA ApartOwned ==
  ASSUME NEW R, NEW S, NEW open, NEW a \in open, Apart(R, S, a), Owned(S, open)
  PROVE  Owned(R, open)
BY DEF Apart, Owned

LEMMA ApartInside ==
  ASSUME NEW R, NEW S, NEW h, NEW a \in Areas, Apart(R, S, a), Inside(S, h),
         \A p \in Int : Covered(R, a, p) =>
           Covered(S, a, p) \/ InArea(h, a, p)
  PROVE  Inside(R, h)
<1> SUFFICES ASSUME NEW b \in Areas, NEW p \in Int, Covered(R, b, p)
             PROVE  InArea(h, b, p)
  BY DEF Inside
<1>1. CASE b = a
  BY <1>1 DEF Inside
<1>2. CASE b # a
  <2>1. Covered(S, b, p)
    BY <1>2, ApartCovers
  <2> QED BY <2>1 DEF Inside
<1> QED BY <1>1, <1>2

-----------------------------------------------------------------------------
(* The actions keep it.                                                    *)

LEMMA PinInv ==
  ASSUME AshmemInv, NEW a \in Areas, NEW offset \in 0 .. AddrPages - 1,
         NEW length \in 0 .. AddrPages - 1, NEW n \in held[a], NEW m \in held[a],
         NEW fails \in BOOLEAN, ASHMEM_PIN(a, offset, length, n, m, fails)
  PROVE  /\ AshmemInv'
         /\ ~ fails /\ Recorded(ash, given, discarded) =>
              /\ Recorded(ash', given', discarded')
              /\ Contract!PagesNext
<1>1. PICK S, R, w : S = ash /\ R = ash' /\ w = ashmem_pin(a, offset, pgend(offset, length, n), fails)
  OBVIOUS
<1>2. PICK s, e : s = offset /\ e = pgend(offset, length, n)
  OBVIOUS
<1>3. StoreInv(S) /\ Owned(S, opened) /\ Inside(S, held) /\ Settings
  BY <1>1 DEF AshmemInv
<1>4. n \in Sizes[a] /\ m \in Sizes[a]
  BY <1>3 DEF Settings, Held
<1>5. PinArguments(a, offset, length, n, m)
  BY DEF ASHMEM_PIN
<1>6. /\ s \in Int /\ e \in Int /\ Bounded(s, e) /\ a \in opened
      /\ s .. e \subseteq Pages
  BY <1>2, <1>4, <1>5, ArgumentFacts
<1>7. fails \/ RoomToSplit(S, a, s, e)
  <2> SUFFICES ASSUME ~ fails, NEW j \in Ranges, S.range[j].asma = a,
                      S.range[j].pgstart < s, e < S.range[j].pgend
               PROVE  Allocated(S) # Ranges
    BY DEF RoomToSplit
  <2>1. ListOf(S.unpinned[a], S.range, a)
    BY <1>3, StoreFacts
  <2>2. j \in Range(S.unpinned[a])
    BY <2>1 DEF ListOf
  <2>3. S.range[j] \in Unpinned(a)
    BY <1>1, <2>2 DEF Unpinned
  <2>4. (\E r \in Unpinned(a) : r.pgstart < s /\ e < r.pgend) =>
          Allocated(ash) # Ranges
    BY <1>2 DEF ASHMEM_PIN, Memory
  <2> QED BY <1>1, <2>3, <2>4
<1>8. w = ashmem_pin(a, s, e, fails)
  BY <1>1, <1>2
<1>9. Taken(w.S, w.ret, S, a, s, e, fails)
  <2>1. S = ash /\ StoreInv(S) /\ s \in Int /\ e \in Int /\ Bounded(s, e)
    BY <1>1, <1>3, <1>6
  <2> QED BY <1>7, <1>8, <2>1, PinKeeps
<1>10. PICK ret \in BOOLEAN : ret = w.ret
  BY <1>9 DEF Taken
<1>11. /\ R = w.S /\ answer' = ret
       /\ given' = [given EXCEPT ![a] = given[a] \ (s .. e)]
       /\ discarded' = [discarded EXCEPT ![a] = discarded[a] \ (s .. e)]
       /\ UNCHANGED <<size, file, held, opened, call>>
  BY <1>1, <1>2, <1>10 DEF ASHMEM_PIN
<1>12. Taken(R, ret, S, a, s, e, fails)
  BY <1>9, <1>10, <1>11
<1>13. /\ StoreInv(R) /\ Apart(R, S, a)
       /\ \A p \in Int : /\ Covered(R, a, p) => Covered(S, a, p) /\ p \notin s .. e
                         /\ PurgedAt(S, a, p) /\ p \in s .. e => ret
       /\ ~ fails => \A p \in Int : p \notin s .. e =>
                       /\ Covered(S, a, p) => Covered(R, a, p)
                       /\ PurgedAt(S, a, p) => PurgedAt(R, a, p)
  BY <1>12 DEF Taken
<1>14. Owned(R, opened) /\ Inside(R, held)
  BY <1>3, <1>6, <1>13, ApartOwned, ApartInside
<1>15. PICK g \in [Areas -> SUBSET Pages], d \in [Areas -> SUBSET Pages] :
         g = given /\ d = discarded
  BY <1>3 DEF Settings
<1>16. /\ given' \in [Areas -> SUBSET Pages] /\ discarded' \in [Areas -> SUBSET Pages]
       /\ given'[a] = g[a] \ (s .. e) /\ discarded'[a] = d[a] \ (s .. e)
       /\ \A b \in Areas : b # a => given'[b] = g[b] /\ discarded'[b] = d[b]
  BY <1>11, <1>15
<1>17. Settings'
  BY <1>3, <1>11, <1>16 DEF Settings
<1>18. AshmemInv'
  <2>1. Owned(ash', opened') /\ Inside(ash', held') /\ StoreInv(ash')
    BY <1>1, <1>11, <1>13, <1>14
  <2>2. Owned(ash, opened)' /\ Inside(ash, held)' /\ StoreInv(ash)'
    BY <2>1 DEF Owned, Inside, StoreInv
  <2> QED BY <1>17, <2>2 DEF AshmemInv
<1>19. ASSUME ~ fails, Recorded(ash, given, discarded)
       PROVE  Recorded(ash', given', discarded') /\ Contract!PagesNext
  <2>1. \A b \in Areas, p \in Int : /\ p \in g[b] <=> Covered(S, b, p)
                                    /\ p \in d[b] => PurgedAt(S, b, p)
    BY <1>1, <1>15, <1>19 DEF Recorded
  <2>2. ASSUME NEW b \in Areas, NEW p \in Int
        PROVE  /\ p \in given'[b] <=> Covered(R, b, p)
               /\ p \in discarded'[b] => PurgedAt(R, b, p)
    <3>1. CASE b = a
      BY <1>13, <1>16, <1>19, <2>1, <3>1
    <3>2. CASE b # a
      <4>1. /\ Covered(R, b, p) <=> Covered(S, b, p)
            /\ PurgedAt(R, b, p) <=> PurgedAt(S, b, p)
        BY <1>13, <3>2, ApartCovers
      <4> QED BY <1>16, <2>1, <3>2, <4>1
    <3> QED BY <3>1, <3>2
  <2>3. Recorded(ash', given', discarded')
    BY <1>1, <2>2 DEF Recorded
  <2>4. \A p \in Pages : p \in Int
    BY AshmemAssumption DEF Pages
  <2>5. d[a] \subseteq g[a]
    <3>1. \A p \in Int : PurgedAt(S, a, p) => Covered(S, a, p)
      BY DEF PurgedAt, Covered
    <3> QED BY <2>1, <2>4, <3>1
  <2>6. discarded' = [discarded EXCEPT ![a] = discarded[a] \cap given'[a]]
    BY <1>11, <1>15, <1>16, <2>5
  <2>7. discarded' # discarded => answer'
    <3> SUFFICES ASSUME discarded' # discarded PROVE ret
      BY <1>11
    <3>1. PICK p \in d[a] : p \in s .. e
      BY <1>11, <1>15
    <3>2. p \in Int
      BY <1>15, <2>4, <3>1
    <3> QED BY <1>13, <2>1, <3>1, <3>2
  <2>8. Contract!TakeBack(a)
    BY <1>11, <1>15, <1>16, <2>6, <2>7 DEF Contract!TakeBack, Contract!Only
  <2> QED BY <2>3, <2>8 DEF Contract!PagesNext
<1> QED BY <1>18, <1>19


LEMMA UnpinInv ==
  ASSUME AshmemInv, NEW a \in Areas, NEW offset \in 0 .. AddrPages - 1,
         NEW length \in 0 .. AddrPages - 1, NEW n \in held[a], NEW m \in held[a],
         NEW fails \in BOOLEAN, ASHMEM_UNPIN(a, offset, length, n, m, fails)
  PROVE  /\ AshmemInv'
         /\ ~ fails /\ Recorded(ash, given, discarded) =>
              /\ Recorded(ash', given', discarded')
              /\ Contract!PagesNext
<1>1. PICK S, R, w : S = ash /\ R = ash' /\ w = ashmem_unpin(a, offset, pgend(offset, length, n), fails)
  OBVIOUS
<1>2. PICK s, e : s = offset /\ e = pgend(offset, length, n)
  OBVIOUS
<1>3. StoreInv(S) /\ Owned(S, opened) /\ Inside(S, held) /\ Settings
  BY <1>1 DEF AshmemInv
<1>4. n \in Sizes[a] /\ m \in Sizes[a]
  BY <1>3 DEF Settings, Held
<1>5. PinArguments(a, offset, length, n, m)
  BY DEF ASHMEM_UNPIN
<1>6. /\ s \in Int /\ e \in Int /\ Bounded(s, e) /\ a \in opened
      /\ s .. e \subseteq Pages
      /\ \A p \in s .. e : InArea(held, a, p)
  BY <1>2, <1>4, <1>5, ArgumentFacts
<1>7. fails \/ (Alone(S, S.unpinned[a], s, e) => Allocated(S) # Ranges)
  <2> SUFFICES ASSUME ~ fails, Alone(S, S.unpinned[a], s, e)
               PROVE  Allocated(S) # Ranges
    OBVIOUS
  <2>1. PICK list : list = S.unpinned[a]
    OBVIOUS
  <2>2. InOrder(list, S, a)
    BY <1>3, <2>1, ListInOrder
  <2>3. DOMAIN list = 1 .. Len(list)
    BY <2>2 DEF InOrder
  <2>4. ASSUME NEW r \in Unpinned(a)
        PROVE  range_before_page(r, s) \/ ~ page_range_in_range(r, s, e)
    <3>1. PICK i \in Range(list) : r = S.range[i]
      BY <1>1, <2>1 DEF Unpinned
    <3>2. PICK l \in 1 .. Len(list) : i = list[l]
      BY <2>3, <3>1 DEF Range
    <3> QED BY <2>1, <3>1, <3>2 DEF Alone
  <2>5. (\A r \in Unpinned(a) : \/ range_before_page(r, s)
                                \/ ~ page_range_in_range(r, s, e)) =>
          Allocated(ash) # Ranges
    BY <1>2 DEF ASHMEM_UNPIN, Memory
  <2> QED BY <1>1, <2>4, <2>5
<1>8. w = ashmem_unpin(a, s, e, fails)
  BY <1>1, <1>2
<1>9. Given(w.S, S, a, s, e, fails)
  <2>1. S = ash /\ StoreInv(S) /\ s \in Int /\ e \in Int /\ Bounded(s, e)
    BY <1>1, <1>3, <1>6
  <2> QED BY <1>7, <1>8, <2>1, UnpinKeeps
<1>11. /\ R = w.S /\ answer' = FALSE
       /\ given' = [given EXCEPT ![a] =
                      IF fails THEN given[a] ELSE given[a] \cup (s .. e)]
       /\ UNCHANGED <<size, file, held, opened, call, discarded>>
  BY <1>1, <1>2 DEF ASHMEM_UNPIN
<1>12. Given(R, S, a, s, e, fails)
  BY <1>9, <1>11
<1>13. /\ StoreInv(R) /\ Apart(R, S, a)
       /\ \A p \in Int : Covered(R, a, p) => p \in s .. e \/ Covered(S, a, p)
       /\ ~ fails => \A p \in Int : /\ p \in s .. e \/ Covered(S, a, p) =>
                                         Covered(R, a, p)
                                    /\ PurgedAt(S, a, p) => PurgedAt(R, a, p)
  BY <1>12 DEF Given
<1>14. Owned(R, opened) /\ Inside(R, held)
  <2>1. \A p \in Int : Covered(R, a, p) =>
          Covered(S, a, p) \/ InArea(held, a, p)
    BY <1>6, <1>13
  <2> QED BY <1>3, <1>6, <1>13, <2>1, ApartOwned, ApartInside
<1>15. PICK g \in [Areas -> SUBSET Pages], d \in [Areas -> SUBSET Pages] :
         g = given /\ d = discarded
  BY <1>3 DEF Settings
<1>16. /\ given' \in [Areas -> SUBSET Pages] /\ discarded' = d
       /\ given'[a] = IF fails THEN g[a] ELSE g[a] \cup (s .. e)
       /\ \A b \in Areas : b # a => given'[b] = g[b]
  BY <1>6, <1>11, <1>15
<1>17. Settings'
  BY <1>3, <1>11, <1>16 DEF Settings
<1>18. AshmemInv'
  <2>1. Owned(ash', opened') /\ Inside(ash', held') /\ StoreInv(ash')
    BY <1>1, <1>11, <1>13, <1>14
  <2>2. Owned(ash, opened)' /\ Inside(ash, held)' /\ StoreInv(ash)'
    BY <2>1 DEF Owned, Inside, StoreInv
  <2> QED BY <1>17, <2>2 DEF AshmemInv
<1>19. ASSUME ~ fails, Recorded(ash, given, discarded)
       PROVE  Recorded(ash', given', discarded') /\ Contract!PagesNext
  <2>1. \A b \in Areas, p \in Int : /\ p \in g[b] <=> Covered(S, b, p)
                                    /\ p \in d[b] => PurgedAt(S, b, p)
    BY <1>1, <1>15, <1>19 DEF Recorded
  <2>2. ASSUME NEW b \in Areas, NEW p \in Int
        PROVE  /\ p \in given'[b] <=> Covered(R, b, p)
               /\ p \in discarded'[b] => PurgedAt(R, b, p)
    <3>1. CASE b = a
      BY <1>13, <1>16, <1>19, <2>1, <3>1
    <3>2. CASE b # a
      <4>1. /\ Covered(R, b, p) <=> Covered(S, b, p)
            /\ PurgedAt(R, b, p) <=> PurgedAt(S, b, p)
        BY <1>13, <3>2, ApartCovers
      <4> QED BY <1>16, <2>1, <3>2, <4>1
    <3> QED BY <3>1, <3>2
  <2>3. Recorded(ash', given', discarded')
    BY <1>1, <2>2 DEF Recorded
  <2>4. Contract!Give(a)
    BY <1>11, <1>15, <1>16, <1>19 DEF Contract!Give, Contract!Only
  <2> QED BY <2>3, <2>4 DEF Contract!PagesNext
<1> QED BY <1>18, <1>19

LEMMA ReleaseInv ==
  ASSUME AshmemInv, NEW a \in Areas, ashmem_release(a)
  PROVE  /\ AshmemInv'
         /\ Recorded(ash, given, discarded) =>
              Recorded(ash', given', discarded') /\ Contract!PagesNext
<1>1. PICK S, R : S = ash /\ R = ash'
  OBVIOUS
<1>3. StoreInv(S) /\ Owned(S, opened) /\ Inside(S, held) /\ Settings
  BY <1>1 DEF AshmemInv
<1>4. /\ R = DeleteAll(ash.unpinned[a]) /\ opened' = opened \ {a}
      /\ size' = [size EXCEPT ![a] = 0] /\ file' = [file EXCEPT ![a] = 0]
      /\ held' = [held EXCEPT ![a] = {}]
      /\ given' = [given EXCEPT ![a] = {}]
      /\ discarded' = [discarded EXCEPT ![a] = {}]
      /\ UNCHANGED call /\ answer' = FALSE
  BY <1>1 DEF ashmem_release
<1>5. /\ StoreInv(R)
      /\ \A j \in Ranges :
           R.range[j] = IF S.range[j].asma = a THEN NoRange ELSE S.range[j]
  BY <1>1, <1>3, <1>4, ReleaseKeeps
<1>6. \A j \in Ranges : R.range[j].asma # a
  BY <1>5, NoRangeFacts
<1>7. Apart(R, S, a)
  BY <1>5, NoRangeFacts DEF Apart
<1>8. Owned(R, opened \ {a})
  BY <1>3, <1>5, <1>6, NoRangeFacts DEF Owned
<1>9. \A p \in Int : ~ Covered(R, a, p)
  BY <1>6 DEF Covered
<1>10. Inside(R, held')
  <2>1. Inside(R, held)
    BY <1>3, <1>7, <1>9, ApartInside
  <2>2. \A b \in Areas : b # a => held'[b] = held[b]
    BY <1>3, <1>4 DEF Settings, Held
  <2> QED BY <1>9, <2>1, <2>2 DEF Inside, InArea
<1>15. PICK g \in [Areas -> SUBSET Pages], d \in [Areas -> SUBSET Pages] :
         g = given /\ d = discarded
  BY <1>3 DEF Settings
<1>16. /\ given' \in [Areas -> SUBSET Pages] /\ discarded' \in [Areas -> SUBSET Pages]
       /\ given'[a] = {} /\ discarded'[a] = {}
       /\ \A b \in Areas : b # a => given'[b] = g[b] /\ discarded'[b] = d[b]
  BY <1>4, <1>15
<1>17. Settings'
  <2>1. /\ size' \in [Areas -> Int] /\ file' \in [Areas -> Int]
        /\ \A b \in Areas : {size'[b], file'[b]} \subseteq Sizes[b] \cup {0}
    BY <1>3, <1>4 DEF Settings
  <2>2. Held(held')
    BY <1>3, <1>4 DEF Settings, Held
  <2> QED BY <1>3, <1>4, <1>16, <2>1, <2>2 DEF Settings
<1>18. AshmemInv'
  <2>1. Owned(ash', opened') /\ Inside(ash', held') /\ StoreInv(ash')
    BY <1>1, <1>4, <1>5, <1>8, <1>10
  <2>2. Owned(ash, opened)' /\ Inside(ash, held)' /\ StoreInv(ash)'
    BY <2>1 DEF Owned, Inside, StoreInv
  <2> QED BY <1>17, <2>2 DEF AshmemInv
<1>19. ASSUME Recorded(ash, given, discarded)
       PROVE  Recorded(ash', given', discarded') /\ Contract!PagesNext
  <2>1. \A b \in Areas, p \in Int : /\ p \in g[b] <=> Covered(S, b, p)
                                    /\ p \in d[b] => PurgedAt(S, b, p)
    BY <1>1, <1>15, <1>19 DEF Recorded
  <2>2. ASSUME NEW b \in Areas, NEW p \in Int
        PROVE  /\ p \in given'[b] <=> Covered(R, b, p)
               /\ p \in discarded'[b] => PurgedAt(R, b, p)
    <3>1. CASE b = a
      BY <1>9, <1>16, <3>1
    <3>2. CASE b # a
      <4>1. /\ Covered(R, b, p) <=> Covered(S, b, p)
            /\ PurgedAt(R, b, p) <=> PurgedAt(S, b, p)
        BY <1>7, <3>2, ApartCovers
      <4> QED BY <1>16, <2>1, <3>2, <4>1
    <3> QED BY <3>1, <3>2
  <2>3. Recorded(ash', given', discarded')
    BY <1>1, <2>2 DEF Recorded
  <2>4. Contract!Close(a)
    BY <1>4 DEF Contract!Close
  <2> QED BY <2>3, <2>4 DEF Contract!PagesNext
<1> QED BY <1>18, <1>19

(* What ashmem_shrink does to the ranges and to the pages.                 *)
LEMMA ShrinkInv ==
  ASSUME StoreInv(ash), Owned(ash, opened), Inside(ash, held),
         given \in [Areas -> SUBSET Pages], discarded \in [Areas -> SUBSET Pages],
         NEW nr, ashmem_shrink(nr)
  PROVE  /\ StoreInv(ash') /\ Owned(ash', opened) /\ Inside(ash', held)
         /\ discarded' \in [Areas -> SUBSET Pages]
         /\ Recorded(ash, given, discarded) =>
              /\ Recorded(ash', given, discarded')
              /\ \A a \in Areas :
                   /\ discarded[a] \subseteq discarded'[a]
                   /\ discarded'[a] \subseteq discarded[a] \cup given[a]
<1>1. PICK S, R, w : S = ash /\ R = ash' /\ w = PurgeWalk(nr)
  OBVIOUS
<1>2. PICK g \in [Areas -> SUBSET Pages], d \in [Areas -> SUBSET Pages] :
        g = given /\ d = discarded
  OBVIOUS
<1>3. StoreInv(S) /\ Owned(S, opened) /\ Inside(S, held)
  BY <1>1
<1>4. /\ R = w.S
      /\ discarded' = [a \in Areas |-> d[a] \cup
           UNION {PagesOf(S.range[i]) :
                    i \in {j \in w.purged : S.range[j].asma = a}}]
  BY <1>1, <1>2 DEF ashmem_shrink
<1>5. /\ StoreInv(R) /\ w.purged \subseteq Ranges
      /\ \A j \in w.purged : OnLru(S.range[j])
      /\ \A j \in Ranges :
           R.range[j] = IF j \in w.purged THEN Purged(S.range[j]) ELSE S.range[j]
  BY <1>1, <1>3, <1>4, ShrinkerKeeps
<1>6. \A j \in Ranges :
        /\ R.range[j].asma = S.range[j].asma
        /\ PagesOf(R.range[j]) = PagesOf(S.range[j])
        /\ S.range[j].purged \/ j \in w.purged => R.range[j].purged
  <2> TAKE j \in Ranges
  <2>1. PICK q : q = Purged(S.range[j])
    OBVIOUS
  <2>2. q.asma = S.range[j].asma /\ PagesOf(q) = PagesOf(S.range[j]) /\ q.purged
    BY <2>1 DEF Purged, PagesOf
  <2>3. R.range[j] = IF j \in w.purged THEN q ELSE S.range[j]
    BY <1>5, <2>1
  <2> QED BY <2>2, <2>3
<1>7. \A a \in Areas, p \in Int : /\ Covered(R, a, p) <=> Covered(S, a, p)
                                  /\ PurgedAt(S, a, p) => PurgedAt(R, a, p)
  BY <1>6 DEF Covered, PurgedAt
<1>8. Owned(R, opened)
  BY <1>3, <1>6 DEF Owned
<1>9. Inside(R, held)
  BY <1>3, <1>7 DEF Inside
<1>10. ASSUME NEW a \in Areas, NEW p
       PROVE  p \in discarded'[a] <=>
                \/ p \in d[a]
                \/ \E j \in w.purged : S.range[j].asma = a
                                       /\ p \in PagesOf(S.range[j])
  BY <1>4
<1>11. ASSUME NEW j \in Ranges, S.range[j].asma \in Areas
       PROVE  PagesOf(S.range[j]) \subseteq Pages
  <2>1. S.range[j] \in RangeRecs /\ Good(S.range[j])
    BY <1>3, StoreFacts DEF AllGood
  <2>2. /\ Bounded(S.range[j].pgstart, S.range[j].pgend)
        /\ S.range[j].pgstart \in Int /\ S.range[j].pgend \in Int
    BY <1>11, <2>1, GoodFacts
  <2> QED BY <2>2, AshmemAssumption DEF PagesOf, Bounded, Pages
<1>12. discarded' \in [Areas -> SUBSET Pages]
  <2>1. \A a \in Areas : discarded'[a] \subseteq Pages
    BY <1>2, <1>5, <1>10, <1>11
  <2> QED BY <1>4, <2>1
<1>13. ASSUME Recorded(ash, given, discarded)
       PROVE  /\ Recorded(ash', given, discarded')
              /\ \A a \in Areas :
                   /\ discarded[a] \subseteq discarded'[a]
                   /\ discarded'[a] \subseteq discarded[a] \cup given[a]
  <2>1. \A b \in Areas, p \in Int : /\ p \in g[b] <=> Covered(S, b, p)
                                    /\ p \in d[b] => PurgedAt(S, b, p)
    BY <1>1, <1>2, <1>13 DEF Recorded
  <2>2. ASSUME NEW a \in Areas, NEW p \in Int, NEW j \in w.purged,
               S.range[j].asma = a, p \in PagesOf(S.range[j])
        PROVE  PurgedAt(R, a, p) /\ Covered(S, a, p)
    BY <1>5, <1>6, <2>2 DEF PurgedAt, Covered
  <2>3. Recorded(R, g, discarded')
    BY <1>7, <1>10, <2>1, <2>2 DEF Recorded
  <2>4. \A p \in Pages : p \in Int
    BY AshmemAssumption DEF Pages
  <2>5. ASSUME NEW a \in Areas
        PROVE  /\ d[a] \subseteq discarded'[a]
               /\ discarded'[a] \subseteq d[a] \cup g[a]
    <3>1. d[a] \subseteq discarded'[a]
      BY <1>10
    <3>2. ASSUME NEW p \in discarded'[a], p \notin d[a]
          PROVE  p \in g[a]
      <4>1. p \in Int
        BY <1>12, <2>4
      <4>2. PICK j \in w.purged : S.range[j].asma = a /\ p \in PagesOf(S.range[j])
        BY <1>10, <3>2
      <4> QED BY <2>1, <2>2, <4>1, <4>2
    <3> QED BY <3>1, <3>2
  <2> QED BY <1>1, <1>2, <2>3, <2>5
<1> QED BY <1>1, <1>5, <1>8, <1>9, <1>12, <1>13


LEMMA InitInv ==
  ASSUME AshmemInit
  PROVE  /\ AshmemInv /\ Recorded(ash, given, discarded) /\ Contract!PagesInit
<1>1. PICK S : S = ash
  OBVIOUS
<1>2. S = [range |-> [i \in Ranges |-> NoRange],
           unpinned |-> [a \in Areas |-> << >>], lru |-> << >>, lru_count |-> 0]
  BY <1>1 DEF AshmemInit
<1>3. /\ S.range = [i \in Ranges |-> NoRange]
      /\ S.unpinned = [a \in Areas |-> << >>]
      /\ S.lru = << >> /\ S.lru_count = 0
  BY <1>2
<1>4. /\ << >> \in Seq(Ranges) /\ Range(<< >>) = {} /\ IsInjective(<< >>)
      /\ Len(<< >>) = 0
  BY DEF Range, IsInjective
<1>5. S \in Stores
  BY <1>2, <1>4, NoRangeFacts, WidthFacts DEF Stores
<1>6. \A j \in Ranges : S.range[j] = NoRange /\ S.range[j].asma \notin Areas
  BY <1>3, NoRangeFacts
<1>7. AllGood(S.range)
  BY <1>6, NoRangeFacts DEF AllGood
<1>8. ASSUME NEW a \in Areas PROVE ListOf(S.unpinned[a], S.range, a)
  <2>1. S.unpinned[a] = << >>
    BY <1>3
  <2>2. {j \in Ranges : S.range[j].asma = a} = {}
    BY <1>6
  <2>3. Descends(<< >>, S.range)
    BY <1>4 DEF Descends
  <2> QED BY <1>4, <2>1, <2>2, <2>3 DEF ListOf
<1>9. LruOf(S.lru, S.range)
  <2>1. {j \in Ranges : OnLru(S.range[j])} = {}
    BY <1>6 DEF OnLru
  <2> QED BY <1>3, <1>4, <2>1 DEF LruOf
<1>10. S.lru_count = Unsigned(Cardinality(LruPages(S.range)))
  <2>1. LruPages(S.range) = {}
    BY <1>6 DEF LruPages, OnLru
  <2>2. Unsigned(0) = 0
    BY WidthFacts, UnsignedSmall
  <2> QED BY <1>3, <2>1, <2>2, FS_EmptySet
<1>11. StoreInv(S)
  BY <1>5, <1>7, <1>8, <1>9, <1>10 DEF StoreInv
<1>12. \A a \in Areas, p \in Int : ~ Covered(S, a, p)
  BY <1>6 DEF Covered
<1>13. Owned(S, opened) /\ Inside(S, held)
  BY <1>6, <1>12 DEF Owned, Inside
<1>14. Settings
  <2>1. call.cmd # "size"
    BY DEF AshmemInit, NoCall
  <2>2. answer \in BOOLEAN
    BY Zenon DEF AshmemInit
  <2>3. /\ size \in [Areas -> Int] /\ file \in [Areas -> Int]
        /\ \A a \in Areas : {size[a], file[a]} \subseteq Sizes[a] \cup {0}
    BY DEF AshmemInit
  <2>4. /\ opened \subseteq Areas /\ given \in [Areas -> SUBSET Pages]
        /\ discarded \in [Areas -> SUBSET Pages]
    BY DEF AshmemInit
  <2>5. Held(held)
    BY DEF AshmemInit, Held
  <2> QED BY <2>1, <2>2, <2>3, <2>4, <2>5, Zenon DEF Settings
<1>15. Recorded(S, given, discarded)
  BY <1>12 DEF AshmemInit, Recorded
<1>16. Contract!PagesInit
  BY DEF AshmemInit, Contract!PagesInit
<1> QED BY <1>1, <1>11, <1>13, <1>14, <1>15, <1>16 DEF AshmemInv

(* A step that leaves the ranges and the pages alone.                      *)
LEMMA OtherInv ==
  ASSUME AshmemInv, ash' = ash, given' = given, discarded' = discarded,
         answer' = FALSE, opened \subseteq opened', opened' \subseteq Areas,
         size' \in [Areas -> Int], file' \in [Areas -> Int],
         \A a \in Areas : {size'[a], file'[a]} \subseteq Sizes[a] \cup {0},
         Held(held'), \A a \in Areas : held[a] \subseteq held'[a],
         call'.cmd = "size" =>
           call'.asma \in Areas /\ call'.arg \in Sizes[call'.asma]
  PROVE  /\ AshmemInv'
         /\ Recorded(ash, given, discarded) =>
              Recorded(ash', given', discarded') /\ Contract!PagesNext
<1>1. PICK S : S = ash
  OBVIOUS
<1>2. StoreInv(S) /\ Owned(S, opened) /\ Inside(S, held) /\ Settings
  BY <1>1 DEF AshmemInv
<1>3. Owned(S, opened') /\ Inside(S, held')
  BY <1>2 DEF Owned, Inside, InArea
<1>4. Settings'
  BY <1>2 DEF Settings
<1>5. StoreInv(ash') /\ Owned(ash', opened') /\ Inside(ash', held')
  BY <1>1, <1>2, <1>3
<1>6. StoreInv(ash)' /\ Owned(ash, opened)' /\ Inside(ash, held)'
  BY <1>5 DEF Owned, Inside, StoreInv
<1>7. Contract!Other
  BY DEF Contract!Other
<1> QED BY <1>4, <1>6, <1>7 DEF AshmemInv, Contract!PagesNext

LEMMA ShrinkStep ==
  ASSUME AshmemInv, NEW nr, ashmem_shrink(nr),
         UNCHANGED <<size, file, held, opened, given>>, answer' = FALSE,
         call' = call \/ call' = NoCall
  PROVE  /\ AshmemInv'
         /\ Recorded(ash, given, discarded) =>
              Recorded(ash', given', discarded') /\ Contract!PagesNext
<1>1. /\ StoreInv(ash) /\ Owned(ash, opened) /\ Inside(ash, held) /\ Settings
      /\ given \in [Areas -> SUBSET Pages] /\ discarded \in [Areas -> SUBSET Pages]
  BY DEF AshmemInv, Settings
<1>2. /\ StoreInv(ash') /\ Owned(ash', opened) /\ Inside(ash', held)
      /\ discarded' \in [Areas -> SUBSET Pages]
      /\ Recorded(ash, given, discarded) =>
           /\ Recorded(ash', given, discarded')
           /\ \A a \in Areas :
                /\ discarded[a] \subseteq discarded'[a]
                /\ discarded'[a] \subseteq discarded[a] \cup given[a]
  BY <1>1, ShrinkInv
<1>3. call'.cmd = "size" => call'.asma \in Areas /\ call'.arg \in Sizes[call'.asma]
  BY <1>1 DEF Settings, NoCall
<1>4. Settings'
  BY <1>1, <1>2, <1>3 DEF Settings
<1>5. StoreInv(ash)' /\ Owned(ash, opened)' /\ Inside(ash, held)'
  BY <1>2 DEF Owned, Inside, StoreInv
<1>6. ASSUME Recorded(ash, given, discarded)
      PROVE  Recorded(ash', given', discarded') /\ Contract!PagesNext
  <2>1. Contract!Discard
    BY <1>2, <1>6 DEF Contract!Discard
  <2> QED BY <1>2, <1>6, <2>1 DEF Contract!PagesNext
<1> QED BY <1>4, <1>5, <1>6 DEF AshmemInv

(* Every step keeps the invariant; and, unless an allocation may fail,     *)
(* the record of the pages, and is a step of AshmemPages.                  *)
LEMMA NextInv ==
  ASSUME AshmemInv, AshmemNext
  PROVE  /\ AshmemInv'
         /\ ~ NoMemory /\ Recorded(ash, given, discarded) =>
              Recorded(ash', given', discarded') /\ Contract!PagesNext
<1>0. Settings
  BY DEF AshmemInv
<1>1. ASSUME NEW a \in Areas, ashmem_open(a) \/ ashmem_mmap(a) \/ SetSize(a)
                              \/ BeginPurgeAll(a)
                              \/ \E n \in Sizes[a] : BeginSetSize(a, n)
      PROVE  /\ AshmemInv'
             /\ Recorded(ash, given, discarded) =>
                  Recorded(ash', given', discarded') /\ Contract!PagesNext
  <2>1. /\ ash' = ash /\ given' = given /\ discarded' = discarded
        /\ answer' = FALSE
    BY <1>1 DEF ashmem_open, ashmem_mmap, SetSize, BeginPurgeAll, BeginSetSize
  <2>2. opened \subseteq opened' /\ opened' \subseteq Areas
    BY <1>0, <1>1 DEF Settings, ashmem_open, ashmem_mmap, SetSize, BeginPurgeAll,
                      BeginSetSize
  <2>3. /\ size \in [Areas -> Int] /\ file \in [Areas -> Int]
        /\ \A b \in Areas : {size[b], file[b]} \subseteq Sizes[b] \cup {0}
        /\ call.cmd = "size" => call.asma \in Areas /\ call.arg \in Sizes[call.asma]
        /\ Held(held)
    BY <1>0 DEF Settings
  <2>4. \A b \in Areas : \A n \in Sizes[b] : n \in Int
    BY SizesFacts
  <2>5. CASE ashmem_open(a)
    <3>1. UNCHANGED <<size, file, held, call>>
      BY <2>5 DEF ashmem_open
    <3> QED BY <2>1, <2>2, <2>3, <3>1, OtherInv
  <2>6. CASE ashmem_mmap(a)
    <3>1. /\ UNCHANGED <<size, call>> /\ file' = [file EXCEPT ![a] = size[a]]
          /\ held' = [held EXCEPT ![a] = held[a] \cup {size[a]}] /\ size[a] # 0
      BY <2>6 DEF ashmem_mmap
    <3>3. Held(held') /\ \A b \in Areas : held[b] \subseteq held'[b]
      <4>1. size[a] \in Sizes[a] /\ size[a] \in Int
        BY <2>3, <3>1
      <4> QED BY <2>3, <3>1, <4>1 DEF Held
    <3>2. /\ file' \in [Areas -> Int]
          /\ \A b \in Areas : {size'[b], file'[b]} \subseteq Sizes[b] \cup {0}
      BY <2>3, <3>1
    <3> QED BY <2>1, <2>2, <2>3, <3>1, <3>2, <3>3, OtherInv
  <2>7. CASE SetSize(a)
    <3>1. /\ call.asma = a /\ call.arg \in Sizes[a] /\ call'.cmd # "size"
          /\ size' = [size EXCEPT ![a] = call.arg] /\ file' = file
          /\ held' = [held EXCEPT ![a] = IF file[a] = 0 THEN held[a]
                                         ELSE held[a] \cup {call.arg}]
      BY <2>3, <2>7 DEF SetSize, NoCall
    <3>3. Held(held') /\ \A b \in Areas : held[b] \subseteq held'[b]
      <4>1. call.arg \in Int
        BY <2>4, <3>1
      <4> QED BY <2>3, <3>1, <4>1 DEF Held
    <3>2. /\ size' \in [Areas -> Int] /\ file' \in [Areas -> Int]
          /\ \A b \in Areas : {size'[b], file'[b]} \subseteq Sizes[b] \cup {0}
      BY <2>3, <2>4, <3>1
    <3> QED BY <2>1, <2>2, <3>1, <3>2, <3>3, OtherInv
  <2>8. CASE BeginPurgeAll(a)
    <3>1. UNCHANGED <<size, file, held>> /\ call'.cmd # "size"
      BY <2>8 DEF BeginPurgeAll
    <3> QED BY <2>1, <2>2, <2>3, <3>1, OtherInv
  <2>9. CASE \E n \in Sizes[a] : BeginSetSize(a, n)
    <3>1. UNCHANGED <<size, file, held>> /\ call'.asma = a /\ call'.arg \in Sizes[a]
      BY <2>9 DEF BeginSetSize
    <3> QED BY <2>1, <2>2, <2>3, <3>1, OtherInv
  <2> QED BY <1>1, <2>5, <2>6, <2>7, <2>8, <2>9
<1>2. ASSUME NEW a \in Areas, PurgeAll(a)
      PROVE  /\ AshmemInv'
             /\ Recorded(ash, given, discarded) =>
                  Recorded(ash', given', discarded') /\ Contract!PagesNext
  <2>1. /\ ashmem_shrink(call.arg) /\ call' = NoCall
        /\ UNCHANGED <<size, file, held, opened, given>> /\ answer' = FALSE
    BY <1>2 DEF PurgeAll
  <2>2. PICK nr : nr = call.arg
    OBVIOUS
  <2>3. ashmem_shrink(nr)
    BY <2>1, <2>2
  <2> QED BY <2>1, <2>3, ShrinkStep
<1>3. ASSUME NEW nr \in {1, 2}, Shrink(nr)
      PROVE  /\ AshmemInv'
             /\ Recorded(ash, given, discarded) =>
                  Recorded(ash', given', discarded') /\ Contract!PagesNext
  <2>1. /\ ashmem_shrink(nr) /\ call' = call
        /\ UNCHANGED <<size, file, held, opened, given>> /\ answer' = FALSE
    BY <1>3 DEF Shrink
  <2> QED BY <2>1, ShrinkStep
<1>4. ASSUME NEW a \in Areas, NEW offset \in 0 .. AddrPages - 1,
             NEW length \in 0 .. AddrPages - 1, NEW n \in held[a],
             NEW m \in held[a], NEW fails \in {FALSE, NoMemory},
             \/ ASHMEM_PIN(a, offset, length, n, m, fails)
             \/ ASHMEM_UNPIN(a, offset, length, n, m, fails)
      PROVE  /\ AshmemInv'
             /\ ~ NoMemory /\ Recorded(ash, given, discarded) =>
                  Recorded(ash', given', discarded') /\ Contract!PagesNext
  <2>1. fails \in BOOLEAN /\ (~ NoMemory => ~ fails)
    <3>1. NoMemory \in BOOLEAN
      BY AshmemAssumption
    <3>2. CASE fails = FALSE
      BY <3>2, Zenon
    <3>3. CASE fails = NoMemory
      BY <3>1, <3>3, Zenon
    <3> QED BY <3>2, <3>3, Zenon
  <2>2. CASE ASHMEM_PIN(a, offset, length, n, m, fails)
    BY <2>1, <2>2, PinInv
  <2>3. CASE ASHMEM_UNPIN(a, offset, length, n, m, fails)
    BY <2>1, <2>3, UnpinInv
  <2> QED BY <1>4, <2>2, <2>3
<1> QED BY <1>1, <1>2, <1>3, <1>4, ReleaseInv DEF AshmemNext

LEMMA StutterInv ==
  ASSUME AshmemInv, UNCHANGED ashmemVars
  PROVE  /\ AshmemInv'
         /\ Recorded(ash, given, discarded) => Recorded(ash', given', discarded')
         /\ UNCHANGED Contract!pagesVars
<1>1. /\ ash' = ash /\ given' = given /\ discarded' = discarded
      /\ answer' = answer /\ opened' = opened /\ size' = size /\ file' = file
      /\ held' = held /\ call' = call
  BY DEF ashmemVars
<1>2. Settings'
  BY <1>1 DEF AshmemInv, Settings
<1>3. StoreInv(ash') /\ Owned(ash', opened') /\ Inside(ash', held')
  BY <1>1 DEF AshmemInv
<1>4. StoreInv(ash)' /\ Owned(ash, opened)' /\ Inside(ash, held)'
  BY <1>3 DEF Owned, Inside, StoreInv
<1>5. UNCHANGED Contract!pagesVars
  BY <1>1 DEF Contract!pagesVars
<1> QED BY <1>1, <1>2, <1>4, <1>5 DEF AshmemInv

-----------------------------------------------------------------------------
(* The properties of a state that the invariant implies.                   *)

LEMMA AllocatedIs ==
  ASSUME NEW S, StoreInv(S), NEW i \in Ranges
  PROVE  i \in Allocated(S) <=> S.range[i].asma \in Areas
<1>1. Good(S.range[i])
  BY StoreFacts DEF AllGood
<1> QED BY <1>1, NoRangeFacts DEF Allocated, Good

LEMMA InvTypeOK ==
  ASSUME AshmemInv
  PROVE  AshmemTypeOK
<1>1. PICK S : S = ash /\ StoreInv(S) /\ Owned(S, opened) /\ Inside(S, held) /\ Settings
  BY DEF AshmemInv
<1>2. ASSUME NEW i \in Allocated(S)
      PROVE  /\ S.range[i].asma \in opened
             /\ \A p \in PagesOf(S.range[i]) : InArea(held, S.range[i].asma, p)
  <2>1. i \in Ranges
    BY DEF Allocated
  <2>2. PICK a \in Areas : a = S.range[i].asma
    BY <1>1, <2>1, AllocatedIs
  <2>3. a \in opened
    BY <1>1, <2>1, <2>2 DEF Owned
  <2>4. S.range \in [Ranges -> RangeRecs]
    BY <1>1, StoreFacts
  <2>5. S.range[i].pgstart \in Int /\ S.range[i].pgend \in Int
    BY <2>1, <2>4 DEF RangeRecs
  <2>6. ASSUME NEW p \in PagesOf(S.range[i])
        PROVE  InArea(held, a, p)
    <3>1. p \in Int
      BY <2>5 DEF PagesOf
    <3>2. Covered(S, a, p)
      BY <2>1, <2>2 DEF Covered
    <3> QED BY <1>1, <3>1, <3>2 DEF Inside
  <2> QED BY <2>2, <2>3, <2>6
<1>3. S.lru_count \in 0 .. SIZE_MAX
  BY <1>1, StoreFacts
<1>4. /\ \A i \in Allocated(ash) :
           /\ ash.range[i].asma \in opened
           /\ \A p \in PagesOf(ash.range[i]) :
                /\ p \in Pages
                /\ \E n \in held[ash.range[i].asma] :
                     p < PAGE_ALIGN(n) \/ PAGE_ALIGN(n) = 0
      /\ ash.lru_count \in 0 .. SIZE_MAX
  BY <1>1, <1>2, <1>3 DEF InArea
<1>5. \A a \in Areas : held[a] \subseteq Sizes[a]
  BY <1>1 DEF Settings, Held
<1> QED BY <1>1, <1>4, <1>5 DEF AshmemTypeOK, Settings

LEMMA InvLists ==
  ASSUME AshmemInv
  PROVE  ListsExact
<1>1. PICK S : S = ash /\ StoreInv(S)
  BY DEF AshmemInv
<1>2. ASSUME NEW a \in Areas
      PROVE  /\ IsInjective(S.unpinned[a])
             /\ Range(S.unpinned[a]) =
                  {i \in Allocated(S) : S.range[i].asma = a}
             /\ \A m, n \in DOMAIN S.unpinned[a] :
                  m < n => S.range[S.unpinned[a][m]].pgstart >
                             S.range[S.unpinned[a][n]].pgend
  <2>1. PICK list : list = S.unpinned[a]
    OBVIOUS
  <2>2. ListOf(list, S.range, a)
    BY <1>1, <2>1, StoreFacts
  <2>3. InOrder(list, S, a)
    BY <1>1, <2>1, ListInOrder
  <2>4. {i \in Ranges : S.range[i].asma = a} =
          {i \in Allocated(S) : S.range[i].asma = a}
    <3>1. \A i \in Ranges : S.range[i].asma = a => i \in Allocated(S)
      BY <1>1, AllocatedIs
    <3> QED BY <3>1 DEF Allocated
  <2>5. \A m, n \in DOMAIN list :
          m < n => S.range[list[m]].pgstart > S.range[list[n]].pgend
    BY <2>3 DEF InOrder
  <2> QED BY <2>1, <2>2, <2>4, <2>5 DEF ListOf
<1>3. LruOf(S.lru, S.range)
  BY <1>1, StoreFacts
<1>4. \A i \in Ranges : OnLru(S.range[i]) <=>
                          i \in Allocated(S) /\ range_on_lru(S.range[i])
  BY <1>1, AllocatedIs DEF OnLru, range_on_lru
<1>5. /\ IsInjective(S.lru)
      /\ Range(S.lru) = {i \in Allocated(S) : range_on_lru(S.range[i])}
  BY <1>3, <1>4 DEF LruOf, Allocated
<1>6. LruPages(S.range) = {x \in Ranges \X Pages :
                             /\ x[1] \in Range(S.lru)
                             /\ x[2] \in PagesOf(S.range[x[1]])}
  <2>1. \A x \in Ranges \X Pages : OnLru(S.range[x[1]]) <=> x[1] \in Range(S.lru)
    BY <1>3 DEF LruOf
  <2> QED BY <2>1 DEF LruPages
<1>7. S.lru_count = Unsigned(Cardinality(LruPages(S.range)))
  BY <1>1, StoreFacts
<1>8. S.lru_count = Unsigned(Cardinality({x \in Ranges \X Pages :
                                            /\ x[1] \in Range(S.lru)
                                            /\ x[2] \in PagesOf(S.range[x[1]])}))
  BY <1>6, <1>7
<1> QED BY <1>1, <1>2, <1>5, <1>8 DEF ListsExact

LEMMA InvOnRecord ==
  ASSUME AshmemInv, Recorded(ash, given, discarded)
  PROVE  OnRecord
<1>1. PICK S : S = ash /\ StoreInv(S) /\ Settings
  BY DEF AshmemInv
<1>2. PICK g \in [Areas -> SUBSET Pages], d \in [Areas -> SUBSET Pages] :
        g = given /\ d = discarded
  BY <1>1 DEF Settings
<1>3. \A b \in Areas, p \in Int : /\ p \in g[b] <=> Covered(S, b, p)
                                  /\ p \in d[b] => PurgedAt(S, b, p)
  BY <1>1, <1>2 DEF Recorded
<1>4. \A p \in Pages : p \in Int
  BY AshmemAssumption DEF Pages
<1>5. S.range \in [Ranges -> RangeRecs]
  BY <1>1, StoreFacts
<1>6. \A i \in Ranges : \A p \in PagesOf(S.range[i]) : p \in Int
  BY <1>5 DEF PagesOf, RangeRecs
<1>7. ASSUME NEW a \in Areas
      PROVE  /\ g[a] = UNION {PagesOf(S.range[i]) : i \in Range(S.unpinned[a])}
             /\ \A p \in d[a] :
                  \E i \in Range(S.unpinned[a]) :
                    S.range[i].purged /\ p \in PagesOf(S.range[i])
  <2>1. PICK L : L = Range(S.unpinned[a])
    OBVIOUS
  <2>2. L = {i \in Ranges : S.range[i].asma = a}
    BY <1>1, <2>1, StoreFacts DEF ListOf
  <2>3. \A p \in Int : Covered(S, a, p) <=>
                         \E i \in L : p \in PagesOf(S.range[i])
    BY <2>2 DEF Covered
  <2>4. ASSUME NEW p \in g[a] PROVE \E i \in L : p \in PagesOf(S.range[i])
    BY <1>3, <1>4, <2>3
  <2>5. ASSUME NEW i \in L, NEW p \in PagesOf(S.range[i]) PROVE p \in g[a]
    <3>1. p \in Int
      BY <1>6, <2>2
    <3> QED BY <1>3, <2>3, <3>1
  <2>6. g[a] = UNION {PagesOf(S.range[i]) : i \in L}
    BY <2>4, <2>5
  <2>7. ASSUME NEW p \in d[a]
        PROVE  \E i \in L : S.range[i].purged /\ p \in PagesOf(S.range[i])
    <3>1. PurgedAt(S, a, p)
      BY <1>3, <1>4
    <3> QED BY <2>2, <3>1 DEF PurgedAt
  <2> QED BY <2>1, <2>6, <2>7
<1> QED BY <1>1, <1>2, <1>7 DEF OnRecord

-----------------------------------------------------------------------------
(* The theorems.                                                           *)

LEMMA AlwaysInv == AshmemSpec => []AshmemInv
<1>1. AshmemInit => AshmemInv
  BY InitInv
<1>2. AshmemInv /\ [AshmemNext]_ashmemVars => AshmemInv'
  BY NextInv, StutterInv
<1> QED BY <1>1, <1>2, PTL DEF AshmemSpec

(* Every range belongs to an open area and ends inside the largest size    *)
(* the area may have, or at SIZE_MAX if it may have one that PAGE_ALIGN    *)
(* makes 0, whatever ioctls overlap, sizes change under a pin or an unpin  *)
(* and allocations fail.                                                   *)
THEOREM AshmemTypeCorrect == AshmemSpec => []AshmemTypeOK
<1>1. AshmemInv => AshmemTypeOK
  BY InvTypeOK
<1> QED BY <1>1, AlwaysInv, PTL

(* The unpinned lists and the LRU list are exact, in order and without     *)
(* overlap, and lru_count counts the pages that can be freed, modulo 2^32  *)
(* as an unsigned long does, after any                                     *)
(* sequence of ashmem_pin, ashmem_unpin, ashmem_shrink and ashmem_release, *)
(* failed allocations included.                                            *)
THEOREM ListsStayExact == AshmemSpec => []ListsExact
<1>1. AshmemInv => ListsExact
  BY InvLists
<1> QED BY <1>1, AlwaysInv, PTL

LEMMA AlwaysRecorded ==
  ASSUME ~ NoMemory
  PROVE  AshmemSpec => [](AshmemInv /\ Recorded(ash, given, discarded))
<1>1. AshmemInit => AshmemInv /\ Recorded(ash, given, discarded)
  BY InitInv
<1>2. AshmemInv /\ Recorded(ash, given, discarded) /\ [AshmemNext]_ashmemVars =>
        (AshmemInv /\ Recorded(ash, given, discarded))'
  <2> SUFFICES ASSUME AshmemInv, Recorded(ash, given, discarded),
                      [AshmemNext]_ashmemVars
               PROVE  AshmemInv' /\ Recorded(ash, given, discarded)'
    OBVIOUS
  <2>1. AshmemInv' /\ Recorded(ash', given', discarded')
    BY NextInv, StutterInv
  <2> QED BY <2>1 DEF Recorded
<1> QED BY <1>1, <1>2, PTL DEF AshmemSpec

(* As long as range_alloc finds memory, the ranges hold exactly the pages  *)
(* that users unpinned and did not pin since, and every page that was      *)
(* discarded is in a range marked purged until it is pinned.               *)
THEOREM PagesOnRecord ==
  ASSUME ~ NoMemory
  PROVE  AshmemSpec => []OnRecord
<1>1. AshmemInv /\ Recorded(ash, given, discarded) => OnRecord
  BY InvOnRecord
<1> QED BY <1>1, AlwaysRecorded, PTL

(* As long as range_alloc finds memory, ashmem implements AshmemPages:     *)
(* only pages that were unpinned are discarded, and ashmem_pin returns     *)
(* ASHMEM_WAS_PURGED when one of its pages was.                            *)
THEOREM AshmemImplementsPages ==
  ASSUME ~ NoMemory
  PROVE  AshmemSpec => KeepsPages
<1>1. AshmemInit => Contract!PagesInit
  BY InitInv
<1>2. AshmemInv /\ Recorded(ash, given, discarded) /\ [AshmemNext]_ashmemVars =>
        [Contract!PagesNext]_(Contract!pagesVars)
  BY NextInv, StutterInv
<1> QED BY <1>1, <1>2, AlwaysRecorded, PTL
       DEF AshmemSpec, KeepsPages, Contract!PagesSpec
=============================================================================
