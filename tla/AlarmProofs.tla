----------------------------- MODULE AlarmProofs -----------------------------
(***************************************************************************)
(* Proofs about the alarm driver, for every set of alarms and all times,   *)
(* and about the alarm device, for any number of threads, files and alarm  *)
(* types: it keeps its wake lock for alarms nobody has seen and for the    *)
(* thread that handles one, and leaves nothing behind when it is closed.   *)
(***************************************************************************)
EXTENDS Alarm, AlarmDev, SequenceTheorems, TLAPS

-----------------------------------------------------------------------------
(* The inductive invariant.                                                *)

AlarmTypes ==
  /\ real \in Nat /\ wall \in Int /\ delta \in Int /\ since \in Int
  /\ queue \in [Queues -> Seq(Alarms)]
  /\ expires \in [Alarms -> Int]
  /\ timer \in [Queues -> [on : BOOLEAN, expires : Int]]
  /\ stopped \in BOOLEAN /\ suspended \in BOOLEAN
  /\ setting \in [at : {"none", "settime", "restart", "unlock"}, time : Int]
  /\ device \in {"on", "entering", "suspending", "asleep", "resuming"}
  /\ rtc_alarm \in [enabled : BOOLEAN, time : Int]

(* The time is not set while the device is not on, and the queues are      *)
(* stopped exactly while it is.                                            *)
Phases ==
  /\ suspended <=> device # "on"
  /\ device # "on" => setting.at = "none"
  /\ stopped <=> setting.at \in {"settime", "restart"}

(* No alarm twice, and in the order of expiry.                             *)
Ordered(s, e) ==
  \A i, j \in 1 .. Len(s) : i < j => s[i] # s[j] /\ e[s[i]] <= e[s[j]]

OfType(s, q) == \A a \in Range(s) : Type[a] = q

QueuesOrdered ==
  \A q \in Queues : Ordered(queue[q], expires) /\ OfType(queue[q], q)

(* A queue that is not stopped is armed; of the wakeup queues of a         *)
(* suspended driver only the time is left, until the RTC has been set.     *)
TimersSet ==
  /\ \A q \in WallQueues :
       ~ stopped /\ ~ (suspended /\ q \in WakeupQueues) =>
         \A a \in Range(queue[q]) : ArmedFor(q, a)
  /\ device = "entering" =>
       \A q \in WakeupQueues : \A a \in Range(queue[q]) :
         timer[q].expires <= Delta(q) + expires[a]

(* The RTC alarm is at least two seconds after the suspend; one that has   *)
(* gone off holds the lock for the third.                                  *)
RtcSet ==
  /\ device \in {"on", "entering"} => ~ rtc_alarm.enabled
  /\ rtc_alarm.enabled => rtc_alarm.time - wall + (real - since) >= 2
  /\ device = "suspending" =>
       Covered \/ (real - since >= 2 /\ (LockHeld \/ real - since >= 3))
  /\ device = "asleep" => Covered \/ slept - since >= 3

AlarmInv == AlarmTypes /\ Phases /\ QueuesOrdered /\ TimersSet /\ RtcSet

(* While the time is being set, the offset is already that of the new time. *)
ElapsedInv ==
  /\ lost \in Nat
  /\ IF setting.at = "settime" THEN setting.time - delta = real - lost
                               ELSE wall - delta = real - lost
-----------------------------------------------------------------------------
(* Queues in order.                                                        *)

LEMMA SubSeqFacts ==
  ASSUME NEW S, NEW s \in Seq(S), NEW m \in Int, NEW n \in Int,
         1 <= m, m <= n + 1, n <= Len(s)
  PROVE  /\ SubSeq(s, m, n) \in Seq(S)
         /\ Len(SubSeq(s, m, n)) = n - m + 1
         /\ \A i \in 1 .. n - m + 1 : SubSeq(s, m, n)[i] = s[m + i - 1]
<1>1. \A i \in m .. n : s[i] \in S
  <2> TAKE i \in m .. n
  <2>1. Len(s) \in Nat
    BY LenProperties
  <2>2. i \in 1 .. Len(s)
    BY <2>1
  <2> QED BY <2>2, ElementOfSeq
<1>2. /\ SubSeq(s, m, n) \in Seq(S)
      /\ Len(SubSeq(s, m, n)) = IF m <= n THEN n - m + 1 ELSE 0
      /\ \A i \in 1 .. n - m + 1 : SubSeq(s, m, n)[i] = s[m + i - 1]
  BY <1>1, SubSeqProperties
<1> QED BY <1>2

LEMMA RemoveAtFacts ==
  ASSUME NEW S, NEW s \in Seq(S), NEW k \in 1 .. Len(s)
  PROVE  /\ RemoveAt(s, k) \in Seq(S)
         /\ Len(RemoveAt(s, k)) = Len(s) - 1
         /\ \A i \in 1 .. Len(s) - 1 :
              RemoveAt(s, k)[i] = IF i < k THEN s[i] ELSE s[i + 1]
<1> DEFINE front == SubSeq(s, 1, k - 1)
           back == SubSeq(s, k + 1, Len(s))
<1>1. Len(s) \in Nat /\ k \in Int /\ 1 <= k /\ k <= Len(s)
  BY LenProperties
<1>2. /\ front \in Seq(S) /\ Len(front) = k - 1
      /\ \A i \in 1 .. k - 1 : front[i] = s[i]
  <2>1. /\ front \in Seq(S) /\ Len(front) = (k - 1) - 1 + 1
        /\ \A i \in 1 .. (k - 1) - 1 + 1 : front[i] = s[1 + i - 1]
    BY <1>1, SubSeqFacts
  <2> HIDE DEF front
  <2>2. ASSUME NEW i \in 1 .. k - 1 PROVE front[i] = s[i]
    <3>1. 1 + i - 1 = i /\ i \in 1 .. (k - 1) - 1 + 1
      BY <1>1
    <3> QED BY <2>1, <3>1
  <2> QED BY <1>1, <2>1, <2>2
<1>3. /\ back \in Seq(S) /\ Len(back) = Len(s) - k
      /\ \A i \in 1 .. Len(s) - k : back[i] = s[k + i]
  <2>1. /\ back \in Seq(S) /\ Len(back) = Len(s) - (k + 1) + 1
        /\ \A i \in 1 .. Len(s) - (k + 1) + 1 : back[i] = s[(k + 1) + i - 1]
    BY <1>1, SubSeqFacts
  <2> HIDE DEF back
  <2>2. ASSUME NEW i \in 1 .. Len(s) - k PROVE back[i] = s[k + i]
    <3>1. (k + 1) + i - 1 = k + i /\ i \in 1 .. Len(s) - (k + 1) + 1
      BY <1>1
    <3> QED BY <2>1, <3>1
  <2> QED BY <1>1, <2>1, <2>2
<1>4. RemoveAt(s, k) = front \o back
  BY DEF RemoveAt
<1> HIDE DEF front, back
<1>5. /\ front \o back \in Seq(S)
      /\ Len(front \o back) = Len(front) + Len(back)
      /\ \A i \in 1 .. Len(front) + Len(back) : (front \o back)[i] =
           IF i <= Len(front) THEN front[i] ELSE back[i - Len(front)]
  BY <1>2, <1>3, ConcatProperties
<1>6. ASSUME NEW i \in 1 .. Len(s) - 1
      PROVE  (front \o back)[i] = IF i < k THEN s[i] ELSE s[i + 1]
  <2>1. i \in 1 .. Len(front) + Len(back)
    BY <1>1, <1>2, <1>3
  <2>2. CASE i < k
    <3>1. i <= Len(front) /\ i \in 1 .. k - 1
      BY <2>2, <1>1, <1>2
    <3> QED BY <2>1, <2>2, <3>1, <1>2, <1>5
  <2>3. CASE ~ (i < k)
    <3>1. /\ ~ (i <= Len(front)) /\ i - Len(front) = i - k + 1
          /\ i - k + 1 \in 1 .. Len(s) - k /\ k + (i - k + 1) = i + 1
      BY <2>3, <1>1, <1>2
    <3>2. back[i - k + 1] = s[i + 1]
      BY <3>1, <1>3
    <3> QED BY <2>1, <2>3, <3>1, <3>2, <1>5
  <2> QED BY <2>2, <2>3
<1> QED BY <1>1, <1>2, <1>3, <1>4, <1>5, <1>6

LEMMA InsertAtFacts ==
  ASSUME NEW S, NEW s \in Seq(S), NEW k \in 1 .. Len(s) + 1, NEW a \in S
  PROVE  /\ InsertAt(s, k, a) \in Seq(S)
         /\ Len(InsertAt(s, k, a)) = Len(s) + 1
         /\ \A i \in 1 .. Len(s) + 1 :
              InsertAt(s, k, a)[i] =
                IF i < k THEN s[i] ELSE IF i = k THEN a ELSE s[i - 1]
<1> DEFINE front == SubSeq(s, 1, k - 1)
           back == SubSeq(s, k, Len(s))
<1>1. Len(s) \in Nat /\ k \in Int /\ 1 <= k /\ k <= Len(s) + 1
  BY LenProperties
<1>2. /\ front \in Seq(S) /\ Len(front) = k - 1
      /\ \A i \in 1 .. k - 1 : front[i] = s[i]
  <2>1. /\ front \in Seq(S) /\ Len(front) = (k - 1) - 1 + 1
        /\ \A i \in 1 .. (k - 1) - 1 + 1 : front[i] = s[1 + i - 1]
    BY <1>1, SubSeqFacts
  <2> HIDE DEF front
  <2>2. ASSUME NEW i \in 1 .. k - 1 PROVE front[i] = s[i]
    <3>1. 1 + i - 1 = i /\ i \in 1 .. (k - 1) - 1 + 1
      BY <1>1
    <3> QED BY <2>1, <3>1
  <2> QED BY <1>1, <2>1, <2>2
<1>3. /\ back \in Seq(S) /\ Len(back) = Len(s) - k + 1
      /\ \A i \in 1 .. Len(s) - k + 1 : back[i] = s[k + i - 1]
  BY <1>1, SubSeqFacts
<1>4. InsertAt(s, k, a) = (front \o <<a>>) \o back
  BY DEF InsertAt
<1> HIDE DEF front, back
<1>5. front \o <<a>> = Append(front, a)
  BY <1>2, AppendIsConcat
<1>6. /\ Append(front, a) \in Seq(S) /\ Len(Append(front, a)) = k
      /\ \A i \in 1 .. k - 1 : Append(front, a)[i] = s[i]
      /\ Append(front, a)[k] = a
  <2>1. /\ Append(front, a) \in Seq(S)
        /\ Len(Append(front, a)) = Len(front) + 1
        /\ \A i \in 1 .. Len(front) : Append(front, a)[i] = front[i]
        /\ Append(front, a)[Len(front) + 1] = a
    BY <1>2, AppendProperties
  <2>2. Len(front) + 1 = k
    BY <1>1, <1>2
  <2> QED BY <1>2, <2>1, <2>2
<1> DEFINE fa == Append(front, a)
<1> HIDE DEF fa
<1>7. /\ fa \o back \in Seq(S)
      /\ Len(fa \o back) = Len(fa) + Len(back)
      /\ \A i \in 1 .. Len(fa) + Len(back) : (fa \o back)[i] =
           IF i <= Len(fa) THEN fa[i] ELSE back[i - Len(fa)]
  BY <1>6, <1>3, ConcatProperties DEF fa
<1>8. ASSUME NEW i \in 1 .. Len(s) + 1
      PROVE  (fa \o back)[i] =
               IF i < k THEN s[i] ELSE IF i = k THEN a ELSE s[i - 1]
  <2>1. Len(fa) = k /\ i \in 1 .. Len(fa) + Len(back)
    BY <1>1, <1>3, <1>6 DEF fa
  <2>2. CASE i < k
    <3>1. i <= Len(fa) /\ i \in 1 .. k - 1
      BY <2>1, <2>2, <1>1
    <3>2. fa[i] = s[i]
      BY <3>1, <1>6 DEF fa
    <3> QED BY <2>1, <2>2, <3>1, <3>2, <1>7
  <2>3. CASE i = k
    <3>1. i <= Len(fa) /\ ~ (i < k)
      BY <2>1, <2>3, <1>1
    <3>2. fa[i] = a
      BY <2>3, <1>6 DEF fa
    <3> QED BY <2>1, <2>3, <3>1, <3>2, <1>7
  <2>4. CASE k < i
    <3>1. /\ ~ (i <= Len(fa)) /\ i - Len(fa) = i - k /\ i # k /\ ~ (i < k)
          /\ i - k \in 1 .. Len(s) - k + 1 /\ k + (i - k) - 1 = i - 1
      BY <2>1, <2>4, <1>1
    <3>2. back[i - k] = s[i - 1]
      BY <3>1, <1>3
    <3> QED BY <2>1, <2>4, <3>1, <3>2, <1>7
  <2>5. i < k \/ i = k \/ k < i
    BY <1>1
  <2> QED BY <2>2, <2>3, <2>4, <2>5
<1>9. InsertAt(s, k, a) = fa \o back /\ Len(fa) + Len(back) = Len(s) + 1
  BY <1>1, <1>3, <1>4, <1>5, <1>6 DEF fa
<1> QED BY <1>7, <1>8, <1>9

(* rb_erase keeps the order, and the alarm is not in the tree any more.    *)
LEMMA WithoutOrdered ==
  ASSUME NEW s \in Seq(Alarms), NEW a, NEW e, Ordered(s, e)
  PROVE  /\ Without(s, a) \in Seq(Alarms)
         /\ Ordered(Without(s, a), e)
         /\ \A i \in 1 .. Len(Without(s, a)) :
              /\ Without(s, a)[i] # a
              /\ \E j \in 1 .. Len(s) : Without(s, a)[i] = s[j]
<1>0. Len(s) \in Nat /\ DOMAIN s = 1 .. Len(s)
  BY LenProperties
<1>1. CASE ~ \E i \in DOMAIN s : s[i] = a
  <2>1. Without(s, a) = s
    BY <1>1 DEF Without
  <2> QED BY <1>0, <1>1, <2>1
<1>2. CASE \E i \in DOMAIN s : s[i] = a
  <2> DEFINE k == CHOOSE i \in DOMAIN s : s[i] = a
             w == RemoveAt(s, k)
  <2>1. k \in 1 .. Len(s) /\ s[k] = a
    BY <1>0, <1>2
  <2>2. Without(s, a) = w
    BY <1>2 DEF Without
  <2> HIDE DEF k
  <2>3. /\ w \in Seq(Alarms) /\ Len(w) = Len(s) - 1
        /\ \A i \in 1 .. Len(s) - 1 : w[i] = IF i < k THEN s[i] ELSE s[i + 1]
    BY <2>1, RemoveAtFacts
  <2> HIDE DEF w
  <2>4. \A i, j \in 1 .. Len(s) : i < j => s[i] # s[j] /\ e[s[i]] <= e[s[j]]
    BY DEF Ordered
  <2>5. ASSUME NEW i \in 1 .. Len(w), NEW j \in 1 .. Len(w), i < j
        PROVE  w[i] # w[j] /\ e[w[i]] <= e[w[j]]
    <3> DEFINE ii == IF i < k THEN i ELSE i + 1
               jj == IF j < k THEN j ELSE j + 1
    <3>1. /\ ii \in 1 .. Len(s) /\ jj \in 1 .. Len(s) /\ ii < jj
          /\ i \in 1 .. Len(s) - 1 /\ j \in 1 .. Len(s) - 1
      BY <1>0, <2>1, <2>3, <2>5
    <3>2. w[i] = s[ii] /\ w[j] = s[jj]
      BY <2>3, <3>1
    <3> HIDE DEF ii, jj
    <3> QED BY <3>1, <3>2, <2>4
  <2>6. ASSUME NEW i \in 1 .. Len(w)
        PROVE  w[i] # a /\ \E j \in 1 .. Len(s) : w[i] = s[j]
    <3>1. CASE i < k
      <4>1. w[i] = s[i] /\ i \in 1 .. Len(s)
        BY <3>1, <1>0, <2>1, <2>3
      <4>2. s[i] # s[k]
        BY <3>1, <4>1, <2>1, <2>4
      <4> QED BY <4>1, <4>2, <2>1
    <3>2. CASE ~ (i < k)
      <4>1. w[i] = s[i + 1] /\ i + 1 \in 1 .. Len(s) /\ k < i + 1
        BY <3>2, <1>0, <2>1, <2>3
      <4>2. s[i + 1] # s[k]
        BY <4>1, <2>1, <2>4
      <4> QED BY <4>1, <4>2, <2>1
    <3> QED BY <3>1, <3>2
  <2> QED BY <2>2, <2>3, <2>5, <2>6 DEF Ordered
<1> QED BY <1>1, <1>2

(* The new alarm goes where the order wants it.                            *)
LEMMA InsertOrdered ==
  ASSUME NEW s \in Seq(Alarms), NEW e \in [Alarms -> Int], Ordered(s, e),
         NEW a \in Alarms, NEW t \in Int, NEW k \in 1 .. Len(s) + 1,
         \A i \in 1 .. Len(s) : s[i] # a,
         \A i \in 1 .. Len(s) : i < k <=> e[s[i]] <= t
  PROVE  /\ InsertAt(s, k, a) \in Seq(Alarms)
         /\ Ordered(InsertAt(s, k, a), [e EXCEPT ![a] = t])
<1> DEFINE w == InsertAt(s, k, a)
           f == [e EXCEPT ![a] = t]
<1>0. Len(s) \in Nat /\ \A i \in 1 .. Len(s) : s[i] \in Alarms
  BY LenProperties, ElementOfSeq
<1>1. /\ w \in Seq(Alarms) /\ Len(w) = Len(s) + 1
      /\ \A i \in 1 .. Len(s) + 1 :
           w[i] = IF i < k THEN s[i] ELSE IF i = k THEN a ELSE s[i - 1]
  BY InsertAtFacts
<1>2. f[a] = t /\ \A i \in 1 .. Len(s) : f[s[i]] = e[s[i]] /\ e[s[i]] \in Int
  BY <1>0
<1> HIDE DEF w, f
<1>3. ASSUME NEW i \in 1 .. Len(w), NEW j \in 1 .. Len(w), i < j
      PROVE  w[i] # w[j] /\ f[w[i]] <= f[w[j]]
  <2>0. \A m, n \in 1 .. Len(s) : m < n => s[m] # s[n] /\ e[s[m]] <= e[s[n]]
    BY DEF Ordered
  <2>1. CASE j < k
    <3>0. i < k /\ i \in 1 .. Len(s) /\ j \in 1 .. Len(s)
      BY <1>0, <1>1, <1>3, <2>1
    <3>1. w[i] = s[i] /\ w[j] = s[j] /\ i \in 1 .. Len(s) /\ j \in 1 .. Len(s)
      BY <1>0, <1>1, <2>1, <3>0
    <3> QED BY <3>1, <2>0, <1>2, <1>3
  <2>2. CASE j = k
    <3>1. w[i] = s[i] /\ w[j] = a /\ i \in 1 .. Len(s) /\ i < k
      BY <1>0, <1>1, <1>3, <2>2
    <3> QED BY <3>1, <1>2
  <2>3. CASE k < j /\ i = k
    <3>1. w[i] = a /\ w[j] = s[j - 1] /\ j - 1 \in 1 .. Len(s) /\ ~ (j - 1 < k)
      BY <1>0, <1>1, <1>3, <2>3
    <3>2. t <= e[s[j - 1]]
      BY <3>1, <1>2, SMTT(30)
    <3> QED BY <3>1, <3>2, <1>2
  <2>4. CASE k < j /\ i < k
    <3>0. /\ i < j - 1 /\ ~ (j < k) /\ j # k
          /\ i \in 1 .. Len(s) /\ j - 1 \in 1 .. Len(s)
      BY <1>0, <1>1, <1>3, <2>4
    <3>1. /\ w[i] = s[i] /\ w[j] = s[j - 1] /\ i < j - 1
          /\ i \in 1 .. Len(s) /\ j - 1 \in 1 .. Len(s)
      BY <1>0, <1>1, <2>4, <3>0
    <3> QED BY <3>1, <2>0, <1>2
  <2>5. CASE k < j /\ k < i
    <3>1. /\ w[i] = s[i - 1] /\ w[j] = s[j - 1] /\ i - 1 < j - 1
          /\ i - 1 \in 1 .. Len(s) /\ j - 1 \in 1 .. Len(s)
      BY <1>0, <1>1, <1>3, <2>5, SMTT(30)
    <3> QED BY <3>1, <2>0, <1>2, ZenonT(60)
  <2> QED BY <1>0, <1>1, <2>1, <2>2, <2>3, <2>4, <2>5
<1>4. Ordered(w, f)
  BY <1>3 DEF Ordered
<1> QED BY <1>1, <1>4 DEF w, f

(* The alarms that are left when the first n are due.                      *)
LEMMA SuffixOrdered ==
  ASSUME NEW s \in Seq(Alarms), NEW e, Ordered(s, e), NEW n \in 0 .. Len(s)
  PROVE  LET w == SubSeq(s, n + 1, Len(s)) IN
         /\ w \in Seq(Alarms)
         /\ Ordered(w, e)
         /\ \A i \in 1 .. Len(w) : \E j \in 1 .. Len(s) : w[i] = s[j]
<1> DEFINE w == SubSeq(s, n + 1, Len(s))
<1>0. Len(s) \in Nat /\ n \in Int /\ 0 <= n /\ n <= Len(s)
  BY LenProperties
<1>1. /\ w \in Seq(Alarms) /\ Len(w) = Len(s) - (n + 1) + 1
      /\ \A i \in 1 .. Len(s) - (n + 1) + 1 : w[i] = s[(n + 1) + i - 1]
  BY <1>0, SubSeqFacts
<1> HIDE DEF w
<1>2. Len(w) = Len(s) - n
  BY <1>0, <1>1
<1>3. ASSUME NEW i \in 1 .. Len(w)
      PROVE  w[i] = s[n + i] /\ n + i \in 1 .. Len(s)
  <2>1. (n + 1) + i - 1 = n + i /\ i \in 1 .. Len(s) - (n + 1) + 1
    BY <1>0, <1>2
  <2> QED BY <1>0, <1>1, <1>2, <2>1
<1>4. ASSUME NEW i \in 1 .. Len(w), NEW j \in 1 .. Len(w), i < j
      PROVE  w[i] # w[j] /\ e[w[i]] <= e[w[j]]
  <2>1. /\ w[i] = s[n + i] /\ n + i \in 1 .. Len(s)
        /\ w[j] = s[n + j] /\ n + j \in 1 .. Len(s)
    BY <1>3
  <2>2. n + i < n + j
    BY <1>0, <1>2, <1>4
  <2> QED BY <2>1, <2>2 DEF Ordered
<1>5. Ordered(w, e)
  BY <1>4 DEF Ordered
<1>6. \A i \in 1 .. Len(w) : \E j \in 1 .. Len(s) : w[i] = s[j]
  BY <1>3
<1> QED BY <1>1, <1>5, <1>6 DEF w

(* The first alarm of a queue expires no later than the others.            *)
LEMMA FirstExpires ==
  ASSUME NEW s \in Seq(Alarms), NEW e \in [Alarms -> Int], Ordered(s, e),
         s # << >>
  PROVE  /\ Head(s) \in Alarms
         /\ \A x \in Range(s) : x \in Alarms /\ e[Head(s)] <= e[x]
<1>1. Len(s) \in Nat \ {0} /\ DOMAIN s = 1 .. Len(s) /\ Head(s) = s[1]
  <2>1. Len(s) \in Nat /\ DOMAIN s = 1 .. Len(s)
    BY LenProperties
  <2>2. Len(s) \in Nat \ {0}
    BY EmptySeq
  <2>3. Head(s) = s[1]
    OBVIOUS
  <2> QED BY <2>1, <2>2, <2>3
<1>2. \A i \in 1 .. Len(s) : s[i] \in Alarms /\ e[s[i]] \in Int
  BY ElementOfSeq
<1>3. ASSUME NEW i \in 1 .. Len(s) PROVE e[s[1]] <= e[s[i]]
  BY <1>1, <1>2 DEF Ordered
<1> QED BY <1>1, <1>2, <1>3 DEF Range

LEMMA RangeWithout ==
  ASSUME NEW s \in Seq(Alarms), NEW a, NEW e, Ordered(s, e)
  PROVE  Range(Without(s, a)) \subseteq Range(s) \ {a}
<1> DEFINE w == Without(s, a)
<1>1. /\ w \in Seq(Alarms)
      /\ \A i \in 1 .. Len(w) : w[i] # a /\ \E j \in 1 .. Len(s) : w[i] = s[j]
  BY WithoutOrdered, SMTT(30)
<1> HIDE DEF w
<1>2. Range(w) = {w[i] : i \in 1 .. Len(w)}
  BY <1>1, RangeEquality
<1>3. Range(s) = {s[i] : i \in 1 .. Len(s)}
  BY RangeEquality
<1>4. Range(w) \subseteq Range(s) \ {a}
  BY <1>1, <1>2, <1>3
<1> QED BY <1>4 DEF w

LEMMA RangeInsertAt ==
  ASSUME NEW s \in Seq(Alarms), NEW k \in 1 .. Len(s) + 1, NEW a \in Alarms
  PROVE  Range(InsertAt(s, k, a)) \subseteq Range(s) \cup {a}
<1> DEFINE w == InsertAt(s, k, a)
<1>1. /\ w \in Seq(Alarms) /\ Len(w) = Len(s) + 1
      /\ \A i \in 1 .. Len(s) + 1 :
           w[i] = IF i < k THEN s[i] ELSE IF i = k THEN a ELSE s[i - 1]
  BY InsertAtFacts
<1> HIDE DEF w
<1>2. Range(w) = {w[i] : i \in 1 .. Len(w)}
  BY <1>1, RangeEquality
<1>3. Range(s) = {s[i] : i \in 1 .. Len(s)}
  BY RangeEquality
<1>4. ASSUME NEW i \in 1 .. Len(w) PROVE w[i] \in Range(s) \cup {a}
  <2>0. Len(s) \in Nat /\ i \in 1 .. Len(s) + 1
    BY <1>1, LenProperties
  <2>1. CASE i < k
    <3>1. w[i] = s[i] /\ i \in 1 .. Len(s)
      BY <1>1, <2>0, <2>1
    <3> QED BY <3>1, <1>3
  <2>2. CASE i = k
    BY <1>1, <2>0, <2>2
  <2>3. CASE k < i
    <3>0. i - 1 \in 1 .. Len(s) /\ ~ (i < k) /\ i # k
      BY <2>0, <2>3
    <3>1. w[i] = s[i - 1]
      BY <1>1, <2>0, <3>0
    <3> QED BY <3>0, <3>1, <1>3
  <2>4. i < k \/ i = k \/ k < i
    BY <2>0
  <2> QED BY <2>1, <2>2, <2>3, <2>4
<1>5. Range(w) \subseteq Range(s) \cup {a}
  BY <1>2, <1>4
<1> QED BY <1>5 DEF w

LEMMA RangeSuffix ==
  ASSUME NEW s \in Seq(Alarms), NEW e, Ordered(s, e), NEW n \in 0 .. Len(s)
  PROVE  Range(SubSeq(s, n + 1, Len(s))) \subseteq Range(s)
<1> DEFINE w == SubSeq(s, n + 1, Len(s))
<1>1. /\ w \in Seq(Alarms)
      /\ \A i \in 1 .. Len(w) : \E j \in 1 .. Len(s) : w[i] = s[j]
  BY SuffixOrdered
<1> HIDE DEF w
<1>2. Range(w) = {w[i] : i \in 1 .. Len(w)}
  BY <1>1, RangeEquality
<1>3. Range(s) = {s[i] : i \in 1 .. Len(s)}
  BY RangeEquality
<1>4. Range(w) \subseteq Range(s)
  BY <1>1, <1>2, <1>3
<1> QED BY <1>4 DEF w

LEMMA RangeEmpty == Range(<< >>) = {}
BY DEF Range

-----------------------------------------------------------------------------
(* The invariant holds at boot.                                            *)

USE DEF RTC_WAKEUP, RTC, ELAPSED_REALTIME_WAKEUP, ELAPSED_REALTIME,
        SYSTEMTIME, Queues, WallQueues, WakeupQueues

LEMMA AlarmInitial == AlarmInit => AlarmInv
<1> SUFFICES ASSUME NEW t \in Times, alarm_driver_init(t) PROVE AlarmInv
  BY DEF AlarmInit
<1> USE AlarmAssumption DEF alarm_driver_init
<1>0. \A q \in Queues : queue[q] = << >> /\ Range(queue[q]) = {}
  BY RangeEmpty
<1>1. AlarmTypes
  <2>1. queue \in [Queues -> Seq(Alarms)]
    BY EmptySeq
  <2>2. timer \in [Queues -> [on : BOOLEAN, expires : Int]]
    OBVIOUS
  <2>3. rtc_alarm \in [enabled : BOOLEAN, time : Int]
    BY DEF NoAlarm
  <2>4. setting \in [at : {"none", "settime", "restart", "unlock"}, time : Int]
    BY DEF NotSetting
  <2>5. /\ real \in Nat /\ wall \in Int /\ delta \in Int /\ since \in Int
        /\ expires \in [Alarms -> Int]
        /\ device \in {"on", "entering", "suspending", "asleep", "resuming"}
    OBVIOUS
  <2>6. stopped \in BOOLEAN /\ suspended \in BOOLEAN
    OBVIOUS
  <2> QED BY <2>1, <2>2, <2>3, <2>4, <2>5, <2>6 DEF AlarmTypes
<1>2. Phases
  BY DEF Phases, NotSetting
<1>3. QueuesOrdered
  <2>1. \A q \in Queues : Ordered(queue[q], expires)
    BY <1>0 DEF Ordered
  <2> QED BY <1>0, <2>1 DEF QueuesOrdered, OfType
<1>4. TimersSet
  BY <1>0 DEF TimersSet
<1>5. RtcSet
  BY <1>0 DEF RtcSet, NoAlarm
<1> QED BY <1>1, <1>2, <1>3, <1>4, <1>5 DEF AlarmInv

-----------------------------------------------------------------------------
(* Setting a timer.                                                        *)

Timers == [on : BOOLEAN, expires : Int]

LEMMA DeltaInt ==
  ASSUME AlarmTypes, NEW q \in Queues PROVE Delta(q) \in Int
BY DEF AlarmTypes, Delta

(* A timer set for the first alarm is set for all alarms of the queue.     *)
LEMMA ArmedForAll ==
  ASSUME AlarmTypes, NEW q \in Queues, NEW que \in [Queues -> Seq(Alarms)],
         NEW exps \in [Alarms -> Int], que[q] # << >>
  PROVE  /\ Armed(q, que, exps) \in Timers
         /\ Ordered(que[q], exps) =>
              \A x \in Range(que[q]) :
                /\ Armed(q, que, exps).on
                /\ Armed(q, que, exps).expires <= Delta(q) + exps[x]
<1>1. que[q] \in Seq(Alarms)
  OBVIOUS
<1>2. Head(que[q]) \in Alarms
  BY <1>1, HeadTailProperties
<1>3. Delta(q) \in Int
  BY DeltaInt
<1>4. Armed(q, que, exps) \in Timers
  BY <1>2, <1>3 DEF Armed, Timers
<1>5. ASSUME Ordered(que[q], exps), NEW x \in Range(que[q])
      PROVE  /\ Armed(q, que, exps).on
             /\ Armed(q, que, exps).expires <= Delta(q) + exps[x]
  <2>1. x \in Alarms /\ exps[Head(que[q])] <= exps[x]
    BY <1>1, <1>5, FirstExpires
  <2> QED BY <1>2, <1>3, <2>1 DEF Armed
<1> QED BY <1>4, <1>5

LEMMA UpdateTimersType ==
  ASSUME AlarmTypes, NEW qs, NEW susp, NEW stop,
         NEW que \in [Queues -> Seq(Alarms)], NEW exps \in [Alarms -> Int],
         UpdateTimers(qs, que, exps, susp, stop)
  PROVE  timer' \in [Queues -> Timers]
<1>1. timer \in [Queues -> Timers]
  BY DEF AlarmTypes, Timers
<1>2. \A q \in Queues : que[q] # << >> => Armed(q, que, exps) \in Timers
  BY ArmedForAll
<1> QED BY <1>1, <1>2 DEF UpdateTimers

-----------------------------------------------------------------------------
(* Every operation keeps the invariant.                                    *)

LEMMA StartKeeps ==
  ASSUME AlarmInv, NEW a \in Alarms, NEW t \in Times, alarm_start_range(a, t)
  PROVE  AlarmInv'
<1> DEFINE q == Type[a]
           s == queue[q]
           rest == Without(s, a)
<1>0. AlarmTypes /\ Phases /\ QueuesOrdered /\ TimersSet /\ RtcSet
  BY DEF AlarmInv
<1>1. /\ q \in Queues /\ t \in Int /\ s \in Seq(Alarms)
      /\ Ordered(s, expires) /\ OfType(s, q)
      /\ expires \in [Alarms -> Int] /\ queue \in [Queues -> Seq(Alarms)]
  BY <1>0, AlarmAssumption DEF AlarmTypes, QueuesOrdered
<1>2. /\ rest \in Seq(Alarms) /\ Ordered(rest, expires)
      /\ \A i \in 1 .. Len(rest) : rest[i] # a
      /\ Range(rest) \subseteq Range(s) \ {a}
  <2> HIDE DEF q, s
  <2>1. rest \in Seq(Alarms)
    BY <1>1, WithoutOrdered
  <2>2. Ordered(rest, expires)
    BY <1>1, WithoutOrdered
  <2>3. Range(rest) \subseteq Range(s) \ {a}
    BY <1>1, RangeWithout
  <2> HIDE DEF rest
  <2>4. \A i \in 1 .. Len(rest) : rest[i] # a
    BY <2>1, <2>3, RangeEquality
  <2> QED BY <2>1, <2>2, <2>3, <2>4
<1>3. PICK pos \in 1 .. Len(rest) + 1 :
        LET que == [queue EXCEPT ![q] = InsertAt(rest, pos, a)]
            exps == [expires EXCEPT ![a] = t]
        IN  /\ \A i \in 1 .. Len(rest) : i < pos <=> expires[rest[i]] <= t
            /\ queue' = que
            /\ expires' = exps
            /\ IF pos = 1 \/ IsFirst(a)
                 THEN update_timer_locked(q, que, exps, IsFirst(a))
                 ELSE UNCHANGED <<timer, lock_until>>
  <2>1. alarm_enqueue_locked(a, t)
    BY DEF alarm_start_range
  <2> QED BY <2>1, Zenon DEF alarm_enqueue_locked
<1> DEFINE new == InsertAt(rest, pos, a)
           exps == [expires EXCEPT ![a] = t]
           que == [queue EXCEPT ![q] = new]
<1>4. queue' = que /\ expires' = exps
  BY <1>3
<1>5. /\ device = "on" /\ device' = "on" /\ suspended' = suspended
      /\ stopped' = stopped /\ setting' = setting /\ rtc_alarm' = rtc_alarm
      /\ delta' = delta /\ real' = real /\ wall' = wall /\ since' = since
  BY DEF alarm_start_range, clockVars, powerVars
<1>6. new \in Seq(Alarms) /\ Ordered(new, exps)
  BY <1>1, <1>2, <1>3, InsertOrdered
<1>7. Range(new) \subseteq Range(rest) \cup {a}
  BY <1>2, RangeInsertAt
<1> HIDE DEF new, rest
<1>8. exps \in [Alarms -> Int] /\ que \in [Queues -> Seq(Alarms)]
      /\ que[q] = new /\ exps[a] = t
      /\ \A x \in Alarms : x # a => exps[x] = expires[x]
  BY <1>1, <1>6
<1>9. ASSUME NEW p \in Queues, p # q
      PROVE  /\ que[p] = queue[p]
             /\ \A x \in Range(queue[p]) : x \in Alarms /\ exps[x] = expires[x]
  <2>1. que[p] = queue[p] /\ queue[p] \in Seq(Alarms)
    BY <1>1, <1>9
  <2>2. \A x \in Range(queue[p]) : x \in Alarms /\ Type[x] = p
    BY <2>1, <1>0, RangeOfSeq DEF QueuesOrdered, OfType
  <2> QED BY <1>8, <1>9, <2>1, <2>2
<1> HIDE DEF que, exps
<1>10. timer' \in [Queues -> Timers]
  <2>1. CASE pos = 1 \/ IsFirst(a)
    <3>1. UpdateTimers({q}, que, exps, suspended, stopped)
      BY <1>3, <2>1 DEF update_timer_locked, que, exps, new
    <3> QED BY <1>0, <1>8, <3>1, UpdateTimersType
  <2>2. CASE ~ (pos = 1 \/ IsFirst(a))
    BY <1>0, <1>3, <2>2 DEF AlarmTypes, Timers
  <2> QED BY <2>1, <2>2
<1>11. AlarmTypes'
  BY <1>0, <1>4, <1>5, <1>8, <1>10 DEF AlarmTypes, Timers
<1>12. Phases'
  BY <1>0, <1>5 DEF Phases
<1>13. QueuesOrdered'
  <2>1. OfType(new, q)
    BY <1>1, <1>2, <1>7 DEF OfType
  <2>2. ASSUME NEW p \in Queues, p # q
        PROVE  Ordered(que[p], exps) /\ OfType(que[p], p)
    <3>1. que[p] = queue[p] /\ Ordered(queue[p], expires)
            /\ OfType(queue[p], p) /\ queue[p] \in Seq(Alarms)
      BY <1>0, <1>1, <1>9, <2>2 DEF QueuesOrdered
    <3>2. \A i \in 1 .. Len(queue[p]) :
            exps[queue[p][i]] = expires[queue[p][i]]
      BY <1>9, <2>2, <3>1, RangeEquality
    <3> QED BY <3>1, <3>2 DEF Ordered
  <2> QED BY <1>4, <1>6, <1>8, <2>1, <2>2 DEF QueuesOrdered
<1>14. TimersSet'
  <2>1. ASSUME NEW p \in WallQueues, ~ stopped', NEW x \in Range(queue[p])'
        PROVE  ArmedFor(p, x)'
    <3>0. ~ suspended /\ ~ stopped /\ Delta(p)' = Delta(p)
            /\ Delta(p) \in Int /\ p \in Queues
      BY <1>0, <1>5, <2>1, DeltaInt DEF Phases, Delta
    <3>1. CASE p # q
      <4>1. x \in Range(queue[p]) /\ expires'[x] = expires[x]
        BY <1>4, <1>9, <2>1, <3>0, <3>1
      <4>2. ArmedFor(p, x)
        BY <1>0, <3>0, <4>1 DEF TimersSet
      <4>3. timer'[p] = timer[p]
        BY <1>0, <1>3, <3>0, <3>1
           DEF update_timer_locked, UpdateTimers, AlarmTypes
      <4> QED BY <3>0, <4>1, <4>2, <4>3 DEF ArmedFor
    <3>2. CASE p = q /\ (pos = 1 \/ IsFirst(a))
      <4>1. UpdateTimers({q}, que, exps, suspended, stopped)
        BY <1>3, <3>2 DEF update_timer_locked, que, exps, new
      <4>2. x \in Range(new)
        BY <1>4, <1>8, <2>1, <3>2
      <4>3. que[q] # << >>
        BY <1>8, <4>2, RangeEmpty
      <4>4. timer'[q] = Armed(q, que, exps)
        BY <1>1, <3>0, <4>1, <4>3 DEF UpdateTimers
      <4>5. Armed(q, que, exps).on
              /\ Armed(q, que, exps).expires <= Delta(q) + exps[x]
        BY <1>0, <1>1, <1>6, <1>8, <4>2, <4>3, ArmedForAll
      <4> QED BY <1>4, <3>0, <3>2, <4>4, <4>5 DEF ArmedFor
    <3>3. CASE p = q /\ ~ (pos = 1 \/ IsFirst(a))
      <4>1. timer' = timer
        BY <1>3, <3>3
      <4>2. x \in Range(rest) \cup {a}
        BY <1>4, <1>7, <1>8, <2>1, <3>3
      <4>3. \A y \in Range(s) : ArmedFor(q, y)
        BY <1>0, <3>0, <3>3 DEF TimersSet
      <4>4. CASE x # a
        <5>1. x \in Range(s) /\ x \in Alarms
          BY <1>1, <1>2, <4>2, <4>4, RangeOfSeq
        <5>2. expires'[x] = expires[x]
          BY <1>4, <1>8, <4>4, <5>1
        <5> QED BY <3>0, <3>3, <4>1, <4>3, <5>1, <5>2 DEF ArmedFor
      <4>5. CASE x = a
        <5>1. 1 \in 1 .. Len(rest) /\ 1 < pos
          BY <1>2, <3>3, LenProperties
        <5>2. expires[rest[1]] <= t
          BY <1>3, <5>1
        <5>3. rest[1] \in Range(s) /\ rest[1] \in Alarms
          BY <1>2, <5>1, RangeEquality, ElementOfSeq
        <5>4. ArmedFor(q, rest[1])
          BY <4>3, <5>3
        <5>5. expires[rest[1]] \in Int /\ timer[q].expires \in Int
          BY <1>0, <1>1, <5>3 DEF AlarmTypes
        <5>6. timer[q].on /\ timer[q].expires <= Delta(q) + t
          <6> DEFINE d == Delta(q)
                     h == rest[1]
          <6>1. timer[q].on /\ timer[q].expires <= d + expires[h]
            BY <5>4 DEF ArmedFor
          <6>2. d \in Int
            BY <3>0, <3>3
          <6> HIDE DEF d, h
          <6>3. expires[h] \in Int /\ expires[h] <= t
            BY <5>2, <5>5 DEF h
          <6>4. timer[q].on /\ timer[q].expires <= d + t
            BY <1>1, <5>5, <6>1, <6>2, <6>3, SMTT(30)
          <6> QED BY <6>4 DEF d
        <5>7. expires'[x] = t
          BY <1>4, <1>8, <4>5
        <5> QED BY <3>0, <3>3, <4>1, <5>6, <5>7 DEF ArmedFor
      <4> QED BY <4>4, <4>5
    <3> QED BY <3>1, <3>2, <3>3
  <2> QED BY <1>5, <2>1 DEF TimersSet
<1>15. RtcSet'
  BY <1>0, <1>5 DEF RtcSet
<1> QED BY <1>11, <1>12, <1>13, <1>14, <1>15 DEF AlarmInv

(* Alarms leave one queue.                                                 *)
LEMMA ShrinkOrdered ==
  ASSUME AlarmTypes, QueuesOrdered, NEW q \in Queues, NEW new \in Seq(Alarms),
         Ordered(new, expires), Range(new) \subseteq Range(queue[q]),
         queue' = [queue EXCEPT ![q] = new], expires' = expires
  PROVE  /\ QueuesOrdered'
         /\ queue' \in [Queues -> Seq(Alarms)]
         /\ queue'[q] = new
         /\ \A p \in Queues : p # q => queue'[p] = queue[p]
         /\ \A p \in Queues : Range(queue'[p]) \subseteq Range(queue[p])
<1>1. queue \in [Queues -> Seq(Alarms)]
  BY DEF AlarmTypes
<1>2. /\ queue' \in [Queues -> Seq(Alarms)] /\ queue'[q] = new
      /\ \A p \in Queues : p # q => queue'[p] = queue[p]
  BY <1>1
<1>3. \A p \in Queues : Range(queue'[p]) \subseteq Range(queue[p])
  BY <1>2
<1>4. ASSUME NEW p \in Queues
      PROVE  Ordered(queue'[p], expires') /\ OfType(queue'[p], p)
  <2>1. OfType(queue'[p], p)
    BY <1>3 DEF QueuesOrdered, OfType
  <2>2. Ordered(queue'[p], expires)
    BY <1>2 DEF QueuesOrdered
  <2> QED BY <2>1, <2>2
<1> QED BY <1>2, <1>3, <1>4 DEF QueuesOrdered

LEMMA CancelKeeps ==
  ASSUME AlarmInv, NEW a \in Alarms, alarm_try_to_cancel(a)
  PROVE  AlarmInv'
<1> DEFINE q == Type[a]
           s == queue[q]
           rest == Without(s, a)
           que == [queue EXCEPT ![q] = rest]
<1>0. AlarmTypes /\ Phases /\ QueuesOrdered /\ TimersSet /\ RtcSet
  BY DEF AlarmInv
<1>1. /\ q \in Queues /\ s \in Seq(Alarms) /\ Ordered(s, expires)
      /\ expires \in [Alarms -> Int] /\ queue \in [Queues -> Seq(Alarms)]
  BY <1>0, AlarmAssumption DEF AlarmTypes, QueuesOrdered
<1>2. /\ rest \in Seq(Alarms) /\ Ordered(rest, expires)
      /\ Range(rest) \subseteq Range(s)
  <2> HIDE DEF q, s
  <2>1. rest \in Seq(Alarms)
    BY <1>1, WithoutOrdered
  <2>2. Ordered(rest, expires)
    BY <1>1, WithoutOrdered
  <2>3. Range(rest) \subseteq Range(s) \ {a}
    BY <1>1, RangeWithout
  <2> QED BY <2>1, <2>2, <2>3
<1>3. /\ queue' = que
      /\ IF IsFirst(a) THEN update_timer_locked(q, que, expires, TRUE)
                       ELSE UNCHANGED <<timer, lock_until>>
  BY DEF alarm_try_to_cancel
<1>4. /\ device = "on" /\ device' = "on" /\ suspended' = suspended
      /\ stopped' = stopped /\ setting' = setting /\ rtc_alarm' = rtc_alarm
      /\ delta' = delta /\ real' = real /\ wall' = wall /\ since' = since
      /\ expires' = expires
  BY DEF alarm_try_to_cancel, clockVars, powerVars
<1> HIDE DEF rest
<1>5. /\ QueuesOrdered' /\ queue' \in [Queues -> Seq(Alarms)]
      /\ queue'[q] = rest
      /\ \A p \in Queues : Range(queue'[p]) \subseteq Range(queue[p])
  BY <1>0, <1>1, <1>2, <1>3, <1>4, ShrinkOrdered
<1>6. que = queue' /\ que[q] = rest /\ que \in [Queues -> Seq(Alarms)]
  BY <1>3, <1>5
<1> HIDE DEF que
<1>7. timer' \in [Queues -> Timers]
  <2>1. CASE IsFirst(a)
    <3>1. UpdateTimers({q}, que, expires, suspended, stopped)
      BY <1>3, <2>1 DEF update_timer_locked
    <3> QED BY <1>0, <1>1, <1>6, <3>1, UpdateTimersType
  <2>2. CASE ~ IsFirst(a)
    BY <1>0, <1>3, <2>2 DEF AlarmTypes, Timers
  <2> QED BY <2>1, <2>2
<1>8. AlarmTypes'
  BY <1>0, <1>4, <1>5, <1>7 DEF AlarmTypes, Timers
<1>9. Phases'
  BY <1>0, <1>4 DEF Phases
<1>10. TimersSet'
  <2>1. ASSUME NEW p \in WallQueues, ~ stopped', NEW x \in Range(queue[p])'
        PROVE  ArmedFor(p, x)'
    <3>0. ~ suspended /\ ~ stopped /\ Delta(p)' = Delta(p) /\ p \in Queues
      BY <1>0, <1>4, <2>1 DEF Phases, Delta
    <3>1. CASE p = q /\ IsFirst(a)
      <4>1. UpdateTimers({q}, que, expires, suspended, stopped)
        BY <1>3, <3>1 DEF update_timer_locked
      <4>2. x \in Range(rest)
        BY <1>5, <2>1, <3>1
      <4>3. que[q] # << >>
        BY <1>6, <4>2, RangeEmpty
      <4>4. timer'[q] = Armed(q, que, expires)
        BY <1>1, <3>0, <4>1, <4>3 DEF UpdateTimers
      <4>5. Armed(q, que, expires).on
              /\ Armed(q, que, expires).expires <= Delta(q) + expires[x]
        BY <1>0, <1>1, <1>2, <1>6, <4>2, <4>3, ArmedForAll
      <4> QED BY <1>4, <3>0, <3>1, <4>4, <4>5 DEF ArmedFor
    <3>2. CASE ~ (p = q /\ IsFirst(a))
      <4>1. timer'[p] = timer[p]
        BY <1>0, <1>3, <3>0, <3>2
           DEF update_timer_locked, UpdateTimers, AlarmTypes
      <4>2. x \in Range(queue[p])
        BY <1>5, <2>1, <3>0
      <4>3. ArmedFor(p, x)
        BY <1>0, <3>0, <4>2 DEF TimersSet
      <4> QED BY <1>4, <3>0, <4>1, <4>3 DEF ArmedFor
    <3> QED BY <3>1, <3>2
  <2> QED BY <1>4, <2>1 DEF TimersSet
<1>11. RtcSet'
  BY <1>0, <1>4 DEF RtcSet
<1> QED BY <1>5, <1>8, <1>9, <1>10, <1>11 DEF AlarmInv

LEMMA TriggeredKeeps ==
  ASSUME AlarmInv, NEW q \in Queues, alarm_timer_triggered(q)
  PROVE  AlarmInv'
<1> DEFINE s == queue[q]
<1>0. AlarmTypes /\ Phases /\ QueuesOrdered /\ TimersSet /\ RtcSet
  BY DEF AlarmInv
<1>1. /\ s \in Seq(Alarms) /\ Ordered(s, expires)
      /\ expires \in [Alarms -> Int] /\ queue \in [Queues -> Seq(Alarms)]
      /\ timer \in [Queues -> Timers]
  BY <1>0 DEF AlarmTypes, QueuesOrdered, Timers
<1>2. PICK n \in 0 .. Len(s) :
        LET que == [queue EXCEPT ![q] = SubSeq(@, n + 1, Len(@))] IN
        /\ queue' = que
        /\ timer' = [timer EXCEPT ![q] =
             IF que[q] # << >> /\ ~ Stopped(q)
                  /\ ~ (suspended /\ q \in WakeupQueues)
               THEN Armed(q, que, expires) ELSE [@ EXCEPT !.on = FALSE]]
        /\ UNCHANGED <<clockVars, powerVars, expires, stopped, setting,
                       suspended>>
  BY Zenon DEF alarm_timer_triggered
<1> DEFINE rest == SubSeq(s, n + 1, Len(s))
           que == [queue EXCEPT ![q] = rest]
<1>3. /\ rest \in Seq(Alarms) /\ Ordered(rest, expires)
      /\ Range(rest) \subseteq Range(s)
  <2>1. rest \in Seq(Alarms)
    BY <1>1, SuffixOrdered
  <2>2. Ordered(rest, expires)
    BY <1>1, SuffixOrdered
  <2>3. Range(rest) \subseteq Range(s)
    BY <1>1, RangeSuffix
  <2> QED BY <2>1, <2>2, <2>3
<1>4. queue' = que
  BY <1>2
<1>5. /\ device' = device /\ suspended' = suspended
      /\ stopped' = stopped /\ setting' = setting /\ rtc_alarm' = rtc_alarm
      /\ delta' = delta /\ real' = real /\ wall' = wall /\ since' = since
      /\ expires' = expires /\ slept' = slept
  BY <1>2 DEF clockVars, powerVars
<1> DEFINE set == que[q] # << >> /\ ~ Stopped(q)
                    /\ ~ (suspended /\ q \in WakeupQueues)
<1>6. timer' = [timer EXCEPT ![q] =
        IF set THEN Armed(q, que, expires) ELSE [@ EXCEPT !.on = FALSE]]
  BY <1>2
<1> HIDE DEF rest
<1>7. /\ QueuesOrdered' /\ queue' \in [Queues -> Seq(Alarms)]
      /\ queue'[q] = rest
      /\ \A p \in Queues : p # q => queue'[p] = queue[p]
      /\ \A p \in Queues : Range(queue'[p]) \subseteq Range(queue[p])
  BY <1>0, <1>1, <1>3, <1>4, <1>5, ShrinkOrdered
<1>8. que = queue' /\ que[q] = rest /\ que \in [Queues -> Seq(Alarms)]
  BY <1>4, <1>7
<1> HIDE DEF que
<1>9. /\ \A p \in Queues : p # q => timer'[p] = timer[p]
      /\ timer'[q] = IF set THEN Armed(q, que, expires)
                     ELSE [timer[q] EXCEPT !.on = FALSE]
  BY <1>1, <1>6
<1>10. timer' \in [Queues -> Timers]
  <2>1. set => Armed(q, que, expires) \in Timers
    BY <1>0, <1>1, <1>8, ArmedForAll
  <2>2. [timer[q] EXCEPT !.on = FALSE] \in Timers
    BY <1>1 DEF Timers
  <2> HIDE DEF set
  <2> QED BY <1>1, <1>6, <2>1, <2>2
<1>11. AlarmTypes'
  BY <1>0, <1>5, <1>7, <1>10 DEF AlarmTypes, Timers
<1>12. Phases'
  BY <1>0, <1>5 DEF Phases
<1>13. TimersSet'
  <2>1. ASSUME NEW p \in WallQueues, ~ stopped',
               ~ (suspended' /\ p \in WakeupQueues),
               NEW x \in Range(queue[p])'
        PROVE  ArmedFor(p, x)'
    <3>0. ~ stopped /\ ~ (suspended /\ p \in WakeupQueues)
            /\ Delta(p)' = Delta(p) /\ p \in Queues
      BY <1>5, <2>1 DEF Delta
    <3>1. CASE p = q
      <4>1. x \in Range(rest)
        BY <1>7, <2>1, <3>1
      <4>2. que[q] # << >>
        BY <1>8, <4>1, RangeEmpty
      <4>3. timer'[q] = Armed(q, que, expires)
        BY <1>9, <3>0, <3>1, <4>2 DEF Stopped
      <4>4. Armed(q, que, expires).on
              /\ Armed(q, que, expires).expires <= Delta(q) + expires[x]
        BY <1>0, <1>1, <1>3, <1>8, <4>1, <4>2, ArmedForAll
      <4> QED BY <1>5, <3>0, <3>1, <4>3, <4>4 DEF ArmedFor
    <3>2. CASE p # q
      <4>1. timer'[p] = timer[p] /\ x \in Range(queue[p])
        BY <1>7, <1>9, <2>1, <3>0, <3>2
      <4>2. ArmedFor(p, x)
        BY <1>0, <3>0, <4>1 DEF TimersSet
      <4> QED BY <1>5, <3>0, <4>1, <4>2 DEF ArmedFor
    <3> QED BY <3>1, <3>2
  <2>2. ASSUME device' = "entering", NEW p \in WakeupQueues,
               NEW x \in Range(queue[p])'
        PROVE  (timer[p].expires <= Delta(p) + expires[x])'
    <3>0. suspended /\ device = "entering" /\ Delta(p)' = Delta(p)
            /\ p \in Queues
      BY <1>0, <1>5, <2>2 DEF Phases, Delta
    <3>1. x \in Range(queue[p])
      BY <1>7, <2>2, <3>0
    <3>2. timer'[p].expires = timer[p].expires
      BY <1>1, <1>9, <3>0, <2>2 DEF Timers
    <3> QED BY <1>0, <1>5, <3>0, <3>1, <3>2 DEF TimersSet
  <2> QED BY <2>1, <2>2 DEF TimersSet
<1>14. RtcSet'
  <2>1. \A p \in WakeupQueues : Delta(p)' = Delta(p)
    BY <1>5 DEF Delta
  <2>2. \A p \in WakeupQueues : Range(queue'[p]) \subseteq Range(queue[p])
    BY <1>7
  <2>3. Covered => Covered'
    BY <1>5, <2>1, <2>2 DEF Covered
  <2>4. device = "suspending" /\ LockHeld => LockHeld'
    <3>1. device = "suspending" => lock_until' \in {lock_until, real + 1}
      BY <1>0, Zenon DEF alarm_timer_triggered, UpdateLock, Phases
    <3>2. real \in Nat
      BY <1>0 DEF AlarmTypes
    <3> QED BY <1>5, <3>1, <3>2 DEF LockHeld
  <2> QED BY <1>0, <1>5, <2>3, <2>4 DEF RtcSet
<1> QED BY <1>7, <1>11, <1>12, <1>13, <1>14 DEF AlarmInv

LEMMA SameQueues ==
  ASSUME QueuesOrdered, queue' = queue, expires' = expires
  PROVE  QueuesOrdered'
BY DEF QueuesOrdered

LEMMA BeginKeeps ==
  ASSUME AlarmInv, NEW t \in Times, BeginSetRtc(t)
  PROVE  AlarmInv'
<1>0. AlarmTypes /\ Phases /\ QueuesOrdered /\ TimersSet /\ RtcSet
  BY DEF AlarmInv
<1>1. /\ device = "on" /\ device' = "on" /\ suspended' = suspended
      /\ setting' = [at |-> "settime", time |-> t] /\ stopped'
      /\ queue' = queue /\ expires' = expires /\ rtc_alarm' = rtc_alarm
      /\ real' = real /\ wall' = wall /\ since' = since
  BY DEF BeginSetRtc, powerVars
<1>2. timer' \in [Queues -> Timers]
  <2>1. timer \in [Queues -> Timers]
    BY <1>0 DEF AlarmTypes, Timers
  <2>2. timer' = [q \in Queues |->
          IF q \in WallQueues THEN [timer[q] EXCEPT !.on = FALSE]
                              ELSE timer[q]]
    BY DEF BeginSetRtc
  <2>3. \A q \in Queues : [timer[q] EXCEPT !.on = FALSE] \in Timers
    BY <2>1 DEF Timers
  <2> QED BY <2>1, <2>2, <2>3
<1>3. AlarmTypes'
  <2>1. t \in Int /\ delta' \in Int /\ stopped' \in BOOLEAN
    <3>1. t \in Int /\ wall \in Int /\ delta \in Int
      BY <1>0, AlarmAssumption DEF AlarmTypes
    <3>2. delta' = delta - (wall - t) /\ stopped' = TRUE
      BY DEF BeginSetRtc
    <3> QED BY <3>1, <3>2
  <2>2. setting' \in [at : {"none", "settime", "restart", "unlock"}, time : Int]
    BY <1>1, <2>1
  <2> QED BY <1>0, <1>1, <1>2, <2>1, <2>2 DEF AlarmTypes, Timers
<1>4. Phases'
  BY <1>0, <1>1 DEF Phases
<1>5. QueuesOrdered'
  BY <1>0, <1>1, SameQueues
<1>6. TimersSet'
  BY <1>1 DEF TimersSet
<1>7. RtcSet'
  BY <1>0, <1>1 DEF RtcSet
<1> QED BY <1>3, <1>4, <1>5, <1>6, <1>7 DEF AlarmInv

LEMMA SettimeKeeps ==
  ASSUME AlarmInv, do_settimeofday
  PROVE  AlarmInv'
<1>0. AlarmTypes /\ Phases /\ QueuesOrdered /\ TimersSet /\ RtcSet
  BY DEF AlarmInv
<1>1. /\ setting.at = "settime" /\ setting' = [setting EXCEPT !.at = "restart"]
      /\ wall' \in {setting.time, wall}
      /\ device' = device /\ suspended' = suspended /\ stopped' = stopped
      /\ queue' = queue /\ expires' = expires /\ rtc_alarm' = rtc_alarm
      /\ real' = real /\ since' = since /\ delta' = delta /\ timer' = timer
  BY DEF do_settimeofday, powerVars
<1>2. setting'.at = "restart"
        /\ setting' \in [at : {"none", "settime", "restart", "unlock"},
                         time : Int]
  BY <1>0, <1>1 DEF AlarmTypes
<1>3. AlarmTypes'
  BY <1>0, <1>1, <1>2 DEF AlarmTypes
<1>4. device = "on" /\ stopped
  BY <1>0, <1>1 DEF Phases
<1>5. Phases'
  BY <1>0, <1>1, <1>2, <1>4 DEF Phases
<1>6. QueuesOrdered'
  BY <1>0, <1>1, SameQueues
<1>7. TimersSet'
  BY <1>1, <1>4 DEF TimersSet
<1>8. RtcSet'
  BY <1>0, <1>1, <1>4 DEF RtcSet
<1> QED BY <1>3, <1>5, <1>6, <1>7, <1>8 DEF AlarmInv

LEMMA RestartKeeps ==
  ASSUME AlarmInv, RestartTimers
  PROVE  AlarmInv'
<1>0. AlarmTypes /\ Phases /\ QueuesOrdered /\ TimersSet /\ RtcSet
  BY DEF AlarmInv
<1>1. /\ setting.at = "restart" /\ setting' = [setting EXCEPT !.at = "unlock"]
      /\ ~ stopped' /\ stopped' \in BOOLEAN
      /\ UpdateTimers(WallQueues, queue, expires, suspended, FALSE)
      /\ device' = device /\ suspended' = suspended /\ wall' = wall
      /\ queue' = queue /\ expires' = expires /\ rtc_alarm' = rtc_alarm
      /\ real' = real /\ since' = since /\ delta' = delta
  BY DEF RestartTimers, powerVars, clockVars
<1>2. setting'.at = "unlock"
        /\ setting' \in [at : {"none", "settime", "restart", "unlock"},
                         time : Int]
  BY <1>0, <1>1 DEF AlarmTypes
<1>3. queue \in [Queues -> Seq(Alarms)] /\ expires \in [Alarms -> Int]
  BY <1>0 DEF AlarmTypes
<1>4. timer' \in [Queues -> Timers]
  BY <1>0, <1>1, <1>3, UpdateTimersType
<1>5. AlarmTypes'
  BY <1>0, <1>1, <1>2, <1>4 DEF AlarmTypes, Timers
<1>6. device = "on" /\ ~ suspended
  BY <1>0, <1>1 DEF Phases
<1>7. Phases'
  BY <1>0, <1>1, <1>2, <1>6 DEF Phases
<1>8. QueuesOrdered'
  BY <1>0, <1>1, SameQueues
<1>9. TimersSet'
  <2>1. ASSUME NEW p \in WallQueues, NEW x \in Range(queue[p])
        PROVE  ArmedFor(p, x)'
    <3>1. queue[p] # << >> /\ p \in Queues
      BY <2>1, RangeEmpty
    <3>2. timer'[p] = Armed(p, queue, expires)
      BY <1>1, <1>6, <3>1 DEF UpdateTimers
    <3>3. Armed(p, queue, expires).on
            /\ Armed(p, queue, expires).expires <= Delta(p) + expires[x]
      BY <1>0, <1>3, <2>1, <3>1, ArmedForAll DEF QueuesOrdered
    <3>4. Delta(p)' = Delta(p)
      BY <1>1 DEF Delta
    <3> QED BY <1>1, <3>2, <3>3, <3>4 DEF ArmedFor
  <2> QED BY <1>1, <1>6, <2>1 DEF TimersSet
<1>10. RtcSet'
  BY <1>0, <1>1, <1>6 DEF RtcSet
<1> QED BY <1>5, <1>7, <1>8, <1>9, <1>10 DEF AlarmInv

LEMMA EndKeeps ==
  ASSUME AlarmInv, EndSetRtc
  PROVE  AlarmInv'
<1>0. AlarmTypes /\ Phases /\ QueuesOrdered /\ TimersSet /\ RtcSet
  BY DEF AlarmInv
<1>1. /\ setting.at = "unlock" /\ setting' = NotSetting
      /\ stopped' = stopped /\ device' = device /\ suspended' = suspended
      /\ wall' = wall /\ timer' = timer
      /\ queue' = queue /\ expires' = expires /\ rtc_alarm' = rtc_alarm
      /\ real' = real /\ since' = since /\ delta' = delta
  BY DEF EndSetRtc, powerVars, clockVars
<1>2. AlarmTypes'
  BY <1>0, <1>1 DEF AlarmTypes, NotSetting
<1>3. Phases'
  BY <1>0, <1>1 DEF Phases, NotSetting
<1>4. QueuesOrdered'
  BY <1>0, <1>1, SameQueues
<1>5. \A p \in Queues : Delta(p)' = Delta(p)
  BY <1>1 DEF Delta
<1>6. TimersSet'
  BY <1>0, <1>1, <1>5 DEF TimersSet, ArmedFor
<1>7. RtcSet'
  BY <1>0, <1>1 DEF RtcSet, Phases
<1> QED BY <1>2, <1>3, <1>4, <1>6, <1>7 DEF AlarmInv

LEMMA SetSuspendedKeeps ==
  ASSUME AlarmInv, SetSuspended
  PROVE  AlarmInv'
<1>0. AlarmTypes /\ Phases /\ QueuesOrdered /\ TimersSet /\ RtcSet
  BY DEF AlarmInv
<1>1. /\ device = "on" /\ setting.at = "none" /\ device' = "entering"
      /\ suspended' /\ suspended' \in BOOLEAN /\ setting' = setting
      /\ stopped' = stopped /\ wall' = wall /\ timer' = timer
      /\ queue' = queue /\ expires' = expires /\ rtc_alarm' = rtc_alarm
      /\ real' = real /\ since' = since /\ delta' = delta
  BY DEF SetSuspended, clockVars
<1>2. AlarmTypes'
  BY <1>0, <1>1 DEF AlarmTypes
<1>3. Phases'
  BY <1>0, <1>1 DEF Phases
<1>4. QueuesOrdered'
  BY <1>0, <1>1, SameQueues
<1>5. \A p \in Queues : Delta(p)' = Delta(p)
  BY <1>1 DEF Delta
<1>6. ~ suspended /\ ~ stopped
  BY <1>0, <1>1 DEF Phases
<1>7. \A p \in WallQueues : \A x \in Range(queue[p]) : ArmedFor(p, x)
  BY <1>0, <1>6 DEF TimersSet
<1>8. TimersSet'
  BY <1>1, <1>5, <1>7 DEF TimersSet, ArmedFor
<1>9. RtcSet'
  BY <1>0, <1>1 DEF RtcSet
<1> QED BY <1>2, <1>3, <1>4, <1>8, <1>9 DEF AlarmInv

(* Of the two wakeup queues that have alarms one is due first.             *)
LEMMA WakeupQueueExists ==
  ASSUME AlarmTypes, NEW p \in WakeupQueues, queue[p] # << >>
  PROVE  WakeupQueue # {}
<1>1. \A q \in WakeupQueues : timer[q].expires \in Int
  BY SMTT(30) DEF AlarmTypes
<1> QED BY <1>1 DEF WakeupQueue

(* Only the timer of the queue RTC_WAKEUP, and that of SYSTEMTIME instead  *)
(* of the other wakeup queue, is cancelled.                                *)
LEMMA CancelledTimers ==
  ASSUME AlarmTypes
  PROVE  /\ Cancelled \in [Queues -> Timers]
         /\ Cancelled[RTC] = timer[RTC]
         /\ Cancelled[ELAPSED_REALTIME] = timer[ELAPSED_REALTIME]
<1>1. timer \in [Queues -> Timers]
  BY DEF AlarmTypes, Timers
<1>2. \A q \in Queues : [timer[q] EXCEPT !.on = FALSE] \in Timers
  BY <1>1 DEF Timers
<1> QED BY <1>1, <1>2 DEF Cancelled, ELAPSED_REALTIME_WAKEUP_MASK

LEMMA SuspendKeeps ==
  ASSUME AlarmInv, alarm_suspend
  PROVE  AlarmInv'
<1> DEFINE due == {timer[q].expires : q \in WakeupQueue}
<1>0. AlarmTypes /\ Phases /\ QueuesOrdered /\ TimersSet /\ RtcSet
  BY DEF AlarmInv
<1>1. /\ device = "entering" /\ setting' = setting
      /\ stopped' = stopped /\ wall' = wall
      /\ queue' = queue /\ expires' = expires
      /\ real' = real /\ delta' = delta
  BY DEF alarm_suspend, clockVars
<1>2. \A p \in Queues : Delta(p)' = Delta(p)
  BY <1>1 DEF Delta
<1>3. ~ stopped /\ setting.at = "none" /\ suspended /\ ~ rtc_alarm.enabled
  BY <1>0, <1>1 DEF Phases, RtcSet
<1>4. QueuesOrdered'
  BY <1>0, <1>1, SameQueues
<1>5. \A p \in WallQueues \ WakeupQueues : \A x \in Range(queue[p]) :
        ArmedFor(p, x)
  BY <1>0, <1>3 DEF TimersSet
<1>6. CASE \E t \in due : wall + 1 >= t
  <2>1. /\ timer' = [q \in Queues |->
             IF q \in WakeupQueues /\ queue[q] # << >>
               THEN Armed(q, queue, expires) ELSE Cancelled[q]]
        /\ rtc_alarm' = NoAlarm /\ device' = "on"
        /\ ~ suspended' /\ suspended' \in BOOLEAN /\ since' = since
    BY <1>6 DEF alarm_suspend
  <2>2. queue \in [Queues -> Seq(Alarms)] /\ expires \in [Alarms -> Int]
    BY <1>0 DEF AlarmTypes
  <2>3. timer' \in [Queues -> Timers]
    <3>1. \A q \in Queues :
            queue[q] # << >> => Armed(q, queue, expires) \in Timers
      BY <1>0, <2>2, ArmedForAll
    <3>2. \A q \in Queues : Cancelled[q] \in Timers
      BY <1>0, CancelledTimers
    <3> QED BY <2>1, <3>1, <3>2
  <2>4. AlarmTypes'
    BY <1>0, <1>1, <2>1, <2>3 DEF AlarmTypes, Timers, NoAlarm
  <2>5. Phases'
    BY <1>0, <1>1, <1>3, <2>1 DEF Phases
  <2>6. TimersSet'
    <3>1. ASSUME NEW p \in WallQueues, NEW x \in Range(queue[p])
          PROVE  ArmedFor(p, x)'
      <4>1. CASE p \in WakeupQueues
        <5>1. queue[p] # << >> /\ p \in Queues
          BY <3>1, RangeEmpty
        <5>2. timer'[p] = Armed(p, queue, expires)
          BY <2>1, <4>1, <5>1
        <5>3. Armed(p, queue, expires).on
                /\ Armed(p, queue, expires).expires <= Delta(p) + expires[x]
          BY <1>0, <2>2, <3>1, <5>1, ArmedForAll DEF QueuesOrdered
        <5> QED BY <1>1, <1>2, <5>1, <5>2, <5>3 DEF ArmedFor
      <4>2. CASE p \notin WakeupQueues
        <5>1. p \in {RTC, ELAPSED_REALTIME} /\ p \in Queues
          BY <4>2
        <5>2. timer'[p] = timer[p]
          BY <1>0, <2>1, <4>2, <5>1, CancelledTimers
        <5>3. ArmedFor(p, x)
          BY <1>5, <3>1, <4>2
        <5> QED BY <1>1, <1>2, <5>1, <5>2, <5>3 DEF ArmedFor
      <4> QED BY <4>1, <4>2
    <3> QED BY <1>1, <2>1, <3>1 DEF TimersSet
  <2>7. RtcSet'
    BY <2>1 DEF RtcSet, NoAlarm
  <2> QED BY <1>4, <2>4, <2>5, <2>6, <2>7 DEF AlarmInv
<1>7. CASE ~ \E t \in due : wall + 1 >= t
  <2>1. /\ timer' = Cancelled
        /\ rtc_alarm' = IF due = {} THEN rtc_alarm
                        ELSE [enabled |-> TRUE, time |-> CHOOSE t \in due : TRUE]
        /\ device' = "suspending" /\ since' = real /\ suspended' = suspended
    BY <1>7 DEF alarm_suspend
  <2>2. due \subseteq Int
    BY <1>0 DEF AlarmTypes, WakeupQueue
  <2>3. \/ /\ due = {} /\ rtc_alarm' = rtc_alarm
        \/ /\ rtc_alarm' \in [enabled : BOOLEAN, time : Int]
           /\ rtc_alarm'.enabled /\ rtc_alarm'.time \in due
    <3> HIDE DEF due
    <3> DEFINE c == CHOOSE t \in due : TRUE
    <3>1. due # {} => c \in due
      OBVIOUS
    <3> HIDE DEF c
    <3>2. due # {} => rtc_alarm' = [enabled |-> TRUE, time |-> c]
      BY <2>1 DEF c
    <3> QED BY <2>1, <2>2, <3>1, <3>2
  <2>4. AlarmTypes'
    <3>1. timer' \in [Queues -> Timers]
      BY <1>0, <2>1, CancelledTimers
    <3>2. rtc_alarm' \in [enabled : BOOLEAN, time : Int]
      BY <1>0, <2>3 DEF AlarmTypes
    <3>3. since' \in Int
      BY <1>0, <2>1 DEF AlarmTypes
    <3> QED BY <1>0, <1>1, <2>1, <3>1, <3>2, <3>3 DEF AlarmTypes, Timers
  <2>5. Phases'
    BY <1>0, <1>1, <1>3, <2>1 DEF Phases
  <2>6. TimersSet'
    <3>1. ASSUME NEW p \in WallQueues, p \notin WakeupQueues,
                 NEW x \in Range(queue[p])
          PROVE  ArmedFor(p, x)'
      <4>1. p \in {RTC, ELAPSED_REALTIME} /\ p \in Queues
        BY <3>1
      <4>2. timer'[p] = timer[p]
        BY <1>0, <2>1, <4>1, CancelledTimers
      <4>3. ArmedFor(p, x)
        BY <1>5, <3>1
      <4> QED BY <1>1, <1>2, <4>1, <4>2, <4>3 DEF ArmedFor
    <3> QED BY <1>1, <1>3, <2>1, <3>1 DEF TimersSet
  <2>7. RtcSet'
    <3>1. \A t \in due : t \in Int /\ t >= wall + 2
      <4> HIDE DEF due
      <4>1. wall \in Int
        BY <1>0 DEF AlarmTypes
      <4> QED BY <1>7, <2>2, <4>1
    <3>2. rtc_alarm'.enabled =>
            rtc_alarm'.time - wall' + (real' - since') >= 2
      <4> HIDE DEF due
      <4>1. wall \in Int /\ real \in Int
        BY <1>0 DEF AlarmTypes
      <4>2. rtc_alarm'.enabled => rtc_alarm'.time \in due
        BY <1>3, <2>3
      <4>3. ASSUME rtc_alarm'.enabled
            PROVE  rtc_alarm'.time - wall' + (real' - since') >= 2
        <5>1. rtc_alarm'.time \in Int /\ rtc_alarm'.time >= wall + 2
          BY <3>1, <4>2, <4>3
        <5>2. rtc_alarm'.time - wall + (real - real) >= 2
          BY <4>1, <5>1
        <5> QED BY <1>1, <2>1, <5>2
      <4> QED BY <4>3
    <3>3. ASSUME NEW p \in WakeupQueues, NEW x \in Range(queue[p])
          PROVE  rtc_alarm'.enabled /\ rtc_alarm'.time <= Delta(p) + expires[x]
      <4>1. queue[p] # << >> /\ p \in Queues /\ queue[p] \in Seq(Alarms)
        BY <1>0, <3>3, RangeEmpty DEF AlarmTypes
      <4>2. WakeupQueue # {}
        BY <1>0, <4>1, WakeupQueueExists
      <4>3. rtc_alarm'.enabled /\ rtc_alarm'.time \in due
        BY <2>3, <4>2
      <4>4. PICK q \in WakeupQueue : rtc_alarm'.time = timer[q].expires
        BY <4>3
      <4>5. timer[q].expires <= timer[p].expires /\ q \in Queues
        BY <3>3, <4>1 DEF WakeupQueue
      <4>6. timer[p].expires <= Delta(p) + expires[x]
        BY <1>0, <1>1, <3>3 DEF TimersSet
      <4>7. /\ timer[q].expires \in Int /\ timer[p].expires \in Int
            /\ Delta(p) \in Int /\ expires[x] \in Int
        BY <1>0, <3>3, <4>1, <4>5, DeltaInt, RangeOfSeq DEF AlarmTypes
      <4> QED BY <4>3, <4>4, <4>5, <4>6, <4>7
    <3>4. \A p \in WakeupQueues : \A x \in Range(queue'[p]) :
            rtc_alarm'.enabled /\ rtc_alarm'.time <= Delta(p)' + expires'[x]
      BY <1>1, <1>2, <3>3
    <3>5. Covered'
      BY <3>4 DEF Covered
    <3> QED BY <2>1, <3>2, <3>5 DEF RtcSet
  <2> QED BY <1>4, <2>4, <2>5, <2>6, <2>7 DEF AlarmInv
<1> QED BY <1>6, <1>7

LEMMA SleepKeeps ==
  ASSUME AlarmInv, Sleep
  PROVE  AlarmInv'
<1>0. AlarmTypes /\ Phases /\ QueuesOrdered /\ TimersSet /\ RtcSet
  BY DEF AlarmInv
<1>1. /\ device = "suspending" /\ ~ LockHeld /\ device' = "asleep"
      /\ slept' = real
      /\ suspended' = suspended /\ setting' = setting
      /\ stopped' = stopped /\ wall' = wall /\ timer' = timer
      /\ queue' = queue /\ expires' = expires /\ rtc_alarm' = rtc_alarm
      /\ real' = real /\ since' = since /\ delta' = delta
  BY DEF Sleep, clockVars
<1>2. AlarmTypes'
  BY <1>0, <1>1 DEF AlarmTypes
<1>3. Phases'
  BY <1>0, <1>1 DEF Phases
<1>4. QueuesOrdered'
  BY <1>0, <1>1, SameQueues
<1>5. \A p \in Queues : Delta(p)' = Delta(p)
  BY <1>1 DEF Delta
<1>6. TimersSet'
  BY <1>0, <1>1, <1>5 DEF TimersSet, ArmedFor
<1>7. RtcSet'
  <2>1. Covered => Covered'
    BY <1>1, <1>5 DEF Covered
  <2> QED BY <1>0, <1>1, <2>1 DEF RtcSet
<1> QED BY <1>2, <1>3, <1>4, <1>6, <1>7 DEF AlarmInv

LEMMA ResumeKeeps ==
  ASSUME AlarmInv, alarm_resume
  PROVE  AlarmInv'
<1>0. AlarmTypes /\ Phases /\ QueuesOrdered /\ TimersSet /\ RtcSet
  BY DEF AlarmInv
<1>1. /\ device \in {"suspending", "asleep", "resuming"} /\ device' = "on"
      /\ ~ suspended' /\ suspended' \in BOOLEAN /\ rtc_alarm' = NoAlarm
      /\ since' = 0 /\ UpdateTimers(WakeupQueues, queue, expires, FALSE, stopped)
      /\ setting' = setting /\ stopped' = stopped /\ wall' = wall
      /\ queue' = queue /\ expires' = expires
      /\ real' = real /\ delta' = delta
  BY DEF alarm_resume, clockVars
<1>2. ~ stopped /\ setting.at = "none" /\ suspended
  BY <1>0, <1>1 DEF Phases
<1>3. queue \in [Queues -> Seq(Alarms)] /\ expires \in [Alarms -> Int]
  BY <1>0 DEF AlarmTypes
<1>4. timer' \in [Queues -> Timers]
  BY <1>0, <1>1, <1>3, UpdateTimersType
<1>5. AlarmTypes'
  BY <1>0, <1>1, <1>4 DEF AlarmTypes, Timers, NoAlarm
<1>6. Phases'
  BY <1>0, <1>1, <1>2 DEF Phases
<1>7. QueuesOrdered'
  BY <1>0, <1>1, SameQueues
<1>8. TimersSet'
  <2>1. ASSUME NEW p \in WallQueues, NEW x \in Range(queue[p])
        PROVE  ArmedFor(p, x)'
    <3>0. p \in Queues /\ Delta(p)' = Delta(p)
      BY <1>1 DEF Delta
    <3>1. CASE p \in WakeupQueues
      <4>1. queue[p] # << >>
        BY <2>1, RangeEmpty
      <4>2. timer'[p] = Armed(p, queue, expires)
        BY <1>1, <1>2, <3>0, <3>1, <4>1 DEF UpdateTimers
      <4>3. Armed(p, queue, expires).on
              /\ Armed(p, queue, expires).expires <= Delta(p) + expires[x]
        BY <1>0, <1>3, <2>1, <3>0, <4>1, ArmedForAll DEF QueuesOrdered
      <4> QED BY <1>1, <3>0, <4>2, <4>3 DEF ArmedFor
    <3>2. CASE p \notin WakeupQueues
      <4>1. timer'[p] = timer[p]
        BY <1>1, <3>0, <3>2 DEF UpdateTimers
      <4>2. ArmedFor(p, x)
        BY <1>0, <1>2, <2>1, <3>2 DEF TimersSet
      <4> QED BY <1>1, <3>0, <4>1, <4>2 DEF ArmedFor
    <3> QED BY <3>1, <3>2
  <2> QED BY <1>1, <2>1 DEF TimersSet
<1>9. RtcSet'
  BY <1>1 DEF RtcSet, NoAlarm
<1> QED BY <1>5, <1>6, <1>7, <1>8, <1>9 DEF AlarmInv

LEMMA RtcTriggeredKeeps ==
  ASSUME AlarmInv, alarm_triggered_func
  PROVE  AlarmInv'
<1>0. AlarmTypes /\ Phases /\ QueuesOrdered /\ TimersSet /\ RtcSet
  BY DEF AlarmInv
<1>1. /\ rtc_alarm.enabled /\ rtc_alarm.time <= wall /\ rtc_alarm' = NoAlarm
      /\ device' = IF device = "asleep" THEN "resuming" ELSE device
      /\ lock_until' = real + 1
      /\ suspended' = suspended /\ setting' = setting
      /\ stopped' = stopped /\ wall' = wall /\ timer' = timer
      /\ queue' = queue /\ expires' = expires
      /\ real' = real /\ since' = since /\ delta' = delta
  BY DEF alarm_triggered_func, clockVars
<1>2. device' \in {"suspending", "resuming"} /\ device # "on"
  BY <1>0, <1>1 DEF RtcSet, AlarmTypes
<1>3. AlarmTypes'
  BY <1>0, <1>1, <1>2 DEF AlarmTypes, NoAlarm
<1>4. Phases'
  BY <1>0, <1>1, <1>2 DEF Phases
<1>5. QueuesOrdered'
  BY <1>0, <1>1, SameQueues
<1>6. \A p \in Queues : Delta(p)' = Delta(p)
  BY <1>1 DEF Delta
<1>7. TimersSet'
  BY <1>0, <1>1, <1>2, <1>6 DEF TimersSet, ArmedFor
<1>8. RtcSet'
  <2>1. real - since >= 2
    BY <1>0, <1>1, SMTT(30) DEF RtcSet, AlarmTypes
  <2>2. LockHeld'
    BY <1>0, <1>1 DEF LockHeld, AlarmTypes
  <2> QED BY <1>1, <1>2, <2>1, <2>2 DEF RtcSet, NoAlarm
<1> QED BY <1>3, <1>4, <1>5, <1>7, <1>8 DEF AlarmInv

LEMMA TickKeeps ==
  ASSUME AlarmInv, Tick
  PROVE  AlarmInv'
<1>0. AlarmTypes /\ Phases /\ QueuesOrdered /\ TimersSet /\ RtcSet
  BY DEF AlarmInv
<1>1. /\ real' = real + 1 /\ wall' = wall + 1 /\ device' = device
      /\ suspended' = suspended /\ setting' = setting
      /\ stopped' = stopped /\ timer' = timer
      /\ queue' = queue /\ expires' = expires /\ rtc_alarm' = rtc_alarm
      /\ since' = since /\ slept' = slept /\ delta' = delta
  BY DEF Tick, powerVars
<1>2. AlarmTypes'
  BY <1>0, <1>1 DEF AlarmTypes
<1>3. Phases'
  BY <1>0, <1>1 DEF Phases
<1>4. QueuesOrdered'
  BY <1>0, <1>1, SameQueues
<1>5. \A p \in Queues : Delta(p)' = Delta(p)
  BY <1>1 DEF Delta
<1>6. TimersSet'
  BY <1>0, <1>1, <1>5 DEF TimersSet, ArmedFor
<1>7. RtcSet'
  <2>1. real - since >= 2 => real' - since' >= 3 /\ real' - since' >= 2
    BY <1>0, <1>1 DEF AlarmTypes
  <2>2. rtc_alarm.enabled => rtc_alarm'.time - wall' + (real' - since') >= 2
    BY <1>0, <1>1, SMTT(30) DEF AlarmTypes, RtcSet
  <2>3. Covered => Covered'
    BY <1>1, <1>5 DEF Covered
  <2> QED BY <1>0, <1>1, <2>1, <2>2, <2>3 DEF RtcSet
<1> QED BY <1>2, <1>3, <1>4, <1>6, <1>7 DEF AlarmInv

-----------------------------------------------------------------------------
(* The theorems.                                                           *)

LEMMA AlarmStep ==
  ASSUME AlarmInv, [AlarmNext]_alarmVars PROVE AlarmInv'
<1>1. CASE UNCHANGED alarmVars
  <2>1. /\ real' = real /\ wall' = wall /\ device' = device
        /\ suspended' = suspended /\ setting' = setting
        /\ stopped' = stopped /\ timer' = timer
        /\ queue' = queue /\ expires' = expires /\ rtc_alarm' = rtc_alarm
        /\ since' = since /\ slept' = slept /\ delta' = delta
        /\ lock_until' = lock_until
    BY <1>1 DEF alarmVars
  <2>2. \A p \in Queues : Delta(p)' = Delta(p)
    BY <2>1 DEF Delta
  <2>3. AlarmTypes' /\ Phases' /\ QueuesOrdered'
    BY <2>1 DEF AlarmInv, AlarmTypes, Phases, QueuesOrdered
  <2>4. TimersSet'
    BY <2>1, <2>2 DEF AlarmInv, TimersSet, ArmedFor
  <2>5. RtcSet'
    BY <2>1, <2>2 DEF AlarmInv, RtcSet, Covered, LockHeld
  <2> QED BY <2>3, <2>4, <2>5 DEF AlarmInv
<1>2. CASE AlarmNext
  BY <1>2, StartKeeps, CancelKeeps, TriggeredKeeps, BeginKeeps, SettimeKeeps,
     RestartKeeps, EndKeeps, SetSuspendedKeeps, SuspendKeeps, SleepKeeps,
     ResumeKeeps, RtcTriggeredKeeps, TickKeeps
     DEF AlarmNext
<1> QED BY <1>1, <1>2

(* The queues stay in the order of expiry without duplicates, and timers   *)
(* and RTC stay set for them, through every step of the driver.            *)
THEOREM AlarmInvariance == AlarmSpec => []AlarmInv
<1>1. AlarmInit => AlarmInv
  BY AlarmInitial
<1>2. AlarmInv /\ [AlarmNext]_alarmVars => AlarmInv'
  BY AlarmStep
<1> QED BY <1>1, <1>2, PTL DEF AlarmSpec

LEMMA WallQueuesArmed ==
  ASSUME AlarmInv PROVE \A q \in WallQueues : QueueArmed(q)
BY DEF AlarmInv, TimersSet, QueueArmed, Stopped

(* No alarm of the four wall-clock queues is forgotten (update_timer_locked *)
(* and its callers), whatever is enqueued, cancelled, expires, and whether  *)
(* the time is set or a suspend is refused, fails or is woken from.         *)
THEOREM WallTimersArmed ==
  AlarmSpec => [](\A q \in WallQueues : QueueArmed(q))
<1>1. AlarmInv => \A q \in WallQueues : QueueArmed(q)
  BY WallQueuesArmed
<1> QED BY <1>1, AlarmInvariance, PTL

(* TimerArmed, as long as no alarm is of the queue SYSTEMTIME, whose timer *)
(* alarm_suspend cancels by mistake for ELAPSED_REALTIME_WAKEUP.           *)
THEOREM TimersArmed ==
  ASSUME \A a \in Alarms : Type[a] # SYSTEMTIME
  PROVE  AlarmSpec => []TimerArmed
<1>1. ASSUME AlarmInv PROVE TimerArmed
  <2>1. QueueArmed(SYSTEMTIME)
    <3>1. queue[SYSTEMTIME] \in Seq(Alarms) /\ OfType(queue[SYSTEMTIME], SYSTEMTIME)
      BY <1>1 DEF AlarmInv, AlarmTypes, QueuesOrdered
    <3>2. Range(queue[SYSTEMTIME]) \subseteq Alarms
      BY <3>1, RangeOfSeq
    <3>3. Range(queue[SYSTEMTIME]) = {}
      BY <3>1, <3>2 DEF OfType
    <3> QED BY <3>3 DEF QueueArmed
  <2>2. \A q \in Queues : q \in WallQueues \/ q = SYSTEMTIME
    OBVIOUS
  <2> QED BY <1>1, <2>1, <2>2, WallQueuesArmed DEF TimerArmed
<1> QED BY <1>1, AlarmInvariance, PTL

(* The device sleeps through no wakeup alarm: whenever it is asleep, the   *)
(* RTC is set for the first alarm of both wakeup queues or earlier, unless *)
(* the drivers behind alarm_suspend took three seconds to suspend.         *)
THEOREM RtcAlwaysArmed == AlarmSpec => []RtcArmed
<1>1. AlarmInv => RtcArmed
  BY DEF AlarmInv, RtcSet, RtcArmed
<1> QED BY <1>1, AlarmInvariance, PTL

LEMMA ElapsedStep ==
  ASSUME SettimeFails = FALSE, AlarmInv, ElapsedInv, [AlarmNext]_alarmVars
  PROVE  ElapsedInv'
<1>0. /\ real \in Int /\ wall \in Int /\ delta \in Int /\ setting.time \in Int
      /\ setting \in [at : {"none", "settime", "restart", "unlock"}, time : Int]
  BY DEF AlarmInv, AlarmTypes
<1>1. ASSUME NEW t \in Times, BeginSetRtc(t) PROVE ElapsedInv'
  <2>1. /\ setting.at = "none" /\ setting'.at = "settime" /\ setting'.time = t
        /\ delta' = delta - (wall - t) /\ real' = real /\ t \in Int
        /\ lost' = lost
    BY <1>1, AlarmAssumption DEF BeginSetRtc
  <2> QED BY <1>0, <2>1 DEF ElapsedInv
<1>2. ASSUME do_settimeofday PROVE ElapsedInv'
  <2>1. /\ setting.at = "settime" /\ setting'.at = "restart"
        /\ wall' = setting.time /\ delta' = delta /\ real' = real
        /\ lost' = lost
    BY <1>0, <1>2 DEF do_settimeofday
  <2> QED BY <1>0, <2>1 DEF ElapsedInv
<1>3. ASSUME RestartTimers \/ EndSetRtc PROVE ElapsedInv'
  <2>1. /\ setting.at # "settime" /\ setting'.at # "settime"
        /\ wall' = wall /\ delta' = delta /\ real' = real /\ lost' = lost
    <3>1. CASE RestartTimers
      BY <1>0, <3>1 DEF RestartTimers, clockVars
    <3>2. CASE EndSetRtc
      BY <3>2 DEF EndSetRtc, clockVars, NotSetting
    <3> QED BY <1>3, <3>1, <3>2
  <2> QED BY <2>1 DEF ElapsedInv
<1>4. ASSUME Tick PROVE ElapsedInv'
  <2>1. /\ lost' = IF setting.at = "settime" THEN lost + 1 ELSE lost
        /\ setting' = setting /\ wall' = wall + 1 /\ delta' = delta /\ real' = real + 1
    BY <1>4 DEF Tick
  <2> QED BY <1>0, <2>1 DEF ElapsedInv
<1>5. ASSUME \/ \E a \in Alarms, t \in Times : alarm_start_range(a, t)
             \/ \E a \in Alarms : alarm_try_to_cancel(a)
             \/ \E q \in Queues : alarm_timer_triggered(q)
             \/ SetSuspended \/ alarm_suspend \/ Sleep \/ alarm_resume
             \/ alarm_triggered_func \/ UNCHANGED alarmVars
      PROVE  ElapsedInv'
  <2>1. /\ setting' = setting /\ wall' = wall /\ delta' = delta
        /\ real' = real /\ lost' = lost
    <3>1. \A a \in Alarms, t \in Times :
            alarm_start_range(a, t) => UNCHANGED <<clockVars, setting>>
      BY DEF alarm_start_range
    <3>2. \A a \in Alarms :
            alarm_try_to_cancel(a) => UNCHANGED <<clockVars, setting>>
      BY DEF alarm_try_to_cancel
    <3>3. \A q \in Queues :
            alarm_timer_triggered(q) => UNCHANGED <<clockVars, setting>>
      BY DEF alarm_timer_triggered
    <3>4. SetSuspended \/ Sleep \/ alarm_resume \/ alarm_triggered_func =>
            UNCHANGED <<clockVars, setting>>
      BY DEF SetSuspended, Sleep, alarm_resume, alarm_triggered_func
    <3>5. alarm_suspend => UNCHANGED <<clockVars, setting>>
      BY DEF alarm_suspend
    <3>6. UNCHANGED alarmVars => UNCHANGED <<clockVars, setting>>
      BY DEF alarmVars, clockVars
    <3>7. UNCHANGED <<clockVars, setting>>
      BY <1>5, <3>1, <3>2, <3>3, <3>4, <3>5, <3>6
    <3> QED BY <3>7 DEF clockVars
  <2> QED BY <2>1 DEF ElapsedInv
<1> QED BY <1>1, <1>2, <1>3, <1>4, <1>5 DEF AlarmNext

(* Where do_settimeofday does not refuse the time, setting the RTC neither *)
(* loses nor gains elapsed time but for what passes between reading and    *)
(* setting the wall time (alarm_set_rtc).                                  *)
THEOREM ElapsedTimeKept ==
  ASSUME SettimeFails = FALSE
  PROVE  AlarmSpec => []ElapsedKept
<1>1. AlarmInit => ElapsedInv
  BY AlarmAssumption DEF AlarmInit, alarm_driver_init, ElapsedInv, NotSetting
<1>2. AlarmInv /\ ElapsedInv /\ [AlarmNext]_alarmVars => ElapsedInv'
  BY ElapsedStep
<1>3. AlarmInv /\ ElapsedInv => ElapsedKept
  BY DEF AlarmInv, Phases, ElapsedInv, ElapsedKept, alarm_get_elapsed_realtime
<1> QED BY <1>1, <1>2, <1>3, AlarmInvariance, PTL DEF AlarmSpec

-----------------------------------------------------------------------------
(* The alarm device.                                                       *)

(* A thread inside a wait, or handling an alarm, uses the owner's file,    *)
(* and that file is not being closed.                                      *)
UsersOwn ==
  \A t \in Threads :
    /\ at[t] # "user" => t \in Waiters /\ File[t] = owner
                           /\ closing = NotClosing
    /\ t \in handling => File[t] = owner /\ closing = NotClosing

(* The lock is held only for somebody who will release it.                 *)
HeldForSomeone == lock = "held" => alarm_pending # {} \/ wait_pending

(* What alarm_release has done so far, and what it leaves.                 *)
ClosingDone ==
  /\ closing # NotClosing => owner # NoFile
  /\ closing # NotClosing => \A a \in started : a >= closing
  /\ owner = NoFile => started = {} /\ lock # "held" /\ wait_pending = FALSE

DevInv ==
  /\ AlarmDevTypeOK
  /\ PendingLocked
  /\ HandedOver
  /\ UsersOwn
  /\ HeldForSomeone
  /\ ClosingDone

USE DEF Types, TIME_CHANGE, NotClosing

LEMMA FileIsFile == \A t \in Threads : File[t] \in Files /\ File[t] # NoFile
BY AlarmDevAssumption DEF Files

LEMMA DevInitial == alarm_dev_init => DevInv
<1> SUFFICES ASSUME alarm_dev_init PROVE DevInv
  OBVIOUS
<1>1. AlarmDevTypeOK
  <2>1. (owner \in Files \cup {NoFile})
    BY AlarmDevAssumption DEF alarm_dev_init
  <2>2. (alarm_pending \subseteq Types \cup {TIME_CHANGE})
    BY AlarmDevAssumption DEF alarm_dev_init
  <2>3. (alarm_enabled \subseteq started /\ started \subseteq Types)
    BY AlarmDevAssumption DEF alarm_dev_init
  <2>4. (wait_pending \in BOOLEAN)
    BY AlarmDevAssumption DEF alarm_dev_init
  <2>5. (lock \in {"free", "held", "expired"})
    BY AlarmDevAssumption DEF alarm_dev_init
  <2>6. (at \in [Threads -> {"user", "wait", "waiting", "collect"}])
    BY AlarmDevAssumption DEF alarm_dev_init
  <2>7. (handling \subseteq Waiters)
    BY AlarmDevAssumption DEF alarm_dev_init
  <2>8. (closing \in 0 .. NotClosing)
    BY AlarmDevAssumption DEF alarm_dev_init
  <2> QED BY <2>1, <2>2, <2>3, <2>4, <2>5, <2>6, <2>7, <2>8 DEF AlarmDevTypeOK
<1>2. PendingLocked
  BY AlarmDevAssumption DEF alarm_dev_init, PendingLocked
<1>3. HandedOver
  BY AlarmDevAssumption DEF alarm_dev_init, HandedOver
<1>4. UsersOwn
  BY AlarmDevAssumption DEF alarm_dev_init, UsersOwn
<1>5. HeldForSomeone
  BY AlarmDevAssumption DEF alarm_dev_init, HeldForSomeone
<1>6. ClosingDone
  BY AlarmDevAssumption DEF alarm_dev_init, ClosingDone
<1> QED BY <1>1, <1>2, <1>3, <1>4, <1>5, <1>6 DEF DevInv

(* A clear: the lock goes only with the last pending alarm, and not while  *)
(* a thread handles one.                                                   *)
LEMMA ClearStep ==
  ASSUME DevInv, NEW t \in Threads, NEW a \in Types, ALARM_CLEAR(t, a)
  PROVE  DevInv'
<1>1. AlarmDevTypeOK'
  BY AlarmDevAssumption
     DEF ALARM_CLEAR, Claim, DevInv, AlarmDevTypeOK, Files
<1>2. PendingLocked'
  BY AlarmDevAssumption
     DEF ALARM_CLEAR, Claim, DevInv, AlarmDevTypeOK, PendingLocked
<1>3. HandedOver'
  BY AlarmDevAssumption
     DEF ALARM_CLEAR, Claim, DevInv, AlarmDevTypeOK, HandedOver,
         PendingLocked, UsersOwn
<1>4. UsersOwn'
  BY FileIsFile, AlarmDevAssumption
     DEF ALARM_CLEAR, Claim, DevInv, AlarmDevTypeOK, UsersOwn
<1>5. HeldForSomeone'
  BY AlarmDevAssumption
     DEF ALARM_CLEAR, Claim, DevInv, AlarmDevTypeOK, HeldForSomeone
<1>6. ClosingDone'
  BY AlarmDevAssumption
     DEF ALARM_CLEAR, Claim, DevInv, AlarmDevTypeOK, ClosingDone,
         HeldForSomeone, Files
<1> QED BY <1>1, <1>2, <1>3, <1>4, <1>5, <1>6 DEF DevInv

LEMMA SetStep ==
  ASSUME DevInv, NEW t \in Threads, NEW a \in Types, NEW w \in BOOLEAN,
         w => t \in Waiters, ALARM_SET(t, a, w)
  PROVE  DevInv'
<1>1. AlarmDevTypeOK'
  BY AlarmDevAssumption
     DEF ALARM_SET, Claim, DevInv, AlarmDevTypeOK, Files
<1>2. PendingLocked'
  BY AlarmDevAssumption
     DEF ALARM_SET, Claim, DevInv, AlarmDevTypeOK, PendingLocked
<1>3. HandedOver'
  BY AlarmDevAssumption
     DEF ALARM_SET, Claim, DevInv, AlarmDevTypeOK, HandedOver,
         PendingLocked, UsersOwn
<1>4. UsersOwn'
  BY FileIsFile, AlarmDevAssumption
     DEF ALARM_SET, Claim, DevInv, AlarmDevTypeOK, UsersOwn
<1>5. HeldForSomeone'
  BY AlarmDevAssumption
     DEF ALARM_SET, Claim, DevInv, AlarmDevTypeOK, HeldForSomeone
<1>6. ClosingDone'
  BY AlarmDevAssumption
     DEF ALARM_SET, Claim, DevInv, AlarmDevTypeOK, ClosingDone,
         HeldForSomeone, Files
<1> QED BY <1>1, <1>2, <1>3, <1>4, <1>5, <1>6 DEF DevInv

LEMMA WaitStep ==
  ASSUME DevInv, NEW t \in Waiters, ALARM_WAIT(t) \/ WaitEnds(t)
  PROVE  DevInv'
<1>1. AlarmDevTypeOK'
  BY AlarmDevAssumption
     DEF ALARM_WAIT, WaitEnds, Claim, DevInv, AlarmDevTypeOK, Files
<1>2. PendingLocked'
  BY AlarmDevAssumption
     DEF ALARM_WAIT, WaitEnds, Claim, DevInv, AlarmDevTypeOK, PendingLocked
<1>3. HandedOver'
  BY AlarmDevAssumption
     DEF ALARM_WAIT, WaitEnds, Claim, DevInv, AlarmDevTypeOK, HandedOver,
         PendingLocked, UsersOwn
<1>4. UsersOwn'
  BY FileIsFile, AlarmDevAssumption
     DEF ALARM_WAIT, WaitEnds, Claim, DevInv, AlarmDevTypeOK, UsersOwn
<1>5. HeldForSomeone'
  BY AlarmDevAssumption
     DEF ALARM_WAIT, WaitEnds, Claim, DevInv, AlarmDevTypeOK, HeldForSomeone
<1>6. ClosingDone'
  BY AlarmDevAssumption
     DEF ALARM_WAIT, WaitEnds, Claim, DevInv, AlarmDevTypeOK, ClosingDone,
         HeldForSomeone, Files
<1> QED BY <1>1, <1>2, <1>3, <1>4, <1>5, <1>6 DEF DevInv

(* The thread that comes back is the only one that handles an alarm.       *)
LEMMA AcknowledgeStep ==
  ASSUME DevInv, NEW t \in Waiters, Acknowledge(t)
  PROVE  DevInv'
<1>0. handling' = {}
  BY AlarmDevAssumption, WaiterAssumption
     DEF Acknowledge, DevInv, AlarmDevTypeOK, UsersOwn
<1>1. AlarmDevTypeOK'
  BY <1>0, AlarmDevAssumption
     DEF Acknowledge, DevInv, AlarmDevTypeOK, Files
<1>2. PendingLocked'
  BY <1>0, AlarmDevAssumption
     DEF Acknowledge, DevInv, AlarmDevTypeOK, PendingLocked
<1>3. HandedOver'
  BY <1>0, AlarmDevAssumption
     DEF Acknowledge, DevInv, AlarmDevTypeOK, HandedOver, PendingLocked,
         UsersOwn
<1>4. UsersOwn'
  BY <1>0, FileIsFile, AlarmDevAssumption
     DEF Acknowledge, DevInv, AlarmDevTypeOK, UsersOwn
<1>5. HeldForSomeone'
  BY <1>0, AlarmDevAssumption
     DEF Acknowledge, DevInv, AlarmDevTypeOK, HeldForSomeone
<1>6. ClosingDone'
  BY <1>0, AlarmDevAssumption
     DEF Acknowledge, DevInv, AlarmDevTypeOK, ClosingDone,
         HeldForSomeone, Files
<1> QED BY <1>1, <1>2, <1>3, <1>4, <1>5, <1>6 DEF DevInv

LEMMA CollectStep ==
  ASSUME DevInv, NEW t \in Waiters, Collect(t)
  PROVE  DevInv'
<1>1. AlarmDevTypeOK'
  BY AlarmDevAssumption
     DEF Collect, DevInv, AlarmDevTypeOK, Files
<1>2. PendingLocked'
  BY AlarmDevAssumption
     DEF Collect, DevInv, AlarmDevTypeOK, PendingLocked
<1>3. HandedOver'
  BY AlarmDevAssumption
     DEF Collect, DevInv, AlarmDevTypeOK, HandedOver, PendingLocked, UsersOwn
<1>4. UsersOwn'
  BY FileIsFile, AlarmDevAssumption
     DEF Collect, DevInv, AlarmDevTypeOK, UsersOwn
<1>5. HeldForSomeone'
  BY AlarmDevAssumption
     DEF Collect, DevInv, AlarmDevTypeOK, HeldForSomeone
<1>6. ClosingDone'
  BY FileIsFile, AlarmDevAssumption
     DEF Collect, DevInv, AlarmDevTypeOK, ClosingDone, HeldForSomeone,
         UsersOwn
<1> QED BY <1>1, <1>2, <1>3, <1>4, <1>5, <1>6 DEF DevInv

LEMMA DeviceAlarmStep ==
  ASSUME DevInv, NEW a \in Types, alarm_triggered(a)
  PROVE  DevInv'
<1>1. AlarmDevTypeOK'
  <2>1. (owner \in Files \cup {NoFile})'
    BY AlarmDevAssumption DEF alarm_triggered, DevInv, AlarmDevTypeOK
  <2>2. (alarm_pending \subseteq Types \cup {TIME_CHANGE})'
    BY AlarmDevAssumption DEF alarm_triggered, DevInv, AlarmDevTypeOK
  <2>3. (alarm_enabled \subseteq started /\ started \subseteq Types)'
    <3>1. CASE a \in alarm_enabled
      <4>1. /\ alarm_enabled' = alarm_enabled \ {a}
            /\ started' = started \ {a}
        BY <3>1 DEF alarm_triggered
      <4>2. alarm_enabled \subseteq started /\ started \subseteq Types
        BY DEF DevInv, AlarmDevTypeOK
      <4> QED BY <4>1, <4>2
    <3>2. CASE a \notin alarm_enabled
      <4>1. alarm_enabled' = alarm_enabled /\ started' = started \ {a}
        BY <3>2 DEF alarm_triggered
      <4>2. alarm_enabled \subseteq started /\ started \subseteq Types
        BY DEF DevInv, AlarmDevTypeOK
      <4> QED BY <3>2, <4>1, <4>2
    <3> QED BY <3>1, <3>2
  <2>4. (wait_pending \in BOOLEAN)'
    BY AlarmDevAssumption DEF alarm_triggered, DevInv, AlarmDevTypeOK
  <2>5. (lock \in {"free", "held", "expired"})'
    BY AlarmDevAssumption DEF alarm_triggered, DevInv, AlarmDevTypeOK
  <2>6. (at \in [Threads -> {"user", "wait", "waiting", "collect"}])'
    BY AlarmDevAssumption DEF alarm_triggered, DevInv, AlarmDevTypeOK
  <2>7. (handling \subseteq Waiters)'
    BY AlarmDevAssumption DEF alarm_triggered, DevInv, AlarmDevTypeOK
  <2>8. (closing \in 0 .. NotClosing)'
    BY AlarmDevAssumption DEF alarm_triggered, DevInv, AlarmDevTypeOK
  <2> QED BY <2>1, <2>2, <2>3, <2>4, <2>5, <2>6, <2>7, <2>8 DEF AlarmDevTypeOK
<1>2. PendingLocked'
  BY AlarmDevAssumption
     DEF alarm_triggered, DevInv, AlarmDevTypeOK, PendingLocked
<1>3. HandedOver'
  BY AlarmDevAssumption
     DEF alarm_triggered, DevInv, AlarmDevTypeOK, HandedOver,
         PendingLocked, UsersOwn
<1>4. UsersOwn'
  BY FileIsFile, AlarmDevAssumption
     DEF alarm_triggered, DevInv, AlarmDevTypeOK, UsersOwn
<1>5. HeldForSomeone'
  BY AlarmDevAssumption
     DEF alarm_triggered, DevInv, AlarmDevTypeOK, HeldForSomeone
<1>6. ClosingDone'
  BY AlarmDevAssumption
     DEF alarm_triggered, DevInv, AlarmDevTypeOK, ClosingDone,
         HeldForSomeone, Files
<1> QED BY <1>1, <1>2, <1>3, <1>4, <1>5, <1>6 DEF DevInv

LEMMA OtherStep ==
  ASSUME DevInv, NEW t \in Threads,
         ALARM_SET_RTC(t) \/ SetFaults(t)
  PROVE  DevInv'
<1>1. AlarmDevTypeOK'
  BY AlarmDevAssumption
     DEF ALARM_SET_RTC, SetFaults, Claim, DevInv, AlarmDevTypeOK, Files
<1>2. PendingLocked'
  BY AlarmDevAssumption
     DEF ALARM_SET_RTC, SetFaults, Claim, DevInv, AlarmDevTypeOK,
         PendingLocked
<1>3. HandedOver'
  BY AlarmDevAssumption
     DEF ALARM_SET_RTC, SetFaults, Claim, DevInv, AlarmDevTypeOK,
         HandedOver, PendingLocked, UsersOwn
<1>4. UsersOwn'
  BY FileIsFile, AlarmDevAssumption
     DEF ALARM_SET_RTC, SetFaults, Claim, DevInv, AlarmDevTypeOK, UsersOwn
<1>5. HeldForSomeone'
  BY AlarmDevAssumption
     DEF ALARM_SET_RTC, SetFaults, Claim, DevInv, AlarmDevTypeOK,
         HeldForSomeone
<1>6. ClosingDone'
  BY AlarmDevAssumption
     DEF ALARM_SET_RTC, SetFaults, Claim, DevInv, AlarmDevTypeOK,
         ClosingDone,
         HeldForSomeone, Files
<1> QED BY <1>1, <1>2, <1>3, <1>4, <1>5, <1>6 DEF DevInv

LEMMA LockExpiresStep ==
  ASSUME DevInv, LockExpires
  PROVE  DevInv'
<1>1. AlarmDevTypeOK'
  BY AlarmDevAssumption
     DEF LockExpires, DevInv, AlarmDevTypeOK, Files
<1>2. PendingLocked'
  BY AlarmDevAssumption
     DEF LockExpires, DevInv, AlarmDevTypeOK, PendingLocked
<1>3. HandedOver'
  BY AlarmDevAssumption
     DEF LockExpires, DevInv, AlarmDevTypeOK, HandedOver, PendingLocked,
         UsersOwn
<1>4. UsersOwn'
  BY FileIsFile, AlarmDevAssumption
     DEF LockExpires, DevInv, AlarmDevTypeOK, UsersOwn
<1>5. HeldForSomeone'
  BY AlarmDevAssumption
     DEF LockExpires, DevInv, AlarmDevTypeOK, HeldForSomeone
<1>6. ClosingDone'
  BY AlarmDevAssumption
     DEF LockExpires, DevInv, AlarmDevTypeOK, ClosingDone,
         HeldForSomeone, Files
<1> QED BY <1>1, <1>2, <1>3, <1>4, <1>5, <1>6 DEF DevInv

LEMMA ReleaseStep ==
  ASSUME DevInv, BeginRelease \/ ReleaseAlarm
  PROVE  DevInv'
<1>1. AlarmDevTypeOK'
  <2>1. (owner \in Files \cup {NoFile})'
    BY AlarmDevAssumption
       DEF BeginRelease, ReleaseAlarm, DevInv, AlarmDevTypeOK
  <2>2. (alarm_pending \subseteq Types \cup {TIME_CHANGE})'
    BY AlarmDevAssumption
       DEF BeginRelease, ReleaseAlarm, DevInv, AlarmDevTypeOK
  <2>3. (alarm_enabled \subseteq started /\ started \subseteq Types)'
    BY AlarmDevAssumption
       DEF BeginRelease, ReleaseAlarm, DevInv, AlarmDevTypeOK
  <2>4. (wait_pending \in BOOLEAN)'
    BY AlarmDevAssumption
       DEF BeginRelease, ReleaseAlarm, DevInv, AlarmDevTypeOK
  <2>5. (lock \in {"free", "held", "expired"})'
    BY AlarmDevAssumption
       DEF BeginRelease, ReleaseAlarm, DevInv, AlarmDevTypeOK
  <2>6. (at \in [Threads -> {"user", "wait", "waiting", "collect"}])'
    BY AlarmDevAssumption
       DEF BeginRelease, ReleaseAlarm, DevInv, AlarmDevTypeOK
  <2>7. (handling \subseteq Waiters)'
    BY AlarmDevAssumption
       DEF BeginRelease, ReleaseAlarm, DevInv, AlarmDevTypeOK
  <2>8. (closing \in 0 .. NotClosing)'
    BY AlarmDevAssumption
       DEF BeginRelease, ReleaseAlarm, DevInv, AlarmDevTypeOK
  <2> QED BY <2>1, <2>2, <2>3, <2>4, <2>5, <2>6, <2>7, <2>8 DEF AlarmDevTypeOK
<1>2. PendingLocked'
  BY AlarmDevAssumption
     DEF BeginRelease, ReleaseAlarm, DevInv, AlarmDevTypeOK, PendingLocked
<1>3. HandedOver'
  BY AlarmDevAssumption
     DEF BeginRelease, ReleaseAlarm, DevInv, AlarmDevTypeOK, HandedOver,
         PendingLocked, UsersOwn
<1>4. UsersOwn'
  BY FileIsFile, AlarmDevAssumption
     DEF BeginRelease, ReleaseAlarm, DevInv, AlarmDevTypeOK, UsersOwn
<1>5. HeldForSomeone'
  BY AlarmDevAssumption
     DEF BeginRelease, ReleaseAlarm, DevInv, AlarmDevTypeOK, HeldForSomeone
<1>6. ClosingDone'
  <2>1. \A a \in started : a \in Nat
    BY AlarmDevAssumption DEF DevInv, AlarmDevTypeOK
  <2>2. CASE BeginRelease
    BY <2>1, <2>2, AlarmDevAssumption DEF BeginRelease, ClosingDone
  <2>3. CASE ReleaseAlarm
    <3>1. closing # NotClosing /\ closing \in Nat
      BY <2>3, AlarmDevAssumption DEF ReleaseAlarm
    <3>2. \A a \in started' : a >= closing'
      BY <2>1, <2>3, <3>1 DEF ReleaseAlarm, DevInv, ClosingDone
    <3>3. owner' # NoFile
      BY <2>3, <3>1 DEF ReleaseAlarm, DevInv, ClosingDone
    <3> QED BY <3>2, <3>3 DEF ClosingDone
  <2> QED BY <2>2, <2>3
<1> QED BY <1>1, <1>2, <1>3, <1>4, <1>5, <1>6 DEF DevInv

LEMMA ClosedStep ==
  ASSUME DevInv, alarm_release
  PROVE  DevInv'
<1>1. AlarmDevTypeOK'
  <2>1. (owner \in Files \cup {NoFile})'
    BY AlarmDevAssumption DEF alarm_release, DevInv, AlarmDevTypeOK
  <2>2. (alarm_pending \subseteq Types \cup {TIME_CHANGE})'
    BY AlarmDevAssumption DEF alarm_release, DevInv, AlarmDevTypeOK
  <2>3. (alarm_enabled \subseteq started /\ started \subseteq Types)'
    BY AlarmDevAssumption DEF alarm_release, DevInv, AlarmDevTypeOK
  <2>4. (wait_pending \in BOOLEAN)'
    BY AlarmDevAssumption DEF alarm_release, DevInv, AlarmDevTypeOK
  <2>5. (lock \in {"free", "held", "expired"})'
    BY AlarmDevAssumption DEF alarm_release, DevInv, AlarmDevTypeOK
  <2>6. (at \in [Threads -> {"user", "wait", "waiting", "collect"}])'
    BY AlarmDevAssumption DEF alarm_release, DevInv, AlarmDevTypeOK
  <2>7. (handling \subseteq Waiters)'
    BY AlarmDevAssumption DEF alarm_release, DevInv, AlarmDevTypeOK
  <2>8. (closing \in 0 .. NotClosing)'
    BY AlarmDevAssumption DEF alarm_release, DevInv, AlarmDevTypeOK
  <2> QED BY <2>1, <2>2, <2>3, <2>4, <2>5, <2>6, <2>7, <2>8 DEF AlarmDevTypeOK
<1>2. PendingLocked'
  BY AlarmDevAssumption
     DEF alarm_release, DevInv, AlarmDevTypeOK, PendingLocked
<1>3. HandedOver'
  BY AlarmDevAssumption
     DEF alarm_release, DevInv, AlarmDevTypeOK, HandedOver, PendingLocked,
         UsersOwn
<1>4. UsersOwn'
  BY FileIsFile, AlarmDevAssumption
     DEF alarm_release, DevInv, AlarmDevTypeOK, UsersOwn
<1>5. HeldForSomeone'
  BY AlarmDevAssumption
     DEF alarm_release, DevInv, AlarmDevTypeOK, HeldForSomeone
<1>6. ClosingDone'
  BY AlarmDevAssumption
     DEF alarm_release, DevInv, AlarmDevTypeOK, ClosingDone,
         HeldForSomeone, Files
<1> QED BY <1>1, <1>2, <1>3, <1>4, <1>5, <1>6 DEF DevInv

LEMMA DevInductive == DevInv /\ [DevNext]_devVars => DevInv'
<1> SUFFICES ASSUME DevInv, [DevNext]_devVars PROVE DevInv'
  OBVIOUS
<1>1. CASE UNCHANGED devVars
  BY <1>1 DEF devVars, DevInv, AlarmDevTypeOK, PendingLocked, HandedOver,
              UsersOwn, HeldForSomeone, ClosingDone
<1>2. ASSUME NEW t \in Threads, NEW a \in Types,
             ALARM_CLEAR(t, a) \/ ALARM_SET(t, a, FALSE)
      PROVE  DevInv'
  BY <1>2, ClearStep, SetStep
<1>3. ASSUME NEW t \in Waiters, NEW a \in Types, ALARM_SET(t, a, TRUE)
      PROVE  DevInv'
  BY <1>3, SetStep, AlarmDevAssumption
<1>4. ASSUME NEW t \in Waiters,
             ALARM_WAIT(t) \/ Acknowledge(t) \/ WaitEnds(t) \/ Collect(t)
      PROVE  DevInv'
  BY <1>4, WaitStep, AcknowledgeStep, CollectStep
<1>5. ASSUME NEW t \in Threads, SetFaults(t) \/ ALARM_SET_RTC(t)
      PROVE  DevInv'
  BY <1>5, OtherStep
<1>6. CASE LockExpires
  BY <1>6, LockExpiresStep
<1> QED
  BY <1>1, <1>2, <1>3, <1>4, <1>5, <1>6, DeviceAlarmStep, ReleaseStep, ClosedStep
     DEF DevNext

(* Every reachable state of alarm-dev.c satisfies the invariant.           *)
THEOREM DevInvariance == DevSpec => []DevInv
BY DevInitial, DevInductive, PTL DEF DevSpec

(* The device's state keeps its type, also while it is being closed.       *)
THEOREM DevTypeCorrect == DevSpec => []AlarmDevTypeOK
<1>1. DevInv => AlarmDevTypeOK
  BY DEF DevInv
<1> QED BY <1>1, DevInvariance, PTL

(* No pending alarm without the lock, unless five seconds have passed.     *)
THEOREM PendingAlarmsLocked == DevSpec => []PendingLocked
<1>1. DevInv => PendingLocked
  BY DEF DevInv
<1> QED BY <1>1, DevInvariance, PTL

(* The lock is the waiting thread's until it comes back.                   *)
THEOREM LockHandedOver == DevSpec => []HandedOver
<1>1. DevInv => HandedOver
  BY DEF DevInv
<1> QED BY <1>1, DevInvariance, PTL

(* A closed device is clean.                                               *)
THEOREM ClosedIsClean == DevSpec => []ClosedClean
<1>1. DevInv => ClosedClean
  BY DEF DevInv, ClosedClean, ClosingDone, HeldForSomeone, AlarmDevTypeOK
<1> QED BY <1>1, DevInvariance, PTL
=============================================================================
