---------------------------- MODULE BinderProofs ----------------------------
(***************************************************************************)
(* For any processes, threads and transactions: the binder's state keeps   *)
(* its type whoever dies in the middle of calls, and no thread sleeps      *)
(* through work of its own or of its process.                              *)
(***************************************************************************)
EXTENDS Binder, SequenceTheorems, FiniteSetTheorems, NaturalsInduction,
  WellFoundedInduction, TLAPS

-----------------------------------------------------------------------------
(* The type of what binder_lock protects.                                  *)

Codes == {"OK", "DEAD", "FAILED", "COMPLETE"}

TxnRecs ==
  [kind : {"free", "call", "oneway", "reply"},
   from : Threads \cup {NoThread}, from_parent : Txns \cup {NoTxn},
   to_proc : Procs \cup {NoThread}, to_thread : Threads \cup {NoThread},
   to_parent : Txns \cup {NoTxn}]

Kernel ==
  [txn : [Txns -> TxnRecs], stack : [Threads -> Txns \cup {NoTxn}],
   todo : [Threads -> Seq(Txns \cup {Complete})],
   error : [Threads -> Codes], error2 : [Threads -> Codes],
   waits : SUBSET Threads, live : SUBSET Threads, procs : SUBSET Procs,
   ptodo : [Procs -> Seq(Txns)], pwait : [Procs -> Seq(Threads)],
   has_async : [Procs -> BOOLEAN], async_todo : [Procs -> Seq(Txns)],
   held : [Procs -> BOOLEAN], bug : BOOLEAN]

(* Nobody who waits gets work without being taken off the queue.           *)
Quiet(K, L) ==
  /\ L.waits \subseteq K.waits /\ L.pwait = K.pwait
  /\ \A h \in L.waits : /\ K.todo[h] = << >> => L.todo[h] = << >>
                        /\ K.error[h] = "OK" => L.error[h] = "OK"
  /\ \A p \in Procs : K.ptodo[p] = << >> => L.ptodo[p] = << >>

LEMMA QuietSelf ==
  ASSUME NEW K
  PROVE  Quiet(K, K)
BY DEF Quiet

LEMMA QuietTrans ==
  ASSUME NEW K, NEW L, NEW M, Quiet(K, L), Quiet(L, M)
  PROVE  Quiet(K, M)
BY DEF Quiet

LEMMA NoTransactionType == NoTransaction \in TxnRecs
BY DEF NoTransaction, TxnRecs

(* The fields that Quiet looks at are the ones the walks may change.       *)
LEMMA FreeTxn ==
  ASSUME NEW K \in Kernel, NEW t \in Txns, NEW r \in TxnRecs
  PROVE  /\ [K EXCEPT !.txn[t] = r] \in Kernel
         /\ Quiet(K, [K EXCEPT !.txn[t] = r])
<1>1. PICK L : L = [K EXCEPT !.txn[t] = r]
  OBVIOUS
<1>2. L \in Kernel
  BY <1>1 DEF Kernel
<1>3. Quiet(K, L)
  BY <1>1 DEF Kernel, Quiet
<1> QED BY <1>1, <1>2, <1>3

LEMMA PopKeeps ==
  ASSUME NEW K \in Kernel, NEW t \in Txns, NEW h \in Threads \cup {NoThread}
  PROVE  /\ binder_pop_transaction(K, h, t) \in Kernel
         /\ Quiet(K, binder_pop_transaction(K, h, t))
<1>1. PICK L : L = IF h = NoThread THEN K
                   ELSE [K EXCEPT !.stack[h] = K.txn[t].from_parent,
                                  !.bug = @ \/ K.stack[h] # t \/ K.txn[t].from # h]
  OBVIOUS
<1>2. L \in Kernel /\ Quiet(K, L)
  <2>1. CASE h = NoThread
    BY <1>1, <2>1, QuietSelf
  <2>2. CASE h # NoThread
    <3>1. PICK b \in BOOLEAN : b = (K.bug \/ K.stack[h] # t \/ K.txn[t].from # h)
      BY Zenon
    <3>2. L = [K EXCEPT !.stack[h] = K.txn[t].from_parent, !.bug = b]
      BY <1>1, <2>2, <3>1
    <3>3. K.txn[t].from_parent \in Txns \cup {NoTxn}
      BY DEF Kernel, TxnRecs
    <3>4. L \in Kernel
      BY <2>2, <3>2, <3>3 DEF Kernel
    <3> QED BY <2>2, <3>2, <3>4 DEF Kernel, Quiet
  <2> QED BY <2>1, <2>2
<1>3. binder_pop_transaction(K, h, t) = [L EXCEPT !.txn[t] = NoTransaction]
  BY <1>1 DEF binder_pop_transaction
<1> QED BY <1>2, <1>3, FreeTxn, NoTransactionType, QuietTrans

LEMMA MoveErrorKeeps ==
  ASSUME NEW K \in Kernel, NEW h \in Threads
  PROVE  MoveError(K, h) \in Kernel /\ Quiet(K, MoveError(K, h))
<1>1. PICK L : L = MoveError(K, h)
  OBVIOUS
<1>2. CASE K.error[h] # "OK" /\ K.error2[h] = "OK"
  <2>1. L = [K EXCEPT !.error2[h] = K.error[h], !.error[h] = "OK"]
    BY <1>1, <1>2 DEF MoveError
  <2>2. L \in Kernel
    BY <2>1 DEF Kernel, Codes
  <2>3. Quiet(K, L)
    BY <2>1 DEF Kernel, Quiet
  <2> QED BY <1>1, <2>2, <2>3
<1>3. CASE ~ (K.error[h] # "OK" /\ K.error2[h] = "OK")
  BY <1>3, QuietSelf DEF MoveError
<1> QED BY <1>2, <1>3

(* A thread that gets an error is taken off its queue.                     *)
LEMMA TellKeeps ==
  ASSUME NEW K \in Kernel, NEW h \in Threads, NEW code \in Codes
  PROVE  LET L == wake_thread([K EXCEPT !.error[h] = code], h)
         IN  L \in Kernel /\ Quiet(K, L)
<1>1. PICK L : L = wake_thread([K EXCEPT !.error[h] = code], h)
  OBVIOUS
<1>2. PICK M : M = [K EXCEPT !.error[h] = code]
  OBVIOUS
<1>3. L = [M EXCEPT !.waits = M.waits \ {h}]
  BY <1>1, <1>2 DEF wake_thread
<1>4. M \in Kernel
  BY <1>2 DEF Kernel
<1>5. L \in Kernel
  BY <1>3, <1>4 DEF Kernel
<1>6. /\ L.waits = K.waits \ {h} /\ L.pwait = K.pwait /\ L.ptodo = K.ptodo
      /\ L.todo = K.todo /\ \A g \in Threads \ {h} : L.error[g] = K.error[g]
  BY <1>2, <1>3 DEF Kernel
<1>7. K.waits \subseteq Threads
  BY DEF Kernel
<1>8. Quiet(K, L)
  BY <1>6, <1>7 DEF Quiet
<1> QED BY <1>1, <1>5, <1>8

-----------------------------------------------------------------------------
(* A walk is a recursive function.  What follows says that there is one.   *)

LEMMA SmallestOf ==
  ASSUME NEW T \in SUBSET Nat, T # {}
  PROVE  \E d \in T : \A e \in T : d <= e
<1> DEFINE Less == OpToRel(<, Nat)
<1>1. IsWellFoundedOn(Less, Nat)
  BY NatLessThanWellFounded
<1>2. \A i, j \in Nat : i < j => <<i, j>> \in Less
  BY DEF OpToRel
<1> HIDE DEF Less
<1>3. PICK d \in T : \A e \in T : ~ (<<e, d>> \in Less)
  BY <1>1, WFMin
<1>4. \A e \in T : ~ (e < d)
  BY <1>2, <1>3
<1> QED BY <1>4

LEMMA Turns ==
  ASSUME NEW T, NEW N \in Nat, 0 \in T,
         \A n \in 0 .. N - 1 : n \in T => n + 1 \in T
  PROVE  N \in T
<1> SUFFICES ASSUME N \notin T PROVE FALSE
  OBVIOUS
<1> DEFINE out == {n \in 0 .. N : n \notin T}
<1>1. N \in out /\ out \in SUBSET Nat
  OBVIOUS
<1> HIDE DEF out
<1>2. PICK d \in out : \A e \in out : d <= e
  BY <1>1, SmallestOf
<1>3. d \in Nat /\ d <= N /\ d \notin T
  BY <1>2 DEF out
<1>4. CASE d = 0
  BY <1>3, <1>4
<1>5. CASE d # 0
  <2>1. PICK n \in 0 .. N - 1 : d = n + 1
    <3>1. d - 1 \in 0 .. N - 1 /\ d = (d - 1) + 1
      BY <1>3, <1>5
    <3> QED BY <3>1
  <2>2. n \in T
    <3>1. n \notin out
      BY <1>2, <2>1
    <3> QED BY <2>1, <3>1 DEF out
  <2> QED BY <1>3, <2>1, <2>2
<1> QED BY <1>4, <1>5

StepsIn(W, N) == [1 .. N -> [W -> W]]

WalkOf(f, W, w0, step, N) ==
  /\ f \in [0 .. N -> W]
  /\ f[0] = w0 /\ \A n \in 1 .. N : f[n] = step[n][f[n - 1]]

(* Steps in a set W make a walk of any length.                             *)
LEMMA Iterated ==
  ASSUME NEW W, NEW N \in Nat, NEW w0 \in W, NEW step \in StepsIn(W, N)
  PROVE  \E f : WalkOf(f, W, w0, step, N)
<1> USE DEF StepsIn
<1> DEFINE Walk(f, M) == f[0] = w0 /\ \A n \in 1 .. M : f[n] = step[n][f[n - 1]]
           T == {M \in Nat : M <= N => \E f \in [0 .. M -> W] : Walk(f, M)}
<1>1. 0 \in T
  <2>1. PICK f \in [0 .. 0 -> W] : f = [n \in 0 .. 0 |-> w0]
    OBVIOUS
  <2>2. Walk(f, 0)
    BY <2>1
  <2> QED BY <2>2
<1>2. ASSUME NEW M \in 0 .. N - 1, M \in T PROVE M + 1 \in T
  <2>1. PICK f \in [0 .. M -> W] : Walk(f, M)
    BY <1>2
  <2>2. M + 1 \in 1 .. N /\ f[M] \in W
    OBVIOUS
  <2>3. PICK x \in W : x = step[M + 1][f[M]]
    BY <2>2
  <2>4. PICK g \in [0 .. M + 1 -> W] :
          g = [n \in 0 .. M + 1 |-> IF n = M + 1 THEN x ELSE f[n]]
    <3>1. \A n \in 0 .. M + 1 : n # M + 1 => n \in 0 .. M
      OBVIOUS
    <3>2. \A n \in 0 .. M + 1 : (IF n = M + 1 THEN x ELSE f[n]) \in W
      BY <3>1
    <3> QED BY <3>2
  <2>5. ASSUME NEW n \in 1 .. M + 1 PROVE g[n] = step[n][g[n - 1]]
    <3>1. CASE n = M + 1
      BY <2>3, <2>4, <3>1
    <3>2. CASE n # M + 1
      <4>1. n \in 1 .. M /\ n \in 0 .. M + 1 /\ n - 1 \in 0 .. M + 1 /\ n - 1 # M + 1
        BY <3>2
      <4>2. g[n] = f[n] /\ g[n - 1] = f[n - 1]
        BY <2>4, <3>2, <4>1
      <4> QED BY <2>1, <4>1, <4>2
    <3> QED BY <3>1, <3>2
  <2>6. g[0] = w0
    BY <2>1, <2>4
  <2>7. Walk(g, M + 1)
    BY <2>5, <2>6
  <2>8. \E e \in [0 .. M + 1 -> W] : Walk(e, M + 1)
    BY <2>7
  <2>9. M + 1 \in Nat
    OBVIOUS
  <2> QED BY <2>8, <2>9
<1> HIDE DEF T
<1>3. N \in T
  BY <1>1, <1>2, Turns
<1>4. PICK f \in [0 .. N -> W] : Walk(f, N)
  BY <1>3 DEF T
<1> QED BY <1>4 DEF WalkOf

(* binder_send_failed_reply.                                               *)

FailStates == [K : Kernel, t : Txns \cup {NoTxn}]

LEMMA FailOneKeeps ==
  ASSUME NEW w \in FailStates, NEW code \in Codes
  PROVE  /\ FailOne(w, code) \in FailStates
         /\ Quiet(w.K, FailOne(w, code).K)
<1>1. PICK K \in Kernel : K = w.K
  BY DEF FailStates
<1>2. PICK t \in Txns \cup {NoTxn} : t = w.t
  BY DEF FailStates
<1>3. CASE t = NoTxn
  BY <1>2, <1>3, QuietSelf DEF FailOne
<1>4. CASE t # NoTxn
  <2>1. t \in Txns
    BY <1>4
  <2>2. PICK h \in Threads \cup {NoThread} : h = K.txn[t].from
    BY <2>1 DEF Kernel, TxnRecs
  <2>3. PICK next \in Txns \cup {NoTxn} : next = K.txn[t].from_parent
    BY <2>1 DEF Kernel, TxnRecs
  <2>4. PICK L : L = MoveError(K, h)
    OBVIOUS
  <2>5. CASE h = NoThread
    <3>1. PICK P : P = binder_pop_transaction(K, h, t)
      OBVIOUS
    <3>2. FailOne(w, code) = [K |-> P, t |-> next]
      BY <1>1, <1>2, <1>4, <2>2, <2>3, <2>5, <3>1 DEF FailOne
    <3>3. P \in Kernel /\ Quiet(K, P)
      BY <2>1, <3>1, PopKeeps
    <3> QED BY <1>1, <3>2, <3>3 DEF FailStates
  <2>6. CASE h # NoThread /\ L.error[h] = "OK"
    <3>1. PICK P : P = binder_pop_transaction(L, h, t)
      OBVIOUS
    <3>2. PICK M : M = wake_thread([P EXCEPT !.error[h] = code], h)
      OBVIOUS
    <3>3. FailOne(w, code) = [K |-> M, t |-> NoTxn]
      BY <1>1, <1>2, <1>4, <2>2, <2>4, <2>6, <3>1, <3>2 DEF FailOne
    <3>4. L \in Kernel /\ Quiet(K, L)
      BY <2>4, <2>6, MoveErrorKeeps
    <3>5. P \in Kernel /\ Quiet(L, P)
      BY <2>1, <3>1, <3>4, PopKeeps
    <3>6. M \in Kernel /\ Quiet(P, M)
      BY <2>6, <3>2, <3>5, TellKeeps
    <3>7. Quiet(K, M)
      BY <3>4, <3>5, <3>6, QuietTrans
    <3> QED BY <1>1, <3>3, <3>6, <3>7 DEF FailStates
  <2>7. CASE h # NoThread /\ L.error[h] # "OK"
    <3>1. FailOne(w, code) = [K |-> L, t |-> NoTxn]
      BY <1>1, <1>2, <1>4, <2>2, <2>4, <2>7 DEF FailOne
    <3>2. L \in Kernel /\ Quiet(K, L)
      BY <2>4, <2>7, MoveErrorKeeps
    <3> QED BY <1>1, <3>1, <3>2 DEF FailStates
  <2> QED BY <2>5, <2>6, <2>7
<1> QED BY <1>3, <1>4

FailTurns(f, K, t, code, N) ==
  f = [n \in 0 .. N |-> IF n = 0 THEN [K |-> K, t |-> t]
                        ELSE FailOne(f[n - 1], code)]

LEMMA FailUnfold ==
  ASSUME NEW K \in Kernel, NEW t \in Txns, NEW code \in Codes
  PROVE  \E f : /\ FailTurns(f, K, t, code, Cardinality(Txns))
                /\ binder_send_failed_reply(K, t, code) = f[Cardinality(Txns)].K
<1>1. PICK N \in Nat : N = Cardinality(Txns)
  BY FS_CardinalityType, BinderAssumption
<1>2. PICK w0 \in FailStates : w0 = [K |-> K, t |-> t]
  BY DEF FailStates
<1>3. PICK step \in StepsIn(FailStates, N) :
        step = [n \in 1 .. N |-> [w \in FailStates |-> FailOne(w, code)]]
  BY FailOneKeeps DEF StepsIn
<1>4. PICK f : WalkOf(f, FailStates, w0, step, N)
  BY Iterated
<1>5. ASSUME NEW n \in 0 .. N, n # 0 PROVE f[n] = FailOne(f[n - 1], code)
  <2>1. n \in 1 .. N /\ n - 1 \in 0 .. N
    BY <1>5
  <2>2. f[n - 1] \in FailStates
    BY <1>4, <2>1 DEF WalkOf
  <2> QED BY <1>3, <1>4, <2>1, <2>2 DEF WalkOf
<1>6. FailTurns(f, K, t, code, N)
  BY <1>2, <1>4, <1>5 DEF FailTurns, WalkOf
<1>7. PICK g : g = (CHOOSE e : FailTurns(e, K, t, code, N))
  OBVIOUS
<1>8. FailTurns(g, K, t, code, N)
  BY <1>6, <1>7
<1>9. binder_send_failed_reply(K, t, code) = g[N].K
  BY <1>1, <1>7 DEF binder_send_failed_reply, FailTurns
<1> QED BY <1>1, <1>8, <1>9

LEMMA FailedReplyKeeps ==
  ASSUME NEW K \in Kernel, NEW t \in Txns, NEW code \in Codes
  PROVE  /\ binder_send_failed_reply(K, t, code) \in Kernel
         /\ Quiet(K, binder_send_failed_reply(K, t, code))
<1>1. PICK N \in Nat : N = Cardinality(Txns)
  BY FS_CardinalityType, BinderAssumption
<1>2. PICK f : /\ FailTurns(f, K, t, code, N)
               /\ binder_send_failed_reply(K, t, code) = f[N].K
  BY <1>1, FailUnfold
<1> DEFINE T == {n \in 0 .. N : f[n] \in FailStates /\ Quiet(K, f[n].K)}
<1>3. 0 \in T
  <2>1. f[0] = [K |-> K, t |-> t]
    BY <1>2 DEF FailTurns
  <2> QED BY <2>1, QuietSelf DEF FailStates
<1>4. ASSUME NEW n \in 0 .. N - 1, n \in T PROVE n + 1 \in T
  <2>1. n + 1 \in 0 .. N /\ n + 1 # 0 /\ (n + 1) - 1 = n
    OBVIOUS
  <2>2. f[n + 1] = FailOne(f[n], code)
    BY <1>2, <2>1 DEF FailTurns
  <2>3. f[n + 1] \in FailStates /\ Quiet(f[n].K, f[n + 1].K)
    BY <1>4, <2>2, FailOneKeeps
  <2> QED BY <1>4, <2>1, <2>3, QuietTrans
<1> HIDE DEF T
<1>5. N \in T
  BY <1>3, <1>4, Turns
<1> QED BY <1>2, <1>5 DEF T, FailStates

(* binder_release_work.                                                    *)

Works == Txns \cup {Complete}

LEMMA ReleaseOneKeeps ==
  ASSUME NEW K \in Kernel, NEW w \in Works
  PROVE  ReleaseOne(K, w) \in Kernel /\ Quiet(K, ReleaseOne(K, w))
<1>1. CASE w = Complete
  BY <1>1, QuietSelf DEF ReleaseOne
<1>2. CASE w # Complete
  <2>1. w \in Txns
    BY <1>2 DEF Works
  <2>2. CASE K.txn[w].kind = "call"
    <3>1. ReleaseOne(K, w) = binder_send_failed_reply(K, w, "DEAD")
      BY <1>2, <2>2 DEF ReleaseOne
    <3>2. "DEAD" \in Codes
      BY DEF Codes
    <3> QED BY <2>1, <3>1, <3>2, FailedReplyKeeps
  <2>3. CASE K.txn[w].kind # "call"
    <3>1. ReleaseOne(K, w) = [K EXCEPT !.txn[w] = NoTransaction]
      BY <1>2, <2>3 DEF ReleaseOne
    <3> QED BY <2>1, <3>1, FreeTxn, NoTransactionType
  <2> QED BY <2>2, <2>3
<1> QED BY <1>1, <1>2

ReleaseTurns(f, K, list, N) ==
  f = [n \in 0 .. N |-> IF n = 0 THEN K ELSE ReleaseOne(f[n - 1], list[n])]

LEMMA ReleaseUnfold ==
  ASSUME NEW K \in Kernel, NEW list \in Seq(Works)
  PROVE  \E f : /\ ReleaseTurns(f, K, list, Len(list))
                /\ binder_release_work(K, list) = f[Len(list)]
<1>1. PICK N \in Nat : N = Len(list) /\ \A n \in 1 .. N : list[n] \in Works
  BY LenProperties, ElementOfSeq
<1>2. PICK step \in StepsIn(Kernel, N) :
        step = [n \in 1 .. N |-> [w \in Kernel |-> ReleaseOne(w, list[n])]]
  BY <1>1, ReleaseOneKeeps DEF StepsIn
<1>3. PICK f : WalkOf(f, Kernel, K, step, N)
  BY Iterated
<1>4. ASSUME NEW n \in 0 .. N, n # 0 PROVE f[n] = ReleaseOne(f[n - 1], list[n])
  <2>1. n \in 1 .. N /\ n - 1 \in 0 .. N
    BY <1>4
  <2>2. f[n - 1] \in Kernel
    BY <1>3, <2>1 DEF WalkOf
  <2> QED BY <1>2, <1>3, <2>1, <2>2 DEF WalkOf
<1>5. ReleaseTurns(f, K, list, N)
  BY <1>3, <1>4 DEF ReleaseTurns, WalkOf
<1>6. PICK g : g = (CHOOSE e : ReleaseTurns(e, K, list, N))
  OBVIOUS
<1>7. ReleaseTurns(g, K, list, N)
  BY <1>5, <1>6
<1>8. binder_release_work(K, list) = g[N]
  BY <1>1, <1>6 DEF binder_release_work, ReleaseTurns
<1> QED BY <1>1, <1>7, <1>8

LEMMA ReleaseWorkKeeps ==
  ASSUME NEW K \in Kernel, NEW list \in Seq(Works)
  PROVE  /\ binder_release_work(K, list) \in Kernel
         /\ Quiet(K, binder_release_work(K, list))
<1>1. PICK N \in Nat : N = Len(list) /\ \A n \in 1 .. N : list[n] \in Works
  BY LenProperties, ElementOfSeq
<1>2. PICK f : /\ ReleaseTurns(f, K, list, N)
               /\ binder_release_work(K, list) = f[N]
  BY <1>1, ReleaseUnfold
<1> DEFINE T == {n \in 0 .. N : f[n] \in Kernel /\ Quiet(K, f[n])}
<1>3. 0 \in T
  <2>1. f[0] = K
    BY <1>2 DEF ReleaseTurns
  <2> QED BY <2>1, QuietSelf
<1>4. ASSUME NEW n \in 0 .. N - 1, n \in T PROVE n + 1 \in T
  <2>1. n + 1 \in 0 .. N /\ n + 1 # 0 /\ (n + 1) - 1 = n /\ n + 1 \in 1 .. N
    OBVIOUS
  <2>2. f[n + 1] = ReleaseOne(f[n], list[n + 1])
    BY <1>2, <2>1 DEF ReleaseTurns
  <2>3. f[n + 1] \in Kernel /\ Quiet(f[n], f[n + 1])
    BY <1>1, <1>4, <2>1, <2>2, ReleaseOneKeeps
  <2> QED BY <1>4, <2>1, <2>3, QuietTrans
<1> HIDE DEF T
<1>5. N \in T
  BY <1>3, <1>4, Turns
<1> QED BY <1>2, <1>5 DEF T

-----------------------------------------------------------------------------
(* binder_free_thread.                                                     *)

LEMMA LeaveKeeps ==
  ASSUME NEW w \in FailStates, NEW h \in Threads
  PROVE  /\ LeaveTransaction(w, h) \in FailStates
         /\ Quiet(w.K, LeaveTransaction(w, h).K)
<1>1. PICK K \in Kernel : K = w.K
  BY DEF FailStates
<1>2. PICK t \in Txns \cup {NoTxn} : t = w.t
  BY DEF FailStates
<1>3. CASE t = NoTxn
  BY <1>2, <1>3, QuietSelf DEF LeaveTransaction
<1>4. CASE t # NoTxn
  <2>1. t \in Txns
    BY <1>4
  <2>2. PICK r \in TxnRecs : r = K.txn[t]
    BY <2>1 DEF Kernel
  <2>3. /\ r.to_parent \in Txns \cup {NoTxn} /\ r.from_parent \in Txns \cup {NoTxn}
    BY DEF TxnRecs
  <2>4. CASE r.to_thread = h
    <3>1. PICK q \in TxnRecs : q = [r EXCEPT !.to_proc = NoThread, !.to_thread = NoThread]
      BY DEF TxnRecs
    <3>2. PICK L : L = [K EXCEPT !.txn[t] = q]
      OBVIOUS
    <3>3. L = [K EXCEPT !.txn[t].to_proc = NoThread, !.txn[t].to_thread = NoThread]
      BY <2>1, <2>2, <3>1, <3>2 DEF Kernel, TxnRecs
    <3>4. LeaveTransaction(w, h) = [K |-> L, t |-> r.to_parent]
      BY <1>1, <1>2, <1>4, <2>2, <2>4, <3>3 DEF LeaveTransaction
    <3>5. L \in Kernel /\ Quiet(K, L)
      BY <2>1, <3>2, FreeTxn
    <3> QED BY <1>1, <2>3, <3>4, <3>5 DEF FailStates
  <2>5. CASE r.to_thread # h /\ r.from = h
    <3>1. PICK q \in TxnRecs : q = [r EXCEPT !.from = NoThread]
      BY DEF TxnRecs
    <3>2. PICK L : L = [K EXCEPT !.txn[t] = q]
      OBVIOUS
    <3>3. L = [K EXCEPT !.txn[t].from = NoThread]
      BY <2>1, <2>2, <3>1, <3>2 DEF Kernel, TxnRecs
    <3>4. LeaveTransaction(w, h) = [K |-> L, t |-> r.from_parent]
      BY <1>1, <1>2, <1>4, <2>2, <2>5, <3>3 DEF LeaveTransaction
    <3>5. L \in Kernel /\ Quiet(K, L)
      BY <2>1, <3>2, FreeTxn
    <3> QED BY <1>1, <2>3, <3>4, <3>5 DEF FailStates
  <2>6. CASE r.to_thread # h /\ r.from # h
    <3>1. PICK L : L = [K EXCEPT !.bug = TRUE]
      OBVIOUS
    <3>2. LeaveTransaction(w, h) = [K |-> L, t |-> NoTxn]
      BY <1>1, <1>2, <1>4, <2>2, <2>6, <3>1 DEF LeaveTransaction
    <3>3. L \in Kernel
      BY <3>1 DEF Kernel
    <3>4. Quiet(K, L)
      BY <3>1 DEF Kernel, Quiet
    <3> QED BY <1>1, <3>2, <3>3, <3>4 DEF FailStates
  <2> QED BY <2>4, <2>5, <2>6
<1> QED BY <1>3, <1>4

LeaveTurns(f, K, t, h, N) ==
  f = [n \in 0 .. N |-> IF n = 0 THEN [K |-> K, t |-> t]
                        ELSE LeaveTransaction(f[n - 1], h)]

LEMMA LeaveUnfold ==
  ASSUME NEW K \in Kernel, NEW h \in Threads
  PROVE  \E f : /\ LeaveTurns(f, K, K.stack[h], h, Cardinality(Txns))
                /\ LeaveAll(K, h) = f[Cardinality(Txns)].K
<1>1. PICK N \in Nat : N = Cardinality(Txns)
  BY FS_CardinalityType, BinderAssumption
<1>2. PICK t \in Txns \cup {NoTxn} : t = K.stack[h]
  BY DEF Kernel
<1>3. PICK w0 \in FailStates : w0 = [K |-> K, t |-> t]
  BY DEF FailStates
<1>4. PICK step \in StepsIn(FailStates, N) :
        step = [n \in 1 .. N |-> [w \in FailStates |-> LeaveTransaction(w, h)]]
  BY LeaveKeeps DEF StepsIn
<1>5. PICK f : WalkOf(f, FailStates, w0, step, N)
  BY Iterated
<1>6. ASSUME NEW n \in 0 .. N, n # 0 PROVE f[n] = LeaveTransaction(f[n - 1], h)
  <2>1. n \in 1 .. N /\ n - 1 \in 0 .. N
    BY <1>6
  <2>2. f[n - 1] \in FailStates
    BY <1>5, <2>1 DEF WalkOf
  <2> QED BY <1>4, <1>5, <2>1, <2>2 DEF WalkOf
<1>7. LeaveTurns(f, K, t, h, N)
  BY <1>3, <1>5, <1>6 DEF LeaveTurns, WalkOf
<1>8. PICK g : g = (CHOOSE e : LeaveTurns(e, K, t, h, N))
  OBVIOUS
<1>9. LeaveTurns(g, K, t, h, N)
  BY <1>7, <1>8
<1>10. LeaveAll(K, h) = g[N].K
  BY <1>1, <1>2, <1>8 DEF LeaveAll, LeaveTurns
<1> QED BY <1>1, <1>2, <1>9, <1>10

LEMMA LeaveAllKeeps ==
  ASSUME NEW K \in Kernel, NEW h \in Threads
  PROVE  LeaveAll(K, h) \in Kernel /\ Quiet(K, LeaveAll(K, h))
<1>1. PICK N \in Nat : N = Cardinality(Txns)
  BY FS_CardinalityType, BinderAssumption
<1>2. PICK t \in Txns \cup {NoTxn} : t = K.stack[h]
  BY DEF Kernel
<1>3. PICK f : LeaveTurns(f, K, t, h, N) /\ LeaveAll(K, h) = f[N].K
  BY <1>1, <1>2, LeaveUnfold
<1> DEFINE T == {n \in 0 .. N : f[n] \in FailStates /\ Quiet(K, f[n].K)}
<1>4. 0 \in T
  <2>1. f[0] = [K |-> K, t |-> t]
    BY <1>3 DEF LeaveTurns
  <2> QED BY <2>1, QuietSelf DEF FailStates
<1>5. ASSUME NEW n \in 0 .. N - 1, n \in T PROVE n + 1 \in T
  <2>1. n + 1 \in 0 .. N /\ n + 1 # 0 /\ (n + 1) - 1 = n
    OBVIOUS
  <2>2. f[n + 1] = LeaveTransaction(f[n], h)
    BY <1>3, <2>1 DEF LeaveTurns
  <2>3. f[n + 1] \in FailStates /\ Quiet(f[n].K, f[n + 1].K)
    BY <1>5, <2>2, LeaveKeeps
  <2> QED BY <1>5, <2>1, <2>3, QuietTrans
<1> HIDE DEF T
<1>6. N \in T
  BY <1>4, <1>5, Turns
<1> QED BY <1>3, <1>6 DEF T, FailStates

LEMMA FreeThreadKeeps ==
  ASSUME NEW K \in Kernel, NEW h \in Threads
  PROVE  /\ binder_free_thread(K, h) \in Kernel
         /\ Quiet(K, binder_free_thread(K, h))
<1>1. PICK top \in Txns \cup {NoTxn} : top = K.stack[h]
  BY DEF Kernel
<1>2. PICK L : L = LeaveAll(K, h)
  OBVIOUS
<1>3. PICK M : M = IF top # NoTxn /\ K.txn[top].to_thread = h
                     THEN binder_send_failed_reply(L, top, "DEAD") ELSE L
  OBVIOUS
<1>4. PICK N : N = binder_release_work(M, K.todo[h])
  OBVIOUS
<1>5. PICK R : R = [N EXCEPT !.live = @ \ {h}, !.stack[h] = NoTxn,
                             !.todo[h] = << >>, !.error[h] = "OK",
                             !.error2[h] = "OK"]
  OBVIOUS
<1>6. binder_free_thread(K, h) = R
  BY <1>1, <1>2, <1>3, <1>4, <1>5 DEF binder_free_thread
<1>7. L \in Kernel /\ Quiet(K, L)
  BY <1>2, LeaveAllKeeps
<1>8. M \in Kernel /\ Quiet(L, M)
  <2>1. CASE top # NoTxn /\ K.txn[top].to_thread = h
    <3>1. top \in Txns /\ "DEAD" \in Codes
      BY <2>1 DEF Codes
    <3>2. M = binder_send_failed_reply(L, top, "DEAD")
      BY <1>3, <2>1
    <3> QED BY <1>7, <3>1, <3>2, FailedReplyKeeps
  <2>2. CASE ~ (top # NoTxn /\ K.txn[top].to_thread = h)
    BY <1>3, <1>7, <2>2, QuietSelf
  <2> QED BY <2>1, <2>2
<1>9. N \in Kernel /\ Quiet(M, N)
  <2>1. K.todo[h] \in Seq(Works)
    BY DEF Kernel, Works
  <2> QED BY <1>4, <1>8, <2>1, ReleaseWorkKeeps
<1>10. R \in Kernel
  <2>1. << >> \in Seq(Txns \cup {Complete}) /\ "OK" \in Codes
    BY DEF Codes
  <2> QED BY <1>5, <1>9, <2>1 DEF Kernel
<1>11. Quiet(N, R)
  BY <1>5, <1>9 DEF Kernel, Quiet
<1>12. Quiet(K, R)
  BY <1>7, <1>8, <1>9, <1>11, QuietTrans
<1> QED BY <1>6, <1>10, <1>12

-----------------------------------------------------------------------------
(* binder_deferred_release.                                                *)

FreeTurns(f, K, list, N) ==
  f = [n \in 0 .. N |-> IF n = 0 THEN K ELSE binder_free_thread(f[n - 1], list[n])]

LEMMA FreeUnfold ==
  ASSUME NEW K \in Kernel, NEW list \in Seq(Threads)
  PROVE  \E f : /\ FreeTurns(f, K, list, Len(list))
                /\ FreeThreads(K, list) = f[Len(list)]
<1>1. PICK N \in Nat : N = Len(list) /\ \A n \in 1 .. N : list[n] \in Threads
  BY LenProperties, ElementOfSeq
<1>2. PICK step \in StepsIn(Kernel, N) :
        step = [n \in 1 .. N |-> [w \in Kernel |-> binder_free_thread(w, list[n])]]
  BY <1>1, FreeThreadKeeps DEF StepsIn
<1>3. PICK f : WalkOf(f, Kernel, K, step, N)
  BY Iterated
<1>4. ASSUME NEW n \in 0 .. N, n # 0
      PROVE  f[n] = binder_free_thread(f[n - 1], list[n])
  <2>1. n \in 1 .. N /\ n - 1 \in 0 .. N
    BY <1>4
  <2>2. f[n - 1] \in Kernel
    BY <1>3, <2>1 DEF WalkOf
  <2> QED BY <1>2, <1>3, <2>1, <2>2 DEF WalkOf
<1>5. FreeTurns(f, K, list, N)
  BY <1>3, <1>4 DEF FreeTurns, WalkOf
<1>6. PICK g : g = (CHOOSE e : FreeTurns(e, K, list, N))
  OBVIOUS
<1>7. FreeTurns(g, K, list, N)
  BY <1>5, <1>6
<1>8. FreeThreads(K, list) = g[N]
  BY <1>1, <1>6 DEF FreeThreads, FreeTurns
<1> QED BY <1>1, <1>7, <1>8

LEMMA FreeThreadsKeeps ==
  ASSUME NEW K \in Kernel, NEW list \in Seq(Threads)
  PROVE  FreeThreads(K, list) \in Kernel /\ Quiet(K, FreeThreads(K, list))
<1>1. PICK N \in Nat : N = Len(list) /\ \A n \in 1 .. N : list[n] \in Threads
  BY LenProperties, ElementOfSeq
<1>2. PICK f : FreeTurns(f, K, list, N) /\ FreeThreads(K, list) = f[N]
  BY <1>1, FreeUnfold
<1> DEFINE T == {n \in 0 .. N : f[n] \in Kernel /\ Quiet(K, f[n])}
<1>3. 0 \in T
  <2>1. f[0] = K
    BY <1>2 DEF FreeTurns
  <2> QED BY <2>1, QuietSelf
<1>4. ASSUME NEW n \in 0 .. N - 1, n \in T PROVE n + 1 \in T
  <2>1. n + 1 \in 0 .. N /\ n + 1 # 0 /\ (n + 1) - 1 = n /\ n + 1 \in 1 .. N
    OBVIOUS
  <2>2. f[n + 1] = binder_free_thread(f[n], list[n + 1])
    BY <1>2, <2>1 DEF FreeTurns
  <2>3. f[n + 1] \in Kernel /\ Quiet(f[n], f[n + 1])
    BY <1>1, <1>4, <2>1, <2>2, FreeThreadKeeps
  <2> QED BY <1>4, <2>1, <2>3, QuietTrans
<1> HIDE DEF T
<1>5. N \in T
  BY <1>3, <1>4, Turns
<1> QED BY <1>2, <1>5 DEF T

LEMMA SetToSeqType ==
  ASSUME NEW S \in SUBSET Threads
  PROVE  SetToSeq(S) \in Seq(Threads)
<1>1. IsFiniteSet(S)
  BY BinderAssumption, FS_Subset
<1>2. PICK n \in Nat : n = Cardinality(S) /\ ExistsBijection(1 .. n, S)
  BY <1>1, FS_CardinalityType
<1>3. PICK f \in [1 .. n -> S] : IsInjective(f)
  <2>1. PICK f : f \in Bijection(1 .. n, S)
    BY <1>2 DEF ExistsBijection
  <2>2. f \in [1 .. n -> S] /\ \A a, b \in 1 .. n : f[a] = f[b] => a = b
    BY <2>1 DEF Bijection, Injection, IsInjective
  <2>3. IsInjective(f)
    BY <2>2 DEF IsInjective
  <2> QED BY <2>2, <2>3
<1>4. SetToSeq(S) \in [1 .. n -> S]
  BY <1>2, <1>3 DEF SetToSeq
<1>5. SetToSeq(S) \in [1 .. n -> Threads]
  BY <1>4
<1> QED BY <1>5, IsASeq

LEMMA DeferredKeeps ==
  ASSUME NEW K \in Kernel, NEW p \in Procs
  PROVE  /\ binder_deferred_release(K, p) \in Kernel
         /\ Quiet(K, binder_deferred_release(K, p))
<1>1. PICK S \in SUBSET Threads : S = {h \in K.live : ProcOf[h] = p}
  BY DEF Kernel
<1>2. PICK list \in Seq(Threads) : list = SetToSeq(S)
  BY SetToSeqType
<1>3. PICK L : L = FreeThreads(K, list)
  OBVIOUS
<1>4. PICK M : M = [L EXCEPT !.procs = @ \ {p}]
  OBVIOUS
<1>5. PICK N : N = binder_release_work(M, K.ptodo[p] \o K.async_todo[p])
  OBVIOUS
<1>6. PICK R : R = [N EXCEPT !.ptodo[p] = << >>, !.async_todo[p] = << >>,
                             !.has_async[p] = FALSE, !.held[p] = FALSE]
  OBVIOUS
<1>7. binder_deferred_release(K, p) = R
  BY <1>1, <1>2, <1>3, <1>4, <1>5, <1>6 DEF binder_deferred_release
<1>8. L \in Kernel /\ Quiet(K, L)
  BY <1>3, FreeThreadsKeeps
<1>9. M \in Kernel /\ Quiet(L, M)
  <2>1. M \in Kernel
    BY <1>4, <1>8 DEF Kernel
  <2>2. Quiet(L, M)
    BY <1>4, <1>8 DEF Kernel, Quiet
  <2> QED BY <2>1, <2>2
<1>10. N \in Kernel /\ Quiet(M, N)
  <2>1. K.ptodo[p] \in Seq(Txns) /\ K.async_todo[p] \in Seq(Txns)
    BY DEF Kernel
  <2>2. K.ptodo[p] \o K.async_todo[p] \in Seq(Txns)
    BY <2>1, ConcatProperties
  <2>3. K.ptodo[p] \o K.async_todo[p] \in Seq(Works)
    BY <2>2, SeqMonotonic DEF Works
  <2> QED BY <1>5, <1>9, <2>3, ReleaseWorkKeeps
<1>11. R \in Kernel
  <2>1. << >> \in Seq(Txns)
    OBVIOUS
  <2> QED BY <1>6, <1>10, <2>1 DEF Kernel
<1>12. Quiet(N, R)
  BY <1>6, <1>10 DEF Kernel, Quiet
<1>13. Quiet(K, R)
  BY <1>8, <1>9, <1>10, <1>12, QuietTrans
<1> QED BY <1>7, <1>11, <1>13

-----------------------------------------------------------------------------
(* The search for a thread that waits further down the stack.              *)

SearchStates == [t : Txns \cup {NoTxn}, h : Threads \cup {NoThread}]

SearchOne(K, p, w) ==
  IF w.t = NoTxn THEN w
  ELSE LET f == K.txn[w.t].from IN
       [t |-> K.txn[w.t].from_parent,
        h |-> IF f # NoThread /\ ProcOf[f] = p THEN f ELSE w.h]

LEMMA SearchKeeps ==
  ASSUME NEW K \in Kernel, NEW p, NEW w \in SearchStates
  PROVE  SearchOne(K, p, w) \in SearchStates
<1>1. PICK t \in Txns \cup {NoTxn} : t = w.t
  BY DEF SearchStates
<1>2. CASE t = NoTxn
  BY <1>1, <1>2 DEF SearchOne
<1>3. CASE t # NoTxn
  <2>1. PICK f \in Threads \cup {NoThread} : f = K.txn[t].from
    BY <1>3 DEF Kernel, TxnRecs
  <2>2. K.txn[t].from_parent \in Txns \cup {NoTxn}
    BY <1>3 DEF Kernel, TxnRecs
  <2>3. SearchOne(K, p, w) = [t |-> K.txn[t].from_parent,
          h |-> IF f # NoThread /\ ProcOf[f] = p THEN f ELSE w.h]
    BY <1>1, <1>3, <2>1 DEF SearchOne
  <2>4. w.h \in Threads \cup {NoThread}
    BY DEF SearchStates
  <2> QED BY <2>2, <2>3, <2>4 DEF SearchStates
<1> QED BY <1>2, <1>3

SearchTurns(f, K, t, p, N) ==
  f = [n \in 0 .. N |-> IF n = 0 THEN [t |-> t, h |-> NoThread]
                        ELSE SearchOne(K, p, f[n - 1])]

LEMMA SearchUnfold ==
  ASSUME NEW K \in Kernel, NEW t \in Txns \cup {NoTxn}, NEW p
  PROVE  \E f : /\ SearchTurns(f, K, t, p, Cardinality(Txns))
                /\ TargetThread(K, t, p) = f[Cardinality(Txns)].h
<1>1. PICK N \in Nat : N = Cardinality(Txns)
  BY FS_CardinalityType, BinderAssumption
<1>2. PICK w0 \in SearchStates : w0 = [t |-> t, h |-> NoThread]
  BY DEF SearchStates
<1>3. PICK step \in StepsIn(SearchStates, N) :
        step = [n \in 1 .. N |-> [w \in SearchStates |-> SearchOne(K, p, w)]]
  BY SearchKeeps DEF StepsIn
<1>4. PICK f : WalkOf(f, SearchStates, w0, step, N)
  BY Iterated
<1>5. ASSUME NEW n \in 0 .. N, n # 0 PROVE f[n] = SearchOne(K, p, f[n - 1])
  <2>1. n \in 1 .. N /\ n - 1 \in 0 .. N
    BY <1>5
  <2>2. f[n - 1] \in SearchStates
    BY <1>4, <2>1 DEF WalkOf
  <2> QED BY <1>3, <1>4, <2>1, <2>2 DEF WalkOf
<1>6. SearchTurns(f, K, t, p, N)
  BY <1>2, <1>4, <1>5 DEF SearchTurns, WalkOf
<1>7. PICK g : g = (CHOOSE e : SearchTurns(e, K, t, p, N))
  OBVIOUS
<1>8. SearchTurns(g, K, t, p, N)
  BY <1>6, <1>7
<1>9. TargetThread(K, t, p) = g[N].h
  BY <1>1, <1>7 DEF TargetThread, SearchTurns, SearchOne
<1> QED BY <1>1, <1>8, <1>9

LEMMA TargetType ==
  ASSUME NEW K \in Kernel, NEW t \in Txns \cup {NoTxn}, NEW p
  PROVE  TargetThread(K, t, p) \in Threads \cup {NoThread}
<1>1. PICK N \in Nat : N = Cardinality(Txns)
  BY FS_CardinalityType, BinderAssumption
<1>2. PICK f : SearchTurns(f, K, t, p, N) /\ TargetThread(K, t, p) = f[N].h
  BY <1>1, SearchUnfold
<1> DEFINE T == {n \in 0 .. N : f[n] \in SearchStates}
<1>3. 0 \in T
  <2>1. f[0] = [t |-> t, h |-> NoThread]
    BY <1>2 DEF SearchTurns
  <2> QED BY <2>1 DEF SearchStates
<1>4. ASSUME NEW n \in 0 .. N - 1, n \in T PROVE n + 1 \in T
  <2>1. n + 1 \in 0 .. N /\ n + 1 # 0 /\ (n + 1) - 1 = n
    OBVIOUS
  <2>2. f[n + 1] = SearchOne(K, p, f[n])
    BY <1>2, <2>1 DEF SearchTurns
  <2> QED BY <1>4, <2>1, <2>2, SearchKeeps
<1> HIDE DEF T
<1>5. N \in T
  BY <1>3, <1>4, Turns
<1> QED BY <1>2, <1>5 DEF T, SearchStates

-----------------------------------------------------------------------------
(* Wait queues.                                                            *)

LEMMA SubSeqFacts ==
  ASSUME NEW S, NEW s \in Seq(S), NEW m \in Int, NEW n \in Int,
         1 <= m, m <= n + 1, n <= Len(s)
  PROVE  /\ SubSeq(s, m, n) \in Seq(S)
         /\ Len(SubSeq(s, m, n)) = n - m + 1
         /\ \A i \in 1 .. n - m + 1 : SubSeq(s, m, n)[i] = s[m + i - 1]
<1>1. \A i \in m .. n : s[i] \in S
  <2> TAKE i \in m .. n
  <2>1. Len(s) \in Nat
    BY LenProperties
  <2>2. i \in 1 .. Len(s)
    BY <2>1
  <2> QED BY <2>2, ElementOfSeq
<1>2. /\ SubSeq(s, m, n) \in Seq(S)
      /\ Len(SubSeq(s, m, n)) = IF m <= n THEN n - m + 1 ELSE 0
      /\ \A i \in 1 .. n - m + 1 : SubSeq(s, m, n)[i] = s[m + i - 1]
  BY <1>1, SubSeqProperties
<1> QED BY <1>2

LEMMA RemoveAtFacts ==
  ASSUME NEW S, NEW s \in Seq(S), NEW c \in 1 .. Len(s)
  PROVE  /\ RemoveAt(s, c) \in Seq(S)
         /\ Len(RemoveAt(s, c)) = Len(s) - 1
         /\ \A i \in 1 .. Len(s) - 1 :
              RemoveAt(s, c)[i] = IF i < c THEN s[i] ELSE s[i + 1]
<1> DEFINE front == SubSeq(s, 1, c - 1)
           back == SubSeq(s, c + 1, Len(s))
<1>1. Len(s) \in Nat /\ c \in Int /\ 1 <= c /\ c <= Len(s)
  BY LenProperties
<1>2. /\ front \in Seq(S) /\ Len(front) = c - 1
      /\ \A i \in 1 .. c - 1 : front[i] = s[i]
  <2>1. /\ front \in Seq(S) /\ Len(front) = (c - 1) - 1 + 1
        /\ \A i \in 1 .. (c - 1) - 1 + 1 : front[i] = s[1 + i - 1]
    BY <1>1, SubSeqFacts
  <2> HIDE DEF front
  <2>2. ASSUME NEW i \in 1 .. c - 1 PROVE front[i] = s[i]
    <3>1. 1 + i - 1 = i /\ i \in 1 .. (c - 1) - 1 + 1
      BY <1>1
    <3> QED BY <2>1, <3>1
  <2> QED BY <1>1, <2>1, <2>2
<1>3. /\ back \in Seq(S) /\ Len(back) = Len(s) - c
      /\ \A i \in 1 .. Len(s) - c : back[i] = s[c + i]
  <2>1. /\ back \in Seq(S) /\ Len(back) = Len(s) - (c + 1) + 1
        /\ \A i \in 1 .. Len(s) - (c + 1) + 1 : back[i] = s[(c + 1) + i - 1]
    BY <1>1, SubSeqFacts
  <2> HIDE DEF back
  <2>2. ASSUME NEW i \in 1 .. Len(s) - c PROVE back[i] = s[c + i]
    <3>1. (c + 1) + i - 1 = c + i /\ i \in 1 .. Len(s) - (c + 1) + 1
      BY <1>1
    <3> QED BY <2>1, <3>1
  <2> QED BY <1>1, <2>1, <2>2
<1>4. RemoveAt(s, c) = front \o back
  BY DEF RemoveAt
<1> HIDE DEF front, back
<1>5. /\ front \o back \in Seq(S)
      /\ Len(front \o back) = Len(front) + Len(back)
      /\ \A i \in 1 .. Len(front) + Len(back) : (front \o back)[i] =
           IF i <= Len(front) THEN front[i] ELSE back[i - Len(front)]
  BY <1>2, <1>3, ConcatProperties
<1>6. ASSUME NEW i \in 1 .. Len(s) - 1
      PROVE  (front \o back)[i] = IF i < c THEN s[i] ELSE s[i + 1]
  <2>1. i \in 1 .. Len(front) + Len(back)
    BY <1>1, <1>2, <1>3
  <2>2. CASE i < c
    <3>1. i <= Len(front) /\ i \in 1 .. c - 1
      BY <2>2, <1>1, <1>2
    <3> QED BY <2>1, <2>2, <3>1, <1>2, <1>5
  <2>3. CASE ~ (i < c)
    <3>1. /\ ~ (i <= Len(front)) /\ i - Len(front) = i - c + 1
          /\ i - c + 1 \in 1 .. Len(s) - c /\ c + (i - c + 1) = i + 1
      BY <2>3, <1>1, <1>2
    <3>2. back[i - c + 1] = s[i + 1]
      BY <3>1, <1>3
    <3> QED BY <2>1, <2>3, <3>1, <3>2, <1>5
  <2> QED BY <2>2, <2>3
<1>7. Len(front) + Len(back) = Len(s) - 1
  BY <1>1, <1>2, <1>3
<1>8. RemoveAt(s, c) \in Seq(S) /\ Len(RemoveAt(s, c)) = Len(s) - 1
  BY <1>4, <1>5, <1>7
<1>9. \A i \in 1 .. Len(s) - 1 :
        RemoveAt(s, c)[i] = IF i < c THEN s[i] ELSE s[i + 1]
  BY <1>4, <1>6, Zenon
<1> QED BY <1>8, <1>9

LEMMA RemoveOne ==
  ASSUME NEW R, NEW s \in Seq(R), IsInjective(s), NEW c \in 1 .. Len(s)
  PROVE  /\ RemoveAt(s, c) \in Seq(R) /\ IsInjective(RemoveAt(s, c))
         /\ Range(RemoveAt(s, c)) = Range(s) \ {s[c]}
<1>1. Len(s) \in Nat /\ DOMAIN s = 1 .. Len(s)
  BY LenProperties
<1>3. PICK i : s[c] = i
  OBVIOUS
<1>4. PICK t : t = RemoveAt(s, c)
  OBVIOUS
<1>5. /\ t \in Seq(R) /\ Len(t) = Len(s) - 1
      /\ \A m \in 1 .. Len(s) - 1 : t[m] = IF m < c THEN s[m] ELSE s[m + 1]
  BY <1>4, RemoveAtFacts
<1>6. DOMAIN t = 1 .. Len(s) - 1
  BY <1>5, LenProperties
<1>7. IsInjective(t)
  <2>1. \A m, n \in DOMAIN s : s[m] = s[n] => m = n
    BY DEF IsInjective
  <2>2. ASSUME NEW m \in DOMAIN t, NEW n \in DOMAIN t, t[m] = t[n]
        PROVE  m = n
    <3>1. PICK m1 \in DOMAIN s : t[m] = s[m1] /\ m1 = IF m < c THEN m ELSE m + 1
      BY <1>1, <1>5, <1>6
    <3>2. PICK n1 \in DOMAIN s : t[n] = s[n1] /\ n1 = IF n < c THEN n ELSE n + 1
      BY <1>1, <1>5, <1>6
    <3>3. m1 = n1
      BY <2>1, <2>2, <3>1, <3>2
    <3> QED BY <1>1, <1>6, <3>1, <3>2, <3>3
  <2> QED BY <2>2 DEF IsInjective
<1>8. Range(t) = Range(s) \ {i}
  <2>1. ASSUME NEW x \in Range(t) PROVE x \in Range(s) \ {i}
    <3>1. PICK m \in DOMAIN t : x = t[m]
      BY <2>1 DEF Range
    <3>2. PICK m1 \in DOMAIN s : x = s[m1] /\ m1 # c
      BY <1>1, <1>5, <1>6, <3>1
    <3>3. s[m1] # s[c]
      BY <1>1, <3>2 DEF IsInjective
    <3> QED BY <1>3, <3>2, <3>3 DEF Range
  <2>2. ASSUME NEW x \in Range(s) \ {i} PROVE x \in Range(t)
    <3>1. PICK m1 \in DOMAIN s : x = s[m1] /\ m1 # c
      BY <1>3, <2>2 DEF Range
    <3>2. PICK m \in DOMAIN t : m = IF m1 < c THEN m1 ELSE m1 - 1
      BY <1>1, <1>6, <3>1
    <3>3. t[m] = s[m1]
      BY <1>1, <1>5, <1>6, <3>1, <3>2
    <3> QED BY <3>1, <3>3 DEF Range
  <2> QED BY <2>1, <2>2
<1> QED BY <1>3, <1>4, <1>5, <1>7, <1>8

(* A queue, each thread on it once, without one of them.                   *)
LEMMA RemoveFacts ==
  ASSUME NEW R, NEW s \in Seq(R), IsInjective(s), NEW i
  PROVE  /\ RemoveFirst(s, i) \in Seq(R) /\ IsInjective(RemoveFirst(s, i))
         /\ Range(RemoveFirst(s, i)) = Range(s) \ {i}
<1>1. Len(s) \in Nat /\ DOMAIN s = 1 .. Len(s)
  BY LenProperties
<1>2. CASE ~ \E n \in 1 .. Len(s) : s[n] = i
  <2>1. RemoveFirst(s, i) = s
    BY <1>2 DEF RemoveFirst
  <2>2. i \notin Range(s)
    BY <1>1, <1>2 DEF Range
  <2> QED BY <2>1, <2>2
<1>10. CASE \E n \in 1 .. Len(s) : s[n] = i
  <2> DEFINE I == {n \in 1 .. Len(s) : s[n] = i}
  <2>1. PICK c \in I : \A n \in I : c <= n
    <3>1. I # {} /\ I \in SUBSET Nat
      BY <1>10
    <3> HIDE DEF I
    <3> QED BY <3>1, SmallestOf
  <2>2. PICK m \in I : m = Min(I)
    BY <2>1 DEF Min
  <2>3. SelectInSeq(s, LAMBDA v : v = i) = m
    BY <2>1, <2>2 DEF SelectInSeq
  <2>4. RemoveFirst(s, i) = RemoveAt(s, m)
    BY <1>10, <2>3 DEF RemoveFirst
  <2> QED BY <2>4, RemoveOne
<1> QED BY <1>2, <1>10

LEMMA AppendFacts ==
  ASSUME NEW R, NEW s \in Seq(R), IsInjective(s), NEW i \in R, i \notin Range(s)
  PROVE  /\ Append(s, i) \in Seq(R) /\ IsInjective(Append(s, i))
         /\ Range(Append(s, i)) = Range(s) \cup {i}
<1>1. Len(s) \in Nat /\ DOMAIN s = 1 .. Len(s)
  BY LenProperties
<1>2. PICK t : t = Append(s, i)
  OBVIOUS
<1>3. /\ t \in Seq(R) /\ Len(t) = Len(s) + 1
      /\ \A m \in 1 .. Len(s) : t[m] = s[m]
      /\ t[Len(s) + 1] = i
  BY <1>2, AppendProperties
<1>4. DOMAIN t = 1 .. Len(s) + 1
  BY <1>3, LenProperties
<1>5. DOMAIN t = DOMAIN s \cup {Len(s) + 1} /\ Len(s) + 1 \notin DOMAIN s
  BY <1>1, <1>4
<1>6. \A m1 \in DOMAIN s : s[m1] # i /\ t[m1] = s[m1]
  BY <1>1, <1>3 DEF Range
<1>7. IsInjective(t)
  BY <1>3, <1>5, <1>6 DEF IsInjective
<1>8. Range(t) = Range(s) \cup {i}
  BY <1>3, <1>5, <1>6 DEF Range
<1> QED BY <1>2, <1>3, <1>7, <1>8

LEMMA TailFacts ==
  ASSUME NEW R, NEW s \in Seq(R), IsInjective(s), s # << >>
  PROVE  /\ Tail(s) \in Seq(R) /\ IsInjective(Tail(s))
         /\ Range(Tail(s)) = Range(s) \ {Head(s)} /\ Head(s) \in Range(s)
<1>1. Len(s) \in Nat \ {0} /\ DOMAIN s = 1 .. Len(s)
  BY LenProperties, EmptySeq
<1>2. PICK t : t = Tail(s)
  OBVIOUS
<1>3. /\ t \in Seq(R) /\ Len(t) = Len(s) - 1
      /\ \A m \in 1 .. Len(t) : t[m] = s[m + 1]
  BY <1>2, HeadTailProperties
<1>4. DOMAIN t = 1 .. Len(s) - 1
  BY <1>3, LenProperties
<1>5. Head(s) = s[1] /\ 1 \in DOMAIN s
  BY <1>1
<1>6. \A m \in DOMAIN t : m + 1 \in DOMAIN s /\ m + 1 # 1 /\ t[m] = s[m + 1]
  BY <1>1, <1>3, <1>4
<1>7. \A m \in DOMAIN s : m # 1 => m - 1 \in DOMAIN t /\ t[m - 1] = s[m]
  <2> SUFFICES ASSUME NEW m \in DOMAIN s, m # 1
               PROVE  m - 1 \in DOMAIN t /\ t[m - 1] = s[m]
    OBVIOUS
  <2>1. m - 1 \in 1 .. Len(t) /\ (m - 1) + 1 = m
    BY <1>1, <1>3
  <2> QED BY <1>3, <1>4, <2>1
<1>8. IsInjective(t)
  <2>1. \A m, n \in DOMAIN s : s[m] = s[n] => m = n
    BY DEF IsInjective
  <2>2. ASSUME NEW m \in DOMAIN t, NEW n \in DOMAIN t, t[m] = t[n]
        PROVE  m = n
    <3>1. m + 1 = n + 1
      BY <1>6, <2>1, <2>2
    <3> QED BY <1>1, <1>4, <3>1
  <2> QED BY <2>2 DEF IsInjective
<1>9. Range(t) = Range(s) \ {s[1]}
  <2>1. ASSUME NEW x \in Range(t) PROVE x \in Range(s) \ {s[1]}
    <3>1. PICK m \in DOMAIN t : x = t[m]
      BY <2>1 DEF Range
    <3> QED BY <1>5, <1>6, <3>1 DEF Range, IsInjective
  <2>2. ASSUME NEW x \in Range(s) \ {s[1]} PROVE x \in Range(t)
    <3>1. PICK m \in DOMAIN s : x = s[m] /\ m # 1
      BY <2>2 DEF Range
    <3> QED BY <1>7, <3>1 DEF Range
  <2> QED BY <2>1, <2>2
<1> QED BY <1>2, <1>3, <1>5, <1>8, <1>9 DEF Range

-----------------------------------------------------------------------------
(* Who is up.  A and F stand for at and forproc.                           *)

Places == {"user", "check", "run", "asleep"}

LineOk(line, A, F, p) ==
  /\ IsInjective(line)
  /\ \A h \in Range(line) : ProcOf[h] = p /\ F[h] /\ A[h] \in {"check", "asleep"}

Lines(K, A, F) == \A p \in Procs : LineOk(K.pwait[p], A, F, p)

OwnNoticed(K, A, F) ==
  \A h \in Threads : A[h] = "asleep" /\ ~ F[h] /\ h \in K.waits =>
                       K.todo[h] = << >> /\ K.error[h] = "OK"

Up(line, A, F, p) ==
  \E h \in Threads : /\ ProcOf[h] = p /\ F[h]
                     /\ \/ A[h] \in {"check", "run"}
                        \/ A[h] = "asleep" /\ h \notin Range(line)

PoolNoticed(K, A, F, p) ==
  K.ptodo[p] # << >> /\ K.pwait[p] # << >> => Up(K.pwait[p], A, F, p)

(* Before and after the wakeup that goes to the process p.                 *)
Ready(K, A, F, p) ==
  /\ K \in Kernel /\ Lines(K, A, F) /\ OwnNoticed(K, A, F)
  /\ \A q \in Procs \ {p} : PoolNoticed(K, A, F, q)

Noticed(K, A, F) ==
  /\ K \in Kernel /\ Lines(K, A, F) /\ OwnNoticed(K, A, F)
  /\ \A q \in Procs : PoolNoticed(K, A, F, q)

LEMMA WakeProcKeeps ==
  ASSUME NEW K, NEW A, NEW F, NEW p \in Procs, Ready(K, A, F, p)
  PROVE  Noticed(wake_proc(K, p), A, F)
<1>1. K \in Kernel /\ K.pwait[p] \in Seq(Threads) /\ LineOk(K.pwait[p], A, F, p)
  BY DEF Ready, Kernel, Lines
<1>2. CASE K.pwait[p] = << >>
  <2>1. wake_proc(K, p) = K
    BY <1>2 DEF wake_proc
  <2> QED BY <1>2, <2>1 DEF Ready, Noticed, PoolNoticed
<1>3. CASE K.pwait[p] # << >>
  <2>1. PICK line : line = K.pwait[p]
    OBVIOUS
  <2>2. PICK g : g = Head(line)
    OBVIOUS
  <2>3. PICK rest : rest = Tail(line)
    OBVIOUS
  <2>4. IsInjective(line)
    BY <1>1, <2>1 DEF LineOk
  <2>5. /\ rest \in Seq(Threads) /\ IsInjective(rest)
        /\ Range(rest) = Range(line) \ {g} /\ g \in Range(line)
    BY <1>1, <1>3, <2>1, <2>2, <2>3, <2>4, TailFacts
  <2>6. PICK L : L = [K EXCEPT !.pwait[p] = rest]
    OBVIOUS
  <2>7. wake_proc(K, p) = L
    BY <1>3, <2>1, <2>3, <2>6 DEF wake_proc
  <2>8. L \in Kernel
    BY <1>1, <2>5, <2>6 DEF Kernel
  <2>9. /\ L.pwait[p] = rest /\ \A q \in Procs \ {p} : L.pwait[q] = K.pwait[q]
        /\ L.ptodo = K.ptodo /\ L.waits = K.waits /\ L.todo = K.todo
        /\ L.error = K.error
    BY <1>1, <2>6 DEF Kernel
  <2>10. Lines(L, A, F)
    <3>1. LineOk(rest, A, F, p)
      BY <1>1, <2>1, <2>5 DEF LineOk
    <3> QED BY <2>9, <3>1 DEF Ready, Lines
  <2>11. OwnNoticed(L, A, F)
    BY <2>9 DEF Ready, OwnNoticed
  <2>12. Up(rest, A, F, p)
    <3>1. g \in Threads
      <4>1. line \in [DOMAIN line -> Threads]
        BY <1>1, <2>1, LenProperties
      <4> QED BY <2>5, <4>1 DEF Range
    <3>2. ProcOf[g] = p /\ F[g] /\ A[g] \in {"check", "asleep"}
      BY <1>1, <2>1, <2>5 DEF LineOk
    <3> QED BY <2>5, <3>1, <3>2 DEF Up
  <2>13. \A q \in Procs : PoolNoticed(L, A, F, q)
    BY <2>9, <2>12 DEF Ready, PoolNoticed
  <2> QED BY <2>7, <2>8, <2>10, <2>11, <2>13 DEF Noticed
<1> QED BY <1>2, <1>3

LEMMA AfterReadKeeps ==
  ASSUME NEW K, NEW A, NEW F, NEW p \in Procs, Ready(K, A, F, p)
  PROVE  Noticed(AfterRead(K, p), A, F)
<1>1. CASE K.ptodo[p] = << >>
  <2>1. AfterRead(K, p) = K
    BY <1>1 DEF AfterRead
  <2> QED BY <1>1, <2>1 DEF Ready, Noticed, PoolNoticed
<1>2. CASE K.ptodo[p] # << >>
  BY <1>2, WakeProcKeeps DEF AfterRead
<1> QED BY <1>1, <1>2

(* What may be done to h, which does not sleep, and to the work of p.      *)
QuietBut(K, L, h) ==
  /\ L.waits \subseteq K.waits /\ L.pwait = K.pwait
  /\ \A g \in L.waits \ {h} : /\ K.todo[g] = << >> => L.todo[g] = << >>
                              /\ K.error[g] = "OK" => L.error[g] = "OK"
  /\ \A q \in Procs : K.ptodo[q] = << >> => L.ptodo[q] = << >>

Changes(K, L, h, p) ==
  /\ L.waits \subseteq K.waits /\ L.pwait = K.pwait
  /\ \A g \in L.waits \ {h} : /\ K.todo[g] = << >> => L.todo[g] = << >>
                              /\ K.error[g] = "OK" => L.error[g] = "OK"
  /\ \A q \in Procs \ {p} : K.ptodo[q] = << >> => L.ptodo[q] = << >>

LEMMA QuietStep ==
  ASSUME NEW K, NEW A, NEW F, NEW L \in Kernel, Quiet(K, L), Noticed(K, A, F)
  PROVE  Noticed(L, A, F)
<1>1. Lines(L, A, F)
  BY DEF Noticed, Quiet, Lines
<1>2. OwnNoticed(L, A, F)
  BY DEF Noticed, Quiet, OwnNoticed
<1>3. \A q \in Procs : PoolNoticed(L, A, F, q)
  BY DEF Noticed, Quiet, PoolNoticed
<1> QED BY <1>1, <1>2, <1>3 DEF Noticed

LEMMA QuietButStep ==
  ASSUME NEW K, NEW A, NEW F, NEW h, NEW L \in Kernel, QuietBut(K, L, h),
         A[h] # "asleep", Noticed(K, A, F)
  PROVE  Noticed(L, A, F)
<1>1. Lines(L, A, F)
  BY DEF Noticed, QuietBut, Lines
<1>2. OwnNoticed(L, A, F)
  BY DEF Noticed, QuietBut, OwnNoticed
<1>3. \A q \in Procs : PoolNoticed(L, A, F, q)
  BY DEF Noticed, QuietBut, PoolNoticed
<1> QED BY <1>1, <1>2, <1>3 DEF Noticed

LEMMA ChangesStep ==
  ASSUME NEW K, NEW A, NEW F, NEW h, NEW p, NEW L \in Kernel,
         Changes(K, L, h, p), A[h] # "asleep", Ready(K, A, F, p)
  PROVE  Ready(L, A, F, p)
<1>1. Lines(L, A, F)
  BY DEF Ready, Changes, Lines
<1>2. OwnNoticed(L, A, F)
  BY DEF Ready, Changes, OwnNoticed
<1>3. \A q \in Procs \ {p} : PoolNoticed(L, A, F, q)
  BY DEF Ready, Changes, PoolNoticed
<1> QED BY <1>1, <1>2, <1>3 DEF Ready

LEMMA QuietButTrans ==
  ASSUME NEW K, NEW L, NEW M, NEW h,
         \/ Quiet(K, L) /\ QuietBut(L, M, h)
         \/ QuietBut(K, L, h) /\ Quiet(L, M)
         \/ QuietBut(K, L, h) /\ QuietBut(L, M, h)
  PROVE  QuietBut(K, M, h)
BY DEF Quiet, QuietBut

(* A thread on no queue of its process goes elsewhere.                     *)
LEMMA MoveReady ==
  ASSUME NEW K, NEW A \in [Threads -> Places], NEW F \in [Threads -> BOOLEAN],
         NEW h \in Threads, NEW place \in Places, place # "asleep",
         NEW b \in BOOLEAN, Noticed(K, A, F),
         h \notin Range(K.pwait[ProcOf[h]])
  PROVE  Ready(K, [A EXCEPT ![h] = place], [F EXCEPT ![h] = b], ProcOf[h])
<1>1. PICK B : B = [A EXCEPT ![h] = place]
  OBVIOUS
<1>2. PICK G : G = [F EXCEPT ![h] = b]
  OBVIOUS
<1>3. /\ B[h] = place /\ G[h] = b
      /\ \A g \in Threads \ {h} : B[g] = A[g] /\ G[g] = F[g]
  BY <1>1, <1>2
<1>4. Lines(K, B, G)
  <2> SUFFICES ASSUME NEW p \in Procs PROVE LineOk(K.pwait[p], B, G, p)
    BY DEF Lines
  <2>1. LineOk(K.pwait[p], A, F, p)
    BY DEF Noticed, Lines
  <2>2. Range(K.pwait[p]) \subseteq Threads
    <3>1. K.pwait[p] \in Seq(Threads)
      BY DEF Noticed, Kernel
    <3>2. K.pwait[p] \in [DOMAIN K.pwait[p] -> Threads]
      BY <3>1, LenProperties
    <3> QED BY <3>2 DEF Range
  <2>3. h \notin Range(K.pwait[p])
    BY <2>1 DEF LineOk
  <2>4. \A g \in Range(K.pwait[p]) : B[g] = A[g] /\ G[g] = F[g]
    BY <1>3, <2>2, <2>3
  <2> QED BY <2>1, <2>4 DEF LineOk
<1>5. OwnNoticed(K, B, G)
  BY <1>3 DEF Noticed, OwnNoticed
<1>6. \A q \in Procs \ {ProcOf[h]} : PoolNoticed(K, B, G, q)
  <2> SUFFICES ASSUME NEW q \in Procs \ {ProcOf[h]},
                      K.ptodo[q] # << >> /\ K.pwait[q] # << >>
               PROVE  Up(K.pwait[q], B, G, q)
    BY DEF PoolNoticed
  <2>1. Up(K.pwait[q], A, F, q)
    BY DEF Noticed, PoolNoticed
  <2> QED BY <1>3, <2>1 DEF Up
<1> QED BY <1>1, <1>2, <1>4, <1>5, <1>6 DEF Ready, Noticed

-----------------------------------------------------------------------------
(* Commands.                                                               *)

LEMMA FailKeeps ==
  ASSUME NEW K \in Kernel, NEW h \in Threads, NEW code \in Codes
  PROVE  Fail(K, h, code) \in Kernel /\ QuietBut(K, Fail(K, h, code), h)
<1>1. PICK b \in BOOLEAN : b = (K.bug \/ K.error[h] # "OK")
  BY Zenon
<1>2. PICK L : L = [K EXCEPT !.error[h] = code, !.bug = b]
  OBVIOUS
<1>3. Fail(K, h, code) = L
  BY <1>1, <1>2 DEF Fail
<1>4. L \in Kernel
  BY <1>2 DEF Kernel
<1>5. /\ L.waits = K.waits /\ L.pwait = K.pwait /\ L.ptodo = K.ptodo
      /\ L.todo = K.todo /\ \A g \in Threads \ {h} : L.error[g] = K.error[g]
  BY <1>2 DEF Kernel
<1>6. K.waits \subseteq Threads
  BY DEF Kernel
<1>7. QuietBut(K, L, h)
  BY <1>5, <1>6 DEF QuietBut
<1> QED BY <1>3, <1>4, <1>7

(* A thread that gets work is taken off its queue.                         *)
LEMMA PostKeeps ==
  ASSUME NEW K \in Kernel, NEW g \in Threads, NEW w \in Works
  PROVE  LET L == wake_thread([K EXCEPT !.todo[g] = Append(@, w)], g)
         IN  L \in Kernel /\ Quiet(K, L)
<1>1. PICK list \in Seq(Txns \cup {Complete}) : list = Append(K.todo[g], w)
  <2>1. K.todo[g] \in Seq(Txns \cup {Complete}) /\ w \in Txns \cup {Complete}
    BY DEF Kernel, Works
  <2> QED BY <2>1, AppendProperties
<1>2. PICK M : M = [K EXCEPT !.todo[g] = list]
  OBVIOUS
<1>3. PICK L : L = wake_thread([K EXCEPT !.todo[g] = Append(@, w)], g)
  OBVIOUS
<1>4. L = [M EXCEPT !.waits = M.waits \ {g}]
  BY <1>1, <1>2, <1>3 DEF wake_thread
<1>5. M \in Kernel
  BY <1>2 DEF Kernel
<1>6. L \in Kernel
  BY <1>4, <1>5 DEF Kernel
<1>7. /\ L.waits = K.waits \ {g} /\ L.pwait = K.pwait /\ L.ptodo = K.ptodo
      /\ L.error = K.error /\ \A f \in Threads \ {g} : L.todo[f] = K.todo[f]
  BY <1>2, <1>4 DEF Kernel
<1>8. K.waits \subseteq Threads
  BY DEF Kernel
<1>9. Quiet(K, L)
  BY <1>7, <1>8 DEF Quiet
<1> QED BY <1>3, <1>6, <1>9

(* A transaction and what it leaves with the thread that made it.          *)
LEMMA BeginKeeps ==
  ASSUME NEW K \in Kernel, NEW h \in Threads, NEW t \in Txns, NEW r \in TxnRecs,
         NEW s \in Txns \cup {NoTxn}
  PROVE  LET L == [K EXCEPT !.txn[t] = r, !.stack[h] = s,
                            !.todo[h] = Append(@, Complete)]
         IN  L \in Kernel /\ QuietBut(K, L, h)
<1>1. PICK list \in Seq(Txns \cup {Complete}) : list = Append(K.todo[h], Complete)
  <2>1. K.todo[h] \in Seq(Txns \cup {Complete})
    BY DEF Kernel
  <2> QED BY <2>1, AppendProperties
<1>2. PICK L : L = [K EXCEPT !.txn[t] = r, !.stack[h] = s, !.todo[h] = list]
  OBVIOUS
<1>3. L = [K EXCEPT !.txn[t] = r, !.stack[h] = s, !.todo[h] = Append(@, Complete)]
  BY <1>1, <1>2
<1>4. L \in Kernel
  BY <1>2 DEF Kernel
<1>5. /\ L.waits = K.waits /\ L.pwait = K.pwait /\ L.ptodo = K.ptodo
      /\ L.error = K.error /\ \A g \in Threads \ {h} : L.todo[g] = K.todo[g]
  BY <1>2 DEF Kernel
<1>6. K.waits \subseteq Threads
  BY DEF Kernel
<1>7. QuietBut(K, L, h)
  BY <1>5, <1>6 DEF QuietBut
<1> QED BY <1>3, <1>4, <1>7

(* Work for the process, and one of its threads is woken.                  *)
LEMMA PoolPost ==
  ASSUME NEW K, NEW A, NEW F, Noticed(K, A, F), NEW p \in Procs, NEW t \in Txns
  PROVE  Noticed(wake_proc([K EXCEPT !.ptodo[p] = Append(@, t)], p), A, F)
<1>1. K \in Kernel
  BY DEF Noticed
<1>2. PICK list \in Seq(Txns) : list = Append(K.ptodo[p], t)
  <2>1. K.ptodo[p] \in Seq(Txns)
    BY <1>1 DEF Kernel
  <2> QED BY <2>1, AppendProperties
<1>3. PICK L : L = [K EXCEPT !.ptodo[p] = Append(@, t)]
  OBVIOUS
<1>4. L = [K EXCEPT !.ptodo[p] = list]
  BY <1>2, <1>3
<1>5. L \in Kernel
  BY <1>1, <1>4 DEF Kernel
<1>6. /\ L.waits = K.waits /\ L.pwait = K.pwait /\ L.todo = K.todo
      /\ L.error = K.error /\ \A q \in Procs \ {p} : L.ptodo[q] = K.ptodo[q]
  BY <1>1, <1>4 DEF Kernel
<1>7. Ready(L, A, F, p)
  BY <1>5, <1>6 DEF Noticed, Ready, Lines, OwnNoticed, PoolNoticed
<1> QED BY <1>3, <1>7, WakeProcKeeps

LEMMA CallKeeps ==
  ASSUME NEW K, NEW A, NEW F, Noticed(K, A, F), NEW h \in Threads,
         A[h] # "asleep", NEW p \in Procs, FreeTxns(K) # {}
  PROVE  Noticed(Call(K, h, p), A, F)
<1>1. K \in Kernel
  BY DEF Noticed
<1>2. PICK t \in Txns : t = NewTxn(K)
  BY DEF NewTxn, FreeTxns
<1>3. PICK s \in Txns \cup {NoTxn} : s = K.stack[h]
  BY <1>1 DEF Kernel
<1>4. PICK target \in Threads \cup {NoThread} : target = TargetThread(K, s, p)
  BY <1>1, TargetType
<1>5. PICK r \in TxnRecs : r = [kind |-> "call", from |-> h, from_parent |-> s,
                                to_proc |-> p, to_thread |-> target,
                                to_parent |-> NoTxn]
  BY DEF TxnRecs
<1>6. PICK L : L = [K EXCEPT !.txn[t] = r, !.stack[h] = t,
                             !.todo[h] = Append(@, Complete)]
  OBVIOUS
<1>7. L \in Kernel /\ QuietBut(K, L, h)
  BY <1>1, <1>6, BeginKeeps
<1>8. Noticed(L, A, F)
  BY <1>7, QuietButStep
<1>9. CASE target = NoThread
  <2>1. Call(K, h, p) = wake_proc([L EXCEPT !.ptodo[p] = Append(@, t)], p)
    BY <1>2, <1>3, <1>4, <1>5, <1>6, <1>9 DEF Call
  <2> QED BY <1>8, <2>1, PoolPost
<1>10. CASE target # NoThread
  <2>1. PICK M : M = wake_thread([L EXCEPT !.todo[target] = Append(@, t)], target)
    OBVIOUS
  <2>2. Call(K, h, p) = M
    BY <1>2, <1>3, <1>4, <1>5, <1>6, <1>10, <2>1 DEF Call
  <2>3. target \in Threads /\ t \in Works
    BY <1>10 DEF Works
  <2>4. M \in Kernel /\ Quiet(L, M)
    BY <1>7, <2>1, <2>3, PostKeeps
  <2> QED BY <1>8, <2>2, <2>4, QuietStep
<1> QED BY <1>9, <1>10

LEMMA OneWayKeeps ==
  ASSUME NEW K, NEW A, NEW F, Noticed(K, A, F), NEW h \in Threads,
         A[h] # "asleep", NEW p \in Procs, FreeTxns(K) # {}
  PROVE  Noticed(OneWay(K, h, p), A, F)
<1>1. K \in Kernel
  BY DEF Noticed
<1>2. PICK t \in Txns : t = NewTxn(K)
  BY DEF NewTxn, FreeTxns
<1>3. PICK s \in Txns \cup {NoTxn} : s = K.stack[h]
  BY <1>1 DEF Kernel
<1>4. PICK r \in TxnRecs : r = [NoTransaction EXCEPT !.kind = "oneway", !.to_proc = p]
  BY DEF TxnRecs, NoTransaction
<1>5. PICK L : L = [K EXCEPT !.txn[t] = r, !.todo[h] = Append(@, Complete)]
  OBVIOUS
<1>6. L = [K EXCEPT !.txn[t] = r, !.stack[h] = s, !.todo[h] = Append(@, Complete)]
  BY <1>1, <1>3, <1>5 DEF Kernel
<1>7. L \in Kernel /\ QuietBut(K, L, h)
  BY <1>1, <1>6, BeginKeeps
<1>8. Noticed(L, A, F)
  BY <1>7, QuietButStep
<1>9. CASE K.has_async[p]
  <2>1. PICK M : M = [L EXCEPT !.async_todo[p] = Append(@, t)]
    OBVIOUS
  <2>2. OneWay(K, h, p) = M
    BY <1>2, <1>4, <1>5, <1>9, <2>1 DEF OneWay
  <2>3. PICK list \in Seq(Txns) : list = Append(L.async_todo[p], t)
    <3>1. L.async_todo[p] \in Seq(Txns)
      BY <1>7 DEF Kernel
    <3> QED BY <3>1, AppendProperties
  <2>4. M = [L EXCEPT !.async_todo[p] = list]
    BY <2>1, <2>3
  <2>5. M \in Kernel
    BY <1>7, <2>4 DEF Kernel
  <2>6. Quiet(L, M)
    BY <1>7, <2>4 DEF Kernel, Quiet
  <2> QED BY <1>8, <2>2, <2>5, <2>6, QuietStep
<1>10. CASE ~ K.has_async[p]
  <2>1. PICK M : M = [L EXCEPT !.has_async[p] = TRUE]
    OBVIOUS
  <2>2. M \in Kernel
    BY <1>7, <2>1 DEF Kernel
  <2>3. Quiet(L, M)
    BY <1>7, <2>1 DEF Kernel, Quiet
  <2>4. Noticed(M, A, F)
    BY <1>8, <2>2, <2>3, QuietStep
  <2>5. [L EXCEPT !.ptodo[p] = Append(@, t), !.has_async[p] = TRUE]
          = [M EXCEPT !.ptodo[p] = Append(@, t)]
    BY <1>7, <2>1 DEF Kernel
  <2>6. OneWay(K, h, p) = wake_proc([M EXCEPT !.ptodo[p] = Append(@, t)], p)
    BY <1>2, <1>4, <1>5, <1>10, <2>5 DEF OneWay
  <2> QED BY <2>4, <2>6, PoolPost
<1> QED BY <1>9, <1>10

LEMMA TransactionKeeps ==
  ASSUME NEW K, NEW A, NEW F, Noticed(K, A, F), NEW h \in Threads,
         A[h] # "asleep", NEW p \in Procs, NEW oneway, NEW fails,
         FreeTxns(K) = {} => fails
  PROVE  Noticed(binder_transaction(K, h, p, oneway, fails), A, F)
<1>1. K \in Kernel
  BY DEF Noticed
<1>2. ASSUME NEW code \in Codes PROVE Noticed(Fail(K, h, code), A, F)
  BY <1>1, FailKeeps, QuietButStep
<1>3. "DEAD" \in Codes /\ "FAILED" \in Codes
  BY DEF Codes
<1>4. CASE p \notin K.procs
  BY <1>2, <1>3, <1>4 DEF binder_transaction
<1>5. CASE /\ p \in K.procs
           /\ \/ fails
              \/ ~ oneway /\ K.stack[h] # NoTxn /\ K.txn[K.stack[h]].to_thread # h
  BY <1>2, <1>3, <1>5 DEF binder_transaction
<1>6. CASE /\ p \in K.procs /\ ~ fails
           /\ ~ (~ oneway /\ K.stack[h] # NoTxn /\ K.txn[K.stack[h]].to_thread # h)
  <2>1. binder_transaction(K, h, p, oneway, fails) =
          IF oneway THEN OneWay(K, h, p) ELSE Call(K, h, p)
    BY <1>6 DEF binder_transaction
  <2>2. Noticed(OneWay(K, h, p), A, F) /\ Noticed(Call(K, h, p), A, F)
    BY <1>6, OneWayKeeps, CallKeeps
  <2> QED BY <2>1, <2>2
<1> QED BY <1>4, <1>5, <1>6

LEMMA TodoWaits ==
  ASSUME NEW K \in Kernel, NEW h \in Threads, NEW list, NEW w
  PROVE  [[K EXCEPT !.todo[h] = list] EXCEPT !.waits = w]
           = [[K EXCEPT !.waits = w] EXCEPT !.todo[h] = list]
BY DEF Kernel

LEMMA ReplyKeeps ==
  ASSUME NEW K, NEW A, NEW F, Noticed(K, A, F), NEW h \in Threads,
         A[h] # "asleep", NEW fails, FreeTxns(K) = {} => fails
  PROVE  Noticed(binder_reply(K, h, fails), A, F)
<1>1. K \in Kernel
  BY DEF Noticed
<1>2. ASSUME NEW M \in Kernel, QuietBut(K, M, h) PROVE Noticed(M, A, F)
  BY <1>2, QuietButStep
<1>3. "DEAD" \in Codes /\ "FAILED" \in Codes /\ "COMPLETE" \in Codes
  BY DEF Codes
<1>4. PICK t \in Txns \cup {NoTxn} : t = K.stack[h]
  BY <1>1 DEF Kernel
<1>5. CASE t = NoTxn \/ K.txn[t].to_thread # h
  <2>1. binder_reply(K, h, fails) = Fail(K, h, "FAILED")
    BY <1>4, <1>5 DEF binder_reply
  <2> QED BY <1>1, <1>2, <1>3, <2>1, FailKeeps
<1>6. CASE ~ (t = NoTxn \/ K.txn[t].to_thread # h)
  <2>1. t \in Txns
    BY <1>6
  <2>2. PICK target \in Threads \cup {NoThread} : target = K.txn[t].from
    BY <1>1, <2>1 DEF Kernel, TxnRecs
  <2>3. PICK s \in Txns \cup {NoTxn} : s = K.txn[t].to_parent
    BY <1>1, <2>1 DEF Kernel, TxnRecs
  <2>4. PICK L : L = [K EXCEPT !.stack[h] = s]
    OBVIOUS
  <2>5. L \in Kernel
    BY <1>1, <2>4 DEF Kernel
  <2>6. Quiet(K, L)
    BY <1>1, <2>4 DEF Kernel, Quiet
  <2>7. L.txn = K.txn
    BY <1>1, <2>4 DEF Kernel
  <2>8. ASSUME NEW code \in Codes
        PROVE  Noticed(Fail(L, h, code), A, F)
    <3>1. Fail(L, h, code) \in Kernel /\ QuietBut(L, Fail(L, h, code), h)
      BY <2>5, FailKeeps
    <3> QED BY <1>2, <2>6, <3>1, QuietButTrans
  <2>9. ASSUME NEW code \in Codes
        PROVE  Noticed(FailReply(L, h, t, code), A, F)
    <3>1. PICK X : X = Fail(L, h, "COMPLETE")
      OBVIOUS
    <3>2. X \in Kernel /\ Noticed(X, A, F)
      BY <1>3, <2>5, <2>8, <3>1, FailKeeps
    <3>3. PICK Y : Y = binder_send_failed_reply(X, t, code)
      OBVIOUS
    <3>4. Y \in Kernel /\ Quiet(X, Y)
      BY <2>1, <3>2, <3>3, FailedReplyKeeps
    <3>5. FailReply(L, h, t, code) = Y
      BY <3>1, <3>3 DEF FailReply
    <3> QED BY <3>2, <3>4, <3>5, QuietStep
  <2>10. CASE target = NoThread
    <3>1. binder_reply(K, h, fails) = FailReply(L, h, t, "DEAD")
      BY <1>4, <1>6, <2>2, <2>3, <2>4, <2>10 DEF binder_reply
    <3> QED BY <1>3, <2>9, <3>1
  <2>11. CASE target # NoThread /\ L.stack[target] # t
    <3>1. binder_reply(K, h, fails) = Fail(L, h, "FAILED")
      BY <1>4, <1>6, <2>2, <2>3, <2>4, <2>11 DEF binder_reply
    <3> QED BY <1>3, <2>8, <3>1
  <2>12. CASE target # NoThread /\ L.stack[target] = t /\ fails
    <3>1. binder_reply(K, h, fails) = FailReply(L, h, t, "FAILED")
      BY <1>4, <1>6, <2>2, <2>3, <2>4, <2>12 DEF binder_reply
    <3> QED BY <1>3, <2>9, <3>1
  <2>13. CASE target # NoThread /\ L.stack[target] = t /\ ~ fails
    <3>1. PICK M : M = binder_pop_transaction(L, target, t)
      OBVIOUS
    <3>2. M \in Kernel /\ Quiet(L, M)
      BY <2>1, <2>5, <3>1, PopKeeps
    <3>3. PICK u \in Txns : u = NewTxn(L)
      BY <2>7, <2>13 DEF NewTxn, FreeTxns
    <3>4. target \in Threads
      BY <2>13
    <3>5. PICK r \in TxnRecs : r = [NoTransaction EXCEPT !.kind = "reply",
                                      !.to_proc = ProcOf[target],
                                      !.to_thread = target]
      BY <3>4, BinderAssumption DEF NoTransaction, TxnRecs
    <3>6. PICK f \in Threads \cup {NoThread} : f = target
      OBVIOUS
    <3>7. PICK X : X = [M EXCEPT !.txn[u] = r]
      OBVIOUS
    <3>8. X \in Kernel /\ Quiet(M, X)
      BY <3>2, <3>7, FreeTxn
    <3>9. PICK Y : Y = wake_thread([X EXCEPT !.todo[target] = Append(@, u)], target)
      OBVIOUS
    <3>10. Y \in Kernel /\ Quiet(X, Y)
      BY <3>4, <3>8, <3>9, PostKeeps DEF Works
    <3>11. PICK list \in Seq(Txns \cup {Complete}) :
             list = Append(Y.todo[h], Complete)
      <4>1. Y.todo[h] \in Seq(Txns \cup {Complete})
        BY <3>10 DEF Kernel
      <4> QED BY <4>1, AppendProperties
    <3>12. PICK Z : Z = [Y EXCEPT !.todo[h] = list]
      OBVIOUS
    <3>13. Z \in Kernel
      BY <3>10, <3>12 DEF Kernel
    <3>14. QuietBut(Y, Z, h)
      <4>1. /\ Z.waits = Y.waits /\ Z.pwait = Y.pwait /\ Z.ptodo = Y.ptodo
            /\ Z.error = Y.error /\ \A g \in Threads \ {h} : Z.todo[g] = Y.todo[g]
            /\ Y.waits \subseteq Threads
        BY <3>10, <3>12 DEF Kernel
      <4> QED BY <4>1 DEF QuietBut
    <3>15. Quiet(K, Y)
      BY <2>6, <3>2, <3>8, <3>10, QuietTrans
    <3>16. Noticed(Z, A, F)
      BY <1>2, <3>13, <3>14, <3>15, QuietButTrans
    <3>17. binder_reply(K, h, fails) =
             wake_thread([[M EXCEPT !.txn[u] = r, !.todo[target] = Append(@, u)]
                            EXCEPT !.todo[h] = Append(@, Complete)], target)
      BY <1>4, <1>6, <2>2, <2>3, <2>4, <2>13, <3>1, <3>3, <3>5 DEF binder_reply
    <3>18. wake_thread([[M EXCEPT !.txn[u] = r, !.todo[target] = Append(@, u)]
                          EXCEPT !.todo[h] = Append(@, Complete)], target) = Z
      <4>1. PICK V : V = [[M EXCEPT !.txn[u] = r, !.todo[target] = Append(@, u)]
                            EXCEPT !.todo[h] = Append(@, Complete)]
        OBVIOUS
      <4>2. PICK U : U = [X EXCEPT !.todo[target] = Append(@, u)]
        OBVIOUS
      <4>3. U = [M EXCEPT !.txn[u] = r, !.todo[target] = Append(@, u)]
        BY <3>2, <3>7, <4>2 DEF Kernel
      <4>4. V = [U EXCEPT !.todo[h] = Append(@, Complete)]
        BY <4>1, <4>3
      <4>5. U \in Kernel
        <5>1. Append(X.todo[target], u) \in Seq(Txns \cup {Complete})
          <6>1. X.todo[target] \in Seq(Txns \cup {Complete})
            BY <3>4, <3>8 DEF Kernel
          <6> QED BY <6>1, AppendProperties
        <5> QED BY <3>8, <4>2, <5>1 DEF Kernel
      <4>6. Y = [U EXCEPT !.waits = U.waits \ {target}]
        BY <3>9, <4>2 DEF wake_thread
      <4>7. Y.todo = U.todo
        BY <4>5, <4>6 DEF Kernel
      <4>8. wake_thread(V, target) = [V EXCEPT !.waits = V.waits \ {target}]
        BY DEF wake_thread
      <4>9. V.waits = U.waits /\ V = [U EXCEPT !.todo[h] = list]
        BY <3>11, <4>4, <4>5, <4>7 DEF Kernel
      <4>10. PICK w : w = U.waits \ {target}
        OBVIOUS
      <4>11. wake_thread(V, target) = [[U EXCEPT !.todo[h] = list] EXCEPT !.waits = w]
        BY <4>8, <4>9, <4>10
      <4>12. Z = [[U EXCEPT !.waits = w] EXCEPT !.todo[h] = list]
        BY <3>12, <4>6, <4>10
      <4>13. wake_thread(V, target) = Z
        <5>1. [[U EXCEPT !.todo[h] = list] EXCEPT !.waits = w]
                = [[U EXCEPT !.waits = w] EXCEPT !.todo[h] = list]
          BY <4>5, TodoWaits, ZenonT(60)
        <5> QED BY <4>11, <4>12, <5>1, Zenon
      <4> QED BY <4>1, <4>13
    <3> QED BY <3>16, <3>17, <3>18
  <2> QED BY <2>10, <2>11, <2>12, <2>13
<1> QED BY <1>5, <1>6

LEMMA FreeBufferKeeps ==
  ASSUME NEW h \in Threads, BC_FREE_BUFFER(h), Noticed(k, at, forproc)
  PROVE  Noticed(k', at, forproc)
<1>1. PICK p \in Procs : p = ProcOf[h]
  BY BinderAssumption
<1>2. PICK J \in Kernel : J = k
  BY DEF Noticed
<1>3. PICK b \in BOOLEAN : b = (J.bug \/ ~ J.has_async[p])
  BY Zenon
<1>4. PICK K : K = [J EXCEPT !.held[p] = FALSE, !.bug = b]
  OBVIOUS
<1>5. K \in Kernel
  BY <1>4 DEF Kernel
<1>6. Quiet(J, K)
  BY <1>4 DEF Kernel, Quiet
<1>7. at[h] # "asleep"
  BY DEF BC_FREE_BUFFER, Writes
<1>8. k' = IF J.async_todo[p] = << >> THEN [K EXCEPT !.has_async[p] = FALSE]
           ELSE [K EXCEPT !.todo[h] = Append(@, Head(J.async_todo[p])),
                          !.async_todo[p] = Tail(@)]
  BY <1>1, <1>2, <1>3, <1>4 DEF BC_FREE_BUFFER
<1>9. CASE J.async_todo[p] = << >>
  <2>1. PICK L : L = [K EXCEPT !.has_async[p] = FALSE]
    OBVIOUS
  <2>2. L \in Kernel
    BY <1>5, <2>1 DEF Kernel
  <2>3. Quiet(K, L)
    BY <1>5, <2>1 DEF Kernel, Quiet
  <2> QED BY <1>2, <1>6, <1>8, <1>9, <2>1, <2>2, <2>3, QuietTrans, QuietStep
<1>10. CASE J.async_todo[p] # << >>
  <2>1. J.async_todo[p] \in Seq(Txns) /\ K.async_todo = J.async_todo
    BY <1>4 DEF Kernel
  <2>2. PICK t \in Txns : t = Head(J.async_todo[p])
    BY <1>10, <2>1, HeadTailProperties
  <2>3. PICK rest \in Seq(Txns) : rest = Tail(K.async_todo[p])
    BY <1>10, <2>1, HeadTailProperties
  <2>4. PICK list \in Seq(Txns \cup {Complete}) : list = Append(K.todo[h], t)
    <3>1. K.todo[h] \in Seq(Txns \cup {Complete})
      BY <1>5 DEF Kernel
    <3> QED BY <3>1, AppendProperties
  <2>5. PICK L : L = [K EXCEPT !.todo[h] = list, !.async_todo[p] = rest]
    OBVIOUS
  <2>6. k' = L
    BY <1>8, <1>10, <2>2, <2>3, <2>4, <2>5
  <2>7. L \in Kernel
    BY <1>5, <2>5 DEF Kernel
  <2>8. QuietBut(K, L, h)
    <3>1. /\ L.waits = K.waits /\ L.pwait = K.pwait /\ L.ptodo = K.ptodo
          /\ L.error = K.error /\ \A g \in Threads \ {h} : L.todo[g] = K.todo[g]
          /\ K.waits \subseteq Threads
      BY <1>5, <2>5 DEF Kernel
    <3> QED BY <3>1 DEF QuietBut
  <2>9. Noticed(K, at, forproc)
    BY <1>2, <1>5, <1>6, QuietStep
  <2> QED BY <1>7, <2>6, <2>7, <2>8, <2>9, QuietButStep
<1> QED BY <1>9, <1>10

-----------------------------------------------------------------------------
(* binder_thread_read.                                                     *)

BinderInv ==
  /\ Noticed(k, at, forproc)
  /\ at \in [Threads -> Places] /\ forproc \in [Threads -> BOOLEAN]

LEMMA LineType ==
  ASSUME NEW K \in Kernel, NEW p \in Procs
  PROVE  K.pwait[p] \in Seq(Threads) /\ Range(K.pwait[p]) \subseteq Threads
<1>1. K.pwait[p] \in Seq(Threads)
  BY DEF Kernel
<1>2. K.pwait[p] \in [DOMAIN K.pwait[p] -> Threads]
  BY <1>1, LenProperties
<1> QED BY <1>1, <1>2 DEF Range

LEMMA OffLine ==
  ASSUME NEW K, NEW A, NEW F, Noticed(K, A, F), NEW h \in Threads,
         A[h] \notin {"check", "asleep"} \/ ~ F[h]
  PROVE  h \notin Range(K.pwait[ProcOf[h]])
<1>1. ProcOf[h] \in Procs
  BY BinderAssumption
<1> QED BY <1>1 DEF Noticed, Lines, LineOk

(* A thread that queues up is awake until it has looked again.             *)
LEMMA EnqueueKeeps ==
  ASSUME NEW K, NEW A \in [Threads -> Places], NEW F \in [Threads -> BOOLEAN],
         NEW h \in Threads, Ready(K, A, F, ProcOf[h]), A[h] = "check",
         h \notin Range(K.pwait[ProcOf[h]]),
         ~ F[h] => PoolNoticed(K, A, F, ProcOf[h])
  PROVE  Noticed(Enqueue(K, h, F[h]), A, F)
<1>1. PICK p \in Procs : p = ProcOf[h]
  BY BinderAssumption
<1>2. K \in Kernel
  BY DEF Ready
<1>3. CASE F[h]
  <2>1. PICK line \in Seq(Threads) : line = K.pwait[p]
    BY <1>2, LineType
  <2>2. LineOk(line, A, F, p)
    BY <2>1 DEF Ready, Lines
  <2>3. IsInjective(line) /\ h \notin Range(line)
    BY <1>1, <2>1, <2>2 DEF LineOk
  <2>4. PICK rest \in Seq(Threads) : rest = Append(line, h) /\ IsInjective(rest)
                                     /\ Range(rest) = Range(line) \cup {h}
    <3>1. /\ Append(line, h) \in Seq(Threads) /\ IsInjective(Append(line, h))
          /\ Range(Append(line, h)) = Range(line) \cup {h}
      BY <2>3, AppendFacts
    <3> QED BY <3>1, Zenon
  <2>5. PICK L : L = [K EXCEPT !.pwait[p] = rest]
    OBVIOUS
  <2>6. Enqueue(K, h, F[h]) = L
    BY <1>1, <1>3, <2>1, <2>3, <2>4, <2>5 DEF Enqueue
  <2>7. L \in Kernel
    BY <1>2, <2>5 DEF Kernel
  <2>8. /\ L.pwait[p] = rest /\ \A q \in Procs \ {p} : L.pwait[q] = K.pwait[q]
        /\ L.ptodo = K.ptodo /\ L.waits = K.waits /\ L.todo = K.todo
        /\ L.error = K.error
    BY <1>2, <2>5 DEF Kernel
  <2>9. LineOk(rest, A, F, p)
    BY <1>1, <1>3, <2>2, <2>4 DEF LineOk
  <2>10. Lines(L, A, F)
    BY <2>8, <2>9 DEF Ready, Lines
  <2>11. OwnNoticed(L, A, F)
    BY <2>8 DEF Ready, OwnNoticed
  <2>12. Up(rest, A, F, p)
    BY <1>1, <1>3 DEF Up
  <2>13. \A q \in Procs : PoolNoticed(L, A, F, q)
    BY <1>1, <2>8, <2>12 DEF Ready, PoolNoticed
  <2> QED BY <2>6, <2>7, <2>10, <2>11, <2>13 DEF Noticed
<1>4. CASE ~ F[h]
  <2>1. PICK L : L = [K EXCEPT !.waits = @ \cup {h}]
    OBVIOUS
  <2>2. Enqueue(K, h, F[h]) = L
    BY <1>4, <2>1 DEF Enqueue
  <2>3. L \in Kernel
    BY <1>2, <2>1 DEF Kernel
  <2>4. /\ L.pwait = K.pwait /\ L.ptodo = K.ptodo /\ L.todo = K.todo
        /\ L.error = K.error /\ L.waits = K.waits \cup {h}
    BY <1>2, <2>1 DEF Kernel
  <2>5. Lines(L, A, F)
    BY <2>4 DEF Ready, Lines
  <2>6. OwnNoticed(L, A, F)
    BY <2>4 DEF Ready, OwnNoticed
  <2>7. \A q \in Procs : PoolNoticed(L, A, F, q)
    BY <1>4, <2>4 DEF Ready, PoolNoticed
  <2> QED BY <2>2, <2>3, <2>5, <2>6, <2>7 DEF Noticed
<1> QED BY <1>3, <1>4

(* A thread that goes back to the test hands nothing on: it is up itself,  *)
(* or it was not one of those that count.                                  *)
LEMMA RetryKeeps ==
  ASSUME BinderInv, NEW h \in Threads, Retry(h),
         \/ at[h] = "user"
         \/ at[h] = "run" /\ (forproc[h] => k.ptodo[ProcOf[h]] = << >>)
  PROVE  BinderInv'
<1>1. PICK p \in Procs : p = ProcOf[h]
  BY BinderAssumption
<1>2. PICK K \in Kernel : K = k
  BY DEF BinderInv, Noticed
<1>3. PICK A \in [Threads -> Places] : A = at
  BY DEF BinderInv
<1>4. PICK F \in [Threads -> BOOLEAN] : F = forproc
  BY DEF BinderInv
<1>5. Noticed(K, A, F)
  BY <1>2, <1>3, <1>4 DEF BinderInv
<1>6. h \notin Range(K.pwait[p])
  BY <1>1, <1>3, <1>5, OffLine
<1>7. ASSUME NEW L \in Kernel, Quiet(K, L), k' = AfterRead(L, p),
             at' = [A EXCEPT ![h] = "user"], forproc' = F
      PROVE  BinderInv'
  <2>1. Noticed(L, A, F)
    BY <1>5, <1>7, QuietStep
  <2>2. L.pwait = K.pwait
    BY <1>7 DEF Quiet
  <2>3. F[h] \in BOOLEAN /\ F = [F EXCEPT ![h] = F[h]]
    OBVIOUS
  <2>4. PICK b \in BOOLEAN : F = [F EXCEPT ![h] = b]
    BY <2>3
  <2>5. PICK B : B = [A EXCEPT ![h] = "user"]
    OBVIOUS
  <2>6. "user" \in Places /\ "user" # "asleep"
    BY DEF Places
  <2>7. Ready(L, B, F, p)
    <3>1. h \notin Range(L.pwait[ProcOf[h]])
      BY <1>1, <1>6, <2>2
    <3>2. Ready(L, [A EXCEPT ![h] = "user"], [F EXCEPT ![h] = b], ProcOf[h])
      BY <2>1, <2>6, <3>1, MoveReady
    <3> QED BY <1>1, <2>4, <2>5, <3>2
  <2>8. Noticed(AfterRead(L, p), B, F)
    BY <2>7, AfterReadKeeps
  <2>9. B \in [Threads -> Places]
    BY <2>5, <2>6
  <2> QED BY <1>7, <2>5, <2>8, <2>9 DEF BinderInv
<1>8. CASE ReadErrors(h)
  <2>1. PICK L : L = [K EXCEPT !.error[h] = "OK", !.error2[h] = "OK"]
    OBVIOUS
  <2>2. L \in Kernel
    BY <2>1 DEF Kernel, Codes
  <2>3. Quiet(K, L)
    BY <2>1 DEF Kernel, Quiet
  <2>4. /\ k' = AfterRead(L, p) /\ at' = [A EXCEPT ![h] = "user"]
        /\ forproc' = F
    BY <1>1, <1>2, <1>3, <1>4, <1>8, <2>1 DEF ReadErrors
  <2> QED BY <1>7, <2>2, <2>3, <2>4
<1>9. CASE ReadSecondError(h)
  <2>1. Quiet(K, K)
    BY DEF Quiet
  <2>2. /\ k' = AfterRead(K, p) /\ at' = [A EXCEPT ![h] = "user"]
        /\ forproc' = F
    BY <1>1, <1>2, <1>3, <1>4, <1>9 DEF ReadSecondError
  <2> QED BY <1>7, <2>1, <2>2
<1>10. CASE StartWait(h)
  <2>1. PICK b \in BOOLEAN : b = (K.stack[h] = NoTxn /\ K.todo[h] = << >>)
    BY Zenon
  <2>2. PICK G \in [Threads -> BOOLEAN] : G = [F EXCEPT ![h] = b]
    OBVIOUS
  <2>3. G[h] = b
    BY <2>2
  <2>4. forproc' = G
    BY <1>2, <1>4, <1>10, <2>1, <2>2 DEF StartWait
  <2>5. ASSUME NEW place \in {"run", "check"},
               NEW B, B = [A EXCEPT ![h] = place]
        PROVE  /\ Ready(K, B, G, p) /\ B \in [Threads -> Places] /\ B[h] = place
               /\ (place = "run" \/ ~ b) => PoolNoticed(K, B, G, p)
    <3>1. place \in Places /\ place # "asleep"
      BY <2>5 DEF Places
    <3>2. Ready(K, B, G, p)
      BY <1>1, <1>5, <1>6, <2>2, <2>5, <3>1, MoveReady
    <3>3. B \in [Threads -> Places] /\ B[h] = place
      BY <2>5, <3>1
    <3>4. CASE b
      <4>1. ProcOf[h] = p /\ G[h] /\ B[h] \in {"check", "run"}
        BY <1>1, <2>3, <2>5, <3>3, <3>4
      <4>2. Up(K.pwait[p], B, G, p)
        BY <4>1 DEF Up
      <4>3. PoolNoticed(K, B, G, p)
        BY <4>2 DEF PoolNoticed
      <4> QED BY <3>2, <3>3, <4>3
    <3>5. CASE ~ b
      <4> SUFFICES ASSUME K.ptodo[p] # << >> /\ K.pwait[p] # << >>
                   PROVE  Up(K.pwait[p], B, G, p)
        BY <3>2, <3>3 DEF PoolNoticed
      <4>1. Up(K.pwait[p], A, F, p)
        BY <1>5 DEF Noticed, PoolNoticed
      <4>2. PICK g \in Threads : /\ ProcOf[g] = p /\ F[g]
                                 /\ \/ A[g] \in {"check", "run"}
                                    \/ A[g] = "asleep" /\ g \notin Range(K.pwait[p])
        BY <4>1 DEF Up
      <4>3. g # h
        BY <1>1, <1>2, <1>3, <1>4, <4>2
      <4>4. B[g] = A[g] /\ G[g] = F[g]
        BY <2>2, <2>5, <4>3
      <4> QED BY <4>2, <4>4 DEF Up
    <3> QED BY <3>2, <3>3, <3>4, <3>5
  <2>6. CASE HasWork(h, b)
    <3>1. PICK B : B = [A EXCEPT ![h] = "run"]
      OBVIOUS
    <3>2. k' = K /\ at' = B
      BY <1>2, <1>3, <1>10, <2>1, <2>6, <3>1 DEF StartWait
    <3>3. /\ Ready(K, B, G, p) /\ B \in [Threads -> Places]
          /\ PoolNoticed(K, B, G, p)
      BY <2>5, <3>1
    <3>4. Noticed(K, B, G)
      BY <3>3 DEF Ready, Noticed
    <3> QED BY <2>4, <3>2, <3>3, <3>4 DEF BinderInv
  <2>7. CASE ~ HasWork(h, b)
    <3>1. PICK B : B = [A EXCEPT ![h] = "check"]
      OBVIOUS
    <3>2. k' = Enqueue(K, h, b) /\ at' = B
      BY <1>2, <1>3, <1>10, <2>1, <2>7, <3>1 DEF StartWait
    <3>3. /\ Ready(K, B, G, p) /\ B \in [Threads -> Places] /\ B[h] = "check"
          /\ ~ b => PoolNoticed(K, B, G, p)
      BY <2>5, <3>1
    <3>4. Noticed(Enqueue(K, h, G[h]), B, G)
      BY <1>1, <1>6, <2>3, <3>3, EnqueueKeeps
    <3> QED BY <2>3, <2>4, <3>2, <3>3, <3>4 DEF BinderInv
  <2> QED BY <2>6, <2>7
<1> QED BY <1>8, <1>9, <1>10 DEF Retry

LEMMA DequeueFacts ==
  ASSUME NEW K, NEW A, NEW F \in [Threads -> BOOLEAN], Noticed(K, A, F),
         NEW h \in Threads, NEW L, L = Dequeue(K, h, F[h]),
         NEW p \in Procs, p = ProcOf[h]
  PROVE  /\ L \in Kernel /\ L.ptodo = K.ptodo /\ L.todo = K.todo
         /\ L.error = K.error /\ L.waits \subseteq K.waits
         /\ \A q \in Procs \ {p} : L.pwait[q] = K.pwait[q]
         /\ IsInjective(L.pwait[p]) /\ Range(L.pwait[p]) = Range(K.pwait[p]) \ {h}
         /\ ~ F[h] => L.pwait = K.pwait
<1>1. K \in Kernel
  BY DEF Noticed
<1>2. PICK line \in Seq(Threads) : line = K.pwait[p]
  BY <1>1, LineType
<1>3. IsInjective(line)
  BY <1>2 DEF Noticed, Lines, LineOk
<1>4. CASE F[h]
  <2>1. PICK rest \in Seq(Threads) : rest = RemoveFirst(line, h) /\ IsInjective(rest)
                                     /\ Range(rest) = Range(line) \ {h}
    <3>1. /\ RemoveFirst(line, h) \in Seq(Threads)
          /\ IsInjective(RemoveFirst(line, h))
          /\ Range(RemoveFirst(line, h)) = Range(line) \ {h}
      BY <1>3, RemoveFacts
    <3> QED BY <3>1, Zenon
  <2>2. PICK M : M = [K EXCEPT !.pwait[p] = rest]
    OBVIOUS
  <2>4. L = M
    <3>1. Dequeue(K, h, F[h]) =
            [K EXCEPT !.pwait[ProcOf[h]] = RemoveFirst(K.pwait[ProcOf[h]], h)]
      BY <1>4, Zenon DEF Dequeue
    <3>2. rest = RemoveFirst(K.pwait[p], h)
      BY <1>2, <2>1, Zenon
    <3> QED BY <2>2, <3>1, <3>2
  <2>3. /\ M \in Kernel
        /\ M.pwait[p] = rest /\ \A q \in Procs \ {p} : M.pwait[q] = K.pwait[q]
        /\ M.ptodo = K.ptodo /\ M.waits = K.waits /\ M.todo = K.todo
        /\ M.error = K.error
    <3>1. M \in Kernel
      BY <1>1, <2>2 DEF Kernel
    <3>2. /\ M.pwait[p] = rest /\ \A q \in Procs \ {p} : M.pwait[q] = K.pwait[q]
          /\ M.ptodo = K.ptodo /\ M.waits = K.waits /\ M.todo = K.todo
          /\ M.error = K.error
      BY <1>1, <2>2 DEF Kernel
    <3> QED BY <3>1, <3>2
  <2> QED BY <1>2, <1>4, <2>1, <2>3, <2>4
<1>5. CASE ~ F[h]
  <2>1. L = [K EXCEPT !.waits = @ \ {h}]
    BY <1>5 DEF Dequeue
  <2>2. L \in Kernel
    BY <1>1, <2>1 DEF Kernel
  <2>3. /\ L.pwait = K.pwait /\ L.ptodo = K.ptodo /\ L.todo = K.todo
        /\ L.error = K.error /\ L.waits \subseteq K.waits
    BY <1>1, <2>1 DEF Kernel
  <2>4. h \notin Range(line)
    BY <1>2, <1>5 DEF Noticed, Lines, LineOk
  <2> QED BY <1>2, <1>3, <2>2, <2>3, <2>4
<1> QED BY <1>4, <1>5

(* A thread leaves the queue for another place.                            *)
LEMMA LeaveLine ==
  ASSUME NEW K, NEW A \in [Threads -> Places], NEW F \in [Threads -> BOOLEAN],
         Noticed(K, A, F), NEW h \in Threads, NEW L, L = Dequeue(K, h, F[h]),
         NEW p \in Procs, p = ProcOf[h], NEW place \in {"run", "user"},
         NEW B, B = [A EXCEPT ![h] = place]
  PROVE  Ready(L, B, F, p) /\ (place = "run" => Noticed(L, B, F))
<1>1. /\ L \in Kernel /\ L.ptodo = K.ptodo /\ L.todo = K.todo
      /\ L.error = K.error /\ L.waits \subseteq K.waits
      /\ \A q \in Procs \ {p} : L.pwait[q] = K.pwait[q]
      /\ IsInjective(L.pwait[p]) /\ Range(L.pwait[p]) = Range(K.pwait[p]) \ {h}
      /\ ~ F[h] => L.pwait = K.pwait
  BY DequeueFacts
<1>2. B[h] = place /\ \A g \in Threads \ {h} : B[g] = A[g]
  BY DEF Places
<1>3. Lines(L, B, F)
  <2> SUFFICES ASSUME NEW q \in Procs PROVE LineOk(L.pwait[q], B, F, q)
    BY DEF Lines
  <2>1. LineOk(K.pwait[q], A, F, q)
    BY DEF Noticed, Lines
  <2>2. Range(K.pwait[q]) \subseteq Threads
    BY LineType DEF Noticed
  <2>3. CASE q = p
    <3>1. \A g \in Range(L.pwait[q]) : g \in Range(K.pwait[q]) /\ B[g] = A[g]
      BY <1>1, <1>2, <2>2, <2>3
    <3> QED BY <1>1, <2>1, <2>3, <3>1 DEF LineOk
  <2>4. CASE q # p
    <3>1. L.pwait[q] = K.pwait[q]
      BY <1>1, <2>4
    <3>2. h \notin Range(K.pwait[q])
      BY <2>1, <2>4 DEF LineOk
    <3>3. \A g \in Range(K.pwait[q]) : B[g] = A[g]
      BY <1>2, <2>2, <3>2
    <3> QED BY <2>1, <3>1, <3>3 DEF LineOk
  <2> QED BY <2>3, <2>4
<1>4. OwnNoticed(L, B, F)
  BY <1>1, <1>2 DEF Noticed, OwnNoticed
<1>5. ASSUME NEW q \in Procs \ {p} PROVE PoolNoticed(L, B, F, q)
  <2> SUFFICES ASSUME K.ptodo[q] # << >> /\ K.pwait[q] # << >>
               PROVE  Up(K.pwait[q], B, F, q)
    BY <1>1 DEF PoolNoticed
  <2>1. Up(K.pwait[q], A, F, q)
    BY DEF Noticed, PoolNoticed
  <2> QED BY <1>2, <2>1 DEF Up
<1>6. ASSUME place = "run" PROVE PoolNoticed(L, B, F, p)
  <2>1. CASE F[h]
    <3>1. Up(L.pwait[p], B, F, p)
      BY <1>2, <1>6, <2>1 DEF Up
    <3> QED BY <3>1 DEF PoolNoticed
  <2>2. CASE ~ F[h]
    <3> SUFFICES ASSUME K.ptodo[p] # << >> /\ K.pwait[p] # << >>
                 PROVE  Up(K.pwait[p], B, F, p)
      BY <1>1, <2>2 DEF PoolNoticed
    <3>1. Up(K.pwait[p], A, F, p)
      BY DEF Noticed, PoolNoticed
    <3> QED BY <1>2, <2>2, <3>1 DEF Up
  <2> QED BY <2>1, <2>2
<1>7. Ready(L, B, F, p)
  BY <1>1, <1>3, <1>4, <1>5 DEF Ready
<1>8. ASSUME place = "run" PROVE Noticed(L, B, F)
  <2>1. \A q \in Procs : PoolNoticed(L, B, F, q)
    BY <1>5, <1>6, <1>8
  <2> QED BY <1>1, <1>3, <1>4, <2>1 DEF Noticed
<1> QED BY <1>7, <1>8

LEMMA CheckKeeps ==
  ASSUME BinderInv, NEW h \in Threads, CheckWork(h)
  PROVE  BinderInv'
<1>1. PICK p \in Procs : p = ProcOf[h]
  BY BinderAssumption
<1>2. PICK K \in Kernel : K = k
  BY DEF BinderInv, Noticed
<1>3. PICK A \in [Threads -> Places] : A = at
  BY DEF BinderInv
<1>4. PICK F \in [Threads -> BOOLEAN] : F = forproc
  BY DEF BinderInv
<1>5. Noticed(K, A, F)
  BY <1>2, <1>3, <1>4 DEF BinderInv
<1>6. forproc' = F /\ A[h] = "check"
  BY <1>3, <1>4 DEF CheckWork
<1>7. CASE HasWork(h, F[h])
  <2>1. PICK L : L = Dequeue(K, h, F[h])
    OBVIOUS
  <2>2. PICK B : B = [A EXCEPT ![h] = "run"]
    OBVIOUS
  <2>3. k' = L /\ at' = B
    BY <1>2, <1>3, <1>4, <1>7, <2>1, <2>2 DEF CheckWork
  <2>4. Noticed(L, B, F)
    BY <1>1, <1>5, <2>1, <2>2, LeaveLine
  <2>5. B \in [Threads -> Places]
    BY <2>2 DEF Places
  <2> QED BY <1>6, <2>3, <2>4, <2>5 DEF BinderInv
<1>8. CASE ~ HasWork(h, F[h])
  <2>1. PICK B : B = [A EXCEPT ![h] = "asleep"]
    OBVIOUS
  <2>2. k' = K /\ at' = B
    BY <1>2, <1>3, <1>4, <1>8, <2>1 DEF CheckWork
  <2>3. B \in [Threads -> Places]
    BY <2>1 DEF Places
  <2>4. B[h] = "asleep" /\ \A g \in Threads \ {h} : B[g] = A[g]
    BY <2>1
  <2>5. Lines(K, B, F)
    <3> SUFFICES ASSUME NEW q \in Procs PROVE LineOk(K.pwait[q], B, F, q)
      BY DEF Lines
    <3>1. LineOk(K.pwait[q], A, F, q)
      BY <1>5 DEF Noticed, Lines
    <3>2. Range(K.pwait[q]) \subseteq Threads
      BY LineType
    <3> QED BY <2>4, <3>1, <3>2 DEF LineOk
  <2>6. /\ F[h] => K.ptodo[p] = << >>
        /\ ~ F[h] => K.todo[h] = << >> /\ K.error[h] = "OK"
    BY <1>1, <1>2, <1>8 DEF HasWork, binder_has_proc_work, binder_has_thread_work
  <2>7. OwnNoticed(K, B, F)
    BY <1>5, <2>4, <2>6 DEF Noticed, OwnNoticed
  <2>8. ASSUME NEW q \in Procs PROVE PoolNoticed(K, B, F, q)
    <3> SUFFICES ASSUME K.ptodo[q] # << >> /\ K.pwait[q] # << >>
                 PROVE  Up(K.pwait[q], B, F, q)
      BY DEF PoolNoticed
    <3>1. Up(K.pwait[q], A, F, q)
      BY <1>5 DEF Noticed, PoolNoticed
    <3>2. PICK g \in Threads : /\ ProcOf[g] = q /\ F[g]
                               /\ \/ A[g] \in {"check", "run"}
                                  \/ A[g] = "asleep" /\ g \notin Range(K.pwait[q])
      BY <3>1 DEF Up
    <3>3. g # h
      BY <1>1, <2>6, <3>2
    <3> QED BY <2>4, <3>2, <3>3 DEF Up
  <2>9. Noticed(K, B, F)
    BY <2>5, <2>7, <2>8 DEF Noticed
  <2> QED BY <1>6, <2>2, <2>3, <2>9 DEF BinderInv
<1> QED BY <1>7, <1>8

LEMMA SameFlag ==
  ASSUME NEW F \in [Threads -> BOOLEAN], NEW h \in Threads
  PROVE  \E b \in BOOLEAN : F = [F EXCEPT ![h] = b]
<1>1. F[h] \in BOOLEAN /\ F = [F EXCEPT ![h] = F[h]]
  OBVIOUS
<1> QED BY <1>1

LEMMA WokenKeeps ==
  ASSUME BinderInv, NEW h \in Threads, Woken(h)
  PROVE  BinderInv'
<1>1. PICK p \in Procs : p = ProcOf[h]
  BY BinderAssumption
<1>2. PICK K \in Kernel : K = k
  BY DEF BinderInv, Noticed
<1>3. PICK A \in [Threads -> Places] : A = at
  BY DEF BinderInv
<1>4. PICK F \in [Threads -> BOOLEAN] : F = forproc
  BY DEF BinderInv
<1>5. Noticed(K, A, F)
  BY <1>2, <1>3, <1>4 DEF BinderInv
<1>6. h \notin Range(K.pwait[ProcOf[h]])
  <2>1. CASE F[h]
    BY <1>2, <1>4, <2>1 DEF Woken, OnQueue
  <2>2. CASE ~ F[h]
    BY <1>5, <2>2, OffLine
  <2> QED BY <2>1, <2>2
<1>7. PICK B : B = [A EXCEPT ![h] = "check"]
  OBVIOUS
<1>8. k' = Enqueue(K, h, F[h]) /\ at' = B /\ forproc' = F
  BY <1>2, <1>3, <1>4, <1>7 DEF Woken
<1>9. PICK b \in BOOLEAN : F = [F EXCEPT ![h] = b]
  BY SameFlag
<1>10. "check" \in Places /\ "check" # "asleep"
  BY DEF Places
<1>11. Ready(K, B, F, ProcOf[h])
  <2>1. Ready(K, [A EXCEPT ![h] = "check"], [F EXCEPT ![h] = b], ProcOf[h])
    BY <1>5, <1>6, <1>10, MoveReady
  <2> QED BY <1>7, <1>9, <2>1
<1>12. B \in [Threads -> Places] /\ B[h] = "check"
  BY <1>7, <1>10
<1>13. ASSUME ~ F[h] PROVE PoolNoticed(K, B, F, ProcOf[h])
  <2> SUFFICES ASSUME K.ptodo[p] # << >> /\ K.pwait[p] # << >>
               PROVE  Up(K.pwait[p], B, F, p)
    BY <1>1 DEF PoolNoticed
  <2>1. Up(K.pwait[p], A, F, p)
    BY <1>5 DEF Noticed, PoolNoticed
  <2>2. \A g \in Threads \ {h} : B[g] = A[g]
    BY <1>7
  <2> QED BY <1>13, <2>1, <2>2 DEF Up
<1>14. Noticed(Enqueue(K, h, F[h]), B, F)
  BY <1>6, <1>11, <1>12, <1>13, EnqueueKeeps
<1> QED BY <1>8, <1>12, <1>14 DEF BinderInv

LEMMA InterruptedKeeps ==
  ASSUME BinderInv, NEW h \in Threads, Interrupted(h)
  PROVE  BinderInv'
<1>1. PICK p \in Procs : p = ProcOf[h]
  BY BinderAssumption
<1>2. PICK K \in Kernel : K = k
  BY DEF BinderInv, Noticed
<1>3. PICK A \in [Threads -> Places] : A = at
  BY DEF BinderInv
<1>4. PICK F \in [Threads -> BOOLEAN] : F = forproc
  BY DEF BinderInv
<1>5. Noticed(K, A, F)
  BY <1>2, <1>3, <1>4 DEF BinderInv
<1>6. PICK B : B = [A EXCEPT ![h] = "user"]
  OBVIOUS
<1>7. PICK L : L = IF F[h] /\ ~ OnQueue(h) THEN wake_proc(K, p)
                   ELSE Dequeue(K, h, F[h])
  OBVIOUS
<1>8. k' = AfterRead(L, p) /\ at' = B /\ forproc' = F
  BY <1>1, <1>2, <1>3, <1>4, <1>6, <1>7 DEF Interrupted
<1>9. "user" \in Places /\ "user" # "asleep"
  BY DEF Places
<1>10. Ready(L, B, F, p)
  <2>1. CASE F[h] /\ ~ OnQueue(h)
    <3>1. L = wake_proc(K, p)
      BY <1>7, <2>1
    <3>2. Ready(K, A, F, p)
      BY <1>5 DEF Noticed, Ready
    <3>3. Noticed(L, A, F)
      BY <3>1, <3>2, WakeProcKeeps
    <3>4. h \notin Range(K.pwait[p])
      BY <1>1, <1>2, <1>4, <2>1 DEF OnQueue
    <3>5. h \notin Range(L.pwait[p])
      <4>1. CASE K.pwait[p] = << >>
        BY <3>1, <3>4, <4>1 DEF wake_proc
      <4>2. CASE K.pwait[p] # << >>
        <5>1. L.pwait[p] = Tail(K.pwait[p])
          BY <3>1, <4>2 DEF wake_proc, Kernel
        <5>2. K.pwait[p] \in Seq(Threads) /\ IsInjective(K.pwait[p])
          BY <1>5, LineType DEF Noticed, Lines, LineOk
        <5>3. Range(Tail(K.pwait[p])) = Range(K.pwait[p]) \ {Head(K.pwait[p])}
          BY <4>2, <5>2, TailFacts
        <5> QED BY <3>4, <5>1, <5>3
      <4> QED BY <4>1, <4>2
    <3>6. PICK b \in BOOLEAN : F = [F EXCEPT ![h] = b]
      BY SameFlag
    <3>7. Ready(L, [A EXCEPT ![h] = "user"], [F EXCEPT ![h] = b], ProcOf[h])
      BY <1>1, <1>9, <3>3, <3>5, MoveReady
    <3> QED BY <1>1, <1>6, <3>6, <3>7
  <2>2. CASE ~ (F[h] /\ ~ OnQueue(h))
    <3>1. L = Dequeue(K, h, F[h])
      BY <1>7, <2>2
    <3> QED BY <1>1, <1>5, <1>6, <3>1, LeaveLine
  <2> QED BY <2>1, <2>2
<1>11. Noticed(AfterRead(L, p), B, F)
  BY <1>10, AfterReadKeeps
<1>12. B \in [Threads -> Places]
  BY <1>6, <1>9
<1> QED BY <1>8, <1>11, <1>12 DEF BinderInv

LEMMA HeadIsFirst ==
  ASSUME NEW R, NEW s \in Seq(R), Len(s) # 0
  PROVE  Head(s) = s[1]
<1>1. Len(s) \in Nat \ {0} /\ DOMAIN s = 1 .. Len(s)
  BY LenProperties
<1> QED BY <1>1

LEMMA EmptyList == << >> \in Seq(Works)
OBVIOUS

(* What is left of a list is a sequence that begins with a transaction.    *)
LEMMA RestFacts ==
  ASSUME NEW list \in Seq(Works), NEW n, n = Completions(list),
         NEW rest, rest = SubSeq(list, n + 1, Len(list))
  PROVE  rest \in Seq(Works) /\ (rest # << >> => Head(rest) \in Txns)
<1>1. PICK N \in Nat : N = Len(list) /\ DOMAIN list = 1 .. N
  BY LenProperties
<1>2. CASE \A i \in DOMAIN list : list[i] = Complete
  <2>1. n = N
    BY <1>1, <1>2 DEF Completions
  <2>2. rest = << >>
    BY <1>1, <2>1, SubSeqEmpty
  <2> QED BY <2>2, EmptyList
<1>3. CASE ~ \A i \in DOMAIN list : list[i] = Complete
  <2> DEFINE I == {i \in 1 .. Len(list) : list[i] # Complete}
  <2>1. I # {} /\ I \in SUBSET Nat
    BY <1>1, <1>3
  <2>2. \E c \in I : \A i \in I : c <= i
    <3> HIDE DEF I
    <3> QED BY <2>1, SmallestOf
  <2>3. PICK m \in I : m = Min(I)
    BY <2>2 DEF Min
  <2>4. SelectInSeq(list, LAMBDA w : w # Complete) = m
    BY <2>1, <2>3 DEF SelectInSeq
  <2>5. n = m - 1
    BY <1>3, <2>4 DEF Completions
  <2>6. m \in 1 .. N /\ list[m] # Complete /\ n + 1 = m
    BY <1>1, <2>3, <2>5
  <2>7. list[m] \in Txns
    BY <1>1, <2>6, ElementOfSeq DEF Works
  <2>8. /\ rest \in Seq(Works) /\ Len(rest) = N - m + 1
        /\ \A i \in 1 .. N - m + 1 : rest[i] = list[m + i - 1]
    <3>1. m \in Int /\ N \in Int /\ 1 <= m /\ m <= N + 1 /\ N <= Len(list)
      BY <1>1, <2>6
    <3>2. rest = SubSeq(list, m, N)
      BY <1>1, <2>6
    <3>3. /\ SubSeq(list, m, N) \in Seq(Works)
          /\ Len(SubSeq(list, m, N)) = N - m + 1
          /\ \A i \in 1 .. N - m + 1 : SubSeq(list, m, N)[i] = list[m + i - 1]
      BY <3>1, SubSeqFacts
    <3> QED BY <3>2, <3>3
  <2>9. 1 \in 1 .. N - m + 1 /\ m + 1 - 1 = m
    BY <2>6
  <2>10. rest[1] = list[m]
    BY <2>8, <2>9
  <2>11. Head(rest) = rest[1]
    <3>1. N - m + 1 # 0
      BY <2>6
    <3>2. rest \in Seq(Works) /\ Len(rest) # 0
      BY <2>8, <3>1, Zenon
    <3> QED BY <3>2, HeadIsFirst
  <2> QED BY <2>7, <2>8, <2>10, <2>11
<1> QED BY <1>2, <1>3

LEMMA DeliverKeeps ==
  ASSUME NEW K \in Kernel, NEW h \in Threads, NEW t \in Txns
  PROVE  Deliver(K, h, t) \in Kernel /\ Quiet(K, Deliver(K, h, t))
<1>1. PICK p \in Procs : p = ProcOf[h]
  BY BinderAssumption
<1>2. PICK r \in TxnRecs : r = K.txn[t]
  BY DEF Kernel
<1>3. CASE r.kind = "call"
  <2>1. PICK s \in Txns \cup {NoTxn} : s = K.stack[h]
    BY DEF Kernel
  <2>2. PICK q \in TxnRecs : q = [r EXCEPT !.to_parent = s, !.to_thread = h]
    BY DEF TxnRecs
  <2>3. PICK M : M = [K EXCEPT !.txn[t] = q]
    OBVIOUS
  <2>4. M \in Kernel /\ Quiet(K, M)
    BY <2>3, FreeTxn
  <2>5. PICK L : L = [M EXCEPT !.stack[h] = t]
    OBVIOUS
  <2>6. L \in Kernel
    BY <2>4, <2>5 DEF Kernel
  <2>7. Quiet(M, L)
    BY <2>4, <2>5 DEF Kernel, Quiet
  <2>8. L = [K EXCEPT !.txn[t] = [@ EXCEPT !.to_parent = s, !.to_thread = h],
                      !.stack[h] = t]
    BY <1>2, <2>2, <2>3, <2>5 DEF Kernel
  <2>9. Deliver(K, h, t) = L
    BY <1>2, <1>3, <2>1, <2>8 DEF Deliver
  <2> QED BY <2>4, <2>6, <2>7, <2>9, QuietTrans
<1>4. CASE r.kind = "oneway"
  <2>1. PICK M : M = [K EXCEPT !.txn[t] = NoTransaction]
    OBVIOUS
  <2>2. M \in Kernel /\ Quiet(K, M)
    BY <2>1, FreeTxn, NoTransactionType
  <2>3. PICK L : L = [M EXCEPT !.held[p] = TRUE]
    OBVIOUS
  <2>4. L \in Kernel
    BY <2>2, <2>3 DEF Kernel
  <2>5. Quiet(M, L)
    BY <2>2, <2>3 DEF Kernel, Quiet
  <2>6. L = [K EXCEPT !.txn[t] = NoTransaction, !.held[p] = TRUE]
    BY <2>1, <2>3 DEF Kernel
  <2>7. Deliver(K, h, t) = L
    BY <1>1, <1>2, <1>4, <2>6 DEF Deliver
  <2> QED BY <2>2, <2>4, <2>5, <2>7, QuietTrans
<1>5. CASE r.kind \notin {"call", "oneway"}
  <2>1. Deliver(K, h, t) = [K EXCEPT !.txn[t] = NoTransaction]
    BY <1>2, <1>5 DEF Deliver
  <2> QED BY <2>1, FreeTxn, NoTransactionType
<1> QED BY <1>3, <1>4, <1>5

LEMMA ReadKeeps ==
  ASSUME BinderInv, NEW h \in Threads, ReadWork(h)
  PROVE  BinderInv'
<1>1. PICK p \in Procs : p = ProcOf[h]
  BY BinderAssumption
<1>2. PICK K \in Kernel : K = k
  BY DEF BinderInv, Noticed
<1>3. PICK A \in [Threads -> Places] : A = at
  BY DEF BinderInv
<1>4. PICK F \in [Threads -> BOOLEAN] : F = forproc
  BY DEF BinderInv
<1>5. Noticed(K, A, F)
  BY <1>2, <1>3, <1>4 DEF BinderInv
<1>6. PICK list \in Seq(Works) : list = K.todo[h]
  BY DEF Kernel, Works
<1>7. PICK n : n = Completions(list)
  OBVIOUS
<1>8. PICK rest : rest = SubSeq(list, n + 1, Len(list))
  OBVIOUS
<1>9. rest \in Seq(Works) /\ (rest # << >> => Head(rest) \in Txns)
  BY <1>7, <1>8, RestFacts
<1>10. A[h] = "run"
  BY <1>3 DEF ReadWork
<1>11. PICK B : B = [A EXCEPT ![h] = "user"]
  OBVIOUS
<1>12. "user" \in Places /\ "user" # "asleep"
  BY DEF Places
<1>13. B \in [Threads -> Places] /\ B[h] # "asleep"
  BY <1>11, <1>12
<1>14. Ready(K, B, F, p)
  <2>1. h \notin Range(K.pwait[ProcOf[h]])
    BY <1>5, <1>10, OffLine
  <2>2. PICK b \in BOOLEAN : F = [F EXCEPT ![h] = b]
    BY SameFlag
  <2>3. Ready(K, [A EXCEPT ![h] = "user"], [F EXCEPT ![h] = b], ProcOf[h])
    BY <1>5, <1>12, <2>1, MoveReady
  <2> QED BY <1>1, <1>11, <2>2, <2>3
<1>15. ASSUME NEW L \in Kernel, Changes(K, L, h, p),
              k' = AfterRead(L, p), at' = B, forproc' = F
       PROVE  BinderInv'
  <2>1. Ready(L, B, F, p)
    BY <1>13, <1>14, <1>15, ChangesStep
  <2>2. Noticed(AfterRead(L, p), B, F)
    BY <2>1, AfterReadKeeps
  <2> QED BY <1>13, <1>15, <2>2 DEF BinderInv
<1>16. ASSUME NEW todo \in Seq(Works), NEW L, L = [K EXCEPT !.todo[h] = todo]
       PROVE  L \in Kernel /\ Changes(K, L, h, p)
  <2>1. todo \in Seq(Txns \cup {Complete})
    BY DEF Works
  <2>2. L \in Kernel
    BY <1>16, <2>1 DEF Kernel
  <2>3. /\ L.waits = K.waits /\ L.pwait = K.pwait /\ L.ptodo = K.ptodo
        /\ L.error = K.error /\ \A g \in Threads \ {h} : L.todo[g] = K.todo[g]
        /\ K.waits \subseteq Threads
    BY <1>16 DEF Kernel
  <2> QED BY <2>2, <2>3 DEF Changes
<1>17. ASSUME NEW L, NEW M, Changes(K, L, h, p), Quiet(L, M) PROVE Changes(K, M, h, p)
  BY <1>17 DEF Changes, Quiet
<1>18. CASE rest # << >>
  <2>1. PICK t \in Txns : t = Head(rest)
    BY <1>9, <1>18
  <2>2. PICK todo \in Seq(Works) : todo = Tail(rest)
    BY <1>9, <1>18, HeadTailProperties
  <2>3. PICK L : L = [K EXCEPT !.todo[h] = todo]
    OBVIOUS
  <2>4. L \in Kernel /\ Changes(K, L, h, p)
    BY <1>16, <2>3
  <2>5. PICK M : M = Deliver(L, h, t)
    OBVIOUS
  <2>6. M \in Kernel /\ Quiet(L, M)
    BY <2>4, <2>5, DeliverKeeps
  <2>7. k' = AfterRead(M, p) /\ at' = B /\ forproc' = F
    BY <1>1, <1>2, <1>3, <1>4, <1>6, <1>7, <1>8, <1>11, <1>18, <2>1, <2>2,
       <2>3, <2>5 DEF ReadWork
  <2> QED BY <1>15, <1>17, <2>4, <2>6, <2>7
<1>19. CASE rest = << >> /\ F[h] /\ K.ptodo[p] # << >>
  <2>1. K.ptodo[p] \in Seq(Txns)
    BY DEF Kernel
  <2>2. PICK t \in Txns : t = Head(K.ptodo[p])
    BY <1>19, <2>1, HeadTailProperties
  <2>3. PICK ptodo \in Seq(Txns) : ptodo = Tail(K.ptodo[p])
    BY <1>19, <2>1, HeadTailProperties
  <2>4. PICK L : L = [K EXCEPT !.todo[h] = << >>]
    OBVIOUS
  <2>5. L \in Kernel /\ Changes(K, L, h, p)
    <3>1. << >> \in Seq(Works)
      OBVIOUS
    <3> QED BY <1>16, <2>4, <3>1
  <2>6. PICK J : J = [L EXCEPT !.ptodo[p] = ptodo]
    OBVIOUS
  <2>7. J \in Kernel
    BY <2>5, <2>6 DEF Kernel
  <2>8. /\ J.waits = L.waits /\ J.pwait = L.pwait /\ J.todo = L.todo
        /\ J.error = L.error /\ \A q \in Procs \ {p} : J.ptodo[q] = L.ptodo[q]
    BY <2>5, <2>6 DEF Kernel
  <2>9. Changes(K, J, h, p)
    BY <2>5, <2>8 DEF Changes
  <2>10. PICK M : M = Deliver(J, h, t)
    OBVIOUS
  <2>11. M \in Kernel /\ Quiet(J, M)
    BY <2>7, <2>10, DeliverKeeps
  <2>12. J = [K EXCEPT !.todo[h] = << >>, !.ptodo[p] = Tail(@)]
    BY <2>3, <2>4, <2>6 DEF Kernel
  <2>13. k' = AfterRead(M, p) /\ at' = B /\ forproc' = F
    BY <1>1, <1>2, <1>3, <1>4, <1>6, <1>7, <1>8, <1>11, <1>19, <2>2,
       <2>10, <2>12 DEF ReadWork
  <2> QED BY <1>15, <1>17, <2>9, <2>11, <2>13
<1>20. CASE rest = << >> /\ ~ (F[h] /\ K.ptodo[p] # << >>)
  <2>1. CASE n > 0
    <3>1. PICK L : L = [K EXCEPT !.todo[h] = << >>]
      OBVIOUS
    <3>2. L \in Kernel /\ Changes(K, L, h, p)
      <4>1. << >> \in Seq(Works)
        OBVIOUS
      <4> QED BY <1>16, <3>1, <4>1
    <3>3. k' = AfterRead(L, p) /\ at' = B /\ forproc' = F
      BY <1>1, <1>2, <1>3, <1>4, <1>6, <1>7, <1>8, <1>11, <1>20, <2>1, <3>1
         DEF ReadWork
    <3> QED BY <1>15, <3>2, <3>3
  <2>2. CASE ~ (n > 0)
    <3>1. Retry(h)
      BY <1>1, <1>2, <1>4, <1>6, <1>7, <1>8, <1>20, <2>2 DEF ReadWork
    <3>2. at[h] = "run" /\ (forproc[h] => k.ptodo[ProcOf[h]] = << >>)
      BY <1>1, <1>2, <1>3, <1>4, <1>10, <1>20
    <3> QED BY <3>1, <3>2, RetryKeeps
  <2> QED BY <2>1, <2>2
<1> QED BY <1>18, <1>19, <1>20

(* A reader whose buffer is full leaves the rest of the work where it is.  *)
LEMMA NoRoomKeeps ==
  ASSUME BinderInv, NEW h \in Threads, NoRoom(h)
  PROVE  BinderInv'
<1>1. PICK p \in Procs : p = ProcOf[h]
  BY BinderAssumption
<1>2. PICK K \in Kernel : K = k
  BY DEF BinderInv, Noticed
<1>3. PICK A \in [Threads -> Places] : A = at
  BY DEF BinderInv
<1>4. PICK F \in [Threads -> BOOLEAN] : F = forproc
  BY DEF BinderInv
<1>5. Noticed(K, A, F)
  BY <1>2, <1>3, <1>4 DEF BinderInv
<1>6. PICK list \in Seq(Works) : list = K.todo[h]
  BY DEF Kernel, Works
<1>10. A[h] = "run"
  BY <1>3 DEF NoRoom
<1>11. PICK B : B = [A EXCEPT ![h] = "user"]
  OBVIOUS
<1>12. "user" \in Places /\ "user" # "asleep"
  BY DEF Places
<1>13. B \in [Threads -> Places] /\ B[h] # "asleep"
  BY <1>11, <1>12
<1>14. Ready(K, B, F, p)
  <2>1. h \notin Range(K.pwait[ProcOf[h]])
    BY <1>5, <1>10, OffLine
  <2>2. PICK b \in BOOLEAN : F = [F EXCEPT ![h] = b]
    BY SameFlag
  <2>3. Ready(K, [A EXCEPT ![h] = "user"], [F EXCEPT ![h] = b], ProcOf[h])
    BY <1>5, <1>12, <2>1, MoveReady
  <2> QED BY <1>1, <1>11, <2>2, <2>3
<1>15. ASSUME NEW L \in Kernel, Changes(K, L, h, p),
              k' = AfterRead(L, p), at' = B, forproc' = F
       PROVE  BinderInv'
  <2>1. Ready(L, B, F, p)
    BY <1>13, <1>14, <1>15, ChangesStep
  <2>2. Noticed(AfterRead(L, p), B, F)
    BY <2>1, AfterReadKeeps
  <2> QED BY <1>13, <1>15, <2>2 DEF BinderInv
<1>16. ASSUME NEW todo \in Seq(Works), NEW L, L = [K EXCEPT !.todo[h] = todo]
       PROVE  L \in Kernel /\ Changes(K, L, h, p)
  <2>1. todo \in Seq(Txns \cup {Complete})
    BY DEF Works
  <2>2. L \in Kernel
    BY <1>16, <2>1 DEF Kernel
  <2>3. /\ L.waits = K.waits /\ L.pwait = K.pwait /\ L.ptodo = K.ptodo
        /\ L.error = K.error /\ \A g \in Threads \ {h} : L.todo[g] = K.todo[g]
        /\ K.waits \subseteq Threads
    BY <1>16 DEF Kernel
  <2> QED BY <2>2, <2>3 DEF Changes
<1>17. PICK n \in 0 .. Len(list) :
          /\ k' = AfterRead([K EXCEPT !.todo[h] = SubSeq(list, n + 1, Len(list))], p)
          /\ at' = B /\ forproc' = F
  BY <1>1, <1>2, <1>3, <1>4, <1>6, <1>11 DEF NoRoom
<1>18. PICK todo \in Seq(Works) : todo = SubSeq(list, n + 1, Len(list))
  <2>1. Len(list) \in Nat
    BY LenProperties
  <2>2. SubSeq(list, n + 1, Len(list)) \in Seq(Works)
    BY <2>1, SubSeqProperties
  <2> QED BY <2>2
<1>19. PICK L : L = [K EXCEPT !.todo[h] = todo]
  OBVIOUS
<1>20. L \in Kernel /\ Changes(K, L, h, p)
  BY <1>16, <1>19
<1> QED BY <1>15, <1>17, <1>18, <1>19, <1>20

-----------------------------------------------------------------------------
(* The specification.                                                      *)

LEMMA BinderInitInv ==
  ASSUME BinderInit
  PROVE  BinderInv
<1>1. \A R : << >> \in Seq(R)
  OBVIOUS
<1>2. k.waits = {} /\ k.ptodo = [p \in Procs |-> << >>]
      /\ k.pwait = [p \in Procs |-> << >>]
  BY DEF BinderInit
<1>3. k \in Kernel
  <2>1. "OK" \in Codes
    BY DEF Codes
  <2> QED BY <1>1, <2>1, NoTransactionType DEF BinderInit, Kernel
<1>4. Range(<< >>) = {} /\ IsInjective(<< >>)
  BY DEF Range, IsInjective
<1>5. Lines(k, at, forproc)
  BY <1>2, <1>4 DEF Lines, LineOk
<1>6. OwnNoticed(k, at, forproc)
  BY <1>2 DEF OwnNoticed
<1>7. \A p \in Procs : PoolNoticed(k, at, forproc, p)
  BY <1>2 DEF PoolNoticed
<1>8. at \in [Threads -> Places] /\ forproc \in [Threads -> BOOLEAN]
  BY DEF BinderInit, Places
<1> QED BY <1>3, <1>5, <1>6, <1>7, <1>8 DEF BinderInv, Noticed

(* A step that leaves every thread where it is in binder_thread_read.      *)
LEMMA StandStill ==
  ASSUME BinderInv, Noticed(k', at, forproc), at' = at, forproc' = forproc
  PROVE  BinderInv'
BY DEF BinderInv

LEMMA BinderNextInv ==
  ASSUME BinderInv, [BinderNext]_binderVars
  PROVE  BinderInv'
<1> USE DEF binderVars
<1>1. k \in Kernel /\ Noticed(k, at, forproc)
  BY DEF BinderInv, Noticed
<1>2. ASSUME NEW h \in Threads, ReadStep(h) PROVE BinderInv'
  BY <1>2, CheckKeeps, WokenKeeps, ReadKeeps, NoRoomKeeps DEF ReadStep
<1>3. ASSUME NEW h \in Threads, BeginRead(h) PROVE BinderInv'
  <2>1. at[h] = "user" /\ Retry(h)
    BY <1>3 DEF BeginRead
  <2> QED BY <2>1, RetryKeeps
<1>4. ASSUME NEW h \in Threads, Interrupted(h) PROVE BinderInv'
  BY <1>4, InterruptedKeeps
<1>5. ASSUME NEW h \in Threads, BC_FREE_BUFFER(h) PROVE BinderInv'
  <2>1. Noticed(k', at, forproc)
    BY <1>1, <1>5, FreeBufferKeeps
  <2>2. at' = at /\ forproc' = forproc
    BY <1>5 DEF BC_FREE_BUFFER
  <2> QED BY <2>1, <2>2, StandStill
<1>6. ASSUME NEW h \in Threads, BINDER_THREAD_EXIT(h) PROVE BinderInv'
  <2>1. k' = binder_free_thread(k, h) /\ at' = at /\ forproc' = forproc
    BY <1>6 DEF BINDER_THREAD_EXIT
  <2>2. k' \in Kernel /\ Quiet(k, k')
    BY <1>1, <2>1, FreeThreadKeeps
  <2>3. Noticed(k', at, forproc)
    BY <1>1, <2>2, QuietStep
  <2> QED BY <2>1, <2>3, StandStill
<1>7. ASSUME NEW h \in Threads, NEW fails \in BOOLEAN, BC_REPLY(h, fails)
      PROVE  BinderInv'
  <2>1. /\ k' = binder_reply(k, h, fails) /\ at' = at /\ forproc' = forproc
        /\ at[h] # "asleep" /\ (FreeTxns(k) = {} => fails)
    BY <1>7 DEF BC_REPLY, Writes
  <2>2. Noticed(binder_reply(k, h, fails), at, forproc)
    BY <1>1, <2>1, ReplyKeeps
  <2> QED BY <2>1, <2>2, StandStill
<1>8. ASSUME NEW h \in Threads, NEW fails \in BOOLEAN, NEW p \in Procs,
             NEW oneway \in OneWays, BC_TRANSACTION(h, p, oneway, fails)
      PROVE  BinderInv'
  <2>1. /\ k' = binder_transaction(k, h, p, oneway, fails)
        /\ at' = at /\ forproc' = forproc
        /\ at[h] # "asleep" /\ (FreeTxns(k) = {} => fails)
    BY <1>8 DEF BC_TRANSACTION, Writes
  <2>2. Noticed(binder_transaction(k, h, p, oneway, fails), at, forproc)
    BY <1>1, <2>1, TransactionKeeps
  <2> QED BY <2>1, <2>2, StandStill
<1>9. ASSUME NEW p \in Procs, Release(p) PROVE BinderInv'
  <2>1. k' = binder_deferred_release(k, p) /\ at' = at /\ forproc' = forproc
    BY <1>9 DEF Release
  <2>2. k' \in Kernel /\ Quiet(k, k')
    BY <1>1, <2>1, DeferredKeeps
  <2>3. Noticed(k', at, forproc)
    BY <1>1, <2>2, QuietStep
  <2> QED BY <2>1, <2>3, StandStill
<1>10. CASE UNCHANGED binderVars
  <2>1. k' = k /\ at' = at /\ forproc' = forproc
    BY <1>10
  <2> QED BY <1>1, <2>1, StandStill
<1>11. CASE BinderNext
  BY <1>2, <1>3, <1>4, <1>5, <1>6, <1>7, <1>8, <1>9, <1>11 DEF BinderNext
<1> QED BY <1>10, <1>11

LEMMA BinderInvNoticed == BinderInv => WorkNoticed
<1> SUFFICES ASSUME BinderInv PROVE WorkNoticed
  OBVIOUS
<1>1. \A p \in Procs : LineOk(k.pwait[p], at, forproc, p)
  BY DEF BinderInv, Noticed, Lines
<1>2. OwnNoticed(k, at, forproc)
  BY DEF BinderInv, Noticed
<1>3. ASSUME NEW h \in Threads, at[h] = "asleep", ~ forproc[h], OnQueue(h)
      PROVE  ~ binder_has_thread_work(h)
  BY <1>2, <1>3 DEF OwnNoticed, OnQueue, binder_has_thread_work
<1>4. ASSUME NEW p \in Procs, k.ptodo[p] # << >>, k.pwait[p] # << >>
      PROVE  \E h \in Threads :
               /\ ProcOf[h] = p /\ forproc[h]
               /\ \/ at[h] \in {"check", "run"}
                  \/ at[h] = "asleep" /\ ~ OnQueue(h)
  <2>1. Up(k.pwait[p], at, forproc, p)
    BY <1>4 DEF BinderInv, Noticed, PoolNoticed
  <2> QED BY <2>1 DEF Up, OnQueue
<1> QED BY <1>3, <1>4 DEF WorkNoticed

(* What the driver keeps has its type.                                     *)
BinderTypeOK ==
  /\ k \in Kernel
  /\ at \in [Threads -> Places] /\ forproc \in [Threads -> BOOLEAN]

(* The transactions, stacks, lists, wait queues and error codes of struct  *)
(* binder_proc and struct binder_thread are of their types, and every      *)
(* thread is at a known place of binder_thread_read, whatever commands     *)
(* users write and whoever dies.                                           *)
THEOREM BinderTypeCorrect == BinderSpec => []BinderTypeOK
<1>1. BinderInv => BinderTypeOK
  BY DEF BinderInv, Noticed, BinderTypeOK
<1> QED BY <1>1, BinderInitInv, BinderNextInv, PTL DEF BinderSpec

(* Who is on the wait queue of a process, and how often.                   *)
QueueExact ==
  \A p \in Procs :
    /\ \A i, j \in DOMAIN k.pwait[p] : k.pwait[p][i] = k.pwait[p][j] => i = j
    /\ \A h \in Range(k.pwait[p]) : /\ ProcOf[h] = p /\ forproc[h]
                                    /\ at[h] \in {"check", "asleep"}

(* The wait queue of a process (proc->wait) has each of its threads at     *)
(* most once, and only threads that wait for work of the process in        *)
(* binder_thread_read: an exclusive wakeup never goes to a thread that is  *)
(* not there to take it, not even after a signal or a second wait.         *)
THEOREM QueueStaysExact == BinderSpec => []QueueExact
<1>1. BinderInv => QueueExact
  BY DEF BinderInv, Noticed, Lines, LineOk, IsInjective, QueueExact
<1> QED BY <1>1, BinderInitInv, BinderNextInv, PTL DEF BinderSpec

(* Nobody sleeps through work in binder_thread_read: a thread that waits   *)
(* for its own is woken for it, and while a process has work and waiters   *)
(* one of its threads is up, whatever commands, signals, exits and deaths  *)
(* come in between and however many processes and threads there are.       *)
THEOREM NobodySleepsThroughWork == BinderSpec => []WorkNoticed
BY BinderInitInv, BinderNextInv, BinderInvNoticed, PTL DEF BinderSpec
=============================================================================
