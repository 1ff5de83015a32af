------------------------------- MODULE Binder -------------------------------
(***************************************************************************)
(* Transactions of the binder driver (drivers/staging/android/binder.c):   *)
(* calls between processes, the stacks of calls a thread is part of, the   *)
(* lists of work threads and processes have to do, one-way calls, and what *)
(* happens to all of them when a thread exits or a process dies.           *)
(*                                                                         *)
(* Each process offers one node, which every other process has a handle    *)
(* for.  All that is done under binder_lock is one step; the record k is   *)
(* what the lock protects, and the helpers take it and return it changed.  *)
(* Users may issue any command at any time.                                *)
(***************************************************************************)
EXTENDS Naturals, FiniteSets, Sequences, SequencesExt

CONSTANTS
  Procs, Threads,
  ProcOf,      \* thread -> its process
  Txns,        \* bound: transactions that exist at the same time
  NoThread, NoTxn,
  OneWays,     \* bound: the flag TF_ONE_WAY of calls
  MaxTodo,     \* bound: work a thread leaves unread while it goes on calling
  AsyncExit    \* may a thread exit with a one-way call in its list

(* BINDER_WORK_TRANSACTION_COMPLETE                                        *)
Complete == "complete"

ASSUME BinderAssumption ==
  /\ ProcOf \in [Threads -> Procs]
  /\ IsFiniteSet(Txns) /\ IsFiniteSet(Threads)
  /\ NoThread \notin Threads /\ NoTxn \notin Txns /\ Complete \notin Txns
  /\ OneWays \subseteq BOOLEAN
  /\ MaxTodo \in Nat /\ AsyncExit \in BOOLEAN

VARIABLES
  k,           \* what binder_lock protects
  at,          \* thread -> where it is in binder_thread_read
  forproc,     \* thread -> wait_for_proc_work
  owed,        \* thread -> answers to its commands it has not read yet
  again        \* thread -> answers it has read and will be given again

binderVars == <<k, at, forproc, owed, again>>

(* struct binder_transaction, by what it is used for.                      *)
NoTransaction ==
  [kind |-> "free", from |-> NoThread, from_parent |-> NoTxn,
   to_proc |-> NoThread, to_thread |-> NoThread, to_parent |-> NoTxn]

BinderInit ==
  /\ k = [txn |-> [t \in Txns |-> NoTransaction],
          stack |-> [h \in Threads |-> NoTxn],
          todo |-> [h \in Threads |-> << >>],
          error |-> [h \in Threads |-> "OK"],
          error2 |-> [h \in Threads |-> "OK"],
          waits |-> {},                          \* threads on thread->wait
          live |-> Threads,
          procs |-> Procs,                       \* live processes
          ptodo |-> [p \in Procs |-> << >>],     \* proc->todo
          pwait |-> [p \in Procs |-> << >>],     \* proc->wait
          has_async |-> [p \in Procs |-> FALSE], \* of the process's node
          async_todo |-> [p \in Procs |-> << >>],
          held |-> [p \in Procs |-> FALSE],      \* the user has a buffer of
                                                 \* a one-way call
          bug |-> FALSE]                         \* a BUG_ON was hit
  /\ at = [h \in Threads |-> "user"]
  /\ forproc = [h \in Threads |-> FALSE]
  /\ owed = [h \in Threads |-> 0]
  /\ again = [h \in Threads |-> 0]

-----------------------------------------------------------------------------
(* wake_up_interruptible of a thread's and of a process's wait queue.  The *)
(* waiters of a process are exclusive: the first of them is woken.         *)

wake_thread(K, h) == [K EXCEPT !.waits = @ \ {h}]

wake_proc(K, p) ==
  IF K.pwait[p] = << >> THEN K ELSE [K EXCEPT !.pwait[p] = Tail(@)]

-----------------------------------------------------------------------------
(* The end of a transaction.                                               *)

binder_pop_transaction(K, h, t) ==
  LET L == IF h = NoThread THEN K
           ELSE [K EXCEPT !.stack[h] = K.txn[t].from_parent,
                          !.bug = @ \/ K.stack[h] # t \/ K.txn[t].from # h]
  IN  [L EXCEPT !.txn[t] = NoTransaction]

(* Mutant: there is no second error code. *)
OneErrorOnly(K, h) == K

(* The first error makes room for another.                                 *)
MoveError(K, h) ==
  IF K.error[h] # "OK" /\ K.error2[h] = "OK"
    THEN [K EXCEPT !.error2[h] = K.error[h], !.error[h] = "OK"]
    ELSE K

(* One turn of the loop of binder_send_failed_reply: w.t is the            *)
(* transaction whose caller is to be told, NoTxn when nobody is.           *)
FailOne(w, code) ==
  LET K == w.K
      h == K.txn[w.t].from
      next == K.txn[w.t].from_parent
      L == MoveError(K, h)
  IN  IF w.t = NoTxn THEN w
      ELSE IF h = NoThread
        THEN [K |-> binder_pop_transaction(K, h, w.t), t |-> next]
      ELSE IF L.error[h] = "OK"
        THEN [K |-> wake_thread([binder_pop_transaction(L, h, w.t) EXCEPT
                                   !.error[h] = code], h), t |-> NoTxn]
      ELSE [K |-> L, t |-> NoTxn]

binder_send_failed_reply(K, t, code) ==
  LET walk[n \in 0 .. Cardinality(Txns)] ==
        IF n = 0 THEN [K |-> K, t |-> t] ELSE FailOne(walk[n - 1], code)
  IN  walk[Cardinality(Txns)].K

-----------------------------------------------------------------------------
(* binder_transaction.                                                     *)

FreeTxns(K) == {t \in Txns : K.txn[t].kind = "free"}
NewTxn(K) == CHOOSE t \in Txns : t \in FreeTxns(K)

(* The transactions a caller, and its callers, wait for.                   *)
Chain(K, t) ==
  LET up[n \in 0 .. Cardinality(Txns)] ==
        IF n = 0 THEN {t} \ {NoTxn}
        ELSE up[n - 1] \cup
             ({K.txn[u].from_parent : u \in up[n - 1]} \ {NoTxn})
  IN  up[Cardinality(Txns)]

(* The end of the walk for a thread of the target process that waits       *)
(* further down the stack: the last one that is found.                     *)
TargetThread(K, t, p) ==
  LET walk[n \in 0 .. Cardinality(Txns)] ==
        IF n = 0 THEN [t |-> t, h |-> NoThread]
        ELSE LET w == walk[n - 1] IN
             IF w.t = NoTxn THEN w
             ELSE LET f == K.txn[w.t].from IN
                  [t |-> K.txn[w.t].from_parent,
                   h |-> IF f # NoThread /\ ProcOf[f] = p THEN f ELSE w.h]
  IN  walk[Cardinality(Txns)].h

(* The last lines of every error path.                                     *)
Fail(K, h, code) ==
  [K EXCEPT !.error[h] = code, !.bug = @ \/ K.error[h] # "OK"]

(* Mutant: the error goes to the thread that replies. *)
ReplierTold(K, h, in_reply_to, code) == Fail(K, h, code)

FailReply(K, h, in_reply_to, code) ==
  binder_send_failed_reply(Fail(K, h, "COMPLETE"), in_reply_to, code)

Call(K, h, p) ==
  LET t == NewTxn(K)
      target == TargetThread(K, K.stack[h], p)
      L == [K EXCEPT
              !.txn[t] = [kind |-> "call", from |-> h,
                          from_parent |-> K.stack[h], to_proc |-> p,
                          to_thread |-> target, to_parent |-> NoTxn],
              !.stack[h] = t,
              !.todo[h] = Append(@, Complete)]
  IN  IF target = NoThread
        THEN wake_proc([L EXCEPT !.ptodo[p] = Append(@, t)], p)
        ELSE wake_thread([L EXCEPT !.todo[target] = Append(@, t)], target)

OneWay(K, h, p) ==
  LET t == NewTxn(K)
      L == [K EXCEPT
              !.txn[t] = [NoTransaction EXCEPT !.kind = "oneway",
                                               !.to_proc = p],
              !.todo[h] = Append(@, Complete)]
  IN  IF K.has_async[p]
        THEN [L EXCEPT !.async_todo[p] = Append(@, t)]
        ELSE wake_proc([L EXCEPT !.ptodo[p] = Append(@, t),
                                 !.has_async[p] = TRUE], p)

(* fails: memory, a buffer, an object or an address of the user is at      *)
(* fault.                                                                  *)
binder_transaction(K, h, p, oneway, fails) ==
  IF p \notin K.procs THEN Fail(K, h, "DEAD")
  ELSE IF ~ oneway /\ K.stack[h] # NoTxn /\ K.txn[K.stack[h]].to_thread # h
    THEN Fail(K, h, "FAILED")
  ELSE IF fails THEN Fail(K, h, "FAILED")
  ELSE IF oneway THEN OneWay(K, h, p) ELSE Call(K, h, p)

binder_reply(K, h, fails) ==
  LET in_reply_to == K.stack[h]
      target == K.txn[in_reply_to].from
      L == [K EXCEPT !.stack[h] = K.txn[in_reply_to].to_parent]
      M == binder_pop_transaction(L, target, in_reply_to)
      t == NewTxn(L)
      N == [M EXCEPT !.txn[t] = [NoTransaction EXCEPT !.kind = "reply",
                                   !.to_proc = ProcOf[target],
                                   !.to_thread = target],
                     !.todo[target] = Append(@, t)]
  IN  IF in_reply_to = NoTxn THEN Fail(K, h, "FAILED")
      ELSE IF K.txn[in_reply_to].to_thread # h THEN Fail(K, h, "FAILED")
      ELSE IF target = NoThread THEN FailReply(L, h, in_reply_to, "DEAD")
      ELSE IF L.stack[target] # in_reply_to THEN Fail(L, h, "FAILED")
      ELSE IF fails THEN FailReply(L, h, in_reply_to, "FAILED")
      ELSE wake_thread([N EXCEPT !.todo[h] = Append(@, Complete)], target)

-----------------------------------------------------------------------------
(* The end of a thread and of a process.                                   *)

(* A reply or a one-way call on the list is leaked: nothing refers to it.  *)
ReleaseOne(K, w) ==
  IF w = Complete THEN K
  ELSE IF K.txn[w].kind = "call" THEN binder_send_failed_reply(K, w, "DEAD")
  ELSE [K EXCEPT !.txn[w] = NoTransaction]

binder_release_work(K, list) ==
  LET walk[n \in 0 .. Len(list)] ==
        IF n = 0 THEN K ELSE ReleaseOne(walk[n - 1], list[n])
  IN  walk[Len(list)]

(* One transaction of the stack of a thread that goes away.                *)
LeaveTransaction(w, h) ==
  LET t == w.t
      r == w.K.txn[t]
  IN  IF t = NoTxn THEN w
      ELSE IF r.to_thread = h
        THEN [K |-> [w.K EXCEPT !.txn[t].to_proc = NoThread,
                                !.txn[t].to_thread = NoThread],
              t |-> r.to_parent]
      ELSE IF r.from = h
        THEN [K |-> [w.K EXCEPT !.txn[t].from = NoThread],
              t |-> r.from_parent]
      ELSE [K |-> [w.K EXCEPT !.bug = TRUE], t |-> NoTxn]

LeaveAll(K, h) ==
  LET walk[n \in 0 .. Cardinality(Txns)] ==
        IF n = 0 THEN [K |-> K, t |-> K.stack[h]]
        ELSE LeaveTransaction(walk[n - 1], h)
  IN  walk[Cardinality(Txns)].K

binder_free_thread(K, h) ==
  LET top == K.stack[h]
      L == LeaveAll(K, h)
      M == IF top # NoTxn /\ K.txn[top].to_thread = h
             THEN binder_send_failed_reply(L, top, "DEAD") ELSE L
      N == binder_release_work(M, K.todo[h])
  IN  [N EXCEPT !.live = @ \ {h}, !.stack[h] = NoTxn, !.todo[h] = << >>,
                !.error[h] = "OK", !.error2[h] = "OK"]

FreeThreads(K, list) ==
  LET walk[n \in 0 .. Len(list)] ==
        IF n = 0 THEN K ELSE binder_free_thread(walk[n - 1], list[n])
  IN  walk[Len(list)]

binder_deferred_release(K, p) ==
  LET L == FreeThreads(K, SetToSeq({h \in K.live : ProcOf[h] = p}))
      M == [L EXCEPT !.procs = @ \ {p}]
      N == binder_release_work(M, K.ptodo[p] \o K.async_todo[p])
  IN  [N EXCEPT !.ptodo[p] = << >>, !.async_todo[p] = << >>,
                !.has_async[p] = FALSE, !.held[p] = FALSE]

-----------------------------------------------------------------------------
(* Commands that a thread writes.  A command is not looked at before the   *)
(* errors of earlier ones have been read.                                  *)

(* Mutant: commands are carried out while an error is pending. *)
WritesOn(h) ==
  /\ at[h] = "user" /\ h \in k.live
  /\ Len(k.todo[h]) < MaxTodo

Writes(h) ==
  /\ at[h] = "user" /\ h \in k.live
  /\ k.error[h] = "OK"
  /\ Len(k.todo[h]) < MaxTodo

BC_TRANSACTION(h, p, oneway, fails) ==
  LET K == binder_transaction(k, h, p, oneway, fails) IN
  /\ Writes(h)
  /\ p # ProcOf[h]
  /\ FreeTxns(k) = {} => fails
  /\ k' = K
  /\ owed' = [owed EXCEPT ![h] =
                IF oneway /\ K.error[h] = "OK" THEN @ ELSE @ + 1]
  /\ UNCHANGED <<at, forproc, again>>

BC_REPLY(h, fails) ==
  LET K == binder_reply(k, h, fails) IN
  /\ Writes(h)
  /\ FreeTxns(k) = {} => fails
  /\ k' = K
  /\ owed' = [owed EXCEPT ![h] =
                IF k.stack[h] = NoTxn \/ k.txn[k.stack[h]].to_thread # h
                  THEN @ + 1 ELSE @]
  /\ UNCHANGED <<at, forproc, again>>

(* Mutant: the node counts as free while the next one-way call is out. *)
FreeForgetsNext(h) ==
  LET p == ProcOf[h] IN
  /\ Writes(h)
  /\ k.held[p]
  /\ k' = [k EXCEPT !.held[p] = FALSE, !.has_async[p] = FALSE]
  /\ UNCHANGED <<at, forproc, owed, again>>

(* BC_FREE_BUFFER for the buffer of a one-way call: the next one, if there *)
(* is one, goes to the thread that freed it.                               *)
BC_FREE_BUFFER(h) ==
  LET p == ProcOf[h]
      K == [k EXCEPT !.held[p] = FALSE, !.bug = @ \/ ~ k.has_async[p]]
  IN
  /\ Writes(h)
  /\ k.held[p]
  /\ k' = IF k.async_todo[p] = << >> THEN [K EXCEPT !.has_async[p] = FALSE]
          ELSE [K EXCEPT !.todo[h] = Append(@, Head(k.async_todo[p])),
                         !.async_todo[p] = Tail(@)]
  /\ UNCHANGED <<at, forproc, owed, again>>

HasOneWay(list) == \E w \in Range(list) \ {Complete} : k.txn[w].kind = "oneway"

BINDER_THREAD_EXIT(h) ==
  /\ at[h] = "user" /\ h \in k.live
  /\ HasOneWay(k.todo[h]) => AsyncExit
  /\ k' = binder_free_thread(k, h)
  /\ owed' = [owed EXCEPT ![h] = 0]
  /\ again' = [again EXCEPT ![h] = 0]
  /\ UNCHANGED <<at, forproc>>

(* binder_release, once the file is closed and no thread is in an ioctl.   *)
Release(p) ==
  /\ p \in k.procs
  /\ \A h \in Threads : ProcOf[h] = p => at[h] = "user"
  /\ k' = binder_deferred_release(k, p)
  /\ owed' = [h \in Threads |-> IF ProcOf[h] = p THEN 0 ELSE owed[h]]
  /\ again' = [h \in Threads |-> IF ProcOf[h] = p THEN 0 ELSE again[h]]
  /\ UNCHANGED <<at, forproc>>

-----------------------------------------------------------------------------
(* binder_thread_read.                                                     *)

binder_has_proc_work(h) == k.ptodo[ProcOf[h]] # << >>
binder_has_thread_work(h) == k.todo[h] # << >> \/ k.error[h] # "OK"

HasWork(h, proc) ==
  IF proc THEN binder_has_proc_work(h) ELSE binder_has_thread_work(h)

(* Mutant: work that is left is not handed on. *)
NotHandedOn(K, p) == K

(* A read that returns: the ioctl wakes the next thread if there is work.  *)
AfterRead(K, p) == IF K.ptodo[p] = << >> THEN K ELSE wake_proc(K, p)

(* The error codes that answer a call.                                     *)
Answer(code) == IF code \in {"DEAD", "FAILED"} THEN 1 ELSE 0
Answers(K, h) == Answer(K.error[h]) + Answer(K.error2[h])

OnQueue(h) ==
  IF forproc[h] THEN h \in Range(k.pwait[ProcOf[h]]) ELSE h \in k.waits

Enqueue(K, h, proc) ==
  IF ~ proc THEN [K EXCEPT !.waits = @ \cup {h}]
  ELSE [K EXCEPT !.pwait[ProcOf[h]] =
          IF h \in Range(@) THEN @ ELSE Append(@, h)]

Dequeue(K, h, proc) ==
  IF proc THEN [K EXCEPT !.pwait[ProcOf[h]] = RemoveFirst(@, h)]
  ELSE [K EXCEPT !.waits = @ \ {h}]

(* The errors are read, the second one first.                              *)
ReadErrors(h) ==
  /\ k' = AfterRead([k EXCEPT !.error[h] = "OK", !.error2[h] = "OK"], ProcOf[h])
  /\ owed' = [owed EXCEPT ![h] = @ + again[h] - Answers(k, h)]
  /\ again' = [again EXCEPT ![h] = 0]
  /\ at' = [at EXCEPT ![h] = "user"]
  /\ UNCHANGED forproc

(* The second error fills the buffer: it is read and stays set.            *)
ReadSecondError(h) ==
  /\ k.error2[h] # "OK"
  /\ k' = AfterRead(k, ProcOf[h])
  /\ owed' = [owed EXCEPT ![h] = @ + again[h] - Answer(k.error2[h])]
  /\ again' = [again EXCEPT ![h] = Answer(k.error2[h])]
  /\ at' = [at EXCEPT ![h] = "user"]
  /\ UNCHANGED forproc

(* Up to the first test of wait_event_interruptible.                       *)
StartWait(h) ==
  LET proc == k.stack[h] = NoTxn /\ k.todo[h] = << >> IN
  /\ forproc' = [forproc EXCEPT ![h] = proc]
  /\ IF HasWork(h, proc)
       THEN at' = [at EXCEPT ![h] = "run"] /\ UNCHANGED k
       ELSE at' = [at EXCEPT ![h] = "check"] /\ k' = Enqueue(k, h, proc)
  /\ UNCHANGED <<owed, again>>

(* The lines after retry: an error is read before anything else, unless    *)
(* the user's buffer has no room for it.                                   *)
Retry(h) ==
  \/ k.error[h] # "OK" /\ (ReadErrors(h) \/ ReadSecondError(h))
  \/ StartWait(h)

BeginRead(h) == at[h] = "user" /\ h \in k.live /\ Retry(h)

(* The loop of wait_event_interruptible, without binder_lock.              *)
CheckWork(h) ==
  /\ at[h] = "check"
  /\ IF HasWork(h, forproc[h])
       THEN at' = [at EXCEPT ![h] = "run"] /\ k' = Dequeue(k, h, forproc[h])
       ELSE at' = [at EXCEPT ![h] = "asleep"] /\ UNCHANGED k
  /\ UNCHANGED <<forproc, owed, again>>

Woken(h) ==
  /\ at[h] = "asleep"
  /\ ~ OnQueue(h)
  /\ at' = [at EXCEPT ![h] = "check"]
  /\ k' = Enqueue(k, h, forproc[h])
  /\ UNCHANGED <<forproc, owed, again>>

(* A signal, or EAGAIN.  abort_exclusive_wait hands a wakeup on that the   *)
(* thread has had.                                                         *)
Interrupted(h) ==
  LET p == ProcOf[h]
      K == IF forproc[h] /\ ~ OnQueue(h) THEN wake_proc(k, p)
           ELSE Dequeue(k, h, forproc[h])
  IN
  /\ at[h] \in {"check", "asleep"}
  /\ k' = AfterRead(K, p)
  /\ at' = [at EXCEPT ![h] = "user"]
  /\ UNCHANGED <<forproc, owed, again>>

(* What a read leaves of the thread's list: the completions in front go.   *)
Completions(list) ==
  IF \A i \in DOMAIN list : list[i] = Complete THEN Len(list)
  ELSE SelectInSeq(list, LAMBDA w : w # Complete) - 1

Deliver(K, h, t) ==
  LET p == ProcOf[h] IN
  CASE K.txn[t].kind = "call" ->
         [K EXCEPT !.txn[t] = [@ EXCEPT !.to_parent = K.stack[h],
                                        !.to_thread = h],
                   !.stack[h] = t]
    [] K.txn[t].kind = "oneway" ->
         [K EXCEPT !.txn[t] = NoTransaction, !.held[p] = TRUE]
    [] OTHER -> [K EXCEPT !.txn[t] = NoTransaction]

ReadWork(h) ==
  LET p == ProcOf[h]
      n == Completions(k.todo[h])
      rest == SubSeq(k.todo[h], n + 1, Len(k.todo[h]))
      fromproc == rest = << >> /\ forproc[h] /\ k.ptodo[p] # << >>
      t == IF rest # << >> THEN Head(rest) ELSE Head(k.ptodo[p])
      K == IF rest # << >> THEN [k EXCEPT !.todo[h] = Tail(rest)]
           ELSE [k EXCEPT !.todo[h] = << >>, !.ptodo[p] = Tail(@)]
  IN
  /\ at[h] = "run"
  /\ IF rest # << >> \/ fromproc
       THEN /\ k' = AfterRead(Deliver(K, h, t), p)
            /\ at' = [at EXCEPT ![h] = "user"]
            /\ owed' = [owed EXCEPT ![h] =
                          IF k.txn[t].kind = "reply" THEN @ - 1 ELSE @]
            /\ UNCHANGED <<forproc, again>>
     ELSE IF n > 0
       THEN /\ k' = AfterRead([k EXCEPT !.todo[h] = << >>], p)
            /\ at' = [at EXCEPT ![h] = "user"]
            /\ UNCHANGED <<forproc, owed, again>>
     ELSE Retry(h)

(* The user's buffer has no room for the next work, perhaps after some     *)
(* completions were read.                                                  *)
NoRoom(h) ==
  \E n \in 0 .. Len(k.todo[h]) :
    /\ at[h] = "run"
    /\ \A i \in 1 .. n : k.todo[h][i] = Complete
    /\ n < Len(k.todo[h]) \/ (forproc[h] /\ k.ptodo[ProcOf[h]] # << >>)
    /\ k' = AfterRead([k EXCEPT !.todo[h] = SubSeq(@, n + 1, Len(@))],
                      ProcOf[h])
    /\ at' = [at EXCEPT ![h] = "user"]
    /\ UNCHANGED <<forproc, owed, again>>

-----------------------------------------------------------------------------
ReadStep(h) == CheckWork(h) \/ Woken(h) \/ ReadWork(h) \/ NoRoom(h)

BinderNext ==
  \/ \E h \in Threads :
       \/ ReadStep(h) \/ BeginRead(h) \/ Interrupted(h)
       \/ BC_FREE_BUFFER(h) \/ BINDER_THREAD_EXIT(h)
       \/ \E fails \in BOOLEAN :
            \/ BC_REPLY(h, fails)
            \/ \E p \in Procs, oneway \in OneWays :
                 BC_TRANSACTION(h, p, oneway, fails)
  \/ \E p \in Procs : Release(p)

BinderSpec == BinderInit /\ [][BinderNext]_binderVars

-----------------------------------------------------------------------------
InUse(t) == t \in Txns /\ k.txn[t].kind # "free"

(* The stack of a thread, from the top down.                               *)
Stack(h) ==
  LET down[n \in 0 .. Cardinality(Txns)] ==
        IF n = 0 THEN {k.stack[h]} \ {NoTxn}
        ELSE down[n - 1] \cup
             ({IF k.txn[t].to_thread = h THEN k.txn[t].to_parent
                 ELSE k.txn[t].from_parent : t \in down[n - 1]} \ {NoTxn})
  IN  down[Cardinality(Txns)]

CallsOf(h) == {t \in Stack(h) : k.txn[t].from = h}

Work(list) == Range(list) \ {Complete}

(* None of the driver's BUG_ONs is hit, whatever users write and whoever   *)
(* dies in the middle of nested calls, and no stack and no list is left    *)
(* with a transaction that was freed.                                      *)
NoBug ==
  /\ ~ k.bug
  /\ \A h \in Threads : /\ k.stack[h] = NoTxn \/ InUse(k.stack[h])
                        /\ \A t \in Work(k.todo[h]) : InUse(t)
  /\ \A p \in Procs : \A t \in Work(k.ptodo[p] \o k.async_todo[p]) : InUse(t)

(* Every call is answered once: what a thread has not read yet is on its   *)
(* stack, on its list or in its two error codes, and nothing else is but   *)
(* the one code it has read and will be given again, because it filled the *)
(* buffer.                                                                 *)
AnsweredOnce ==
  \A h \in k.live :
    owed[h] + again[h] =
              Cardinality(CallsOf(h))
              + Cardinality({t \in Work(k.todo[h]) : k.txn[t].kind = "reply"})
              + Answers(k, h)

Delivered(t) ==
  /\ k.txn[t].to_thread \in k.live
  /\ t \in Stack(k.txn[t].to_thread)

Queued(t) ==
  \/ \E h \in k.live : t \in Work(k.todo[h])
  \/ \E p \in k.procs : t \in Work(k.ptodo[p])

(* The callers that binder_send_failed_reply goes through from t.          *)
FailPath(t) ==
  {u \in Chain(k, t) :
     \A v \in Chain(k, t) \ Chain(k, u) : k.txn[v].from = NoThread}

(* A caller is never left behind: the call it waits for is queued for or   *)
(* in the hands of somebody alive, or of somebody a dead callee called,    *)
(* whose answer will be passed on as BR_DEAD_REPLY.                        *)
NobodyOrphaned ==
  \A h \in k.live : \A t \in CallsOf(h) :
    \E u \in Txns : /\ k.txn[u].kind = "call"
                   /\ t \in FailPath(u)
                   /\ (Delivered(u) \/ Queued(u))

(* Nobody sleeps through work.  A thread that waits for its own is woken   *)
(* for it; and while a process has work to do and waiters, one of them is  *)
(* up: a wakeup that went to a thread which is interrupted, or finds the   *)
(* work gone, is handed on.                                                *)
WorkNoticed ==
  /\ \A h \in Threads :
       at[h] = "asleep" /\ ~ forproc[h] /\ OnQueue(h)
         => ~ binder_has_thread_work(h)
  /\ \A p \in Procs :
       k.ptodo[p] # << >> /\ k.pwait[p] # << >> =>
         \E h \in Threads :
           /\ ProcOf[h] = p /\ forproc[h]
           /\ \/ at[h] \in {"check", "run"}
              \/ at[h] = "asleep" /\ ~ OnQueue(h)

(* One-way calls to a node are handed out one at a time, and while one is  *)
(* held back another is on its way or in the user's hands.                 *)
OneWaySerial ==
  \A p \in k.procs :
    LET out == {t \in Txns : /\ k.txn[t].kind = "oneway"
                             /\ k.txn[t].to_proc = p
                             /\ Queued(t)}
    IN  /\ Cardinality(out) + (IF k.held[p] THEN 1 ELSE 0)
             = (IF k.has_async[p] THEN 1 ELSE 0)
        /\ k.async_todo[p] # << >> => k.has_async[p]
=============================================================================
