-------------------------- MODULE BinderChainProofs --------------------------
(***************************************************************************)
(* For any processes, threads and transactions and calls nested to any     *)
(* depth, whoever dies in the middle: no BUG_ON is hit, every call is      *)
(* answered once and its caller never left behind, and one-way calls to a  *)
(* process go out one at a time.                                           *)
(***************************************************************************)
EXTENDS BinderProofs

-----------------------------------------------------------------------------
(* Chains of calls.  from_parent links a call to the call it was made to   *)
(* serve, so calls form chains that only the invariant's parts look at; a  *)
(* thread's stack is a selection of one chain.  In what follows K is the   *)
(* kernel's state, T the live threads, R the live processes, and G[t] says *)
(* where transaction t is filed.                                           *)

Parents(K) == [t \in Txns |-> K.txn[t].from_parent]

Closed(P, U) == \A u \in U : P[u] \in U \cup {NoTxn}

(* t is s or one of the calls that s was made to serve.                    *)
Anc(P, t, s) == \A U \in SUBSET Txns : s \in U /\ Closed(P, U) => t \in U

(* Nobody has called anybody yet to serve t.                               *)
Leaf(P, t) == \A u \in Txns : P[u] # t

OneChild(P) == \A u, v \in Txns : P[u] = P[v] /\ P[u] # NoTxn => u = v

Acyclic(P) == \A u, v \in Txns : Anc(P, u, v) /\ Anc(P, v, u) => u = v

(* Where a transaction is filed: nowhere when it is free or was delivered, *)
(* in limbo while a step holds it between two lists.                       *)
Nowhere == <<"none">>
Limbo == <<"limbo">>
Todo(h) == <<"todo", h>>
Ptodo(p) == <<"ptodo", p>>
Async(p) == <<"async", p>>

Wheres ==
  {Nowhere, Limbo} \cup {Todo(h) : h \in Threads}
    \cup {Ptodo(p) : p \in Procs} \cup {Async(p) : p \in Procs}

(* The calls a thread made, the ones it is to answer, and both.            *)
Out(K, h) == {t \in Txns : K.txn[t].kind = "call" /\ K.txn[t].from = h}

In(K, G, h) ==
  {t \in Txns : K.txn[t].kind = "call" /\ K.txn[t].to_thread = h /\ G[t] = Nowhere}

Own(K, G, h) == Out(K, h) \cup In(K, G, h)

(* A call is made to serve one that its caller has taken from a list.      *)
Links(K, G) ==
  /\ OneChild(Parents(K)) /\ Acyclic(Parents(K))
  /\ \A t \in Txns : LET s == K.txn[t].from_parent IN
       s # NoTxn => /\ K.txn[t].kind = "call" /\ K.txn[s].kind = "call"
                    /\ G[s] = Nowhere /\ K.txn[s].to_thread = K.txn[t].from

(* Callers and callees are alive or taken out; a call whose callee died    *)
(* stays only while another call that the callee made goes on.             *)
EndsAt(K, T, G, t) ==
  K.txn[t].kind = "call" =>
    /\ K.txn[t].from \in T \cup {NoThread}
    /\ K.txn[t].from # NoThread => K.txn[t].to_thread # K.txn[t].from
    /\ G[t] = Nowhere => \/ K.txn[t].to_thread \in T
                         \/ K.txn[t].to_thread = NoThread /\ ~ Leaf(Parents(K), t)

Ends(K, T, G) == \A t \in Txns : EndsAt(K, T, G, t)

(* The top of a stack is the end of all that the thread has to do with.    *)
TopAt(K, G, h) ==
  LET s == K.stack[h] IN
  /\ s = NoTxn => Own(K, G, h) = {}
  /\ s # NoTxn => /\ s \in Own(K, G, h)
                  /\ \A u \in Own(K, G, h) : Anc(Parents(K), u, s)
  /\ s \in In(K, G, h) => Leaf(Parents(K), s)

Tops(K, T, G) == \A h \in T : TopAt(K, G, h)

(* to_parent leads to the next call up the chain that is the thread's.     *)
UnderAt(K, G, h, s) ==
  LET r == K.txn[s].to_parent IN
  /\ r = NoTxn => \A u \in Own(K, G, h) : Anc(Parents(K), s, u)
  /\ r # NoTxn => /\ r \in Out(K, h) /\ Anc(Parents(K), r, s)
                  /\ \A u \in Own(K, G, h) : \/ Anc(Parents(K), s, u)
                                             \/ Anc(Parents(K), u, r)

Unders(K, T, G) == \A h \in T : \A s \in In(K, G, h) : UnderAt(K, G, h, s)

(* What may be on which list, and that a call is put on a thread's own     *)
(* list only while the thread waits further up the chain of the call.      *)
FiledAt(K, T, R, G, t) ==
  LET x == K.txn[t] IN
  /\ G[t] = Nowhere => x.kind \in {"free", "call"}
  /\ G[t] # Nowhere => x.kind # "free"
  /\ \A h \in Threads : G[t] = Todo(h) =>
       /\ h \in T
       /\ x.kind = "oneway" => x.to_proc = ProcOf[h]
       /\ x.kind = "call" => /\ x.to_thread = h /\ K.stack[h] \in Out(K, h) \ {t}
                             /\ Anc(Parents(K), K.stack[h], t)
  /\ \A p \in Procs : G[t] = Ptodo(p) =>
       /\ p \in R /\ x.kind \in {"call", "oneway"}
       /\ x.kind = "oneway" => x.to_proc = p
       /\ x.kind = "call" => /\ x.to_thread = NoThread
                             /\ x.from # NoThread => ProcOf[x.from] # p
  /\ \A p \in Procs : G[t] = Async(p) =>
       p \in R /\ x.kind = "oneway" /\ x.to_proc = p

Filed(K, T, R, G) == \A t \in Txns : FiledAt(K, T, R, G, t)

(* The second error code is taken only after the first, by a thread that   *)
(* does not wait for a call any more: there is always room for another.    *)
Errors(K, T) ==
  /\ ~ K.bug
  /\ \A h \in T : K.error2[h] # "OK" => K.error[h] # "OK" /\ K.stack[h] \notin Out(K, h)

(* The one-way calls to p that are on their way.                           *)
OutTo(K, G, p) ==
  {t \in Txns : /\ K.txn[t].kind = "oneway" /\ K.txn[t].to_proc = p
                /\ G[t] \notin {Async(p), Limbo}}

SerialAt(K, G, p) ==
  /\ \A t, u \in OutTo(K, G, p) : t = u
  /\ K.held[p] => OutTo(K, G, p) = {}
  /\ K.held[p] \/ OutTo(K, G, p) # {} => K.has_async[p]
  /\ (\E t \in Txns : G[t] = Async(p)) => K.has_async[p]
  /\ ~ AsyncExit /\ K.has_async[p] => K.held[p] \/ OutTo(K, G, p) # {}

Serial(K, R, G) == \A p \in R : SerialAt(K, G, p)

Typed(K, T, R, G) ==
  /\ K \in Kernel /\ T \in SUBSET Threads /\ R \in SUBSET Procs
  /\ G \in [Txns -> Wheres]

(* All of this; exits and deaths shrink T and R one thread at a time.      *)
Good(K, T, R, G) ==
  /\ Typed(K, T, R, G)
  /\ Links(K, G) /\ Ends(K, T, G) /\ Tops(K, T, G) /\ Unders(K, T, G)
  /\ Filed(K, T, R, G) /\ Errors(K, T) /\ Serial(K, R, G)

NoRep(list) ==
  \A i, j \in DOMAIN list : list[i] = list[j] /\ list[i] # Complete => i = j

(* G says what the lists say, and nothing is on a list twice.              *)
Listed(K, G) ==
  /\ \A t \in Txns : /\ \A h \in Threads : t \in Range(K.todo[h]) <=> G[t] = Todo(h)
                     /\ \A p \in Procs : /\ t \in Range(K.ptodo[p]) <=> G[t] = Ptodo(p)
                                         /\ t \in Range(K.async_todo[p]) <=> G[t] = Async(p)
                     /\ G[t] # Limbo
  /\ \A h \in Threads : NoRep(K.todo[h])
  /\ \A p \in Procs : NoRep(K.ptodo[p]) /\ NoRep(K.async_todo[p])

PFun == [Txns -> Txns \cup {NoTxn}]

LEMMA AncSelf ==
  ASSUME NEW P \in PFun, NEW s \in Txns
  PROVE  Anc(P, s, s)
BY DEF Anc

LEMMA AncTrans ==
  ASSUME NEW P \in PFun, NEW t \in Txns, NEW s \in Txns, NEW r \in Txns,
         Anc(P, t, s), Anc(P, s, r)
  PROVE  Anc(P, t, r)
BY DEF Anc

LEMMA AncParent ==
  ASSUME NEW P \in PFun, NEW s \in Txns, P[s] # NoTxn
  PROVE  Anc(P, P[s], s)
<1> SUFFICES ASSUME NEW U \in SUBSET Txns, s \in U, Closed(P, U)
             PROVE  P[s] \in U
  BY DEF Anc
<1> QED BY DEF Closed

LEMMA AncUp ==
  ASSUME NEW P \in PFun, NEW t \in Txns, NEW s \in Txns, Anc(P, t, s), t # s
  PROVE  P[s] \in Txns /\ Anc(P, t, P[s])
<1>1. P[s] # NoTxn
  <2>1. SUFFICES ASSUME P[s] = NoTxn PROVE FALSE
    OBVIOUS
  <2>2. Closed(P, {s})
    BY <2>1 DEF Closed
  <2> QED BY <2>2 DEF Anc
<1>2. P[s] \in Txns
  BY <1>1 DEF PFun
<1>3. ASSUME NEW U \in SUBSET Txns, P[s] \in U, Closed(P, U) PROVE t \in U
  <2>1. Closed(P, U \cup {s})
    BY <1>3 DEF Closed
  <2>2. t \in U \cup {s}
    BY <2>1 DEF Anc
  <2> QED BY <2>2
<1> QED BY <1>2, <1>3 DEF Anc

LEMMA AncDown ==
  ASSUME NEW P \in PFun, OneChild(P), NEW t \in Txns, NEW s \in Txns,
         Anc(P, t, s), t # s
  PROVE  \E c \in Txns : P[c] = t /\ Anc(P, c, s)
<1>1. PICK c \in Txns : P[c] = t
  <2>1. SUFFICES ASSUME \A u \in Txns : P[u] # t PROVE FALSE
    OBVIOUS
  <2>2. Closed(P, Txns \ {t})
    BY <2>1 DEF Closed, PFun
  <2> QED BY <2>2 DEF Anc
<1>2. Anc(P, c, s)
  <2> SUFFICES ASSUME NEW U \in SUBSET Txns, s \in U, Closed(P, U), c \notin U
               PROVE  FALSE
    BY DEF Anc
  <2>1. t # NoTxn
    BY BinderAssumption
  <2>2. ASSUME NEW u \in U \ {t} PROVE P[u] \in (U \ {t}) \cup {NoTxn}
    <3>1. P[u] # t
      BY <1>1, <2>1 DEF OneChild
    <3> QED BY <3>1 DEF Closed
  <2>3. Closed(P, U \ {t})
    BY <2>2 DEF Closed
  <2> QED BY <2>3 DEF Anc
<1> QED BY <1>1, <1>2

LEMMA LeafAnc ==
  ASSUME NEW P \in PFun, NEW t \in Txns, NEW s \in Txns, Anc(P, t, s), Leaf(P, t)
  PROVE  t = s
<1> SUFFICES ASSUME t # s PROVE FALSE
  OBVIOUS
<1>1. Closed(P, Txns \ {t})
  BY DEF Closed, PFun, Leaf
<1> QED BY <1>1 DEF Anc

(* The ancestors of a call are in line.                                    *)
LEMMA Comparable ==
  ASSUME NEW P \in PFun, NEW t \in Txns, NEW u \in Txns, NEW s \in Txns,
         Anc(P, t, s), Anc(P, u, s)
  PROVE  Anc(P, t, u) \/ Anc(P, u, t)
<1> DEFINE B == {w \in Txns : Anc(P, t, w) /\ Anc(P, u, w)}
<1>1. SUFFICES ASSUME t \notin B, u \notin B PROVE FALSE
  BY AncSelf
<1>2. ASSUME NEW w \in B PROVE P[w] \in B \cup {NoTxn}
  <2>1. P[w] \in Txns /\ Anc(P, t, P[w])
    BY <1>1, <1>2, AncUp
  <2>2. Anc(P, u, P[w])
    BY <1>1, <1>2, AncUp
  <2> QED BY <2>1, <2>2
<1>3. Closed(P, B) /\ B \in SUBSET Txns
  BY <1>2 DEF Closed
<1>4. s \in B
  OBVIOUS
<1> HIDE DEF B
<1> QED BY <1>1, <1>3, <1>4 DEF Anc

(* What serves a call stands in the one line that goes down from it.       *)
LEMMA LeafBelow ==
  ASSUME NEW P \in PFun, OneChild(P), NEW r \in Txns, NEW z \in Txns,
         NEW s \in Txns, Leaf(P, z), Anc(P, r, z), Anc(P, r, s)
  PROVE  Anc(P, s, z)
<1> SUFFICES ASSUME ~ Anc(P, s, z) PROVE FALSE
  OBVIOUS
<1> DEFINE B == {w \in Txns : Anc(P, w, z) /\ Anc(P, r, w)}
           U == Txns \ B
<1>1. ASSUME NEW w \in U, P[w] \in B PROVE FALSE
  <2>1. PICK v \in Txns : v = P[w] /\ Anc(P, v, z) /\ Anc(P, r, v)
    BY <1>1
  <2>2. v # z
    BY <2>1 DEF Leaf
  <2>3. PICK c \in Txns : P[c] = v /\ Anc(P, c, z)
    BY <2>1, <2>2, AncDown
  <2>4. c = w
    BY <2>1, <2>3, BinderAssumption DEF OneChild
  <2>5. Anc(P, v, w)
    BY <2>1, BinderAssumption, AncParent
  <2>6. Anc(P, r, w)
    BY <2>1, <2>5, AncTrans
  <2> QED BY <1>1, <2>3, <2>4, <2>6
<1>2. ASSUME NEW w \in U PROVE P[w] \in U \cup {NoTxn}
  BY <1>1, <1>2 DEF PFun
<1>3. Closed(P, U) /\ U \in SUBSET Txns /\ s \in U
  BY <1>2 DEF Closed
<1>4. r \in U
  <2> HIDE DEF U
  <2> QED BY <1>3 DEF Anc
<1> QED BY <1>4, AncSelf

(* A change at the end of a chain is not seen by others.                   *)
LEMMA AncSame ==
  ASSUME NEW P \in PFun, NEW Q \in PFun, NEW t \in Txns, Leaf(P, t),
         \A u \in Txns \ {t} : Q[u] = P[u],
         NEW r \in Txns \ {t}, NEW s \in Txns \ {t}
  PROVE  Anc(P, r, s) <=> Anc(Q, r, s)
<1>1. ASSUME NEW U \in SUBSET Txns, Closed(P, U) PROVE Closed(Q, U \ {t})
  BY <1>1 DEF Closed, Leaf
<1>2. ASSUME NEW U \in SUBSET Txns, Closed(Q, U) PROVE Closed(P, U \ {t})
  BY <1>2 DEF Closed, Leaf
<1> QED BY <1>1, <1>2 DEF Anc

LEMMA WhereFacts ==
  /\ Nowhere # Limbo
  /\ \A h : Todo(h) # Nowhere /\ Todo(h) # Limbo
  /\ \A p : Ptodo(p) # Nowhere /\ Ptodo(p) # Limbo
  /\ \A p : Async(p) # Nowhere /\ Async(p) # Limbo
  /\ \A h, g : Todo(h) = Todo(g) => h = g
  /\ \A p, q : Ptodo(p) = Ptodo(q) => p = q
  /\ \A p, q : Async(p) = Async(q) => p = q
  /\ \A h, p : Todo(h) # Ptodo(p) /\ Todo(h) # Async(p)
  /\ \A p, q : Ptodo(p) # Async(q)
BY DEF Nowhere, Limbo, Todo, Ptodo, Async

LEMMA ParentsType ==
  ASSUME NEW K \in Kernel
  PROVE  /\ Parents(K) \in PFun
         /\ \A t \in Txns : Parents(K)[t] = K.txn[t].from_parent
<1>1. \A t \in Txns : K.txn[t].from_parent \in Txns \cup {NoTxn}
  BY DEF Kernel, TxnRecs
<1> QED BY <1>1 DEF Parents, PFun

(* One transaction at the end of a chain changes.                          *)
EndOf(P, Q, t) ==
  /\ P \in PFun /\ Q \in PFun /\ Leaf(P, t)
  /\ \A u \in Txns \ {t} : Q[u] = P[u]

LEMMA EndFacts ==
  ASSUME NEW P, NEW Q, NEW t \in Txns, EndOf(P, Q, t), OneChild(P), Acyclic(P),
         Q[t] = NoTxn \/ (Q[t] # t /\ Leaf(P, Q[t]))
  PROVE  /\ OneChild(Q) /\ Acyclic(Q) /\ Leaf(Q, t)
         /\ \A r, s \in Txns \ {t} : Anc(P, r, s) <=> Anc(Q, r, s)
         /\ \A s \in Txns \ {t} : Leaf(P, s) /\ s # Q[t] => Leaf(Q, s)
         /\ \A s \in Txns \ {t} : ~ Leaf(P, s) /\ s # P[t] => ~ Leaf(Q, s)
         /\ \A s \in Txns \ {t} : s = P[t] /\ s # Q[t] => Leaf(Q, s)
<1>1. Leaf(Q, t)
  <2>1. t # NoTxn
    BY BinderAssumption
  <2> QED BY <2>1 DEF EndOf, Leaf
<1>2. \A r, s \in Txns \ {t} : Anc(P, r, s) <=> Anc(Q, r, s)
  BY AncSame DEF EndOf
<1>3. OneChild(Q)
  <2> SUFFICES ASSUME NEW u \in Txns, NEW v \in Txns, Q[u] = Q[v], Q[u] # NoTxn
               PROVE  u = v
    BY DEF OneChild
  <2> QED BY DEF EndOf, OneChild, Leaf
<1>4. Acyclic(Q)
  <2> SUFFICES ASSUME NEW u \in Txns, NEW v \in Txns, Anc(Q, u, v), Anc(Q, v, u)
               PROVE  u = v
    BY DEF Acyclic
  <2>1. CASE u = t \/ v = t
    BY <1>1, <2>1, LeafAnc DEF EndOf
  <2>2. CASE u # t /\ v # t
    BY <1>2, <2>2 DEF Acyclic
  <2> QED BY <2>1, <2>2
<1>5. \A s \in Txns \ {t} : Leaf(P, s) /\ s # Q[t] => Leaf(Q, s)
  BY DEF EndOf, Leaf
<1>6. \A s \in Txns \ {t} : ~ Leaf(P, s) /\ s # P[t] => ~ Leaf(Q, s)
  BY DEF EndOf, Leaf
<1>7. ASSUME NEW s \in Txns \ {t}, s = P[t], s # Q[t] PROVE Leaf(Q, s)
  <2> SUFFICES ASSUME NEW u \in Txns, Q[u] = s PROVE FALSE
    BY DEF Leaf
  <2>1. u # t /\ P[u] = P[t] /\ P[u] # NoTxn
    BY <1>7, BinderAssumption DEF EndOf
  <2> QED BY <2>1 DEF OneChild
<1> QED BY <1>1, <1>2, <1>3, <1>4, <1>5, <1>6, <1>7

(* Nobody's stack is concerned by a change of t.                           *)
SameStacks(K, L, T, G, H, t) ==
  /\ \A h \in T : /\ Out(L, h) = Out(K, h) /\ In(L, H, h) = In(K, G, h)
                  /\ t \notin Own(K, G, h) /\ L.stack[h] = K.stack[h]
                  /\ \A s \in In(K, G, h) : L.txn[s].to_parent = K.txn[s].to_parent
  /\ \A r, s \in Txns \ {t} : Anc(Parents(K), r, s) <=> Anc(Parents(L), r, s)
  /\ \A h \in T : \A s \in In(K, G, h) : Leaf(Parents(K), s) => Leaf(Parents(L), s)

LEMMA OwnTxns ==
  ASSUME NEW K, NEW G, NEW h
  PROVE  /\ Own(K, G, h) \subseteq Txns
         /\ Out(K, h) \subseteq Own(K, G, h) /\ In(K, G, h) \subseteq Own(K, G, h)
BY DEF Own, Out, In

LEMMA SameStacksKeep ==
  ASSUME NEW K, NEW L, NEW T, NEW G, NEW H, NEW t \in Txns,
         SameStacks(K, L, T, G, H, t), Tops(K, T, G), Unders(K, T, G)
  PROVE  Tops(L, T, H) /\ Unders(L, T, H)
<1>1. ASSUME NEW h \in T
      PROVE  /\ Own(L, H, h) = Own(K, G, h) /\ Out(L, h) = Out(K, h)
             /\ In(L, H, h) = In(K, G, h) /\ t \notin Own(K, G, h)
             /\ L.stack[h] = K.stack[h]
  BY <1>1 DEF SameStacks, Own
<1>2. \A r, s \in Txns \ {t} : Anc(Parents(K), r, s) <=> Anc(Parents(L), r, s)
  BY DEF SameStacks
<1>3. ASSUME NEW h \in T
      PROVE  TopAt(L, H, h)
  <2>1. PICK s : s = K.stack[h]
    OBVIOUS
  <2>2. /\ s = NoTxn => Own(K, G, h) = {}
        /\ s # NoTxn => /\ s \in Own(K, G, h)
                        /\ \A u \in Own(K, G, h) : Anc(Parents(K), u, s)
        /\ s \in In(K, G, h) => Leaf(Parents(K), s)
    BY <2>1 DEF Tops, TopAt
  <2>3. s # NoTxn => \A u \in Own(K, G, h) : Anc(Parents(L), u, s)
    BY <1>1, <1>2, <2>2, OwnTxns
  <2>4. s \in In(K, G, h) => Leaf(Parents(L), s)
    BY <2>2 DEF SameStacks
  <2> QED BY <1>1, <2>1, <2>2, <2>3, <2>4 DEF TopAt
<1>4. ASSUME NEW h \in T, NEW s \in In(L, H, h)
      PROVE  UnderAt(L, H, h, s)
  <2>1. s \in In(K, G, h) /\ s \in Own(K, G, h)
    BY <1>1, <1>4, OwnTxns
  <2>2. PICK r : r = K.txn[s].to_parent /\ r = L.txn[s].to_parent
    BY <2>1 DEF SameStacks
  <2>3. /\ r = NoTxn => \A u \in Own(K, G, h) : Anc(Parents(K), s, u)
        /\ r # NoTxn => /\ r \in Out(K, h) /\ Anc(Parents(K), r, s)
                        /\ \A u \in Own(K, G, h) : \/ Anc(Parents(K), s, u)
                                                   \/ Anc(Parents(K), u, r)
    BY <2>1, <2>2 DEF Unders, UnderAt
  <2>4. Own(K, G, h) \subseteq Txns \ {t} /\ Out(K, h) \subseteq Own(K, G, h)
    BY <1>1, OwnTxns
  <2>5. CASE r = NoTxn
    BY <1>1, <1>2, <2>1, <2>2, <2>3, <2>4, <2>5 DEF UnderAt
  <2>6. CASE r # NoTxn
    <3>1. r \in Txns \ {t} /\ s \in Txns \ {t}
      BY <2>1, <2>3, <2>4, <2>6
    <3>2. Anc(Parents(L), r, s)
      BY <1>2, <2>3, <2>6, <3>1
    <3>3. \A u \in Own(K, G, h) : Anc(Parents(L), s, u) \/ Anc(Parents(L), u, r)
      BY <1>2, <2>3, <2>4, <2>6, <3>1
    <3> QED BY <1>1, <2>2, <2>3, <2>6, <3>2, <3>3 DEF UnderAt
  <2> QED BY <2>5, <2>6
<1>5. Tops(L, T, H)
  BY <1>3 DEF Tops
<1>6. Unders(L, T, H)
  BY <1>4 DEF Unders
<1> QED BY <1>5, <1>6

(* One transaction changes, and nothing else.                              *)
SetsTxn(K, L, t, r) ==
  /\ L \in Kernel /\ L.txn[t] = r /\ \A u \in Txns \ {t} : L.txn[u] = K.txn[u]
  /\ L.stack = K.stack /\ L.todo = K.todo /\ L.error = K.error
  /\ L.error2 = K.error2 /\ L.live = K.live /\ L.procs = K.procs
  /\ L.ptodo = K.ptodo /\ L.async_todo = K.async_todo
  /\ L.has_async = K.has_async /\ L.held = K.held /\ L.bug = K.bug

LEMMA SetTxn ==
  ASSUME NEW K \in Kernel, NEW t \in Txns, NEW r \in TxnRecs
  PROVE  SetsTxn(K, [K EXCEPT !.txn[t] = r], t, r)
<1>1. PICK L : L = [K EXCEPT !.txn[t] = r]
  OBVIOUS
<1>2. L \in Kernel
  BY <1>1, FreeTxn
<1>3. L.txn[t] = r /\ \A u \in Txns \ {t} : L.txn[u] = K.txn[u]
  BY <1>1 DEF Kernel
<1>4. /\ L.stack = K.stack /\ L.todo = K.todo /\ L.error = K.error
      /\ L.error2 = K.error2 /\ L.live = K.live /\ L.procs = K.procs
      /\ L.ptodo = K.ptodo /\ L.async_todo = K.async_todo
      /\ L.has_async = K.has_async /\ L.held = K.held /\ L.bug = K.bug
  BY <1>1 DEF Kernel
<1> QED BY <1>1, <1>2, <1>3, <1>4 DEF SetsTxn

LEMMA NoTransactionFacts ==
  /\ NoTransaction \in TxnRecs /\ NoTransaction.kind = "free"
  /\ NoTransaction.from = NoThread /\ NoTransaction.from_parent = NoTxn
  /\ NoTransaction.to_thread = NoThread
BY NoTransactionType DEF NoTransaction

LEMMA ParentsChange ==
  ASSUME NEW K \in Kernel, NEW L \in Kernel, NEW t \in Txns,
         \A u \in Txns \ {t} : L.txn[u].from_parent = K.txn[u].from_parent,
         Leaf(Parents(K), t)
  PROVE  EndOf(Parents(K), Parents(L), t)
BY ParentsType DEF EndOf

(* A call that is on its way to be freed, or on a list, has no call above. *)
LEMMA FiledLeaf ==
  ASSUME NEW K, NEW T, NEW R, NEW G, Good(K, T, R, G), NEW t \in Txns,
         G[t] # Nowhere \/ K.txn[t].kind # "call"
  PROVE  Leaf(Parents(K), t)
<1> SUFFICES ASSUME NEW u \in Txns, Parents(K)[u] = t PROVE FALSE
  BY DEF Leaf
<1>1. K \in Kernel
  BY DEF Good, Typed
<1>2. K.txn[u].from_parent = t /\ t # NoTxn
  BY <1>1, ParentsType, BinderAssumption
<1> QED BY <1>2 DEF Good, Links

(* The turn of binder_send_failed_reply for a caller that is gone.         *)
PassedOn(G, t, n) ==
  [u \in Txns |-> IF u = t THEN Nowhere ELSE IF u = n THEN Limbo ELSE G[u]]

LEMMA FiledSame ==
  ASSUME NEW K, NEW L, NEW T, NEW R, NEW G, NEW H, NEW u \in Txns,
         FiledAt(K, T, R, G, u), H[u] = G[u], L.txn[u].kind = K.txn[u].kind,
         L.txn[u].to_proc = K.txn[u].to_proc,
         L.txn[u].to_thread = K.txn[u].to_thread,
         L.txn[u].from \in {K.txn[u].from, NoThread},
         \A h \in Threads : G[u] = Todo(h) /\ K.txn[u].kind = "call" =>
           L.stack[h] \in Out(L, h) \ {u} /\ Anc(Parents(L), L.stack[h], u)
  PROVE  FiledAt(L, T, R, H, u)
BY DEF FiledAt

Passed(L, G, H, t, n) ==
  n # NoTxn => n \in Txns \ {t} /\ L.txn[n].kind = "call" /\ H[n] = Limbo
               /\ G[n] = Nowhere

LEMMA DropOrphan ==
  ASSUME NEW K, NEW T, NEW R, NEW G, Good(K, T, R, G), NEW t \in Txns,
         K.txn[t].kind = "call", G[t] = Limbo, K.txn[t].from = NoThread,
         NEW n, n = K.txn[t].from_parent,
         NEW L, SetsTxn(K, L, t, NoTransaction),
         NEW H, H = PassedOn(G, t, n)
  PROVE  Good(L, T, R, H) /\ Passed(L, G, H, t, n)
<1> DEFINE P == Parents(K)
           Q == Parents(L)
<1>1. /\ K \in Kernel /\ L \in Kernel /\ T \in SUBSET Threads
      /\ R \in SUBSET Procs /\ G \in [Txns -> Wheres]
  BY DEF Good, Typed, SetsTxn
<1>2. /\ L.txn[t].kind = "free" /\ L.txn[t].from = NoThread
      /\ L.txn[t].from_parent = NoTxn /\ L.txn[t].to_thread = NoThread
      /\ \A u \in Txns \ {t} : L.txn[u] = K.txn[u]
  BY NoTransactionFacts DEF SetsTxn
<1>3. Leaf(P, t)
  BY FiledLeaf, WhereFacts
<1>4. /\ P \in PFun /\ Q \in PFun
      /\ \A u \in Txns : P[u] = K.txn[u].from_parent
      /\ \A u \in Txns : Q[u] = L.txn[u].from_parent
  BY <1>1, ParentsType
<1>5. EndOf(P, Q, t) /\ OneChild(P) /\ Acyclic(P) /\ Q[t] = NoTxn
  BY <1>1, <1>2, <1>3, <1>4, ParentsChange DEF Good, Links
<1> HIDE DEF P, Q
<1>6. /\ OneChild(Q) /\ Acyclic(Q) /\ Leaf(Q, t)
      /\ \A r, s \in Txns \ {t} : Anc(P, r, s) <=> Anc(Q, r, s)
      /\ \A s \in Txns \ {t} : Leaf(P, s) /\ s # Q[t] => Leaf(Q, s)
      /\ \A s \in Txns \ {t} : ~ Leaf(P, s) /\ s # P[t] => ~ Leaf(Q, s)
  BY <1>5, EndFacts
<1>7. /\ H \in [Txns -> Wheres] /\ H[t] = Nowhere
      /\ \A u \in Txns \ {t} : u # n => H[u] = G[u]
      /\ n \in Txns \ {t} => H[n] = Limbo
  BY <1>1 DEF PassedOn, Wheres
<1>8. n # NoTxn => /\ n \in Txns \ {t} /\ K.txn[n].kind = "call" /\ G[n] = Nowhere
                   /\ K.txn[n].to_thread = NoThread
  <2> SUFFICES ASSUME n # NoTxn
               PROVE  /\ n \in Txns \ {t} /\ K.txn[n].kind = "call" /\ G[n] = Nowhere
                      /\ K.txn[n].to_thread = NoThread
    OBVIOUS
  <2>1. n \in Txns
    BY <1>4 DEF PFun
  <2>2. K.txn[n].kind = "call" /\ G[n] = Nowhere /\ K.txn[n].to_thread = NoThread
    BY DEF Good, Links
  <2> QED BY <2>1, <2>2, WhereFacts
<1>9. NoThread \notin T
  BY <1>1, BinderAssumption
<1>10. ASSUME NEW h \in T
       PROVE  /\ Out(L, h) = Out(K, h) /\ In(L, H, h) = In(K, G, h)
              /\ t \notin Own(K, G, h)
  <2>1. t \notin Out(K, h) /\ t \notin Out(L, h)
    BY <1>2, <1>9 DEF Out
  <2>2. t \notin In(K, G, h) /\ t \notin In(L, H, h)
    BY <1>2, <1>9, WhereFacts DEF In
  <2>3. ASSUME NEW u \in Txns \ {t} PROVE u \in In(L, H, h) <=> u \in In(K, G, h)
    <3>1. CASE u = n
      BY <1>7, <1>8, <1>9, <3>1, WhereFacts, BinderAssumption DEF In
    <3>2. CASE u # n
      BY <1>2, <1>7, <3>2 DEF In
    <3> QED BY <3>1, <3>2
  <2>4. Out(L, h) = Out(K, h)
    BY <1>2, <2>1 DEF Out
  <2>5. In(L, H, h) = In(K, G, h)
    BY <2>2, <2>3 DEF In
  <2> QED BY <2>1, <2>2, <2>4, <2>5 DEF Own
<1>11. L.stack = K.stack
  BY DEF SetsTxn
<1>12. Links(L, H)
  <2>1. ASSUME NEW u \in Txns, NEW s, s = L.txn[u].from_parent, s # NoTxn
        PROVE  /\ L.txn[u].kind = "call" /\ L.txn[s].kind = "call"
               /\ H[s] = Nowhere /\ L.txn[s].to_thread = L.txn[u].from
    <3>1. u # t /\ s = K.txn[u].from_parent /\ s \in Txns
      BY <1>2, <1>4, <2>1 DEF PFun
    <3>2. /\ K.txn[u].kind = "call" /\ K.txn[s].kind = "call"
          /\ G[s] = Nowhere /\ K.txn[s].to_thread = K.txn[u].from
      BY <2>1, <3>1 DEF Good, Links
    <3>3. s # t
      BY <3>2, WhereFacts
    <3>4. s # n
      BY <1>4, <1>5, <2>1, <3>1 DEF OneChild
    <3> QED BY <1>2, <1>7, <3>1, <3>2, <3>3, <3>4
  <2> QED BY <1>6, <2>1 DEF Links, Q
<1>13. Ends(L, T, H)
  <2> SUFFICES ASSUME NEW u \in Txns, L.txn[u].kind = "call"
               PROVE  EndsAt(L, T, H, u)
    BY DEF Ends, EndsAt
  <2>1. u # t /\ L.txn[u] = K.txn[u]
    BY <1>2
  <2>2. /\ K.txn[u].from \in T \cup {NoThread}
        /\ K.txn[u].from # NoThread => K.txn[u].to_thread # K.txn[u].from
        /\ G[u] = Nowhere => \/ K.txn[u].to_thread \in T
                             \/ K.txn[u].to_thread = NoThread /\ ~ Leaf(P, u)
    BY <2>1 DEF Good, Ends, EndsAt, P
  <2>3. H[u] = Nowhere => u # n /\ G[u] = Nowhere
    BY <1>7, <2>1, WhereFacts
  <2>4. u # n => u # P[t]
    BY <1>4
  <2> QED BY <1>6, <2>1, <2>2, <2>3, <2>4 DEF EndsAt, Q
<1>14. Tops(L, T, H) /\ Unders(L, T, H)
  <2>1. \A h \in T : \A s \in In(K, G, h) :
          L.txn[s].to_parent = K.txn[s].to_parent /\ (Leaf(P, s) => Leaf(Q, s))
    <3> SUFFICES ASSUME NEW h \in T, NEW s \in In(K, G, h)
                 PROVE  L.txn[s].to_parent = K.txn[s].to_parent /\ (Leaf(P, s) => Leaf(Q, s))
      OBVIOUS
    <3>1. s \in Txns \ {t}
      BY <1>10, OwnTxns
    <3> QED BY <1>2, <1>5, <1>6, <3>1, BinderAssumption
  <2>2. SameStacks(K, L, T, G, H, t)
    BY <1>6, <1>10, <1>11, <2>1 DEF SameStacks, P, Q
  <2> QED BY <2>2, SameStacksKeep DEF Good
<1>15. Filed(L, T, R, H)
  <2> SUFFICES ASSUME NEW u \in Txns PROVE FiledAt(L, T, R, H, u)
    BY DEF Filed
  <2>1. CASE u = t
    BY <1>2, <1>7, <2>1, WhereFacts DEF FiledAt
  <2>2. CASE u # t /\ u = n
    BY <1>2, <1>7, <1>8, <2>2, WhereFacts, BinderAssumption DEF FiledAt
  <2>3. CASE u # t /\ u # n
    <3>1. H[u] = G[u] /\ L.txn[u] = K.txn[u] /\ FiledAt(K, T, R, G, u)
      BY <1>2, <1>7, <2>3 DEF Good, Filed
    <3>2. ASSUME NEW h \in Threads, G[u] = Todo(h), K.txn[u].kind = "call"
          PROVE  L.stack[h] \in Out(L, h) \ {u} /\ Anc(Q, L.stack[h], u)
      <4>1. h \in T /\ K.stack[h] \in Out(K, h) \ {u} /\ Anc(P, K.stack[h], u)
        BY <3>1, <3>2 DEF FiledAt, P
      <4>2. K.stack[h] \in Txns \ {t}
        BY <1>10, <4>1, OwnTxns
      <4>3. Anc(Q, K.stack[h], u)
        BY <1>6, <2>3, <4>1, <4>2
      <4> QED BY <1>10, <1>11, <4>1, <4>3
    <3> QED BY <3>1, <3>2, FiledSame DEF Q
  <2> QED BY <2>1, <2>2, <2>3
<1>16. Errors(L, T)
  <2>1. L.error = K.error /\ L.error2 = K.error2 /\ L.bug = K.bug
    BY DEF SetsTxn
  <2> QED BY <1>10, <1>11, <2>1 DEF Good, Errors
<1>17. Serial(L, R, H)
  <2>1. L.held = K.held /\ L.has_async = K.has_async
    BY DEF SetsTxn
  <2>2. ASSUME NEW p \in R PROVE OutTo(L, H, p) = OutTo(K, G, p)
    <3>1. ASSUME NEW u \in Txns PROVE u \in OutTo(L, H, p) <=> u \in OutTo(K, G, p)
      <4>1. CASE u = t \/ u = n
        BY <1>2, <1>8, <4>1, BinderAssumption DEF OutTo
      <4>2. CASE u # t /\ u # n
        BY <1>2, <1>7, <4>2 DEF OutTo
      <4> QED BY <4>1, <4>2
    <3> QED BY <3>1 DEF OutTo
  <2>3. ASSUME NEW p \in R, NEW u \in Txns, H[u] = Async(p) PROVE G[u] = Async(p)
    BY <1>7, <2>3, WhereFacts
  <2> QED BY <2>1, <2>2, <2>3 DEF Good, Serial, SerialAt
<1>18. Typed(L, T, R, H)
  BY <1>1, <1>7 DEF Typed
<1>19. Good(L, T, R, H)
  BY <1>12, <1>13, <1>14, <1>15, <1>16, <1>17, <1>18 DEF Good
<1> QED BY <1>2, <1>7, <1>8, <1>19 DEF Passed

(* A call without a call above it is what its caller waits for.            *)
LEMMA LeafOnTop ==
  ASSUME NEW K, NEW T, NEW R, NEW G, Good(K, T, R, G), NEW h \in T,
         NEW t \in Own(K, G, h), Leaf(Parents(K), t)
  PROVE  K.stack[h] = t
<1>1. K \in Kernel /\ h \in Threads
  BY DEF Good, Typed
<1>2. Parents(K) \in PFun
  BY <1>1, ParentsType
<1>3. TopAt(K, G, h)
  BY DEF Good, Tops
<1>4. K.stack[h] # NoTxn
  BY <1>3 DEF TopAt
<1>5. K.stack[h] \in Own(K, G, h) /\ Anc(Parents(K), t, K.stack[h])
  BY <1>3, <1>4 DEF TopAt
<1>6. K.stack[h] \in Txns /\ t \in Txns
  BY <1>5, OwnTxns
<1> QED BY <1>2, <1>5, <1>6, LeafAnc

(* A caller is told: its call is freed and taken off its stack.            *)
Pops(K, L, t, h) ==
  /\ L \in Kernel /\ L.txn[t] = NoTransaction
  /\ \A u \in Txns \ {t} : L.txn[u] = K.txn[u]
  /\ L.stack[h] = K.txn[t].from_parent
  /\ \A g \in Threads \ {h} : /\ L.stack[g] = K.stack[g]
                              /\ L.error[g] = K.error[g] /\ L.error2[g] = K.error2[g]
  /\ L.error2[h] # "OK" => L.error[h] # "OK"
  /\ L.has_async = K.has_async /\ L.held = K.held /\ L.bug = K.bug

LEMMA PopCaller ==
  ASSUME NEW K, NEW T, NEW R, NEW G, Good(K, T, R, G), NEW t \in Txns,
         K.txn[t].kind = "call", G[t] = Limbo, NEW h \in T, K.txn[t].from = h,
         NEW L, Pops(K, L, t, h), NEW H, H = [G EXCEPT ![t] = Nowhere]
  PROVE  Good(L, T, R, H)
<1> DEFINE P == Parents(K)
           Q == Parents(L)
           n == K.txn[t].from_parent
<1>1. /\ K \in Kernel /\ L \in Kernel /\ T \in SUBSET Threads /\ h \in Threads
      /\ R \in SUBSET Procs /\ G \in [Txns -> Wheres]
  BY DEF Good, Typed, Pops
<1>2. /\ L.txn[t].kind = "free" /\ L.txn[t].from = NoThread
      /\ L.txn[t].from_parent = NoTxn /\ L.txn[t].to_thread = NoThread
      /\ \A u \in Txns \ {t} : L.txn[u] = K.txn[u]
  BY NoTransactionFacts DEF Pops
<1>3. Leaf(P, t)
  BY FiledLeaf, WhereFacts
<1>4. /\ P \in PFun /\ Q \in PFun
      /\ \A u \in Txns : P[u] = K.txn[u].from_parent
      /\ \A u \in Txns : Q[u] = L.txn[u].from_parent
  BY <1>1, ParentsType
<1>5. EndOf(P, Q, t) /\ OneChild(P) /\ Acyclic(P) /\ Q[t] = NoTxn
  BY <1>1, <1>2, <1>3, <1>4, ParentsChange DEF Good, Links
<1> HIDE DEF P, Q
<1>6. /\ OneChild(Q) /\ Acyclic(Q) /\ Leaf(Q, t)
      /\ \A r, s \in Txns \ {t} : Anc(P, r, s) <=> Anc(Q, r, s)
      /\ \A s \in Txns \ {t} : Leaf(P, s) /\ s # Q[t] => Leaf(Q, s)
      /\ \A s \in Txns \ {t} : ~ Leaf(P, s) /\ s # P[t] => ~ Leaf(Q, s)
      /\ \A s \in Txns \ {t} : s = P[t] /\ s # Q[t] => Leaf(Q, s)
  BY <1>5, EndFacts
<1>7. /\ H \in [Txns -> Wheres] /\ H[t] = Nowhere
      /\ \A u \in Txns \ {t} : H[u] = G[u]
  BY <1>1 DEF Wheres
<1>8. n # NoTxn => n \in In(K, G, h) /\ n \in Txns \ {t}
  <2> SUFFICES ASSUME n # NoTxn PROVE n \in In(K, G, h) /\ n \in Txns \ {t}
    OBVIOUS
  <2>1. n \in Txns
    BY <1>4 DEF PFun
  <2>2. K.txn[n].kind = "call" /\ G[n] = Nowhere /\ K.txn[n].to_thread = h
    BY DEF Good, Links
  <2> QED BY <2>1, <2>2, WhereFacts DEF In
<1>9. NoThread \notin T
  BY <1>1, BinderAssumption
<1>10. ASSUME NEW g \in T
       PROVE  /\ Out(L, g) = Out(K, g) \ {t} /\ In(L, H, g) = In(K, G, g)
              /\ t \notin In(K, G, g) /\ (g # h => t \notin Out(K, g))
  <2>1. t \notin Out(L, g) /\ (g # h => t \notin Out(K, g))
    BY <1>2, <1>9 DEF Out
  <2>2. t \notin In(K, G, g) /\ t \notin In(L, H, g)
    BY <1>2, <1>9, WhereFacts DEF In
  <2>3. Out(L, g) = Out(K, g) \ {t}
    BY <1>2, <2>1 DEF Out
  <2>4. In(L, H, g) = In(K, G, g)
    BY <1>2, <1>7, <2>2 DEF In
  <2> QED BY <2>1, <2>2, <2>3, <2>4
<1>11. /\ L.stack[h] = n
       /\ \A g \in Threads \ {h} : L.stack[g] = K.stack[g]
  BY DEF Pops
<1>12. K.stack[h] = t /\ t \in Own(K, G, h)
  <2>1. t \in Own(K, G, h)
    BY DEF Own, Out
  <2> QED BY <1>3, <2>1, LeafOnTop DEF P
<1>13. Links(L, H)
  <2>1. ASSUME NEW u \in Txns, NEW s, s = L.txn[u].from_parent, s # NoTxn
        PROVE  /\ L.txn[u].kind = "call" /\ L.txn[s].kind = "call"
               /\ H[s] = Nowhere /\ L.txn[s].to_thread = L.txn[u].from
    <3>1. u # t /\ s = K.txn[u].from_parent /\ s \in Txns
      BY <1>2, <1>4, <2>1 DEF PFun
    <3>2. /\ K.txn[u].kind = "call" /\ K.txn[s].kind = "call"
          /\ G[s] = Nowhere /\ K.txn[s].to_thread = K.txn[u].from
      BY <2>1, <3>1 DEF Good, Links
    <3>3. s # t
      BY <3>2, WhereFacts
    <3> QED BY <1>2, <1>7, <3>1, <3>2, <3>3
  <2> QED BY <1>6, <2>1 DEF Links, Q
<1>14. Ends(L, T, H)
  <2> SUFFICES ASSUME NEW u \in Txns, L.txn[u].kind = "call"
               PROVE  EndsAt(L, T, H, u)
    BY DEF Ends, EndsAt
  <2>1. u # t /\ L.txn[u] = K.txn[u] /\ H[u] = G[u]
    BY <1>2, <1>7
  <2>2. /\ K.txn[u].from \in T \cup {NoThread}
        /\ K.txn[u].from # NoThread => K.txn[u].to_thread # K.txn[u].from
        /\ G[u] = Nowhere => \/ K.txn[u].to_thread \in T
                             \/ K.txn[u].to_thread = NoThread /\ ~ Leaf(P, u)
    BY <2>1 DEF Good, Ends, EndsAt, P
  <2>3. u = P[t] => K.txn[u].to_thread \in T
    BY <1>4, <1>8, BinderAssumption DEF In
  <2> QED BY <1>6, <2>1, <2>2, <2>3 DEF EndsAt, Q
<1>15. Tops(L, T \ {h}, H) /\ Unders(L, T \ {h}, H)
  <2>1. \A g \in T : \A s \in In(K, G, g) :
          L.txn[s].to_parent = K.txn[s].to_parent /\ (Leaf(P, s) => Leaf(Q, s))
    <3> SUFFICES ASSUME NEW g \in T, NEW s \in In(K, G, g)
                 PROVE  L.txn[s].to_parent = K.txn[s].to_parent /\ (Leaf(P, s) => Leaf(Q, s))
      OBVIOUS
    <3>1. s \in Txns \ {t}
      BY <1>10, OwnTxns
    <3> QED BY <1>2, <1>5, <1>6, <3>1, BinderAssumption
  <2>2. SameStacks(K, L, T \ {h}, G, H, t)
    <3>1. ASSUME NEW g \in T \ {h}
          PROVE  /\ Out(L, g) = Out(K, g) /\ In(L, H, g) = In(K, G, g)
                 /\ t \notin Own(K, G, g) /\ L.stack[g] = K.stack[g]
      <4>1. /\ Out(L, g) = Out(K, g) \ {t} /\ In(L, H, g) = In(K, G, g)
            /\ t \notin In(K, G, g) /\ t \notin Out(K, g) /\ g \in Threads \ {h}
        BY <1>1, <1>10
      <4> QED BY <1>11, <4>1 DEF Own
    <3> QED BY <1>6, <2>1, <3>1 DEF SameStacks, P, Q
  <2>3. Tops(K, T \ {h}, G) /\ Unders(K, T \ {h}, G)
    BY DEF Good, Tops, Unders
  <2> QED BY <2>2, <2>3, SameStacksKeep
<1>16. Own(L, H, h) = Own(K, G, h) \ {t} /\ Own(L, H, h) \subseteq Txns \ {t}
  BY <1>10, OwnTxns, ZenonT(60) DEF Own
<1>17. \A u \in Own(K, G, h) : Anc(P, u, t)
  <2>1. TopAt(K, G, h) /\ t # NoTxn
    BY BinderAssumption DEF Good, Tops
  <2> QED BY <1>12, <2>1 DEF TopAt, P
<1>18. ASSUME NEW u \in Own(L, H, h) PROVE n # NoTxn /\ Anc(Q, u, n)
  <2>1. u \in Txns \ {t} /\ Anc(P, u, t)
    BY <1>16, <1>17
  <2>2. P[t] \in Txns /\ Anc(P, u, P[t])
    BY <1>4, <2>1, AncUp
  <2>3. n # NoTxn /\ Anc(P, u, n)
    BY <1>4, <2>2, BinderAssumption
  <2> QED BY <1>6, <1>8, <2>1, <2>3
<1>19. TopAt(L, H, h)
  <2>1. n # NoTxn => n \in Own(L, H, h) /\ n \in In(L, H, h) /\ Leaf(Q, n)
    <3> SUFFICES ASSUME n # NoTxn
                 PROVE  n \in Own(L, H, h) /\ n \in In(L, H, h) /\ Leaf(Q, n)
      OBVIOUS
    <3>1. n \in In(L, H, h)
      BY <1>8, <1>10
    <3>2. n \in Txns \ {t} /\ n = P[t] /\ n # Q[t]
      BY <1>4, <1>5, <1>8
    <3> QED BY <1>6, <3>1, <3>2, OwnTxns
  <2>2. n = NoTxn => Own(L, H, h) = {}
    BY <1>18
  <2>3. n # NoTxn => \A u \in Own(L, H, h) : Anc(Q, u, n)
    BY <1>18
  <2>4. n = NoTxn => n \notin In(L, H, h)
    BY BinderAssumption, OwnTxns
  <2> QED BY <1>11, <2>1, <2>2, <2>3, <2>4 DEF TopAt, Q
<1>20. ASSUME NEW s \in In(L, H, h) PROVE UnderAt(L, H, h, s)
  <2>1. s \in In(K, G, h) /\ s \in Txns \ {t} /\ L.txn[s] = K.txn[s]
    BY <1>2, <1>10, <1>20, OwnTxns
  <2>2. PICK r : r = K.txn[s].to_parent
    OBVIOUS
  <2>3. /\ r = NoTxn => \A u \in Own(K, G, h) : Anc(P, s, u)
        /\ r # NoTxn => /\ r \in Out(K, h) /\ Anc(P, r, s)
                        /\ \A u \in Own(K, G, h) : Anc(P, s, u) \/ Anc(P, u, r)
    BY <2>1, <2>2 DEF Good, Unders, UnderAt, P
  <2>4. CASE r = NoTxn
    <3>1. \A u \in Own(L, H, h) : Anc(Q, s, u)
      BY <1>6, <1>16, <2>1, <2>3, <2>4
    <3> QED BY <2>1, <2>2, <2>4, <3>1 DEF UnderAt, Q
  <2>5. CASE r # NoTxn
    <3>1. r \in Txns
      BY <2>3, <2>5 DEF Out
    <3>2. r # t
      BY <1>3, <1>4, <2>1, <2>3, <2>5, <3>1, LeafAnc
    <3>3. r \in Out(L, h) /\ Anc(Q, r, s)
      BY <1>6, <1>10, <2>1, <2>3, <2>5, <3>1, <3>2
    <3>4. \A u \in Own(L, H, h) : Anc(Q, s, u) \/ Anc(Q, u, r)
      BY <1>6, <1>16, <2>1, <2>3, <2>5, <3>1, <3>2
    <3> QED BY <2>1, <2>2, <2>5, <3>3, <3>4 DEF UnderAt, Q
  <2> QED BY <2>4, <2>5
<1>21. Tops(L, T, H) /\ Unders(L, T, H)
  BY <1>15, <1>19, <1>20 DEF Tops, Unders
<1>22. Filed(L, T, R, H)
  <2> SUFFICES ASSUME NEW u \in Txns PROVE FiledAt(L, T, R, H, u)
    BY DEF Filed
  <2>1. CASE u = t
    BY <1>2, <1>7, <2>1, WhereFacts DEF FiledAt
  <2>2. CASE u # t
    <3>1. H[u] = G[u] /\ L.txn[u] = K.txn[u] /\ FiledAt(K, T, R, G, u)
      BY <1>2, <1>7, <2>2 DEF Good, Filed
    <3>2. ASSUME NEW g \in Threads, G[u] = Todo(g), K.txn[u].kind = "call"
          PROVE  L.stack[g] \in Out(L, g) \ {u} /\ Anc(Q, L.stack[g], u)
      <4>1. g \in T /\ K.stack[g] \in Out(K, g) \ {u} /\ Anc(P, K.stack[g], u)
        BY <3>1, <3>2 DEF FiledAt, P
      <4>2. K.stack[g] \in Txns
        BY <4>1 DEF Out
      <4>3. K.stack[g] # t
        BY <1>3, <1>4, <4>1, <4>2, LeafAnc
      <4>4. g # h
        BY <1>12, <4>3
      <4>5. Anc(Q, K.stack[g], u)
        BY <1>6, <2>2, <4>1, <4>2, <4>3
      <4> QED BY <1>10, <1>11, <4>1, <4>3, <4>4, <4>5
    <3> QED BY <3>1, <3>2, FiledSame DEF Q
  <2> QED BY <2>1, <2>2
<1>23. Errors(L, T)
  <2>1. ~ L.bug
    BY DEF Pops, Good, Errors
  <2>2. ASSUME NEW g \in T, L.error2[g] # "OK"
        PROVE  L.error[g] # "OK" /\ L.stack[g] \notin Out(L, g)
    <3>1. CASE g = h
      <4>1. L.error[h] # "OK"
        BY <2>2, <3>1 DEF Pops
      <4>2. n \notin Out(L, h)
        <5>1. CASE n = NoTxn
          BY <5>1, BinderAssumption DEF Out
        <5>2. CASE n # NoTxn
          <6>1. n \in In(K, G, h) /\ n \in Txns \ {t}
            BY <1>8, <5>2
          <6>2. K.txn[n].kind = "call" /\ K.txn[n].to_thread = h
            BY <6>1 DEF In
          <6>3. K.txn[n].from # h
            BY <1>1, <6>1, <6>2, BinderAssumption DEF Good, Ends, EndsAt
          <6> QED BY <1>2, <6>1, <6>3 DEF Out
        <5> QED BY <5>1, <5>2
      <4> QED BY <1>11, <3>1, <4>1, <4>2
    <3>2. CASE g # h
      <4>1. /\ L.error[g] = K.error[g] /\ L.error2[g] = K.error2[g]
            /\ L.stack[g] = K.stack[g]
        BY <1>1, <3>2 DEF Pops
      <4> QED BY <1>10, <2>2, <4>1 DEF Good, Errors
    <3> QED BY <3>1, <3>2
  <2> QED BY <2>1, <2>2 DEF Errors
<1>24. Serial(L, R, H)
  <2>1. L.held = K.held /\ L.has_async = K.has_async
    BY DEF Pops
  <2>2. ASSUME NEW p \in R PROVE OutTo(L, H, p) = OutTo(K, G, p)
    BY <1>2, <1>7 DEF OutTo
  <2>3. ASSUME NEW p \in R, NEW u \in Txns, H[u] = Async(p) PROVE G[u] = Async(p)
    BY <1>7, <2>3, WhereFacts
  <2> QED BY <2>1, <2>2, <2>3 DEF Good, Serial, SerialAt
<1>25. Typed(L, T, R, H)
  BY <1>1, <1>7 DEF Typed
<1> QED BY <1>13, <1>14, <1>21, <1>22, <1>23, <1>24, <1>25 DEF Good

-----------------------------------------------------------------------------
(* Steps that leave the chains as they are.                                *)

LEMMA ParentsSame ==
  ASSUME NEW K, NEW L, \A u \in Txns : L.txn[u].from_parent = K.txn[u].from_parent
  PROVE  Parents(L) = Parents(K)
BY DEF Parents

(* A call of a thread is not one that it serves.                           *)
LEMMA OutNotIn ==
  ASSUME NEW K, NEW T, NEW R, NEW G, Good(K, T, R, G), NEW h \in T,
         NEW t \in Out(K, h)
  PROVE  t \in Txns /\ K.txn[t].to_thread # h /\ t \notin In(K, G, h)
<1>1. /\ t \in Txns /\ K.txn[t].kind = "call" /\ K.txn[t].from = h
  BY DEF Out
<1>2. h # NoThread
  BY BinderAssumption DEF Good, Typed
<1>3. K.txn[t].to_thread # h
  BY <1>1, <1>2 DEF Good, Ends, EndsAt
<1> QED BY <1>1, <1>3 DEF In

(* Only what is no call changes, or nothing that calls are about.          *)
Aside(K, L, G, H) ==
  /\ L \in Kernel /\ H \in [Txns -> Wheres] /\ L.stack = K.stack
  /\ \A u \in Txns :
       \/ /\ L.txn[u] = K.txn[u] /\ H[u] = G[u]
       \/ /\ K.txn[u].kind # "call" /\ L.txn[u].kind # "call"
          /\ L.txn[u].from_parent = NoTxn

Beside(K, L, T, R, G, H) ==
  /\ Links(L, H) /\ Ends(L, T, H) /\ Tops(L, T, H) /\ Unders(L, T, H)
  /\ \A h \in T : Out(L, h) = Out(K, h)
  /\ \A u \in Txns : K.txn[u].kind = "call" => FiledAt(L, T, R, H, u)
  /\ \A u \in Txns : L.txn[u] = K.txn[u] /\ H[u] = G[u] => FiledAt(L, T, R, H, u)

LEMMA AsideKeeps ==
  ASSUME NEW K, NEW T, NEW R, NEW G, Good(K, T, R, G), NEW L, NEW H,
         Aside(K, L, G, H)
  PROVE  Beside(K, L, T, R, G, H)
<1>1. ASSUME NEW u \in Txns
      PROVE  /\ L.txn[u].from_parent = K.txn[u].from_parent
             /\ K.txn[u].kind = "call" <=> L.txn[u].kind = "call"
             /\ K.txn[u].kind = "call" => L.txn[u] = K.txn[u] /\ H[u] = G[u]
  BY DEF Aside, Good, Links
<1>2. Parents(L) = Parents(K)
  BY <1>1, ParentsSame
<1>3. \A h : Out(L, h) = Out(K, h) /\ In(L, H, h) = In(K, G, h) /\ Own(L, H, h) = Own(K, G, h)
  <2> SUFFICES ASSUME NEW h
               PROVE  Out(L, h) = Out(K, h) /\ In(L, H, h) = In(K, G, h) /\ Own(L, H, h) = Own(K, G, h)
    OBVIOUS
  <2>1. Out(L, h) = Out(K, h)
    BY <1>1 DEF Out
  <2>2. In(L, H, h) = In(K, G, h)
    BY <1>1 DEF In
  <2> QED BY <2>1, <2>2 DEF Own
<1>4. L.stack = K.stack /\ K \in Kernel
  BY DEF Aside, Good, Typed
<1>5. Links(L, H)
  <2>1. ASSUME NEW u \in Txns, NEW s, s = L.txn[u].from_parent, s # NoTxn
        PROVE  /\ L.txn[u].kind = "call" /\ L.txn[s].kind = "call"
               /\ H[s] = Nowhere /\ L.txn[s].to_thread = L.txn[u].from
    <3>1. s = K.txn[u].from_parent /\ s \in Txns
      BY <1>1, <1>4, <2>1 DEF Kernel, TxnRecs
    <3>2. /\ K.txn[u].kind = "call" /\ K.txn[s].kind = "call"
          /\ G[s] = Nowhere /\ K.txn[s].to_thread = K.txn[u].from
      BY <2>1, <3>1 DEF Good, Links
    <3> QED BY <1>1, <3>1, <3>2
  <2> QED BY <1>2, <2>1 DEF Links, Good
<1>6. Ends(L, T, H)
  <2> SUFFICES ASSUME NEW u \in Txns, L.txn[u].kind = "call"
               PROVE  EndsAt(L, T, H, u)
    BY DEF Ends, EndsAt
  <2>1. L.txn[u] = K.txn[u] /\ H[u] = G[u] /\ EndsAt(K, T, G, u)
    BY <1>1 DEF Good, Ends
  <2> QED BY <1>2, <2>1 DEF EndsAt
<1>7. Tops(L, T, H)
  BY <1>2, <1>3, <1>4 DEF Good, Tops, TopAt
<1>8. Unders(L, T, H)
  <2> SUFFICES ASSUME NEW h \in T, NEW s \in In(L, H, h) PROVE UnderAt(L, H, h, s)
    BY DEF Unders
  <2>1. s \in In(K, G, h) /\ UnderAt(K, G, h, s)
    BY <1>3 DEF Good, Unders
  <2>2. L.txn[s] = K.txn[s]
    BY <1>1, <2>1 DEF In
  <2> QED BY <1>2, <1>3, <2>1, <2>2 DEF UnderAt
<1>9. ASSUME NEW u \in Txns, L.txn[u] = K.txn[u], H[u] = G[u]
      PROVE  FiledAt(L, T, R, H, u)
  <2>1. FiledAt(K, T, R, G, u)
    BY DEF Good, Filed
  <2> QED BY <1>2, <1>3, <1>4, <1>9, <2>1 DEF FiledAt
<1> QED BY <1>1, <1>3, <1>5, <1>6, <1>7, <1>8, <1>9 DEF Beside

(* Fields that matter to nobody who is left.                               *)
Elsewhere(K, L, T, R) ==
  /\ L \in Kernel /\ L.txn = K.txn /\ L.bug = K.bug
  /\ \A h \in T : /\ L.stack[h] = K.stack[h]
                  /\ L.error[h] = K.error[h] /\ L.error2[h] = K.error2[h]
  /\ \A p \in R : L.has_async[p] = K.has_async[p] /\ L.held[p] = K.held[p]

LEMMA ElsewhereKeeps ==
  ASSUME NEW K, NEW T, NEW R, NEW G, Good(K, T, R, G), NEW L,
         Elsewhere(K, L, T, R)
  PROVE  Good(L, T, R, G)
<1>1. Parents(L) = Parents(K)
  BY DEF Parents, Elsewhere
<1>2. \A h : Out(L, h) = Out(K, h) /\ In(L, G, h) = In(K, G, h) /\ Own(L, G, h) = Own(K, G, h)
  BY DEF Elsewhere, Out, In, Own
<1>3. \A p : OutTo(L, G, p) = OutTo(K, G, p)
  BY DEF Elsewhere, OutTo
<1>4. Typed(L, T, R, G)
  BY DEF Typed, Good, Elsewhere
<1>5. Links(L, G)
  BY <1>1 DEF Links, Good, Elsewhere
<1>6. Ends(L, T, G)
  BY <1>1 DEF Ends, EndsAt, Good, Elsewhere
<1>7. Tops(L, T, G)
  BY <1>1, <1>2 DEF Tops, TopAt, Good, Elsewhere
<1>8. Unders(L, T, G)
  BY <1>1, <1>2 DEF Unders, UnderAt, Good, Elsewhere
<1>9. Filed(L, T, R, G)
  <2> SUFFICES ASSUME NEW u \in Txns PROVE FiledAt(L, T, R, G, u)
    BY DEF Filed
  <2>1. FiledAt(K, T, R, G, u)
    BY DEF Good, Filed
  <2>2. L.txn[u] = K.txn[u] /\ \A h \in T : L.stack[h] = K.stack[h]
    BY DEF Elsewhere
  <2> QED BY <1>1, <1>2, <2>1, <2>2 DEF FiledAt
<1>10. Errors(L, T)
  BY <1>2 DEF Errors, Good, Elsewhere
<1>11. Serial(L, R, G)
  BY <1>3 DEF Serial, SerialAt, Good, Elsewhere
<1> QED BY <1>4, <1>5, <1>6, <1>7, <1>8, <1>9, <1>10, <1>11 DEF Good

(* A reply begins: the call on top of the replier's stack is taken off.    *)
Unstacks(K, L, h, s) ==
  /\ L \in Kernel /\ L.txn = K.txn /\ L.stack[h] = K.txn[s].to_parent
  /\ \A g \in Threads \ {h} : L.stack[g] = K.stack[g]
  /\ L.error = K.error /\ L.error2 = K.error2 /\ L.bug = K.bug
  /\ L.has_async = K.has_async /\ L.held = K.held

LEMMA UnstackKeeps ==
  ASSUME NEW K, NEW T, NEW R, NEW G, Good(K, T, R, G), NEW h \in T,
         NEW s \in In(K, G, h), K.stack[h] = s, K.error[h] = "OK",
         NEW L, Unstacks(K, L, h, s), NEW H, H = [G EXCEPT ![s] = Limbo]
  PROVE  Good(L, T, R, H)
<1> DEFINE P == Parents(K)
<1>1. /\ K \in Kernel /\ L \in Kernel /\ T \in SUBSET Threads /\ h \in Threads
      /\ R \in SUBSET Procs /\ G \in [Txns -> Wheres]
  BY DEF Good, Typed, Unstacks
<1>2. L.txn = K.txn /\ Parents(L) = P /\ P \in PFun
  BY <1>1, ParentsType DEF Unstacks, Parents
<1>3. /\ s \in Txns /\ K.txn[s].kind = "call" /\ K.txn[s].to_thread = h
      /\ G[s] = Nowhere /\ s \in Own(K, G, h)
  BY OwnTxns DEF In
<1>4. Leaf(P, s)
  BY DEF Good, Tops, TopAt
<1>5. /\ H \in [Txns -> Wheres] /\ H[s] = Limbo
      /\ \A u \in Txns \ {s} : H[u] = G[u]
  BY <1>1, <1>3 DEF Wheres
<1>6. \A g : Out(L, g) = Out(K, g)
  BY <1>2 DEF Out
<1>7. ASSUME NEW g PROVE In(L, H, g) = In(K, G, g) \ {s}
  BY <1>2, <1>3, <1>5, WhereFacts DEF In
<1>8. ASSUME NEW g \in T \ {h}
      PROVE  /\ In(L, H, g) = In(K, G, g) /\ Own(L, H, g) = Own(K, G, g)
             /\ L.stack[g] = K.stack[g]
  <2>1. s \notin In(K, G, g)
    BY <1>3 DEF In
  <2>2. g \in Threads \ {h}
    BY <1>1
  <2>3. Out(L, g) = Out(K, g) /\ In(L, H, g) = In(K, G, g)
    <3>1. Out(L, g) = Out(K, g) /\ In(L, H, g) = In(K, G, g) \ {s}
      BY <1>6, <1>7, Zenon
    <3> QED BY <2>1, <3>1
  <2>4. Own(L, H, g) = Own(K, G, g)
    BY <2>3 DEF Own
  <2> QED BY <2>2, <2>3, <2>4 DEF Unstacks
<1>9. s \notin Out(K, h)
  BY OutNotIn
<1>10. Own(L, H, h) = Own(K, G, h) \ {s}
  <2>1. Out(L, h) = Out(K, h) /\ In(L, H, h) = In(K, G, h) \ {s}
    BY <1>6, <1>7
  <2> QED BY <1>9, <2>1 DEF Own
<1>11. PICK r : r = K.txn[s].to_parent
  OBVIOUS
<1>12. L.stack[h] = r
  BY <1>11 DEF Unstacks
<1>13. /\ r = NoTxn => \A u \in Own(K, G, h) : Anc(P, s, u)
       /\ r # NoTxn => /\ r \in Out(K, h) /\ Anc(P, r, s)
                       /\ \A u \in Own(K, G, h) : Anc(P, s, u) \/ Anc(P, u, r)
  BY <1>11 DEF Good, Unders, UnderAt
<1>14. \A u \in Own(K, G, h) : Anc(P, s, u) => u = s
  BY <1>2, <1>3, <1>4, LeafAnc, OwnTxns
<1> HIDE DEF P
<1>15. Links(L, H)
  <2>1. ASSUME NEW u \in Txns, NEW v, v = L.txn[u].from_parent, v # NoTxn
        PROVE  /\ L.txn[u].kind = "call" /\ L.txn[v].kind = "call"
               /\ H[v] = Nowhere /\ L.txn[v].to_thread = L.txn[u].from
    <3>1. v = K.txn[u].from_parent /\ v \in Txns /\ P[u] = v
      BY <1>1, <1>2, <2>1, ParentsType, ZenonT(60) DEF Kernel, TxnRecs, P
    <3>2. /\ K.txn[u].kind = "call" /\ K.txn[v].kind = "call"
          /\ G[v] = Nowhere /\ K.txn[v].to_thread = K.txn[u].from
      BY <2>1, <3>1 DEF Good, Links
    <3>3. v # s
      BY <1>4, <3>1 DEF Leaf
    <3> QED BY <1>2, <1>5, <3>1, <3>2, <3>3
  <2> QED BY <1>2, <2>1 DEF Links, Good, P
<1>16. Ends(L, T, H)
  <2> SUFFICES ASSUME NEW u \in Txns PROVE EndsAt(L, T, H, u)
    BY DEF Ends
  <2>1. EndsAt(K, T, G, u)
    BY DEF Good, Ends
  <2>2. H[u] = Nowhere => G[u] = Nowhere
    BY <1>5, WhereFacts
  <2> QED BY <1>2, <2>1, <2>2 DEF EndsAt, P
<1>17. TopAt(L, H, h)
  <2>1. r \notin In(L, H, h)
    <3>1. r = NoTxn => r \notin In(L, H, h)
      BY BinderAssumption, OwnTxns
    <3>2. r # NoTxn => r \notin In(K, G, h)
      BY <1>13, OutNotIn
    <3> QED BY <1>7, <3>1, <3>2
  <2>2. CASE r = NoTxn
    BY <1>10, <1>12, <1>13, <1>14, <2>1, <2>2 DEF TopAt
  <2>3. CASE r # NoTxn
    <3>1. r \in Own(L, H, h)
      BY <1>6, <1>13, <2>3, OwnTxns
    <3>2. \A u \in Own(L, H, h) : Anc(P, u, r)
      BY <1>10, <1>13, <1>14, <2>3
    <3> QED BY <1>2, <1>12, <2>1, <2>3, <3>1, <3>2 DEF TopAt
  <2> QED BY <2>2, <2>3
<1>18. Tops(L, T, H)
  <2>1. ASSUME NEW g \in T \ {h} PROVE TopAt(L, H, g)
    <3>1. TopAt(K, G, g)
      BY DEF Good, Tops
    <3> QED BY <1>2, <1>8, <3>1 DEF TopAt, P
  <2> QED BY <1>17, <2>1 DEF Tops
<1>19. Unders(L, T, H)
  <2> SUFFICES ASSUME NEW g \in T, NEW v \in In(L, H, g) PROVE UnderAt(L, H, g, v)
    BY DEF Unders
  <2>1. v \in In(K, G, g) /\ Own(L, H, g) \subseteq Own(K, G, g)
    BY <1>7, <1>8, <1>10
  <2>2. UnderAt(K, G, g, v)
    BY <2>1 DEF Good, Unders
  <2> QED BY <1>2, <1>6, <2>1, <2>2 DEF UnderAt, P
<1>20. Filed(L, T, R, H)
  <2> SUFFICES ASSUME NEW u \in Txns PROVE FiledAt(L, T, R, H, u)
    BY DEF Filed
  <2>1. CASE u = s
    BY <1>2, <1>3, <1>5, <2>1, WhereFacts DEF FiledAt
  <2>2. CASE u # s
    <3>1. H[u] = G[u] /\ L.txn[u] = K.txn[u] /\ FiledAt(K, T, R, G, u)
      BY <1>2, <1>5, <2>2 DEF Good, Filed
    <3>2. ASSUME NEW g \in Threads, G[u] = Todo(g), K.txn[u].kind = "call"
          PROVE  L.stack[g] \in Out(L, g) \ {u} /\ Anc(P, L.stack[g], u)
      <4>1. g \in T /\ K.stack[g] \in Out(K, g) \ {u} /\ Anc(P, K.stack[g], u)
        BY <3>1, <3>2 DEF FiledAt, P
      <4>2. g # h
        BY <1>9, <4>1
      <4> QED BY <1>6, <1>8, <4>1, <4>2
    <3> QED BY <1>2, <3>1, <3>2, FiledSame, ZenonT(60) DEF P
  <2> QED BY <2>1, <2>2
<1>21. Errors(L, T)
  <2>1. L.error = K.error /\ L.error2 = K.error2 /\ L.bug = K.bug
    BY DEF Unstacks
  <2>2. K.error2[h] = "OK"
    BY DEF Good, Errors
  <2> QED BY <1>6, <1>8, <2>1, <2>2 DEF Good, Errors
<1>22. Serial(L, R, H)
  <2>1. L.held = K.held /\ L.has_async = K.has_async
    BY DEF Unstacks
  <2>2. ASSUME NEW p PROVE OutTo(L, H, p) = OutTo(K, G, p)
    BY <1>2, <1>3, <1>5 DEF OutTo
  <2>3. ASSUME NEW p \in R, NEW u \in Txns, H[u] = Async(p) PROVE G[u] = Async(p)
    BY <1>5, <2>3, WhereFacts
  <2> QED BY <2>1, <2>2, <2>3 DEF Good, Serial, SerialAt
<1>23. Typed(L, T, R, H)
  BY <1>1, <1>5 DEF Typed
<1> QED BY <1>15, <1>16, <1>18, <1>19, <1>20, <1>21, <1>22, <1>23 DEF Good

(* A call is handed to a thread.                                           *)
Takes(K, L, h, t) ==
  /\ L \in Kernel
  /\ L.txn[t] = [K.txn[t] EXCEPT !.to_parent = K.stack[h], !.to_thread = h]
  /\ \A u \in Txns \ {t} : L.txn[u] = K.txn[u]
  /\ L.stack[h] = t /\ \A g \in Threads \ {h} : L.stack[g] = K.stack[g]
  /\ L.error = K.error /\ L.error2 = K.error2 /\ L.bug = K.bug
  /\ L.has_async = K.has_async /\ L.held = K.held

LEMMA TakeKeeps ==
  ASSUME NEW K, NEW T, NEW R, NEW G, Good(K, T, R, G), NEW h \in T,
         NEW t \in Txns, K.txn[t].kind = "call",
         G[t] = Todo(h) \/ (G[t] = Ptodo(ProcOf[h]) /\ K.stack[h] = NoTxn),
         NEW L, Takes(K, L, h, t), NEW H, H = [G EXCEPT ![t] = Nowhere]
  PROVE  Good(L, T, R, H)
<1> DEFINE P == Parents(K)
<1>1. /\ K \in Kernel /\ L \in Kernel /\ T \in SUBSET Threads /\ h \in Threads
      /\ R \in SUBSET Procs /\ G \in [Txns -> Wheres] /\ ProcOf[h] \in Procs
  BY BinderAssumption DEF Good, Typed, Takes
<1>2. /\ L.txn[t].kind = "call" /\ L.txn[t].from = K.txn[t].from
      /\ L.txn[t].from_parent = K.txn[t].from_parent /\ L.txn[t].to_thread = h
      /\ L.txn[t].to_parent = K.stack[h]
      /\ \A u \in Txns \ {t} : L.txn[u] = K.txn[u]
  <2>1. K.txn[t] \in TxnRecs
    BY <1>1 DEF Kernel
  <2> QED BY <2>1 DEF Takes, TxnRecs
<1>3. Parents(L) = P /\ P \in PFun /\ OneChild(P)
  <2>1. \A u \in Txns : L.txn[u].from_parent = K.txn[u].from_parent
    BY <1>2
  <2> QED BY <1>1, <2>1, ParentsSame, ParentsType DEF Good, Links
<1>4. G[t] # Nowhere /\ Leaf(P, t)
  BY FiledLeaf, WhereFacts
<1>5. /\ H \in [Txns -> Wheres] /\ H[t] = Nowhere
      /\ \A u \in Txns \ {t} : H[u] = G[u]
  BY <1>1 DEF Wheres
<1>6. FiledAt(K, T, R, G, t)
  BY DEF Good, Filed
<1>7. K.txn[t].from # h
  <2>1. CASE G[t] = Todo(h)
    BY <1>1, <1>6, <2>1, BinderAssumption DEF FiledAt, Good, Ends, EndsAt
  <2>2. CASE G[t] = Ptodo(ProcOf[h])
    BY <1>1, <1>6, <2>2, BinderAssumption DEF FiledAt
  <2> QED BY <2>1, <2>2
<1>8. K.stack[h] # NoTxn => K.stack[h] \in Out(K, h) /\ Anc(P, K.stack[h], t)
  BY <1>1, <1>6 DEF FiledAt
<1>9. /\ K.stack[h] = NoTxn => Own(K, G, h) = {}
      /\ K.stack[h] # NoTxn => \A u \in Own(K, G, h) : Anc(P, u, K.stack[h])
  BY DEF Good, Tops, TopAt
<1> HIDE DEF P
<1>10. \A g : Out(L, g) = Out(K, g)
  BY <1>2 DEF Out
<1>11. ASSUME NEW g \in T \ {h}
       PROVE  /\ In(L, H, g) = In(K, G, g) /\ Own(L, H, g) = Own(K, G, g)
              /\ L.stack[g] = K.stack[g]
  <2>1. In(L, H, g) = In(K, G, g)
    BY <1>2, <1>4, <1>5 DEF In
  <2>2. g \in Threads \ {h}
    BY <1>1
  <2> QED BY <1>10, <2>1, <2>2 DEF Own, Takes
<1>12. In(L, H, h) = In(K, G, h) \cup {t} /\ Own(L, H, h) = Own(K, G, h) \cup {t}
  <2>1. In(L, H, h) = In(K, G, h) \cup {t}
    BY <1>2, <1>5 DEF In
  <2>2. Out(L, h) = Out(K, h)
    BY <1>10
  <2> QED BY <2>1, <2>2 DEF Own
<1>13. \A u \in Own(K, G, h) \cup {t} : Anc(P, u, t)
  <2> SUFFICES ASSUME NEW u \in Own(K, G, h) PROVE Anc(P, u, t)
    BY <1>3, AncSelf
  <2>1. K.stack[h] # NoTxn /\ Anc(P, u, K.stack[h]) /\ Anc(P, K.stack[h], t)
    BY <1>8, <1>9
  <2>2. K.stack[h] \in Txns /\ u \in Txns
    BY <1>8, <2>1, OwnTxns DEF Out
  <2> QED BY <1>3, <2>1, <2>2, AncTrans
<1>14. L.stack[h] = t /\ t \notin Out(K, h)
  BY <1>7 DEF Takes, Out
<1>15. Links(L, H)
  <2>1. ASSUME NEW u \in Txns, NEW v, v = L.txn[u].from_parent, v # NoTxn
        PROVE  /\ L.txn[u].kind = "call" /\ L.txn[v].kind = "call"
               /\ H[v] = Nowhere /\ L.txn[v].to_thread = L.txn[u].from
    <3>1. v = K.txn[u].from_parent /\ v \in Txns /\ P[u] = v
      <4>1. v = K.txn[u].from_parent
        BY <1>2, <2>1
      <4>2. P[u] = v
        BY <1>1, <4>1, ParentsType DEF P
      <4> QED BY <1>3, <2>1, <4>1, <4>2 DEF PFun
    <3>2. /\ K.txn[u].kind = "call" /\ K.txn[v].kind = "call"
          /\ G[v] = Nowhere /\ K.txn[v].to_thread = K.txn[u].from
      BY <2>1, <3>1 DEF Good, Links
    <3>3. v # t
      BY <1>4, <3>1 DEF Leaf
    <3> QED BY <1>2, <1>5, <3>1, <3>2, <3>3
  <2> QED BY <1>3, <2>1 DEF Links, Good, P
<1>16. Ends(L, T, H)
  <2> SUFFICES ASSUME NEW u \in Txns PROVE EndsAt(L, T, H, u)
    BY DEF Ends
  <2>1. EndsAt(K, T, G, u)
    BY DEF Good, Ends
  <2>2. CASE u = t
    BY <1>2, <1>3, <1>7, <2>1, <2>2 DEF EndsAt, P
  <2>3. CASE u # t
    <3>1. L.txn[u] = K.txn[u] /\ H[u] = G[u]
      BY <1>2, <1>5, <2>3
    <3> QED BY <1>3, <2>1, <3>1 DEF EndsAt, P
  <2> QED BY <2>2, <2>3
<1>17. Tops(L, T, H)
  <2>1. ASSUME NEW g \in T \ {h} PROVE TopAt(L, H, g)
    <3>1. TopAt(K, G, g)
      BY DEF Good, Tops
    <3> QED BY <1>3, <1>11, <3>1 DEF TopAt, P
  <2>2. TopAt(L, H, h)
    BY <1>3, <1>4, <1>12, <1>13, <1>14, BinderAssumption DEF TopAt
  <2> QED BY <2>1, <2>2 DEF Tops
<1>18. Unders(L, T, H)
  <2>1. ASSUME NEW g \in T \ {h}, NEW v \in In(L, H, g) PROVE UnderAt(L, H, g, v)
    <3>1. v \in In(K, G, g) /\ v # t /\ v \in Txns
      BY <1>2, <1>11, <2>1 DEF In
    <3>2. UnderAt(K, G, g, v)
      BY <3>1 DEF Good, Unders
    <3>3. L.txn[v] = K.txn[v]
      BY <1>2, <3>1
    <3> QED BY <1>3, <1>10, <1>11, <3>2, <3>3 DEF UnderAt, P
  <2>2. ASSUME NEW v \in In(K, G, h), v # t PROVE UnderAt(L, H, h, v)
    <3>1. v \in Own(K, G, h) /\ v \in Txns /\ L.txn[v] = K.txn[v]
      BY <1>2, <2>2, OwnTxns
    <3>2. UnderAt(K, G, h, v) /\ Anc(P, v, t)
      BY <1>13, <2>2, <3>1 DEF Good, Unders
    <3>3. PICK r : r = K.txn[v].to_parent
      OBVIOUS
    <3>4. /\ r = NoTxn => \A u \in Own(K, G, h) : Anc(P, v, u)
          /\ r # NoTxn => /\ r \in Out(K, h) /\ Anc(P, r, v)
                          /\ \A u \in Own(K, G, h) : Anc(P, v, u) \/ Anc(P, u, r)
      BY <3>2, <3>3 DEF UnderAt, P
    <3> QED BY <1>3, <1>10, <1>12, <3>1, <3>2, <3>3, <3>4 DEF UnderAt
  <2>3. UnderAt(L, H, h, t)
    <3>1. PICK r : r = K.stack[h]
      OBVIOUS
    <3>2. L.txn[t].to_parent = r
      BY <1>2, <3>1
    <3>3. Anc(P, t, t)
      BY <1>3, AncSelf
    <3>4. CASE r = NoTxn
      <4>1. Own(L, H, h) = {t}
        BY <1>9, <1>12, <3>1, <3>4
      <4> QED BY <1>3, <3>2, <3>3, <3>4, <4>1 DEF UnderAt
    <3>5. CASE r # NoTxn
      <4>1. r \in Out(K, h) /\ Anc(P, r, t) /\ \A u \in Own(K, G, h) : Anc(P, u, r)
        BY <1>8, <1>9, <3>1, <3>5
      <4> QED BY <1>3, <1>10, <1>12, <3>2, <3>3, <3>5, <4>1 DEF UnderAt
    <3> QED BY <3>4, <3>5
  <2> QED BY <1>12, <2>1, <2>2, <2>3 DEF Unders
<1>19. Filed(L, T, R, H)
  <2> SUFFICES ASSUME NEW u \in Txns PROVE FiledAt(L, T, R, H, u)
    BY DEF Filed
  <2>1. CASE u = t
    BY <1>2, <1>5, <2>1, WhereFacts DEF FiledAt
  <2>2. CASE u # t
    <3>1. H[u] = G[u] /\ L.txn[u] = K.txn[u] /\ FiledAt(K, T, R, G, u)
      BY <1>2, <1>5, <2>2 DEF Good, Filed
    <3>2. ASSUME NEW g \in Threads, G[u] = Todo(g), K.txn[u].kind = "call"
          PROVE  L.stack[g] \in Out(L, g) \ {u} /\ Anc(P, L.stack[g], u)
      <4>1. g \in T /\ K.stack[g] \in Out(K, g) \ {u} /\ Anc(P, K.stack[g], u)
        BY <3>1, <3>2 DEF FiledAt, P
      <4>2. CASE g = h
        <5>1. PICK z \in Txns : z = K.stack[h]
          BY <4>1, <4>2 DEF Out
        <5>2. Anc(P, z, u) /\ Anc(P, z, t)
          BY <1>8, <4>1, <4>2, <5>1, BinderAssumption
        <5>3. Anc(P, u, t)
          BY <1>3, <1>4, <5>2, LeafBelow
        <5>4. Leaf(P, u)
          BY <3>2, FiledLeaf, WhereFacts DEF P
        <5>5. u = t
          BY <1>3, <5>3, <5>4, LeafAnc
        <5> QED BY <2>2, <5>5
      <4>3. CASE g # h
        BY <1>10, <1>11, <4>1, <4>3
      <4> QED BY <4>2, <4>3
    <3>3. \A g \in Threads : G[u] = Todo(g) /\ K.txn[u].kind = "call" =>
            L.stack[g] \in Out(L, g) \ {u} /\ Anc(Parents(L), L.stack[g], u)
      BY <1>3, <3>2
    <3>4. /\ L.txn[u].kind = K.txn[u].kind /\ L.txn[u].to_proc = K.txn[u].to_proc
          /\ L.txn[u].to_thread = K.txn[u].to_thread
          /\ L.txn[u].from \in {K.txn[u].from, NoThread}
          /\ H[u] = G[u] /\ FiledAt(K, T, R, G, u)
      BY <3>1
    <3> QED BY <3>3, <3>4, FiledSame
  <2> QED BY <2>1, <2>2
<1>20. Errors(L, T)
  <2>1. L.error = K.error /\ L.error2 = K.error2 /\ L.bug = K.bug
    BY DEF Takes
  <2> QED BY <1>10, <1>11, <1>14, <2>1 DEF Good, Errors
<1>21. Serial(L, R, H)
  <2>1. L.held = K.held /\ L.has_async = K.has_async
    BY DEF Takes
  <2>2. ASSUME NEW p PROVE OutTo(L, H, p) = OutTo(K, G, p)
    BY <1>2, <1>5 DEF OutTo
  <2>3. ASSUME NEW p \in R, NEW u \in Txns, H[u] = Async(p) PROVE G[u] = Async(p)
    BY <1>5, <2>3, WhereFacts
  <2> QED BY <2>1, <2>2, <2>3 DEF Good, Serial, SerialAt
<1>22. Typed(L, T, R, H)
  BY <1>1, <1>5 DEF Typed
<1> QED BY <1>15, <1>16, <1>17, <1>18, <1>19, <1>20, <1>21, <1>22 DEF Good

-----------------------------------------------------------------------------
(* A new call.                                                             *)

(* The thread that is found is the caller of a call further up the chain.  *)
Waiter(K, s, p, f) ==
  \E u \in Txns : /\ Anc(Parents(K), u, s) /\ K.txn[u].from = f
                  /\ f # NoThread /\ ProcOf[f] = p

LEMMA TargetFound ==
  ASSUME NEW K \in Kernel, NEW s \in Txns, NEW p, NEW f,
         f = TargetThread(K, s, p), f # NoThread
  PROVE  Waiter(K, s, p, f)
<1>1. PICK N \in Nat : N = Cardinality(Txns)
  BY FS_CardinalityType, BinderAssumption
<1>2. PICK w : SearchTurns(w, K, s, p, N) /\ TargetThread(K, s, p) = w[N].h
  BY <1>1, SearchUnfold
<1>3. PICK P \in PFun : P = Parents(K) /\ \A u \in Txns : P[u] = K.txn[u].from_parent
  BY ParentsType
<1> DEFINE T == {n \in 0 .. N : /\ w[n] \in SearchStates
                                /\ w[n].t = NoTxn \/ Anc(P, w[n].t, s)
                                /\ w[n].h = NoThread \/ Waiter(K, s, p, w[n].h)}
<1>4. 0 \in T
  <2>1. w[0] = [t |-> s, h |-> NoThread]
    BY <1>2 DEF SearchTurns
  <2>2. w[0] \in SearchStates
    BY <2>1 DEF SearchStates
  <2> QED BY <2>1, <2>2, AncSelf
<1>5. ASSUME NEW n \in 0 .. N - 1, n \in T PROVE n + 1 \in T
  <2>1. n + 1 \in 0 .. N /\ n + 1 # 0 /\ (n + 1) - 1 = n
    OBVIOUS
  <2>2. w[n + 1] = SearchOne(K, p, w[n])
    BY <1>2, <2>1 DEF SearchTurns
  <2>3. PICK x : x = w[n]
    OBVIOUS
  <2>4. /\ x \in SearchStates /\ (x.t = NoTxn \/ Anc(P, x.t, s))
        /\ x.h = NoThread \/ Waiter(K, s, p, x.h)
    BY <1>5, <2>3
  <2>5. PICK y : y = SearchOne(K, p, x)
    OBVIOUS
  <2>6. y \in SearchStates
    BY <2>4, <2>5, SearchKeeps
  <2>7. CASE x.t = NoTxn
    BY <2>1, <2>2, <2>3, <2>4, <2>5, <2>6, <2>7 DEF SearchOne
  <2>8. CASE x.t # NoTxn
    <3>1. PICK u \in Txns : u = x.t
      BY <2>4, <2>8 DEF SearchStates
    <3>2. PICK g : g = K.txn[u].from
      OBVIOUS
    <3>3. y = [t |-> P[u], h |-> IF g # NoThread /\ ProcOf[g] = p THEN g ELSE x.h]
      BY <1>3, <2>5, <2>8, <3>1, <3>2 DEF SearchOne
    <3>4. y.t = P[u] /\ y.h = IF g # NoThread /\ ProcOf[g] = p THEN g ELSE x.h
      BY <3>3
    <3>5. Anc(P, u, s)
      BY <2>4, <2>8, <3>1
    <3>6. y.t = NoTxn \/ Anc(P, y.t, s)
      <4> SUFFICES ASSUME P[u] # NoTxn PROVE Anc(P, P[u], s)
        BY <3>4
      <4>1. P[u] \in Txns /\ Anc(P, P[u], u)
        BY AncParent DEF PFun
      <4> QED BY <3>5, <4>1, AncTrans
    <3>7. y.h = NoThread \/ Waiter(K, s, p, y.h)
      <4>1. CASE g # NoThread /\ ProcOf[g] = p
        BY <1>3, <3>2, <3>4, <3>5, <4>1 DEF Waiter
      <4>2. CASE ~ (g # NoThread /\ ProcOf[g] = p)
        BY <2>4, <3>4, <4>2
      <4> QED BY <4>1, <4>2
    <3> QED BY <2>1, <2>2, <2>3, <2>5, <2>6, <3>6, <3>7
  <2> QED BY <2>7, <2>8
<1> HIDE DEF T
<1>6. N \in T
  BY <1>4, <1>5, Turns
<1> QED BY <1>2, <1>6 DEF T

LEMMA TargetOfNone ==
  ASSUME NEW K \in Kernel, NEW p
  PROVE  TargetThread(K, NoTxn, p) = NoThread
<1>1. PICK N \in Nat : N = Cardinality(Txns)
  BY FS_CardinalityType, BinderAssumption
<1>2. PICK w : SearchTurns(w, K, NoTxn, p, N) /\ TargetThread(K, NoTxn, p) = w[N].h
  BY <1>1, SearchUnfold
<1> DEFINE T == {n \in 0 .. N : w[n] = [t |-> NoTxn, h |-> NoThread]}
<1>3. 0 \in T
  BY <1>2 DEF SearchTurns
<1>4. ASSUME NEW n \in 0 .. N - 1, n \in T PROVE n + 1 \in T
  <2>1. n + 1 \in 0 .. N /\ n + 1 # 0 /\ (n + 1) - 1 = n
    OBVIOUS
  <2>2. w[n + 1] = SearchOne(K, p, w[n])
    BY <1>2, <2>1 DEF SearchTurns
  <2> QED BY <1>4, <2>1, <2>2 DEF SearchOne
<1> HIDE DEF T
<1>5. N \in T
  BY <1>3, <1>4, Turns
<1> QED BY <1>2, <1>5 DEF T

(* It waits for the new call and nothing it has to do is in between.       *)
LEMMA WaiterBelow ==
  ASSUME NEW K, NEW T, NEW R, NEW G, Good(K, T, R, G), NEW h \in T,
         NEW s \in In(K, G, h), K.stack[h] = s, NEW p, p # ProcOf[h],
         NEW f, Waiter(K, s, p, f)
  PROVE  /\ f \in T \ {h} /\ K.stack[f] \in Out(K, f)
         /\ Anc(Parents(K), K.stack[f], s)
<1>1. K \in Kernel /\ s \in Txns /\ K.txn[s].kind = "call" /\ K.txn[s].to_thread = h
  BY DEF Good, Typed, In
<1>2. PICK P \in PFun : P = Parents(K) /\ \A u \in Txns : P[u] = K.txn[u].from_parent
  BY <1>1, ParentsType
<1>3. OneChild(P) /\ Leaf(P, s)
  BY <1>2 DEF Good, Links, Tops, TopAt
<1>4. PICK u \in Txns : /\ Anc(P, u, s) /\ K.txn[u].from = f
                        /\ f # NoThread /\ ProcOf[f] = p
  BY <1>2 DEF Waiter
<1>5. K.txn[u].kind = "call"
  <2>1. CASE u = s
    BY <1>1, <2>1
  <2>2. CASE u # s
    <3>1. PICK c \in Txns : P[c] = u
      BY <1>1, <1>3, <1>4, <2>2, AncDown
    <3>2. K.txn[c].from_parent = u /\ u # NoTxn
      BY <1>2, <3>1, BinderAssumption
    <3> QED BY <3>2 DEF Good, Links
  <2> QED BY <2>1, <2>2
<1>6. f \in T \ {h} /\ u \in Out(K, f) /\ u \in Own(K, G, f)
  <2>1. f \in T
    BY <1>4, <1>5 DEF Good, Ends, EndsAt
  <2>2. u \in Out(K, f)
    BY <1>4, <1>5 DEF Out
  <2> QED BY <1>4, <2>1, <2>2, OwnTxns
<1>7. PICK z \in Txns : z = K.stack[f] /\ z \in Own(K, G, f) /\ Anc(P, u, z)
                        /\ (z \in In(K, G, f) => Leaf(P, z))
  <2>1. TopAt(K, G, f)
    BY <1>6 DEF Good, Tops
  <2>2. K.stack[f] # NoTxn
    BY <1>6, <2>1 DEF TopAt
  <2>3. K.stack[f] \in Own(K, G, f) /\ Anc(P, u, K.stack[f])
        /\ (K.stack[f] \in In(K, G, f) => Leaf(P, K.stack[f]))
    BY <1>2, <1>6, <2>1, <2>2 DEF TopAt
  <2> QED BY <2>3, OwnTxns
<1>8. z \notin In(K, G, f)
  <2> SUFFICES ASSUME z \in In(K, G, f) PROVE FALSE
    OBVIOUS
  <2>1. Anc(P, s, z)
    BY <1>1, <1>3, <1>4, <1>7, LeafBelow
  <2>2. s = z
    BY <1>1, <1>3, <2>1, LeafAnc
  <2> QED BY <1>1, <1>6, <2>2 DEF In
<1>9. z \in Out(K, f)
  BY <1>7, <1>8 DEF Own
<1>10. Anc(P, z, s)
  BY <1>1, <1>3, <1>4, <1>7, LeafBelow
<1> QED BY <1>2, <1>6, <1>7, <1>9, <1>10

Begins(K, L, h, t, f) ==
  /\ L \in Kernel /\ L.txn[t].kind = "call" /\ L.txn[t].from = h
  /\ L.txn[t].from_parent = K.stack[h] /\ L.txn[t].to_thread = f
  /\ \A u \in Txns \ {t} : L.txn[u] = K.txn[u]
  /\ L.stack[h] = t /\ \A g \in Threads \ {h} : L.stack[g] = K.stack[g]
  /\ L.error = K.error /\ L.error2 = K.error2 /\ L.bug = K.bug
  /\ L.has_async = K.has_async /\ L.held = K.held

(* Where it goes: to a waiting thread or to the process.                   *)
Goes(K, T, R, h, f, w) ==
  \/ /\ f = NoThread /\ \E p \in R : p # ProcOf[h] /\ w = Ptodo(p)
  \/ /\ f \in T \ {h} /\ w = Todo(f) /\ K.stack[h] # NoTxn
     /\ K.stack[f] \in Out(K, f) /\ Anc(Parents(K), K.stack[f], K.stack[h])

LEMMA BeginCall ==
  ASSUME NEW K, NEW T, NEW R, NEW G, Good(K, T, R, G), NEW h \in T,
         NEW t \in Txns, K.txn[t].kind = "free", K.error[h] = "OK",
         K.stack[h] = NoTxn \/ K.stack[h] \in In(K, G, h),
         NEW f, NEW w, Goes(K, T, R, h, f, w),
         NEW L, Begins(K, L, h, t, f), NEW H, H = [G EXCEPT ![t] = w]
  PROVE  Good(L, T, R, H)
<1> DEFINE P == Parents(K)
           Q == Parents(L)
<1>1. /\ K \in Kernel /\ L \in Kernel /\ T \in SUBSET Threads /\ h \in Threads
      /\ R \in SUBSET Procs /\ G \in [Txns -> Wheres]
  BY DEF Good, Typed, Begins
<1>2. PICK s : s = K.stack[h]
  OBVIOUS
<1>3. /\ L.txn[t].kind = "call" /\ L.txn[t].from = h
      /\ L.txn[t].from_parent = s /\ L.txn[t].to_thread = f
      /\ \A u \in Txns \ {t} : L.txn[u] = K.txn[u]
  BY <1>2 DEF Begins
<1>4. Leaf(P, t) /\ t # NoTxn /\ G[t] = Nowhere
  <2>1. FiledAt(K, T, R, G, t)
    BY DEF Good, Filed
  <2>2. G[t] = Nowhere
    BY <2>1 DEF FiledAt
  <2> QED BY <2>2, FiledLeaf, BinderAssumption
<1>5. /\ P \in PFun /\ Q \in PFun
      /\ \A u \in Txns : P[u] = K.txn[u].from_parent
      /\ \A u \in Txns : Q[u] = L.txn[u].from_parent
  BY <1>1, ParentsType
<1>6. s # NoTxn => /\ s \in In(K, G, h) /\ s \in Txns \ {t} /\ Leaf(P, s)
                   /\ K.txn[s].kind = "call" /\ K.txn[s].to_thread = h
                   /\ G[s] = Nowhere /\ s \in Own(K, G, h)
  <2> SUFFICES ASSUME s # NoTxn
               PROVE  /\ s \in In(K, G, h) /\ s \in Txns \ {t} /\ Leaf(P, s)
                      /\ K.txn[s].kind = "call" /\ K.txn[s].to_thread = h
                      /\ G[s] = Nowhere /\ s \in Own(K, G, h)
    OBVIOUS
  <2>1. s \in In(K, G, h)
    BY <1>2
  <2>2. /\ s \in Txns /\ K.txn[s].kind = "call" /\ K.txn[s].to_thread = h
        /\ G[s] = Nowhere
    BY <2>1 DEF In
  <2>3. Leaf(P, s)
    BY <1>2, <2>1 DEF Good, Tops, TopAt
  <2> QED BY <2>1, <2>2, <2>3, OwnTxns
<1>7. EndOf(P, Q, t) /\ OneChild(P) /\ Acyclic(P) /\ Q[t] = s /\ P[t] = NoTxn
  <2>1. P[t] = NoTxn
    BY <1>5 DEF Good, Links
  <2> QED BY <1>1, <1>3, <1>4, <1>5, <2>1, ParentsChange DEF Good, Links
<1> HIDE DEF P, Q
<1>8. /\ OneChild(Q) /\ Acyclic(Q) /\ Leaf(Q, t)
      /\ \A u, v \in Txns \ {t} : Anc(P, u, v) <=> Anc(Q, u, v)
      /\ \A u \in Txns \ {t} : Leaf(P, u) /\ u # s => Leaf(Q, u)
      /\ \A u \in Txns \ {t} : ~ Leaf(P, u) => ~ Leaf(Q, u)
  <2>1. Q[t] = NoTxn \/ (Q[t] # t /\ Leaf(P, Q[t]))
    BY <1>6, <1>7
  <2>2. /\ OneChild(Q) /\ Acyclic(Q) /\ Leaf(Q, t)
        /\ \A u, v \in Txns \ {t} : Anc(P, u, v) <=> Anc(Q, u, v)
        /\ \A u \in Txns \ {t} : Leaf(P, u) /\ u # Q[t] => Leaf(Q, u)
        /\ \A u \in Txns \ {t} : ~ Leaf(P, u) /\ u # P[t] => ~ Leaf(Q, u)
    BY <1>7, <2>1, EndFacts
  <2> QED BY <1>7, <2>2, BinderAssumption
<1>9. /\ w \in Wheres /\ w # Nowhere /\ w # Limbo
      /\ \A p \in Procs : w # Async(p)
  BY <1>1, WhereFacts DEF Goes, Wheres
<1>10. /\ H \in [Txns -> Wheres] /\ H[t] = w
       /\ \A u \in Txns \ {t} : H[u] = G[u]
  BY <1>1, <1>9
<1>11. f # h /\ f \in T \cup {NoThread} /\ h # NoThread
  BY <1>1, BinderAssumption DEF Goes
<1>12. ASSUME NEW g \in T
       PROVE  /\ In(L, H, g) = In(K, G, g) /\ t \notin In(K, G, g) /\ t \notin Out(K, g)
              /\ Out(L, g) = IF g = h THEN Out(K, g) \cup {t} ELSE Out(K, g)
  <2>1. In(L, H, g) = In(K, G, g) /\ t \notin In(K, G, g)
    BY <1>3, <1>9, <1>10 DEF In
  <2>2. t \notin Out(K, g)
    BY DEF Out
  <2>3. CASE g = h
    BY <1>3, <2>1, <2>2, <2>3 DEF Out
  <2>4. CASE g # h
    BY <1>3, <2>1, <2>2, <2>4 DEF Out
  <2> QED BY <2>3, <2>4
<1>13. /\ L.stack[h] = t
       /\ \A g \in T \ {h} : L.stack[g] = K.stack[g]
  BY <1>1 DEF Begins
<1>14. Links(L, H)
  <2>1. ASSUME NEW u \in Txns, NEW v, v = L.txn[u].from_parent, v # NoTxn
        PROVE  /\ L.txn[u].kind = "call" /\ L.txn[v].kind = "call"
               /\ H[v] = Nowhere /\ L.txn[v].to_thread = L.txn[u].from
    <3>1. CASE u = t
      BY <1>3, <1>6, <1>10, <2>1, <3>1
    <3>2. CASE u # t
      <4>1. v = K.txn[u].from_parent /\ v \in Txns /\ P[u] = v
        BY <1>3, <1>5, <2>1, <3>2 DEF PFun
      <4>2. /\ K.txn[u].kind = "call" /\ K.txn[v].kind = "call"
            /\ G[v] = Nowhere /\ K.txn[v].to_thread = K.txn[u].from
        BY <2>1, <4>1 DEF Good, Links
      <4>3. v # t
        BY <1>4, <4>1 DEF Leaf
      <4> QED BY <1>3, <1>10, <3>2, <4>1, <4>2, <4>3
    <3> QED BY <3>1, <3>2
  <2> QED BY <1>8, <2>1 DEF Links, Q
<1>15. Ends(L, T, H)
  <2> SUFFICES ASSUME NEW u \in Txns PROVE EndsAt(L, T, H, u)
    BY DEF Ends
  <2>1. CASE u = t
    BY <1>3, <1>9, <1>10, <1>11, <2>1 DEF EndsAt
  <2>2. CASE u # t
    <3>1. L.txn[u] = K.txn[u] /\ H[u] = G[u] /\ EndsAt(K, T, G, u)
      BY <1>3, <1>10, <2>2 DEF Good, Ends
    <3> QED BY <1>8, <2>2, <3>1 DEF EndsAt, P, Q
  <2> QED BY <2>1, <2>2
<1>16. Tops(L, T \ {h}, H) /\ Unders(L, T \ {h}, H)
  <2>1. ASSUME NEW g \in T \ {h}, NEW v \in In(K, G, g)
        PROVE  L.txn[v].to_parent = K.txn[v].to_parent /\ (Leaf(P, v) => Leaf(Q, v))
    <3>1. v \in Txns \ {t}
      BY <1>12, <2>1, OwnTxns
    <3>2. v # s
      BY <1>6, <2>1, BinderAssumption DEF In
    <3> QED BY <1>3, <1>8, <3>1, <3>2
  <2>2. ASSUME NEW g \in T \ {h}
        PROVE  /\ Out(L, g) = Out(K, g) /\ In(L, H, g) = In(K, G, g)
               /\ t \notin Own(K, G, g) /\ L.stack[g] = K.stack[g]
    BY <1>12, <1>13 DEF Own
  <2>3. SameStacks(K, L, T \ {h}, G, H, t)
    BY <1>8, <2>1, <2>2 DEF SameStacks, P, Q
  <2>4. Tops(K, T \ {h}, G) /\ Unders(K, T \ {h}, G)
    BY DEF Good, Tops, Unders
  <2> QED BY <2>3, <2>4, SameStacksKeep
<1>17. /\ Out(L, h) = Out(K, h) \cup {t} /\ Own(L, H, h) = Own(K, G, h) \cup {t}
       /\ t \notin Own(K, G, h) /\ In(L, H, h) = In(K, G, h) /\ Own(K, G, h) \subseteq Txns \ {t}
  <2>1. /\ Out(L, h) = Out(K, h) \cup {t} /\ In(L, H, h) = In(K, G, h)
        /\ t \notin Own(K, G, h)
    BY <1>12 DEF Own
  <2> QED BY <2>1, OwnTxns DEF Own
<1>18. \A u \in Own(K, G, h) \cup {t} : Anc(Q, u, t)
  <2> SUFFICES ASSUME NEW u \in Own(K, G, h) PROVE Anc(Q, u, t)
    BY <1>5, AncSelf
  <2>1. TopAt(K, G, h)
    BY DEF Good, Tops
  <2>2. s # NoTxn /\ Anc(P, u, s)
    BY <1>2, <2>1 DEF TopAt, P
  <2>3. s \in Txns \ {t} /\ u \in Txns \ {t}
    BY <1>6, <1>17, <2>2
  <2>4. Anc(Q, u, s)
    BY <1>8, <2>2, <2>3
  <2>5. Anc(Q, s, t)
    BY <1>5, <1>7, <2>2, AncParent
  <2> QED BY <1>5, <2>3, <2>4, <2>5, AncTrans
<1>19. TopAt(L, H, h)
  <2>1. t \notin In(L, H, h)
    BY <1>12
  <2> QED BY <1>4, <1>13, <1>17, <1>18, <2>1 DEF TopAt, Q
<1>20. ASSUME NEW v \in In(L, H, h) PROVE UnderAt(L, H, h, v)
  <2>1. v \in In(K, G, h) /\ v \in Txns \ {t} /\ L.txn[v] = K.txn[v] /\ v \in Own(K, G, h)
    BY <1>3, <1>17, <1>20, OwnTxns
  <2>2. Anc(Q, v, t)
    BY <1>18, <2>1
  <2>3. PICK r : r = K.txn[v].to_parent
    OBVIOUS
  <2>4. /\ r = NoTxn => \A u \in Own(K, G, h) : Anc(P, v, u)
        /\ r # NoTxn => /\ r \in Out(K, h) /\ Anc(P, r, v)
                        /\ \A u \in Own(K, G, h) : Anc(P, v, u) \/ Anc(P, u, r)
    BY <2>1, <2>3 DEF Good, Unders, UnderAt, P
  <2>5. CASE r = NoTxn
    <3>1. \A u \in Own(L, H, h) : Anc(Q, v, u)
      BY <1>8, <1>17, <2>1, <2>2, <2>4, <2>5
    <3> QED BY <2>1, <2>3, <2>5, <3>1 DEF UnderAt, Q
  <2>6. CASE r # NoTxn
    <3>1. r \in Txns \ {t}
      BY <1>12, <2>4, <2>6 DEF Out
    <3>2. r \in Out(L, h) /\ Anc(Q, r, v)
      BY <1>8, <1>17, <2>1, <2>4, <2>6, <3>1
    <3>3. \A u \in Own(L, H, h) : Anc(Q, v, u) \/ Anc(Q, u, r)
      BY <1>8, <1>17, <2>1, <2>2, <2>4, <2>6, <3>1
    <3> QED BY <2>1, <2>3, <2>6, <3>2, <3>3 DEF UnderAt, Q
  <2> QED BY <2>5, <2>6
<1>21. Tops(L, T, H) /\ Unders(L, T, H)
  BY <1>16, <1>19, <1>20 DEF Tops, Unders
<1>22. Filed(L, T, R, H)
  <2> SUFFICES ASSUME NEW u \in Txns PROVE FiledAt(L, T, R, H, u)
    BY DEF Filed
  <2>1. CASE u = t
    <3>1. CASE f = NoThread /\ \E p \in R : p # ProcOf[h] /\ w = Ptodo(p)
      BY <1>1, <1>3, <1>10, <2>1, <3>1, WhereFacts DEF FiledAt
    <3>2. CASE /\ f \in T \ {h} /\ w = Todo(f) /\ s # NoTxn
               /\ K.stack[f] \in Out(K, f) /\ Anc(P, K.stack[f], s)
      <4>1. PICK z \in Txns \ {t} : z = K.stack[f] /\ z = L.stack[f] /\ z \in Out(L, f)
        <5>1. K.stack[f] \in Txns \ {t} /\ K.stack[f] \in Out(L, f)
          BY <1>12, <3>2 DEF Out
        <5> QED BY <1>13, <3>2, <5>1
      <4>2. Anc(Q, z, s)
        BY <1>6, <1>8, <3>2, <4>1
      <4>3. Anc(Q, s, t)
        BY <1>5, <1>7, <3>2, AncParent
      <4>4. Anc(Q, z, t)
        BY <1>5, <1>6, <3>2, <4>2, <4>3, AncTrans
      <4>5. H[t] = Todo(f) /\ f \in T
        BY <1>10, <3>2
      <4> QED BY <1>3, <2>1, <4>1, <4>4, <4>5, WhereFacts DEF FiledAt, Q
    <3> QED BY <1>2, <3>1, <3>2 DEF Goes, P
  <2>2. CASE u # t
    <3>1. H[u] = G[u] /\ L.txn[u] = K.txn[u] /\ FiledAt(K, T, R, G, u)
      BY <1>3, <1>10, <2>2 DEF Good, Filed
    <3>2. ASSUME NEW g \in Threads, G[u] = Todo(g), K.txn[u].kind = "call"
          PROVE  L.stack[g] \in Out(L, g) \ {u} /\ Anc(Q, L.stack[g], u)
      <4>1. g \in T /\ K.stack[g] \in Out(K, g) \ {u} /\ Anc(P, K.stack[g], u)
        BY <3>1, <3>2 DEF FiledAt, P
      <4>2. K.stack[g] \in Txns \ {t}
        BY <1>12, <4>1 DEF Out
      <4>3. g # h
        <5> SUFFICES ASSUME g = h PROVE FALSE
          OBVIOUS
        <5>1. s \in Out(K, h) /\ s # NoTxn
          BY <1>2, <4>1, <4>2, BinderAssumption
        <5> QED BY <1>6, <5>1, OutNotIn
      <4>4. Anc(Q, K.stack[g], u)
        BY <1>8, <2>2, <4>1, <4>2
      <4> QED BY <1>12, <1>13, <4>1, <4>3, <4>4
    <3>3. /\ L.txn[u].kind = K.txn[u].kind /\ L.txn[u].to_proc = K.txn[u].to_proc
          /\ L.txn[u].to_thread = K.txn[u].to_thread
          /\ L.txn[u].from \in {K.txn[u].from, NoThread}
          /\ H[u] = G[u] /\ FiledAt(K, T, R, G, u)
      BY <3>1
    <3>4. \A g \in Threads : G[u] = Todo(g) /\ K.txn[u].kind = "call" =>
            L.stack[g] \in Out(L, g) \ {u} /\ Anc(Parents(L), L.stack[g], u)
      BY <3>2 DEF Q
    <3> QED BY <3>3, <3>4, FiledSame
  <2> QED BY <2>1, <2>2
<1>23. Errors(L, T)
  <2>1. L.error = K.error /\ L.error2 = K.error2 /\ L.bug = K.bug
    BY DEF Begins
  <2>2. K.error2[h] = "OK"
    BY DEF Good, Errors
  <2>3. ASSUME NEW g \in T, K.error2[g] # "OK"
        PROVE  K.error[g] # "OK" /\ L.stack[g] \notin Out(L, g)
    <3>1. g \in T \ {h} /\ Out(L, g) = Out(K, g) /\ L.stack[g] = K.stack[g]
      BY <1>12, <1>13, <2>2, <2>3
    <3> QED BY <2>3, <3>1 DEF Good, Errors
  <2> QED BY <2>1, <2>3 DEF Good, Errors
<1>24. Serial(L, R, H)
  <2>1. L.held = K.held /\ L.has_async = K.has_async
    BY DEF Begins
  <2>2. ASSUME NEW p PROVE OutTo(L, H, p) = OutTo(K, G, p)
    BY <1>3, <1>10 DEF OutTo
  <2>3. ASSUME NEW p \in R, NEW u \in Txns, H[u] = Async(p) PROVE G[u] = Async(p)
    BY <1>1, <1>9, <1>10, <2>3
  <2> QED BY <2>1, <2>2, <2>3 DEF Good, Serial, SerialAt
<1>25. Typed(L, T, R, H)
  BY <1>1, <1>10 DEF Typed
<1> QED BY <1>14, <1>15, <1>21, <1>22, <1>23, <1>24, <1>25 DEF Good

-----------------------------------------------------------------------------
(* A thread goes away.                                                     *)

LeftTxn(x, y, h, left) ==
  /\ x.kind = y.kind /\ x.from_parent = y.from_parent /\ x.to_parent = y.to_parent
  /\ ~ left => x = y
  /\ x.from = IF left /\ y.from = h THEN NoThread ELSE y.from
  /\ x.to_thread = IF left /\ y.to_thread = h THEN NoThread ELSE y.to_thread

(* It has left the transactions in D.                                      *)
Leaves(K, L, h, D) ==
  /\ L \in Kernel /\ L.stack = K.stack /\ L.todo = K.todo
  /\ L.error = K.error /\ L.error2 = K.error2 /\ L.bug = K.bug
  /\ L.live = K.live /\ L.procs = K.procs
  /\ L.ptodo = K.ptodo /\ L.async_todo = K.async_todo
  /\ L.has_async = K.has_async /\ L.held = K.held
  /\ \A u \in Txns : LeftTxn(L.txn[u], K.txn[u], h, u \in D)

LeftAt(K, G, h) ==
  [u \in Txns |-> IF \/ G[u] = Todo(h)
                     \/ u = K.stack[h] /\ u \in In(K, G, h)
                    THEN Limbo ELSE G[u]]

(* One-way calls on its list are lost to its process.                      *)
NoneLost(K, R, G, h) ==
  ProcOf[h] \in R => \/ AsyncExit
                     \/ \A u \in Txns : G[u] = Todo(h) => K.txn[u].kind # "oneway"

LEMMA LeaveThread ==
  ASSUME NEW K, NEW T, NEW R, NEW G, Good(K, T, R, G), NEW h \in T,
         NEW L, Leaves(K, L, h, Own(K, G, h)), NoneLost(K, R, G, h),
         NEW H, H = LeftAt(K, G, h)
  PROVE  Good(L, T \ {h}, R, H)
<1> DEFINE P == Parents(K)
           S == T \ {h}
<1>1. /\ K \in Kernel /\ L \in Kernel /\ T \in SUBSET Threads /\ h \in Threads
      /\ R \in SUBSET Procs /\ G \in [Txns -> Wheres] /\ h # NoThread
  BY BinderAssumption DEF Good, Typed, Leaves
<1>2. ASSUME NEW u \in Txns
      PROVE  /\ L.txn[u].kind = K.txn[u].kind
             /\ L.txn[u].from_parent = K.txn[u].from_parent
             /\ L.txn[u].to_parent = K.txn[u].to_parent
             /\ u \notin Own(K, G, h) => L.txn[u] = K.txn[u]
             /\ L.txn[u].from = IF u \in Own(K, G, h) /\ K.txn[u].from = h
                                  THEN NoThread ELSE K.txn[u].from
             /\ L.txn[u].to_thread = IF u \in Own(K, G, h) /\ K.txn[u].to_thread = h
                                       THEN NoThread ELSE K.txn[u].to_thread
  BY DEF Leaves, LeftTxn
<1>3. Parents(L) = P /\ P \in PFun /\ \A u \in Txns : P[u] = K.txn[u].from_parent
  BY <1>1, <1>2, ParentsSame, ParentsType
<1>4. \A u \in Own(K, G, h) : K.txn[u].kind = "call"
  BY DEF Own, Out, In
<1>5. H \in [Txns -> Wheres]
  BY <1>1 DEF LeftAt, Wheres
<1>6. ASSUME NEW u \in Txns
      PROVE  /\ G[u] = Todo(h) => H[u] = Limbo
             /\ u = K.stack[h] /\ u \in In(K, G, h) => H[u] = Limbo
             /\ G[u] # Todo(h) /\ u \notin In(K, G, h) => H[u] = G[u]
             /\ G[u] # Todo(h) /\ u # K.stack[h] => H[u] = G[u]
             /\ H[u] \in {Limbo, G[u]}
  BY DEF LeftAt
<1>7. ASSUME NEW g \in S PROVE Out(L, g) = Out(K, g)
  <2>1. g \in T /\ g # h /\ g # NoThread
    BY <1>1, BinderAssumption
  <2> QED BY <1>2, <2>1 DEF Out
<1>8. ASSUME NEW g \in S PROVE In(L, H, g) = In(K, G, g)
  <2>1. g \in T /\ g # h /\ g # NoThread
    BY <1>1, BinderAssumption
  <2>2. ASSUME NEW u \in Txns PROVE u \in In(L, H, g) <=> u \in In(K, G, g)
    <3>1. CASE u \in In(K, G, g)
      <4>1. u \notin In(K, G, h) /\ G[u] = Nowhere /\ K.txn[u].to_thread = g /\ K.txn[u].kind = "call"
        BY <2>1, <3>1 DEF In
      <4>2. H[u] = Nowhere
        BY <1>6, <4>1, WhereFacts
      <4>3. L.txn[u].to_thread = g /\ L.txn[u].kind = "call"
        BY <1>2, <2>1, <4>1
      <4> QED BY <3>1, <4>2, <4>3 DEF In
    <3>2. CASE u \in In(L, H, g)
      <4>1. H[u] = Nowhere /\ L.txn[u].to_thread = g /\ L.txn[u].kind = "call"
        BY <3>2 DEF In
      <4>2. G[u] = Nowhere
        BY <1>6, <4>1, WhereFacts
      <4>3. K.txn[u].to_thread = g /\ K.txn[u].kind = "call"
        BY <1>2, <2>1, <4>1
      <4> QED BY <3>2, <4>2, <4>3 DEF In
    <3> QED BY <3>1, <3>2
  <2> QED BY <2>2 DEF In
<1>9. L.stack = K.stack
  BY DEF Leaves
<1>10. Links(L, H)
  <2>1. ASSUME NEW u \in Txns, NEW v, v = L.txn[u].from_parent, v # NoTxn
        PROVE  /\ L.txn[u].kind = "call" /\ L.txn[v].kind = "call"
               /\ H[v] = Nowhere /\ L.txn[v].to_thread = L.txn[u].from
    <3>1. v = K.txn[u].from_parent /\ v \in Txns /\ P[u] = v
      BY <1>2, <1>3, <2>1 DEF PFun
    <3>2. /\ K.txn[u].kind = "call" /\ K.txn[v].kind = "call"
          /\ G[v] = Nowhere /\ K.txn[v].to_thread = K.txn[u].from
      BY <2>1, <3>1 DEF Good, Links
    <3>3. H[v] = Nowhere
      <4>1. ~ Leaf(P, v)
        BY <3>1 DEF Leaf
      <4>2. v \in In(K, G, h) => v # K.stack[h]
        BY <4>1 DEF Good, Tops, TopAt
      <4> QED BY <1>6, <3>1, <3>2, <4>2, WhereFacts
    <3>4. L.txn[v].to_thread = L.txn[u].from
      <4>1. CASE K.txn[u].from = h
        <5>1. u \in Own(K, G, h) /\ v \in Own(K, G, h)
          BY <3>1, <3>2, <4>1 DEF Own, Out, In
        <5> QED BY <1>2, <3>1, <3>2, <4>1, <5>1
      <4>2. CASE K.txn[u].from # h
        BY <1>2, <3>1, <3>2, <4>2
      <4> QED BY <4>1, <4>2
    <3> QED BY <1>2, <3>1, <3>2, <3>3, <3>4
  <2> QED BY <1>3, <2>1 DEF Links, Good
<1>11. Ends(L, S, H)
  <2> SUFFICES ASSUME NEW u \in Txns, K.txn[u].kind = "call"
               PROVE  EndsAt(L, S, H, u)
    BY <1>2 DEF Ends, EndsAt
  <2>1. /\ K.txn[u].from \in T \cup {NoThread}
        /\ K.txn[u].from # NoThread => K.txn[u].to_thread # K.txn[u].from
        /\ G[u] = Nowhere => \/ K.txn[u].to_thread \in T
                             \/ K.txn[u].to_thread = NoThread /\ ~ Leaf(P, u)
    BY DEF Good, Ends, EndsAt
  <2>2. K.txn[u].from = h => u \in Own(K, G, h) /\ L.txn[u].from = NoThread
    BY <1>2 DEF Own, Out
  <2>3. L.txn[u].from \in S \cup {NoThread}
    BY <1>2, <2>1, <2>2
  <2>4. L.txn[u].from # NoThread => L.txn[u].to_thread # L.txn[u].from
    BY <1>2, <2>1, <2>2
  <2>5. ASSUME H[u] = Nowhere
        PROVE  \/ L.txn[u].to_thread \in S
               \/ L.txn[u].to_thread = NoThread /\ ~ Leaf(P, u)
    <3>1. G[u] = Nowhere
      BY <1>6, <2>5, WhereFacts
    <3>2. CASE K.txn[u].to_thread = h
      <4>1. u \in In(K, G, h) /\ u \in Own(K, G, h)
        BY <3>1, <3>2 DEF Own, In
      <4>2. u # K.stack[h]
        BY <1>6, <2>5, <4>1, WhereFacts
      <4>3. ~ Leaf(P, u)
        BY <4>1, <4>2, LeafOnTop
      <4> QED BY <1>2, <3>2, <4>1, <4>3
    <3>3. CASE K.txn[u].to_thread # h
      BY <1>2, <2>1, <3>1, <3>3
    <3> QED BY <3>2, <3>3
  <2> QED BY <1>3, <2>3, <2>4, <2>5 DEF EndsAt
<1>12. Tops(L, S, H)
  <2> SUFFICES ASSUME NEW g \in S PROVE TopAt(L, H, g)
    BY DEF Tops
  <2>1. TopAt(K, G, g)
    BY DEF Good, Tops
  <2>2. Own(L, H, g) = Own(K, G, g)
    BY <1>7, <1>8 DEF Own
  <2> QED BY <1>3, <1>8, <1>9, <2>1, <2>2 DEF TopAt
<1>13. Unders(L, S, H)
  <2> SUFFICES ASSUME NEW g \in S, NEW v \in In(L, H, g) PROVE UnderAt(L, H, g, v)
    BY DEF Unders
  <2>1. v \in In(K, G, g) /\ v \in Txns
    BY <1>8 DEF In
  <2>2. UnderAt(K, G, g, v)
    BY <2>1 DEF Good, Unders
  <2>3. Own(L, H, g) = Own(K, G, g)
    BY <1>7, <1>8 DEF Own
  <2>4. L.txn[v].to_parent = K.txn[v].to_parent
    BY <1>2, <2>1
  <2> QED BY <1>3, <1>7, <2>2, <2>3, <2>4 DEF UnderAt
<1>14. Filed(L, S, R, H)
  <2> SUFFICES ASSUME NEW u \in Txns PROVE FiledAt(L, S, R, H, u)
    BY DEF Filed
  <2>1. FiledAt(K, T, R, G, u)
    BY DEF Good, Filed
  <2>2. CASE H[u] = Limbo
    <3>1. L.txn[u].kind # "free"
      <4>1. CASE G[u] # Nowhere
        BY <1>2, <2>1, <4>1 DEF FiledAt
      <4>2. CASE G[u] = Nowhere
        BY <1>2, <1>4, <1>6, <2>2, <4>2, WhereFacts DEF Own
      <4> QED BY <4>1, <4>2
    <3> QED BY <2>2, <3>1, WhereFacts DEF FiledAt
  <2>3. CASE H[u] # Limbo
    <3>1. H[u] = G[u] /\ G[u] # Todo(h)
      BY <1>6, <2>3
    <3>2. \A p \in Procs : G[u] = Async(p) => L.txn[u] = K.txn[u]
      BY <1>2, <1>4, <2>1 DEF FiledAt
    <3>3. \A p \in Procs : G[u] = Ptodo(p) =>
            /\ K.txn[u].kind = "oneway" => L.txn[u] = K.txn[u]
            /\ L.txn[u].from \in {K.txn[u].from, NoThread}
            /\ K.txn[u].to_thread = NoThread => L.txn[u].to_thread = NoThread
      BY <1>1, <1>2, <1>4
    <3>4. ASSUME NEW g \in Threads, G[u] = Todo(g)
          PROVE  /\ g \in S
                 /\ K.txn[u].kind = "oneway" => L.txn[u] = K.txn[u]
                 /\ K.txn[u].kind = "call" =>
                      /\ L.txn[u].to_thread = g /\ L.stack[g] \in Out(L, g) \ {u}
                      /\ Anc(Parents(L), L.stack[g], u)
      <4>1. g \in S
        BY <2>1, <3>1, <3>4 DEF FiledAt
      <4>2. K.txn[u].kind = "oneway" => L.txn[u] = K.txn[u]
        BY <1>2, <1>4
      <4>3. ASSUME K.txn[u].kind = "call"
            PROVE  /\ L.txn[u].to_thread = g /\ L.stack[g] \in Out(L, g) \ {u}
                   /\ Anc(Parents(L), L.stack[g], u)
        <5>1. /\ K.txn[u].to_thread = g /\ K.stack[g] \in Out(K, g) \ {u}
              /\ Anc(P, K.stack[g], u)
          BY <2>1, <3>4, <4>3 DEF FiledAt
        <5> QED BY <1>2, <1>3, <1>7, <1>9, <4>1, <5>1
      <4> QED BY <4>1, <4>2, <4>3
    <3>5. L.txn[u].kind = K.txn[u].kind
      BY <1>2
    <3>6. \A g \in Threads : H[u] = Todo(g) =>
            /\ g \in S /\ (L.txn[u].kind = "oneway" => L.txn[u].to_proc = ProcOf[g])
            /\ L.txn[u].kind = "call" =>
                 /\ L.txn[u].to_thread = g /\ L.stack[g] \in Out(L, g) \ {u}
                 /\ Anc(Parents(L), L.stack[g], u)
      BY <2>1, <3>1, <3>4, <3>5 DEF FiledAt
    <3>7. \A p \in Procs : H[u] = Ptodo(p) =>
            /\ p \in R /\ L.txn[u].kind \in {"call", "oneway"}
            /\ L.txn[u].kind = "oneway" => L.txn[u].to_proc = p
            /\ L.txn[u].kind = "call" =>
                 /\ L.txn[u].to_thread = NoThread
                 /\ L.txn[u].from # NoThread => ProcOf[L.txn[u].from] # p
      BY <2>1, <3>1, <3>3, <3>5 DEF FiledAt
    <3>8. \A p \in Procs : H[u] = Async(p) =>
            p \in R /\ L.txn[u].kind = "oneway" /\ L.txn[u].to_proc = p
      BY <2>1, <3>1, <3>2 DEF FiledAt
    <3>9. /\ H[u] = Nowhere => L.txn[u].kind \in {"free", "call"}
          /\ H[u] # Nowhere => L.txn[u].kind # "free"
      BY <2>1, <3>1, <3>5 DEF FiledAt
    <3> QED BY <3>6, <3>7, <3>8, <3>9 DEF FiledAt
  <2> QED BY <2>2, <2>3
<1>15. Errors(L, S)
  <2>1. L.error = K.error /\ L.error2 = K.error2 /\ L.bug = K.bug
    BY DEF Leaves
  <2> QED BY <1>7, <1>9, <2>1 DEF Good, Errors
<1>16. Serial(L, R, H)
  <2>1. L.held = K.held /\ L.has_async = K.has_async
    BY DEF Leaves
  <2>2. ASSUME NEW p \in R, NEW u \in Txns
        PROVE  /\ u \in OutTo(L, H, p) => u \in OutTo(K, G, p)
               /\ u \in OutTo(K, G, p) /\ G[u] # Todo(h) => u \in OutTo(L, H, p)
    <3>1. CASE K.txn[u].kind = "oneway"
      <4>1. L.txn[u] = K.txn[u] /\ u \notin In(K, G, h)
        BY <1>2, <1>4, <3>1 DEF Own
      <4>2. CASE G[u] = Todo(h)
        BY <1>6, <4>2 DEF OutTo
      <4>3. CASE G[u] # Todo(h)
        <5>1. H[u] = G[u]
          BY <1>6, <4>1, <4>3
        <5> QED BY <4>1, <5>1 DEF OutTo
      <4> QED BY <4>2, <4>3
    <3>2. CASE K.txn[u].kind # "oneway"
      BY <1>2, <3>2 DEF OutTo
    <3> QED BY <3>1, <3>2
  <2>3. ASSUME NEW p \in R, NEW u \in OutTo(K, G, p), G[u] = Todo(h)
        PROVE  p = ProcOf[h] /\ AsyncExit
    <3>1. u \in Txns /\ K.txn[u].kind = "oneway" /\ K.txn[u].to_proc = p
      BY <2>3 DEF OutTo
    <3>2. p = ProcOf[h]
      BY <1>1, <2>3, <3>1 DEF Good, Filed, FiledAt
    <3> QED BY <2>3, <3>1, <3>2 DEF NoneLost
  <2>4. ASSUME NEW p \in R, NEW u \in Txns, H[u] = Async(p) PROVE G[u] = Async(p)
    BY <1>6, <2>4, WhereFacts
  <2>5. ASSUME NEW p \in R PROVE SerialAt(L, H, p)
    <3>1. SerialAt(K, G, p)
      BY DEF Good, Serial
    <3>2. OutTo(L, H, p) \subseteq OutTo(K, G, p)
      BY <2>2 DEF OutTo
    <3>3. ~ AsyncExit /\ OutTo(K, G, p) # {} => OutTo(L, H, p) # {}
      BY <2>2, <2>3 DEF OutTo
    <3> QED BY <2>1, <2>4, <3>1, <3>2, <3>3 DEF SerialAt
  <2> QED BY <2>5 DEF Serial
<1>17. Typed(L, S, R, H)
  BY <1>1, <1>5 DEF Typed
<1> QED BY <1>10, <1>11, <1>12, <1>13, <1>14, <1>15, <1>16, <1>17 DEF Good

(* What it has left when it comes to t.                                    *)
Done(K, G, h, t) ==
  IF t = NoTxn THEN Own(K, G, h)
  ELSE {u \in Own(K, G, h) : ~ Anc(Parents(K), u, t)}

LEMMA DoneNext ==
  ASSUME NEW K, NEW T, NEW R, NEW G, Good(K, T, R, G), NEW h \in T,
         NEW t \in Own(K, G, h), NEW n,
         n = IF K.txn[t].to_thread = h THEN K.txn[t].to_parent
             ELSE K.txn[t].from_parent
  PROVE  /\ n \in Own(K, G, h) \cup {NoTxn}
         /\ Done(K, G, h, n) = Done(K, G, h, t) \cup {t}
         /\ t \in Txns /\ t \notin Done(K, G, h, t)
         /\ K.txn[t].to_thread # h => K.txn[t].from = h
<1> DEFINE P == Parents(K)
           O == Own(K, G, h)
<1>1. /\ K \in Kernel /\ P \in PFun /\ \A u \in Txns : P[u] = K.txn[u].from_parent
  BY ParentsType DEF Good, Typed
<1>2. Acyclic(P)
  BY DEF Good, Links
<1>3. t \in Txns /\ O \subseteq Txns /\ t # NoTxn
  BY OwnTxns, BinderAssumption
<1>4. Done(K, G, h, t) = {u \in O : ~ Anc(P, u, t)}
  BY <1>3 DEF Done
<1>5. Anc(P, t, t)
  BY <1>1, <1>3, AncSelf
<1>6. CASE K.txn[t].to_thread = h
  <2>1. t \in In(K, G, h)
    BY <1>6, OutNotIn DEF Own
  <2>2. /\ n = NoTxn => \A u \in O : Anc(P, t, u)
        /\ n # NoTxn => /\ n \in Out(K, h) /\ Anc(P, n, t)
                        /\ \A u \in O : Anc(P, t, u) \/ Anc(P, u, n)
    BY <1>6, <2>1 DEF Good, Unders, UnderAt
  <2> HIDE DEF P
  <2>3. CASE n = NoTxn
    <3>1. \A u \in O : Anc(P, u, t) => u = t
      BY <1>2, <1>3, <2>2, <2>3 DEF Acyclic
    <3>2. Done(K, G, h, n) = O
      BY <2>3 DEF Done
    <3> QED BY <1>3, <1>4, <1>5, <1>6, <2>3, <3>1, <3>2
  <2>4. CASE n # NoTxn
    <3>1. n \in O /\ n \in Txns /\ n # t /\ Anc(P, n, t)
      BY <2>1, <2>2, <2>4, OutNotIn, OwnTxns
    <3>2. ASSUME NEW u \in O PROVE Anc(P, u, n) <=> Anc(P, u, t) /\ u # t
      <4>1. Anc(P, u, n) => Anc(P, u, t)
        BY <1>1, <1>3, <3>1, AncTrans
      <4>2. ~ Anc(P, t, n)
        BY <1>2, <1>3, <3>1 DEF Acyclic
      <4>3. Anc(P, u, t) /\ Anc(P, t, u) => u = t
        BY <1>2, <1>3 DEF Acyclic
      <4>4. Anc(P, t, u) \/ Anc(P, u, n)
        BY <2>2, <2>4
      <4> QED BY <4>1, <4>2, <4>3, <4>4
    <3>3. Done(K, G, h, n) = {u \in O : ~ Anc(P, u, n)}
      BY <2>4 DEF Done, P
    <3>4. {u \in O : ~ Anc(P, u, n)} = {u \in O : ~ Anc(P, u, t)} \cup {t}
      BY <3>2
    <3> QED BY <1>3, <1>4, <1>5, <1>6, <3>1, <3>3, <3>4
  <2> QED BY <2>3, <2>4
<1>7. CASE K.txn[t].to_thread # h
  <2>1. t \notin In(K, G, h) /\ t \in Out(K, h)
    BY <1>7 DEF Own, In
  <2>2. K.txn[t].from = h /\ K.txn[t].kind = "call"
    BY <2>1 DEF Out
  <2>3. n = P[t] /\ n = K.txn[t].from_parent
    BY <1>1, <1>3, <1>7
  <2>4. n # NoTxn => n \in Txns /\ n \in In(K, G, h)
    <3> SUFFICES ASSUME n # NoTxn PROVE n \in Txns /\ n \in In(K, G, h)
      OBVIOUS
    <3>1. n \in Txns
      BY <1>1, <1>3, <2>3 DEF PFun
    <3>2. K.txn[n].kind = "call" /\ G[n] = Nowhere /\ K.txn[n].to_thread = h
      BY <1>3, <2>2, <2>3 DEF Good, Links
    <3> QED BY <3>1, <3>2 DEF In
  <2> HIDE DEF P
  <2>5. ASSUME NEW u \in O, Anc(P, u, t), u # t PROVE n # NoTxn /\ Anc(P, u, n)
    BY <1>1, <1>3, <2>3, <2>5, AncUp, BinderAssumption
  <2>6. CASE n = NoTxn
    <3>1. Done(K, G, h, n) = O
      BY <2>6 DEF Done
    <3> QED BY <1>3, <1>4, <1>5, <1>7, <2>2, <2>5, <2>6, <3>1
  <2>7. CASE n # NoTxn
    <3>1. n \in O /\ n \in Txns /\ n # t /\ Anc(P, n, t)
      BY <1>1, <1>3, <2>1, <2>3, <2>4, <2>7, AncParent, OwnTxns
    <3>2. ASSUME NEW u \in O PROVE Anc(P, u, n) <=> Anc(P, u, t) /\ u # t
      <4>1. Anc(P, u, n) => Anc(P, u, t)
        BY <1>1, <1>3, <3>1, AncTrans
      <4>2. ~ Anc(P, t, n)
        BY <1>2, <1>3, <3>1 DEF Acyclic
      <4> QED BY <2>5, <4>1, <4>2
    <3>3. Done(K, G, h, n) = {u \in O : ~ Anc(P, u, n)}
      BY <2>7 DEF Done, P
    <3>4. {u \in O : ~ Anc(P, u, n)} = {u \in O : ~ Anc(P, u, t)} \cup {t}
      BY <3>2
    <3> QED BY <1>3, <1>4, <1>5, <1>7, <2>2, <3>1, <3>3, <3>4
  <2> QED BY <2>6, <2>7
<1> QED BY <1>6, <1>7

LEMMA LeaveOne ==
  ASSUME NEW K, NEW T, NEW R, NEW G, Good(K, T, R, G), NEW h \in T,
         NEW x \in FailStates, x.t \in Own(K, G, h),
         Leaves(K, x.K, h, Done(K, G, h, x.t)),
         NEW y, y = LeaveTransaction(x, h)
  PROVE  /\ y.t \in Own(K, G, h) \cup {NoTxn}
         /\ Leaves(K, y.K, h, Done(K, G, h, y.t))
         /\ Done(K, G, h, y.t) = Done(K, G, h, x.t) \cup {x.t}
         /\ x.t \notin Done(K, G, h, x.t)
<1>1. PICK t \in Own(K, G, h) : t = x.t
  OBVIOUS
<1>2. PICK M \in Kernel : M = x.K
  BY DEF FailStates
<1>3. PICK n : n = IF K.txn[t].to_thread = h THEN K.txn[t].to_parent
                   ELSE K.txn[t].from_parent
  OBVIOUS
<1>4. PICK D : D = Done(K, G, h, t)
  OBVIOUS
<1>5. /\ n \in Own(K, G, h) \cup {NoTxn} /\ Done(K, G, h, n) = D \cup {t}
      /\ t \in Txns /\ t \notin D
      /\ K.txn[t].to_thread # h => K.txn[t].from = h
  BY <1>3, <1>4, DoneNext
<1>6. M.txn[t] = K.txn[t] /\ K.txn[t] \in TxnRecs /\ t # NoTxn
  BY <1>1, <1>2, <1>4, <1>5, BinderAssumption DEF Leaves, LeftTxn, Good, Typed, Kernel
<1>7. PICK q \in TxnRecs :
        q = IF K.txn[t].to_thread = h
              THEN [K.txn[t] EXCEPT !.to_proc = NoThread, !.to_thread = NoThread]
              ELSE [K.txn[t] EXCEPT !.from = NoThread]
  BY <1>6 DEF TxnRecs
<1>8. PICK L : L = [M EXCEPT !.txn[t] = q]
  OBVIOUS
<1>9. y = [K |-> L, t |-> n]
  <2>1. CASE K.txn[t].to_thread = h
    <3>1. L = [M EXCEPT !.txn[t].to_proc = NoThread, !.txn[t].to_thread = NoThread]
      BY <1>5, <1>6, <1>7, <1>8, <2>1 DEF Kernel, TxnRecs
    <3> QED BY <1>1, <1>2, <1>3, <1>6, <2>1, <3>1 DEF LeaveTransaction
  <2>2. CASE K.txn[t].to_thread # h
    <3>1. L = [M EXCEPT !.txn[t].from = NoThread]
      BY <1>5, <1>6, <1>7, <1>8, <2>2 DEF Kernel, TxnRecs
    <3> QED BY <1>1, <1>2, <1>3, <1>5, <1>6, <2>2, <3>1 DEF LeaveTransaction
  <2> QED BY <2>1, <2>2
<1>10. SetsTxn(M, L, t, q)
  BY <1>5, <1>8, SetTxn
<1>11. LeftTxn(q, K.txn[t], h, TRUE)
  <2>1. CASE K.txn[t].to_thread = h
    <3>1. K.txn[t].from # h
      <4>1. t \notin Out(K, h)
        BY <2>1, OutNotIn
      <4> QED BY <4>1 DEF Own, Out, In
    <3> QED BY <1>6, <1>7, <2>1, <3>1 DEF LeftTxn, TxnRecs
  <2>2. CASE K.txn[t].to_thread # h
    BY <1>5, <1>6, <1>7, <2>2 DEF LeftTxn, TxnRecs
  <2> QED BY <2>1, <2>2
<1>12. \A u \in Txns : LeftTxn(L.txn[u], K.txn[u], h, u \in D \cup {t})
  <2> SUFFICES ASSUME NEW u \in Txns
               PROVE  LeftTxn(L.txn[u], K.txn[u], h, u \in D \cup {t})
    OBVIOUS
  <2>1. CASE u = t
    <3>1. L.txn[u] = q /\ K.txn[u] = K.txn[t] /\ u \in D \cup {t}
      BY <1>10, <2>1 DEF SetsTxn
    <3> QED BY <1>11, <3>1 DEF LeftTxn
  <2>2. CASE u # t
    <3>1. L.txn[u] = M.txn[u] /\ LeftTxn(M.txn[u], K.txn[u], h, u \in D)
      BY <1>1, <1>2, <1>4, <1>10, <2>2 DEF SetsTxn, Leaves
    <3>2. u \in D \cup {t} <=> u \in D
      BY <2>2
    <3> QED BY <3>1, <3>2 DEF LeftTxn
  <2> QED BY <2>1, <2>2
<1>13. Leaves(K, L, h, D \cup {t})
  <2>1. Leaves(K, M, h, D)
    BY <1>1, <1>2, <1>4
  <2> QED BY <1>10, <1>12, <2>1 DEF Leaves, SetsTxn
<1> QED BY <1>1, <1>4, <1>5, <1>9, <1>13

LEMMA LeaveAllLeaves ==
  ASSUME NEW K, NEW T, NEW R, NEW G, Good(K, T, R, G), NEW h \in T
  PROVE  Leaves(K, LeaveAll(K, h), h, Own(K, G, h))
<1>1. K \in Kernel /\ h \in Threads
  BY DEF Good, Typed
<1>2. PICK N \in Nat : N = Cardinality(Txns)
  BY FS_CardinalityType, BinderAssumption
<1>3. PICK t \in Txns \cup {NoTxn} : t = K.stack[h]
  BY <1>1 DEF Kernel
<1>4. PICK f : LeaveTurns(f, K, t, h, N) /\ LeaveAll(K, h) = f[N].K
  BY <1>1, <1>2, <1>3, LeaveUnfold
<1> DEFINE D(n) == Done(K, G, h, f[n].t)
           J == {n \in 0 .. N :
                   /\ f[n] \in FailStates /\ f[n].t \in Own(K, G, h) \cup {NoTxn}
                   /\ Leaves(K, f[n].K, h, D(n))
                   /\ f[n].t # NoTxn => Cardinality(D(n)) = n}
<1>5. \A u : IsFiniteSet(Done(K, G, h, u)) /\ Done(K, G, h, u) \subseteq Txns
  <2>1. \A u : Done(K, G, h, u) \subseteq Txns
    BY OwnTxns DEF Done
  <2> QED BY <2>1, BinderAssumption, FS_Subset
<1>6. 0 \in J
  <2>1. f[0] = [K |-> K, t |-> t]
    BY <1>4 DEF LeaveTurns
  <2>2. f[0] \in FailStates
    BY <1>1, <2>1 DEF FailStates
  <2>3. TopAt(K, G, h)
    BY DEF Good, Tops
  <2>4. t \in Own(K, G, h) \cup {NoTxn} /\ Done(K, G, h, t) = {}
    BY <1>3, <2>3 DEF TopAt, Done
  <2>5. Leaves(K, K, h, {})
    BY <1>1 DEF Leaves, LeftTxn
  <2> QED BY <2>1, <2>2, <2>4, <2>5, FS_EmptySet
<1>7. ASSUME NEW n \in 0 .. N - 1, n \in J PROVE n + 1 \in J
  <2>1. n + 1 \in 0 .. N /\ n + 1 # 0 /\ (n + 1) - 1 = n
    OBVIOUS
  <2>2. PICK x \in FailStates : x = f[n]
    BY <1>7
  <2>3. PICK y : y = LeaveTransaction(x, h)
    OBVIOUS
  <2>4. f[n + 1] = y
    BY <1>4, <2>1, <2>2, <2>3 DEF LeaveTurns
  <2>5. y \in FailStates
    BY <1>1, <2>3, LeaveKeeps
  <2>6. CASE x.t = NoTxn
    <3>1. y = x
      BY <2>3, <2>6 DEF LeaveTransaction
    <3> QED BY <1>7, <2>1, <2>2, <2>4, <2>6, <3>1
  <2>7. CASE x.t # NoTxn
    <3>1. /\ x.t \in Own(K, G, h) /\ Leaves(K, x.K, h, Done(K, G, h, x.t))
          /\ Cardinality(Done(K, G, h, x.t)) = n
      BY <1>7, <2>2, <2>7
    <3>2. /\ y.t \in Own(K, G, h) \cup {NoTxn}
          /\ Leaves(K, y.K, h, Done(K, G, h, y.t))
          /\ Done(K, G, h, y.t) = Done(K, G, h, x.t) \cup {x.t}
          /\ x.t \notin Done(K, G, h, x.t)
      BY <2>3, <3>1, LeaveOne
    <3>3. Cardinality(Done(K, G, h, y.t)) = n + 1
      BY <1>5, <3>1, <3>2, FS_AddElement
    <3> QED BY <2>1, <2>4, <2>5, <3>2, <3>3
  <2> QED BY <2>6, <2>7
<1> HIDE DEF J
<1>8. N \in J
  BY <1>6, <1>7, Turns
<1>9. f[N].t = NoTxn
  <2> SUFFICES ASSUME f[N].t # NoTxn PROVE FALSE
    OBVIOUS
  <2>1. PICK u \in Own(K, G, h) : u = f[N].t
    BY <1>8 DEF J
  <2>2. Cardinality(D(N)) = N /\ u \in Txns
    BY <1>8, <2>1, OwnTxns DEF J
  <2>3. u \notin D(N)
    BY <2>1, DoneNext
  <2>4. D(N) = Txns
    <3>1. D(N) \subseteq Txns
      BY <1>5
    <3> HIDE DEF D
    <3> QED BY <1>2, <2>2, <3>1, BinderAssumption, FS_Subset
  <2> QED BY <2>2, <2>3, <2>4
<1>10. Leaves(K, f[N].K, h, Done(K, G, h, NoTxn))
  BY <1>8, <1>9 DEF J
<1> QED BY <1>4, <1>10 DEF Done

-----------------------------------------------------------------------------
(* What the walks do not touch: the lists, who is alive, the one-way calls *)
(* and empty stacks.                                                       *)

Spares(K, L) ==
  /\ L.todo = K.todo /\ L.ptodo = K.ptodo /\ L.async_todo = K.async_todo
  /\ L.live = K.live /\ L.procs = K.procs
  /\ L.has_async = K.has_async /\ L.held = K.held
  /\ \A h \in Threads : K.stack[h] = NoTxn => L.stack[h] = NoTxn

LEMMA SparesSelf ==
  ASSUME NEW K
  PROVE  Spares(K, K)
BY DEF Spares

LEMMA SparesTrans ==
  ASSUME NEW K, NEW L, NEW M, Spares(K, L), Spares(L, M)
  PROVE  Spares(K, M)
BY DEF Spares

(* What a thread will be told: the calls it waits for, the replies on its  *)
(* list, and its error codes.                                              *)
Replies(K, G, h) == {t \in Txns : K.txn[t].kind = "reply" /\ G[t] = Todo(h)}

(* The answers a thread is yet to read.                                    *)
Due(K, G, h) ==
  Cardinality(Out(K, h)) + Cardinality(Replies(K, G, h))
    + Answer(K.error[h]) + Answer(K.error2[h])

LEMMA AnswersValue ==
  ASSUME NEW K, NEW h
  PROVE  Answers(K, h) = Answer(K.error[h]) + Answer(K.error2[h])
BY DEF Answers

LEMMA DueType ==
  ASSUME NEW K, NEW G, NEW h
  PROVE  /\ Cardinality(Out(K, h)) \in Nat /\ Cardinality(Replies(K, G, h)) \in Nat
         /\ IsFiniteSet(Out(K, h)) /\ IsFiniteSet(Replies(K, G, h))
         /\ \A code : Answer(code) \in Nat
         /\ Due(K, G, h) \in Nat
<1>1. Out(K, h) \in SUBSET Txns /\ Replies(K, G, h) \in SUBSET Txns
  BY DEF Out, Replies
<1>2. IsFiniteSet(Out(K, h)) /\ IsFiniteSet(Replies(K, G, h))
  BY <1>1, BinderAssumption, FS_Subset
<1>3. Cardinality(Out(K, h)) \in Nat /\ Cardinality(Replies(K, G, h)) \in Nat
  BY <1>2, FS_CardinalityType
<1>4. \A code : Answer(code) \in Nat
  BY DEF Answer
<1> QED BY <1>2, <1>3, <1>4 DEF Due

LEMMA DueSame ==
  ASSUME NEW K, NEW L, NEW G, NEW H, NEW h,
         Out(L, h) = Out(K, h), Replies(L, H, h) = Replies(K, G, h),
         L.error[h] = K.error[h], L.error2[h] = K.error2[h]
  PROVE  Due(L, H, h) = Due(K, G, h)
BY DEF Due

-----------------------------------------------------------------------------
(* binder_send_failed_reply.                                               *)

(* The caller is told: its first error makes room.                         *)
Tells(K, L, t, h, code) ==
  /\ Pops(K, L, t, h) /\ Spares(K, L)
  /\ L.error[h] = code
  /\ Answer(L.error2[h]) = Answer(K.error[h]) + Answer(K.error2[h])

LEMMA TellCaller ==
  ASSUME NEW K \in Kernel, NEW t \in Txns, NEW h \in Threads,
         NEW code \in {"DEAD", "FAILED"},
         K.error2[h] = "OK", K.stack[h] = t, K.txn[t].from = h, ~ K.bug,
         NEW x, x = [K |-> K, t |-> t], NEW y, y = FailOne(x, code)
  PROVE  y.t = NoTxn /\ Tells(K, y.K, t, h, code)
<1>1. t # NoTxn /\ h # NoThread /\ code \in Codes
  BY BinderAssumption DEF Codes
<1>2. PICK L : L = MoveError(K, h)
  OBVIOUS
<1>3. /\ L \in Kernel /\ L.error[h] = "OK"
      /\ Answer(L.error2[h]) = Answer(K.error[h]) + Answer(K.error2[h])
      /\ \A g \in Threads \ {h} : L.error[g] = K.error[g] /\ L.error2[g] = K.error2[g]
      /\ L.txn = K.txn /\ L.stack = K.stack /\ L.bug = K.bug /\ Spares(K, L)
  <2>1. L \in Kernel
    BY <1>2, MoveErrorKeeps
  <2>2. CASE K.error[h] # "OK"
    <3>1. L = [K EXCEPT !.error2[h] = K.error[h], !.error[h] = "OK"]
      BY <1>2, <2>2 DEF MoveError
    <3>2. L.error[h] = "OK" /\ L.error2[h] = K.error[h]
      BY <3>1 DEF Kernel
    <3>3. /\ \A g \in Threads \ {h} : L.error[g] = K.error[g] /\ L.error2[g] = K.error2[g]
          /\ L.txn = K.txn /\ L.stack = K.stack /\ L.bug = K.bug
      BY <3>1 DEF Kernel
    <3>4. Spares(K, L)
      BY <3>1 DEF Kernel, Spares
    <3>5. Answer(L.error2[h]) = Answer(K.error[h]) + Answer(K.error2[h])
      BY <3>2 DEF Answer
    <3> QED BY <2>1, <3>2, <3>3, <3>4, <3>5
  <2>3. CASE K.error[h] = "OK"
    <3>1. L = K
      BY <1>2, <2>3 DEF MoveError
    <3>2. Answer(K.error2[h]) = Answer(K.error[h]) + Answer(K.error2[h])
      BY <2>3 DEF Answer
    <3> QED BY <2>1, <2>3, <3>1, <3>2, SparesSelf
  <2> QED BY <2>2, <2>3
<1>4. PICK n \in Txns \cup {NoTxn} : n = K.txn[t].from_parent
  BY DEF Kernel, TxnRecs
<1>5. PICK M : M = [L EXCEPT !.stack[h] = n]
  OBVIOUS
<1>6. M \in Kernel
  BY <1>3, <1>5 DEF Kernel
<1>7. /\ M.stack[h] = n /\ \A g \in Threads \ {h} : M.stack[g] = L.stack[g]
      /\ M.txn = L.txn /\ M.error = L.error /\ M.error2 = L.error2 /\ M.bug = L.bug
      /\ M.todo = L.todo /\ M.ptodo = L.ptodo /\ M.async_todo = L.async_todo
      /\ M.live = L.live /\ M.procs = L.procs
      /\ M.has_async = L.has_async /\ M.held = L.held
  BY <1>3, <1>5 DEF Kernel
<1>8. PICK N : N = [M EXCEPT !.txn[t] = NoTransaction]
  OBVIOUS
<1>9. SetsTxn(M, N, t, NoTransaction)
  BY <1>6, <1>8, SetTxn, NoTransactionType
<1>10. binder_pop_transaction(L, h, t) = N
  <2>1. (L.bug \/ L.stack[h] # t \/ L.txn[t].from # h) = L.bug
    <3>1. L.bug = FALSE /\ L.stack[h] = t /\ L.txn[t].from = h
      BY <1>3 DEF Kernel
    <3> QED BY <3>1
  <2>2. [L EXCEPT !.stack[h] = L.txn[t].from_parent,
                  !.bug = @ \/ L.stack[h] # t \/ L.txn[t].from # h] = M
    <3>1. [L EXCEPT !.stack[h] = n, !.bug = L.bug] = [L EXCEPT !.stack[h] = n]
      BY <1>3 DEF Kernel
    <3> QED BY <1>3, <1>4, <1>5, <2>1, <3>1
  <2> QED BY <1>1, <1>8, <2>2 DEF binder_pop_transaction
<1>11. PICK O : O = [N EXCEPT !.error[h] = code]
  OBVIOUS
<1>12. N \in Kernel
  BY <1>9 DEF SetsTxn
<1>13. /\ O.error[h] = code /\ \A g \in Threads \ {h} : O.error[g] = N.error[g]
       /\ O.stack = N.stack /\ O.txn = N.txn /\ O.error2 = N.error2 /\ O.bug = N.bug
       /\ O.todo = N.todo /\ O.ptodo = N.ptodo /\ O.async_todo = N.async_todo
       /\ O.live = N.live /\ O.procs = N.procs
       /\ O.has_async = N.has_async /\ O.held = N.held /\ O \in Kernel
  <2>1. O \in Kernel
    BY <1>1, <1>11, <1>12 DEF Kernel
  <2> QED BY <1>1, <1>11, <1>12, <2>1 DEF Kernel
<1>14. PICK Z : Z = wake_thread(O, h)
  OBVIOUS
<1>15. /\ Z \in Kernel
       /\ Z.error = O.error /\ Z.stack = O.stack /\ Z.txn = O.txn
       /\ Z.error2 = O.error2 /\ Z.bug = O.bug
       /\ Z.todo = O.todo /\ Z.ptodo = O.ptodo /\ Z.async_todo = O.async_todo
       /\ Z.live = O.live /\ Z.procs = O.procs
       /\ Z.has_async = O.has_async /\ Z.held = O.held
  <2>1. Z = [O EXCEPT !.waits = O.waits \ {h}]
    BY <1>14 DEF wake_thread
  <2>2. Z \in Kernel
    BY <1>13, <2>1 DEF Kernel
  <2> QED BY <1>13, <2>1, <2>2 DEF Kernel
<1>16. y = [K |-> Z, t |-> NoTxn]
  BY <1>1, <1>2, <1>3, <1>10, <1>11, <1>14 DEF FailOne
<1>17. y.t = NoTxn /\ y.K = Z
  BY <1>16
<1>18. Pops(K, Z, t, h)
  <2>1. Z.txn[t] = NoTransaction /\ \A u \in Txns \ {t} : Z.txn[u] = K.txn[u]
    BY <1>3, <1>7, <1>9, <1>13, <1>15 DEF SetsTxn
  <2>2. Z.stack[h] = n /\ \A g \in Threads \ {h} : Z.stack[g] = K.stack[g]
    BY <1>3, <1>7, <1>9, <1>13, <1>15 DEF SetsTxn
  <2>3. \A g \in Threads \ {h} : Z.error[g] = K.error[g] /\ Z.error2[g] = K.error2[g]
    BY <1>3, <1>7, <1>9, <1>13, <1>15 DEF SetsTxn
  <2>4. Z.error[h] # "OK"
    BY <1>13, <1>15
  <2>5. Z.has_async = K.has_async /\ Z.held = K.held /\ Z.bug = K.bug
    BY <1>3, <1>7, <1>9, <1>13, <1>15 DEF SetsTxn, Spares
  <2> QED BY <1>4, <1>15, <2>1, <2>2, <2>3, <2>4, <2>5 DEF Pops
<1>19. Spares(K, Z)
  <2>1. /\ Z.todo = K.todo /\ Z.ptodo = K.ptodo /\ Z.async_todo = K.async_todo
        /\ Z.live = K.live /\ Z.procs = K.procs
        /\ Z.has_async = K.has_async /\ Z.held = K.held
    BY <1>3, <1>7, <1>9, <1>13, <1>15 DEF SetsTxn, Spares
  <2>2. \A g \in Threads : K.stack[g] = NoTxn => Z.stack[g] = NoTxn
    BY <1>1, <1>18 DEF Pops
  <2> QED BY <2>1, <2>2 DEF Spares
<1>20. Z.error[h] = code /\ Answer(Z.error2[h]) = Answer(K.error[h]) + Answer(K.error2[h])
  BY <1>3, <1>7, <1>9, <1>13, <1>15 DEF SetsTxn
<1> QED BY <1>17, <1>18, <1>19, <1>20 DEF Tells

InUses(K) == {u \in Txns : K.txn[u].kind # "free"}

LimboAt(H, t) == [u \in Txns |-> IF u = t THEN Limbo ELSE H[u]]

(* One call is left to be freed, or none.                                  *)
Failing(w, T, R, H) ==
  /\ w \in FailStates
  /\ w.t = NoTxn => Good(w.K, T, R, H)
  /\ w.t # NoTxn => /\ w.K.txn[w.t].kind = "call" /\ H[w.t] = Nowhere
                    /\ Good(w.K, T, R, LimboAt(H, w.t))

FailedOne(x, y, T, R, H) ==
  /\ Failing(y, T, R, H) /\ Spares(x.K, y.K)
  /\ InUses(y.K) = InUses(x.K) \ {x.t} /\ x.t \in InUses(x.K)
  /\ \A g \in T : Due(y.K, H, g) = Due(x.K, H, g)

LEMMA FailOneGood ==
  ASSUME NEW T, NEW R, NEW H \in [Txns -> Wheres], NEW x, Failing(x, T, R, H),
         x.t # NoTxn, NEW code \in {"DEAD", "FAILED"},
         NEW y, y = FailOne(x, code)
  PROVE  FailedOne(x, y, T, R, H)
<1>1. PICK K \in Kernel : K = x.K
  BY DEF Failing, FailStates
<1>2. PICK t \in Txns : t = x.t
  BY DEF Failing, FailStates
<1>3. x = [K |-> K, t |-> t]
  BY <1>1, <1>2 DEF Failing, FailStates
<1>4. PICK G : G = LimboAt(H, t)
  OBVIOUS
<1>5. /\ K.txn[t].kind = "call" /\ H[t] = Nowhere /\ Good(K, T, R, G)
      /\ G[t] = Limbo /\ \A u \in Txns \ {t} : G[u] = H[u]
  BY <1>1, <1>2, <1>4 DEF Failing, LimboAt
<1>6. y \in FailStates
  BY <1>3, FailOneKeeps DEF Failing, Codes
<1>7. PICK h \in T \cup {NoThread} : h = K.txn[t].from
  BY <1>5 DEF Good, Ends, EndsAt
<1>8. T \in SUBSET Threads /\ ~ K.bug
  BY <1>5 DEF Good, Typed, Errors
<1>9. t \in InUses(K)
  BY <1>5 DEF InUses
<1>10. \A g \in T : Replies(K, H, g) = Replies(K, G, g) /\ t \notin Replies(K, H, g)
  BY <1>5 DEF Replies
<1>11. CASE h = NoThread
  <2>1. PICK n \in Txns \cup {NoTxn} : n = K.txn[t].from_parent
    BY DEF Kernel, TxnRecs
  <2>2. PICK L : L = [K EXCEPT !.txn[t] = NoTransaction]
    OBVIOUS
  <2>3. SetsTxn(K, L, t, NoTransaction)
    BY <2>2, SetTxn, NoTransactionType
  <2>4. y = [K |-> L, t |-> n]
    <3>1. t # NoTxn
      BY BinderAssumption
    <3> QED BY <1>3, <1>7, <1>11, <2>1, <2>2, <3>1 DEF FailOne, binder_pop_transaction
  <2>5. y.K = L /\ y.t = n
    BY <2>4
  <2>6. PICK J : J = PassedOn(G, t, n)
    OBVIOUS
  <2>7. /\ Good(L, T, R, J)
        /\ n # NoTxn => n \in Txns \ {t} /\ L.txn[n].kind = "call" /\ J[n] = Limbo
                        /\ G[n] = Nowhere
    <3>1. /\ Good(K, T, R, G) /\ K.txn[t].kind = "call" /\ G[t] = Limbo
          /\ K.txn[t].from = NoThread /\ n = K.txn[t].from_parent
          /\ SetsTxn(K, L, t, NoTransaction) /\ J = PassedOn(G, t, n)
      BY <1>5, <1>7, <1>11, <2>1, <2>3, <2>6
    <3>2. Good(L, T, R, J) /\ Passed(L, G, J, t, n)
      BY <3>1, DropOrphan
    <3> QED BY <3>2 DEF Passed
  <2>8. Failing(y, T, R, H)
    <3>1. CASE n = NoTxn
      <4>1. J = H
        BY <1>5, <2>6, <3>1, BinderAssumption DEF PassedOn
      <4> QED BY <1>6, <2>5, <2>7, <3>1, <4>1 DEF Failing
    <3>2. CASE n # NoTxn
      <4>1. J = LimboAt(H, n)
        BY <1>5, <2>6, <2>7, <3>2 DEF PassedOn, LimboAt
      <4>2. H[n] = Nowhere
        BY <1>5, <2>7, <3>2
      <4> QED BY <1>6, <2>5, <2>7, <3>2, <4>1, <4>2 DEF Failing
    <3> QED BY <3>1, <3>2
  <2>9. L.txn[t].kind = "free" /\ \A u \in Txns \ {t} : L.txn[u] = K.txn[u]
    BY <2>3, NoTransactionFacts DEF SetsTxn
  <2>10. InUses(L) = InUses(K) \ {t}
    BY <2>9 DEF InUses
  <2>11. ASSUME NEW g \in T PROVE Due(L, H, g) = Due(K, H, g)
    <3>1. g # NoThread
      BY <1>8, BinderAssumption
    <3>2. Out(L, g) = Out(K, g)
      BY <1>7, <1>11, <2>9, <3>1 DEF Out
    <3>3. Replies(L, H, g) = Replies(K, H, g)
      BY <1>5, <2>9 DEF Replies
    <3>4. L.error[g] = K.error[g] /\ L.error2[g] = K.error2[g]
      BY <2>3 DEF SetsTxn
    <3> QED BY <3>2, <3>3, <3>4, DueSame
  <2>12. Spares(K, L)
    BY <2>3 DEF SetsTxn, Spares
  <2> QED BY <1>1, <1>2, <1>9, <2>5, <2>8, <2>10, <2>11, <2>12 DEF FailedOne
<1>12. CASE h # NoThread
  <2>1. h \in T /\ h \in Threads /\ K.txn[t].from = h
    BY <1>7, <1>8, <1>12
  <2>2. t \in Out(K, h) /\ t \in Own(K, G, h)
    BY <1>5, <2>1 DEF Out, Own
  <2>3. K.stack[h] = t
    <3>1. Leaf(Parents(K), t)
      BY <1>5, FiledLeaf, WhereFacts
    <3> QED BY <1>5, <2>1, <2>2, <3>1, LeafOnTop
  <2>4. K.error2[h] = "OK"
    BY <1>5, <2>1, <2>2, <2>3 DEF Good, Errors
  <2>5. PICK L : L = y.K
    OBVIOUS
  <2>6. y.t = NoTxn /\ Tells(K, L, t, h, code)
    <3>1. /\ K.error2[h] = "OK" /\ K.stack[h] = t /\ K.txn[t].from = h /\ ~ K.bug
          /\ x = [K |-> K, t |-> t] /\ y = FailOne(x, code) /\ h \in Threads
      BY <1>3, <1>8, <2>1, <2>3, <2>4
    <3>2. y.t = NoTxn /\ Tells(K, y.K, t, h, code)
      BY <3>1, TellCaller
    <3> QED BY <2>5, <3>2
  <2>7. Pops(K, L, t, h) /\ Spares(K, L)
    BY <2>6 DEF Tells
  <2>8. H = [G EXCEPT ![t] = Nowhere]
    <3>1. G \in [Txns -> Wheres]
      BY <1>5 DEF Good, Typed
    <3> QED BY <1>5, <3>1
  <2>9. Good(L, T, R, H)
    BY <1>5, <2>1, <2>7, <2>8, PopCaller, ZenonT(60)
  <2>10. Failing(y, T, R, H)
    BY <1>6, <2>5, <2>6, <2>9 DEF Failing
  <2>11. L.txn[t].kind = "free" /\ \A u \in Txns \ {t} : L.txn[u] = K.txn[u]
    BY <2>7, NoTransactionFacts DEF Pops
  <2>12. InUses(L) = InUses(K) \ {t}
    BY <2>11 DEF InUses
  <2>13. ASSUME NEW g \in T, g # h PROVE Due(L, H, g) = Due(K, H, g)
    <3>1. g \in Threads \ {h}
      BY <1>8, <2>13
    <3>2. Out(L, g) = Out(K, g)
      BY <2>1, <2>11, <2>13 DEF Out
    <3>3. Replies(L, H, g) = Replies(K, H, g)
      BY <1>5, <2>11 DEF Replies
    <3>4. L.error[g] = K.error[g] /\ L.error2[g] = K.error2[g]
      BY <2>7, <3>1 DEF Pops
    <3> QED BY <3>2, <3>3, <3>4, DueSame
  <2>14. Due(L, H, h) = Due(K, H, h)
    <3>1. Out(L, h) = Out(K, h) \ {t}
      BY <2>11 DEF Out
    <3>2. Replies(L, H, h) = Replies(K, H, h)
      BY <1>5, <2>11 DEF Replies
    <3>3. Answer(L.error[h]) = 1 /\ Answer(L.error2[h]) = Answer(K.error[h]) + Answer(K.error2[h])
      BY <2>6 DEF Tells, Answer
    <3>4. PICK c \in Nat : c = Cardinality(Out(K, h)) /\ IsFiniteSet(Out(K, h))
      BY DueType
    <3>5. Cardinality(Out(L, h)) = c - 1
      BY <2>2, <3>1, <3>4, FS_RemoveElement, ZenonT(60)
    <3>6. PICK r \in Nat : r = Cardinality(Replies(K, H, h))
      BY DueType
    <3>7. Answer(K.error[h]) \in Nat /\ Answer(K.error2[h]) \in Nat
      BY DueType
    <3>8. Due(K, H, h) = c + r + Answer(K.error[h]) + Answer(K.error2[h])
      BY <3>4, <3>6 DEF Due
    <3>9. Due(L, H, h) = (c - 1) + r + 1 + (Answer(K.error[h]) + Answer(K.error2[h]))
      BY <3>2, <3>3, <3>5, <3>6 DEF Due
    <3> QED BY <3>4, <3>6, <3>7, <3>8, <3>9
  <2> QED BY <1>1, <1>2, <1>9, <2>5, <2>7, <2>10, <2>12, <2>13, <2>14 DEF FailedOne
<1> QED BY <1>11, <1>12

Drops(K, L, T, R, G, H) ==
  /\ Good(L, T, R, H) /\ Spares(K, L)
  /\ \A g \in T : Due(L, H, g) = Due(K, G, g)

LEMMA FailedReplyGood ==
  ASSUME NEW K, NEW T, NEW R, NEW G, Good(K, T, R, G), NEW t \in Txns,
         K.txn[t].kind = "call", G[t] = Limbo, NEW code \in {"DEAD", "FAILED"},
         NEW L, L = binder_send_failed_reply(K, t, code),
         NEW H, H = [G EXCEPT ![t] = Nowhere]
  PROVE  Drops(K, L, T, R, G, H)
<1>1. K \in Kernel /\ G \in [Txns -> Wheres] /\ code \in Codes
  BY DEF Good, Typed, Codes
<1>2. PICK N \in Nat : N = Cardinality(Txns)
  BY FS_CardinalityType, BinderAssumption
<1>3. PICK f : FailTurns(f, K, t, code, N) /\ L = f[N].K
  BY <1>1, <1>2, FailUnfold
<1>4. H \in [Txns -> Wheres] /\ H[t] = Nowhere /\ \A u \in Txns \ {t} : H[u] = G[u]
  BY <1>1 DEF Wheres
<1> DEFINE Left(n) == Cardinality(InUses(f[n].K))
           J == {n \in 0 .. N :
                   /\ Failing(f[n], T, R, H) /\ Spares(K, f[n].K)
                   /\ \A g \in T : Due(f[n].K, H, g) = Due(K, H, g)
                   /\ f[n].t # NoTxn => Left(n) <= N - n}
<1>5. \A M : /\ IsFiniteSet(InUses(M)) /\ Cardinality(InUses(M)) \in Nat
             /\ Cardinality(InUses(M)) <= N
  <2>1. \A M : InUses(M) \in SUBSET Txns
    BY DEF InUses
  <2>2. \A M : IsFiniteSet(InUses(M)) /\ Cardinality(InUses(M)) <= N
    BY <1>2, <2>1, BinderAssumption, FS_Subset
  <2> QED BY <2>2, FS_CardinalityType
<1>6. 0 \in J
  <2>1. f[0] = [K |-> K, t |-> t]
    BY <1>3 DEF FailTurns
  <2>2. f[0] \in FailStates
    BY <1>1, <2>1 DEF FailStates
  <2>3. LimboAt(H, t) = G
    BY <1>1, <1>4 DEF LimboAt
  <2>4. Failing(f[0], T, R, H)
    BY <1>4, <2>1, <2>2, <2>3, BinderAssumption DEF Failing
  <2>5. Left(0) <= N - 0
    BY <1>5
  <2> QED BY <2>1, <2>4, <2>5, SparesSelf
<1>7. ASSUME NEW n \in 0 .. N - 1, n \in J PROVE n + 1 \in J
  <2>1. n + 1 \in 0 .. N /\ n + 1 # 0 /\ (n + 1) - 1 = n /\ n \in Nat
    OBVIOUS
  <2>2. PICK x : x = f[n]
    OBVIOUS
  <2>3. PICK y : y = FailOne(x, code)
    OBVIOUS
  <2>4. f[n + 1] = y
    BY <1>3, <2>1, <2>2, <2>3 DEF FailTurns
  <2>5. /\ Failing(x, T, R, H) /\ Spares(K, x.K)
        /\ \A g \in T : Due(x.K, H, g) = Due(K, H, g)
        /\ x.t # NoTxn => Cardinality(InUses(x.K)) <= N - n
    BY <1>7, <2>2
  <2>6. CASE x.t = NoTxn
    <3>1. y = x
      BY <2>3, <2>6 DEF FailOne
    <3> QED BY <2>1, <2>4, <2>5, <2>6, <3>1
  <2>7. CASE x.t # NoTxn
    <3>1. /\ Failing(y, T, R, H) /\ Spares(x.K, y.K)
          /\ InUses(y.K) = InUses(x.K) \ {x.t} /\ x.t \in InUses(x.K)
          /\ \A g \in T : Due(y.K, H, g) = Due(x.K, H, g)
      <4>1. /\ H \in [Txns -> Wheres] /\ Failing(x, T, R, H) /\ x.t # NoTxn
            /\ y = FailOne(x, code)
        BY <1>4, <2>3, <2>5, <2>7
      <4>2. FailedOne(x, y, T, R, H)
        BY <4>1, FailOneGood
      <4> QED BY <4>2 DEF FailedOne
    <3>2. Spares(K, y.K)
      BY <2>5, <3>1, SparesTrans
    <3>3. PICK c \in Nat : c = Cardinality(InUses(x.K)) /\ IsFiniteSet(InUses(x.K))
      BY <1>5
    <3>4. Cardinality(InUses(y.K)) = c - 1
      BY <3>1, <3>3, FS_RemoveElement
    <3>5. c <= N - n
      BY <2>5, <2>7, <3>3
    <3>6. Cardinality(InUses(y.K)) <= N - (n + 1)
      BY <2>1, <3>3, <3>4, <3>5
    <3> QED BY <2>1, <2>4, <2>5, <3>1, <3>2, <3>6
  <2> QED BY <2>6, <2>7
<1> HIDE DEF J
<1>8. N \in J
  BY <1>6, <1>7, Turns
<1>9. PICK w : w = f[N]
  OBVIOUS
<1>10. /\ Failing(w, T, R, H) /\ Spares(K, w.K)
       /\ \A g \in T : Due(w.K, H, g) = Due(K, H, g)
       /\ w.t # NoTxn => Cardinality(InUses(w.K)) <= N - N
  BY <1>8, <1>9 DEF J
<1>11. w.t = NoTxn
  <2> SUFFICES ASSUME w.t # NoTxn PROVE FALSE
    OBVIOUS
  <2>1. Cardinality(InUses(w.K)) = 0
    BY <1>5, <1>10
  <2>2. InUses(w.K) = {}
    BY <1>5, <2>1, FS_EmptySet
  <2>3. w.t \in InUses(w.K)
    BY <1>10 DEF Failing, FailStates, InUses
  <2> QED BY <2>2, <2>3
<1>12. ASSUME NEW g \in T PROVE Due(K, H, g) = Due(K, G, g)
  <2>1. Replies(K, H, g) = Replies(K, G, g)
    BY <1>4 DEF Replies
  <2> QED BY <2>1, DueSame
<1>13. Good(w.K, T, R, H)
  BY <1>10, <1>11 DEF Failing
<1> QED BY <1>3, <1>9, <1>10, <1>12, <1>13 DEF Drops

-----------------------------------------------------------------------------
(* binder_release_work.                                                    *)

LEMMA DropOther ==
  ASSUME NEW K, NEW T, NEW R, NEW G, Good(K, T, R, G), NEW t \in Txns,
         K.txn[t].kind # "call", G[t] = Limbo,
         NEW L, SetsTxn(K, L, t, NoTransaction),
         NEW H, H = [G EXCEPT ![t] = Nowhere]
  PROVE  Good(L, T, R, H)
<1>1. /\ K \in Kernel /\ L \in Kernel /\ T \in SUBSET Threads
      /\ R \in SUBSET Procs /\ G \in [Txns -> Wheres]
  BY DEF Good, Typed, SetsTxn
<1>2. /\ L.txn[t].kind = "free" /\ L.txn[t].from_parent = NoTxn
      /\ \A u \in Txns \ {t} : L.txn[u] = K.txn[u]
  BY NoTransactionFacts DEF SetsTxn
<1>3. /\ H \in [Txns -> Wheres] /\ H[t] = Nowhere
      /\ \A u \in Txns \ {t} : H[u] = G[u]
  BY <1>1 DEF Wheres
<1>4. Aside(K, L, G, H)
  BY <1>1, <1>2, <1>3 DEF Aside, SetsTxn
<1>5. /\ Links(L, H) /\ Ends(L, T, H) /\ Tops(L, T, H) /\ Unders(L, T, H)
      /\ \A h \in T : Out(L, h) = Out(K, h)
      /\ \A u \in Txns : L.txn[u] = K.txn[u] /\ H[u] = G[u] => FiledAt(L, T, R, H, u)
  <2>1. Beside(K, L, T, R, G, H)
    BY <1>4, AsideKeeps
  <2> QED BY <2>1 DEF Beside
<1>6. FiledAt(L, T, R, H, t)
  BY <1>2, <1>3, WhereFacts DEF FiledAt
<1>7. Filed(L, T, R, H)
  BY <1>2, <1>3, <1>5, <1>6 DEF Filed
<1>8. Errors(L, T)
  <2>1. L.error = K.error /\ L.error2 = K.error2 /\ L.bug = K.bug /\ L.stack = K.stack
    BY DEF SetsTxn
  <2> QED BY <1>5, <2>1 DEF Good, Errors
<1>9. Serial(L, R, H)
  <2>1. L.held = K.held /\ L.has_async = K.has_async
    BY DEF SetsTxn
  <2>2. ASSUME NEW p \in R PROVE OutTo(L, H, p) = OutTo(K, G, p)
    BY <1>2, <1>3 DEF OutTo
  <2>3. ASSUME NEW p \in R, NEW u \in Txns, H[u] = Async(p) PROVE G[u] = Async(p)
    BY <1>3, <2>3, WhereFacts
  <2> QED BY <2>1, <2>2, <2>3 DEF Good, Serial, SerialAt
<1>10. Typed(L, T, R, H)
  BY <1>1, <1>3 DEF Typed
<1> QED BY <1>5, <1>7, <1>8, <1>9, <1>10 DEF Good

(* Nothing but w has been dealt with.                                      *)
Cleared(G, S) == [u \in Txns |-> IF u \in S THEN Nowhere ELSE G[u]]

LEMMA DropsTrans ==
  ASSUME NEW K, NEW L, NEW M, NEW T, NEW R, NEW G, NEW H, NEW J,
         Drops(K, L, T, R, G, H), Drops(L, M, T, R, H, J)
  PROVE  Drops(K, M, T, R, G, J)
BY SparesTrans DEF Drops

LEMMA ReleaseOneGood ==
  ASSUME NEW K, NEW T, NEW R, NEW G, Good(K, T, R, G), NEW w \in Works,
         w # Complete => G[w] = Limbo, NEW L, L = ReleaseOne(K, w),
         NEW H, H = Cleared(G, {w})
  PROVE  Drops(K, L, T, R, G, H)
<1>1. K \in Kernel /\ G \in [Txns -> Wheres]
  BY DEF Good, Typed
<1>2. CASE w = Complete
  <2>1. L = K
    BY <1>2 DEF ReleaseOne
  <2>2. H = G
    BY <1>1, <1>2, BinderAssumption DEF Cleared
  <2> QED BY <2>1, <2>2, SparesSelf DEF Drops
<1>3. CASE w # Complete
  <2>1. w \in Txns /\ G[w] = Limbo
    BY <1>3 DEF Works
  <2>2. H = [G EXCEPT ![w] = Nowhere]
    BY <1>1, <2>1 DEF Cleared
  <2>3. CASE K.txn[w].kind = "call"
    <3>1. L = binder_send_failed_reply(K, w, "DEAD")
      BY <1>3, <2>3 DEF ReleaseOne
    <3> QED BY <2>1, <2>2, <2>3, <3>1, FailedReplyGood
  <2>4. CASE K.txn[w].kind # "call"
    <3>1. L = [K EXCEPT !.txn[w] = NoTransaction]
      BY <1>3, <2>4 DEF ReleaseOne
    <3>2. SetsTxn(K, L, w, NoTransaction)
      BY <1>1, <2>1, <3>1, SetTxn, NoTransactionType
    <3>3. Good(L, T, R, H)
      BY <2>1, <2>2, <2>4, <3>2, DropOther
    <3>4. Spares(K, L)
      BY <3>2 DEF SetsTxn, Spares
    <3>5. ASSUME NEW g \in T PROVE Due(L, H, g) = Due(K, G, g)
      <4>1. L.txn[w].kind = "free" /\ \A u \in Txns \ {w} : L.txn[u] = K.txn[u]
        BY <3>2, NoTransactionFacts DEF SetsTxn
      <4>2. Out(L, g) = Out(K, g)
        BY <2>4, <4>1 DEF Out
      <4>3. Replies(L, H, g) = Replies(K, G, g)
        BY <1>1, <2>1, <2>2, <4>1, WhereFacts DEF Replies
      <4>4. L.error[g] = K.error[g] /\ L.error2[g] = K.error2[g]
        BY <3>2 DEF SetsTxn
      <4> QED BY <4>2, <4>3, <4>4, DueSame
    <3> QED BY <3>3, <3>4, <3>5 DEF Drops
  <2> QED BY <2>3, <2>4
<1> QED BY <1>2, <1>3

Elements(list, n) == {list[i] : i \in 1 .. n}

LEMMA ReleaseWorkGood ==
  ASSUME NEW K, NEW T, NEW R, NEW G, Good(K, T, R, G), NEW list \in Seq(Works),
         NoRep(list), \A i \in DOMAIN list : list[i] # Complete => G[list[i]] = Limbo,
         NEW L, L = binder_release_work(K, list),
         NEW H, H = Cleared(G, Elements(list, Len(list)))
  PROVE  Drops(K, L, T, R, G, H)
<1>1. K \in Kernel /\ G \in [Txns -> Wheres]
  BY DEF Good, Typed
<1>2. PICK N \in Nat : /\ N = Len(list) /\ DOMAIN list = 1 .. N
                       /\ \A n \in 1 .. N : list[n] \in Works
  BY LenProperties, ElementOfSeq
<1>3. PICK f : ReleaseTurns(f, K, list, N) /\ L = f[N]
  BY <1>1, <1>2, ReleaseUnfold
<1> DEFINE J(n) == Cleared(G, Elements(list, n))
           S == {n \in 0 .. N : Drops(K, f[n], T, R, G, J(n))}
<1>4. 0 \in S
  <2>1. f[0] = K
    BY <1>3 DEF ReleaseTurns
  <2>2. Elements(list, 0) = {}
    BY DEF Elements
  <2>3. J(0) = G
    BY <1>1, <2>2 DEF Cleared
  <2>4. Drops(K, K, T, R, G, G)
    BY SparesSelf DEF Drops
  <2> QED BY <2>1, <2>3, <2>4
<1>5. ASSUME NEW n \in 0 .. N - 1, n \in S PROVE n + 1 \in S
  <2>1. /\ n + 1 \in 0 .. N /\ n + 1 # 0 /\ (n + 1) - 1 = n /\ n + 1 \in 1 .. N
        /\ n \in Nat
    OBVIOUS
  <2>2. PICK M : M = f[n]
    OBVIOUS
  <2>3. PICK w \in Works : w = list[n + 1]
    BY <1>2, <2>1
  <2>4. f[n + 1] = ReleaseOne(M, w)
    BY <1>3, <2>1, <2>2, <2>3 DEF ReleaseTurns
  <2>5. PICK F : F = J(n)
    OBVIOUS
  <2>6. Drops(K, M, T, R, G, F)
    BY <1>5, <2>2, <2>5
  <2>7. w # Complete => F[w] = Limbo
    <3> SUFFICES ASSUME w # Complete PROVE F[w] = Limbo
      OBVIOUS
    <3>1. w \in Txns /\ G[w] = Limbo
      BY <1>2, <2>1, <2>3 DEF Works
    <3>2. w \notin Elements(list, n)
      <4> SUFFICES ASSUME NEW i \in 1 .. n, list[i] = w PROVE FALSE
        BY DEF Elements
      <4>1. i \in 1 .. N /\ i # n + 1
        BY <2>1
      <4> QED BY <1>2, <2>1, <2>3, <4>1 DEF NoRep
    <3> QED BY <2>5, <3>1, <3>2 DEF Cleared
  <2>8. PICK Z : Z = Cleared(F, {w})
    OBVIOUS
  <2>9. Drops(M, f[n + 1], T, R, F, Z)
    <3>1. Good(M, T, R, F)
      BY <2>6 DEF Drops
    <3> QED BY <2>4, <2>7, <2>8, <3>1, ReleaseOneGood
  <2>10. Z = J(n + 1)
    <3>1. Elements(list, n + 1) = Elements(list, n) \cup {w}
      <4>1. 1 .. n + 1 = (1 .. n) \cup {n + 1}
        BY <2>1
      <4> QED BY <2>3, <4>1 DEF Elements
    <3> QED BY <2>5, <2>8, <3>1 DEF Cleared
  <2>11. Drops(K, f[n + 1], T, R, G, J(n + 1))
    <3>1. Drops(K, f[n + 1], T, R, G, Z)
      BY <2>6, <2>9, DropsTrans
    <3> QED BY <2>10, <3>1
  <2> QED BY <2>1, <2>11
<1> HIDE DEF S
<1>6. N \in S
  BY <1>4, <1>5, Turns
<1> QED BY <1>2, <1>3, <1>6 DEF S

-----------------------------------------------------------------------------
(* binder_free_thread.                                                     *)

LEMMA LeaveDue ==
  ASSUME NEW K, NEW T, NEW R, NEW G, Good(K, T, R, G), NEW h \in T,
         NEW L, Leaves(K, L, h, Own(K, G, h)), NEW g \in T \ {h},
         NEW H, H = LeftAt(K, G, h)
  PROVE  Due(L, H, g) = Due(K, G, g)
<1>1. g # h /\ g # NoThread
  BY BinderAssumption DEF Good, Typed
<1>2. \A u \in Txns : LeftTxn(L.txn[u], K.txn[u], h, u \in Own(K, G, h))
  BY DEF Leaves
<1>3. Out(L, g) = Out(K, g)
  BY <1>1, <1>2 DEF Out, LeftTxn
<1>4. Replies(L, H, g) = Replies(K, G, g)
  <2>1. ASSUME NEW u \in Txns, K.txn[u].kind = "reply"
        PROVE  H[u] = Todo(g) <=> G[u] = Todo(g)
    <3>1. u \notin In(K, G, h)
      BY <2>1 DEF In
    <3> QED BY <1>1, <3>1, WhereFacts DEF LeftAt
  <2>2. \A u \in Txns : L.txn[u].kind = K.txn[u].kind
    BY <1>2 DEF LeftTxn
  <2> QED BY <2>1, <2>2 DEF Replies
<1>5. L.error[g] = K.error[g] /\ L.error2[g] = K.error2[g]
  BY DEF Leaves
<1> QED BY <1>3, <1>4, <1>5, DueSame

ListedAt(K, G, h) ==
  /\ \A t \in Txns : t \in Range(K.todo[h]) <=> G[t] = Todo(h)
  /\ NoRep(K.todo[h])

(* What becomes of the kernel when h is freed.                             *)
Frees(K, L, h) ==
  /\ L \in Kernel /\ L.live = K.live \ {h} /\ L.procs = K.procs
  /\ L.todo = [K.todo EXCEPT ![h] = << >>]
  /\ L.ptodo = K.ptodo /\ L.async_todo = K.async_todo
  /\ L.has_async = K.has_async /\ L.held = K.held
  /\ L.stack[h] = NoTxn
  /\ \A g \in Threads : K.stack[g] = NoTxn => L.stack[g] = NoTxn

NoTodo(G, h) == [u \in Txns |-> IF G[u] = Todo(h) THEN Nowhere ELSE G[u]]

(* The others are as well off as before.                                   *)
FreedWell(K, L, T, R, G, H, h) ==
  /\ Good(L, T \ {h}, R, H) /\ Frees(K, L, h)
  /\ \A g \in T \ {h} : Due(L, H, g) = Due(K, G, g)

LEMMA FreeThreadGood ==
  ASSUME NEW K, NEW T, NEW R, NEW G, Good(K, T, R, G), NEW h \in T,
         NoneLost(K, R, G, h), ListedAt(K, G, h),
         NEW L, L = binder_free_thread(K, h), NEW H, H = NoTodo(G, h)
  PROVE  FreedWell(K, L, T, R, G, H, h)
<1>1. /\ K \in Kernel /\ h \in Threads /\ T \in SUBSET Threads
      /\ G \in [Txns -> Wheres]
  BY DEF Good, Typed
<1>2. PICK top \in Txns \cup {NoTxn} : top = K.stack[h]
  BY <1>1 DEF Kernel
<1>3. PICK K1 : K1 = LeaveAll(K, h)
  OBVIOUS
<1>4. PICK K2 : K2 = IF top # NoTxn /\ K.txn[top].to_thread = h
                       THEN binder_send_failed_reply(K1, top, "DEAD") ELSE K1
  OBVIOUS
<1>5. PICK K3 : K3 = binder_release_work(K2, K.todo[h])
  OBVIOUS
<1>6. L = [K3 EXCEPT !.live = @ \ {h}, !.stack[h] = NoTxn,
                     !.todo[h] = << >>, !.error[h] = "OK", !.error2[h] = "OK"]
  BY <1>2, <1>3, <1>4, <1>5 DEF binder_free_thread
<1>7. PICK S : S = T \ {h}
  OBVIOUS
<1>8. PICK G1 : G1 = LeftAt(K, G, h)
  OBVIOUS
<1>9. Leaves(K, K1, h, Own(K, G, h))
  BY <1>3, LeaveAllLeaves
<1>10. Good(K1, S, R, G1)
  BY <1>7, <1>8, <1>9, LeaveThread
<1>11. \A g \in S : Due(K1, G1, g) = Due(K, G, g)
  BY <1>7, <1>8, <1>9, LeaveDue
<1>12. PICK G2 : G2 = [u \in Txns |-> IF G[u] = Todo(h) THEN Limbo ELSE G[u]]
  OBVIOUS
<1>13. \A u \in Txns : u \in In(K, G, h) =>
         G[u] = Nowhere /\ K.txn[u].kind = "call" /\ K.txn[u].to_thread = h
  BY DEF In
<1>14. Drops(K1, K2, S, R, G1, G2)
  <2>1. CASE top # NoTxn /\ K.txn[top].to_thread = h
    <3>1. top \in In(K, G, h) /\ top \in Txns
      <4>1. TopAt(K, G, h)
        BY DEF Good, Tops
      <4>2. top \in Own(K, G, h)
        BY <1>2, <2>1, <4>1 DEF TopAt
      <4> QED BY <2>1, <4>2, OutNotIn DEF Own, In
    <3>2. K1.txn[top].kind = "call"
      BY <1>9, <1>13, <3>1 DEF Leaves, LeftTxn
    <3>3. G1[top] = Limbo
      BY <1>2, <1>8, <3>1 DEF LeftAt
    <3>4. G2 = [G1 EXCEPT ![top] = Nowhere]
      <4>1. G1 \in [Txns -> Wheres]
        BY <1>10 DEF Good, Typed
      <4>2. ASSUME NEW u \in Txns, u # top PROVE G1[u] = G2[u]
        BY <1>2, <1>8, <1>12, <4>2 DEF LeftAt
      <4>3. G2[top] = Nowhere
        BY <1>12, <1>13, <3>1, WhereFacts
      <4> QED BY <1>12, <3>1, <4>1, <4>2, <4>3
    <3>5. K2 = binder_send_failed_reply(K1, top, "DEAD")
      BY <1>4, <2>1
    <3> QED BY <1>10, <3>1, <3>2, <3>3, <3>4, <3>5, FailedReplyGood
  <2>2. CASE ~ (top # NoTxn /\ K.txn[top].to_thread = h)
    <3>1. top \notin In(K, G, h)
      BY <1>13, <2>2, BinderAssumption, OwnTxns
    <3>2. G1 = G2
      BY <1>2, <1>8, <1>12, <3>1 DEF LeftAt
    <3>3. K2 = K1
      BY <1>4, <2>2
    <3> QED BY <1>10, <3>2, <3>3, SparesSelf DEF Drops
  <2> QED BY <2>1, <2>2
<1>15. PICK list \in Seq(Works) : list = K.todo[h]
  BY <1>1 DEF Kernel, Works
<1>16. Elements(list, Len(list)) = Range(list) /\ DOMAIN list = 1 .. Len(list)
  BY LenProperties DEF Elements, Range
<1>17. \A i \in DOMAIN list : list[i] # Complete => G2[list[i]] = Limbo
  <2> SUFFICES ASSUME NEW i \in DOMAIN list, list[i] # Complete
               PROVE  G2[list[i]] = Limbo
    OBVIOUS
  <2>1. list[i] \in Txns /\ list[i] \in Range(list)
    BY <1>16, ElementOfSeq DEF Works, Range
  <2>2. G[list[i]] = Todo(h)
    BY <1>15, <2>1 DEF ListedAt
  <2> QED BY <1>12, <2>1, <2>2
<1>18. H = Cleared(G2, Elements(list, Len(list)))
  <2>1. \A u \in Txns : u \in Range(list) <=> G[u] = Todo(h)
    BY <1>15 DEF ListedAt
  <2> QED BY <1>12, <1>16, <2>1 DEF Cleared, NoTodo
<1>19. Drops(K2, K3, S, R, G2, H)
  <2>1. Good(K2, S, R, G2) /\ NoRep(list) /\ K3 = binder_release_work(K2, list)
    BY <1>5, <1>14, <1>15 DEF Drops, ListedAt
  <2> QED BY <1>17, <1>18, <2>1, ReleaseWorkGood
<1>20. Drops(K1, K3, S, R, G1, H)
  BY <1>14, <1>19, DropsTrans
<1>21. K3 \in Kernel /\ Good(K3, S, R, H) /\ Spares(K1, K3)
  BY <1>20 DEF Drops, Good, Typed
<1>22. L \in Kernel
  BY <1>1, FreeThreadKeeps
<1>23. /\ L.live = K3.live \ {h} /\ L.procs = K3.procs /\ L.stack[h] = NoTxn
       /\ L.todo = [K3.todo EXCEPT ![h] = << >>]
       /\ L.ptodo = K3.ptodo /\ L.async_todo = K3.async_todo
       /\ L.has_async = K3.has_async /\ L.held = K3.held
       /\ L.txn = K3.txn /\ L.bug = K3.bug
       /\ \A g \in Threads \ {h} : /\ L.stack[g] = K3.stack[g]
                                   /\ L.error[g] = K3.error[g]
                                   /\ L.error2[g] = K3.error2[g]
  BY <1>1, <1>6, <1>21 DEF Kernel
<1>24. S \subseteq Threads \ {h}
  BY <1>1, <1>7
<1>25. Elsewhere(K3, L, S, R)
  BY <1>22, <1>23, <1>24 DEF Elsewhere
<1>26. Good(L, S, R, H)
  BY <1>21, <1>25, ElsewhereKeeps
<1>27. \A g \in S : Due(L, H, g) = Due(K, G, g)
  <2> SUFFICES ASSUME NEW g \in S PROVE Due(L, H, g) = Due(K, G, g)
    OBVIOUS
  <2>1. Due(K3, H, g) = Due(K, G, g)
    BY <1>11, <1>20 DEF Drops
  <2>2. Out(L, g) = Out(K3, g) /\ Replies(L, H, g) = Replies(K3, H, g)
    BY <1>23 DEF Out, Replies
  <2>3. Due(L, H, g) = Due(K3, H, g)
    BY <1>23, <1>24, <2>2, DueSame
  <2> QED BY <2>1, <2>3
<1>28. Frees(K, L, h)
  <2>1. /\ K3.live = K.live /\ K3.procs = K.procs /\ K3.todo = K.todo
        /\ K3.ptodo = K.ptodo /\ K3.async_todo = K.async_todo
        /\ K3.has_async = K.has_async /\ K3.held = K.held
    BY <1>9, <1>21 DEF Leaves, Spares
  <2>2. \A g \in Threads : K.stack[g] = NoTxn => L.stack[g] = NoTxn
    BY <1>9, <1>21, <1>23 DEF Leaves, Spares
  <2> QED BY <1>22, <1>23, <2>1, <2>2 DEF Frees
<1> QED BY <1>7, <1>26, <1>27, <1>28 DEF FreedWell

-----------------------------------------------------------------------------
(* binder_deferred_release.                                                *)

(* list names every member of S once.                                      *)
Lists(list, S) ==
  /\ list \in Seq(Threads) /\ Elements(list, Len(list)) = S
  /\ \A i, j \in 1 .. Len(list) : list[i] = list[j] => i = j

LEMMA SetToSeqLists ==
  ASSUME NEW S \in SUBSET Threads
  PROVE  Lists(SetToSeq(S), S)
<1>1. IsFiniteSet(S)
  BY BinderAssumption, FS_Subset
<1>2. PICK n \in Nat : n = Cardinality(S) /\ ExistsBijection(1 .. n, S)
  BY <1>1, FS_CardinalityType
<1>3. PICK f \in [1 .. n -> S] : IsInjective(f)
  <2>1. PICK f : f \in Bijection(1 .. n, S)
    BY <1>2 DEF ExistsBijection
  <2>2. f \in [1 .. n -> S] /\ \A a, b \in 1 .. n : f[a] = f[b] => a = b
    BY <2>1 DEF Bijection, Injection, IsInjective
  <2>3. IsInjective(f)
    BY <2>2 DEF IsInjective
  <2> QED BY <2>2, <2>3
<1>4. PICK list : list = SetToSeq(S)
  OBVIOUS
<1>5. list \in [1 .. n -> S] /\ IsInjective(list)
  BY <1>2, <1>3, <1>4 DEF SetToSeq
<1>6. \A i, j \in 1 .. n : list[i] = list[j] => i = j
  BY <1>5 DEF IsInjective
<1>7. list \in Seq(Threads)
  BY <1>4, SetToSeqType
<1>8. Len(list) = n
  BY <1>5, <1>7, LenProperties
<1>9. PICK E \in SUBSET S : E = Elements(list, n)
  BY <1>5 DEF Elements
<1>10. list \in Bijection(1 .. n, E)
  <2>1. list \in [1 .. n -> E]
    BY <1>5, <1>9 DEF Elements
  <2>2. \A e \in E : \E i \in 1 .. n : list[i] = e
    BY <1>9 DEF Elements
  <2> QED BY <1>6, <2>1, <2>2 DEF Bijection, Injection, Surjection, IsInjective
<1>11. Cardinality(E) = n
  BY <1>10, FS_CountingElements DEF ExistsBijection
<1>12. E = S
  BY <1>1, <1>2, <1>11, FS_Subset
<1> QED BY <1>4, <1>6, <1>7, <1>8, <1>9, <1>12 DEF Lists

(* What becomes of the kernel when the threads in F are freed.             *)
FreesAll(K, L, F) ==
  /\ L \in Kernel /\ L.live = K.live \ F /\ L.procs = K.procs
  /\ \A g \in Threads : L.todo[g] = IF g \in F THEN << >> ELSE K.todo[g]
  /\ L.ptodo = K.ptodo /\ L.async_todo = K.async_todo
  /\ L.has_async = K.has_async /\ L.held = K.held
  /\ \A g \in F : L.stack[g] = NoTxn
  /\ \A g \in Threads : K.stack[g] = NoTxn => L.stack[g] = NoTxn

NoTodos(G, F) == [u \in Txns |-> IF \E g \in F : G[u] = Todo(g) THEN Nowhere ELSE G[u]]

AllFreedWell(K, L, T, R, G, F) ==
  /\ Good(L, T \ F, R, NoTodos(G, F)) /\ FreesAll(K, L, F)
  /\ \A g \in T \ F : Due(L, NoTodos(G, F), g) = Due(K, G, g)

LEMMA FreeNext ==
  ASSUME NEW K, NEW T, NEW R, NEW G, Good(K, T, R, G), NEW F \in SUBSET T,
         NEW h \in T \ F, ProcOf[h] \notin R, ListedAt(K, G, h),
         NEW L, AllFreedWell(K, L, T, R, G, F),
         NEW M, M = binder_free_thread(L, h), NEW E, E = F \cup {h}
  PROVE  AllFreedWell(K, M, T, R, G, E)
<1>1. /\ K \in Kernel /\ T \in SUBSET Threads /\ G \in [Txns -> Wheres]
  BY DEF Good, Typed
<1>2. PICK H : H = NoTodos(G, F)
  OBVIOUS
<1>3. /\ Good(L, T \ F, R, H) /\ FreesAll(K, L, F)
      /\ \A g \in T \ F : Due(L, H, g) = Due(K, G, g)
  BY <1>2 DEF AllFreedWell
<1>4. \A u \in Txns : H[u] = Todo(h) <=> G[u] = Todo(h)
  BY <1>2, WhereFacts DEF NoTodos
<1>5. NoneLost(L, R, H, h)
  BY DEF NoneLost
<1>6. ListedAt(L, H, h)
  <2>1. L.todo[h] = K.todo[h]
    BY <1>1, <1>3 DEF FreesAll
  <2> QED BY <1>4, <2>1 DEF ListedAt
<1>7. PICK J : J = NoTodo(H, h)
  OBVIOUS
<1>8. FreedWell(L, M, T \ F, R, H, J, h)
  BY <1>3, <1>5, <1>6, <1>7, FreeThreadGood
<1>9. J = NoTodos(G, E)
  <2>1. \A u \in Txns : J[u] = NoTodos(G, E)[u]
    <3> SUFFICES ASSUME NEW u \in Txns PROVE J[u] = NoTodos(G, E)[u]
      OBVIOUS
    <3>1. CASE G[u] = Todo(h)
      BY <1>4, <1>7, <3>1 DEF NoTodo, NoTodos
    <3>2. CASE G[u] # Todo(h)
      <4>1. J[u] = H[u]
        BY <1>4, <1>7, <3>2 DEF NoTodo
      <4>2. (\E g \in E : G[u] = Todo(g)) <=> (\E g \in F : G[u] = Todo(g))
        BY <3>2
      <4> QED BY <1>2, <4>1, <4>2 DEF NoTodos
    <3> QED BY <3>1, <3>2
  <2> QED BY <1>7, <2>1 DEF NoTodo, NoTodos
<1>10. (T \ F) \ {h} = T \ E
  OBVIOUS
<1>11. Good(M, T \ E, R, J) /\ Frees(L, M, h)
  BY <1>8, <1>10 DEF FreedWell
<1>12. \A g \in T \ E : Due(M, J, g) = Due(K, G, g)
  BY <1>3, <1>8, <1>10 DEF FreedWell
<1>13. FreesAll(K, M, E)
  <2>1. \A g \in Threads : M.todo[g] = IF g \in E THEN << >> ELSE K.todo[g]
    <3>1. L.todo \in [Threads -> Seq(Txns \cup {Complete})]
      BY <1>3 DEF FreesAll, Kernel
    <3> QED BY <1>1, <1>3, <1>11, <3>1 DEF Frees, FreesAll
  <2>2. \A g \in E : M.stack[g] = NoTxn
    BY <1>1, <1>3, <1>11 DEF Frees, FreesAll
  <2> QED BY <1>3, <1>11, <2>1, <2>2 DEF Frees, FreesAll
<1> QED BY <1>9, <1>11, <1>12, <1>13 DEF AllFreedWell

LEMMA FreeThreadsGood ==
  ASSUME NEW K, NEW T, NEW R, NEW G, Good(K, T, R, G), NEW F \in SUBSET T,
         NEW list, Lists(list, F),
         \A h \in F : ProcOf[h] \notin R /\ ListedAt(K, G, h),
         NEW L, L = FreeThreads(K, list)
  PROVE  AllFreedWell(K, L, T, R, G, F)
<1>1. /\ K \in Kernel /\ T \in SUBSET Threads /\ G \in [Txns -> Wheres]
  BY DEF Good, Typed
<1>2. list \in Seq(Threads)
  BY DEF Lists
<1>3. PICK N \in Nat : /\ N = Len(list) /\ Elements(list, N) = F
                       /\ \A i, j \in 1 .. N : list[i] = list[j] => i = j
  BY <1>2, LenProperties DEF Lists
<1>4. PICK f : FreeTurns(f, K, list, N) /\ L = f[N]
  BY <1>1, <1>2, <1>3, FreeUnfold
<1> DEFINE S == {n \in 0 .. N : AllFreedWell(K, f[n], T, R, G, Elements(list, n))}
<1>5. 0 \in S
  <2>1. f[0] = K
    BY <1>4 DEF FreeTurns
  <2>2. Elements(list, 0) = {}
    BY DEF Elements
  <2>3. NoTodos(G, {}) = G
    BY <1>1 DEF NoTodos
  <2>4. FreesAll(K, K, {})
    BY <1>1 DEF FreesAll
  <2>5. T \ {} = T
    OBVIOUS
  <2> QED BY <2>1, <2>2, <2>3, <2>4, <2>5 DEF AllFreedWell
<1>6. ASSUME NEW n \in 0 .. N - 1, n \in S PROVE n + 1 \in S
  <2>1. /\ n + 1 \in 0 .. N /\ n + 1 # 0 /\ (n + 1) - 1 = n /\ n + 1 \in 1 .. N
        /\ n \in Nat
    OBVIOUS
  <2>2. PICK E : E = Elements(list, n)
    OBVIOUS
  <2>3. PICK h : h = list[n + 1]
    OBVIOUS
  <2>4. h \in F /\ E \in SUBSET F
    BY <1>3, <2>1, <2>2, <2>3 DEF Elements
  <2>5. h \notin E
    <3> SUFFICES ASSUME NEW i \in 1 .. n, list[i] = h PROVE FALSE
      BY <2>2 DEF Elements
    <3>1. i \in 1 .. N /\ i # n + 1
      BY <2>1
    <3> QED BY <1>3, <2>1, <2>3, <3>1
  <2>6. Elements(list, n + 1) = E \cup {h}
    <3>1. 1 .. n + 1 = (1 .. n) \cup {n + 1}
      BY <2>1
    <3> QED BY <2>2, <2>3, <3>1 DEF Elements
  <2>7. PICK M : M = f[n]
    OBVIOUS
  <2>8. f[n + 1] = binder_free_thread(M, h)
    BY <1>4, <2>1, <2>3, <2>7 DEF FreeTurns
  <2>9. AllFreedWell(K, M, T, R, G, E)
    BY <1>6, <2>2, <2>7
  <2>10. AllFreedWell(K, f[n + 1], T, R, G, E \cup {h})
    <3>1. /\ E \in SUBSET T /\ h \in T \ E /\ ProcOf[h] \notin R
          /\ ListedAt(K, G, h)
      BY <2>4, <2>5
    <3> QED BY <2>8, <2>9, <3>1, FreeNext
  <2> QED BY <2>1, <2>6, <2>10
<1> HIDE DEF S
<1>7. N \in S
  BY <1>5, <1>6, Turns
<1> QED BY <1>3, <1>4, <1>7 DEF S

(* The work of a process that goes away is nobody's.                       *)
Refiled(G, p) ==
  [u \in Txns |-> IF G[u] = Ptodo(p) \/ G[u] = Async(p) THEN Limbo ELSE G[u]]

LEMMA RefileGood ==
  ASSUME NEW K, NEW T, NEW R, NEW G, Good(K, T, R, G), NEW p \in Procs,
         NEW H, H = Refiled(G, p)
  PROVE  Good(K, T, R \ {p}, H)
<1>1. /\ K \in Kernel /\ T \in SUBSET Threads /\ R \in SUBSET Procs
      /\ G \in [Txns -> Wheres]
  BY DEF Good, Typed
<1>2. \A u \in Txns : /\ H[u] = Nowhere <=> G[u] = Nowhere
                      /\ H[u] # Limbo => H[u] = G[u] /\ G[u] # Ptodo(p) /\ G[u] # Async(p)
                      /\ H[u] = Limbo => G[u] \in {Limbo, Ptodo(p), Async(p)}
                      /\ G[u] = Limbo => H[u] = Limbo
  BY WhereFacts DEF Refiled
<1>3. Typed(K, T, R \ {p}, H)
  <2>1. H \in [Txns -> Wheres]
    BY <1>1 DEF Refiled, Wheres
  <2> QED BY <1>1, <2>1 DEF Typed
<1>4. \A h : In(K, H, h) = In(K, G, h) /\ Own(K, H, h) = Own(K, G, h)
  <2> SUFFICES ASSUME NEW h
               PROVE  In(K, H, h) = In(K, G, h) /\ Own(K, H, h) = Own(K, G, h)
    OBVIOUS
  <2>1. In(K, H, h) = In(K, G, h)
    BY <1>2 DEF In
  <2> QED BY <2>1 DEF Own
<1>5. Links(K, H)
  <2>1. ASSUME NEW t \in Txns, NEW s, s = K.txn[t].from_parent, s # NoTxn
        PROVE  /\ K.txn[t].kind = "call" /\ K.txn[s].kind = "call"
               /\ H[s] = Nowhere /\ K.txn[s].to_thread = K.txn[t].from
    <3>1. s \in Txns
      BY <1>1, <2>1 DEF Kernel, TxnRecs
    <3> QED BY <1>2, <2>1, <3>1 DEF Good, Links
  <2> QED BY <2>1 DEF Good, Links
<1>6. Ends(K, T, H)
  BY <1>2 DEF Good, Ends, EndsAt
<1>7. Tops(K, T, H)
  BY <1>4 DEF Good, Tops, TopAt
<1>8. Unders(K, T, H)
  BY <1>4 DEF Good, Unders, UnderAt
<1>9. Filed(K, T, R \ {p}, H)
  <2> SUFFICES ASSUME NEW u \in Txns PROVE FiledAt(K, T, R \ {p}, H, u)
    BY DEF Filed
  <2>1. FiledAt(K, T, R, G, u)
    BY DEF Good, Filed
  <2>2. CASE H[u] = Limbo
    <3>1. G[u] # Nowhere
      BY <1>2, <2>2, WhereFacts
    <3> QED BY <2>1, <2>2, <3>1, WhereFacts DEF FiledAt
  <2>3. CASE H[u] # Limbo
    BY <1>2, <2>1, <2>3 DEF FiledAt
  <2> QED BY <2>2, <2>3
<1>10. Serial(K, R \ {p}, H)
  <2> SUFFICES ASSUME NEW q \in R \ {p} PROVE SerialAt(K, H, q)
    BY DEF Serial
  <2>1. SerialAt(K, G, q)
    BY DEF Good, Serial
  <2>2. OutTo(K, H, q) = OutTo(K, G, q)
    <3> SUFFICES ASSUME NEW u \in Txns, K.txn[u].kind = "oneway", K.txn[u].to_proc = q
                 PROVE  H[u] \in {Async(q), Limbo} <=> G[u] \in {Async(q), Limbo}
      BY DEF OutTo
    <3>1. FiledAt(K, T, R, G, u)
      BY DEF Good, Filed
    <3>2. G[u] # Ptodo(p) /\ G[u] # Async(p)
      BY <3>1 DEF FiledAt
    <3>3. H[u] = G[u]
      BY <1>2, <3>2
    <3> QED BY <3>3
  <2>3. ASSUME NEW u \in Txns, H[u] = Async(q) PROVE G[u] = Async(q)
    BY <1>2, <2>3, WhereFacts
  <2> QED BY <2>1, <2>2, <2>3 DEF SerialAt
<1>11. Errors(K, T)
  BY DEF Good
<1> QED BY <1>3, <1>5, <1>6, <1>7, <1>8, <1>9, <1>10, <1>11 DEF Good

(* Two lists in a row.                                                     *)
LEMMA ConcatFacts ==
  ASSUME NEW a \in Seq(Txns), NEW b \in Seq(Txns), NEW c, c = a \o b
  PROVE  /\ c \in Seq(Txns) /\ Range(c) = Range(a) \cup Range(b)
         /\ NoRep(a) /\ NoRep(b) /\ Range(a) \cap Range(b) = {} => NoRep(c)
<1>1. PICK m \in Nat : m = Len(a) /\ DOMAIN a = 1 .. m
  BY LenProperties
<1>2. PICK n \in Nat : n = Len(b) /\ DOMAIN b = 1 .. n
  BY LenProperties
<1>3. /\ c \in Seq(Txns) /\ Len(c) = m + n
      /\ \A i \in 1 .. m + n : c[i] = IF i <= m THEN a[i] ELSE b[i - m]
  BY <1>1, <1>2, ConcatProperties
<1>4. DOMAIN c = 1 .. m + n
  BY <1>3, LenProperties
<1>5. \A i \in 1 .. m + n : \/ i \in 1 .. m /\ c[i] = a[i]
                            \/ i - m \in 1 .. n /\ c[i] = b[i - m]
  BY <1>3
<1>6. \A i \in 1 .. m : i \in 1 .. m + n /\ c[i] = a[i]
  BY <1>3
<1>7. \A i \in 1 .. n : i + m \in 1 .. m + n /\ c[i + m] = b[i]
  <2> SUFFICES ASSUME NEW i \in 1 .. n PROVE i + m \in 1 .. m + n /\ c[i + m] = b[i]
    OBVIOUS
  <2>1. i + m \in 1 .. m + n /\ ~ (i + m <= m) /\ (i + m) - m = i
    OBVIOUS
  <2> QED BY <1>3, <2>1
<1>8. Range(c) = Range(a) \cup Range(b)
  <2>1. ASSUME NEW x \in Range(c) PROVE x \in Range(a) \cup Range(b)
    BY <1>1, <1>2, <1>4, <1>5 DEF Range
  <2>2. ASSUME NEW x \in Range(a) PROVE x \in Range(c)
    BY <1>1, <1>4, <1>6 DEF Range
  <2>3. ASSUME NEW x \in Range(b) PROVE x \in Range(c)
    BY <1>2, <1>4, <1>7 DEF Range
  <2> QED BY <2>1, <2>2, <2>3
<1>9. ASSUME NoRep(a), NoRep(b), Range(a) \cap Range(b) = {} PROVE NoRep(c)
  <2> SUFFICES ASSUME NEW i \in 1 .. m + n, NEW j \in 1 .. m + n,
                      c[i] = c[j], c[i] # Complete
               PROVE  i = j
    BY <1>4 DEF NoRep
  <2>1. CASE i \in 1 .. m /\ c[i] = a[i]
    <3>1. CASE j \in 1 .. m /\ c[j] = a[j]
      BY <1>1, <1>9, <2>1, <3>1 DEF NoRep
    <3>2. CASE j - m \in 1 .. n /\ c[j] = b[j - m]
      <4>1. a[i] \in Range(a) /\ b[j - m] \in Range(b)
        BY <1>1, <1>2, <2>1, <3>2 DEF Range
      <4> QED BY <1>9, <2>1, <3>2, <4>1
    <3> QED BY <1>5, <3>1, <3>2
  <2>2. CASE i - m \in 1 .. n /\ c[i] = b[i - m]
    <3>1. CASE j \in 1 .. m /\ c[j] = a[j]
      <4>1. a[j] \in Range(a) /\ b[i - m] \in Range(b)
        BY <1>1, <1>2, <2>2, <3>1 DEF Range
      <4> QED BY <1>9, <2>2, <3>1, <4>1
    <3>2. CASE j - m \in 1 .. n /\ c[j] = b[j - m]
      <4>1. i - m = j - m
        BY <1>2, <1>9, <2>2, <3>2 DEF NoRep
      <4> QED BY <4>1
    <3> QED BY <1>5, <3>1, <3>2
  <2> QED BY <1>5, <2>1, <2>2
<1> QED BY <1>3, <1>8, <1>9

Sound(K, G) == Good(K, K.live, K.procs, G) /\ Listed(K, G)

(* Empty stacks stay empty.                                                *)
Idle(K, L) == \A h \in Threads : K.stack[h] = NoTxn => L.stack[h] = NoTxn

(* A process is gone, and what the others wait for is not.                 *)
Released(K, L, G, H, p) ==
  /\ Sound(L, H) /\ Idle(K, L)
  /\ L.live = {h \in K.live : ProcOf[h] # p} /\ L.procs = K.procs \ {p}
  /\ \A h \in K.live : ProcOf[h] = p => L.stack[h] = NoTxn
  /\ \A h \in L.live : Due(L, H, h) = Due(K, G, h)

LEMMA ListedHere ==
  ASSUME NEW K, NEW G, Listed(K, G), NEW h \in Threads
  PROVE  ListedAt(K, G, h)
BY DEF Listed, ListedAt

LEMMA DeferredGood ==
  ASSUME NEW K, NEW G, Sound(K, G), NEW p \in Procs,
         NEW L, L = binder_deferred_release(K, p)
  PROVE  \E H : Released(K, L, G, H, p)
<1>1. /\ K \in Kernel /\ K.live \in SUBSET Threads /\ K.procs \in SUBSET Procs
      /\ G \in [Txns -> Wheres]
  BY DEF Sound, Good, Typed
<1>2. PICK T : T = K.live
  OBVIOUS
<1>3. PICK R : R = K.procs \ {p}
  OBVIOUS
<1>4. PICK F \in SUBSET T : F = {h \in K.live : ProcOf[h] = p}
  BY <1>2
<1>5. PICK list : list = SetToSeq(F)
  OBVIOUS
<1>6. PICK K1 : K1 = FreeThreads(K, list)
  OBVIOUS
<1>7. PICK K2 : K2 = [K1 EXCEPT !.procs = @ \ {p}]
  OBVIOUS
<1>8. PICK rest : rest = K.ptodo[p] \o K.async_todo[p]
  OBVIOUS
<1>9. PICK K3 : K3 = binder_release_work(K2, rest)
  OBVIOUS
<1>10. L = [K3 EXCEPT !.ptodo[p] = << >>, !.async_todo[p] = << >>,
                      !.has_async[p] = FALSE, !.held[p] = FALSE]
  BY <1>4, <1>5, <1>6, <1>7, <1>8, <1>9 DEF binder_deferred_release
<1>11. PICK G0 : G0 = Refiled(G, p)
  OBVIOUS
<1>12. Good(K, T, R, G0)
  BY <1>2, <1>3, <1>11, RefileGood DEF Sound
<1>13. \A h \in T : Due(K, G0, h) = Due(K, G, h)
  <2> SUFFICES ASSUME NEW h \in T PROVE Due(K, G0, h) = Due(K, G, h)
    OBVIOUS
  <2>1. Replies(K, G0, h) = Replies(K, G, h)
    BY <1>11, WhereFacts DEF Replies, Refiled
  <2> QED BY <2>1, DueSame
<1>14. Lists(list, F)
  BY <1>1, <1>2, <1>5, SetToSeqLists
<1>15. \A h \in F : ProcOf[h] \notin R /\ ListedAt(K, G0, h)
  <2> SUFFICES ASSUME NEW h \in F PROVE ProcOf[h] \notin R /\ ListedAt(K, G0, h)
    OBVIOUS
  <2>1. h \in Threads /\ ProcOf[h] = p
    BY <1>1, <1>2, <1>4
  <2>2. ListedAt(K, G, h)
    BY <2>1, ListedHere DEF Sound
  <2>3. \A u \in Txns : G0[u] = Todo(h) <=> G[u] = Todo(h)
    BY <1>11, WhereFacts DEF Refiled
  <2> QED BY <1>3, <2>1, <2>2, <2>3 DEF ListedAt
<1>16. AllFreedWell(K, K1, T, R, G0, F)
  BY <1>6, <1>12, <1>14, <1>15, FreeThreadsGood
<1>17. PICK S : S = T \ F
  OBVIOUS
<1>18. PICK G1 : G1 = NoTodos(G0, F)
  OBVIOUS
<1>19. /\ Good(K1, S, R, G1) /\ FreesAll(K, K1, F)
       /\ \A h \in S : Due(K1, G1, h) = Due(K, G, h)
  BY <1>13, <1>16, <1>17, <1>18 DEF AllFreedWell
<1>20. /\ K2 \in Kernel /\ K2.procs = R /\ K2.live = S
       /\ K2.txn = K1.txn /\ K2.bug = K1.bug /\ K2.stack = K1.stack
       /\ K2.error = K1.error /\ K2.error2 = K1.error2
       /\ K2.has_async = K1.has_async /\ K2.held = K1.held
       /\ K2.todo = K1.todo /\ K2.ptodo = K1.ptodo /\ K2.async_todo = K1.async_todo
  <2>1. K1 \in Kernel /\ K1.procs = K.procs /\ K1.live = S
    BY <1>2, <1>17, <1>19 DEF FreesAll
  <2> QED BY <1>3, <1>7, <2>1 DEF Kernel
<1>21. Good(K2, S, R, G1)
  <2>1. Elsewhere(K1, K2, S, R)
    BY <1>20 DEF Elsewhere
  <2> QED BY <1>19, <2>1, ElsewhereKeeps
<1>22. \A h \in S : Due(K2, G1, h) = Due(K, G, h)
  <2> SUFFICES ASSUME NEW h \in S PROVE Due(K2, G1, h) = Due(K1, G1, h)
    BY <1>19
  <2>1. Out(K2, h) = Out(K1, h) /\ Replies(K2, G1, h) = Replies(K1, G1, h)
    BY <1>20 DEF Out, Replies
  <2> QED BY <1>20, <2>1, DueSame
<1>23. /\ \A t \in Txns : /\ t \in Range(K.ptodo[p]) <=> G[t] = Ptodo(p)
                          /\ t \in Range(K.async_todo[p]) <=> G[t] = Async(p)
       /\ NoRep(K.ptodo[p]) /\ NoRep(K.async_todo[p])
  BY DEF Sound, Listed
<1>24. /\ rest \in Seq(Txns) /\ NoRep(rest)
       /\ \A t \in Txns : t \in Range(rest) <=> G[t] = Ptodo(p) \/ G[t] = Async(p)
  <2>1. PICK a \in Seq(Txns) : a = K.ptodo[p]
    BY <1>1 DEF Kernel
  <2>2. PICK b \in Seq(Txns) : b = K.async_todo[p]
    BY <1>1 DEF Kernel
  <2>3. rest = a \o b
    BY <1>8, <2>1, <2>2
  <2>4. Range(a) \cap Range(b) = {}
    <3>1. Range(a) \in SUBSET Txns
      BY ElementOfSeq, LenProperties DEF Range
    <3> QED BY <1>23, <2>1, <2>2, <3>1, WhereFacts
  <2>5. NoRep(a) /\ NoRep(b)
    BY <1>23, <2>1, <2>2
  <2>6. rest \in Seq(Txns) /\ NoRep(rest) /\ Range(rest) = Range(a) \cup Range(b)
    BY <2>3, <2>4, <2>5, ConcatFacts
  <2> QED BY <1>23, <2>1, <2>2, <2>6
<1>25. rest \in Seq(Works)
  <2>1. Seq(Txns) \subseteq Seq(Works)
    BY DEF Works
  <2> QED BY <1>24, <2>1
<1>26. Elements(rest, Len(rest)) = Range(rest) /\ DOMAIN rest = 1 .. Len(rest)
  BY <1>24, LenProperties DEF Elements, Range
<1>27. \A u \in Txns : G1[u] = Limbo <=> G[u] = Ptodo(p) \/ G[u] = Async(p)
  <2>1. \A u \in Txns : G[u] # Limbo
    BY DEF Sound, Listed
  <2> QED BY <1>11, <1>18, <2>1, WhereFacts DEF NoTodos, Refiled
<1>28. \A i \in DOMAIN rest : rest[i] # Complete => G1[rest[i]] = Limbo
  <2> SUFFICES ASSUME NEW i \in DOMAIN rest PROVE G1[rest[i]] = Limbo
    OBVIOUS
  <2>1. rest[i] \in Txns /\ rest[i] \in Range(rest)
    BY <1>24, <1>26, ElementOfSeq DEF Range
  <2> QED BY <1>24, <1>27, <2>1
<1>29. PICK H : H = Cleared(G1, Elements(rest, Len(rest)))
  OBVIOUS
<1>30. Drops(K2, K3, S, R, G1, H)
  BY <1>9, <1>21, <1>24, <1>25, <1>28, <1>29, ReleaseWorkGood
<1>31. /\ K3 \in Kernel /\ Good(K3, S, R, H) /\ Spares(K2, K3)
       /\ \A h \in S : Due(K3, H, h) = Due(K, G, h)
  BY <1>22, <1>30 DEF Drops, Good, Typed
<1>32. L \in Kernel
  <2>1. L = binder_deferred_release(K, p)
    OBVIOUS
  <2> QED BY <1>1, <2>1, DeferredKeeps
<1>33. /\ L.txn = K3.txn /\ L.bug = K3.bug /\ L.stack = K3.stack
       /\ L.error = K3.error /\ L.error2 = K3.error2
       /\ L.live = K3.live /\ L.procs = K3.procs /\ L.todo = K3.todo
       /\ L.ptodo[p] = << >> /\ L.async_todo[p] = << >>
       /\ \A q \in Procs \ {p} : /\ L.ptodo[q] = K3.ptodo[q]
                                 /\ L.async_todo[q] = K3.async_todo[q]
                                 /\ L.has_async[q] = K3.has_async[q]
                                 /\ L.held[q] = K3.held[q]
  BY <1>10, <1>31 DEF Kernel
<1>34. R \subseteq Procs \ {p} /\ S \subseteq Threads
  BY <1>1, <1>2, <1>3, <1>17
<1>35. Good(L, S, R, H)
  <2>1. Elsewhere(K3, L, S, R)
    BY <1>32, <1>33, <1>34 DEF Elsewhere
  <2> QED BY <1>31, <2>1, ElsewhereKeeps
<1>36. L.live = S /\ L.procs = R /\ S = {h \in K.live : ProcOf[h] # p}
  BY <1>2, <1>4, <1>17, <1>20, <1>31, <1>33 DEF Spares
<1>37. \A h \in S : Due(L, H, h) = Due(K, G, h)
  <2> SUFFICES ASSUME NEW h \in S PROVE Due(L, H, h) = Due(K3, H, h)
    BY <1>31
  <2>1. Out(L, h) = Out(K3, h) /\ Replies(L, H, h) = Replies(K3, H, h)
    BY <1>33 DEF Out, Replies
  <2> QED BY <1>33, <2>1, DueSame
<1>38. Idle(K, L) /\ \A h \in K.live : ProcOf[h] = p => L.stack[h] = NoTxn
  <2>1. \A h \in Threads : K1.stack[h] = NoTxn => L.stack[h] = NoTxn
    BY <1>20, <1>31, <1>33 DEF Spares
  <2>2. \A h \in Threads : K.stack[h] = NoTxn => K1.stack[h] = NoTxn
    BY <1>19 DEF FreesAll
  <2>3. \A h \in F : K1.stack[h] = NoTxn
    BY <1>19 DEF FreesAll
  <2> QED BY <1>1, <1>4, <2>1, <2>2, <2>3 DEF Idle
<1>39. Listed(L, H)
  <2>1. ASSUME NEW u \in Txns
        PROVE  /\ G[u] = Ptodo(p) \/ G[u] = Async(p) => H[u] = Nowhere
               /\ (\E h \in F : G[u] = Todo(h)) => H[u] = Nowhere
               /\ \/ H[u] = G[u]
                  \/ G[u] = Ptodo(p) \/ G[u] = Async(p) \/ \E h \in F : G[u] = Todo(h)
    <3>1. u \in Range(rest) <=> G[u] = Ptodo(p) \/ G[u] = Async(p)
      BY <1>24
    <3>2. H[u] = IF u \in Range(rest) THEN Nowhere ELSE G1[u]
      BY <1>26, <1>29 DEF Cleared
    <3>3. CASE u \in Range(rest)
      BY <3>1, <3>2, <3>3, WhereFacts
    <3>4. CASE u \notin Range(rest)
      <4>1. G0[u] = G[u] /\ H[u] = G1[u]
        BY <1>11, <3>1, <3>2, <3>4 DEF Refiled
      <4> QED BY <1>18, <3>1, <3>4, <4>1 DEF NoTodos
    <3> QED BY <3>3, <3>4
  <2>2. ASSUME NEW h \in Threads
        PROVE  L.todo[h] = IF h \in F THEN << >> ELSE K.todo[h]
    BY <1>19, <1>20, <1>31, <1>33 DEF Spares, FreesAll
  <2>3. /\ \A q \in Procs \ {p} : /\ L.ptodo[q] = K.ptodo[q]
                                  /\ L.async_todo[q] = K.async_todo[q]
    BY <1>19, <1>20, <1>31, <1>33 DEF Spares, FreesAll
  <2>4. Range(<< >>) = {} /\ NoRep(<< >>)
    BY DEF Range, NoRep
  <2>5. ASSUME NEW u \in Txns, NEW h \in Threads
        PROVE  u \in Range(L.todo[h]) <=> H[u] = Todo(h)
    <3>1. u \in Range(K.todo[h]) <=> G[u] = Todo(h)
      BY DEF Sound, Listed
    <3>2. CASE h \in F
      <4>1. u \notin Range(L.todo[h])
        BY <2>2, <2>4, <3>2
      <4>2. H[u] # Todo(h)
        BY <2>1, <3>2, WhereFacts
      <4> QED BY <4>1, <4>2
    <3>3. CASE h \notin F
      <4>1. L.todo[h] = K.todo[h]
        BY <2>2, <3>3
      <4>2. H[u] = Todo(h) <=> G[u] = Todo(h)
        BY <2>1, <3>3, WhereFacts
      <4> QED BY <3>1, <4>1, <4>2
    <3> QED BY <3>2, <3>3
  <2>6. ASSUME NEW u \in Txns, NEW q \in Procs
        PROVE  /\ u \in Range(L.ptodo[q]) <=> H[u] = Ptodo(q)
               /\ u \in Range(L.async_todo[q]) <=> H[u] = Async(q)
    <3>1. /\ u \in Range(K.ptodo[q]) <=> G[u] = Ptodo(q)
          /\ u \in Range(K.async_todo[q]) <=> G[u] = Async(q)
      BY DEF Sound, Listed
    <3>2. CASE q = p
      <4>1. u \notin Range(L.ptodo[p]) /\ u \notin Range(L.async_todo[p])
        BY <1>33, <2>4
      <4>2. H[u] # Ptodo(p) /\ H[u] # Async(p)
        BY <2>1, WhereFacts
      <4> QED BY <3>2, <4>1, <4>2
    <3>3. CASE q # p
      <4>1. L.ptodo[q] = K.ptodo[q] /\ L.async_todo[q] = K.async_todo[q]
        BY <2>3, <3>3
      <4>2. (H[u] = Ptodo(q) <=> G[u] = Ptodo(q)) /\ (H[u] = Async(q) <=> G[u] = Async(q))
        BY <2>1, <3>3, WhereFacts
      <4> QED BY <3>1, <4>1, <4>2
    <3> QED BY <3>2, <3>3
  <2>7. ASSUME NEW u \in Txns PROVE H[u] # Limbo
    <3>1. G[u] # Limbo
      BY DEF Sound, Listed
    <3> QED BY <2>1, <3>1, WhereFacts
  <2>8. ASSUME NEW h \in Threads PROVE NoRep(L.todo[h])
    <3>1. NoRep(K.todo[h])
      BY DEF Sound, Listed
    <3> QED BY <2>2, <2>4, <3>1
  <2>9. ASSUME NEW q \in Procs PROVE NoRep(L.ptodo[q]) /\ NoRep(L.async_todo[q])
    <3>1. NoRep(K.ptodo[q]) /\ NoRep(K.async_todo[q])
      BY DEF Sound, Listed
    <3>2. CASE q = p
      BY <1>33, <2>4, <3>2
    <3>3. CASE q # p
      BY <2>3, <3>1, <3>3
    <3> QED BY <3>2, <3>3
  <2> QED BY <2>5, <2>6, <2>7, <2>8, <2>9 DEF Listed
<1>40. Sound(L, H)
  BY <1>35, <1>36, <1>39 DEF Sound
<1>41. Released(K, L, G, H, p)
  <2>1. \A h \in L.live : Due(L, H, h) = Due(K, G, h)
    BY <1>36, <1>37
  <2>2. L.live = {h \in K.live : ProcOf[h] # p} /\ L.procs = K.procs \ {p}
    BY <1>3, <1>36
  <2> QED BY <1>38, <1>40, <2>1, <2>2 DEF Released
<1> QED BY <1>41

-----------------------------------------------------------------------------
(* The lists hold what is filed there.                                     *)

Holds(list, G, w) ==
  /\ \A t \in Txns : t \in Range(list) <=> G[t] = w
  /\ NoRep(list)

LEMMA ListedHolds ==
  ASSUME NEW K, NEW G
  PROVE  Listed(K, G) <=> /\ \A h \in Threads : Holds(K.todo[h], G, Todo(h))
                          /\ \A p \in Procs : /\ Holds(K.ptodo[p], G, Ptodo(p))
                                              /\ Holds(K.async_todo[p], G, Async(p))
                          /\ \A t \in Txns : G[t] # Limbo
BY DEF Listed, Holds

LEMMA HoldsSame ==
  ASSUME NEW list, NEW G, NEW H, NEW w, Holds(list, G, w),
         \A t \in Txns : H[t] = w <=> G[t] = w
  PROVE  Holds(list, H, w)
BY DEF Holds

(* One more at the end of a list.                                          *)
LEMMA AppendRange ==
  ASSUME NEW list \in Seq(Works), NEW w \in Works, NEW l, l = Append(list, w)
  PROVE  /\ l \in Seq(Works) /\ Range(l) = Range(list) \cup {w}
         /\ NoRep(list) /\ (w = Complete \/ w \notin Range(list)) => NoRep(l)
<1>1. PICK n \in Nat : n = Len(list) /\ DOMAIN list = 1 .. n
  BY LenProperties
<1>2. /\ l \in Seq(Works) /\ Len(l) = n + 1 /\ l[n + 1] = w
      /\ \A i \in 1 .. n : l[i] = list[i]
  BY <1>1, AppendProperties
<1>3. DOMAIN l = 1 .. n + 1
  BY <1>2, LenProperties
<1>4. \A i \in 1 .. n + 1 : i \in 1 .. n \/ i = n + 1
  OBVIOUS
<1>5. \A i \in 1 .. n : i \in 1 .. n + 1
  OBVIOUS
<1>6. n + 1 \in 1 .. n + 1
  OBVIOUS
<1>7. Range(l) = Range(list) \cup {w}
  <2>1. ASSUME NEW x \in Range(l) PROVE x \in Range(list) \cup {w}
    BY <1>1, <1>2, <1>3, <1>4 DEF Range
  <2>2. ASSUME NEW x \in Range(list) PROVE x \in Range(l)
    BY <1>1, <1>2, <1>3, <1>5 DEF Range
  <2>3. w \in Range(l)
    BY <1>2, <1>3, <1>6 DEF Range
  <2> QED BY <2>1, <2>2, <2>3
<1>8. ASSUME NoRep(list), w = Complete \/ w \notin Range(list) PROVE NoRep(l)
  <2> SUFFICES ASSUME NEW i \in 1 .. n + 1, NEW j \in 1 .. n + 1,
                      l[i] = l[j], l[i] # Complete
               PROVE  i = j
    BY <1>3 DEF NoRep
  <2>1. \A m \in 1 .. n : l[m] = list[m] /\ list[m] \in Range(list)
    BY <1>1, <1>2 DEF Range
  <2>2. CASE i \in 1 .. n /\ j \in 1 .. n
    BY <1>1, <1>8, <2>1, <2>2 DEF NoRep
  <2>3. CASE i = n + 1 /\ j \in 1 .. n
    BY <1>2, <1>8, <2>1, <2>3
  <2>4. CASE i \in 1 .. n /\ j = n + 1
    BY <1>2, <1>8, <2>1, <2>4
  <2> QED BY <1>4, <2>2, <2>3, <2>4
<1> QED BY <1>2, <1>7, <1>8

LEMMA HoldsComplete ==
  ASSUME NEW list \in Seq(Works), NEW G, NEW w, Holds(list, G, w),
         NEW l, l = Append(list, Complete)
  PROVE  l \in Seq(Works) /\ Holds(l, G, w)
<1>1. Complete \in Works /\ Complete \notin Txns
  BY BinderAssumption DEF Works
<1>2. l \in Seq(Works) /\ Range(l) = Range(list) \cup {Complete} /\ NoRep(l)
  BY <1>1, AppendRange DEF Holds
<1> QED BY <1>1, <1>2 DEF Holds

LEMMA HoldsNew ==
  ASSUME NEW list \in Seq(Works), NEW G, NEW w, Holds(list, G, w), NEW t \in Txns,
         G[t] # w, NEW H, \A u \in Txns \ {t} : H[u] = G[u], H[t] = w,
         NEW l, l = Append(list, t)
  PROVE  l \in Seq(Works) /\ Holds(l, H, w)
<1>1. t \in Works /\ t \notin Range(list)
  BY DEF Works, Holds
<1>2. l \in Seq(Works) /\ Range(l) = Range(list) \cup {t} /\ NoRep(l)
  BY <1>1, AppendRange DEF Holds
<1> QED BY <1>2 DEF Holds

(* The first of a list is taken off.                                       *)
Tails(list, l, t) == list # << >> /\ t = Head(list) /\ l = Tail(list)

LEMMA HoldsTail ==
  ASSUME NEW list \in Seq(Works), NEW G, NEW w, Holds(list, G, w), NEW l,
         NEW t \in Txns, Tails(list, l, t), NEW H, H[t] # w,
         \A u \in Txns \ {t} : H[u] = G[u]
  PROVE  /\ l \in Seq(Works) /\ Holds(l, H, w) /\ G[t] = w
         /\ Range(l) \subseteq Range(list)
<1>1. PICK n \in Nat \ {0} : n = Len(list) /\ DOMAIN list = 1 .. n
  BY LenProperties, EmptySeq DEF Tails
<1>2. t = list[1]
  BY <1>1, HeadIsFirst DEF Tails
<1>3. /\ l \in Seq(Works) /\ Len(l) = n - 1
      /\ \A i \in 1 .. n - 1 : l[i] = list[i + 1]
  BY <1>1, HeadTailProperties DEF Tails
<1>4. DOMAIN l = 1 .. n - 1
  BY <1>3, LenProperties
<1>5. /\ 1 \in 1 .. n
      /\ \A i \in 1 .. n - 1 : i + 1 \in 1 .. n /\ i + 1 # 1
      /\ \A i \in 1 .. n : i # 1 => i - 1 \in 1 .. n - 1 /\ (i - 1) + 1 = i
  OBVIOUS
<1>6. t # Complete
  BY BinderAssumption
<1>7. \A i \in 1 .. n : list[i] = t => i = 1
  BY <1>1, <1>2, <1>5, <1>6 DEF Holds, NoRep
<1>8. Range(l) = Range(list) \ {t}
  <2>1. ASSUME NEW x \in Range(l) PROVE x \in Range(list) \ {t}
    BY <1>1, <1>3, <1>4, <1>5, <1>7 DEF Range
  <2>2. ASSUME NEW x \in Range(list) \ {t} PROVE x \in Range(l)
    <3>1. PICK i \in 1 .. n : list[i] = x
      BY <1>1 DEF Range
    <3>2. i - 1 \in 1 .. n - 1 /\ (i - 1) + 1 = i
      BY <1>2, <1>5, <3>1
    <3> QED BY <1>3, <1>4, <3>1, <3>2 DEF Range
  <2> QED BY <2>1, <2>2
<1>9. NoRep(l)
  <2> SUFFICES ASSUME NEW i \in 1 .. n - 1, NEW j \in 1 .. n - 1,
                      l[i] = l[j], l[i] # Complete
               PROVE  i = j
    BY <1>4 DEF NoRep
  <2>1. list[i + 1] = list[j + 1] /\ list[i + 1] # Complete
    BY <1>3
  <2>2. i + 1 = j + 1
    BY <1>1, <1>5, <2>1 DEF Holds, NoRep
  <2> QED BY <2>2
<1>10. G[t] = w
  BY <1>1, <1>2, <1>5 DEF Holds, Range
<1> QED BY <1>3, <1>8, <1>9, <1>10 DEF Holds

(* Completions in front go.                                                *)
LEMMA HoldsSuffix ==
  ASSUME NEW list \in Seq(Works), NEW G, NEW w, Holds(list, G, w),
         NEW N \in Nat, N = Len(list),
         NEW n \in 0 .. N, \A i \in 1 .. n : list[i] = Complete,
         NEW rest, rest = SubSeq(list, n + 1, Len(list))
  PROVE  rest \in Seq(Works) /\ Holds(rest, G, w)
<1>1. rest \in Seq(Works)
  BY SubSeqProperties
<1>2. DOMAIN list = 1 .. N
  BY LenProperties
<1>3. n \in 0 .. N /\ \A i \in 1 .. n : list[i] = Complete
  OBVIOUS
<1>4. /\ Len(rest) = N - n /\ \A i \in 1 .. N - n : rest[i] = list[n + i]
  <2>1. /\ n + 1 \in Int /\ N \in Int /\ 1 <= n + 1 /\ n + 1 <= N + 1 /\ N <= Len(list)
        /\ N - (n + 1) + 1 = N - n
    BY <1>2, <1>3
  <2>2. /\ Len(rest) = N - (n + 1) + 1
        /\ \A i \in 1 .. N - (n + 1) + 1 : rest[i] = list[(n + 1) + i - 1]
    BY <1>2, <2>1, SubSeqFacts
  <2>3. \A i \in 1 .. N - n : (n + 1) + i - 1 = n + i
    BY <1>3
  <2> QED BY <2>1, <2>2, <2>3
<1>5. DOMAIN rest = 1 .. N - n
  BY <1>1, <1>4, LenProperties
<1>6. \A i \in 1 .. N - n : n + i \in 1 .. N /\ \A j \in 1 .. N - n : n + i = n + j => i = j
  BY <1>3
<1>7. \A i \in 1 .. N : i \in 1 .. n \/ (i - n \in 1 .. N - n /\ n + (i - n) = i)
  BY <1>3
<1>8. \A t \in Txns : t \in Range(rest) <=> t \in Range(list)
  <2> SUFFICES ASSUME NEW t \in Txns PROVE t \in Range(rest) <=> t \in Range(list)
    OBVIOUS
  <2>1. ASSUME t \in Range(rest) PROVE t \in Range(list)
    <3>1. PICK i \in 1 .. N - n : rest[i] = t
      BY <1>5, <2>1 DEF Range
    <3> QED BY <1>2, <1>4, <1>6, <3>1 DEF Range
  <2>2. ASSUME t \in Range(list) PROVE t \in Range(rest)
    <3>1. PICK i \in 1 .. N : list[i] = t
      BY <1>2, <2>2 DEF Range
    <3>2. i - n \in 1 .. N - n /\ n + (i - n) = i
      BY <1>3, <1>7, <3>1, BinderAssumption
    <3> QED BY <1>4, <1>5, <3>1, <3>2 DEF Range
  <2> QED BY <2>1, <2>2
<1>9. NoRep(rest)
  <2> SUFFICES ASSUME NEW i \in 1 .. N - n, NEW j \in 1 .. N - n,
                      rest[i] = rest[j], rest[i] # Complete
               PROVE  i = j
    BY <1>5, ZenonT(60) DEF NoRep
  <2>1. list[n + i] = list[n + j] /\ list[n + i] # Complete
    BY <1>4
  <2>2. n + i = n + j
    BY <1>2, <1>6, <2>1 DEF Holds, NoRep
  <2> QED BY <1>6, <2>2
<1> QED BY <1>1, <1>8, <1>9 DEF Holds

LEMMA HoldsRest ==
  ASSUME NEW list \in Seq(Works), NEW G, NEW w, Holds(list, G, w),
         NEW n, n = Completions(list),
         NEW rest, rest = SubSeq(list, n + 1, Len(list))
  PROVE  /\ rest \in Seq(Works) /\ Holds(rest, G, w)
         /\ rest # << >> => Head(rest) \in Txns
<1>1. rest \in Seq(Works) /\ (rest # << >> => Head(rest) \in Txns)
  BY RestFacts
<1>2. PICK N \in Nat : N = Len(list) /\ DOMAIN list = 1 .. N
  BY LenProperties
<1>3. n \in 0 .. N /\ \A i \in 1 .. n : list[i] = Complete
  <2>1. CASE \A i \in DOMAIN list : list[i] = Complete
    <3>1. n = N
      BY <1>2, <2>1 DEF Completions
    <3> QED BY <1>2, <2>1, <3>1
  <2>2. CASE ~ \A i \in DOMAIN list : list[i] = Complete
    <3> DEFINE I == {i \in 1 .. Len(list) : list[i] # Complete}
    <3>1. I # {} /\ I \in SUBSET Nat
      BY <1>2, <2>2
    <3>2. \E c \in I : \A i \in I : c <= i
      <4> HIDE DEF I
      <4> QED BY <3>1, SmallestOf
    <3>3. PICK d \in I : d = Min(I) /\ \A e \in I : d <= e
      BY <3>2 DEF Min
    <3>4. d \in 1 .. N /\ \A e \in 1 .. d - 1 : list[e] = Complete
      <4>1. d \in 1 .. N
        BY <1>2, <3>3
      <4>2. ASSUME NEW e \in 1 .. d - 1 PROVE list[e] = Complete
        <5>1. e \in 1 .. N /\ e \in Nat /\ d \in Nat /\ ~ (d <= e)
          BY <4>1
        <5>2. e \notin I
          BY <3>3, <5>1
        <5> QED BY <1>2, <5>1, <5>2
      <4> QED BY <4>1, <4>2
    <3>5. SelectInSeq(list, LAMBDA x : x # Complete) = d
      BY <3>1, <3>3 DEF SelectInSeq
    <3>6. n = d - 1
      BY <2>2, <3>5 DEF Completions
    <3> QED BY <3>4, <3>6
  <2> QED BY <2>1, <2>2
<1>4. Holds(rest, G, w)
  BY <1>2, <1>3, HoldsSuffix
<1> QED BY <1>1, <1>4

-----------------------------------------------------------------------------
(* Steps of a thread h.                                                    *)

(* What the others wait for, and what they have, is as before.             *)
Step(K, L, G, H, h) ==
  /\ Sound(L, H) /\ L.live = K.live /\ L.procs = K.procs
  /\ \A g \in Threads \ {h} : K.stack[g] = NoTxn => L.stack[g] = NoTxn
  /\ \A g \in K.live \ {h} : Due(L, H, g) = Due(K, G, g)

(* Only wait queues change.                                                *)
Same(K, L) ==
  /\ L \in Kernel /\ L.txn = K.txn /\ L.stack = K.stack /\ L.bug = K.bug
  /\ L.error = K.error /\ L.error2 = K.error2
  /\ L.live = K.live /\ L.procs = K.procs
  /\ L.todo = K.todo /\ L.ptodo = K.ptodo /\ L.async_todo = K.async_todo
  /\ L.has_async = K.has_async /\ L.held = K.held

LEMMA SameSound ==
  ASSUME NEW K, NEW L, NEW G, Sound(K, G), Same(K, L)
  PROVE  Sound(L, G) /\ \A h : Due(L, G, h) = Due(K, G, h)
<1>1. Elsewhere(K, L, K.live, K.procs)
  BY DEF Same, Elsewhere
<1>2. Good(L, K.live, K.procs, G)
  BY <1>1, ElsewhereKeeps DEF Sound
<1>3. Listed(L, G)
  BY DEF Sound, Listed, Same
<1>4. ASSUME NEW h PROVE Due(L, G, h) = Due(K, G, h)
  <2>1. Out(L, h) = Out(K, h) /\ Replies(L, G, h) = Replies(K, G, h)
    BY DEF Same, Out, Replies
  <2> QED BY <2>1, DueSame DEF Same
<1>5. L.live = K.live /\ L.procs = K.procs
  BY DEF Same
<1> QED BY <1>2, <1>3, <1>4, <1>5 DEF Sound

LEMMA StepSame ==
  ASSUME NEW K, NEW L, NEW M, NEW G, NEW H, NEW h, Step(K, L, G, H, h), Same(L, M)
  PROVE  Step(K, M, G, H, h) /\ Due(M, H, h) = Due(L, H, h)
<1>1. Sound(M, H) /\ \A g : Due(M, H, g) = Due(L, H, g)
  BY SameSound DEF Step
<1>2. M.live = L.live /\ M.procs = L.procs /\ M.stack = L.stack
  BY DEF Same
<1>3. Due(M, H, h) = Due(L, H, h)
  BY <1>1, Zenon
<1>4. \A g \in K.live \ {h} : Due(M, H, g) = Due(L, H, g)
  BY <1>1, Zenon
<1> QED BY <1>1, <1>2, <1>3, <1>4 DEF Step

LEMMA WakeSame ==
  ASSUME NEW K \in Kernel
  PROVE  /\ \A h : Same(K, wake_thread(K, h))
         /\ \A p \in Procs : Same(K, wake_proc(K, p)) /\ Same(K, AfterRead(K, p))
<1>1. Same(K, K)
  BY DEF Same
<1>2. ASSUME NEW h PROVE Same(K, wake_thread(K, h))
  <2>1. PICK L : L = wake_thread(K, h)
    OBVIOUS
  <2>2. L = [K EXCEPT !.waits = @ \ {h}]
    BY <2>1 DEF wake_thread
  <2>3. Same(K, L)
    BY <2>2 DEF Same, Kernel
  <2> QED BY <2>1, <2>3
<1>3. ASSUME NEW p \in Procs PROVE Same(K, wake_proc(K, p))
  <2>1. CASE K.pwait[p] = << >>
    BY <1>1, <2>1 DEF wake_proc
  <2>2. CASE K.pwait[p] # << >>
    <3>1. PICK list \in Seq(Threads) : list = Tail(K.pwait[p])
      <4>1. K.pwait[p] \in Seq(Threads)
        BY DEF Kernel
      <4> QED BY <2>2, <4>1, HeadTailProperties
    <3>2. PICK L : L = [K EXCEPT !.pwait[p] = list]
      OBVIOUS
    <3>3. wake_proc(K, p) = L
      BY <2>2, <3>1, <3>2 DEF wake_proc
    <3>4. Same(K, L)
      BY <3>2 DEF Same, Kernel
    <3> QED BY <3>3, <3>4
  <2> QED BY <2>1, <2>2
<1> QED BY <1>1, <1>2, <1>3 DEF AfterRead

(* Nothing changes that calls are about.                                   *)
LEMMA AsideGood ==
  ASSUME NEW K, NEW T, NEW R, NEW G, Good(K, T, R, G), NEW L, NEW H,
         Aside(K, L, G, H),
         \A u \in Txns : L.txn[u] # K.txn[u] \/ H[u] # G[u] => FiledAt(L, T, R, H, u),
         ~ L.bug, \A g \in T : \/ L.error[g] = K.error[g] /\ L.error2[g] = K.error2[g]
                               \/ L.error2[g] = "OK",
         Serial(L, R, H)
  PROVE  Good(L, T, R, H)
<1>1. Beside(K, L, T, R, G, H)
  BY AsideKeeps
<1>2. Filed(L, T, R, H)
  BY <1>1 DEF Beside, Filed
<1>3. Errors(L, T)
  <2>1. L.stack = K.stack /\ \A g \in T : Out(L, g) = Out(K, g)
    BY <1>1 DEF Aside, Beside
  <2> QED BY <2>1 DEF Errors, Good
<1>4. Typed(L, T, R, H)
  BY DEF Typed, Good, Aside
<1> QED BY <1>1, <1>2, <1>3, <1>4 DEF Good, Beside

(* The error codes of h change.                                            *)
Recodes(K, L, h) ==
  /\ L \in Kernel /\ L.txn = K.txn /\ L.stack = K.stack /\ ~ L.bug
  /\ L.error2[h] = "OK"
  /\ \A g \in Threads \ {h} : L.error[g] = K.error[g] /\ L.error2[g] = K.error2[g]
  /\ L.live = K.live /\ L.procs = K.procs
  /\ L.todo = K.todo /\ L.ptodo = K.ptodo /\ L.async_todo = K.async_todo
  /\ L.has_async = K.has_async /\ L.held = K.held

LEMMA RecodeGood ==
  ASSUME NEW K, NEW L, NEW T, NEW R, NEW G, Good(K, T, R, G), NEW h \in T,
         Recodes(K, L, h)
  PROVE  Good(L, T, R, G)
<1>1. /\ K \in Kernel /\ T \in SUBSET Threads /\ R \in SUBSET Procs
      /\ G \in [Txns -> Wheres]
  BY DEF Good, Typed
<1>2. Aside(K, L, G, G)
  BY <1>1 DEF Aside, Recodes
<1>3. Serial(L, R, G)
  <2>1. \A p \in R : OutTo(L, G, p) = OutTo(K, G, p)
    BY DEF OutTo, Recodes
  <2>2. L.held = K.held /\ L.has_async = K.has_async
    BY DEF Recodes
  <2> QED BY <2>1, <2>2 DEF Good, Serial, SerialAt
<1>4. \A u \in Txns : L.txn[u] # K.txn[u] \/ G[u] # G[u] => FiledAt(L, T, R, G, u)
  BY DEF Recodes
<1>5. \A g \in T : \/ L.error[g] = K.error[g] /\ L.error2[g] = K.error2[g]
                   \/ L.error2[g] = "OK"
  BY <1>1 DEF Recodes
<1>6. ~ L.bug
  BY DEF Recodes
<1> QED BY <1>2, <1>3, <1>4, <1>5, <1>6, AsideGood

LEMMA RecodeStep ==
  ASSUME NEW K, NEW L, NEW G, Sound(K, G), NEW h \in K.live, Recodes(K, L, h)
  PROVE  /\ Step(K, L, G, G, h)
         /\ Due(L, G, h) + Answers(K, h) = Due(K, G, h) + Answer(L.error[h])
<1>1. /\ K \in Kernel /\ K.live \in SUBSET Threads /\ K.procs \in SUBSET Procs
      /\ G \in [Txns -> Wheres]
  BY DEF Sound, Good, Typed
<1>2. Good(L, K.live, K.procs, G)
  BY RecodeGood DEF Sound
<1>5. Listed(L, G)
  BY DEF Sound, Listed, Recodes
<1>6. Sound(L, G)
  BY <1>2, <1>5 DEF Sound, Recodes
<1>7. \A g : Out(L, g) = Out(K, g) /\ Replies(L, G, g) = Replies(K, G, g)
  BY DEF Recodes, Out, Replies
<1>8. ASSUME NEW g \in K.live \ {h} PROVE Due(L, G, g) = Due(K, G, g)
  <2>1. Out(L, g) = Out(K, g) /\ Replies(L, G, g) = Replies(K, G, g)
    BY <1>7, Zenon
  <2>2. L.error[g] = K.error[g] /\ L.error2[g] = K.error2[g]
    BY <1>1 DEF Recodes
  <2> QED BY <2>1, <2>2, DueSame
<1>9. Step(K, L, G, G, h)
  BY <1>6, <1>8 DEF Step, Recodes
<1>10. Due(L, G, h) + Answers(K, h) = Due(K, G, h) + Answer(L.error[h])
  <2>1. Out(L, h) = Out(K, h) /\ Replies(L, G, h) = Replies(K, G, h)
    BY <1>7, Zenon
  <2>2. PICK a \in Nat : a = Cardinality(Out(K, h))
    BY DueType
  <2>3. PICK b \in Nat : b = Cardinality(Replies(K, G, h))
    BY DueType
  <2>4. PICK c \in Nat : c = Answer(K.error[h])
    BY DueType
  <2>5. PICK d \in Nat : d = Answer(K.error2[h])
    BY DueType
  <2>6. PICK e \in Nat : e = Answer(L.error[h])
    BY DueType
  <2>7. Answer(L.error2[h]) = 0
    BY DEF Recodes, Answer
  <2>8. Due(L, G, h) = a + b + e + 0 /\ Due(K, G, h) = a + b + c + d
    BY <2>1, <2>2, <2>3, <2>4, <2>5, <2>6, <2>7 DEF Due
  <2>9. Answers(K, h) = c + d
    BY <2>4, <2>5, AnswersValue
  <2> QED BY <2>6, <2>8, <2>9
<1> QED BY <1>9, <1>10

LEMMA StepTrans ==
  ASSUME NEW K, NEW L, NEW M, NEW F, NEW G, NEW H, NEW h,
         Step(K, L, F, G, h), Step(L, M, G, H, h)
  PROVE  Step(K, M, F, H, h)
BY DEF Step

LEMMA FailRecodes ==
  ASSUME NEW K \in Kernel, NEW h \in Threads, ~ K.bug, K.error[h] = "OK",
         K.error2[h] = "OK", NEW code \in Codes, NEW L, L = Fail(K, h, code)
  PROVE  Recodes(K, L, h) /\ L.error[h] = code
<1>1. PICK M : M = [K EXCEPT !.error[h] = code, !.bug = FALSE]
  OBVIOUS
<1>2. L = M
  BY <1>1 DEF Fail
<1>3. M \in Kernel
  BY <1>2, FailKeeps
<1>4. Recodes(K, M, h) /\ M.error[h] = code
  BY <1>1, <1>3 DEF Recodes, Kernel
<1> QED BY <1>2, <1>4

LEMMA FailStep ==
  ASSUME NEW K, NEW G, Sound(K, G), NEW h \in K.live, K.error[h] = "OK",
         NEW code \in Codes, NEW L, L = Fail(K, h, code)
  PROVE  /\ Step(K, L, G, G, h) /\ L.error[h] = code
         /\ Due(L, G, h) = Due(K, G, h) + Answer(code)
<1>1. K \in Kernel /\ h \in Threads /\ ~ K.bug /\ K.error2[h] = "OK"
  BY DEF Sound, Good, Typed, Errors, Kernel
<1>5. Recodes(K, L, h) /\ L.error[h] = code
  BY <1>1, FailRecodes
<1>6. /\ Step(K, L, G, G, h)
      /\ Due(L, G, h) + Answers(K, h) = Due(K, G, h) + Answer(L.error[h])
  BY <1>5, RecodeStep
<1>7. Answers(K, h) = 0
  <2>1. Answer(K.error[h]) = 0 /\ Answer(K.error2[h]) = 0
    BY <1>1 DEF Answer
  <2> QED BY <2>1, AnswersValue
<1>8. Due(L, G, h) \in Nat /\ Due(K, G, h) \in Nat /\ Answer(code) \in Nat
  BY DueType
<1>9. PICK a \in Nat : a = Due(L, G, h)
  BY <1>8
<1>10. PICK b \in Nat : b = Due(K, G, h)
  BY <1>8
<1>11. PICK c \in Nat : c = Answer(code)
  BY <1>8
<1>12. a + 0 = b + c
  BY <1>5, <1>6, <1>7, <1>9, <1>10, <1>11
<1>13. a = b + c
  BY <1>12
<1> QED BY <1>5, <1>6, <1>9, <1>10, <1>11, <1>13

(* A thread is gone, and what the others wait for is not.                  *)
Exits(K, L, G, H, h) ==
  /\ Sound(L, H) /\ Idle(K, L)
  /\ L.live = K.live \ {h} /\ L.procs = K.procs /\ L.stack[h] = NoTxn
  /\ \A g \in L.live : Due(L, H, g) = Due(K, G, g)

LEMMA ExitGood ==
  ASSUME NEW K, NEW G, Sound(K, G), NEW h \in K.live, NoneLost(K, K.procs, G, h),
         NEW L, L = binder_free_thread(K, h), NEW H, H = NoTodo(G, h)
  PROVE  Exits(K, L, G, H, h)
<1>1. /\ K \in Kernel /\ K.live \in SUBSET Threads /\ G \in [Txns -> Wheres]
      /\ Good(K, K.live, K.procs, G) /\ Listed(K, G)
  BY DEF Sound, Good, Typed
<1>2. ListedAt(K, G, h)
  BY <1>1, ListedHere
<1>3. FreedWell(K, L, K.live, K.procs, G, H, h)
  BY <1>1, <1>2, FreeThreadGood
<1>4. /\ Good(L, K.live \ {h}, K.procs, H) /\ Frees(K, L, h)
      /\ \A g \in K.live \ {h} : Due(L, H, g) = Due(K, G, g)
  BY <1>3 DEF FreedWell
<1>5. Listed(L, H)
  <2>1. \A u \in Txns : /\ G[u] = Todo(h) => H[u] = Nowhere
                        /\ G[u] # Todo(h) => H[u] = G[u]
    BY DEF NoTodo
  <2>2. ASSUME NEW g \in Threads PROVE Holds(L.todo[g], H, Todo(g))
    <3>1. Holds(K.todo[g], G, Todo(g))
      BY <1>1, ListedHolds
    <3>2. K.todo \in [Threads -> Seq(Txns \cup {Complete})]
      BY <1>1 DEF Kernel
    <3>3. CASE g = h
      <4>1. L.todo[g] = << >>
        BY <1>1, <1>4, <3>2, <3>3 DEF Frees
      <4>2. \A u \in Txns : H[u] # Todo(g)
        BY <2>1, <3>3, WhereFacts
      <4>3. Range(<< >>) = {} /\ NoRep(<< >>)
        BY DEF Range, NoRep
      <4> QED BY <4>1, <4>2, <4>3 DEF Holds
    <3>4. CASE g # h
      <4>1. L.todo[g] = K.todo[g]
        BY <1>1, <1>4, <3>2, <3>4 DEF Frees
      <4>2. \A u \in Txns : H[u] = Todo(g) <=> G[u] = Todo(g)
        BY <2>1, <3>4, WhereFacts
      <4> QED BY <3>1, <4>1, <4>2, HoldsSame
    <3> QED BY <3>3, <3>4
  <2>3. ASSUME NEW p \in Procs
        PROVE  Holds(L.ptodo[p], H, Ptodo(p)) /\ Holds(L.async_todo[p], H, Async(p))
    <3>1. Holds(K.ptodo[p], G, Ptodo(p)) /\ Holds(K.async_todo[p], G, Async(p))
      BY <1>1, ListedHolds
    <3>2. L.ptodo = K.ptodo /\ L.async_todo = K.async_todo
      BY <1>4 DEF Frees
    <3>3. \A u \in Txns : H[u] = Ptodo(p) <=> G[u] = Ptodo(p)
      BY <2>1, WhereFacts
    <3>4. \A u \in Txns : H[u] = Async(p) <=> G[u] = Async(p)
      BY <2>1, WhereFacts
    <3>5. Holds(L.ptodo[p], H, Ptodo(p))
      BY <3>1, <3>2, <3>3, HoldsSame
    <3>6. Holds(L.async_todo[p], H, Async(p))
      BY <3>1, <3>2, <3>4, HoldsSame
    <3> QED BY <3>5, <3>6
  <2>4. \A u \in Txns : H[u] # Limbo
    BY <1>1, <2>1, WhereFacts DEF Listed
  <2> QED BY <2>2, <2>3, <2>4, ListedHolds
<1>6. L.live = K.live \ {h} /\ L.procs = K.procs /\ L.stack[h] = NoTxn /\ Idle(K, L)
  BY <1>4 DEF Frees, Idle
<1>7. Sound(L, H)
  BY <1>4, <1>5, <1>6 DEF Sound
<1> QED BY <1>4, <1>6, <1>7 DEF Exits

(* Only lists change, and they hold the same transactions.                 *)
Relists(K, L) ==
  /\ L \in Kernel /\ L.txn = K.txn /\ L.stack = K.stack /\ L.bug = K.bug
  /\ L.error = K.error /\ L.error2 = K.error2
  /\ L.live = K.live /\ L.procs = K.procs
  /\ L.has_async = K.has_async /\ L.held = K.held

LEMMA RelistStep ==
  ASSUME NEW K, NEW L, NEW G, Sound(K, G), Relists(K, L), Listed(L, G), NEW h
  PROVE  Step(K, L, G, G, h) /\ Due(L, G, h) = Due(K, G, h)
<1>1. Elsewhere(K, L, K.live, K.procs)
  BY DEF Relists, Elsewhere
<1>2. Good(L, K.live, K.procs, G)
  BY <1>1, ElsewhereKeeps DEF Sound
<1>3. L.live = K.live /\ L.procs = K.procs /\ L.stack = K.stack
  BY DEF Relists
<1>4. ASSUME NEW g PROVE Due(L, G, g) = Due(K, G, g)
  <2>1. Out(L, g) = Out(K, g) /\ Replies(L, G, g) = Replies(K, G, g)
    BY DEF Relists, Out, Replies
  <2> QED BY <2>1, DueSame DEF Relists
<1>5. Due(L, G, h) = Due(K, G, h) /\ \A g \in K.live \ {h} : Due(L, G, g) = Due(K, G, g)
  BY <1>4, Zenon
<1>6. Sound(L, G)
  BY <1>2, <1>3 DEF Sound
<1> QED BY <1>3, <1>5, <1>6 DEF Step

LEMMA CompleteStep ==
  ASSUME NEW K, NEW G, Sound(K, G), NEW h \in Threads,
         NEW L, L = [K EXCEPT !.todo[h] = Append(@, Complete)]
  PROVE  Step(K, L, G, G, h) /\ Due(L, G, h) = Due(K, G, h)
<1>1. K \in Kernel /\ Listed(K, G)
  BY DEF Sound, Good, Typed
<1>2. PICK l : l = Append(K.todo[h], Complete)
  OBVIOUS
<1>3. l \in Seq(Works) /\ Holds(l, G, Todo(h))
  <2>1. K.todo[h] \in Seq(Works)
    BY <1>1 DEF Kernel, Works
  <2>2. Holds(K.todo[h], G, Todo(h))
    BY <1>1, ListedHolds
  <2> QED BY <1>2, <2>1, <2>2, HoldsComplete
<1>4. PICK M : M = [K EXCEPT !.todo[h] = l] /\ L = M
  BY <1>2
<1>5. Relists(K, M)
  <2>1. l \in Seq(Txns \cup {Complete})
    BY <1>3 DEF Works
  <2>2. M \in Kernel
    BY <1>1, <1>4, <2>1 DEF Kernel
  <2> QED BY <1>1, <1>4, <2>2 DEF Relists, Kernel
<1>6. /\ M.ptodo = K.ptodo /\ M.async_todo = K.async_todo
      /\ M.todo[h] = l /\ \A g \in Threads \ {h} : M.todo[g] = K.todo[g]
  BY <1>1, <1>4 DEF Kernel
<1>7. Listed(M, G)
  <2>1. \A g \in Threads : Holds(M.todo[g], G, Todo(g))
    BY <1>1, <1>3, <1>6, ListedHolds
  <2> QED BY <1>1, <1>6, <2>1, ListedHolds
<1>8. Step(K, M, G, G, h) /\ Due(M, G, h) = Due(K, G, h)
  BY <1>5, <1>7, RelistStep
<1> QED BY <1>4, <1>8

-----------------------------------------------------------------------------
(* One-way calls.                                                          *)

LEMMA FreeFacts ==
  ASSUME NEW K, NEW T, NEW R, NEW G, Good(K, T, R, G), NEW t \in FreeTxns(K)
  PROVE  /\ t \in Txns /\ K.txn[t].kind = "free" /\ G[t] = Nowhere
         /\ K.txn[t].from_parent = NoTxn
<1>1. t \in Txns /\ K.txn[t].kind = "free"
  BY DEF FreeTxns
<1>2. G[t] = Nowhere
  BY <1>1 DEF Good, Filed, FiledAt
<1>3. K.txn[t].from_parent = NoTxn
  BY <1>1 DEF Good, Links
<1> QED BY <1>1, <1>2, <1>3

(* One transaction is filed elsewhere.                                     *)
Moved(G, H, t, w) ==
  H \in [Txns -> Wheres] /\ H[t] = w /\ \A u \in Txns \ {t} : H[u] = G[u]

LEMMA MovedExcept ==
  ASSUME NEW G \in [Txns -> Wheres], NEW t \in Txns, NEW w \in Wheres
  PROVE  Moved(G, [G EXCEPT ![t] = w], t, w)
BY DEF Moved

(* A one-way call to p is sent off, or kept until the one that is out is   *)
(* done with.                                                              *)
Away(K, L, t, p, w) ==
  /\ L \in Kernel /\ L.txn[t].kind = "oneway" /\ L.txn[t].from_parent = NoTxn
  /\ L.txn[t].to_proc = p /\ \A u \in Txns \ {t} : L.txn[u] = K.txn[u]
  /\ L.stack = K.stack /\ L.bug = K.bug /\ L.error = K.error /\ L.error2 = K.error2
  /\ L.live = K.live /\ L.procs = K.procs /\ L.held = K.held /\ L.todo = K.todo
  /\ \A q \in Procs \ {p} : /\ L.ptodo[q] = K.ptodo[q]
                            /\ L.async_todo[q] = K.async_todo[q]
                            /\ L.has_async[q] = K.has_async[q]
  /\ L.has_async[p]
  /\ \/ /\ w = Async(p) /\ K.has_async[p]
        /\ L.ptodo[p] = K.ptodo[p] /\ L.async_todo[p] = Append(K.async_todo[p], t)
     \/ /\ w = Ptodo(p) /\ ~ K.has_async[p]
        /\ L.async_todo[p] = K.async_todo[p] /\ L.ptodo[p] = Append(K.ptodo[p], t)

LEMMA AwayStep ==
  ASSUME NEW K, NEW G, Sound(K, G), NEW t \in FreeTxns(K), NEW p \in K.procs,
         NEW L, NEW w, Away(K, L, t, p, w), NEW H, Moved(G, H, t, w), NEW h
  PROVE  Step(K, L, G, H, h) /\ Due(L, H, h) = Due(K, G, h)
<1>1. /\ K \in Kernel /\ K.live \in SUBSET Threads /\ K.procs \in SUBSET Procs
      /\ G \in [Txns -> Wheres] /\ Good(K, K.live, K.procs, G) /\ Listed(K, G)
      /\ p \in Procs
  BY DEF Sound, Good, Typed
<1>2. /\ t \in Txns /\ K.txn[t].kind = "free" /\ G[t] = Nowhere
      /\ K.txn[t].from_parent = NoTxn
  BY <1>1, FreeFacts
<1>3. w \in {Async(p), Ptodo(p)} /\ w \in Wheres
  BY <1>1 DEF Away, Wheres
<1>4. /\ H \in [Txns -> Wheres] /\ H[t] = w
      /\ \A u \in Txns \ {t} : H[u] = G[u]
  BY DEF Moved
<1>5. /\ L \in Kernel /\ L.txn[t].kind = "oneway" /\ L.txn[t].from_parent = NoTxn
      /\ L.txn[t].to_proc = p /\ \A u \in Txns \ {t} : L.txn[u] = K.txn[u]
      /\ L.stack = K.stack /\ L.bug = K.bug /\ L.error = K.error /\ L.error2 = K.error2
      /\ L.live = K.live /\ L.procs = K.procs /\ L.held = K.held /\ L.todo = K.todo
  BY DEF Away
<1>6. Aside(K, L, G, H)
  BY <1>2, <1>4, <1>5 DEF Aside
<1>7. FiledAt(L, K.live, K.procs, H, t)
  BY <1>1, <1>3, <1>4, <1>5, WhereFacts DEF FiledAt
<1>8. Serial(L, K.procs, H)
  <2> SUFFICES ASSUME NEW q \in K.procs PROVE SerialAt(L, H, q)
    BY DEF Serial
  <2>1. SerialAt(K, G, q)
    BY <1>1 DEF Good, Serial
  <2>2. CASE q # p
    <3>1. OutTo(L, H, q) = OutTo(K, G, q)
      BY <1>2, <1>4, <1>5, <2>2 DEF OutTo
    <3>2. \A u \in Txns : H[u] = Async(q) => G[u] = Async(q)
      BY <1>3, <1>4, <2>2, WhereFacts
    <3>3. L.has_async[q] = K.has_async[q] /\ L.held[q] = K.held[q]
      BY <1>1, <1>5, <2>2 DEF Away
    <3> QED BY <2>1, <3>1, <3>2, <3>3 DEF SerialAt
  <2>3. CASE q = p /\ w = Async(p) /\ K.has_async[p]
    <3>1. OutTo(L, H, p) = OutTo(K, G, p)
      BY <1>2, <1>4, <1>5, <2>3 DEF OutTo
    <3>2. L.has_async[p] /\ K.has_async[p] /\ L.held[p] = K.held[p]
      BY <1>5, <2>3 DEF Away
    <3> QED BY <2>1, <2>3, <3>1, <3>2 DEF SerialAt
  <2>4. CASE q = p /\ w = Ptodo(p) /\ ~ K.has_async[p]
    <3>1. OutTo(K, G, p) = {} /\ ~ K.held[p]
      BY <2>1, <2>4 DEF SerialAt
    <3>2. OutTo(L, H, p) = {t}
      <4>1. t \in OutTo(L, H, p)
        BY <1>2, <1>4, <1>5, <2>4, WhereFacts DEF OutTo
      <4>2. ASSUME NEW u \in OutTo(L, H, p), u # t PROVE u \in OutTo(K, G, p)
        BY <1>4, <1>5, <4>2 DEF OutTo
      <4> QED BY <3>1, <4>1, <4>2
    <3>3. L.has_async[p] /\ ~ L.held[p]
      BY <1>5, <3>1 DEF Away
    <3> QED BY <2>4, <3>2, <3>3 DEF SerialAt
  <2> QED BY <2>2, <2>3, <2>4 DEF Away
<1>9. Good(L, K.live, K.procs, H)
  <2>1. \A u \in Txns : L.txn[u] # K.txn[u] \/ H[u] # G[u] => FiledAt(L, K.live, K.procs, H, u)
    BY <1>4, <1>5, <1>7
  <2>2. \A g \in K.live : \/ L.error[g] = K.error[g] /\ L.error2[g] = K.error2[g]
                          \/ L.error2[g] = "OK"
    BY <1>5
  <2>3. ~ L.bug
    BY <1>1, <1>5 DEF Good, Errors
  <2> QED BY <1>1, <1>6, <1>8, <2>1, <2>2, <2>3, AsideGood
<1>10. Listed(L, H)
  <2>1. ASSUME NEW g \in Threads PROVE Holds(L.todo[g], H, Todo(g))
    <3>1. Holds(K.todo[g], G, Todo(g))
      BY <1>1, ListedHolds
    <3>2. \A u \in Txns : H[u] = Todo(g) <=> G[u] = Todo(g)
      BY <1>2, <1>3, <1>4, WhereFacts
    <3> QED BY <1>5, <3>1, <3>2, HoldsSame
  <2>2. ASSUME NEW q \in Procs
        PROVE  Holds(L.ptodo[q], H, Ptodo(q)) /\ Holds(L.async_todo[q], H, Async(q))
    <3>1. Holds(K.ptodo[q], G, Ptodo(q)) /\ Holds(K.async_todo[q], G, Async(q))
      BY <1>1, ListedHolds
    <3>2. K.ptodo[q] \in Seq(Works) /\ K.async_todo[q] \in Seq(Works)
      <4>1. K.ptodo[q] \in Seq(Txns) /\ K.async_todo[q] \in Seq(Txns)
        BY <1>1 DEF Kernel
      <4>2. Seq(Txns) \subseteq Seq(Works)
        BY DEF Works
      <4> QED BY <4>1, <4>2
    <3>3. Holds(L.ptodo[q], H, Ptodo(q))
      <4>1. CASE w = Ptodo(q)
        <5>1. q = p /\ L.ptodo[q] = Append(K.ptodo[q], t)
          BY <4>1, WhereFacts DEF Away
        <5>2. G[t] # Ptodo(q) /\ H[t] = Ptodo(q)
          BY <1>2, <1>4, <4>1, WhereFacts
        <5> QED BY <1>2, <1>4, <3>1, <3>2, <5>1, <5>2, HoldsNew
      <4>2. CASE w # Ptodo(q)
        <5>1. L.ptodo[q] = K.ptodo[q]
          BY <4>2 DEF Away
        <5>2. \A u \in Txns : H[u] = Ptodo(q) <=> G[u] = Ptodo(q)
          BY <1>2, <1>4, <4>2, WhereFacts
        <5> QED BY <3>1, <5>1, <5>2, HoldsSame
      <4> QED BY <4>1, <4>2
    <3>4. Holds(L.async_todo[q], H, Async(q))
      <4>1. CASE w = Async(q)
        <5>1. q = p /\ L.async_todo[q] = Append(K.async_todo[q], t)
          BY <4>1, WhereFacts DEF Away
        <5>2. G[t] # Async(q) /\ H[t] = Async(q)
          BY <1>2, <1>4, <4>1, WhereFacts
        <5> QED BY <1>2, <1>4, <3>1, <3>2, <5>1, <5>2, HoldsNew
      <4>2. CASE w # Async(q)
        <5>1. L.async_todo[q] = K.async_todo[q]
          BY <4>2 DEF Away
        <5>2. \A u \in Txns : H[u] = Async(q) <=> G[u] = Async(q)
          BY <1>2, <1>4, <4>2, WhereFacts
        <5> QED BY <3>1, <5>1, <5>2, HoldsSame
      <4> QED BY <4>1, <4>2
    <3> QED BY <3>3, <3>4
  <2>3. \A u \in Txns : H[u] # Limbo
    BY <1>1, <1>3, <1>4, WhereFacts DEF Listed
  <2> QED BY <2>1, <2>2, <2>3, ListedHolds
<1>11. \A g : Out(L, g) = Out(K, g)
  BY <1>2, <1>5 DEF Out
<1>12. \A g : Replies(L, H, g) = Replies(K, G, g)
  BY <1>2, <1>4, <1>5 DEF Replies
<1>13. ASSUME NEW g PROVE Due(L, H, g) = Due(K, G, g)
  <2>1. Out(L, g) = Out(K, g) /\ Replies(L, H, g) = Replies(K, G, g)
    BY <1>11, <1>12, Zenon
  <2> QED BY <1>5, <2>1, DueSame
<1>14. Due(L, H, h) = Due(K, G, h) /\ \A g \in K.live \ {h} : Due(L, H, g) = Due(K, G, g)
  BY <1>13, Zenon
<1>15. Sound(L, H)
  BY <1>5, <1>9, <1>10 DEF Sound
<1> QED BY <1>5, <1>14, <1>15 DEF Step

LEMMA OneWayStep ==
  ASSUME NEW K, NEW G, Sound(K, G), NEW h \in Threads, NEW p \in K.procs,
         FreeTxns(K) # {}, NEW L, L = OneWay(K, h, p)
  PROVE  /\ \E H : Step(K, L, G, H, h) /\ Due(L, H, h) = Due(K, G, h)
         /\ L.error = K.error
<1>1. K \in Kernel /\ p \in Procs
  BY DEF Sound, Good, Typed
<1>2. PICK t \in FreeTxns(K) : t = NewTxn(K)
  BY DEF NewTxn, FreeTxns
<1>3. PICK r \in TxnRecs : r = [NoTransaction EXCEPT !.kind = "oneway", !.to_proc = p]
  BY <1>1 DEF TxnRecs, NoTransaction
<1>4. r.kind = "oneway" /\ r.from_parent = NoTxn /\ r.to_proc = p
  BY <1>3 DEF NoTransaction
<1>5. PICK K1 : K1 = [K EXCEPT !.todo[h] = Append(@, Complete)]
  OBVIOUS
<1>6. Step(K, K1, G, G, h) /\ Due(K1, G, h) = Due(K, G, h)
  BY <1>5, CompleteStep
<1>7. K1 \in Kernel /\ Sound(K1, G) /\ K1.procs = K.procs
  BY <1>6 DEF Step, Sound, Good, Typed
<1>8. K1.has_async = K.has_async /\ K1.txn = K.txn /\ K1.error = K.error
  BY <1>1, <1>5 DEF Kernel
<1>9. t \in FreeTxns(K1) /\ p \in K1.procs /\ t \in Txns
  BY <1>2, <1>7, <1>8 DEF FreeTxns
<1>10. PICK K2 : K2 = [K1 EXCEPT !.txn[t] = r]
  OBVIOUS
<1>11. SetsTxn(K1, K2, t, r)
  BY <1>7, <1>9, <1>10, SetTxn
<1>12. K2 \in Kernel
  BY <1>11 DEF SetsTxn
<1>13. K2 = [K EXCEPT !.txn[t] = r, !.todo[h] = Append(@, Complete)]
  BY <1>1, <1>5, <1>10 DEF Kernel
<1>14. CASE K.has_async[p]
  <2>1. PICK list \in Seq(Txns) : list = Append(K1.async_todo[p], t)
    <3>1. K1.async_todo[p] \in Seq(Txns)
      BY <1>1, <1>7 DEF Kernel
    <3> QED BY <1>9, <3>1, AppendProperties
  <2>2. PICK M : M = [K2 EXCEPT !.async_todo[p] = list]
    OBVIOUS
  <2>3. K2.async_todo[p] = K1.async_todo[p]
    BY <1>11 DEF SetsTxn
  <2>4. L = M
    BY <1>2, <1>3, <1>13, <1>14, <2>1, <2>2, <2>3 DEF OneWay
  <2>5. M \in Kernel
    BY <1>12, <2>2 DEF Kernel
  <2>6. /\ M.txn = K2.txn /\ M.stack = K2.stack /\ M.bug = K2.bug /\ M.error = K2.error
        /\ M.error2 = K2.error2 /\ M.live = K2.live /\ M.procs = K2.procs
        /\ M.held = K2.held /\ M.todo = K2.todo /\ M.ptodo = K2.ptodo
        /\ M.has_async = K2.has_async /\ M.async_todo[p] = list
        /\ \A q \in Procs \ {p} : M.async_todo[q] = K2.async_todo[q]
    BY <1>1, <1>12, <2>2 DEF Kernel
  <2>7. Away(K1, M, t, p, Async(p))
    BY <1>4, <1>8, <1>11, <1>14, <2>1, <2>5, <2>6 DEF Away, SetsTxn
  <2>8. PICK H : Moved(G, H, t, Async(p))
    <3>1. G \in [Txns -> Wheres] /\ Async(p) \in Wheres
      BY <1>1 DEF Sound, Good, Typed, Wheres
    <3> QED BY <1>9, <3>1, MovedExcept
  <2>9. Step(K1, M, G, H, h) /\ Due(M, H, h) = Due(K1, G, h)
    BY <1>7, <1>9, <2>7, <2>8, AwayStep
  <2>10. Step(K, M, G, H, h)
    BY <1>6, <2>9, StepTrans
  <2>11. M.error = K.error
    BY <1>8, <1>11, <2>6 DEF SetsTxn
  <2> QED BY <1>6, <2>4, <2>9, <2>10, <2>11
<1>15. CASE ~ K.has_async[p]
  <2>1. PICK list \in Seq(Txns) : list = Append(K1.ptodo[p], t)
    <3>1. K1.ptodo[p] \in Seq(Txns)
      BY <1>1, <1>7 DEF Kernel
    <3> QED BY <1>9, <3>1, AppendProperties
  <2>2. PICK M : M = [K2 EXCEPT !.ptodo[p] = list, !.has_async[p] = TRUE]
    OBVIOUS
  <2>3. K2.ptodo[p] = K1.ptodo[p]
    BY <1>11 DEF SetsTxn
  <2>4. L = wake_proc(M, p)
    BY <1>2, <1>3, <1>13, <1>15, <2>1, <2>2, <2>3 DEF OneWay
  <2>5. M \in Kernel
    BY <1>12, <2>2 DEF Kernel
  <2>6. /\ M.txn = K2.txn /\ M.stack = K2.stack /\ M.bug = K2.bug /\ M.error = K2.error
        /\ M.error2 = K2.error2 /\ M.live = K2.live /\ M.procs = K2.procs
        /\ M.held = K2.held /\ M.todo = K2.todo /\ M.async_todo = K2.async_todo
        /\ M.has_async[p] = TRUE /\ M.ptodo[p] = list
        /\ \A q \in Procs \ {p} : M.ptodo[q] = K2.ptodo[q] /\ M.has_async[q] = K2.has_async[q]
    BY <1>1, <1>12, <2>2 DEF Kernel
  <2>7. Away(K1, M, t, p, Ptodo(p))
    BY <1>4, <1>8, <1>11, <1>15, <2>1, <2>5, <2>6 DEF Away, SetsTxn
  <2>8. PICK H : Moved(G, H, t, Ptodo(p))
    <3>1. G \in [Txns -> Wheres] /\ Ptodo(p) \in Wheres
      BY <1>1 DEF Sound, Good, Typed, Wheres
    <3> QED BY <1>9, <3>1, MovedExcept
  <2>9. Step(K1, M, G, H, h) /\ Due(M, H, h) = Due(K1, G, h)
    BY <1>7, <1>9, <2>7, <2>8, AwayStep
  <2>10. Step(K, M, G, H, h)
    BY <1>6, <2>9, StepTrans
  <2>11. Same(M, L)
    BY <1>1, <2>4, <2>5, WakeSame
  <2>12. Step(K, L, G, H, h) /\ Due(L, H, h) = Due(M, H, h)
    BY <2>10, <2>11, StepSame
  <2>13. L.error = K.error
    BY <1>8, <1>11, <2>6, <2>11 DEF SetsTxn, Same
  <2> QED BY <1>6, <2>9, <2>12, <2>13
<1> QED BY <1>14, <1>15

-----------------------------------------------------------------------------
(* A transaction is put at the end of a list, or taken from its front.     *)

Posted(l, m, t, v, w) == m = IF v = w THEN Append(l, t) ELSE l

Unposted(l, m, t, v, w) ==
  IF v = w THEN Tails(l, m, t) ELSE m = l

Posts(K, L, t, w) ==
  /\ \A g \in Threads : Posted(K.todo[g], L.todo[g], t, Todo(g), w)
  /\ \A q \in Procs : /\ Posted(K.ptodo[q], L.ptodo[q], t, Ptodo(q), w)
                      /\ Posted(K.async_todo[q], L.async_todo[q], t, Async(q), w)

Unposts(K, L, t, w) ==
  /\ \A g \in Threads : Unposted(K.todo[g], L.todo[g], t, Todo(g), w)
  /\ \A q \in Procs : /\ Unposted(K.ptodo[q], L.ptodo[q], t, Ptodo(q), w)
                      /\ Unposted(K.async_todo[q], L.async_todo[q], t, Async(q), w)

LEMMA PostedHolds ==
  ASSUME NEW l \in Seq(Works), NEW m, NEW t \in Txns, NEW v, NEW w, NEW G, NEW H,
         Holds(l, G, v), Posted(l, m, t, v, w), v # Nowhere, G[t] = Nowhere,
         Moved(G, H, t, w)
  PROVE  Holds(m, H, v)
<1>1. H[t] = w /\ \A u \in Txns \ {t} : H[u] = G[u]
  BY DEF Moved
<1>2. CASE v = w
  <2>1. m = Append(l, t) /\ G[t] # v /\ H[t] = v
    BY <1>1, <1>2 DEF Posted
  <2> QED BY <1>1, <2>1, HoldsNew
<1>3. CASE v # w
  <2>1. m = l
    BY <1>3 DEF Posted
  <2>2. \A u \in Txns : H[u] = v <=> G[u] = v
    BY <1>1, <1>3
  <2> QED BY <2>1, <2>2, HoldsSame
<1> QED BY <1>2, <1>3

LEMMA UnpostedHolds ==
  ASSUME NEW l \in Seq(Works), NEW m, NEW t \in Txns, NEW v, NEW w, NEW G, NEW H,
         Holds(l, G, v), Unposted(l, m, t, v, w), v # Nowhere, G[t] = w,
         Moved(G, H, t, Nowhere)
  PROVE  Holds(m, H, v)
<1>1. H[t] = Nowhere /\ \A u \in Txns \ {t} : H[u] = G[u]
  BY DEF Moved
<1>2. CASE v = w
  <2>1. Tails(l, m, t) /\ H[t] # v
    BY <1>1, <1>2 DEF Unposted
  <2> QED BY <1>1, <2>1, HoldsTail
<1>3. CASE v # w
  <2>1. m = l
    BY <1>3 DEF Unposted
  <2>2. \A u \in Txns : H[u] = v <=> G[u] = v
    BY <1>1, <1>3
  <2> QED BY <2>1, <2>2, HoldsSame
<1> QED BY <1>2, <1>3

LEMMA ListTypes ==
  ASSUME NEW K \in Kernel
  PROVE  /\ \A g \in Threads : K.todo[g] \in Seq(Works)
         /\ \A q \in Procs : K.ptodo[q] \in Seq(Works) /\ K.async_todo[q] \in Seq(Works)
<1>1. \A g \in Threads : K.todo[g] \in Seq(Works)
  BY DEF Kernel, Works
<1>2. \A q \in Procs : K.ptodo[q] \in Seq(Txns) /\ K.async_todo[q] \in Seq(Txns)
  BY DEF Kernel
<1>3. Seq(Txns) \subseteq Seq(Works)
  BY DEF Works
<1> QED BY <1>1, <1>2, <1>3

LEMMA PostListed ==
  ASSUME NEW K \in Kernel, NEW L, NEW t \in Txns, NEW w, NEW G, NEW H,
         Listed(K, G), Posts(K, L, t, w), G[t] = Nowhere, w # Limbo, Moved(G, H, t, w)
  PROVE  Listed(L, H)
<1>1. ASSUME NEW g \in Threads PROVE Holds(L.todo[g], H, Todo(g))
  <2>1. /\ K.todo[g] \in Seq(Works) /\ Holds(K.todo[g], G, Todo(g))
        /\ Posted(K.todo[g], L.todo[g], t, Todo(g), w) /\ Todo(g) # Nowhere
    BY ListTypes, ListedHolds, WhereFacts DEF Posts
  <2> QED BY <2>1, PostedHolds
<1>2. ASSUME NEW q \in Procs
      PROVE  Holds(L.ptodo[q], H, Ptodo(q)) /\ Holds(L.async_todo[q], H, Async(q))
  <2>1. /\ K.ptodo[q] \in Seq(Works) /\ Holds(K.ptodo[q], G, Ptodo(q))
        /\ Posted(K.ptodo[q], L.ptodo[q], t, Ptodo(q), w) /\ Ptodo(q) # Nowhere
    BY ListTypes, ListedHolds, WhereFacts DEF Posts
  <2>2. /\ K.async_todo[q] \in Seq(Works) /\ Holds(K.async_todo[q], G, Async(q))
        /\ Posted(K.async_todo[q], L.async_todo[q], t, Async(q), w) /\ Async(q) # Nowhere
    BY ListTypes, ListedHolds, WhereFacts DEF Posts
  <2>3. Holds(L.ptodo[q], H, Ptodo(q))
    BY <2>1, PostedHolds
  <2>4. Holds(L.async_todo[q], H, Async(q))
    BY <2>2, PostedHolds
  <2> QED BY <2>3, <2>4
<1>3. \A u \in Txns : H[u] # Limbo
  BY DEF Listed, Moved
<1> QED BY <1>1, <1>2, <1>3, ListedHolds

LEMMA UnpostListed ==
  ASSUME NEW K \in Kernel, NEW L, NEW t \in Txns, NEW w, NEW G, NEW H,
         Listed(K, G), Unposts(K, L, t, w), G[t] = w, Moved(G, H, t, Nowhere)
  PROVE  Listed(L, H)
<1>1. ASSUME NEW g \in Threads PROVE Holds(L.todo[g], H, Todo(g))
  <2>1. /\ K.todo[g] \in Seq(Works) /\ Holds(K.todo[g], G, Todo(g))
        /\ Unposted(K.todo[g], L.todo[g], t, Todo(g), w) /\ Todo(g) # Nowhere
    BY ListTypes, ListedHolds, WhereFacts DEF Unposts
  <2> QED BY <2>1, UnpostedHolds
<1>2. ASSUME NEW q \in Procs
      PROVE  Holds(L.ptodo[q], H, Ptodo(q)) /\ Holds(L.async_todo[q], H, Async(q))
  <2>1. /\ K.ptodo[q] \in Seq(Works) /\ Holds(K.ptodo[q], G, Ptodo(q))
        /\ Unposted(K.ptodo[q], L.ptodo[q], t, Ptodo(q), w) /\ Ptodo(q) # Nowhere
    BY ListTypes, ListedHolds, WhereFacts DEF Unposts
  <2>2. /\ K.async_todo[q] \in Seq(Works) /\ Holds(K.async_todo[q], G, Async(q))
        /\ Unposted(K.async_todo[q], L.async_todo[q], t, Async(q), w) /\ Async(q) # Nowhere
    BY ListTypes, ListedHolds, WhereFacts DEF Unposts
  <2>3. Holds(L.ptodo[q], H, Ptodo(q))
    BY <2>1, UnpostedHolds
  <2>4. Holds(L.async_todo[q], H, Async(q))
    BY <2>2, UnpostedHolds
  <2> QED BY <2>3, <2>4
<1>3. \A u \in Txns : H[u] # Limbo
  BY WhereFacts DEF Listed, Moved
<1> QED BY <1>1, <1>2, <1>3, ListedHolds

-----------------------------------------------------------------------------
(* A call.                                                                 *)

LEMMA MovedIs ==
  ASSUME NEW G \in [Txns -> Wheres], NEW H, NEW t \in Txns, NEW w, Moved(G, H, t, w)
  PROVE  H = [G EXCEPT ![t] = w]
<1>1. H \in [Txns -> Wheres] /\ H[t] = w /\ \A u \in Txns \ {t} : H[u] = G[u]
  BY DEF Moved
<1> QED BY <1>1

LEMMA CallGood ==
  ASSUME NEW K, NEW G, Sound(K, G), NEW h \in K.live, NEW t \in FreeTxns(K),
         K.error[h] = "OK", K.stack[h] = NoTxn \/ K.stack[h] \in In(K, G, h),
         NEW f, NEW w, Goes(K, K.live, K.procs, h, f, w),
         NEW L, Begins(K, L, h, t, f), Posts(K, L, t, w),
         L.live = K.live, L.procs = K.procs, NEW H, Moved(G, H, t, w)
  PROVE  Step(K, L, G, H, h) /\ Due(L, H, h) = Due(K, G, h) + 1
<1>1. /\ K \in Kernel /\ K.live \in SUBSET Threads /\ K.procs \in SUBSET Procs
      /\ G \in [Txns -> Wheres] /\ Good(K, K.live, K.procs, G) /\ Listed(K, G)
  BY DEF Sound, Good, Typed
<1>2. /\ t \in Txns /\ K.txn[t].kind = "free" /\ G[t] = Nowhere
  BY <1>1, FreeFacts
<1>3. H = [G EXCEPT ![t] = w]
  BY <1>1, <1>2, MovedIs
<1>4. Good(L, K.live, K.procs, H)
  BY <1>1, <1>2, <1>3, BeginCall
<1>5. w # Limbo
  BY WhereFacts DEF Goes
<1>6. Listed(L, H)
  BY <1>1, <1>2, <1>5, PostListed
<1>7. Sound(L, H)
  BY <1>4, <1>6 DEF Sound
<1>8. /\ L.txn[t].kind = "call" /\ L.txn[t].from = h
      /\ \A u \in Txns \ {t} : L.txn[u] = K.txn[u] /\ H[u] = G[u]
      /\ L.error = K.error /\ L.error2 = K.error2
      /\ \A g \in Threads \ {h} : L.stack[g] = K.stack[g]
  BY DEF Begins, Moved
<1>9. \A g : Replies(L, H, g) = Replies(K, G, g)
  BY <1>2, <1>8 DEF Replies
<1>10. ASSUME NEW g \in K.live \ {h} PROVE Due(L, H, g) = Due(K, G, g)
  <2>1. Out(L, g) = Out(K, g)
    BY <1>2, <1>8 DEF Out
  <2>2. Replies(L, H, g) = Replies(K, G, g)
    BY <1>9, Zenon
  <2> QED BY <1>8, <2>1, <2>2, DueSame
<1>11. Due(L, H, h) = Due(K, G, h) + 1
  <2>1. Out(L, h) = Out(K, h) \cup {t} /\ t \notin Out(K, h)
    BY <1>2, <1>8 DEF Out
  <2>2. PICK a \in Nat : a = Cardinality(Out(K, h)) /\ IsFiniteSet(Out(K, h))
    BY DueType
  <2>3. Cardinality(Out(L, h)) = a + 1
    BY <2>1, <2>2, FS_AddElement
  <2>4. PICK b \in Nat : b = Cardinality(Replies(K, G, h))
    BY DueType
  <2>5. PICK c \in Nat : c = Answer(K.error[h])
    BY DueType
  <2>6. PICK d \in Nat : d = Answer(K.error2[h])
    BY DueType
  <2>7. Replies(L, H, h) = Replies(K, G, h)
    BY <1>9, Zenon
  <2>8. Due(L, H, h) = (a + 1) + b + c + d /\ Due(K, G, h) = a + b + c + d
    BY <1>8, <2>2, <2>3, <2>4, <2>5, <2>6, <2>7 DEF Due
  <2> QED BY <2>8
<1> QED BY <1>7, <1>8, <1>10, <1>11 DEF Step

LEMMA CallStep ==
  ASSUME NEW K, NEW G, Sound(K, G), NEW h \in K.live, NEW p \in K.procs,
         p # ProcOf[h], FreeTxns(K) # {}, K.error[h] = "OK",
         K.stack[h] # NoTxn => K.txn[K.stack[h]].to_thread = h,
         NEW L, L = Call(K, h, p)
  PROVE  \E H : Step(K, L, G, H, h) /\ Due(L, H, h) = Due(K, G, h) + 1
<1>1. /\ K \in Kernel /\ K.live \in SUBSET Threads /\ K.procs \in SUBSET Procs
      /\ G \in [Txns -> Wheres] /\ Good(K, K.live, K.procs, G) /\ p \in Procs
      /\ h \in Threads
  BY DEF Sound, Good, Typed
<1>2. PICK t \in FreeTxns(K) : t = NewTxn(K)
  BY DEF NewTxn, FreeTxns
<1>3. PICK s \in Txns \cup {NoTxn} : s = K.stack[h]
  BY <1>1 DEF Kernel
<1>4. PICK f \in Threads \cup {NoThread} : f = TargetThread(K, s, p)
  BY <1>1, TargetType
<1>5. PICK r \in TxnRecs : r = [kind |-> "call", from |-> h, from_parent |-> s,
                                to_proc |-> p, to_thread |-> f,
                                to_parent |-> NoTxn]
  BY <1>1 DEF TxnRecs
<1>6. r.kind = "call" /\ r.from = h /\ r.from_parent = s /\ r.to_thread = f
  BY <1>5
<1>7. PICK K1 : K1 = [K EXCEPT !.todo[h] = Append(@, Complete)]
  OBVIOUS
<1>8. Step(K, K1, G, G, h) /\ Due(K1, G, h) = Due(K, G, h)
  BY <1>1, <1>7, CompleteStep
<1>9. K1 \in Kernel /\ Sound(K1, G) /\ K1.procs = K.procs /\ K1.live = K.live
  BY <1>8 DEF Step, Sound, Good, Typed
<1>10. K1.txn = K.txn /\ K1.stack = K.stack /\ K1.error = K.error
  BY <1>1, <1>7 DEF Kernel
<1>11. t \in FreeTxns(K1) /\ p \in K1.procs /\ t \in Txns /\ h \in K1.live
  BY <1>2, <1>9, <1>10 DEF FreeTxns
<1>12. PICK K2 : K2 = [K1 EXCEPT !.txn[t] = r, !.stack[h] = t]
  OBVIOUS
<1>13. K2 \in Kernel
  BY <1>1, <1>9, <1>11, <1>12 DEF Kernel
<1>14. /\ K2.txn[t] = r /\ \A u \in Txns \ {t} : K2.txn[u] = K1.txn[u]
       /\ K2.stack[h] = t /\ \A g \in Threads \ {h} : K2.stack[g] = K1.stack[g]
       /\ K2.error = K1.error /\ K2.error2 = K1.error2 /\ K2.bug = K1.bug
       /\ K2.has_async = K1.has_async /\ K2.held = K1.held
       /\ K2.live = K1.live /\ K2.procs = K1.procs
       /\ K2.todo = K1.todo /\ K2.ptodo = K1.ptodo /\ K2.async_todo = K1.async_todo
  BY <1>1, <1>9, <1>11, <1>12 DEF Kernel
<1>15. K2 = [K EXCEPT !.txn[t] = r, !.stack[h] = t, !.todo[h] = Append(@, Complete)]
  BY <1>1, <1>7, <1>12 DEF Kernel
<1>16. s = NoTxn \/ s \in In(K, G, h)
  <2> SUFFICES ASSUME s # NoTxn PROVE s \in In(K, G, h)
    OBVIOUS
  <2>1. TopAt(K, G, h) /\ K.txn[s].to_thread = h
    BY <1>1, <1>3 DEF Good, Tops
  <2>2. s \in Own(K, G, h)
    BY <1>3, <2>1 DEF TopAt
  <2> QED BY <1>1, <2>1, <2>2, OutNotIn DEF Own
<1>17. In(K1, G, h) = In(K, G, h) /\ Parents(K1) = Parents(K) /\ \A g : Out(K1, g) = Out(K, g)
  BY <1>10 DEF In, Parents, Out
<1>18. ASSUME NEW w, NEW M \in Kernel, Goes(K1, K1.live, K1.procs, h, f, w), w \in Wheres,
              M.txn = K2.txn, M.stack = K2.stack, M.error = K2.error, M.error2 = K2.error2,
              M.bug = K2.bug, M.has_async = K2.has_async, M.held = K2.held,
              M.live = K2.live, M.procs = K2.procs, Posts(K2, M, t, w), Same(M, L)
       PROVE  \E H : Step(K, L, G, H, h) /\ Due(L, H, h) = Due(K, G, h) + 1
  <2>1. PICK H : Moved(G, H, t, w)
    BY <1>1, <1>11, <1>18, MovedExcept
  <2>2. Begins(K1, M, h, t, f)
    BY <1>3, <1>6, <1>10, <1>14, <1>18 DEF Begins
  <2>3. Posts(K1, M, t, w)
    BY <1>14, <1>18 DEF Posts
  <2>4. M.live = K1.live /\ M.procs = K1.procs
    BY <1>14, <1>18
  <2>5. K1.error[h] = "OK" /\ (K1.stack[h] = NoTxn \/ K1.stack[h] \in In(K1, G, h))
    BY <1>3, <1>10, <1>16, <1>17
  <2>6. Step(K1, M, G, H, h) /\ Due(M, H, h) = Due(K1, G, h) + 1
    <3>1. Goes(K1, K1.live, K1.procs, h, f, w)
      BY <1>18
    <3> QED BY <1>9, <1>11, <2>1, <2>2, <2>3, <2>4, <2>5, <3>1, CallGood
  <2>7. Step(K, M, G, H, h)
    BY <1>8, <2>6, StepTrans
  <2>8. Step(K, L, G, H, h) /\ Due(L, H, h) = Due(M, H, h)
    BY <1>18, <2>7, StepSame
  <2> QED BY <1>8, <2>6, <2>8
<1>19. CASE f = NoThread
  <2>1. PICK list \in Seq(Txns) : list = Append(K2.ptodo[p], t)
    <3>1. K2.ptodo[p] \in Seq(Txns)
      BY <1>1, <1>13 DEF Kernel
    <3> QED BY <1>11, <3>1, AppendProperties
  <2>2. PICK M : M = [K2 EXCEPT !.ptodo[p] = list]
    OBVIOUS
  <2>3. L = wake_proc(M, p)
    BY <1>2, <1>3, <1>4, <1>5, <1>15, <1>19, <2>1, <2>2 DEF Call
  <2>4. M \in Kernel
    BY <1>13, <2>2 DEF Kernel
  <2>5. /\ M.txn = K2.txn /\ M.stack = K2.stack /\ M.error = K2.error
        /\ M.error2 = K2.error2 /\ M.bug = K2.bug /\ M.has_async = K2.has_async
        /\ M.held = K2.held /\ M.live = K2.live /\ M.procs = K2.procs
        /\ M.todo = K2.todo /\ M.async_todo = K2.async_todo /\ M.ptodo[p] = list
        /\ \A q \in Procs \ {p} : M.ptodo[q] = K2.ptodo[q]
    BY <1>1, <1>13, <2>2 DEF Kernel
  <2>6. Posts(K2, M, t, Ptodo(p))
    <3>1. \A q \in Procs : Posted(K2.ptodo[q], M.ptodo[q], t, Ptodo(q), Ptodo(p))
      BY <2>1, <2>5, WhereFacts DEF Posted
    <3>2. \A g \in Threads : Posted(K2.todo[g], M.todo[g], t, Todo(g), Ptodo(p))
      BY <2>5, WhereFacts DEF Posted
    <3>3. \A q \in Procs : Posted(K2.async_todo[q], M.async_todo[q], t, Async(q), Ptodo(p))
      BY <2>5, WhereFacts DEF Posted
    <3> QED BY <3>1, <3>2, <3>3 DEF Posts
  <2>7. Goes(K1, K1.live, K1.procs, h, f, Ptodo(p))
    BY <1>11, <1>19 DEF Goes
  <2>8. Same(M, L)
    BY <1>1, <2>3, <2>4, WakeSame
  <2>9. Ptodo(p) \in Wheres
    BY <1>1 DEF Wheres
  <2> QED BY <1>18, <2>4, <2>5, <2>6, <2>7, <2>8, <2>9
<1>20. CASE f # NoThread
  <2>1. f \in Threads
    BY <1>20
  <2>2. s # NoTxn
    BY <1>1, <1>4, <1>20, TargetOfNone
  <2>3. s \in In(K, G, h) /\ s \in Txns
    BY <1>16, <2>2
  <2>4. Waiter(K, s, p, f)
    BY <1>1, <1>4, <1>20, <2>3, TargetFound
  <2>5. /\ f \in K.live \ {h} /\ K.stack[f] \in Out(K, f)
        /\ Anc(Parents(K), K.stack[f], s)
    <3>1. K.stack[h] = s
      BY <1>3
    <3> QED BY <1>1, <2>3, <2>4, <3>1, WaiterBelow
  <2>6. Goes(K1, K1.live, K1.procs, h, f, Todo(f))
    <3>1. Out(K1, f) = Out(K, f)
      BY <1>17, Zenon
    <3> QED BY <1>3, <1>9, <1>10, <1>17, <2>2, <2>5, <3>1 DEF Goes
  <2>7. PICK list \in Seq(Works) : list = Append(K2.todo[f], t)
    <3>1. K2.todo[f] \in Seq(Works) /\ t \in Works
      BY <1>11, <1>13, <2>1, ListTypes DEF Works
    <3> QED BY <3>1, AppendProperties
  <2>8. PICK M : M = [K2 EXCEPT !.todo[f] = list]
    OBVIOUS
  <2>9. L = wake_thread(M, f)
    BY <1>2, <1>3, <1>4, <1>5, <1>15, <1>20, <2>7, <2>8 DEF Call
  <2>10. M \in Kernel
    <3>1. list \in Seq(Txns \cup {Complete})
      BY <2>7 DEF Works
    <3> QED BY <1>13, <2>8, <3>1 DEF Kernel
  <2>11. /\ M.txn = K2.txn /\ M.stack = K2.stack /\ M.error = K2.error
         /\ M.error2 = K2.error2 /\ M.bug = K2.bug /\ M.has_async = K2.has_async
         /\ M.held = K2.held /\ M.live = K2.live /\ M.procs = K2.procs
         /\ M.ptodo = K2.ptodo /\ M.async_todo = K2.async_todo /\ M.todo[f] = list
         /\ \A g \in Threads \ {f} : M.todo[g] = K2.todo[g]
    BY <1>13, <2>1, <2>8 DEF Kernel
  <2>12. Posts(K2, M, t, Todo(f))
    <3>1. \A q \in Procs : Posted(K2.ptodo[q], M.ptodo[q], t, Ptodo(q), Todo(f))
      BY <2>11, WhereFacts DEF Posted
    <3>2. \A g \in Threads : Posted(K2.todo[g], M.todo[g], t, Todo(g), Todo(f))
      BY <2>7, <2>11, WhereFacts DEF Posted
    <3>3. \A q \in Procs : Posted(K2.async_todo[q], M.async_todo[q], t, Async(q), Todo(f))
      BY <2>11, WhereFacts DEF Posted
    <3> QED BY <3>1, <3>2, <3>3 DEF Posts
  <2>13. Same(M, L)
    BY <2>9, <2>10, WakeSame
  <2>14. Todo(f) \in Wheres
    BY <2>1 DEF Wheres
  <2> QED BY <1>18, <2>6, <2>10, <2>11, <2>12, <2>13, <2>14
<1> QED BY <1>19, <1>20

LEMMA TransactionStep ==
  ASSUME NEW K, NEW G, Sound(K, G), NEW h \in K.live, NEW p \in Procs,
         p # ProcOf[h], NEW oneway \in BOOLEAN, NEW fails \in BOOLEAN,
         FreeTxns(K) = {} => fails, K.error[h] = "OK",
         NEW L, L = binder_transaction(K, h, p, oneway, fails)
  PROVE  \E H : /\ Step(K, L, G, H, h)
                /\ Due(L, H, h) = Due(K, G, h)
                                  + (IF oneway /\ L.error[h] = "OK" THEN 0 ELSE 1)
<1>1. h \in Threads
  BY DEF Sound, Good, Typed
<1>2. ASSUME NEW code \in {"DEAD", "FAILED"}, L = Fail(K, h, code)
      PROVE  \E H : /\ Step(K, L, G, H, h)
                    /\ Due(L, H, h) = Due(K, G, h)
                                      + (IF oneway /\ L.error[h] = "OK" THEN 0 ELSE 1)
  <2>1. code \in Codes /\ Answer(code) = 1 /\ code # "OK"
    BY DEF Codes, Answer
  <2>2. /\ Step(K, L, G, G, h) /\ L.error[h] = code
        /\ Due(L, G, h) = Due(K, G, h) + Answer(code)
    BY <1>2, <2>1, FailStep
  <2> QED BY <2>1, <2>2
<1>3. CASE p \notin K.procs
  BY <1>2, <1>3 DEF binder_transaction
<1>4. CASE /\ p \in K.procs
           /\ \/ ~ oneway /\ K.stack[h] # NoTxn /\ K.txn[K.stack[h]].to_thread # h
              \/ fails
  BY <1>2, <1>4 DEF binder_transaction
<1>5. CASE /\ p \in K.procs /\ ~ fails
           /\ ~ (~ oneway /\ K.stack[h] # NoTxn /\ K.txn[K.stack[h]].to_thread # h)
  <2>1. FreeTxns(K) # {}
    BY <1>5
  <2>2. CASE oneway
    <3>1. L = OneWay(K, h, p)
      BY <1>5, <2>2 DEF binder_transaction
    <3>2. /\ \E H : Step(K, L, G, H, h) /\ Due(L, H, h) = Due(K, G, h)
          /\ L.error = K.error
      BY <1>1, <1>5, <2>1, <3>1, OneWayStep
    <3>3. PICK H : Step(K, L, G, H, h) /\ Due(L, H, h) = Due(K, G, h)
      BY <3>2
    <3>4. L.error[h] = "OK" /\ Due(K, G, h) + 0 = Due(K, G, h)
      <4>1. Due(K, G, h) \in Nat
        BY DueType
      <4> QED BY <3>2, <4>1
    <3> QED BY <2>2, <3>3, <3>4
  <2>3. CASE ~ oneway
    <3>1. L = Call(K, h, p)
      BY <1>5, <2>3 DEF binder_transaction
    <3>2. K.stack[h] # NoTxn => K.txn[K.stack[h]].to_thread = h
      BY <1>5, <2>3
    <3>3. PICK H : Step(K, L, G, H, h) /\ Due(L, H, h) = Due(K, G, h) + 1
      BY <1>5, <2>1, <3>1, <3>2, CallStep
    <3> QED BY <2>3, <3>3
  <2> QED BY <2>2, <2>3
<1> QED BY <1>3, <1>4, <1>5

-----------------------------------------------------------------------------
(* A reply.                                                                *)

(* The call that h serves is taken off its stack.                          *)
LEMMA ReplyTo ==
  ASSUME NEW K, NEW T, NEW R, NEW G, Good(K, T, R, G), NEW h \in T,
         NEW s \in Txns, s = K.stack[h], K.txn[s].to_thread = h,
         NEW f, f = K.txn[s].from
  PROVE  /\ s \in In(K, G, h) /\ K.txn[s].kind = "call" /\ G[s] = Nowhere
         /\ f # NoThread => /\ f \in T \ {h} /\ K.stack[f] = s /\ s \in Out(K, f)
<1>1. TopAt(K, G, h) /\ s # NoTxn
  BY BinderAssumption DEF Good, Tops
<1>2. s \in Own(K, G, h)
  BY <1>1 DEF TopAt
<1>3. s \in In(K, G, h)
  BY <1>2, OutNotIn DEF Own
<1>4. K.txn[s].kind = "call" /\ G[s] = Nowhere
  BY <1>3 DEF In
<1>5. ASSUME f # NoThread PROVE f \in T \ {h} /\ K.stack[f] = s /\ s \in Out(K, f)
  <2>1. EndsAt(K, T, G, s)
    BY DEF Good, Ends
  <2>2. f \in T \ {h}
    BY <1>4, <1>5, <2>1 DEF EndsAt
  <2>3. s \in Out(K, f) /\ s \in Own(K, G, f)
    BY <1>4 DEF Out, Own
  <2>4. Leaf(Parents(K), s)
    BY <1>1, <1>3 DEF TopAt
  <2>5. K.stack[f] = s
    BY <2>2, <2>3, <2>4, LeafOnTop
  <2> QED BY <2>2, <2>3, <2>5
<1> QED BY <1>3, <1>4, <1>5

LEMMA UnstackDrops ==
  ASSUME NEW K, NEW T, NEW R, NEW G, Good(K, T, R, G), NEW h \in T,
         NEW s \in Txns, s = K.stack[h], s \in In(K, G, h), K.error[h] = "OK",
         NEW L, L = [K EXCEPT !.stack[h] = K.txn[s].to_parent],
         NEW H, H = [G EXCEPT ![s] = Limbo]
  PROVE  Drops(K, L, T, R, G, H) /\ Unstacks(K, L, h, s)
<1>1. K \in Kernel /\ h \in Threads /\ G \in [Txns -> Wheres]
  BY DEF Good, Typed
<1>2. PICK r \in Txns \cup {NoTxn} : r = K.txn[s].to_parent
  BY <1>1 DEF Kernel, TxnRecs
<1>3. PICK M : M = [K EXCEPT !.stack[h] = r] /\ L = M
  BY <1>2
<1>4. M \in Kernel
  BY <1>1, <1>3 DEF Kernel
<1>5. /\ M.txn = K.txn /\ M.stack[h] = r
      /\ \A g \in Threads \ {h} : M.stack[g] = K.stack[g]
      /\ M.error = K.error /\ M.error2 = K.error2 /\ M.bug = K.bug
      /\ M.has_async = K.has_async /\ M.held = K.held
      /\ M.todo = K.todo /\ M.ptodo = K.ptodo /\ M.async_todo = K.async_todo
      /\ M.live = K.live /\ M.procs = K.procs
  BY <1>1, <1>3 DEF Kernel
<1>6. Unstacks(K, M, h, s)
  BY <1>2, <1>4, <1>5 DEF Unstacks
<1>7. Good(M, T, R, H)
  <2>1. K.stack[h] = s
    OBVIOUS
  <2> QED BY <1>6, <2>1, UnstackKeeps
<1>8. Spares(K, M)
  <2>1. K.stack[h] # NoTxn
    BY BinderAssumption
  <2> QED BY <1>5, <2>1 DEF Spares
<1>9. ASSUME NEW g \in T PROVE Due(M, H, g) = Due(K, G, g)
  <2>1. Out(M, g) = Out(K, g)
    BY <1>5 DEF Out
  <2>2. K.txn[s].kind = "call"
    BY DEF In
  <2>3. Replies(M, H, g) = Replies(K, G, g)
    BY <1>1, <1>5, <2>2 DEF Replies
  <2> QED BY <1>5, <2>1, <2>3, DueSame
<1>10. Drops(K, M, T, R, G, H)
  BY <1>7, <1>8, <1>9 DEF Drops
<1> QED BY <1>3, <1>6, <1>10

LEMMA DropsStep ==
  ASSUME NEW K, NEW G, Sound(K, G), NEW L, Drops(K, L, K.live, K.procs, G, G),
         NEW h \in K.live
  PROVE  Step(K, L, G, G, h) /\ Due(L, G, h) = Due(K, G, h)
<1>1. /\ Good(L, K.live, K.procs, G) /\ Spares(K, L)
      /\ \A g \in K.live : Due(L, G, g) = Due(K, G, g)
  BY DEF Drops
<1>2. /\ L.live = K.live /\ L.procs = K.procs
      /\ L.todo = K.todo /\ L.ptodo = K.ptodo /\ L.async_todo = K.async_todo
      /\ \A g \in Threads : K.stack[g] = NoTxn => L.stack[g] = NoTxn
  BY <1>1 DEF Spares
<1>3. Listed(L, G)
  BY <1>2 DEF Sound, Listed
<1>4. Sound(L, G)
  BY <1>1, <1>2, <1>3 DEF Sound
<1> QED BY <1>1, <1>2, <1>4 DEF Step

LEMMA FailReplyStep ==
  ASSUME NEW K, NEW G, Sound(K, G), NEW h \in K.live, K.error[h] = "OK",
         NEW s \in Txns, s = K.stack[h], s \in In(K, G, h),
         NEW code \in {"DEAD", "FAILED"},
         NEW L, L = [K EXCEPT !.stack[h] = K.txn[s].to_parent],
         NEW M, M = FailReply(L, h, s, code)
  PROVE  Step(K, M, G, G, h) /\ Due(M, G, h) = Due(K, G, h)
<1>1. /\ Good(K, K.live, K.procs, G) /\ G \in [Txns -> Wheres] /\ h \in Threads
  BY DEF Sound, Good, Typed
<1>2. PICK T : T = K.live
  OBVIOUS
<1>3. PICK R : R = K.procs
  OBVIOUS
<1>4. PICK H : H = [G EXCEPT ![s] = Limbo]
  OBVIOUS
<1>5. Drops(K, L, T, R, G, H) /\ Unstacks(K, L, h, s)
  BY <1>1, <1>2, <1>3, <1>4, UnstackDrops
<1>6. /\ L \in Kernel /\ L.error = K.error /\ L.error2 = K.error2 /\ L.txn = K.txn
      /\ Good(L, T, R, H)
  BY <1>5 DEF Unstacks, Drops
<1>7. ~ L.bug /\ L.error[h] = "OK" /\ L.error2[h] = "OK"
  <2>1. h \in T
    BY <1>2
  <2> QED BY <1>6, <2>1 DEF Good, Errors
<1>8. PICK N : N = Fail(L, h, "COMPLETE")
  OBVIOUS
<1>12. Recodes(L, N, h) /\ N.error[h] = "COMPLETE"
  <2>1. "COMPLETE" \in Codes
    BY DEF Codes
  <2> QED BY <1>1, <1>6, <1>7, <1>8, <2>1, FailRecodes
<1>13. Drops(L, N, T, R, H, H)
  <2>1. Good(N, T, R, H)
    BY <1>2, <1>6, <1>12, RecodeGood
  <2>2. Spares(L, N)
    BY <1>12 DEF Recodes, Spares
  <2>3. ASSUME NEW g \in T PROVE Due(N, H, g) = Due(L, H, g)
    <3>1. Out(N, g) = Out(L, g) /\ Replies(N, H, g) = Replies(L, H, g)
      BY <1>12 DEF Recodes, Out, Replies
    <3>2. CASE g # h
      <4>1. g \in Threads
        BY <1>6 DEF Good, Typed
      <4>2. N.error[g] = L.error[g] /\ N.error2[g] = L.error2[g]
        BY <1>12, <3>2, <4>1 DEF Recodes
      <4> QED BY <3>1, <4>2 DEF Due
    <3>3. CASE g = h
      <4>1. Answer(N.error[g]) = Answer(L.error[g]) /\ Answer(N.error2[g]) = Answer(L.error2[g])
        BY <1>7, <1>12, <3>3 DEF Answer, Recodes
      <4> QED BY <3>1, <4>1 DEF Due
    <3> QED BY <3>2, <3>3
  <2> QED BY <2>1, <2>2, <2>3 DEF Drops
<1>14. N.txn[s].kind = "call" /\ H[s] = Limbo /\ G = [H EXCEPT ![s] = Nowhere]
  <2>1. K.txn[s].kind = "call" /\ G[s] = Nowhere
    BY DEF In
  <2>2. N.txn = K.txn
    BY <1>6, <1>12 DEF Recodes
  <2> QED BY <1>1, <1>4, <2>1, <2>2
<1>15. M = binder_send_failed_reply(N, s, code)
  BY <1>8 DEF FailReply
<1>16. Good(N, T, R, H)
  BY <1>13 DEF Drops
<1>17. Drops(N, M, T, R, H, G)
  BY <1>14, <1>15, <1>16, FailedReplyGood
<1>18. Drops(K, N, T, R, G, H)
  BY <1>5, <1>13, DropsTrans
<1>19. Drops(K, M, T, R, G, G)
  BY <1>17, <1>18, DropsTrans
<1> QED BY <1>2, <1>3, <1>19, DropsStep

(* The caller f is off its call s.                                         *)
Popped(K, M, G, f, s) ==
  /\ Sound(M, G) /\ Idle(K, M) /\ M.live = K.live /\ M.procs = K.procs
  /\ M.txn[s].kind = "free" /\ \A u \in Txns \ {s} : M.txn[u] = K.txn[u]
  /\ Due(M, G, f) + 1 = Due(K, G, f)
  /\ \A g \in K.live \ {f} : Due(M, G, g) = Due(K, G, g)

Popping(K, M, f, s) ==
  /\ M \in Kernel /\ M.txn[s] = NoTransaction
  /\ \A u \in Txns \ {s} : M.txn[u] = K.txn[u]
  /\ M.stack[f] = K.txn[s].from_parent
  /\ \A g \in Threads \ {f} : M.stack[g] = K.stack[g]
  /\ M.error = K.error /\ M.error2 = K.error2 /\ ~ M.bug
  /\ M.has_async = K.has_async /\ M.held = K.held
  /\ M.todo = K.todo /\ M.ptodo = K.ptodo /\ M.async_todo = K.async_todo
  /\ M.live = K.live /\ M.procs = K.procs

LEMMA PopType ==
  ASSUME NEW K \in Kernel, NEW s \in Txns, NEW f \in Threads, ~ K.bug,
         K.stack[f] = s, K.txn[s].from = f,
         NEW M, M = binder_pop_transaction(K, f, s)
  PROVE  Popping(K, M, f, s)
<1>1. PICK n \in Txns \cup {NoTxn} : n = K.txn[s].from_parent
  BY DEF Kernel, TxnRecs
<1>2. PICK L : L = [K EXCEPT !.stack[f] = n, !.bug = FALSE]
  OBVIOUS
<1>3. L \in Kernel
  BY <1>2 DEF Kernel
<1>4. /\ L.txn = K.txn /\ L.stack[f] = n
      /\ \A g \in Threads \ {f} : L.stack[g] = K.stack[g]
      /\ L.error = K.error /\ L.error2 = K.error2 /\ ~ L.bug
      /\ L.has_async = K.has_async /\ L.held = K.held
      /\ L.todo = K.todo /\ L.ptodo = K.ptodo /\ L.async_todo = K.async_todo
      /\ L.live = K.live /\ L.procs = K.procs
  BY <1>2 DEF Kernel
<1>5. f # NoThread
  BY BinderAssumption
<1>6. M = [L EXCEPT !.txn[s] = NoTransaction]
  BY <1>1, <1>2, <1>5 DEF binder_pop_transaction
<1>7. SetsTxn(L, M, s, NoTransaction)
  BY <1>3, <1>6, SetTxn, NoTransactionType
<1> QED BY <1>1, <1>4, <1>7 DEF SetsTxn, Popping

LEMMA PoppingSound ==
  ASSUME NEW K, NEW G, Sound(K, G), NEW h \in K.live, K.error[h] = "OK",
         NEW s \in Txns, s = K.stack[h], s \in In(K, G, h),
         NEW f \in K.live \ {h}, K.stack[f] = s, s \in Out(K, f),
         NEW H, Moved(G, H, s, Limbo), NEW L,
         Drops(K, L, K.live, K.procs, G, H), Unstacks(K, L, h, s),
         NEW M, Popping(L, M, f, s)
  PROVE  Popped(K, M, G, f, s)
<1>1. /\ Good(K, K.live, K.procs, G) /\ G \in [Txns -> Wheres] /\ h \in Threads
      /\ f \in Threads /\ Listed(K, G)
  BY DEF Sound, Good, Typed
<1>2. K.txn[s].kind = "call" /\ K.txn[s].from = f /\ G[s] = Nowhere
  BY DEF In, Out
<1>5. /\ L \in Kernel /\ L.txn = K.txn /\ L.stack[f] = s /\ L.bug = K.bug
      /\ \A g \in Threads \ {h} : L.stack[g] = K.stack[g]
      /\ L.error = K.error /\ L.error2 = K.error2
      /\ L.has_async = K.has_async /\ L.held = K.held
  BY <1>1 DEF Unstacks
<1>6. Good(L, K.live, K.procs, H) /\ Spares(K, L)
  BY DEF Drops
<1>7. ~ L.bug /\ \A g \in K.live : L.error2[g] # "OK" => L.error[g] # "OK"
  BY <1>6 DEF Good, Errors
<1>8. /\ M \in Kernel /\ M.txn[s] = NoTransaction
      /\ \A u \in Txns \ {s} : M.txn[u] = L.txn[u]
      /\ M.stack[f] = L.txn[s].from_parent
      /\ \A g \in Threads \ {f} : M.stack[g] = L.stack[g]
      /\ M.error = L.error /\ M.error2 = L.error2 /\ ~ M.bug
      /\ M.has_async = L.has_async /\ M.held = L.held
      /\ M.todo = L.todo /\ M.ptodo = L.ptodo /\ M.async_todo = L.async_todo
      /\ M.live = L.live /\ M.procs = L.procs
  BY DEF Popping
<1>9. Pops(L, M, s, f)
  <2>1. M.bug = FALSE /\ L.bug = FALSE
    BY <1>5, <1>7, <1>8 DEF Kernel
  <2>2. L.error2[f] # "OK" => L.error[f] # "OK"
    BY <1>7
  <2> QED BY <1>8, <2>1, <2>2 DEF Pops
<1>10. G = [H EXCEPT ![s] = Nowhere] /\ H[s] = Limbo /\ L.txn[s].kind = "call"
       /\ L.txn[s].from = f
  <2>1. G = [H EXCEPT ![s] = Nowhere] /\ H[s] = Limbo
    BY <1>1, <1>2 DEF Moved
  <2> QED BY <1>2, <1>5, <2>1
<1>11. Good(M, K.live, K.procs, G)
  BY <1>6, <1>9, <1>10, PopCaller
<1>12. /\ M.todo = K.todo /\ M.ptodo = K.ptodo /\ M.async_todo = K.async_todo
       /\ M.live = K.live /\ M.procs = K.procs
  BY <1>6, <1>8 DEF Spares
<1>13. Sound(M, G)
  <2>1. Listed(M, G)
    BY <1>1, <1>12 DEF Listed
  <2> QED BY <1>11, <1>12, <2>1 DEF Sound
<1>14. Idle(K, M)
  <2>1. K.stack[h] # NoTxn /\ K.stack[f] # NoTxn
    BY BinderAssumption
  <2> QED BY <1>5, <1>8, <2>1 DEF Idle
<1>15. /\ M.txn[s].kind = "free" /\ \A u \in Txns \ {s} : M.txn[u] = K.txn[u]
       /\ M.error = K.error /\ M.error2 = K.error2
  BY <1>5, <1>8, NoTransactionFacts
<1>16. \A g : Replies(M, G, g) = Replies(K, G, g)
  BY <1>2, <1>15 DEF Replies
<1>17. ASSUME NEW g \in K.live \ {f} PROVE Due(M, G, g) = Due(K, G, g)
  <2>1. Out(M, g) = Out(K, g)
    BY <1>2, <1>15 DEF Out
  <2>2. Replies(M, G, g) = Replies(K, G, g)
    BY <1>16, Zenon
  <2> QED BY <1>15, <2>1, <2>2 DEF Due
<1>18. Due(M, G, f) + 1 = Due(K, G, f)
  <2>1. Out(M, f) = Out(K, f) \ {s}
    BY <1>2, <1>15 DEF Out
  <2>2. PICK a \in Nat : a = Cardinality(Out(M, f))
    BY DueType
  <2>3. Cardinality(Out(K, f)) = a + 1
    <3>1. IsFiniteSet(Out(M, f)) /\ s \notin Out(M, f) /\ Out(K, f) = Out(M, f) \cup {s}
      BY <2>1, DueType
    <3> QED BY <2>2, <3>1, FS_AddElement
  <2>4. PICK b \in Nat : b = Cardinality(Replies(K, G, f))
    BY DueType
  <2>5. PICK c \in Nat : c = Answer(K.error[f])
    BY DueType
  <2>6. PICK d \in Nat : d = Answer(K.error2[f])
    BY DueType
  <2>7. Replies(M, G, f) = Replies(K, G, f)
    BY <1>16, Zenon
  <2>8. Due(M, G, f) = a + b + c + d /\ Due(K, G, f) = (a + 1) + b + c + d
    BY <1>15, <2>2, <2>3, <2>4, <2>5, <2>6, <2>7 DEF Due
  <2> QED BY <2>8
<1> QED BY <1>12, <1>13, <1>14, <1>15, <1>17, <1>18 DEF Popped

LEMMA PopSound ==
  ASSUME NEW K, NEW G, Sound(K, G), NEW h \in K.live, K.error[h] = "OK",
         NEW s \in Txns, s = K.stack[h], s \in In(K, G, h),
         NEW f \in K.live \ {h}, K.stack[f] = s, s \in Out(K, f),
         NEW L, L = [K EXCEPT !.stack[h] = K.txn[s].to_parent],
         NEW M, M = binder_pop_transaction(L, f, s)
  PROVE  Popped(K, M, G, f, s)
<1>1. PICK H : H = [G EXCEPT ![s] = Limbo]
  OBVIOUS
<1>2. /\ Good(K, K.live, K.procs, G) /\ h \in Threads /\ f \in Threads
  BY DEF Sound, Good, Typed
<1>9. Drops(K, L, K.live, K.procs, G, H) /\ Unstacks(K, L, h, s)
  BY <1>1, <1>2, UnstackDrops
<1>3. PICK N : /\ N = L
               /\ Drops(K, N, K.live, K.procs, G, H) /\ Unstacks(K, N, h, s)
  BY <1>9, Zenon
<1>4. N \in Kernel /\ N.stack[f] = s /\ N.txn[s].from = f
  BY <1>2, <1>3 DEF Unstacks, Out
<1>5. ~ N.bug
  BY <1>3 DEF Drops, Good, Errors
<1>6. M = binder_pop_transaction(N, f, s)
  BY <1>3
<1>7. Popping(N, M, f, s)
  BY <1>2, <1>4, <1>5, <1>6, PopType
<1>8. Drops(K, N, K.live, K.procs, G, H) /\ Unstacks(K, N, h, s)
  BY <1>3
<1>10. Moved(G, H, s, Limbo)
  <2>1. G \in [Txns -> Wheres]
    BY <1>2 DEF Good, Typed
  <2>2. Limbo \in Wheres
    BY DEF Wheres
  <2> QED BY <1>1, <2>1, <2>2, MovedExcept
<1> QED BY <1>7, <1>8, <1>10, PoppingSound

(* A reply is put on the list of its caller.                               *)
Hands(K, L, t) ==
  /\ L \in Kernel /\ L.txn[t].kind = "reply" /\ L.txn[t].from_parent = NoTxn
  /\ \A u \in Txns \ {t} : L.txn[u] = K.txn[u]
  /\ L.stack = K.stack /\ L.bug = K.bug /\ L.error = K.error /\ L.error2 = K.error2
  /\ L.live = K.live /\ L.procs = K.procs
  /\ L.has_async = K.has_async /\ L.held = K.held

Handed(K, L, G, H, f) ==
  /\ Sound(L, H) /\ L.stack = K.stack /\ L.live = K.live /\ L.procs = K.procs
  /\ Due(L, H, f) = Due(K, G, f) + 1
  /\ \A g \in K.live \ {f} : Due(L, H, g) = Due(K, G, g)

LEMMA HandSound ==
  ASSUME NEW K, NEW G, Sound(K, G), NEW t \in FreeTxns(K), NEW f \in K.live,
         NEW L, Hands(K, L, t), Posts(K, L, t, Todo(f)),
         NEW H, Moved(G, H, t, Todo(f))
  PROVE  Handed(K, L, G, H, f)
<1>1. /\ K \in Kernel /\ K.live \in SUBSET Threads /\ K.procs \in SUBSET Procs
      /\ G \in [Txns -> Wheres] /\ Good(K, K.live, K.procs, G) /\ Listed(K, G)
      /\ f \in Threads
  BY DEF Sound, Good, Typed
<1>2. t \in Txns /\ K.txn[t].kind = "free" /\ G[t] = Nowhere
  BY <1>1, FreeFacts
<1>3. /\ H \in [Txns -> Wheres] /\ H[t] = Todo(f)
      /\ \A u \in Txns \ {t} : H[u] = G[u]
  BY DEF Moved
<1>4. /\ L \in Kernel /\ L.txn[t].kind = "reply" /\ L.txn[t].from_parent = NoTxn
      /\ \A u \in Txns \ {t} : L.txn[u] = K.txn[u]
      /\ L.stack = K.stack /\ L.bug = K.bug /\ L.error = K.error /\ L.error2 = K.error2
      /\ L.live = K.live /\ L.procs = K.procs
      /\ L.has_async = K.has_async /\ L.held = K.held
  BY DEF Hands
<1>5. Aside(K, L, G, H)
  BY <1>2, <1>3, <1>4 DEF Aside
<1>6. FiledAt(L, K.live, K.procs, H, t)
  BY <1>1, <1>3, <1>4, WhereFacts DEF FiledAt
<1>7. Serial(L, K.procs, H)
  <2> SUFFICES ASSUME NEW q \in K.procs PROVE SerialAt(L, H, q)
    BY DEF Serial
  <2>1. SerialAt(K, G, q)
    BY <1>1 DEF Good, Serial
  <2>2. OutTo(L, H, q) = OutTo(K, G, q)
    BY <1>2, <1>3, <1>4 DEF OutTo
  <2>3. \A u \in Txns : H[u] = Async(q) => G[u] = Async(q)
    BY <1>3, WhereFacts
  <2> QED BY <1>4, <2>1, <2>2, <2>3 DEF SerialAt
<1>8. Good(L, K.live, K.procs, H)
  <2>1. \A u \in Txns : L.txn[u] # K.txn[u] \/ H[u] # G[u] => FiledAt(L, K.live, K.procs, H, u)
    BY <1>3, <1>4, <1>6
  <2>2. \A g \in K.live : \/ L.error[g] = K.error[g] /\ L.error2[g] = K.error2[g]
                          \/ L.error2[g] = "OK"
    BY <1>4
  <2>3. ~ L.bug
    BY <1>1, <1>4 DEF Good, Errors
  <2> QED BY <1>1, <1>5, <1>7, <2>1, <2>2, <2>3, AsideGood
<1>9. Listed(L, H)
  BY <1>1, <1>2, WhereFacts, PostListed
<1>10. Sound(L, H)
  BY <1>4, <1>8, <1>9 DEF Sound
<1>11. \A g : Out(L, g) = Out(K, g)
  BY <1>2, <1>4 DEF Out
<1>12. ASSUME NEW g \in K.live \ {f} PROVE Due(L, H, g) = Due(K, G, g)
  <2>1. Out(L, g) = Out(K, g)
    BY <1>11, Zenon
  <2>2. Replies(L, H, g) = Replies(K, G, g)
    BY <1>2, <1>3, <1>4, WhereFacts DEF Replies
  <2> QED BY <1>4, <2>1, <2>2, DueSame
<1>13. Due(L, H, f) = Due(K, G, f) + 1
  <2>1. Replies(L, H, f) = Replies(K, G, f) \cup {t} /\ t \notin Replies(K, G, f)
    BY <1>2, <1>3, <1>4 DEF Replies
  <2>2. PICK b \in Nat : b = Cardinality(Replies(K, G, f)) /\ IsFiniteSet(Replies(K, G, f))
    BY DueType
  <2>3. Cardinality(Replies(L, H, f)) = b + 1
    BY <2>1, <2>2, FS_AddElement
  <2>4. PICK a \in Nat : a = Cardinality(Out(K, f))
    BY DueType
  <2>5. PICK c \in Nat : c = Answer(K.error[f])
    BY DueType
  <2>6. PICK d \in Nat : d = Answer(K.error2[f])
    BY DueType
  <2>7. Out(L, f) = Out(K, f)
    BY <1>11, Zenon
  <2>8. Due(L, H, f) = a + (b + 1) + c + d /\ Due(K, G, f) = a + b + c + d
    BY <1>4, <2>2, <2>3, <2>4, <2>5, <2>6, <2>7 DEF Due
  <2> QED BY <2>8
<1> QED BY <1>4, <1>10, <1>12, <1>13 DEF Handed

LEMMA HandOver ==
  ASSUME NEW K, NEW G, Sound(K, G), NEW t \in FreeTxns(K), NEW f \in K.live,
         NEW L, L = [K EXCEPT !.txn[t] = [NoTransaction EXCEPT !.kind = "reply",
                                            !.to_proc = ProcOf[f], !.to_thread = f],
                              !.todo[f] = Append(@, t)]
  PROVE  \E H : Handed(K, L, G, H, f)
<1>1. /\ K \in Kernel /\ G \in [Txns -> Wheres] /\ f \in Threads
      /\ Good(K, K.live, K.procs, G) /\ ProcOf[f] \in Procs
  BY BinderAssumption DEF Sound, Good, Typed
<1>2. t \in Txns
  BY <1>1, FreeFacts
<1>3. PICK r \in TxnRecs : r = [NoTransaction EXCEPT !.kind = "reply",
                                  !.to_proc = ProcOf[f], !.to_thread = f]
  BY <1>1 DEF TxnRecs, NoTransaction
<1>4. r.kind = "reply" /\ r.from_parent = NoTxn
  BY <1>3 DEF NoTransaction
<1>5. PICK list \in Seq(Works) : list = Append(K.todo[f], t)
  <2>1. K.todo[f] \in Seq(Works) /\ t \in Works
    BY <1>1, <1>2, ListTypes DEF Works
  <2> QED BY <2>1, AppendProperties
<1>6. PICK M : M = [K EXCEPT !.txn[t] = r, !.todo[f] = list]
  OBVIOUS
<1>7. L = M
  BY <1>3, <1>5, <1>6
<1>8. M \in Kernel
  <2>1. list \in Seq(Txns \cup {Complete})
    BY <1>5 DEF Works
  <2> QED BY <1>1, <1>6, <2>1 DEF Kernel
<1>9. /\ M.txn[t] = r /\ \A u \in Txns \ {t} : M.txn[u] = K.txn[u]
      /\ M.stack = K.stack /\ M.error = K.error
      /\ M.error2 = K.error2 /\ M.bug = K.bug /\ M.has_async = K.has_async
      /\ M.held = K.held /\ M.live = K.live /\ M.procs = K.procs
      /\ M.ptodo = K.ptodo /\ M.async_todo = K.async_todo /\ M.todo[f] = list
      /\ \A g \in Threads \ {f} : M.todo[g] = K.todo[g]
  BY <1>1, <1>2, <1>6 DEF Kernel
<1>10. Hands(K, M, t)
  BY <1>4, <1>8, <1>9 DEF Hands
<1>11. Posts(K, M, t, Todo(f))
  <2>1. \A q \in Procs : Posted(K.ptodo[q], M.ptodo[q], t, Ptodo(q), Todo(f))
    BY <1>9, WhereFacts DEF Posted
  <2>2. \A g \in Threads : Posted(K.todo[g], M.todo[g], t, Todo(g), Todo(f))
    BY <1>5, <1>9, WhereFacts DEF Posted
  <2>3. \A q \in Procs : Posted(K.async_todo[q], M.async_todo[q], t, Async(q), Todo(f))
    BY <1>9, WhereFacts DEF Posted
  <2> QED BY <2>1, <2>2, <2>3 DEF Posts
<1>12. PICK H : Moved(G, H, t, Todo(f))
  <2>1. Todo(f) \in Wheres
    BY <1>1 DEF Wheres
  <2> QED BY <1>1, <1>2, <2>1, MovedExcept
<1>13. Handed(K, M, G, H, f)
  BY <1>10, <1>11, <1>12, HandSound
<1> QED BY <1>7, <1>13

LEMMA ReplySent ==
  ASSUME NEW K, NEW G, Sound(K, G), NEW h \in K.live, K.error[h] = "OK",
         NEW s \in Txns, s = K.stack[h], K.txn[s].to_thread = h,
         NEW f \in K.live \ {h}, f = K.txn[s].from, K.stack[f] = s,
         FreeTxns(K) # {}, s \in In(K, G, h), s \in Out(K, f),
         NEW fails \in BOOLEAN, ~ fails, NEW L, L = binder_reply(K, h, fails)
  PROVE  \E H : Step(K, L, G, H, h) /\ Due(L, H, h) = Due(K, G, h)
<1>1. /\ K \in Kernel /\ f \in Threads /\ h \in Threads
  BY DEF Sound, Good, Typed
<1>2. PICK K1 : K1 = [K EXCEPT !.stack[h] = K.txn[s].to_parent]
  OBVIOUS
<1>3. K1.txn = K.txn /\ K1.stack[f] = s
  BY <1>1, <1>2 DEF Kernel
<1>4. PICK t \in FreeTxns(K) : t = NewTxn(K1)
  BY <1>3 DEF NewTxn, FreeTxns
<1>5. PICK M : M = binder_pop_transaction(K1, f, s)
  OBVIOUS
<1>6. Popped(K, M, G, f, s)
  BY <1>2, <1>5, PopSound
<1>7. /\ Sound(M, G) /\ M.live = K.live /\ M.procs = K.procs
      /\ Idle(K, M) /\ \A u \in Txns \ {s} : M.txn[u] = K.txn[u]
      /\ Due(M, G, f) + 1 = Due(K, G, f)
      /\ \A g \in K.live \ {f} : Due(M, G, g) = Due(K, G, g)
  BY <1>6 DEF Popped
<1>8. t \in FreeTxns(M)
  <2>1. K.txn[s].kind # "free"
    BY DEF In
  <2> QED BY <1>4, <1>7, <2>1 DEF FreeTxns
<1>9. PICK N : N = [M EXCEPT !.txn[t] = [NoTransaction EXCEPT !.kind = "reply",
                                            !.to_proc = ProcOf[f], !.to_thread = f],
                             !.todo[f] = Append(@, t)]
  OBVIOUS
<1>10. PICK H : Handed(M, N, G, H, f)
  <2>1. f \in M.live
    BY <1>7
  <2> QED BY <1>7, <1>8, <1>9, <2>1, HandOver
<1>11. /\ Sound(N, H) /\ N.stack = M.stack /\ N.live = K.live /\ N.procs = K.procs
       /\ Due(N, H, f) = Due(M, G, f) + 1
       /\ \A g \in K.live \ {f} : Due(N, H, g) = Due(M, G, g)
  BY <1>7, <1>10 DEF Handed
<1>12. Step(K, N, G, H, h) /\ Due(N, H, h) = Due(K, G, h)
  <2>1. \A g \in K.live : Due(N, H, g) = Due(K, G, g)
    BY <1>7, <1>11
  <2>2. \A g \in Threads : K.stack[g] = NoTxn => N.stack[g] = NoTxn
    BY <1>7, <1>11 DEF Idle
  <2> QED BY <1>11, <2>1, <2>2 DEF Step
<1>13. PICK N1 : N1 = [N EXCEPT !.todo[h] = Append(@, Complete)]
  OBVIOUS
<1>14. Step(N, N1, H, H, h) /\ Due(N1, H, h) = Due(N, H, h)
  BY <1>1, <1>11, <1>13, CompleteStep
<1>15. Step(K, N1, G, H, h) /\ N1 \in Kernel
  <2>1. Step(K, N1, G, H, h)
    BY <1>12, <1>14, StepTrans
  <2> QED BY <2>1 DEF Step, Sound, Good, Typed
<1>16. L = wake_thread(N1, f)
  <2>1. s # NoTxn /\ f # NoThread
    BY <1>1, BinderAssumption
  <2> QED BY <1>2, <1>3, <1>4, <1>5, <1>9, <1>13, <2>1 DEF binder_reply
<1>17. PICK Q : Q = L /\ Q = wake_thread(N1, f)
  BY <1>16, Zenon
<1>18. Same(N1, Q)
  BY <1>15, <1>17, WakeSame
<1>19. Step(K, Q, G, H, h) /\ Due(Q, H, h) = Due(N1, H, h)
  BY <1>15, <1>18, StepSame
<1> QED BY <1>12, <1>14, <1>17, <1>19

LEMMA ReplyStep ==
  ASSUME NEW K, NEW G, Sound(K, G), NEW h \in K.live, K.error[h] = "OK",
         NEW fails \in BOOLEAN, FreeTxns(K) = {} => fails,
         NEW L, L = binder_reply(K, h, fails)
  PROVE  \E H : /\ Step(K, L, G, H, h)
                /\ Due(L, H, h) = Due(K, G, h)
                     + (IF K.stack[h] = NoTxn \/ K.txn[K.stack[h]].to_thread # h
                          THEN 1 ELSE 0)
<1>1. /\ K \in Kernel /\ Good(K, K.live, K.procs, G) /\ h \in Threads
      /\ Due(K, G, h) \in Nat
  BY DueType DEF Sound, Good, Typed
<1>2. CASE K.stack[h] = NoTxn \/ K.txn[K.stack[h]].to_thread # h
  <2>1. L = Fail(K, h, "FAILED")
    BY <1>2 DEF binder_reply
  <2>2. "FAILED" \in Codes /\ Answer("FAILED") = 1
    BY DEF Codes, Answer
  <2>3. Step(K, L, G, G, h) /\ Due(L, G, h) = Due(K, G, h) + Answer("FAILED")
    BY <2>1, <2>2, FailStep
  <2> QED BY <1>2, <2>2, <2>3
<1>3. CASE ~ (K.stack[h] = NoTxn \/ K.txn[K.stack[h]].to_thread # h)
  <2>1. PICK s \in Txns : s = K.stack[h]
    BY <1>1, <1>3 DEF Kernel
  <2>2. s # NoTxn /\ K.txn[s].to_thread = h
    BY <1>3, <2>1
  <2>3. PICK f : f = K.txn[s].from
    OBVIOUS
  <2>4. /\ s \in In(K, G, h) /\ K.txn[s].kind = "call" /\ G[s] = Nowhere
        /\ f # NoThread => /\ f \in K.live \ {h} /\ K.stack[f] = s /\ s \in Out(K, f)
    BY <1>1, <2>1, <2>2, <2>3, ReplyTo
  <2>5. PICK M : M = [K EXCEPT !.stack[h] = K.txn[s].to_parent]
    OBVIOUS
  <2> SUFFICES \E H : Step(K, L, G, H, h) /\ Due(L, H, h) = Due(K, G, h)
    BY <1>1, <1>3
  <2>6. CASE f = NoThread
    <3>1. L = FailReply(M, h, s, "DEAD")
      BY <2>1, <2>2, <2>3, <2>5, <2>6 DEF binder_reply
    <3>2. Step(K, L, G, G, h) /\ Due(L, G, h) = Due(K, G, h)
      BY <2>1, <2>4, <2>5, <3>1, FailReplyStep
    <3> QED BY <3>2
  <2>7. CASE f # NoThread
    <3>1. /\ f \in K.live \ {h} /\ K.stack[f] = s /\ s \in Out(K, f) /\ f \in Threads
      BY <2>4, <2>7 DEF Sound, Good, Typed
    <3>2. M.stack[f] = s
      BY <1>1, <2>5, <3>1 DEF Kernel
    <3>3. CASE fails
      <4>1. L = FailReply(M, h, s, "FAILED")
        BY <2>1, <2>2, <2>3, <2>5, <2>7, <3>2, <3>3 DEF binder_reply
      <4>2. Step(K, L, G, G, h) /\ Due(L, G, h) = Due(K, G, h)
        BY <2>1, <2>4, <2>5, <4>1, FailReplyStep
      <4> QED BY <4>2
    <3>4. CASE ~ fails
      <4>1. FreeTxns(K) # {}
        BY <3>4
      <4>2. /\ s = K.stack[h] /\ K.txn[s].to_thread = h /\ f = K.txn[s].from
            /\ K.stack[f] = s /\ s \in In(K, G, h) /\ s \in Out(K, f)
            /\ f \in K.live \ {h}
        BY <2>1, <2>2, <2>3, <2>4, <3>1
      <4> QED BY <3>4, <4>1, <4>2, ReplySent
    <3> QED BY <3>3, <3>4
  <2> QED BY <2>6, <2>7
<1> QED BY <1>2, <1>3

-----------------------------------------------------------------------------
(* What a read hands to the user.                                          *)

LEMMA TakeStep ==
  ASSUME NEW K, NEW G, Sound(K, G), NEW h \in K.live, NEW t \in Txns,
         K.txn[t].kind = "call", NEW w, G[t] = w,
         w = Todo(h) \/ (w = Ptodo(ProcOf[h]) /\ K.stack[h] = NoTxn),
         NEW L, Takes(K, L, h, t), L.live = K.live, L.procs = K.procs,
         Unposts(K, L, t, w), NEW H, Moved(G, H, t, Nowhere)
  PROVE  Step(K, L, G, H, h) /\ Due(L, H, h) = Due(K, G, h)
<1>1. /\ K \in Kernel /\ Good(K, K.live, K.procs, G) /\ Listed(K, G)
      /\ G \in [Txns -> Wheres] /\ h \in Threads
  BY DEF Sound, Good, Typed
<1>2. H = [G EXCEPT ![t] = Nowhere]
  BY <1>1, MovedIs
<1>3. Good(L, K.live, K.procs, H)
  <2>1. G[t] = Todo(h) \/ (G[t] = Ptodo(ProcOf[h]) /\ K.stack[h] = NoTxn)
    OBVIOUS
  <2> QED BY <1>1, <1>2, <2>1, TakeKeeps
<1>4. Listed(L, H)
  BY <1>1, UnpostListed
<1>5. Sound(L, H)
  BY <1>3, <1>4 DEF Sound
<1>6. /\ L.txn[t].kind = "call" /\ L.txn[t].from = K.txn[t].from
      /\ \A u \in Txns \ {t} : L.txn[u] = K.txn[u]
      /\ L.error = K.error /\ L.error2 = K.error2
      /\ \A g \in Threads \ {h} : L.stack[g] = K.stack[g]
  <2>1. K.txn[t] \in TxnRecs
    BY <1>1 DEF Kernel
  <2> QED BY <2>1 DEF Takes, TxnRecs
<1>7. ASSUME NEW g PROVE Due(L, H, g) = Due(K, G, g)
  <2>1. Out(L, g) = Out(K, g)
    BY <1>6 DEF Out
  <2>2. Replies(L, H, g) = Replies(K, G, g)
    BY <1>6 DEF Replies, Moved
  <2> QED BY <1>6, <2>1, <2>2 DEF Due
<1> QED BY <1>5, <1>6, <1>7 DEF Step

(* A reply or a one-way call is given to the user and freed.               *)
Consumes(K, L, h, t) ==
  /\ L \in Kernel /\ L.txn[t] = NoTransaction
  /\ \A u \in Txns \ {t} : L.txn[u] = K.txn[u]
  /\ L.stack = K.stack /\ L.bug = K.bug /\ L.error = K.error /\ L.error2 = K.error2
  /\ L.live = K.live /\ L.procs = K.procs /\ L.has_async = K.has_async
  /\ L.held[ProcOf[h]] = (K.held[ProcOf[h]] \/ K.txn[t].kind = "oneway")
  /\ \A q \in Procs \ {ProcOf[h]} : L.held[q] = K.held[q]

LEMMA ConsumeSerial ==
  ASSUME NEW K, NEW G, Sound(K, G), NEW h \in K.live, NEW t \in Txns,
         K.txn[t].kind \in {"oneway", "reply"}, NEW w, G[t] = w,
         w \in {Todo(h), Ptodo(ProcOf[h])},
         NEW L, Consumes(K, L, h, t), NEW H, Moved(G, H, t, Nowhere)
  PROVE  Serial(L, K.procs, H)
<1>1. /\ K \in Kernel /\ Good(K, K.live, K.procs, G) /\ K.procs \in SUBSET Procs
      /\ G \in [Txns -> Wheres] /\ h \in Threads /\ ProcOf[h] \in Procs
  BY BinderAssumption DEF Sound, Good, Typed
<1>2. /\ L.txn[t].kind = "free" /\ \A u \in Txns \ {t} : L.txn[u] = K.txn[u]
      /\ L.has_async = K.has_async /\ H[t] = Nowhere
      /\ \A u \in Txns \ {t} : H[u] = G[u]
  BY NoTransactionFacts DEF Consumes, Moved
<1>3. K.txn[t].kind = "oneway" => K.txn[t].to_proc = ProcOf[h]
  <2>1. FiledAt(K, K.live, K.procs, G, t)
    BY <1>1 DEF Good, Filed
  <2> QED BY <1>1, <2>1 DEF FiledAt
<1>4. \A q \in Procs : G[t] \notin {Async(q), Limbo}
  BY <1>1, WhereFacts
<1> SUFFICES ASSUME NEW q \in K.procs PROVE SerialAt(L, H, q)
  BY DEF Serial
<1>5. SerialAt(K, G, q) /\ q \in Procs
  BY <1>1 DEF Good, Serial
<1>6. \A u \in Txns : H[u] = Async(q) => G[u] = Async(q)
  BY <1>2, WhereFacts
<1>7. CASE K.txn[t].kind = "oneway" /\ q = ProcOf[h]
  <2>1. t \in OutTo(K, G, q)
    BY <1>3, <1>4, <1>5, <1>7 DEF OutTo
  <2>2. OutTo(L, H, q) = {}
    <3>1. OutTo(L, H, q) \subseteq OutTo(K, G, q) \ {t}
      BY <1>2 DEF OutTo
    <3> QED BY <1>5, <2>1, <3>1 DEF SerialAt
  <2>3. K.has_async[q]
    BY <1>5, <2>1 DEF SerialAt
  <2>4. L.held[q]
    BY <1>7 DEF Consumes
  <2> QED BY <1>2, <2>2, <2>3, <2>4 DEF SerialAt
<1>8. CASE ~ (K.txn[t].kind = "oneway" /\ q = ProcOf[h])
  <2>1. OutTo(L, H, q) = OutTo(K, G, q)
    BY <1>2, <1>3, <1>8 DEF OutTo
  <2>2. L.held[q] = K.held[q]
    <3>1. K.held[q] \in BOOLEAN
      BY <1>1, <1>5 DEF Kernel
    <3> QED BY <1>5, <1>8, <3>1 DEF Consumes
  <2> QED BY <1>2, <1>5, <1>6, <2>1, <2>2 DEF SerialAt
<1> QED BY <1>7, <1>8

LEMMA ConsumeStep ==
  ASSUME NEW K, NEW G, Sound(K, G), NEW h \in K.live, NEW t \in Txns,
         K.txn[t].kind \in {"oneway", "reply"}, NEW w, G[t] = w,
         w \in {Todo(h), Ptodo(ProcOf[h])},
         NEW L, Consumes(K, L, h, t), Unposts(K, L, t, w),
         NEW H, Moved(G, H, t, Nowhere)
  PROVE  /\ Step(K, L, G, H, h)
         /\ Due(L, H, h) + (IF K.txn[t].kind = "reply" THEN 1 ELSE 0) = Due(K, G, h)
<1>1. /\ K \in Kernel /\ Good(K, K.live, K.procs, G) /\ Listed(K, G)
      /\ G \in [Txns -> Wheres] /\ h \in Threads /\ ProcOf[h] \in Procs
  BY BinderAssumption DEF Sound, Good, Typed
<1>2. /\ L \in Kernel /\ L.txn[t].kind = "free" /\ L.txn[t].from_parent = NoTxn
      /\ \A u \in Txns \ {t} : L.txn[u] = K.txn[u]
      /\ L.stack = K.stack /\ L.bug = K.bug /\ L.error = K.error
      /\ L.error2 = K.error2 /\ L.live = K.live /\ L.procs = K.procs
  BY NoTransactionFacts DEF Consumes
<1>3. /\ H \in [Txns -> Wheres] /\ H[t] = Nowhere
      /\ \A u \in Txns \ {t} : H[u] = G[u]
  BY DEF Moved
<1>4. Serial(L, K.procs, H)
  BY ConsumeSerial
<1>5. Good(L, K.live, K.procs, H)
  <2>1. Aside(K, L, G, H)
    BY <1>2, <1>3 DEF Aside
  <2>2. FiledAt(L, K.live, K.procs, H, t)
    BY <1>2, <1>3, WhereFacts DEF FiledAt
  <2>3. \A u \in Txns : L.txn[u] # K.txn[u] \/ H[u] # G[u] => FiledAt(L, K.live, K.procs, H, u)
    BY <1>2, <1>3, <2>2
  <2>4. ~ L.bug
    BY <1>1, <1>2 DEF Good, Errors
  <2>5. \A g \in K.live : \/ L.error[g] = K.error[g] /\ L.error2[g] = K.error2[g]
                          \/ L.error2[g] = "OK"
    BY <1>2
  <2> QED BY <1>1, <1>4, <2>1, <2>3, <2>4, <2>5, AsideGood
<1>6. Listed(L, H)
  BY <1>1, UnpostListed
<1>7. Sound(L, H)
  BY <1>2, <1>5, <1>6 DEF Sound
<1>8. \A g : Out(L, g) = Out(K, g)
  BY <1>2 DEF Out
<1>9. K.txn[t].kind = "reply" => G[t] = Todo(h)
  <2>1. FiledAt(K, K.live, K.procs, G, t)
    BY <1>1 DEF Good, Filed
  <2> QED BY <1>1, <2>1 DEF FiledAt
<1>10. ASSUME NEW g \in K.live \ {h} PROVE Due(L, H, g) = Due(K, G, g)
  <2>1. Out(L, g) = Out(K, g)
    BY <1>8, Zenon
  <2>2. Replies(L, H, g) = Replies(K, G, g)
    BY <1>2, <1>3, <1>9, WhereFacts DEF Replies
  <2> QED BY <1>2, <2>1, <2>2 DEF Due
<1>11. Step(K, L, G, H, h)
  BY <1>2, <1>7, <1>10 DEF Step
<1>12. Out(L, h) = Out(K, h)
  BY <1>8, Zenon
<1>13. CASE K.txn[t].kind = "oneway"
  <2>1. Replies(L, H, h) = Replies(K, G, h)
    BY <1>2, <1>3, <1>13 DEF Replies
  <2>2. Due(L, H, h) = Due(K, G, h) /\ Due(L, H, h) \in Nat
    BY <1>2, <1>12, <2>1, DueSame, DueType
  <2>3. Due(L, H, h) + 0 = Due(K, G, h)
    BY <2>2
  <2> QED BY <1>11, <1>13, <2>3
<1>14. CASE K.txn[t].kind = "reply"
  <2>1. Replies(K, G, h) = Replies(L, H, h) \cup {t} /\ t \notin Replies(L, H, h)
    BY <1>2, <1>3, <1>9, <1>14 DEF Replies
  <2>2. PICK b \in Nat : b = Cardinality(Replies(L, H, h)) /\ IsFiniteSet(Replies(L, H, h))
    BY DueType
  <2>3. Cardinality(Replies(K, G, h)) = b + 1
    BY <2>1, <2>2, FS_AddElement
  <2>4. PICK a \in Nat : a = Cardinality(Out(K, h))
    BY DueType
  <2>5. PICK c \in Nat : c = Answer(K.error[h])
    BY DueType
  <2>6. PICK d \in Nat : d = Answer(K.error2[h])
    BY DueType
  <2>7. Due(L, H, h) = a + b + c + d /\ Due(K, G, h) = a + (b + 1) + c + d
    BY <1>2, <1>12, <2>2, <2>3, <2>4, <2>5, <2>6 DEF Due
  <2>8. Due(L, H, h) + 1 = Due(K, G, h)
    BY <2>7
  <2> QED BY <1>11, <1>14, <2>8
<1> QED BY <1>13, <1>14

LEMMA DeliverStep ==
  ASSUME NEW K, NEW G, Sound(K, G), NEW h \in K.live, NEW t \in Txns,
         NEW w, G[t] = w,
         w = Todo(h) \/ (w = Ptodo(ProcOf[h]) /\ K.stack[h] = NoTxn),
         NEW M, Relists(K, M), Unposts(K, M, t, w),
         NEW L, L = Deliver(M, h, t)
  PROVE  \E H : /\ Step(K, L, G, H, h)
                /\ Due(L, H, h) + (IF K.txn[t].kind = "reply" THEN 1 ELSE 0)
                     = Due(K, G, h)
<1>1. /\ K \in Kernel /\ Good(K, K.live, K.procs, G) /\ G \in [Txns -> Wheres]
      /\ h \in Threads /\ ProcOf[h] \in Procs
  BY BinderAssumption DEF Sound, Good, Typed
<1>2. /\ M \in Kernel /\ M.txn = K.txn /\ M.stack = K.stack /\ M.bug = K.bug
      /\ M.error = K.error /\ M.error2 = K.error2
      /\ M.live = K.live /\ M.procs = K.procs
      /\ M.has_async = K.has_async /\ M.held = K.held
  BY DEF Relists
<1>3. PICK H : Moved(G, H, t, Nowhere)
  <2>1. Nowhere \in Wheres
    BY DEF Wheres
  <2> QED BY <1>1, <2>1, MovedExcept
<1>4. K.txn[t].kind \in {"call", "oneway", "reply"}
  <2>1. FiledAt(K, K.live, K.procs, G, t) /\ w # Nowhere
    BY <1>1, WhereFacts DEF Good, Filed
  <2>2. K.txn[t].kind # "free"
    BY <2>1 DEF FiledAt
  <2>3. K.txn[t] \in TxnRecs
    BY <1>1 DEF Kernel
  <2> QED BY <2>2, <2>3 DEF TxnRecs
<1>5. CASE K.txn[t].kind = "call"
  <2>1. PICK r \in TxnRecs : r = [M.txn[t] EXCEPT !.to_parent = M.stack[h], !.to_thread = h]
    <3>1. M.txn[t] \in TxnRecs /\ M.stack[h] \in Txns \cup {NoTxn}
      BY <1>1, <1>2 DEF Kernel
    <3> QED BY <1>1, <3>1 DEF TxnRecs
  <2>2. PICK N : N = [M EXCEPT !.txn[t] = r, !.stack[h] = t]
    OBVIOUS
  <2>3. L = N
    BY <1>2, <1>5, <2>1, <2>2 DEF Deliver
  <2>4. N \in Kernel
    BY <1>1, <1>2, <2>2 DEF Kernel
  <2>5. /\ N.txn[t] = r /\ \A u \in Txns \ {t} : N.txn[u] = M.txn[u]
        /\ N.stack[h] = t /\ \A g \in Threads \ {h} : N.stack[g] = M.stack[g]
        /\ N.error = M.error /\ N.error2 = M.error2 /\ N.bug = M.bug
        /\ N.has_async = M.has_async /\ N.held = M.held
        /\ N.live = M.live /\ N.procs = M.procs
        /\ N.todo = M.todo /\ N.ptodo = M.ptodo /\ N.async_todo = M.async_todo
    BY <1>1, <1>2, <2>2 DEF Kernel
  <2>6. Takes(K, N, h, t)
    BY <1>2, <2>1, <2>4, <2>5 DEF Takes
  <2>7. Unposts(K, N, t, w)
    BY <2>5 DEF Unposts
  <2>8. N.live = K.live /\ N.procs = K.procs
    BY <1>2, <2>5
  <2>9. Step(K, N, G, H, h) /\ Due(N, H, h) = Due(K, G, h)
    BY <1>3, <1>5, <2>6, <2>7, <2>8, TakeStep
  <2>10. Due(N, H, h) + 0 = Due(K, G, h)
    <3>1. Due(N, H, h) \in Nat
      BY DueType
    <3> QED BY <2>9, <3>1
  <2> QED BY <1>5, <2>3, <2>9, <2>10
<1>6. CASE K.txn[t].kind \in {"oneway", "reply"}
  <2>1. PICK M1 : M1 = [M EXCEPT !.txn[t] = NoTransaction]
    OBVIOUS
  <2>2. SetsTxn(M, M1, t, NoTransaction)
    BY <1>2, <2>1, SetTxn, NoTransactionType
  <2>3. PICK N : /\ L = N
                 /\ N = IF K.txn[t].kind = "oneway"
                          THEN [M1 EXCEPT !.held[ProcOf[h]] = TRUE] ELSE M1
    <3>1. L = IF K.txn[t].kind = "oneway"
                THEN [M1 EXCEPT !.held[ProcOf[h]] = TRUE] ELSE M1
      BY <1>2, <1>6, <2>1 DEF Deliver
    <3> QED BY <3>1, Zenon
  <2>4. /\ N \in Kernel /\ N.txn = M1.txn /\ N.stack = M1.stack /\ N.bug = M1.bug
        /\ N.error = M1.error /\ N.error2 = M1.error2
        /\ N.live = M1.live /\ N.procs = M1.procs /\ N.has_async = M1.has_async
        /\ N.todo = M1.todo /\ N.ptodo = M1.ptodo /\ N.async_todo = M1.async_todo
        /\ N.held[ProcOf[h]] = (M1.held[ProcOf[h]] \/ K.txn[t].kind = "oneway")
        /\ \A q \in Procs \ {ProcOf[h]} : N.held[q] = M1.held[q]
    <3>1. M1 \in Kernel
      BY <2>2 DEF SetsTxn
    <3>2. CASE K.txn[t].kind = "oneway"
      <4>1. N = [M1 EXCEPT !.held[ProcOf[h]] = TRUE]
        BY <2>3, <3>2
      <4> QED BY <1>1, <3>1, <3>2, <4>1 DEF Kernel
    <3>3. CASE K.txn[t].kind # "oneway"
      <4>1. N = M1
        BY <2>3, <3>3
      <4>2. M1.held[ProcOf[h]] \in BOOLEAN
        BY <1>1, <3>1 DEF Kernel
      <4>3. M1.held[ProcOf[h]] = (M1.held[ProcOf[h]] \/ K.txn[t].kind = "oneway")
        BY <3>3, <4>2
      <4> QED BY <3>1, <4>1, <4>3
    <3> QED BY <3>2, <3>3
  <2>5. Consumes(K, N, h, t)
    BY <1>2, <2>2, <2>4 DEF Consumes, SetsTxn
  <2>6. Unposts(K, N, t, w)
    BY <2>2, <2>4 DEF Unposts, SetsTxn
  <2>7. w \in {Todo(h), Ptodo(ProcOf[h])}
    OBVIOUS
  <2>8. /\ Step(K, N, G, H, h)
        /\ Due(N, H, h) + (IF K.txn[t].kind = "reply" THEN 1 ELSE 0) = Due(K, G, h)
    BY <1>3, <1>6, <2>5, <2>6, <2>7, ConsumeStep
  <2> QED BY <2>3, <2>8
<1> QED BY <1>4, <1>5, <1>6

(* The completions at the head of the list of h are read.                  *)
Shortens(K, L, h, rest) ==
  /\ Relists(K, L) /\ L.ptodo = K.ptodo /\ L.async_todo = K.async_todo
  /\ L.todo[h] = rest /\ \A g \in Threads \ {h} : L.todo[g] = K.todo[g]

LEMMA Shorten ==
  ASSUME NEW K \in Kernel, NEW h \in Threads, NEW rest \in Seq(Works),
         NEW L, L = [K EXCEPT !.todo[h] = rest]
  PROVE  Shortens(K, L, h, rest)
<1>1. rest \in Seq(Txns \cup {Complete})
  BY DEF Works
<1>2. PICK M : M = L /\ M = [K EXCEPT !.todo[h] = rest]
  BY Zenon
<1>6. M = [K EXCEPT !.todo[h] = rest]
  BY <1>2
<1>3. M \in Kernel
  BY <1>1, <1>6 DEF Kernel
<1>4. /\ M.txn = K.txn /\ M.stack = K.stack /\ M.bug = K.bug
      /\ M.error = K.error /\ M.error2 = K.error2
      /\ M.live = K.live /\ M.procs = K.procs
      /\ M.has_async = K.has_async /\ M.held = K.held
      /\ M.ptodo = K.ptodo /\ M.async_todo = K.async_todo
      /\ M.todo[h] = rest /\ \A g \in Threads \ {h} : M.todo[g] = K.todo[g]
  BY <1>6 DEF Kernel
<1>5. Shortens(K, M, h, rest)
  BY <1>3, <1>4 DEF Shortens, Relists
<1> QED BY <1>2, <1>5

LEMMA ShortenStep ==
  ASSUME NEW K, NEW G, Sound(K, G), NEW h \in Threads,
         NEW rest, Holds(rest, G, Todo(h)), NEW L, Shortens(K, L, h, rest)
  PROVE  Step(K, L, G, G, h) /\ Due(L, G, h) = Due(K, G, h)
<1>1. Listed(K, G)
  BY DEF Sound
<1>2. Listed(L, G)
  <2>1. \A g \in Threads : Holds(L.todo[g], G, Todo(g))
    BY <1>1, ListedHolds DEF Shortens
  <2> QED BY <1>1, <2>1, ListedHolds DEF Shortens
<1>3. Relists(K, L)
  BY DEF Shortens
<1> QED BY <1>2, <1>3, RelistStep

LEMMA HeadListed ==
  ASSUME NEW list \in Seq(Works), list # << >>, NEW t \in Txns, t = Head(list),
         NEW G, NEW w, Holds(list, G, w)
  PROVE  G[t] = w
<1>1. 1 \in DOMAIN list /\ t = list[1]
  <2>1. PICK n \in Nat \ {0} : n = Len(list) /\ DOMAIN list = 1 .. n
    BY LenProperties, EmptySeq
  <2> QED BY <2>1, HeadIsFirst
<1>2. t \in Range(list)
  BY <1>1 DEF Range
<1> QED BY <1>2 DEF Holds

(* What follows a read: the thread is back with h answered for.            *)
Reads(K, L, G, h, n) ==
  \E H : Step(K, L, G, H, h) /\ Due(L, H, h) + n = Due(K, G, h)

LEMMA ReadThread ==
  ASSUME NEW K, NEW G, Sound(K, G), NEW h \in K.live,
         NEW rest \in Seq(Works), Holds(rest, G, Todo(h)), rest # << >>,
         NEW t \in Txns, t = Head(rest),
         NEW M, M = [K EXCEPT !.todo[h] = Tail(rest)],
         NEW L, L = AfterRead(Deliver(M, h, t), ProcOf[h])
  PROVE  Reads(K, L, G, h, IF K.txn[t].kind = "reply" THEN 1 ELSE 0)
<1>1. /\ K \in Kernel /\ h \in Threads /\ ProcOf[h] \in Procs
  BY BinderAssumption DEF Sound, Good, Typed
<1>2. PICK K1 : K1 = [K EXCEPT !.todo[h] = rest]
  OBVIOUS
<1>3. Shortens(K, K1, h, rest)
  BY <1>1, <1>2, Shorten
<1>4. Step(K, K1, G, G, h) /\ Due(K1, G, h) = Due(K, G, h)
  BY <1>1, <1>3, ShortenStep
<1>5. Sound(K1, G) /\ K1 \in Kernel /\ K1.live = K.live /\ K1.txn = K.txn
  BY <1>3, <1>4 DEF Step, Shortens, Relists
<1>6. PICK l \in Seq(Works) : l = Tail(rest)
  BY HeadTailProperties
<1>7. PICK M1 : M1 = M /\ M1 = [K1 EXCEPT !.todo[h] = l]
  <2>1. M = [K1 EXCEPT !.todo[h] = l]
    BY <1>1, <1>2, <1>6 DEF Kernel
  <2> QED BY <2>1, Zenon
<1>8. Shortens(K1, M1, h, l)
  <2>1. M1 = [K1 EXCEPT !.todo[h] = l]
    BY <1>7
  <2> QED BY <1>1, <1>5, <1>6, <2>1, Shorten
<1>9. Unposts(K1, M1, t, Todo(h)) /\ Relists(K1, M1)
  <2>1. Tails(rest, l, t)
    BY <1>6 DEF Tails
  <2>2. K1.todo[h] = rest
    BY <1>3 DEF Shortens
  <2>3. \A g \in Threads : Unposted(K1.todo[g], M1.todo[g], t, Todo(g), Todo(h))
    BY <1>8, <2>1, <2>2, WhereFacts DEF Shortens, Unposted
  <2>4. \A q \in Procs : /\ Unposted(K1.ptodo[q], M1.ptodo[q], t, Ptodo(q), Todo(h))
                         /\ Unposted(K1.async_todo[q], M1.async_todo[q], t, Async(q), Todo(h))
    BY <1>8, WhereFacts DEF Shortens, Unposted
  <2> QED BY <1>8, <2>3, <2>4 DEF Unposts, Shortens
<1>10. G[t] = Todo(h)
  BY HeadListed
<1>11. PICK N : N = Deliver(M1, h, t)
  OBVIOUS
<1>12. PICK H : /\ Step(K1, N, G, H, h)
                /\ Due(N, H, h) + (IF K1.txn[t].kind = "reply" THEN 1 ELSE 0)
                     = Due(K1, G, h)
  <2>1. h \in K1.live
    BY <1>5
  <2> QED BY <1>5, <1>9, <1>10, <1>11, <2>1, DeliverStep
<1>13. Step(K, N, G, H, h)
  BY <1>4, <1>12, StepTrans
<1>14. PICK Q : Q = L /\ Q = AfterRead(N, ProcOf[h])
  BY <1>7, <1>11
<1>15. Same(N, Q)
  <2>1. N \in Kernel
    BY <1>13 DEF Step, Sound, Good, Typed
  <2> QED BY <1>1, <1>14, <2>1, WakeSame
<1>16. Step(K, Q, G, H, h) /\ Due(Q, H, h) = Due(N, H, h)
  BY <1>13, <1>15, StepSame
<1>17. Due(Q, H, h) + (IF K.txn[t].kind = "reply" THEN 1 ELSE 0) = Due(K, G, h)
  BY <1>4, <1>5, <1>12, <1>16
<1> QED BY <1>14, <1>16, <1>17 DEF Reads

LEMMA ReadProc ==
  ASSUME NEW K, NEW G, Sound(K, G), NEW h \in K.live, K.stack[h] = NoTxn,
         Holds(<< >>, G, Todo(h)), K.ptodo[ProcOf[h]] # << >>,
         NEW t \in Txns, t = Head(K.ptodo[ProcOf[h]]),
         NEW M, M = [K EXCEPT !.todo[h] = << >>, !.ptodo[ProcOf[h]] = Tail(@)],
         NEW L, L = AfterRead(Deliver(M, h, t), ProcOf[h])
  PROVE  Reads(K, L, G, h, IF K.txn[t].kind = "reply" THEN 1 ELSE 0)
<1>1. /\ K \in Kernel /\ h \in Threads /\ ProcOf[h] \in Procs
  BY BinderAssumption DEF Sound, Good, Typed
<1>2. PICK p \in Procs : p = ProcOf[h]
  BY <1>1
<1>3. PICK K1 : K1 = [K EXCEPT !.todo[h] = << >>]
  OBVIOUS
<1>4. Shortens(K, K1, h, << >>)
  <2>1. << >> \in Seq(Works)
    OBVIOUS
  <2> QED BY <1>1, <1>3, <2>1, Shorten
<1>5. Step(K, K1, G, G, h) /\ Due(K1, G, h) = Due(K, G, h)
  BY <1>1, <1>4, ShortenStep
<1>6. /\ Sound(K1, G) /\ K1 \in Kernel /\ K1.live = K.live /\ K1.txn = K.txn
      /\ K1.stack = K.stack /\ K1.ptodo = K.ptodo
  BY <1>4, <1>5 DEF Step, Shortens, Relists
<1>7. PICK list \in Seq(Txns) : list = K1.ptodo[p]
  BY <1>6 DEF Kernel
<1>8. list # << >> /\ t = Head(list)
  BY <1>2, <1>6, <1>7
<1>9. PICK l \in Seq(Txns) : l = Tail(list)
  BY <1>8, HeadTailProperties
<1>10. PICK M1 : M1 = M /\ M1 = [K1 EXCEPT !.ptodo[p] = l]
  <2>1. M = [K1 EXCEPT !.ptodo[p] = l]
    BY <1>1, <1>2, <1>3, <1>6, <1>7, <1>9 DEF Kernel
  <2> QED BY <2>1, Zenon
<1>11. M1 \in Kernel
  <2>1. M1 = [K1 EXCEPT !.ptodo[p] = l]
    BY <1>10
  <2> QED BY <1>6, <2>1 DEF Kernel
<1>12. /\ M1.txn = K1.txn /\ M1.stack = K1.stack /\ M1.bug = K1.bug
       /\ M1.error = K1.error /\ M1.error2 = K1.error2
       /\ M1.live = K1.live /\ M1.procs = K1.procs
       /\ M1.has_async = K1.has_async /\ M1.held = K1.held
       /\ M1.todo = K1.todo /\ M1.async_todo = K1.async_todo
       /\ M1.ptodo[p] = l /\ \A q \in Procs \ {p} : M1.ptodo[q] = K1.ptodo[q]
  BY <1>6, <1>10 DEF Kernel
<1>13. Relists(K1, M1)
  BY <1>11, <1>12 DEF Relists
<1>14. Unposts(K1, M1, t, Ptodo(p))
  <2>1. Tails(list, l, t)
    BY <1>8, <1>9 DEF Tails
  <2>2. \A g \in Threads : Unposted(K1.todo[g], M1.todo[g], t, Todo(g), Ptodo(p))
    BY <1>12, WhereFacts DEF Unposted
  <2>3. \A q \in Procs : Unposted(K1.ptodo[q], M1.ptodo[q], t, Ptodo(q), Ptodo(p))
    BY <1>7, <1>12, <2>1, WhereFacts DEF Unposted
  <2>4. \A q \in Procs : Unposted(K1.async_todo[q], M1.async_todo[q], t, Async(q), Ptodo(p))
    BY <1>12, WhereFacts DEF Unposted
  <2> QED BY <2>2, <2>3, <2>4 DEF Unposts
<1>15. G[t] = Ptodo(p)
  <2>1. Holds(list, G, Ptodo(p))
    BY <1>6, <1>7, ListedHolds DEF Sound
  <2>2. list \in Seq(Works)
    BY <1>6, <1>7, ListTypes
  <2> QED BY <1>8, <2>1, <2>2, HeadListed
<1>16. PICK N : N = Deliver(M1, h, t)
  OBVIOUS
<1>17. PICK H : /\ Step(K1, N, G, H, h)
                /\ Due(N, H, h) + (IF K1.txn[t].kind = "reply" THEN 1 ELSE 0)
                     = Due(K1, G, h)
  <2>1. h \in K1.live /\ Ptodo(p) = Ptodo(ProcOf[h]) /\ K1.stack[h] = NoTxn
    BY <1>2, <1>6
  <2> QED BY <1>6, <1>13, <1>14, <1>15, <1>16, <2>1, DeliverStep, ZenonT(60)
<1>18. Step(K, N, G, H, h)
  BY <1>5, <1>17, StepTrans
<1>19. PICK Q : Q = L /\ Q = AfterRead(N, ProcOf[h])
  BY <1>10, <1>16
<1>20. Same(N, Q)
  <2>1. N \in Kernel
    BY <1>18 DEF Step, Sound, Good, Typed
  <2> QED BY <1>1, <1>19, <2>1, WakeSame
<1>21. Step(K, Q, G, H, h) /\ Due(Q, H, h) = Due(N, H, h)
  BY <1>18, <1>20, StepSame
<1>22. Due(Q, H, h) + (IF K.txn[t].kind = "reply" THEN 1 ELSE 0) = Due(K, G, h)
  BY <1>5, <1>6, <1>17, <1>21
<1> QED BY <1>19, <1>21, <1>22 DEF Reads

LEMMA ReadNone ==
  ASSUME NEW K, NEW G, Sound(K, G), NEW h \in K.live,
         NEW rest \in Seq(Works), Holds(rest, G, Todo(h)),
         NEW L, L = AfterRead([K EXCEPT !.todo[h] = rest], ProcOf[h])
  PROVE  Reads(K, L, G, h, 0)
<1>1. /\ K \in Kernel /\ h \in Threads /\ ProcOf[h] \in Procs
  BY BinderAssumption DEF Sound, Good, Typed
<1>2. PICK N : N = [K EXCEPT !.todo[h] = rest]
  OBVIOUS
<1>3. Shortens(K, N, h, rest)
  BY <1>1, <1>2, Shorten
<1>4. Step(K, N, G, G, h) /\ Due(N, G, h) = Due(K, G, h)
  BY <1>1, <1>3, ShortenStep
<1>5. PICK Q : Q = L /\ Q = AfterRead(N, ProcOf[h])
  BY <1>2
<1>6. Same(N, Q)
  <2>1. N \in Kernel
    BY <1>4 DEF Step, Sound, Good, Typed
  <2> QED BY <1>1, <1>5, <2>1, WakeSame
<1>7. Step(K, Q, G, G, h) /\ Due(Q, G, h) = Due(N, G, h)
  BY <1>4, <1>6, StepSame
<1>8. Due(Q, G, h) + 0 = Due(K, G, h)
  <2>1. Due(Q, G, h) \in Nat
    BY DueType
  <2> QED BY <1>4, <1>7, <2>1
<1> QED BY <1>5, <1>7, <1>8 DEF Reads

-----------------------------------------------------------------------------
(* BC_FREE_BUFFER.                                                         *)

(* The buffer of p's one-way call is free, and no call waits for that.     *)
Idles(K, L, p) ==
  /\ L \in Kernel /\ L.txn = K.txn /\ L.stack = K.stack /\ ~ L.bug
  /\ L.error = K.error /\ L.error2 = K.error2
  /\ L.live = K.live /\ L.procs = K.procs
  /\ L.todo = K.todo /\ L.ptodo = K.ptodo /\ L.async_todo = K.async_todo
  /\ ~ L.has_async[p] /\ ~ L.held[p]
  /\ \A q \in Procs \ {p} : L.has_async[q] = K.has_async[q] /\ L.held[q] = K.held[q]

LEMMA IdlesStep ==
  ASSUME NEW K, NEW G, Sound(K, G), NEW p \in K.procs, K.held[p],
         K.async_todo[p] = << >>, NEW L, Idles(K, L, p), NEW h
  PROVE  Step(K, L, G, G, h) /\ Due(L, G, h) = Due(K, G, h)
<1>1. /\ K \in Kernel /\ Good(K, K.live, K.procs, G) /\ Listed(K, G)
      /\ K.procs \in SUBSET Procs /\ p \in Procs /\ G \in [Txns -> Wheres]
  BY DEF Sound, Good, Typed
<1>2. /\ L \in Kernel /\ L.txn = K.txn /\ L.stack = K.stack /\ ~ L.bug
      /\ L.error = K.error /\ L.error2 = K.error2
      /\ L.live = K.live /\ L.procs = K.procs
      /\ L.todo = K.todo /\ L.ptodo = K.ptodo /\ L.async_todo = K.async_todo
  BY DEF Idles
<1>3. Serial(L, K.procs, G)
  <2> SUFFICES ASSUME NEW q \in K.procs PROVE SerialAt(L, G, q)
    BY DEF Serial
  <2>1. SerialAt(K, G, q) /\ q \in Procs
    BY <1>1 DEF Good, Serial
  <2>2. OutTo(L, G, q) = OutTo(K, G, q)
    BY <1>2 DEF OutTo
  <2>3. CASE q = p
    <3>1. OutTo(L, G, q) = {}
      BY <2>1, <2>2, <2>3 DEF SerialAt
    <3>2. \A t \in Txns : G[t] # Async(q)
      <4>1. \A t \in Txns : t \notin Range(K.async_todo[p])
        BY DEF Range
      <4> QED BY <1>1, <2>3, <4>1 DEF Listed
    <3>3. ~ L.has_async[q] /\ ~ L.held[q]
      BY <2>3 DEF Idles
    <3> QED BY <3>1, <3>2, <3>3 DEF SerialAt
  <2>4. CASE q # p
    <3>1. L.has_async[q] = K.has_async[q] /\ L.held[q] = K.held[q]
      BY <2>1, <2>4 DEF Idles
    <3> QED BY <2>1, <2>2, <3>1 DEF SerialAt
  <2> QED BY <2>3, <2>4
<1>4. Aside(K, L, G, G)
  BY <1>1, <1>2 DEF Aside
<1>5. Good(L, K.live, K.procs, G)
  <2>1. \A u \in Txns : L.txn[u] # K.txn[u] \/ G[u] # G[u] => FiledAt(L, K.live, K.procs, G, u)
    BY <1>2
  <2>2. \A g \in K.live : \/ L.error[g] = K.error[g] /\ L.error2[g] = K.error2[g]
                          \/ L.error2[g] = "OK"
    BY <1>2
  <2>3. ~ L.bug
    BY <1>2
  <2> QED BY <1>1, <1>3, <1>4, <2>1, <2>2, <2>3, AsideGood
<1>6. Listed(L, G)
  BY <1>1, <1>2 DEF Listed
<1>7. Sound(L, G)
  BY <1>2, <1>5, <1>6 DEF Sound
<1>8. ASSUME NEW g PROVE Due(L, G, g) = Due(K, G, g)
  BY <1>2 DEF Due, Out, Replies
<1> QED BY <1>2, <1>7, <1>8 DEF Step

(* The next one-way call to the process of h goes to h.                    *)
Promotes(K, L, h) ==
  /\ L \in Kernel /\ L.txn = K.txn /\ L.stack = K.stack /\ ~ L.bug
  /\ L.error = K.error /\ L.error2 = K.error2
  /\ L.live = K.live /\ L.procs = K.procs
  /\ L.has_async = K.has_async /\ ~ L.held[ProcOf[h]]
  /\ \A q \in Procs \ {ProcOf[h]} : L.held[q] = K.held[q]

LEMMA PromotesStep ==
  ASSUME NEW K, NEW G, Sound(K, G), NEW h \in K.live, ProcOf[h] \in K.procs,
         K.held[ProcOf[h]], NEW t \in Txns, G[t] = Async(ProcOf[h]),
         NEW L, Promotes(K, L, h), NEW H, Moved(G, H, t, Todo(h)), Listed(L, H)
  PROVE  Step(K, L, G, H, h) /\ Due(L, H, h) = Due(K, G, h)
<1>1. /\ K \in Kernel /\ Good(K, K.live, K.procs, G) /\ Listed(K, G) /\ h \in Threads
      /\ K.procs \in SUBSET Procs /\ ProcOf[h] \in Procs /\ G \in [Txns -> Wheres]
  BY DEF Sound, Good, Typed
<1>2. /\ L \in Kernel /\ L.txn = K.txn /\ L.stack = K.stack /\ ~ L.bug
      /\ L.error = K.error /\ L.error2 = K.error2
      /\ L.live = K.live /\ L.procs = K.procs /\ L.has_async = K.has_async
  BY DEF Promotes
<1>3. /\ H \in [Txns -> Wheres] /\ H[t] = Todo(h)
      /\ \A u \in Txns \ {t} : H[u] = G[u]
  BY DEF Moved
<1>4. K.txn[t].kind = "oneway" /\ K.txn[t].to_proc = ProcOf[h]
  <2>1. FiledAt(K, K.live, K.procs, G, t)
    BY <1>1 DEF Good, Filed
  <2> QED BY <1>1, <2>1 DEF FiledAt
<1>5. K.txn[t].from_parent = NoTxn
  BY <1>1, <1>4 DEF Good, Links
<1>6. Serial(L, K.procs, H)
  <2> SUFFICES ASSUME NEW q \in K.procs PROVE SerialAt(L, H, q)
    BY DEF Serial
  <2>1. SerialAt(K, G, q) /\ q \in Procs
    BY <1>1 DEF Good, Serial
  <2>2. \A u \in Txns : H[u] = Async(q) => G[u] = Async(q)
    BY <1>3, WhereFacts
  <2>3. CASE q = ProcOf[h]
    <3>1. OutTo(K, G, q) = {} /\ K.has_async[q]
      BY <2>1, <2>3 DEF SerialAt
    <3>2. H[t] \notin {Async(q), Limbo}
      BY <1>3, WhereFacts
    <3>3. t \in OutTo(L, H, q) /\ OutTo(L, H, q) \subseteq OutTo(K, G, q) \cup {t}
      BY <1>2, <1>3, <1>4, <2>3, <3>2 DEF OutTo
    <3>4. ~ L.held[q]
      BY <2>3 DEF Promotes
    <3> QED BY <1>2, <3>1, <3>3, <3>4 DEF SerialAt
  <2>4. CASE q # ProcOf[h]
    <3>1. OutTo(L, H, q) = OutTo(K, G, q)
      BY <1>2, <1>3, <1>4, <2>4 DEF OutTo
    <3>2. L.held[q] = K.held[q]
      BY <2>1, <2>4 DEF Promotes
    <3> QED BY <1>2, <2>1, <2>2, <3>1, <3>2 DEF SerialAt
  <2> QED BY <2>3, <2>4
<1>7. Aside(K, L, G, H)
  BY <1>1, <1>2, <1>3, <1>4, <1>5 DEF Aside
<1>8. Good(L, K.live, K.procs, H)
  <2>1. FiledAt(L, K.live, K.procs, H, t)
    BY <1>1, <1>2, <1>3, <1>4, WhereFacts DEF FiledAt
  <2>2. \A u \in Txns : L.txn[u] # K.txn[u] \/ H[u] # G[u] => FiledAt(L, K.live, K.procs, H, u)
    BY <1>2, <1>3, <2>1
  <2>3. \A g \in K.live : \/ L.error[g] = K.error[g] /\ L.error2[g] = K.error2[g]
                          \/ L.error2[g] = "OK"
    BY <1>2
  <2>4. ~ L.bug
    BY <1>2
  <2> QED BY <1>1, <1>6, <1>7, <2>2, <2>3, <2>4, AsideGood
<1>9. Sound(L, H)
  BY <1>2, <1>8 DEF Sound
<1>10. ASSUME NEW g PROVE Due(L, H, g) = Due(K, G, g)
  <2>1. Replies(L, H, g) = Replies(K, G, g)
    BY <1>2, <1>3, <1>4 DEF Replies
  <2>2. Out(L, g) = Out(K, g)
    BY <1>2 DEF Out
  <2> QED BY <1>2, <2>1, <2>2 DEF Due
<1> QED BY <1>2, <1>9, <1>10 DEF Step

Passes(K, L, h, p, t) ==
  /\ K.async_todo[p] # << >> /\ t = Head(K.async_todo[p])
  /\ L.ptodo = K.ptodo /\ L.todo[h] = Append(K.todo[h], t)
  /\ \A g \in Threads \ {h} : L.todo[g] = K.todo[g]
  /\ L.async_todo[p] = Tail(K.async_todo[p])
  /\ \A q \in Procs \ {p} : L.async_todo[q] = K.async_todo[q]

LEMMA PromoteLists ==
  ASSUME NEW K, NEW G, Sound(K, G), NEW h \in Threads, NEW p \in Procs,
         NEW t \in Txns, NEW L, Passes(K, L, h, p, t)
  PROVE  G[t] = Async(p) /\ \E H : Moved(G, H, t, Todo(h)) /\ Listed(L, H)
<1>1. /\ K \in Kernel /\ G \in [Txns -> Wheres] /\ Listed(K, G)
  BY DEF Sound, Good, Typed
<1>2. PICK list \in Seq(Txns) : list = K.async_todo[p]
  BY <1>1 DEF Kernel
<1>3. PICK l \in Seq(Txns) : l = Tail(list)
  BY <1>2, HeadTailProperties DEF Passes
<1>4. Tails(list, l, t) /\ list \in Seq(Works)
  BY <1>1, <1>2, <1>3, ListTypes DEF Tails, Passes
<1>5. G[t] = Async(p)
  <2>1. Holds(list, G, Async(p)) /\ list # << >> /\ t = Head(list)
    BY <1>1, <1>2, ListedHolds DEF Passes
  <2> QED BY <1>4, <2>1, HeadListed
<1>6. PICK M : M = [K EXCEPT !.async_todo[p] = l]
  OBVIOUS
<1>7. M \in Kernel
  BY <1>1, <1>6 DEF Kernel
<1>8. /\ M.todo = K.todo /\ M.ptodo = K.ptodo /\ M.async_todo[p] = l
      /\ \A q \in Procs \ {p} : M.async_todo[q] = K.async_todo[q]
  BY <1>1, <1>6 DEF Kernel
<1>9. PICK F : Moved(G, F, t, Nowhere)
  <2>1. Nowhere \in Wheres
    BY DEF Wheres
  <2> QED BY <1>1, <2>1, MovedExcept
<1>10. F \in [Txns -> Wheres] /\ F[t] = Nowhere /\ \A u \in Txns \ {t} : F[u] = G[u]
  BY <1>9 DEF Moved
<1>11. Unposts(K, M, t, Async(p))
  <2>1. \A g \in Threads : Unposted(K.todo[g], M.todo[g], t, Todo(g), Async(p))
    BY <1>8, WhereFacts DEF Unposted
  <2>2. \A q \in Procs : Unposted(K.ptodo[q], M.ptodo[q], t, Ptodo(q), Async(p))
    BY <1>8, WhereFacts DEF Unposted
  <2>3. \A q \in Procs : Unposted(K.async_todo[q], M.async_todo[q], t, Async(q), Async(p))
    BY <1>2, <1>4, <1>8, WhereFacts DEF Unposted
  <2> QED BY <2>1, <2>2, <2>3 DEF Unposts
<1>12. Listed(M, F)
  BY <1>1, <1>5, <1>9, <1>11, UnpostListed
<1>13. PICK H : Moved(F, H, t, Todo(h))
  <2>1. Todo(h) \in Wheres
    BY DEF Wheres
  <2> QED BY <1>10, <2>1, MovedExcept
<1>14. Posts(M, L, t, Todo(h))
  <2>1. \A g \in Threads : Posted(M.todo[g], L.todo[g], t, Todo(g), Todo(h))
    BY <1>8, WhereFacts DEF Posted, Passes
  <2>2. \A q \in Procs : Posted(M.ptodo[q], L.ptodo[q], t, Ptodo(q), Todo(h))
    BY <1>8, WhereFacts DEF Posted, Passes
  <2>3. \A q \in Procs : Posted(M.async_todo[q], L.async_todo[q], t, Async(q), Todo(h))
    BY <1>2, <1>3, <1>8, WhereFacts DEF Posted, Passes
  <2> QED BY <2>1, <2>2, <2>3 DEF Posts
<1>15. Listed(L, H)
  <2>1. Todo(h) # Limbo
    BY WhereFacts
  <2> QED BY <1>7, <1>10, <1>12, <1>13, <1>14, <2>1, PostListed
<1>16. Moved(G, H, t, Todo(h))
  BY <1>10, <1>13 DEF Moved
<1> QED BY <1>5, <1>15, <1>16

FreesBuffer(K, L, h, p) ==
  LET N == [K EXCEPT !.held[p] = FALSE, !.bug = @ \/ ~ K.has_async[p]] IN
  L = IF K.async_todo[p] = << >> THEN [N EXCEPT !.has_async[p] = FALSE]
      ELSE [N EXCEPT !.todo[h] = Append(@, Head(K.async_todo[p])),
                     !.async_todo[p] = Tail(@)]

LEMMA FreeBufferStep ==
  ASSUME NEW K, NEW G, Sound(K, G), NEW h \in K.live, NEW p \in K.procs,
         p = ProcOf[h], K.held[p], NEW L, FreesBuffer(K, L, h, p)
  PROVE  Reads(K, L, G, h, 0)
<1>1. /\ K \in Kernel /\ Good(K, K.live, K.procs, G) /\ Listed(K, G) /\ h \in Threads
      /\ K.procs \in SUBSET Procs /\ p \in Procs
  BY DEF Sound, Good, Typed
<1>2. K.has_async[p] /\ ~ K.bug
  BY <1>1 DEF Good, Serial, SerialAt, Errors
<1>9. PICK N : N = [K EXCEPT !.held[p] = FALSE, !.bug = @ \/ ~ K.has_async[p]]
  OBVIOUS
<1>10. L = IF K.async_todo[p] = << >> THEN [N EXCEPT !.has_async[p] = FALSE]
           ELSE [N EXCEPT !.todo[h] = Append(@, Head(K.async_todo[p])),
                          !.async_todo[p] = Tail(@)]
  BY <1>9 DEF FreesBuffer
<1>3. PICK M : M = N /\ M = [K EXCEPT !.held[p] = FALSE, !.bug = FALSE]
  BY <1>1, <1>2, <1>9, Zenon DEF Kernel
<1>4. M \in Kernel
  <2>1. M = [K EXCEPT !.held[p] = FALSE, !.bug = FALSE]
    BY <1>3
  <2> QED BY <1>1, <2>1 DEF Kernel
<1>5. /\ M.txn = K.txn /\ M.stack = K.stack /\ ~ M.bug
      /\ M.error = K.error /\ M.error2 = K.error2
      /\ M.live = K.live /\ M.procs = K.procs
      /\ M.todo = K.todo /\ M.ptodo = K.ptodo /\ M.async_todo = K.async_todo
      /\ M.has_async = K.has_async /\ ~ M.held[p]
      /\ \A q \in Procs \ {p} : M.held[q] = K.held[q]
  <2>1. M = [K EXCEPT !.held[p] = FALSE, !.bug = FALSE]
    BY <1>3
  <2> QED BY <1>1, <2>1 DEF Kernel
<1>6. ASSUME NEW Q, Q = L, NEW H, Step(K, Q, G, H, h) /\ Due(Q, H, h) = Due(K, G, h)
      PROVE  Reads(K, L, G, h, 0)
  <2>1. Due(Q, H, h) + 0 = Due(K, G, h)
    <3>1. Due(Q, H, h) \in Nat
      BY DueType
    <3> QED BY <1>6, <3>1
  <2>2. Reads(K, Q, G, h, 0)
    BY <1>6, <2>1 DEF Reads
  <2> QED BY <1>6, <2>2, Zenon
<1>7. CASE K.async_todo[p] = << >>
  <2>1. PICK Q : Q = L /\ Q = [M EXCEPT !.has_async[p] = FALSE]
    BY <1>3, <1>7, <1>10
  <2>2. Q = [M EXCEPT !.has_async[p] = FALSE]
    BY <2>1
  <2>3. Q \in Kernel
    BY <1>4, <2>2 DEF Kernel
  <2>4. /\ Q.txn = M.txn /\ Q.stack = M.stack /\ Q.bug = M.bug
        /\ Q.error = M.error /\ Q.error2 = M.error2
        /\ Q.live = M.live /\ Q.procs = M.procs /\ Q.held = M.held
        /\ Q.todo = M.todo /\ Q.ptodo = M.ptodo /\ Q.async_todo = M.async_todo
        /\ ~ Q.has_async[p] /\ \A q \in Procs \ {p} : Q.has_async[q] = M.has_async[q]
    BY <1>1, <1>4, <2>2 DEF Kernel
  <2>5. Idles(K, Q, p)
    BY <1>5, <2>3, <2>4 DEF Idles
  <2>6. Step(K, Q, G, G, h) /\ Due(Q, G, h) = Due(K, G, h)
    BY <1>7, <2>5, IdlesStep
  <2> QED BY <1>6, <2>1, <2>6
<1>8. CASE K.async_todo[p] # << >>
  <2>1. PICK list \in Seq(Txns) : list = K.async_todo[p]
    BY <1>1 DEF Kernel
  <2>2. PICK t \in Txns : t = Head(list)
    BY <1>8, <2>1, HeadTailProperties
  <2>3. PICK l \in Seq(Txns) : l = Tail(list)
    BY <1>8, <2>1, HeadTailProperties
  <2>4. PICK m \in Seq(Works) : m = Append(K.todo[h], t)
    <3>1. K.todo[h] \in Seq(Works) /\ t \in Works
      BY <1>1, ListTypes DEF Works
    <3> QED BY <3>1, AppendProperties
  <2>5. PICK Q : Q = L /\ Q = [M EXCEPT !.todo[h] = m, !.async_todo[p] = l]
    <3>1. N = M
      BY <1>3
    <3>2. L = [M EXCEPT !.todo[h] = Append(@, Head(K.async_todo[p])),
                        !.async_todo[p] = Tail(@)]
      BY <1>8, <1>10, <3>1
    <3>3. M.todo = K.todo /\ M.async_todo = K.async_todo
      BY <1>5
    <3>4. m = Append(M.todo[h], Head(K.async_todo[p])) /\ l = Tail(M.async_todo[p])
      BY <2>1, <2>2, <2>3, <2>4, <3>3
    <3>5. L = [M EXCEPT !.todo[h] = m, !.async_todo[p] = l]
      BY <3>2, <3>4
    <3> QED BY <3>5
  <2>6. Q = [M EXCEPT !.todo[h] = m, !.async_todo[p] = l]
    BY <2>5
  <2>7. Q \in Kernel
    <3>1. m \in Seq(Txns \cup {Complete})
      BY <2>4 DEF Works
    <3> QED BY <1>4, <2>6, <3>1 DEF Kernel
  <2>8. /\ Q.txn = M.txn /\ Q.stack = M.stack /\ Q.bug = M.bug
        /\ Q.error = M.error /\ Q.error2 = M.error2
        /\ Q.live = M.live /\ Q.procs = M.procs /\ Q.held = M.held
        /\ Q.ptodo = M.ptodo /\ Q.has_async = M.has_async
        /\ Q.todo[h] = m /\ \A g \in Threads \ {h} : Q.todo[g] = M.todo[g]
        /\ Q.async_todo[p] = l
        /\ \A q \in Procs \ {p} : Q.async_todo[q] = M.async_todo[q]
    BY <1>1, <1>4, <2>6 DEF Kernel
  <2>9. Promotes(K, Q, h)
    BY <1>5, <2>7, <2>8 DEF Promotes
  <2>10. G[t] = Async(p) /\ \E H : Moved(G, H, t, Todo(h)) /\ Listed(Q, H)
    <3>1. Passes(K, Q, h, p, t)
      BY <1>5, <1>8, <2>1, <2>2, <2>3, <2>4, <2>8 DEF Passes
    <3> QED BY <1>1, <3>1, PromoteLists
  <2>11. PICK H : Moved(G, H, t, Todo(h)) /\ Listed(Q, H)
    BY <2>10
  <2>12. Step(K, Q, G, H, h) /\ Due(Q, H, h) = Due(K, G, h)
    BY <2>9, <2>10, <2>11, PromotesStep
  <2> QED BY <1>6, <2>5, <2>12
<1> QED BY <1>7, <1>8

-----------------------------------------------------------------------------
(* The invariant.                                                          *)

(* A, F and O stand for at, forproc and what is owed.                      *)
Kept(K, A, F, O, G) ==
  /\ Sound(K, G) /\ O \in [Threads -> Nat]
  /\ \A h \in K.live : ProcOf[h] \in K.procs /\ O[h] = Due(K, G, h)
  /\ \A h \in Threads : /\ h \notin K.live => K.stack[h] = NoTxn
                        /\ A[h] # "user" => h \in K.live
                        /\ A[h] # "user" /\ F[h] => K.stack[h] = NoTxn

(* Where a thread that goes on is allowed to be.                           *)
Stays(L, A, F, B, E, h) ==
  /\ \A g \in Threads \ {h} : B[g] = A[g] /\ E[g] = F[g]
  /\ B[h] # "user" /\ E[h] => L.stack[h] = NoTxn

LEMMA KeptFacts ==
  ASSUME NEW K, NEW A, NEW F, NEW O, NEW G, Kept(K, A, F, O, G)
  PROVE  /\ Sound(K, G) /\ K \in Kernel /\ K.live \subseteq Threads
         /\ O \in [Threads -> Nat]
         /\ \A h \in K.live : ProcOf[h] \in K.procs /\ O[h] = Due(K, G, h)
BY DEF Kept, Sound, Good, Typed

LEMMA KeptStep ==
  ASSUME NEW K, NEW A, NEW F, NEW O, NEW G, Kept(K, A, F, O, G), NEW h \in K.live,
         NEW L, NEW H, Step(K, L, G, H, h), NEW B, NEW E, Stays(L, A, F, B, E, h),
         NEW P, P \in [Threads -> Nat], P[h] = Due(L, H, h),
         \A g \in Threads \ {h} : P[g] = O[g]
  PROVE  Kept(L, B, E, P, H)
<1>1. /\ h \in Threads /\ K.live \subseteq Threads
  BY KeptFacts
<1>2. /\ Sound(L, H) /\ L.live = K.live /\ L.procs = K.procs
      /\ \A g \in Threads \ {h} : K.stack[g] = NoTxn => L.stack[g] = NoTxn
      /\ \A g \in K.live \ {h} : Due(L, H, g) = Due(K, G, g)
  BY DEF Step
<1>3. ASSUME NEW g \in L.live PROVE ProcOf[g] \in L.procs /\ P[g] = Due(L, H, g)
  BY <1>1, <1>2, <1>3, KeptFacts
<1>4. ASSUME NEW g \in Threads
      PROVE  /\ g \notin L.live => L.stack[g] = NoTxn
             /\ B[g] # "user" => g \in L.live
             /\ B[g] # "user" /\ E[g] => L.stack[g] = NoTxn
  <2>1. /\ g \notin K.live => K.stack[g] = NoTxn
        /\ A[g] # "user" => g \in K.live
        /\ A[g] # "user" /\ F[g] => K.stack[g] = NoTxn
    BY DEF Kept
  <2>2. CASE g = h
    BY <1>2, <2>2 DEF Stays
  <2>3. CASE g # h
    BY <1>2, <2>1, <2>3 DEF Stays
  <2> QED BY <2>2, <2>3
<1> QED BY <1>2, <1>3, <1>4 DEF Kept

(* A thread in the user's program stays there.                             *)
LEMMA KeptUser ==
  ASSUME NEW K, NEW A, NEW F, NEW O, NEW G, Kept(K, A, F, O, G), NEW h \in K.live,
         A[h] = "user", NEW L, NEW H, Step(K, L, G, H, h),
         NEW P, P \in [Threads -> Nat], P[h] = Due(L, H, h),
         \A g \in Threads \ {h} : P[g] = O[g]
  PROVE  Kept(L, A, F, P, H)
<1>1. Stays(L, A, F, A, F, h)
  BY DEF Stays
<1> QED BY <1>1, KeptStep

(* Only wait queues change, and what h does.                               *)
LEMMA KeptSame ==
  ASSUME NEW K, NEW A, NEW F, NEW O, NEW G, Kept(K, A, F, O, G), NEW h \in K.live,
         NEW L, Same(K, L), NEW B, NEW E, Stays(L, A, F, B, E, h)
  PROVE  Kept(L, B, E, O, G)
<1>1. /\ Sound(K, G) /\ h \in Threads /\ O \in [Threads -> Nat] /\ O[h] = Due(K, G, h)
  BY KeptFacts
<1>2. Sound(L, G) /\ \A g : Due(L, G, g) = Due(K, G, g)
  BY <1>1, SameSound
<1>3. Due(L, G, h) = Due(K, G, h) /\ \A g \in K.live : Due(L, G, g) = Due(K, G, g)
  BY <1>2, Zenon
<1>4. Step(K, L, G, G, h)
  BY <1>2, <1>3 DEF Step, Same
<1> QED BY <1>1, <1>3, <1>4, KeptStep

(* What a thread is owed, and what it will be given again.                 *)
Still == [h \in Threads |-> owed[h] + again[h]]
OwedTypes == owed \in [Threads -> Int] /\ again \in [Threads -> Nat]

ChainInv == OwedTypes /\ \E G : Kept(k, at, forproc, Still, G)

LEMMA StillMoves ==
  ASSUME OwedTypes, NEW h \in Threads, NEW d \in Int, again' = again,
         owed' = [owed EXCEPT ![h] = owed[h] + d]
  PROVE  OwedTypes' /\ Still' = [Still EXCEPT ![h] = Still[h] + d]
<1>1. /\ \A g \in Threads \ {h} : owed'[g] = owed[g]
      /\ owed'[h] = owed[h] + d /\ owed[h] \in Int /\ again[h] \in Nat
  BY DEF OwedTypes
<1>2. Still[h] = owed[h] + again[h]
  BY DEF Still
<1>3. owed[h] + d + again[h] = Still[h] + d
  BY <1>1, <1>2
<1>4. Still' = [g \in Threads |-> IF g = h THEN Still[h] + d ELSE Still[g]]
  BY <1>1, <1>3 DEF Still
<1>5. Still = [g \in Threads |-> Still[g]]
  BY DEF Still
<1>6. OwedTypes'
  BY <1>1 DEF OwedTypes
<1> QED BY <1>4, <1>5, <1>6

LEMMA StillLess ==
  ASSUME OwedTypes, NEW h \in Threads, NEW n \in Nat, again' = again,
         owed' = [owed EXCEPT ![h] = owed[h] - n]
  PROVE  OwedTypes' /\ Still' = [Still EXCEPT ![h] = Still[h] - n]
<1>1. PICK d \in Int : d = -n
  OBVIOUS
<1>2. owed[h] \in Int /\ Still[h] \in Int
  BY DEF OwedTypes, Still
<1>3. owed[h] - n = owed[h] + d /\ Still[h] - n = Still[h] + d
  BY <1>1, <1>2
<1> QED BY <1>3, StillMoves

(* Both errors are read, and one that was read before does not count.      *)
LEMMA StillRead ==
  ASSUME OwedTypes, NEW h \in Threads, NEW n \in Nat,
         owed' = [owed EXCEPT ![h] = owed[h] + again[h] - n],
         again' = [again EXCEPT ![h] = 0]
  PROVE  OwedTypes' /\ Still' = [Still EXCEPT ![h] = Still[h] - n]
<1>1. /\ \A g \in Threads \ {h} : owed'[g] = owed[g] /\ again'[g] = again[g]
      /\ owed'[h] = owed[h] + again[h] - n /\ again'[h] = 0
      /\ owed[h] \in Int /\ again[h] \in Nat
  BY DEF OwedTypes
<1>2. Still[h] = owed[h] + again[h]
  BY DEF Still
<1>3. owed'[h] + again'[h] = Still[h] - n
  BY <1>1, <1>2
<1>4. Still' = [g \in Threads |-> IF g = h THEN Still[h] - n ELSE Still[g]]
  BY <1>1, <1>3 DEF Still
<1>5. Still = [g \in Threads |-> Still[g]]
  BY DEF Still
<1>6. OwedTypes'
  BY <1>1 DEF OwedTypes
<1> QED BY <1>4, <1>5, <1>6

(* An error is read and stays.                                             *)
LEMMA StillAgain ==
  ASSUME OwedTypes, NEW h \in Threads, NEW n \in Nat,
         owed' = [owed EXCEPT ![h] = owed[h] + again[h] - n],
         again' = [again EXCEPT ![h] = n]
  PROVE  OwedTypes' /\ Still' = Still
<1>1. /\ \A g \in Threads \ {h} : owed'[g] = owed[g] /\ again'[g] = again[g]
      /\ owed'[h] = owed[h] + again[h] - n /\ again'[h] = n
      /\ owed[h] \in Int /\ again[h] \in Nat
  BY DEF OwedTypes
<1>2. owed'[h] + again'[h] = owed[h] + again[h]
  BY <1>1
<1>3. Still' = Still
  BY <1>1, <1>2 DEF Still
<1>4. OwedTypes'
  BY <1>1 DEF OwedTypes
<1> QED BY <1>3, <1>4

LEMMA StillSame ==
  ASSUME OwedTypes, owed' = owed, again' = again
  PROVE  OwedTypes' /\ Still' = Still
BY DEF OwedTypes, Still

LEMMA StillNone ==
  ASSUME OwedTypes, owed' = owed, again' = again, NEW h \in Threads
  PROVE  OwedTypes' /\ Still' = [Still EXCEPT ![h] = Still[h] - 0]
<1>1. Still \in [Threads -> Int]
  BY DEF OwedTypes, Still
<1>2. Still = [Still EXCEPT ![h] = Still[h] - 0]
  BY <1>1
<1> QED BY <1>2, StillSame

-----------------------------------------------------------------------------
(* Initially there are no transactions.                                    *)
LEMMA ChainInit ==
  ASSUME BinderInit
  PROVE  ChainInv
<1>1. k \in Kernel
  BY BinderInitInv DEF BinderInv, Noticed
<1>2. /\ k.txn = [t \in Txns |-> NoTransaction] /\ k.stack = [h \in Threads |-> NoTxn]
      /\ k.todo = [h \in Threads |-> << >>] /\ k.error = [h \in Threads |-> "OK"]
      /\ k.error2 = [h \in Threads |-> "OK"] /\ k.live = Threads /\ k.procs = Procs
      /\ k.ptodo = [p \in Procs |-> << >>] /\ k.async_todo = [p \in Procs |-> << >>]
      /\ k.has_async = [p \in Procs |-> FALSE] /\ k.held = [p \in Procs |-> FALSE]
      /\ k.bug = FALSE /\ at = [h \in Threads |-> "user"] /\ owed = [h \in Threads |-> 0]
      /\ again = [h \in Threads |-> 0]
  BY DEF BinderInit
<1>3. PICK K \in Kernel : K = k
  BY <1>1
<1>4. PICK G : G = [t \in Txns |-> Nowhere]
  OBVIOUS
<1>5. G \in [Txns -> Wheres] /\ \A t \in Txns : G[t] = Nowhere
  BY <1>4 DEF Wheres
<1>6. /\ \A t \in Txns : /\ K.txn[t].kind = "free" /\ K.txn[t].from = NoThread
                         /\ K.txn[t].from_parent = NoTxn
                         /\ K.txn[t].to_thread = NoThread
      /\ \A h \in Threads : /\ K.stack[h] = NoTxn /\ K.todo[h] = << >>
                            /\ K.error[h] = "OK" /\ K.error2[h] = "OK"
      /\ \A p \in Procs : /\ K.ptodo[p] = << >> /\ K.async_todo[p] = << >>
                          /\ ~ K.has_async[p] /\ ~ K.held[p]
      /\ ~ K.bug /\ K.live = Threads /\ K.procs = Procs
  BY <1>2, <1>3, NoTransactionFacts
<1>7. \A h : Out(K, h) = {} /\ In(K, G, h) = {} /\ Own(K, G, h) = {} /\ Replies(K, G, h) = {}
  BY <1>6 DEF Out, In, Own, Replies
<1>8. Links(K, G)
  <2>1. \A t \in Txns : Parents(K)[t] = NoTxn
    BY <1>6 DEF Parents
  <2>2. OneChild(Parents(K))
    BY <2>1 DEF OneChild
  <2>3. Acyclic(Parents(K))
    <3> SUFFICES ASSUME NEW u \in Txns, NEW v \in Txns, Anc(Parents(K), u, v)
                 PROVE  u = v
      BY DEF Acyclic
    <3>1. {v} \in SUBSET Txns /\ v \in {v} /\ Closed(Parents(K), {v})
      BY <2>1 DEF Closed
    <3> QED BY <3>1 DEF Anc
  <2> QED BY <1>6, <2>2, <2>3 DEF Links
<1>9. Ends(K, K.live, G)
  BY <1>6 DEF Ends, EndsAt
<1>10. Tops(K, K.live, G)
  <2> SUFFICES ASSUME NEW h \in K.live PROVE TopAt(K, G, h)
    BY DEF Tops
  <2>1. Own(K, G, h) = {} /\ In(K, G, h) = {} /\ K.stack[h] = NoTxn
    BY <1>6, <1>7, Zenon
  <2> QED BY <2>1 DEF TopAt
<1>11. Unders(K, K.live, G)
  <2>1. \A h \in K.live : In(K, G, h) = {}
    BY <1>7, Zenon
  <2> QED BY <2>1 DEF Unders
<1>12. Filed(K, K.live, K.procs, G)
  BY <1>5, <1>6, WhereFacts DEF Filed, FiledAt
<1>13. Errors(K, K.live)
  BY <1>6 DEF Errors
<1>14. Serial(K, K.procs, G)
  <2> SUFFICES ASSUME NEW p \in K.procs PROVE SerialAt(K, G, p)
    BY DEF Serial
  <2>1. OutTo(K, G, p) = {}
    BY <1>6 DEF OutTo
  <2>2. \A t \in Txns : G[t] # Async(p)
    BY <1>5, WhereFacts
  <2> QED BY <1>6, <2>1, <2>2 DEF SerialAt
<1>15. Good(K, K.live, K.procs, G)
  <2>1. Typed(K, K.live, K.procs, G)
    BY <1>5, <1>6 DEF Typed
  <2> QED BY <1>8, <1>9, <1>10, <1>11, <1>12, <1>13, <1>14, <2>1 DEF Good
<1>16. Listed(K, G)
  <2>1. Range(<< >>) = {} /\ NoRep(<< >>)
    BY DEF Range, NoRep
  <2> QED BY <1>5, <1>6, <2>1, WhereFacts DEF Listed
<1>17. \A h \in Threads : Due(K, G, h) = 0
  <2> SUFFICES ASSUME NEW h \in Threads PROVE Due(K, G, h) = 0
    OBVIOUS
  <2>1. Out(K, h) = {} /\ Replies(K, G, h) = {}
    BY <1>7, Zenon
  <2>2. Answer(K.error[h]) = 0 /\ Answer(K.error2[h]) = 0
    BY <1>6 DEF Answer
  <2>3. Cardinality({}) = 0
    BY FS_EmptySet
  <2> QED BY <2>1, <2>2, <2>3 DEF Due
<1>18. Kept(K, at, forproc, Still, G)
  <2>1. Sound(K, G)
    BY <1>15, <1>16 DEF Sound
  <2>2. \A h \in Threads : at[h] = "user" /\ Still[h] = 0
    BY <1>2 DEF Still
  <2>3. Still \in [Threads -> Nat]
    BY <1>2 DEF Still
  <2>4. \A h \in Threads : ProcOf[h] \in Procs
    BY BinderAssumption
  <2> QED BY <1>6, <1>17, <2>1, <2>2, <2>3, <2>4 DEF Kept
<1>19. OwedTypes
  BY <1>2 DEF OwedTypes
<1> QED BY <1>3, <1>18, <1>19 DEF ChainInv

-----------------------------------------------------------------------------
(* Commands.                                                               *)

LEMMA OwedExcept ==
  ASSUME NEW O \in [Threads -> Nat], NEW h \in Threads, NEW n \in Nat,
         NEW P, P = [O EXCEPT ![h] = n]
  PROVE  P \in [Threads -> Nat] /\ P[h] = n /\ \A g \in Threads \ {h} : P[g] = O[g]
OBVIOUS

LEMMA TransactionChain ==
  ASSUME ChainInv, NEW h \in Threads, NEW fails \in BOOLEAN, NEW p \in Procs,
         NEW oneway \in OneWays, BC_TRANSACTION(h, p, oneway, fails)
  PROVE  ChainInv'
<1>1. PICK G : Kept(k, at, forproc, Still, G)
  BY DEF ChainInv
<1>2. /\ Sound(k, G) /\ Still \in [Threads -> Nat]
  BY <1>1, KeptFacts
<1>3. /\ h \in k.live /\ at[h] = "user" /\ k.error[h] = "OK" /\ p # ProcOf[h]
      /\ FreeTxns(k) = {} => fails
      /\ k' = binder_transaction(k, h, p, oneway, fails)
      /\ at' = at /\ forproc' = forproc
  BY DEF BC_TRANSACTION, Writes
<1>4. Still[h] = Due(k, G, h)
  BY <1>1, <1>3, KeptFacts
<1>5. oneway \in BOOLEAN
  BY BinderAssumption
<1>6. PICK H : /\ Step(k, k', G, H, h)
               /\ Due(k', H, h) = Due(k, G, h)
                                  + (IF oneway /\ k'.error[h] = "OK" THEN 0 ELSE 1)
  <2>1. PICK L : L = binder_transaction(k, h, p, oneway, fails)
    OBVIOUS
  <2>2. \E H : /\ Step(k, L, G, H, h)
               /\ Due(L, H, h) = Due(k, G, h)
                                  + (IF oneway /\ L.error[h] = "OK" THEN 0 ELSE 1)
    BY <1>2, <1>3, <1>5, <2>1, TransactionStep
  <2> QED BY <1>3, <2>1, <2>2
<1>7. OwedTypes' /\ Still' = [Still EXCEPT ![h] = Due(k', H, h)]
  <2>1. PICK d \in 0 .. 1 : d = IF oneway /\ k'.error[h] = "OK" THEN 0 ELSE 1
    OBVIOUS
  <2>2. OwedTypes /\ owed[h] \in Int /\ d \in Int
    BY DEF ChainInv, OwedTypes
  <2>3. again' = again /\ owed' = [owed EXCEPT ![h] = owed[h] + d]
    <3>1. /\ again' = again
          /\ owed' = [owed EXCEPT ![h] = IF oneway /\ k'.error[h] = "OK"
                                          THEN owed[h] ELSE owed[h] + 1]
      BY <1>3 DEF BC_TRANSACTION
    <3>2. owed[h] + d = IF oneway /\ k'.error[h] = "OK" THEN owed[h] ELSE owed[h] + 1
      BY <2>1, <2>2
    <3> QED BY <3>1, <3>2
  <2>4. OwedTypes' /\ Still' = [Still EXCEPT ![h] = Still[h] + d]
    BY <2>2, <2>3, StillMoves
  <2>5. Due(k', H, h) = Still[h] + d
    BY <1>4, <1>6, <2>1
  <2> QED BY <2>4, <2>5
<1>8. /\ Still' \in [Threads -> Nat] /\ Still'[h] = Due(k', H, h)
      /\ \A g \in Threads \ {h} : Still'[g] = Still[g]
  <2>1. Due(k', H, h) \in Nat
    BY DueType
  <2> QED BY <1>2, <1>7, <2>1, OwedExcept
<1>9. Kept(k', at, forproc, Still', H)
  BY <1>1, <1>3, <1>6, <1>8, KeptUser
<1> QED BY <1>3, <1>7, <1>9 DEF ChainInv

LEMMA ReplyChain ==
  ASSUME ChainInv, NEW h \in Threads, NEW fails \in BOOLEAN, BC_REPLY(h, fails)
  PROVE  ChainInv'
<1>1. PICK G : Kept(k, at, forproc, Still, G)
  BY DEF ChainInv
<1>2. /\ Sound(k, G) /\ Still \in [Threads -> Nat]
  BY <1>1, KeptFacts
<1>3. /\ h \in k.live /\ at[h] = "user" /\ k.error[h] = "OK"
      /\ FreeTxns(k) = {} => fails
      /\ k' = binder_reply(k, h, fails) /\ at' = at /\ forproc' = forproc
  BY DEF BC_REPLY, Writes
<1>4. Still[h] = Due(k, G, h)
  BY <1>1, <1>3, KeptFacts
<1>6. PICK H : /\ Step(k, k', G, H, h)
               /\ Due(k', H, h) = Due(k, G, h)
                     + (IF k.stack[h] = NoTxn \/ k.txn[k.stack[h]].to_thread # h
                          THEN 1 ELSE 0)
  <2>1. PICK L : L = binder_reply(k, h, fails)
    OBVIOUS
  <2>2. \E H : /\ Step(k, L, G, H, h)
               /\ Due(L, H, h) = Due(k, G, h)
                     + (IF k.stack[h] = NoTxn \/ k.txn[k.stack[h]].to_thread # h
                          THEN 1 ELSE 0)
    BY <1>2, <1>3, <2>1, ReplyStep
  <2> QED BY <1>3, <2>1, <2>2
<1>7. OwedTypes' /\ Still' = [Still EXCEPT ![h] = Due(k', H, h)]
  <2>1. PICK d \in 0 .. 1 :
          d = IF k.stack[h] = NoTxn \/ k.txn[k.stack[h]].to_thread # h THEN 1 ELSE 0
    OBVIOUS
  <2>2. OwedTypes /\ owed[h] \in Int /\ d \in Int
    BY DEF ChainInv, OwedTypes
  <2>3. again' = again /\ owed' = [owed EXCEPT ![h] = owed[h] + d]
    <3>1. /\ again' = again
          /\ owed' = [owed EXCEPT ![h] =
                        IF k.stack[h] = NoTxn \/ k.txn[k.stack[h]].to_thread # h
                          THEN owed[h] + 1 ELSE owed[h]]
      BY <1>3 DEF BC_REPLY
    <3>2. owed[h] + d = IF k.stack[h] = NoTxn \/ k.txn[k.stack[h]].to_thread # h
                          THEN owed[h] + 1 ELSE owed[h]
      BY <2>1, <2>2
    <3> QED BY <3>1, <3>2
  <2>4. OwedTypes' /\ Still' = [Still EXCEPT ![h] = Still[h] + d]
    BY <2>2, <2>3, StillMoves
  <2>5. Due(k', H, h) = Still[h] + d
    BY <1>4, <1>6, <2>1
  <2> QED BY <2>4, <2>5
<1>8. /\ Still' \in [Threads -> Nat] /\ Still'[h] = Due(k', H, h)
      /\ \A g \in Threads \ {h} : Still'[g] = Still[g]
  <2>1. Due(k', H, h) \in Nat
    BY DueType
  <2> QED BY <1>2, <1>7, <2>1, OwedExcept
<1>9. Kept(k', at, forproc, Still', H)
  BY <1>1, <1>3, <1>6, <1>8, KeptUser
<1> QED BY <1>3, <1>7, <1>9 DEF ChainInv

LEMMA FreeBufferChain ==
  ASSUME ChainInv, NEW h \in Threads, BC_FREE_BUFFER(h)
  PROVE  ChainInv'
<1>1. PICK G : Kept(k, at, forproc, Still, G)
  BY DEF ChainInv
<1>2. /\ Sound(k, G) /\ Still \in [Threads -> Nat]
  BY <1>1, KeptFacts
<1>3. PICK p : p = ProcOf[h]
  OBVIOUS
<1>4. /\ h \in k.live /\ at[h] = "user" /\ k.held[p]
      /\ at' = at /\ forproc' = forproc /\ OwedTypes' /\ Still' = Still
  BY <1>3, StillSame DEF BC_FREE_BUFFER, Writes, ChainInv
<1>5. FreesBuffer(k, k', h, p)
  BY <1>3 DEF BC_FREE_BUFFER, FreesBuffer
<1>6. PICK L : L = k' /\ FreesBuffer(k, L, h, p)
  BY <1>5
<1>7. Still[h] = Due(k, G, h) /\ p \in k.procs
  BY <1>1, <1>3, <1>4, KeptFacts
<1>8. Reads(k, L, G, h, 0)
  BY <1>2, <1>3, <1>4, <1>6, <1>7, FreeBufferStep
<1>9. PICK H : Step(k, L, G, H, h) /\ Due(L, H, h) + 0 = Due(k, G, h)
  BY <1>8 DEF Reads
<1>10. Still[h] = Due(L, H, h)
  <2>1. Due(L, H, h) \in Nat
    BY DueType
  <2> QED BY <1>7, <1>9, <2>1
<1>11. Kept(L, at, forproc, Still, H)
  BY <1>1, <1>2, <1>4, <1>9, <1>10, KeptUser
<1>12. Kept(k', at', forproc', Still', H)
  BY <1>4, <1>6, <1>11
<1> QED BY <1>4, <1>12 DEF ChainInv

LEMMA ExitChain ==
  ASSUME ChainInv, NEW h \in Threads, BINDER_THREAD_EXIT(h)
  PROVE  ChainInv'
<1>1. PICK G : Kept(k, at, forproc, Still, G)
  BY DEF ChainInv
<1>2. /\ Sound(k, G) /\ Still \in [Threads -> Nat] /\ k.live \subseteq Threads
      /\ \A g \in k.live : ProcOf[g] \in k.procs /\ Still[g] = Due(k, G, g)
  BY <1>1, KeptFacts
<1>3. /\ h \in k.live /\ at[h] = "user" /\ k' = binder_free_thread(k, h)
      /\ at' = at /\ forproc' = forproc /\ owed' = [owed EXCEPT ![h] = 0]
      /\ again' = [again EXCEPT ![h] = 0]
  BY DEF BINDER_THREAD_EXIT
<1>4. NoneLost(k, k.procs, G, h)
  <2> SUFFICES ASSUME ~ AsyncExit, NEW u \in Txns, G[u] = Todo(h)
               PROVE  k.txn[u].kind # "oneway"
    BY DEF NoneLost
  <2>1. ~ HasOneWay(k.todo[h])
    BY DEF BINDER_THREAD_EXIT
  <2>2. u \in Range(k.todo[h]) /\ u # Complete
    BY <1>2, BinderAssumption DEF Sound, Listed
  <2> QED BY <2>1, <2>2 DEF HasOneWay
<1>5. PICK L : L = binder_free_thread(k, h)
  OBVIOUS
<1>6. PICK H : H = NoTodo(G, h)
  OBVIOUS
<1>7. Exits(k, L, G, H, h)
  BY <1>2, <1>3, <1>4, <1>5, <1>6, ExitGood
<1>8. /\ Sound(L, H) /\ L.live = k.live \ {h} /\ L.procs = k.procs /\ L.stack[h] = NoTxn
      /\ \A g \in Threads : k.stack[g] = NoTxn => L.stack[g] = NoTxn
      /\ \A g \in L.live : Due(L, H, g) = Due(k, G, g)
  BY <1>7 DEF Exits, Idle
<1>9. /\ OwedTypes' /\ Still' \in [Threads -> Nat]
      /\ \A g \in Threads \ {h} : Still'[g] = Still[g]
  <2>1. OwedTypes
    BY DEF ChainInv
  <2>2. OwedTypes'
    BY <1>3, <2>1 DEF OwedTypes
  <2>3. \A g \in Threads : Still'[g] = IF g = h THEN 0 ELSE Still[g]
    BY <1>3, <2>1 DEF OwedTypes, Still
  <2>4. Still' = [g \in Threads |-> Still'[g]]
    BY DEF Still
  <2> QED BY <1>2, <2>2, <2>3, <2>4
<1>10. Kept(L, at, forproc, Still', H)
  <2>1. \A g \in L.live : ProcOf[g] \in L.procs /\ Still'[g] = Due(L, H, g)
    BY <1>2, <1>8, <1>9
  <2>2. \A g \in Threads : /\ g \notin L.live => L.stack[g] = NoTxn
                           /\ at[g] # "user" => g \in L.live
                           /\ at[g] # "user" /\ forproc[g] => L.stack[g] = NoTxn
    BY <1>1, <1>3, <1>8 DEF Kept
  <2> QED BY <1>8, <1>9, <2>1, <2>2 DEF Kept
<1>11. Kept(k', at', forproc', Still', H)
  BY <1>3, <1>5, <1>10
<1> QED BY <1>9, <1>11 DEF ChainInv

LEMMA ReleaseChain ==
  ASSUME ChainInv, NEW p \in Procs, Release(p)
  PROVE  ChainInv'
<1>1. PICK G : Kept(k, at, forproc, Still, G)
  BY DEF ChainInv
<1>2. /\ Sound(k, G) /\ Still \in [Threads -> Nat] /\ k.live \subseteq Threads
      /\ \A g \in k.live : ProcOf[g] \in k.procs /\ Still[g] = Due(k, G, g)
  BY <1>1, KeptFacts
<1>3. /\ \A g \in Threads : ProcOf[g] = p => at[g] = "user"
      /\ k' = binder_deferred_release(k, p) /\ at' = at /\ forproc' = forproc
      /\ owed' = [g \in Threads |-> IF ProcOf[g] = p THEN 0 ELSE owed[g]]
      /\ again' = [g \in Threads |-> IF ProcOf[g] = p THEN 0 ELSE again[g]]
  BY DEF Release
<1>4. PICK L : L = binder_deferred_release(k, p)
  OBVIOUS
<1>5. PICK H : Released(k, L, G, H, p)
  BY <1>2, <1>4, DeferredGood
<1>6. /\ Sound(L, H) /\ L.live = {h \in k.live : ProcOf[h] # p}
      /\ L.procs = k.procs \ {p}
      /\ \A g \in Threads : k.stack[g] = NoTxn => L.stack[g] = NoTxn
      /\ \A h \in k.live : ProcOf[h] = p => L.stack[h] = NoTxn
      /\ \A h \in L.live : Due(L, H, h) = Due(k, G, h)
  BY <1>5 DEF Released, Idle
<1>7. /\ OwedTypes' /\ Still' \in [Threads -> Nat]
      /\ \A g \in Threads : ProcOf[g] # p => Still'[g] = Still[g]
  <2>1. OwedTypes
    BY DEF ChainInv
  <2>2. OwedTypes'
    BY <1>3, <2>1 DEF OwedTypes
  <2>3. \A g \in Threads : Still'[g] = IF ProcOf[g] = p THEN 0 ELSE Still[g]
    BY <1>3, <2>1 DEF OwedTypes, Still
  <2>4. Still' = [g \in Threads |-> Still'[g]]
    BY DEF Still
  <2> QED BY <1>2, <2>2, <2>3, <2>4
<1>8. Kept(L, at, forproc, Still', H)
  <2>1. \A g \in L.live : ProcOf[g] \in L.procs /\ Still'[g] = Due(L, H, g)
    BY <1>2, <1>6, <1>7
  <2>2. \A g \in Threads : /\ g \notin L.live => L.stack[g] = NoTxn
                           /\ at[g] # "user" => g \in L.live
                           /\ at[g] # "user" /\ forproc[g] => L.stack[g] = NoTxn
    BY <1>1, <1>3, <1>6 DEF Kept
  <2> QED BY <1>6, <1>7, <2>1, <2>2 DEF Kept
<1>9. Kept(k', at', forproc', Still', H)
  BY <1>3, <1>4, <1>8
<1> QED BY <1>7, <1>9 DEF ChainInv

-----------------------------------------------------------------------------
(* Reads.                                                                  *)

LEMMA EnqueueSame ==
  ASSUME NEW K \in Kernel, NEW h \in Threads, NEW proc, NEW L \in Kernel,
         L = Enqueue(K, h, proc)
  PROVE  Same(K, L)
<1>1. CASE ~ proc
  <2>1. L = [K EXCEPT !.waits = @ \cup {h}]
    BY <1>1 DEF Enqueue
  <2> QED BY <2>1 DEF Same, Kernel
<1>2. CASE proc
  <2>1. PICK line : line = IF h \in Range(K.pwait[ProcOf[h]]) THEN K.pwait[ProcOf[h]]
                           ELSE Append(K.pwait[ProcOf[h]], h)
    OBVIOUS
  <2>2. L = [K EXCEPT !.pwait[ProcOf[h]] = line]
    BY <1>2, <2>1 DEF Enqueue
  <2> QED BY <2>2 DEF Same, Kernel
<1> QED BY <1>1, <1>2

LEMMA DequeueSame ==
  ASSUME NEW K \in Kernel, NEW h \in Threads, NEW proc, NEW L \in Kernel,
         L = Dequeue(K, h, proc)
  PROVE  Same(K, L)
<1>1. CASE ~ proc
  <2>1. L = [K EXCEPT !.waits = @ \ {h}]
    BY <1>1 DEF Dequeue
  <2> QED BY <2>1 DEF Same, Kernel
<1>2. CASE proc
  <2>1. PICK line : line = RemoveFirst(K.pwait[ProcOf[h]], h)
    OBVIOUS
  <2>2. L = [K EXCEPT !.pwait[ProcOf[h]] = line]
    BY <1>2, <2>1, Zenon DEF Dequeue
  <2> QED BY <2>2 DEF Same, Kernel
<1> QED BY <1>1, <1>2

LEMMA SameTrans ==
  ASSUME NEW K, NEW L, NEW M, Same(K, L), Same(L, M)
  PROVE  Same(K, M)
BY DEF Same

(* An error is read.                                                       *)
LEMMA ErrorRead ==
  ASSUME NEW K, NEW G, Sound(K, G), NEW h \in K.live,
         NEW L, L = AfterRead([K EXCEPT !.error[h] = "OK", !.error2[h] = "OK"], ProcOf[h])
  PROVE  Reads(K, L, G, h, Answers(K, h))
<1>1. K \in Kernel /\ h \in Threads /\ ProcOf[h] \in Procs /\ ~ K.bug
  BY BinderAssumption DEF Sound, Good, Typed, Errors
<1>2. PICK M : M = [K EXCEPT !.error[h] = "OK", !.error2[h] = "OK"]
  OBVIOUS
<1>3. M \in Kernel
  BY <1>1, <1>2 DEF Kernel, Codes
<1>4. Recodes(K, M, h) /\ M.error[h] = "OK"
  <2>1. /\ M.txn = K.txn /\ M.stack = K.stack /\ M.bug = K.bug
        /\ M.error[h] = "OK" /\ M.error2[h] = "OK"
        /\ \A g \in Threads \ {h} : M.error[g] = K.error[g] /\ M.error2[g] = K.error2[g]
        /\ M.live = K.live /\ M.procs = K.procs
        /\ M.todo = K.todo /\ M.ptodo = K.ptodo /\ M.async_todo = K.async_todo
        /\ M.has_async = K.has_async /\ M.held = K.held
    BY <1>1, <1>2 DEF Kernel
  <2> QED BY <1>1, <1>3, <2>1 DEF Recodes
<1>5. /\ Step(K, M, G, G, h)
      /\ Due(M, G, h) + Answers(K, h) = Due(K, G, h) + Answer(M.error[h])
  BY <1>4, RecodeStep
<1>6. PICK Q : Q = L /\ Q = AfterRead(M, ProcOf[h])
  BY <1>2
<1>7. Same(M, Q)
  BY <1>1, <1>3, <1>6, WakeSame
<1>8. Step(K, Q, G, G, h) /\ Due(Q, G, h) = Due(M, G, h)
  BY <1>5, <1>7, StepSame
<1>9. Due(Q, G, h) + Answers(K, h) = Due(K, G, h)
  <2>1. Answer(M.error[h]) = 0 /\ Due(K, G, h) \in Nat
    BY <1>4, DueType DEF Answer
  <2> QED BY <1>5, <1>8, <2>1
<1>10. Reads(K, Q, G, h, Answers(K, h))
  BY <1>8, <1>9 DEF Reads
<1> QED BY <1>6, <1>10

(* A thread that returns to its user.                                      *)
LEMMA Returns ==
  ASSUME NEW G, Kept(k, at, forproc, Still, G), NEW h \in k.live,
         at \in [Threads -> Places], NEW n \in Nat, Reads(k, k', G, h, n),
         at' = [at EXCEPT ![h] = "user"], forproc' = forproc,
         OwedTypes', Still' = [Still EXCEPT ![h] = Still[h] - n]
  PROVE  ChainInv'
<1>1. /\ Still \in [Threads -> Nat] /\ Still[h] = Due(k, G, h) /\ h \in Threads
  BY KeptFacts
<1>2. PICK H : Step(k, k', G, H, h) /\ Due(k', H, h) + n = Due(k, G, h)
  BY DEF Reads
<1>3. PICK d \in Nat : d = Due(k', H, h)
  BY DueType
<1>4. Still[h] - n = d
  BY <1>1, <1>2, <1>3
<1>5. /\ Still' \in [Threads -> Nat] /\ Still'[h] = Due(k', H, h)
      /\ \A g \in Threads \ {h} : Still'[g] = Still[g]
  <2>1. Still' = [Still EXCEPT ![h] = d]
    BY <1>4
  <2> QED BY <1>1, <1>3, <2>1, OwedExcept
<1>6. Stays(k', at, forproc, at', forproc', h)
  BY <1>1 DEF Stays
<1>7. Kept(k', at', forproc', Still', H)
  BY <1>2, <1>5, <1>6, KeptStep, ZenonT(60)
<1> QED BY <1>7 DEF ChainInv

LEMMA RetryChain ==
  ASSUME BinderInv, BinderInv', ChainInv, NEW h \in Threads, h \in k.live, Retry(h)
  PROVE  ChainInv'
<1>1. PICK G : Kept(k, at, forproc, Still, G)
  BY DEF ChainInv
<1>2. /\ k \in Kernel /\ k' \in Kernel /\ at \in [Threads -> Places]
      /\ forproc \in [Threads -> BOOLEAN] /\ Sound(k, G)
  BY <1>1, KeptFacts DEF BinderInv, Noticed
<1>3. CASE ReadErrors(h)
  <2>1. PICK n \in Nat : n = Answers(k, h)
    <3>1. Answer(k.error[h]) \in Nat /\ Answer(k.error2[h]) \in Nat
      BY DueType
    <3> QED BY <3>1, AnswersValue
  <2>2. /\ k' = AfterRead([k EXCEPT !.error[h] = "OK", !.error2[h] = "OK"], ProcOf[h])
        /\ at' = [at EXCEPT ![h] = "user"] /\ forproc' = forproc
        /\ owed' = [owed EXCEPT ![h] = owed[h] + again[h] - n]
        /\ again' = [again EXCEPT ![h] = 0]
    BY <1>3, <2>1, Zenon DEF ReadErrors
  <2>3. Reads(k, k', G, h, n)
    <3>1. k' = AfterRead([k EXCEPT !.error[h] = "OK", !.error2[h] = "OK"], ProcOf[h])
      BY <2>2
    <3>2. Reads(k, k', G, h, Answers(k, h))
      BY <1>2, <3>1, ErrorRead
    <3> QED BY <2>1, <3>2
  <2>4. OwedTypes' /\ Still' = [Still EXCEPT ![h] = Still[h] - n]
    <3>1. OwedTypes
      BY DEF ChainInv
    <3> QED BY <2>2, <3>1, StillRead
  <2>5. at' = [at EXCEPT ![h] = "user"] /\ forproc' = forproc
    BY <2>2
  <2> QED BY <1>1, <1>2, <2>3, <2>4, <2>5, Returns
<1>5. CASE ReadSecondError(h)
  <2>1. PICK n \in Nat : n = Answer(k.error2[h])
    BY DueType
  <2>2. /\ k' = AfterRead(k, ProcOf[h])
        /\ at' = [at EXCEPT ![h] = "user"] /\ forproc' = forproc
        /\ owed' = [owed EXCEPT ![h] = owed[h] + again[h] - n]
        /\ again' = [again EXCEPT ![h] = n]
    BY <1>5, <2>1, Zenon DEF ReadSecondError
  <2>3. OwedTypes' /\ Still' = Still
    <3>1. OwedTypes
      BY DEF ChainInv
    <3> QED BY <2>2, <3>1, StillAgain
  <2>4. Same(k, k')
    <3>1. ProcOf[h] \in Procs
      BY BinderAssumption
    <3> QED BY <1>2, <2>2, <3>1, WakeSame
  <2>5. Stays(k', at, forproc, at', forproc', h)
    <3>1. /\ at'[h] = "user" /\ forproc' = forproc
          /\ \A g \in Threads \ {h} : at'[g] = at[g]
      BY <1>2, <2>2
    <3> QED BY <3>1 DEF Stays
  <2>6. Kept(k', at', forproc', Still, G)
    BY <1>1, <2>4, <2>5, KeptSame
  <2> QED BY <2>3, <2>6 DEF ChainInv
<1>4. CASE StartWait(h)
  <2>1. PICK proc \in BOOLEAN : proc = (k.stack[h] = NoTxn /\ k.todo[h] = << >>)
    BY Zenon
  <2>2. /\ forproc' = [forproc EXCEPT ![h] = proc] /\ OwedTypes' /\ Still' = Still
        /\ \/ at' = [at EXCEPT ![h] = "run"] /\ k' = k
           \/ at' = [at EXCEPT ![h] = "check"] /\ k' = Enqueue(k, h, proc)
    <3>1. OwedTypes' /\ Still' = Still
      BY <1>4, StillSame DEF StartWait, ChainInv
    <3>2. /\ forproc' = [forproc EXCEPT ![h] = proc]
          /\ \/ at' = [at EXCEPT ![h] = "run"] /\ k' = k
             \/ at' = [at EXCEPT ![h] = "check"] /\ k' = Enqueue(k, h, proc)
      BY <1>4, <2>1 DEF StartWait
    <3> QED BY <3>1, <3>2
  <2>3. Same(k, k')
    <3>1. CASE k' = k
      BY <1>2, <3>1 DEF Same
    <3>2. CASE k' = Enqueue(k, h, proc)
      BY <1>2, <3>2, EnqueueSame
    <3> QED BY <2>2, <3>1, <3>2
  <2>4. Stays(k', at, forproc, at', forproc', h)
    <3>1. /\ forproc'[h] = proc
          /\ \A g \in Threads \ {h} : at'[g] = at[g] /\ forproc'[g] = forproc[g]
      BY <1>2, <2>2
    <3>2. k'.stack = k.stack
      BY <2>3 DEF Same
    <3> QED BY <2>1, <3>1, <3>2 DEF Stays
  <2>5. Kept(k', at', forproc', Still', G)
    BY <1>1, <2>2, <2>3, <2>4, KeptSame
  <2> QED BY <2>2, <2>5 DEF ChainInv
<1> QED BY <1>3, <1>4, <1>5 DEF Retry

(* A thread that moves within wait_event_interruptible.                    *)
LEMMA MovesOn ==
  ASSUME BinderInv, BinderInv', ChainInv, NEW h \in Threads, at[h] # "user",
         Same(k, k'), NEW place, at' = [at EXCEPT ![h] = place],
         forproc' = forproc, owed' = owed, again' = again
  PROVE  ChainInv'
<1>1. PICK G : Kept(k, at, forproc, Still, G)
  BY DEF ChainInv
<1>2. h \in k.live /\ (forproc[h] => k.stack[h] = NoTxn)
  BY <1>1 DEF Kept
<1>3. at \in [Threads -> Places]
  BY DEF BinderInv
<1>4. Stays(k', at, forproc, at', forproc', h)
  <2>1. k'.stack = k.stack
    BY DEF Same
  <2> QED BY <1>2, <1>3, <2>1 DEF Stays
<1>5. OwedTypes' /\ Still' = Still
  BY StillSame DEF ChainInv
<1>6. Kept(k', at', forproc', Still', G)
  BY <1>1, <1>2, <1>4, <1>5, KeptSame
<1> QED BY <1>5, <1>6 DEF ChainInv

LEMMA WaitChain ==
  ASSUME BinderInv, BinderInv', ChainInv, NEW h \in Threads,
         CheckWork(h) \/ Woken(h) \/ Interrupted(h)
  PROVE  ChainInv'
<1>1. /\ k \in Kernel /\ k' \in Kernel /\ ProcOf[h] \in Procs
      /\ forproc \in [Threads -> BOOLEAN] /\ Noticed(k, at, forproc)
  BY BinderAssumption DEF BinderInv, Noticed
<1>2. Same(k, k)
  BY <1>1 DEF Same
<1>3. CASE CheckWork(h)
  <2>1. /\ at[h] # "user" /\ forproc' = forproc /\ owed' = owed /\ again' = again
        /\ \/ at' = [at EXCEPT ![h] = "run"] /\ k' = Dequeue(k, h, forproc[h])
           \/ at' = [at EXCEPT ![h] = "asleep"] /\ k' = k
    BY <1>3 DEF CheckWork
  <2>2. Same(k, k')
    BY <1>1, <1>2, <2>1, DequeueSame
  <2> QED BY <2>1, <2>2, MovesOn
<1>4. CASE Woken(h)
  <2>1. /\ at[h] # "user" /\ forproc' = forproc /\ owed' = owed /\ again' = again
        /\ at' = [at EXCEPT ![h] = "check"] /\ k' = Enqueue(k, h, forproc[h])
    BY <1>4 DEF Woken
  <2>2. Same(k, k')
    BY <1>1, <2>1, EnqueueSame
  <2> QED BY <2>1, <2>2, MovesOn
<1>5. CASE Interrupted(h)
  <2>1. PICK L : L = IF forproc[h] /\ ~ OnQueue(h) THEN wake_proc(k, ProcOf[h])
                     ELSE Dequeue(k, h, forproc[h])
    OBVIOUS
  <2>2. /\ at[h] # "user" /\ forproc' = forproc /\ owed' = owed /\ again' = again
        /\ at' = [at EXCEPT ![h] = "user"] /\ k' = AfterRead(L, ProcOf[h])
    BY <1>5, <2>1 DEF Interrupted
  <2>3. Same(k, L)
    <3>1. CASE L = wake_proc(k, ProcOf[h])
      BY <1>1, <3>1, WakeSame
    <3>2. CASE L = Dequeue(k, h, forproc[h])
      <4>1. L \in Kernel
        BY <1>1, <3>2, DequeueFacts
      <4> QED BY <1>1, <3>2, <4>1, DequeueSame
    <3> QED BY <2>1, <3>1, <3>2
  <2>4. Same(L, k')
    <3>1. L \in Kernel
      BY <2>3 DEF Same
    <3> QED BY <1>1, <2>2, <3>1, WakeSame
  <2>5. Same(k, k')
    BY <2>3, <2>4, SameTrans
  <2> QED BY <2>2, <2>5, MovesOn
<1> QED BY <1>3, <1>4, <1>5

LEMMA ReadChain ==
  ASSUME BinderInv, BinderInv', ChainInv, NEW h \in Threads, ReadWork(h)
  PROVE  ChainInv'
<1>1. PICK G : Kept(k, at, forproc, Still, G)
  BY DEF ChainInv
<1>2. PICK p \in Procs : p = ProcOf[h]
  BY BinderAssumption
<1>3. at[h] = "run"
  BY DEF ReadWork
<1>4. /\ k \in Kernel /\ at \in [Threads -> Places] /\ Sound(k, G)
      /\ forproc \in [Threads -> BOOLEAN] /\ OwedTypes
  BY <1>1, KeptFacts DEF BinderInv, ChainInv
<1>5. h \in k.live /\ (forproc[h] => k.stack[h] = NoTxn)
  BY <1>1, <1>3 DEF Kept
<1>6. PICK list \in Seq(Works) : list = k.todo[h] /\ Holds(list, G, Todo(h))
  BY <1>4, ListTypes, ListedHolds DEF Sound
<1>7. PICK n : n = Completions(list)
  OBVIOUS
<1>8. PICK rest : rest = SubSeq(list, n + 1, Len(list))
  OBVIOUS
<1>9. /\ rest \in Seq(Works) /\ Holds(rest, G, Todo(h))
      /\ rest # << >> => Head(rest) \in Txns
  BY <1>6, <1>7, <1>8, HoldsRest
<1>10. CASE rest # << >>
  <2>1. PICK t \in Txns : t = Head(rest)
    BY <1>9, <1>10
  <2>2. PICK M : M = [k EXCEPT !.todo[h] = Tail(rest)]
    OBVIOUS
  <2>3. PICK m \in Nat : m = IF k.txn[t].kind = "reply" THEN 1 ELSE 0
    OBVIOUS
  <2>4. /\ k' = AfterRead(Deliver(M, h, t), ProcOf[h])
        /\ at' = [at EXCEPT ![h] = "user"] /\ forproc' = forproc
        /\ again' = again
        /\ owed' = [owed EXCEPT ![h] = IF k.txn[t].kind = "reply"
                                         THEN owed[h] - 1 ELSE owed[h]]
    BY <1>6, <1>7, <1>8, <1>10, <2>1, <2>2 DEF ReadWork
  <2>5. Reads(k, k', G, h, m)
    <3>1. PICK L : L = k' /\ L = AfterRead(Deliver(M, h, t), ProcOf[h])
      BY <2>4
    <3>2. L = AfterRead(Deliver(M, h, t), ProcOf[h])
      BY <3>1
    <3>3. Reads(k, L, G, h, IF k.txn[t].kind = "reply" THEN 1 ELSE 0)
      BY <1>4, <1>5, <1>9, <1>10, <2>1, <2>2, <3>2, ReadThread
    <3> QED BY <2>3, <3>1, <3>3
  <2>6. OwedTypes' /\ Still' = [Still EXCEPT ![h] = Still[h] - m]
    <3>1. owed[h] \in Int
      BY <1>4 DEF OwedTypes
    <3>2. owed[h] - m = IF k.txn[t].kind = "reply" THEN owed[h] - 1 ELSE owed[h]
      BY <2>3, <3>1
    <3>3. owed' = [owed EXCEPT ![h] = owed[h] - m]
      BY <2>4, <3>2
    <3> QED BY <1>4, <2>4, <3>3, StillLess
  <2> QED BY <1>1, <1>4, <1>5, <2>4, <2>5, <2>6, Returns
<1>11. CASE rest = << >> /\ forproc[h] /\ k.ptodo[p] # << >>
  <2>1. PICK t \in Txns : t = Head(k.ptodo[p])
    <3>1. k.ptodo[p] \in Seq(Txns)
      BY <1>4 DEF Kernel
    <3> QED BY <1>11, <3>1, HeadTailProperties
  <2>2. PICK M : M = [k EXCEPT !.todo[h] = << >>, !.ptodo[ProcOf[h]] = Tail(@)]
    OBVIOUS
  <2>3. PICK m \in Nat : m = IF k.txn[t].kind = "reply" THEN 1 ELSE 0
    OBVIOUS
  <2>4. /\ k' = AfterRead(Deliver(M, h, t), ProcOf[h])
        /\ at' = [at EXCEPT ![h] = "user"] /\ forproc' = forproc
        /\ again' = again
        /\ owed' = [owed EXCEPT ![h] = IF k.txn[t].kind = "reply"
                                         THEN owed[h] - 1 ELSE owed[h]]
    BY <1>2, <1>6, <1>7, <1>8, <1>11, <2>1, <2>2 DEF ReadWork
  <2>5. Reads(k, k', G, h, m)
    <3>1. PICK L : L = k' /\ L = AfterRead(Deliver(M, h, t), ProcOf[h])
      BY <2>4
    <3>2. L = AfterRead(Deliver(M, h, t), ProcOf[h])
      BY <3>1
    <3>3. /\ Holds(<< >>, G, Todo(h)) /\ k.stack[h] = NoTxn
          /\ k.ptodo[ProcOf[h]] # << >> /\ t = Head(k.ptodo[ProcOf[h]])
      BY <1>2, <1>5, <1>9, <1>11, <2>1
    <3>4. Reads(k, L, G, h, IF k.txn[t].kind = "reply" THEN 1 ELSE 0)
      BY <1>4, <1>5, <2>2, <3>2, <3>3, ReadProc, ZenonT(60)
    <3> QED BY <2>3, <3>1, <3>4
  <2>6. OwedTypes' /\ Still' = [Still EXCEPT ![h] = Still[h] - m]
    <3>1. owed[h] \in Int
      BY <1>4 DEF OwedTypes
    <3>2. owed[h] - m = IF k.txn[t].kind = "reply" THEN owed[h] - 1 ELSE owed[h]
      BY <2>3, <3>1
    <3>3. owed' = [owed EXCEPT ![h] = owed[h] - m]
      BY <2>4, <3>2
    <3> QED BY <1>4, <2>4, <3>3, StillLess
  <2> QED BY <1>1, <1>4, <1>5, <2>4, <2>5, <2>6, Returns
<1>12. CASE rest = << >> /\ ~ (forproc[h] /\ k.ptodo[p] # << >>)
  <2>1. CASE n > 0
    <3>1. /\ k' = AfterRead([k EXCEPT !.todo[h] = << >>], ProcOf[h])
          /\ at' = [at EXCEPT ![h] = "user"] /\ forproc' = forproc
          /\ owed' = owed /\ again' = again
      BY <1>2, <1>6, <1>7, <1>8, <1>12, <2>1 DEF ReadWork
    <3>2. Holds(<< >>, G, Todo(h)) /\ << >> \in Seq(Works)
      BY <1>9, <1>12
    <3>3. Reads(k, k', G, h, 0)
      BY <1>4, <1>5, <3>1, <3>2, ReadNone
    <3>4. OwedTypes' /\ Still' = [Still EXCEPT ![h] = Still[h] - 0]
      BY <1>4, <3>1, StillNone
    <3>5. at' = [at EXCEPT ![h] = "user"] /\ forproc' = forproc
      BY <3>1
    <3> QED BY <1>1, <1>4, <1>5, <3>3, <3>4, <3>5, Returns
  <2>2. CASE ~ (n > 0)
    <3>1. Retry(h)
      BY <1>2, <1>6, <1>7, <1>8, <1>12, <2>2 DEF ReadWork
    <3> QED BY <1>5, <3>1, RetryChain
  <2> QED BY <2>1, <2>2
<1> QED BY <1>10, <1>11, <1>12

LEMMA NoRoomChain ==
  ASSUME BinderInv, ChainInv, NEW h \in Threads, NoRoom(h)
  PROVE  ChainInv'
<1>1. PICK G : Kept(k, at, forproc, Still, G)
  BY DEF ChainInv
<1>2. /\ k \in Kernel /\ at \in [Threads -> Places] /\ Sound(k, G) /\ OwedTypes
  BY <1>1, KeptFacts DEF BinderInv, ChainInv
<1>3. h \in k.live
  BY <1>1 DEF NoRoom, Kept
<1>4. PICK list \in Seq(Works) : list = k.todo[h] /\ Holds(list, G, Todo(h))
  BY <1>2, ListTypes, ListedHolds DEF Sound
<1>5. PICK N \in Nat : N = Len(list)
  BY LenProperties
<1>6. PICK n \in 0 .. N :
         /\ \A i \in 1 .. n : list[i] = Complete
         /\ k' = AfterRead([k EXCEPT !.todo[h] = SubSeq(list, n + 1, Len(list))],
                           ProcOf[h])
         /\ at' = [at EXCEPT ![h] = "user"] /\ forproc' = forproc
         /\ owed' = owed /\ again' = again
  BY <1>2, <1>4, <1>5 DEF NoRoom
<1>7. PICK rest : rest = SubSeq(list, n + 1, Len(list))
  OBVIOUS
<1>8. rest \in Seq(Works) /\ Holds(rest, G, Todo(h))
  BY <1>4, <1>5, <1>6, <1>7, HoldsSuffix
<1>9. Reads(k, k', G, h, 0)
  <2>1. k' = AfterRead([k EXCEPT !.todo[h] = rest], ProcOf[h])
    BY <1>6, <1>7
  <2> QED BY <1>2, <1>3, <1>8, <2>1, ReadNone
<1>10. OwedTypes' /\ Still' = [Still EXCEPT ![h] = Still[h] - 0]
  BY <1>2, <1>6, StillNone
<1>11. at' = [at EXCEPT ![h] = "user"] /\ forproc' = forproc /\ 0 \in Nat
  BY <1>6
<1> QED BY <1>1, <1>2, <1>3, <1>9, <1>10, <1>11, Returns

-----------------------------------------------------------------------------
(* The specification keeps the chains.                                     *)

ChainsInv == BinderInv /\ ChainInv

LEMMA ChainsInit == BinderInit => ChainsInv
BY BinderInitInv, ChainInit DEF ChainsInv

LEMMA ChainsNext ==
  ASSUME ChainsInv, [BinderNext]_binderVars
  PROVE  ChainsInv'
<1>1. BinderInv /\ ChainInv
  BY DEF ChainsInv
<1>2. BinderInv'
  BY <1>1, BinderNextInv
<1> SUFFICES ChainInv'
  BY <1>2 DEF ChainsInv
<1>3. ASSUME NEW h \in Threads, ReadStep(h) \/ BeginRead(h) \/ Interrupted(h)
      PROVE  ChainInv'
  <2>1. CASE CheckWork(h) \/ Woken(h) \/ Interrupted(h)
    BY <1>1, <1>2, <2>1, WaitChain
  <2>2. CASE ReadWork(h)
    BY <1>1, <1>2, <2>2, ReadChain
  <2>3. CASE BeginRead(h)
    <3>1. h \in k.live /\ Retry(h)
      BY <2>3 DEF BeginRead
    <3> QED BY <1>1, <1>2, <3>1, RetryChain
  <2>4. CASE NoRoom(h)
    BY <1>1, <2>4, NoRoomChain
  <2> QED BY <1>3, <2>1, <2>2, <2>3, <2>4 DEF ReadStep
<1>4. ASSUME NEW h \in Threads, BC_FREE_BUFFER(h) PROVE ChainInv'
  BY <1>1, <1>4, FreeBufferChain
<1>5. ASSUME NEW h \in Threads, BINDER_THREAD_EXIT(h) PROVE ChainInv'
  BY <1>1, <1>5, ExitChain
<1>6. ASSUME NEW h \in Threads, NEW fails \in BOOLEAN, BC_REPLY(h, fails)
      PROVE  ChainInv'
  BY <1>1, <1>6, ReplyChain
<1>7. ASSUME NEW h \in Threads, NEW fails \in BOOLEAN, NEW p \in Procs,
             NEW oneway \in OneWays, BC_TRANSACTION(h, p, oneway, fails)
      PROVE  ChainInv'
  BY <1>1, <1>7, TransactionChain
<1>8. ASSUME NEW p \in Procs, Release(p) PROVE ChainInv'
  BY <1>1, <1>8, ReleaseChain
<1>9. CASE UNCHANGED binderVars
  <2>1. k' = k /\ at' = at /\ forproc' = forproc /\ owed' = owed /\ again' = again
    BY <1>9 DEF binderVars
  <2>2. OwedTypes' /\ Still' = Still
    BY <1>1, <2>1, StillSame DEF ChainInv
  <2> QED BY <1>1, <2>1, <2>2 DEF ChainInv
<1>10. CASE BinderNext
  BY <1>3, <1>4, <1>5, <1>6, <1>7, <1>8, <1>10 DEF BinderNext
<1> QED BY <1>9, <1>10

-----------------------------------------------------------------------------
(* What is on a list is in use.                                            *)
LEMMA ListInUse ==
  ASSUME NEW G, Sound(k, G), NEW list \in Seq(Works), NEW w, w # Nowhere,
         Holds(list, G, w), NEW t \in Work(list)
  PROVE  InUse(t)
<1>1. Good(k, k.live, k.procs, G)
  BY DEF Sound
<1>2. t \in Range(list) /\ t # Complete
  BY DEF Work
<1>3. Range(list) \subseteq Works
  <2>1. list \in [DOMAIN list -> Works]
    BY LenProperties
  <2> QED BY <2>1 DEF Range
<1>4. t \in Txns
  BY <1>2, <1>3 DEF Works
<1>5. G[t] # Nowhere
  BY <1>2, <1>4 DEF Holds
<1>6. FiledAt(k, k.live, k.procs, G, t)
  BY <1>1, <1>4 DEF Good, Filed
<1> QED BY <1>4, <1>5, <1>6 DEF FiledAt, InUse

LEMMA ChainsNoBug == ChainInv => NoBug
<1> SUFFICES ASSUME ChainInv PROVE NoBug
  OBVIOUS
<1>1. PICK G : Kept(k, at, forproc, Still, G)
  BY DEF ChainInv
<1>2. /\ Sound(k, G) /\ k \in Kernel /\ Good(k, k.live, k.procs, G)
  BY <1>1, KeptFacts DEF Sound
<1>3. ~ k.bug
  BY <1>2 DEF Good, Errors
<1>4. ASSUME NEW h \in Threads PROVE k.stack[h] = NoTxn \/ InUse(k.stack[h])
  <2>1. CASE h \notin k.live
    BY <1>1, <2>1 DEF Kept
  <2>2. CASE h \in k.live
    <3>1. TopAt(k, G, h)
      BY <1>2, <2>2 DEF Good, Tops
    <3>2. k.stack[h] = NoTxn \/ k.stack[h] \in Own(k, G, h)
      BY <3>1 DEF TopAt
    <3> QED BY <3>2 DEF Own, Out, In, InUse
  <2> QED BY <2>1, <2>2
<1>5. ASSUME NEW h \in Threads, NEW t \in Work(k.todo[h]) PROVE InUse(t)
  <2>1. /\ k.todo[h] \in Seq(Works) /\ Todo(h) # Nowhere
        /\ Holds(k.todo[h], G, Todo(h))
    BY <1>2, ListTypes, ListedHolds, WhereFacts DEF Sound
  <2> QED BY <1>2, <1>5, <2>1, ListInUse
<1>6. ASSUME NEW p \in Procs, NEW t \in Work(k.ptodo[p] \o k.async_todo[p])
      PROVE  InUse(t)
  <2>1. /\ k.ptodo[p] \in Seq(Works) /\ Ptodo(p) # Nowhere
        /\ Holds(k.ptodo[p], G, Ptodo(p))
        /\ k.async_todo[p] \in Seq(Works) /\ Async(p) # Nowhere
        /\ Holds(k.async_todo[p], G, Async(p))
    BY <1>2, ListTypes, ListedHolds, WhereFacts DEF Sound
  <2>2. Range(k.ptodo[p] \o k.async_todo[p])
          = Range(k.ptodo[p]) \cup Range(k.async_todo[p])
    <3>1. k.ptodo[p] \in Seq(Txns) /\ k.async_todo[p] \in Seq(Txns)
      BY <1>2 DEF Kernel
    <3> QED BY <3>1, ConcatFacts
  <2>3. t \in Work(k.ptodo[p]) \/ t \in Work(k.async_todo[p])
    BY <1>6, <2>2 DEF Work
  <2> QED BY <1>2, <2>1, <2>3, ListInUse
<1> QED BY <1>3, <1>4, <1>5, <1>6 DEF NoBug

(* No BUG_ON of the binder is hit, and no stack or list of work keeps a    *)
(* transaction that was freed: whoever replies, fails, exits or dies in    *)
(* the middle of calls nested to any depth, binder_pop_transaction takes   *)
(* the top of the stack of the right thread, and what                      *)
(* binder_send_failed_reply and binder_free_thread cut loose or free is    *)
(* not in use anywhere else.                                               *)
THEOREM NoBugIsHit == BinderSpec => []NoBug
<1>1. ChainsInv => NoBug
  BY ChainsNoBug DEF ChainsInv
<1> QED BY <1>1, ChainsInit, ChainsNext, PTL DEF BinderSpec

LEMMA ChainsSerial ==
  ASSUME ~ AsyncExit, ChainInv
  PROVE  OneWaySerial
<1>1. PICK G : Kept(k, at, forproc, Still, G)
  BY DEF ChainInv
<1>2. /\ Sound(k, G) /\ k \in Kernel /\ Good(k, k.live, k.procs, G) /\ Listed(k, G)
      /\ G \in [Txns -> Wheres] /\ k.live \subseteq Threads /\ k.procs \subseteq Procs
  BY <1>1, KeptFacts DEF Sound, Good, Typed
<1> SUFFICES ASSUME NEW p \in k.procs
             PROVE  LET out == {t \in Txns : /\ k.txn[t].kind = "oneway"
                                             /\ k.txn[t].to_proc = p
                                             /\ Queued(t)}
                    IN  /\ Cardinality(out) + (IF k.held[p] THEN 1 ELSE 0)
                             = (IF k.has_async[p] THEN 1 ELSE 0)
                        /\ k.async_todo[p] # << >> => k.has_async[p]
  BY DEF OneWaySerial
<1>3. PICK out : out = {t \in Txns : /\ k.txn[t].kind = "oneway"
                                     /\ k.txn[t].to_proc = p
                                     /\ Queued(t)}
  OBVIOUS
<1>4. SerialAt(k, G, p) /\ p \in Procs
  BY <1>2 DEF Good, Serial
<1>5. ASSUME NEW t \in Txns, k.txn[t].kind = "oneway", k.txn[t].to_proc = p
      PROVE  Queued(t) <=> G[t] \notin {Async(p), Limbo}
  <2>1. FiledAt(k, k.live, k.procs, G, t) /\ t # Complete /\ G[t] # Limbo
    BY <1>2, BinderAssumption DEF Good, Filed, Listed
  <2>2. G[t] # Nowhere
    BY <1>5, <2>1 DEF FiledAt
  <2>3. ASSUME Queued(t) PROVE G[t] \notin {Async(p), Limbo}
    <3>1. (\E h \in k.live : t \in Range(k.todo[h])) \/ (\E q \in k.procs : t \in Range(k.ptodo[q]))
      BY <2>3 DEF Queued, Work
    <3>2. (\E h \in Threads : G[t] = Todo(h)) \/ (\E q \in Procs : G[t] = Ptodo(q))
      BY <1>2, <3>1 DEF Listed
    <3> QED BY <3>2, WhereFacts
  <2>4. ASSUME G[t] \notin {Async(p), Limbo} PROVE Queued(t)
    <3>1. \A q \in Procs : G[t] = Async(q) => q = p
      BY <1>5, <2>1 DEF FiledAt
    <3>2. (\E h \in Threads : G[t] = Todo(h)) \/ (\E q \in Procs : G[t] = Ptodo(q))
      BY <1>2, <2>2, <2>4, <3>1 DEF Wheres
    <3>3. CASE \E h \in Threads : G[t] = Todo(h)
      <4>1. PICK h \in Threads : G[t] = Todo(h)
        BY <3>3
      <4>2. h \in k.live
        BY <2>1, <4>1 DEF FiledAt
      <4>3. t \in Range(k.todo[h])
        BY <1>2, <4>1 DEF Listed
      <4> QED BY <2>1, <4>2, <4>3 DEF Queued, Work
    <3>4. CASE \E q \in Procs : G[t] = Ptodo(q)
      <4>1. PICK q \in Procs : G[t] = Ptodo(q)
        BY <3>4
      <4>2. q \in k.procs
        BY <2>1, <4>1 DEF FiledAt
      <4>3. t \in Range(k.ptodo[q])
        BY <1>2, <4>1 DEF Listed
      <4> QED BY <2>1, <4>2, <4>3 DEF Queued, Work
    <3> QED BY <3>2, <3>3, <3>4
  <2> QED BY <2>3, <2>4
<1>6. out = OutTo(k, G, p)
  BY <1>3, <1>5 DEF OutTo
<1>7. Cardinality(out) = IF out = {} THEN 0 ELSE 1
  <2>1. CASE out = {}
    BY <2>1, FS_EmptySet
  <2>2. CASE out # {}
    <3>1. PICK t : t \in out
      BY <2>2
    <3>2. out = {t}
      BY <1>4, <1>6, <3>1 DEF SerialAt
    <3> QED BY <2>2, <3>2, FS_Singleton
  <2> QED BY <2>1, <2>2
<1>8. k.held[p] \in BOOLEAN /\ k.has_async[p] \in BOOLEAN
  BY <1>2, <1>4 DEF Kernel
<1>9. /\ k.held[p] => out = {} /\ k.has_async[p]
      /\ out # {} => k.has_async[p]
      /\ k.has_async[p] => k.held[p] \/ out # {}
  BY <1>4, <1>6 DEF SerialAt
<1>10. Cardinality(out) + (IF k.held[p] THEN 1 ELSE 0) = (IF k.has_async[p] THEN 1 ELSE 0)
  BY <1>7, <1>8, <1>9
<1>11. ASSUME k.async_todo[p] # << >> PROVE k.has_async[p]
  <2>1. PICK list \in Seq(Txns) : list = k.async_todo[p]
    BY <1>2, <1>4 DEF Kernel
  <2>2. PICK t \in Txns : t = Head(list)
    BY <1>11, <2>1, HeadTailProperties
  <2>3. Holds(list, G, Async(p)) /\ list \in Seq(Works) /\ list # << >>
    BY <1>2, <1>4, <1>11, <2>1, ListedHolds, ListTypes
  <2>4. G[t] = Async(p)
    BY <2>2, <2>3, HeadListed
  <2> QED BY <1>4, <2>4 DEF SerialAt
<1> QED BY <1>3, <1>10, <1>11

(* One-way calls to a process go out one at a time (has_async_transaction  *)
(* and async_todo of the node): while one is queued or its buffer is not   *)
(* freed the next are held back, and none is held back for nothing, as     *)
(* long as no thread exits with a one-way call on its own list, which      *)
(* leaves has_async_transaction set for good (AsyncExit).                  *)
THEOREM OneWayCallsInTurn ==
  ASSUME ~ AsyncExit
  PROVE  BinderSpec => []OneWaySerial
<1>1. ChainsInv => OneWaySerial
  BY ChainsSerial DEF ChainsInv
<1> QED BY <1>1, ChainsInit, ChainsNext, PTL DEF BinderSpec

-----------------------------------------------------------------------------
(* The walks over a stack and over the callers of a call, as sets: what is *)
(* reached from s with nx.                                                 *)

Onward(nx, U) == U \cup ({nx[u] : u \in U} \ {NoTxn})

ReachTurns(f, nx, s, N) ==
  f = [n \in 0 .. N |-> IF n = 0 THEN {s} \ {NoTxn} ELSE Onward(nx, f[n - 1])]

Reaches(R, nx, s) ==
  /\ R \in SUBSET Txns /\ Closed(nx, R)
  /\ s \in R \cup {NoTxn}
  /\ \A U \in SUBSET Txns : s \in U \cup {NoTxn} /\ Closed(nx, U) => R \subseteq U

LEMMA OnwardFacts ==
  ASSUME NEW nx \in PFun, NEW U \in SUBSET Txns
  PROVE  /\ Onward(nx, U) \in SUBSET Txns /\ U \subseteq Onward(nx, U)
         /\ Closed(nx, U) => Onward(nx, U) = U
         /\ ~ Closed(nx, U) => \E t \in Txns : t \notin U /\ t \in Onward(nx, U)
         /\ \A V \in SUBSET Txns : U \subseteq V /\ Closed(nx, V) => Onward(nx, U) \subseteq V
<1>1. \A u \in U : u \in Txns /\ nx[u] \in Txns \cup {NoTxn}
  BY DEF PFun
<1>2. Onward(nx, U) \in SUBSET Txns
  BY <1>1 DEF Onward
<1>3. ASSUME Closed(nx, U) PROVE Onward(nx, U) = U
  BY <1>3 DEF Onward, Closed
<1>4. ASSUME ~ Closed(nx, U) PROVE \E t \in Txns : t \notin U /\ t \in Onward(nx, U)
  <2>1. PICK u \in U : nx[u] \notin U \cup {NoTxn}
    BY <1>4 DEF Closed
  <2> QED BY <1>1, <2>1 DEF Onward
<1>5. ASSUME NEW V \in SUBSET Txns, U \subseteq V, Closed(nx, V)
      PROVE  Onward(nx, U) \subseteq V
  BY <1>5 DEF Onward, Closed
<1> QED BY <1>2, <1>3, <1>4, <1>5 DEF Onward

LEMMA ReachExists ==
  ASSUME NEW nx \in PFun, NEW s \in Txns \cup {NoTxn}, NEW N \in Nat
  PROVE  \E f : ReachTurns(f, nx, s, N) /\ f \in [0 .. N -> SUBSET Txns]
<1>1. PICK W : W = SUBSET Txns
  OBVIOUS
<1>2. PICK w0 \in W : w0 = {s} \ {NoTxn}
  BY <1>1
<1>3. PICK step \in StepsIn(W, N) : step = [n \in 1 .. N |-> [U \in W |-> Onward(nx, U)]]
  BY <1>1, OnwardFacts DEF StepsIn
<1>4. PICK f : WalkOf(f, W, w0, step, N)
  BY Iterated
<1>5. ASSUME NEW n \in 0 .. N, n # 0 PROVE f[n] = Onward(nx, f[n - 1])
  <2>1. n \in 1 .. N /\ n - 1 \in 0 .. N
    BY <1>5
  <2>2. f[n - 1] \in W
    BY <1>4, <2>1 DEF WalkOf
  <2> QED BY <1>3, <1>4, <2>1, <2>2 DEF WalkOf
<1>6. ReachTurns(f, nx, s, N)
  BY <1>2, <1>4, <1>5 DEF ReachTurns, WalkOf
<1> QED BY <1>1, <1>4, <1>6 DEF WalkOf

ReachSteps(f, nx, s, N) ==
  /\ f[0] = {s} \ {NoTxn}
  /\ \A n \in 0 .. N : n # 0 => f[n] = Onward(nx, f[n - 1])

LEMMA ReachStep ==
  ASSUME NEW nx, NEW s, NEW N \in Nat, NEW f, ReachTurns(f, nx, s, N)
  PROVE  ReachSteps(f, nx, s, N)
<1>1. f[0] = {s} \ {NoTxn}
  BY DEF ReachTurns
<1>2. ASSUME NEW n \in 0 .. N, n # 0 PROVE f[n] = Onward(nx, f[n - 1])
  BY <1>2 DEF ReachTurns
<1> QED BY <1>1, <1>2 DEF ReachSteps

(* As many turns as there are transactions are enough.                     *)
LEMMA ReachFacts ==
  ASSUME NEW nx \in PFun, NEW s \in Txns \cup {NoTxn}, NEW f,
         ReachSteps(f, nx, s, Cardinality(Txns))
  PROVE  Reaches(f[Cardinality(Txns)], nx, s)
<1>1. PICK N \in Nat : N = Cardinality(Txns)
  BY FS_CardinalityType, BinderAssumption
<1>2. /\ f[0] = {s} \ {NoTxn}
      /\ \A n \in 0 .. N : n # 0 => f[n] = Onward(nx, f[n - 1])
  <2>1. ReachSteps(f, nx, s, N)
    BY <1>1
  <2> QED BY <2>1 DEF ReachSteps
<1> DEFINE Within(U) == s \in U \cup {NoTxn} /\ Closed(nx, U)
           Grown(n) == Closed(nx, f[n]) \/ n <= Cardinality(f[n])
           T == {n \in 0 .. N : /\ f[n] \in SUBSET Txns /\ s \in f[n] \cup {NoTxn}
                                /\ \A U \in SUBSET Txns : Within(U) => f[n] \subseteq U
                                /\ Grown(n)}
<1>3. 0 \in T
  <2>1. f[0] \in SUBSET Txns /\ s \in f[0] \cup {NoTxn}
    BY <1>2
  <2>2. IsFiniteSet(f[0])
    BY <2>1, FS_Subset, BinderAssumption
  <2>3. Grown(0)
    BY <2>2, FS_CardinalityType
  <2>4. ASSUME NEW U \in SUBSET Txns, Within(U) PROVE f[0] \subseteq U
    BY <1>2, <2>4
  <2> HIDE DEF Within, Grown
  <2> QED BY <2>1, <2>3, <2>4
<1>4. ASSUME NEW n \in 0 .. N - 1, n \in T PROVE n + 1 \in T
  <2>1. n + 1 \in 0 .. N /\ n + 1 # 0 /\ (n + 1) - 1 = n
    OBVIOUS
  <2>2. f[n + 1] = Onward(nx, f[n])
    BY <1>2, <2>1
  <2>3. PICK U : U = f[n]
    OBVIOUS
  <2>4. PICK V : V = f[n + 1]
    OBVIOUS
  <2>5. U \in SUBSET Txns /\ V = Onward(nx, U)
    BY <1>4, <2>2, <2>3, <2>4
  <2>6. V \in SUBSET Txns /\ U \subseteq V
    BY <2>5, OnwardFacts
  <2>7. s \in V \cup {NoTxn}
    BY <1>4, <2>3, <2>6
  <2>8. ASSUME NEW Z \in SUBSET Txns, Within(Z) PROVE V \subseteq Z
    <3>1. U \subseteq Z
      BY <1>4, <2>3, <2>8
    <3> QED BY <2>5, <2>8, <3>1, OnwardFacts
  <2>9. Grown(n + 1)
    <3>1. CASE Closed(nx, U)
      <4>1. V = U
        BY <2>5, <3>1, OnwardFacts
      <4> QED BY <2>4, <3>1, <4>1
    <3>2. CASE ~ Closed(nx, U)
      <4>1. PICK t \in Txns : t \notin U /\ t \in V
        BY <2>5, <3>2, OnwardFacts
      <4>2. IsFiniteSet(U) /\ IsFiniteSet(V)
        BY <2>5, <2>6, FS_Subset, BinderAssumption
      <4>3. Cardinality(U) \in Nat /\ Cardinality(V) \in Nat
        BY <4>2, FS_CardinalityType
      <4>4. n <= Cardinality(U)
        BY <1>4, <2>3, <3>2
      <4>5. IsFiniteSet(U \cup {t}) /\ Cardinality(U \cup {t}) = Cardinality(U) + 1
        BY <4>1, <4>2, FS_AddElement
      <4>6. U \cup {t} \subseteq V
        BY <2>6, <4>1
      <4>7. Cardinality(U \cup {t}) <= Cardinality(V)
        BY <4>2, <4>6, FS_Subset
      <4>8. n + 1 <= Cardinality(V)
        BY <4>3, <4>4, <4>5, <4>7
      <4> QED BY <2>4, <4>8
    <3> QED BY <3>1, <3>2
  <2> QED BY <2>1, <2>4, <2>6, <2>7, <2>8, <2>9
<1>5. N \in T
  <2> HIDE DEF T
  <2> QED BY <1>3, <1>4, Turns
<1>6. PICK R : R = f[N]
  OBVIOUS
<1>7. /\ R \in SUBSET Txns /\ s \in R \cup {NoTxn}
      /\ \A U \in SUBSET Txns : Within(U) => R \subseteq U
      /\ Closed(nx, R) \/ N <= Cardinality(R)
  BY <1>5, <1>6
<1>8. Closed(nx, R)
  <2> SUFFICES ASSUME N <= Cardinality(R) PROVE Closed(nx, R)
    BY <1>7
  <2>1. Cardinality(R) <= N /\ (Cardinality(R) = N => R = Txns) /\ Cardinality(R) \in Nat
    <3>1. IsFiniteSet(R) /\ Cardinality(R) <= N /\ (Cardinality(R) = N => R = Txns)
      BY <1>1, <1>7, FS_Subset, BinderAssumption
    <3> QED BY <3>1, FS_CardinalityType
  <2>2. Cardinality(R) = N
    BY <2>1
  <2>3. R = Txns
    BY <2>1, <2>2
  <2> QED BY <2>3 DEF Closed, PFun
<1>9. Reaches(R, nx, s)
  BY <1>7, <1>8 DEF Reaches
<1> QED BY <1>1, <1>6, <1>9

(* The callers of a call.                                                  *)
ChainTurns(f, K, t, N) ==
  f = [n \in 0 .. N |->
         IF n = 0 THEN {t} \ {NoTxn}
         ELSE f[n - 1] \cup ({K.txn[u].from_parent : u \in f[n - 1]} \ {NoTxn})]

(* The stack of a thread.                                                  *)
Lower(K, h) ==
  [t \in Txns |-> IF K.txn[t].to_thread = h THEN K.txn[t].to_parent
                  ELSE K.txn[t].from_parent]

StackTurns(f, h, N) ==
  f = [n \in 0 .. N |->
         IF n = 0 THEN {k.stack[h]} \ {NoTxn}
         ELSE f[n - 1] \cup
              ({IF k.txn[t].to_thread = h THEN k.txn[t].to_parent
                  ELSE k.txn[t].from_parent : t \in f[n - 1]} \ {NoTxn})]

LEMMA ChainReaches ==
  ASSUME NEW K \in Kernel, NEW t \in Txns \cup {NoTxn}
  PROVE  Reaches(Chain(K, t), Parents(K), t)
<1>1. PICK N \in Nat : N = Cardinality(Txns)
  BY FS_CardinalityType, BinderAssumption
<1>2. PICK P \in PFun : P = Parents(K)
  BY DEF Parents, PFun, Kernel, TxnRecs
<1>3. \A u \in Txns : P[u] = K.txn[u].from_parent
  BY <1>2 DEF Parents
<1>4. PICK f : ReachTurns(f, P, t, N) /\ f \in [0 .. N -> SUBSET Txns]
  BY ReachExists
<1>5. ASSUME NEW n \in 0 .. N, n # 0
      PROVE  /\ f[n] = Onward(P, f[n - 1])
             /\ f[n] = f[n - 1] \cup ({K.txn[u].from_parent : u \in f[n - 1]} \ {NoTxn})
  <2>1. n - 1 \in 0 .. N
    BY <1>5
  <2>2. f[n - 1] \in SUBSET Txns
    BY <1>4, <2>1
  <2>3. f[n] = Onward(P, f[n - 1])
    BY <1>4, <1>5 DEF ReachTurns
  <2>4. {P[u] : u \in f[n - 1]} = {K.txn[u].from_parent : u \in f[n - 1]}
    BY <1>3, <2>2
  <2> QED BY <2>3, <2>4 DEF Onward
<1>6. f[0] = {t} \ {NoTxn}
  BY <1>4 DEF ReachTurns
<1>7. ChainTurns(f, K, t, N)
  BY <1>4, <1>5, <1>6 DEF ChainTurns
<1>8. PICK g : g = (CHOOSE e : ChainTurns(e, K, t, N))
  OBVIOUS
<1>9. ChainTurns(g, K, t, N)
  BY <1>7, <1>8
<1>10. Chain(K, t) = g[N]
  BY <1>1, <1>8 DEF Chain, ChainTurns
<1> DEFINE T == {n \in 0 .. N : g[n] = f[n]}
<1>11. 0 \in T
  BY <1>6, <1>9 DEF ChainTurns
<1>12. ASSUME NEW n \in 0 .. N - 1, n \in T PROVE n + 1 \in T
  <2>1. n + 1 \in 0 .. N /\ n + 1 # 0 /\ (n + 1) - 1 = n
    OBVIOUS
  <2>2. g[n + 1] = g[n] \cup ({K.txn[u].from_parent : u \in g[n]} \ {NoTxn})
    BY <1>9, <2>1 DEF ChainTurns
  <2>3. f[n + 1] = f[n] \cup ({K.txn[u].from_parent : u \in f[n]} \ {NoTxn})
    BY <1>5, <2>1
  <2>4. g[n] = f[n]
    BY <1>12
  <2>5. g[n + 1] = f[n + 1]
    BY <2>2, <2>3, <2>4
  <2> QED BY <2>1, <2>5
<1> HIDE DEF T
<1>13. N \in T
  BY <1>11, <1>12, Turns
<1>14. g[N] = f[N]
  BY <1>13 DEF T
<1>15. ReachSteps(f, P, t, Cardinality(Txns))
  BY <1>1, <1>4, ReachStep
<1>16. Reaches(f[N], P, t)
  BY <1>1, <1>15, ReachFacts
<1> QED BY <1>2, <1>10, <1>14, <1>16

LEMMA StackReaches ==
  ASSUME k \in Kernel, NEW h \in Threads
  PROVE  /\ Lower(k, h) \in PFun
         /\ Reaches(Stack(h), Lower(k, h), k.stack[h])
<1>1. PICK N \in Nat : N = Cardinality(Txns)
  BY FS_CardinalityType, BinderAssumption
<1>2. PICK P \in PFun : P = Lower(k, h)
  BY DEF Lower, PFun, Kernel, TxnRecs
<1>3. \A u \in Txns : P[u] = IF k.txn[u].to_thread = h THEN k.txn[u].to_parent
                             ELSE k.txn[u].from_parent
  BY <1>2 DEF Lower
<1>4. PICK s \in Txns \cup {NoTxn} : s = k.stack[h]
  BY DEF Kernel
<1>5. PICK f : ReachTurns(f, P, s, N) /\ f \in [0 .. N -> SUBSET Txns]
  BY ReachExists
<1> DEFINE Below(U) == {IF k.txn[t].to_thread = h THEN k.txn[t].to_parent
                          ELSE k.txn[t].from_parent : t \in U}
<1>6. ASSUME NEW n \in 0 .. N, n # 0
      PROVE  f[n] = f[n - 1] \cup (Below(f[n - 1]) \ {NoTxn})
  <2>1. n - 1 \in 0 .. N
    BY <1>6
  <2>2. f[n - 1] \in SUBSET Txns
    BY <1>5, <2>1
  <2>3. f[n] = Onward(P, f[n - 1])
    BY <1>5, <1>6 DEF ReachTurns
  <2>4. {P[u] : u \in f[n - 1]} = Below(f[n - 1])
    BY <1>3, <2>2
  <2> QED BY <2>3, <2>4 DEF Onward
<1>7. f[0] = {s} \ {NoTxn}
  BY <1>5 DEF ReachTurns
<1>8. StackTurns(f, h, N)
  BY <1>4, <1>5, <1>6, <1>7 DEF StackTurns
<1>9. PICK g : g = (CHOOSE e : StackTurns(e, h, N))
  OBVIOUS
<1>10. StackTurns(g, h, N)
  BY <1>8, <1>9
<1>11. Stack(h) = g[N]
  BY <1>1, <1>9 DEF Stack, StackTurns
<1> DEFINE T == {n \in 0 .. N : g[n] = f[n]}
<1>12. 0 \in T
  BY <1>4, <1>7, <1>10 DEF StackTurns
<1>13. ASSUME NEW n \in 0 .. N - 1, n \in T PROVE n + 1 \in T
  <2>1. n + 1 \in 0 .. N /\ n + 1 # 0 /\ (n + 1) - 1 = n
    OBVIOUS
  <2>2. g[n + 1] = g[n] \cup (Below(g[n]) \ {NoTxn})
    BY <1>10, <2>1 DEF StackTurns
  <2>3. f[n + 1] = f[n] \cup (Below(f[n]) \ {NoTxn})
    BY <1>6, <2>1
  <2>4. g[n] = f[n]
    BY <1>13
  <2> HIDE DEF Below
  <2>5. g[n + 1] = f[n + 1]
    BY <2>2, <2>3, <2>4
  <2> QED BY <2>1, <2>5
<1> HIDE DEF T
<1>14. N \in T
  BY <1>12, <1>13, Turns
<1>15. g[N] = f[N]
  BY <1>14 DEF T
<1>16. ReachSteps(f, P, s, Cardinality(Txns))
  BY <1>1, <1>5, ReachStep
<1>17. Reaches(f[N], P, s)
  BY <1>1, <1>16, ReachFacts
<1>18. Reaches(Stack(h), P, k.stack[h])
  BY <1>4, <1>11, <1>15, <1>17
<1> QED BY <1>2, <1>18

-----------------------------------------------------------------------------
(* The stack of a live thread has the calls it made and the ones it is to  *)
(* answer, and nothing else.                                               *)

LEMMA LowerIn ==
  ASSUME NEW K, NEW T, NEW R, NEW G, Good(K, T, R, G), NEW h \in T,
         NEW t \in In(K, G, h)
  PROVE  /\ t \in Txns /\ Lower(K, h)[t] = K.txn[t].to_parent
         /\ UnderAt(K, G, h, t)
BY DEF In, Lower, Good, Unders

LEMMA LowerOut ==
  ASSUME NEW K, NEW T, NEW R, NEW G, Good(K, T, R, G), NEW h \in T,
         NEW t \in Out(K, h)
  PROVE  /\ t \in Txns /\ Lower(K, h)[t] = Parents(K)[t]
         /\ Parents(K)[t] \in In(K, G, h) \cup {NoTxn}
<1>1. t \in Txns /\ K.txn[t].to_thread # h /\ K.txn[t].from = h
  BY OutNotIn DEF Out
<1>2. Lower(K, h)[t] = K.txn[t].from_parent /\ Parents(K)[t] = K.txn[t].from_parent
  BY <1>1 DEF Lower, Parents
<1>3. K.txn[t].from_parent \in Txns \cup {NoTxn}
  BY <1>1 DEF Good, Typed, Kernel, TxnRecs
<1>4. K.txn[t].from_parent # NoTxn =>
        LET s == K.txn[t].from_parent
        IN  K.txn[s].kind = "call" /\ G[s] = Nowhere /\ K.txn[s].to_thread = h
  BY <1>1 DEF Good, Links
<1> QED BY <1>1, <1>2, <1>3, <1>4 DEF In

LEMMA OwnClosed ==
  ASSUME NEW K, NEW T, NEW R, NEW G, Good(K, T, R, G), NEW h \in T
  PROVE  Own(K, G, h) \in SUBSET Txns /\ Closed(Lower(K, h), Own(K, G, h))
<1>1. ASSUME NEW t \in Own(K, G, h) PROVE Lower(K, h)[t] \in Own(K, G, h) \cup {NoTxn}
  <2>1. CASE t \in In(K, G, h)
    <3>1. Lower(K, h)[t] = K.txn[t].to_parent /\ UnderAt(K, G, h, t)
      BY <2>1, LowerIn
    <3>2. K.txn[t].to_parent # NoTxn => K.txn[t].to_parent \in Out(K, h)
      BY <3>1 DEF UnderAt
    <3> QED BY <3>1, <3>2 DEF Own
  <2>2. CASE t \in Out(K, h)
    BY <2>2, LowerOut DEF Own
  <2> QED BY <1>1, <2>1, <2>2 DEF Own
<1> QED BY <1>1 DEF Closed, Own, Out, In

(* What is next on the stack under v is the first above v in its chain     *)
(* that is the thread's own.                                               *)
Above(K, G, h, U, x, v) ==
  /\ v \in Own(K, G, h) /\ v \in U /\ Anc(Parents(K), x, v)
  /\ \A u \in Own(K, G, h) : Anc(Parents(K), u, v) /\ u # v => Anc(Parents(K), u, x)
  /\ \A u \in Own(K, G, h) : Anc(Parents(K), v, u) => u \in U

LEMMA NextOwn ==
  ASSUME NEW K, NEW T, NEW R, NEW G, Good(K, T, R, G), NEW h \in T,
         NEW U \in SUBSET Txns, Closed(Lower(K, h), U),
         NEW x \in Own(K, G, h), NEW v, x # v, Above(K, G, h, U, x, v)
  PROVE  x \in U
<1>1. PICK P \in PFun : P = Parents(K)
  BY DEF Good, Typed, Parents, PFun, Kernel, TxnRecs
<1>2. /\ x \in Txns /\ v \in Txns /\ v \in U /\ v \in Own(K, G, h) /\ Anc(P, x, v)
      /\ \A u \in Own(K, G, h) : Anc(P, u, v) /\ u # v => Anc(P, u, x)
  BY <1>1, OwnClosed DEF Above
<1>3. \A a, b \in Txns : Anc(P, a, b) /\ Anc(P, b, a) => a = b
  BY <1>1 DEF Good, Links, Acyclic
<1>4. ~ Anc(P, v, x)
  BY <1>2, <1>3
<1>5. Lower(K, h)[v] \in U \cup {NoTxn}
  BY <1>2 DEF Closed
<1>6. CASE v \in In(K, G, h)
  <2>1. PICK r : r = K.txn[v].to_parent
    OBVIOUS
  <2>2. r \in U \cup {NoTxn} /\ UnderAt(K, G, h, v)
    BY <1>5, <1>6, <2>1, LowerIn
  <2>3. r # NoTxn
    BY <1>1, <1>4, <2>1, <2>2 DEF UnderAt
  <2>4. r \in Out(K, h) /\ Anc(P, r, v) /\ (Anc(P, v, x) \/ Anc(P, x, r))
    BY <1>1, <2>1, <2>2, <2>3 DEF UnderAt
  <2>5. r \in Txns /\ r \in Own(K, G, h) /\ r # v
    BY <1>6, <2>4, OutNotIn DEF Own
  <2>6. Anc(P, r, x)
    BY <1>2, <2>4, <2>5
  <2>7. x = r
    BY <1>2, <1>3, <1>4, <2>4, <2>5, <2>6
  <2> QED BY <2>2, <2>3, <2>7
<1>7. CASE v \in Out(K, h)
  <2>1. PICK r : r = P[v]
    OBVIOUS
  <2>2. r \in Txns /\ Anc(P, x, r)
    BY <1>2, <2>1, AncUp
  <2>3. r # NoTxn
    BY <2>2, BinderAssumption
  <2>4. r \in U /\ r \in In(K, G, h)
    BY <1>1, <1>5, <1>7, <2>1, <2>3, LowerOut
  <2>5. r \in Own(K, G, h) /\ r # v
    BY <1>7, <2>4, OutNotIn DEF Own
  <2>6. Anc(P, r, v)
    BY <1>2, <2>1, <2>3, AncParent
  <2>7. Anc(P, r, x)
    BY <1>2, <2>5, <2>6
  <2>8. x = r
    BY <1>2, <1>3, <2>2, <2>7
  <2> QED BY <2>4, <2>8
<1> QED BY <1>2, <1>6, <1>7 DEF Own

LEMMA OwnReached ==
  ASSUME NEW K, NEW T, NEW R, NEW G, Good(K, T, R, G), NEW h \in T,
         NEW U \in SUBSET Txns, Closed(Lower(K, h), U),
         K.stack[h] \in U \cup {NoTxn}
  PROVE  Own(K, G, h) \subseteq U
<1>1. PICK P \in PFun : P = Parents(K)
  BY DEF Good, Typed, Parents, PFun, Kernel, TxnRecs
<1>2. PICK s : s = K.stack[h]
  OBVIOUS
<1>3. PICK O \in SUBSET Txns : O = Own(K, G, h)
  BY OwnClosed
<1>4. TopAt(K, G, h)
  BY DEF Good, Tops
<1>5. CASE s = NoTxn
  BY <1>2, <1>4, <1>5 DEF TopAt
<1>6. CASE s # NoTxn
  <2>1. s \in O /\ s \in Txns /\ s \in U /\ \A u \in O : Anc(P, u, s)
    BY <1>1, <1>2, <1>3, <1>4, <1>6 DEF TopAt
  <2>2. \A a, b \in Txns : Anc(P, a, b) /\ Anc(P, b, a) => a = b
    BY <1>1 DEF Good, Links, Acyclic
  <2>3. ASSUME NEW x, NEW v
        PROVE  Above(K, G, h, U, x, v) <=>
                 /\ v \in O /\ v \in U /\ Anc(P, x, v)
                 /\ \A u \in O : Anc(P, u, v) /\ u # v => Anc(P, u, x)
                 /\ \A u \in O : Anc(P, v, u) => u \in U
    BY <1>1, <1>3 DEF Above
  <2> DEFINE W == {x \in Txns : \E v \in O : Above(K, G, h, U, x, v)}
  <2>4. s \in W
    <3>1. Anc(P, s, s)
      BY <2>1, AncSelf
    <3>2. \A u \in O : Anc(P, s, u) => u \in U
      BY <2>1, <2>2
    <3>3. Above(K, G, h, U, s, s)
      BY <2>1, <2>3, <3>1, <3>2
    <3> QED BY <2>1, <3>3
  <2>5. ASSUME NEW x \in O, x \in W PROVE x \in U
    <3>1. PICK v \in O : Above(K, G, h, U, x, v)
      BY <2>5
    <3>2. CASE x = v
      BY <2>3, <3>1, <3>2
    <3>3. CASE x # v
      BY <1>3, <3>1, <3>3, NextOwn
    <3> QED BY <3>2, <3>3
  <2>6. ASSUME NEW x \in W, P[x] # NoTxn PROVE P[x] \in W
    <3>1. PICK y \in Txns : y = P[x]
      BY <2>6 DEF PFun
    <3>2. PICK v \in O : Above(K, G, h, U, x, v)
      BY <2>6
    <3>3. x \in Txns /\ v \in Txns /\ Anc(P, y, x)
      BY <2>6, <3>1, AncParent
    <3>4. \A u \in Txns : Anc(P, u, x) /\ u # x => Anc(P, u, y)
      BY <3>1, <3>3, AncUp
    <3>5. /\ v \in U /\ Anc(P, x, v)
          /\ \A u \in O : Anc(P, u, v) /\ u # v => Anc(P, u, x)
          /\ \A u \in O : Anc(P, v, u) => u \in U
      BY <2>3, <3>2
    <3>6. CASE x \in O /\ x # v
      <4>1. x \in U
        BY <2>5, <2>6, <3>6
      <4>2. ASSUME NEW u \in O, Anc(P, x, u) PROVE u \in U
        <5>1. Anc(P, u, v) \/ Anc(P, v, u)
          BY <2>1, <3>3, Comparable
        <5>2. CASE Anc(P, u, v) /\ u # v
          <6>1. u = x
            BY <2>2, <3>3, <3>5, <4>2, <5>2
          <6> QED BY <4>1, <6>1
        <5>3. CASE u = v
          BY <3>5, <5>3
        <5>4. CASE Anc(P, v, u)
          BY <3>5, <5>4
        <5> QED BY <5>1, <5>2, <5>3, <5>4
      <4>3. Above(K, G, h, U, y, x)
        BY <2>3, <3>3, <3>4, <3>6, <4>1, <4>2
      <4> QED BY <3>1, <3>6, <4>3
    <3>7. CASE ~ (x \in O /\ x # v)
      <4>1. Anc(P, y, v)
        BY <3>3, <3>5, AncTrans
      <4>2. ASSUME NEW u \in O, Anc(P, u, v), u # v PROVE Anc(P, u, y)
        BY <3>4, <3>5, <3>7, <4>2
      <4>3. Above(K, G, h, U, y, v)
        BY <2>3, <3>5, <4>1, <4>2
      <4> QED BY <3>1, <4>3
    <3> QED BY <3>6, <3>7
  <2>7. W \in SUBSET Txns /\ Closed(P, W)
    <3>1. W \in SUBSET Txns
      OBVIOUS
    <3> HIDE DEF W
    <3> QED BY <2>6, <3>1 DEF Closed
  <2>8. ASSUME NEW u \in O PROVE u \in U
    <3>1. Anc(P, u, s)
      BY <2>1
    <3> HIDE DEF W
    <3>2. u \in W
      BY <2>4, <2>7, <3>1 DEF Anc
    <3> QED BY <2>5, <3>2
  <2> QED BY <1>3, <2>8
<1> QED BY <1>5, <1>6

LEMMA StackOwn ==
  ASSUME NEW G, Good(k, k.live, k.procs, G), NEW h \in k.live
  PROVE  Stack(h) = Own(k, G, h)
<1>1. k \in Kernel /\ h \in Threads
  BY DEF Good, Typed
<1>2. PICK S : S = Stack(h)
  OBVIOUS
<1>3. Reaches(S, Lower(k, h), k.stack[h])
  BY <1>1, <1>2, StackReaches
<1>4. Own(k, G, h) \subseteq S
  BY <1>3, OwnReached DEF Reaches
<1>5. S \subseteq Own(k, G, h)
  <2>1. TopAt(k, G, h)
    BY DEF Good, Tops
  <2>2. k.stack[h] \in Own(k, G, h) \cup {NoTxn}
    BY <2>1 DEF TopAt
  <2> QED BY <1>3, <2>2, OwnClosed DEF Reaches
<1> QED BY <1>2, <1>4, <1>5

-----------------------------------------------------------------------------
(* Every call is answered once.                                            *)

LEMMA CallsOut ==
  ASSUME NEW G, Good(k, k.live, k.procs, G), NEW h \in k.live
  PROVE  CallsOf(h) = Out(k, h)
<1>1. Stack(h) = Own(k, G, h)
  BY StackOwn
<1>2. CallsOf(h) = {t \in Own(k, G, h) : k.txn[t].from = h}
  BY <1>1 DEF CallsOf
<1> QED BY <1>2 DEF Own, Out, In

LEMMA ChainsAnswered == ChainInv => AnsweredOnce
<1> SUFFICES ASSUME ChainInv PROVE AnsweredOnce
  OBVIOUS
<1>1. PICK G : Kept(k, at, forproc, Still, G)
  BY DEF ChainInv
<1>2. /\ k \in Kernel /\ k.live \subseteq Threads /\ Good(k, k.live, k.procs, G)
      /\ Listed(k, G) /\ G \in [Txns -> Wheres]
  BY <1>1, KeptFacts DEF Sound, Good, Typed
<1> SUFFICES ASSUME NEW h \in k.live
             PROVE  owed[h] + again[h] = Cardinality(CallsOf(h))
                      + Cardinality({t \in Work(k.todo[h]) : k.txn[t].kind = "reply"})
                      + Answers(k, h)
  BY DEF AnsweredOnce
<1>3. owed[h] + again[h] = Due(k, G, h)
  <2>1. Still[h] = Due(k, G, h)
    BY <1>1, KeptFacts
  <2> QED BY <1>2, <2>1 DEF Still
<1>4. CallsOf(h) = Out(k, h)
  BY <1>2, CallsOut
<1>5. {t \in Work(k.todo[h]) : k.txn[t].kind = "reply"} = Replies(k, G, h)
  <2>1. k.todo[h] \in Seq(Works)
    BY <1>2, ListTypes
  <2>2. Range(k.todo[h]) \subseteq Works
    <3>1. k.todo[h] \in [DOMAIN k.todo[h] -> Works]
      BY <2>1, LenProperties
    <3> QED BY <3>1 DEF Range
  <2>3. Work(k.todo[h]) = {t \in Txns : G[t] = Todo(h)}
    <3>1. \A t \in Txns : t \in Range(k.todo[h]) <=> G[t] = Todo(h)
      BY <1>2 DEF Listed
    <3> QED BY <2>2, <3>1, BinderAssumption DEF Work, Works
  <2> QED BY <2>3 DEF Replies
<1>6. Answers(k, h) = Answer(k.error[h]) + Answer(k.error2[h])
  BY AnswersValue
<1>7. Cardinality(Out(k, h)) \in Nat /\ Cardinality(Replies(k, G, h)) \in Nat
  <2>1. Out(k, h) \in SUBSET Txns /\ Replies(k, G, h) \in SUBSET Txns
    BY DEF Out, Replies
  <2>2. IsFiniteSet(Out(k, h)) /\ IsFiniteSet(Replies(k, G, h))
    BY <2>1, FS_Subset, BinderAssumption
  <2> QED BY <2>2, FS_CardinalityType
<1>8. Answer(k.error[h]) \in Nat /\ Answer(k.error2[h]) \in Nat
  BY DEF Answer
<1>9. owed[h] + again[h] = Cardinality(Out(k, h)) + Cardinality(Replies(k, G, h))
                  + Answer(k.error[h]) + Answer(k.error2[h])
  BY <1>3 DEF Due
<1>10. \A a, b, c, d \in Nat : a + b + c + d = a + b + (c + d)
  OBVIOUS
<1>11. owed[h] + again[h] = Cardinality(Out(k, h)) + Cardinality(Replies(k, G, h))
                   + (Answer(k.error[h]) + Answer(k.error2[h]))
  BY <1>7, <1>8, <1>9, <1>10, ZenonT(60)
<1> QED BY <1>4, <1>5, <1>6, <1>11, Zenon

(* Every call is answered once, whoever exits or dies in between: what a   *)
(* thread has been promised (a reply, or BR_DEAD_REPLY or BR_FAILED_REPLY) *)
(* and has not read is a call on its transaction_stack, a reply on its     *)
(* list of work or one of return_error and return_error2, and there is     *)
(* nothing there that it has not been promised.                            *)
THEOREM CallsAnsweredOnce == BinderSpec => []AnsweredOnce
<1>1. ChainsInv => AnsweredOnce
  BY ChainsAnswered DEF ChainsInv
<1> QED BY <1>1, ChainsInit, ChainsNext, PTL DEF BinderSpec

-----------------------------------------------------------------------------
(* A chain of calls has an end.                                            *)
LEMMA Lowest ==
  ASSUME NEW P \in PFun, Acyclic(P), NEW D \in SUBSET Txns, D # {}
  PROVE  \E d \in D : \A c \in D : P[c] = d => c = d
<1>1. PICK N \in Nat : N = Cardinality(Txns)
  BY FS_CardinalityType, BinderAssumption
<1> DEFINE Uppers(d) == {w \in Txns : Anc(P, w, d)}
           left == {N - Cardinality(Uppers(d)) : d \in D}
<1>2. ASSUME NEW d
      PROVE  /\ IsFiniteSet(Uppers(d)) /\ Cardinality(Uppers(d)) \in Nat
             /\ Cardinality(Uppers(d)) <= N
  <2>1. PICK U \in SUBSET Txns : U = Uppers(d)
    OBVIOUS
  <2>2. IsFiniteSet(U) /\ Cardinality(U) <= N
    BY <1>1, FS_Subset, BinderAssumption
  <2>3. Cardinality(U) \in Nat
    BY <2>2, FS_CardinalityType
  <2> QED BY <2>1, <2>2, <2>3
<1>3. left \in SUBSET Nat /\ left # {}
  <2> HIDE DEF Uppers
  <2> QED BY <1>2
<1>4. PICK m \in left : \A e \in left : m <= e
  <2> HIDE DEF left
  <2> QED BY <1>3, SmallestOf
<1>5. PICK d \in D : m = N - Cardinality(Uppers(d))
  <2> HIDE DEF Uppers
  <2> QED BY <1>4
<1> SUFFICES ASSUME NEW c \in D, P[c] = d, c # d PROVE FALSE
  BY <1>5
<1>6. c \in Txns /\ d \in Txns /\ P[c] # NoTxn
  BY BinderAssumption
<1>7. Anc(P, d, c)
  BY <1>6, AncParent
<1>8. ~ Anc(P, c, d)
  BY <1>6, <1>7 DEF Acyclic
<1>9. PICK U \in SUBSET Txns : U = Uppers(d)
  OBVIOUS
<1>10. PICK V \in SUBSET Txns : V = Uppers(c)
  OBVIOUS
<1>11. U \cup {c} \subseteq V /\ c \notin U
  <2>1. ASSUME NEW w \in U PROVE w \in V
    <3>1. w \in Txns /\ Anc(P, w, d)
      BY <1>9, <2>1
    <3>2. Anc(P, w, c)
      BY <1>6, <1>7, <3>1, AncTrans
    <3> QED BY <1>10, <3>1, <3>2
  <2>2. c \in V
    BY <1>6, <1>10, AncSelf
  <2>3. c \notin U
    BY <1>8, <1>9
  <2> QED BY <2>1, <2>2, <2>3
<1>12. /\ IsFiniteSet(U) /\ IsFiniteSet(V) /\ Cardinality(U) \in Nat
       /\ Cardinality(V) \in Nat
  BY <1>2, <1>9, <1>10
<1>13. IsFiniteSet(U \cup {c}) /\ Cardinality(U \cup {c}) = Cardinality(U) + 1
  BY <1>11, <1>12, FS_AddElement
<1>14. Cardinality(U \cup {c}) <= Cardinality(V)
  BY <1>11, <1>12, FS_Subset
<1>15. m <= N - Cardinality(V)
  <2> HIDE DEF Uppers
  <2>1. N - Cardinality(Uppers(c)) \in left
    OBVIOUS
  <2> HIDE DEF left
  <2> QED BY <1>4, <1>10, <2>1
<1>16. m = N - Cardinality(U)
  BY <1>5, <1>9
<1> HIDE DEF left, Uppers
<1> QED BY <1>12, <1>13, <1>14, <1>15, <1>16

LEMMA ChainAnc ==
  ASSUME NEW K \in Kernel, NEW t \in Txns, NEW w \in Txns
  PROVE  w \in Chain(K, t) <=> Anc(Parents(K), w, t)
<1>1. PICK R : R = Chain(K, t)
  OBVIOUS
<1>2. Reaches(R, Parents(K), t)
  BY <1>1, ChainReaches
<1>3. R \in SUBSET Txns /\ Closed(Parents(K), R) /\ t \in R
  BY <1>2, BinderAssumption DEF Reaches
<1>4. ASSUME NEW U \in SUBSET Txns, t \in U, Closed(Parents(K), U) PROVE R \subseteq U
  BY <1>2, <1>4 DEF Reaches
<1> QED BY <1>1, <1>3, <1>4 DEF Anc

(* The way of a failed reply from u up to t.                               *)
LEMMA FailPathIs ==
  ASSUME k \in Kernel, NEW u \in Txns, NEW t \in Txns, Anc(Parents(k), t, u),
         \A v \in Txns : Anc(Parents(k), v, u) /\ ~ Anc(Parents(k), v, t)
                           => k.txn[v].from = NoThread
  PROVE  t \in FailPath(u)
<1>1. t \in Chain(k, u)
  BY ChainAnc
<1>2. ASSUME NEW v \in Chain(k, u) \ Chain(k, t) PROVE k.txn[v].from = NoThread
  <2>1. v \in Txns
    <3>1. Reaches(Chain(k, u), Parents(k), u)
      BY ChainReaches
    <3> QED BY <3>1 DEF Reaches
  <2>2. Anc(Parents(k), v, u) /\ ~ Anc(Parents(k), v, t)
    BY <2>1, ChainAnc
  <2> QED BY <2>1, <2>2
<1> QED BY <1>1, <1>2 DEF FailPath

(* A call is in somebody's hands, on a list, or its callee died and made   *)
(* the next call of the chain.                                             *)
LEMMA CallPlace ==
  ASSUME NEW G, Sound(k, G), NEW u \in Txns, k.txn[u].kind = "call"
  PROVE  \/ Delivered(u) \/ Queued(u)
         \/ \E c \in Txns : /\ Parents(k)[c] = u /\ k.txn[c].kind = "call"
                            /\ k.txn[c].from = NoThread
<1>1. /\ Good(k, k.live, k.procs, G) /\ Listed(k, G) /\ G \in [Txns -> Wheres]
      /\ k.live \subseteq Threads /\ k.procs \subseteq Procs
  BY DEF Sound, Good, Typed
<1>2. /\ EndsAt(k, k.live, G, u) /\ FiledAt(k, k.live, k.procs, G, u) /\ Links(k, G)
  BY <1>1 DEF Good, Ends, Filed
<1>3. G[u] # Limbo /\ \A p \in Procs : G[u] # Async(p)
  BY <1>1, <1>2 DEF Listed, FiledAt
<1>4. CASE \E h \in Threads : G[u] = Todo(h)
  <2>1. PICK h \in Threads : G[u] = Todo(h)
    BY <1>4
  <2>2. h \in k.live /\ u \in Range(k.todo[h]) /\ u # Complete
    BY <1>1, <1>2, <2>1, BinderAssumption DEF FiledAt, Listed
  <2> QED BY <2>2 DEF Queued, Work
<1>5. CASE \E p \in Procs : G[u] = Ptodo(p)
  <2>1. PICK p \in Procs : G[u] = Ptodo(p)
    BY <1>5
  <2>2. p \in k.procs /\ u \in Range(k.ptodo[p]) /\ u # Complete
    BY <1>1, <1>2, <2>1, BinderAssumption DEF FiledAt, Listed
  <2> QED BY <2>2 DEF Queued, Work
<1>6. CASE G[u] = Nowhere
  <2>1. CASE k.txn[u].to_thread \in k.live
    <3>1. u \in Own(k, G, k.txn[u].to_thread)
      BY <1>6, <2>1 DEF Own, In
    <3>2. PICK h \in k.live : h = k.txn[u].to_thread
      BY <2>1
    <3>3. Stack(h) = Own(k, G, h)
      BY <1>1, StackOwn
    <3> QED BY <2>1, <3>1, <3>2, <3>3 DEF Delivered
  <2>2. CASE k.txn[u].to_thread \notin k.live
    <3>1. k.txn[u].to_thread = NoThread /\ ~ Leaf(Parents(k), u)
      BY <1>2, <1>6, <2>2 DEF EndsAt
    <3>2. PICK c \in Txns : Parents(k)[c] = u
      BY <3>1 DEF Leaf
    <3>3. k.txn[c].from_parent = u /\ u # NoTxn
      BY <3>2, BinderAssumption DEF Parents
    <3>4. k.txn[c].kind = "call" /\ k.txn[c].from = NoThread
      BY <1>2, <3>1, <3>3 DEF Links
    <3> QED BY <3>2, <3>4
  <2> QED BY <2>1, <2>2
<1> QED BY <1>1, <1>3, <1>4, <1>5, <1>6 DEF Wheres

LEMMA ChainsNobodyOrphaned == ChainInv => NobodyOrphaned
<1> SUFFICES ASSUME ChainInv PROVE NobodyOrphaned
  OBVIOUS
<1>1. PICK G : Kept(k, at, forproc, Still, G)
  BY DEF ChainInv
<1>2. /\ Sound(k, G) /\ k \in Kernel /\ k.live \subseteq Threads
      /\ Good(k, k.live, k.procs, G)
  BY <1>1, KeptFacts DEF Sound
<1>3. PICK P \in PFun : P = Parents(k)
  BY <1>2 DEF Parents, PFun, Kernel, TxnRecs
<1>4. Acyclic(P)
  BY <1>2, <1>3 DEF Good, Links
<1> SUFFICES ASSUME NEW h \in k.live, NEW t \in CallsOf(h),
                    \A u \in Txns : k.txn[u].kind = "call" /\ t \in FailPath(u)
                                      => ~ (Delivered(u) \/ Queued(u))
             PROVE  FALSE
  BY DEF NobodyOrphaned
<1>5. t \in Txns /\ k.txn[t].kind = "call" /\ k.txn[t].from # NoThread
  <2>1. t \in Out(k, h)
    BY <1>2, CallsOut
  <2> QED BY <1>2, <2>1, BinderAssumption DEF Out
<1> DEFINE Lost(u) == \A v \in Txns : Anc(P, v, u) /\ ~ Anc(P, v, t)
                                           => k.txn[v].from = NoThread
           D == {u \in Txns : k.txn[u].kind = "call" /\ Anc(P, t, u) /\ Lost(u)}
<1>6. t \in D
  BY <1>5, AncSelf
<1>7. ASSUME NEW u \in D PROVE \E c \in D : P[c] = u /\ c # u
  <2>1. u \in Txns /\ k.txn[u].kind = "call" /\ Anc(P, t, u) /\ Lost(u)
    BY <1>7
  <2>2. t \in FailPath(u)
    BY <1>2, <1>3, <1>5, <2>1, FailPathIs
  <2>3. PICK c \in Txns : P[c] = u /\ k.txn[c].kind = "call" /\ k.txn[c].from = NoThread
    BY <1>2, <1>3, <2>1, <2>2, CallPlace
  <2>4. Anc(P, u, c) /\ Anc(P, t, c)
    <3>1. P[c] # NoTxn
      BY <2>1, <2>3, BinderAssumption
    <3>2. Anc(P, u, c)
      BY <2>3, <3>1, AncParent
    <3> QED BY <1>5, <2>1, <3>2, AncTrans
  <2>5. ASSUME NEW v \in Txns, Anc(P, v, c), ~ Anc(P, v, t)
        PROVE  k.txn[v].from = NoThread
    <3>1. CASE v = c
      BY <2>3, <3>1
    <3>2. CASE v # c
      <4>1. Anc(P, v, u)
        BY <2>3, <2>5, <3>2, AncUp
      <4> QED BY <2>1, <2>5, <4>1
    <3> QED BY <3>1, <3>2
  <2>6. c # u
    <3> SUFFICES ASSUME c = u PROVE FALSE
      OBVIOUS
    <3>1. Closed(P, {u}) /\ {u} \in SUBSET Txns /\ u \in {u}
      BY <2>1, <2>3 DEF Closed
    <3>2. t \in {u}
      BY <2>1, <3>1 DEF Anc
    <3> QED BY <1>5, <2>3, <3>2
  <2>7. c \in D
    BY <2>3, <2>4, <2>5
  <2> QED BY <2>3, <2>6, <2>7
<1>8. D \in SUBSET Txns /\ D # {}
  BY <1>6
<1> HIDE DEF D
<1> QED BY <1>4, <1>7, <1>8, Lowest

(* A caller is never left behind: from every call a live thread waits for  *)
(* the chain of calls made to serve it, whoever of them died               *)
(* (binder_free_thread leaves from and to_thread NULL), leads to one that  *)
(* is queued for or in the hands of somebody alive, and                    *)
(* binder_send_failed_reply would come from there to the caller and stop   *)
(* at nobody else.                                                         *)
THEOREM NoCallerLeftBehind == BinderSpec => []NobodyOrphaned
<1>1. ChainsInv => NobodyOrphaned
  BY ChainsNobodyOrphaned DEF ChainsInv
<1> QED BY <1>1, ChainsInit, ChainsNext, PTL DEF BinderSpec
=============================================================================
