------------------------------- MODULE Ashmem -------------------------------
(***************************************************************************)
(* Anonymous shared memory (mm/ashmem.c).  A user unpins pages it can do   *)
(* without; under memory pressure the shrinker discards unpinned ranges,   *)
(* least recently unpinned first; pinning pages again tells whether any    *)
(* of them was purged meanwhile.                                           *)
(*                                                                         *)
(* Offsets and sizes are counted in pages, a size rounded up, so that the  *)
(* largest one is AddrPages, which PAGE_ALIGN makes 0.  What ashmem_mutex  *)
(* protects is one record, ash, and whatever is done under the mutex is    *)
(* one step.                                                               *)
(***************************************************************************)
EXTENDS Integers, FiniteSets, Sequences, SequencesExt

CONSTANTS
  Areas,       \* open files of /dev/ashmem
  Sizes,       \* area -> bound: the sizes it may be set to
  AddrPages,   \* pages of the 32-bit offsets, 2^20
  SIZE_MAX,    \* the largest size_t, 2^32 - 1
  Ranges,      \* bound: the ranges of the slab ashmem_range_cache
  MaxEmpty,    \* bound: ranges without a page
  NoMemory     \* may range_alloc fail

ASSUME AshmemAssumption ==
  /\ AddrPages \in Nat \ {0} /\ MaxEmpty \in Nat
  /\ SIZE_MAX \in Nat /\ AddrPages <= SIZE_MAX
  /\ 0 \notin Areas   \* NULL
  /\ \A a \in Areas : Sizes[a] \subseteq 0 .. AddrPages
  /\ IsFiniteSet(Ranges)
  /\ NoMemory \in BOOLEAN

VARIABLES
  size, file,  \* area -> asma->size, and the size of asma->file (0: NULL)
  held,        \* area -> the sizes it has had since asma->file was set
  opened,      \* the areas that are open
  ash,         \* the ranges and the lists they are on
  call,        \* the ioctl that is not done under the mutex (bound: one)
  given,       \* area -> pages the user unpinned and has not pinned since
  discarded,   \* area -> pages discarded that no pin has asked for since
  answer       \* did the last call return ASHMEM_WAS_PURGED

ashmemVars == <<size, file, held, opened, ash, call, given, discarded, answer>>

Pages == 0 .. SIZE_MAX

(* Unsigned and signed integers of the width of size_t.                    *)
Unsigned(n) == n % (SIZE_MAX + 1)
Signed(n) ==
  IF Unsigned(n) > SIZE_MAX \div 2 THEN Unsigned(n) - (SIZE_MAX + 1)
  ELSE Unsigned(n)

PAGE_ALIGN(n) == n % AddrPages

NoCall == [asma |-> 0, cmd |-> "none", arg |-> 0]

-----------------------------------------------------------------------------
(* Ranges.  A record S = [range, unpinned, lru, lru_count] is handed from  *)
(* helper to helper; range[i] = NoRange when i is not allocated.           *)

NoRange == [asma |-> 0, pgstart |-> 0, pgend |-> 0, purged |-> FALSE]

Allocated(S) == {i \in Ranges : S.range[i] # NoRange}

range_size(r) == Unsigned(r.pgend - r.pgstart + 1)
range_on_lru(r) == ~ r.purged
page_range_subsumes_range(r, s, e) == r.pgstart >= s /\ r.pgend <= e
page_range_subsumed_by_range(r, s, e) == r.pgstart <= s /\ r.pgend >= e
page_in_range(r, p) == r.pgstart <= p /\ r.pgend >= p
page_range_in_range(r, s, e) ==
  page_in_range(r, s) \/ page_in_range(r, e)
    \/ page_range_subsumes_range(r, s, e)
range_before_page(r, p) == r.pgend < p

PagesOf(r) == r.pgstart .. r.pgend

PositionOf(list, i) == CHOOSE n \in DOMAIN list : list[n] = i

(* list_del                                                                *)
Without(list, i) == RemoveAt(list, PositionOf(list, i))

lru_add(S, i) ==
  [S EXCEPT !.lru = Append(@, i),
            !.lru_count = Unsigned(@ + range_size(S.range[i]))]

lru_del(S, i) ==
  [S EXCEPT !.lru = Without(@, i),
            !.lru_count = Unsigned(@ - range_size(S.range[i]))]

(* Mutant: list_add for list_add_tail, which puts the range after pos. *)
AllocAfter(S, a, pos, purged, s, e) ==
  LET i == CHOOSE j \in Ranges : j \notin Allocated(S)
      at == IF pos > Len(S.unpinned[a]) THEN 1 ELSE pos + 1
      T == [S EXCEPT
              !.range[i] = [asma |-> a, pgstart |-> s, pgend |-> e,
                            purged |-> purged],
              !.unpinned[a] = InsertAt(@, at, i)]
  IN  IF purged THEN T ELSE lru_add(T, i)

(* The new range goes before the position pos of the unpinned list.        *)
range_alloc(S, a, pos, purged, s, e) ==
  LET i == CHOOSE j \in Ranges : j \notin Allocated(S)
      T == [S EXCEPT
              !.range[i] = [asma |-> a, pgstart |-> s, pgend |-> e,
                            purged |-> purged],
              !.unpinned[a] = InsertAt(@, pos, i)]
  IN  IF purged THEN T ELSE lru_add(T, i)

range_del(S, i) ==
  LET r == S.range[i]
      T == IF range_on_lru(r) THEN lru_del(S, i) ELSE S
  IN  [T EXCEPT !.unpinned[r.asma] = Without(@, i), !.range[i] = NoRange]

range_shrink(S, i, s, e) ==
  LET T == [S EXCEPT !.range[i].pgstart = s, !.range[i].pgend = e] IN
  IF range_on_lru(S.range[i])
    THEN [T EXCEPT !.lru_count =
            Unsigned(@ - (range_size(S.range[i]) - range_size(T.range[i])))]
    ELSE T

-----------------------------------------------------------------------------
(* ashmem_pin: a walk over the unpinned list, highest pages first.         *)

(* Mutant: only the last range is reported. *)
PurgedNow(ret, r) == r.purged

PurgedBefore(ret, r) == ret \/ r.purged

(* The four cases: the range goes, or loses its start, or its end, or its  *)
(* middle.  fails: does range_alloc fail; its result is not looked at.     *)
CutRange(S, i, s, e, fails) ==
  LET r == S.range[i] IN
  IF page_range_subsumes_range(r, s, e) THEN range_del(S, i)
  ELSE IF r.pgstart >= s THEN range_shrink(S, i, e + 1, r.pgend)
  ELSE IF r.pgend <= e \/ fails THEN range_shrink(S, i, r.pgstart, s - 1)
  ELSE range_shrink(range_alloc(S, r.asma, PositionOf(S.unpinned[r.asma], i),
                                r.purged, e + 1, r.pgend),
                    i, r.pgstart, s - 1)

(* One range of the walk, which breaks off at the first range before the   *)
(* pages and at one that encloses them.                                    *)
PinRange(w, i, s, e, fails) ==
  LET r == w.S.range[i] IN
  IF w.done \/ range_before_page(r, s) THEN [w EXCEPT !.done = TRUE]
  ELSE IF ~ page_range_in_range(r, s, e) THEN w
  ELSE [S |-> CutRange(w.S, i, s, e, fails),
        ret |-> PurgedBefore(w.ret, r),
        done |-> r.pgstart < s /\ e < r.pgend]

ashmem_pin(a, s, e, fails) ==
  LET list == ash.unpinned[a]
      walk[n \in 0 .. Len(list)] ==
        IF n = 0 THEN [S |-> ash, ret |-> FALSE, done |-> FALSE]
        ELSE PinRange(walk[n - 1], list[n], s, e, fails)
  IN  walk[Len(list)]

-----------------------------------------------------------------------------
(* ashmem_unpin: ranges that overlap are merged into the new one.          *)

(* Mutant: the merged range counts as not purged. *)
MergeForgets(w, i) ==
  LET r == w.S.range[i] IN
  [S |-> range_del(w.S, i),
   s |-> IF r.pgstart < w.s THEN r.pgstart ELSE w.s,
   e |-> IF r.pgend > w.e THEN r.pgend ELSE w.e,
   purged |-> w.purged, done |-> FALSE]

Merge(w, i) ==
  LET r == w.S.range[i] IN
  [S |-> range_del(w.S, i),
   s |-> IF r.pgstart < w.s THEN r.pgstart ELSE w.s,
   e |-> IF r.pgend > w.e THEN r.pgend ELSE w.e,
   purged |-> w.purged \/ r.purged, done |-> FALSE]

(* The walk is over: the new range goes before the position pos.           *)
Insert(w, a, pos, fails) ==
  [w EXCEPT !.S = IF fails THEN @
                  ELSE range_alloc(@, a, pos, w.purged, w.s, w.e),
            !.done = TRUE]

(* One pass of the walk from restart, to the first range that ends it.     *)
UnpinPass(w, a, fails) ==
  LET list == w.S.unpinned[a]
      stops == {n \in DOMAIN list :
                  LET r == w.S.range[list[n]] IN
                  \/ range_before_page(r, w.s)
                  \/ page_range_in_range(r, w.s, w.e)}
      pos == Min(stops)
      r == w.S.range[list[pos]]
  IN  IF w.done THEN w
      ELSE IF stops = {} THEN Insert(w, a, Len(list) + 1, fails)
      ELSE IF range_before_page(r, w.s) THEN Insert(w, a, pos, fails)
      ELSE IF page_range_subsumed_by_range(r, w.s, w.e)
        THEN [w EXCEPT !.done = TRUE]
      ELSE Merge(w, list[pos])

ashmem_unpin(a, s, e, fails) ==
  LET walk[n \in 0 .. Len(ash.unpinned[a]) + 1] ==
        IF n = 0 THEN [S |-> ash, s |-> s, e |-> e, purged |-> FALSE,
                       done |-> FALSE]
        ELSE UnpinPass(walk[n - 1], a, fails)
  IN  walk[Len(ash.unpinned[a]) + 1]

-----------------------------------------------------------------------------
(* System calls.                                                           *)

AshmemInit ==
  /\ size = [a \in Areas |-> 0] /\ file = [a \in Areas |-> 0]
  /\ held = [a \in Areas |-> {}]
  /\ opened = {}
  /\ ash = [range |-> [i \in Ranges |-> NoRange],
            unpinned |-> [a \in Areas |-> << >>],
            lru |-> << >>, lru_count |-> 0]
  /\ call = NoCall
  /\ given = [a \in Areas |-> {}]
  /\ discarded = [a \in Areas |-> {}]
  /\ answer = FALSE

ashmem_open(a) ==
  /\ a \notin opened
  /\ opened' = opened \cup {a}
  /\ UNCHANGED <<size, file, held, ash, call, given, discarded>>
  /\ answer' = FALSE

DeleteAll(list) ==
  LET walk[n \in 0 .. Len(list)] ==
        IF n = 0 THEN ash ELSE range_del(walk[n - 1], list[n])
  IN  walk[Len(list)]

(* The last close; no ioctl of the file is under way.                      *)
ashmem_release(a) ==
  /\ a \in opened /\ call.asma # a
  /\ ash' = DeleteAll(ash.unpinned[a])
  /\ opened' = opened \ {a}
  /\ size' = [size EXCEPT ![a] = 0]
  /\ file' = [file EXCEPT ![a] = 0]
  /\ held' = [held EXCEPT ![a] = {}]
  /\ given' = [given EXCEPT ![a] = {}]
  /\ discarded' = [discarded EXCEPT ![a] = {}]
  /\ UNCHANGED <<call>> /\ answer' = FALSE

(* The first mmap makes the backing file.                                  *)
ashmem_mmap(a) ==
  /\ a \in opened
  /\ size[a] # 0 /\ file[a] = 0
  /\ file' = [file EXCEPT ![a] = size[a]]
  /\ held' = [held EXCEPT ![a] = @ \cup {size[a]}]
  /\ UNCHANGED <<size, opened, ash, call, given, discarded>> /\ answer' = FALSE

(* ASHMEM_SET_SIZE looks at asma->file and then sets the size, without the *)
(* mutex.                                                                  *)
BeginSetSize(a, n) ==
  /\ a \in opened /\ call = NoCall
  /\ file[a] = 0
  /\ call' = [asma |-> a, cmd |-> "size", arg |-> n]
  /\ UNCHANGED <<size, file, held, opened, ash, given, discarded>>
  /\ answer' = FALSE

SetSize(a) ==
  /\ call.asma = a /\ call.cmd = "size"
  /\ size' = [size EXCEPT ![a] = call.arg]
  /\ held' = [held EXCEPT ![a] = IF file[a] = 0 THEN @ ELSE @ \cup {call.arg}]
  /\ call' = NoCall
  /\ UNCHANGED <<file, opened, ash, given, discarded>> /\ answer' = FALSE

(* A length of 0 means everything onward.                                  *)
Length(offset, length, n) ==
  IF length = 0 THEN (PAGE_ALIGN(n) - offset) % AddrPages ELSE length

(* Mutant: the sum of offset and length may wrap around. *)
PinMayWrap(a, offset, length, n, m) ==
  /\ a \in opened /\ file[a] # 0
  /\ (offset + Length(offset, length, n)) % AddrPages <= PAGE_ALIGN(m)

(* The arguments of ashmem_pin_unpin that get to the mutex.  It looks at   *)
(* asma->size twice without the mutex and finds n and m; the size may be   *)
(* another by the time it has the mutex.                                   *)
PinArguments(a, offset, length, n, m) ==
  /\ a \in opened /\ file[a] # 0
  /\ offset + Length(offset, length, n) < AddrPages
  /\ offset + Length(offset, length, n) <= PAGE_ALIGN(m)

(* Nothing from offset 0 on, with a size that PAGE_ALIGN makes 0, is       *)
(* everything up to SIZE_MAX.                                              *)
pgend(offset, length, n) == Unsigned(offset + Length(offset, length, n) - 1)

(* bound: a range is left in the slab if one is needed.  The allocation    *)
(* may fail all the same.                                                  *)
Memory(needed, fails) ==
  IF fails THEN NoMemory ELSE needed => Allocated(ash) # Ranges

Unpinned(a) == {ash.range[i] : i \in Range(ash.unpinned[a])}

ASHMEM_PIN(a, offset, length, n, m, fails) ==
  LET s == offset
      e == pgend(offset, length, n)
      w == ashmem_pin(a, s, e, fails)
  IN
  /\ PinArguments(a, offset, length, n, m)
  /\ Memory(\E r \in Unpinned(a) : r.pgstart < s /\ e < r.pgend, fails)
  /\ ash' = w.S
  /\ answer' = w.ret
  /\ given' = [given EXCEPT ![a] = @ \ (s .. e)]
  /\ discarded' = [discarded EXCEPT ![a] = @ \ (s .. e)]
  /\ UNCHANGED <<size, file, held, opened, call>>

(* An unpin that fails with ENOMEM has given nothing away.                 *)
ASHMEM_UNPIN(a, offset, length, n, m, fails) ==
  LET s == offset
      e == pgend(offset, length, n)
  IN
  /\ PinArguments(a, offset, length, n, m)
  /\ Memory(\A r \in Unpinned(a) : \/ range_before_page(r, s)
                                   \/ ~ page_range_in_range(r, s, e), fails)
  /\ e < s => Cardinality({i \in Allocated(ash) :
                            PagesOf(ash.range[i]) = {}}) < MaxEmpty
  /\ ash' = ashmem_unpin(a, s, e, fails).S
  /\ given' = [given EXCEPT ![a] = IF fails THEN @ ELSE @ \cup (s .. e)]
  /\ UNCHANGED <<size, file, held, opened, call, discarded>>
  /\ answer' = FALSE

-----------------------------------------------------------------------------
(* The shrinker, called by the kernel when memory is short and by          *)
(* ASHMEM_PURGE_ALL_CACHES.                                                *)

(* One range of its walk, until w.nr, the pages still wanted, is used up.  *)
PurgeRange(w, i) ==
  LET nr == Signed(w.nr - range_size(w.S.range[i])) IN
  IF w.done THEN w
  ELSE [S |-> lru_del([w.S EXCEPT !.range[i].purged = TRUE], i),
        nr |-> nr, done |-> nr <= 0, purged |-> w.purged \cup {i}]

PurgeWalk(nr) ==
  LET walk[n \in 0 .. Len(ash.lru)] ==
        IF n = 0 THEN [S |-> ash, nr |-> nr, done |-> FALSE, purged |-> {}]
        ELSE PurgeRange(walk[n - 1], ash.lru[n])
  IN  walk[Len(ash.lru)]

(* A range up to SIZE_MAX truncates the file to its end.                   *)
ashmem_shrink(nr) ==
  LET w == PurgeWalk(nr)
      Truncated(a) == UNION {PagesOf(ash.range[i]) :
                        i \in {j \in w.purged : ash.range[j].asma = a}}
  IN
  /\ ash' = w.S
  /\ discarded' = [a \in Areas |-> discarded[a] \cup Truncated(a)]

(* bound: the kernel asks for a page or two.                               *)
Shrink(nr) ==
  /\ nr # 0
  /\ ashmem_shrink(nr)
  /\ UNCHANGED <<size, file, held, opened, call, given>> /\ answer' = FALSE

(* The number of pages is read without the mutex.                          *)
BeginPurgeAll(a) ==
  /\ a \in opened /\ call = NoCall
  /\ ash.lru_count # 0
  /\ call' = [asma |-> a, cmd |-> "purge", arg |-> Signed(ash.lru_count)]
  /\ UNCHANGED <<size, file, held, opened, ash, given, discarded>>
  /\ answer' = FALSE

PurgeAll(a) ==
  /\ call.asma = a /\ call.cmd = "purge"
  /\ ashmem_shrink(call.arg)
  /\ call' = NoCall
  /\ UNCHANGED <<size, file, held, opened, given>> /\ answer' = FALSE

-----------------------------------------------------------------------------
AshmemNext ==
  \/ \E a \in Areas :
       \/ ashmem_open(a) \/ ashmem_release(a) \/ ashmem_mmap(a)
       \/ SetSize(a) \/ BeginPurgeAll(a) \/ PurgeAll(a)
       \/ \E n \in Sizes[a] : BeginSetSize(a, n)
       \/ \E offset, length \in 0 .. AddrPages - 1, n, m \in held[a],
             fails \in {FALSE, NoMemory} :
            \/ ASHMEM_PIN(a, offset, length, n, m, fails)
            \/ ASHMEM_UNPIN(a, offset, length, n, m, fails)
  \/ \E nr \in {1, 2} : Shrink(nr)

AshmemSpec == AshmemInit /\ [][AshmemNext]_ashmemVars

-----------------------------------------------------------------------------
(* The type of the ranges.  They are inside an area of one of the sizes    *)
(* theirs has had since it was mapped, or up to SIZE_MAX if one of these   *)
(* is 0 to PAGE_ALIGN.                                                     *)
AshmemTypeOK ==
  /\ \A a \in Areas : {size[a], file[a]} \subseteq Sizes[a] \cup {0}
  /\ \A a \in Areas : held[a] \subseteq Sizes[a]
  /\ opened \subseteq Areas /\ answer \in BOOLEAN
  /\ given \in [Areas -> SUBSET Pages]
  /\ discarded \in [Areas -> SUBSET Pages]
  /\ \A i \in Allocated(ash) :
       /\ ash.range[i].asma \in opened
       /\ \A p \in PagesOf(ash.range[i]) :
            /\ p \in Pages
            /\ \E n \in held[ash.range[i].asma] :
                 p < PAGE_ALIGN(n) \/ PAGE_ALIGN(n) = 0
  /\ ash.lru_count \in 0 .. SIZE_MAX

(* The walks stop at the first range before the pages they are about, so   *)
(* an area's list must hold exactly its ranges, highest first and without  *)
(* overlap, however pins cut them and unpins merged them; and the pages    *)
(* the shrinker reports are the pages it can free: the LRU list holds the  *)
(* ranges that were not purged, each once, and lru_count their pages, as   *)
(* far as an unsigned long can (it is 0 for a list of every page there     *)
(* is).                                                                    *)
ListsExact ==
  /\ \A a \in Areas :
       LET list == ash.unpinned[a] IN
       /\ IsInjective(list)
       /\ Range(list) = {i \in Allocated(ash) : ash.range[i].asma = a}
       /\ \A m, n \in DOMAIN list :
            m < n => ash.range[list[m]].pgstart > ash.range[list[n]].pgend
  /\ IsInjective(ash.lru)
  /\ Range(ash.lru) = {i \in Allocated(ash) : range_on_lru(ash.range[i])}
  /\ ash.lru_count =
       Unsigned(Cardinality({x \in Ranges \X Pages :
                               /\ x[1] \in Range(ash.lru)
                               /\ x[2] \in PagesOf(ash.range[x[1]])}))

(* What the kernel takes for unpinned is what the user's own pins and      *)
(* unpins say: no page is forgotten and none is taken that was not given.  *)
(* A page that was discarded stays on record as purged until its user pins *)
(* it ("ashmem_pin - ... returning whether it was previously purged").     *)
OnRecord ==
  \A a \in Areas :
    LET Ranged == Range(ash.unpinned[a]) IN
    /\ given[a] = UNION {PagesOf(ash.range[i]) : i \in Ranged}
    /\ \A p \in discarded[a] :
         \E i \in Ranged : ash.range[i].purged /\ p \in PagesOf(ash.range[i])

Contract == INSTANCE AshmemPages

(* Ashmem keeps what it promises the user of an area: only unpinned pages  *)
(* are discarded, and a pin tells of it.                                   *)
KeepsPages == Contract!PagesSpec
=============================================================================
