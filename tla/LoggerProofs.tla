---------------------------- MODULE LoggerProofs ----------------------------
(***************************************************************************)
(* Proofs about Logger, for any size of the log, any lengths of entries    *)
(* and any readers.  Either there is one writer or copy_from_user does not *)
(* fail: a copy of one writer that fails takes back what another has       *)
(* written meanwhile.                                                      *)
(*                                                                         *)
(* What lies between an offset and the write head is looked at as a run, a *)
(* function from the distance to the cell there.  The lemmas about runs    *)
(* know nothing of the ring, and those about the ring nothing of entries.  *)
(***************************************************************************)
EXTENDS Logger, SequenceTheorems, FunctionTheorems, NaturalsInduction,
        WellFoundedInduction, TLAPS

Quiet == Faults => \A w, v \in Writers : w = v

Offsets == 0 .. Size - 1

Cells == [id : Nat, piece : Nat, len : Nat \ {0}]

(* What a buffer b with the write head at w holds from off on.             *)
Run(b, w, off) == [d \in 0 .. Dist(off, w) - 1 |-> b[logger_offset(off + d)]]

(* The cell at d of a run of D is a piece of an entry that is all there.   *)
CellOk(f, d, D) ==
  /\ f[d] \in Cells
  /\ f[d].id # 0 /\ f[d].len \in Lens
  /\ f[d].piece < f[d].len
  /\ f[d].piece <= d
  /\ d - f[d].piece + f[d].len <= D
  /\ \A j \in 0 .. f[d].len - 1 :
       f[d - f[d].piece + j] = [f[d] EXCEPT !.piece = j]

RiseOk(f, d, e) ==
  d < e => /\ f[d].id <= f[e].id
           /\ f[e].piece = 0 => f[d].id < f[e].id

(* The cells of a run of D are whole entries in the order they were        *)
(* written, the last of them top.                                          *)
WholeRun(f, D, top) ==
  /\ \A d \in 0 .. D - 1 : CellOk(f, d, D)
  /\ \A d, e \in 0 .. D - 1 : RiseOk(f, d, e)
  /\ D > 0 => f[D - 1].id = top

Whole(b, w, off, top) == WholeRun(Run(b, w, off), Dist(off, w), top)

(* A reader at off that has read up to the entry last: all that it will    *)
(* read is whole and new, and with nothing to read it has read the newest  *)
(* entry top or a flush has dropped it.                                    *)
ReadOk(b, w, off, top, last, dropped) ==
  /\ Whole(b, w, off, top)
  /\ off = w => top \in {last, dropped}
  /\ last <= top
  /\ \A d \in 0 .. Dist(off, w) - 1 : Run(b, w, off)[d].id > last

(* An entry of n cells can be written at w without reaching off.           *)
Safe(off, w, n) == Dist(off, w) + n < Size

LogTypes ==
  /\ buffer \in [Offsets -> Cells]
  /\ w_off \in Offsets /\ head \in Offsets
  /\ readers \in Seq(Readers)
  /\ r_off \in [Readers -> Offsets]
  /\ rd \in [Readers -> {"closed", "idle", "check", "ready", "asleep"}]
  /\ wr \in [Writers -> [at : {"idle", "lock", "walk", "copy", "wake"},
                         orig : Offsets, len : Nat]]
  /\ writes \in Nat /\ newest \in Nat /\ flushed \in Nat
  /\ seen \in [Readers -> Nat]
  /\ newest <= writes

(* Each open reader is on the list once.                                   *)
ListOk ==
  /\ \A i, j \in 1 .. Len(readers) : readers[i] = readers[j] => i = j
  /\ \A r \in Readers : rd[r] = "closed" <=> r \notin Range(readers)

(* A new reader starts at the head and has read nothing.                   *)
HeadOk == ReadOk(buffer, w_off, head, newest, 0, flushed)

ReadersOk ==
  \A r \in Range(readers) :
    ReadOk(buffer, w_off, r_off[r], newest, seen[r], flushed)

(* log->mutex keeps writers apart.                                         *)
OneAtWork ==
  \A w, v \in Writers :
    wr[w].at \in {"walk", "copy"} /\ wr[v].at \in {"walk", "copy"} => w = v

(* What fix_up_readers has passed is out of the writer's way.              *)
WriterOk(w) ==
  /\ wr[w].at \in {"lock", "walk", "copy"} =>
       wr[w].len \in Lens /\ (Faults => wr[w].orig = w_off)
  /\ wr[w].at \in {"walk", "copy"} => Safe(head, w_off, wr[w].len)
  /\ wr[w].at = "copy" =>
       \A r \in Range(readers) : Safe(r_off[r], w_off, wr[w].len)
  /\ wr[w].at = "walk" =>
       \A i, j \in 1 .. Len(readers) :
         readers[j] = cursor /\ i < j =>
           Safe(r_off[readers[i]], w_off, wr[w].len)

WritersOk == OneAtWork /\ \A w \in Writers : WriterOk(w)

LogInv == LogTypes /\ ListOk /\ HeadOk /\ ReadersOk /\ WritersOk


-----------------------------------------------------------------------------
(* Runs.                                                                   *)

LEMMA RunIs ==
  ASSUME NEW f, NEW D \in Nat, NEW top,
         \A d \in 0 .. D - 1 : CellOk(f, d, D),
         \A d, e \in 0 .. D - 1 : RiseOk(f, d, e),
         D > 0 => f[D - 1].id = top
  PROVE  WholeRun(f, D, top)
BY DEF WholeRun

(* The cells of one entry, the first of it and the one behind it.          *)
LEMMA EntryOf ==
  ASSUME NEW f, NEW D \in Nat, NEW top, WholeRun(f, D, top),
         NEW d \in 0 .. D - 1
  PROVE  /\ f[d] \in Cells /\ f[d].len \in Nat \ {0} /\ f[d].piece \in 0 .. d
         /\ f[d - f[d].piece].piece = 0
         /\ f[d - f[d].piece].len = f[d].len
         /\ d - f[d].piece + f[d].len \in d + 1 .. D
         /\ d - f[d].piece + f[d].len < D =>
              f[d - f[d].piece + f[d].len].piece = 0
<1> DEFINE b == d - f[d].piece
           e == b + f[d].len
<1>1. /\ f[d] \in Cells /\ f[d].piece < f[d].len
      /\ f[d].piece <= d /\ e <= D
      /\ \A j \in 0 .. f[d].len - 1 : f[b + j] = [f[d] EXCEPT !.piece = j]
  BY DEF WholeRun, CellOk
<1>2. /\ f[d].piece \in Nat /\ f[d].len \in Nat \ {0} /\ f[d].id \in Nat
      /\ b \in 0 .. d /\ e \in d + 1 .. D
  BY <1>1 DEF Cells
<1>3. /\ f[b] = [f[d] EXCEPT !.piece = 0]
      /\ f[e - 1] = [f[d] EXCEPT !.piece = f[d].len - 1]
  <2>1. b + 0 = b /\ b + (f[d].len - 1) = e - 1
    BY <1>2
  <2>2. 0 \in 0 .. f[d].len - 1 /\ f[d].len - 1 \in 0 .. f[d].len - 1
    BY <1>2
  <2> QED BY <1>1, <2>1, <2>2
<1>4. f[b].piece = 0 /\ f[b].len = f[d].len
  BY <1>1, <1>3 DEF Cells
<1>5. f[e - 1].piece = f[d].len - 1 /\ f[e - 1].len = f[d].len
  BY <1>1, <1>3 DEF Cells
<1>6. ASSUME e < D
      PROVE  f[e].piece = 0
  <2>1. e \in 0 .. D - 1
    BY <1>2, <1>6
  <2> DEFINE p == f[e].piece
             k == e - p
  <2>2. /\ f[e] \in Cells /\ p < f[e].len /\ p <= e
        /\ \A j \in 0 .. f[e].len - 1 : f[k + j] = [f[e] EXCEPT !.piece = j]
    BY <2>1 DEF WholeRun, CellOk
  <2>3. p \in Nat /\ f[e].len \in Nat /\ p < f[e].len
    BY <2>2 DEF Cells
  <2>4. ASSUME p # 0
        PROVE  FALSE
    <3>1. p - 1 \in 0 .. f[e].len - 1 /\ k + (p - 1) = e - 1
      BY <1>2, <2>2, <2>3, <2>4
    <3>2. f[e - 1] = [f[e] EXCEPT !.piece = p - 1]
      BY <2>2, <3>1
    <3>3. f[e - 1].piece = p - 1 /\ f[e - 1].len = f[e].len
      BY <2>2, <3>2 DEF Cells
    <3>4. PICK x \in Nat, y \in Nat, z \in Nat :
            x = p /\ y = f[d].len /\ z = f[e].len
      BY <1>2, <2>3
    <3>5. x < z /\ z = y /\ x - 1 = y - 1
      BY <1>5, <2>3, <3>3, <3>4
    <3> QED BY <3>5
  <2> QED BY <2>4
<1> QED BY <1>1, <1>2, <1>4, <1>6

(* The entries have risen up to the last.                                  *)
LEMMA TopOf ==
  ASSUME NEW f, NEW D \in Nat, NEW top \in Nat, WholeRun(f, D, top),
         NEW d \in 0 .. D - 1
  PROVE  f[d].id \in Nat /\ f[d].id <= top
<1>1. D - 1 \in 0 .. D - 1 /\ (d = D - 1 \/ d < D - 1)
  OBVIOUS
<1>2. f[d] \in Cells /\ f[D - 1].id = top
  BY <1>1 DEF WholeRun, CellOk
<1>3. d < D - 1 => f[d].id <= f[D - 1].id
  BY <1>1 DEF WholeRun, RiseOk
<1> QED BY <1>1, <1>2, <1>3 DEF Cells

(* What is left of a run from the beginning of an entry on is a run.       *)
LEMMA RunDrop ==
  ASSUME NEW f, NEW D \in Nat, NEW top, WholeRun(f, D, top),
         NEW n \in 0 .. D, n < D => f[n].piece = 0,
         NEW g, \A d \in 0 .. D - n - 1 : g[d] = f[n + d]
  PROVE  WholeRun(g, D - n, top)
<1>1. ASSUME NEW d \in 0 .. D - n - 1
      PROVE  CellOk(g, d, D - n)
  <2>1. PICK x \in 0 .. D - 1 : x = n + d
    OBVIOUS
  <2> DEFINE c == f[x]
             b == x - c.piece
  <2>2. /\ c \in Cells /\ c.id # 0 /\ c.len \in Lens /\ c.piece < c.len
        /\ c.piece <= x /\ b + c.len <= D
        /\ \A j \in 0 .. c.len - 1 : f[b + j] = [c EXCEPT !.piece = j]
    BY DEF WholeRun, CellOk
  <2>3. c.piece \in Nat /\ c.len \in Nat
    BY <2>2 DEF Cells
  <2>4. c.piece <= d
    <3>1. SUFFICES ASSUME c.piece > d
                   PROVE  FALSE
      BY <2>3
    <3>2. c.piece - d \in 0 .. c.len - 1 /\ b + (c.piece - d) = n
      BY <2>1, <2>2, <2>3, <3>1
    <3>3. f[n] = [c EXCEPT !.piece = c.piece - d]
      BY <2>2, <3>2
    <3>4. f[n].piece = c.piece - d
      BY <2>2, <3>3 DEF Cells
    <3> QED BY <2>1, <2>3, <3>1, <3>4
  <2>5. ASSUME NEW j \in 0 .. c.len - 1
        PROVE  g[d - c.piece + j] = [c EXCEPT !.piece = j]
    <3>1. d - c.piece + j \in 0 .. D - n - 1 /\ n + (d - c.piece + j) = b + j
      BY <2>1, <2>2, <2>3, <2>4
    <3> QED BY <2>2, <3>1
  <2>6. d - c.piece + c.len <= D - n
    BY <2>1, <2>2, <2>3, <2>4
  <2>7. g[d] = c
    BY <2>1
  <2> QED BY <2>2, <2>4, <2>5, <2>6, <2>7 DEF CellOk
<1>2. ASSUME NEW d \in 0 .. D - n - 1, NEW e \in 0 .. D - n - 1
      PROVE  RiseOk(g, d, e)
  <2>1. /\ n + d \in 0 .. D - 1 /\ n + e \in 0 .. D - 1
        /\ d < e <=> n + d < n + e
        /\ g[d] = f[n + d] /\ g[e] = f[n + e]
    OBVIOUS
  <2>2. RiseOk(f, n + d, n + e)
    BY <2>1 DEF WholeRun
  <2> QED BY <2>1, <2>2 DEF RiseOk
<1>3. ASSUME D - n > 0
      PROVE  g[D - n - 1].id = top
  <2>1. D - n - 1 \in 0 .. D - n - 1 /\ n + (D - n - 1) = D - 1 /\ D > 0
    BY <1>3
  <2> QED BY <2>1 DEF WholeRun
<1> QED BY <1>1, <1>2, <1>3 DEF WholeRun

(* The run g is the run f with the entry i of n cells behind it.           *)
Extended(f, D, n, i, g) ==
  /\ \A d \in 0 .. D - 1 : g[d] = f[d]
  /\ \A d \in D .. D + n - 1 : g[d] = [id |-> i, piece |-> d - D, len |-> n]

(* A run with one more entry is a run.                                     *)
LEMMA RunExtend ==
  ASSUME NEW f, NEW D \in Nat, NEW top \in Nat, WholeRun(f, D, top),
         NEW n \in Lens, NEW i \in Nat, top < i,
         NEW g, Extended(f, D, n, i, g)
  PROVE  WholeRun(g, D + n, i)
<1>0. n \in Nat \ {0}
  BY LoggerAssumption
<1>E. PICK E \in Nat : E = D + n
  BY <1>0
<1>e. /\ \A d \in 0 .. D - 1 : g[d] = f[d]
      /\ \A d \in D .. D + n - 1 :
           g[d] = [id |-> i, piece |-> d - D, len |-> n]
  BY DEF Extended
<1>1. ASSUME NEW d \in 0 .. E - 1
      PROVE  CellOk(g, d, E)
  <2>1. CASE d < D
    <3> DEFINE c == f[d]
               b == d - c.piece
    <3>1. d \in 0 .. D - 1 /\ g[d] = c
      BY <1>0, <1>E, <2>1, <1>e
    <3>2. /\ c \in Cells /\ c.id # 0 /\ c.len \in Lens /\ c.piece < c.len
          /\ c.piece <= d /\ b + c.len <= D
          /\ \A j \in 0 .. c.len - 1 : f[b + j] = [c EXCEPT !.piece = j]
      <4>1. CellOk(f, d, D)
        BY <3>1 DEF WholeRun
      <4> QED BY <4>1 DEF CellOk
    <3>3. c.piece \in Nat /\ c.len \in Nat
      BY <3>2 DEF Cells
    <3>4. ASSUME NEW j \in 0 .. c.len - 1
          PROVE  g[b + j] = [c EXCEPT !.piece = j]
      <4>1. b + j \in 0 .. D - 1
        BY <3>1, <3>2, <3>3
      <4> QED BY <3>2, <4>1, <1>e
    <3>5. b + c.len <= E
      BY <1>0, <1>E, <3>1, <3>2, <3>3
    <3> QED BY <3>1, <3>2, <3>4, <3>5 DEF CellOk
  <2>2. CASE D <= d
    <3>1. /\ d \in D .. D + n - 1
          /\ g[d] = [id |-> i, piece |-> d - D, len |-> n]
      BY <1>0, <1>E, <2>2, <1>e
    <3>2. ASSUME NEW j \in 0 .. n - 1
          PROVE  g[d - (d - D) + j] = [id |-> i, piece |-> j, len |-> n]
      <4>1. /\ d - (d - D) + j \in D .. D + n - 1
            /\ d - (d - D) + j - D = j
        BY <1>0, <1>E, <3>1
      <4> QED BY <4>1, <1>e
    <3>3. g[d].id = i /\ g[d].piece = d - D /\ g[d].len = n /\ g[d] \in Cells
      BY <1>0, <1>E, <3>1 DEF Cells
    <3>4. \A j \in 0 .. n - 1 :
            [g[d] EXCEPT !.piece = j] = [id |-> i, piece |-> j, len |-> n]
      BY <3>1
    <3>5. i # 0 /\ d - D < n /\ d - D <= d /\ d - (d - D) + n <= E
      BY <1>0, <1>E, <3>1
    <3>6. ASSUME NEW j \in 0 .. g[d].len - 1
          PROVE  g[d - g[d].piece + j] = [g[d] EXCEPT !.piece = j]
      <4>1. j \in 0 .. n - 1
        BY <3>3
      <4>2. /\ g[d - (d - D) + j] = [id |-> i, piece |-> j, len |-> n]
            /\ [g[d] EXCEPT !.piece = j] = [id |-> i, piece |-> j, len |-> n]
        BY <3>2, <3>4, <4>1
      <4> QED BY <3>3, <4>2
    <3> QED BY <3>3, <3>5, <3>6 DEF CellOk
  <2> QED BY <1>0, <1>E, <2>1, <2>2
<1>2. ASSUME NEW d \in 0 .. E - 1, NEW e \in 0 .. E - 1
      PROVE  RiseOk(g, d, e)
  <2>1. CASE ~ (d < e)
    BY <2>1 DEF RiseOk
  <2>2. CASE d < e /\ e < D
    <3>1. /\ d \in 0 .. D - 1 /\ e \in 0 .. D - 1
          /\ g[d] = f[d] /\ g[e] = f[e]
      BY <1>0, <1>E, <2>2, <1>e
    <3> QED BY <3>1 DEF WholeRun, RiseOk
  <2>3. CASE d < D /\ D <= e
    <3>1. /\ d \in 0 .. D - 1 /\ g[d] = f[d]
          /\ g[e] = [id |-> i, piece |-> e - D, len |-> n]
      BY <1>0, <1>E, <2>3, <1>e
    <3>2. f[d].id \in Nat /\ f[d].id <= top
      BY <3>1, TopOf
    <3>3. g[d].id < g[e].id
      BY <3>1, <3>2
    <3> QED BY <3>1, <3>2, <3>3 DEF RiseOk
  <2>4. CASE d < e /\ D <= d
    <3>1. /\ g[d] = [id |-> i, piece |-> d - D, len |-> n]
          /\ g[e] = [id |-> i, piece |-> e - D, len |-> n]
      BY <1>0, <1>E, <2>4, <1>e
    <3>2. g[d].id = i /\ g[e].id = i /\ g[e].piece = e - D /\ e - D # 0
      BY <1>0, <1>E, <2>4, <3>1
    <3> QED BY <3>2 DEF RiseOk
  <2> QED BY <1>0, <1>E, <2>1, <2>2, <2>3, <2>4
<1>3. g[E - 1].id = i
  <2>1. PICK x \in D .. D + n - 1 : x = E - 1
    BY <1>0, <1>E, <1>E
  <2>2. g[x] = [id |-> i, piece |-> x - D, len |-> n]
    BY <1>e
  <2> QED BY <2>1, <2>2
<1>4. WholeRun(g, E, i)
  BY <1>1, <1>2, <1>3, RunIs
<1> QED BY <1>4, <1>E


-----------------------------------------------------------------------------
(* The ring.                                                               *)

LEMMA ModIs ==
  ASSUME NEW B \in Nat \ {0}, NEW q \in Int, NEW r \in 0 .. B - 1
  PROVE  (q * B + r) % B = r
OBVIOUS

LEMMA OffsetIs ==
  ASSUME NEW n \in 0 .. 2 * Size - 1
  PROVE  /\ n < Size => logger_offset(n) = n
         /\ n >= Size => logger_offset(n) = n - Size
         /\ logger_offset(n) \in Offsets
<1>1. Size \in Nat \ {0}
  BY LoggerAssumption
<1>2. n = 0 * Size + n /\ n = 1 * Size + (n - Size)
  BY <1>1
<1>3. n % Size = IF n < Size THEN n ELSE n - Size
  BY <1>1, <1>2, ModIs
<1> QED BY <1>1, <1>3 DEF logger_offset, Offsets

LEMMA SumIs ==
  ASSUME NEW a \in Offsets, NEW n \in 0 .. Size - 1
  PROVE  /\ a + n < Size => logger_offset(a + n) = a + n
         /\ a + n >= Size => logger_offset(a + n) = a + n - Size
         /\ logger_offset(a + n) \in Offsets
<1>1. PICK x \in 0 .. 2 * Size - 1 : x = a + n
  BY LoggerAssumption DEF Offsets
<1>2. /\ x < Size => logger_offset(x) = x
      /\ x >= Size => logger_offset(x) = x - Size
      /\ logger_offset(x) \in Offsets
  BY OffsetIs
<1>3. PICK y \in Offsets : y = logger_offset(x)
  BY <1>2
<1>4. y = logger_offset(a + n)
  BY <1>1, <1>3
<1>5. (x < Size => y = x) /\ (x >= Size => y = x - Size)
  BY <1>2, <1>3
<1>6. (a + n < Size => y = a + n) /\ (a + n >= Size => y = a + n - Size)
  BY <1>1, <1>5, LoggerAssumption DEF Offsets
<1> QED BY <1>4, <1>6

LEMMA DistIs ==
  ASSUME NEW a \in Offsets, NEW b \in Offsets
  PROVE  /\ a <= b => Dist(a, b) = b - a
         /\ a > b => Dist(a, b) = b - a + Size
         /\ Dist(a, b) \in Offsets
<1>1. Size \in Nat \ {0} /\ b + Size - a \in 0 .. 2 * Size - 1
  BY LoggerAssumption DEF Offsets
<1>2. Dist(a, b) = logger_offset(b + Size - a)
  BY DEF Dist, logger_offset
<1>3. PICK n \in 0 .. 2 * Size - 1 : n = b + Size - a
  BY <1>1
<1>4. /\ n < Size => logger_offset(n) = n
      /\ n >= Size => logger_offset(n) = n - Size
  BY OffsetIs
<1>5. Dist(a, b) = logger_offset(n)
  BY <1>2, <1>3
<1> QED BY <1>1, <1>3, <1>4, <1>5 DEF Offsets

(* An offset that moves n towards w.                                       *)
LEMMA Moved ==
  ASSUME NEW a \in Offsets, NEW w \in Offsets, NEW n \in 0 .. Dist(a, w)
  PROVE  /\ logger_offset(a + n) \in Offsets
         /\ Dist(logger_offset(a + n), w) = Dist(a, w) - n
         /\ \A d \in 0 .. Dist(a, w) - n :
              logger_offset(logger_offset(a + n) + d) = logger_offset(a + (n + d))
<1>1. Size \in Nat \ {0}
  BY LoggerAssumption
<1>2. PICK D \in Offsets : D = Dist(a, w)
  BY DistIs
<1>n. n \in 0 .. Size - 1
  BY <1>1, <1>2 DEF Offsets
<1>3. PICK q \in Offsets : q = logger_offset(a + n)
  BY <1>n, SumIs
<1>4. /\ a <= w => D = w - a
      /\ a > w => D = w - a + Size
      /\ a + n < Size => q = a + n
      /\ a + n >= Size => q = a + n - Size
      /\ q <= w => Dist(q, w) = w - q
      /\ q > w => Dist(q, w) = w - q + Size
  <2>1. /\ a + n < Size => q = a + n
        /\ a + n >= Size => q = a + n - Size
    BY <1>n, <1>3, SumIs
  <2>2. /\ a <= w => D = w - a
        /\ a > w => D = w - a + Size
    BY <1>2, DistIs
  <2>3. /\ q <= w => Dist(q, w) = w - q
        /\ q > w => Dist(q, w) = w - q + Size
    BY DistIs
  <2> QED BY <2>1, <2>2, <2>3
<1>5. Dist(q, w) = D - n
  BY <1>1, <1>2, <1>4 DEF Offsets
<1>6. ASSUME NEW d \in 0 .. D - n
      PROVE  logger_offset(q + d) = logger_offset(a + (n + d))
  <2>1. q + d \in 0 .. 2 * Size - 1 /\ a + (n + d) \in 0 .. 2 * Size - 1
    BY <1>1, <1>2 DEF Offsets
  <2>2. PICK x \in 0 .. 2 * Size - 1, y \in 0 .. 2 * Size - 1 :
               x = q + d /\ y = a + (n + d)
    BY <2>1
  <2>3. /\ x < Size => logger_offset(x) = x
        /\ x >= Size => logger_offset(x) = x - Size
        /\ y < Size => logger_offset(y) = y
        /\ y >= Size => logger_offset(y) = y - Size
    BY OffsetIs
  <2>4. x = y \/ (x < Size /\ y = x + Size)
    BY <1>1, <1>2, <1>4, <2>2 DEF Offsets
  <2>5. logger_offset(x) = logger_offset(y)
    BY <1>1, <2>3, <2>4
  <2> QED BY <2>2, <2>5
<1> QED BY <1>2, <1>3, <1>5, <1>6

(* The write head moves n on, and does not come to a; the cells before it  *)
(* stay as far from it as they were, and the cells of the entry are the    *)
(* next n.                                                                 *)
LEMMA Advanced ==
  ASSUME NEW a \in Offsets, NEW w \in Offsets, NEW n \in Nat,
         Dist(a, w) + n < Size
  PROVE  /\ logger_offset(w + n) \in Offsets
         /\ Dist(a, logger_offset(w + n)) = Dist(a, w) + n
         /\ \A d \in 0 .. Dist(a, w) + n - 1 :
              /\ logger_offset(a + d) \in Offsets
              /\ d < Dist(a, w) => Dist(w, logger_offset(a + d)) >= n
              /\ d >= Dist(a, w) => Dist(w, logger_offset(a + d)) = d - Dist(a, w)
<1>1. Size \in Nat \ {0}
  BY LoggerAssumption
<1>2. PICK D \in Offsets : D = Dist(a, w)
  BY DistIs
<1>3. (a <= w => D = w - a) /\ (a > w => D = w - a + Size)
  BY <1>2, DistIs
<1>4. n \in 0 .. Size - 1
  BY <1>1, <1>2 DEF Offsets
<1>5. PICK v \in Offsets : v = logger_offset(w + n)
  BY <1>4, SumIs
<1>6. /\ w + n < Size => v = w + n
      /\ w + n >= Size => v = w + n - Size
      /\ a <= v => Dist(a, v) = v - a
      /\ a > v => Dist(a, v) = v - a + Size
  <2>1. /\ a <= v => Dist(a, v) = v - a
        /\ a > v => Dist(a, v) = v - a + Size
    BY DistIs
  <2> QED BY <1>4, <1>5, <2>1, SumIs
<1>7. Dist(a, v) = D + n
  BY <1>1, <1>2, <1>3, <1>6 DEF Offsets
<1>8. ASSUME NEW d \in 0 .. D + n - 1
      PROVE  /\ logger_offset(a + d) \in Offsets
             /\ d < D => Dist(w, logger_offset(a + d)) >= n
             /\ d >= D => Dist(w, logger_offset(a + d)) = d - D
  <2>1. d \in 0 .. Size - 1
    BY <1>1, <1>2 DEF Offsets
  <2>2. PICK o \in Offsets : o = logger_offset(a + d)
    BY <2>1, SumIs
  <2>3. /\ a + d < Size => o = a + d
        /\ a + d >= Size => o = a + d - Size
        /\ w <= o => Dist(w, o) = o - w
        /\ w > o => Dist(w, o) = o - w + Size
    <3>1. /\ w <= o => Dist(w, o) = o - w
          /\ w > o => Dist(w, o) = o - w + Size
      BY DistIs
    <3> QED BY <2>1, <2>2, <3>1, SumIs
  <2>4. d < D => Dist(w, o) >= n
    BY <1>1, <1>2, <1>3, <2>3 DEF Offsets
  <2>5. ASSUME d >= D
        PROVE  Dist(w, o) = d - D
    <3>1. CASE a <= w
      BY <1>1, <1>2, <1>3, <2>3, <2>5, <3>1 DEF Offsets
    <3>2. CASE a > w
      BY <1>1, <1>2, <1>3, <2>3, <2>5, <3>2 DEF Offsets
    <3> QED BY <3>1, <3>2 DEF Offsets
  <2> QED BY <2>2, <2>4, <2>5
<1> QED BY <1>2, <1>5, <1>7, <1>8

(* clock_interval tells whether the next n cells reach past a.             *)
LEMMA Crossed ==
  ASSUME NEW a \in Offsets, NEW w \in Offsets, NEW n \in 1 .. Size - 1
  PROVE  clock_interval(w, logger_offset(w + n), a)
           <=> Dist(a, w) # 0 /\ Dist(a, w) + n >= Size
<1>1. Size \in Nat \ {0}
  BY LoggerAssumption
<1>2. PICK D \in Offsets : D = Dist(a, w)
  BY DistIs
<1>3. (a <= w => D = w - a) /\ (a > w => D = w - a + Size)
  BY <1>2, DistIs
<1>4. n \in 0 .. Size - 1
  BY <1>1, <1>2 DEF Offsets
<1>5. PICK v \in Offsets : v = logger_offset(w + n)
  BY <1>4, SumIs
<1>6. /\ w + n < Size => v = w + n
      /\ w + n >= Size => v = w + n - Size
  BY <1>4, <1>5, SumIs
<1>7. clock_interval(w, v, a) <=> D # 0 /\ D + n >= Size
  BY <1>1, <1>2, <1>3, <1>6 DEF Offsets, clock_interval
<1> QED BY <1>2, <1>5, <1>7


-----------------------------------------------------------------------------
(* Pulling forward.                                                        *)

(* A set of natural numbers has a smallest element.                        *)
LEMMA SmallestOf ==
  ASSUME NEW T \in SUBSET Nat, T # {}
  PROVE  \E d \in T : \A e \in T : d <= e
<1> DEFINE Less == OpToRel(<, Nat)
<1>1. IsWellFoundedOn(Less, Nat)
  BY NatLessThanWellFounded
<1>2. \A i, j \in Nat : i < j => <<i, j>> \in Less
  BY DEF OpToRel
<1> HIDE DEF Less
<1>3. PICK d \in T : \A e \in T : ~ (<<e, d>> \in Less)
  BY <1>1, WFMin
<1>4. \A e \in T : ~ (e < d)
  BY <1>2, <1>3
<1> QED BY <1>4

(* A walk that starts at 0 and goes up while it is below n gets to n: it   *)
(* ends, since the least closed set has a largest element.                 *)
LEMMA WalkEnds ==
  ASSUME NEW n \in Nat \ {0}, NEW B, NEW C \in SUBSET (0 .. n - 1), 0 \in C,
         \A m \in C : B[m] \in Nat /\ B[m] > m,
         \A m \in C : B[m] < n => B[m] \in C
  PROVE  \E m \in C : B[m] >= n
<1> DEFINE T == {n - m : m \in C}
<1>1. T \in SUBSET Nat /\ T # {}
  OBVIOUS
<1> HIDE DEF T
<1>2. PICK d \in T : \A e \in T : d <= e
  BY <1>1, SmallestOf
<1>3. PICK m \in C : d = n - m
  BY <1>2 DEF T
<1>4. ASSUME B[m] < n
      PROVE  FALSE
  <2>1. n - B[m] \in T
    BY <1>4 DEF T
  <2>2. B[m] \in Nat /\ B[m] > m
    OBVIOUS
  <2> QED BY <1>2, <1>3, <2>1, <2>2
<1> QED BY <1>4

(* get_next_entry finds the beginning of an entry, at least n cells on and *)
(* before the write head.                                                  *)
LEMMA NextEntry ==
  ASSUME NEW off \in Offsets, w_off \in Offsets, NEW n \in Lens,
         Whole(buffer, w_off, off, newest), Dist(off, w_off) + n >= Size
  PROVE  \E k \in n .. Dist(off, w_off) - 1 :
           /\ get_next_entry(off, n) = logger_offset(off + k)
           /\ Run(buffer, w_off, off)[k].piece = 0
<1> DEFINE Behind(m) == m + get_entry_len(logger_offset(off + m))
           Closed(S) == 0 \in S /\ \A m \in S : Behind(m) < n => Behind(m) \in S
           counts == {m \in 0 .. n - 1 :
                        \A S \in SUBSET (0 .. n - 1) : Closed(S) => m \in S}
<1>0. /\ Size \in Nat \ {0} /\ n \in Nat \ {0} /\ 4 * n <= Size
      /\ \A l \in Lens : l \in Nat \ {0} /\ 4 * l <= Size
  BY LoggerAssumption
<1>1. PICK D \in Offsets : D = Dist(off, w_off)
  BY DistIs
<1>2. D \in Nat /\ D + n >= Size /\ n < D
  BY <1>0, <1>1 DEF Offsets
<1>3. PICK f : f = Run(buffer, w_off, off)
  OBVIOUS
<1>4. WholeRun(f, D, newest)
  BY <1>1, <1>3 DEF Whole
<1>5. ASSUME NEW m \in 0 .. D - 1
      PROVE  Behind(m) = m + f[m].len
  BY <1>1, <1>3 DEF Run, get_entry_len
<1> HIDE DEF Behind
<1>6. ASSUME NEW m \in 0 .. n - 1, f[m].piece = 0
      PROVE  /\ Behind(m) \in m + 1 .. D - 1
             /\ f[Behind(m)].piece = 0
  <2>1. m \in 0 .. D - 1
    BY <1>0, <1>2
  <2>2. /\ f[m].len \in Nat
        /\ m - f[m].piece + f[m].len \in m + 1 .. D
        /\ m - f[m].piece + f[m].len < D =>
             f[m - f[m].piece + f[m].len].piece = 0
    BY <1>2, <1>4, <2>1, EntryOf
  <2>3. f[m].len \in Lens
    BY <1>4, <2>1 DEF WholeRun, CellOk
  <2>4. PICK b \in m + 1 .. D :
               /\ b = m + f[m].len
               /\ b < D => f[b].piece = 0
    BY <1>6, <2>2
  <2>5. 4 * f[m].len <= Size
    BY <1>0, <2>3
  <2>6. b < D
    BY <1>0, <1>2, <2>2, <2>4, <2>5
  <2>7. Behind(m) = b
    BY <1>5, <2>1, <2>4
  <2>8. b \in m + 1 .. D - 1 /\ f[b].piece = 0
    BY <1>2, <2>4, <2>6
  <2> QED BY <2>7, <2>8
<1>7. \A m \in counts : m \in 0 .. n - 1 /\ f[m].piece = 0
  <2> DEFINE S == {m \in 0 .. n - 1 : f[m].piece = 0}
  <2>1. 0 \in S
    <3>1. 0 \in 0 .. D - 1 /\ 0 \in 0 .. n - 1
      BY <1>0, <1>2
    <3>2. f[0].piece \in 0 .. 0
      BY <1>2, <1>4, <3>1, EntryOf
    <3> QED BY <3>1, <3>2
  <2>2. ASSUME NEW m \in S, Behind(m) < n
        PROVE  Behind(m) \in S
    <3>1. m \in 0 .. n - 1 /\ f[m].piece = 0
      OBVIOUS
    <3>2. Behind(m) \in m + 1 .. D - 1 /\ f[Behind(m)].piece = 0
      BY <1>6, <3>1
    <3>3. Behind(m) \in 0 .. n - 1
      BY <1>0, <1>2, <2>2, <3>1, <3>2
    <3> QED BY <3>2, <3>3
  <2>3. S \in SUBSET (0 .. n - 1) /\ Closed(S)
    BY <2>1, <2>2
  <2> QED BY <2>3
<1>8. counts \in SUBSET (0 .. n - 1) /\ 0 \in counts
  BY <1>0
<1>9. ASSUME NEW m \in counts, Behind(m) < n
      PROVE  Behind(m) \in counts
  <2>1. Behind(m) \in 0 .. n - 1
    <3>1. m \in 0 .. n - 1 /\ f[m].piece = 0
      BY <1>7
    <3>2. Behind(m) \in m + 1 .. D - 1
      BY <1>6, <3>1
    <3> QED BY <1>0, <1>2, <1>9, <3>1, <3>2
  <2>2. ASSUME NEW S \in SUBSET (0 .. n - 1), Closed(S)
        PROVE  Behind(m) \in S
    <3>1. m \in S
      BY <2>2
    <3> QED BY <1>9, <2>2, <3>1
  <2> QED BY <2>1, <2>2
<1> HIDE DEF counts
<1>10. \E m \in counts : Behind(m) >= n
  <2> DEFINE B == [m \in counts |-> Behind(m)]
  <2>1. \A m \in counts : B[m] = Behind(m)
    OBVIOUS
  <2> HIDE DEF B
  <2>2. \A m \in counts : B[m] \in Nat /\ B[m] > m
    BY <1>2, <1>6, <1>7, <2>1
  <2>3. \A m \in counts : B[m] < n => B[m] \in counts
    BY <1>9, <2>1
  <2>4. \E m \in counts : B[m] >= n
    BY <1>0, <1>8, <2>2, <2>3, WalkEnds
  <2> QED BY <2>1, <2>4
<1>11. PICK c \in counts : c = CHOOSE m \in counts : Behind(m) >= n
  BY <1>10
<1>12. Behind(c) >= n
  BY <1>10, <1>11
<1>13. get_next_entry(off, n) = logger_offset(off + Behind(c))
  BY <1>11 DEF get_next_entry, counts, Behind
<1>14. PICK k \in n .. D - 1 : k = Behind(c) /\ f[k].piece = 0
  BY <1>0, <1>2, <1>6, <1>7, <1>12
<1>15. get_next_entry(off, n) = logger_offset(off + k)
  BY <1>13, <1>14
<1> QED BY <1>1, <1>3, <1>14, <1>15


(* What is left behind the beginning of an entry.                          *)
LEMMA WholeMoved ==
  ASSUME NEW b, NEW w \in Offsets, NEW off \in Offsets, NEW top,
         Whole(b, w, off, top), NEW k \in 0 .. Dist(off, w),
         k < Dist(off, w) => Run(b, w, off)[k].piece = 0,
         NEW q, q = logger_offset(off + k)
  PROVE  /\ q \in Offsets /\ Whole(b, w, q, top)
         /\ Dist(q, w) = Dist(off, w) - k
         /\ \A d \in 0 .. Dist(q, w) - 1 :
              /\ k + d \in 0 .. Dist(off, w) - 1
              /\ Run(b, w, q)[d] = Run(b, w, off)[k + d]
<1>1. PICK D \in Offsets : D = Dist(off, w)
  BY DistIs
<1>2. D \in Nat /\ k \in 0 .. D
  BY <1>1, LoggerAssumption DEF Offsets
<1>3. /\ q \in Offsets /\ Dist(q, w) = D - k
      /\ \A d \in 0 .. D - k :
           logger_offset(q + d) = logger_offset(off + (k + d))
  BY <1>1, Moved
<1>4. PICK f : f = Run(b, w, off)
  OBVIOUS
<1>5. PICK g : g = Run(b, w, q)
  OBVIOUS
<1>6. ASSUME NEW d \in 0 .. D - k - 1
      PROVE  k + d \in 0 .. D - 1 /\ g[d] = f[k + d]
  <2>1. k + d \in 0 .. D - 1 /\ d \in 0 .. D - k
    BY <1>2
  <2>2. f[k + d] = b[logger_offset(off + (k + d))]
    BY <1>1, <1>4, <2>1 DEF Run
  <2>3. g[d] = b[logger_offset(q + d)]
    BY <1>3, <1>5 DEF Run
  <2> QED BY <1>3, <2>1, <2>2, <2>3
<1>7. WholeRun(f, D, top)
  BY <1>1, <1>4 DEF Whole
<1>8. WholeRun(g, D - k, top)
  BY <1>1, <1>2, <1>4, <1>6, <1>7, RunDrop
<1>9. Whole(b, w, q, top)
  BY <1>3, <1>5, <1>8 DEF Whole
<1> QED BY <1>1, <1>3, <1>4, <1>5, <1>6, <1>9

LEMMA NoDistance ==
  ASSUME NEW a \in Offsets, NEW w \in Offsets
  PROVE  Dist(a, w) = 0 <=> a = w
<1>1. /\ a <= w => Dist(a, w) = w - a
      /\ a > w => Dist(a, w) = w - a + Size
  BY DistIs
<1> QED BY <1>1, LoggerAssumption DEF Offsets

(* fix_up_readers: a reader that is pulled forward is out of the way, and  *)
(* still has the newest entry to read if it had one.                       *)
LEMMA Pulled ==
  ASSUME w_off \in Offsets, NEW off \in Offsets, NEW n \in Lens,
         newest \in Nat, NEW last \in Nat, NEW dropped,
         ReadOk(buffer, w_off, off, newest, last, dropped),
         NEW q, q = PullForward(off, n)
  PROVE  /\ q \in Offsets
         /\ ReadOk(buffer, w_off, q, newest, last, dropped)
         /\ Safe(q, w_off, n)
<1>0. /\ Size \in Nat \ {0} /\ n \in Nat \ {0} /\ 4 * n <= Size
      /\ n \in 1 .. Size - 1
  BY LoggerAssumption
<1>1. PICK D \in Offsets : D = Dist(off, w_off)
  BY DistIs
<1>2. /\ D \in Nat /\ D < Size
      /\ D = 0 <=> off = w_off
  BY <1>0, <1>1, NoDistance DEF Offsets
<1>3. clock_interval(w_off, logger_offset(w_off + n), off)
        <=> D # 0 /\ D + n >= Size
  BY <1>0, <1>1, Crossed
<1>4. CASE ~ (D # 0 /\ D + n >= Size)
  <2>1. q = off
    BY <1>3, <1>4 DEF PullForward
  <2>2. D + n < Size
    BY <1>0, <1>2, <1>4
  <2> QED BY <1>1, <2>1, <2>2 DEF Safe
<1>5. CASE D # 0 /\ D + n >= Size
  <2>1. Whole(buffer, w_off, off, newest)
    BY DEF ReadOk
  <2>2. PICK k \in n .. D - 1 :
               /\ get_next_entry(off, n) = logger_offset(off + k)
               /\ Run(buffer, w_off, off)[k].piece = 0
    BY <1>1, <1>5, <2>1, NextEntry
  <2>3. q = logger_offset(off + k)
    BY <1>3, <1>5, <2>2 DEF PullForward
  <2>4. k \in 0 .. D /\ k \in Nat /\ k >= n /\ k < D
    BY <1>0, <1>2
  <2>5. /\ q \in Offsets /\ Whole(buffer, w_off, q, newest)
        /\ Dist(q, w_off) = D - k
        /\ \A d \in 0 .. Dist(q, w_off) - 1 :
             /\ k + d \in 0 .. D - 1
             /\ Run(buffer, w_off, q)[d] = Run(buffer, w_off, off)[k + d]
    BY <1>1, <2>1, <2>2, <2>3, <2>4, WholeMoved
  <2>6. D - k # 0 /\ D - k + n < Size
    BY <1>0, <1>2, <2>4
  <2>7. q # w_off
    BY <2>5, <2>6, NoDistance
  <2>8. \A d \in 0 .. Dist(q, w_off) - 1 : Run(buffer, w_off, q)[d].id > last
    BY <1>1, <2>5 DEF ReadOk
  <2>9. ReadOk(buffer, w_off, q, newest, last, dropped)
    BY <2>5, <2>7, <2>8 DEF ReadOk
  <2> QED BY <2>5, <2>6, <2>9 DEF Safe
<1> QED BY <1>4, <1>5

(* do_read_log_to_user: one entry, newer than the last.                    *)
LEMMA OneRead ==
  ASSUME NEW b, NEW w \in Offsets, NEW off \in Offsets, NEW top \in Nat,
         NEW last \in Nat, NEW dropped, ReadOk(b, w, off, top, last, dropped),
         off # w, NEW q, q = logger_offset(off + b[off].len)
  PROVE  /\ q \in Offsets /\ b[off].id \in Nat /\ b[off].id > last
         /\ ReadOk(b, w, q, top, b[off].id, dropped)
<1>1. PICK D \in Offsets : D = Dist(off, w)
  BY DistIs
<1>2. D \in Nat \ {0} /\ D < Size
  BY <1>1, NoDistance, LoggerAssumption DEF Offsets
<1>3. PICK f : f = Run(b, w, off)
  OBVIOUS
<1>4. WholeRun(f, D, top) /\ Whole(b, w, off, top)
  BY <1>1, <1>3 DEF Whole, ReadOk
<1>5. 0 \in 0 .. D - 1
  BY <1>2
<1>6. f[0] = b[off]
  <2>1. logger_offset(off + 0) = off
    BY SumIs, LoggerAssumption DEF Offsets
  <2> QED BY <1>1, <1>3, <1>5, <2>1 DEF Run
<1>7. PICK k \in 1 .. D : k = b[off].len /\ (k < D => f[k].piece = 0)
  <2>1. /\ f[0].len \in Nat /\ f[0].piece \in 0 .. 0
        /\ 0 - f[0].piece + f[0].len \in 0 + 1 .. D
        /\ 0 - f[0].piece + f[0].len < D =>
             f[0 - f[0].piece + f[0].len].piece = 0
    BY <1>2, <1>4, <1>5, EntryOf
  <2>2. PICK k \in Nat : k = f[0].len
    BY <2>1
  <2>3. 0 - f[0].piece + f[0].len = k
    BY <2>1, <2>2
  <2> QED BY <1>2, <1>6, <2>1, <2>2, <2>3
<1>8. /\ q \in Offsets /\ Whole(b, w, q, top)
      /\ Dist(q, w) = D - k
      /\ \A d \in 0 .. Dist(q, w) - 1 :
           k + d \in 0 .. D - 1 /\ Run(b, w, q)[d] = f[k + d]
  <2>1. k \in 0 .. D
    BY <1>2
  <2> QED BY <1>1, <1>3, <1>4, <1>7, <2>1, WholeMoved
<1>9. b[off].id \in Nat /\ b[off].id <= top /\ b[off].id > last
  BY <1>1, <1>2, <1>3, <1>4, <1>5, <1>6, TopOf DEF ReadOk
<1>10. ASSUME NEW d \in 0 .. Dist(q, w) - 1
       PROVE  Run(b, w, q)[d].id > b[off].id
  <2>0. d \in Nat
    OBVIOUS
  <2>1. PICK e \in 0 .. D - 1 : e = k + d
    BY <1>8
  <2>2. Run(b, w, q)[d] = f[e]
    BY <1>8, <2>1
  <2>3. k \in 0 .. D - 1 /\ k <= e /\ 0 < k
    BY <1>2, <2>0, <2>1
  <2>4. f[k].piece = 0 /\ f[0].id < f[k].id
    <3>1. k < D
      BY <1>2, <2>3
    <3>2. RiseOk(f, 0, k)
      BY <1>4, <1>5, <2>3 DEF WholeRun
    <3> QED BY <1>7, <2>3, <3>1, <3>2 DEF RiseOk
  <2>5. k < e => f[k].id <= f[e].id
    BY <1>4, <2>3 DEF WholeRun, RiseOk
  <2>6. f[0].id \in Nat /\ f[k].id \in Nat /\ f[e].id \in Nat
    BY <1>2, <1>4, <1>5, <2>3, TopOf
  <2>7. f[0].id < f[e].id
    BY <1>2, <2>3, <2>4, <2>5, <2>6
  <2> QED BY <1>6, <2>2, <2>7
<1>11. ASSUME q = w
       PROVE  top = b[off].id
  <2>1. D - k = 0
    BY <1>8, <1>11, NoDistance
  <2>2. k = D
    BY <1>2, <2>1
  <2>3. PICK e \in 0 .. D - 1 : e = D - 1
    BY <1>2
  <2>4. f[e].id = top
    BY <1>2, <1>4, <2>3 DEF WholeRun
  <2>5. f[0].len \in Nat /\ f[0].piece = 0
        /\ \A j \in 0 .. f[0].len - 1 :
             f[0 - f[0].piece + j] = [f[0] EXCEPT !.piece = j]
    <3>1. f[0].len \in Nat /\ f[0].piece \in 0 .. 0
      BY <1>2, <1>4, <1>5, EntryOf
    <3>2. CellOk(f, 0, D)
      BY <1>4, <1>5 DEF WholeRun
    <3> QED BY <3>1, <3>2 DEF CellOk
  <2>6. e \in 0 .. f[0].len - 1 /\ 0 - f[0].piece + e = e
    BY <1>2, <1>6, <1>7, <2>2, <2>3, <2>5
  <2>7. f[e] = [f[0] EXCEPT !.piece = e]
    BY <2>5, <2>6
  <2>8. f[0] \in Cells
    BY <1>4, <1>5 DEF WholeRun, CellOk
  <2>9. f[e].id = f[0].id
    BY <2>7, <2>8 DEF Cells
  <2> QED BY <1>6, <2>4, <2>9
<1> QED BY <1>8, <1>9, <1>10, <1>11 DEF ReadOk


(* b2 is b with the first n cells of the entry i of l cells at w.          *)
Overwritten(b, w, n, i, l, b2) ==
  \A o \in Offsets :
    b2[o] = IF Dist(w, o) < n
              THEN [id |-> i, piece |-> Dist(w, o), len |-> l] ELSE b[o]

(* A new entry: the reader has one more to read.                           *)
LEMMA OneWritten ==
  ASSUME NEW b, NEW w \in Offsets, NEW off \in Offsets, NEW top \in Nat,
         NEW last \in Nat, NEW dropped, ReadOk(b, w, off, top, last, dropped),
         NEW n \in Lens, Safe(off, w, n), NEW i \in Nat, i > top,
         NEW b2, Overwritten(b, w, n, i, n, b2),
         NEW w2, w2 = logger_offset(w + n)
  PROVE  w2 \in Offsets /\ ReadOk(b2, w2, off, i, last, dropped)
<1>0. Size \in Nat \ {0} /\ n \in Nat \ {0}
  BY LoggerAssumption
<1>1. PICK D \in Offsets : D = Dist(off, w)
  BY DistIs
<1>2. D \in Nat /\ D + n < Size
  BY <1>0, <1>1 DEF Offsets, Safe
<1>3. /\ w2 \in Offsets /\ Dist(off, w2) = D + n
      /\ \A d \in 0 .. D + n - 1 :
           /\ logger_offset(off + d) \in Offsets
           /\ d < D => Dist(w, logger_offset(off + d)) >= n
           /\ d >= D => Dist(w, logger_offset(off + d)) = d - D
  BY <1>0, <1>1, <1>2, Advanced
<1>E. PICK E \in Nat : E = D + n /\ Dist(off, w2) = E
  BY <1>0, <1>2, <1>3
<1>4. PICK f : f = Run(b, w, off)
  OBVIOUS
<1>5. PICK g : g = Run(b2, w2, off)
  OBVIOUS
<1>6. ASSUME NEW d \in 0 .. D - 1
      PROVE  g[d] = f[d]
  <2>1. d \in 0 .. D + n - 1 /\ d < D
    BY <1>0, <1>2
  <2>2. PICK o \in Offsets : o = logger_offset(off + d) /\ Dist(w, o) >= n
    BY <1>3, <2>1
  <2>3. f[d] = b[o]
    BY <1>1, <1>4, <2>2 DEF Run
  <2>e. g[d] = b2[o]
    <3>1. d \in 0 .. E - 1
      BY <1>0, <1>2, <1>E, <2>1
    <3> QED BY <1>E, <1>5, <2>2, <3>1 DEF Run
  <2>4. Dist(w, o) \in Nat
    BY DistIs DEF Offsets
  <2>5. ~ (Dist(w, o) < n)
    BY <1>0, <2>2, <2>4
  <2> QED BY <2>3, <2>5, <2>e DEF Overwritten
<1>7. ASSUME NEW d \in D .. D + n - 1
      PROVE  g[d] = [id |-> i, piece |-> d - D, len |-> n]
  <2>1. d \in 0 .. D + n - 1 /\ d >= D /\ d - D < n
    BY <1>0, <1>2
  <2>2. PICK o \in Offsets : o = logger_offset(off + d) /\ Dist(w, o) = d - D
    BY <1>3, <2>1
  <2>3. g[d] = b2[o]
    <3>1. d \in 0 .. E - 1
      BY <1>0, <1>2, <1>E, <2>1
    <3> QED BY <1>E, <1>5, <2>2, <3>1 DEF Run
  <2>4. b2[o] = [id |-> i, piece |-> Dist(w, o), len |-> n]
    BY <2>1, <2>2 DEF Overwritten
  <2> QED BY <2>2, <2>3, <2>4
<1>8. WholeRun(f, D, top)
  BY <1>1, <1>4 DEF ReadOk, Whole
<1>9. Extended(f, D, n, i, g)
  BY <1>6, <1>7 DEF Extended
<1>10. WholeRun(g, D + n, i)
  BY <1>2, <1>8, <1>9, RunExtend
<1>11. Whole(b2, w2, off, i)
  BY <1>3, <1>5, <1>10 DEF Whole
<1>12. off # w2
  <2>1. D + n # 0
    BY <1>0, <1>2
  <2> QED BY <1>3, <2>1, NoDistance
<1>13. last <= top
  BY DEF ReadOk
<1>14. ASSUME NEW d \in 0 .. Dist(off, w2) - 1
       PROVE  Run(b2, w2, off)[d].id > last
  <2>1. d \in 0 .. D + n - 1
    BY <1>0, <1>2, <1>E
  <2>2. CASE d < D
    <3>1. d \in 0 .. D - 1
      BY <1>2, <2>1, <2>2
    <3>2. f[d].id > last
      BY <1>1, <1>4, <3>1 DEF ReadOk
    <3> QED BY <1>5, <1>6, <3>1, <3>2
  <2>3. CASE d >= D
    <3>1. d \in D .. D + n - 1
      BY <1>2, <2>1, <2>3
    <3>e. g[d] = [id |-> i, piece |-> d - D, len |-> n]
      BY <1>7, <3>1
    <3>2. g[d].id = i
      BY <3>e
    <3> QED BY <1>5, <1>13, <3>2
  <2> QED BY <1>2, <2>1, <2>2, <2>3
<1>15. last <= i
  BY <1>13
<1> QED BY <1>3, <1>11, <1>12, <1>14, <1>15 DEF ReadOk

(* An entry that is not finished lies outside of all that is to be read.   *)
LEMMA NoneWritten ==
  ASSUME NEW b, NEW w \in Offsets, NEW off \in Offsets, NEW top,
         NEW last, NEW dropped, ReadOk(b, w, off, top, last, dropped),
         NEW l \in Nat, Safe(off, w, l), NEW n \in 0 .. l, NEW i,
         NEW b2, Overwritten(b, w, n, i, l, b2)
  PROVE  ReadOk(b2, w, off, top, last, dropped)
<1>0. Size \in Nat \ {0} /\ n \in Nat
  BY LoggerAssumption
<1>1. PICK D \in Offsets : D = Dist(off, w)
  BY DistIs
<1>2. D \in Nat /\ D + n < Size
  BY <1>0, <1>1 DEF Offsets, Safe
<1>3. \A d \in 0 .. D + n - 1 :
        /\ logger_offset(off + d) \in Offsets
        /\ d < D => Dist(w, logger_offset(off + d)) >= n
  BY <1>0, <1>1, <1>2, Advanced
<1>4. ASSUME NEW d \in 0 .. D - 1
      PROVE  b2[logger_offset(off + d)] = b[logger_offset(off + d)]
  <2>1. d \in 0 .. D + n - 1 /\ d < D
    BY <1>0, <1>2
  <2>2. PICK o \in Offsets : o = logger_offset(off + d) /\ Dist(w, o) >= n
    BY <1>3, <2>1
  <2>3. Dist(w, o) \in Nat
    BY DistIs DEF Offsets
  <2>4. ~ (Dist(w, o) < n)
    BY <1>0, <2>2, <2>3
  <2> QED BY <2>2, <2>4 DEF Overwritten
<1>5. Run(b2, w, off) = Run(b, w, off)
  BY <1>1, <1>4 DEF Run
<1> QED BY <1>5 DEF ReadOk, Whole

(* A reader at the write head has nothing to read.                         *)
LEMMA NoneLeft ==
  ASSUME NEW b, NEW w \in Offsets, NEW top \in Nat, NEW last \in Nat,
         last <= top
  PROVE  ReadOk(b, w, w, top, last, top)
<1>1. Dist(w, w) = 0
  BY NoDistance
<1>2. WholeRun(Run(b, w, w), Dist(w, w), top)
  BY <1>1 DEF WholeRun
<1> QED BY <1>1, <1>2 DEF ReadOk, Whole


-----------------------------------------------------------------------------
(* The steps of writers.                                                   *)

LEMMA WriterStays ==
  ASSUME NEW v \in Writers, WriterOk(v), wr'[v] = wr[v], w_off' = w_off,
         head' = head, r_off' = r_off, readers' = readers, cursor' = cursor
  PROVE  WriterOk(v)'
BY DEF WriterOk

(* A writer that does not hold the mutex has passed nobody.                *)
LEMMA WriterRests ==
  ASSUME NEW v \in Writers, WriterOk(v), wr'[v] = wr[v],
         Faults => w_off' = w_off,
         wr[v].at \notin {"walk", "copy"}
  PROVE  WriterOk(v)'
BY DEF WriterOk

LEMMA StartWriteInv ==
  ASSUME LogInv, NEW w \in Writers, NEW n \in Lens, StartWrite(w, n)
  PROVE  LogInv'
<1>0. LogTypes /\ ListOk /\ HeadOk /\ ReadersOk /\ WritersOk
  BY DEF LogInv
<1>1. /\ wr' = [wr EXCEPT ![w] = [at |-> "lock", orig |-> w_off, len |-> n]]
      /\ UNCHANGED <<buffer, w_off, head, readers, r_off, wq, rd, cursor,
                     writes, newest, flushed, seen>>
  BY DEF StartWrite
<1>2. /\ wr'[w] = [at |-> "lock", orig |-> w_off, len |-> n]
      /\ \A v \in Writers : v # w => wr'[v] = wr[v]
  BY <1>0, <1>1 DEF LogTypes
<1>3. LogTypes'
  <2>1. [at |-> "lock", orig |-> w_off, len |-> n]
          \in [at : {"idle", "lock", "walk", "copy", "wake"},
               orig : Offsets, len : Nat]
    BY <1>0, LoggerAssumption DEF LogTypes
  <2> QED BY <1>0, <1>1, <2>1 DEF LogTypes
<1>4. ListOk' /\ HeadOk' /\ ReadersOk'
  BY <1>0, <1>1 DEF ListOk, HeadOk, ReadersOk
<1>5. OneAtWork'
  BY <1>0, <1>2 DEF WritersOk, OneAtWork
<1>6. ASSUME NEW v \in Writers
      PROVE  WriterOk(v)'
  <2>1. CASE v = w
    BY <1>1, <1>2, <2>1 DEF WriterOk
  <2>2. CASE v # w
    BY <1>0, <1>1, <1>2, <2>2, WriterStays DEF WritersOk
  <2> QED BY <2>1, <2>2
<1> QED BY <1>3, <1>4, <1>5, <1>6 DEF LogInv, WritersOk

LEMMA FixUpHeadInv ==
  ASSUME LogInv, NEW w \in Writers, FixUpHead(w)
  PROVE  LogInv'
<1>0. LogTypes /\ ListOk /\ HeadOk /\ ReadersOk /\ WritersOk
  BY DEF LogInv
<1> DEFINE x == IF readers = << >> THEN "copy" ELSE "walk"
<1>1. /\ wr[w].at = "lock"
      /\ \A v \in Writers : wr[v].at \notin {"walk", "copy"}
      /\ head' = PullForward(head, wr[w].len)
      /\ cursor' = IF readers = << >> THEN NoReader ELSE Head(readers)
      /\ wr' = [wr EXCEPT ![w].at = x]
      /\ UNCHANGED <<buffer, w_off, readers, r_off, wq, rd, writes, newest,
                     flushed, seen>>
  BY DEF FixUpHead, Locked
<1>2. /\ wr'[w].at = x /\ wr'[w].len = wr[w].len /\ wr'[w].orig = wr[w].orig
      /\ \A v \in Writers : v # w => wr'[v] = wr[v]
      /\ x \in {"walk", "copy"}
  BY <1>0, <1>1 DEF LogTypes
<1>3. wr[w].len \in Lens /\ (Faults => wr[w].orig = w_off)
  BY <1>0, <1>1 DEF WritersOk, WriterOk
<1>4. /\ head' \in Offsets
      /\ ReadOk(buffer, w_off, head', newest, 0, flushed)
      /\ Safe(head', w_off, wr[w].len)
  <2>1. w_off \in Offsets /\ head \in Offsets /\ newest \in Nat /\ 0 \in Nat
    BY <1>0 DEF LogTypes
  <2>2. ReadOk(buffer, w_off, head, newest, 0, flushed)
    BY <1>0 DEF HeadOk
  <2> QED BY <1>1, <1>3, <2>1, <2>2, Pulled
<1>5. LogTypes'
  <2>1. wr' \in [Writers -> [at : {"idle", "lock", "walk", "copy", "wake"},
                             orig : Offsets, len : Nat]]
    BY <1>0, <1>1 DEF LogTypes
  <2> QED BY <1>0, <1>1, <1>4, <2>1 DEF LogTypes
<1>6. ListOk' /\ ReadersOk' /\ HeadOk'
  BY <1>0, <1>1, <1>4 DEF ListOk, HeadOk, ReadersOk
<1>7. OneAtWork'
  BY <1>1, <1>2 DEF OneAtWork
<1>8. ASSUME NEW v \in Writers
      PROVE  WriterOk(v)'
  <2>1. CASE v = w
    <3>1. CASE readers = << >>
      <4>1. wr'[w].at = "copy" /\ Range(readers') = {}
        BY <1>1, <1>2, <3>1 DEF Range
      <4> QED BY <1>1, <1>2, <1>3, <1>4, <2>1, <4>1 DEF WriterOk
    <3>2. CASE readers # << >>
      <4>1. wr'[w].at = "walk" /\ cursor' = readers[1]
        BY <1>1, <1>2, <3>2
      <4>2. Len(readers) \in Nat /\ Len(readers) >= 1
        BY <1>0, <3>2 DEF LogTypes
      <4>3. \A i, j \in 1 .. Len(readers) :
              ~ (readers[j] = cursor' /\ i < j)
        <5>1. 1 \in 1 .. Len(readers)
          BY <4>2
        <5>2. \A j \in 1 .. Len(readers) : readers[j] = readers[1] => j = 1
          BY <1>0, <5>1 DEF ListOk
        <5> QED BY <4>1, <4>2, <5>2
      <4> QED BY <1>1, <1>2, <1>3, <1>4, <2>1, <4>1, <4>3 DEF WriterOk
    <3> QED BY <3>1, <3>2
  <2>2. CASE v # w
    BY <1>0, <1>1, <1>2, <2>2, WriterRests DEF WritersOk
  <2> QED BY <2>1, <2>2
<1> QED BY <1>5, <1>6, <1>7, <1>8 DEF LogInv, WritersOk

LEMMA FixUpReaderInv ==
  ASSUME LogInv, NEW w \in Writers, FixUpReader(w)
  PROVE  LogInv'
<1>0. LogTypes /\ ListOk /\ HeadOk /\ ReadersOk /\ WritersOk
  BY DEF LogInv
<1>1. PICK i \in DOMAIN readers :
        /\ readers[i] = cursor
        /\ IF i < Len(readers)
             THEN cursor' = readers[i + 1] /\ UNCHANGED wr
             ELSE cursor' = NoReader /\ wr' = [wr EXCEPT ![w].at = "copy"]
  BY DEF FixUpReader
<1>2. /\ wr[w].at = "walk"
      /\ r_off' = [r_off EXCEPT ![cursor] = PullForward(@, wr[w].len)]
      /\ UNCHANGED <<buffer, w_off, head, readers, wq, rd, writes, newest,
                     flushed, seen>>
  BY DEF FixUpReader
<1>3. /\ readers \in Seq(Readers) /\ Len(readers) \in Nat
      /\ i \in 1 .. Len(readers) /\ cursor \in Readers
      /\ cursor \in Range(readers)
  BY <1>0, <1>1 DEF LogTypes, Range
<1>4. /\ r_off'[cursor] = PullForward(r_off[cursor], wr[w].len)
      /\ \A r \in Readers : r # cursor => r_off'[r] = r_off[r]
  BY <1>0, <1>2, <1>3 DEF LogTypes
<1>5. /\ wr[w].len \in Lens /\ (Faults => wr[w].orig = w_off)
      /\ Safe(head, w_off, wr[w].len)
      /\ \A k, j \in 1 .. Len(readers) :
           readers[j] = cursor /\ k < j =>
             Safe(r_off[readers[k]], w_off, wr[w].len)
  BY <1>0, <1>2 DEF WritersOk, WriterOk
<1>6. /\ r_off'[cursor] \in Offsets
      /\ ReadOk(buffer, w_off, r_off'[cursor], newest, seen[cursor], flushed)
      /\ Safe(r_off'[cursor], w_off, wr[w].len)
  <2>1. /\ w_off \in Offsets /\ r_off[cursor] \in Offsets /\ newest \in Nat
        /\ seen[cursor] \in Nat
    BY <1>0, <1>3 DEF LogTypes
  <2>2. ReadOk(buffer, w_off, r_off[cursor], newest, seen[cursor], flushed)
    BY <1>0, <1>3 DEF ReadersOk
  <2> QED BY <1>4, <1>5, <2>1, <2>2, Pulled
<1>7. /\ wr'[w].len = wr[w].len /\ wr'[w].orig = wr[w].orig
      /\ wr'[w].at = IF i < Len(readers) THEN "walk" ELSE "copy"
      /\ \A v \in Writers : v # w => wr'[v] = wr[v]
      /\ wr' \in [Writers -> [at : {"idle", "lock", "walk", "copy", "wake"},
                              orig : Offsets, len : Nat]]
  <2>1. CASE i < Len(readers)
    BY <1>0, <1>1, <1>2, <2>1 DEF LogTypes
  <2>2. CASE ~ (i < Len(readers))
    <3>1. wr' = [wr EXCEPT ![w].at = "copy"]
      BY <1>1, <2>2
    <3>2. wr \in [Writers -> [at : {"idle", "lock", "walk", "copy", "wake"},
                              orig : Offsets, len : Nat]]
      BY <1>0 DEF LogTypes
    <3> QED BY <2>2, <3>1, <3>2
  <2> QED BY <2>1, <2>2
<1>8. LogTypes'
  BY <1>0, <1>2, <1>6, <1>7 DEF LogTypes
<1>9. ListOk' /\ HeadOk'
  BY <1>0, <1>2 DEF ListOk, HeadOk
<1>10. ReadersOk'
  <2>1. Range(readers) \subseteq Readers
    BY <1>3 DEF Range
  <2>2. \A r \in Range(readers) :
          ReadOk(buffer, w_off, r_off'[r], newest, seen[r], flushed)
    BY <1>0, <1>4, <1>6, <2>1 DEF ReadersOk
  <2> QED BY <1>2, <2>2 DEF ReadersOk
<1>11. OneAtWork'
  BY <1>0, <1>2, <1>7 DEF WritersOk, OneAtWork
<1>12. ASSUME NEW k \in 1 .. i
       PROVE  Safe(r_off'[readers[k]], w_off, wr[w].len)
  <2>1. k \in 1 .. Len(readers) /\ readers[k] \in Readers
    BY <1>3
  <2>2. CASE k = i
    BY <1>1, <1>6, <2>2
  <2>3. CASE k # i
    <3>1. k < i
      BY <1>3, <2>3
    <3>2. readers[k] # cursor
      BY <1>0, <1>1, <1>3, <2>1, <2>3 DEF ListOk
    <3>3. Safe(r_off[readers[k]], w_off, wr[w].len)
      BY <1>1, <1>3, <1>5, <2>1, <3>1
    <3> QED BY <1>4, <2>1, <3>2, <3>3
  <2> QED BY <2>2, <2>3
<1>13. WriterOk(w)'
  <2>1. CASE i < Len(readers)
    <3>1. i + 1 \in 1 .. Len(readers) /\ cursor' = readers[i + 1]
      BY <1>1, <1>3, <2>1
    <3>2. ASSUME NEW k \in 1 .. Len(readers), NEW j \in 1 .. Len(readers),
                 readers[j] = cursor', k < j
          PROVE  Safe(r_off'[readers[k]], w_off, wr[w].len)
      <4>1. j = i + 1
        BY <1>0, <3>1, <3>2 DEF ListOk
      <4>2. k \in 1 .. i
        BY <1>3, <3>2, <4>1
      <4> QED BY <1>12, <4>2
    <3>3. wr'[w].at = "walk"
      BY <1>7, <2>1
    <3> QED BY <1>2, <1>5, <1>7, <3>2, <3>3 DEF WriterOk
  <2>2. CASE ~ (i < Len(readers))
    <3>1. wr'[w].at = "copy" /\ i = Len(readers)
      BY <1>3, <1>7, <2>2
    <3>2. ASSUME NEW r \in Range(readers)
          PROVE  Safe(r_off'[r], w_off, wr[w].len)
      <4>1. PICK k \in 1 .. Len(readers) : r = readers[k]
        BY <1>3 DEF Range
      <4> QED BY <1>12, <3>1, <4>1
    <3> QED BY <1>2, <1>5, <1>7, <3>1, <3>2 DEF WriterOk
  <2> QED BY <2>1, <2>2
<1>14. ASSUME NEW v \in Writers, v # w
       PROVE  WriterOk(v)'
  <2>1. wr[v].at \notin {"walk", "copy"}
    BY <1>0, <1>2, <1>14 DEF WritersOk, OneAtWork
  <2> QED BY <1>0, <1>2, <1>7, <1>14, <2>1, WriterRests DEF WritersOk
<1> QED BY <1>8, <1>9, <1>10, <1>11, <1>13, <1>14 DEF LogInv, WritersOk


(* The cells of an entry are cells, and the buffer stays one.              *)
LEMMA WrittenIs ==
  ASSUME LogTypes, NEW w \in Writers, wr[w].len \in Lens, NEW n
  PROVE  /\ Written(w, n) \in [Offsets -> Cells]
         /\ Overwritten(buffer, w_off, n, writes + 1, wr[w].len, Written(w, n))
<1>1. /\ buffer \in [Offsets -> Cells] /\ w_off \in Offsets
      /\ writes + 1 \in Nat /\ wr[w].len \in Nat \ {0}
  BY LoggerAssumption DEF LogTypes
<1>2. ASSUME NEW o \in Offsets
      PROVE  [id |-> writes + 1, piece |-> Dist(w_off, o), len |-> wr[w].len]
               \in Cells
  <2>1. Dist(w_off, o) \in Nat
    BY <1>1, DistIs DEF Offsets
  <2> QED BY <1>1, <2>1 DEF Cells
<1>3. Written(w, n) =
        [o \in Offsets |->
           IF Dist(w_off, o) < n
             THEN [id |-> writes + 1, piece |-> Dist(w_off, o),
                   len |-> wr[w].len]
             ELSE buffer[o]]
  BY <1>1 DEF Written
<1>4. Written(w, n) \in [Offsets -> Cells]
  BY <1>1, <1>2, <1>3
<1> QED BY <1>3, <1>4 DEF Overwritten

LEMMA WriteInv ==
  ASSUME LogInv, Quiet, NEW w \in Writers, do_write_log(w)
  PROVE  LogInv'
<1>0. LogTypes /\ ListOk /\ HeadOk /\ ReadersOk /\ WritersOk
  BY DEF LogInv
<1>1. /\ wr[w].at = "copy"
      /\ buffer' = Written(w, wr[w].len)
      /\ w_off' = logger_offset(w_off + wr[w].len)
      /\ writes' = writes + 1 /\ newest' = writes + 1
      /\ wr' = [wr EXCEPT ![w].at = "wake"]
      /\ UNCHANGED <<head, readers, r_off, wq, rd, cursor, flushed, seen>>
  BY DEF do_write_log
<1>2. PICK n \in Lens : n = wr[w].len
  BY <1>0, <1>1 DEF WritersOk, WriterOk
<1>3. /\ Safe(head, w_off, n)
      /\ \A r \in Range(readers) : Safe(r_off[r], w_off, n)
  BY <1>0, <1>1, <1>2 DEF WritersOk, WriterOk
<1>4. PICK i \in Nat : i = writes + 1
  BY <1>0 DEF LogTypes
<1>5. /\ w_off \in Offsets /\ head \in Offsets /\ newest \in Nat
      /\ i > newest /\ 0 \in Nat
  BY <1>0, <1>4 DEF LogTypes
<1>6. /\ buffer' \in [Offsets -> Cells]
      /\ Overwritten(buffer, w_off, n, i, n, buffer')
  BY <1>0, <1>1, <1>2, <1>4, WrittenIs
<1>7. w_off' = logger_offset(w_off + n) /\ newest' = i
  BY <1>1, <1>2, <1>4
<1>8. w_off' \in Offsets /\ ReadOk(buffer', w_off', head, i, 0, flushed)
  <2>1. ReadOk(buffer, w_off, head, newest, 0, flushed)
    BY <1>0 DEF HeadOk
  <2> QED BY <1>3, <1>5, <1>6, <1>7, <2>1, OneWritten
<1>9. ASSUME NEW r \in Range(readers)
      PROVE  ReadOk(buffer', w_off', r_off[r], i, seen[r], flushed)
  <2>1. r \in Readers
    BY <1>0 DEF LogTypes, Range
  <2>2. r_off[r] \in Offsets /\ seen[r] \in Nat
    BY <1>0, <2>1 DEF LogTypes
  <2>3. ReadOk(buffer, w_off, r_off[r], newest, seen[r], flushed)
    BY <1>0 DEF ReadersOk
  <2>4. Safe(r_off[r], w_off, n)
    BY <1>3
  <2> QED BY <1>5, <1>6, <1>7, <2>2, <2>3, <2>4, OneWritten
<1>10. /\ wr'[w].at = "wake"
       /\ \A v \in Writers : v # w => wr'[v] = wr[v]
       /\ wr' \in [Writers -> [at : {"idle", "lock", "walk", "copy", "wake"},
                               orig : Offsets, len : Nat]]
  BY <1>0, <1>1 DEF LogTypes
<1>11. LogTypes'
  BY <1>0, <1>1, <1>4, <1>6, <1>7, <1>8, <1>10 DEF LogTypes
<1>12. ListOk' /\ HeadOk' /\ ReadersOk'
  BY <1>0, <1>1, <1>7, <1>8, <1>9 DEF ListOk, HeadOk, ReadersOk
<1>13. OneAtWork'
  BY <1>0, <1>10 DEF WritersOk, OneAtWork
<1>14. ASSUME NEW v \in Writers
       PROVE  WriterOk(v)'
  <2>1. CASE v = w
    BY <1>10, <2>1 DEF WriterOk
  <2>2. CASE v # w
    <3>1. wr[v].at \notin {"walk", "copy"}
      BY <1>0, <1>1, <2>2 DEF WritersOk, OneAtWork
    <3>2. ~ Faults
      BY <2>2, LoggerAssumption DEF Quiet
    <3> QED BY <1>0, <1>10, <2>2, <3>1, <3>2, WriterRests DEF WritersOk
  <2> QED BY <2>1, <2>2
<1> QED BY <1>11, <1>12, <1>13, <1>14 DEF LogInv, WritersOk

LEMMA CopyFaultInv ==
  ASSUME LogInv, Quiet, NEW w \in Writers, NEW n \in 1 .. Size,
         CopyFault(w, n)
  PROVE  LogInv'
<1>0. LogTypes /\ ListOk /\ HeadOk /\ ReadersOk /\ WritersOk
  BY DEF LogInv
<1>1. /\ Faults /\ wr[w].at = "copy" /\ n <= wr[w].len
      /\ buffer' = Written(w, n)
      /\ w_off' = wr[w].orig
      /\ writes' = writes + 1
      /\ wr' = [wr EXCEPT ![w] = Idle]
      /\ UNCHANGED <<head, readers, r_off, wq, rd, cursor, newest, flushed,
                     seen>>
  BY DEF CopyFault
<1>2. PICK l \in Lens : l = wr[w].len
  BY <1>0, <1>1 DEF WritersOk, WriterOk
<1>3. /\ Safe(head, w_off, l) /\ w_off' = w_off
      /\ \A r \in Range(readers) : Safe(r_off[r], w_off, l)
  BY <1>0, <1>1, <1>2 DEF WritersOk, WriterOk
<1>4. l \in Nat /\ n \in 0 .. l
  BY <1>1, <1>2, LoggerAssumption
<1>5. /\ buffer' \in [Offsets -> Cells]
      /\ Overwritten(buffer, w_off, n, writes + 1, l, buffer')
  BY <1>0, <1>1, <1>2, WrittenIs
<1>6. w_off \in Offsets /\ head \in Offsets /\ writes + 1 \in Nat
  BY <1>0 DEF LogTypes
<1>7. ReadOk(buffer', w_off, head, newest, 0, flushed)
  <2>1. ReadOk(buffer, w_off, head, newest, 0, flushed)
    BY <1>0 DEF HeadOk
  <2> QED BY <1>3, <1>4, <1>5, <1>6, <2>1, NoneWritten
<1>8. ASSUME NEW r \in Range(readers)
      PROVE  ReadOk(buffer', w_off, r_off[r], newest, seen[r], flushed)
  <2>1. r \in Readers
    BY <1>0 DEF LogTypes, Range
  <2>2. r_off[r] \in Offsets
    BY <1>0, <2>1 DEF LogTypes
  <2>3. ReadOk(buffer, w_off, r_off[r], newest, seen[r], flushed)
    BY <1>0 DEF ReadersOk
  <2>4. Safe(r_off[r], w_off, l)
    BY <1>3
  <2> QED BY <1>4, <1>5, <1>6, <2>2, <2>3, <2>4, NoneWritten
<1>9. /\ wr'[w] = Idle
      /\ \A v \in Writers : v = w
      /\ wr' \in [Writers -> [at : {"idle", "lock", "walk", "copy", "wake"},
                              orig : Offsets, len : Nat]]
  <2>1. Idle \in [at : {"idle", "lock", "walk", "copy", "wake"},
                  orig : Offsets, len : Nat]
    BY LoggerAssumption DEF Idle, Offsets
  <2> QED BY <1>0, <1>1, <2>1 DEF LogTypes, Quiet
<1>10. LogTypes'
  <2>1. newest <= writes + 1
    BY <1>0 DEF LogTypes
  <2> QED BY <1>0, <1>1, <1>3, <1>5, <1>6, <1>9, <2>1 DEF LogTypes
<1>11. ListOk' /\ HeadOk' /\ ReadersOk'
  BY <1>0, <1>1, <1>3, <1>7, <1>8 DEF ListOk, HeadOk, ReadersOk
<1>12. WritersOk'
  BY <1>9 DEF WritersOk, OneAtWork, WriterOk, Idle
<1> QED BY <1>10, <1>11, <1>12 DEF LogInv

LEMMA WakeReadersInv ==
  ASSUME LogInv, NEW w \in Writers, WakeReaders(w)
  PROVE  LogInv'
<1>0. LogTypes /\ ListOk /\ HeadOk /\ ReadersOk /\ WritersOk
  BY DEF LogInv
<1>1. /\ wr' = [wr EXCEPT ![w] = Idle]
      /\ UNCHANGED <<buffer, w_off, head, readers, r_off, rd, cursor, writes,
                     newest, flushed, seen>>
  BY DEF WakeReaders
<1>2. /\ wr'[w] = Idle
      /\ \A v \in Writers : v # w => wr'[v] = wr[v]
      /\ wr' \in [Writers -> [at : {"idle", "lock", "walk", "copy", "wake"},
                              orig : Offsets, len : Nat]]
  <2>1. Idle \in [at : {"idle", "lock", "walk", "copy", "wake"},
                  orig : Offsets, len : Nat]
    BY LoggerAssumption DEF Idle, Offsets
  <2> QED BY <1>0, <1>1, <2>1 DEF LogTypes
<1>3. LogTypes'
  BY <1>0, <1>1, <1>2 DEF LogTypes
<1>4. ListOk' /\ HeadOk' /\ ReadersOk'
  BY <1>0, <1>1 DEF ListOk, HeadOk, ReadersOk
<1>5. OneAtWork'
  BY <1>0, <1>2 DEF WritersOk, OneAtWork, Idle
<1>6. ASSUME NEW v \in Writers
      PROVE  WriterOk(v)'
  <2>1. CASE v = w
    BY <1>2, <2>1 DEF WriterOk, Idle
  <2>2. CASE v # w
    BY <1>0, <1>1, <1>2, <2>2, WriterStays DEF WritersOk
  <2> QED BY <2>1, <2>2
<1> QED BY <1>3, <1>4, <1>5, <1>6 DEF LogInv, WritersOk


-----------------------------------------------------------------------------
(* The list of readers.                                                    *)

LEMMA SubSeqFacts ==
  ASSUME NEW S, NEW s \in Seq(S), NEW m \in Int, NEW n \in Int,
         1 <= m, m <= n + 1, n <= Len(s)
  PROVE  /\ SubSeq(s, m, n) \in Seq(S)
         /\ Len(SubSeq(s, m, n)) = n - m + 1
         /\ \A i \in 1 .. n - m + 1 : SubSeq(s, m, n)[i] = s[m + i - 1]
<1>1. \A i \in m .. n : s[i] \in S
  <2> TAKE i \in m .. n
  <2>1. Len(s) \in Nat
    BY LenProperties
  <2>2. i \in 1 .. Len(s)
    BY <2>1
  <2> QED BY <2>2, ElementOfSeq
<1>2. /\ SubSeq(s, m, n) \in Seq(S)
      /\ Len(SubSeq(s, m, n)) = IF m <= n THEN n - m + 1 ELSE 0
      /\ \A i \in 1 .. n - m + 1 : SubSeq(s, m, n)[i] = s[m + i - 1]
  BY <1>1, SubSeqProperties
<1> QED BY <1>2

LEMMA RemoveAtFacts ==
  ASSUME NEW S, NEW s \in Seq(S), NEW k \in 1 .. Len(s)
  PROVE  /\ RemoveAt(s, k) \in Seq(S)
         /\ Len(RemoveAt(s, k)) = Len(s) - 1
         /\ \A i \in 1 .. Len(s) - 1 :
              RemoveAt(s, k)[i] = IF i < k THEN s[i] ELSE s[i + 1]
<1> DEFINE front == SubSeq(s, 1, k - 1)
           back == SubSeq(s, k + 1, Len(s))
<1>1. Len(s) \in Nat /\ k \in Int /\ 1 <= k /\ k <= Len(s)
  BY LenProperties
<1>2. /\ front \in Seq(S) /\ Len(front) = k - 1
      /\ \A i \in 1 .. k - 1 : front[i] = s[i]
  <2>1. /\ front \in Seq(S) /\ Len(front) = (k - 1) - 1 + 1
        /\ \A i \in 1 .. (k - 1) - 1 + 1 : front[i] = s[1 + i - 1]
    BY <1>1, SubSeqFacts
  <2> HIDE DEF front
  <2>2. ASSUME NEW i \in 1 .. k - 1 PROVE front[i] = s[i]
    <3>1. 1 + i - 1 = i /\ i \in 1 .. (k - 1) - 1 + 1
      BY <1>1
    <3> QED BY <2>1, <3>1
  <2> QED BY <1>1, <2>1, <2>2
<1>3. /\ back \in Seq(S) /\ Len(back) = Len(s) - k
      /\ \A i \in 1 .. Len(s) - k : back[i] = s[k + i]
  <2>1. /\ back \in Seq(S) /\ Len(back) = Len(s) - (k + 1) + 1
        /\ \A i \in 1 .. Len(s) - (k + 1) + 1 : back[i] = s[(k + 1) + i - 1]
    BY <1>1, SubSeqFacts
  <2> HIDE DEF back
  <2>2. ASSUME NEW i \in 1 .. Len(s) - k PROVE back[i] = s[k + i]
    <3>1. (k + 1) + i - 1 = k + i /\ i \in 1 .. Len(s) - (k + 1) + 1
      BY <1>1
    <3> QED BY <2>1, <3>1
  <2> QED BY <1>1, <2>1, <2>2
<1>4. RemoveAt(s, k) = front \o back
  BY DEF RemoveAt
<1> HIDE DEF front, back
<1>5. /\ front \o back \in Seq(S)
      /\ Len(front \o back) = Len(front) + Len(back)
      /\ \A i \in 1 .. Len(front) + Len(back) : (front \o back)[i] =
           IF i <= Len(front) THEN front[i] ELSE back[i - Len(front)]
  BY <1>2, <1>3, ConcatProperties
<1>6. ASSUME NEW i \in 1 .. Len(s) - 1
      PROVE  (front \o back)[i] = IF i < k THEN s[i] ELSE s[i + 1]
  <2>1. i \in 1 .. Len(front) + Len(back)
    BY <1>1, <1>2, <1>3
  <2>2. CASE i < k
    <3>1. i <= Len(front) /\ i \in 1 .. k - 1
      BY <2>2, <1>1, <1>2
    <3> QED BY <2>1, <2>2, <3>1, <1>2, <1>5
  <2>3. CASE ~ (i < k)
    <3>1. /\ ~ (i <= Len(front)) /\ i - Len(front) = i - k + 1
          /\ i - k + 1 \in 1 .. Len(s) - k /\ k + (i - k + 1) = i + 1
      BY <2>3, <1>1, <1>2
    <3>2. back[i - k + 1] = s[i + 1]
      BY <3>1, <1>3
    <3> QED BY <2>1, <2>3, <3>1, <3>2, <1>5
  <2> QED BY <2>2, <2>3
<1> QED BY <1>1, <1>2, <1>3, <1>4, <1>5, <1>6

(* t is s without its element k, in the same order.                        *)
LeftOver(s, k, t) ==
  /\ \A i \in 1 .. Len(t) : \E x \in 1 .. Len(s) : x # k /\ t[i] = s[x]
  /\ \A i, j \in 1 .. Len(t) : i < j =>
       \E x, y \in 1 .. Len(s) : x < y /\ t[i] = s[x] /\ t[j] = s[y]
  /\ \A x \in 1 .. Len(s) : x # k => \E i \in 1 .. Len(t) : t[i] = s[x]

LEMMA OneOut ==
  ASSUME NEW S, NEW s \in Seq(S), NEW k \in 1 .. Len(s), NEW t,
         t = RemoveAt(s, k)
  PROVE  t \in Seq(S) /\ LeftOver(s, k, t)
<1>1. /\ t \in Seq(S) /\ Len(t) = Len(s) - 1
      /\ \A i \in 1 .. Len(s) - 1 : t[i] = IF i < k THEN s[i] ELSE s[i + 1]
  BY RemoveAtFacts
<1>2. PICK L \in Nat : L = Len(s)
  BY LenProperties
<1>3. ASSUME NEW i \in 1 .. L - 1
      PROVE  /\ i < k => i \in 1 .. L /\ t[i] = s[i]
             /\ i >= k => i + 1 \in 1 .. L /\ t[i] = s[i + 1]
  BY <1>1, <1>2
<1>4. ASSUME NEW i \in 1 .. L - 1
      PROVE  \E x \in 1 .. L : x # k /\ t[i] = s[x]
  <2>1. CASE i < k
    BY <1>2, <1>3, <2>1
  <2>2. CASE i >= k
    <3>1. i + 1 # k
      BY <1>2, <2>2
    <3> QED BY <1>3, <2>2, <3>1
  <2> QED BY <1>2, <2>1, <2>2
<1>5. ASSUME NEW i \in 1 .. L - 1, NEW j \in 1 .. L - 1, i < j
      PROVE  \E x, y \in 1 .. L : x < y /\ t[i] = s[x] /\ t[j] = s[y]
  <2>1. CASE j < k
    <3>1. i < k
      BY <1>2, <1>5, <2>1
    <3> QED BY <1>3, <1>5, <2>1, <3>1
  <2>2. CASE i < k /\ j >= k
    <3>1. i < j + 1
      BY <1>5
    <3> QED BY <1>3, <2>2, <3>1
  <2>3. CASE i >= k
    <3>1. j >= k /\ i + 1 < j + 1
      BY <1>2, <1>5, <2>3
    <3> QED BY <1>3, <2>3, <3>1
  <2> QED BY <1>2, <2>1, <2>2, <2>3
<1>6. ASSUME NEW x \in 1 .. L, x # k
      PROVE  \E i \in 1 .. L - 1 : t[i] = s[x]
  <2>1. CASE x < k
    <3>1. x \in 1 .. L - 1
      BY <1>2, <2>1
    <3> QED BY <1>3, <2>1, <3>1
  <2>2. CASE x > k
    <3>1. PICK i \in 1 .. L - 1 : x = i + 1 /\ i >= k
      <4>1. x - 1 \in 1 .. L - 1 /\ x = (x - 1) + 1 /\ x - 1 >= k
        BY <1>2, <2>2
      <4> QED BY <4>1
    <3> QED BY <1>3, <3>1
  <2> QED BY <1>2, <1>6, <2>1, <2>2
<1>7. Len(t) = L - 1
  BY <1>1, <1>2
<1> QED BY <1>1, <1>2, <1>4, <1>5, <1>6, <1>7 DEF LeftOver

-----------------------------------------------------------------------------
(* The steps of readers.                                                   *)

LEMMA ListedReader ==
  ASSUME LogTypes, ListOk, NEW r \in Readers, rd[r] # "closed"
  PROVE  r \in Range(readers)
BY DEF ListOk

(* A step of a reader that neither opens nor closes, nor reads.            *)
LEMMA WaitInv ==
  ASSUME LogInv, NEW r \in Readers, rd[r] # "closed",
         NEW x \in {"idle", "check", "ready", "asleep"},
         rd' = [rd EXCEPT ![r] = x],
         UNCHANGED <<buffer, w_off, head, readers, r_off, wr, cursor, writes,
                     newest, flushed, seen>>
  PROVE  LogInv'
<1>0. LogTypes /\ ListOk /\ HeadOk /\ ReadersOk /\ WritersOk
  BY DEF LogInv
<1>1. LogTypes'
  BY <1>0 DEF LogTypes
<1>2. ListOk'
  BY <1>0 DEF ListOk, LogTypes
<1>3. HeadOk' /\ ReadersOk'
  BY <1>0 DEF HeadOk, ReadersOk
<1>4. WritersOk'
  BY <1>0, WriterStays DEF WritersOk, OneAtWork
<1> QED BY <1>1, <1>2, <1>3, <1>4 DEF LogInv

LEMMA PrepareToWaitInv ==
  ASSUME LogInv, NEW r \in Readers, PrepareToWait(r)
  PROVE  LogInv'
BY WaitInv DEF PrepareToWait

LEMMA CheckLogInv ==
  ASSUME LogInv, NEW r \in Readers, CheckLog(r)
  PROVE  LogInv'
<1>1. rd[r] # "closed"
  BY DEF CheckLog
<1>2. \E x \in {"idle", "check", "ready", "asleep"} : rd' = [rd EXCEPT ![r] = x]
  BY DEF CheckLog
<1> QED BY <1>1, <1>2, WaitInv DEF CheckLog

LEMMA ReadNothingInv ==
  ASSUME LogInv, NEW r \in Readers, ReadNothing(r)
  PROVE  LogInv'
<1>1. rd[r] # "closed"
  BY DEF ReadNothing
<1>2. \E x \in {"idle", "check", "ready", "asleep"} : rd' = [rd EXCEPT ![r] = x]
  BY DEF ReadNothing
<1> QED BY <1>1, <1>2, WaitInv DEF ReadNothing

LEMMA OpenInv ==
  ASSUME LogInv, NEW r \in Readers, logger_open(r)
  PROVE  LogInv'
<1>0. LogTypes /\ ListOk /\ HeadOk /\ ReadersOk /\ WritersOk
  BY DEF LogInv
<1>1. /\ rd[r] = "closed"
      /\ \A v \in Writers : wr[v].at \notin {"walk", "copy"}
      /\ r_off' = [r_off EXCEPT ![r] = head]
      /\ readers' = Append(readers, r)
      /\ rd' = [rd EXCEPT ![r] = "idle"]
      /\ seen' = [seen EXCEPT ![r] = 0]
      /\ UNCHANGED <<buffer, w_off, head, wq, wr, cursor, writes, newest,
                     flushed>>
  BY DEF logger_open, Locked
<1>2. LogTypes'
  BY <1>0, <1>1 DEF LogTypes
<1>3. r \notin Range(readers) /\ Range(readers) \subseteq Readers
  BY <1>0, <1>1 DEF ListOk, LogTypes, Range
<1>4. PICK L \in Nat : L = Len(readers)
  BY <1>0 DEF LogTypes
<1>5. /\ Len(readers') = L + 1
      /\ \A i \in 1 .. L : readers'[i] = readers[i] /\ readers[i] # r
      /\ readers'[L + 1] = r
  <2>1. readers \in Seq(Readers)
    BY <1>0 DEF LogTypes
  <2>2. /\ Len(readers') = L + 1
        /\ \A i \in 1 .. L : readers'[i] = readers[i]
        /\ readers'[L + 1] = r
    BY <1>1, <1>4, <2>1, AppendProperties
  <2>3. \A i \in 1 .. L : readers[i] \in Range(readers)
    BY <1>4, <2>1, RangeEquality
  <2> QED BY <1>3, <2>2, <2>3
<1>6. Range(readers') = Range(readers) \cup {r}
  <2>1. readers \in Seq(Readers) /\ readers' \in Seq(Readers)
    BY <1>0, <1>2 DEF LogTypes
  <2>2. /\ Range(readers) = {readers[i] : i \in 1 .. L}
        /\ Range(readers') = {readers'[i] : i \in 1 .. Len(readers')}
    BY <1>4, <2>1, RangeEquality
  <2>3. \A i \in 1 .. L + 1 : i \in 1 .. L \/ i = L + 1
    OBVIOUS
  <2>4. \A i \in 1 .. L : i \in 1 .. L + 1
    OBVIOUS
  <2>5. L + 1 \in 1 .. L + 1
    OBVIOUS
  <2> QED BY <1>5, <2>2, <2>3, <2>4, <2>5
<1>7. ListOk'
  <2>1. ASSUME NEW i \in 1 .. L + 1, NEW j \in 1 .. L + 1,
               readers'[i] = readers'[j]
        PROVE  i = j
    <3>1. CASE i = L + 1 /\ j = L + 1
      BY <3>1
    <3>2. CASE i \in 1 .. L /\ j \in 1 .. L
      BY <1>0, <1>4, <1>5, <2>1, <3>2 DEF ListOk
    <3>3. CASE i = L + 1 /\ j \in 1 .. L
      BY <1>5, <2>1, <3>3
    <3>4. CASE i \in 1 .. L /\ j = L + 1
      BY <1>5, <2>1, <3>4
    <3> QED BY <3>1, <3>2, <3>3, <3>4
  <2>2. \A i, j \in 1 .. Len(readers') : readers'[i] = readers'[j] => i = j
    BY <1>5, <2>1
  <2>3. \A x \in Readers : rd'[x] = "closed" <=> x \notin Range(readers')
    BY <1>0, <1>1, <1>6 DEF ListOk, LogTypes
  <2> QED BY <2>2, <2>3 DEF ListOk
<1>8. HeadOk'
  BY <1>0, <1>1 DEF HeadOk
<1>9. ReadersOk'
  <2>1. r_off'[r] = head /\ seen'[r] = 0
    BY <1>0, <1>1 DEF LogTypes
  <2>2. ReadOk(buffer, w_off, r_off'[r], newest, seen'[r], flushed)
    BY <1>0, <2>1 DEF HeadOk
  <2>3. \A x \in Range(readers) : r_off'[x] = r_off[x] /\ seen'[x] = seen[x]
    BY <1>0, <1>1, <1>3 DEF LogTypes
  <2>4. \A x \in Range(readers) :
          ReadOk(buffer, w_off, r_off'[x], newest, seen'[x], flushed)
    BY <1>0, <2>3 DEF ReadersOk
  <2> QED BY <1>1, <1>6, <2>2, <2>4 DEF ReadersOk
<1>10. WritersOk'
  <2>1. OneAtWork'
    BY <1>1 DEF OneAtWork
  <2> QED BY <1>0, <1>1, <2>1, WriterRests DEF WritersOk
<1> QED BY <1>2, <1>7, <1>8, <1>9, <1>10 DEF LogInv

LEMMA ReleaseInv ==
  ASSUME LogInv, NEW r \in Readers, logger_release(r)
  PROVE  LogInv'
<1>0. LogTypes /\ ListOk /\ HeadOk /\ ReadersOk /\ WritersOk
  BY DEF LogInv
<1>1. PICK k \in DOMAIN readers :
        readers[k] = r /\ readers' = RemoveAt(readers, k)
  BY DEF logger_release
<1>2. /\ rd' = [rd EXCEPT ![r] = "closed"]
      /\ UNCHANGED <<buffer, w_off, head, r_off, wq, wr, cursor, writes,
                     newest, flushed, seen>>
  BY DEF logger_release
<1>3. readers \in Seq(Readers) /\ k \in 1 .. Len(readers)
  BY <1>0 DEF LogTypes
<1>4. /\ readers' \in Seq(Readers)
      /\ \A i \in 1 .. Len(readers') : \E x \in 1 .. Len(readers) :
           x # k /\ readers'[i] = readers[x]
      /\ \A i, j \in 1 .. Len(readers') : i < j =>
           \E x, y \in 1 .. Len(readers) :
             x < y /\ readers'[i] = readers[x] /\ readers'[j] = readers[y]
      /\ \A x \in 1 .. Len(readers) : x # k =>
           \E i \in 1 .. Len(readers') : readers'[i] = readers[x]
  <2>1. readers' \in Seq(Readers) /\ LeftOver(readers, k, readers')
    BY <1>1, <1>3, OneOut
  <2> QED BY <2>1 DEF LeftOver
<1>5. /\ Range(readers) = {readers[i] : i \in 1 .. Len(readers)}
      /\ Range(readers') = {readers'[i] : i \in 1 .. Len(readers')}
      /\ \A i, j \in 1 .. Len(readers) : readers[i] = readers[j] => i = j
      /\ Len(readers) \in Nat /\ Len(readers') \in Nat
  <2>1. Range(readers) = {readers[i] : i \in 1 .. Len(readers)}
    BY <1>3, RangeEquality
  <2>2. readers' \in Seq(Readers)
    BY <1>4
  <2>3. Range(readers') = {readers'[i] : i \in 1 .. Len(readers')}
    BY <2>2, RangeEquality
  <2>4. Len(readers) \in Nat /\ Len(readers') \in Nat
    BY <1>3, <2>2, LenProperties
  <2>5. \A i, j \in 1 .. Len(readers) : readers[i] = readers[j] => i = j
    BY <1>0 DEF ListOk
  <2> QED BY <2>1, <2>3, <2>4, <2>5
<1>6. Range(readers') = Range(readers) \ {r}
  <2>1. ASSUME NEW x \in Range(readers')
        PROVE  x \in Range(readers) \ {r}
    <3>1. PICK i \in 1 .. Len(readers') : x = readers'[i]
      BY <1>5
    <3>2. PICK y \in 1 .. Len(readers) : y # k /\ x = readers[y]
      BY <1>4, <3>1
    <3> QED BY <1>1, <1>3, <1>5, <3>2
  <2>2. ASSUME NEW x \in Range(readers) \ {r}
        PROVE  x \in Range(readers')
    <3>1. PICK y \in 1 .. Len(readers) : x = readers[y]
      BY <1>5
    <3>2. y # k
      BY <1>1, <3>1
    <3>3. PICK i \in 1 .. Len(readers') : readers'[i] = readers[y]
      BY <1>4, <3>2
    <3> QED BY <1>5, <3>1, <3>3
  <2> QED BY <2>1, <2>2
<1>7. LogTypes'
  BY <1>0, <1>2, <1>4 DEF LogTypes
<1>8. ListOk'
  <2>1. ASSUME NEW i \in 1 .. Len(readers'), NEW j \in 1 .. Len(readers'),
               i < j
        PROVE  readers'[i] # readers'[j]
    <3>1. PICK x \in 1 .. Len(readers), y \in 1 .. Len(readers) :
            x < y /\ readers'[i] = readers[x] /\ readers'[j] = readers[y]
      BY <1>4, <2>1
    <3> QED BY <1>5, <3>1
  <2>2. \A i, j \in 1 .. Len(readers') : readers'[i] = readers'[j] => i = j
    BY <1>5, <2>1
  <2>3. \A x \in Readers : rd'[x] = "closed" <=> x \notin Range(readers')
    BY <1>0, <1>2, <1>6 DEF ListOk, LogTypes
  <2> QED BY <2>2, <2>3 DEF ListOk
<1>9. HeadOk' /\ ReadersOk'
  BY <1>0, <1>2, <1>6 DEF HeadOk, ReadersOk
<1>10. OneAtWork'
  BY <1>0, <1>2 DEF WritersOk, OneAtWork
<1>11. ASSUME NEW w \in Writers
       PROVE  WriterOk(w)'
  <2>1. WriterOk(w)
    BY <1>0 DEF WritersOk
  <2>2. ASSUME wr[w].at = "walk",
               NEW i \in 1 .. Len(readers'), NEW j \in 1 .. Len(readers'),
               readers'[j] = cursor, i < j
        PROVE  Safe(r_off[readers'[i]], w_off, wr[w].len)
    <3>1. PICK x \in 1 .. Len(readers), y \in 1 .. Len(readers) :
            x < y /\ readers'[i] = readers[x] /\ readers'[j] = readers[y]
      BY <1>4, <2>2
    <3> QED BY <2>1, <2>2, <3>1 DEF WriterOk
  <2> QED BY <1>2, <1>6, <2>1, <2>2 DEF WriterOk
<1> QED BY <1>7, <1>8, <1>9, <1>10, <1>11 DEF LogInv, WritersOk


LEMMA ReadInv ==
  ASSUME LogInv, NEW r \in Readers, do_read_log_to_user(r)
  PROVE  LogInv' /\ seen'[r] > seen[r]
<1>0. LogTypes /\ ListOk /\ HeadOk /\ ReadersOk /\ WritersOk
  BY DEF LogInv
<1> DEFINE q == logger_offset(r_off[r] + get_entry_len(r_off[r]))
           e == buffer[r_off[r]].id
<1>1. /\ rd[r] = "ready"
      /\ \A v \in Writers : wr[v].at \notin {"walk", "copy"}
      /\ w_off # r_off[r]
      /\ r_off' = [r_off EXCEPT ![r] = q]
      /\ seen' = [seen EXCEPT ![r] = e]
      /\ rd' = [rd EXCEPT ![r] = "idle"]
      /\ UNCHANGED <<buffer, w_off, head, readers, wq, wr, cursor, writes,
                     newest, flushed>>
  BY <1>0 DEF do_read_log_to_user, Locked, LogTypes
<1>2. r \in Range(readers)
  BY <1>0, <1>1, ListedReader
<1>3. /\ q \in Offsets /\ e \in Nat /\ e > seen[r]
      /\ ReadOk(buffer, w_off, q, newest, e, flushed)
  <2>1. /\ w_off \in Offsets /\ r_off[r] \in Offsets /\ newest \in Nat
        /\ seen[r] \in Nat
    BY <1>0 DEF LogTypes
  <2>2. ReadOk(buffer, w_off, r_off[r], newest, seen[r], flushed)
    BY <1>0, <1>2 DEF ReadersOk
  <2>3. q = logger_offset(r_off[r] + buffer[r_off[r]].len)
    BY DEF get_entry_len
  <2> HIDE DEF q
  <2> QED BY <1>1, <2>1, <2>2, <2>3, OneRead
<1> HIDE DEF q, e
<1>4. /\ r_off'[r] = q /\ seen'[r] = e
      /\ \A x \in Readers : x # r => r_off'[x] = r_off[x] /\ seen'[x] = seen[x]
  BY <1>0, <1>1 DEF LogTypes
<1>5. LogTypes'
  BY <1>0, <1>1, <1>3 DEF LogTypes
<1>6. ListOk'
  BY <1>0, <1>1 DEF ListOk, LogTypes
<1>7. HeadOk'
  BY <1>0, <1>1 DEF HeadOk
<1>8. ReadersOk'
  <2>1. Range(readers) \subseteq Readers
    BY <1>0 DEF LogTypes, Range
  <2>2. \A x \in Range(readers) :
          ReadOk(buffer, w_off, r_off'[x], newest, seen'[x], flushed)
    BY <1>0, <1>3, <1>4, <2>1 DEF ReadersOk
  <2> QED BY <1>1, <2>2 DEF ReadersOk
<1>9. WritersOk'
  <2>1. OneAtWork'
    BY <1>1 DEF OneAtWork
  <2> QED BY <1>0, <1>1, <2>1, WriterRests DEF WritersOk
<1> QED BY <1>3, <1>4, <1>5, <1>6, <1>7, <1>8, <1>9 DEF LogInv

LEMMA FlushInv ==
  ASSUME LogInv, FlushLog
  PROVE  LogInv'
<1>0. LogTypes /\ ListOk /\ HeadOk /\ ReadersOk /\ WritersOk
  BY DEF LogInv
<1>1. /\ \A v \in Writers : wr[v].at \notin {"walk", "copy"}
      /\ r_off' = [r \in Readers |->
                     IF r \in Range(readers) THEN w_off ELSE r_off[r]]
      /\ head' = w_off /\ flushed' = newest
      /\ UNCHANGED <<buffer, w_off, readers, wq, rd, wr, cursor, writes,
                     newest, seen>>
  BY DEF FlushLog, Locked
<1>2. LogTypes'
  BY <1>0, <1>1 DEF LogTypes
<1>3. ListOk'
  BY <1>0, <1>1 DEF ListOk
<1>4. /\ w_off \in Offsets /\ newest \in Nat
      /\ Range(readers) \subseteq Readers
  BY <1>0 DEF LogTypes, Range
<1>5. HeadOk'
  <2>1. ReadOk(buffer, w_off, w_off, newest, 0, newest)
    BY <1>4, NoneLeft
  <2> QED BY <1>1, <2>1 DEF HeadOk
<1>6. ReadersOk'
  <2>1. ASSUME NEW r \in Range(readers)
        PROVE  ReadOk(buffer, w_off, r_off'[r], newest, seen[r], newest)
    <3>1. r_off'[r] = w_off
      BY <1>1, <1>4
    <3>2. seen[r] \in Nat /\ seen[r] <= newest
      BY <1>0, <1>4 DEF LogTypes, ReadersOk, ReadOk
    <3> QED BY <1>4, <3>1, <3>2, NoneLeft
  <2> QED BY <1>1, <2>1 DEF ReadersOk
<1>7. WritersOk'
  <2>1. OneAtWork'
    BY <1>1 DEF OneAtWork
  <2> QED BY <1>0, <1>1, <2>1, WriterRests DEF WritersOk
<1> QED BY <1>2, <1>3, <1>5, <1>6, <1>7 DEF LogInv

-----------------------------------------------------------------------------
(* The theorems.                                                           *)

LEMMA LoggerInitInv ==
  ASSUME LoggerInit
  PROVE  LogInv
<1>1. 0 \in Offsets /\ Size \in Nat
  BY LoggerAssumption DEF Offsets
<1>2. LogTypes
  <2>1. buffer \in [Offsets -> Cells]
    BY DEF LoggerInit, Offsets, Cells
  <2>2. Idle \in [at : {"idle", "lock", "walk", "copy", "wake"},
                  orig : Offsets, len : Nat]
    BY <1>1 DEF Idle
  <2> QED BY <1>1, <2>1, <2>2 DEF LoggerInit, LogTypes
<1>3. Range(readers) = {} /\ Len(readers) = 0
  BY DEF LoggerInit, Range
<1>4. ListOk /\ ReadersOk
  BY <1>3 DEF LoggerInit, ListOk, ReadersOk
<1>5. HeadOk
  <2>1. ReadOk(buffer, 0, 0, 0, 0, 0)
    BY <1>1, NoneLeft
  <2> QED BY <2>1 DEF HeadOk, LoggerInit
<1>6. WritersOk
  BY DEF LoggerInit, WritersOk, OneAtWork, WriterOk, Idle
<1> QED BY <1>2, <1>4, <1>5, <1>6 DEF LogInv

LEMMA LoggerNextInv ==
  ASSUME LogInv, Quiet, [LoggerNext]_loggerVars
  PROVE  LogInv'
<1>1. ASSUME NEW w \in Writers, NEW n \in Lens, StartWrite(w, n)
      PROVE  LogInv'
  BY <1>1, StartWriteInv
<1>2. ASSUME NEW w \in Writers, WriterStep(w)
      PROVE  LogInv'
  BY <1>2, FixUpHeadInv, FixUpReaderInv, WriteInv, WakeReadersInv,
     CopyFaultInv DEF WriterStep
<1>3. ASSUME NEW r \in Readers, ReaderStep(r)
      PROVE  LogInv'
  BY <1>3, PrepareToWaitInv, CheckLogInv, ReadInv, ReadNothingInv
  DEF ReaderStep, Woken
<1>4. ASSUME NEW r \in Readers,
             logger_open(r) \/ logger_release(r) \/ PrepareToWait(r)
      PROVE  LogInv'
  BY <1>4, OpenInv, ReleaseInv, PrepareToWaitInv
<1>5. CASE FlushLog
  BY <1>5, FlushInv
<1>6. CASE UNCHANGED loggerVars
  BY <1>6 DEF loggerVars, LogInv, LogTypes, ListOk, HeadOk, ReadersOk,
              WritersOk, OneAtWork, WriterOk
<1> QED BY <1>1, <1>2, <1>3, <1>4, <1>5, <1>6 DEF LoggerNext

(* What logger.c keeps true of its buffer, its offsets and its readers in  *)
(* every state, for any size of the log, any lengths of entries and any    *)
(* number of readers, if writers are one or copies succeed.                *)
THEOREM LoggerInvariance ==
  ASSUME Quiet
  PROVE  LoggerSpec => []LogInv
<1>1. LoggerInit => LogInv
  BY LoggerInitInv
<1>2. LogInv /\ [LoggerNext]_loggerVars => LogInv'
  BY LoggerNextInv
<1> QED BY <1>1, <1>2, PTL DEF LoggerSpec

LEMMA RunIsWhole ==
  ASSUME LogTypes, NEW off \in Offsets, Whole(buffer, w_off, off, newest)
  PROVE  WholeFrom(off)
<1>0. /\ Size \in Nat \ {0} /\ w_off \in Offsets
      /\ buffer \in [Offsets -> Cells]
  BY LoggerAssumption DEF LogTypes
<1>1. PICK D \in Offsets : D = Dist(off, w_off)
  BY <1>0, DistIs
<1>2. D \in Nat /\ D < Size
  BY <1>0, <1>1 DEF Offsets
<1>3. PICK f : f = Run(buffer, w_off, off)
  OBVIOUS
<1>4. WholeRun(f, D, newest)
  BY <1>1, <1>3 DEF Whole
<1>5. \A d \in 0 .. D - 1 : f[d] = buffer[logger_offset(off + d)]
  BY <1>1, <1>3 DEF Run
<1>6. ASSUME NEW d \in 0 .. D - 1
      PROVE  \E s \in 0 .. d :
               LET o == logger_offset(off + s) IN
               /\ buffer[o].id # 0 /\ buffer[o].piece = 0 /\ Intact(o)
               /\ d < s + buffer[o].len
               /\ s + buffer[o].len <= D
  <2>1. /\ f[d] \in Cells /\ f[d].id # 0 /\ f[d].len \in Nat \ {0}
        /\ f[d].piece \in 0 .. d
        /\ f[d - f[d].piece].piece = 0
        /\ f[d - f[d].piece].len = f[d].len
        /\ d - f[d].piece + f[d].len \in d + 1 .. D
        /\ \A j \in 0 .. f[d].len - 1 :
             f[d - f[d].piece + j] = [f[d] EXCEPT !.piece = j]
    <3>1. CellOk(f, d, D)
      BY <1>4 DEF WholeRun
    <3>2. /\ f[d] \in Cells /\ f[d].len \in Nat \ {0} /\ f[d].piece \in 0 .. d
          /\ f[d - f[d].piece].piece = 0
          /\ f[d - f[d].piece].len = f[d].len
          /\ d - f[d].piece + f[d].len \in d + 1 .. D
      BY <1>2, <1>4, EntryOf
    <3> QED BY <3>1, <3>2 DEF CellOk
  <2>2. PICK s \in 0 .. d : s = d - f[d].piece
    BY <2>1
  <2>3. PICK l \in Nat \ {0} : l = f[d].len
    BY <2>1
  <2>4. s \in 0 .. D - 1 /\ s + l <= D /\ d < s + l
    BY <1>2, <2>1, <2>2, <2>3
  <2>5. \A j \in 0 .. l - 1 : f[s + j] = [f[d] EXCEPT !.piece = j]
    BY <2>1, <2>2, <2>3
  <2>6. f[s] = [f[d] EXCEPT !.piece = 0]
    <3>1. 0 \in 0 .. l - 1 /\ s + 0 = s
      BY <2>3
    <3> QED BY <2>5, <3>1
  <2>7. PICK o \in Offsets : o = logger_offset(off + s)
    <3>1. s \in 0 .. Size - 1
      BY <1>0, <1>2, <2>4
    <3> QED BY <3>1, SumIs
  <2>8. buffer[o] = f[s]
    BY <1>5, <2>4, <2>7
  <2>9. buffer[o].id # 0 /\ buffer[o].piece = 0 /\ buffer[o].len = l
    BY <2>1, <2>3, <2>6, <2>8 DEF Cells
  <2>10. ASSUME NEW j \in 0 .. l - 1
         PROVE  buffer[logger_offset(o + j)] = [buffer[o] EXCEPT !.piece = j]
    <3>1. s + j \in 0 .. D - 1 /\ s \in 0 .. D /\ j \in 0 .. D - s
      BY <1>2, <2>3, <2>4
    <3>2. logger_offset(o + j) = logger_offset(off + (s + j))
      BY <1>0, <1>1, <2>7, <3>1, Moved
    <3>3. buffer[logger_offset(o + j)] = [f[d] EXCEPT !.piece = j]
      BY <1>5, <2>5, <3>1, <3>2
    <3>4. [buffer[o] EXCEPT !.piece = j] = [f[d] EXCEPT !.piece = j]
      BY <2>1, <2>6, <2>8 DEF Cells
    <3> QED BY <3>3, <3>4
  <2>11. Intact(o)
    BY <2>9, <2>10 DEF Intact
  <2> QED BY <2>4, <2>7, <2>9, <2>11
<1> QED BY <1>1, <1>6 DEF WholeFrom

(* What readers have before them are whole entries, however often writers  *)
(* have lapped them: fix_up_readers pulls them forward far enough, and to  *)
(* the beginning of an entry.                                              *)
THEOREM EntriesWhole ==
  ASSUME Quiet
  PROVE  LoggerSpec => []WholeEntries
<1>1. ASSUME LogInv
      PROVE  WholeEntries
  <2>1. LogTypes /\ HeadOk /\ ReadersOk
    BY <1>1 DEF LogInv
  <2>2. WholeFrom(head)
    BY <2>1, RunIsWhole DEF HeadOk, ReadOk, LogTypes
  <2>3. ASSUME NEW r \in Range(readers)
        PROVE  WholeFrom(r_off[r])
    <3>1. r \in Readers
      BY <2>1 DEF LogTypes, Range
    <3>2. r_off[r] \in Offsets
      BY <2>1, <3>1 DEF LogTypes
    <3> QED BY <2>1, <3>2, RunIsWhole DEF ReadersOk, ReadOk
  <2> QED BY <2>2, <2>3 DEF WholeEntries
<1> QED BY <1>1, LoggerInvariance, PTL

(* A reader that finds the log empty has read the newest entry, or a flush *)
(* has dropped it.                                                         *)
THEOREM NewestNotLost ==
  ASSUME Quiet
  PROVE  LoggerSpec => []NewestKept
<1>1. LogInv => NewestKept
  BY DEF LogInv, ReadersOk, ReadOk, NewestKept
<1> QED BY <1>1, LoggerInvariance, PTL

(* Reads return entries in the order they were written, none twice, also   *)
(* across pulls and flushes.                                               *)
THEOREM ReadsInOrder ==
  ASSUME Quiet
  PROVE  LoggerSpec => ReadInOrder
<1> DEFINE Order == \A r \in Readers :
                      rd[r] = "ready" /\ rd'[r] = "idle" /\ r_off'[r] # r_off[r]
                        => seen'[r] > seen[r]
<1>1. ASSUME LogInv, [LoggerNext]_loggerVars
      PROVE  [Order]_loggerVars
  <2> SUFFICES ASSUME LoggerNext, NEW r \in Readers,
                      rd[r] = "ready", rd'[r] = "idle", r_off'[r] # r_off[r]
               PROVE  seen'[r] > seen[r]
    BY <1>1
  <2>0. rd \in [Readers -> {"closed", "idle", "check", "ready", "asleep"}]
    BY <1>1 DEF LogInv, LogTypes
  <2>1. ASSUME NEW w \in Writers,
               WriterStep(w) \/ \E n \in Lens : StartWrite(w, n)
        PROVE  FALSE
    <3>1. rd' = rd
      BY <2>1 DEF WriterStep, StartWrite, FixUpHead, FixUpReader,
                  do_write_log, WakeReaders, CopyFault
    <3> QED BY <3>1
  <2>2. ASSUME FlushLog
        PROVE  FALSE
    BY <2>2 DEF FlushLog
  <2>3. ASSUME NEW x \in Readers, ~ do_read_log_to_user(x),
               \/ ReaderStep(x) \/ logger_open(x) \/ logger_release(x)
               \/ PrepareToWait(x)
        PROVE  FALSE
    <3>1. CASE logger_open(x)
      BY <2>0, <3>1 DEF logger_open
    <3>2. CASE logger_release(x)
      BY <3>2 DEF logger_release
    <3>3. CASE PrepareToWait(x)
      BY <3>3 DEF PrepareToWait
    <3>4. CASE CheckLog(x)
      BY <3>4 DEF CheckLog
    <3>5. CASE ReadNothing(x)
      BY <3>5 DEF ReadNothing
    <3> QED BY <2>3, <3>1, <3>2, <3>3, <3>4, <3>5 DEF ReaderStep, Woken
  <2>4. PICK x \in Readers : do_read_log_to_user(x)
    BY <2>1, <2>2, <2>3 DEF LoggerNext
  <2>5. x = r
    BY <2>0, <2>4 DEF do_read_log_to_user
  <2> QED BY <1>1, <2>4, <2>5, ReadInv
<1> QED BY <1>1, LoggerInvariance, PTL DEF LoggerSpec, ReadInOrder
=============================================================================
