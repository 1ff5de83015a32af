------------------------------- MODULE Logger -------------------------------
(***************************************************************************)
(* One log of the Android logger (drivers/staging/android/logger.c): a     *)
(* ring buffer that writers overwrite while readers, each with an offset   *)
(* of its own, follow.  A writer that overtakes a reader pulls it forward. *)
(*                                                                         *)
(* The buffer is counted in cells instead of bytes.  An entry of n cells   *)
(* begins with the cell that holds its header; a cell records the entry it *)
(* is a piece of.  log->mutex is held for one step by readers, by ioctl    *)
(* and by open, and by a writer at the labels walk and copy.               *)
(***************************************************************************)
EXTENDS Naturals, Sequences, SequencesExt

CONSTANTS
  Size,        \* log->size
  Lens,        \* lengths of entries, header included
  Writers, Readers,
  NoReader,    \* the list has no more readers
  MaxWrites,   \* bound: writes that reach the buffer
  Faults       \* may copy_from_user fail

(* The logs are at least 16 times as long as LOGGER_ENTRY_MAX_LEN.         *)
ASSUME LoggerAssumption ==
  /\ Size \in Nat \ {0} /\ MaxWrites \in Nat
  /\ Lens \subseteq Nat \ {0} /\ \A n \in Lens : 4 * n <= Size
  /\ NoReader \notin Readers
  /\ Faults \in BOOLEAN

VARIABLES
  buffer,      \* log->buffer
  w_off, head, \* log->w_off, log->head
  readers,     \* the list log->readers
  r_off,       \* reader -> reader->r_off
  wq,          \* the readers on the wait queue log->wq
  rd,          \* reader -> where it is in logger_read
  wr,          \* writer -> where it is in logger_aio_write, with its locals
  cursor,      \* the reader that fix_up_readers looks at
  writes,      \* number of writes that reached the buffer
  newest,      \* the last entry written in full
  flushed,     \* the newest entry when the log was last flushed
  seen         \* reader -> the last entry it read

loggerVars == <<buffer, w_off, head, readers, r_off, wq, rd, wr, cursor,
                writes, newest, flushed, seen>>

Idle == [at |-> "idle", orig |-> 0, len |-> 0]

logger_offset(n) == n % Size

Dist(a, b) == (b + Size - a) % Size

Locked == \E w \in Writers : wr[w].at \in {"walk", "copy"}

LoggerInit ==
  /\ buffer = [o \in 0 .. Size - 1 |-> [id |-> 0, piece |-> 0, len |-> 1]]
  /\ w_off = 0 /\ head = 0
  /\ readers = << >>
  /\ r_off = [r \in Readers |-> 0]
  /\ wq = {}
  /\ rd = [r \in Readers |-> "closed"]
  /\ wr = [w \in Writers |-> Idle]
  /\ cursor = NoReader
  /\ writes = 0 /\ newest = 0 /\ flushed = 0
  /\ seen = [r \in Readers |-> 0]

-----------------------------------------------------------------------------
(* Entries.                                                                *)

(* The length of the entry at off.  A cell inside an entry holds any bytes *)
(* at all; that one is never asked for is what WholeEntries says.          *)
get_entry_len(off) == buffer[off].len

(* The loop goes through the least set of counts that has 0 and with each  *)
(* count the one behind its entry, and stops when that one reaches len.    *)
get_next_entry(off, len) ==
  LET Behind(n) == n + get_entry_len(logger_offset(off + n))
      Closed(S) == 0 \in S /\ \A n \in S : Behind(n) < len => Behind(n) \in S
      counts == {n \in 0 .. len - 1 :
                   \A S \in SUBSET (0 .. len - 1) : Closed(S) => n \in S}
  IN  logger_offset(off + Behind(CHOOSE n \in counts : Behind(n) >= len))

(* Mutant: a reader exactly at the new write head is left where it is. *)
OpenInterval(a, b, c) ==
  IF b < a THEN a < c \/ b > c ELSE a < c /\ b > c

clock_interval(a, b, c) ==
  IF b < a THEN a < c \/ b >= c ELSE a < c /\ b >= c

(* fix_up_readers for one offset, the head's or a reader's.                *)
PullForward(off, len) ==
  IF clock_interval(w_off, logger_offset(w_off + len), off)
    THEN get_next_entry(off, len) ELSE off

-----------------------------------------------------------------------------
(* logger_aio_write: the write offset is read, the mutex is taken, readers *)
(* are fixed up, the entry is copied, the mutex is released and readers    *)
(* are woken.                                                              *)

StartWrite(w, n) ==
  /\ wr[w].at = "idle"
  /\ writes < MaxWrites
  /\ wr' = [wr EXCEPT ![w] = [at |-> "lock", orig |-> w_off, len |-> n]]
  /\ UNCHANGED <<buffer, w_off, head, readers, r_off, wq, rd, cursor,
                 writes, newest, flushed, seen>>

FixUpHead(w) ==
  /\ wr[w].at = "lock"
  /\ ~ Locked
  /\ writes < MaxWrites
  /\ head' = PullForward(head, wr[w].len)
  /\ cursor' = IF readers = << >> THEN NoReader ELSE Head(readers)
  /\ wr' = [wr EXCEPT ![w].at = IF readers = << >> THEN "copy" ELSE "walk"]
  /\ UNCHANGED <<buffer, w_off, readers, r_off, wq, rd, writes, newest,
                 flushed, seen>>

(* A reader that is closed under list_for_each_entry is freed with its     *)
(* links poisoned: the writer gets no further, and keeps the mutex.        *)
FixUpReader(w) ==
  /\ wr[w].at = "walk"
  /\ \E i \in DOMAIN readers :
       /\ readers[i] = cursor
       /\ IF i < Len(readers)
            THEN cursor' = readers[i + 1] /\ UNCHANGED wr
            ELSE cursor' = NoReader /\ wr' = [wr EXCEPT ![w].at = "copy"]
  /\ r_off' = [r_off EXCEPT ![cursor] = PullForward(@, wr[w].len)]
  /\ UNCHANGED <<buffer, w_off, head, readers, wq, rd, writes, newest,
                 flushed, seen>>

(* The buffer after the first n cells of the entry of writer w.            *)
Written(w, n) ==
  [o \in DOMAIN buffer |->
     IF Dist(w_off, o) < n
       THEN [id |-> writes + 1, piece |-> Dist(w_off, o), len |-> wr[w].len]
       ELSE buffer[o]]

do_write_log(w) ==
  /\ wr[w].at = "copy"
  /\ buffer' = Written(w, wr[w].len)
  /\ w_off' = logger_offset(w_off + wr[w].len)
  /\ writes' = writes + 1
  /\ newest' = writes + 1
  /\ wr' = [wr EXCEPT ![w].at = "wake"]
  /\ UNCHANGED <<head, readers, r_off, wq, rd, cursor, flushed, seen>>

(* Mutant: the write offset is not taken back. *)
KeepPartial(w, n) ==
  /\ Faults
  /\ wr[w].at = "copy"
  /\ n <= wr[w].len
  /\ buffer' = Written(w, n)
  /\ w_off' = logger_offset(w_off + n)
  /\ writes' = writes + 1
  /\ wr' = [wr EXCEPT ![w] = Idle]
  /\ UNCHANGED <<head, readers, r_off, wq, rd, cursor, newest, flushed, seen>>

(* copy_from_user fails after n cells, the header's among them.            *)
CopyFault(w, n) ==
  /\ Faults
  /\ wr[w].at = "copy"
  /\ n <= wr[w].len
  /\ buffer' = Written(w, n)
  /\ w_off' = wr[w].orig
  /\ writes' = writes + 1
  /\ wr' = [wr EXCEPT ![w] = Idle]
  /\ UNCHANGED <<head, readers, r_off, wq, rd, cursor, newest, flushed, seen>>

(* Mutant: readers are not woken. *)
NoWake(w) ==
  /\ wr[w].at = "wake"
  /\ wr' = [wr EXCEPT ![w] = Idle]
  /\ UNCHANGED <<buffer, w_off, head, readers, r_off, wq, rd, cursor, writes,
                 newest, flushed, seen>>

WakeReaders(w) ==
  /\ wr[w].at = "wake"
  /\ wq' = {}
  /\ wr' = [wr EXCEPT ![w] = Idle]
  /\ UNCHANGED <<buffer, w_off, head, readers, r_off, rd, cursor, writes,
                 newest, flushed, seen>>

-----------------------------------------------------------------------------
(* Readers.                                                                *)

logger_open(r) ==
  /\ rd[r] = "closed"
  /\ ~ Locked
  /\ r_off' = [r_off EXCEPT ![r] = head]
  /\ readers' = Append(readers, r)
  /\ rd' = [rd EXCEPT ![r] = "idle"]
  /\ seen' = [seen EXCEPT ![r] = 0]
  /\ UNCHANGED <<buffer, w_off, head, wq, wr, cursor, writes, newest, flushed>>

(* list_del, without the mutex.                                            *)
logger_release(r) ==
  /\ rd[r] = "idle"
  /\ \E i \in DOMAIN readers :
       readers[i] = r /\ readers' = RemoveAt(readers, i)
  /\ rd' = [rd EXCEPT ![r] = "closed"]
  /\ UNCHANGED <<buffer, w_off, head, r_off, wq, wr, cursor, writes, newest,
                 flushed, seen>>

(* prepare_to_wait, for a new read and for a reader that was woken, by a   *)
(* writer or by a signal.                                                  *)
PrepareToWait(r) ==
  /\ rd[r] \in {"idle", "asleep"}
  /\ rd' = [rd EXCEPT ![r] = "check"]
  /\ wq' = wq \cup {r}
  /\ UNCHANGED <<buffer, w_off, head, readers, r_off, wr, cursor, writes,
                 newest, flushed, seen>>

Woken(r) == rd[r] = "asleep" /\ r \notin wq /\ PrepareToWait(r)

(* With nothing to read the read fails with EAGAIN or EINTR, or sleeps.    *)
CheckLog(r) ==
  /\ rd[r] = "check"
  /\ ~ Locked
  /\ IF w_off # r_off[r]
       THEN rd' = [rd EXCEPT ![r] = "ready"] /\ wq' = wq \ {r}
       ELSE \/ rd' = [rd EXCEPT ![r] = "idle"] /\ wq' = wq \ {r}
            \/ rd' = [rd EXCEPT ![r] = "asleep"] /\ UNCHANGED wq
  /\ UNCHANGED <<buffer, w_off, head, readers, r_off, wr, cursor, writes,
                 newest, flushed, seen>>

do_read_log_to_user(r) ==
  /\ rd[r] = "ready"
  /\ ~ Locked
  /\ w_off # r_off[r]
  /\ r_off' = [r_off EXCEPT ![r] =
                 logger_offset(@ + get_entry_len(r_off[r]))]
  /\ seen' = [seen EXCEPT ![r] = buffer[r_off[r]].id]
  /\ rd' = [rd EXCEPT ![r] = "idle"]
  /\ UNCHANGED <<buffer, w_off, head, readers, wq, wr, cursor, writes,
                 newest, flushed>>

(* Back to the start after a flush, EINVAL for a short buffer, or EFAULT.  *)
ReadNothing(r) ==
  /\ rd[r] = "ready"
  /\ ~ Locked
  /\ IF w_off = r_off[r]
       THEN rd' = [rd EXCEPT ![r] = "check"] /\ wq' = wq \cup {r}
       ELSE rd' = [rd EXCEPT ![r] = "idle"] /\ UNCHANGED wq
  /\ UNCHANGED <<buffer, w_off, head, readers, r_off, wr, cursor, writes,
                 newest, flushed, seen>>

(* Mutant: readers are sent to the old head. *)
FlushToHead ==
  /\ ~ Locked
  /\ r_off' = [r \in Readers |->
                 IF r \in Range(readers) THEN head ELSE r_off[r]]
  /\ head' = w_off
  /\ flushed' = newest
  /\ UNCHANGED <<buffer, w_off, readers, wq, rd, wr, cursor, writes, newest,
                 seen>>

(* The ioctl LOGGER_FLUSH_LOG.                                             *)
FlushLog ==
  /\ ~ Locked
  /\ r_off' = [r \in Readers |->
                 IF r \in Range(readers) THEN w_off ELSE r_off[r]]
  /\ head' = w_off
  /\ flushed' = newest
  /\ UNCHANGED <<buffer, w_off, readers, wq, rd, wr, cursor, writes, newest,
                 seen>>

-----------------------------------------------------------------------------
WriterStep(w) ==
  \/ FixUpHead(w) \/ FixUpReader(w) \/ do_write_log(w) \/ WakeReaders(w)
  \/ \E n \in 1 .. Size : CopyFault(w, n)

ReaderStep(r) ==
  Woken(r) \/ CheckLog(r) \/ do_read_log_to_user(r) \/ ReadNothing(r)

LoggerNext ==
  \/ \E w \in Writers : WriterStep(w) \/ \E n \in Lens : StartWrite(w, n)
  \/ \E r \in Readers :
       \/ ReaderStep(r)
       \/ logger_open(r)
       \/ logger_release(r)
       \/ PrepareToWait(r)
  \/ FlushLog

(* A thread inside a call is scheduled; the calls themselves are free.     *)
LoggerSpec ==
  /\ LoggerInit /\ [][LoggerNext]_loggerVars
  /\ \A w \in Writers : WF_loggerVars(WriterStep(w))
  /\ \A r \in Readers : WF_loggerVars(ReaderStep(r))

-----------------------------------------------------------------------------
Intact(o) ==
  \A j \in 0 .. buffer[o].len - 1 :
    buffer[logger_offset(o + j)] = [buffer[o] EXCEPT !.piece = j]

WholeFrom(off) ==
  \A d \in 0 .. Dist(off, w_off) - 1 :
    \E s \in 0 .. d :
      LET o == logger_offset(off + s) IN
      /\ buffer[o].id # 0 /\ buffer[o].piece = 0 /\ Intact(o)
      /\ d < s + buffer[o].len
      /\ s + buffer[o].len <= Dist(off, w_off)

(* "Atomically reads exactly one log entry": with no write under way, all  *)
(* that lies between a reader, or the place where new readers start, and   *)
(* the write head is whole entries, however often writers lapped it.       *)
WholeEntries ==
  ~ Locked => \A off \in {head} \cup {r_off[r] : r \in Range(readers)} :
                WholeFrom(off)

(* Readers lose old entries but never the newest: one that finds the log   *)
(* empty has read the newest entry, or the log was flushed since.          *)
NewestKept ==
  ~ Locked => \A r \in Range(readers) :
    r_off[r] = w_off => newest \in {seen[r], flushed}

(* A reader gets entries in the order they were written, none twice.       *)
ReadInOrder ==
  [][\A r \in Readers :
       rd[r] = "ready" /\ rd'[r] = "idle" /\ r_off'[r] # r_off[r]
         => seen'[r] > seen[r]]_loggerVars

(* "blocks until log is written to": a blocked reader with an entry to     *)
(* read is woken.                                                          *)
BlockedReaderWoken ==
  \A r \in Readers :
    rd[r] = "asleep" /\ r_off[r] # w_off /\ ~ Locked ~> rd[r] # "asleep"
=============================================================================
