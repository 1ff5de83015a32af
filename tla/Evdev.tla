------------------------------- MODULE Evdev --------------------------------
(***************************************************************************)
(* The event device of one input device (drivers/input/evdev.c) and what   *)
(* it uses of the input core (drivers/input/input.c): open, read, write,   *)
(* EVIOCGRAB and close by several clients, while the device reports events *)
(* and may be unplugged.                                                   *)
(*                                                                         *)
(* An event is passed on by walking the client list under rcu_read_lock,   *)
(* one client at a time; synchronize_rcu waits for the walk that is under  *)
(* way when it is called.  One walk runs at a time (dev->event_lock).  The *)
(* critical sections of evdev->mutex that wait are several steps, those of *)
(* client_lock, buffer_lock and dev->mutex are one.                        *)
(***************************************************************************)
EXTENDS Integers, FiniteSets, Sequences

CONSTANTS
  Clients,     \* evdev_clients, as blocks of memory
  Device,      \* the thread that unplugs the device
  None,        \* no client, no walk, no owner
  ListEnd,     \* the head of evdev->client_list
  BufferSize,  \* EVDEV_BUFFER_SIZE, a power of two
  MaxEvents    \* bound: events of the device

ASSUME EvdevAssumption ==
  /\ {Device, None, ListEnd} \cap Clients = {}
  /\ Device # None /\ None # ListEnd
  /\ IsFiniteSet(Clients)
  /\ BufferSize \in Nat \ {0, 1} /\ MaxEvents \in Nat

VARIABLES
  evdev,       \* struct evdev: exist, open, grab, mutex (its owner)
  handle,      \* the handle in the input core: open, grabbed, linked
  users,       \* dev->users, evdev's share
  next,        \* the links of client_list
  prev,
  walk,        \* evdev_event: pos, and single when it goes to a grabber
  event,       \* the number of the last event
  grace,       \* who waits in synchronize_rcu for the present walk
  pc,          \* client -> where its file is; Device -> where unplugging is
  ring,        \* client -> buffer, head, tail
  lock,        \* client -> its wake lock
  reader,      \* client -> where its reader is
  recent,      \* history: client -> the last BufferSize - 1 events passed
  lag,         \* history: client -> events passed and not fetched, since
               \* the buffer was last drained
  last         \* history: client -> the last event fetched

evdevVars == <<evdev, handle, users, next, prev, walk, event, grace, pc,
               ring, lock, reader, recent, lag, last>>

clientVars == <<ring, lock, reader, recent, lag, last>>
coreVars == <<handle, users>>
listVars == <<next, prev>>
walkVars == <<walk, event>>

Nodes == Clients \cup {ListEnd}

EmptyRing == [buffer |-> [i \in 0 .. BufferSize - 1 |-> 0],
              head |-> 0, tail |-> 0]
Idle == [pos |-> None, single |-> FALSE]

(* evdev_connect has installed the device.                                 *)
EvdevInit ==
  /\ evdev = [exist |-> TRUE, open |-> 0, grab |-> None, mutex |-> None]
  /\ handle = [open |-> 0, grabbed |-> FALSE, linked |-> TRUE]
  /\ users = 0
  /\ next = [n \in Nodes |-> ListEnd]
  /\ prev = [n \in Nodes |-> IF n = ListEnd THEN ListEnd ELSE None]
  /\ walk = Idle
  /\ event = 0
  /\ grace = {}
  /\ pc = [a \in Clients \cup {Device} |->
             IF a = Device THEN "present" ELSE "none"]
  /\ ring = [c \in Clients |-> EmptyRing]
  /\ lock = [c \in Clients |-> "none"]
  /\ reader = [c \in Clients |-> "idle"]
  /\ recent = [c \in Clients |-> << >>]
  /\ lag = [c \in Clients |-> 0]
  /\ last = [c \in Clients |-> 0]

Goto(a, label) == pc' = [pc EXCEPT ![a] = label]

(* synchronize_rcu, in two halves.                                         *)
StartGrace(a) == grace' = IF walk.pos = None THEN grace ELSE grace \cup {a}
Synchronized(a) == a \notin grace

MutexFree == evdev.mutex = None

-----------------------------------------------------------------------------
(* An event on its way to the clients.                                     *)

Unread(c) ==
  LET n == (ring[c].head - ring[c].tail) % BufferSize
  IN  [i \in 1 .. n |-> ring[c].buffer[(ring[c].tail + i - 1) % BufferSize]]

Newest(s, n) == IF Len(s) <= n THEN s ELSE SubSeq(s, Len(s) - n + 1, Len(s))

(* input_pass_event picks the handle, evdev_event the clients.             *)
BeginWalk ==
  /\ walk.pos = None
  /\ event < MaxEvents
  /\ handle.grabbed \/ (handle.linked /\ handle.open # 0)
  /\ event' = event + 1
  /\ walk' = IF evdev.grab # None
               THEN [pos |-> evdev.grab, single |-> TRUE]
               ELSE [pos |-> next[ListEnd], single |-> FALSE]

InputEvent ==
  /\ BeginWalk
  /\ UNCHANGED <<evdev, coreVars, listVars, grace, pc, clientVars>>

(* Mutant: the head is advanced before the event is stored. *)
AdvanceThenStore ==
  LET c == walk.pos
      h == (ring[c].head + 1) % BufferSize
  IN
  /\ c \in Clients
  /\ lock' = [lock EXCEPT ![c] = "on"]
  /\ ring' = [ring EXCEPT ![c].buffer[h] = event, ![c].head = h]
  /\ recent' = [recent EXCEPT ![c] = Newest(Append(@, event), BufferSize - 1)]
  /\ lag' = [lag EXCEPT ![c] = @ + 1]
  /\ walk' = [walk EXCEPT !.pos = IF walk.single THEN ListEnd ELSE next[c]]
  /\ UNCHANGED <<evdev, coreVars, listVars, event, grace, pc, reader, last>>

evdev_pass_event ==
  LET c == walk.pos
      r == ring[c]
  IN
  /\ c \in Clients
  /\ lock' = [lock EXCEPT ![c] = "on"]
  /\ ring' = [ring EXCEPT
                ![c].buffer[r.head] = event,
                ![c].head = (r.head + 1) % BufferSize]
  /\ recent' = [recent EXCEPT ![c] = Newest(Append(@, event), BufferSize - 1)]
  /\ lag' = [lag EXCEPT ![c] = @ + 1]
  /\ walk' = [walk EXCEPT !.pos = IF walk.single THEN ListEnd ELSE next[c]]
  /\ UNCHANGED <<evdev, coreVars, listVars, event, grace, pc, reader, last>>

WakeReaders ==
  [c \in Clients |-> IF reader[c] = "asleep" THEN "check" ELSE reader[c]]

EndWalk ==
  /\ walk.pos = ListEnd
  /\ walk' = Idle
  /\ grace' = {}
  /\ reader' = WakeReaders
  /\ UNCHANGED <<evdev, coreVars, listVars, event, pc, ring, lock, recent, lag,
                 last>>

(* The timeout of the wake lock, five seconds after the last event.        *)
LockExpires(c) ==
  /\ lock[c] = "on"
  /\ lock' = [lock EXCEPT ![c] = "expired"]
  /\ UNCHANGED <<evdev, coreVars, listVars, walkVars, grace, pc, ring, reader,
                 recent, lag, last>>

-----------------------------------------------------------------------------
(* evdev_open.                                                             *)

(* evdev_table still has the device: a client is made and attached.        *)
Open(c) ==
  /\ pc[c] = "none" /\ lock[c] = "none"
  /\ pc[Device] \in {"present", "going", "disconnected", "dead", "hungup"}
  /\ ring' = [ring EXCEPT ![c] = EmptyRing]
  /\ lock' = [lock EXCEPT ![c] = "off"]
  /\ recent' = [recent EXCEPT ![c] = << >>]
  /\ lag' = [lag EXCEPT ![c] = 0]
  /\ last' = [last EXCEPT ![c] = 0]
  /\ next' = [next EXCEPT ![prev[ListEnd]] = c, ![c] = ListEnd]
  /\ prev' = [prev EXCEPT ![ListEnd] = c, ![c] = prev[ListEnd]]
  /\ StartGrace(c)
  /\ Goto(c, "attached")
  /\ UNCHANGED <<evdev, coreVars, walkVars, reader>>

(* list_del_rcu: the client's own link to the next one stays as it is.     *)
Unlink(c) ==
  /\ next' = [next EXCEPT ![prev[c]] = next[c]]
  /\ prev' = [prev EXCEPT ![next[c]] = prev[c], ![c] = None]

(* evdev_open_device.  fails: a signal, or the driver's open fails.        *)
OpenDevice(c, fails) ==
  /\ pc[c] = "attached"
  /\ Synchronized(c)
  /\ MutexFree
  /\ LET first == evdev.open = 0
         error == \/ fails \/ ~ evdev.exist
                  \/ first /\ pc[Device] # "present"
     IN  IF error
           THEN /\ Unlink(c)
                /\ StartGrace(c)
                /\ Goto(c, "failed")
                /\ UNCHANGED <<evdev, coreVars>>
           ELSE /\ evdev' = [evdev EXCEPT !.open = @ + 1]
                /\ handle' = [handle EXCEPT !.open =
                                IF first THEN @ + 1 ELSE @]
                /\ users' = IF first THEN users + 1 ELSE users
                /\ Goto(c, "open")
                /\ UNCHANGED <<listVars, grace>>
  /\ UNCHANGED <<walkVars, clientVars>>

(* err_free_client: the wake lock is not destroyed.                        *)
FreeFailed(c) ==
  /\ pc[c] = "failed"
  /\ Synchronized(c)
  /\ Goto(c, "none")
  /\ UNCHANGED <<evdev, coreVars, listVars, walkVars, grace, clientVars>>

-----------------------------------------------------------------------------
(* evdev_read.                                                             *)

InFile == {"open", "write", "written", "grab", "grabbed", "ungrab",
           "ungrabbed"}

BeginRead(c) ==
  /\ pc[c] \in InFile
  /\ reader[c] = "idle"
  /\ reader' = [reader EXCEPT ![c] = "check"]
  /\ UNCHANGED <<evdev, coreVars, listVars, walkVars, grace, pc, ring, lock,
                 recent, lag, last>>

(* wait_event_interruptible, and the test after it.                        *)
WaitForEvent(c) ==
  /\ reader[c] = "check"
  /\ reader' = [reader EXCEPT ![c] =
                  IF ~ evdev.exist THEN "idle"
                  ELSE IF ring[c].head = ring[c].tail THEN "asleep"
                  ELSE "fetch"]
  /\ UNCHANGED <<evdev, coreVars, listVars, walkVars, grace, pc, ring, lock,
                 recent, lag, last>>

Interrupted(c) ==
  /\ reader[c] \in {"check", "asleep"}
  /\ reader' = [reader EXCEPT ![c] = "idle"]
  /\ UNCHANGED <<evdev, coreVars, listVars, walkVars, grace, pc, ring, lock,
                 recent, lag, last>>

(* Mutant: the buffer is compared before the tail is advanced. *)
NeverDrained(c, more) ==
  LET r == ring[c] IN
  /\ reader[c] = "fetch"
  /\ IF r.head = r.tail
       THEN /\ reader' = [reader EXCEPT ![c] = "idle"]
            /\ UNCHANGED <<ring, lock, lag, last>>
       ELSE /\ ring' = [ring EXCEPT ![c].tail = (@ + 1) % BufferSize]
            /\ lag' = [lag EXCEPT ![c] =
                         IF (r.tail + 1) % BufferSize = r.head THEN 0
                         ELSE @ - 1]
            /\ last' = [last EXCEPT ![c] = r.buffer[r.tail]]
            /\ reader' = [reader EXCEPT ![c] = IF more THEN @ ELSE "idle"]
            /\ UNCHANGED lock
  /\ UNCHANGED <<evdev, coreVars, listVars, walkVars, grace, pc, recent>>

(* One turn of the loop; more: the user's buffer has room for another.     *)
evdev_fetch_next_event(c, more) ==
  LET r == ring[c]
      tail == (r.tail + 1) % BufferSize
      drained == r.head = tail
  IN
  /\ reader[c] = "fetch"
  /\ IF r.head = r.tail
       THEN /\ reader' = [reader EXCEPT ![c] = "idle"]
            /\ UNCHANGED <<ring, lock, lag, last>>
       ELSE /\ ring' = [ring EXCEPT ![c].tail = tail]
            /\ lock' = [lock EXCEPT ![c] = IF drained THEN "off" ELSE @]
            /\ lag' = [lag EXCEPT ![c] = IF drained THEN 0 ELSE @ - 1]
            /\ last' = [last EXCEPT ![c] = r.buffer[r.tail]]
            /\ reader' = [reader EXCEPT ![c] = IF more THEN @ ELSE "idle"]
  /\ UNCHANGED <<evdev, coreVars, listVars, walkVars, grace, pc, recent>>

-----------------------------------------------------------------------------
(* evdev_write and EVIOCGRAB, under evdev->mutex.                          *)

(* mutex_lock_interruptible, and the device is still there.                *)
MayEnter == MutexFree /\ evdev.exist

BeginWrite(c) ==
  /\ pc[c] = "open"
  /\ MayEnter
  /\ evdev' = [evdev EXCEPT !.mutex = c]
  /\ Goto(c, "write")
  /\ UNCHANGED <<coreVars, listVars, walkVars, grace, clientVars>>

input_inject_event(c) ==
  /\ pc[c] = "write"
  /\ BeginWalk
  /\ grace' = grace \cup {c}
  /\ Goto(c, "written")
  /\ UNCHANGED <<evdev, coreVars, listVars, clientVars>>

EndWrite(c) ==
  /\ pc[c] \in {"write", "written"}
  /\ Synchronized(c)
  /\ evdev' = [evdev EXCEPT !.mutex = None]
  /\ Goto(c, "open")
  /\ UNCHANGED <<coreVars, listVars, walkVars, grace, clientVars>>

(* evdev_grab: input_grab_device, then evdev's own pointer.                *)
GrabDevice(c) ==
  /\ pc[c] = "open"
  /\ MayEnter
  /\ evdev.grab = None
  /\ ~ handle.grabbed
  /\ evdev' = [evdev EXCEPT !.mutex = c]
  /\ handle' = [handle EXCEPT !.grabbed = TRUE]
  /\ StartGrace(c)
  /\ Goto(c, "grab")
  /\ UNCHANGED <<users, listVars, walkVars, clientVars>>

AssignGrab(c) ==
  /\ pc[c] = "grab"
  /\ Synchronized(c)
  /\ evdev' = [evdev EXCEPT !.grab = c]
  /\ StartGrace(c)
  /\ Goto(c, "grabbed")
  /\ UNCHANGED <<coreVars, listVars, walkVars, clientVars>>

(* Mutant: no grace period after evdev->grab is set. *)
EndGrabAtOnce(c) ==
  /\ pc[c] = "grabbed"
  /\ evdev' = [evdev EXCEPT !.mutex = None]
  /\ Goto(c, "open")
  /\ UNCHANGED <<coreVars, listVars, walkVars, grace, clientVars>>

EndGrab(c) ==
  /\ pc[c] = "grabbed"
  /\ Synchronized(c)
  /\ evdev' = [evdev EXCEPT !.mutex = None]
  /\ Goto(c, "open")
  /\ UNCHANGED <<coreVars, listVars, walkVars, grace, clientVars>>

(* evdev_ungrab; release: for evdev_release rather than EVIOCGRAB.         *)
Ungrab(c, release) ==
  /\ pc[c] = "open"
  /\ evdev.grab = c
  /\ MutexFree
  /\ IF release THEN reader[c] = "idle" ELSE evdev.exist
  /\ evdev' = [evdev EXCEPT !.grab = None, !.mutex = c]
  /\ StartGrace(c)
  /\ Goto(c, IF release THEN "ungrab to release" ELSE "ungrab")
  /\ UNCHANGED <<coreVars, listVars, walkVars, clientVars>>

(* input_release_device waits too, if the device is still grabbed.         *)
ReleaseDevice(c) ==
  /\ pc[c] \in {"ungrab", "ungrab to release"}
  /\ Synchronized(c)
  /\ handle' = [handle EXCEPT !.grabbed = FALSE]
  /\ IF handle.grabbed THEN StartGrace(c) ELSE UNCHANGED grace
  /\ Goto(c, IF pc[c] = "ungrab" THEN "ungrabbed" ELSE "released")
  /\ UNCHANGED <<evdev, users, listVars, walkVars, clientVars>>

EndUngrab(c) ==
  /\ pc[c] \in {"ungrabbed", "released"}
  /\ Synchronized(c)
  /\ evdev' = [evdev EXCEPT !.mutex = None]
  /\ Goto(c, IF pc[c] = "ungrabbed" THEN "open" ELSE "detach")
  /\ UNCHANGED <<coreVars, listVars, walkVars, grace, clientVars>>

-----------------------------------------------------------------------------
(* evdev_release.                                                          *)

Release(c) ==
  /\ pc[c] = "open"
  /\ reader[c] = "idle"
  /\ MutexFree
  /\ evdev.grab # c
  /\ Goto(c, "detach")
  /\ UNCHANGED <<evdev, coreVars, listVars, walkVars, grace, clientVars>>

evdev_detach_client(c) ==
  /\ pc[c] = "detach"
  /\ Unlink(c)
  /\ StartGrace(c)
  /\ Goto(c, "detached")
  /\ UNCHANGED <<evdev, coreVars, walkVars, clientVars>>

(* Mutant: no grace period after the client left the list. *)
FreeAtOnce(c) ==
  /\ pc[c] = "detached"
  /\ lock' = [lock EXCEPT ![c] = "none"]
  /\ Goto(c, "freed")
  /\ UNCHANGED <<evdev, coreVars, listVars, walkVars, grace, ring, reader,
                 recent, lag, last>>

FreeClient(c) ==
  /\ pc[c] = "detached"
  /\ Synchronized(c)
  /\ lock' = [lock EXCEPT ![c] = "none"]
  /\ Goto(c, "freed")
  /\ UNCHANGED <<evdev, coreVars, listVars, walkVars, grace, ring, reader,
                 recent, lag, last>>

(* input_close_device: the last user waits for the walk under way.         *)
CloseInput(a) ==
  /\ users' = users - 1
  /\ handle' = [handle EXCEPT !.open = @ - 1, !.grabbed = FALSE]
  /\ IF handle.grabbed \/ handle.open = 1 THEN StartGrace(a)
     ELSE UNCHANGED grace

evdev_close_device(c) ==
  /\ pc[c] = "freed"
  /\ MutexFree
  /\ IF evdev.exist
       THEN /\ evdev' = [evdev EXCEPT !.open = @ - 1,
                           !.mutex = IF evdev.open = 1 THEN c ELSE None]
            /\ IF evdev.open = 1
                 THEN CloseInput(c) /\ Goto(c, "closing")
                 ELSE UNCHANGED <<coreVars, grace>> /\ Goto(c, "none")
       ELSE UNCHANGED <<evdev, coreVars, grace>> /\ Goto(c, "none")
  /\ UNCHANGED <<listVars, walkVars, clientVars>>

EndClose(c) ==
  /\ pc[c] = "closing"
  /\ Synchronized(c)
  /\ evdev' = [evdev EXCEPT !.mutex = None]
  /\ Goto(c, "none")
  /\ UNCHANGED <<coreVars, listVars, walkVars, grace, clientVars>>

-----------------------------------------------------------------------------
(* The device goes away: input_unregister_device and evdev_disconnect.     *)

GoingAway ==
  /\ pc[Device] = "present"
  /\ Goto(Device, "going")
  /\ UNCHANGED <<evdev, coreVars, listVars, walkVars, grace, clientVars>>

input_disconnect_device ==
  /\ pc[Device] = "going"
  /\ walk.pos = None
  /\ handle' = [handle EXCEPT !.open = 0]
  /\ Goto(Device, "disconnected")
  /\ UNCHANGED <<evdev, users, listVars, walkVars, grace, clientVars>>

evdev_mark_dead ==
  /\ pc[Device] = "disconnected"
  /\ MutexFree
  /\ evdev' = [evdev EXCEPT !.exist = FALSE]
  /\ Goto(Device, "dead")
  /\ UNCHANGED <<coreVars, listVars, walkVars, grace, clientVars>>

(* Mutant: sleeping readers are not told. *)
HangupSilently ==
  /\ pc[Device] = "dead"
  /\ Goto(Device, "hungup")
  /\ UNCHANGED <<evdev, coreVars, listVars, walkVars, grace, clientVars>>

evdev_hangup ==
  /\ pc[Device] = "dead"
  /\ reader' = WakeReaders
  /\ Goto(Device, "hungup")
  /\ UNCHANGED <<evdev, coreVars, listVars, walkVars, grace, ring, lock,
                 recent, lag, last>>

(* Mutant: the device is left to the clients to close. *)
CleanupLeavesOpen ==
  /\ pc[Device] = "hungup"
  /\ Goto(Device, "removed")
  /\ UNCHANGED <<evdev, coreVars, listVars, walkVars, grace, clientVars>>

(* evdev_remove_chrdev, and the rest of evdev_cleanup.                     *)
evdev_cleanup ==
  /\ pc[Device] = "hungup"
  /\ IF evdev.open > 0 THEN CloseInput(Device)
     ELSE UNCHANGED <<coreVars, grace>>
  /\ Goto(Device, "removed")
  /\ UNCHANGED <<evdev, listVars, walkVars, clientVars>>

input_unregister_handle ==
  /\ pc[Device] = "removed"
  /\ Synchronized(Device)
  /\ handle' = [handle EXCEPT !.linked = FALSE]
  /\ StartGrace(Device)
  /\ Goto(Device, "unlinked")
  /\ UNCHANGED <<evdev, users, listVars, walkVars, clientVars>>

EndDisconnect ==
  /\ pc[Device] = "unlinked"
  /\ Synchronized(Device)
  /\ Goto(Device, "gone")
  /\ UNCHANGED <<evdev, coreVars, listVars, walkVars, grace, clientVars>>

-----------------------------------------------------------------------------
WalkStep == evdev_pass_event \/ EndWalk

ReadStep(c) ==
  WaitForEvent(c) \/ \E more \in BOOLEAN : evdev_fetch_next_event(c, more)

(* What a client's file goes on to do once it has begun.                   *)
FileStep(c) ==
  \/ \E fails \in BOOLEAN : OpenDevice(c, fails)
  \/ FreeFailed(c) \/ EndWrite(c)
  \/ AssignGrab(c) \/ EndGrab(c) \/ ReleaseDevice(c) \/ EndUngrab(c)
  \/ evdev_detach_client(c) \/ FreeClient(c)
  \/ evdev_close_device(c) \/ EndClose(c)

UserStep(c) ==
  \/ Open(c) \/ BeginRead(c) \/ Interrupted(c)
  \/ BeginWrite(c) \/ input_inject_event(c)
  \/ GrabDevice(c) \/ Release(c)
  \/ \E release \in BOOLEAN : Ungrab(c, release)

DeviceStep ==
  \/ input_disconnect_device \/ evdev_mark_dead \/ evdev_hangup
  \/ evdev_cleanup \/ input_unregister_handle \/ EndDisconnect

EvdevNext ==
  \/ InputEvent \/ WalkStep \/ GoingAway \/ DeviceStep
  \/ \E c \in Clients :
       LockExpires(c) \/ ReadStep(c) \/ FileStep(c) \/ UserStep(c)

EvdevSpec == EvdevInit /\ [][EvdevNext]_evdevVars

-----------------------------------------------------------------------------
(* The type of the state.                                                  *)
EvdevTypeOK ==
  /\ evdev.grab \in Clients \cup {None}
  /\ evdev.mutex \in Clients \cup {None}
  /\ evdev.open \in 0 .. Cardinality(Clients)
  /\ walk.pos \in Clients \cup {None, ListEnd}
  /\ next \in [Nodes -> Nodes] /\ prev \in [Nodes -> Nodes \cup {None}]
  /\ grace \subseteq Clients \cup {Device}
  /\ handle.open \in -1 .. 1
  /\ users \in 0 .. 1
  /\ lock \in [Clients -> {"none", "off", "on", "expired"}]
  /\ reader \in [Clients -> {"idle", "check", "asleep", "fetch"}]

Opened(c) ==
  pc[c] \in InFile \cup {"ungrab to release", "released", "detach",
                         "detached", "freed"}

Freed(c) == pc[c] \in {"none", "freed", "closing"}

(* What the links lead to from a node: it is in every set that has the     *)
(* node and is closed under next.                                          *)
Reach(n) ==
  {m \in Nodes : \A S \in SUBSET Nodes :
     n \in S /\ (\A k \in S : next[k] \in S) => m \in S}

OnList == Reach(ListEnd)

(* The clients a walk may still come to.                                   *)
Ahead ==
  IF walk.single \/ walk.pos \in {None, ListEnd} THEN {walk.pos}
  ELSE Reach(walk.pos)

(* A client that is freed is neither on the list, nor grabbing, nor ahead  *)
(* of an event that is being passed on: every pointer to it was replaced   *)
(* and a grace period has gone by since.                                   *)
NothingDangles ==
  \A c \in Clients : Freed(c) =>
    c \notin OnList /\ c \notin Ahead /\ evdev.grab # c

(* Once EVIOCGRAB has returned, and until it is undone, an event on its    *)
(* way goes to the client that grabbed the device and to no other.         *)
GrabExclusive ==
  \A c \in Clients :
    evdev.grab = c /\ evdev.mutex # c /\ walk.pos # None
      => walk.single /\ walk.pos \in {c, ListEnd}

(* What a client will read next are the newest events it was passed, in    *)
(* order and none of them read before, however often the ring was overrun. *)
UnreadNewest ==
  \A c \in Clients : ~ Freed(c) =>
    LET u == Unread(c) IN
    /\ u = Newest(recent[c], Len(u))
    /\ \A i \in DOMAIN u : u[i] > last[c]

(* The wake lock of a client is taken until the client has read all its    *)
(* events or the timeout; the buffer shows the events modulo its size, so  *)
(* that a lock without an event to read is one whose buffer was overrun.   *)
LockUntilRead ==
  \A c \in Clients : ~ Freed(c) =>
    /\ (lock[c] \in {"on", "expired"}) <=> lag[c] > 0
    /\ Len(Unread(c)) = lag[c] % BufferSize

(* A reader does not sleep through an event or the end of the device: the  *)
(* wakeup is still to come when there is a reason for one.                 *)
ReaderNoticed ==
  \A c \in Clients : reader[c] = "asleep" =>
    /\ ring[c].head # ring[c].tail => walk.pos # None
    /\ ~ evdev.exist => pc[Device] = "dead"

(* The device is open while a client uses it and closed once, by the last  *)
(* client or, if that comes first, by the disconnection.                   *)
ClosedOnce ==
  /\ evdev.exist => users = (IF evdev.open > 0 THEN 1 ELSE 0)
  /\ evdev.exist => evdev.open =
       Cardinality({c \in Clients : Opened(c)})
  /\ pc[Device] \in {"removed", "unlinked", "gone"} => users = 0
=============================================================================
