---------------------------- MODULE EvdevProofs -----------------------------
(***************************************************************************)
(* For any number of clients and any size of their buffers: a grab of the  *)
(* event device is exclusive, no reader sleeps through an event or the end *)
(* of the device, and the device is closed once; no pointer leads to a     *)
(* client that is freed, a client reads the newest events once and in      *)
(* order, and its wake lock is held until it has read them.                *)
(***************************************************************************)
EXTENDS Evdev, FiniteSetTheorems, SequenceTheorems, TLAPS

(* The places in the operations on the device.                             *)
Labels ==
  {"none", "attached", "failed", "open", "write", "written", "grab",
   "grabbed", "ungrab", "ungrab to release", "ungrabbed", "released",
   "detach", "detached", "freed", "closing",
   "present", "going", "disconnected", "dead", "hungup", "removed",
   "unlinked", "gone"}

(* The types the proofs need; numbers are bounded by OpenInv.              *)
TypeEvdev ==
  evdev \in [exist : BOOLEAN, open : Int, grab : Clients \cup {None},
             mutex : Clients \cup {None}]
TypeHandle == handle \in [open : Int, grabbed : BOOLEAN, linked : BOOLEAN]
TypeUsers == users \in Int
TypeNext == next \in [Nodes -> Nodes]
TypePrev == prev \in [Nodes -> Nodes \cup {None}]
TypeWalk == walk \in [pos : Clients \cup {None, ListEnd}, single : BOOLEAN]
TypeGrace == grace \subseteq Clients \cup {Device}
TypePc == pc \in [Clients \cup {Device} -> Labels]
TypeRing ==
  ring \in [Clients -> [buffer : [0 .. BufferSize - 1 -> Int],
                        head : Int, tail : Int]]
TypeEvent == event \in Int
TypeLock == lock \in [Clients -> {"none", "off", "on", "expired"}]
TypeReader == reader \in [Clients -> {"idle", "check", "asleep", "fetch"}]

EvTypes ==
  /\ TypeEvdev /\ TypeHandle /\ TypeUsers /\ TypeNext /\ TypePrev /\ TypeWalk
  /\ TypeGrace /\ TypePc /\ TypeRing /\ TypeEvent /\ TypeLock /\ TypeReader

(* Where a client's file holds evdev->mutex.                               *)
Inside == {"write", "written", "grab", "grabbed", "ungrab",
           "ungrab to release", "ungrabbed", "released", "closing"}

(* Who grabs the device, and the one reason for an event to be on its way  *)
(* to others: the grab is not complete, and waits for that very event.     *)
GrabOf(c) ==
  /\ evdev.mutex = c <=> pc[c] \in Inside
  /\ evdev.grab = c => pc[c] \in {"open", "write", "written", "grabbed"}
  /\ pc[c] = "grab" => evdev.grab = None
  /\ evdev.grab = c /\ walk.pos # None =>
       \/ walk.single /\ walk.pos \in {c, ListEnd}
       \/ pc[c] = "grabbed" /\ c \in grace

GrabInv == \A c \in Clients : GrabOf(c)

(* evdev->exist follows the disconnection.                                 *)
ExistInv ==
  evdev.exist <=> pc[Device] \in {"present", "going", "disconnected"}

Users == {c \in Clients : Opened(c)}

(* How often the device is open, in evdev, in the handle and for the input *)
(* core.  A handle is closed once more after input_disconnect_device has   *)
(* set its count to 0.                                                     *)
OpenInv ==
  /\ evdev.open \in 0 .. Cardinality(Clients)
  /\ evdev.exist => evdev.open = Cardinality(Users)
  /\ users = IF pc[Device] \in {"removed", "unlinked", "gone"} THEN 0
             ELSE IF evdev.open > 0 THEN 1 ELSE 0
  /\ IF pc[Device] \in {"present", "going"} THEN handle.open = users
     ELSE handle.open \in -1 .. 0 /\ (users = 1 => handle.open = 0)

EvInv == EvTypes /\ GrabInv /\ ExistInv /\ ReaderNoticed /\ OpenInv

USE DEF coreVars, walkVars, clientVars, listVars, Nodes

LEMMA ModInt == \A x \in Int : x % BufferSize \in Int
BY EvdevAssumption

(* Types are kept.                                                         *)
LEMMA TypeStep ==
  ASSUME EvInv, EvdevNext
  PROVE  EvTypes'
<1>1. CASE InputEvent
  <2>1. TypeEvent'
    BY <1>1, EvdevAssumption
       DEF EvInv, EvTypes, TypeEvent, InputEvent, BeginWalk
  <2>2. TypeWalk'
    BY <1>1, EvdevAssumption
       DEF EvInv, EvTypes, TypeWalk, TypeEvdev, TypeNext, TypePrev,
         InputEvent, BeginWalk
  <2>3. (TypeEvdev /\ TypeHandle /\ TypeUsers /\ TypeNext /\ TypePrev
         /\ TypeGrace /\ TypePc /\ TypeRing /\ TypeLock /\ TypeReader)'
    BY <1>1
       DEF EvInv, EvTypes, TypeEvdev, TypeHandle, TypeUsers, TypeNext,
         TypePrev, TypeGrace, TypePc, TypeRing, TypeLock, TypeReader,
         InputEvent, BeginWalk
  <2> QED BY <2>1, <2>2, <2>3 DEF EvTypes
<1>2. CASE evdev_pass_event
  <2>1. TypeLock'
    BY <1>2, EvdevAssumption
       DEF EvInv, EvTypes, TypeLock, evdev_pass_event
  <2>2. TypeRing'
    <3>1. walk.pos \in Clients => ring[walk.pos].head \in Int
      BY DEF EvInv, EvTypes, TypeRing
    <3>2. walk.pos \in Clients => ring[walk.pos].head + 1 \in Int
      BY <3>1
    <3>3. walk.pos \in Clients =>
            (ring[walk.pos].head + 1) % BufferSize \in Int
      BY <3>2, ModInt
    <3>4. event \in Int
      BY DEF EvInv, EvTypes, TypeEvent
    <3> QED BY <1>2, <3>3, <3>4 DEF EvInv, EvTypes, TypeRing, evdev_pass_event
  <2>3. TypeWalk'
    BY <1>2, EvdevAssumption
       DEF EvInv, EvTypes, TypeWalk, TypeEvdev, TypeNext, TypePrev,
         evdev_pass_event
  <2>4. (TypeEvdev /\ TypeHandle /\ TypeUsers /\ TypeNext /\ TypePrev
         /\ TypeGrace /\ TypePc /\ TypeEvent /\ TypeReader)'
    BY <1>2
       DEF EvInv, EvTypes, TypeEvdev, TypeHandle, TypeUsers, TypeNext,
         TypePrev, TypeGrace, TypePc, TypeEvent, TypeReader, evdev_pass_event
  <2> QED BY <2>1, <2>2, <2>3, <2>4 DEF EvTypes
<1>3. CASE EndWalk
  <2>1. TypeWalk'
    BY <1>3, EvdevAssumption
       DEF EvInv, EvTypes, TypeWalk, TypeEvdev, TypeNext, TypePrev, EndWalk,
         WakeReaders, Idle
  <2>2. TypeGrace'
    BY <1>3, EvdevAssumption
       DEF EvInv, EvTypes, TypeGrace, EndWalk, WakeReaders, Idle
  <2>3. TypeReader'
    BY <1>3, EvdevAssumption
       DEF EvInv, EvTypes, TypeReader, EndWalk, WakeReaders, Idle
  <2>4. (TypeEvdev /\ TypeHandle /\ TypeUsers /\ TypeNext /\ TypePrev /\ TypePc
         /\ TypeRing /\ TypeEvent /\ TypeLock)'
    BY <1>3
       DEF EvInv, EvTypes, TypeEvdev, TypeHandle, TypeUsers, TypeNext,
         TypePrev, TypePc, TypeRing, TypeEvent, TypeLock, EndWalk,
         WakeReaders, Idle
  <2> QED BY <2>1, <2>2, <2>3, <2>4 DEF EvTypes
<1>4. CASE GoingAway
  <2>1. TypePc'
    BY <1>4, EvdevAssumption
       DEF EvInv, EvTypes, TypePc, Labels, GoingAway, Goto
  <2>2. (TypeEvdev /\ TypeHandle /\ TypeUsers /\ TypeNext /\ TypePrev
         /\ TypeWalk /\ TypeGrace /\ TypeRing /\ TypeEvent /\ TypeLock
         /\ TypeReader)'
    BY <1>4
       DEF EvInv, EvTypes, TypeEvdev, TypeHandle, TypeUsers, TypeNext,
         TypePrev, TypeWalk, TypeGrace, TypeRing, TypeEvent, TypeLock,
         TypeReader, GoingAway, Goto
  <2> QED BY <2>1, <2>2 DEF EvTypes
<1>5. CASE input_disconnect_device
  <2>1. TypeHandle'
    BY <1>5, EvdevAssumption
       DEF EvInv, EvTypes, TypeHandle, input_disconnect_device, Goto
  <2>2. TypePc'
    BY <1>5, EvdevAssumption
       DEF EvInv, EvTypes, TypePc, Labels, input_disconnect_device, Goto
  <2>3. (TypeEvdev /\ TypeUsers /\ TypeNext /\ TypePrev /\ TypeWalk
         /\ TypeGrace /\ TypeRing /\ TypeEvent /\ TypeLock /\ TypeReader)'
    BY <1>5
       DEF EvInv, EvTypes, TypeEvdev, TypeUsers, TypeNext, TypePrev, TypeWalk,
         TypeGrace, TypeRing, TypeEvent, TypeLock, TypeReader,
         input_disconnect_device, Goto
  <2> QED BY <2>1, <2>2, <2>3 DEF EvTypes
<1>6. CASE evdev_mark_dead
  <2>1. TypeEvdev'
    BY <1>6, EvdevAssumption
       DEF EvInv, EvTypes, TypeEvdev, evdev_mark_dead, Goto, MutexFree
  <2>2. TypePc'
    BY <1>6, EvdevAssumption
       DEF EvInv, EvTypes, TypePc, Labels, evdev_mark_dead, Goto, MutexFree
  <2>3. (TypeHandle /\ TypeUsers /\ TypeNext /\ TypePrev /\ TypeWalk
         /\ TypeGrace /\ TypeRing /\ TypeEvent /\ TypeLock /\ TypeReader)'
    BY <1>6
       DEF EvInv, EvTypes, TypeHandle, TypeUsers, TypeNext, TypePrev, TypeWalk,
         TypeGrace, TypeRing, TypeEvent, TypeLock, TypeReader, evdev_mark_dead,
         Goto, MutexFree
  <2> QED BY <2>1, <2>2, <2>3 DEF EvTypes
<1>7. CASE evdev_hangup
  <2>1. TypeReader'
    BY <1>7, EvdevAssumption
       DEF EvInv, EvTypes, TypeReader, evdev_hangup, WakeReaders, Goto
  <2>2. TypePc'
    BY <1>7, EvdevAssumption
       DEF EvInv, EvTypes, TypePc, Labels, evdev_hangup, WakeReaders, Goto
  <2>3. (TypeEvdev /\ TypeHandle /\ TypeUsers /\ TypeNext /\ TypePrev
         /\ TypeWalk /\ TypeGrace /\ TypeRing /\ TypeEvent /\ TypeLock)'
    BY <1>7
       DEF EvInv, EvTypes, TypeEvdev, TypeHandle, TypeUsers, TypeNext,
         TypePrev, TypeWalk, TypeGrace, TypeRing, TypeEvent, TypeLock,
         evdev_hangup, WakeReaders, Goto
  <2> QED BY <2>1, <2>2, <2>3 DEF EvTypes
<1>8. CASE evdev_cleanup
  <2>1. TypeUsers'
    BY <1>8, EvdevAssumption
       DEF EvInv, EvTypes, TypeUsers, evdev_cleanup, CloseInput, StartGrace,
         Goto
  <2>2. TypeHandle'
    <3>1. handle.open \in Int /\ handle.open - 1 \in Int
      BY DEF EvInv, EvTypes, TypeHandle
    <3> QED BY <1>8, <3>1 DEF EvInv, EvTypes, TypeHandle, evdev_cleanup,
      CloseInput
  <2>3. TypeGrace'
    BY <1>8, EvdevAssumption
       DEF EvInv, EvTypes, TypeGrace, evdev_cleanup, CloseInput, StartGrace,
         Goto
  <2>4. TypePc'
    BY <1>8, EvdevAssumption
       DEF EvInv, EvTypes, TypePc, Labels, evdev_cleanup, CloseInput,
         StartGrace, Goto
  <2>5. (TypeEvdev /\ TypeNext /\ TypePrev /\ TypeWalk /\ TypeRing /\ TypeEvent
         /\ TypeLock /\ TypeReader)'
    BY <1>8
       DEF EvInv, EvTypes, TypeEvdev, TypeNext, TypePrev, TypeWalk, TypeRing,
         TypeEvent, TypeLock, TypeReader, evdev_cleanup, CloseInput,
         StartGrace, Goto
  <2> QED BY <2>1, <2>2, <2>3, <2>4, <2>5 DEF EvTypes
<1>9. CASE input_unregister_handle
  <2>1. TypeHandle'
    BY <1>9, EvdevAssumption
       DEF EvInv, EvTypes, TypeHandle, input_unregister_handle, StartGrace,
         Goto
  <2>2. TypeGrace'
    BY <1>9, EvdevAssumption
       DEF EvInv, EvTypes, TypeGrace, input_unregister_handle, StartGrace, Goto
  <2>3. TypePc'
    BY <1>9, EvdevAssumption
       DEF EvInv, EvTypes, TypePc, Labels, input_unregister_handle, StartGrace,
         Goto
  <2>4. (TypeEvdev /\ TypeUsers /\ TypeNext /\ TypePrev /\ TypeWalk /\ TypeRing
         /\ TypeEvent /\ TypeLock /\ TypeReader)'
    BY <1>9
       DEF EvInv, EvTypes, TypeEvdev, TypeUsers, TypeNext, TypePrev, TypeWalk,
         TypeRing, TypeEvent, TypeLock, TypeReader, input_unregister_handle,
         StartGrace, Goto
  <2> QED BY <2>1, <2>2, <2>3, <2>4 DEF EvTypes
<1>10. CASE EndDisconnect
  <2>1. TypePc'
    BY <1>10, EvdevAssumption
       DEF EvInv, EvTypes, TypePc, Labels, EndDisconnect, Goto
  <2>2. (TypeEvdev /\ TypeHandle /\ TypeUsers /\ TypeNext /\ TypePrev
         /\ TypeWalk /\ TypeGrace /\ TypeRing /\ TypeEvent /\ TypeLock
         /\ TypeReader)'
    BY <1>10
       DEF EvInv, EvTypes, TypeEvdev, TypeHandle, TypeUsers, TypeNext,
         TypePrev, TypeWalk, TypeGrace, TypeRing, TypeEvent, TypeLock,
         TypeReader, EndDisconnect, Goto
  <2> QED BY <2>1, <2>2 DEF EvTypes
<1>11. ASSUME NEW c \in Clients, LockExpires(c)
      PROVE  EvTypes'
  <2>1. TypeLock'
    BY <1>11, EvdevAssumption
       DEF EvInv, EvTypes, TypeLock, LockExpires
  <2>2. (TypeEvdev /\ TypeHandle /\ TypeUsers /\ TypeNext /\ TypePrev
         /\ TypeWalk /\ TypeGrace /\ TypePc /\ TypeRing /\ TypeEvent
         /\ TypeReader)'
    BY <1>11
       DEF EvInv, EvTypes, TypeEvdev, TypeHandle, TypeUsers, TypeNext,
         TypePrev, TypeWalk, TypeGrace, TypePc, TypeRing, TypeEvent,
         TypeReader, LockExpires
  <2> QED BY <2>1, <2>2 DEF EvTypes
<1>12. ASSUME NEW c \in Clients, WaitForEvent(c)
      PROVE  EvTypes'
  <2>1. TypeReader'
    BY <1>12, EvdevAssumption
       DEF EvInv, EvTypes, TypeReader, WaitForEvent
  <2>2. (TypeEvdev /\ TypeHandle /\ TypeUsers /\ TypeNext /\ TypePrev
         /\ TypeWalk /\ TypeGrace /\ TypePc /\ TypeRing /\ TypeEvent
         /\ TypeLock)'
    BY <1>12
       DEF EvInv, EvTypes, TypeEvdev, TypeHandle, TypeUsers, TypeNext,
         TypePrev, TypeWalk, TypeGrace, TypePc, TypeRing, TypeEvent, TypeLock,
         WaitForEvent
  <2> QED BY <2>1, <2>2 DEF EvTypes
<1>13. ASSUME NEW c \in Clients, FreeFailed(c)
      PROVE  EvTypes'
  <2>1. TypePc'
    BY <1>13, EvdevAssumption
       DEF EvInv, EvTypes, TypePc, Labels, FreeFailed, Goto
  <2>2. (TypeEvdev /\ TypeHandle /\ TypeUsers /\ TypeNext /\ TypePrev
         /\ TypeWalk /\ TypeGrace /\ TypeRing /\ TypeEvent /\ TypeLock
         /\ TypeReader)'
    BY <1>13
       DEF EvInv, EvTypes, TypeEvdev, TypeHandle, TypeUsers, TypeNext,
         TypePrev, TypeWalk, TypeGrace, TypeRing, TypeEvent, TypeLock,
         TypeReader, FreeFailed, Goto
  <2> QED BY <2>1, <2>2 DEF EvTypes
<1>14. ASSUME NEW c \in Clients, EndWrite(c)
      PROVE  EvTypes'
  <2>1. TypeEvdev'
    BY <1>14, EvdevAssumption
       DEF EvInv, EvTypes, TypeEvdev, EndWrite, Goto
  <2>2. TypePc'
    BY <1>14, EvdevAssumption
       DEF EvInv, EvTypes, TypePc, Labels, EndWrite, Goto
  <2>3. (TypeHandle /\ TypeUsers /\ TypeNext /\ TypePrev /\ TypeWalk
         /\ TypeGrace /\ TypeRing /\ TypeEvent /\ TypeLock /\ TypeReader)'
    BY <1>14
       DEF EvInv, EvTypes, TypeHandle, TypeUsers, TypeNext, TypePrev, TypeWalk,
         TypeGrace, TypeRing, TypeEvent, TypeLock, TypeReader, EndWrite, Goto
  <2> QED BY <2>1, <2>2, <2>3 DEF EvTypes
<1>15. ASSUME NEW c \in Clients, AssignGrab(c)
      PROVE  EvTypes'
  <2>1. TypeEvdev'
    BY <1>15, EvdevAssumption
       DEF EvInv, EvTypes, TypeEvdev, AssignGrab, StartGrace, Goto,
         Synchronized
  <2>2. TypeGrace'
    BY <1>15, EvdevAssumption
       DEF EvInv, EvTypes, TypeGrace, AssignGrab, StartGrace, Goto,
         Synchronized
  <2>3. TypePc'
    BY <1>15, EvdevAssumption
       DEF EvInv, EvTypes, TypePc, Labels, AssignGrab, StartGrace, Goto,
         Synchronized
  <2>4. (TypeHandle /\ TypeUsers /\ TypeNext /\ TypePrev /\ TypeWalk
         /\ TypeRing /\ TypeEvent /\ TypeLock /\ TypeReader)'
    BY <1>15
       DEF EvInv, EvTypes, TypeHandle, TypeUsers, TypeNext, TypePrev,
         TypeWalk, TypeRing, TypeEvent, TypeLock, TypeReader, AssignGrab,
         StartGrace, Goto, Synchronized
  <2> QED BY <2>1, <2>2, <2>3, <2>4 DEF EvTypes
<1>16. ASSUME NEW c \in Clients, EndGrab(c)
      PROVE  EvTypes'
  <2>1. TypeEvdev'
    BY <1>16, EvdevAssumption
       DEF EvInv, EvTypes, TypeEvdev, EndGrab, Goto, Synchronized
  <2>2. TypePc'
    BY <1>16, EvdevAssumption
       DEF EvInv, EvTypes, TypePc, Labels, EndGrab, Goto, Synchronized
  <2>3. (TypeHandle /\ TypeUsers /\ TypeNext /\ TypePrev /\ TypeWalk
         /\ TypeGrace /\ TypeRing /\ TypeEvent /\ TypeLock /\ TypeReader)'
    BY <1>16
       DEF EvInv, EvTypes, TypeHandle, TypeUsers, TypeNext, TypePrev, TypeWalk,
         TypeGrace, TypeRing, TypeEvent, TypeLock, TypeReader, EndGrab, Goto,
         Synchronized
  <2> QED BY <2>1, <2>2, <2>3 DEF EvTypes
<1>17. ASSUME NEW c \in Clients, ReleaseDevice(c)
      PROVE  EvTypes'
  <2>1. TypeHandle'
    BY <1>17, EvdevAssumption
       DEF EvInv, EvTypes, TypeHandle, ReleaseDevice, StartGrace, Goto
  <2>2. TypeGrace'
    BY <1>17, EvdevAssumption
       DEF EvInv, EvTypes, TypeGrace, ReleaseDevice, StartGrace, Goto
  <2>3. TypePc'
    BY <1>17, EvdevAssumption
       DEF EvInv, EvTypes, TypePc, Labels, ReleaseDevice, StartGrace, Goto
  <2>4. (TypeEvdev /\ TypeUsers /\ TypeNext /\ TypePrev /\ TypeWalk /\ TypeRing
         /\ TypeEvent /\ TypeLock /\ TypeReader)'
    BY <1>17
       DEF EvInv, EvTypes, TypeEvdev, TypeUsers, TypeNext, TypePrev, TypeWalk,
         TypeRing, TypeEvent, TypeLock, TypeReader, ReleaseDevice, StartGrace,
         Goto
  <2> QED BY <2>1, <2>2, <2>3, <2>4 DEF EvTypes
<1>18. ASSUME NEW c \in Clients, EndUngrab(c)
      PROVE  EvTypes'
  <2>1. TypeEvdev'
    BY <1>18, EvdevAssumption
       DEF EvInv, EvTypes, TypeEvdev, EndUngrab, Goto
  <2>2. TypePc'
    BY <1>18, EvdevAssumption
       DEF EvInv, EvTypes, TypePc, Labels, EndUngrab, Goto
  <2>3. (TypeHandle /\ TypeUsers /\ TypeNext /\ TypePrev /\ TypeWalk
         /\ TypeGrace /\ TypeRing /\ TypeEvent /\ TypeLock /\ TypeReader)'
    BY <1>18
       DEF EvInv, EvTypes, TypeHandle, TypeUsers, TypeNext, TypePrev, TypeWalk,
         TypeGrace, TypeRing, TypeEvent, TypeLock, TypeReader, EndUngrab, Goto
  <2> QED BY <2>1, <2>2, <2>3 DEF EvTypes
<1>19. ASSUME NEW c \in Clients, evdev_detach_client(c)
      PROVE  EvTypes'
  <2>1. TypeNext' /\ TypePrev'
    BY <1>19, EvdevAssumption
       DEF EvInv, EvTypes, TypeNext, TypePrev, evdev_detach_client, Unlink,
         StartGrace, Goto
  <2>2. TypeGrace'
    BY <1>19, EvdevAssumption
       DEF EvInv, EvTypes, TypeGrace, evdev_detach_client, Unlink, StartGrace,
         Goto
  <2>3. TypePc'
    BY <1>19, EvdevAssumption
       DEF EvInv, EvTypes, TypePc, Labels, evdev_detach_client, Unlink,
         StartGrace, Goto
  <2>4. (TypeEvdev /\ TypeHandle /\ TypeUsers /\ TypeWalk /\ TypeRing
         /\ TypeEvent /\ TypeLock /\ TypeReader)'
    BY <1>19
       DEF EvInv, EvTypes, TypeEvdev, TypeHandle, TypeUsers, TypeWalk,
         TypeRing, TypeEvent, TypeLock, TypeReader, evdev_detach_client,
         Unlink, StartGrace, Goto
  <2> QED BY <2>1, <2>2, <2>3, <2>4 DEF EvTypes
<1>20. ASSUME NEW c \in Clients, FreeClient(c)
      PROVE  EvTypes'
  <2>1. TypeLock'
    BY <1>20, EvdevAssumption
       DEF EvInv, EvTypes, TypeLock, FreeClient, Goto
  <2>2. TypePc'
    BY <1>20, EvdevAssumption
       DEF EvInv, EvTypes, TypePc, Labels, FreeClient, Goto
  <2>3. (TypeEvdev /\ TypeHandle /\ TypeUsers /\ TypeNext /\ TypePrev
         /\ TypeWalk /\ TypeGrace /\ TypeRing /\ TypeEvent /\ TypeReader)'
    BY <1>20
       DEF EvInv, EvTypes, TypeEvdev, TypeHandle, TypeUsers, TypeNext,
         TypePrev, TypeWalk, TypeGrace, TypeRing, TypeEvent, TypeReader,
         FreeClient, Goto
  <2> QED BY <2>1, <2>2, <2>3 DEF EvTypes
<1>21. ASSUME NEW c \in Clients, evdev_close_device(c)
      PROVE  EvTypes'
  <2>1. TypeEvdev'
    <3>1. evdev.open \in Int /\ evdev.open - 1 \in Int
      BY DEF EvInv, EvTypes, TypeEvdev
    <3>2. CASE evdev.exist
      BY <1>21, <3>1, <3>2 DEF EvInv, EvTypes, TypeEvdev, evdev_close_device
    <3>3. CASE ~ evdev.exist
      BY <1>21, <3>3 DEF EvInv, EvTypes, TypeEvdev, evdev_close_device
    <3> QED BY <3>2, <3>3
  <2>2. TypeUsers'
    BY <1>21, EvdevAssumption
       DEF EvInv, EvTypes, TypeUsers, evdev_close_device, CloseInput,
         StartGrace, Goto, MutexFree
  <2>3. TypeHandle'
    <3>1. handle.open \in Int /\ handle.open - 1 \in Int
      BY DEF EvInv, EvTypes, TypeHandle
    <3> QED BY <1>21, <3>1 DEF EvInv, EvTypes, TypeHandle, evdev_close_device,
      CloseInput
  <2>4. TypeGrace'
    BY <1>21, EvdevAssumption
       DEF EvInv, EvTypes, TypeGrace, evdev_close_device, CloseInput,
         StartGrace, Goto, MutexFree
  <2>5. TypePc'
    BY <1>21, EvdevAssumption
       DEF EvInv, EvTypes, TypePc, Labels, evdev_close_device, CloseInput,
         StartGrace, Goto, MutexFree
  <2>6. (TypeNext /\ TypePrev /\ TypeWalk /\ TypeRing /\ TypeEvent /\ TypeLock
         /\ TypeReader)'
    BY <1>21
       DEF EvInv, EvTypes, TypeNext, TypePrev, TypeWalk, TypeRing, TypeEvent,
         TypeLock, TypeReader, evdev_close_device, CloseInput, StartGrace,
         Goto, MutexFree
  <2> QED BY <2>1, <2>2, <2>3, <2>4, <2>5, <2>6 DEF EvTypes
<1>22. ASSUME NEW c \in Clients, EndClose(c)
      PROVE  EvTypes'
  <2>1. TypeEvdev'
    BY <1>22, EvdevAssumption
       DEF EvInv, EvTypes, TypeEvdev, EndClose, Goto
  <2>2. TypePc'
    BY <1>22, EvdevAssumption
       DEF EvInv, EvTypes, TypePc, Labels, EndClose, Goto
  <2>3. (TypeHandle /\ TypeUsers /\ TypeNext /\ TypePrev /\ TypeWalk
         /\ TypeGrace /\ TypeRing /\ TypeEvent /\ TypeLock /\ TypeReader)'
    BY <1>22
       DEF EvInv, EvTypes, TypeHandle, TypeUsers, TypeNext, TypePrev, TypeWalk,
         TypeGrace, TypeRing, TypeEvent, TypeLock, TypeReader, EndClose, Goto
  <2> QED BY <2>1, <2>2, <2>3 DEF EvTypes
<1>23. ASSUME NEW c \in Clients, Open(c)
      PROVE  EvTypes'
  <2>1. TypeRing'
    BY <1>23, EvdevAssumption
       DEF EvInv, EvTypes, TypeRing, TypeEvent, Open, StartGrace, Goto,
         EmptyRing
  <2>2. TypeLock'
    BY <1>23, EvdevAssumption
       DEF EvInv, EvTypes, TypeLock, Open, StartGrace, Goto, EmptyRing
  <2>3. TypeNext' /\ TypePrev'
    BY <1>23, EvdevAssumption
       DEF EvInv, EvTypes, TypeNext, TypePrev, Open, StartGrace, Goto,
         EmptyRing
  <2>4. TypeGrace'
    BY <1>23, EvdevAssumption
       DEF EvInv, EvTypes, TypeGrace, Open, StartGrace, Goto, EmptyRing
  <2>5. TypePc'
    BY <1>23, EvdevAssumption
       DEF EvInv, EvTypes, TypePc, Labels, Open, StartGrace, Goto, EmptyRing
  <2>6. (TypeEvdev /\ TypeHandle /\ TypeUsers /\ TypeWalk /\ TypeEvent
         /\ TypeReader)'
    BY <1>23
       DEF EvInv, EvTypes, TypeEvdev, TypeHandle, TypeUsers, TypeWalk,
         TypeEvent, TypeReader, Open, StartGrace, Goto, EmptyRing
  <2> QED BY <2>1, <2>2, <2>3, <2>4, <2>5, <2>6 DEF EvTypes
<1>24. ASSUME NEW c \in Clients, BeginRead(c)
      PROVE  EvTypes'
  <2>1. TypeReader'
    BY <1>24, EvdevAssumption
       DEF EvInv, EvTypes, TypeReader, BeginRead
  <2>2. (TypeEvdev /\ TypeHandle /\ TypeUsers /\ TypeNext /\ TypePrev
         /\ TypeWalk /\ TypeGrace /\ TypePc /\ TypeRing /\ TypeEvent
         /\ TypeLock)'
    BY <1>24
       DEF EvInv, EvTypes, TypeEvdev, TypeHandle, TypeUsers, TypeNext,
         TypePrev, TypeWalk, TypeGrace, TypePc, TypeRing, TypeEvent, TypeLock,
         BeginRead
  <2> QED BY <2>1, <2>2 DEF EvTypes
<1>25. ASSUME NEW c \in Clients, Interrupted(c)
      PROVE  EvTypes'
  <2>1. TypeReader'
    BY <1>25, EvdevAssumption
       DEF EvInv, EvTypes, TypeReader, Interrupted
  <2>2. (TypeEvdev /\ TypeHandle /\ TypeUsers /\ TypeNext /\ TypePrev
         /\ TypeWalk /\ TypeGrace /\ TypePc /\ TypeRing /\ TypeEvent
         /\ TypeLock)'
    BY <1>25
       DEF EvInv, EvTypes, TypeEvdev, TypeHandle, TypeUsers, TypeNext,
         TypePrev, TypeWalk, TypeGrace, TypePc, TypeRing, TypeEvent, TypeLock,
         Interrupted
  <2> QED BY <2>1, <2>2 DEF EvTypes
<1>26. ASSUME NEW c \in Clients, BeginWrite(c)
      PROVE  EvTypes'
  <2>1. TypeEvdev'
    BY <1>26, EvdevAssumption
       DEF EvInv, EvTypes, TypeEvdev, BeginWrite, MayEnter, MutexFree, Goto
  <2>2. TypePc'
    BY <1>26, EvdevAssumption
       DEF EvInv, EvTypes, TypePc, Labels, BeginWrite, MayEnter, MutexFree,
         Goto
  <2>3. (TypeHandle /\ TypeUsers /\ TypeNext /\ TypePrev /\ TypeWalk
         /\ TypeGrace /\ TypeRing /\ TypeEvent /\ TypeLock /\ TypeReader)'
    BY <1>26
       DEF EvInv, EvTypes, TypeHandle, TypeUsers, TypeNext, TypePrev, TypeWalk,
         TypeGrace, TypeRing, TypeEvent, TypeLock, TypeReader, BeginWrite,
         MayEnter, MutexFree, Goto
  <2> QED BY <2>1, <2>2, <2>3 DEF EvTypes
<1>27. ASSUME NEW c \in Clients, input_inject_event(c)
      PROVE  EvTypes'
  <2>1. TypeEvent'
    BY <1>27, EvdevAssumption
       DEF EvInv, EvTypes, TypeEvent, input_inject_event, BeginWalk, Goto
  <2>2. TypeWalk'
    BY <1>27, EvdevAssumption
       DEF EvInv, EvTypes, TypeWalk, TypeEvdev, TypeNext, TypePrev,
         input_inject_event, BeginWalk, Goto
  <2>3. TypeGrace'
    BY <1>27, EvdevAssumption
       DEF EvInv, EvTypes, TypeGrace, input_inject_event, BeginWalk, Goto
  <2>4. TypePc'
    BY <1>27, EvdevAssumption
       DEF EvInv, EvTypes, TypePc, Labels, input_inject_event, BeginWalk, Goto
  <2>5. (TypeEvdev /\ TypeHandle /\ TypeUsers /\ TypeNext /\ TypePrev
         /\ TypeRing /\ TypeLock /\ TypeReader)'
    BY <1>27
       DEF EvInv, EvTypes, TypeEvdev, TypeHandle, TypeUsers, TypeNext,
         TypePrev, TypeRing, TypeLock, TypeReader, input_inject_event,
         BeginWalk, Goto
  <2> QED BY <2>1, <2>2, <2>3, <2>4, <2>5 DEF EvTypes
<1>28. ASSUME NEW c \in Clients, GrabDevice(c)
      PROVE  EvTypes'
  <2>1. TypeEvdev'
    BY <1>28, EvdevAssumption
       DEF EvInv, EvTypes, TypeEvdev, GrabDevice, MayEnter, MutexFree,
         StartGrace, Goto
  <2>2. TypeHandle'
    BY <1>28, EvdevAssumption
       DEF EvInv, EvTypes, TypeHandle, GrabDevice, MayEnter, MutexFree,
         StartGrace, Goto
  <2>3. TypeGrace'
    BY <1>28, EvdevAssumption
       DEF EvInv, EvTypes, TypeGrace, GrabDevice, MayEnter, MutexFree,
         StartGrace, Goto
  <2>4. TypePc'
    BY <1>28, EvdevAssumption
       DEF EvInv, EvTypes, TypePc, Labels, GrabDevice, MayEnter, MutexFree,
         StartGrace, Goto
  <2>5. (TypeUsers /\ TypeNext /\ TypePrev /\ TypeWalk /\ TypeRing /\ TypeEvent
         /\ TypeLock /\ TypeReader)'
    BY <1>28
       DEF EvInv, EvTypes, TypeUsers, TypeNext, TypePrev, TypeWalk, TypeRing,
         TypeEvent, TypeLock, TypeReader, GrabDevice, MayEnter, MutexFree,
         StartGrace, Goto
  <2> QED BY <2>1, <2>2, <2>3, <2>4, <2>5 DEF EvTypes
<1>29. ASSUME NEW c \in Clients, Release(c)
      PROVE  EvTypes'
  <2>1. TypePc'
    BY <1>29, EvdevAssumption
       DEF EvInv, EvTypes, TypePc, Labels, Release, Goto, MutexFree
  <2>2. (TypeEvdev /\ TypeHandle /\ TypeUsers /\ TypeNext /\ TypePrev
         /\ TypeWalk /\ TypeGrace /\ TypeRing /\ TypeEvent /\ TypeLock
         /\ TypeReader)'
    BY <1>29
       DEF EvInv, EvTypes, TypeEvdev, TypeHandle, TypeUsers, TypeNext,
         TypePrev, TypeWalk, TypeGrace, TypeRing, TypeEvent, TypeLock,
         TypeReader, Release, Goto, MutexFree
  <2> QED BY <2>1, <2>2 DEF EvTypes
<1>30. ASSUME NEW c \in Clients, NEW more \in BOOLEAN,
             evdev_fetch_next_event(c, more)
      PROVE  EvTypes'
  <2>1. TypeRing'
    <3>1. ring[c].tail + 1 \in Int
      BY DEF EvInv, EvTypes, TypeRing
    <3>2. (ring[c].tail + 1) % BufferSize \in Int
      BY <3>1, ModInt
    <3>3. PICK v \in Int : v = (ring[c].tail + 1) % BufferSize
      BY <3>2
    <3>4. ring' = ring \/ ring' = [ring EXCEPT ![c].tail = v]
      BY <1>30, <3>3 DEF evdev_fetch_next_event
    <3>5. TypeRing
      BY DEF EvInv, EvTypes
    <3> QED BY <3>4, <3>5 DEF TypeRing
  <2>2. TypeLock'
    BY <1>30, EvdevAssumption
       DEF EvInv, EvTypes, TypeLock, evdev_fetch_next_event
  <2>3. TypeReader'
    BY <1>30, EvdevAssumption
       DEF EvInv, EvTypes, TypeReader, evdev_fetch_next_event
  <2>4. (TypeEvdev /\ TypeHandle /\ TypeUsers /\ TypeNext /\ TypePrev
         /\ TypeWalk /\ TypeGrace /\ TypePc /\ TypeEvent)'
    BY <1>30
       DEF EvInv, EvTypes, TypeEvdev, TypeHandle, TypeUsers, TypeNext,
         TypePrev, TypeWalk, TypeGrace, TypePc, TypeEvent,
         evdev_fetch_next_event
  <2> QED BY <2>1, <2>2, <2>3, <2>4 DEF EvTypes
<1>31. ASSUME NEW c \in Clients, NEW fails \in BOOLEAN,
             OpenDevice(c, fails)
      PROVE  EvTypes'
  <2>1. TypeNext' /\ TypePrev'
    BY <1>31, EvdevAssumption
       DEF EvInv, EvTypes, TypeNext, TypePrev, OpenDevice, Unlink, StartGrace,
         Goto, MutexFree
  <2>2. TypeGrace'
    BY <1>31, EvdevAssumption
       DEF EvInv, EvTypes, TypeGrace, OpenDevice, Unlink, StartGrace, Goto,
         MutexFree
  <2>3. TypePc'
    BY <1>31, EvdevAssumption
       DEF EvInv, EvTypes, TypePc, Labels, OpenDevice, Unlink, StartGrace,
         Goto, MutexFree
  <2>4. TypeEvdev'
    BY <1>31, EvdevAssumption
       DEF EvInv, EvTypes, TypeEvdev, OpenDevice, Unlink, StartGrace, Goto,
         MutexFree
  <2>5. TypeHandle'
    BY <1>31, EvdevAssumption
       DEF EvInv, EvTypes, TypeHandle, OpenDevice, Unlink, StartGrace, Goto,
         MutexFree
  <2>6. TypeUsers'
    BY <1>31, EvdevAssumption
       DEF EvInv, EvTypes, TypeUsers, OpenDevice, Unlink, StartGrace, Goto,
         MutexFree
  <2>7. (TypeWalk /\ TypeRing /\ TypeEvent /\ TypeLock /\ TypeReader)'
    BY <1>31
       DEF EvInv, EvTypes, TypeWalk, TypeRing, TypeEvent, TypeLock, TypeReader,
         OpenDevice, Unlink, StartGrace, Goto, MutexFree
  <2> QED BY <2>1, <2>2, <2>3, <2>4, <2>5, <2>6, <2>7 DEF EvTypes
<1>32. ASSUME NEW c \in Clients, NEW release \in BOOLEAN,
             Ungrab(c, release)
      PROVE  EvTypes'
  <2>1. TypeEvdev'
    BY <1>32, EvdevAssumption
       DEF EvInv, EvTypes, TypeEvdev, Ungrab, MutexFree, StartGrace, Goto
  <2>2. TypeGrace'
    BY <1>32, EvdevAssumption
       DEF EvInv, EvTypes, TypeGrace, Ungrab, MutexFree, StartGrace, Goto
  <2>3. TypePc'
    BY <1>32, EvdevAssumption
       DEF EvInv, EvTypes, TypePc, Labels, Ungrab, MutexFree, StartGrace, Goto
  <2>4. (TypeHandle /\ TypeUsers /\ TypeNext /\ TypePrev /\ TypeWalk
         /\ TypeRing /\ TypeEvent /\ TypeLock /\ TypeReader)'
    BY <1>32
       DEF EvInv, EvTypes, TypeHandle, TypeUsers, TypeNext, TypePrev,
         TypeWalk, TypeRing, TypeEvent, TypeLock, TypeReader, Ungrab,
         MutexFree, StartGrace, Goto
  <2> QED BY <2>1, <2>2, <2>3, <2>4 DEF EvTypes
<1> QED BY <1>1, <1>2, <1>3, <1>4, <1>5, <1>6, <1>7, <1>8, <1>9, <1>10, <1>11,
         <1>12, <1>13, <1>14, <1>15, <1>16, <1>17, <1>18, <1>19, <1>20, <1>21,
         <1>22, <1>23, <1>24, <1>25, <1>26, <1>27, <1>28, <1>29, <1>30, <1>31,
         <1>32
     DEF EvdevNext, WalkStep, ReadStep, FileStep, UserStep, DeviceStep

(* A grab waits for the event that was under way when it was set.          *)
LEMMA GrabStep ==
  ASSUME EvInv, EvdevNext
  PROVE  GrabInv'
<1>1. CASE InputEvent
  BY <1>1, EvdevAssumption
     DEF EvInv, EvTypes, TypeEvdev, TypePc, TypeWalk, GrabInv, GrabOf, Inside,
         InputEvent, BeginWalk
<1>2. CASE evdev_pass_event
  BY <1>2, EvdevAssumption
     DEF EvInv, EvTypes, TypeEvdev, TypePc, TypeWalk, GrabInv, GrabOf, Inside,
         evdev_pass_event
<1>3. CASE EndWalk
  BY <1>3, EvdevAssumption
     DEF EvInv, EvTypes, TypeEvdev, TypePc, TypeWalk, GrabInv, GrabOf, Inside,
         EndWalk, WakeReaders, Idle
<1>4. CASE GoingAway
  BY <1>4, EvdevAssumption
     DEF EvInv, EvTypes, TypeEvdev, TypePc, TypeWalk, GrabInv, GrabOf, Inside,
         GoingAway, Goto
<1>5. CASE input_disconnect_device
  BY <1>5, EvdevAssumption
     DEF EvInv, EvTypes, TypeEvdev, TypePc, TypeWalk, GrabInv, GrabOf, Inside,
         input_disconnect_device, Goto
<1>6. CASE evdev_mark_dead
  BY <1>6, EvdevAssumption
     DEF EvInv, EvTypes, TypeEvdev, TypePc, TypeWalk, GrabInv, GrabOf, Inside,
         evdev_mark_dead, Goto, MutexFree
<1>7. CASE evdev_hangup
  BY <1>7, EvdevAssumption
     DEF EvInv, EvTypes, TypeEvdev, TypePc, TypeWalk, GrabInv, GrabOf, Inside,
         evdev_hangup, WakeReaders, Goto
<1>8. CASE evdev_cleanup
  BY <1>8, EvdevAssumption
     DEF EvInv, EvTypes, TypeEvdev, TypePc, TypeWalk, GrabInv, GrabOf, Inside,
         evdev_cleanup, CloseInput, StartGrace, Goto
<1>9. CASE input_unregister_handle
  BY <1>9, EvdevAssumption
     DEF EvInv, EvTypes, TypeEvdev, TypePc, TypeWalk, GrabInv, GrabOf, Inside,
         input_unregister_handle, StartGrace, Goto
<1>10. CASE EndDisconnect
  BY <1>10, EvdevAssumption
     DEF EvInv, EvTypes, TypeEvdev, TypePc, TypeWalk, GrabInv, GrabOf, Inside,
         EndDisconnect, Goto
<1>11. ASSUME NEW c \in Clients, LockExpires(c)
      PROVE  GrabInv'
  BY <1>11, EvdevAssumption
     DEF EvInv, EvTypes, TypeEvdev, TypePc, TypeWalk, GrabInv, GrabOf, Inside,
         LockExpires
<1>12. ASSUME NEW c \in Clients, WaitForEvent(c)
      PROVE  GrabInv'
  BY <1>12, EvdevAssumption
     DEF EvInv, EvTypes, TypeEvdev, TypePc, TypeWalk, GrabInv, GrabOf, Inside,
         WaitForEvent
<1>13. ASSUME NEW c \in Clients, FreeFailed(c)
      PROVE  GrabInv'
  BY <1>13, EvdevAssumption
     DEF EvInv, EvTypes, TypeEvdev, TypePc, TypeWalk, GrabInv, GrabOf, Inside,
         FreeFailed, Goto
<1>14. ASSUME NEW c \in Clients, EndWrite(c)
      PROVE  GrabInv'
  BY <1>14, EvdevAssumption
     DEF EvInv, EvTypes, TypeEvdev, TypePc, TypeWalk, GrabInv, GrabOf, Inside,
         EndWrite, Goto
<1>15. ASSUME NEW c \in Clients, AssignGrab(c)
      PROVE  GrabInv'
  BY <1>15, EvdevAssumption
     DEF EvInv, EvTypes, TypeEvdev, TypePc, TypeWalk, GrabInv, GrabOf, Inside,
         AssignGrab, StartGrace, Goto, Synchronized
<1>16. ASSUME NEW c \in Clients, EndGrab(c)
      PROVE  GrabInv'
  <2> SUFFICES ASSUME NEW d \in Clients PROVE GrabOf(d)'
    BY DEF GrabInv
  <2>1. (evdev.mutex = d <=> pc[d] \in Inside)'
    BY <1>16, EvdevAssumption
       DEF EvInv, EvTypes, TypeEvdev, TypePc, TypeWalk, GrabInv, GrabOf,
         Inside, EndGrab, Goto, Synchronized
  <2>2. (evdev.grab = d => pc[d] \in {"open", "write", "written", "grabbed"})'
    BY <1>16, EvdevAssumption
       DEF EvInv, EvTypes, TypeEvdev, TypePc, TypeWalk, GrabInv, GrabOf,
         Inside, EndGrab, Goto, Synchronized
  <2>3. (pc[d] = "grab" => evdev.grab = None)'
    BY <1>16, EvdevAssumption
       DEF EvInv, EvTypes, TypeEvdev, TypePc, TypeWalk, GrabInv, GrabOf,
         Inside, EndGrab, Goto, Synchronized
  <2>4. (evdev.grab = d /\ walk.pos # None =>
          \/ walk.single /\ walk.pos \in {d, ListEnd}
          \/ pc[d] = "grabbed" /\ d \in grace)'
    BY <1>16, EvdevAssumption
       DEF EvInv, EvTypes, TypeEvdev, TypePc, TypeWalk, GrabInv, GrabOf,
         Inside, EndGrab, Goto, Synchronized
  <2> QED BY <2>1, <2>2, <2>3, <2>4 DEF GrabOf
<1>17. ASSUME NEW c \in Clients, ReleaseDevice(c)
      PROVE  GrabInv'
  BY <1>17, EvdevAssumption
     DEF EvInv, EvTypes, TypeEvdev, TypePc, TypeWalk, GrabInv, GrabOf, Inside,
         ReleaseDevice, StartGrace, Goto
<1>18. ASSUME NEW c \in Clients, EndUngrab(c)
      PROVE  GrabInv'
  BY <1>18, EvdevAssumption
     DEF EvInv, EvTypes, TypeEvdev, TypePc, TypeWalk, GrabInv, GrabOf, Inside,
         EndUngrab, Goto
<1>19. ASSUME NEW c \in Clients, evdev_detach_client(c)
      PROVE  GrabInv'
  BY <1>19, EvdevAssumption
     DEF EvInv, EvTypes, TypeEvdev, TypePc, TypeWalk, GrabInv, GrabOf, Inside,
         evdev_detach_client, Unlink, StartGrace, Goto
<1>20. ASSUME NEW c \in Clients, FreeClient(c)
      PROVE  GrabInv'
  BY <1>20, EvdevAssumption
     DEF EvInv, EvTypes, TypeEvdev, TypePc, TypeWalk, GrabInv, GrabOf, Inside,
         FreeClient, Goto
<1>21. ASSUME NEW c \in Clients, evdev_close_device(c)
      PROVE  GrabInv'
  <2> SUFFICES ASSUME NEW d \in Clients PROVE GrabOf(d)'
    BY DEF GrabInv
  <2>1. evdev.mutex = None /\ pc[c] = "freed"
    BY <1>21 DEF evdev_close_device, MutexFree
  <2>2. \/ evdev'.mutex = None /\ pc' = [pc EXCEPT ![c] = "none"]
        \/ evdev'.mutex = c /\ pc' = [pc EXCEPT ![c] = "closing"]
    BY <1>21, <2>1
       DEF evdev_close_device, Goto, EvInv, EvTypes, TypeEvdev
  <2>3. evdev'.grab = evdev.grab
    BY <1>21 DEF evdev_close_device, EvInv, EvTypes, TypeEvdev
  <2>4. walk' = walk /\ grace \subseteq grace'
    BY <1>21 DEF evdev_close_device, walkVars, CloseInput, StartGrace
  <2>5. /\ c # None /\ d # None
        /\ pc \in [Clients \cup {Device} -> Labels]
    BY EvdevAssumption DEF EvInv, EvTypes, TypePc
  <2>6. GrabOf(d)
    BY DEF EvInv, GrabInv
  <2>7. CASE d = c
    <3>1. pc'[d] \in {"none", "closing"} /\ evdev.grab # d
      BY <2>1, <2>2, <2>5, <2>6, <2>7 DEF GrabOf
    <3>2. \/ evdev'.mutex # d /\ pc'[d] = "none"
          \/ evdev'.mutex = d /\ pc'[d] = "closing"
      BY <2>2, <2>5, <2>7
    <3>3. "none" \notin Inside /\ "closing" \in Inside
      BY DEF Inside
    <3>4. evdev'.mutex = d <=> pc'[d] \in Inside
      BY <3>2, <3>3
    <3> QED BY <2>3, <3>1, <3>4 DEF GrabOf
  <2>8. CASE d # c
    <3>1. pc'[d] = pc[d] /\ evdev'.mutex # d
      BY <2>2, <2>5, <2>8
    <3>2. pc[d] \notin Inside
      BY <2>1, <2>5, <2>6 DEF GrabOf
    <3> QED BY <2>3, <2>4, <2>6, <3>1, <3>2 DEF GrabOf
  <2> QED BY <2>7, <2>8
<1>22. ASSUME NEW c \in Clients, EndClose(c)
      PROVE  GrabInv'
  <2> SUFFICES ASSUME NEW d \in Clients PROVE GrabOf(d)'
    BY DEF GrabInv
  <2>1. /\ pc[c] = "closing" /\ pc' = [pc EXCEPT ![c] = "none"]
        /\ walk' = walk /\ grace' = grace
    BY <1>22 DEF EndClose, Goto, walkVars
  <2>2. evdev'.mutex = None /\ evdev'.grab = evdev.grab
    BY <1>22 DEF EndClose, EvInv, EvTypes, TypeEvdev
  <2>3. /\ c # None /\ d # None
        /\ pc \in [Clients \cup {Device} -> Labels]
    BY EvdevAssumption DEF EvInv, EvTypes, TypePc
  <2>4. GrabOf(c) /\ GrabOf(d)
    BY DEF EvInv, GrabInv
  <2>5. "none" \notin Inside /\ "closing" \in Inside
    BY DEF Inside
  <2>6. CASE d = c
    <3>1. pc'[d] = "none" /\ evdev.grab # d
      BY <2>1, <2>3, <2>4, <2>6 DEF GrabOf
    <3> QED BY <2>2, <2>3, <2>5, <3>1 DEF GrabOf
  <2>7. CASE d # c
    <3>1. pc'[d] = pc[d]
      BY <2>1, <2>3, <2>7
    <3>2. pc[d] \notin Inside
      BY <2>1, <2>4, <2>5, <2>7 DEF GrabOf
    <3> QED BY <2>1, <2>2, <2>3, <2>4, <3>1, <3>2 DEF GrabOf
  <2> QED BY <2>6, <2>7
<1>23. ASSUME NEW c \in Clients, Open(c)
      PROVE  GrabInv'
  BY <1>23, EvdevAssumption
     DEF EvInv, EvTypes, TypeEvdev, TypePc, TypeWalk, GrabInv, GrabOf, Inside,
         Open, StartGrace, Goto, EmptyRing
<1>24. ASSUME NEW c \in Clients, BeginRead(c)
      PROVE  GrabInv'
  BY <1>24, EvdevAssumption
     DEF EvInv, EvTypes, TypeEvdev, TypePc, TypeWalk, GrabInv, GrabOf, Inside,
         BeginRead
<1>25. ASSUME NEW c \in Clients, Interrupted(c)
      PROVE  GrabInv'
  BY <1>25, EvdevAssumption
     DEF EvInv, EvTypes, TypeEvdev, TypePc, TypeWalk, GrabInv, GrabOf, Inside,
         Interrupted
<1>26. ASSUME NEW c \in Clients, BeginWrite(c)
      PROVE  GrabInv'
  BY <1>26, EvdevAssumption
     DEF EvInv, EvTypes, TypeEvdev, TypePc, TypeWalk, GrabInv, GrabOf, Inside,
         BeginWrite, MayEnter, MutexFree, Goto
<1>27. ASSUME NEW c \in Clients, input_inject_event(c)
      PROVE  GrabInv'
  BY <1>27, EvdevAssumption
     DEF EvInv, EvTypes, TypeEvdev, TypePc, TypeWalk, GrabInv, GrabOf, Inside,
         input_inject_event, BeginWalk, Goto
<1>28. ASSUME NEW c \in Clients, GrabDevice(c)
      PROVE  GrabInv'
  BY <1>28, EvdevAssumption
     DEF EvInv, EvTypes, TypeEvdev, TypePc, TypeWalk, GrabInv, GrabOf, Inside,
         GrabDevice, MayEnter, MutexFree, StartGrace, Goto
<1>29. ASSUME NEW c \in Clients, Release(c)
      PROVE  GrabInv'
  BY <1>29, EvdevAssumption
     DEF EvInv, EvTypes, TypeEvdev, TypePc, TypeWalk, GrabInv, GrabOf, Inside,
         Release, Goto, MutexFree
<1>30. ASSUME NEW c \in Clients, NEW more \in BOOLEAN,
             evdev_fetch_next_event(c, more)
      PROVE  GrabInv'
  BY <1>30, EvdevAssumption
     DEF EvInv, EvTypes, TypeEvdev, TypePc, TypeWalk, GrabInv, GrabOf, Inside,
         evdev_fetch_next_event
<1>31. ASSUME NEW c \in Clients, NEW fails \in BOOLEAN,
             OpenDevice(c, fails)
      PROVE  GrabInv'
  <2> SUFFICES ASSUME NEW d \in Clients PROVE GrabOf(d)'
    BY DEF GrabInv
  <2>1. (evdev.mutex = d <=> pc[d] \in Inside)'
    <3>1. evdev.mutex = None /\ pc[c] = "attached"
      BY <1>31 DEF OpenDevice, MutexFree
    <3>2. /\ evdev'.mutex = None
          /\ \/ pc' = [pc EXCEPT ![c] = "failed"]
             \/ pc' = [pc EXCEPT ![c] = "open"]
      BY <1>31, <3>1 DEF OpenDevice, Goto, EvInv, EvTypes, TypeEvdev
    <3> QED BY <3>1, <3>2, EvdevAssumption
            DEF EvInv, EvTypes, TypePc, GrabInv, GrabOf, Inside
  <2>2. (evdev.grab = d => pc[d] \in {"open", "write", "written", "grabbed"})'
    BY <1>31, EvdevAssumption
       DEF EvInv, EvTypes, TypeEvdev, TypePc, TypeWalk, GrabInv, GrabOf,
         Inside, OpenDevice, Unlink, StartGrace, Goto, MutexFree
  <2>3. (pc[d] = "grab" => evdev.grab = None)'
    BY <1>31, EvdevAssumption
       DEF EvInv, EvTypes, TypeEvdev, TypePc, TypeWalk, GrabInv, GrabOf,
         Inside, OpenDevice, Unlink, StartGrace, Goto, MutexFree
  <2>4. (evdev.grab = d /\ walk.pos # None =>
          \/ walk.single /\ walk.pos \in {d, ListEnd}
          \/ pc[d] = "grabbed" /\ d \in grace)'
    BY <1>31, EvdevAssumption
       DEF EvInv, EvTypes, TypeEvdev, TypePc, TypeWalk, GrabInv, GrabOf,
         Inside, OpenDevice, Unlink, StartGrace, Goto, MutexFree
  <2> QED BY <2>1, <2>2, <2>3, <2>4 DEF GrabOf
<1>32. ASSUME NEW c \in Clients, NEW release \in BOOLEAN,
             Ungrab(c, release)
      PROVE  GrabInv'
  BY <1>32, EvdevAssumption
     DEF EvInv, EvTypes, TypeEvdev, TypePc, TypeWalk, GrabInv, GrabOf, Inside,
         Ungrab, MutexFree, StartGrace, Goto
<1> QED BY <1>1, <1>2, <1>3, <1>4, <1>5, <1>6, <1>7, <1>8, <1>9, <1>10, <1>11,
         <1>12, <1>13, <1>14, <1>15, <1>16, <1>17, <1>18, <1>19, <1>20, <1>21,
         <1>22, <1>23, <1>24, <1>25, <1>26, <1>27, <1>28, <1>29, <1>30, <1>31,
         <1>32
     DEF EvdevNext, WalkStep, ReadStep, FileStep, UserStep, DeviceStep

(* Only evdev_mark_dead changes exist.                                     *)
LEMMA ExistStep ==
  ASSUME EvInv, EvdevNext
  PROVE  ExistInv'
<1>1. CASE InputEvent
  BY <1>1, EvdevAssumption
     DEF EvInv, EvTypes, TypeEvdev, TypePc, ExistInv, InputEvent, BeginWalk
<1>2. CASE evdev_pass_event
  BY <1>2, EvdevAssumption
     DEF EvInv, EvTypes, TypeEvdev, TypePc, ExistInv, evdev_pass_event
<1>3. CASE EndWalk
  BY <1>3, EvdevAssumption
     DEF EvInv, EvTypes, TypeEvdev, TypePc, ExistInv, EndWalk, WakeReaders,
         Idle
<1>4. CASE GoingAway
  BY <1>4, EvdevAssumption
     DEF EvInv, EvTypes, TypeEvdev, TypePc, ExistInv, GoingAway, Goto
<1>5. CASE input_disconnect_device
  BY <1>5, EvdevAssumption
     DEF EvInv, EvTypes, TypeEvdev, TypePc, ExistInv, input_disconnect_device,
         Goto
<1>6. CASE evdev_mark_dead
  BY <1>6, EvdevAssumption
     DEF EvInv, EvTypes, TypeEvdev, TypePc, ExistInv, evdev_mark_dead, Goto,
         MutexFree
<1>7. CASE evdev_hangup
  BY <1>7, EvdevAssumption
     DEF EvInv, EvTypes, TypeEvdev, TypePc, ExistInv, evdev_hangup,
         WakeReaders, Goto
<1>8. CASE evdev_cleanup
  BY <1>8, EvdevAssumption
     DEF EvInv, EvTypes, TypeEvdev, TypePc, ExistInv, evdev_cleanup,
         CloseInput, StartGrace, Goto
<1>9. CASE input_unregister_handle
  BY <1>9, EvdevAssumption
     DEF EvInv, EvTypes, TypeEvdev, TypePc, ExistInv, input_unregister_handle,
         StartGrace, Goto
<1>10. CASE EndDisconnect
  BY <1>10, EvdevAssumption
     DEF EvInv, EvTypes, TypeEvdev, TypePc, ExistInv, EndDisconnect, Goto
<1>11. ASSUME NEW c \in Clients, LockExpires(c)
      PROVE  ExistInv'
  BY <1>11, EvdevAssumption
     DEF EvInv, EvTypes, TypeEvdev, TypePc, ExistInv, LockExpires
<1>12. ASSUME NEW c \in Clients, WaitForEvent(c)
      PROVE  ExistInv'
  BY <1>12, EvdevAssumption
     DEF EvInv, EvTypes, TypeEvdev, TypePc, ExistInv, WaitForEvent
<1>13. ASSUME NEW c \in Clients, FreeFailed(c)
      PROVE  ExistInv'
  BY <1>13, EvdevAssumption
     DEF EvInv, EvTypes, TypeEvdev, TypePc, ExistInv, FreeFailed, Goto
<1>14. ASSUME NEW c \in Clients, EndWrite(c)
      PROVE  ExistInv'
  BY <1>14, EvdevAssumption
     DEF EvInv, EvTypes, TypeEvdev, TypePc, ExistInv, EndWrite, Goto
<1>15. ASSUME NEW c \in Clients, AssignGrab(c)
      PROVE  ExistInv'
  BY <1>15, EvdevAssumption
     DEF EvInv, EvTypes, TypeEvdev, TypePc, ExistInv, AssignGrab, StartGrace,
         Goto, Synchronized
<1>16. ASSUME NEW c \in Clients, EndGrab(c)
      PROVE  ExistInv'
  BY <1>16, EvdevAssumption
     DEF EvInv, EvTypes, TypeEvdev, TypePc, ExistInv, EndGrab, Goto,
         Synchronized
<1>17. ASSUME NEW c \in Clients, ReleaseDevice(c)
      PROVE  ExistInv'
  BY <1>17, EvdevAssumption
     DEF EvInv, EvTypes, TypeEvdev, TypePc, ExistInv, ReleaseDevice,
         StartGrace, Goto
<1>18. ASSUME NEW c \in Clients, EndUngrab(c)
      PROVE  ExistInv'
  BY <1>18, EvdevAssumption
     DEF EvInv, EvTypes, TypeEvdev, TypePc, ExistInv, EndUngrab, Goto
<1>19. ASSUME NEW c \in Clients, evdev_detach_client(c)
      PROVE  ExistInv'
  BY <1>19, EvdevAssumption
     DEF EvInv, EvTypes, TypeEvdev, TypePc, ExistInv, evdev_detach_client,
         Unlink, StartGrace, Goto
<1>20. ASSUME NEW c \in Clients, FreeClient(c)
      PROVE  ExistInv'
  BY <1>20, EvdevAssumption
     DEF EvInv, EvTypes, TypeEvdev, TypePc, ExistInv, FreeClient, Goto
<1>21. ASSUME NEW c \in Clients, evdev_close_device(c)
      PROVE  ExistInv'
  BY <1>21, EvdevAssumption
     DEF EvInv, EvTypes, TypeEvdev, TypePc, ExistInv, evdev_close_device,
         CloseInput, StartGrace, Goto, MutexFree
<1>22. ASSUME NEW c \in Clients, EndClose(c)
      PROVE  ExistInv'
  BY <1>22, EvdevAssumption
     DEF EvInv, EvTypes, TypeEvdev, TypePc, ExistInv, EndClose, Goto
<1>23. ASSUME NEW c \in Clients, Open(c)
      PROVE  ExistInv'
  BY <1>23, EvdevAssumption
     DEF EvInv, EvTypes, TypeEvdev, TypePc, ExistInv, Open, StartGrace, Goto,
         EmptyRing
<1>24. ASSUME NEW c \in Clients, BeginRead(c)
      PROVE  ExistInv'
  BY <1>24, EvdevAssumption
     DEF EvInv, EvTypes, TypeEvdev, TypePc, ExistInv, BeginRead
<1>25. ASSUME NEW c \in Clients, Interrupted(c)
      PROVE  ExistInv'
  BY <1>25, EvdevAssumption
     DEF EvInv, EvTypes, TypeEvdev, TypePc, ExistInv, Interrupted
<1>26. ASSUME NEW c \in Clients, BeginWrite(c)
      PROVE  ExistInv'
  BY <1>26, EvdevAssumption
     DEF EvInv, EvTypes, TypeEvdev, TypePc, ExistInv, BeginWrite, MayEnter,
         MutexFree, Goto
<1>27. ASSUME NEW c \in Clients, input_inject_event(c)
      PROVE  ExistInv'
  BY <1>27, EvdevAssumption
     DEF EvInv, EvTypes, TypeEvdev, TypePc, ExistInv, input_inject_event,
         BeginWalk, Goto
<1>28. ASSUME NEW c \in Clients, GrabDevice(c)
      PROVE  ExistInv'
  BY <1>28, EvdevAssumption
     DEF EvInv, EvTypes, TypeEvdev, TypePc, ExistInv, GrabDevice, MayEnter,
         MutexFree, StartGrace, Goto
<1>29. ASSUME NEW c \in Clients, Release(c)
      PROVE  ExistInv'
  BY <1>29, EvdevAssumption
     DEF EvInv, EvTypes, TypeEvdev, TypePc, ExistInv, Release, Goto, MutexFree
<1>30. ASSUME NEW c \in Clients, NEW more \in BOOLEAN,
             evdev_fetch_next_event(c, more)
      PROVE  ExistInv'
  BY <1>30, EvdevAssumption
     DEF EvInv, EvTypes, TypeEvdev, TypePc, ExistInv, evdev_fetch_next_event
<1>31. ASSUME NEW c \in Clients, NEW fails \in BOOLEAN,
             OpenDevice(c, fails)
      PROVE  ExistInv'
  BY <1>31, EvdevAssumption
     DEF EvInv, EvTypes, TypeEvdev, TypePc, ExistInv, OpenDevice, Unlink,
         StartGrace, Goto, MutexFree
<1>32. ASSUME NEW c \in Clients, NEW release \in BOOLEAN,
             Ungrab(c, release)
      PROVE  ExistInv'
  BY <1>32, EvdevAssumption
     DEF EvInv, EvTypes, TypeEvdev, TypePc, ExistInv, Ungrab, MutexFree,
         StartGrace, Goto
<1> QED BY <1>1, <1>2, <1>3, <1>4, <1>5, <1>6, <1>7, <1>8, <1>9, <1>10, <1>11,
         <1>12, <1>13, <1>14, <1>15, <1>16, <1>17, <1>18, <1>19, <1>20, <1>21,
         <1>22, <1>23, <1>24, <1>25, <1>26, <1>27, <1>28, <1>29, <1>30, <1>31,
         <1>32
     DEF EvdevNext, WalkStep, ReadStep, FileStep, UserStep, DeviceStep

(* A reader goes to sleep on an empty buffer, and is woken after an event. *)
LEMMA ReaderStep ==
  ASSUME EvInv, EvdevNext
  PROVE  ReaderNoticed'
<1>1. CASE InputEvent
  BY <1>1, EvdevAssumption
     DEF EvInv, EvTypes, TypeEvdev, TypePc, TypeWalk, TypeNext, TypePrev,
         TypeRing, TypeReader, ExistInv, ReaderNoticed, InputEvent, BeginWalk
<1>2. CASE evdev_pass_event
  BY <1>2, EvdevAssumption
     DEF EvInv, EvTypes, TypeEvdev, TypePc, TypeWalk, TypeNext, TypePrev,
         TypeRing, TypeReader, ExistInv, ReaderNoticed, evdev_pass_event
<1>3. CASE EndWalk
  BY <1>3, EvdevAssumption
     DEF EvInv, EvTypes, TypeEvdev, TypePc, TypeWalk, TypeNext, TypePrev,
         TypeRing, TypeReader, ExistInv, ReaderNoticed, EndWalk, WakeReaders,
         Idle
<1>4. CASE GoingAway
  BY <1>4, EvdevAssumption
     DEF EvInv, EvTypes, TypeEvdev, TypePc, TypeWalk, TypeNext, TypePrev,
         TypeRing, TypeReader, ExistInv, ReaderNoticed, GoingAway, Goto
<1>5. CASE input_disconnect_device
  BY <1>5, EvdevAssumption
     DEF EvInv, EvTypes, TypeEvdev, TypePc, TypeWalk, TypeNext, TypePrev,
         TypeRing, TypeReader, ExistInv, ReaderNoticed,
         input_disconnect_device, Goto
<1>6. CASE evdev_mark_dead
  BY <1>6, EvdevAssumption
     DEF EvInv, EvTypes, TypeEvdev, TypePc, TypeWalk, TypeNext, TypePrev,
         TypeRing, TypeReader, ExistInv, ReaderNoticed, evdev_mark_dead, Goto,
         MutexFree
<1>7. CASE evdev_hangup
  BY <1>7, EvdevAssumption
     DEF EvInv, EvTypes, TypeEvdev, TypePc, TypeWalk, TypeNext, TypePrev,
         TypeRing, TypeReader, ExistInv, ReaderNoticed, evdev_hangup,
         WakeReaders, Goto
<1>8. CASE evdev_cleanup
  BY <1>8, EvdevAssumption
     DEF EvInv, EvTypes, TypeEvdev, TypePc, TypeWalk, TypeNext, TypePrev,
         TypeRing, TypeReader, ExistInv, ReaderNoticed, evdev_cleanup,
         CloseInput, StartGrace, Goto
<1>9. CASE input_unregister_handle
  BY <1>9, EvdevAssumption
     DEF EvInv, EvTypes, TypeEvdev, TypePc, TypeWalk, TypeNext, TypePrev,
         TypeRing, TypeReader, ExistInv, ReaderNoticed,
         input_unregister_handle, StartGrace, Goto
<1>10. CASE EndDisconnect
  BY <1>10, EvdevAssumption
     DEF EvInv, EvTypes, TypeEvdev, TypePc, TypeWalk, TypeNext, TypePrev,
         TypeRing, TypeReader, ExistInv, ReaderNoticed, EndDisconnect, Goto
<1>11. ASSUME NEW c \in Clients, LockExpires(c)
      PROVE  ReaderNoticed'
  BY <1>11, EvdevAssumption
     DEF EvInv, EvTypes, TypeEvdev, TypePc, TypeWalk, TypeNext, TypePrev,
         TypeRing, TypeReader, ExistInv, ReaderNoticed, LockExpires
<1>12. ASSUME NEW c \in Clients, WaitForEvent(c)
      PROVE  ReaderNoticed'
  BY <1>12, EvdevAssumption
     DEF EvInv, EvTypes, TypeEvdev, TypePc, TypeWalk, TypeNext, TypePrev,
         TypeRing, TypeReader, ExistInv, ReaderNoticed, WaitForEvent
<1>13. ASSUME NEW c \in Clients, FreeFailed(c)
      PROVE  ReaderNoticed'
  BY <1>13, EvdevAssumption
     DEF EvInv, EvTypes, TypeEvdev, TypePc, TypeWalk, TypeNext, TypePrev,
         TypeRing, TypeReader, ExistInv, ReaderNoticed, FreeFailed, Goto
<1>14. ASSUME NEW c \in Clients, EndWrite(c)
      PROVE  ReaderNoticed'
  BY <1>14, EvdevAssumption
     DEF EvInv, EvTypes, TypeEvdev, TypePc, TypeWalk, TypeNext, TypePrev,
         TypeRing, TypeReader, ExistInv, ReaderNoticed, EndWrite, Goto
<1>15. ASSUME NEW c \in Clients, AssignGrab(c)
      PROVE  ReaderNoticed'
  BY <1>15, EvdevAssumption
     DEF EvInv, EvTypes, TypeEvdev, TypePc, TypeWalk, TypeNext, TypePrev,
         TypeRing, TypeReader, ExistInv, ReaderNoticed, AssignGrab,
         StartGrace, Goto, Synchronized
<1>16. ASSUME NEW c \in Clients, EndGrab(c)
      PROVE  ReaderNoticed'
  BY <1>16, EvdevAssumption
     DEF EvInv, EvTypes, TypeEvdev, TypePc, TypeWalk, TypeNext, TypePrev,
         TypeRing, TypeReader, ExistInv, ReaderNoticed, EndGrab, Goto,
         Synchronized
<1>17. ASSUME NEW c \in Clients, ReleaseDevice(c)
      PROVE  ReaderNoticed'
  BY <1>17, EvdevAssumption
     DEF EvInv, EvTypes, TypeEvdev, TypePc, TypeWalk, TypeNext, TypePrev,
         TypeRing, TypeReader, ExistInv, ReaderNoticed, ReleaseDevice,
         StartGrace, Goto
<1>18. ASSUME NEW c \in Clients, EndUngrab(c)
      PROVE  ReaderNoticed'
  BY <1>18, EvdevAssumption
     DEF EvInv, EvTypes, TypeEvdev, TypePc, TypeWalk, TypeNext, TypePrev,
         TypeRing, TypeReader, ExistInv, ReaderNoticed, EndUngrab, Goto
<1>19. ASSUME NEW c \in Clients, evdev_detach_client(c)
      PROVE  ReaderNoticed'
  BY <1>19, EvdevAssumption
     DEF EvInv, EvTypes, TypeEvdev, TypePc, TypeWalk, TypeNext, TypePrev,
         TypeRing, TypeReader, ExistInv, ReaderNoticed, evdev_detach_client,
         Unlink, StartGrace, Goto
<1>20. ASSUME NEW c \in Clients, FreeClient(c)
      PROVE  ReaderNoticed'
  BY <1>20, EvdevAssumption
     DEF EvInv, EvTypes, TypeEvdev, TypePc, TypeWalk, TypeNext, TypePrev,
         TypeRing, TypeReader, ExistInv, ReaderNoticed, FreeClient, Goto
<1>21. ASSUME NEW c \in Clients, evdev_close_device(c)
      PROVE  ReaderNoticed'
  BY <1>21, EvdevAssumption
     DEF EvInv, EvTypes, TypeEvdev, TypePc, TypeWalk, TypeNext, TypePrev,
         TypeRing, TypeReader, ExistInv, ReaderNoticed, evdev_close_device,
         CloseInput, StartGrace, Goto, MutexFree
<1>22. ASSUME NEW c \in Clients, EndClose(c)
      PROVE  ReaderNoticed'
  BY <1>22, EvdevAssumption
     DEF EvInv, EvTypes, TypeEvdev, TypePc, TypeWalk, TypeNext, TypePrev,
         TypeRing, TypeReader, ExistInv, ReaderNoticed, EndClose, Goto
<1>23. ASSUME NEW c \in Clients, Open(c)
      PROVE  ReaderNoticed'
  BY <1>23, EvdevAssumption
     DEF EvInv, EvTypes, TypeEvdev, TypePc, TypeWalk, TypeNext, TypePrev,
         TypeRing, TypeReader, ExistInv, ReaderNoticed, Open, StartGrace,
         Goto, EmptyRing
<1>24. ASSUME NEW c \in Clients, BeginRead(c)
      PROVE  ReaderNoticed'
  BY <1>24, EvdevAssumption
     DEF EvInv, EvTypes, TypeEvdev, TypePc, TypeWalk, TypeNext, TypePrev,
         TypeRing, TypeReader, ExistInv, ReaderNoticed, BeginRead
<1>25. ASSUME NEW c \in Clients, Interrupted(c)
      PROVE  ReaderNoticed'
  BY <1>25, EvdevAssumption
     DEF EvInv, EvTypes, TypeEvdev, TypePc, TypeWalk, TypeNext, TypePrev,
         TypeRing, TypeReader, ExistInv, ReaderNoticed, Interrupted
<1>26. ASSUME NEW c \in Clients, BeginWrite(c)
      PROVE  ReaderNoticed'
  BY <1>26, EvdevAssumption
     DEF EvInv, EvTypes, TypeEvdev, TypePc, TypeWalk, TypeNext, TypePrev,
         TypeRing, TypeReader, ExistInv, ReaderNoticed, BeginWrite, MayEnter,
         MutexFree, Goto
<1>27. ASSUME NEW c \in Clients, input_inject_event(c)
      PROVE  ReaderNoticed'
  BY <1>27, EvdevAssumption
     DEF EvInv, EvTypes, TypeEvdev, TypePc, TypeWalk, TypeNext, TypePrev,
         TypeRing, TypeReader, ExistInv, ReaderNoticed, input_inject_event,
         BeginWalk, Goto
<1>28. ASSUME NEW c \in Clients, GrabDevice(c)
      PROVE  ReaderNoticed'
  BY <1>28, EvdevAssumption
     DEF EvInv, EvTypes, TypeEvdev, TypePc, TypeWalk, TypeNext, TypePrev,
         TypeRing, TypeReader, ExistInv, ReaderNoticed, GrabDevice, MayEnter,
         MutexFree, StartGrace, Goto
<1>29. ASSUME NEW c \in Clients, Release(c)
      PROVE  ReaderNoticed'
  BY <1>29, EvdevAssumption
     DEF EvInv, EvTypes, TypeEvdev, TypePc, TypeWalk, TypeNext, TypePrev,
         TypeRing, TypeReader, ExistInv, ReaderNoticed, Release, Goto,
         MutexFree
<1>30. ASSUME NEW c \in Clients, NEW more \in BOOLEAN,
             evdev_fetch_next_event(c, more)
      PROVE  ReaderNoticed'
  BY <1>30, EvdevAssumption
     DEF EvInv, EvTypes, TypeEvdev, TypePc, TypeWalk, TypeNext, TypePrev,
         TypeRing, TypeReader, ExistInv, ReaderNoticed, evdev_fetch_next_event
<1>31. ASSUME NEW c \in Clients, NEW fails \in BOOLEAN,
             OpenDevice(c, fails)
      PROVE  ReaderNoticed'
  BY <1>31, EvdevAssumption
     DEF EvInv, EvTypes, TypeEvdev, TypePc, TypeWalk, TypeNext, TypePrev,
         TypeRing, TypeReader, ExistInv, ReaderNoticed, OpenDevice, Unlink,
         StartGrace, Goto, MutexFree
<1>32. ASSUME NEW c \in Clients, NEW release \in BOOLEAN,
             Ungrab(c, release)
      PROVE  ReaderNoticed'
  BY <1>32, EvdevAssumption
     DEF EvInv, EvTypes, TypeEvdev, TypePc, TypeWalk, TypeNext, TypePrev,
         TypeRing, TypeReader, ExistInv, ReaderNoticed, Ungrab, MutexFree,
         StartGrace, Goto
<1> QED BY <1>1, <1>2, <1>3, <1>4, <1>5, <1>6, <1>7, <1>8, <1>9, <1>10, <1>11,
         <1>12, <1>13, <1>14, <1>15, <1>16, <1>17, <1>18, <1>19, <1>20, <1>21,
         <1>22, <1>23, <1>24, <1>25, <1>26, <1>27, <1>28, <1>29, <1>30, <1>31,
         <1>32
     DEF EvdevNext, WalkStep, ReadStep, FileStep, UserStep, DeviceStep

-----------------------------------------------------------------------------
(* The count of users.  Most steps change none of what it depends on, and  *)
(* leave every client on its side of Opened.                               *)
LEMMA CountBounds ==
  /\ Cardinality(Clients) \in Nat
  /\ \A S \in SUBSET Clients :
       IsFiniteSet(S) /\ Cardinality(S) \in 0 .. Cardinality(Clients)
<1>1. IsFiniteSet(Clients) /\ Cardinality(Clients) \in Nat
  BY EvdevAssumption, FS_CardinalityType
<1>2. ASSUME NEW S \in SUBSET Clients
      PROVE  IsFiniteSet(S) /\ Cardinality(S) \in 0 .. Cardinality(Clients)
  BY <1>1, <1>2, FS_Subset, FS_CardinalityType
<1> QED BY <1>1, <1>2

(* A step that leaves the counts, the users and the disconnection alone.   *)
LEMMA OpenKept ==
  ASSUME EvInv, handle'.open = handle.open, users' = users,
         evdev'.open = evdev.open, evdev'.exist = evdev.exist,
         Users' = Users, pc'[Device] = pc[Device]
  PROVE  OpenInv'
BY DEF EvInv, OpenInv

(* A step of one client that does not open or close the device.            *)
LEMMA StepKept ==
  ASSUME EvInv, NEW c \in Clients,
         \A d \in (Clients \cup {Device}) \ {c} : pc'[d] = pc[d],
         Opened(c) <=> Opened(c)',
         handle'.open = handle.open, users' = users,
         evdev'.open = evdev.open, evdev'.exist = evdev.exist
  PROVE  OpenInv'
<1>1. \A d \in Clients : Opened(d)' <=> Opened(d)
  <2> TAKE d \in Clients
  <2>1. CASE d = c
    BY <2>1
  <2>2. CASE d # c
    BY <2>2 DEF Opened
  <2> QED BY <2>1, <2>2
<1>2. pc'[Device] = pc[Device]
  BY EvdevAssumption
<1>3. Users' = Users
  BY <1>1 DEF Users
<1> QED BY <1>2, <1>3, OpenKept

(* The counts agree after every step.                                      *)
LEMMA OpenStep ==
  ASSUME EvInv, EvdevNext
  PROVE  OpenInv'
<1>1. CASE InputEvent
  <2>1. UNCHANGED <<evdev, handle, users, pc>>
    BY <1>1 DEF InputEvent, BeginWalk
  <2> QED BY <2>1, OpenKept DEF Users, Opened
<1>2. CASE evdev_pass_event
  <2>1. UNCHANGED <<evdev, handle, users, pc>>
    BY <1>2 DEF evdev_pass_event
  <2> QED BY <2>1, OpenKept DEF Users, Opened
<1>3. CASE EndWalk
  <2>1. UNCHANGED <<evdev, handle, users, pc>>
    BY <1>3 DEF EndWalk, WakeReaders, Idle
  <2> QED BY <2>1, OpenKept DEF Users, Opened
<1>4. CASE GoingAway
  <2>1. Users' = Users
    BY <1>4, EvdevAssumption
       DEF EvInv, EvTypes, TypePc, Users, Opened, GoingAway, Goto
  <2>2. /\ pc[Device] = "present" /\ pc'[Device] = "going"
        /\ evdev' = evdev /\ handle' = handle /\ users' = users
    BY <1>4 DEF EvInv, EvTypes, TypePc, GoingAway, Goto
  <2> QED BY <2>1, <2>2 DEF EvInv, OpenInv
<1>5. CASE input_disconnect_device
  <2>1. Users' = Users
    BY <1>5, EvdevAssumption
       DEF EvInv, EvTypes, TypePc, Users, Opened, input_disconnect_device, Goto
  <2>2. /\ pc[Device] = "going" /\ pc'[Device] = "disconnected"
        /\ evdev' = evdev /\ handle'.open = 0 /\ users' = users
    BY <1>5
       DEF EvInv, EvTypes, TypePc, TypeEvdev, TypeHandle,
         input_disconnect_device, Goto
  <2> QED BY <2>1, <2>2 DEF EvInv, EvTypes, TypeEvdev, OpenInv, ExistInv
<1>6. CASE evdev_mark_dead
  <2>1. Users' = Users
    BY <1>6, EvdevAssumption
       DEF EvInv, EvTypes, TypePc, Users, Opened, evdev_mark_dead, Goto
  <2>2. /\ pc[Device] = "disconnected" /\ pc'[Device] = "dead"
        /\ evdev'.open = evdev.open /\ ~ evdev'.exist
        /\ handle' = handle /\ users' = users
    BY <1>6
       DEF EvInv, EvTypes, TypePc, TypeEvdev, TypeHandle, evdev_mark_dead, Goto
  <2> QED BY <2>1, <2>2 DEF EvInv, EvTypes, TypeEvdev, OpenInv, ExistInv
<1>7. CASE evdev_hangup
  <2>1. Users' = Users
    BY <1>7, EvdevAssumption
       DEF EvInv, EvTypes, TypePc, Users, Opened, evdev_hangup, Goto
  <2>2. /\ pc[Device] = "dead" /\ pc'[Device] = "hungup"
        /\ evdev' = evdev /\ handle' = handle /\ users' = users
    BY <1>7
       DEF EvInv, EvTypes, TypePc, TypeEvdev, TypeHandle, evdev_hangup, Goto
  <2> QED BY <2>1, <2>2 DEF EvInv, EvTypes, TypeEvdev, OpenInv, ExistInv
<1>8. CASE evdev_cleanup
  <2>1. Users' = Users
    BY <1>8, EvdevAssumption
       DEF EvInv, EvTypes, TypePc, Users, Opened, evdev_cleanup, Goto
  <2>2. /\ pc[Device] = "hungup" /\ pc'[Device] = "removed"
        /\ evdev' = evdev /\ ~ evdev.exist
    BY <1>8 DEF EvInv, EvTypes, TypePc, ExistInv, evdev_cleanup, Goto
  <2>3. CASE evdev.open > 0
    <3>1. users' = users - 1 /\ handle'.open = handle.open - 1
      BY <1>8, <2>3
         DEF EvInv, EvTypes, TypeHandle, evdev_cleanup, CloseInput
    <3> QED BY <2>1, <2>2, <2>3, <3>1 DEF EvInv, OpenInv
  <2>4. CASE ~ (evdev.open > 0)
    <3>1. users' = users /\ handle' = handle
      BY <1>8, <2>4 DEF evdev_cleanup
    <3> QED BY <2>1, <2>2, <2>4, <3>1 DEF EvInv, OpenInv
  <2> QED BY <2>3, <2>4
<1>9. CASE input_unregister_handle
  <2>1. Users' = Users
    BY <1>9, EvdevAssumption
       DEF EvInv, EvTypes, TypePc, Users, Opened, input_unregister_handle, Goto
  <2>2. /\ pc[Device] = "removed" /\ pc'[Device] = "unlinked"
        /\ evdev' = evdev /\ handle'.open = handle.open /\ users' = users
    BY <1>9
       DEF EvInv, EvTypes, TypePc, TypeEvdev, TypeHandle,
         input_unregister_handle, Goto
  <2> QED BY <2>1, <2>2 DEF EvInv, EvTypes, TypeEvdev, OpenInv, ExistInv
<1>10. CASE EndDisconnect
  <2>1. Users' = Users
    BY <1>10, EvdevAssumption
       DEF EvInv, EvTypes, TypePc, Users, Opened, EndDisconnect, Goto
  <2>2. /\ pc[Device] = "unlinked" /\ pc'[Device] = "gone"
        /\ evdev' = evdev /\ handle' = handle /\ users' = users
    BY <1>10
       DEF EvInv, EvTypes, TypePc, TypeEvdev, TypeHandle, EndDisconnect, Goto
  <2> QED BY <2>1, <2>2 DEF EvInv, EvTypes, TypeEvdev, OpenInv, ExistInv
<1>11. ASSUME NEW c \in Clients, LockExpires(c)
      PROVE  OpenInv'
  <2>1. UNCHANGED <<evdev, handle, users, pc>>
    BY <1>11 DEF LockExpires
  <2> QED BY <2>1, OpenKept DEF Users, Opened
<1>12. ASSUME NEW c \in Clients, WaitForEvent(c)
      PROVE  OpenInv'
  <2>1. UNCHANGED <<evdev, handle, users, pc>>
    BY <1>12 DEF WaitForEvent
  <2> QED BY <2>1, OpenKept DEF Users, Opened
<1>13. ASSUME NEW c \in Clients, FreeFailed(c)
      PROVE  OpenInv'
  <2>1. \A d \in (Clients \cup {Device}) \ {c} : pc'[d] = pc[d]
    BY <1>13 DEF EvInv, EvTypes, TypePc, FreeFailed, Goto
  <2>2. Opened(c) <=> Opened(c)'
    BY <1>13 DEF EvInv, EvTypes, TypePc, Opened, InFile, FreeFailed, Goto
  <2>3. /\ handle'.open = handle.open /\ users' = users
        /\ evdev'.open = evdev.open /\ evdev'.exist = evdev.exist
    BY <1>13 DEF EvInv, EvTypes, TypeEvdev, TypeHandle, FreeFailed
  <2> QED BY <2>1, <2>2, <2>3, StepKept
<1>14. ASSUME NEW c \in Clients, EndWrite(c)
      PROVE  OpenInv'
  <2>1. \A d \in (Clients \cup {Device}) \ {c} : pc'[d] = pc[d]
    BY <1>14 DEF EvInv, EvTypes, TypePc, EndWrite, Goto
  <2>2. Opened(c) <=> Opened(c)'
    BY <1>14 DEF EvInv, EvTypes, TypePc, Opened, InFile, EndWrite, Goto
  <2>3. /\ handle'.open = handle.open /\ users' = users
        /\ evdev'.open = evdev.open /\ evdev'.exist = evdev.exist
    BY <1>14 DEF EvInv, EvTypes, TypeEvdev, TypeHandle, EndWrite
  <2> QED BY <2>1, <2>2, <2>3, StepKept
<1>15. ASSUME NEW c \in Clients, AssignGrab(c)
      PROVE  OpenInv'
  <2>1. \A d \in (Clients \cup {Device}) \ {c} : pc'[d] = pc[d]
    BY <1>15 DEF EvInv, EvTypes, TypePc, AssignGrab, Goto
  <2>2. Opened(c) <=> Opened(c)'
    BY <1>15 DEF EvInv, EvTypes, TypePc, Opened, InFile, AssignGrab, Goto
  <2>3. /\ handle'.open = handle.open /\ users' = users
        /\ evdev'.open = evdev.open /\ evdev'.exist = evdev.exist
    BY <1>15 DEF EvInv, EvTypes, TypeEvdev, TypeHandle, AssignGrab
  <2> QED BY <2>1, <2>2, <2>3, StepKept
<1>16. ASSUME NEW c \in Clients, EndGrab(c)
      PROVE  OpenInv'
  <2>1. \A d \in (Clients \cup {Device}) \ {c} : pc'[d] = pc[d]
    BY <1>16 DEF EvInv, EvTypes, TypePc, EndGrab, Goto
  <2>2. Opened(c) <=> Opened(c)'
    BY <1>16 DEF EvInv, EvTypes, TypePc, Opened, InFile, EndGrab, Goto
  <2>3. /\ handle'.open = handle.open /\ users' = users
        /\ evdev'.open = evdev.open /\ evdev'.exist = evdev.exist
    BY <1>16 DEF EvInv, EvTypes, TypeEvdev, TypeHandle, EndGrab
  <2> QED BY <2>1, <2>2, <2>3, StepKept
<1>17. ASSUME NEW c \in Clients, ReleaseDevice(c)
      PROVE  OpenInv'
  <2>1. \A d \in (Clients \cup {Device}) \ {c} : pc'[d] = pc[d]
    BY <1>17 DEF EvInv, EvTypes, TypePc, ReleaseDevice, Goto
  <2>2. Opened(c) <=> Opened(c)'
    BY <1>17 DEF EvInv, EvTypes, TypePc, Opened, InFile, ReleaseDevice, Goto
  <2>3. /\ handle'.open = handle.open /\ users' = users
        /\ evdev'.open = evdev.open /\ evdev'.exist = evdev.exist
    BY <1>17 DEF EvInv, EvTypes, TypeEvdev, TypeHandle, ReleaseDevice
  <2> QED BY <2>1, <2>2, <2>3, StepKept
<1>18. ASSUME NEW c \in Clients, EndUngrab(c)
      PROVE  OpenInv'
  <2>1. \A d \in (Clients \cup {Device}) \ {c} : pc'[d] = pc[d]
    BY <1>18 DEF EvInv, EvTypes, TypePc, EndUngrab, Goto
  <2>2. Opened(c) <=> Opened(c)'
    BY <1>18 DEF EvInv, EvTypes, TypePc, Opened, InFile, EndUngrab, Goto
  <2>3. /\ handle'.open = handle.open /\ users' = users
        /\ evdev'.open = evdev.open /\ evdev'.exist = evdev.exist
    BY <1>18 DEF EvInv, EvTypes, TypeEvdev, TypeHandle, EndUngrab
  <2> QED BY <2>1, <2>2, <2>3, StepKept
<1>19. ASSUME NEW c \in Clients, evdev_detach_client(c)
      PROVE  OpenInv'
  <2>1. \A d \in (Clients \cup {Device}) \ {c} : pc'[d] = pc[d]
    BY <1>19 DEF EvInv, EvTypes, TypePc, evdev_detach_client, Goto
  <2>2. Opened(c) <=> Opened(c)'
    BY <1>19
       DEF EvInv, EvTypes, TypePc, Opened, InFile, evdev_detach_client, Goto
  <2>3. /\ handle'.open = handle.open /\ users' = users
        /\ evdev'.open = evdev.open /\ evdev'.exist = evdev.exist
    BY <1>19 DEF EvInv, EvTypes, TypeEvdev, TypeHandle, evdev_detach_client
  <2> QED BY <2>1, <2>2, <2>3, StepKept
<1>20. ASSUME NEW c \in Clients, FreeClient(c)
      PROVE  OpenInv'
  <2>1. \A d \in (Clients \cup {Device}) \ {c} : pc'[d] = pc[d]
    BY <1>20 DEF EvInv, EvTypes, TypePc, FreeClient, Goto
  <2>2. Opened(c) <=> Opened(c)'
    BY <1>20 DEF EvInv, EvTypes, TypePc, Opened, InFile, FreeClient, Goto
  <2>3. /\ handle'.open = handle.open /\ users' = users
        /\ evdev'.open = evdev.open /\ evdev'.exist = evdev.exist
    BY <1>20 DEF EvInv, EvTypes, TypeEvdev, TypeHandle, FreeClient
  <2> QED BY <2>1, <2>2, <2>3, StepKept
<1>21. ASSUME NEW c \in Clients, evdev_close_device(c)
      PROVE  OpenInv'
  <2>1. /\ pc[c] = "freed" /\ Opened(c) /\ ~ Opened(c)'
        /\ pc'[Device] = pc[Device]
        /\ \A d \in Clients \ {c} : pc'[d] = pc[d]
    BY <1>21, EvdevAssumption
       DEF EvInv, EvTypes, TypePc, Opened, InFile, evdev_close_device, Goto
  <2>2. Users' = Users \ {c} /\ c \in Users
    BY <2>1 DEF Users, Opened
  <2>3. Cardinality(Users') = Cardinality(Users) - 1
    BY <2>2, CountBounds, FS_RemoveElement DEF Users
  <2>4. CASE ~ evdev.exist
    <3>1. evdev' = evdev /\ handle' = handle /\ users' = users
      BY <1>21, <2>4 DEF evdev_close_device
    <3> QED BY <2>1, <2>4, <3>1 DEF EvInv, OpenInv
  <2>5. CASE evdev.exist
    <3>1. /\ evdev.open \in 1 .. Cardinality(Clients)
          /\ evdev.open - 1 \in 0 .. Cardinality(Clients)
      <4>1. /\ Cardinality(Clients) \in Nat
            /\ Cardinality(Users) \in Nat /\ Cardinality(Users') \in Nat
        BY CountBounds DEF Users
      <4> QED BY <2>3, <2>5, <4>1 DEF EvInv, OpenInv
    <3>2. evdev'.exist /\ evdev'.open = evdev.open - 1
      BY <1>21, <2>5 DEF evdev_close_device, EvInv, EvTypes, TypeEvdev
    <3>3. /\ users = 1 /\ evdev.open = Cardinality(Users)
          /\ pc[Device] \in {"present", "going", "disconnected"}
      BY <2>5, <3>1 DEF EvInv, OpenInv, ExistInv
    <3>4. CASE evdev.open = 1
      <4>1. users' = users - 1 /\ handle'.open = handle.open - 1
        BY <1>21, <2>5, <3>4
           DEF evdev_close_device, CloseInput, EvInv, EvTypes, TypeHandle
      <4> QED BY <2>1, <2>3, <3>1, <3>2, <3>3, <3>4, <4>1 DEF EvInv, OpenInv
    <3>5. CASE evdev.open # 1
      <4>1. users' = users /\ handle' = handle
        BY <1>21, <2>5, <3>5 DEF evdev_close_device
      <4> QED BY <2>1, <2>3, <3>1, <3>2, <3>3, <3>5, <4>1 DEF EvInv, OpenInv
    <3> QED BY <3>4, <3>5
  <2> QED BY <2>4, <2>5
<1>22. ASSUME NEW c \in Clients, EndClose(c)
      PROVE  OpenInv'
  <2>1. \A d \in (Clients \cup {Device}) \ {c} : pc'[d] = pc[d]
    BY <1>22 DEF EvInv, EvTypes, TypePc, EndClose, Goto
  <2>2. Opened(c) <=> Opened(c)'
    BY <1>22 DEF EvInv, EvTypes, TypePc, Opened, InFile, EndClose, Goto
  <2>3. /\ handle'.open = handle.open /\ users' = users
        /\ evdev'.open = evdev.open /\ evdev'.exist = evdev.exist
    BY <1>22 DEF EvInv, EvTypes, TypeEvdev, TypeHandle, EndClose
  <2> QED BY <2>1, <2>2, <2>3, StepKept
<1>23. ASSUME NEW c \in Clients, Open(c)
      PROVE  OpenInv'
  <2>1. \A d \in (Clients \cup {Device}) \ {c} : pc'[d] = pc[d]
    BY <1>23 DEF EvInv, EvTypes, TypePc, Open, Goto
  <2>2. Opened(c) <=> Opened(c)'
    BY <1>23 DEF EvInv, EvTypes, TypePc, Opened, InFile, Open, Goto
  <2>3. /\ handle'.open = handle.open /\ users' = users
        /\ evdev'.open = evdev.open /\ evdev'.exist = evdev.exist
    BY <1>23 DEF EvInv, EvTypes, TypeEvdev, TypeHandle, Open
  <2> QED BY <2>1, <2>2, <2>3, StepKept
<1>24. ASSUME NEW c \in Clients, BeginRead(c)
      PROVE  OpenInv'
  <2>1. UNCHANGED <<evdev, handle, users, pc>>
    BY <1>24 DEF BeginRead
  <2> QED BY <2>1, OpenKept DEF Users, Opened
<1>25. ASSUME NEW c \in Clients, Interrupted(c)
      PROVE  OpenInv'
  <2>1. UNCHANGED <<evdev, handle, users, pc>>
    BY <1>25 DEF Interrupted
  <2> QED BY <2>1, OpenKept DEF Users, Opened
<1>26. ASSUME NEW c \in Clients, BeginWrite(c)
      PROVE  OpenInv'
  <2>1. \A d \in (Clients \cup {Device}) \ {c} : pc'[d] = pc[d]
    BY <1>26 DEF EvInv, EvTypes, TypePc, BeginWrite, Goto
  <2>2. Opened(c) <=> Opened(c)'
    BY <1>26 DEF EvInv, EvTypes, TypePc, Opened, InFile, BeginWrite, Goto
  <2>3. /\ handle'.open = handle.open /\ users' = users
        /\ evdev'.open = evdev.open /\ evdev'.exist = evdev.exist
    BY <1>26 DEF EvInv, EvTypes, TypeEvdev, TypeHandle, BeginWrite
  <2> QED BY <2>1, <2>2, <2>3, StepKept
<1>27. ASSUME NEW c \in Clients, input_inject_event(c)
      PROVE  OpenInv'
  <2>1. \A d \in (Clients \cup {Device}) \ {c} : pc'[d] = pc[d]
    BY <1>27 DEF EvInv, EvTypes, TypePc, input_inject_event, Goto
  <2>2. Opened(c) <=> Opened(c)'
    BY <1>27
       DEF EvInv, EvTypes, TypePc, Opened, InFile, input_inject_event, Goto
  <2>3. /\ handle'.open = handle.open /\ users' = users
        /\ evdev'.open = evdev.open /\ evdev'.exist = evdev.exist
    BY <1>27 DEF EvInv, EvTypes, TypeEvdev, TypeHandle, input_inject_event
  <2> QED BY <2>1, <2>2, <2>3, StepKept
<1>28. ASSUME NEW c \in Clients, GrabDevice(c)
      PROVE  OpenInv'
  <2>1. \A d \in (Clients \cup {Device}) \ {c} : pc'[d] = pc[d]
    BY <1>28 DEF EvInv, EvTypes, TypePc, GrabDevice, Goto
  <2>2. Opened(c) <=> Opened(c)'
    BY <1>28 DEF EvInv, EvTypes, TypePc, Opened, InFile, GrabDevice, Goto
  <2>3. /\ handle'.open = handle.open /\ users' = users
        /\ evdev'.open = evdev.open /\ evdev'.exist = evdev.exist
    BY <1>28 DEF EvInv, EvTypes, TypeEvdev, TypeHandle, GrabDevice
  <2> QED BY <2>1, <2>2, <2>3, StepKept
<1>29. ASSUME NEW c \in Clients, Release(c)
      PROVE  OpenInv'
  <2>1. \A d \in (Clients \cup {Device}) \ {c} : pc'[d] = pc[d]
    BY <1>29 DEF EvInv, EvTypes, TypePc, Release, Goto
  <2>2. Opened(c) <=> Opened(c)'
    BY <1>29 DEF EvInv, EvTypes, TypePc, Opened, InFile, Release, Goto
  <2>3. /\ handle'.open = handle.open /\ users' = users
        /\ evdev'.open = evdev.open /\ evdev'.exist = evdev.exist
    BY <1>29 DEF EvInv, EvTypes, TypeEvdev, TypeHandle, Release
  <2> QED BY <2>1, <2>2, <2>3, StepKept
<1>30. ASSUME NEW c \in Clients, NEW more \in BOOLEAN,
             evdev_fetch_next_event(c, more)
      PROVE  OpenInv'
  <2>1. UNCHANGED <<evdev, handle, users, pc>>
    BY <1>30 DEF evdev_fetch_next_event
  <2> QED BY <2>1, OpenKept DEF Users, Opened
<1>31. ASSUME NEW c \in Clients, NEW fails \in BOOLEAN,
             OpenDevice(c, fails)
      PROVE  OpenInv'
  <2> DEFINE first == evdev.open = 0
             error == \/ fails \/ ~ evdev.exist
                      \/ first /\ pc[Device] # "present"
  <2>1. /\ pc[c] = "attached" /\ ~ Opened(c)
        /\ pc'[Device] = pc[Device]
        /\ \A d \in Clients \ {c} : pc'[d] = pc[d]
    BY <1>31, EvdevAssumption
       DEF EvInv, EvTypes, TypePc, Opened, InFile, OpenDevice, Goto
  <2>2. CASE error
    <3>1. evdev' = evdev /\ handle' = handle /\ users' = users
      BY <1>31, <2>2 DEF OpenDevice
    <3>2. Opened(c) <=> Opened(c)'
      BY <1>31, <2>1, <2>2
         DEF EvInv, EvTypes, TypePc, Opened, InFile, OpenDevice, Goto
    <3> QED BY <2>1, <3>1, <3>2, StepKept
  <2>3. CASE ~ error
    <3>1. /\ evdev.exist /\ evdev'.exist /\ evdev'.open = evdev.open + 1
          /\ first => pc[Device] = "present"
      BY <1>31, <2>3 DEF OpenDevice, EvInv, EvTypes, TypeEvdev
    <3>2. Opened(c)'
      BY <1>31, <2>3
         DEF OpenDevice, Goto, Opened, InFile, EvInv, EvTypes, TypePc
    <3>3. Users' = Users \cup {c} /\ c \notin Users
      BY <2>1, <3>2 DEF Users, Opened
    <3>4. Cardinality(Users') = Cardinality(Users) + 1
      BY <3>3, CountBounds, FS_AddElement DEF Users
    <3>5. Cardinality(Users') \in 0 .. Cardinality(Clients)
      BY CountBounds DEF Users
    <3>6. /\ evdev.open = Cardinality(Users) /\ evdev.open \in Nat
          /\ pc[Device] \in {"present", "going", "disconnected"}
      BY <3>1, CountBounds DEF EvInv, OpenInv, ExistInv
    <3>7. CASE first
      <4>1. users' = users + 1 /\ handle'.open = handle.open + 1
        BY <1>31, <2>3, <3>7 DEF OpenDevice, EvInv, EvTypes, TypeHandle
      <4> QED BY <2>1, <3>1, <3>4, <3>5, <3>6, <3>7, <4>1 DEF EvInv, OpenInv
    <3>8. CASE ~ first
      <4>1. users' = users /\ handle'.open = handle.open
        BY <1>31, <2>3, <3>8 DEF OpenDevice, EvInv, EvTypes, TypeHandle
      <4> QED BY <2>1, <3>1, <3>4, <3>5, <3>6, <3>8, <4>1 DEF EvInv, OpenInv
    <3> QED BY <3>7, <3>8
  <2> QED BY <2>2, <2>3
<1>32. ASSUME NEW c \in Clients, NEW release \in BOOLEAN,
             Ungrab(c, release)
      PROVE  OpenInv'
  <2>1. \A d \in (Clients \cup {Device}) \ {c} : pc'[d] = pc[d]
    BY <1>32 DEF EvInv, EvTypes, TypePc, Ungrab, Goto
  <2>2. Opened(c) <=> Opened(c)'
    BY <1>32 DEF EvInv, EvTypes, TypePc, Opened, InFile, Ungrab, Goto
  <2>3. /\ handle'.open = handle.open /\ users' = users
        /\ evdev'.open = evdev.open /\ evdev'.exist = evdev.exist
    BY <1>32 DEF EvInv, EvTypes, TypeEvdev, TypeHandle, Ungrab
  <2> QED BY <2>1, <2>2, <2>3, StepKept
<1> QED BY <1>1, <1>2, <1>3, <1>4, <1>5, <1>6, <1>7, <1>8, <1>9, <1>10, <1>11,
         <1>12, <1>13, <1>14, <1>15, <1>16, <1>17, <1>18, <1>19, <1>20, <1>21,
         <1>22, <1>23, <1>24, <1>25, <1>26, <1>27, <1>28, <1>29, <1>30, <1>31,
         <1>32
     DEF EvdevNext, WalkStep, ReadStep, FileStep, UserStep, DeviceStep

-----------------------------------------------------------------------------
LEMMA Initial == EvdevInit => EvInv
<1> SUFFICES ASSUME EvdevInit PROVE EvInv
  OBVIOUS
<1>1. EvTypes
  BY EvdevAssumption
     DEF EvdevInit, EvTypes, TypeEvdev, TypeHandle, TypeUsers, TypeNext,
         TypePrev, TypeWalk, TypeGrace, TypePc, TypeRing, TypeEvent, TypeLock,
         TypeReader, Labels, EmptyRing, Idle
<1>2. GrabInv
  BY EvdevAssumption DEF EvdevInit, GrabInv, GrabOf, Inside, Idle
<1>3. ExistInv
  BY DEF EvdevInit, ExistInv
<1>4. ReaderNoticed
  BY DEF EvdevInit, ReaderNoticed
<1>5. Users = {}
  BY EvdevAssumption DEF EvdevInit, Users, Opened, InFile
<1>6. OpenInv
  BY <1>5, CountBounds, FS_EmptySet DEF EvdevInit, OpenInv
<1> QED BY <1>1, <1>2, <1>3, <1>4, <1>6 DEF EvInv

LEMMA Unchanged == EvInv /\ UNCHANGED evdevVars => EvInv'
<1> SUFFICES ASSUME EvInv, UNCHANGED evdevVars PROVE EvInv'
  OBVIOUS
<1> USE DEF evdevVars
<1>1. EvTypes'
  BY DEF EvInv, EvTypes, TypeEvdev, TypeHandle, TypeUsers, TypeNext, TypePrev,
         TypeWalk, TypeGrace, TypePc, TypeRing, TypeEvent, TypeLock, TypeReader
<1>2. GrabInv' /\ ExistInv' /\ ReaderNoticed'
  BY DEF EvInv, GrabInv, GrabOf, ExistInv, ReaderNoticed
<1>3. OpenInv'
  BY DEF EvInv, OpenInv, Users, Opened
<1> QED BY <1>1, <1>2, <1>3 DEF EvInv

LEMMA Inductive == EvdevSpec => []EvInv
<1>1. EvInv /\ [EvdevNext]_evdevVars => EvInv'
  BY TypeStep, GrabStep, ExistStep, ReaderStep, OpenStep, Unchanged DEF EvInv
<1> QED BY <1>1, Initial, PTL DEF EvdevSpec

(* Every variable keeps its type, and the counts their bounds: a device is *)
(* never open more often than it has clients, never opened twice in the    *)
(* input core, and its handle's count falls at most to -1.                 *)
THEOREM TypeCorrect == EvdevSpec => []EvdevTypeOK
<1>1. EvInv => EvdevTypeOK
  <2> SUFFICES ASSUME EvInv PROVE EvdevTypeOK
    OBVIOUS
  <2>1. /\ evdev.grab \in Clients \cup {None}
        /\ evdev.mutex \in Clients \cup {None}
        /\ walk.pos \in Clients \cup {None, ListEnd}
        /\ next \in [Nodes -> Nodes] /\ prev \in [Nodes -> Nodes \cup {None}]
        /\ grace \subseteq Clients \cup {Device}
        /\ lock \in [Clients -> {"none", "off", "on", "expired"}]
        /\ reader \in [Clients -> {"idle", "check", "asleep", "fetch"}]
    BY DEF EvInv, EvTypes, TypeEvdev, TypeWalk, TypeNext, TypePrev, TypeGrace,
         TypeLock,
           TypeReader
  <2>2. users \in 0 .. 1
    BY DEF EvInv, OpenInv
  <2>3. handle.open \in -1 .. 1
    BY <2>2 DEF EvInv, OpenInv
  <2>4. evdev.open \in 0 .. Cardinality(Clients)
    BY DEF EvInv, OpenInv
  <2> QED BY <2>1, <2>2, <2>3, <2>4 DEF EvdevTypeOK
<1> QED BY <1>1, Inductive, PTL

(* Once EVIOCGRAB has returned, every event on its way goes to the client  *)
(* that holds the grab and to no other, until the grab is undone: evdev's  *)
(* pointer is set, and the event under way waited for, under evdev->mutex. *)
THEOREM GrabIsExclusive == EvdevSpec => []GrabExclusive
<1>1. EvInv => GrabExclusive
  BY DEF EvInv, GrabInv, GrabOf, Inside, GrabExclusive
<1> QED BY <1>1, Inductive, PTL

(* No reader sleeps in evdev_read through an event or the end of the       *)
(* device: when there is something to return, the wakeup is still ahead.   *)
THEOREM ReadersNoticed == EvdevSpec => []ReaderNoticed
<1>1. EvInv => ReaderNoticed
  BY DEF EvInv
<1> QED BY <1>1, Inductive, PTL

(* The input device is open while the event device has users and is closed *)
(* once, by the last evdev_release or by evdev_cleanup, never by both.     *)
THEOREM DeviceClosedOnce == EvdevSpec => []ClosedOnce
<1>1. EvInv => ClosedOnce
  <2> SUFFICES ASSUME EvInv PROVE ClosedOnce
    OBVIOUS
  <2>1. evdev.exist => users = IF evdev.open > 0 THEN 1 ELSE 0
    BY DEF EvInv, OpenInv, ExistInv
  <2>2. evdev.exist => evdev.open = Cardinality({c \in Clients : Opened(c)})
    BY DEF EvInv, OpenInv, Users
  <2>3. pc[Device] \in {"removed", "unlinked", "gone"} => users = 0
    BY DEF EvInv, OpenInv
  <2> QED BY <2>1, <2>2, <2>3 DEF ClosedOnce
<1> QED BY <1>1, Inductive, PTL

-----------------------------------------------------------------------------
(* The list of clients and the events on their way.                        *)

Listed == InFile \cup {"attached", "ungrab to release", "released", "detach"}

OnL == {ListEnd} \cup {c \in Clients : pc[c] \in Listed}

(* Off the list, while the event that may have come to it is under way.    *)
Leaving(c) == pc[c] \in {"failed", "detached"} /\ c \in grace

Visible == OnL \cup {c \in Clients : Leaving(c)}

(* The links of the list run both ways, and lead from what an event may    *)
(* have come to only to such.                                              *)
ListInv ==
  /\ \A n \in OnL : next[n] \in OnL /\ prev[n] \in OnL
  /\ \A n \in OnL : prev[next[n]] = n /\ next[prev[n]] = n
  /\ \A n \in Visible : next[n] \in Visible

(* Where an event is: a grabber it goes to still grabs, or has to wait.    *)
WalkInv ==
  /\ walk.pos = None => grace = {}
  /\ walk.pos # None /\ ~ walk.single => walk.pos \in Visible
  /\ walk.pos \in Clients /\ walk.single =>
       \/ evdev.grab = walk.pos
       \/ /\ pc[walk.pos] \in {"ungrab", "ungrab to release"}
          /\ walk.pos \in grace

(* A file is not closed under its readers.                                 *)
ReaderInv == \A c \in Clients : reader[c] # "idle" => pc[c] \in InFile

-----------------------------------------------------------------------------
(* The buffers of the clients.                                             *)

TypeRecent == recent \in [Clients -> Seq(Int)]
TypeLag == lag \in [Clients -> Int]
TypeLast == last \in [Clients -> Int]
TypeSlots ==
  \A c \in Clients : ring[c].head \in 0 .. BufferSize - 1
                       /\ ring[c].tail \in 0 .. BufferSize - 1

BufTypes == TypeRecent /\ TypeLag /\ TypeLast /\ TypeSlots

(* The client has not been passed the present event.                       *)
Fresh(c) ==
  last[c] < event /\ \A i \in 1 .. Len(recent[c]) : recent[c][i] < event

(* Around a buffer: from one place to another, and i places on.            *)
Gap(head, tail) == (head - tail) % BufferSize
Slot(tail, i) == (tail + i) % BufferSize

Count(c) == Gap(ring[c].head, ring[c].tail)

(* The n unread events in a buffer are the last of a sequence, after l.    *)
Holds(buffer, tail, s, n, l) ==
  \A i \in 0 .. n - 1 :
    /\ buffer[Slot(tail, i)] = s[Len(s) - n + 1 + i]
    /\ s[Len(s) - n + 1 + i] > l

Rising(s) == \A i, j \in 1 .. Len(s) : i < j => s[i] < s[j]

(* What is in the buffer, and how much.                                    *)
RingOf(c) ==
  /\ Len(recent[c]) <= BufferSize - 1 /\ Count(c) <= Len(recent[c])
  /\ lag[c] >= 0 /\ Count(c) = lag[c] % BufferSize
  /\ lock[c] \in {"on", "expired"} <=> lag[c] > 0
  /\ Holds(ring[c].buffer, ring[c].tail, recent[c], Count(c), last[c])
  /\ Rising(recent[c])
  /\ \A i \in 1 .. Len(recent[c]) : recent[c][i] <= event
  /\ last[c] <= event

RingInv ==
  /\ event >= 0 /\ (walk.pos # None => event > 0)
  /\ \A c \in Clients : ~ Freed(c) => RingOf(c)

(* The links lead from older to newer clients, so that an event comes to   *)
(* no client twice: those from where it is on have not been passed it.     *)
Order(ord) ==
  /\ \A n \in Visible \cap Clients :
       next[n] \in Clients => ord[n] < ord[next[n]]
  /\ walk.pos \in Clients /\ ~ walk.single =>
       \A n \in Visible \cap Clients : ord[walk.pos] <= ord[n] => Fresh(n)

OrderInv ==
  /\ \E ord \in [Clients -> Int] : Order(ord)
  /\ walk.pos \in Clients /\ walk.single => Fresh(walk.pos)

BufInv ==
  BufTypes /\ ListInv /\ WalkInv /\ ReaderInv /\ RingInv /\ OrderInv

-----------------------------------------------------------------------------
(* Steps that leave the list, the event and the buffers alone.             *)

Ungrabbing == {"ungrab", "ungrab to release"}

(* A step does not change where a client is on the list, does not take a   *)
(* grab without waiting for the event, and frees nothing back.             *)
Undisturbed(c) ==
  /\ pc[c] \in Listed <=> pc'[c] \in Listed
  /\ Leaving(c) <=> Leaving(c)'
  /\ evdev.grab = c =>
       \/ evdev'.grab = c
       \/ pc'[c] \in Ungrabbing /\ (walk.pos # None => c \in grace')
  /\ pc[c] \in Ungrabbing /\ c \in grace => pc'[c] = pc[c]
  /\ ~ Freed(c)' =>
       /\ ~ Freed(c)
       /\ lock[c] \in {"on", "expired"} <=> lock'[c] \in {"on", "expired"}
  /\ reader'[c] # "idle" => pc'[c] \in InFile

LEMMA Quiet ==
  ASSUME EvInv, BufInv, next' = next, prev' = prev, walk' = walk,
         event' = event, ring' = ring, recent' = recent, lag' = lag,
         last' = last, grace \subseteq grace',
         walk.pos = None => grace' = grace,
         \A c \in Clients : Undisturbed(c)
  PROVE  BufInv'
<1> USE DEF Undisturbed
<1>1. BufTypes'
  BY DEF BufInv, BufTypes, TypeRecent, TypeLag, TypeLast, TypeSlots
<1>2. OnL' = OnL
  BY DEF OnL
<1>3. Visible' = Visible
  BY <1>2 DEF Visible
<1>4. ListInv'
  BY <1>2, <1>3 DEF BufInv, ListInv
<1>5. WalkInv'
  <2>1. walk.pos # None /\ ~ walk.single => walk.pos \in Visible
    BY DEF BufInv, WalkInv
  <2>2. walk.pos = None => grace = {}
    BY DEF BufInv, WalkInv
  <2>3. ASSUME walk.pos \in Clients, walk.single
        PROVE  \/ evdev'.grab = walk.pos
               \/ pc'[walk.pos] \in Ungrabbing /\ walk.pos \in grace'
    <3>1. walk.pos # None
      BY <2>3, EvdevAssumption
    <3>2. \/ evdev.grab = walk.pos
          \/ pc[walk.pos] \in Ungrabbing /\ walk.pos \in grace
      BY <2>3 DEF BufInv, WalkInv, Ungrabbing
    <3> QED BY <2>3, <3>1, <3>2
  <2> QED BY <1>3, <2>1, <2>2, <2>3 DEF WalkInv, Ungrabbing
<1>6. ReaderInv'
  BY DEF ReaderInv
<1>7. RingInv'
  <2>1. ASSUME NEW c \in Clients, ~ Freed(c)' PROVE RingOf(c)'
    <3>1. RingOf(c)
      BY <2>1 DEF BufInv, RingInv
    <3>2. Count(c)' = Count(c)
      BY DEF Count
    <3> QED BY <2>1, <3>1, <3>2 DEF RingOf
  <2> QED BY <2>1 DEF BufInv, RingInv
<1>8. OrderInv'
  <2>1. \A c \in Clients : Fresh(c)' <=> Fresh(c)
    BY DEF Fresh
  <2>2. PICK ord \in [Clients -> Int] : Order(ord)
    BY DEF BufInv, OrderInv
  <2>3. Order(ord)'
    BY <1>3, <2>1, <2>2 DEF Order
  <2>4. walk.pos \in Clients /\ walk.single => Fresh(walk.pos)
    BY DEF BufInv, OrderInv
  <2> QED BY <2>1, <2>2, <2>3, <2>4 DEF OrderInv
<1> QED BY <1>1, <1>4, <1>5, <1>6, <1>7, <1>8 DEF BufInv

LEMMA QuietSteps ==
  ASSUME EvInv, BufInv,
         \/ GoingAway \/ input_disconnect_device \/ evdev_mark_dead
         \/ evdev_hangup \/ evdev_cleanup
         \/ input_unregister_handle \/ EndDisconnect
         \/ \E c \in Clients :
              \/ LockExpires(c) \/ WaitForEvent(c) \/ FreeFailed(c)
              \/ EndWrite(c) \/ AssignGrab(c) \/ EndGrab(c)
              \/ ReleaseDevice(c) \/ EndUngrab(c) \/ FreeClient(c)
              \/ evdev_close_device(c) \/ EndClose(c) \/ BeginRead(c)
              \/ Interrupted(c) \/ BeginWrite(c) \/ GrabDevice(c)
              \/ Release(c)
              \/ \E release \in BOOLEAN : Ungrab(c, release)
  PROVE  BufInv'
<1>1. CASE GoingAway
  <2>1. /\ next' = next /\ prev' = prev /\ walk' = walk /\ event' = event
        /\ ring' = ring /\ recent' = recent /\ lag' = lag /\ last' = last
        /\ grace \subseteq grace' /\ (walk.pos = None => grace' = grace)
    BY <1>1 DEF GoingAway, Goto
  <2>2. \A d \in Clients : Undisturbed(d)
    BY <1>1, EvdevAssumption
       DEF GoingAway, Goto, Undisturbed, EvInv, EvTypes, TypeEvdev, TypePc,
           TypeLock, TypeReader, GrabInv, GrabOf, BufInv, ReaderInv, Listed,
           InFile, Leaving, Ungrabbing, Freed
  <2> QED BY <2>1, <2>2, Quiet
<1>2. CASE input_disconnect_device
  <2>1. /\ next' = next /\ prev' = prev /\ walk' = walk /\ event' = event
        /\ ring' = ring /\ recent' = recent /\ lag' = lag /\ last' = last
        /\ grace \subseteq grace' /\ (walk.pos = None => grace' = grace)
    BY <1>2 DEF input_disconnect_device, Goto
  <2>2. \A d \in Clients : Undisturbed(d)
    BY <1>2, EvdevAssumption
       DEF input_disconnect_device, Goto, Undisturbed, EvInv, EvTypes,
           TypeEvdev, TypePc, TypeLock, TypeReader, GrabInv, GrabOf, BufInv,
           ReaderInv, Listed, InFile, Leaving, Ungrabbing, Freed
  <2> QED BY <2>1, <2>2, Quiet
<1>3. CASE evdev_mark_dead
  <2>1. /\ next' = next /\ prev' = prev /\ walk' = walk /\ event' = event
        /\ ring' = ring /\ recent' = recent /\ lag' = lag /\ last' = last
        /\ grace \subseteq grace' /\ (walk.pos = None => grace' = grace)
    BY <1>3 DEF evdev_mark_dead, Goto
  <2>2. \A d \in Clients : Undisturbed(d)
    BY <1>3, EvdevAssumption
       DEF evdev_mark_dead, Goto, Undisturbed, EvInv, EvTypes, TypeEvdev,
           TypePc, TypeLock, TypeReader, GrabInv, GrabOf, BufInv, ReaderInv,
           Listed, InFile, Leaving, Ungrabbing, Freed
  <2> QED BY <2>1, <2>2, Quiet
<1>4. CASE evdev_hangup
  <2>1. /\ next' = next /\ prev' = prev /\ walk' = walk /\ event' = event
        /\ ring' = ring /\ recent' = recent /\ lag' = lag /\ last' = last
        /\ grace \subseteq grace' /\ (walk.pos = None => grace' = grace)
    BY <1>4 DEF evdev_hangup, Goto, WakeReaders
  <2>2. \A d \in Clients : Undisturbed(d)
    BY <1>4, EvdevAssumption
       DEF evdev_hangup, Goto, WakeReaders, Undisturbed, EvInv, EvTypes,
           TypeEvdev, TypePc, TypeLock, TypeReader, GrabInv, GrabOf, BufInv,
           ReaderInv, Listed, InFile, Leaving, Ungrabbing, Freed
  <2> QED BY <2>1, <2>2, Quiet
<1>5. CASE evdev_cleanup
  <2>1. /\ next' = next /\ prev' = prev /\ walk' = walk /\ event' = event
        /\ ring' = ring /\ recent' = recent /\ lag' = lag /\ last' = last
        /\ grace \subseteq grace' /\ (walk.pos = None => grace' = grace)
    BY <1>5 DEF evdev_cleanup, Goto, CloseInput, StartGrace
  <2>2. \A d \in Clients : Undisturbed(d)
    <3>1. \A d \in Clients : pc[d] \in Listed <=> pc'[d] \in Listed
      BY <1>5, EvdevAssumption
         DEF EvInv, EvTypes, TypePc, Listed, InFile, evdev_cleanup, Goto,
             CloseInput, StartGrace
    <3>2. \A d \in Clients : Leaving(d) <=> Leaving(d)'
      BY <1>5, EvdevAssumption
         DEF EvInv, EvTypes, TypePc, Leaving, evdev_cleanup, Goto, CloseInput,
             StartGrace
    <3>3. \A d \in Clients : evdev.grab = d => evdev'.grab = d
      BY <1>5, EvdevAssumption
         DEF EvInv, EvTypes, TypeEvdev, evdev_cleanup, Goto, CloseInput,
             StartGrace
    <3>4. \A d \in Clients :
            pc[d] \in Ungrabbing /\ d \in grace => pc'[d] = pc[d]
      BY <1>5, EvdevAssumption
         DEF EvInv, EvTypes, TypePc, Ungrabbing, evdev_cleanup, Goto,
             CloseInput, StartGrace
    <3>5. \A d \in Clients : ~ Freed(d)' =>
            /\ ~ Freed(d)
            /\ lock[d] \in {"on", "expired"} <=> lock'[d] \in {"on", "expired"}
      BY <1>5, EvdevAssumption
         DEF EvInv, EvTypes, TypePc, TypeLock, Freed, evdev_cleanup, Goto,
             CloseInput, StartGrace
    <3>6. \A d \in Clients : reader'[d] # "idle" => pc'[d] \in InFile
      BY <1>5, EvdevAssumption
         DEF EvInv, EvTypes, TypePc, TypeReader, BufInv, ReaderInv, InFile,
             evdev_cleanup, Goto, CloseInput, StartGrace
    <3> QED BY <3>1, <3>2, <3>3, <3>4, <3>5, <3>6 DEF Undisturbed
  <2> QED BY <2>1, <2>2, Quiet
<1>6. CASE input_unregister_handle
  <2>1. /\ next' = next /\ prev' = prev /\ walk' = walk /\ event' = event
        /\ ring' = ring /\ recent' = recent /\ lag' = lag /\ last' = last
        /\ grace \subseteq grace' /\ (walk.pos = None => grace' = grace)
    BY <1>6 DEF input_unregister_handle, Goto, StartGrace
  <2>2. \A d \in Clients : Undisturbed(d)
    BY <1>6, EvdevAssumption
       DEF input_unregister_handle, Goto, StartGrace, Undisturbed, EvInv,
           EvTypes, TypeEvdev, TypePc, TypeLock, TypeReader, GrabInv, GrabOf,
           BufInv, ReaderInv, Listed, InFile, Leaving, Ungrabbing, Freed
  <2> QED BY <2>1, <2>2, Quiet
<1>7. CASE EndDisconnect
  <2>1. /\ next' = next /\ prev' = prev /\ walk' = walk /\ event' = event
        /\ ring' = ring /\ recent' = recent /\ lag' = lag /\ last' = last
        /\ grace \subseteq grace' /\ (walk.pos = None => grace' = grace)
    BY <1>7 DEF EndDisconnect, Goto
  <2>2. \A d \in Clients : Undisturbed(d)
    BY <1>7, EvdevAssumption
       DEF EndDisconnect, Goto, Undisturbed, EvInv, EvTypes, TypeEvdev, TypePc,
           TypeLock, TypeReader, GrabInv, GrabOf, BufInv, ReaderInv, Listed,
           InFile, Leaving, Ungrabbing, Freed
  <2> QED BY <2>1, <2>2, Quiet
<1>8. ASSUME NEW c \in Clients, LockExpires(c) PROVE BufInv'
  <2>1. /\ next' = next /\ prev' = prev /\ walk' = walk /\ event' = event
        /\ ring' = ring /\ recent' = recent /\ lag' = lag /\ last' = last
        /\ grace \subseteq grace' /\ (walk.pos = None => grace' = grace)
    BY <1>8 DEF LockExpires
  <2>2. \A d \in Clients : Undisturbed(d)
    <3>1. \A d \in Clients : pc[d] \in Listed <=> pc'[d] \in Listed
      BY <1>8, EvdevAssumption
         DEF EvInv, EvTypes, TypePc, Listed, InFile, LockExpires
    <3>2. \A d \in Clients : Leaving(d) <=> Leaving(d)'
      BY <1>8, EvdevAssumption DEF EvInv, EvTypes, TypePc, Leaving, LockExpires
    <3>3. \A d \in Clients : evdev.grab = d => evdev'.grab = d
      BY <1>8, EvdevAssumption DEF EvInv, EvTypes, TypeEvdev, LockExpires
    <3>4. \A d \in Clients :
            pc[d] \in Ungrabbing /\ d \in grace => pc'[d] = pc[d]
      BY <1>8, EvdevAssumption
         DEF EvInv, EvTypes, TypePc, Ungrabbing, LockExpires
    <3>5. \A d \in Clients : ~ Freed(d)' =>
            /\ ~ Freed(d)
            /\ lock[d] \in {"on", "expired"} <=> lock'[d] \in {"on", "expired"}
      BY <1>8, EvdevAssumption
         DEF EvInv, EvTypes, TypePc, TypeLock, Freed, LockExpires
    <3>6. \A d \in Clients : reader'[d] # "idle" => pc'[d] \in InFile
      BY <1>8, EvdevAssumption
         DEF EvInv, EvTypes, TypePc, TypeReader, BufInv, ReaderInv, InFile,
             LockExpires
    <3> QED BY <3>1, <3>2, <3>3, <3>4, <3>5, <3>6 DEF Undisturbed
  <2> QED BY <2>1, <2>2, Quiet
<1>9. ASSUME NEW c \in Clients, WaitForEvent(c) PROVE BufInv'
  <2>1. /\ next' = next /\ prev' = prev /\ walk' = walk /\ event' = event
        /\ ring' = ring /\ recent' = recent /\ lag' = lag /\ last' = last
        /\ grace \subseteq grace' /\ (walk.pos = None => grace' = grace)
    BY <1>9 DEF WaitForEvent
  <2>2. \A d \in Clients : Undisturbed(d)
    <3>1. \A d \in Clients : pc[d] \in Listed <=> pc'[d] \in Listed
      BY <1>9, EvdevAssumption
         DEF EvInv, EvTypes, TypePc, Listed, InFile, WaitForEvent
    <3>2. \A d \in Clients : Leaving(d) <=> Leaving(d)'
      BY <1>9, EvdevAssumption
         DEF EvInv, EvTypes, TypePc, Leaving, WaitForEvent
    <3>3. \A d \in Clients : evdev.grab = d => evdev'.grab = d
      BY <1>9, EvdevAssumption DEF EvInv, EvTypes, TypeEvdev, WaitForEvent
    <3>4. \A d \in Clients :
            pc[d] \in Ungrabbing /\ d \in grace => pc'[d] = pc[d]
      BY <1>9, EvdevAssumption
         DEF EvInv, EvTypes, TypePc, Ungrabbing, WaitForEvent
    <3>5. \A d \in Clients : ~ Freed(d)' =>
            /\ ~ Freed(d)
            /\ lock[d] \in {"on", "expired"} <=> lock'[d] \in {"on", "expired"}
      BY <1>9, EvdevAssumption
         DEF EvInv, EvTypes, TypePc, TypeLock, Freed, WaitForEvent
    <3>6. \A d \in Clients : reader'[d] # "idle" => pc'[d] \in InFile
      BY <1>9, EvdevAssumption
         DEF EvInv, EvTypes, TypePc, TypeReader, BufInv, ReaderInv, InFile,
             WaitForEvent
    <3> QED BY <3>1, <3>2, <3>3, <3>4, <3>5, <3>6 DEF Undisturbed
  <2> QED BY <2>1, <2>2, Quiet
<1>10. ASSUME NEW c \in Clients, FreeFailed(c) PROVE BufInv'
  <2>1. /\ next' = next /\ prev' = prev /\ walk' = walk /\ event' = event
        /\ ring' = ring /\ recent' = recent /\ lag' = lag /\ last' = last
        /\ grace \subseteq grace' /\ (walk.pos = None => grace' = grace)
    BY <1>10 DEF FreeFailed, Goto, Synchronized
  <2>2. \A d \in Clients : Undisturbed(d)
    BY <1>10, EvdevAssumption
       DEF FreeFailed, Goto, Synchronized, Undisturbed, EvInv, EvTypes,
           TypeEvdev, TypePc, TypeLock, TypeReader, GrabInv, GrabOf, BufInv,
           ReaderInv, Listed, InFile, Leaving, Ungrabbing, Freed
  <2> QED BY <2>1, <2>2, Quiet
<1>11. ASSUME NEW c \in Clients, EndWrite(c) PROVE BufInv'
  <2>1. /\ next' = next /\ prev' = prev /\ walk' = walk /\ event' = event
        /\ ring' = ring /\ recent' = recent /\ lag' = lag /\ last' = last
        /\ grace \subseteq grace' /\ (walk.pos = None => grace' = grace)
    BY <1>11 DEF EndWrite, Goto
  <2>2. \A d \in Clients : Undisturbed(d)
    BY <1>11, EvdevAssumption
       DEF EndWrite, Goto, Undisturbed, EvInv, EvTypes, TypeEvdev, TypePc,
           TypeLock, TypeReader, GrabInv, GrabOf, BufInv, ReaderInv, Listed,
           InFile, Leaving, Ungrabbing, Freed
  <2> QED BY <2>1, <2>2, Quiet
<1>12. ASSUME NEW c \in Clients, AssignGrab(c) PROVE BufInv'
  <2>1. /\ next' = next /\ prev' = prev /\ walk' = walk /\ event' = event
        /\ ring' = ring /\ recent' = recent /\ lag' = lag /\ last' = last
        /\ grace \subseteq grace' /\ (walk.pos = None => grace' = grace)
    BY <1>12 DEF AssignGrab, Goto, StartGrace, Synchronized
  <2>2. \A d \in Clients : Undisturbed(d)
    BY <1>12, EvdevAssumption
       DEF AssignGrab, Goto, StartGrace, Synchronized, Undisturbed, EvInv,
           EvTypes, TypeEvdev, TypePc, TypeLock, TypeReader, GrabInv, GrabOf,
           BufInv, ReaderInv, Listed, InFile, Leaving, Ungrabbing, Freed
  <2> QED BY <2>1, <2>2, Quiet
<1>13. ASSUME NEW c \in Clients, EndGrab(c) PROVE BufInv'
  <2>1. /\ next' = next /\ prev' = prev /\ walk' = walk /\ event' = event
        /\ ring' = ring /\ recent' = recent /\ lag' = lag /\ last' = last
        /\ grace \subseteq grace' /\ (walk.pos = None => grace' = grace)
    BY <1>13 DEF EndGrab, Goto
  <2>2. \A d \in Clients : Undisturbed(d)
    BY <1>13, EvdevAssumption
       DEF EndGrab, Goto, Undisturbed, EvInv, EvTypes, TypeEvdev, TypePc,
           TypeLock, TypeReader, GrabInv, GrabOf, BufInv, ReaderInv, Listed,
           InFile, Leaving, Ungrabbing, Freed
  <2> QED BY <2>1, <2>2, Quiet
<1>14. ASSUME NEW c \in Clients, ReleaseDevice(c) PROVE BufInv'
  <2>1. /\ next' = next /\ prev' = prev /\ walk' = walk /\ event' = event
        /\ ring' = ring /\ recent' = recent /\ lag' = lag /\ last' = last
        /\ grace \subseteq grace' /\ (walk.pos = None => grace' = grace)
    BY <1>14 DEF ReleaseDevice, Goto, StartGrace, Synchronized
  <2>2. \A d \in Clients : Undisturbed(d)
    <3>1. \A d \in Clients : pc[d] \in Listed <=> pc'[d] \in Listed
      BY <1>14, EvdevAssumption
         DEF EvInv, EvTypes, TypePc, Listed, InFile, ReleaseDevice, Goto,
             StartGrace, Synchronized
    <3>2. \A d \in Clients : Leaving(d) <=> Leaving(d)'
      BY <1>14, EvdevAssumption
         DEF EvInv, EvTypes, TypePc, Leaving, ReleaseDevice, Goto, StartGrace,
             Synchronized
    <3>3. \A d \in Clients : evdev.grab = d => evdev'.grab = d
      BY <1>14, EvdevAssumption
         DEF EvInv, EvTypes, TypeEvdev, ReleaseDevice, Goto, StartGrace,
             Synchronized
    <3>4. \A d \in Clients :
            pc[d] \in Ungrabbing /\ d \in grace => pc'[d] = pc[d]
      BY <1>14, EvdevAssumption
         DEF EvInv, EvTypes, TypePc, Ungrabbing, ReleaseDevice, Goto,
             StartGrace, Synchronized
    <3>5. \A d \in Clients : ~ Freed(d)' =>
            /\ ~ Freed(d)
            /\ lock[d] \in {"on", "expired"} <=> lock'[d] \in {"on", "expired"}
      BY <1>14, EvdevAssumption
         DEF EvInv, EvTypes, TypePc, TypeLock, Freed, ReleaseDevice, Goto,
             StartGrace, Synchronized
    <3>6. \A d \in Clients : reader'[d] # "idle" => pc'[d] \in InFile
      BY <1>14, EvdevAssumption
         DEF EvInv, EvTypes, TypePc, TypeReader, BufInv, ReaderInv, InFile,
             ReleaseDevice, Goto, StartGrace, Synchronized
    <3> QED BY <3>1, <3>2, <3>3, <3>4, <3>5, <3>6 DEF Undisturbed
  <2> QED BY <2>1, <2>2, Quiet
<1>15. ASSUME NEW c \in Clients, EndUngrab(c) PROVE BufInv'
  <2>1. /\ next' = next /\ prev' = prev /\ walk' = walk /\ event' = event
        /\ ring' = ring /\ recent' = recent /\ lag' = lag /\ last' = last
        /\ grace \subseteq grace' /\ (walk.pos = None => grace' = grace)
    BY <1>15 DEF EndUngrab, Goto
  <2>2. \A d \in Clients : Undisturbed(d)
    BY <1>15, EvdevAssumption
       DEF EndUngrab, Goto, Undisturbed, EvInv, EvTypes, TypeEvdev, TypePc,
           TypeLock, TypeReader, GrabInv, GrabOf, BufInv, ReaderInv, Listed,
           InFile, Leaving, Ungrabbing, Freed
  <2> QED BY <2>1, <2>2, Quiet
<1>16. ASSUME NEW c \in Clients, FreeClient(c) PROVE BufInv'
  <2>1. /\ next' = next /\ prev' = prev /\ walk' = walk /\ event' = event
        /\ ring' = ring /\ recent' = recent /\ lag' = lag /\ last' = last
        /\ grace \subseteq grace' /\ (walk.pos = None => grace' = grace)
    BY <1>16 DEF FreeClient, Goto, Synchronized
  <2>2. \A d \in Clients : Undisturbed(d)
    <3>1. \A d \in Clients : pc[d] \in Listed <=> pc'[d] \in Listed
      BY <1>16, EvdevAssumption
         DEF EvInv, EvTypes, TypePc, Listed, InFile, FreeClient, Goto,
             Synchronized
    <3>2. \A d \in Clients : Leaving(d) <=> Leaving(d)'
      BY <1>16, EvdevAssumption
         DEF EvInv, EvTypes, TypePc, Leaving, FreeClient, Goto, Synchronized
    <3>3. \A d \in Clients : evdev.grab = d => evdev'.grab = d
      BY <1>16, EvdevAssumption
         DEF EvInv, EvTypes, TypeEvdev, FreeClient, Goto, Synchronized
    <3>4. \A d \in Clients :
            pc[d] \in Ungrabbing /\ d \in grace => pc'[d] = pc[d]
      BY <1>16, EvdevAssumption
         DEF EvInv, EvTypes, TypePc, Ungrabbing, FreeClient, Goto, Synchronized
    <3>5. \A d \in Clients : ~ Freed(d)' =>
            /\ ~ Freed(d)
            /\ lock[d] \in {"on", "expired"} <=> lock'[d] \in {"on", "expired"}
      BY <1>16, EvdevAssumption
         DEF EvInv, EvTypes, TypePc, TypeLock, Freed, FreeClient, Goto,
             Synchronized
    <3>6. \A d \in Clients : reader'[d] # "idle" => pc'[d] \in InFile
      BY <1>16, EvdevAssumption
         DEF EvInv, EvTypes, TypePc, TypeReader, BufInv, ReaderInv, InFile,
             FreeClient, Goto, Synchronized
    <3> QED BY <3>1, <3>2, <3>3, <3>4, <3>5, <3>6 DEF Undisturbed
  <2> QED BY <2>1, <2>2, Quiet
<1>17. ASSUME NEW c \in Clients, evdev_close_device(c) PROVE BufInv'
  <2>1. /\ next' = next /\ prev' = prev /\ walk' = walk /\ event' = event
        /\ ring' = ring /\ recent' = recent /\ lag' = lag /\ last' = last
        /\ grace \subseteq grace' /\ (walk.pos = None => grace' = grace)
    BY <1>17 DEF evdev_close_device, Goto, CloseInput, StartGrace
  <2>2. \A d \in Clients : Undisturbed(d)
    <3>1. \A d \in Clients : pc[d] \in Listed <=> pc'[d] \in Listed
      BY <1>17, EvdevAssumption
         DEF EvInv, EvTypes, TypePc, Listed, InFile, evdev_close_device, Goto,
             CloseInput, StartGrace
    <3>2. \A d \in Clients : Leaving(d) <=> Leaving(d)'
      BY <1>17, EvdevAssumption
         DEF EvInv, EvTypes, TypePc, Leaving, evdev_close_device, Goto,
             CloseInput, StartGrace
    <3>3. \A d \in Clients : evdev.grab = d => evdev'.grab = d
      BY <1>17, EvdevAssumption
         DEF EvInv, EvTypes, TypeEvdev, evdev_close_device, Goto, CloseInput,
             StartGrace
    <3>4. \A d \in Clients :
            pc[d] \in Ungrabbing /\ d \in grace => pc'[d] = pc[d]
      BY <1>17, EvdevAssumption
         DEF EvInv, EvTypes, TypePc, Ungrabbing, evdev_close_device, Goto,
             CloseInput, StartGrace
    <3>5. \A d \in Clients : ~ Freed(d)' =>
            /\ ~ Freed(d)
            /\ lock[d] \in {"on", "expired"} <=> lock'[d] \in {"on", "expired"}
      BY <1>17, EvdevAssumption
         DEF EvInv, EvTypes, TypePc, TypeLock, Freed, evdev_close_device, Goto,
             CloseInput, StartGrace
    <3>6. \A d \in Clients : reader'[d] # "idle" => pc'[d] \in InFile
      BY <1>17, EvdevAssumption
         DEF EvInv, EvTypes, TypePc, TypeReader, BufInv, ReaderInv, InFile,
             evdev_close_device, Goto, CloseInput, StartGrace
    <3> QED BY <3>1, <3>2, <3>3, <3>4, <3>5, <3>6 DEF Undisturbed
  <2> QED BY <2>1, <2>2, Quiet
<1>18. ASSUME NEW c \in Clients, EndClose(c) PROVE BufInv'
  <2>1. /\ next' = next /\ prev' = prev /\ walk' = walk /\ event' = event
        /\ ring' = ring /\ recent' = recent /\ lag' = lag /\ last' = last
        /\ grace \subseteq grace' /\ (walk.pos = None => grace' = grace)
    BY <1>18 DEF EndClose, Goto
  <2>2. \A d \in Clients : Undisturbed(d)
    BY <1>18, EvdevAssumption
       DEF EndClose, Goto, Undisturbed, EvInv, EvTypes, TypeEvdev, TypePc,
           TypeLock, TypeReader, GrabInv, GrabOf, BufInv, ReaderInv, Listed,
           InFile, Leaving, Ungrabbing, Freed
  <2> QED BY <2>1, <2>2, Quiet
<1>19. ASSUME NEW c \in Clients, BeginRead(c) PROVE BufInv'
  <2>1. /\ next' = next /\ prev' = prev /\ walk' = walk /\ event' = event
        /\ ring' = ring /\ recent' = recent /\ lag' = lag /\ last' = last
        /\ grace \subseteq grace' /\ (walk.pos = None => grace' = grace)
    BY <1>19 DEF BeginRead
  <2>2. \A d \in Clients : Undisturbed(d)
    <3>1. \A d \in Clients : pc[d] \in Listed <=> pc'[d] \in Listed
      BY <1>19, EvdevAssumption
         DEF EvInv, EvTypes, TypePc, Listed, InFile, BeginRead
    <3>2. \A d \in Clients : Leaving(d) <=> Leaving(d)'
      BY <1>19, EvdevAssumption DEF EvInv, EvTypes, TypePc, Leaving, BeginRead
    <3>3. \A d \in Clients : evdev.grab = d => evdev'.grab = d
      BY <1>19, EvdevAssumption DEF EvInv, EvTypes, TypeEvdev, BeginRead
    <3>4. \A d \in Clients :
            pc[d] \in Ungrabbing /\ d \in grace => pc'[d] = pc[d]
      BY <1>19, EvdevAssumption
         DEF EvInv, EvTypes, TypePc, Ungrabbing, BeginRead
    <3>5. \A d \in Clients : ~ Freed(d)' =>
            /\ ~ Freed(d)
            /\ lock[d] \in {"on", "expired"} <=> lock'[d] \in {"on", "expired"}
      BY <1>19, EvdevAssumption
         DEF EvInv, EvTypes, TypePc, TypeLock, Freed, BeginRead
    <3>6. \A d \in Clients : reader'[d] # "idle" => pc'[d] \in InFile
      BY <1>19, EvdevAssumption
         DEF EvInv, EvTypes, TypePc, TypeReader, BufInv, ReaderInv, InFile,
             BeginRead
    <3> QED BY <3>1, <3>2, <3>3, <3>4, <3>5, <3>6 DEF Undisturbed
  <2> QED BY <2>1, <2>2, Quiet
<1>20. ASSUME NEW c \in Clients, Interrupted(c) PROVE BufInv'
  <2>1. /\ next' = next /\ prev' = prev /\ walk' = walk /\ event' = event
        /\ ring' = ring /\ recent' = recent /\ lag' = lag /\ last' = last
        /\ grace \subseteq grace' /\ (walk.pos = None => grace' = grace)
    BY <1>20 DEF Interrupted
  <2>2. \A d \in Clients : Undisturbed(d)
    <3>1. \A d \in Clients : pc[d] \in Listed <=> pc'[d] \in Listed
      BY <1>20, EvdevAssumption
         DEF EvInv, EvTypes, TypePc, Listed, InFile, Interrupted
    <3>2. \A d \in Clients : Leaving(d) <=> Leaving(d)'
      BY <1>20, EvdevAssumption
         DEF EvInv, EvTypes, TypePc, Leaving, Interrupted
    <3>3. \A d \in Clients : evdev.grab = d => evdev'.grab = d
      BY <1>20, EvdevAssumption DEF EvInv, EvTypes, TypeEvdev, Interrupted
    <3>4. \A d \in Clients :
            pc[d] \in Ungrabbing /\ d \in grace => pc'[d] = pc[d]
      BY <1>20, EvdevAssumption
         DEF EvInv, EvTypes, TypePc, Ungrabbing, Interrupted
    <3>5. \A d \in Clients : ~ Freed(d)' =>
            /\ ~ Freed(d)
            /\ lock[d] \in {"on", "expired"} <=> lock'[d] \in {"on", "expired"}
      BY <1>20, EvdevAssumption
         DEF EvInv, EvTypes, TypePc, TypeLock, Freed, Interrupted
    <3>6. \A d \in Clients : reader'[d] # "idle" => pc'[d] \in InFile
      BY <1>20, EvdevAssumption
         DEF EvInv, EvTypes, TypePc, TypeReader, BufInv, ReaderInv, InFile,
             Interrupted
    <3> QED BY <3>1, <3>2, <3>3, <3>4, <3>5, <3>6 DEF Undisturbed
  <2> QED BY <2>1, <2>2, Quiet
<1>21. ASSUME NEW c \in Clients, BeginWrite(c) PROVE BufInv'
  <2>1. /\ next' = next /\ prev' = prev /\ walk' = walk /\ event' = event
        /\ ring' = ring /\ recent' = recent /\ lag' = lag /\ last' = last
        /\ grace \subseteq grace' /\ (walk.pos = None => grace' = grace)
    BY <1>21 DEF BeginWrite, Goto
  <2>2. \A d \in Clients : Undisturbed(d)
    BY <1>21, EvdevAssumption
       DEF BeginWrite, Goto, Undisturbed, EvInv, EvTypes, TypeEvdev, TypePc,
           TypeLock, TypeReader, GrabInv, GrabOf, BufInv, ReaderInv, Listed,
           InFile, Leaving, Ungrabbing, Freed
  <2> QED BY <2>1, <2>2, Quiet
<1>22. ASSUME NEW c \in Clients, GrabDevice(c) PROVE BufInv'
  <2>1. /\ next' = next /\ prev' = prev /\ walk' = walk /\ event' = event
        /\ ring' = ring /\ recent' = recent /\ lag' = lag /\ last' = last
        /\ grace \subseteq grace' /\ (walk.pos = None => grace' = grace)
    BY <1>22 DEF GrabDevice, Goto, StartGrace
  <2>2. \A d \in Clients : Undisturbed(d)
    BY <1>22, EvdevAssumption
       DEF GrabDevice, Goto, StartGrace, Undisturbed, EvInv, EvTypes,
           TypeEvdev, TypePc, TypeLock, TypeReader, GrabInv, GrabOf, BufInv,
           ReaderInv, Listed, InFile, Leaving, Ungrabbing, Freed
  <2> QED BY <2>1, <2>2, Quiet
<1>23. ASSUME NEW c \in Clients, Release(c) PROVE BufInv'
  <2>1. /\ next' = next /\ prev' = prev /\ walk' = walk /\ event' = event
        /\ ring' = ring /\ recent' = recent /\ lag' = lag /\ last' = last
        /\ grace \subseteq grace' /\ (walk.pos = None => grace' = grace)
    BY <1>23 DEF Release, Goto
  <2>2. \A d \in Clients : Undisturbed(d)
    BY <1>23, EvdevAssumption
       DEF Release, Goto, Undisturbed, EvInv, EvTypes, TypeEvdev, TypePc,
           TypeLock, TypeReader, GrabInv, GrabOf, BufInv, ReaderInv, Listed,
           InFile, Leaving, Ungrabbing, Freed
  <2> QED BY <2>1, <2>2, Quiet
<1>24. ASSUME NEW c \in Clients, NEW release \in BOOLEAN, Ungrab(c, release)
      PROVE  BufInv'
  <2>1. /\ next' = next /\ prev' = prev /\ walk' = walk /\ event' = event
        /\ ring' = ring /\ recent' = recent /\ lag' = lag /\ last' = last
        /\ grace \subseteq grace' /\ (walk.pos = None => grace' = grace)
    BY <1>24 DEF Ungrab, Goto, StartGrace
  <2>2. \A d \in Clients : Undisturbed(d)
    BY <1>24, EvdevAssumption
       DEF Ungrab, Goto, StartGrace, Undisturbed, EvInv, EvTypes, TypeEvdev,
           TypePc, TypeLock, TypeReader, GrabInv, GrabOf, BufInv, ReaderInv,
           Listed, InFile, Leaving, Ungrabbing, Freed
  <2> QED BY <2>1, <2>2, Quiet
<1> QED
  BY <1>1, <1>2, <1>3, <1>4, <1>5, <1>6, <1>7, <1>8, <1>9, <1>10, <1>11,
     <1>12, <1>13, <1>14, <1>15, <1>16, <1>17, <1>18, <1>19, <1>20, <1>21,
     <1>22, <1>23, <1>24

-----------------------------------------------------------------------------
(* An event begins and ends.                                               *)

LEMMA ListedNotFreed ==
  ASSUME NEW c \in Clients, c \in Visible PROVE ~ Freed(c)
BY EvdevAssumption DEF Visible, OnL, Leaving, Listed, InFile, Freed

LEMMA GrabberNotFreed ==
  ASSUME EvInv, NEW c \in Clients, evdev.grab = c PROVE ~ Freed(c)
BY DEF EvInv, GrabInv, GrabOf, Freed

LEMMA WalkBegins ==
  ASSUME EvInv, BufInv, BeginWalk, next' = next, prev' = prev,
         evdev' = evdev, ring' = ring, lock' = lock, recent' = recent,
         lag' = lag, last' = last, reader' = reader,
         \A c \in Clients :
           /\ pc[c] \in Listed <=> pc'[c] \in Listed
           /\ ~ Leaving(c)'
           /\ Freed(c)' <=> Freed(c)
           /\ pc[c] \in InFile => pc'[c] \in InFile
  PROVE  BufInv'
<1>0. /\ walk.pos = None /\ event' = event + 1 /\ event \in Int
      /\ walk' = IF evdev.grab # None
                   THEN [pos |-> evdev.grab, single |-> TRUE]
                   ELSE [pos |-> next[ListEnd], single |-> FALSE]
  BY DEF BeginWalk, EvInv, EvTypes, TypeEvent
<1>1. BufTypes'
  BY DEF BufInv, BufTypes, TypeRecent, TypeLag, TypeLast, TypeSlots
<1>2. OnL' = OnL
  BY DEF OnL
<1>3. Visible' = OnL /\ Visible = OnL
  BY <1>0, <1>2 DEF Visible, Leaving, BufInv, WalkInv
<1>4. ListInv'
  BY <1>2, <1>3 DEF BufInv, ListInv
<1>5. next[ListEnd] \in OnL /\ next[ListEnd] # None /\ walk'.pos # None
  <2>1. ListEnd \in OnL
    BY DEF OnL
  <2>2. next[ListEnd] \in OnL
    BY <2>1 DEF BufInv, ListInv
  <2>3. None \notin OnL
    BY EvdevAssumption DEF OnL
  <2> QED BY <1>0, <2>2, <2>3
<1>6. WalkInv'
  BY <1>0, <1>3, <1>5 DEF WalkInv
<1>7. ReaderInv'
  BY DEF BufInv, ReaderInv
<1>8. RingInv'
  <2>1. event' >= 0 /\ event' > 0
    BY <1>0 DEF BufInv, RingInv
  <2>2. ASSUME NEW c \in Clients, ~ Freed(c)' PROVE RingOf(c)'
    <3>1. RingOf(c)
      BY <2>2 DEF BufInv, RingInv
    <3>2. Count(c)' = Count(c)
      BY DEF Count
    <3>3. last[c] \in Int /\ recent[c] \in Seq(Int)
      BY DEF BufInv, BufTypes, TypeLast, TypeRecent
    <3>4. \A i \in 1 .. Len(recent[c]) : recent[c][i] \in Int
      BY <3>3, ElementOfSeq
    <3>5. /\ last[c] <= event + 1
          /\ \A i \in 1 .. Len(recent[c]) : recent[c][i] <= event + 1
      <4>1. /\ last[c] <= event
            /\ \A i \in 1 .. Len(recent[c]) : recent[c][i] <= event
        BY <3>1 DEF RingOf
      <4>2. \A x \in Int : x <= event => x <= event + 1
        BY <1>0
      <4> QED BY <3>3, <3>4, <4>1, <4>2
    <3> QED BY <1>0, <3>1, <3>2, <3>5 DEF RingOf
  <2> QED BY <2>1, <2>2 DEF RingInv
<1>9. ASSUME NEW c \in Clients, ~ Freed(c) PROVE Fresh(c)'
  <2>1. RingOf(c)
    BY <1>9 DEF BufInv, RingInv
  <2>2. last[c] \in Int /\ recent[c] \in Seq(Int)
    BY DEF BufInv, BufTypes, TypeLast, TypeRecent
  <2>3. \A i \in 1 .. Len(recent[c]) : recent[c][i] \in Int
    BY <2>2, ElementOfSeq
  <2>4. /\ last[c] < event + 1
        /\ \A i \in 1 .. Len(recent[c]) : recent[c][i] < event + 1
    <3>1. /\ last[c] <= event
          /\ \A i \in 1 .. Len(recent[c]) : recent[c][i] <= event
      BY <2>1 DEF RingOf
    <3>2. \A x \in Int : x <= event => x < event + 1
      BY <1>0
    <3> QED BY <2>2, <2>3, <3>1, <3>2
  <2> QED BY <1>0, <2>4 DEF Fresh
<1>10. OrderInv'
  <2>1. PICK ord \in [Clients -> Int] : Order(ord)
    BY DEF BufInv, OrderInv
  <2>2. \A n \in Visible \cap Clients : Fresh(n)'
    BY <1>9, ListedNotFreed
  <2>3. Order(ord)'
    BY <1>3, <2>1, <2>2 DEF Order
  <2>4. \E o \in [Clients -> Int] : Order(o)'
    BY <2>1, <2>3
  <2>5. (walk.pos \in Clients /\ walk.single => Fresh(walk.pos))'
    <3>1. CASE evdev.grab = None
      <4>1. ~ walk'.single
        BY <1>0, <3>1
      <4> QED BY <4>1
    <3>2. CASE evdev.grab # None
      <4>1. evdev.grab \in Clients /\ walk'.pos = evdev.grab
        BY <1>0, <3>2 DEF EvInv, EvTypes, TypeEvdev
      <4>2. Fresh(evdev.grab)'
        BY <1>9, <4>1, GrabberNotFreed
      <4> QED BY <4>1, <4>2 DEF Fresh
    <3> QED BY <3>1, <3>2
  <2> QED BY <2>4, <2>5 DEF OrderInv
<1> QED BY <1>1, <1>4, <1>6, <1>7, <1>8, <1>10 DEF BufInv

LEMMA InputEventKeeps ==
  ASSUME EvInv, BufInv, InputEvent PROVE BufInv'
<1>1. /\ BeginWalk /\ next' = next /\ prev' = prev /\ evdev' = evdev
      /\ ring' = ring /\ lock' = lock /\ recent' = recent /\ lag' = lag
      /\ last' = last /\ reader' = reader /\ pc' = pc /\ grace' = grace
  BY DEF InputEvent
<1>2. grace = {}
  BY <1>1 DEF BeginWalk, BufInv, WalkInv
<1> QED BY <1>1, <1>2, WalkBegins DEF Leaving, Freed

LEMMA InjectKeeps ==
  ASSUME EvInv, BufInv, NEW c \in Clients, input_inject_event(c) PROVE BufInv'
<1>1. /\ BeginWalk /\ next' = next /\ prev' = prev /\ evdev' = evdev
      /\ ring' = ring /\ lock' = lock /\ recent' = recent /\ lag' = lag
      /\ last' = last /\ reader' = reader /\ grace' = grace \cup {c}
  BY DEF input_inject_event
<1>2. grace = {}
  BY <1>1 DEF BeginWalk, BufInv, WalkInv
<1>3. pc[c] = "write" /\ pc'[c] = "written"
        /\ \A d \in Clients : d # c => pc'[d] = pc[d]
  BY DEF input_inject_event, Goto, EvInv, EvTypes, TypePc
<1>4. \A d \in Clients :
        /\ pc[d] \in Listed <=> pc'[d] \in Listed
        /\ ~ Leaving(d)'
        /\ Freed(d)' <=> Freed(d)
        /\ pc[d] \in InFile => pc'[d] \in InFile
  BY <1>1, <1>2, <1>3 DEF Leaving, Freed, Listed, InFile
<1> QED BY <1>1, <1>4, WalkBegins

LEMMA EndWalkKeeps ==
  ASSUME EvInv, BufInv, EndWalk PROVE BufInv'
<1>0. /\ walk' = Idle /\ grace' = {} /\ reader' = WakeReaders
      /\ next' = next /\ prev' = prev /\ evdev' = evdev /\ event' = event
      /\ ring' = ring /\ lock' = lock /\ recent' = recent /\ lag' = lag
      /\ last' = last /\ pc' = pc
  BY DEF EndWalk
<1>1. BufTypes'
  BY <1>0 DEF BufInv, BufTypes, TypeRecent, TypeLag, TypeLast, TypeSlots
<1>2. OnL' = OnL /\ Visible' = OnL /\ OnL \subseteq Visible
  BY <1>0 DEF OnL, Visible, Leaving
<1>3. ListInv'
  BY <1>0, <1>2 DEF BufInv, ListInv
<1>4. walk'.pos = None /\ walk'.pos \notin Clients
  BY <1>0, EvdevAssumption DEF Idle
<1>5. WalkInv'
  BY <1>0, <1>4 DEF WalkInv
<1>6. ReaderInv'
  BY <1>0 DEF BufInv, ReaderInv, WakeReaders
<1>7. RingInv'
  <2>1. ASSUME NEW c \in Clients, ~ Freed(c)' PROVE RingOf(c)'
    <3>1. RingOf(c)
      BY <1>0, <2>1 DEF BufInv, RingInv, Freed
    <3> QED BY <1>0, <3>1 DEF RingOf, Count
  <2> QED BY <1>0, <1>4, <2>1 DEF BufInv, RingInv
<1>8. OrderInv'
  <2>1. PICK ord \in [Clients -> Int] : Order(ord)
    BY DEF BufInv, OrderInv
  <2>2. Order(ord)'
    BY <1>0, <1>2, <1>4, <2>1 DEF Order
  <2> QED BY <1>4, <2>1, <2>2 DEF OrderInv
<1> QED BY <1>1, <1>3, <1>5, <1>6, <1>7, <1>8 DEF BufInv

-----------------------------------------------------------------------------
(* A client goes to the end of the list.                                   *)

LEMMA SingleNotFreed ==
  ASSUME EvInv, BufInv, walk.pos \in Clients PROVE ~ Freed(walk.pos)
<1>0. walk.pos # None
  BY EvdevAssumption
<1>1. CASE walk.single
  BY <1>1 DEF BufInv, WalkInv, EvInv, GrabInv, GrabOf, Freed
<1>2. CASE ~ walk.single
  BY <1>0, <1>2, ListedNotFreed DEF BufInv, WalkInv
<1> QED BY <1>1, <1>2

LEMMA OpenKeeps ==
  ASSUME EvInv, BufInv, NEW c \in Clients, Open(c) PROVE BufInv'
<1> DEFINE p == prev[ListEnd]
<1>0. /\ pc[c] = "none" /\ pc'[c] = "attached"
      /\ \A d \in Clients : d # c => pc'[d] = pc[d]
      /\ next' = [next EXCEPT ![p] = c, ![c] = ListEnd]
      /\ prev' = [prev EXCEPT ![ListEnd] = c, ![c] = p]
      /\ walk' = walk /\ event' = event /\ evdev' = evdev /\ reader' = reader
      /\ grace' = IF walk.pos = None THEN grace ELSE grace \cup {c}
  BY DEF Open, Goto, StartGrace, EvInv, EvTypes, TypePc
<1>1. c \notin OnL /\ c \notin Visible /\ c # ListEnd /\ Freed(c)
  BY <1>0, EvdevAssumption DEF OnL, Visible, Leaving, Listed, InFile, Freed
<1>2. OnL' = OnL \cup {c}
  BY <1>0 DEF OnL, Listed
<1>3. Visible' = Visible \cup {c}
  <2>1. \A d \in Clients : Leaving(d)' <=> Leaving(d)
    BY <1>0 DEF Leaving
  <2> QED BY <1>2, <2>1 DEF Visible
<1>4. p \in OnL /\ next[p] = ListEnd /\ p # c /\ OnL \subseteq Visible
        /\ Visible \subseteq Nodes
  BY <1>1 DEF OnL, Visible, BufInv, ListInv
<1>5. /\ next'[p] = c /\ next'[c] = ListEnd
      /\ \A n \in Nodes : n # p /\ n # c => next'[n] = next[n]
      /\ prev'[ListEnd] = c /\ prev'[c] = p
      /\ \A n \in Nodes : n # ListEnd /\ n # c => prev'[n] = prev[n]
  <2>1. next \in [Nodes -> Nodes] /\ prev \in [Nodes -> Nodes \cup {None}]
          /\ p \in Nodes
    BY <1>4 DEF EvInv, EvTypes, TypeNext, TypePrev, OnL
  <2> QED BY <1>0, <1>1, <1>4, <2>1
<1>6. ListInv'
  <2>1. ASSUME NEW n \in OnL \cup {c}
        PROVE  /\ next'[n] \in OnL \cup {c} /\ prev'[n] \in OnL \cup {c}
               /\ prev'[next'[n]] = n /\ next'[prev'[n]] = n
    <3>0. ListEnd \in OnL /\ OnL \subseteq Nodes
      BY <1>4 DEF OnL
    <3>1. CASE n = c
      BY <1>1, <1>4, <1>5, <3>0, <3>1
    <3>2. CASE n # c
      <4>1. /\ n \in OnL /\ n \in Nodes /\ next[n] \in OnL /\ prev[n] \in OnL
            /\ prev[next[n]] = n /\ next[prev[n]] = n
        BY <2>1, <3>0, <3>2 DEF BufInv, ListInv
      <4>2. next[n] # c /\ prev[n] # c
        BY <1>1, <4>1
      <4>3. next'[n] \in OnL \cup {c} /\ prev'[next'[n]] = n
        <5>1. CASE n = p
          BY <1>5, <5>1
        <5>2. CASE n # p
          <6>1. next'[n] = next[n]
            BY <1>5, <3>2, <4>1, <5>2
          <6>2. next[n] # ListEnd
            BY <4>1, <5>2
          <6> QED BY <1>5, <3>0, <4>1, <4>2, <6>1, <6>2
        <5> QED BY <5>1, <5>2
      <4>4. prev'[n] \in OnL \cup {c} /\ next'[prev'[n]] = n
        <5>1. CASE n = ListEnd
          BY <1>5, <5>1
        <5>2. CASE n # ListEnd
          <6>1. prev'[n] = prev[n]
            BY <1>5, <3>2, <4>1, <5>2
          <6>2. prev[n] # p
            BY <1>4, <4>1, <5>2
          <6> QED BY <1>5, <3>0, <4>1, <4>2, <6>1, <6>2
        <5> QED BY <5>1, <5>2
      <4> QED BY <4>3, <4>4
    <3> QED BY <3>1, <3>2
  <2>2. ASSUME NEW n \in Visible \cup {c} PROVE next'[n] \in Visible \cup {c}
    <3>1. n = c \/ n = p \/ (n \in Visible /\ next'[n] = next[n])
      BY <1>4, <1>5
    <3>2. n \in Visible => next[n] \in Visible
      BY DEF BufInv, ListInv
    <3>3. ListEnd \in Visible
      BY DEF Visible, OnL
    <3> QED BY <1>5, <3>1, <3>2, <3>3
  <2> QED BY <1>2, <1>3, <2>1, <2>2 DEF ListInv
<1>7. WalkInv'
  <2>1. walk.pos \in Clients => walk.pos # c
    BY <1>1, SingleNotFreed
  <2>2. walk.pos = None => grace' = {}
    BY <1>0 DEF BufInv, WalkInv
  <2>3. walk.pos # None /\ ~ walk.single => walk.pos \in Visible'
    BY <1>3 DEF BufInv, WalkInv
  <2>4. walk.pos \in Clients /\ walk.single =>
          \/ evdev.grab = walk.pos
          \/ /\ pc'[walk.pos] \in {"ungrab", "ungrab to release"}
             /\ walk.pos \in grace'
    BY <1>0, <2>1 DEF BufInv, WalkInv
  <2> QED BY <1>0, <2>2, <2>3, <2>4 DEF WalkInv
<1>8. ReaderInv'
  <2>1. ASSUME NEW d \in Clients, reader[d] # "idle" PROVE pc'[d] \in InFile
    <3>1. pc[d] \in InFile
      BY <2>1 DEF BufInv, ReaderInv
    <3>2. d # c
      BY <1>0, <3>1 DEF InFile
    <3> QED BY <1>0, <3>1, <3>2
  <2> QED BY <1>0, <2>1 DEF ReaderInv
<1>9. /\ ring'[c] = EmptyRing /\ lock'[c] = "off" /\ recent'[c] = << >>
      /\ lag'[c] = 0 /\ last'[c] = 0
      /\ \A d \in Clients : d # c =>
           /\ ring'[d] = ring[d] /\ lock'[d] = lock[d]
           /\ recent'[d] = recent[d] /\ lag'[d] = lag[d] /\ last'[d] = last[d]
  BY DEF Open, EvInv, EvTypes, TypeRing, TypeLock, BufInv, BufTypes,
         TypeRecent, TypeLag, TypeLast
<1>10. BufTypes'
  <2>1. recent' \in [Clients -> Seq(Int)]
    BY EmptySeq DEF Open, BufInv, BufTypes, TypeRecent
  <2>2. lag' \in [Clients -> Int] /\ last' \in [Clients -> Int]
    BY DEF Open, BufInv, BufTypes, TypeLag, TypeLast
  <2>3. TypeSlots'
    BY <1>9, EvdevAssumption DEF BufInv, BufTypes, TypeSlots, EmptyRing
  <2> QED BY <2>1, <2>2, <2>3 DEF BufTypes, TypeRecent, TypeLag, TypeLast
<1>11. RingInv'
  <2>1. event >= 0 /\ (walk.pos # None => event > 0)
    BY DEF BufInv, RingInv
  <2>2. ASSUME NEW d \in Clients, ~ Freed(d)' PROVE RingOf(d)'
    <3>1. CASE d = c
      <4>1. /\ event' >= 0 /\ ring'[d] = EmptyRing /\ lock'[d] = "off"
            /\ recent'[d] = << >> /\ lag'[d] = 0 /\ last'[d] = 0
        BY <1>0, <1>9, <2>1, <3>1
      <4>2. BufferSize \in Nat /\ BufferSize > 1 /\ 0 % BufferSize = 0
        BY EvdevAssumption
      <4>3. Count(d)' = 0
        BY <4>1, <4>2 DEF Count, Gap, EmptyRing
      <4>4. Len(recent'[d]) = 0
        BY <4>1
      <4> QED BY <4>1, <4>2, <4>3, <4>4 DEF RingOf, Holds, Rising
    <3>2. CASE d # c
      <4>1. RingOf(d)
        BY <1>0, <2>2, <3>2 DEF BufInv, RingInv, Freed
      <4>2. Count(d)' = Count(d)
        BY <1>9, <3>2 DEF Count
      <4> QED BY <1>0, <1>9, <3>2, <4>1, <4>2 DEF RingOf
    <3> QED BY <3>1, <3>2
  <2> QED BY <1>0, <2>1, <2>2 DEF RingInv
<1>12. OrderInv'
  <2>1. PICK ord \in [Clients -> Int] : Order(ord)
    BY DEF BufInv, OrderInv
  <2>2. PICK new \in [Clients -> Int] :
          /\ \A d \in Clients : d # c => new[d] = ord[d]
          /\ p \in Clients => ord[p] < new[c]
    <3> DEFINE o == [ord EXCEPT ![c] = IF p \in Clients THEN ord[p] + 1 ELSE 0]
    <3>1. /\ o \in [Clients -> Int]
          /\ \A d \in Clients : d # c => o[d] = ord[d]
          /\ p \in Clients => ord[p] < o[c]
      BY <2>1
    <3> QED BY <3>1
  <2>3. walk.pos \in Clients => walk.pos # c /\ walk.pos # None
    BY <1>1, SingleNotFreed, EvdevAssumption
  <2>4. \A d \in Clients : d # c /\ Fresh(d) => Fresh(d)'
    BY <1>0, <1>9 DEF Fresh
  <2>5. walk.pos \in Clients => Fresh(c)'
    <3>1. walk.pos \in Clients => event > 0
      BY <2>3 DEF BufInv, RingInv
    <3>2. Len(recent'[c]) = 0
      BY <1>9
    <3> QED BY <1>0, <1>9, <3>1, <3>2 DEF Fresh
  <2>6. ASSUME NEW n \in (Visible \cup {c}) \cap Clients, next'[n] \in Clients
        PROVE  new[n] < new[next'[n]]
    <3>1. CASE n = c
      BY <1>5, <2>6, <3>1, EvdevAssumption
    <3>2. CASE n = p
      BY <1>4, <1>5, <2>2, <2>6, <3>2
    <3>3. CASE n # c /\ n # p
      <4>1. next'[n] = next[n] /\ n \in Visible
        BY <1>5, <2>6, <3>3
      <4>2. next[n] \in Visible /\ next[n] # c
        BY <1>1, <4>1 DEF BufInv, ListInv
      <4> QED BY <2>1, <2>2, <2>6, <3>3, <4>1, <4>2 DEF Order
    <3> QED BY <3>1, <3>2, <3>3
  <2>7. ASSUME walk.pos \in Clients, ~ walk.single,
               NEW n \in (Visible \cup {c}) \cap Clients,
               new[walk.pos] <= new[n]
        PROVE  Fresh(n)'
    <3>1. CASE n = c
      BY <2>5, <2>7, <3>1
    <3>2. CASE n # c
      <4>1. n \in Visible /\ ord[walk.pos] <= ord[n]
        BY <2>2, <2>3, <2>7, <3>2
      <4> QED BY <2>1, <2>4, <2>7, <3>2, <4>1 DEF Order
    <3> QED BY <3>1, <3>2
  <2>8. Order(new)'
    BY <1>0, <1>3, <2>6, <2>7 DEF Order
  <2>9. walk.pos \in Clients /\ walk.single => Fresh(walk.pos)
    BY DEF BufInv, OrderInv
  <2>10. (walk.pos \in Clients /\ walk.single => Fresh(walk.pos))'
    BY <1>0, <2>3, <2>4, <2>9
  <2>11. \E o \in [Clients -> Int] : Order(o)'
    BY <2>2, <2>8
  <2> QED BY <2>10, <2>11 DEF OrderInv
<1> QED BY <1>6, <1>7, <1>8, <1>10, <1>11, <1>12 DEF BufInv

-----------------------------------------------------------------------------
(* A client leaves the list.                                               *)

LEMMA UnlinkKeeps ==
  ASSUME EvInv, BufInv, NEW c \in Clients, Unlink(c), StartGrace(c),
         pc[c] \in {"attached", "detach"}, pc'[c] \in {"failed", "detached"},
         \A d \in Clients : d # c => pc'[d] = pc[d],
         walk' = walk, event' = event, evdev' = evdev, ring' = ring,
         lock' = lock, reader' = reader, recent' = recent, lag' = lag,
         last' = last
  PROVE  BufInv'
<1> DEFINE p == prev[c]
           q == next[c]
<1>1. c \in OnL /\ c \in Visible /\ c # ListEnd /\ OnL \subseteq Nodes
        /\ OnL \subseteq Visible /\ Visible \subseteq Nodes
        /\ ListEnd \in OnL
  BY EvdevAssumption DEF OnL, Visible, Listed
<1>2. /\ p \in OnL /\ q \in OnL /\ next[p] = c /\ prev[q] = c
  BY <1>1 DEF BufInv, ListInv
<1>3. PICK ord \in [Clients -> Int] : Order(ord)
  BY DEF BufInv, OrderInv
<1>4. /\ p \in Clients => ord[p] < ord[c]
      /\ q \in Clients => ord[c] < ord[q]
  BY <1>1, <1>2, <1>3 DEF Order
<1>5. p # c /\ q # c
  BY <1>3, <1>4
<1>6. OnL' = OnL \ {c}
  BY <1>1 DEF OnL, Listed, InFile
<1>7. /\ grace' = IF walk.pos = None THEN grace ELSE grace \cup {c}
      /\ walk.pos = None => grace = {}
  BY DEF StartGrace, BufInv, WalkInv
<1>8. /\ walk.pos # None => Visible' = Visible
      /\ walk.pos = None => Visible' = OnL'
  <2>1. walk.pos # None => {d \in Clients : Leaving(d)'}
                             = {d \in Clients : Leaving(d)} \cup {c}
    BY <1>7 DEF Leaving
  <2>2. walk.pos = None => {d \in Clients : Leaving(d)'} = {}
    BY <1>7 DEF Leaving
  <2> QED BY <1>1, <1>6, <2>1, <2>2 DEF Visible
<1>9. /\ next'[p] = q /\ \A n \in Nodes : n # p => next'[n] = next[n]
      /\ prev'[q] = p
      /\ \A n \in Nodes : n # q /\ n # c => prev'[n] = prev[n]
  <2>1. next \in [Nodes -> Nodes] /\ prev \in [Nodes -> Nodes \cup {None}]
          /\ p \in Nodes /\ q \in Nodes /\ c \in Nodes
    BY <1>1, <1>2 DEF EvInv, EvTypes, TypeNext, TypePrev
  <2> QED BY <1>5, <2>1 DEF Unlink
<1>10. BufTypes'
  BY DEF BufInv, BufTypes, TypeRecent, TypeLag, TypeLast, TypeSlots
<1> HIDE DEF p, q
<1>11. ListInv'
  <2>1. ASSUME NEW n \in OnL \ {c}
        PROVE  /\ next'[n] \in OnL \ {c} /\ prev'[n] \in OnL \ {c}
               /\ prev'[next'[n]] = n /\ next'[prev'[n]] = n
    <3>1. /\ n \in Nodes /\ next[n] \in OnL /\ prev[n] \in OnL
          /\ prev[next[n]] = n /\ next[prev[n]] = n
      BY <1>1 DEF BufInv, ListInv
    <3>2. next'[n] \in OnL \ {c} /\ prev'[next'[n]] = n
      <4>1. CASE n = p
        BY <1>2, <1>5, <1>9, <4>1
      <4>2. CASE n # p
        <5>1. next'[n] = next[n] /\ next[n] # c /\ next[n] # q
          BY <1>2, <1>9, <3>1, <4>2 DEF p
        <5> QED BY <1>1, <1>9, <3>1, <5>1
      <4> QED BY <4>1, <4>2
    <3>3. prev'[n] \in OnL \ {c} /\ next'[prev'[n]] = n
      <4>1. CASE n = q
        BY <1>2, <1>5, <1>9, <4>1
      <4>2. CASE n # q
        <5>1. prev'[n] = prev[n] /\ prev[n] # c /\ prev[n] # p
          BY <1>2, <1>9, <3>1, <4>2 DEF q
        <5> QED BY <1>1, <1>9, <3>1, <5>1
      <4> QED BY <4>1, <4>2
    <3> QED BY <3>2, <3>3
  <2>2. ASSUME NEW n \in Visible' PROVE next'[n] \in Visible'
    <3>1. CASE walk.pos = None
      BY <1>6, <1>8, <2>1, <3>1
    <3>2. CASE walk.pos # None
      <4>1. n \in Visible /\ n \in Nodes /\ next[n] \in Visible
        BY <1>1, <1>8, <3>2 DEF BufInv, ListInv
      <4> QED BY <1>1, <1>2, <1>8, <1>9, <3>2, <4>1
    <3> QED BY <3>1, <3>2
  <2> QED BY <1>6, <2>1, <2>2 DEF ListInv
<1>12. WalkInv'
  <2>1. walk.pos \in Clients /\ walk.single => walk.pos # c
    BY DEF BufInv, WalkInv, EvInv, GrabInv, GrabOf
  <2>2. walk.pos \in Clients /\ walk.single =>
          \/ evdev.grab = walk.pos
          \/ /\ pc'[walk.pos] \in {"ungrab", "ungrab to release"}
             /\ walk.pos \in grace'
    BY <1>7, <2>1 DEF BufInv, WalkInv
  <2>3. walk.pos # None /\ ~ walk.single => walk.pos \in Visible'
    BY <1>8 DEF BufInv, WalkInv
  <2> QED BY <1>7, <2>2, <2>3 DEF WalkInv
<1>13. ReaderInv'
  BY DEF BufInv, ReaderInv, InFile
<1>14. RingInv'
  <2>1. ASSUME NEW d \in Clients, ~ Freed(d)' PROVE RingOf(d)'
    <3>1. ~ Freed(d)
      BY <2>1 DEF Freed
    <3>2. RingOf(d)
      BY <3>1 DEF BufInv, RingInv
    <3>3. Count(d)' = Count(d)
      BY DEF Count
    <3> QED BY <3>2, <3>3 DEF RingOf
  <2> QED BY <2>1 DEF BufInv, RingInv
<1>15. OrderInv'
  <2>1. \A d \in Clients : Fresh(d)' <=> Fresh(d)
    BY DEF Fresh
  <2>2. Visible' \subseteq Visible
    BY <1>1, <1>6, <1>8
  <2>3. ASSUME NEW n \in Visible \cap Clients, next'[n] \in Clients
        PROVE  ord[n] < ord[next'[n]]
    <3>1. CASE n = p
      BY <1>3, <1>4, <1>9, <2>3, <3>1
    <3>2. CASE n # p
      <4>1. next'[n] = next[n]
        BY <1>1, <1>9, <3>2
      <4> QED BY <1>3, <2>3, <4>1 DEF Order
    <3> QED BY <3>1, <3>2
  <2>4. Order(ord)'
    BY <1>3, <2>1, <2>2, <2>3 DEF Order
  <2>5. walk.pos \in Clients /\ walk.single => Fresh(walk.pos)
    BY DEF BufInv, OrderInv
  <2> QED BY <1>3, <2>1, <2>4, <2>5 DEF OrderInv
<1> QED
  BY <1>10, <1>11, <1>12, <1>13, <1>14, <1>15 DEF BufInv

LEMMA DetachKeeps ==
  ASSUME EvInv, BufInv, NEW c \in Clients, evdev_detach_client(c)
  PROVE  BufInv'
<1>1. /\ Unlink(c) /\ StartGrace(c) /\ walk' = walk /\ event' = event
      /\ evdev' = evdev /\ ring' = ring /\ lock' = lock /\ reader' = reader
      /\ recent' = recent /\ lag' = lag /\ last' = last
  BY DEF evdev_detach_client
<1>2. pc[c] = "detach" /\ pc'[c] = "detached"
        /\ \A d \in Clients : d # c => pc'[d] = pc[d]
  BY DEF evdev_detach_client, Goto, EvInv, EvTypes, TypePc
<1> QED BY <1>1, <1>2, UnlinkKeeps

LEMMA OpenDeviceKeeps ==
  ASSUME EvInv, BufInv, NEW c \in Clients, NEW fails \in BOOLEAN,
         OpenDevice(c, fails)
  PROVE  BufInv'
<1> DEFINE error == \/ fails \/ ~ evdev.exist
                    \/ evdev.open = 0 /\ pc[Device] # "present"
<1>0. /\ walk' = walk /\ event' = event /\ ring' = ring /\ lock' = lock
      /\ reader' = reader /\ recent' = recent /\ lag' = lag /\ last' = last
      /\ pc[c] = "attached"
  BY DEF OpenDevice
<1>1. CASE error
  <2>1. Unlink(c) /\ StartGrace(c) /\ Goto(c, "failed") /\ evdev' = evdev
    BY <1>1 DEF OpenDevice
  <2>2. pc'[c] = "failed" /\ \A d \in Clients : d # c => pc'[d] = pc[d]
    BY <2>1 DEF Goto, EvInv, EvTypes, TypePc
  <2> QED BY <1>0, <2>1, <2>2, UnlinkKeeps
<1>2. CASE ~ error
  <2>1. /\ Goto(c, "open") /\ next' = next /\ prev' = prev /\ grace' = grace
        /\ evdev' = [evdev EXCEPT !.open = @ + 1]
    BY <1>2 DEF OpenDevice
  <2>2. pc'[c] = "open" /\ \A d \in Clients : d # c => pc'[d] = pc[d]
    BY <2>1 DEF Goto, EvInv, EvTypes, TypePc
  <2>3. evdev'.grab = evdev.grab
    BY <2>1 DEF EvInv, EvTypes, TypeEvdev
  <2>4. \A d \in Clients :
          /\ pc[d] \in Listed <=> pc'[d] \in Listed
          /\ Leaving(d) <=> Leaving(d)'
          /\ pc[d] \in Ungrabbing /\ d \in grace => pc'[d] = pc[d]
          /\ ~ Freed(d)' => ~ Freed(d)
    BY <1>0, <2>1, <2>2
       DEF Listed, InFile, Leaving, Ungrabbing, Freed
  <2>5. \A d \in Clients : reader'[d] # "idle" => pc'[d] \in InFile
    BY <1>0, <2>2 DEF BufInv, ReaderInv, InFile
  <2>6. \A d \in Clients : ~ Freed(d)' =>
          (lock[d] \in {"on", "expired"} <=> lock'[d] \in {"on", "expired"})
    BY <1>0
  <2> QED BY <1>0, <2>1, <2>3, <2>4, <2>5, <2>6, Quiet
          DEF Undisturbed
<1> QED BY <1>1, <1>2

-----------------------------------------------------------------------------
(* Positions in a ring, and the end of a sequence.                         *)

LEMMA ModOf ==
  ASSUME NEW B \in Nat, B > 0, NEW q \in Int, NEW r \in 0 .. B - 1
  PROVE  (q * B + r) % B = r
OBVIOUS

LEMMA DivMod ==
  ASSUME NEW B \in Nat, B > 0, NEW x \in Int
  PROVE  /\ x = (x \div B) * B + (x % B)
         /\ x \div B \in Int /\ x % B \in 0 .. B - 1
OBVIOUS

LEMMA ModNext ==
  ASSUME NEW B \in Nat, B > 0, NEW x \in Int
  PROVE  (x + 1) % B = IF x % B = B - 1 THEN 0 ELSE (x % B) + 1
<1>1. PICK q \in Int, r \in 0 .. B - 1 : x = q * B + r /\ x % B = r
  BY DivMod
<1>2. CASE r = B - 1
  <2>1. x + 1 = (q + 1) * B + 0 /\ q + 1 \in Int /\ 0 \in 0 .. B - 1
    BY <1>1, <1>2
  <2> QED BY <1>1, <1>2, <2>1, ModOf
<1>3. CASE r # B - 1
  <2>1. x + 1 = q * B + (r + 1) /\ r + 1 \in 0 .. B - 1
    BY <1>1, <1>3
  <2> QED BY <1>1, <1>3, <2>1, ModOf
<1> QED BY <1>2, <1>3

LEMMA ModBefore ==
  ASSUME NEW B \in Nat, B > 0, NEW x \in Int, x % B > 0
  PROVE  (x - 1) % B = (x % B) - 1
<1>1. PICK q \in Int, r \in 0 .. B - 1 : x = q * B + r /\ x % B = r
  BY DivMod
<1>2. x - 1 = q * B + (r - 1) /\ r - 1 \in 0 .. B - 1
  BY <1>1
<1> QED BY <1>1, <1>2, ModOf

B == BufferSize

Below(s, e) == \A i \in 1 .. Len(s) : s[i] < e

LEMMA Around ==
  ASSUME NEW h \in 0 .. B - 1, NEW t \in 0 .. B - 1
  PROVE  /\ Gap(h, t) = IF t <= h THEN h - t ELSE h - t + B
         /\ Slot(t, h) = IF t + h < B THEN t + h ELSE t + h - B
<1>1. B \in Nat /\ B > 1
  BY EvdevAssumption DEF B
<1> HIDE DEF B
<1>2. h - t = 0 * B + (h - t) /\ h - t = (-1) * B + (h - t + B)
  BY <1>1
<1>3. t + h = 0 * B + (t + h) /\ t + h = 1 * B + (t + h - B)
  BY <1>1
<1>4. (h - t) % B = IF t <= h THEN h - t ELSE h - t + B
  BY <1>1, <1>2, ModOf
<1>5. (t + h) % B = IF t + h < B THEN t + h ELSE t + h - B
  BY <1>1, <1>3, ModOf
<1> QED BY <1>4, <1>5 DEF Gap, Slot, B

LEMMA NewestOf ==
  ASSUME NEW s \in Seq(Int), NEW n \in Nat
  PROVE  /\ Newest(s, n) \in Seq(Int)
         /\ Len(Newest(s, n)) = IF Len(s) <= n THEN Len(s) ELSE n
         /\ \A i \in 1 .. Len(Newest(s, n)) :
              Newest(s, n)[i] = s[Len(s) - Len(Newest(s, n)) + i]
<1>0. Len(s) \in Nat /\ \A i \in 1 .. Len(s) : s[i] \in Int
  BY LenProperties, ElementOfSeq
<1>1. CASE Len(s) <= n
  <2>1. Newest(s, n) = s
    BY <1>1 DEF Newest
  <2>2. \A i \in 1 .. Len(s) : s[i] = s[Len(s) - Len(s) + i]
    BY <1>0
  <2> QED BY <1>1, <2>1, <2>2
<1>2. CASE ~ (Len(s) <= n)
  <2> DEFINE m == Len(s) - n + 1
  <2>1. m \in Int /\ Len(s) \in Int /\ \A i \in m .. Len(s) : s[i] \in Int
    BY <1>0, <1>2
  <2>2. Newest(s, n) = SubSeq(s, m, Len(s))
    BY <1>2 DEF Newest
  <2>3. /\ SubSeq(s, m, Len(s)) \in Seq(Int)
        /\ Len(SubSeq(s, m, Len(s)))
             = IF m <= Len(s) THEN Len(s) - m + 1 ELSE 0
        /\ \A i \in 1 .. Len(s) - m + 1 :
             SubSeq(s, m, Len(s))[i] = s[m + i - 1]
    <3> HIDE DEF m
    <3> QED BY <2>1, SubSeqProperties
  <2>4. Len(SubSeq(s, m, Len(s))) = n
    BY <1>0, <1>2, <2>3
  <2>5. \A i \in 1 .. n : SubSeq(s, m, Len(s))[i] = s[Len(s) - n + i]
    BY <1>0, <1>2, <2>3
  <2> HIDE DEF m
  <2> QED BY <1>2, <2>2, <2>3, <2>4, <2>5
<1> QED BY <1>1, <1>2

LEMMA StoreAt ==
  ASSUME NEW h \in 0 .. B - 1, NEW t \in 0 .. B - 1
  PROVE  /\ Slot(h, 1) \in 0 .. B - 1 /\ Gap(h, t) \in 0 .. B - 1
         /\ Gap(Slot(h, 1), t)
              = IF Gap(h, t) = B - 1 THEN 0 ELSE Gap(h, t) + 1
         /\ \A i \in 0 .. B - 1 :
              Slot(t, i) \in 0 .. B - 1 /\ (Slot(t, i) = h <=> i = Gap(h, t))
<1>1. B \in Nat /\ B > 1 /\ 1 \in 0 .. B - 1
  BY EvdevAssumption DEF B
<1>2. /\ Slot(h, 1) = IF h + 1 < B THEN h + 1 ELSE h + 1 - B
      /\ Gap(h, t) = IF t <= h THEN h - t ELSE h - t + B
  BY <1>1, Around
<1>3. Slot(h, 1) \in 0 .. B - 1 /\ Gap(h, t) \in 0 .. B - 1
  BY <1>1, <1>2
<1>4. Gap(Slot(h, 1), t) = IF t <= Slot(h, 1) THEN Slot(h, 1) - t
                           ELSE Slot(h, 1) - t + B
  BY <1>3, Around
<1>5. ASSUME NEW i \in 0 .. B - 1
      PROVE  Slot(t, i) \in 0 .. B - 1 /\ (Slot(t, i) = h <=> i = Gap(h, t))
  <2>1. Slot(t, i) = IF t + i < B THEN t + i ELSE t + i - B
    BY Around
  <2> QED BY <1>1, <1>2, <2>1
<1>6. Gap(Slot(h, 1), t) = IF Gap(h, t) = B - 1 THEN 0 ELSE Gap(h, t) + 1
  BY <1>1, <1>2, <1>4
<1> QED BY <1>3, <1>5, <1>6

LEMMA FetchAt ==
  ASSUME NEW h \in 0 .. B - 1, NEW t \in 0 .. B - 1, h # t
  PROVE  /\ Slot(t, 1) \in 0 .. B - 1 /\ Gap(h, t) \in 1 .. B - 1
         /\ Gap(h, Slot(t, 1)) = Gap(h, t) - 1
         /\ h = Slot(t, 1) <=> Gap(h, t) = 1
         /\ Slot(t, 0) = t
         /\ \A i \in 0 .. B - 2 : Slot(Slot(t, 1), i) = Slot(t, i + 1)
<1>1. B \in Nat /\ B > 1 /\ 1 \in 0 .. B - 1 /\ 0 \in 0 .. B - 1
  BY EvdevAssumption DEF B
<1>2. /\ Slot(t, 1) = IF t + 1 < B THEN t + 1 ELSE t + 1 - B
      /\ Slot(t, 0) = IF t + 0 < B THEN t + 0 ELSE t + 0 - B
      /\ Gap(h, t) = IF t <= h THEN h - t ELSE h - t + B
  BY <1>1, Around
<1>3. /\ Slot(t, 1) \in 0 .. B - 1 /\ Gap(h, t) \in 1 .. B - 1
      /\ h = Slot(t, 1) <=> Gap(h, t) = 1
      /\ Slot(t, 0) = t
  BY <1>1, <1>2
<1>4. Gap(h, Slot(t, 1)) = IF Slot(t, 1) <= h THEN h - Slot(t, 1)
                           ELSE h - Slot(t, 1) + B
  BY <1>3, Around
<1>5. Gap(h, Slot(t, 1)) = Gap(h, t) - 1
  BY <1>1, <1>2, <1>4
<1>6. ASSUME NEW i \in 0 .. B - 2
      PROVE  Slot(Slot(t, 1), i) = Slot(t, i + 1)
  <2>1. i \in 0 .. B - 1 /\ i + 1 \in 0 .. B - 1
    BY <1>1
  <2>2. Slot(Slot(t, 1), i) = IF Slot(t, 1) + i < B THEN Slot(t, 1) + i
                              ELSE Slot(t, 1) + i - B
    BY <1>3, <2>1, Around
  <2>3. Slot(t, i + 1) = IF t + (i + 1) < B THEN t + (i + 1)
                         ELSE t + (i + 1) - B
    BY <2>1, Around
  <2> QED BY <1>1, <1>2, <2>2, <2>3
<1> QED BY <1>3, <1>5, <1>6

LEMMA Appended ==
  ASSUME NEW s \in Seq(Int), NEW e \in Int, Rising(s), Below(s, e)
  PROVE  /\ Append(s, e) \in Seq(Int)
         /\ Len(s) \in Nat /\ Len(Append(s, e)) = Len(s) + 1
         /\ \A i \in 1 .. Len(s) : Append(s, e)[i] = s[i] /\ s[i] \in Int
         /\ Append(s, e)[Len(s) + 1] = e
         /\ Rising(Append(s, e))
         /\ \A i \in 1 .. Len(s) + 1 : Append(s, e)[i] <= e
<1> DEFINE a == Append(s, e)
<1>1. /\ a \in Seq(Int) /\ Len(a) = Len(s) + 1 /\ Len(s) \in Nat
      /\ \A i \in 1 .. Len(s) : a[i] = s[i] /\ s[i] \in Int
      /\ a[Len(s) + 1] = e
  BY AppendProperties, LenProperties, ElementOfSeq
<1> HIDE DEF a
<1>2. \A i \in 1 .. Len(s) : s[i] < e
  BY DEF Below
<1>3. ASSUME NEW i \in 1 .. Len(a), NEW j \in 1 .. Len(a), i < j
      PROVE  a[i] < a[j]
  <2>1. i \in 1 .. Len(s) /\ (j \in 1 .. Len(s) \/ j = Len(s) + 1)
    <3>1. PICK y \in Nat : y = Len(s) /\ Len(a) = y + 1
      BY <1>1
    <3>2. i \in 1 .. y /\ (j \in 1 .. y \/ j = y + 1)
      BY <1>3, <3>1
    <3> QED BY <3>1, <3>2
  <2>2. CASE j = Len(s) + 1
    BY <1>1, <1>2, <2>1, <2>2
  <2>3. CASE j \in 1 .. Len(s)
    <3>1. s[i] < s[j]
      BY <1>3, <2>1, <2>3 DEF Rising
    <3> QED BY <1>1, <2>1, <2>3, <3>1
  <2> QED BY <2>1, <2>2, <2>3
<1>4. ASSUME NEW i \in 1 .. Len(s) + 1 PROVE a[i] <= e
  <2>1. i \in 1 .. Len(s) \/ i = Len(s) + 1
    BY <1>1
  <2>2. CASE i = Len(s) + 1
    BY <1>1, <2>2
  <2>3. CASE i \in 1 .. Len(s)
    <3>1. s[i] < e /\ s[i] \in Int /\ a[i] = s[i]
      BY <1>1, <1>2, <2>3
    <3> QED BY <3>1
  <2> QED BY <2>1, <2>2, <2>3
<1> QED BY <1>1, <1>3, <1>4 DEF a, Rising

LEMMA NewestWith ==
  ASSUME NEW s \in Seq(Int), NEW e \in Int, NEW n \in Nat, n > 0,
         Rising(s), Below(s, e), Len(s) <= n,
         NEW u, u = Newest(Append(s, e), n)
  PROVE  /\ u \in Seq(Int) /\ Len(s) \in Nat
         /\ Len(u) = IF Len(s) + 1 <= n THEN Len(s) + 1 ELSE n
         /\ Rising(u) /\ \A i \in 1 .. Len(u) : u[i] <= e
         /\ u[Len(u)] = e
         /\ \A i \in 1 .. Len(u) - 1 : u[Len(u) - i] = s[Len(s) + 1 - i]
<1> DEFINE a == Append(s, e)
<1>1. /\ a \in Seq(Int) /\ Len(s) \in Nat /\ Len(a) = Len(s) + 1
      /\ \A i \in 1 .. Len(s) : a[i] = s[i] /\ s[i] \in Int
      /\ a[Len(s) + 1] = e /\ Rising(a)
      /\ \A i \in 1 .. Len(s) + 1 : a[i] <= e
  BY Appended
<1>2. u = Newest(a, n)
  OBVIOUS
<1> HIDE DEF a
<1>3. /\ u \in Seq(Int)
      /\ Len(u) = IF Len(s) + 1 <= n THEN Len(s) + 1 ELSE n
      /\ \A i \in 1 .. Len(u) : u[i] = a[Len(s) + 1 - Len(u) + i]
  BY <1>1, <1>2, NewestOf
<1>4. PICK x \in Nat, y \in Nat :
        /\ x = Len(u) /\ y = Len(s) /\ x > 0 /\ x <= y + 1 /\ y <= x
  BY <1>1, <1>3
<1>5. Rising(u)
  <2>1. ASSUME NEW i \in 1 .. x, NEW j \in 1 .. x, i < j PROVE u[i] < u[j]
    <3>1. PICK v \in Int, w \in Int :
            v = y + 1 - x + i /\ w = y + 1 - x + j
      OBVIOUS
    <3>2. v \in 1 .. y + 1 /\ w \in 1 .. y + 1 /\ v < w
      BY <1>4, <2>1, <3>1
    <3>3. u[i] = a[v] /\ u[j] = a[w]
      BY <1>3, <1>4, <3>1
    <3> QED BY <1>1, <1>4, <3>2, <3>3 DEF Rising
  <2> QED BY <1>4, <2>1 DEF Rising
<1>6. ASSUME NEW i \in 1 .. x PROVE u[i] <= e
  <2>1. y + 1 - x + i \in 1 .. y + 1
    BY <1>4
  <2> QED BY <1>1, <1>3, <1>4, <2>1
<1>7. u[x] = e
  <2>1. x \in 1 .. x /\ y + 1 - x + x = y + 1
    BY <1>4
  <2> QED BY <1>1, <1>3, <1>4, <2>1
<1>8. ASSUME NEW i \in 1 .. x - 1 PROVE u[x - i] = s[y + 1 - i]
  <2>1. /\ x - i \in 1 .. x /\ y + 1 - x + (x - i) = y + 1 - i
        /\ y + 1 - i \in 1 .. y
    BY <1>4
  <2>2. u[x - i] = a[y + 1 - i]
    BY <1>3, <1>4, <2>1
  <2> QED BY <1>1, <1>4, <2>1, <2>2
<1> QED BY <1>1, <1>3, <1>4, <1>5, <1>6, <1>7, <1>8

(* What is known of the newest events u of a client once the event e has   *)
(* been stored at h in its buffer buf.                                     *)
AfterStore(u, e, h, t, buf, l) ==
  /\ u \in Seq(Int) /\ Len(u) <= B - 1 /\ Rising(u)
  /\ \A i \in 1 .. Len(u) : u[i] <= e
  /\ Gap(Slot(h, 1), t) <= Len(u)
  /\ Holds([buf EXCEPT ![h] = e], t, u, Gap(Slot(h, 1), t), l)

(* What is known of a client before the event e is stored.                 *)
BeforeStore(s, e, h, t, buf, l) ==
  /\ Len(s) <= B - 1 /\ Gap(h, t) <= Len(s)
  /\ Holds(buf, t, s, Gap(h, t), l)
  /\ Rising(s) /\ Below(s, e) /\ l < e

(* An event is stored.                                                     *)
LEMMA Stored ==
  ASSUME NEW h \in 0 .. B - 1, NEW t \in 0 .. B - 1,
         NEW buf \in [0 .. B - 1 -> Int], NEW s \in Seq(Int), NEW e \in Int,
         NEW l \in Int, BeforeStore(s, e, h, t, buf, l),
         NEW u, u = Newest(Append(s, e), B - 1)
  PROVE  AfterStore(u, e, h, t, buf, l)
<1> USE DEF BeforeStore, AfterStore
<1>1. PICK k \in Nat : k = B - 1 /\ k > 0
  BY EvdevAssumption DEF B
<1>2. /\ u \in Seq(Int) /\ Len(s) \in Nat
      /\ Len(u) = IF Len(s) + 1 <= k THEN Len(s) + 1 ELSE k
      /\ Rising(u) /\ \A i \in 1 .. Len(u) : u[i] <= e
      /\ u[Len(u)] = e
      /\ \A i \in 1 .. Len(u) - 1 : u[Len(u) - i] = s[Len(s) + 1 - i]
  <2>1. u = Newest(Append(s, e), k) /\ Len(s) <= k
    BY <1>1
  <2> QED BY <1>1, <2>1, NewestWith
<1>3. PICK n \in 0 .. k, m \in 0 .. k :
        /\ n = Gap(h, t) /\ m = Gap(Slot(h, 1), t)
        /\ m = IF n = k THEN 0 ELSE n + 1
  <2>1. /\ Gap(h, t) \in 0 .. k
        /\ Gap(Slot(h, 1), t) = IF Gap(h, t) = k THEN 0 ELSE Gap(h, t) + 1
    BY <1>1, StoreAt
  <2>2. Gap(Slot(h, 1), t) \in 0 .. k
    BY <1>1, <2>1
  <2> QED BY <2>1, <2>2
<1>4. PICK x \in Nat, y \in Nat :
        /\ x = Len(u) /\ y = Len(s) /\ m <= x /\ n <= y /\ x <= k
  <2>1. PICK y \in Nat : y = Len(s) /\ n <= y /\ y <= k
    BY <1>1, <1>2, <1>3
  <2>2. PICK x \in Nat : x = IF y + 1 <= k THEN y + 1 ELSE k
    BY <1>1, <2>1
  <2>3. x = Len(u)
    BY <1>2, <2>1, <2>2
  <2>4. m <= x /\ x <= k
    BY <1>1, <1>3, <2>1, <2>2
  <2> QED BY <2>1, <2>3, <2>4
<1> DEFINE new == [buf EXCEPT ![h] = e]
<1>5. new[h] = e /\ \A j \in 0 .. B - 1 : j # h => new[j] = buf[j]
  OBVIOUS
<1> HIDE DEF new
<1>6. ASSUME NEW i \in 0 .. m - 1
      PROVE  new[Slot(t, i)] = u[x - m + 1 + i] /\ u[x - m + 1 + i] > l
  <2>1. m = n + 1 /\ i \in 0 .. k /\ (i = n \/ i \in 0 .. n - 1)
    BY <1>1, <1>3
  <2>2. Slot(t, i) \in 0 .. B - 1 /\ (Slot(t, i) = h <=> i = n)
    BY <1>1, <1>3, <2>1, StoreAt
  <2>3. CASE i = n
    <3>1. x - m + 1 + i = x
      BY <1>4, <2>1, <2>3
    <3> QED BY <1>2, <1>4, <1>5, <2>2, <2>3, <3>1
  <2>4. CASE i \in 0 .. n - 1
    <3>1. /\ n - i \in 1 .. x - 1 /\ x - m + 1 + i = x - (n - i)
          /\ y + 1 - (n - i) = y - n + 1 + i /\ i # n
      BY <1>4, <2>1, <2>4
    <3>2. u[x - (n - i)] = s[y + 1 - (n - i)]
      BY <1>2, <1>4, <3>1
    <3>3. buf[Slot(t, i)] = s[y - n + 1 + i] /\ s[y - n + 1 + i] > l
      BY <1>3, <1>4, <2>4 DEF Holds
    <3> QED BY <1>5, <2>2, <3>1, <3>2, <3>3
  <2> QED BY <2>1, <2>3, <2>4
<1> QED BY <1>1, <1>2, <1>3, <1>4, <1>6 DEF Holds, new

(* An event is fetched.                                                    *)
LEMMA Fetched ==
  ASSUME NEW h \in 0 .. B - 1, NEW t \in 0 .. B - 1, h # t, NEW buf,
         NEW s \in Seq(Int), NEW l, Gap(h, t) <= Len(s),
         Holds(buf, t, s, Gap(h, t), l), Rising(s)
  PROVE  /\ \E i \in 1 .. Len(s) : buf[t] = s[i]
         /\ Holds(buf, Slot(t, 1), s, Gap(h, t) - 1, buf[t])
<1>1. PICK n \in Int : n = Gap(h, t) /\ n \in 1 .. B - 1
  BY FetchAt, EvdevAssumption DEF B
<1>2. PICK x \in Nat : x = Len(s) /\ n <= x
  BY <1>1, LenProperties
<1>3. x - n + 1 \in 1 .. x
  BY <1>1, <1>2
<1>4. buf[t] = s[x - n + 1]
  <2>1. 0 \in 0 .. n - 1 /\ Slot(t, 0) = t /\ x - n + 1 + 0 = x - n + 1
    BY <1>1, <1>2, FetchAt
  <2>2. buf[Slot(t, 0)] = s[x - n + 1 + 0]
    BY <1>1, <1>2, <2>1 DEF Holds
  <2> QED BY <2>1, <2>2
<1>5. ASSUME NEW i \in 0 .. (n - 1) - 1
      PROVE  /\ buf[Slot(Slot(t, 1), i)] = s[x - (n - 1) + 1 + i]
             /\ s[x - (n - 1) + 1 + i] > s[x - n + 1]
  <2>1. PICK j \in Int : j = i + 1 /\ j \in 0 .. n - 1
    BY <1>1
  <2>2. B \in Nat /\ i \in 0 .. B - 2
    BY <1>1, EvdevAssumption DEF B
  <2>3. Slot(Slot(t, 1), i) = Slot(t, j)
    BY <2>1, <2>2, FetchAt
  <2>4. PICK y \in Int : y = x - (n - 1) + 1 + i
    BY <1>1, <1>2
  <2>5. y \in 1 .. x /\ x - n + 1 < y /\ y = x - n + 1 + j
    <3>1. x \in Nat /\ n \in Int /\ i \in 0 .. n - 2 /\ 1 <= n /\ n <= x
      BY <1>1, <1>2
    <3> QED BY <2>1, <2>4, <3>1
  <2>6. buf[Slot(t, j)] = s[y]
    BY <1>1, <1>2, <2>1, <2>5 DEF Holds
  <2>7. s[x - n + 1] < s[y]
    BY <1>2, <1>3, <2>5 DEF Rising
  <2>8. s[x - n + 1] \in Int /\ s[y] \in Int
    BY <1>2, <1>3, <2>5, ElementOfSeq
  <2> QED BY <2>3, <2>4, <2>6, <2>7, <2>8
<1> QED BY <1>1, <1>2, <1>3, <1>4, <1>5 DEF Holds

-----------------------------------------------------------------------------
(* An event is passed to a client, and read.                               *)

LEMMA PassKeeps ==
  ASSUME EvInv, BufInv, evdev_pass_event PROVE BufInv'
<1> DEFINE c == walk.pos
           h == ring[c].head
           t == ring[c].tail
           u == Newest(Append(recent[c], event), BufferSize - 1)
<1>0. /\ c \in Clients /\ next' = next /\ prev' = prev /\ evdev' = evdev
      /\ event' = event /\ grace' = grace /\ pc' = pc /\ reader' = reader
      /\ last' = last
      /\ walk' = [walk EXCEPT !.pos = IF walk.single THEN ListEnd ELSE next[c]]
  BY DEF evdev_pass_event
<1>1. /\ walk'.single = walk.single
      /\ walk'.pos = IF walk.single THEN ListEnd ELSE next[c]
  BY <1>0 DEF EvInv, EvTypes, TypeWalk
<1>2. /\ lock'[c] = "on" /\ recent'[c] = u /\ lag'[c] = lag[c] + 1
      /\ \A d \in Clients : d # c =>
           /\ ring'[d] = ring[d] /\ lock'[d] = lock[d]
           /\ recent'[d] = recent[d] /\ lag'[d] = lag[d]
  BY <1>0 DEF evdev_pass_event, EvInv, EvTypes, TypeRing, TypeLock, BufInv,
              BufTypes, TypeRecent, TypeLag
<1>3. /\ ring'[c].buffer = [ring[c].buffer EXCEPT ![h] = event]
      /\ ring'[c].head = Slot(h, 1) /\ ring'[c].tail = t
  BY <1>0 DEF evdev_pass_event, EvInv, EvTypes, TypeRing, Slot
<1>4. ~ Freed(c) /\ RingOf(c) /\ event \in Int /\ event > 0
  BY <1>0, SingleNotFreed, EvdevAssumption
     DEF BufInv, RingInv, EvInv, EvTypes, TypeEvent
<1>5. PICK ord \in [Clients -> Int] : Order(ord)
  BY DEF BufInv, OrderInv
<1>6. c # None /\ (~ walk.single => c \in Visible)
  BY <1>0, EvdevAssumption DEF BufInv, WalkInv
<1>7. Fresh(c)
  <2>1. walk.single => Fresh(c)
    BY <1>0 DEF BufInv, OrderInv
  <2>2. ~ walk.single => Fresh(c)
    BY <1>0, <1>5, <1>6 DEF Order
  <2> QED BY <2>1, <2>2
<1>8. /\ h \in 0 .. B - 1 /\ t \in 0 .. B - 1
      /\ ring[c].buffer \in [0 .. B - 1 -> Int] /\ recent[c] \in Seq(Int)
      /\ last[c] \in Int /\ lag[c] \in Int
  BY <1>0 DEF BufInv, BufTypes, TypeSlots, TypeRecent, TypeLast, TypeLag,
              EvInv, EvTypes, TypeRing, B
<1> HIDE DEF c, h, t, u
<1>9. /\ u \in Seq(Int) /\ Len(u) <= B - 1 /\ Rising(u)
      /\ \A i \in 1 .. Len(u) : u[i] <= event
      /\ Gap(Slot(h, 1), t) <= Len(u)
      /\ Holds([ring[c].buffer EXCEPT ![h] = event], t, u,
               Gap(Slot(h, 1), t), last[c])
  <2>1. /\ Len(recent[c]) <= B - 1 /\ Gap(h, t) <= Len(recent[c])
        /\ Holds(ring[c].buffer, t, recent[c], Gap(h, t), last[c])
        /\ Rising(recent[c])
    BY <1>4 DEF RingOf, Count, h, t, B
  <2>2. Below(recent[c], event) /\ last[c] < event
    BY <1>7 DEF Fresh, Below
  <2>3. u = Newest(Append(recent[c], event), B - 1)
    BY DEF u, B
  <2>4. PICK buf \in [0 .. B - 1 -> Int], s \in Seq(Int), l \in Int, e \in Int :
          buf = ring[c].buffer /\ s = recent[c] /\ l = last[c] /\ e = event
    BY <1>4, <1>8
  <2>5. BeforeStore(s, e, h, t, buf, l) /\ u = Newest(Append(s, e), B - 1)
    BY <2>1, <2>2, <2>3, <2>4 DEF BeforeStore
  <2>6. h \in 0 .. B - 1 /\ t \in 0 .. B - 1
    BY <1>8
  <2>7. AfterStore(u, e, h, t, buf, l)
    BY <2>5, <2>6, Stored
  <2> QED BY <2>4, <2>7 DEF AfterStore
<1>10. BufTypes'
  <2>1. recent' \in [Clients -> Seq(Int)]
    <3>1. recent' = [recent EXCEPT ![c] = u]
      BY DEF evdev_pass_event, c, u
    <3> QED BY <1>9, <3>1 DEF BufInv, BufTypes, TypeRecent
  <2>2. lag' \in [Clients -> Int]
    BY <1>0, <1>8 DEF evdev_pass_event, BufInv, BufTypes, TypeLag, c
  <2>3. last' \in [Clients -> Int]
    BY <1>0 DEF BufInv, BufTypes, TypeLast
  <2>4. Slot(h, 1) \in 0 .. B - 1
    BY <1>8, StoreAt
  <2>5. TypeSlots'
    BY <1>2, <1>3, <1>8, <2>4 DEF BufInv, BufTypes, TypeSlots, B
  <2> QED BY <2>1, <2>2, <2>3, <2>5 DEF BufTypes, TypeRecent, TypeLag, TypeLast
<1>11. OnL' = OnL /\ Visible' = Visible
  BY <1>0 DEF OnL, Visible, Leaving
<1>12. ListInv'
  BY <1>0, <1>11 DEF BufInv, ListInv
<1>13. ~ walk.single => next[c] \in Visible /\ next[c] # None
  <2>1. None \notin Visible
    BY EvdevAssumption DEF Visible, OnL
  <2> QED BY <1>6, <2>1 DEF BufInv, ListInv
<1>14. WalkInv'
  <2>1. walk'.pos # None
    BY <1>1, <1>13, EvdevAssumption
  <2>2. ~ walk'.single => walk'.pos \in Visible'
    BY <1>1, <1>11, <1>13
  <2>3. ~ (walk'.pos \in Clients /\ walk'.single)
    BY <1>1, EvdevAssumption
  <2> QED BY <2>1, <2>2, <2>3 DEF WalkInv
<1>15. ReaderInv'
  BY <1>0 DEF BufInv, ReaderInv
<1>16. (lag[c] + 1) % BufferSize = Gap(Slot(h, 1), t)
  <2>1. lag[c] >= 0 /\ Gap(h, t) = lag[c] % B
    BY <1>4 DEF RingOf, Count, h, t, B
  <2>2. (lag[c] + 1) % B = IF lag[c] % B = B - 1 THEN 0 ELSE (lag[c] % B) + 1
    <3>1. B \in Nat /\ B > 0
      BY EvdevAssumption DEF B
    <3> QED BY <1>8, <3>1, ModNext
  <2>3. Gap(Slot(h, 1), t) = IF Gap(h, t) = B - 1 THEN 0 ELSE Gap(h, t) + 1
    BY <1>8, StoreAt
  <2> QED BY <2>1, <2>2, <2>3 DEF B
<1>17. RingInv'
  <2>1. ASSUME NEW d \in Clients, ~ Freed(d)' PROVE RingOf(d)'
    <3>1. RingOf(d)
      BY <1>0, <2>1 DEF BufInv, RingInv, Freed
    <3>2. CASE d = c
      <4>1. Count(d)' = Gap(Slot(h, 1), t)
        BY <1>3, <3>2 DEF Count
      <4>2. lag[c] >= 0 /\ last[c] <= event
        BY <1>4 DEF RingOf
      <4>3. lag'[d] = lag[c] + 1 /\ lag'[d] >= 0 /\ lag'[d] > 0
        BY <1>2, <1>8, <3>2, <4>2
      <4>4. recent'[d] = u /\ lock'[d] = "on" /\ ring'[d].tail = t
              /\ ring'[d].buffer = [ring[c].buffer EXCEPT ![h] = event]
              /\ last'[d] = last[c] /\ event' = event
        BY <1>0, <1>2, <1>3, <3>2
      <4> QED BY <1>9, <1>16, <4>1, <4>2, <4>3, <4>4 DEF RingOf, B
    <3>3. CASE d # c
      <4>1. Count(d)' = Count(d)
        BY <1>2, <3>3 DEF Count
      <4> QED BY <1>0, <1>2, <3>1, <3>3, <4>1 DEF RingOf
    <3> QED BY <3>2, <3>3
  <2>2. event' >= 0 /\ event' > 0
    BY <1>0, <1>4
  <2> QED BY <2>1, <2>2 DEF RingInv
<1>18. OrderInv'
  <2>1. \A d \in Clients : d # c => (Fresh(d)' <=> Fresh(d))
    BY <1>0, <1>2 DEF Fresh
  <2>2. ASSUME ~ walk.single, next[c] \in Clients,
               NEW n \in Visible \cap Clients, ord[next[c]] <= ord[n]
        PROVE  Fresh(n)'
    <3>1. c \in Visible \cap Clients /\ ord[c] < ord[next[c]]
      BY <1>0, <1>5, <1>6, <2>2 DEF Order, c
    <3>2. ord[c] \in Int /\ ord[n] \in Int /\ ord[next[c]] \in Int
      BY <1>5, <2>2, <3>1
    <3>3. ord[c] <= ord[n] /\ n # c
      BY <2>2, <3>1, <3>2
    <3>4. Fresh(n)
      BY <1>5, <2>2, <3>1, <3>3 DEF Order, c
    <3> QED BY <2>1, <3>3, <3>4
  <2>3. Order(ord)'
    BY <1>0, <1>1, <1>5, <1>11, <2>2, EvdevAssumption DEF Order
  <2>4. ~ (walk'.pos \in Clients /\ walk'.single)
    BY <1>1, EvdevAssumption
  <2> QED BY <1>5, <2>3, <2>4 DEF OrderInv
<1> QED
  BY <1>10, <1>12, <1>14, <1>15, <1>17, <1>18 DEF BufInv

LEMMA FetchKeeps ==
  ASSUME EvInv, BufInv, NEW c \in Clients, NEW more \in BOOLEAN,
         evdev_fetch_next_event(c, more)
  PROVE  BufInv'
<1> DEFINE h == ring[c].head
           t == ring[c].tail
           e == ring[c].buffer[t]
<1>0. /\ reader[c] = "fetch" /\ next' = next /\ prev' = prev
      /\ evdev' = evdev /\ event' = event /\ grace' = grace /\ pc' = pc
      /\ walk' = walk /\ recent' = recent
  BY DEF evdev_fetch_next_event
<1>1. \A d \in Clients : reader'[d] # "idle" => pc'[d] \in InFile
  <2>1. pc[c] \in InFile
    BY <1>0 DEF BufInv, ReaderInv
  <2>2. \A d \in Clients : d # c => reader'[d] = reader[d]
    BY DEF evdev_fetch_next_event, EvInv, EvTypes, TypeReader
  <2> QED BY <1>0, <2>1, <2>2 DEF BufInv, ReaderInv
<1>2. CASE h = t
  <2>1. ring' = ring /\ lock' = lock /\ lag' = lag /\ last' = last
    BY <1>2 DEF evdev_fetch_next_event
  <2> QED BY <1>0, <1>1, <2>1, Quiet DEF Undisturbed, Leaving, Freed
<1>3. CASE h # t
  <2>1. /\ lock' = [lock EXCEPT ![c] = IF h = Slot(t, 1) THEN "off" ELSE @]
        /\ lag' = [lag EXCEPT ![c] = IF h = Slot(t, 1) THEN 0 ELSE @ - 1]
        /\ last' = [last EXCEPT ![c] = e]
        /\ ring' = [ring EXCEPT ![c].tail = Slot(t, 1)]
    BY <1>3 DEF evdev_fetch_next_event, Slot
  <2>2. /\ ring'[c].buffer = ring[c].buffer /\ ring'[c].head = h
        /\ ring'[c].tail = Slot(t, 1)
        /\ \A d \in Clients : d # c =>
             /\ ring'[d] = ring[d] /\ lock'[d] = lock[d]
             /\ lag'[d] = lag[d] /\ last'[d] = last[d]
    BY <2>1 DEF EvInv, EvTypes, TypeRing, TypeLock, BufInv, BufTypes, TypeLag,
                TypeLast
  <2>3. /\ lock'[c] = IF h = Slot(t, 1) THEN "off" ELSE lock[c]
        /\ lag'[c] = IF h = Slot(t, 1) THEN 0 ELSE lag[c] - 1
        /\ last'[c] = e
    BY <2>1 DEF EvInv, EvTypes, TypeLock, BufInv, BufTypes, TypeLag, TypeLast
  <2>4. /\ h \in 0 .. B - 1 /\ t \in 0 .. B - 1 /\ e \in Int
        /\ recent[c] \in Seq(Int) /\ lag[c] \in Int
    BY DEF BufInv, BufTypes, TypeSlots, TypeRecent, TypeLag, EvInv, EvTypes,
           TypeRing, B
  <2>5. RingOf(c)
    <3>1. pc[c] \in InFile
      BY <1>0 DEF BufInv, ReaderInv
    <3>2. ~ Freed(c)
      BY <3>1 DEF InFile, Freed
    <3> QED BY <3>2 DEF BufInv, RingInv
  <2> HIDE DEF h, t, e
  <2>6. /\ Slot(t, 1) \in 0 .. B - 1 /\ Gap(h, t) \in 1 .. B - 1
        /\ Gap(h, Slot(t, 1)) = Gap(h, t) - 1
        /\ h = Slot(t, 1) <=> Gap(h, t) = 1
    BY <1>3, <2>4, FetchAt
  <2>7. /\ Gap(h, t) <= Len(recent[c]) /\ Rising(recent[c])
        /\ Holds(ring[c].buffer, t, recent[c], Gap(h, t), last[c])
        /\ lag[c] >= 0 /\ Gap(h, t) = lag[c] % B
    BY <2>5 DEF RingOf, Count, h, t, B
  <2>8. /\ \E i \in 1 .. Len(recent[c]) : e = recent[c][i]
        /\ Holds(ring[c].buffer, Slot(t, 1), recent[c], Gap(h, t) - 1, e)
    BY <1>3, <2>4, <2>7, Fetched DEF e
  <2>9. BufTypes'
    <3>1. lag' \in [Clients -> Int] /\ last' \in [Clients -> Int]
      BY <2>1, <2>4 DEF BufInv, BufTypes, TypeLag, TypeLast
    <3>2. TypeSlots'
      BY <2>2, <2>4, <2>6 DEF BufInv, BufTypes, TypeSlots, B
    <3>3. TypeRecent'
      BY <1>0 DEF BufInv, BufTypes, TypeRecent
    <3> QED BY <3>1, <3>2, <3>3 DEF BufTypes, TypeLag, TypeLast
  <2>10. OnL' = OnL /\ Visible' = Visible
    BY <1>0 DEF OnL, Visible, Leaving
  <2>11. ListInv' /\ WalkInv' /\ ReaderInv'
    BY <1>0, <1>1, <2>10 DEF BufInv, ListInv, WalkInv, ReaderInv
  <2>12. /\ lag'[c] >= 0 /\ Gap(h, t) - 1 = lag'[c] % B
         /\ lock'[c] \in {"on", "expired"} <=> lag'[c] > 0
    <3>1. PICK b \in Nat : b = B /\ b > 1
      BY EvdevAssumption DEF B
    <3>2. 0 % b = 0 /\ 1 % b = 1
      <4>1. 0 = 0 * b + 0 /\ 1 = 0 * b + 1 /\ 0 \in 0 .. b - 1
              /\ 1 \in 0 .. b - 1
        BY <3>1
      <4> QED BY <3>1, <4>1, ModOf
    <3>3. CASE h = Slot(t, 1)
      <4>1. Gap(h, t) - 1 = 0 /\ lag'[c] = 0 /\ lock'[c] = "off"
        BY <2>3, <2>6, <3>3
      <4> QED BY <3>1, <3>2, <4>1
    <3>4. CASE h # Slot(t, 1)
      <4>1. PICK g \in Int : g = Gap(h, t) /\ g > 1 /\ g = lag[c] % b
        BY <2>6, <2>7, <3>1, <3>4
      <4>2. lag[c] # 0 /\ lag[c] # 1
        BY <3>2, <4>1
      <4>3. lag'[c] = lag[c] - 1 /\ lag[c] - 1 > 0 /\ lag[c] > 0
        BY <2>3, <2>4, <2>7, <3>4, <4>2
      <4>4. (lag[c] - 1) % b = g - 1
        <5>1. lag[c] \in Int /\ b > 0 /\ lag[c] % b > 0
          BY <2>4, <3>1, <4>1
        <5>2. (lag[c] - 1) % b = (lag[c] % b) - 1
          BY <5>1, ModBefore
        <5> QED BY <4>1, <5>2
      <4>5. lock[c] \in {"on", "expired"} /\ lock'[c] = lock[c]
        BY <2>3, <2>5, <3>4, <4>3 DEF RingOf
      <4>6. lag'[c] % B = Gap(h, t) - 1
        BY <3>1, <4>1, <4>3, <4>4
      <4>7. lag'[c] > 0 /\ lag'[c] >= 0
        BY <2>4, <4>3
      <4> QED BY <4>5, <4>6, <4>7
    <3> QED BY <3>3, <3>4
  <2>13. e <= event /\ (Fresh(c) => e < event)
    <3>1. PICK i \in 1 .. Len(recent[c]) : e = recent[c][i]
      BY <2>8
    <3> QED BY <2>5, <3>1 DEF RingOf, Fresh
  <2>14. RingInv'
    <3>1. ASSUME NEW d \in Clients, ~ Freed(d)' PROVE RingOf(d)'
      <4>1. RingOf(d)
        BY <1>0, <3>1 DEF BufInv, RingInv, Freed
      <4>2. CASE d = c
        <5>1. Count(d)' = Gap(h, t) - 1
          BY <2>2, <2>6, <4>2 DEF Count
        <5>2. PICK k \in Nat, g \in Int :
                k = Len(recent[c]) /\ g = Gap(h, t)
          BY <2>4, <2>6, LenProperties
        <5>3. Gap(h, t) - 1 <= Len(recent[c])
          <6>1. g - 1 <= k
            BY <2>7, <5>2
          <6> QED BY <5>2, <6>1
        <5>4. /\ ring'[d].tail = Slot(t, 1) /\ ring'[d].buffer = ring[c].buffer
              /\ recent'[d] = recent[c] /\ last'[d] = e /\ event' = event
          BY <1>0, <2>2, <2>3, <4>2
        <5> QED BY <2>5, <2>8, <2>12, <2>13, <4>2, <5>1, <5>3, <5>4
                DEF RingOf, B
      <4>3. CASE d # c
        <5>1. Count(d)' = Count(d)
          BY <2>2, <4>3 DEF Count
        <5> QED BY <1>0, <2>2, <4>1, <4>3, <5>1 DEF RingOf
      <4> QED BY <4>2, <4>3
    <3> QED BY <1>0, <3>1 DEF BufInv, RingInv
  <2>15. OrderInv'
    <3>1. \A d \in Clients : Fresh(d) => Fresh(d)'
      <4>1. \A d \in Clients : d # c /\ Fresh(d) => Fresh(d)'
        BY <1>0, <2>2 DEF Fresh
      <4>2. Fresh(c) => Fresh(c)'
        BY <1>0, <2>3, <2>13 DEF Fresh
      <4> QED BY <4>1, <4>2
    <3>2. PICK ord \in [Clients -> Int] : Order(ord)
      BY DEF BufInv, OrderInv
    <3>3. Order(ord)'
      BY <1>0, <2>10, <3>1, <3>2 DEF Order
    <3>4. walk.pos \in Clients /\ walk.single => Fresh(walk.pos)'
      BY <1>0, <3>1 DEF BufInv, OrderInv
    <3> QED BY <1>0, <3>2, <3>3, <3>4 DEF OrderInv
  <2> QED BY <2>9, <2>11, <2>14, <2>15 DEF BufInv
<1> QED BY <1>2, <1>3

-----------------------------------------------------------------------------
(* All steps, and what follows.                                            *)

LEMMA BufStep ==
  ASSUME EvInv, BufInv, EvdevNext PROVE BufInv'
<1>1. CASE InputEvent
  BY <1>1, InputEventKeeps
<1>2. CASE WalkStep
  BY <1>2, PassKeeps, EndWalkKeeps DEF WalkStep
<1>3. CASE GoingAway \/ DeviceStep
  BY <1>3, QuietSteps DEF DeviceStep
<1>4. ASSUME NEW c \in Clients,
             LockExpires(c) \/ ReadStep(c) \/ FileStep(c) \/ UserStep(c)
      PROVE  BufInv'
  <2>1. CASE LockExpires(c)
    BY <2>1, QuietSteps
  <2>2. CASE ReadStep(c)
    <3>1. CASE WaitForEvent(c)
      BY <3>1, QuietSteps
    <3>2. ASSUME NEW more \in BOOLEAN, evdev_fetch_next_event(c, more)
          PROVE  BufInv'
      BY <3>2, FetchKeeps
    <3> QED BY <2>2, <3>1, <3>2 DEF ReadStep
  <2>3. CASE FileStep(c)
    <3>1. ASSUME NEW fails \in BOOLEAN, OpenDevice(c, fails) PROVE BufInv'
      BY <3>1, OpenDeviceKeeps
    <3>2. CASE evdev_detach_client(c)
      BY <3>2, DetachKeeps
    <3>3. CASE \/ FreeFailed(c) \/ EndWrite(c) \/ AssignGrab(c) \/ EndGrab(c)
               \/ ReleaseDevice(c) \/ EndUngrab(c) \/ FreeClient(c)
               \/ evdev_close_device(c) \/ EndClose(c)
      BY <3>3, QuietSteps
    <3> QED BY <2>3, <3>1, <3>2, <3>3 DEF FileStep
  <2>4. CASE UserStep(c)
    <3>1. CASE Open(c)
      BY <3>1, OpenKeeps
    <3>2. CASE input_inject_event(c)
      BY <3>2, InjectKeeps
    <3>3. CASE \/ BeginRead(c) \/ Interrupted(c) \/ BeginWrite(c)
               \/ GrabDevice(c) \/ Release(c)
               \/ \E release \in BOOLEAN : Ungrab(c, release)
      BY <3>3, QuietSteps
    <3> QED BY <2>4, <3>1, <3>2, <3>3 DEF UserStep
  <2> QED BY <1>4, <2>1, <2>2, <2>3, <2>4
<1> QED BY <1>1, <1>2, <1>3, <1>4 DEF EvdevNext

LEMMA BufInitial == EvdevInit => BufInv
<1> SUFFICES ASSUME EvdevInit PROVE BufInv
  OBVIOUS
<1>0. /\ walk.pos = None /\ walk.pos \notin Clients /\ event = 0 /\ grace = {}
      /\ next = [n \in Nodes |-> ListEnd]
      /\ prev[ListEnd] = ListEnd /\ next[ListEnd] = ListEnd
  BY EvdevAssumption DEF EvdevInit, Idle
<1>1. \A c \in Clients : pc[c] = "none" /\ reader[c] = "idle"
  BY EvdevAssumption DEF EvdevInit
<1>2. OnL = {ListEnd} /\ Visible = {ListEnd}
  BY <1>0, <1>1 DEF OnL, Visible, Leaving, Listed, InFile
<1>3. BufTypes
  BY EmptySeq, EvdevAssumption
     DEF EvdevInit, BufTypes, TypeRecent, TypeLag, TypeLast, TypeSlots,
         EmptyRing
<1>4. ListInv
  BY <1>0, <1>2 DEF ListInv
<1>5. WalkInv /\ ReaderInv
  BY <1>0, <1>1 DEF WalkInv, ReaderInv
<1>6. RingInv
  BY <1>0, <1>1 DEF RingInv, Freed
<1>7. OrderInv
  <2> DEFINE ord == [c \in Clients |-> 0]
  <2>1. ord \in [Clients -> Int]
    OBVIOUS
  <2>2. Visible \cap Clients = {}
    BY <1>2, EvdevAssumption
  <2>3. Order(ord)
    BY <1>0, <2>2 DEF Order
  <2> HIDE DEF ord
  <2> QED BY <1>0, <2>1, <2>3 DEF OrderInv
<1> QED BY <1>3, <1>4, <1>5, <1>6, <1>7 DEF BufInv

LEMMA BufUnchanged == EvInv /\ BufInv /\ UNCHANGED evdevVars => BufInv'
<1> SUFFICES ASSUME EvInv, BufInv, UNCHANGED evdevVars PROVE BufInv'
  OBVIOUS
<1>1. /\ next' = next /\ prev' = prev /\ walk' = walk /\ event' = event
      /\ ring' = ring /\ recent' = recent /\ lag' = lag /\ last' = last
      /\ grace' = grace /\ pc' = pc /\ lock' = lock /\ reader' = reader
      /\ evdev' = evdev
  BY DEF evdevVars
<1>2. \A c \in Clients : reader'[c] # "idle" => pc'[c] \in InFile
  BY <1>1 DEF BufInv, ReaderInv
<1> QED BY <1>1, <1>2, Quiet DEF Undisturbed, Leaving, Freed

(* The list, the buffers and the event on its way are as described, in     *)
(* every state.                                                            *)
THEOREM ClientInvariance == EvdevSpec => []BufInv
<1>1. EvInv /\ EvInv' /\ BufInv /\ [EvdevNext]_evdevVars => BufInv'
  BY BufStep, BufUnchanged
<1> QED BY <1>1, BufInitial, Inductive, PTL DEF EvdevSpec

(* NothingDangles, for any number of clients: no link, no event under way  *)
(* and no grab leads to a client that evdev_release has freed, because the *)
(* links lead only from clients an event may have come to to such clients. *)
THEOREM NoDangling == EvdevSpec => []NothingDangles
<1>1. ASSUME EvInv, BufInv, NEW c \in Clients, Freed(c)
      PROVE  c \notin OnList /\ c \notin Ahead /\ evdev.grab # c
  <2>1. c \notin Visible /\ c \notin OnL
    BY <1>1, ListedNotFreed DEF Visible
  <2>2. ListEnd \in OnL /\ OnL \in SUBSET Nodes /\ Visible \in SUBSET Nodes
    BY DEF OnL, Visible
  <2>3. /\ \A k \in OnL : next[k] \in OnL
        /\ \A k \in Visible : next[k] \in Visible
    BY <1>1 DEF BufInv, ListInv
  <2>4. c \notin OnList
    BY <2>1, <2>2, <2>3 DEF OnList, Reach
  <2>5. c # walk.pos
    BY <1>1, SingleNotFreed
  <2>6. CASE walk.single \/ walk.pos \in {None, ListEnd}
    BY <1>1, <2>4, <2>5, <2>6, GrabberNotFreed DEF Ahead
  <2>7. CASE ~ (walk.single \/ walk.pos \in {None, ListEnd})
    <3>1. walk.pos \in Visible
      BY <1>1, <2>7 DEF BufInv, WalkInv
    <3>2. c \notin Reach(walk.pos)
      BY <2>1, <2>2, <2>3, <3>1 DEF Reach
    <3> QED BY <1>1, <2>4, <2>7, <3>2, GrabberNotFreed DEF Ahead
  <2> QED BY <2>6, <2>7
<1>2. EvInv /\ BufInv => NothingDangles
  BY <1>1 DEF NothingDangles
<1> QED BY <1>2, ClientInvariance, Inductive, PTL

LEMMA UnreadOf ==
  ASSUME EvInv, BufInv, NEW c \in Clients, ~ Freed(c)
  PROVE  /\ Unread(c) \in Seq(Int) /\ Len(Unread(c)) = Count(c)
         /\ Unread(c) = Newest(recent[c], Count(c))
         /\ \A i \in 1 .. Count(c) : Unread(c)[i] > last[c]
<1> DEFINE r == ring[c]
           s == recent[c]
<1>1. /\ r.head \in 0 .. B - 1 /\ r.tail \in 0 .. B - 1
      /\ r.buffer \in [0 .. B - 1 -> Int] /\ s \in Seq(Int)
  BY DEF BufInv, BufTypes, TypeSlots, TypeRecent, EvInv, EvTypes, TypeRing, B
<1>2. Count(c) <= Len(s) /\ Holds(r.buffer, r.tail, s, Count(c), last[c])
  BY DEF BufInv, RingInv, RingOf
<1>3. PICK n \in Nat : n = Count(c) /\ n \in 0 .. B - 1
  <2>1. Count(c) \in 0 .. B - 1
    BY <1>1, StoreAt DEF Count
  <2>2. B \in Nat
    BY EvdevAssumption DEF B
  <2> QED BY <2>1, <2>2
<1>4. PICK x \in Nat : x = Len(s) /\ n <= x
  BY <1>1, <1>2, <1>3, LenProperties
<1>5. Unread(c) = [i \in 1 .. n |-> r.buffer[Slot(r.tail, i - 1)]]
  <2>1. \A i \in 1 .. n : r.tail + i - 1 = r.tail + (i - 1)
    <3>1. PICK t \in Int : t = r.tail
      BY <1>1, EvdevAssumption DEF B
    <3>2. \A i \in 1 .. n : t + i - 1 = t + (i - 1)
      OBVIOUS
    <3> QED BY <3>1, <3>2
  <2> QED BY <1>3, <2>1 DEF Unread, Count, Gap, Slot
<1> HIDE DEF r, s
<1>6. \A i \in 1 .. n :
        /\ r.buffer[Slot(r.tail, i - 1)] = s[x - n + i]
        /\ s[x - n + i] > last[c] /\ s[x - n + i] \in Int
  <2>1. ASSUME NEW i \in 1 .. n
        PROVE  /\ r.buffer[Slot(r.tail, i - 1)] = s[x - n + i]
               /\ s[x - n + i] > last[c] /\ s[x - n + i] \in Int
    <3>1. PICK j \in 0 .. n - 1 : j = i - 1 /\ x - n + 1 + j = x - n + i
                                    /\ x - n + i \in 1 .. x
      BY <1>4
    <3>2. r.buffer[Slot(r.tail, j)] = s[x - n + 1 + j]
            /\ s[x - n + 1 + j] > last[c]
      BY <1>2, <1>3, <1>4 DEF Holds
    <3> QED BY <1>1, <1>4, <3>1, <3>2, ElementOfSeq
  <2> QED BY <2>1
<1>7. /\ Unread(c) \in [1 .. n -> Int]
      /\ \A i \in 1 .. n : Unread(c)[i] = s[x - n + i]
  BY <1>5, <1>6
<1>8. Unread(c) \in Seq(Int) /\ Len(Unread(c)) = n
  <2>1. Unread(c) \in Seq(Int)
    BY <1>7, SeqDef
  <2>2. DOMAIN Unread(c) = 1 .. Len(Unread(c)) /\ Len(Unread(c)) \in Nat
    BY <2>1, LenProperties
  <2>3. 1 .. Len(Unread(c)) = 1 .. n
    BY <1>7, <2>2
  <2>4. \A m \in Nat : 1 .. m = 1 .. n => m = n
    <3>1. ASSUME NEW m \in Nat, 1 .. m = 1 .. n PROVE m = n
      <4>1. ~ (m < n)
        BY <3>1
      <4>2. ~ (n < m)
        BY <3>1
      <4> QED BY <4>1, <4>2
    <3> QED BY <3>1
  <2> QED BY <2>1, <2>2, <2>3, <2>4
<1>9. /\ Newest(s, n) \in Seq(Int) /\ Len(Newest(s, n)) = n
      /\ \A i \in 1 .. n : Newest(s, n)[i] = s[x - n + i]
  <2>1. s \in Seq(Int)
    BY <1>1 DEF s
  <2>2. /\ Newest(s, n) \in Seq(Int)
        /\ Len(Newest(s, n)) = IF x <= n THEN x ELSE n
        /\ \A i \in 1 .. Len(Newest(s, n)) :
             Newest(s, n)[i] = s[x - Len(Newest(s, n)) + i]
    BY <1>4, <2>1, NewestOf
  <2>3. (IF x <= n THEN x ELSE n) = n
    BY <1>4
  <2> QED BY <2>2, <2>3
<1>10. Unread(c) = Newest(s, n)
  BY <1>7, <1>8, <1>9, SeqEqual
<1> QED BY <1>3, <1>6, <1>7, <1>8, <1>10 DEF s

(* UnreadNewest, for any size of the buffer and any number of events: what *)
(* a client reads next are the newest events it was passed, in order, and  *)
(* none is read twice, although evdev_pass_event overruns the ring.        *)
THEOREM NewestUnread == EvdevSpec => []UnreadNewest
<1>1. ASSUME EvInv, BufInv, NEW c \in Clients, ~ Freed(c)
      PROVE  /\ Unread(c) = Newest(recent[c], Len(Unread(c)))
             /\ \A i \in DOMAIN Unread(c) : Unread(c)[i] > last[c]
  BY <1>1, UnreadOf, LenProperties
<1>2. EvInv /\ BufInv => UnreadNewest
  BY <1>1 DEF UnreadNewest
<1> QED BY <1>2, ClientInvariance, Inductive, PTL

(* LockUntilRead, for any size of the buffer: the wake lock is taken until *)
(* the client has read what it was passed, and the buffer shows how much   *)
(* that is modulo its size.                                                *)
THEOREM LockHeld == EvdevSpec => []LockUntilRead
<1>1. ASSUME EvInv, BufInv, NEW c \in Clients, ~ Freed(c)
      PROVE  /\ lock[c] \in {"on", "expired"} <=> lag[c] > 0
             /\ Len(Unread(c)) = lag[c] % BufferSize
  <2>1. RingOf(c)
    BY <1>1 DEF BufInv, RingInv
  <2> QED BY <1>1, <2>1, UnreadOf DEF RingOf
<1>2. EvInv /\ BufInv => LockUntilRead
  BY <1>1 DEF LockUntilRead
<1> QED BY <1>2, ClientInvariance, Inductive, PTL
=============================================================================
