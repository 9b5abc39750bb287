----------------------------- MODULE SdaaEvents ------------------------------
(***************************************************************************)
(* The events of the SDAA plugin with FLAGS_sdaa_reuse_event (runtime.cc,  *)
(* sdaaEvent.h): a client sees the handle inside an sdaaEventWrapper; the  *)
(* wrapper is held in hold_event_vecs until DestroyEvent, which gives it   *)
(* back to the EventPool with its handle, its flag was_recorded_ and the   *)
(* record the driver knows of.  All calls but DestroyDevice hold g_mutex.  *)
(*                                                                         *)
(* The driver is external: a wait holds its stream until the record that   *)
(* is the handle's latest when the wait is issued has run.                 *)
(***************************************************************************)
EXTENDS Naturals, Sequences, SequencesExt

CONSTANTS
  Streams,
  Events,      \* the handles of the wrappers
  Records,     \* names of records
  MaxQueue,    \* bound on the length of a stream
  Early,       \* may a client wait for an event it has not recorded
  Nil

NoRecord == Nil

VARIABLES
  held,         \* hold_event_vecs[device]
  pool,         \* event_pool_, the oldest first
  wasRecorded,  \* was_recorded_ of each wrapper
  last,         \* the latest record of each handle, to the driver
  stream,       \* what each stream has yet to run
  latest,       \* the latest record since the event was created
  syncing       \* the event a thread with g_mutex synchronizes, or Nil

vars == <<held, pool, wasRecorded, last, stream, latest, syncing>>

(* What a client expects, and what the driver does with the handles.       *)
Driver == INSTANCE EventService WITH taken <- held, latest <- last, completed <- {}

(* QueryEvent answers C_SUCCESS.                                           *)
Query(e) == wasRecorded[e] /\ e \in Driver!Answerable

Service == INSTANCE EventService WITH
             taken <- held, completed <- {e \in held : Query(e)}

Init ==
  /\ held = {} /\ pool = <<>>
  /\ wasRecorded = [e \in Events |-> FALSE]
  /\ last = [e \in Events |-> NoRecord]
  /\ latest = [e \in Events |-> NoRecord]
  /\ stream = [s \in Streams |-> <<>>]
  /\ syncing = Nil

Free == syncing = Nil
Room(s) == Len(stream[s]) < MaxQueue

(* A bug: the wrapper stays in the pool.                                   *)
GetKept(e) ==
  \/ /\ pool # <<>> /\ e = Head(pool)
     /\ UNCHANGED <<pool, wasRecorded, last>>
  \/ /\ pool = <<>> /\ e \in Events \ held
     /\ wasRecorded' = [wasRecorded EXCEPT ![e] = FALSE]
     /\ last' = [last EXCEPT ![e] = NoRecord]
     /\ UNCHANGED pool

(* EventPool::get: the oldest wrapper of the pool, as it was left, or a    *)
(* new one.                                                                *)
Get(e) ==
  \/ /\ pool # <<>> /\ e = Head(pool)
     /\ pool' = Tail(pool)
     /\ UNCHANGED <<wasRecorded, last>>
  \/ /\ pool = <<>> /\ e \in Events \ held
     /\ wasRecorded' = [wasRecorded EXCEPT ![e] = FALSE]
     /\ last' = [last EXCEPT ![e] = NoRecord]
     /\ UNCHANGED pool

CreateEvent(e) ==
  /\ Free
  /\ Get(e)
  /\ held' = held \cup {e}
  /\ latest' = [latest EXCEPT ![e] = NoRecord]
  /\ UNCHANGED <<stream, syncing>>

RecordEvent(e, s) ==
  /\ Free /\ e \in held /\ Room(s)
  /\ Records \ Driver!Referred # {}                 \* a bound
  /\ Driver!RecordAs(Driver!NewRecord, e, s)
  /\ wasRecorded' = [wasRecorded EXCEPT ![e] = TRUE]
  /\ latest' = [latest EXCEPT ![e] = last'[e]]
  /\ UNCHANGED <<pool, syncing>>

Recorded(e) == wasRecorded[e] /\ (Early \/ latest[e] # NoRecord)

StreamWaitEvent(e, s) ==
  /\ Free /\ e \in held /\ Room(s)
  /\ Recorded(e)
  /\ Driver!Wait(e, s)
  /\ UNCHANGED <<pool, wasRecorded, latest, syncing>>

(* SyncEvent waits for the device with g_mutex held: no thread can call.   *)
SyncBegin(e) ==
  /\ Free /\ e \in held /\ Recorded(e)
  /\ syncing' = e
  /\ UNCHANGED <<held, pool, wasRecorded, last, stream, latest>>

SyncEnd ==
  /\ syncing # Nil /\ syncing \in Driver!Answerable
  /\ syncing' = Nil
  /\ UNCHANGED <<held, pool, wasRecorded, last, stream, latest>>

DestroyEvent(e) ==
  /\ Free /\ e \in held
  /\ held' = held \ {e}
  /\ pool' = Append(pool, e)
  /\ UNCHANGED <<wasRecorded, last, stream, latest, syncing>>

(* DestroyDevice takes no lock: all events go to the pool and the pool is  *)
(* emptied.  The destructor of a wrapper waits for the wrapper's record.   *)
DestroyDevice ==
  /\ held \cup ToSet(pool) # {}
  /\ held \cup ToSet(pool) \subseteq Driver!Answerable
  /\ held' = {} /\ pool' = <<>>
  /\ UNCHANGED <<wasRecorded, last, stream, latest, syncing>>

Run(s) == Driver!Run(s) /\ UNCHANGED <<pool, wasRecorded, latest, syncing>>

Call ==
  \E e \in Events :
    \/ CreateEvent(e) \/ DestroyEvent(e) \/ SyncBegin(e)
    \/ \E s \in Streams : RecordEvent(e, s) \/ StreamWaitEvent(e, s)

Next ==
  \/ Call \/ SyncEnd
  \/ DestroyDevice
  \/ \E s \in Streams : Run(s)

Spec == Init /\ [][Next]_vars

-----------------------------------------------------------------------------
(* The recycled wrappers implement the events a client expects: an event   *)
(* is nobody else's, a wait is for the record its own event had, and       *)
(* QueryEvent does not answer for a record of an earlier owner.            *)
ImplementsService == Service!Spec

=============================================================================
