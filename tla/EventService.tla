---------------------------- MODULE EventService ----------------------------
(***************************************************************************)
(* What the framework expects of the event calls of a device plugin        *)
(* (C_DeviceInterface: create_event, record_event, stream_wait_event,      *)
(* query_event, destroy_event), whatever the plugin does with the handles  *)
(* of the driver.  Every RecordEvent is a record of its own; a wait holds  *)
(* its stream until the record that was the event's latest when the wait   *)
(* was issued has run, even if the event is recorded again, destroyed or   *)
(* created anew meanwhile; a query never answers "completed" too early.    *)
(***************************************************************************)
EXTENDS Naturals, Sequences

CONSTANTS
  Events,    \* the handles a client sees
  Streams,   \* the streams of the device
  Records,   \* names of records; one is used again once nothing refers to it
  NoRecord   \* the latest record of an event that was never recorded

VARIABLES
  taken,     \* the events created and not destroyed
  latest,    \* the latest record of each event
  stream,    \* the records and waits that each stream has yet to run
  completed  \* the events for which a query would answer "completed"

vars == <<taken, latest, stream, completed>>

RecordOf(r) == [op |-> "record", record |-> r]
WaitFor(r)  == [op |-> "wait", record |-> r]

Tasks(s) == {stream[s][i] : i \in 1..Len(stream[s])}

HasRun(r) == \A s \in Streams : RecordOf(r) \notin Tasks(s)

Referred ==
  {latest[e] : e \in Events} \cup {task.record : task \in UNION {Tasks(s) : s \in Streams}}

(* The next record has a name that nothing refers to.                      *)
NewRecord == CHOOSE r \in Records \ Referred : TRUE

Answerable == {e \in Events : latest[e] = NoRecord \/ HasRun(latest[e])}

Init ==
  /\ taken = {}
  /\ latest = [e \in Events |-> NoRecord]
  /\ stream = [s \in Streams |-> <<>>]
  /\ completed \in SUBSET Events

(* No event is given to two clients.                                       *)
Create(e) ==
  /\ e \notin taken
  /\ taken' = taken \cup {e}
  /\ latest' = [latest EXCEPT ![e] = NoRecord]
  /\ UNCHANGED stream

Destroy(gone) ==
  /\ gone # {} /\ gone \subseteq taken
  /\ taken' = taken \ gone
  /\ UNCHANGED <<latest, stream>>

RecordAs(r, e, s) ==
  /\ e \in taken /\ r \in Records \ Referred
  /\ latest' = [latest EXCEPT ![e] = r]
  /\ stream' = [stream EXCEPT ![s] = Append(@, RecordOf(r))]
  /\ UNCHANGED taken

Record(e, s) == \E r \in Records : RecordAs(r, e, s)

Wait(e, s) ==
  /\ e \in taken /\ latest[e] # NoRecord
  /\ stream' = [stream EXCEPT ![s] = Append(@, WaitFor(latest[e]))]
  /\ UNCHANGED <<taken, latest>>

(* A stream runs its next task: a wait only after its record has run.      *)
Ready(s) ==
  /\ stream[s] # <<>>
  /\ \A r \in Records : Head(stream[s]) = WaitFor(r) => HasRun(r)

Run(s) ==
  /\ Ready(s)
  /\ stream' = [stream EXCEPT ![s] = Tail(@)]
  /\ UNCHANGED <<taken, latest>>

(* Nothing but the answers changes: a plugin may answer late.              *)
Think == UNCHANGED <<taken, latest, stream>>

Next ==
  /\ \/ \E e \in Events : Create(e)
     \/ \E gone \in SUBSET Events : Destroy(gone)
     \/ \E e \in Events, s \in Streams : Record(e, s) \/ Wait(e, s)
     \/ \E s \in Streams : Run(s)
     \/ Think
  /\ completed' \subseteq Answerable'

Spec == Init /\ [][Next]_vars

(* Weak fairness of Run(s), spelled out: a stream whose next task could run*)
(* does not stand still for ever.                                          *)
Shrinks(s) == Len(stream'[s]) < Len(stream[s])
Progress == \A s \in Streams : []<>~Ready(s) \/ []<><<Shrinks(s)>>_stream
=============================================================================
