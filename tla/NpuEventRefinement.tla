------------------------- MODULE NpuEventRefinement -------------------------
(***************************************************************************)
(* The pool of recycled aclrtEvent handles (NpuEventPool) implements the   *)
(* events a client expects (EventService): although a handle has one flag  *)
(* for all its uses, no wait passes on the record of another use and no    *)
(* query answers for one.                                                  *)
(*                                                                         *)
(* Two history variables give each RecordEvent a name: the latest one of   *)
(* each handle, and the queues of the streams with each record and wait    *)
(* under the name it was issued for (the marks of a synchronization left   *)
(* out).                                                                   *)
(***************************************************************************)
EXTENDS NpuEventPool

CONSTANTS Records, NoRecord

(* A name is left for the next record, whatever the latest ones are.       *)
ASSUME NoRecordAssumption == NoRecord \notin Records
ASSUME RecordsAssumption ==
  \A f \in [Events -> Records \cup {NoRecord}] : \E r \in Records : \A e \in Events : f[e] # r

VARIABLES latest, stream

Service == INSTANCE EventService WITH
  taken <- busy, completed <- {e \in busy : QueryEvent(e)}

HInit ==
  /\ Init
  /\ latest = [e \in Events |-> NoRecord]
  /\ stream = [s \in Streams |-> <<>>]

Longer(s)  == Len(queue'[s]) > Len(queue[s])
Shorter(s) == Len(queue'[s]) < Len(queue[s])
Added(s)   == queue'[s][Len(queue'[s])]

Recording(e) == \E s \in Streams : Longer(s) /\ Added(s) = RecordTask(e)
Creating(e)  == e \in busy' \ busy

Track ==
  /\ latest' = [e \in Events |-> IF Recording(e) THEN Service!NewRecord
                                 ELSE IF Creating(e) THEN NoRecord ELSE latest[e]]
  /\ stream' = [s \in Streams |->
       IF Longer(s) /\ Added(s).op # "mark"
       THEN Append(stream[s], [op |-> Added(s).op, record |-> latest'[Added(s).arg]])
       ELSE IF Shorter(s) /\ Head(queue[s]).op # "mark" THEN Tail(stream[s])
       ELSE stream[s]]

HNext == Next /\ Track

HSpec == HInit /\ [][HNext]_<<vars, latest, stream>>

HFairSpec ==
  /\ HSpec
  /\ \A t \in Threads : WF_vars(InnerStep(t))
  /\ \A s \in Streams : WF_vars(DeviceStep(s))

(* Whatever interleaving of calls, recycling and device steps, the client  *)
(* sees events whose records are told apart: a wait passes only when the   *)
(* record it was issued for has run, and a query answers "completed" only  *)
(* when the event's latest record has.                                     *)
ImplementsService == Service!Spec

(* A wait whose record has run passes, as long as the process is not ended *)
(* (Running): recycling a handle lowers its flag only when no stream still *)
(* waits for the record it stood for.                                      *)
ImplementsProgress == []Running => Service!Progress
=============================================================================
