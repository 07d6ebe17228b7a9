------------------------------ MODULE JobStore ------------------------------
(***************************************************************************)
(* What the cloudlus job server promises its clients, as atomic steps (the *)
(* spec's core operations): a submitted job gets a fresh id and waits in   *)
(* one FIFO queue; Fetch hands the oldest waiting job to a worker and      *)
(* marks it running; a worker's Push finishes a running job, complete or   *)
(* failed. A status query reads status. Nothing else changes a job: no     *)
(* job is lost, run twice, or moved backwards along                        *)
(* Queued -> Running -> Complete|Failed.                                   *)
(*                                                                         *)
(* Dispatcher implements this specification when ids are fresh (the        *)
(* property JobStoreRefined there).                                        *)
(***************************************************************************)
EXTENDS Sequences

CONSTANT Ids   \* job ids

VARIABLES
    queue,   \* ids of the jobs waiting for a worker, oldest first
    status   \* per id: "none" (never submitted), or the job's status

vars == <<queue, status>>

Init ==
    /\ queue = <<>>
    /\ status = [i \in Ids |-> "none"]

\* Submit: a new job, under an id never used before, joins the queue.
Submit(id) ==
    /\ status[id] = "none"
    /\ status' = [status EXCEPT ![id] = "queued"]
    /\ queue' = Append(queue, id)

\* Fetch: the oldest waiting job starts running.
Fetch ==
    /\ queue # <<>>
    /\ status' = [status EXCEPT ![Head(queue)] = "running"]
    /\ queue' = Tail(queue)

\* Push: a running job ends, complete or failed.
Finish(id, st) ==
    /\ status[id] = "running"
    /\ status' = [status EXCEPT ![id] = st]
    /\ UNCHANGED queue

Next ==
    \/ \E id \in Ids : Submit(id)
    \/ Fetch
    \/ \E id \in Ids, st \in {"complete", "failed"} : Finish(id, st)

Spec == Init /\ [][Next]_vars
=============================================================================
