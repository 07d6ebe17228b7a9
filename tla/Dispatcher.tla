----------------------------- MODULE Dispatcher -----------------------------
(***************************************************************************)
(* The job server of cloudlus (src/unnamed/part_001, server.go): the       *)
(* dispatcher goroutine that owns the pending queue, the LRU result cache  *)
(* (alljobs) and the waiter registry (submitchans), and the goroutines     *)
(* that talk to it over unbuffered channels: HTTP submit and status        *)
(* handlers, RPC Submit callers blocked on their result channel, and       *)
(* workers that Fetch and Push over RPC.                                   *)
(*                                                                         *)
(* A *Job is a pointer: jobs is the heap of Job objects, and the queue,    *)
(* the cache and the clients hold indices into it (0 is nil). The cache    *)
(* and the queue share the submitted pointer, so Fetch's write of          *)
(* StatusRunning is seen through the cache; a Push decodes a fresh Job.    *)
(*                                                                         *)
(* One dispatcher step is one case of the select: the rendezvous of a      *)
(* client's send with the dispatcher's receive, the case body, and the     *)
(* reply to a client that is already blocked on its reply channel. The     *)
(* one send that may not find its receiver, ch <- j to an RPC Submit       *)
(* waiter, is a step of its own (Deliver).                                 *)
(***************************************************************************)
EXTENDS Naturals, Sequences, SequencesExt, FiniteSets

CONSTANTS
    Ids,              \* job ids ([16]byte uuids), model values
    RpcClients,       \* goroutines serving RPC Submit calls
    Workers,          \* worker processes calling RPC Fetch and Push
    Pollers,          \* HTTP clients of /job/status/ and /job/retrieve/
    Bodies,           \* HTTP submit bodies: "job" decodes to a Job, "null" to nil
    ClientSuppliedIds,\* TRUE: a submitted Job may carry an Id the client chose
    WorkerCrashes,    \* TRUE: a worker may die between Fetch and Push
    WorkerHeartbeats, \* TRUE: workers call RPC Heartbeat
    MaxSubmits,       \* bound on the number of submissions
    Capacity,         \* cache capacity (500*MB in NewServer), in size units
    OutSize,          \* Size() of a completed Job carrying its Outfiles
    NoWaiter,         \* no channel registered for an id
    NoId              \* no job id

ASSUME /\ NoWaiter \notin RpcClients /\ NoId \notin Ids
       /\ Bodies \subseteq {"job", "null"}
       /\ ClientSuppliedIds \in BOOLEAN /\ WorkerCrashes \in BOOLEAN
       /\ WorkerHeartbeats \in BOOLEAN
       /\ MaxSubmits \in Nat /\ Capacity \in Nat \ {0} /\ OutSize \in Nat \ {0}

\* Job.Status values, and their place in Queued -> Running -> Complete|Failed.
Status == {"queued", "running", "complete", "failed"}
Final == {"complete", "failed"}
Rank(s) == CASE s = "none" -> 0 [] s = "queued" -> 1
             [] s = "running" -> 2 [] s \in Final -> 3

VARIABLES
    disp,        \* the dispatcher goroutine: in its select, sending to a waiter, or dead
    jobs,        \* heap of Job objects: [id, status]
    queue,       \* s.queue: pointers to jobs awaiting a worker
    alljobs,     \* s.alljobs cache contents: id -> pointer (0: absent)
    lru,         \* s.alljobs recency order, most recently used first
    submitchans, \* s.submitchans: id -> the RPC Submit goroutine waiting on it
    rpc,         \* RPC Submit goroutines
    worker,      \* worker processes
    poller,      \* HTTP status/retrieve request goroutines
    enqueued,    \* history: every pointer ever appended to s.queue, in order
    dispatched,  \* history: every pointer ever handed out by Fetch, in order
    seen         \* history: per id, the highest status a status response returned

vars == <<disp, jobs, queue, alljobs, lru, submitchans, rpc, worker, poller,
          enqueued, dispatched, seen>>

Ptr == 0..(3 * MaxSubmits)
Job == [id : Ids, status : Status]

TypeOK ==
    /\ disp \in {[pc |-> "select"], [pc |-> "crashed"]}
                \cup [pc : {"send"}, to : RpcClients, ref : Ptr \ {0}]
    /\ jobs \in Seq(Job) /\ Len(jobs) <= 3 * MaxSubmits
    /\ queue \in Seq(DOMAIN jobs)
    /\ alljobs \in [Ids -> Ptr] /\ lru \in Seq(Ids)
    /\ submitchans \in [Ids -> RpcClients \cup {NoWaiter}]
    /\ rpc \in [RpcClients -> [pc : {"idle", "waiting", "done"},
                               id : Ids \cup {NoId}, res : Ptr]]
    /\ worker \in [Workers -> [pc : {"idle", "nojob", "running", "pushed"},
                               id : Ids \cup {NoId}, st : Final]]
    /\ poller \in [Pollers -> [pc : {"idle", "got"}, id : Ids \cup {NoId},
                               ref : Ptr, floor : Status \cup {"none"}]]
    /\ enqueued \in Seq(DOMAIN jobs) /\ dispatched \in Seq(DOMAIN jobs)
    /\ seen \in [Ids -> Status \cup {"none"}]

-----------------------------------------------------------------------------
(* The LRU cache of github.com/rwcarlsen/gocache, as NewServer uses it.    *)
(* Set moves the key to the front, stores the value and evicts from the    *)
(* back while the summed Size() exceeds the capacity (the entry just set  *)
(* too, if its own Size() does); Get moves a present key to the front.     *)

Size(heap, r) == IF heap[r].status = "complete" THEN OutSize ELSE 1

CacheSize(heap, order, c) ==
    LET RECURSIVE S(_)
        S(o) == IF o = <<>> THEN 0 ELSE Size(heap, c[Head(o)]) + S(Tail(o))
    IN S(order)

RECURSIVE Evict(_, _, _)
Evict(heap, order, c) ==
    IF CacheSize(heap, order, c) > Capacity
    THEN Evict(heap, Front(order), [c EXCEPT ![Last(order)] = 0])
    ELSE <<order, c>>

\* The cache after s.alljobs.Set(id, r) over the heap, as <<lru, alljobs>>.
CacheSet(heap, order, c, id, r) ==
    Evict(heap, <<id>> \o Remove(order, id), [c EXCEPT ![id] = r])

\* The recency order after s.alljobs.Get(id).
CacheGet(order, c, id) ==
    IF c[id] # 0 THEN <<id>> \o Remove(order, id) ELSE order

-----------------------------------------------------------------------------
Init ==
    /\ disp = [pc |-> "select"]
    /\ jobs = <<>> /\ queue = <<>>
    /\ alljobs = [i \in Ids |-> 0] /\ lru = <<>>
    /\ submitchans = [i \in Ids |-> NoWaiter]
    /\ rpc = [c \in RpcClients |-> [pc |-> "idle", id |-> NoId, res |-> 0]]
    /\ worker = [w \in Workers |-> [pc |-> "idle", id |-> NoId, st |-> "complete"]]
    /\ poller = [p \in Pollers |-> [pc |-> "idle", id |-> NoId, ref |-> 0,
                                    floor |-> "none"]]
    /\ enqueued = <<>> /\ dispatched = <<>>
    /\ seen = [i \in Ids |-> "none"]

\* Ids a new submission can carry: NewJob draws a fresh uuid, unless the
\* client put an Id into the JSON body or the RPC argument.
UsedIds == {jobs[r].id : r \in DOMAIN jobs}
SubmitIds == IF ClientSuppliedIds THEN Ids ELSE Ids \ UsedIds

\* Mutant: the pointer queued is one short of the new job's.
EnqueueOffByOne(r, id, waiter) ==
    LET heap == Append(jobs, [id |-> id, status |-> "queued"])
        c == CacheSet(heap, lru, alljobs, id, r)
    IN
    /\ jobs' = heap
    /\ submitchans' = IF waiter = NoWaiter THEN submitchans
                      ELSE [submitchans EXCEPT ![id] = waiter]
    /\ queue' = Append(queue, r - 1)
    /\ lru' = c[1] /\ alljobs' = c[2]
    /\ enqueued' = Append(enqueued, r)

\* Mutant: the waiter's channel is never put into s.submitchans.
EnqueueNoWaiter(r, id, waiter) ==
    LET heap == Append(jobs, [id |-> id, status |-> "queued"])
        c == CacheSet(heap, lru, alljobs, id, r)
    IN
    /\ jobs' = heap
    /\ UNCHANGED submitchans
    /\ queue' = Append(queue, r)
    /\ lru' = c[1] /\ alljobs' = c[2]
    /\ enqueued' = Append(enqueued, r)

\* dispatcher, case js := <-s.submitjobs, for the job at pointer r.
Enqueue(r, id, waiter) ==
    LET heap == Append(jobs, [id |-> id, status |-> "queued"])
        c == CacheSet(heap, lru, alljobs, id, r)
    IN
    /\ jobs' = heap
    /\ submitchans' = IF waiter = NoWaiter THEN submitchans
                      ELSE [submitchans EXCEPT ![id] = waiter]
    /\ queue' = Append(queue, r)
    /\ lru' = c[1] /\ alljobs' = c[2]
    /\ enqueued' = Append(enqueued, r)

CanSubmit == disp.pc = "select" /\ Len(enqueued) < MaxSubmits

\* Server.submit / Server.submitInfile: decode the body, send jobSubmit{j, nil}.
\* A body of "null" decodes to a nil *Job and the dispatcher's j.Status = ...
\* dereferences nil: the panic ends the process.
HttpSubmit(body, id) ==
    /\ CanSubmit
    /\ \/ /\ body = "job"
          /\ Enqueue(Len(jobs) + 1, id, NoWaiter)
          /\ UNCHANGED disp
       \/ /\ body = "null"
          /\ disp' = [pc |-> "crashed"]
          /\ UNCHANGED <<jobs, queue, alljobs, lru, submitchans, enqueued>>
    /\ UNCHANGED <<rpc, worker, poller, dispatched, seen>>

\* RPC.Submit: send jobSubmit{j, ch} and block on <-ch.
RpcSubmit(c, id) ==
    /\ CanSubmit
    /\ rpc[c].pc = "idle"
    /\ Enqueue(Len(jobs) + 1, id, c)
    /\ rpc' = [rpc EXCEPT ![c] = [pc |-> "waiting", id |-> id, res |-> 0]]
    /\ UNCHANGED <<disp, worker, poller, dispatched, seen>>

\* RPC.Submit returns *result to its caller, which may submit again.
RpcReturn(c) ==
    /\ rpc[c].pc = "done"
    /\ rpc' = [rpc EXCEPT ![c] = [pc |-> "idle", id |-> NoId, res |-> 0]]
    /\ UNCHANGED <<disp, jobs, queue, alljobs, lru, submitchans, worker, poller,
                   enqueued, dispatched, seen>>

\* Mutant: Fetch takes the newest job (s.queue[len(s.queue)-1]).
FetchLifo(w) ==
    /\ disp.pc = "select"
    /\ worker[w].pc = "idle"
    /\ \/ /\ queue # <<>>
          /\ LET r == Last(queue) IN
             /\ jobs' = [jobs EXCEPT ![r].status = "running"]
             /\ queue' = Front(queue)
             /\ dispatched' = Append(dispatched, r)
             /\ worker' = [worker EXCEPT ![w] = [@ EXCEPT !.pc = "running",
                                                           !.id = jobs[r].id]]
       \/ /\ queue = <<>>
          /\ worker' = [worker EXCEPT ![w].pc = "nojob"]
          /\ UNCHANGED <<jobs, queue, dispatched>>
    /\ UNCHANGED <<disp, alljobs, lru, submitchans, rpc, poller, enqueued, seen>>

FetchNoRunning(w) ==
    /\ disp.pc = "select"
    /\ worker[w].pc = "idle"
    /\ \/ /\ queue # <<>>
          /\ LET r == Head(queue) IN
             /\ queue' = Tail(queue)
             /\ dispatched' = Append(dispatched, r)
             /\ worker' = [worker EXCEPT ![w] = [@ EXCEPT !.pc = "running",
                                                           !.id = jobs[r].id]]
          /\ UNCHANGED jobs
       \/ /\ queue = <<>>
          /\ worker' = [worker EXCEPT ![w].pc = "nojob"]
          /\ UNCHANGED <<jobs, queue, dispatched>>
    /\ UNCHANGED <<disp, alljobs, lru, submitchans, rpc, poller, enqueued, seen>>

\* RPC.Fetch and case req := <-s.fetchjobs: pop the head, mark it running;
\* nil (the "no jobs available to run" error) on an empty queue.
Fetch(w) ==
    /\ disp.pc = "select"
    /\ worker[w].pc = "idle"
    /\ \/ /\ queue # <<>>
          /\ LET r == Head(queue) IN
             /\ jobs' = [jobs EXCEPT ![r].status = "running"]
             /\ queue' = Tail(queue)
             /\ dispatched' = Append(dispatched, r)
             /\ worker' = [worker EXCEPT ![w] = [@ EXCEPT !.pc = "running",
                                                           !.id = jobs[r].id]]
       \/ /\ queue = <<>>
          /\ worker' = [worker EXCEPT ![w].pc = "nojob"]
          /\ UNCHANGED <<jobs, queue, dispatched>>
    /\ UNCHANGED <<disp, alljobs, lru, submitchans, rpc, poller, enqueued, seen>>

\* A worker that got no job polls again.
Retry(w) ==
    /\ worker[w].pc = "nojob"
    /\ worker' = [worker EXCEPT ![w].pc = "idle"]
    /\ UNCHANGED <<disp, jobs, queue, alljobs, lru, submitchans, rpc, poller,
                   enqueued, dispatched, seen>>

\* RPC.Push and case j := <-s.pushjobs. The pushed Job is a fresh decoded
\* object. With a registered waiter the dispatcher goes on to ch <- j
\* (Deliver); otherwise it only does s.alljobs.Set. A worker may push the
\* same result a second time (a retried call).
Push(w, st) ==
    /\ disp.pc = "select"
    /\ \/ worker[w].pc = "running"
       \/ worker[w].pc = "pushed" /\ st = worker[w].st
    /\ LET id == worker[w].id
           r == Len(jobs) + 1
           heap == Append(jobs, [id |-> id, status |-> st])
           c == CacheSet(heap, lru, alljobs, id, r)
       IN /\ jobs' = heap
          /\ \/ /\ submitchans[id] # NoWaiter
                /\ disp' = [pc |-> "send", to |-> submitchans[id], ref |-> r]
                /\ UNCHANGED <<alljobs, lru>>
             \/ /\ submitchans[id] = NoWaiter
                /\ lru' = c[1] /\ alljobs' = c[2]
                /\ UNCHANGED disp
    /\ worker' = [worker EXCEPT ![w] = [pc |-> IF @.pc = "running" THEN "pushed"
                                               ELSE "idle",
                                         id |-> @.id, st |-> st]]
    /\ UNCHANGED <<queue, submitchans, rpc, poller, enqueued, dispatched, seen>>

\* Mutant: the registration is not deleted after the delivery.
DeliverNoDelete ==
    /\ disp.pc = "send"
    /\ rpc[disp.to].pc = "waiting"
    /\ LET id == jobs[disp.ref].id
           c == CacheSet(jobs, lru, alljobs, id, disp.ref)
       IN /\ rpc' = [rpc EXCEPT ![disp.to] = [@ EXCEPT !.pc = "done",
                                                        !.res = disp.ref]]
          /\ lru' = c[1] /\ alljobs' = c[2]
    /\ disp' = [pc |-> "select"]
    /\ UNCHANGED <<submitchans, jobs, queue, worker, poller, enqueued, dispatched, seen>>

\* ch <- j; delete(s.submitchans, j.Id); s.alljobs.Set(j.Id, j). The send
\* completes only when the RPC Submit goroutine is blocked in <-ch.
Deliver ==
    /\ disp.pc = "send"
    /\ rpc[disp.to].pc = "waiting"
    /\ LET id == jobs[disp.ref].id
           c == CacheSet(jobs, lru, alljobs, id, disp.ref)
       IN /\ rpc' = [rpc EXCEPT ![disp.to] = [@ EXCEPT !.pc = "done",
                                                        !.res = disp.ref]]
          /\ submitchans' = [submitchans EXCEPT ![id] = NoWaiter]
          /\ lru' = c[1] /\ alljobs' = c[2]
    /\ disp' = [pc |-> "select"]
    /\ UNCHANGED <<jobs, queue, worker, poller, enqueued, dispatched, seen>>

\* The worker finishes with its job without pushing it again.
Finish(w) ==
    /\ worker[w].pc = "pushed"
    /\ worker' = [worker EXCEPT ![w] = [@ EXCEPT !.pc = "idle", !.id = NoId]]
    /\ UNCHANGED <<disp, jobs, queue, alljobs, lru, submitchans, rpc, poller,
                   enqueued, dispatched, seen>>

\* A worker dies after Fetch and before Push; its job stays running.
Crash(w) ==
    /\ WorkerCrashes
    /\ worker[w].pc = "running"
    /\ worker' = [worker EXCEPT ![w] = [@ EXCEPT !.pc = "idle", !.id = NoId]]
    /\ UNCHANGED <<disp, jobs, queue, alljobs, lru, submitchans, rpc, poller,
                   enqueued, dispatched, seen>>

\* RPC.Heartbeat panics("not implemented"); net/rpc does not recover a
\* handler's panic, so the process, dispatcher included, ends.
Heartbeat(w) ==
    /\ WorkerHeartbeats
    /\ disp.pc # "crashed"
    /\ disp' = [pc |-> "crashed"]
    /\ UNCHANGED <<jobs, queue, alljobs, lru, submitchans, rpc, worker, poller,
                   enqueued, dispatched, seen>>

\* Server.getjob: send jobRequest on s.statjobs; the dispatcher answers with
\* the cached pointer (s.alljobs.Get, which refreshes recency) or nil.
StatRequest(p, id) ==
    /\ disp.pc = "select"
    /\ poller[p].pc = "idle"
    /\ lru' = CacheGet(lru, alljobs, id)
    /\ poller' = [poller EXCEPT ![p] = [pc |-> "got", id |-> id,
                                        ref |-> alljobs[id], floor |-> seen[id]]]
    /\ UNCHANGED <<disp, jobs, queue, alljobs, submitchans, rpc, worker,
                   enqueued, dispatched, seen>>

\* Server.status / Server.retrieve after getjob returns: "unknown job id"
\* for nil, else j.Status is read from the shared object, outside the
\* dispatcher, and returned (or checked against StatusComplete).
StatRespond(p) ==
    /\ poller[p].pc = "got"
    /\ LET id == poller[p].id
           s == jobs[poller[p].ref].status
       IN seen' = IF poller[p].ref # 0 /\ Rank(s) > Rank(seen[id])
                  THEN [seen EXCEPT ![id] = s] ELSE seen
    /\ poller' = [poller EXCEPT ![p] = [pc |-> "idle", id |-> NoId, ref |-> 0,
                                        floor |-> "none"]]
    /\ UNCHANGED <<disp, jobs, queue, alljobs, lru, submitchans, rpc, worker,
                   enqueued, dispatched>>

Next ==
    \/ \E b \in Bodies, id \in SubmitIds : HttpSubmit(b, id)
    \/ \E c \in RpcClients, id \in SubmitIds : RpcSubmit(c, id)
    \/ \E c \in RpcClients : RpcReturn(c)
    \/ \E w \in Workers : Fetch(w) \/ Retry(w) \/ Finish(w) \/ Crash(w)
    \/ \E w \in Workers : Heartbeat(w)
    \/ \E w \in Workers, st \in Final : Push(w, st)
    \/ Deliver
    \/ \E p \in Pollers, id \in Ids : StatRequest(p, id)
    \/ \E p \in Pollers : StatRespond(p)

\* The dispatcher's select picks every ready case eventually, and workers
\* keep polling and pushing; submitters and pollers need not act.
Fairness ==
    /\ WF_vars(Deliver)
    /\ \A w \in Workers : /\ WF_vars(Fetch(w)) /\ WF_vars(Retry(w))
                          /\ WF_vars(\E st \in Final : Push(w, st))

Spec == Init /\ [][Next]_vars
FairSpec == Spec /\ Fairness

-----------------------------------------------------------------------------
(* Properties.                                                             *)

\* The registry and the blocked RPC.Submit goroutines agree: every channel
\* in s.submitchans belongs to a goroutine still blocked in <-ch for that
\* id (so ch <- j in the push case can never block the dispatcher forever),
\* and every blocked goroutine is reachable from the registry (so a Push of
\* its id can wake it).
WaiterRegistryConsistent ==
    /\ \A id \in Ids : submitchans[id] # NoWaiter =>
          /\ rpc[submitchans[id]].pc = "waiting"
          /\ rpc[submitchans[id]].id = id
    /\ \A c \in RpcClients : rpc[c].pc = "waiting" => submitchans[rpc[c].id] = c

\* Fetch hands out jobs in submission order, each at most once, and never
\* loses one: what was ever enqueued is what was dispatched followed by
\* what is still in s.queue.
FifoDispatch == enqueued = dispatched \o queue

\* Every job still waiting in s.queue can be looked up by status: the spec
\* says the cache always holds a job's most recent snapshot whatever its
\* queue membership, and leaves eviction to historical jobs. The push case's
\* s.alljobs.Set of a completed job evicts from the back of the LRU, which
\* may be a job submitted earlier and not yet fetched.
QueuedJobCached ==
    \A k \in DOMAIN queue : alljobs[jobs[queue[k]].id] = queue[k]

SubmitterAnswered ==
    \A c \in RpcClients, id \in Ids :
        (rpc[c].pc = "waiting" /\ rpc[c].id = id) ~>
            (rpc[c].pc = "done" /\ jobs[rpc[c].res].id = id
                                /\ jobs[rpc[c].res].status \in Final)

\* The job server seen as the JobStore of the spec: the ids in s.queue, in
\* order, and per id the status of the newest Job object with that id
\* (the queued object, written running by Fetch, or the last one pushed).
LatestStatus(id) ==
    LET rs == {r \in DOMAIN jobs : jobs[r].id = id}
    IN  IF rs = {} THEN "none" ELSE jobs[Max(rs)].status

JS == INSTANCE JobStore WITH
          queue <- [k \in DOMAIN queue |-> jobs[queue[k]].id],
          status <- [id \in Ids |-> LatestStatus(id)]

\* With fresh ids, every step of the dispatcher, its clients and workers
\* is a step of JobStore or leaves its view unchanged: submissions join
\* one FIFO queue, Fetch starts the oldest, a Push finishes only a running
\* job, and no job is lost, run twice or moved backwards.
JobStoreRefined == JS!Spec

\* No request, however malformed, ends the dispatcher goroutine.
NoPanic == disp.pc # "crashed"
=============================================================================
