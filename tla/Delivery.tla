------------------------------ MODULE Delivery ------------------------------
(***************************************************************************)
(* How a webhook gets from the vendor to the worker: the receiver          *)
(* (api/receiver.py), the arq queue in Redis (queue.py), the job           *)
(* (workers/processor.py) and the replay tool (tools/replay.py).           *)
(*                                                                         *)
(* The raw_events row is the source of truth and the Redis job only a      *)
(* pointer to it, written after it and lost independently of it. What the  *)
(* pipeline makes of an event is one commit here: it ends with a status    *)
(* (ApplyEvent has that transaction statement by statement).               *)
(*                                                                         *)
(* Redis and arq are external. Modelled of them: a job id is refused while *)
(* its job or its kept result exists; a job stays queued while it runs and *)
(* is removed when it ends, whether it returned, raised or timed out; a    *)
(* slot that picks a job takes a lease (the in-progress key) that outlives *)
(* job_timeout; a job whose slot died is run again, max_tries times in     *)
(* all. The receiver's rejections (400, 413, 401) change nothing and are   *)
(* left out.                                                               *)
(***************************************************************************)
EXTENDS Naturals

CONSTANTS
    Events,    \* content-addressed event ids
    Requests,  \* HTTP requests handled at the same time
    Slots,     \* arq job slots, in any worker process
    Replays,   \* the invocations of the replay tool the operator may make
    MaxTries,  \* WorkerSettings.max_tries
    Limit,     \* how often each mishap may happen
    None

Mode == {"enqueue", "inline"}

Invocation == [mode : Mode, truncate : BOOLEAN]

Status == {"queued", "pending_llm", "processed", "review", "failed"}

\* What may go wrong; a truncation is counted with them because it puts
\* every settled event back to 'queued'.
Mishap == {"receiver_fault", "worker_crash", "job_lost", "redis_loss",
           "replay_fault", "truncation"}

ASSUME ReplaysAssumption == Replays \subseteq Invocation

ASSUME MaxTriesAssumption == MaxTries \in Nat \ {0}

ASSUME LimitAssumption == Limit \in [Mishap -> Nat]

ASSUME NoneAssumption == None \notin Events \cup Status \cup Invocation

VARIABLES
    raw_events,      \* event -> its processing_status, None without a row
    acked,           \* events of which a vendor has got the 202
    request_pc,      \* the next statement of each request
    request_event,   \* the event it carries
    jobs,            \* Redis: job keys, in the queue until they end
    in_progress,     \* Redis: in-progress keys
    results,         \* Redis: kept results
    tries,           \* Redis: retry counters
    slot_pc,         \* the next step of each slot
    slot_event,      \* the event of its job
    replay_pc,       \* the next step of the replay tool
    invocation,      \* its command line
    todo,            \* the events it still has to replay
    happened         \* how often each mishap happened

requests == <<request_pc, request_event, acked>>
redis == <<jobs, in_progress, results, tries>>
workers == <<slot_pc, slot_event>>
replay == <<replay_pc, invocation, todo>>
vars == <<raw_events, requests, redis, workers, replay, happened>>

TypeOK ==
    /\ raw_events \in [Events -> Status \cup {None}]
    /\ acked \subseteq Events
    /\ request_pc \in [Requests -> {"idle", "insert", "enqueue", "respond"}]
    /\ request_event \in [Requests -> Events \cup {None}]
    /\ jobs \subseteq Events
    /\ in_progress \subseteq Events
    /\ results \subseteq Events
    /\ tries \in [Events -> 0..MaxTries]
    /\ slot_pc \in [Slots -> {"idle", "process", "mark_failed", "finish"}]
    /\ slot_event \in [Slots -> Events \cup {None}]
    /\ replay_pc \in {"idle", "truncate", "select", "emit"}
    /\ invocation \in Invocation \cup {None}
    /\ todo \subseteq Events
    /\ happened \in [Mishap -> Nat]
    /\ \A r \in Requests : request_pc[r] # "idle" => request_event[r] \in Events
    /\ \A s \in Slots : slot_pc[s] # "idle" => slot_event[s] \in Events
    /\ replay_pc # "idle" => invocation \in Invocation

Init ==
    /\ raw_events = [e \in Events |-> None]
    /\ acked = {}
    /\ request_pc = [r \in Requests |-> "idle"]
    /\ request_event = [r \in Requests |-> None]
    /\ jobs = {}
    /\ in_progress = {}
    /\ results = {}
    /\ tries = [e \in Events |-> 0]
    /\ slot_pc = [s \in Slots |-> "idle"]
    /\ slot_event = [s \in Slots |-> None]
    /\ replay_pc = "idle"
    /\ invocation = None
    /\ todo = {}
    /\ happened = [k \in Mishap |-> 0]

Happens(k) ==
    /\ happened[k] < Limit[k]
    /\ happened' = [happened EXCEPT ![k] = @ + 1]

Rows == {e \in Events : raw_events[e] # None}

Running(e) == \E s \in Slots : slot_pc[s] # "idle" /\ slot_event[s] = e

SetStatus(e, status) ==
    raw_events' = IF raw_events[e] = None THEN raw_events
                  ELSE [raw_events EXCEPT ![e] = status]

-----------------------------------------------------------------------------
(* arq *)

\* enqueue_job with the event's job id: refused, silently, while the job or
\* its kept result exists.
EnqueueJob(e) ==
    /\ jobs' = IF e \in results THEN jobs ELSE jobs \cup {e}
    /\ UNCHANGED <<in_progress, results, tries>>

\* The end of a job, however it ended: its keys go, its result is kept.
FinishJob(e) ==
    /\ jobs' = jobs \ {e}
    /\ in_progress' = in_progress \ {e}
    /\ results' = results \cup {e}
    /\ tries' = [tries EXCEPT ![e] = 0]

ResultExpires(e) ==
    /\ e \in results
    /\ results' = results \ {e}
    /\ UNCHANGED <<raw_events, requests, jobs, in_progress, tries, workers, replay, happened>>

\* A bug to be caught: a lease shorter than the job.
LeaseExpires_TooSoon(e) ==
    /\ e \in in_progress
    /\ in_progress' = in_progress \ {e}
    /\ UNCHANGED <<raw_events, requests, jobs, results, tries, workers, replay, happened>>

\* The in-progress key lasts longer than job_timeout lets the job run.
LeaseExpires(e) ==
    /\ e \in in_progress
    /\ ~Running(e)
    /\ in_progress' = in_progress \ {e}
    /\ UNCHANGED <<raw_events, requests, jobs, results, tries, workers, replay, happened>>

PickJob(s, e) ==
    /\ slot_pc[s] = "idle"
    /\ e \in jobs \ in_progress
    /\ tries[e] < MaxTries
    /\ in_progress' = in_progress \cup {e}
    /\ tries' = [tries EXCEPT ![e] = @ + 1]
    /\ slot_pc' = [slot_pc EXCEPT ![s] = "process"]
    /\ slot_event' = [slot_event EXCEPT ![s] = e]
    /\ UNCHANGED <<raw_events, requests, jobs, results, replay, happened>>

\* max_tries reached: the job ends as failed without being run.
GiveUp(e) ==
    /\ e \in jobs \ in_progress
    /\ tries[e] = MaxTries
    /\ FinishJob(e)
    /\ UNCHANGED <<raw_events, requests, workers, replay, happened>>

RedisLoss ==
    /\ Happens("redis_loss")
    /\ jobs' = {}
    /\ in_progress' = {}
    /\ results' = {}
    /\ tries' = [e \in Events |-> 0]
    /\ UNCHANGED <<raw_events, requests, workers, replay>>

-----------------------------------------------------------------------------
(* The receiver, _ingest. *)

Receive(r, e) ==
    /\ request_pc[r] = "idle"
    /\ request_pc' = [request_pc EXCEPT ![r] = "insert"]
    /\ request_event' = [request_event EXCEPT ![r] = e]
    /\ UNCHANGED <<raw_events, acked, redis, workers, replay, happened>>

\* A bug to be caught: the row is not committed before the job is enqueued.
InsertRawEvent_Uncommitted(r) ==
    /\ request_pc[r] = "insert"
    /\ request_pc' = [request_pc EXCEPT ![r] = "enqueue"]
    /\ UNCHANGED <<raw_events, acked, request_event, redis, workers, replay, happened>>

\* INSERT ... ON CONFLICT (event_id) DO NOTHING RETURNING event_id. Only the
\* request that inserted the row goes on to enqueue it.
InsertRawEvent(r) ==
    LET e == request_event[r] IN
    /\ request_pc[r] = "insert"
    /\ \/ /\ raw_events[e] = None
          /\ raw_events' = [raw_events EXCEPT ![e] = "queued"]
          /\ request_pc' = [request_pc EXCEPT ![r] = "enqueue"]
       \/ /\ raw_events[e] # None
          /\ request_pc' = [request_pc EXCEPT ![r] = "respond"]
          /\ UNCHANGED raw_events
    /\ UNCHANGED <<acked, request_event, redis, workers, replay, happened>>

EnqueueProcess(r) ==
    /\ request_pc[r] = "enqueue"
    /\ EnqueueJob(request_event[r])
    /\ request_pc' = [request_pc EXCEPT ![r] = "respond"]
    /\ UNCHANGED <<raw_events, acked, request_event, workers, replay, happened>>

Respond(r) ==
    /\ request_pc[r] = "respond"
    /\ acked' = acked \cup {request_event[r]}
    /\ request_pc' = [request_pc EXCEPT ![r] = "idle"]
    /\ request_event' = [request_event EXCEPT ![r] = None]
    /\ UNCHANGED <<raw_events, redis, workers, replay, happened>>

\* The API process dies, or Postgres or Redis refuses: no 202. The vendor
\* may send the event again (Receive).
RequestFails(r) ==
    /\ request_pc[r] # "idle"
    /\ Happens("receiver_fault")
    /\ request_pc' = [request_pc EXCEPT ![r] = "idle"]
    /\ request_event' = [request_event EXCEPT ![r] = None]
    /\ UNCHANGED <<raw_events, acked, redis, workers, replay>>

-----------------------------------------------------------------------------
(* The job, process_webhook. *)

FreeSlot(s) ==
    /\ slot_pc' = [slot_pc EXCEPT ![s] = "idle"]
    /\ slot_event' = [slot_event EXCEPT ![s] = None]

\* process_event returns; an event without a row is 'not_found'.
ProcessEvent(s, status) ==
    /\ slot_pc[s] = "process"
    /\ SetStatus(slot_event[s], status)
    /\ slot_pc' = [slot_pc EXCEPT ![s] = "finish"]
    /\ UNCHANGED <<slot_event, requests, redis, replay, happened>>

\* A bug to be caught: the handler of process_webhook that forgets
\* _mark_failed.
ProcessEventRaises_Unmarked(s) ==
    /\ slot_pc[s] = "process"
    /\ slot_pc' = [slot_pc EXCEPT ![s] = "finish"]
    /\ UNCHANGED <<raw_events, slot_event, requests, redis, replay, happened>>

\* process_event raises, having rolled back.
ProcessEventRaises(s) ==
    /\ slot_pc[s] = "process"
    /\ slot_pc' = [slot_pc EXCEPT ![s] = "mark_failed"]
    /\ UNCHANGED <<raw_events, slot_event, requests, redis, replay, happened>>

\* A bug to be caught: a status the CHECK constraint does not know.
MarkFailed_UnknownStatus(s) ==
    /\ slot_pc[s] = "mark_failed"
    /\ SetStatus(slot_event[s], "error")
    /\ slot_pc' = [slot_pc EXCEPT ![s] = "finish"]
    /\ UNCHANGED <<slot_event, requests, redis, replay, happened>>

\* _mark_failed, then the exception goes on to arq, which does not retry it.
MarkFailed(s) ==
    /\ slot_pc[s] = "mark_failed"
    /\ SetStatus(slot_event[s], "failed")
    /\ slot_pc' = [slot_pc EXCEPT ![s] = "finish"]
    /\ UNCHANGED <<slot_event, requests, redis, replay, happened>>

\* job_timeout cancels the job (CancelledError is no Exception, so nothing
\* is marked), or _mark_failed itself raises: the job ends all the same.
JobEndsUnmarked(s) ==
    /\ slot_pc[s] \in {"process", "mark_failed"}
    /\ Happens("job_lost")
    /\ slot_pc' = [slot_pc EXCEPT ![s] = "finish"]
    /\ UNCHANGED <<raw_events, slot_event, requests, redis, replay>>

Finish(s) ==
    /\ slot_pc[s] = "finish"
    /\ FinishJob(slot_event[s])
    /\ FreeSlot(s)
    /\ UNCHANGED <<raw_events, requests, replay, happened>>

\* The worker process dies: the lease stays until it expires.
WorkerDies(s) ==
    /\ slot_pc[s] # "idle"
    /\ Happens("worker_crash")
    /\ FreeSlot(s)
    /\ UNCHANGED <<raw_events, requests, redis, replay>>

\* The worker is shut down: arq cancels the job and leaves it in the queue.
WorkerShutdown(s) ==
    /\ slot_pc[s] \in {"process", "mark_failed"}
    /\ Happens("worker_crash")
    /\ FreeSlot(s)
    /\ in_progress' = in_progress \ {slot_event[s]}
    /\ UNCHANGED <<raw_events, requests, jobs, results, tries, replay>>

-----------------------------------------------------------------------------
(* The replay tool, _run and truncate. *)

EndReplay ==
    /\ replay_pc' = "idle"
    /\ invocation' = None
    /\ todo' = {}

StartReplay(i) ==
    /\ replay_pc = "idle"
    /\ replay_pc' = IF i.truncate THEN "truncate" ELSE "select"
    /\ invocation' = i
    /\ UNCHANGED <<todo, raw_events, requests, redis, workers, happened>>

\* truncate: one transaction, with the reset of every raw_events row.
Truncate ==
    /\ replay_pc = "truncate"
    /\ Happens("truncation")
    /\ raw_events' = [e \in Events |-> IF raw_events[e] = None THEN None ELSE "queued"]
    /\ replay_pc' = "select"
    /\ UNCHANGED <<invocation, todo, requests, redis, workers>>

\* A bug to be caught: only the events marked failed are replayed.
SelectEvents_FailedOnly(S) ==
    /\ replay_pc = "select"
    /\ S \subseteq Rows
    /\ todo' = {e \in S : raw_events[e] = "failed"}
    /\ replay_pc' = "emit"
    /\ UNCHANGED <<invocation, raw_events, requests, redis, workers, happened>>

\* A bug to be caught: only the events still queued are replayed.
SelectEvents_QueuedOnly(S) ==
    /\ replay_pc = "select"
    /\ S \subseteq Rows
    /\ todo' = {e \in S : raw_events[e] = "queued"}
    /\ replay_pc' = "emit"
    /\ UNCHANGED <<invocation, raw_events, requests, redis, workers, happened>>

\* The SELECT, with any of its filters. The order of the rows is left out:
\* any of them may be the next.
SelectEvents(S) ==
    /\ replay_pc = "select"
    /\ S \subseteq Rows
    /\ todo' = S
    /\ replay_pc' = "emit"
    /\ UNCHANGED <<invocation, raw_events, requests, redis, workers, happened>>

ReplayEnqueue(e) ==
    /\ replay_pc = "emit"
    /\ invocation.mode = "enqueue"
    /\ e \in todo
    /\ todo' = todo \ {e}
    /\ EnqueueJob(e)
    /\ UNCHANGED <<replay_pc, invocation, raw_events, requests, workers, happened>>

ReplayInline(e, status) ==
    /\ replay_pc = "emit"
    /\ invocation.mode = "inline"
    /\ e \in todo
    /\ todo' = todo \ {e}
    /\ SetStatus(e, status)
    /\ UNCHANGED <<replay_pc, invocation, requests, redis, workers, happened>>

ReplayDone ==
    /\ replay_pc = "emit"
    /\ todo = {}
    /\ EndReplay
    /\ UNCHANGED <<raw_events, requests, redis, workers, happened>>

\* The process dies, or process_event or enqueue_process raises: nothing
\* catches it, the rest of the list is dropped.
ReplayFails ==
    /\ replay_pc # "idle"
    /\ Happens("replay_fault")
    /\ EndReplay
    /\ UNCHANGED <<raw_events, requests, redis, workers>>

-----------------------------------------------------------------------------
\* What process_event may leave in raw_events when it returns.
Returned == {"processed", "review", "pending_llm"}

ReceiverNext ==
    \E r \in Requests :
        \/ \E e \in Events : Receive(r, e)
        \/ InsertRawEvent(r)
        \/ EnqueueProcess(r)
        \/ Respond(r)
        \/ RequestFails(r)

WorkerNext ==
    \E s \in Slots :
        \/ \E e \in Events : PickJob(s, e)
        \/ \E status \in Returned : ProcessEvent(s, status)
        \/ ProcessEventRaises(s)
        \/ MarkFailed(s)
        \/ JobEndsUnmarked(s)
        \/ Finish(s)
        \/ WorkerDies(s)
        \/ WorkerShutdown(s)

RedisNext ==
    \/ \E e \in Events : ResultExpires(e) \/ LeaseExpires(e) \/ GiveUp(e)
    \/ RedisLoss

ReplayNext ==
    \/ \E i \in Replays : StartReplay(i)
    \/ Truncate
    \/ \E S \in SUBSET Rows : SelectEvents(S)
    \/ \E e \in Events :
          \/ ReplayEnqueue(e)
          \/ \E status \in Returned : ReplayInline(e, status)
    \/ ReplayDone
    \/ ReplayFails

Next == ReceiverNext \/ WorkerNext \/ RedisNext \/ ReplayNext

Spec == Init /\ [][Next]_vars

-----------------------------------------------------------------------------
(* Fairness: a request is handled, a free slot takes a queued job and runs *)
(* it to its end, Redis keys expire. Nothing makes a vendor send, a        *)
(* process fail or the operator replay.                                    *)
Fairness ==
    /\ \A r \in Requests :
          WF_vars(InsertRawEvent(r) \/ EnqueueProcess(r) \/ Respond(r))
    /\ \A e \in Events :
          /\ SF_vars(\E s \in Slots : PickJob(s, e))
          /\ WF_vars(GiveUp(e))
          /\ WF_vars(LeaseExpires(e))
          /\ WF_vars(ResultExpires(e))
    /\ \A s \in Slots :
          /\ WF_vars((\E status \in Returned : ProcessEvent(s, status)) \/ ProcessEventRaises(s))
          /\ WF_vars(MarkFailed(s))
          /\ WF_vars(Finish(s))

FairSpec == Spec /\ Fairness

\* The recovery the README prescribes: somebody replays through the queue
\* again and again, and again and again without a filter.
Recovery ==
    /\ SF_vars(StartReplay([mode |-> "enqueue", truncate |-> FALSE]))
    /\ SF_vars(SelectEvents(Rows))
    /\ WF_vars(\E e \in Events : ReplayEnqueue(e))
    /\ WF_vars(ReplayDone)

RecoverySpec == FairSpec /\ Recovery

-----------------------------------------------------------------------------
\* Nothing runs ahead of the row: a vendor that got its 202, a job, and an
\* event a slot or the replay tool holds all have a raw_events row, so no
\* crash can lose an acknowledged event and process_event never answers
\* 'not_found' (receiver.py _ingest, pipeline.py process_event).
Durable ==
    /\ acked \subseteq Rows
    /\ jobs \subseteq Rows
    /\ todo \subseteq Rows
    /\ \A s \in Slots : slot_pc[s] # "idle" => slot_event[s] \in Rows

\* While Redis keeps its data no two slots run one event, whatever crashed,
\* timed out or was enqueued again by the vendor's retry or by a replay
\* (queue.py enqueue_process: one job id for each event).
OneRunner ==
    happened["redis_loss"] = 0 =>
        \A s, t \in Slots :
            slot_pc[s] # "idle" /\ slot_pc[t] # "idle" /\ slot_event[s] = slot_event[t]
                => s = t

\* The event has a job, or a request that is about to enqueue one.
OnItsWay(e) ==
    \/ e \in jobs
    \/ \E r \in Requests : request_pc[r] = "enqueue" /\ request_event[r] = e

\* Fewer worker crashes than tries, and nothing else.
OnlyWorkersCrashed ==
    /\ \A k \in {"receiver_fault", "job_lost", "redis_loss", "truncation"} : happened[k] = 0
    /\ happened["worker_crash"] < MaxTries

\* At-least-once: as long as nothing worse happens than fewer worker crashes
\* than max_tries, no accepted event is stranded. One that is still 'queued'
\* has its job, through any interleaving of vendor retries, crashes in the
\* middle of a job, kept results and replays (also ones that die half-way).
NothingStranded ==
    OnlyWorkersCrashed =>
        \A e \in Events : raw_events[e] = "queued" => OnItsWay(e)

\* Whatever was lost (a request between INSERT and enqueue, a job, all of
\* Redis), an operator who keeps replaying gets every queued event settled
\* (README.md:136 and :148, replay.py).
Recovered ==
    \A e \in Events : raw_events[e] = "queued" ~> raw_events[e] # "queued"

\* An event deferred because the budget is exhausted is tried again (base.py:26,
\* pipeline.py:155). No worker does it of its own accord: it takes the operator,
\* whose replay may be refused while the result of the deferral is kept, and no
\* loss in between makes an end of it.
DeferredTriedAgain ==
    \A e \in Events :
        raw_events[e] = "pending_llm" ~>
            \E s \in Slots : slot_pc[s] = "process" /\ slot_event[s] = e

-----------------------------------------------------------------------------
(* Why: the inductive invariant. *)

\* Whatever has been read from or sent after a row has its row.
HeldRows ==
    /\ results \subseteq Rows
    /\ \A r \in Requests :
          request_pc[r] \in {"enqueue", "respond"} => request_event[r] \in Rows

\* A job stays in the queue, under its lease, while a slot runs it.
Leased ==
    happened["redis_loss"] = 0 =>
        \A s \in Slots : slot_pc[s] # "idle" => slot_event[s] \in jobs \cap in_progress

\* Every try but the one that is running ended in a crash.
Counted ==
    happened["redis_loss"] = 0 =>
        \A e \in Events :
            tries[e] <= happened["worker_crash"] + (IF Running(e) THEN 1 ELSE 0)

\* A job that is over, or has a kept result, is not needed any more.
Settled ==
    OnlyWorkersCrashed =>
        /\ \A s \in Slots : slot_pc[s] = "finish" => raw_events[slot_event[s]] # "queued"
        /\ \A e \in results : raw_events[e] # "queued"

DeliveryInv ==
    /\ TypeOK
    /\ Durable
    /\ HeldRows
    /\ Leased
    /\ OneRunner
    /\ Counted
    /\ Settled
    /\ NothingStranded

=============================================================================
