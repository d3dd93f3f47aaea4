--------------------------- MODULE Delivery_proofs ---------------------------
(***************************************************************************)
(* Delivery, for any number of events, requests, slots, tries and mishaps: *)
(* DeliveryInv is inductive. One lemma for each part of it; the parts are  *)
(* stated in Delivery.tla.                                                 *)
(***************************************************************************)
EXTENDS Delivery, TLAPS

\* A mishap that happened has always happened: the step that breaks the
\* hypothesis of an implication in DeliveryInv breaks it for good.
LEMMA HappenedGrows ==
    ASSUME TypeOK, [Next]_vars
    PROVE  /\ \A k \in Mishap : happened'[k] >= happened[k]
           /\ OnlyWorkersCrashed' => OnlyWorkersCrashed
           /\ happened'["redis_loss"] = 0 => happened["redis_loss"] = 0
<1>1. \A k \in Mishap : happened[k] \in Nat
    BY DEF TypeOK
<1>2. \/ happened' = happened
      \/ \E k \in Mishap : Happens(k)
    BY DEF Next, ReceiverNext, WorkerNext, RedisNext, ReplayNext, Receive, InsertRawEvent,
        EnqueueProcess, Respond, RequestFails, PickJob, ProcessEvent, ProcessEventRaises,
        MarkFailed, JobEndsUnmarked, Finish, WorkerDies, WorkerShutdown, ResultExpires,
        LeaseExpires, GiveUp, RedisLoss, StartReplay, Truncate, SelectEvents, ReplayEnqueue,
        ReplayInline, ReplayDone, ReplayFails, Mishap, vars
<1>3. \A k \in Mishap : happened'[k] >= happened[k] /\ happened'[k] \in Nat
    BY <1>1, <1>2 DEF Happens, TypeOK
<1>4. QED
    BY <1>1, <1>3, MaxTriesAssumption DEF OnlyWorkersCrashed, Mishap

\* A mishap keeps its counter a number.
LEMMA HappenedType ==
    ASSUME TypeOK, NEW k \in Mishap, Happens(k)
    PROVE  happened' \in [Mishap -> Nat]
BY DEF TypeOK, Happens

\* Every action keeps the types.
LEMMA TypeStep ==
    ASSUME TypeOK, [Next]_vars
    PROVE  TypeOK'
<1> USE MaxTriesAssumption, ReplaysAssumption DEF TypeOK
<1>1. CASE ReceiverNext
    <2>1. ASSUME NEW r \in Requests, NEW e \in Events, Receive(r, e) PROVE TypeOK'
        BY <2>1 DEF Receive, redis, workers, replay
    <2>2. ASSUME NEW r \in Requests, InsertRawEvent(r) PROVE TypeOK'
        BY <2>2 DEF InsertRawEvent, redis, workers, replay, Status
    <2>3. ASSUME NEW r \in Requests, EnqueueProcess(r) PROVE TypeOK'
        BY <2>3 DEF EnqueueProcess, EnqueueJob, workers, replay
    <2>4. ASSUME NEW r \in Requests, Respond(r) PROVE TypeOK'
        BY <2>4 DEF Respond, redis, workers, replay
    <2>5. ASSUME NEW r \in Requests, RequestFails(r) PROVE TypeOK'
        BY <2>5, HappenedType DEF RequestFails, redis, workers, replay, Mishap
    <2>6. QED
        BY <1>1, <2>1, <2>2, <2>3, <2>4, <2>5 DEF ReceiverNext
<1>2. CASE WorkerNext
    <2>1. ASSUME NEW s \in Slots, NEW e \in Events, PickJob(s, e) PROVE TypeOK'
        BY <2>1 DEF PickJob, requests, replay
    <2>2. ASSUME NEW s \in Slots, NEW status \in Returned, ProcessEvent(s, status) PROVE TypeOK'
        BY <2>2 DEF ProcessEvent, SetStatus, Returned, Status, requests, redis, replay
    <2>3. ASSUME NEW s \in Slots, ProcessEventRaises(s) PROVE TypeOK'
        BY <2>3 DEF ProcessEventRaises, requests, redis, replay
    <2>4. ASSUME NEW s \in Slots, MarkFailed(s) PROVE TypeOK'
        BY <2>4 DEF MarkFailed, SetStatus, Status, requests, redis, replay
    <2>5. ASSUME NEW s \in Slots, JobEndsUnmarked(s) PROVE TypeOK'
        BY <2>5, HappenedType DEF JobEndsUnmarked, requests, redis, replay, Mishap
    <2>6. ASSUME NEW s \in Slots, Finish(s) PROVE TypeOK'
        BY <2>6 DEF Finish, FinishJob, FreeSlot, requests, replay
    <2>7. ASSUME NEW s \in Slots, WorkerDies(s) PROVE TypeOK'
        BY <2>7, HappenedType DEF WorkerDies, FreeSlot, requests, redis, replay, Mishap
    <2>8. ASSUME NEW s \in Slots, WorkerShutdown(s) PROVE TypeOK'
        BY <2>8, HappenedType DEF WorkerShutdown, FreeSlot, requests, replay, Mishap
    <2>9. QED
        BY <1>2, <2>1, <2>2, <2>3, <2>4, <2>5, <2>6, <2>7, <2>8 DEF WorkerNext
<1>3. CASE RedisNext
    <2>1. ASSUME NEW e \in Events, ResultExpires(e) PROVE TypeOK'
        BY <2>1 DEF ResultExpires, requests, workers, replay
    <2>2. ASSUME NEW e \in Events, LeaseExpires(e) PROVE TypeOK'
        BY <2>2 DEF LeaseExpires, requests, workers, replay
    <2>3. ASSUME NEW e \in Events, GiveUp(e) PROVE TypeOK'
        BY <2>3 DEF GiveUp, FinishJob, requests, workers, replay
    <2>4. CASE RedisLoss
        BY <2>4, HappenedType DEF RedisLoss, requests, workers, replay, Mishap
    <2>5. QED
        BY <1>3, <2>1, <2>2, <2>3, <2>4 DEF RedisNext
<1>4. CASE ReplayNext
    <2>1. ASSUME NEW i \in Replays, StartReplay(i) PROVE TypeOK'
        BY <2>1 DEF StartReplay, requests, redis, workers
    <2>2. CASE Truncate
        BY <2>2, HappenedType DEF Truncate, Status, requests, redis, workers, Mishap
    <2>3. ASSUME NEW S \in SUBSET Rows, SelectEvents(S) PROVE TypeOK'
        BY <2>3 DEF SelectEvents, Rows, requests, redis, workers
    <2>4. ASSUME NEW e \in Events, ReplayEnqueue(e) PROVE TypeOK'
        BY <2>4 DEF ReplayEnqueue, EnqueueJob, requests, workers
    <2>5. ASSUME NEW e \in Events, NEW status \in Returned, ReplayInline(e, status) PROVE TypeOK'
        BY <2>5 DEF ReplayInline, SetStatus, Returned, Status, requests, redis, workers
    <2>6. CASE ReplayDone
        BY <2>6 DEF ReplayDone, EndReplay, requests, redis, workers
    <2>7. CASE ReplayFails
        BY <2>7, HappenedType DEF ReplayFails, EndReplay, requests, redis, workers, Mishap
    <2>8. QED
        BY <1>4, <2>1, <2>2, <2>3, <2>4, <2>5, <2>6, <2>7 DEF ReplayNext
<1>5. CASE UNCHANGED vars
    BY <1>5 DEF vars, requests, redis, workers, replay
<1>6. QED
    BY <1>1, <1>2, <1>3, <1>4, <1>5 DEF Next

\* A row is written before anything refers to it and is never deleted.
LEMMA DurableStep ==
    ASSUME TypeOK, Durable, HeldRows, [Next]_vars
    PROVE  (Durable /\ HeldRows)'
<1> USE DEF TypeOK, Durable, HeldRows, Rows
<1>1. CASE ReceiverNext
    <2>1. ASSUME NEW r \in Requests, NEW e \in Events, Receive(r, e) PROVE (Durable /\ HeldRows)'
        BY <2>1 DEF Receive, redis, workers, replay
    <2>2. ASSUME NEW r \in Requests, InsertRawEvent(r) PROVE (Durable /\ HeldRows)'
        BY <2>2, NoneAssumption DEF Status, InsertRawEvent, redis, workers, replay
    <2>3. ASSUME NEW r \in Requests, EnqueueProcess(r) PROVE (Durable /\ HeldRows)'
        BY <2>3 DEF EnqueueProcess, EnqueueJob, workers, replay
    <2>4. ASSUME NEW r \in Requests, Respond(r) PROVE (Durable /\ HeldRows)'
        BY <2>4 DEF Respond, redis, workers, replay
    <2>5. ASSUME NEW r \in Requests, RequestFails(r) PROVE (Durable /\ HeldRows)'
        BY <2>5 DEF RequestFails, redis, workers, replay
    <2>6. QED
        BY <1>1, <2>1, <2>2, <2>3, <2>4, <2>5 DEF ReceiverNext
<1>2. CASE WorkerNext
    <2>1. ASSUME NEW s \in Slots, NEW e \in Events, PickJob(s, e) PROVE (Durable /\ HeldRows)'
        BY <2>1 DEF PickJob, requests, replay
    <2>2. ASSUME NEW s \in Slots, NEW status \in Returned, ProcessEvent(s, status) PROVE (Durable /\ HeldRows)'
        BY <2>2, NoneAssumption DEF Status, ProcessEvent, SetStatus, Returned, requests, redis, replay
    <2>3. ASSUME NEW s \in Slots, ProcessEventRaises(s) PROVE (Durable /\ HeldRows)'
        BY <2>3 DEF ProcessEventRaises, requests, redis, replay
    <2>4. ASSUME NEW s \in Slots, MarkFailed(s) PROVE (Durable /\ HeldRows)'
        BY <2>4, NoneAssumption DEF Status, MarkFailed, SetStatus, requests, redis, replay
    <2>5. ASSUME NEW s \in Slots, JobEndsUnmarked(s) PROVE (Durable /\ HeldRows)'
        BY <2>5 DEF JobEndsUnmarked, requests, redis, replay
    <2>6. ASSUME NEW s \in Slots, Finish(s) PROVE (Durable /\ HeldRows)'
        BY <2>6 DEF Finish, FinishJob, FreeSlot, requests, replay
    <2>7. ASSUME NEW s \in Slots, WorkerDies(s) PROVE (Durable /\ HeldRows)'
        BY <2>7 DEF WorkerDies, FreeSlot, requests, redis, replay
    <2>8. ASSUME NEW s \in Slots, WorkerShutdown(s) PROVE (Durable /\ HeldRows)'
        BY <2>8 DEF WorkerShutdown, FreeSlot, requests, replay
    <2>9. QED
        BY <1>2, <2>1, <2>2, <2>3, <2>4, <2>5, <2>6, <2>7, <2>8 DEF WorkerNext
<1>3. CASE RedisNext
    <2>1. ASSUME NEW e \in Events, ResultExpires(e) PROVE (Durable /\ HeldRows)'
        BY <2>1 DEF ResultExpires, requests, workers, replay
    <2>2. ASSUME NEW e \in Events, LeaseExpires(e) PROVE (Durable /\ HeldRows)'
        BY <2>2 DEF LeaseExpires, requests, workers, replay
    <2>3. ASSUME NEW e \in Events, GiveUp(e) PROVE (Durable /\ HeldRows)'
        BY <2>3 DEF GiveUp, FinishJob, requests, workers, replay
    <2>4. CASE RedisLoss
        BY <2>4 DEF RedisLoss, requests, workers, replay
    <2>5. QED
        BY <1>3, <2>1, <2>2, <2>3, <2>4 DEF RedisNext
<1>4. CASE ReplayNext
    <2>1. ASSUME NEW i \in Replays, StartReplay(i) PROVE (Durable /\ HeldRows)'
        BY <2>1 DEF StartReplay, requests, redis, workers
    <2>2. CASE Truncate
        BY <2>2, NoneAssumption DEF Status, Truncate, requests, redis, workers
    <2>3. ASSUME NEW S \in SUBSET Rows, SelectEvents(S) PROVE (Durable /\ HeldRows)'
        BY <2>3 DEF SelectEvents, requests, redis, workers
    <2>4. ASSUME NEW e \in Events, ReplayEnqueue(e) PROVE (Durable /\ HeldRows)'
        BY <2>4 DEF ReplayEnqueue, EnqueueJob, requests, workers
    <2>5. ASSUME NEW e \in Events, NEW status \in Returned, ReplayInline(e, status) PROVE (Durable /\ HeldRows)'
        BY <2>5, NoneAssumption DEF Status, ReplayInline, SetStatus, Returned, requests, redis, workers
    <2>6. CASE ReplayDone
        BY <2>6 DEF ReplayDone, EndReplay, requests, redis, workers
    <2>7. CASE ReplayFails
        BY <2>7 DEF ReplayFails, EndReplay, requests, redis, workers
    <2>8. QED
        BY <1>4, <2>1, <2>2, <2>3, <2>4, <2>5, <2>6, <2>7 DEF ReplayNext
<1>5. CASE UNCHANGED vars
    BY <1>5 DEF vars, requests, redis, workers, replay
<1>6. QED
    BY <1>1, <1>2, <1>3, <1>4, <1>5 DEF Next

\* A slot takes a job nobody has a lease on, and keeps both.
LEMMA LeasedStep ==
    ASSUME TypeOK, Leased, OneRunner, [Next]_vars
    PROVE  (Leased /\ OneRunner)'
<1> USE DEF TypeOK, Leased, OneRunner
<1>g. happened'["redis_loss"] = 0 => happened["redis_loss"] = 0
    BY HappenedGrows
<1>1. CASE ReceiverNext
    <2>1. ASSUME NEW r \in Requests, NEW e \in Events, Receive(r, e) PROVE (Leased /\ OneRunner)'
        BY <1>g, <2>1 DEF Receive, redis, workers, replay
    <2>2. ASSUME NEW r \in Requests, InsertRawEvent(r) PROVE (Leased /\ OneRunner)'
        BY <1>g, <2>2 DEF InsertRawEvent, redis, workers, replay
    <2>3. ASSUME NEW r \in Requests, EnqueueProcess(r) PROVE (Leased /\ OneRunner)'
        BY <1>g, <2>3 DEF EnqueueProcess, EnqueueJob, workers, replay
    <2>4. ASSUME NEW r \in Requests, Respond(r) PROVE (Leased /\ OneRunner)'
        BY <1>g, <2>4 DEF Respond, redis, workers, replay
    <2>5. ASSUME NEW r \in Requests, RequestFails(r) PROVE (Leased /\ OneRunner)'
        BY <1>g, <2>5 DEF RequestFails, redis, workers, replay
    <2>6. QED
        BY <1>1, <2>1, <2>2, <2>3, <2>4, <2>5 DEF ReceiverNext
<1>2. CASE WorkerNext
    <2>1. ASSUME NEW s \in Slots, NEW e \in Events, PickJob(s, e) PROVE (Leased /\ OneRunner)'
        BY <1>g, <2>1 DEF PickJob, requests, replay
    <2>2. ASSUME NEW s \in Slots, NEW status \in Returned, ProcessEvent(s, status) PROVE (Leased /\ OneRunner)'
        BY <1>g, <2>2 DEF ProcessEvent, SetStatus, Returned, requests, redis, replay
    <2>3. ASSUME NEW s \in Slots, ProcessEventRaises(s) PROVE (Leased /\ OneRunner)'
        BY <1>g, <2>3 DEF ProcessEventRaises, requests, redis, replay
    <2>4. ASSUME NEW s \in Slots, MarkFailed(s) PROVE (Leased /\ OneRunner)'
        BY <1>g, <2>4 DEF MarkFailed, SetStatus, requests, redis, replay
    <2>5. ASSUME NEW s \in Slots, JobEndsUnmarked(s) PROVE (Leased /\ OneRunner)'
        BY <1>g, <2>5 DEF JobEndsUnmarked, requests, redis, replay
    <2>6. ASSUME NEW s \in Slots, Finish(s) PROVE (Leased /\ OneRunner)'
        BY <1>g, <2>6 DEF Finish, FinishJob, FreeSlot, requests, replay
    <2>7. ASSUME NEW s \in Slots, WorkerDies(s) PROVE (Leased /\ OneRunner)'
        BY <1>g, <2>7 DEF WorkerDies, FreeSlot, requests, redis, replay
    <2>8. ASSUME NEW s \in Slots, WorkerShutdown(s) PROVE (Leased /\ OneRunner)'
        BY <1>g, <2>8 DEF WorkerShutdown, FreeSlot, requests, replay
    <2>9. QED
        BY <1>2, <2>1, <2>2, <2>3, <2>4, <2>5, <2>6, <2>7, <2>8 DEF WorkerNext
<1>3. CASE RedisNext
    <2>1. ASSUME NEW e \in Events, ResultExpires(e) PROVE (Leased /\ OneRunner)'
        BY <1>g, <2>1 DEF ResultExpires, requests, workers, replay
    <2>2. ASSUME NEW e \in Events, LeaseExpires(e) PROVE (Leased /\ OneRunner)'
        BY <1>g, <2>2 DEF LeaseExpires, Running, requests, workers, replay
    <2>3. ASSUME NEW e \in Events, GiveUp(e) PROVE (Leased /\ OneRunner)'
        BY <1>g, <2>3 DEF GiveUp, FinishJob, requests, workers, replay
    <2>4. CASE RedisLoss
        BY <1>g, <2>4 DEF RedisLoss, Happens, Mishap, requests, workers, replay
    <2>5. QED
        BY <1>3, <2>1, <2>2, <2>3, <2>4 DEF RedisNext
<1>4. CASE ReplayNext
    <2>1. ASSUME NEW i \in Replays, StartReplay(i) PROVE (Leased /\ OneRunner)'
        BY <1>g, <2>1 DEF StartReplay, requests, redis, workers
    <2>2. CASE Truncate
        BY <1>g, <2>2 DEF Truncate, requests, redis, workers
    <2>3. ASSUME NEW S \in SUBSET Rows, SelectEvents(S) PROVE (Leased /\ OneRunner)'
        BY <1>g, <2>3 DEF SelectEvents, requests, redis, workers
    <2>4. ASSUME NEW e \in Events, ReplayEnqueue(e) PROVE (Leased /\ OneRunner)'
        BY <1>g, <2>4 DEF ReplayEnqueue, EnqueueJob, requests, workers
    <2>5. ASSUME NEW e \in Events, NEW status \in Returned, ReplayInline(e, status) PROVE (Leased /\ OneRunner)'
        BY <1>g, <2>5 DEF ReplayInline, SetStatus, Returned, requests, redis, workers
    <2>6. CASE ReplayDone
        BY <1>g, <2>6 DEF ReplayDone, EndReplay, requests, redis, workers
    <2>7. CASE ReplayFails
        BY <1>g, <2>7 DEF ReplayFails, EndReplay, requests, redis, workers
    <2>8. QED
        BY <1>4, <2>1, <2>2, <2>3, <2>4, <2>5, <2>6, <2>7 DEF ReplayNext
<1>5. CASE UNCHANGED vars
    BY <1>g, <1>5 DEF vars, requests, redis, workers, replay
<1>6. QED
    BY <1>1, <1>2, <1>3, <1>4, <1>5 DEF Next

\* A try that is not running has ended in a crash: a job that ends any other
\* way takes its counter with it.
LEMMA CountedStep ==
    ASSUME TypeOK, Leased, OneRunner, Counted, [Next]_vars
    PROVE  Counted'
<1> USE DEF TypeOK, Leased, OneRunner, Counted, Running
<1>g. /\ happened'["redis_loss"] = 0 => happened["redis_loss"] = 0
      /\ happened'["worker_crash"] >= happened["worker_crash"]
      /\ happened'["worker_crash"] \in Nat /\ happened["worker_crash"] \in Nat
    BY HappenedGrows, TypeStep DEF Mishap
<1>1. CASE ReceiverNext
    <2>1. ASSUME NEW r \in Requests, NEW e \in Events, Receive(r, e) PROVE Counted'
        BY <1>g, <2>1 DEF Receive, redis, workers, replay
    <2>2. ASSUME NEW r \in Requests, InsertRawEvent(r) PROVE Counted'
        BY <1>g, <2>2 DEF InsertRawEvent, redis, workers, replay
    <2>3. ASSUME NEW r \in Requests, EnqueueProcess(r) PROVE Counted'
        BY <1>g, <2>3 DEF EnqueueProcess, EnqueueJob, workers, replay
    <2>4. ASSUME NEW r \in Requests, Respond(r) PROVE Counted'
        BY <1>g, <2>4 DEF Respond, redis, workers, replay
    <2>5. ASSUME NEW r \in Requests, RequestFails(r) PROVE Counted'
        BY <1>g, <2>5 DEF RequestFails, redis, workers, replay
    <2>6. QED
        BY <1>1, <2>1, <2>2, <2>3, <2>4, <2>5 DEF ReceiverNext
<1>2. CASE WorkerNext
    <2>1. ASSUME NEW s \in Slots, NEW e \in Events, PickJob(s, e) PROVE Counted'
        BY <1>g, <2>1 DEF PickJob, requests, replay
    <2>2. ASSUME NEW s \in Slots, NEW status \in Returned, ProcessEvent(s, status) PROVE Counted'
        BY <1>g, <2>2 DEF ProcessEvent, SetStatus, Returned, requests, redis, replay
    <2>3. ASSUME NEW s \in Slots, ProcessEventRaises(s) PROVE Counted'
        BY <1>g, <2>3 DEF ProcessEventRaises, requests, redis, replay
    <2>4. ASSUME NEW s \in Slots, MarkFailed(s) PROVE Counted'
        BY <1>g, <2>4 DEF MarkFailed, SetStatus, requests, redis, replay
    <2>5. ASSUME NEW s \in Slots, JobEndsUnmarked(s) PROVE Counted'
        BY <1>g, <2>5 DEF JobEndsUnmarked, requests, redis, replay
    <2>6. ASSUME NEW s \in Slots, Finish(s) PROVE Counted'
        BY <1>g, <2>6 DEF Finish, FinishJob, FreeSlot, requests, replay
    <2>7. ASSUME NEW s \in Slots, WorkerDies(s) PROVE Counted'
        BY <1>g, <2>7 DEF WorkerDies, Happens, Mishap, FreeSlot, requests, redis, replay
    <2>8. ASSUME NEW s \in Slots, WorkerShutdown(s) PROVE Counted'
        BY <1>g, <2>8 DEF WorkerShutdown, Happens, Mishap, FreeSlot, requests, replay
    <2>9. QED
        BY <1>2, <2>1, <2>2, <2>3, <2>4, <2>5, <2>6, <2>7, <2>8 DEF WorkerNext
<1>3. CASE RedisNext
    <2>1. ASSUME NEW e \in Events, ResultExpires(e) PROVE Counted'
        BY <1>g, <2>1 DEF ResultExpires, requests, workers, replay
    <2>2. ASSUME NEW e \in Events, LeaseExpires(e) PROVE Counted'
        BY <1>g, <2>2 DEF LeaseExpires, requests, workers, replay
    <2>3. ASSUME NEW e \in Events, GiveUp(e) PROVE Counted'
        BY <1>g, <2>3 DEF GiveUp, FinishJob, requests, workers, replay
    <2>4. CASE RedisLoss
        BY <1>g, <2>4 DEF RedisLoss, requests, workers, replay
    <2>5. QED
        BY <1>3, <2>1, <2>2, <2>3, <2>4 DEF RedisNext
<1>4. CASE ReplayNext
    <2>1. ASSUME NEW i \in Replays, StartReplay(i) PROVE Counted'
        BY <1>g, <2>1 DEF StartReplay, requests, redis, workers
    <2>2. CASE Truncate
        BY <1>g, <2>2 DEF Truncate, requests, redis, workers
    <2>3. ASSUME NEW S \in SUBSET Rows, SelectEvents(S) PROVE Counted'
        BY <1>g, <2>3 DEF SelectEvents, requests, redis, workers
    <2>4. ASSUME NEW e \in Events, ReplayEnqueue(e) PROVE Counted'
        BY <1>g, <2>4 DEF ReplayEnqueue, EnqueueJob, requests, workers
    <2>5. ASSUME NEW e \in Events, NEW status \in Returned, ReplayInline(e, status) PROVE Counted'
        BY <1>g, <2>5 DEF ReplayInline, SetStatus, Returned, requests, redis, workers
    <2>6. CASE ReplayDone
        BY <1>g, <2>6 DEF ReplayDone, EndReplay, requests, redis, workers
    <2>7. CASE ReplayFails
        BY <1>g, <2>7 DEF ReplayFails, EndReplay, requests, redis, workers
    <2>8. QED
        BY <1>4, <2>1, <2>2, <2>3, <2>4, <2>5, <2>6, <2>7 DEF ReplayNext
<1>5. CASE UNCHANGED vars
    BY <1>g, <1>5 DEF vars, requests, redis, workers, replay
<1>6. QED
    BY <1>1, <1>2, <1>3, <1>4, <1>5 DEF Next

\* A job that is over leaves its event settled, so neither its end nor its
\* kept result can strand the event.
LEMMA SettledStep ==
    ASSUME TypeOK, Durable, HeldRows, Leased, OneRunner, Counted, Settled, NothingStranded,
           [Next]_vars
    PROVE  (Settled /\ NothingStranded)'
<1> USE DEF TypeOK, Durable, HeldRows, Rows, Settled, NothingStranded, OnItsWay
<1>g. OnlyWorkersCrashed' => OnlyWorkersCrashed
    BY HappenedGrows
<1>1. CASE ReceiverNext
    <2>1. ASSUME NEW r \in Requests, NEW e \in Events, Receive(r, e) PROVE (Settled /\ NothingStranded)'
        BY <1>g, <2>1 DEF Receive, redis, workers, replay
    <2>2. ASSUME NEW r \in Requests, InsertRawEvent(r) PROVE (Settled /\ NothingStranded)'
        BY <1>g, <2>2 DEF InsertRawEvent, redis, workers, replay
    <2>3. ASSUME NEW r \in Requests, EnqueueProcess(r) PROVE (Settled /\ NothingStranded)'
        BY <1>g, <2>3 DEF EnqueueProcess, EnqueueJob, workers, replay
    <2>4. ASSUME NEW r \in Requests, Respond(r) PROVE (Settled /\ NothingStranded)'
        BY <1>g, <2>4 DEF Respond, redis, workers, replay
    <2>5. ASSUME NEW r \in Requests, RequestFails(r) PROVE (Settled /\ NothingStranded)'
        BY <1>g, <2>5 DEF RequestFails, Happens, Mishap, OnlyWorkersCrashed, redis, workers, replay
    <2>6. QED
        BY <1>1, <2>1, <2>2, <2>3, <2>4, <2>5 DEF ReceiverNext
<1>2. CASE WorkerNext
    <2>1. ASSUME NEW s \in Slots, NEW e \in Events, PickJob(s, e) PROVE (Settled /\ NothingStranded)'
        BY <1>g, <2>1 DEF PickJob, requests, replay
    <2>2. ASSUME NEW s \in Slots, NEW status \in Returned, ProcessEvent(s, status) PROVE (Settled /\ NothingStranded)'
        BY <1>g, <2>2 DEF ProcessEvent, SetStatus, Returned, requests, redis, replay
    <2>3. ASSUME NEW s \in Slots, ProcessEventRaises(s) PROVE (Settled /\ NothingStranded)'
        BY <1>g, <2>3 DEF ProcessEventRaises, requests, redis, replay
    <2>4. ASSUME NEW s \in Slots, MarkFailed(s) PROVE (Settled /\ NothingStranded)'
        BY <1>g, <2>4 DEF MarkFailed, SetStatus, requests, redis, replay
    <2>5. ASSUME NEW s \in Slots, JobEndsUnmarked(s) PROVE (Settled /\ NothingStranded)'
        BY <1>g, <2>5 DEF JobEndsUnmarked, Happens, Mishap, OnlyWorkersCrashed, requests, redis, replay
    <2>6. ASSUME NEW s \in Slots, Finish(s) PROVE (Settled /\ NothingStranded)'
        BY <1>g, <2>6 DEF Finish, FinishJob, FreeSlot, requests, replay
    <2>7. ASSUME NEW s \in Slots, WorkerDies(s) PROVE (Settled /\ NothingStranded)'
        BY <1>g, <2>7 DEF WorkerDies, FreeSlot, requests, redis, replay
    <2>8. ASSUME NEW s \in Slots, WorkerShutdown(s) PROVE (Settled /\ NothingStranded)'
        BY <1>g, <2>8 DEF WorkerShutdown, FreeSlot, requests, replay
    <2>9. QED
        BY <1>2, <2>1, <2>2, <2>3, <2>4, <2>5, <2>6, <2>7, <2>8 DEF WorkerNext
<1>3. CASE RedisNext
    <2>1. ASSUME NEW e \in Events, ResultExpires(e) PROVE (Settled /\ NothingStranded)'
        BY <1>g, <2>1 DEF ResultExpires, requests, workers, replay
    <2>2. ASSUME NEW e \in Events, LeaseExpires(e) PROVE (Settled /\ NothingStranded)'
        BY <1>g, <2>2 DEF LeaseExpires, requests, workers, replay
    <2>3. ASSUME NEW e \in Events, GiveUp(e) PROVE (Settled /\ NothingStranded)'
        BY <1>g, <2>3 DEF GiveUp, Counted, Leased, Running, OnlyWorkersCrashed, Mishap, FinishJob, requests, workers, replay
    <2>4. CASE RedisLoss
        BY <1>g, <2>4 DEF RedisLoss, Happens, Mishap, OnlyWorkersCrashed, requests, workers, replay
    <2>5. QED
        BY <1>3, <2>1, <2>2, <2>3, <2>4 DEF RedisNext
<1>4. CASE ReplayNext
    <2>1. ASSUME NEW i \in Replays, StartReplay(i) PROVE (Settled /\ NothingStranded)'
        BY <1>g, <2>1 DEF StartReplay, requests, redis, workers
    <2>2. CASE Truncate
        BY <1>g, <2>2 DEF Truncate, Happens, Mishap, OnlyWorkersCrashed, requests, redis, workers
    <2>3. ASSUME NEW S \in SUBSET Rows, SelectEvents(S) PROVE (Settled /\ NothingStranded)'
        BY <1>g, <2>3 DEF SelectEvents, requests, redis, workers
    <2>4. ASSUME NEW e \in Events, ReplayEnqueue(e) PROVE (Settled /\ NothingStranded)'
        BY <1>g, <2>4 DEF ReplayEnqueue, EnqueueJob, requests, workers
    <2>5. ASSUME NEW e \in Events, NEW status \in Returned, ReplayInline(e, status) PROVE (Settled /\ NothingStranded)'
        BY <1>g, <2>5 DEF ReplayInline, SetStatus, Returned, requests, redis, workers
    <2>6. CASE ReplayDone
        BY <1>g, <2>6 DEF ReplayDone, EndReplay, requests, redis, workers
    <2>7. CASE ReplayFails
        BY <1>g, <2>7 DEF ReplayFails, EndReplay, requests, redis, workers
    <2>8. QED
        BY <1>4, <2>1, <2>2, <2>3, <2>4, <2>5, <2>6, <2>7 DEF ReplayNext
<1>5. CASE UNCHANGED vars
    BY <1>g, <1>5 DEF vars, requests, redis, workers, replay
<1>6. QED
    BY <1>1, <1>2, <1>3, <1>4, <1>5 DEF Next

\* Nothing received, nothing queued, nothing running.
LEMMA InitInv == Init => DeliveryInv
<1> SUFFICES ASSUME Init PROVE DeliveryInv
    OBVIOUS
<1> USE NoneAssumption, MaxTriesAssumption DEF Init
<1>1. TypeOK
    BY DEF TypeOK, Mishap
<1>2. Durable /\ HeldRows /\ Leased /\ OneRunner
    BY DEF Durable, HeldRows, Leased, OneRunner
<1>3. Counted
    <2>1. happened["worker_crash"] = 0
        BY DEF Mishap
    <2>2. ASSUME NEW e \in Events
          PROVE  tries[e] <= happened["worker_crash"] + (IF Running(e) THEN 1 ELSE 0)
        <3>1. tries[e] = 0
            OBVIOUS
        <3>2. CASE Running(e)
            BY <2>1, <3>1, <3>2
        <3>3. CASE ~Running(e)
            BY <2>1, <3>1, <3>3
        <3>4. QED
            BY <3>2, <3>3
    <2>3. QED
        BY <2>2 DEF Counted
<1>4. Settled
    BY DEF Settled
<1>5. None # "queued"
    BY DEF Status
<1>6. NothingStranded
    BY <1>5 DEF NothingStranded
<1>7. QED
    BY <1>1, <1>2, <1>3, <1>4, <1>6 DEF DeliveryInv

-----------------------------------------------------------------------------
\* The inductive invariant of the receiver, the queue, the job and the
\* replay tool together.
THEOREM DeliveryInvariant == Spec => []DeliveryInv
<1>1. DeliveryInv /\ [Next]_vars => DeliveryInv'
    BY TypeStep, DurableStep, LeasedStep, CountedStep, SettledStep DEF DeliveryInv
<1>2. QED
    BY InitInv, <1>1, PTL DEF Spec

\* No vendor's 202, no job and no replay ever gets ahead of the raw_events
\* row (receiver.py _ingest inserts before it enqueues and answers).
THEOREM RowsComeFirst == Spec => []Durable
<1>1. DeliveryInv => Durable
    BY DEF DeliveryInv
<1>2. QED
    BY DeliveryInvariant, <1>1, PTL

\* One job id for each event (queue.py enqueue_process) keeps two slots off
\* one event while Redis keeps its data.
THEOREM NoTwoRunners == Spec => []OneRunner
<1>1. DeliveryInv => OneRunner
    BY DEF DeliveryInv
<1>2. QED
    BY DeliveryInvariant, <1>1, PTL

\* At-least-once delivery under fewer worker crashes than max_tries
\* (processor.py WorkerSettings): no accepted event is stranded.
THEOREM AtLeastOnce == Spec => []NothingStranded
<1>1. DeliveryInv => NothingStranded
    BY DEF DeliveryInv
<1>2. QED
    BY DeliveryInvariant, <1>1, PTL

\* Type correctness of the delivery side.
THEOREM DeliveryTypes == Spec => []TypeOK
<1>1. DeliveryInv => TypeOK
    BY DEF DeliveryInv
<1>2. QED
    BY DeliveryInvariant, <1>1, PTL

=============================================================================
