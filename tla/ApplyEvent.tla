----------------------------- MODULE ApplyEvent -----------------------------
(***************************************************************************)
(* The write side of the worker: the transaction of _finalize              *)
(* (workers/pipeline.py) around apply_event (domain/state_machine.py), the *)
(* status updates of the attempts that end without one, and the truncation *)
(* of tools/replay.py, run by any number of workers against one Postgres.  *)
(*                                                                         *)
(* Each action is one SQL statement of one worker, under READ COMMITTED: a *)
(* statement sees what was committed when it starts and what its own       *)
(* transaction wrote; it waits for the locks of other transactions (see    *)
(* Blockers). What a transaction wrote is installed by its commit. A       *)
(* worker may be interrupted before any statement, by an exception (the    *)
(* transaction rolls back and process_webhook marks the event failed) or   *)
(* by the loss of its process, its connection or its time slot (the        *)
(* transaction rolls back and nothing else happens).                       *)
(*                                                                         *)
(* Which canonical event an attempt extracts is left open: any member of   *)
(* Readings, a different one at each attempt if need be. Statements that   *)
(* only end a transaction (the raw_events UPDATE and the COMMIT after it)  *)
(* are one action: nothing can be observed between them but a row lock.    *)
(***************************************************************************)
EXTENDS Projections

CONSTANTS
    Workers,     \* arq jobs running at the same time, in any process
    Unreadable,  \* events for which an attempt may end without a canonical event
    Truncator    \* the one operator running replay --truncate-projections

ASSUME UnreadableAssumption == Unreadable \subseteq Events

ASSUME TruncatorAssumption == Truncator \notin Workers

VARIABLES
    (* one transaction per worker *)
    pc,          \* the next statement of the worker
    event,       \* the event of its job, NoRow when idle
    canonical,   \* the canonical event being finalised, or NoRow
    locks,       \* tables its transaction has locked (ROW EXCLUSIVE or weaker)
    wrote,       \* tables its transaction has inserted a row in
    row_lock,    \* whether it has locked the projection row of its entity
    existing,    \* the projection row SELECT ... FOR UPDATE returned, or NoRow
    new_row,         \* the projection row it wrote, or NoRow
    outcome,     \* the ApplyOutcome, "none" until known
    (* the truncation: 0 when none runs, else the position in              *)
    (* TRUNCATE_TABLES of the table it is waiting to lock                  *)
    trunc

transaction == <<pc, event, canonical, locks, wrote, row_lock, existing, new_row, outcome>>

vars == <<tables, transaction, trunc>>

-----------------------------------------------------------------------------
\* The statements of the _finalize transaction, in the order of the code.
InTransaction == {"entity_select", "entity_insert", "entity_reselect", "applied_insert",
                  "projection_insert", "for_update", "decide", "mark_processed"}

Statement == InTransaction \cup
    {"idle", "canonical_upsert", "mark_review", "mark_pending_llm",
     "assertion_failed", "mark_failed"}

ApplyOutcome == {"applied_initial", "applied", "already_applied", "stale_skipped",
                 "transition_rejected", "unclassified_recorded"}

\* A bug to be caught: the tables listed parents first.
TRUNCATE_TABLES_ParentsFirst ==
    <<"entities", "invoices", "shipments", "applied_events", "stale_event_log",
      "canonical_events", "requires_human_review">>

\* The tables of the TRUNCATE statement, locked in the order they are listed.
TRUNCATE_TABLES == <<"requires_human_review", "canonical_events", "stale_event_log",
                     "applied_events", "shipments", "invoices", "entities">>

Table == {"requires_human_review", "canonical_events", "stale_event_log",
          "applied_events", "shipments", "invoices", "entities"}

ProjectionTable(c) == IF c.classification = "shipment" THEN "shipments" ELSE "invoices"

EntityOfWorker(w) == EntityOf(canonical[w])

SameEntity(v, w) ==
    /\ canonical[v] \in ClassifiedEvent /\ canonical[w] \in ClassifiedEvent
    /\ EntityOfWorker(v) = EntityOfWorker(w)

\* What the statement after FOR UPDATE will be: the two guards of the code,
\* on the row that was read.
Decision(w) ==
    IF IsStale(existing[w], canonical[w]) THEN "stale_skipped"
    ELSE IF ~IsAllowed(existing[w], canonical[w]) THEN "transition_rejected"
    ELSE "applied"

\* The truncated table that w's next statement has to lock.
Needs(w, t) ==
    \/ pc[w] = "canonical_upsert" /\ t = "canonical_events"
    \/ pc[w] \in {"entity_select", "entity_insert", "entity_reselect"} /\ t = "entities"
    \/ pc[w] = "applied_insert" /\ t = "applied_events"
    \/ pc[w] \in {"projection_insert", "for_update"} /\ t = ProjectionTable(canonical[w])
    \/ pc[w] = "decide" /\ t = IF Decision(w) = "applied" THEN ProjectionTable(canonical[w])
                                                         ELSE "stale_event_log"
    \/ pc[w] = "mark_review" /\ t = "requires_human_review"

TableOf(w) == {t \in Table : Needs(w, t)}

-----------------------------------------------------------------------------
(* Postgres: who waits for whom. *)

\* v holds the row, or the uncommitted unique-index entry, that w's next
\* statement conflicts with.
RowConflict(w, v) ==
    \/ /\ pc[w] = "canonical_upsert"
       /\ pc[v] \in InTransaction /\ event[v] = event[w]
    \/ /\ pc[w] = "entity_insert"
       /\ SameEntity(v, w) /\ "entities" \in wrote[v]
    \/ /\ pc[w] = "applied_insert"
       /\ SameEntity(v, w) /\ event[v] = event[w] /\ "applied_events" \in wrote[v]
    \/ /\ pc[w] = "projection_insert"
       /\ SameEntity(v, w) /\ ProjectionTable(canonical[v]) \in wrote[v]
    \/ /\ pc[w] = "for_update" \/ (pc[w] = "decide" /\ Decision(w) = "applied")
       /\ SameEntity(v, w) /\ row_lock[v]

\* The tables TRUNCATE has locked, or stands first in the queue for.
TruncateClaims == {TRUNCATE_TABLES[i] : i \in {j \in 1..Len(TRUNCATE_TABLES) : j <= trunc}}

Blockers(a) ==
    IF a = Truncator
    THEN {v \in Workers : /\ trunc \in 1..Len(TRUNCATE_TABLES)
                          /\ TRUNCATE_TABLES[trunc] \in locks[v]}
    ELSE {v \in Workers \ {a} : RowConflict(a, v)} \cup
         {t \in {Truncator} : (TableOf(a) \ locks[a]) \cap TruncateClaims # {}}

-----------------------------------------------------------------------------
Init ==
    /\ TablesInit
    /\ pc = [w \in Workers |-> "idle"]
    /\ event = [w \in Workers |-> NoRow]
    /\ canonical = [w \in Workers |-> NoRow]
    /\ locks = [w \in Workers |-> {}]
    /\ wrote = [w \in Workers |-> {}]
    /\ row_lock = [w \in Workers |-> FALSE]
    /\ existing = [w \in Workers |-> NoRow]
    /\ new_row = [w \in Workers |-> NoRow]
    /\ outcome = [w \in Workers |-> "none"]
    /\ trunc = 0

\* The end of w's attempt or of its transaction: everything it held is gone.
Release(w, next) ==
    /\ pc' = [pc EXCEPT ![w] = next]
    /\ event' = [event EXCEPT ![w] = IF next = "idle" THEN NoRow ELSE @]
    /\ canonical' = [canonical EXCEPT ![w] = NoRow]
    /\ locks' = [locks EXCEPT ![w] = {}]
    /\ wrote' = [wrote EXCEPT ![w] = {}]
    /\ row_lock' = [row_lock EXCEPT ![w] = FALSE]
    /\ existing' = [existing EXCEPT ![w] = NoRow]
    /\ new_row' = [new_row EXCEPT ![w] = NoRow]
    /\ outcome' = [outcome EXCEPT ![w] = "none"]
    /\ UNCHANGED trunc

\* w executes its next statement and goes on to statement `next'. Inserting
\* is shown by `inserts', the tables the statement wrote a new row in.
Execute(w, from, inserts, next) ==
    /\ pc[w] = from
    /\ Blockers(w) = {}
    /\ pc' = [pc EXCEPT ![w] = next]
    /\ locks' = [locks EXCEPT ![w] = @ \cup TableOf(w)]
    /\ wrote' = [wrote EXCEPT ![w] = @ \cup inserts]
    /\ UNCHANGED <<tables, event, canonical, trunc>>

-----------------------------------------------------------------------------
(* The attempt: process_event has fetched the raw event and knows how the  *)
(* attempt ends.                                                           *)

StartFinalize(w, c) ==
    /\ pc[w] = "idle"
    /\ pc' = [pc EXCEPT ![w] = "canonical_upsert"]
    /\ event' = [event EXCEPT ![w] = c.event_id]
    /\ canonical' = [canonical EXCEPT ![w] = c]
    /\ UNCHANGED <<tables, locks, wrote, row_lock, existing, new_row, outcome, trunc>>

\* No canonical event: to a human, to later, or an exception.
StartOther(w, e, statement) ==
    /\ pc[w] = "idle"
    /\ pc' = [pc EXCEPT ![w] = statement]
    /\ event' = [event EXCEPT ![w] = e]
    /\ UNCHANGED <<tables, canonical, locks, wrote, row_lock, existing, new_row, outcome, trunc>>

-----------------------------------------------------------------------------
(* _finalize and apply_event, statement by statement. *)

\* A bug to be caught: the upsert committed by itself, before apply_event.
UpsertCanonicalEvent_Autocommit(w) ==
    /\ pc[w] = "canonical_upsert" /\ Blockers(w) = {}
    /\ pc' = [pc EXCEPT ![w] = IF canonical[w] \in CanonicalUnclassifiedEvent
                               THEN "mark_processed" ELSE "entity_select"]
    /\ canonical_events' = [canonical_events EXCEPT ![event[w]] = canonical[w]]
    /\ UNCHANGED <<entities, applied_events, projection, stale_event_log, requires_human_review,
                   processing_status, event, canonical, locks, wrote, row_lock, existing,
                   new_row, outcome, trunc>>

\* INSERT INTO canonical_events ... ON CONFLICT (event_id) DO UPDATE
UpsertCanonicalEvent(w) ==
    LET unclassified == canonical[w] \in CanonicalUnclassifiedEvent IN
    /\ Execute(w, "canonical_upsert", {},
               IF unclassified THEN "mark_processed" ELSE "entity_select")
    /\ outcome' = [outcome EXCEPT ![w] = IF unclassified THEN "unclassified_recorded" ELSE @]
    /\ UNCHANGED <<row_lock, existing, new_row>>

\* SELECT id FROM entities
SelectEntity(w) ==
    /\ Execute(w, "entity_select", {},
               IF EntityOfWorker(w) \in entities THEN "applied_insert" ELSE "entity_insert")
    /\ UNCHANGED <<row_lock, existing, new_row, outcome>>

\* INSERT INTO entities ... ON CONFLICT DO NOTHING RETURNING id
InsertEntity(w) ==
    LET conflict == EntityOfWorker(w) \in entities IN
    /\ Execute(w, "entity_insert", IF conflict THEN {} ELSE {"entities"},
               IF conflict THEN "entity_reselect" ELSE "applied_insert")
    /\ UNCHANGED <<row_lock, existing, new_row, outcome>>

\* Read again after a lost race; assert row is not None.
ReselectEntity(w) ==
    /\ Execute(w, "entity_reselect", {},
               IF EntityOfWorker(w) \in entities THEN "applied_insert" ELSE "assertion_failed")
    /\ UNCHANGED <<row_lock, existing, new_row, outcome>>

\* A bug to be caught: the result of the idempotency guard not looked at.
InsertApplied_Unchecked(w) ==
    /\ Execute(w, "applied_insert", {"applied_events"}, "projection_insert")
    /\ UNCHANGED <<row_lock, existing, new_row, outcome>>

\* INSERT INTO applied_events ... ON CONFLICT DO NOTHING RETURNING entity_id
InsertApplied(w) ==
    LET conflict == event[w] \in applied_events[EntityOfWorker(w)] IN
    /\ Execute(w, "applied_insert", IF conflict THEN {} ELSE {"applied_events"},
               IF conflict THEN "mark_processed" ELSE "projection_insert")
    /\ outcome' = [outcome EXCEPT ![w] = IF conflict THEN "already_applied" ELSE @]
    /\ UNCHANGED <<row_lock, existing, new_row>>

\* INSERT INTO shipments / invoices ... ON CONFLICT (entity_id) DO NOTHING
\* RETURNING entity_id. A committed row is a conflict even while another
\* transaction has it locked.
InsertProjection(w) ==
    LET conflict == projection[EntityOfWorker(w)] # NoRow IN
    /\ Execute(w, "projection_insert",
               IF conflict THEN {} ELSE {ProjectionTable(canonical[w])},
               IF conflict THEN "for_update" ELSE "mark_processed")
    /\ new_row' = [new_row EXCEPT ![w] = IF conflict THEN @ ELSE InitialRow(canonical[w])]
    /\ row_lock' = [row_lock EXCEPT ![w] = ~conflict]
    /\ outcome' = [outcome EXCEPT ![w] = IF conflict THEN @ ELSE "applied_initial"]
    /\ UNCHANGED existing

\* Bugs to be caught: the row read without FOR UPDATE, or with SKIP LOCKED.
SelectForUpdate_Plain(w) ==
    /\ pc[w] = "for_update"
    /\ pc' = [pc EXCEPT ![w] = "decide"]
    /\ existing' = [existing EXCEPT ![w] = projection[EntityOfWorker(w)]]
    /\ UNCHANGED <<tables, event, canonical, locks, wrote, row_lock, new_row, outcome, trunc>>

SelectForUpdate_SkipLocked(w) ==
    LET found == projection[EntityOfWorker(w)] # NoRow /\ Blockers(w) = {} IN
    /\ pc[w] = "for_update"
    /\ pc' = [pc EXCEPT ![w] = IF found THEN "decide" ELSE "assertion_failed"]
    /\ existing' = [existing EXCEPT ![w] = IF found THEN projection[EntityOfWorker(w)] ELSE NoRow]
    /\ row_lock' = [row_lock EXCEPT ![w] = found]
    /\ UNCHANGED <<tables, event, canonical, locks, wrote, new_row, outcome, trunc>>

\* SELECT ... FOR UPDATE; assert existing is not None.
SelectForUpdate(w) ==
    /\ Execute(w, "for_update", {},
               IF projection[EntityOfWorker(w)] # NoRow THEN "decide" ELSE "assertion_failed")
    /\ existing' = [existing EXCEPT ![w] = projection[EntityOfWorker(w)]]
    /\ row_lock' = [row_lock EXCEPT ![w] = TRUE]
    /\ UNCHANGED <<new_row, outcome>>

\* INSERT INTO stale_event_log, for the reason Decision gives.
LogStale(w) ==
    /\ pc[w] = "decide" /\ Decision(w) # "applied"
    /\ Execute(w, "decide", {"stale_event_log"}, "mark_processed")
    /\ outcome' = [outcome EXCEPT ![w] = Decision(w)]
    /\ UNCHANGED <<row_lock, existing, new_row>>

\* UPDATE ... WHERE entity_id = ... AND version = existing.version. The
\* number of rows it touched is not looked at.
UpdateProjection(w) ==
    LET current == projection[EntityOfWorker(w)] IN
    /\ pc[w] = "decide" /\ Decision(w) = "applied"
    /\ Execute(w, "decide", {}, "mark_processed")
    /\ new_row' = [new_row EXCEPT ![w] = IF current # NoRow /\ current.version = existing[w].version
                                 THEN UpdatedRow(current, canonical[w]) ELSE @]
    /\ row_lock' = [row_lock EXCEPT ![w] = TRUE]
    /\ outcome' = [outcome EXCEPT ![w] = "applied"]
    /\ UNCHANGED existing

\* UPDATE raw_events SET processing_status = 'processed', and COMMIT: what
\* the transaction wrote becomes visible.
CommitProcessed(w) ==
    LET c == canonical[w]
        n == EntityOf(c) IN
    /\ pc[w] = "mark_processed"
    /\ canonical_events' = [canonical_events EXCEPT ![event[w]] = c]
    /\ processing_status' = [processing_status EXCEPT ![event[w]] = "processed"]
    /\ entities' = IF "entities" \in wrote[w] THEN entities \cup {n} ELSE entities
    /\ applied_events' = IF "applied_events" \in wrote[w]
                         THEN [applied_events EXCEPT ![n] = @ \cup {event[w]}]
                         ELSE applied_events
    /\ projection' = IF new_row[w] # NoRow THEN [projection EXCEPT ![n] = new_row[w]] ELSE projection
    /\ stale_event_log' =
         IF "stale_event_log" \in wrote[w]
         THEN [stale_event_log EXCEPT ![n] = Append(@,
                 [event_id |-> event[w],
                  reason |-> IF outcome[w] = "stale_skipped" THEN "older_than_last_applied"
                                                             ELSE "disallowed_transition"])]
         ELSE stale_event_log
    /\ Release(w, "idle")
    /\ UNCHANGED requires_human_review

-----------------------------------------------------------------------------
(* The attempts that end otherwise: one small transaction each. *)

MarkReview(w) ==
    /\ pc[w] = "mark_review"
    /\ Blockers(w) = {}
    /\ requires_human_review' = requires_human_review \cup {event[w]}
    /\ processing_status' = [processing_status EXCEPT ![event[w]] = "review"]
    /\ Release(w, "idle")
    /\ UNCHANGED <<canonical_events, entities, applied_events, projection, stale_event_log>>

MarkStatus(w, statement, s) ==
    /\ pc[w] = statement
    /\ processing_status' = [processing_status EXCEPT ![event[w]] = s]
    /\ Release(w, "idle")
    /\ UNCHANGED <<canonical_events, entities, applied_events, projection,
                   stale_event_log, requires_human_review>>

MarkPendingLlm(w) == MarkStatus(w, "mark_pending_llm", "pending_llm")

\* process_webhook's except clause.
MarkFailed(w) == MarkStatus(w, "mark_failed", "failed")

\* A statement, an assertion or the connection fails: the transaction rolls
\* back and the except clause takes over.
Raise(w) ==
    /\ pc[w] \in InTransaction \cup {"canonical_upsert", "assertion_failed",
                                    "mark_review", "mark_pending_llm"}
    /\ Release(w, "mark_failed")
    /\ UNCHANGED tables

\* The worker process dies, or arq cancels the job at job_timeout (which is
\* no Exception): the transaction rolls back and the status stays.
Crash(w) ==
    /\ pc[w] # "idle"
    /\ Release(w, "idle")
    /\ UNCHANGED tables

-----------------------------------------------------------------------------
(* replay.truncate *)

TruncateStart ==
    /\ trunc = 0
    /\ trunc' = 1
    /\ UNCHANGED <<tables, transaction>>

\* A bug to be caught: rows deleted without a lock that keeps workers out.
TruncateLock_NoWait ==
    /\ trunc \in 1..Len(TRUNCATE_TABLES)
    /\ trunc' = trunc + 1
    /\ UNCHANGED <<tables, transaction>>

\* TRUNCATE gets ACCESS EXCLUSIVE on the table it waits for.
TruncateLock ==
    /\ trunc \in 1..Len(TRUNCATE_TABLES)
    /\ Blockers(Truncator) = {}
    /\ trunc' = trunc + 1
    /\ UNCHANGED <<tables, transaction>>

\* A bug to be caught: a table missing from the list.
TruncateCommit_KeepEntities ==
    /\ trunc = Len(TRUNCATE_TABLES) + 1
    /\ canonical_events' = [e \in Events |-> NoRow]
    /\ applied_events' = [n \in Entity |-> {}]
    /\ projection' = [n \in Entity |-> NoRow]
    /\ stale_event_log' = [n \in Entity |-> <<>>]
    /\ requires_human_review' = {}
    /\ processing_status' = [e \in Events |-> "queued"]
    /\ trunc' = 0
    /\ UNCHANGED <<entities, transaction>>

\* The tables are emptied, raw_events is reset, COMMIT.
TruncateCommit ==
    /\ trunc = Len(TRUNCATE_TABLES) + 1
    /\ canonical_events' = [e \in Events |-> NoRow]
    /\ entities' = {}
    /\ applied_events' = [n \in Entity |-> {}]
    /\ projection' = [n \in Entity |-> NoRow]
    /\ stale_event_log' = [n \in Entity |-> <<>>]
    /\ requires_human_review' = {}
    /\ processing_status' = [e \in Events |-> "queued"]
    /\ trunc' = 0
    /\ UNCHANGED transaction

\* The tool is stopped: its transaction rolls back.
TruncateAbort ==
    /\ trunc # 0
    /\ trunc' = 0
    /\ UNCHANGED <<tables, transaction>>

-----------------------------------------------------------------------------
\* What the worker does of its own accord.
Step(w) ==
    \/ UpsertCanonicalEvent(w)
    \/ SelectEntity(w)
    \/ InsertEntity(w)
    \/ ReselectEntity(w)
    \/ InsertApplied(w)
    \/ InsertProjection(w)
    \/ SelectForUpdate(w)
    \/ LogStale(w)
    \/ UpdateProjection(w)
    \/ CommitProcessed(w)
    \/ MarkReview(w)
    \/ MarkPendingLlm(w)
    \/ MarkFailed(w)

Start(w) ==
    \/ \E c \in Readings : StartFinalize(w, c)
    \/ \E e \in Unreadable, s \in {"mark_review", "mark_pending_llm", "mark_failed"} :
           StartOther(w, e, s)

Next ==
    \/ \E w \in Workers : Start(w) \/ Step(w) \/ Raise(w) \/ Crash(w)
    \/ TruncateStart \/ TruncateLock \/ TruncateCommit \/ TruncateAbort

Spec == Init /\ [][Next]_vars

\* Whoever waits for a lock gets it in the end: Postgres queues lock waiters
\* and detects no deadlock here (NoWaitCycle), and a worker or the truncation
\* that may run its next statement does so. A worker may be starved of a lock
\* for a while but not for ever, hence strong fairness. Nobody is bound to
\* start, to fail or to crash.
Fairness ==
    /\ \A w \in Workers : SF_vars(Step(w))
    /\ SF_vars(TruncateLock)
    /\ WF_vars(TruncateCommit)

FairSpec == Spec /\ Fairness

-----------------------------------------------------------------------------
TransactionTypeOK ==
    /\ pc \in [Workers -> Statement]
    /\ event \in [Workers -> Events \cup {NoRow}]
    /\ canonical \in [Workers -> CanonicalEvent \cup {NoRow}]
    /\ locks \in [Workers -> SUBSET Table]
    /\ wrote \in [Workers -> SUBSET Table]
    /\ row_lock \in [Workers -> BOOLEAN]
    /\ existing \in [Workers -> Row \cup {NoRow}]
    /\ new_row \in [Workers -> Row \cup {NoRow}]
    /\ outcome \in [Workers -> ApplyOutcome \cup {"none"}]
    /\ trunc \in 0..Len(TRUNCATE_TABLES) + 1

TypeOK == TablesTypeOK /\ TransactionTypeOK

\* The two asserts of state_machine.py never fail: a worker that lost the
\* race to create an entity, or its projection row, finds the row of the
\* winner when it looks again.
NoAssertionFails == \A w \in Workers : pc[w] # "assertion_failed"

\* No deadlock: there is no set of workers and truncation each of which
\* waits for another one of the set. Every _finalize transaction locks
\* canonical_events first, then one event, one entity and its projection row
\* in that order, and TRUNCATE queues for canonical_events before any other
\* table the transaction uses.
NoWaitCycle ==
    \A S \in (SUBSET (Workers \cup {Truncator})) \ {{}} :
        \E a \in S : Blockers(a) \cap S = {}

\* The concurrent transactions implement the serial specification: whatever
\* the interleaving of their statements, crashes and truncations, the
\* committed tables change as if each attempt ran alone at its commit.
Serializable == SerialSpec

\* Every attempt ends, and so does every truncation: no worker waits for
\* ever behind other workers or behind TRUNCATE, nor TRUNCATE behind them.
EveryAttemptEnds ==
    /\ \A w \in Workers : (pc[w] # "idle") ~> (pc[w] = "idle")
    /\ (trunc # 0) ~> (trunc = 0)

-----------------------------------------------------------------------------
(* What holds in the middle of the transactions. *)

\* The statements of apply_event that follow _get_or_create_entity, or run in it.
Applying == InTransaction \ {"mark_processed"}

\* Who is where: an attempt has an event, a transaction has a reading of that
\* event and holds canonical_events; outside of it nothing is held.
AttemptInv(w) ==
    /\ pc[w] # "idle" => event[w] \in Events
    /\ pc[w] \in InTransaction \cup {"canonical_upsert"} =>
          canonical[w] \in Readings /\ canonical[w].event_id = event[w]
    /\ pc[w] \in InTransaction =>
          "canonical_events" \in locks[w] /\ trunc <= 2
    /\ pc[w] \in Applying => canonical[w] \in ClassifiedEvent /\ outcome[w] = "none"
    /\ pc[w] \notin InTransaction =>
          /\ locks[w] = {} /\ wrote[w] = {} /\ ~row_lock[w]
          /\ existing[w] = NoRow /\ new_row[w] = NoRow /\ outcome[w] = "none"

\* What w has written so far is not in the committed tables, and what it has
\* found there is there still.
ReadsStayTrue(w) ==
    LET n == EntityOfWorker(w)
        c == canonical[w] IN
    /\ "entities" \in wrote[w] => n \notin entities
    /\ "applied_events" \in wrote[w] => event[w] \notin applied_events[n]
    /\ pc[w] \in {"entity_select", "entity_insert", "entity_reselect"} => wrote[w] = {}
    /\ pc[w] = "entity_reselect" => n \in entities
    /\ pc[w] \in {"applied_insert", "projection_insert", "for_update", "decide"} =>
          n \in entities \/ "entities" \in wrote[w]
    /\ pc[w] = "applied_insert" => wrote[w] \subseteq {"entities"}
    /\ pc[w] = "projection_insert" => wrote[w] \cup {"entities"} = {"entities", "applied_events"}
    /\ pc[w] \in {"for_update", "decide"} =>
          wrote[w] = {"applied_events"} /\ projection[n] # NoRow
    /\ pc[w] \in Applying \ {"decide"} => ~row_lock[w] /\ existing[w] = NoRow
    /\ pc[w] \in Applying => new_row[w] = NoRow
    /\ pc[w] = "decide" => row_lock[w] /\ existing[w] = projection[n]

\* The outcome a transaction is about to commit is the one the state machine
\* gives on the committed row of that moment.
OutcomeStaysTrue(w) ==
    LET n == EntityOfWorker(w)
        c == canonical[w] IN
    /\ "applied_events" \in wrote[w] => event[w] \notin applied_events[n]
    /\ \/ /\ outcome[w] = "unclassified_recorded" /\ c \in CanonicalUnclassifiedEvent
          /\ wrote[w] = {} /\ new_row[w] = NoRow /\ ~row_lock[w]
       \/ /\ outcome[w] = "already_applied" /\ c \in ClassifiedEvent
          /\ event[w] \in applied_events[n]
          /\ wrote[w] = {} /\ new_row[w] = NoRow /\ ~row_lock[w]
       \/ /\ outcome[w] = "applied_initial" /\ c \in ClassifiedEvent
          /\ projection[n] = NoRow /\ new_row[w] = InitialRow(c) /\ row_lock[w]
          /\ wrote[w] = {"entities", "applied_events", ProjectionTable(c)}
       \/ /\ outcome[w] = "applied" /\ c \in ClassifiedEvent /\ projection[n] # NoRow
          /\ existing[w] = projection[n] /\ Decision(w) = "applied" /\ row_lock[w]
          /\ new_row[w] = UpdatedRow(projection[n], c)
          /\ wrote[w] = {"applied_events"}
       \/ /\ outcome[w] \in {"stale_skipped", "transition_rejected"}
          /\ c \in ClassifiedEvent /\ projection[n] # NoRow
          /\ existing[w] = projection[n] /\ Decision(w) = outcome[w] /\ row_lock[w]
          /\ new_row[w] = NoRow
          /\ wrote[w] = {"applied_events", "stale_event_log"}

WorkerInv(w) ==
    /\ pc[w] # "assertion_failed"
    /\ AttemptInv(w)
    /\ pc[w] \in Applying => ReadsStayTrue(w)
    /\ pc[w] = "mark_processed" => OutcomeStaysTrue(w)

\* Two transactions never share an event, the creation of an entity, or a
\* projection row.
Exclusion(v, w) ==
    pc[v] \in InTransaction /\ pc[w] \in InTransaction =>
       /\ event[v] # event[w]
       /\ SameEntity(v, w) => /\ ~("entities" \in wrote[v] /\ "entities" \in wrote[w])
                              /\ ~(row_lock[v] /\ row_lock[w])

\* Between its statements a transaction relies on what it read before: the
\* entity id, the applied_events insert, the row of FOR UPDATE. None of it is
\* ever invalidated by another worker or by the truncation before the commit.
TransactionInv ==
    /\ \A w \in Workers : WorkerInv(w)
    /\ \A v, w \in Workers : v # w => Exclusion(v, w)

=============================================================================
