-------------------------- MODULE ApplyEvent_proofs --------------------------
(***************************************************************************)
(* The concurrent transactions implement the serial specification, for any *)
(* number of workers, events, keys, timestamps and readings.               *)
(*                                                                         *)
(* The inductive invariant joins the serial invariant of the committed     *)
(* tables with TransactionInv, which says that nothing a transaction has   *)
(* read or written is invalidated before its commit. A step is first shown *)
(* to be a serial step or to leave the tables alone (RefinementStep); that *)
(* gives the serial invariant of the next state, which TransactionInv's    *)
(* own preservation uses.                                                  *)
(***************************************************************************)
EXTENDS ApplyEvent, Projections_proofs

ConcurrentInv == SerialInv /\ TransactionTypeOK /\ TransactionInv

-----------------------------------------------------------------------------
\* The list of the TRUNCATE statement, position by position.
LEMMA TruncateTables ==
    /\ Len(TRUNCATE_TABLES) = 7
    /\ TRUNCATE_TABLES[2] = "canonical_events"
    /\ \A i \in 1..7 : TRUNCATE_TABLES[i] \in Table
BY DEF TRUNCATE_TABLES, Table

\* Nobody has begun: the invariant holds of the empty database.
LEMMA ConcurrentInit == Init => ConcurrentInv
<1> SUFFICES ASSUME Init PROVE ConcurrentInv
  OBVIOUS
<1>1. SerialInv
  BY SerialInitInv DEF Init, SerialInit
<1>2. TransactionTypeOK
  BY TruncateTables DEF Init, TransactionTypeOK, Statement
<1>3. TransactionInv
  BY DEF Init, TransactionInv, WorkerInv, AttemptInv, Exclusion, InTransaction, Applying
<1> QED  BY <1>1, <1>2, <1>3 DEF ConcurrentInv

-----------------------------------------------------------------------------
(* Types *)

\* Ending an attempt or a transaction resets the local state of the worker.
LEMMA ReleaseType ==
    ASSUME TransactionTypeOK, NEW w \in Workers, NEW next \in Statement, Release(w, next)
    PROVE  TransactionTypeOK'
BY DEF TransactionTypeOK, Release

\* A statement that goes on within the transaction keeps the types of what
\* every statement changes.
LEMMA ExecuteType ==
    ASSUME TransactionTypeOK, NEW w \in Workers, NEW from, NEW inserts \in SUBSET Table,
           NEW next \in Statement, Execute(w, from, inserts, next)
    PROVE  /\ pc' \in [Workers -> Statement]
           /\ event' \in [Workers -> Events \cup {NoRow}]
           /\ canonical' \in [Workers -> CanonicalEvent \cup {NoRow}]
           /\ locks' \in [Workers -> SUBSET Table]
           /\ wrote' \in [Workers -> SUBSET Table]
           /\ trunc' \in 0..Len(TRUNCATE_TABLES) + 1
<1>1. TableOf(w) \in SUBSET Table
  BY DEF TableOf
<1> QED  BY <1>1 DEF TransactionTypeOK, Execute

\* Every action keeps the types of the local state.
LEMMA TypeStep ==
    ASSUME ConcurrentInv, [Next]_vars
    PROVE  TransactionTypeOK'
<1> USE DEF ConcurrentInv
<1>1. ASSUME NEW w \in Workers, Start(w) PROVE TransactionTypeOK'
  <2>1. ASSUME NEW c \in Readings, StartFinalize(w, c) PROVE TransactionTypeOK'
    BY <2>1, ReadingsAssumption, CanonicalType DEF StartFinalize, TransactionTypeOK, Statement
  <2>2. ASSUME NEW e \in Unreadable, NEW s \in {"mark_review", "mark_pending_llm", "mark_failed"},
               StartOther(w, e, s)
        PROVE  TransactionTypeOK'
    BY <2>2, UnreadableAssumption DEF StartOther, TransactionTypeOK, Statement
  <2> QED  BY <1>1, <2>1, <2>2 DEF Start
<1>2. ASSUME NEW w \in Workers, Step(w) PROVE TransactionTypeOK'
  <2> USE DEF Statement, InTransaction
  <2> DEFINE n == EntityOfWorker(w)
  <2>1. CASE UpsertCanonicalEvent(w)
    BY <2>1, ExecuteType DEF UpsertCanonicalEvent, TransactionTypeOK, ApplyOutcome
  <2>2. CASE SelectEntity(w)
    BY <2>2, ExecuteType DEF SelectEntity, TransactionTypeOK
  <2>3. CASE InsertEntity(w)
    BY <2>3, ExecuteType DEF InsertEntity, TransactionTypeOK, Table
  <2>4. CASE ReselectEntity(w)
    BY <2>4, ExecuteType DEF ReselectEntity, TransactionTypeOK
  <2>5. CASE InsertApplied(w)
    BY <2>5, ExecuteType DEF InsertApplied, TransactionTypeOK, Table, ApplyOutcome
  <2>6. ASSUME pc[w] \in Applying
        PROVE  /\ canonical[w] \in ClassifiedEvent /\ n \in Entity
               /\ projection[n] \in Row \cup {NoRow}
               /\ ProjectionTable(canonical[w]) \in Table
    BY <2>6, ClassifiedType DEF TransactionInv, WorkerInv, AttemptInv, EntityOfWorker,
       SerialInv, TablesTypeOK, ProjectionTable, Table
  <2>7. CASE InsertProjection(w)
    <3>1. pc[w] \in Applying
      BY <2>7 DEF InsertProjection, Execute, Applying
    <3>2. InitialRow(canonical[w]) \in Row
      BY <3>1, <2>6, RowType
    <3>3. {ProjectionTable(canonical[w])} \in SUBSET Table
      BY <3>1, <2>6
    <3> QED  BY <2>7, <3>2, <3>3, ExecuteType DEF InsertProjection, TransactionTypeOK, ApplyOutcome
  <2>8. CASE SelectForUpdate(w)
    <3>1. pc[w] \in Applying
      BY <2>8 DEF SelectForUpdate, Execute, Applying
    <3> QED  BY <2>8, <3>1, <2>6, ExecuteType DEF SelectForUpdate, TransactionTypeOK
  <2>9. CASE LogStale(w)
    BY <2>9, ExecuteType DEF LogStale, TransactionTypeOK, Decision, ApplyOutcome, Table
  <2>10. CASE UpdateProjection(w)
    <3>1. pc[w] \in Applying
      BY <2>10 DEF UpdateProjection, Applying
    <3>2. \A r \in Row : UpdatedRow(r, canonical[w]) \in Row
      BY <3>1, <2>6, RowType
    <3> QED  BY <2>10, <3>1, <3>2, <2>6, ExecuteType
             DEF UpdateProjection, TransactionTypeOK, ApplyOutcome
  <2>11. CASE CommitProcessed(w) \/ MarkReview(w) \/ MarkPendingLlm(w) \/ MarkFailed(w)
    BY <2>11, ReleaseType DEF CommitProcessed, MarkReview, MarkPendingLlm, MarkFailed, MarkStatus
  <2> QED  BY <1>2, <2>1, <2>2, <2>3, <2>4, <2>5, <2>7, <2>8, <2>9, <2>10, <2>11 DEF Step
<1>3. ASSUME NEW w \in Workers, Raise(w) \/ Crash(w) PROVE TransactionTypeOK'
  BY <1>3, ReleaseType DEF Raise, Crash, Statement
<1>4. CASE TruncateStart \/ TruncateLock \/ TruncateCommit \/ TruncateAbort
  BY <1>4, TruncateTables DEF TruncateStart, TruncateLock, TruncateCommit, TruncateAbort,
     transaction, TransactionTypeOK
<1>5. CASE UNCHANGED vars
  BY <1>5 DEF vars, transaction, TransactionTypeOK
<1> QED  BY <1>1, <1>2, <1>3, <1>4, <1>5 DEF Next

-----------------------------------------------------------------------------
(* Refinement *)

\* The commit of a transaction is the serial processing of its event on the
\* committed tables of that moment.
LEMMA CommitRefines ==
    ASSUME ConcurrentInv, NEW w \in Workers, CommitProcessed(w)
    PROVE  canonical[w] \in Readings /\ Process(canonical[w])
<1> DEFINE c == canonical[w]
           n == EntityOf(c)
<1> USE DEF ConcurrentInv
<1>1. /\ pc[w] = "mark_processed" /\ c \in Readings /\ c.event_id = event[w]
      /\ OutcomeStaysTrue(w)
  BY DEF CommitProcessed, TransactionInv, WorkerInv, AttemptInv, InTransaction
<1>2. Record(c)
  BY <1>1 DEF CommitProcessed, Record
<1>3. ASSUME c \in ClassifiedEvent PROVE n \in Entity /\ projection[n] \in Row \cup {NoRow}
  BY <1>3, ClassifiedType DEF SerialInv, TablesTypeOK
<1>4. CASE /\ outcome[w] = "unclassified_recorded" /\ c \in CanonicalUnclassifiedEvent
           /\ wrote[w] = {} /\ new_row[w] = NoRow
  <2>1. c \notin ClassifiedEvent
    BY <1>4 DEF CanonicalUnclassifiedEvent, ClassifiedEvent, CanonicalShipmentEvent,
       CanonicalInvoiceEvent
  <2> QED  BY <1>1, <1>2, <1>4, <2>1 DEF CommitProcessed, RecordOnly, Process
<1>5. CASE /\ outcome[w] = "already_applied" /\ c \in ClassifiedEvent
           /\ event[w] \in applied_events[n] /\ wrote[w] = {} /\ new_row[w] = NoRow
  BY <1>1, <1>2, <1>5 DEF CommitProcessed, RecordOnly, Process
<1>6. CASE /\ outcome[w] = "applied_initial" /\ c \in ClassifiedEvent
           /\ projection[n] = NoRow /\ new_row[w] = InitialRow(c)
           /\ wrote[w] = {"entities", "applied_events", ProjectionTable(c)}
  <2>1. InitialRow(c) # NoRow /\ "stale_event_log" \notin wrote[w]
    BY <1>6, RowType DEF ProjectionTable
  <2>2. Move(c, InitialRow(c))
    BY <1>1, <1>2, <1>6, <2>1 DEF CommitProcessed, Move
  <2> QED  BY <1>1, <1>6, <2>2 DEF OutcomeStaysTrue, ApplyInitial, Process, EntityOfWorker
<1>7. CASE /\ outcome[w] = "applied" /\ c \in ClassifiedEvent /\ projection[n] # NoRow
           /\ existing[w] = projection[n] /\ Decision(w) = "applied"
           /\ new_row[w] = UpdatedRow(projection[n], c) /\ wrote[w] = {"applied_events"}
  <2>1. new_row[w] # NoRow
    BY <1>3, <1>7, RowType
  <2>2. n \in entities
    BY <1>3, <1>7 DEF SerialInv, Referential
  <2>3. Move(c, UpdatedRow(projection[n], c))
    BY <1>1, <1>2, <1>7, <2>1, <2>2 DEF CommitProcessed, Move
  <2>4. ~IsStale(projection[n], c) /\ IsAllowed(projection[n], c)
    BY <1>7 DEF Decision
  <2> QED  BY <1>1, <1>7, <2>3, <2>4 DEF OutcomeStaysTrue, Apply, Process, EntityOfWorker
<1>8. CASE /\ outcome[w] \in {"stale_skipped", "transition_rejected"}
           /\ c \in ClassifiedEvent /\ projection[n] # NoRow
           /\ existing[w] = projection[n] /\ Decision(w) = outcome[w]
           /\ new_row[w] = NoRow /\ wrote[w] = {"applied_events", "stale_event_log"}
  <2>1. CASE outcome[w] = "stale_skipped"
    <3>1. Log(c, "older_than_last_applied")
      BY <1>1, <1>2, <1>8, <2>1 DEF CommitProcessed, Log
    <3>2. IsStale(projection[n], c)
      BY <1>8, <2>1 DEF Decision
    <3> QED  BY <1>1, <1>8, <3>1, <3>2 DEF OutcomeStaysTrue, SkipStale, Process, EntityOfWorker
  <2>2. CASE outcome[w] = "transition_rejected"
    <3>1. Log(c, "disallowed_transition")
      BY <1>1, <1>2, <1>8, <2>2 DEF CommitProcessed, Log
    <3>2. ~IsStale(projection[n], c) /\ ~IsAllowed(projection[n], c)
      BY <1>8, <2>2 DEF Decision
    <3> QED  BY <1>1, <1>8, <3>1, <3>2
             DEF OutcomeStaysTrue, RejectTransition, Process, EntityOfWorker
  <2> QED  BY <1>8, <2>1, <2>2
<1> QED  BY <1>1, <1>4, <1>5, <1>6, <1>7, <1>8 DEF OutcomeStaysTrue, EntityOfWorker

\* Every step is a step of the serial specification, or leaves the tables
\* as they are.
LEMMA RefinementStep ==
    ASSUME ConcurrentInv, [Next]_vars
    PROVE  [SerialNext]_tables
<1> USE DEF ConcurrentInv
<1>1. ASSUME NEW w \in Workers, Start(w) PROVE UNCHANGED tables
  BY <1>1 DEF Start, StartFinalize, StartOther
<1>2. ASSUME NEW w \in Workers, Raise(w) \/ Crash(w) PROVE UNCHANGED tables
  BY <1>2 DEF Raise, Crash
<1>3. ASSUME NEW w \in Workers, Step(w) PROVE [SerialNext]_tables
  <2>1. CASE CommitProcessed(w)
    BY <2>1, CommitRefines DEF SerialNext
  <2>2. CASE MarkReview(w) \/ MarkPendingLlm(w) \/ MarkFailed(w)
    <3>1. event[w] \in Events
      BY <2>2 DEF MarkReview, MarkPendingLlm, MarkFailed, MarkStatus, TransactionInv,
         WorkerInv, AttemptInv
    <3>2. Review(event[w]) \/ SetStatus(event[w], "pending_llm") \/ SetStatus(event[w], "failed")
      BY <2>2 DEF MarkReview, MarkPendingLlm, MarkFailed, MarkStatus, Review, SetStatus
    <3> QED  BY <3>1, <3>2 DEF SerialNext
  <2>3. CASE \/ UpsertCanonicalEvent(w) \/ SelectEntity(w) \/ InsertEntity(w)
             \/ ReselectEntity(w) \/ InsertApplied(w) \/ InsertProjection(w)
             \/ SelectForUpdate(w) \/ LogStale(w) \/ UpdateProjection(w)
    BY <2>3 DEF UpsertCanonicalEvent, SelectEntity, InsertEntity, ReselectEntity, InsertApplied,
       InsertProjection, SelectForUpdate, LogStale, UpdateProjection, Execute
  <2> QED  BY <1>3, <2>1, <2>2, <2>3 DEF Step
<1>4. CASE TruncateStart \/ TruncateLock \/ TruncateAbort
  BY <1>4 DEF TruncateStart, TruncateLock, TruncateAbort
<1>5. CASE TruncateCommit
  BY <1>5 DEF TruncateCommit, Truncate, SerialNext
<1>6. CASE UNCHANGED vars
  BY <1>6 DEF vars
<1> QED  BY <1>1, <1>2, <1>3, <1>4, <1>5, <1>6 DEF Next

-----------------------------------------------------------------------------
(* Non-interference *)

\* A step that changes nothing a transaction relies on but the local state
\* of w.
Private(w) ==
    /\ UNCHANGED <<entities, applied_events, projection, trunc>>
    /\ \A u \in Workers \ {w} :
          /\ pc'[u] = pc[u] /\ event'[u] = event[u] /\ canonical'[u] = canonical[u]
          /\ locks'[u] = locks[u] /\ wrote'[u] = wrote[u] /\ row_lock'[u] = row_lock[u]
          /\ existing'[u] = existing[u] /\ new_row'[u] = new_row[u] /\ outcome'[u] = outcome[u]

\* A statement that nobody blocks conflicts with no other transaction and
\* with no table claimed by the truncation.
LEMMA NoBlockers ==
    ASSUME NEW w \in Workers, Blockers(w) = {}
    PROVE  /\ \A u \in Workers \ {w} : ~RowConflict(w, u)
           /\ (TableOf(w) \ locks[w]) \cap TruncateClaims = {}
BY TruncatorAssumption DEF Blockers

\* A private step of w leaves the other workers as they are.
LEMMA OthersKeep ==
    ASSUME TransactionInv, NEW w \in Workers, Private(w), NEW u \in Workers \ {w}
    PROVE  /\ WorkerInv(u)'
           /\ \A v \in Workers \ {w} : u # v => Exclusion(u, v)'
<1>1. WorkerInv(u)'
  BY DEF TransactionInv, Private, WorkerInv, AttemptInv, ReadsStayTrue, OutcomeStaysTrue,
     EntityOfWorker, Decision
<1>2. ASSUME NEW v \in Workers \ {w}, u # v PROVE Exclusion(u, v)'
  BY <1>2 DEF TransactionInv, Private, Exclusion, SameEntity, EntityOfWorker
<1> QED  BY <1>1, <1>2

\* Hence what is left to show of a private step of w concerns w.
LEMMA PrivateStep ==
    ASSUME TransactionInv, NEW w \in Workers, Private(w),
           WorkerInv(w)', \A u \in Workers \ {w} : Exclusion(u, w)'
    PROVE  TransactionInv'
<1>1. \A u \in Workers : WorkerInv(u)'
  BY OthersKeep
<1>2. \A u, v \in Workers : u # v => Exclusion(u, v)'
  BY OthersKeep DEF Exclusion, SameEntity
<1> QED  BY <1>1, <1>2 DEF TransactionInv

\* A statement of w is a private step.
LEMMA ExecutePrivate ==
    ASSUME ConcurrentInv, NEW w \in Workers, NEW from, NEW inserts, NEW next,
           Execute(w, from, inserts, next),
           \A u \in Workers \ {w} : /\ row_lock'[u] = row_lock[u]
                                    /\ existing'[u] = existing[u]
                                    /\ new_row'[u] = new_row[u]
                                    /\ outcome'[u] = outcome[u]
    PROVE  /\ Private(w)
           /\ pc[w] = from /\ pc'[w] = next
           /\ event'[w] = event[w] /\ canonical'[w] = canonical[w]
           /\ locks'[w] = locks[w] \cup TableOf(w)
           /\ wrote'[w] = wrote[w] \cup inserts
BY DEF ConcurrentInv, TransactionTypeOK, Execute, Private, tables

\* The same of a statement that inserts nothing.
LEMMA ReadPrivate ==
    ASSUME ConcurrentInv, NEW w \in Workers, NEW from, NEW next,
           Execute(w, from, {}, next),
           \A u \in Workers \ {w} : /\ row_lock'[u] = row_lock[u]
                                    /\ existing'[u] = existing[u]
                                    /\ new_row'[u] = new_row[u]
                                    /\ outcome'[u] = outcome[u]
    PROVE  /\ Private(w)
           /\ pc[w] = from /\ pc'[w] = next
           /\ event'[w] = event[w] /\ canonical'[w] = canonical[w]
           /\ locks'[w] = locks[w] \cup TableOf(w)
           /\ wrote'[w] = wrote[w]
<1>1. wrote'[w] = wrote[w]
  BY DEF ConcurrentInv, TransactionTypeOK, Execute
<1>2. Private(w)
  BY DEF ConcurrentInv, TransactionTypeOK, Execute, Private, tables
<1> QED  BY <1>1, <1>2 DEF ConcurrentInv, TransactionTypeOK, Execute

\* An entity with a projection row exists, and so does one with an observed
\* event.
LEMMA ReferentialFacts ==
    ASSUME ConcurrentInv, NEW n \in Entity
    PROVE  /\ n \in entities <=> projection[n] # NoRow
           /\ n \in entities <=> applied_events[n] # {}
BY DEF ConcurrentInv, SerialInv, Referential

\* A transaction that holds the row lock of an entity without a committed row
\* has inserted the row itself.
LEMMA RowLockMeaning ==
    ASSUME ConcurrentInv, NEW w \in Workers, row_lock[w]
    PROVE  /\ pc[w] \in InTransaction /\ canonical[w] \in ClassifiedEvent
           /\ \/ projection[EntityOfWorker(w)] # NoRow
              \/ ProjectionTable(canonical[w]) \in wrote[w]
BY DEF ConcurrentInv, TransactionInv, WorkerInv, AttemptInv, ReadsStayTrue,
   OutcomeStaysTrue, Applying, InTransaction

-----------------------------------------------------------------------------
(* Each statement preserves TransactionInv. *)

\* The upsert of canonical_events makes the transaction the only one of its
\* event, and keeps the truncation out from now on.
LEMMA UpsertPreserves ==
    ASSUME ConcurrentInv, NEW w \in Workers, UpsertCanonicalEvent(w)
    PROVE  TransactionInv'
<1> USE DEF ConcurrentInv
<1> DEFINE next == IF canonical[w] \in CanonicalUnclassifiedEvent
                   THEN "mark_processed" ELSE "entity_select"
<1>0. Execute(w, "canonical_upsert", {}, next) /\ Blockers(w) = {}
  BY DEF UpsertCanonicalEvent, Execute
<1>1. /\ Private(w) /\ pc[w] = "canonical_upsert" /\ pc'[w] = next
      /\ event'[w] = event[w] /\ canonical'[w] = canonical[w]
      /\ locks'[w] = locks[w] \cup TableOf(w) /\ wrote'[w] = wrote[w]
  <2>1. \A u \in Workers \ {w} : /\ row_lock'[u] = row_lock[u]
                                 /\ existing'[u] = existing[u]
                                 /\ new_row'[u] = new_row[u]
                                 /\ outcome'[u] = outcome[u]
    BY DEF UpsertCanonicalEvent, TransactionTypeOK
  <2> HIDE DEF next
  <2> QED  BY <1>0, <2>1, ReadPrivate
<1>2. /\ canonical[w] \in Readings /\ canonical[w] \in CanonicalEvent
      /\ canonical[w].event_id = event[w] /\ event[w] \in Events
      /\ locks[w] = {} /\ wrote[w] = {} /\ ~row_lock[w]
      /\ existing[w] = NoRow /\ new_row[w] = NoRow /\ outcome[w] = "none"
  BY <1>1, ReadingsAssumption DEF TransactionInv, WorkerInv, AttemptInv, InTransaction
<1>3. /\ row_lock'[w] = row_lock[w] /\ existing'[w] = existing[w] /\ new_row'[w] = new_row[w]
      /\ outcome'[w] = IF canonical[w] \in CanonicalUnclassifiedEvent
                       THEN "unclassified_recorded" ELSE "none"
  BY <1>2 DEF UpsertCanonicalEvent, TransactionTypeOK
<1>4. TableOf(w) = {"canonical_events"}
  BY <1>1 DEF TableOf, Needs, Table
<1>5. trunc' <= 2
  <2>1. "canonical_events" \notin TruncateClaims
    BY <1>0, <1>2, <1>4, NoBlockers
  <2>2. 2 > trunc
    BY <2>1, TruncateTables DEF TruncateClaims, TransactionTypeOK
  <2> QED  BY <1>1, <2>2, TruncateTables DEF Private, TransactionTypeOK
<1>6. WorkerInv(w)'
  <2>1. CASE canonical[w] \in CanonicalUnclassifiedEvent
    BY <1>1, <1>2, <1>3, <1>4, <1>5, <2>1
       DEF WorkerInv, AttemptInv, OutcomeStaysTrue, InTransaction, Applying
  <2>2. CASE canonical[w] \notin CanonicalUnclassifiedEvent
    BY <1>1, <1>2, <1>3, <1>4, <1>5, <2>2
       DEF WorkerInv, AttemptInv, ReadsStayTrue, InTransaction, Applying, CanonicalEvent
  <2> QED  BY <2>1, <2>2
<1>7. ASSUME NEW u \in Workers \ {w} PROVE Exclusion(u, w)'
  <2>1. pc[u] \in InTransaction => event[u] # event[w]
    BY <1>0, <1>1, NoBlockers DEF RowConflict
  <2> QED  BY <1>1, <1>2, <1>3, <2>1 DEF Exclusion, Private
<1> QED  BY <1>1, <1>6, <1>7, PrivateStep

\* What every statement of apply_event finds.
LEMMA ApplyingFacts ==
    ASSUME ConcurrentInv, NEW w \in Workers, pc[w] \in Applying
    PROVE  /\ canonical[w] \in Readings /\ canonical[w] \in ClassifiedEvent
           /\ canonical[w].event_id = event[w] /\ event[w] \in Events
           /\ EntityOfWorker(w) \in Entity
           /\ "canonical_events" \in locks[w] /\ trunc <= 2
           /\ outcome[w] = "none" /\ new_row[w] = NoRow
           /\ ReadsStayTrue(w)
           /\ pc[w] \in InTransaction /\ pc[w] \notin {"idle", "canonical_upsert"}
BY ClassifiedType DEF ConcurrentInv, TransactionInv, WorkerInv, AttemptInv, ReadsStayTrue,
   EntityOfWorker, Applying, InTransaction

\* The next statement of apply_event keeps the attempt in order.
LEMMA ApplyingAttempt ==
    ASSUME ConcurrentInv, NEW w \in Workers, pc[w] \in Applying, Private(w),
           pc'[w] \in InTransaction, event'[w] = event[w], canonical'[w] = canonical[w],
           locks[w] \subseteq locks'[w],
           pc'[w] \in Applying => outcome'[w] = outcome[w]
    PROVE  AttemptInv(w)'
BY ApplyingFacts DEF AttemptInv, Private, InTransaction, Applying

\* A statement that takes neither a row lock nor the creation of the entity
\* excludes the others as before.
LEMMA ExclusionKept ==
    ASSUME ConcurrentInv, NEW w \in Workers, Private(w), pc[w] \in InTransaction,
           event'[w] = event[w], canonical'[w] = canonical[w],
           "entities" \in wrote'[w] => "entities" \in wrote[w],
           row_lock'[w] => row_lock[w],
           NEW u \in Workers \ {w}
    PROVE  Exclusion(u, w)'
BY DEF ConcurrentInv, TransactionInv, Exclusion, SameEntity, EntityOfWorker, Private

\* The three statements that look for the entity.
LEMMA SelectEntityPreserves ==
    ASSUME ConcurrentInv, NEW w \in Workers, SelectEntity(w) \/ ReselectEntity(w)
    PROVE  TransactionInv'
<1> USE DEF ConcurrentInv
<1>1. PICK from \in {"entity_select", "entity_reselect"},
           next \in {"applied_insert", "entity_insert"} :
         /\ Execute(w, from, {}, next)
         /\ next = "applied_insert" => EntityOfWorker(w) \in entities
  <2>1. CASE SelectEntity(w)
    BY <2>1 DEF SelectEntity
  <2>2. CASE ReselectEntity(w)
    <3>1. pc[w] = "entity_reselect"
      BY <2>2 DEF ReselectEntity, Execute
    <3>2. EntityOfWorker(w) \in entities
      BY <3>1, ApplyingFacts DEF ReadsStayTrue, Applying, InTransaction
    <3> QED  BY <2>2, <3>2 DEF ReselectEntity
  <2> QED  BY <2>1, <2>2
<1>2. /\ row_lock' = row_lock /\ existing' = existing /\ new_row' = new_row /\ outcome' = outcome
  BY DEF SelectEntity, ReselectEntity
<1>3. /\ Private(w) /\ pc[w] = from /\ pc'[w] = next
      /\ event'[w] = event[w] /\ canonical'[w] = canonical[w]
      /\ locks'[w] = locks[w] \cup TableOf(w) /\ wrote'[w] = wrote[w]
  BY <1>1, <1>2, ReadPrivate
<1>4. pc[w] \in Applying
  BY <1>3 DEF Applying, InTransaction
<1>5. AttemptInv(w)'
  BY <1>2, <1>3, <1>4, ApplyingAttempt DEF Applying, InTransaction
<1>6. ReadsStayTrue(w)'
  BY <1>1, <1>2, <1>3, <1>4, ApplyingFacts
     DEF ReadsStayTrue, Private, EntityOfWorker, Applying, InTransaction
<1>7. WorkerInv(w)'
  BY <1>3, <1>5, <1>6 DEF WorkerInv
<1>8. \A u \in Workers \ {w} : Exclusion(u, w)'
  BY <1>2, <1>3, <1>4, ExclusionKept, ApplyingFacts
<1> QED  BY <1>3, <1>7, <1>8, PrivateStep

\* A creation race has one winner: the INSERT waits for the other's commit.
LEMMA InsertEntityPreserves ==
    ASSUME ConcurrentInv, NEW w \in Workers, InsertEntity(w)
    PROVE  TransactionInv'
<1> USE DEF ConcurrentInv
<1> DEFINE n == EntityOfWorker(w)
           inserts == IF n \in entities THEN {} ELSE {"entities"}
           next == IF n \in entities THEN "entity_reselect" ELSE "applied_insert"
<1>1. Execute(w, "entity_insert", inserts, next) /\ Blockers(w) = {}
  BY DEF InsertEntity, Execute
<1>2. /\ row_lock' = row_lock /\ existing' = existing /\ new_row' = new_row /\ outcome' = outcome
  BY DEF InsertEntity
<1>3. /\ Private(w) /\ pc[w] = "entity_insert" /\ pc'[w] = next
      /\ event'[w] = event[w] /\ canonical'[w] = canonical[w]
      /\ locks'[w] = locks[w] \cup TableOf(w) /\ wrote'[w] = wrote[w] \cup inserts
  BY <1>1, <1>2, ExecutePrivate DEF TransactionTypeOK
<1>4. pc[w] \in Applying
  BY <1>3 DEF Applying, InTransaction
<1>5. AttemptInv(w)'
  BY <1>2, <1>3, <1>4, ApplyingAttempt DEF Applying, InTransaction
<1>6. ReadsStayTrue(w)'
  BY <1>2, <1>3, <1>4, ApplyingFacts
     DEF ReadsStayTrue, Private, EntityOfWorker, Applying, InTransaction
<1>7. WorkerInv(w)'
  BY <1>3, <1>5, <1>6 DEF WorkerInv
<1>8. ASSUME NEW u \in Workers \ {w} PROVE Exclusion(u, w)'
  <2>1. ~(SameEntity(u, w) /\ "entities" \in wrote[u])
    BY <1>1, <1>3, NoBlockers DEF RowConflict
  <2>2. /\ pc[u] \in InTransaction => event[u] # event[w]
        /\ ~row_lock[w]
    BY <1>3, <1>4, ApplyingFacts DEF TransactionInv, Exclusion, ReadsStayTrue, Applying
  <2> QED  BY <1>2, <1>3, <2>1, <2>2 DEF Exclusion, SameEntity, EntityOfWorker, Private
<1> QED  BY <1>3, <1>7, <1>8, PrivateStep

\* The insert into applied_events.
LEMMA InsertAppliedPreserves ==
    ASSUME ConcurrentInv, NEW w \in Workers, InsertApplied(w)
    PROVE  TransactionInv'
<1> USE DEF ConcurrentInv
<1> DEFINE n == EntityOfWorker(w)
           conflict == event[w] \in applied_events[n]
           inserts == IF conflict THEN {} ELSE {"applied_events"}
           next == IF conflict THEN "mark_processed" ELSE "projection_insert"
<1>1. Execute(w, "applied_insert", inserts, next)
  BY DEF InsertApplied
<1>2. /\ row_lock' = row_lock /\ existing' = existing /\ new_row' = new_row
      /\ outcome' = [outcome EXCEPT ![w] = IF conflict THEN "already_applied" ELSE outcome[w]]
  BY DEF InsertApplied
<1>3. /\ Private(w) /\ pc[w] = "applied_insert" /\ pc'[w] = next
      /\ event'[w] = event[w] /\ canonical'[w] = canonical[w]
      /\ locks'[w] = locks[w] \cup TableOf(w) /\ wrote'[w] = wrote[w] \cup inserts
  <2>1. \A u \in Workers \ {w} : outcome'[u] = outcome[u]
    BY <1>2 DEF TransactionTypeOK
  <2> HIDE DEF next, inserts, conflict
  <2> QED  BY <1>1, <1>2, <2>1, ExecutePrivate
<1>4. pc[w] \in Applying /\ pc[w] \in InTransaction
  BY <1>3 DEF Applying, InTransaction
<1>5. outcome'[w] = IF conflict THEN "already_applied" ELSE "none"
  BY <1>2, <1>4, ApplyingFacts DEF TransactionTypeOK
<1>6. AttemptInv(w)'
  BY <1>3, <1>4, <1>5, ApplyingFacts, ApplyingAttempt DEF Applying, InTransaction
<1>7. /\ n \in Entity /\ canonical[w] \in ClassifiedEvent /\ ~row_lock[w] /\ existing[w] = NoRow
      /\ new_row[w] = NoRow /\ wrote[w] \subseteq {"entities"}
      /\ n \in entities \/ "entities" \in wrote[w]
      /\ "entities" \in wrote[w] => n \notin entities
      /\ n \in entities <=> applied_events[n] # {}
  BY <1>3, <1>4, ApplyingFacts, ReferentialFacts DEF ReadsStayTrue, Applying
<1>8. WorkerInv(w)'
  <2>1. CASE conflict
    <3>1. wrote[w] = {}
      BY <1>7, <2>1
    <3>2. OutcomeStaysTrue(w)'
      BY <1>2, <1>3, <1>5, <1>7, <2>1, <3>1
         DEF OutcomeStaysTrue, Private, EntityOfWorker
    <3> QED  BY <1>3, <1>6, <2>1, <3>2 DEF WorkerInv, Applying
  <2>2. CASE ~conflict
    <3>1. ReadsStayTrue(w)'
      BY <1>2, <1>3, <1>7, <2>2
         DEF ReadsStayTrue, Private, EntityOfWorker, Applying, InTransaction
    <3> QED  BY <1>3, <1>6, <2>2, <3>1 DEF WorkerInv
  <2> QED  BY <2>1, <2>2
<1>9. \A u \in Workers \ {w} : Exclusion(u, w)'
  BY <1>2, <1>3, <1>4, ExclusionKept
<1> QED  BY <1>3, <1>8, <1>9, PrivateStep

\* The insert of the first projection row: the winner holds the row, the
\* others find it committed.
LEMMA InsertProjectionPreserves ==
    ASSUME ConcurrentInv, NEW w \in Workers, InsertProjection(w)
    PROVE  TransactionInv'
<1> USE DEF ConcurrentInv
<1> DEFINE n == EntityOfWorker(w)
           conflict == projection[n] # NoRow
           inserts == IF conflict THEN {} ELSE {ProjectionTable(canonical[w])}
           next == IF conflict THEN "for_update" ELSE "mark_processed"
<1>1. Execute(w, "projection_insert", inserts, next) /\ Blockers(w) = {}
  BY DEF InsertProjection, Execute
<1>2. /\ existing' = existing
      /\ row_lock' = [row_lock EXCEPT ![w] = ~conflict]
      /\ new_row' = [new_row EXCEPT ![w] = IF conflict THEN new_row[w]
                                                       ELSE InitialRow(canonical[w])]
      /\ outcome' = [outcome EXCEPT ![w] = IF conflict THEN outcome[w] ELSE "applied_initial"]
  BY DEF InsertProjection
<1>3. /\ Private(w) /\ pc[w] = "projection_insert" /\ pc'[w] = next
      /\ event'[w] = event[w] /\ canonical'[w] = canonical[w]
      /\ locks'[w] = locks[w] \cup TableOf(w) /\ wrote'[w] = wrote[w] \cup inserts
  <2>1. \A u \in Workers \ {w} : /\ outcome'[u] = outcome[u] /\ row_lock'[u] = row_lock[u]
                                 /\ new_row'[u] = new_row[u]
    BY <1>2 DEF TransactionTypeOK
  <2> HIDE DEF next, inserts, conflict
  <2> QED  BY <1>1, <1>2, <2>1, ExecutePrivate
<1>4. pc[w] \in Applying /\ pc[w] \in InTransaction
  BY <1>3 DEF Applying, InTransaction
<1>5. /\ outcome'[w] = IF conflict THEN "none" ELSE "applied_initial"
      /\ row_lock'[w] = ~conflict
      /\ new_row'[w] = IF conflict THEN NoRow ELSE InitialRow(canonical[w])
  BY <1>2, <1>4, ApplyingFacts DEF TransactionTypeOK
<1>6. AttemptInv(w)'
  BY <1>3, <1>4, <1>5, ApplyingFacts, ApplyingAttempt DEF Applying, InTransaction
<1>7. /\ n \in Entity /\ canonical[w] \in ClassifiedEvent /\ existing[w] = NoRow /\ ~row_lock[w]
      /\ wrote[w] \cup {"entities"} = {"entities", "applied_events"}
      /\ n \in entities \/ "entities" \in wrote[w]
      /\ "entities" \in wrote[w] => n \notin entities
      /\ "applied_events" \in wrote[w] => event[w] \notin applied_events[n]
      /\ n \in entities <=> projection[n] # NoRow
  BY <1>3, <1>4, ApplyingFacts, ReferentialFacts DEF ReadsStayTrue, Applying
<1>8. WorkerInv(w)'
  <2>1. CASE conflict
    <3>1. wrote'[w] = {"applied_events"}
      <4>1. wrote[w] = {"applied_events"}
        BY <1>7, <2>1
      <4> QED  BY <1>3, <2>1, <4>1
    <3>a. /\ EntityOfWorker(w)' = n /\ pc'[w] = "for_update" /\ event'[w] = event[w]
          /\ entities' = entities /\ projection' = projection
          /\ applied_events' = applied_events
          /\ existing'[w] = NoRow /\ new_row'[w] = NoRow /\ ~row_lock'[w]
      BY <1>2, <1>3, <1>5, <1>7, <2>1 DEF Private, EntityOfWorker
    <3>b. "applied_events" \in wrote[w]
      BY <1>7
    <3>c. event[w] \notin applied_events[n] /\ n \in entities
      BY <1>7, <2>1, <3>b
    <3>2. ReadsStayTrue(w)'
      BY <2>1, <3>1, <3>a, <3>c
         DEF ReadsStayTrue, Private, EntityOfWorker, Applying, InTransaction
    <3> QED  BY <1>3, <1>6, <2>1, <3>2 DEF WorkerInv
  <2>2. CASE ~conflict
    <3>1. wrote'[w] = {"entities", "applied_events", ProjectionTable(canonical[w])}
      BY <1>3, <1>7, <2>2
    <3>2. "applied_events" \in wrote[w]
      BY <1>7
    <3>3. OutcomeStaysTrue(w)'
      BY <1>2, <1>3, <1>5, <1>7, <2>2, <3>1, <3>2
         DEF OutcomeStaysTrue, Private, EntityOfWorker
    <3> QED  BY <1>3, <1>6, <2>2, <3>3 DEF WorkerInv, Applying
  <2> QED  BY <2>1, <2>2
<1>9. ASSUME NEW u \in Workers \ {w} PROVE Exclusion(u, w)'
  <2>1. ~conflict => ~(SameEntity(u, w) /\ row_lock[u])
    <3>1. ~(SameEntity(u, w) /\ ProjectionTable(canonical[u]) \in wrote[u])
      BY <1>1, <1>3, NoBlockers DEF RowConflict
    <3> QED  BY <3>1, RowLockMeaning DEF SameEntity
  <2>2. "entities" \in wrote'[w] => "entities" \in wrote[w]
    BY <1>3 DEF ProjectionTable
  <2>3. pc[u] \in InTransaction =>
          /\ event[u] # event[w]
          /\ SameEntity(u, w) => ~("entities" \in wrote[u] /\ "entities" \in wrote[w])
    BY <1>4 DEF TransactionInv, Exclusion
  <2> QED  BY <1>3, <1>5, <2>1, <2>2, <2>3 DEF Exclusion, SameEntity, EntityOfWorker, Private
<1> QED  BY <1>3, <1>8, <1>9, PrivateStep

\* SELECT ... FOR UPDATE: the row is there, and is this transaction's alone.
LEMMA SelectForUpdatePreserves ==
    ASSUME ConcurrentInv, NEW w \in Workers, SelectForUpdate(w)
    PROVE  TransactionInv'
<1> USE DEF ConcurrentInv
<1> DEFINE n == EntityOfWorker(w)
<1>1. pc[w] = "for_update" /\ Blockers(w) = {} /\ pc[w] \in Applying /\ pc[w] \in InTransaction
  BY DEF SelectForUpdate, Execute, Applying, InTransaction
<1>2. /\ n \in Entity /\ canonical[w] \in ClassifiedEvent /\ projection[n] # NoRow
      /\ wrote[w] = {"applied_events"} /\ event[w] \notin applied_events[n]
      /\ n \in entities \/ "entities" \in wrote[w]
      /\ new_row[w] = NoRow /\ outcome[w] = "none"
  BY <1>1, ApplyingFacts DEF ReadsStayTrue, Applying
<1>3. Execute(w, "for_update", {}, "decide")
  BY <1>2 DEF SelectForUpdate
<1>4. /\ existing' = [existing EXCEPT ![w] = projection[n]]
      /\ row_lock' = [row_lock EXCEPT ![w] = TRUE]
      /\ new_row' = new_row /\ outcome' = outcome
  BY DEF SelectForUpdate
<1>5. /\ Private(w) /\ pc'[w] = "decide"
      /\ event'[w] = event[w] /\ canonical'[w] = canonical[w]
      /\ locks'[w] = locks[w] \cup TableOf(w) /\ wrote'[w] = wrote[w]
  <2>1. \A u \in Workers \ {w} : /\ row_lock'[u] = row_lock[u]
                                  /\ existing'[u] = existing[u]
                                  /\ new_row'[u] = new_row[u]
                                  /\ outcome'[u] = outcome[u]
    BY <1>4 DEF TransactionTypeOK
  <2> HIDE DEF ConcurrentInv
  <2> QED  BY <1>3, <2>1, ReadPrivate
<1>6. existing'[w] = projection[n] /\ row_lock'[w]
  BY <1>4 DEF TransactionTypeOK
<1>7. AttemptInv(w)'
  BY <1>1, <1>4, <1>5, ApplyingFacts, ApplyingAttempt DEF Applying, InTransaction
<1>8. ReadsStayTrue(w)'
  BY <1>2, <1>4, <1>5, <1>6
     DEF ReadsStayTrue, Private, EntityOfWorker, Applying, InTransaction
<1>9. WorkerInv(w)'
  BY <1>5, <1>7, <1>8 DEF WorkerInv
<1>10. ASSUME NEW u \in Workers \ {w} PROVE Exclusion(u, w)'
  <2>1. ~(SameEntity(u, w) /\ row_lock[u])
    BY <1>1, NoBlockers DEF RowConflict
  <2>2. pc[u] \in InTransaction => event[u] # event[w]
    BY <1>1 DEF TransactionInv, Exclusion
  <2> QED  BY <1>2, <1>5, <2>1, <2>2 DEF Exclusion, SameEntity, EntityOfWorker, Private
<1> QED  BY <1>5, <1>9, <1>10, PrivateStep

\* The statement after FOR UPDATE: a log entry or an update, decided on the
\* row this transaction has locked.
LEMMA DecideFacts ==
    ASSUME ConcurrentInv, NEW w \in Workers, pc[w] = "decide"
    PROVE  /\ EntityOfWorker(w) \in Entity /\ canonical[w] \in ClassifiedEvent
           /\ existing[w] = projection[EntityOfWorker(w)] /\ existing[w] # NoRow
           /\ row_lock[w] /\ new_row[w] = NoRow /\ outcome[w] = "none"
           /\ wrote[w] = {"applied_events"}
           /\ event[w] \notin applied_events[EntityOfWorker(w)]
           /\ pc[w] \in Applying /\ pc[w] \in InTransaction
<1>1. pc[w] \in Applying /\ pc[w] \in InTransaction
  BY DEF Applying, InTransaction
<1> QED  BY <1>1, ApplyingFacts DEF ReadsStayTrue, Applying

\* The stale log gets its row on a decision that is still true.
LEMMA LogStalePreserves ==
    ASSUME ConcurrentInv, NEW w \in Workers, LogStale(w)
    PROVE  TransactionInv'
<1> USE DEF ConcurrentInv
<1> DEFINE n == EntityOfWorker(w)
<1>1. /\ pc[w] = "decide" /\ Decision(w) # "applied"
      /\ Execute(w, "decide", {"stale_event_log"}, "mark_processed")
      /\ row_lock' = row_lock /\ existing' = existing /\ new_row' = new_row
      /\ outcome' = [outcome EXCEPT ![w] = Decision(w)]
  BY DEF LogStale
<1>2. /\ Private(w) /\ pc'[w] = "mark_processed"
      /\ event'[w] = event[w] /\ canonical'[w] = canonical[w]
      /\ locks'[w] = locks[w] \cup TableOf(w)
      /\ wrote'[w] = wrote[w] \cup {"stale_event_log"}
  <2>1. \A u \in Workers \ {w} : outcome'[u] = outcome[u]
    BY <1>1 DEF TransactionTypeOK
  <2> QED  BY <1>1, <2>1, ExecutePrivate
<1>3. outcome'[w] = Decision(w) /\ Decision(w) \in {"stale_skipped", "transition_rejected"}
  BY <1>1 DEF TransactionTypeOK, Decision
<1>4. AttemptInv(w)'
  BY <1>1, <1>2, DecideFacts, ApplyingAttempt DEF Applying, InTransaction
<1>5. wrote'[w] = {"applied_events", "stale_event_log"}
  BY <1>1, <1>2, DecideFacts
<1>6. /\ EntityOfWorker(w)' = n /\ Decision(w)' = Decision(w) /\ projection'[n] = projection[n]
      /\ applied_events' = applied_events
  BY <1>1, <1>2 DEF EntityOfWorker, Decision, Private
<1>7. OutcomeStaysTrue(w)'
  BY <1>1, <1>2, <1>3, <1>5, <1>6, DecideFacts DEF OutcomeStaysTrue
<1>8. WorkerInv(w)'
  BY <1>2, <1>4, <1>7 DEF WorkerInv, Applying
<1>9. \A u \in Workers \ {w} : Exclusion(u, w)'
  BY <1>1, <1>2, <1>5, DecideFacts, ExclusionKept
<1> QED  BY <1>2, <1>8, <1>9, PrivateStep

\* The UPDATE finds the row of FOR UPDATE, with the version it was read with.
LEMMA UpdateProjectionPreserves ==
    ASSUME ConcurrentInv, NEW w \in Workers, UpdateProjection(w)
    PROVE  TransactionInv'
<1> USE DEF ConcurrentInv
<1> DEFINE n == EntityOfWorker(w)
<1>1. /\ pc[w] = "decide" /\ Decision(w) = "applied"
      /\ Execute(w, "decide", {}, "mark_processed")
      /\ existing' = existing
      /\ row_lock' = [row_lock EXCEPT ![w] = TRUE]
      /\ outcome' = [outcome EXCEPT ![w] = "applied"]
  BY DEF UpdateProjection
<1>2. new_row' = [new_row EXCEPT ![w] = UpdatedRow(projection[n], canonical[w])]
  BY <1>1, DecideFacts DEF UpdateProjection
<1>3. /\ Private(w) /\ pc'[w] = "mark_processed"
      /\ event'[w] = event[w] /\ canonical'[w] = canonical[w]
      /\ locks'[w] = locks[w] \cup TableOf(w) /\ wrote'[w] = wrote[w]
  <2>1. \A u \in Workers \ {w} : /\ row_lock'[u] = row_lock[u]
                                 /\ existing'[u] = existing[u]
                                 /\ new_row'[u] = new_row[u]
                                 /\ outcome'[u] = outcome[u]
    BY <1>1, <1>2 DEF TransactionTypeOK
  <2>2. Execute(w, "decide", {}, "mark_processed")
    BY <1>1
  <2> HIDE DEF ConcurrentInv
  <2> QED  BY <2>1, <2>2, ReadPrivate
<1>4. /\ outcome'[w] = "applied" /\ row_lock'[w]
      /\ new_row'[w] = UpdatedRow(projection[n], canonical[w])
  BY <1>1, <1>2 DEF TransactionTypeOK
<1>5. AttemptInv(w)'
  BY <1>1, <1>3, DecideFacts, ApplyingAttempt DEF Applying, InTransaction
<1>6. /\ EntityOfWorker(w)' = n /\ Decision(w)' = Decision(w) /\ projection'[n] = projection[n]
      /\ applied_events' = applied_events
  BY <1>1, <1>3 DEF EntityOfWorker, Decision, Private
<1>7. OutcomeStaysTrue(w)'
  BY <1>1, <1>3, <1>4, <1>6, DecideFacts DEF OutcomeStaysTrue
<1>8. WorkerInv(w)'
  BY <1>3, <1>5, <1>7 DEF WorkerInv, Applying
<1>9. \A u \in Workers \ {w} : Exclusion(u, w)'
  BY <1>1, <1>3, DecideFacts, ExclusionKept
<1> QED  BY <1>3, <1>8, <1>9, PrivateStep

\* A worker outside of its transaction, before or after, disturbs nobody.
LEMMA OutsidePreserves ==
    ASSUME ConcurrentInv, NEW w \in Workers, Private(w),
           pc'[w] \notin InTransaction, pc'[w] # "assertion_failed", AttemptInv(w)'
    PROVE  TransactionInv'
<1>1. WorkerInv(w)'
  BY DEF WorkerInv, Applying, InTransaction
<1>2. \A u \in Workers \ {w} : Exclusion(u, w)'
  BY DEF Exclusion
<1> QED  BY <1>1, <1>2, PrivateStep DEF ConcurrentInv

\* A rollback, and the end of an attempt that touched no table of apply_event.
LEMMA ReleasePreserves ==
    ASSUME ConcurrentInv, NEW w \in Workers, NEW next \in {"idle", "mark_failed"},
           Release(w, next), pc[w] # "idle",
           UNCHANGED <<entities, applied_events, projection>>
    PROVE  TransactionInv'
<1> USE DEF ConcurrentInv
<1>1. Private(w)
  BY DEF Private, Release, TransactionTypeOK
<1>2. /\ pc'[w] = next /\ event'[w] = IF next = "idle" THEN NoRow ELSE event[w]
      /\ locks'[w] = {} /\ wrote'[w] = {} /\ ~row_lock'[w]
      /\ existing'[w] = NoRow /\ new_row'[w] = NoRow /\ outcome'[w] = "none"
  BY DEF Release, TransactionTypeOK
<1>3. event[w] \in Events
  BY DEF TransactionInv, WorkerInv, AttemptInv
<1>4. AttemptInv(w)'
  BY <1>2, <1>3 DEF AttemptInv, InTransaction, Applying
<1> QED  BY <1>1, <1>2, <1>4, OutsidePreserves DEF InTransaction

\* The beginning of an attempt.
LEMMA StartPreserves ==
    ASSUME ConcurrentInv, NEW w \in Workers, Start(w)
    PROVE  TransactionInv'
<1> USE DEF ConcurrentInv
<1>1. ASSUME NEW c \in Readings, StartFinalize(w, c) PROVE TransactionInv'
  <2>1. Private(w)
    BY <1>1 DEF Private, StartFinalize, TransactionTypeOK, tables
  <2>2. /\ pc[w] = "idle" /\ pc'[w] = "canonical_upsert" /\ event'[w] = c.event_id
        /\ canonical'[w] = c /\ c.event_id \in Events
    BY <1>1, CanonicalType, ReadingsAssumption DEF StartFinalize, TransactionTypeOK
  <2>3. AttemptInv(w)'
    BY <1>1, <2>2 DEF StartFinalize, TransactionInv, WorkerInv, AttemptInv, InTransaction, Applying
  <2> QED  BY <2>1, <2>2, <2>3, OutsidePreserves DEF InTransaction
<1>2. ASSUME NEW e \in Unreadable, NEW s \in {"mark_review", "mark_pending_llm", "mark_failed"},
             StartOther(w, e, s)
      PROVE  TransactionInv'
  <2>1. Private(w)
    BY <1>2 DEF Private, StartOther, TransactionTypeOK, tables
  <2>2. pc[w] = "idle" /\ pc'[w] = s /\ event'[w] = e /\ e \in Events
    BY <1>2, UnreadableAssumption DEF StartOther, TransactionTypeOK
  <2>3. AttemptInv(w)'
    BY <1>2, <2>2 DEF StartOther, TransactionInv, WorkerInv, AttemptInv, InTransaction, Applying
  <2> QED  BY <2>1, <2>2, <2>3, OutsidePreserves DEF InTransaction
<1> QED  BY <1>1, <1>2 DEF Start

-----------------------------------------------------------------------------
(* The commit, the only step that changes what others read. *)

\* What the commit of v changes, seen by another worker: an entity it creates,
\* an event it observes and a row it writes are not what the other relies on.
LEMMA CommitOthers ==
    ASSUME ConcurrentInv, NEW v \in Workers, CommitProcessed(v), NEW u \in Workers \ {v}
    PROVE  WorkerInv(u)'
<1> USE DEF ConcurrentInv
<1> DEFINE n == EntityOfWorker(u)
           m == EntityOfWorker(v)
<1>1. /\ pc'[u] = pc[u] /\ event'[u] = event[u] /\ canonical'[u] = canonical[u]
      /\ locks'[u] = locks[u] /\ wrote'[u] = wrote[u] /\ row_lock'[u] = row_lock[u]
      /\ existing'[u] = existing[u] /\ new_row'[u] = new_row[u] /\ outcome'[u] = outcome[u]
      /\ trunc' = trunc /\ EntityOfWorker(u)' = n
  BY DEF CommitProcessed, Release, TransactionTypeOK, EntityOfWorker
<1>2. /\ pc[v] = "mark_processed" /\ pc[v] \in InTransaction /\ OutcomeStaysTrue(v)
  BY DEF CommitProcessed, TransactionInv, WorkerInv, InTransaction
<1>3. AttemptInv(u)' /\ pc'[u] # "assertion_failed"
  BY <1>1 DEF TransactionInv, WorkerInv, AttemptInv
<1>4. ASSUME pc[u] \in InTransaction, canonical[u] \in ClassifiedEvent
      PROVE  /\ n \in Entity
             /\ n \in entities => n \in entities'
             /\ "entities" \in wrote[u] /\ n \notin entities => n \notin entities'
             /\ event[u] \in applied_events[n] => event[u] \in applied_events'[n]
             /\ event[u] \notin applied_events[n] => event[u] \notin applied_events'[n]
             /\ row_lock[u] => projection'[n] = projection[n]
             /\ projection[n] # NoRow => projection'[n] # NoRow
  <2>1. n \in Entity
    BY <1>4, ClassifiedType DEF EntityOfWorker
  <2>2. Exclusion(u, v) /\ event[u] # event[v]
    BY <1>2, <1>4 DEF TransactionInv, Exclusion
  <2>3. "entities" \in wrote[v] \/ "applied_events" \in wrote[v] \/ new_row[v] # NoRow =>
           canonical[v] \in ClassifiedEvent
    BY <1>2 DEF OutcomeStaysTrue
  <2>4. n \in entities => n \in entities'
    BY DEF CommitProcessed
  <2>5. "entities" \in wrote[u] /\ n \notin entities => n \notin entities'
    BY <1>2, <1>4, <2>2, <2>3 DEF CommitProcessed, Exclusion, SameEntity, EntityOfWorker
  <2>6. applied_events'[n] = applied_events[n] \/ applied_events'[n] = applied_events[n] \cup {event[v]}
    BY <2>1 DEF CommitProcessed, SerialInv, TablesTypeOK
  <2>7. row_lock[u] => projection'[n] = projection[n]
    <3>1. new_row[v] # NoRow => row_lock[v]
      BY <1>2 DEF OutcomeStaysTrue
    <3> QED  BY <1>2, <1>4, <2>1, <2>2, <2>3, <3>1
             DEF CommitProcessed, Exclusion, SameEntity, EntityOfWorker, SerialInv, TablesTypeOK
  <2>8. projection[n] # NoRow => projection'[n] # NoRow
    BY <2>1 DEF CommitProcessed, SerialInv, TablesTypeOK
  <2> QED  BY <2>1, <2>2, <2>4, <2>5, <2>6, <2>7, <2>8
<1>5. ASSUME pc[u] \in Applying PROVE ReadsStayTrue(u)'
  <2>1. ReadsStayTrue(u) /\ canonical[u] \in ClassifiedEvent /\ pc[u] \in InTransaction
    BY <1>5, ApplyingFacts
  <2> QED  BY <1>1, <1>4, <2>1 DEF ReadsStayTrue
<1>6. ASSUME pc[u] = "mark_processed" PROVE OutcomeStaysTrue(u)'
  <2>1. OutcomeStaysTrue(u) /\ pc[u] \in InTransaction
    BY <1>6 DEF TransactionInv, WorkerInv, InTransaction
  <2>2. Decision(u)' = Decision(u)
    BY <1>1 DEF Decision
  <2>3. CASE canonical[u] \in ClassifiedEvent
    BY <1>1, <1>4, <2>1, <2>2, <2>3 DEF OutcomeStaysTrue
  <2>4. CASE canonical[u] \notin ClassifiedEvent
    BY <1>1, <2>1, <2>2, <2>4 DEF OutcomeStaysTrue
  <2> QED  BY <2>3, <2>4
<1> QED  BY <1>1, <1>3, <1>5, <1>6 DEF WorkerInv

\* A commit invalidates nothing another transaction has read.
LEMMA CommitPreserves ==
    ASSUME ConcurrentInv, NEW w \in Workers, CommitProcessed(w)
    PROVE  TransactionInv'
<1> USE DEF ConcurrentInv
<1>1. /\ pc'[w] = "idle"
      /\ locks'[w] = {} /\ wrote'[w] = {} /\ ~row_lock'[w]
      /\ existing'[w] = NoRow /\ new_row'[w] = NoRow /\ outcome'[w] = "none"
  BY DEF CommitProcessed, Release, TransactionTypeOK
<1>2. WorkerInv(w)'
  BY <1>1 DEF WorkerInv, AttemptInv, InTransaction, Applying
<1>3. \A u \in Workers : WorkerInv(u)'
  BY <1>2, CommitOthers
<1>4. ASSUME NEW u \in Workers, NEW v \in Workers, u # v PROVE Exclusion(u, v)'
  <2>1. CASE u = w \/ v = w
    BY <1>1, <2>1 DEF Exclusion, InTransaction
  <2>2. CASE u # w /\ v # w
    BY <1>4, <2>2 DEF CommitProcessed, Release, TransactionTypeOK, TransactionInv, Exclusion,
       SameEntity, EntityOfWorker
  <2> QED  BY <2>1, <2>2
<1> QED  BY <1>3, <1>4 DEF TransactionInv

-----------------------------------------------------------------------------
(* The truncation *)

\* It holds canonical_events only when no transaction does, and wipes the
\* tables only then.
LEMMA TruncatePreservesTransactions ==
    ASSUME ConcurrentInv, TruncateStart \/ TruncateLock \/ TruncateCommit \/ TruncateAbort
    PROVE  TransactionInv'
<1> USE DEF ConcurrentInv
<1>1. UNCHANGED transaction
  BY DEF TruncateStart, TruncateLock, TruncateCommit, TruncateAbort
<1>2. \A u, v \in Workers : u # v => Exclusion(u, v)'
  BY <1>1 DEF transaction, TransactionInv, Exclusion, SameEntity, EntityOfWorker
<1>3. CASE TruncateCommit
  <2>1. \A u \in Workers : pc[u] \notin InTransaction
    BY <1>3, TruncateTables DEF TruncateCommit, TransactionInv, WorkerInv, AttemptInv,
       TransactionTypeOK
  <2>2. \A u \in Workers : WorkerInv(u)'
    BY <1>1, <2>1 DEF transaction, TransactionInv, WorkerInv, AttemptInv, InTransaction, Applying
  <2> QED  BY <1>2, <2>2 DEF TransactionInv
<1>4. CASE TruncateStart \/ TruncateLock \/ TruncateAbort
  <2>1. UNCHANGED <<entities, applied_events, projection>>
    BY <1>4 DEF TruncateStart, TruncateLock, TruncateAbort, tables
  <2>2. ASSUME NEW u \in Workers, pc[u] \in InTransaction PROVE trunc' <= 2
    <3>1. "canonical_events" \in locks[u] /\ trunc <= 2
      BY <2>2 DEF TransactionInv, WorkerInv, AttemptInv
    <3>2. trunc = 2 => ~TruncateLock
      BY <3>1, TruncateTables, TruncatorAssumption DEF TruncateLock, Blockers
    <3> QED  BY <1>4, <3>1, <3>2, TruncateTables
             DEF TruncateStart, TruncateLock, TruncateAbort, TransactionTypeOK
  <2>3. ASSUME NEW u \in Workers PROVE WorkerInv(u)'
    <3>1. WorkerInv(u)
      BY DEF TransactionInv
    <3>2. AttemptInv(u)'
      BY <1>1, <2>2, <3>1 DEF transaction, WorkerInv, AttemptInv
    <3>3. (pc[u] \in Applying => ReadsStayTrue(u))'
      BY <1>1, <2>1, <3>1 DEF transaction, WorkerInv, ReadsStayTrue, EntityOfWorker
    <3>4. (pc[u] = "mark_processed" => OutcomeStaysTrue(u))'
      BY <1>1, <2>1, <3>1 DEF transaction, WorkerInv, OutcomeStaysTrue, EntityOfWorker, Decision
    <3> QED  BY <1>1, <3>1, <3>2, <3>3, <3>4 DEF transaction, WorkerInv
  <2> QED  BY <1>2, <2>3 DEF TransactionInv
<1> QED  BY <1>3, <1>4

-----------------------------------------------------------------------------
\* Every step preserves TransactionInv.
LEMMA TransactionStep ==
    ASSUME ConcurrentInv, [Next]_vars
    PROVE  TransactionInv'
<1>1. ASSUME NEW w \in Workers, Start(w) PROVE TransactionInv'
  BY <1>1, StartPreserves
<1>2. ASSUME NEW w \in Workers, Step(w) PROVE TransactionInv'
  <2>1. CASE UpsertCanonicalEvent(w)
    BY <2>1, UpsertPreserves
  <2>2. CASE SelectEntity(w) \/ ReselectEntity(w)
    BY <2>2, SelectEntityPreserves
  <2>3. CASE InsertEntity(w)
    BY <2>3, InsertEntityPreserves
  <2>4. CASE InsertApplied(w)
    BY <2>4, InsertAppliedPreserves
  <2>5. CASE InsertProjection(w)
    BY <2>5, InsertProjectionPreserves
  <2>6. CASE SelectForUpdate(w)
    BY <2>6, SelectForUpdatePreserves
  <2>7. CASE LogStale(w) \/ UpdateProjection(w)
    BY <2>7, LogStalePreserves, UpdateProjectionPreserves
  <2>8. CASE CommitProcessed(w)
    BY <2>8, CommitPreserves
  <2>9. CASE MarkReview(w)
    BY <2>9, ReleasePreserves DEF MarkReview
  <2>10. CASE MarkPendingLlm(w) \/ MarkFailed(w)
    BY <2>10, ReleasePreserves DEF MarkPendingLlm, MarkFailed, MarkStatus
  <2> QED  BY <1>2, <2>1, <2>2, <2>3, <2>4, <2>5, <2>6, <2>7, <2>8, <2>9, <2>10 DEF Step
<1>3. ASSUME NEW w \in Workers, Raise(w) \/ Crash(w) PROVE TransactionInv'
  BY <1>3, ReleasePreserves DEF Raise, Crash, tables, InTransaction
<1>4. CASE TruncateStart \/ TruncateLock \/ TruncateCommit \/ TruncateAbort
  BY <1>4, TruncatePreservesTransactions
<1>5. CASE UNCHANGED vars
  BY <1>5 DEF vars, tables, transaction, ConcurrentInv, TransactionInv, WorkerInv, AttemptInv,
     ReadsStayTrue, OutcomeStaysTrue, Exclusion, SameEntity, EntityOfWorker, Decision
<1> QED  BY <1>1, <1>2, <1>3, <1>4, <1>5 DEF Next

\* The invariant is inductive, and each of its steps is a serial one.
LEMMA ConcurrentStep == ConcurrentInv /\ [Next]_vars => ConcurrentInv' /\ [SerialNext]_tables
<1> SUFFICES ASSUME ConcurrentInv, [Next]_vars PROVE ConcurrentInv' /\ [SerialNext]_tables
  OBVIOUS
<1>1. [SerialNext]_tables
  BY RefinementStep
<1>2. SerialInv'
  BY <1>1, SerialStep DEF ConcurrentInv
<1> QED  BY <1>1, <1>2, TypeStep, TransactionStep DEF ConcurrentInv

\* The inductive invariant of the concurrent workers (_finalize, apply_event
\* and truncate together).
THEOREM ConcurrentInvariant == Spec => []ConcurrentInv
BY ConcurrentInit, ConcurrentStep, PTL DEF Spec

-----------------------------------------------------------------------------
(* The results *)

\* Whatever the interleaving, the crashes and the truncations, the committed
\* tables change one whole attempt at a time (the transaction of _finalize).
THEOREM Serializability == Spec => Serializable
<1>1. Init => SerialInit
  BY DEF Init, SerialInit
<1> QED  BY <1>1, ConcurrentStep, ConcurrentInvariant, PTL DEF Spec, Serializable, SerialSpec

\* Tables and transactions keep their types.
THEOREM TypeCorrectness == Spec => []TypeOK
<1>1. ConcurrentInv => TypeOK
  BY DEF ConcurrentInv, SerialInv, TypeOK
<1> QED  BY <1>1, ConcurrentInvariant, PTL

\* No update is lost and none is made twice.
THEOREM NoLostUpdate == Spec => []Accounting
<1>1. ConcurrentInv => Accounting
  BY DEF ConcurrentInv, SerialInv
<1> QED  BY <1>1, ConcurrentInvariant, PTL

\* The tables refer to each other consistently.
THEOREM ReferentialIntegrity == Spec => []Referential
<1>1. ConcurrentInv => Referential
  BY DEF ConcurrentInv, SerialInv
<1> QED  BY <1>1, ConcurrentInvariant, PTL

\* A canonical event is never committed without its effect.
THEOREM CanonicalEventsApplied == Spec => []CanonicalApplied
<1>1. ConcurrentInv => CanonicalApplied
  BY DEF ConcurrentInv, SerialInv
<1> QED  BY <1>1, ConcurrentInvariant, PTL

\* The asserts of state_machine.py never fail.
THEOREM AssertionsHold == Spec => []NoAssertionFails
<1>1. ConcurrentInv => NoAssertionFails
  BY DEF ConcurrentInv, TransactionInv, WorkerInv, NoAssertionFails
<1> QED  BY <1>1, ConcurrentInvariant, PTL

\* What a transaction of _apply_shipment or _apply_invoice has read is true
\* until it commits.
THEOREM ReadsNeverStale == Spec => []TransactionInv
<1>1. ConcurrentInv => TransactionInv
  BY DEF ConcurrentInv
<1> QED  BY <1>1, ConcurrentInvariant, PTL

\* No projection ever moves backward.
THEOREM ProjectionsMoveForward == Spec => NeverBackward
BY Serializability, SerialNeverBackward DEF Serializable

-----------------------------------------------------------------------------
(* Deadlock freedom. Whoever waits, waits for someone of a higher rank: the *)
(* ranks follow the order in which a transaction takes its locks, with the  *)
(* truncation between the attempts that hold nothing and the transactions.  *)

Rank(a) ==
    IF a = Truncator THEN 1
    ELSE IF pc[a] \notin InTransaction THEN 0
    ELSE IF pc[a] \in {"entity_select", "entity_insert", "entity_reselect"} THEN 2
    ELSE IF pc[a] \in {"applied_insert", "projection_insert"} THEN 3
    ELSE IF pc[a] = "for_update" THEN 4
    ELSE 5

\* A statement of a transaction waits for a transaction that is further on,
\* and never for the truncation.
LEMMA TransactionWaits ==
    ASSUME ConcurrentInv, NEW w \in Workers, pc[w] \in InTransaction,
           NEW b \in Blockers(w)
    PROVE  Rank(w) < Rank(b)
<1> USE DEF ConcurrentInv
<1>0. w # Truncator
  BY TruncatorAssumption
<1>1. ASSUME b = Truncator PROVE FALSE
  <2>1. TruncateClaims \subseteq {"requires_human_review", "canonical_events"}
    <3>1. trunc <= 2 /\ trunc \in 0..8
      BY TruncateTables DEF TransactionInv, WorkerInv, AttemptInv, TransactionTypeOK
    <3> QED  BY <3>1 DEF TruncateClaims, TRUNCATE_TABLES
  <2>2. TableOf(w) \cap {"requires_human_review", "canonical_events"} = {}
    BY DEF TableOf, Needs, ProjectionTable, InTransaction
  <2> QED  BY <1>0, <1>1, <2>1, <2>2, TruncatorAssumption DEF Blockers
<1>2. b \in Workers \ {w} /\ RowConflict(w, b)
  BY <1>0, <1>1 DEF Blockers
<1>3. ASSUME wrote[b] # {} \/ row_lock[b]
      PROVE  /\ pc[b] \in InTransaction
             /\ pc[b] \in Applying => ReadsStayTrue(b)
             /\ Exclusion(b, w)
  BY <1>2, <1>3 DEF TransactionInv, WorkerInv, AttemptInv
<1>4. b # Truncator
  BY <1>1
<1>5. CASE pc[w] = "entity_insert" /\ SameEntity(b, w) /\ "entities" \in wrote[b]
  <2>1. pc[b] \in InTransaction \ {"entity_select", "entity_insert", "entity_reselect"}
    BY <1>3, <1>5 DEF ReadsStayTrue, Applying
  <2> QED  BY <1>0, <1>4, <1>5, <2>1 DEF Rank, InTransaction
<1>6. CASE pc[w] = "applied_insert" /\ event[b] = event[w] /\ "applied_events" \in wrote[b]
  BY <1>3, <1>6 DEF Exclusion, InTransaction
<1>7. CASE /\ pc[w] = "projection_insert"
           /\ SameEntity(b, w) /\ ProjectionTable(canonical[b]) \in wrote[b]
  <2>1. pc[b] = "mark_processed"
    BY <1>3, <1>7 DEF ReadsStayTrue, Applying, InTransaction, ProjectionTable
  <2> QED  BY <1>0, <1>4, <1>7, <2>1 DEF Rank, InTransaction
<1>8. CASE /\ pc[w] = "for_update" \/ pc[w] = "decide"
           /\ SameEntity(b, w) /\ row_lock[b]
  <2>1. pc[b] \in {"decide", "mark_processed"}
    BY <1>3, <1>8 DEF ReadsStayTrue, Applying, InTransaction
  <2>2. CASE pc[w] = "for_update"
    BY <1>0, <1>4, <2>1, <2>2 DEF Rank, InTransaction
  <2>3. CASE pc[w] = "decide"
    BY <1>3, <1>8, <2>3, DecideFacts DEF Exclusion
  <2> QED  BY <1>8, <2>2, <2>3
<1> QED  BY <1>2, <1>5, <1>6, <1>7, <1>8 DEF RowConflict, InTransaction

\* Everybody waits for a higher rank.
LEMMA WaitsForHigher ==
    ASSUME ConcurrentInv, NEW a \in Workers \cup {Truncator}, NEW b \in Blockers(a)
    PROVE  Rank(a) < Rank(b)
<1> USE DEF ConcurrentInv
<1>1. CASE a = Truncator
  <2>1. b \in Workers /\ locks[b] # {}
    BY <1>1 DEF Blockers
  <2>2. pc[b] \in InTransaction /\ b # Truncator
    BY <2>1, TruncatorAssumption DEF TransactionInv, WorkerInv, AttemptInv
  <2> QED  BY <1>1, <2>2 DEF Rank, InTransaction
<1>2. CASE a # Truncator /\ pc[a] \in InTransaction
  BY <1>2, TransactionWaits
<1>3. CASE a # Truncator /\ pc[a] \notin InTransaction
  <2>1. CASE b = Truncator
    BY <1>3, <2>1 DEF Rank
  <2>2. CASE b # Truncator
    <3>1. RowConflict(a, b) /\ pc[a] = "canonical_upsert"
      BY <1>3, <2>2 DEF Blockers, RowConflict, InTransaction
    <3>2. pc[b] \in InTransaction
      BY <3>1 DEF RowConflict
    <3> QED  BY <1>3, <2>2, <3>2 DEF Rank, InTransaction
  <2> QED  BY <2>1, <2>2
<1> QED  BY <1>1, <1>2, <1>3

\* Every non-empty set of actors has one of highest rank.
LEMMA HighestRank ==
    ASSUME NEW S, S # {}
    PROVE  \E a \in S : \A b \in S : Rank(b) <= Rank(a)
<1>1. \A a \in S : Rank(a) \in 0..5
  BY DEF Rank
<1>5. CASE \E a \in S : Rank(a) = 5
  BY <1>1, <1>5
<1>4. CASE (\E a \in S : Rank(a) = 4) /\ (\A a \in S : Rank(a) < 5)
  BY <1>1, <1>4
<1>3. CASE (\E a \in S : Rank(a) = 3) /\ (\A a \in S : Rank(a) < 4)
  BY <1>1, <1>3
<1>2. CASE (\E a \in S : Rank(a) = 2) /\ (\A a \in S : Rank(a) < 3)
  BY <1>1, <1>2
<1>6. CASE (\E a \in S : Rank(a) = 1) /\ (\A a \in S : Rank(a) < 2)
  BY <1>1, <1>6
<1>7. CASE \A a \in S : Rank(a) = 0
  BY <1>7
<1> QED  BY <1>1, <1>2, <1>3, <1>4, <1>5, <1>6, <1>7

\* No set of workers and truncation is ever stuck waiting for each other.
THEOREM DeadlockFreedom == Spec => []NoWaitCycle
<1>1. ConcurrentInv => NoWaitCycle
  <2> SUFFICES ASSUME ConcurrentInv, NEW S \in (SUBSET (Workers \cup {Truncator})) \ {{}}
               PROVE  \E a \in S : Blockers(a) \cap S = {}
    BY DEF NoWaitCycle
  <2>1. PICK a \in S : \A b \in S : Rank(b) <= Rank(a)
    BY HighestRank
  <2>2. \A b \in Blockers(a) : Rank(a) < Rank(b)
    BY WaitsForHigher
  <2>3. \A b \in S : Rank(b) \in 0..5
    BY DEF Rank
  <2> QED  BY <2>1, <2>2, <2>3
<1> QED  BY <1>1, ConcurrentInvariant, PTL

=============================================================================
