------------------------------- MODULE Tables -------------------------------
(***************************************************************************)
(* The committed content of the Postgres tables the worker writes, and     *)
(* what must be true of it whoever wrote it: the serial specification      *)
(* (Projections) and the concurrent one (ApplyEvent) share both.           *)
(***************************************************************************)
EXTENDS StateMachine, Sequences, FiniteSets

VARIABLES
    canonical_events,       \* event -> its last canonical reading, or NoRow
    entities,               \* the entities rows
    applied_events,         \* entity -> the events observed for it
    projection,             \* entity -> its shipments / invoices row, or NoRow
    stale_event_log,        \* entity -> its stale_event_log rows, oldest first
    requires_human_review,  \* the events with a review row
    processing_status       \* event -> raw_events.processing_status

tables == <<canonical_events, entities, applied_events, projection,
            stale_event_log, requires_human_review, processing_status>>

Status == {"queued", "pending_llm", "processed", "review", "failed"}

LogEntry == [event_id : Events, reason : StaleReason]

\* The state after a migration: every raw event ingested and queued.
TablesInit ==
    /\ canonical_events = [e \in Events |-> NoRow]
    /\ entities = {}
    /\ applied_events = [n \in Entity |-> {}]
    /\ projection = [n \in Entity |-> NoRow]
    /\ stale_event_log = [n \in Entity |-> <<>>]
    /\ requires_human_review = {}
    /\ processing_status = [e \in Events |-> "queued"]

\* The CHECK constraints of the shipments and invoices tables.
StateOf(n) == IF n.entity_type = "shipment" THEN ShipmentState ELSE InvoiceState

TablesTypeOK ==
    /\ canonical_events \in [Events -> CanonicalEvent \cup {NoRow}]
    /\ entities \subseteq Entity
    /\ applied_events \in [Entity -> SUBSET Events]
    /\ projection \in [Entity -> Row \cup {NoRow}]
    /\ stale_event_log \in [Entity -> Seq(LogEntry)]
    /\ requires_human_review \subseteq Events
    /\ processing_status \in [Events -> Status]
    /\ \A n \in Entity : projection[n] # NoRow => projection[n].state \in StateOf(n)

-----------------------------------------------------------------------------
Version(n) == IF projection[n] = NoRow THEN 0 ELSE projection[n].version

\* No update is lost and none is made twice: every event observed for an
\* entity either moved its projection, counted by the version the UPDATE
\* increments, or is in the stale log, exactly once. A second worker that
\* overwrote the row of the first, an UPDATE ... WHERE version = ... that
\* touched no row, or a redelivered event that moved the row again would
\* break the balance (state_machine.py, _apply_shipment and _apply_invoice).
Accounting ==
    \A n \in Entity :
        Version(n) + Len(stale_event_log[n]) = Cardinality(applied_events[n])

\* The tables agree: an entity exists just when it has a projection row,
\* just when some event was observed for it; the event that last moved a
\* row, and every logged event, was observed for that entity. No crash,
\* rollback, lost creation race or truncation leaves half of an apply_event
\* behind.
Referential ==
    \A n \in Entity :
        /\ n \in entities <=> projection[n] # NoRow
        /\ n \in entities <=> applied_events[n] # {}
        /\ projection[n] # NoRow =>
              projection[n].last_applied_event_id \in applied_events[n]
        /\ \A i \in 1..Len(stale_event_log[n]) :
              stale_event_log[n][i].event_id \in applied_events[n]

\* A canonical row is never ahead of its projection: whatever sequence of
\* attempts, readings, crashes and truncations an event went through, the
\* entity of its current canonical event has observed it. A 'processed'
\* event has such a row; one in 'review' is in the review table.
CanonicalApplied ==
    \A e \in Events :
        /\ canonical_events[e] \in ClassifiedEvent =>
              e \in applied_events[EntityOf(canonical_events[e])]
        /\ processing_status[e] = "processed" => canonical_events[e] # NoRow
        /\ processing_status[e] = "review" => e \in requires_human_review

TerminalState == {"DELIVERED", "CANCELLED", "VOIDED", "REFUNDED"}

\* A projection only moves forward: a step that changes a row increments its
\* version, never sets its timestamp back, leaves no terminal state, follows
\* the transition table, and is due to an event not observed before. The
\* only other change is the truncation of all rows.
MovesForward(n) ==
    LET old == projection[n]
        new == projection'[n] IN
    /\ new.version = old.version + 1
    /\ new.last_applied_ts >= old.last_applied_ts
    /\ new.state # old.state =>
          /\ old.state \notin TerminalState
          /\ \/ old.state \in ShipmentState /\ new.state \in SHIPMENT_TRANSITIONS[old.state]
             \/ old.state \in InvoiceState /\ new.state \in INVOICE_TRANSITIONS[old.state]
    /\ new.last_applied_event_id \notin applied_events[n]
    /\ new.last_applied_event_id \in applied_events'[n]

NeverBackward ==
    [][\A n \in Entity :
          projection[n] # NoRow /\ projection'[n] # projection[n] =>
             \/ projection' = [m \in Entity |-> NoRow]
             \/ MovesForward(n)]_tables

=============================================================================
