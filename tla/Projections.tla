---------------------------- MODULE Projections -----------------------------
(***************************************************************************)
(* What the worker promises of the database: every processing of an event  *)
(* takes effect at one instant, or not at all. This is the serial          *)
(* specification that the concurrent transactions of ApplyEvent implement. *)
(* It says nothing of locks, statements, workers or crashes.               *)
(***************************************************************************)
EXTENDS Tables

SerialInit == TablesInit

\* The canonical row and the status every finalised event gets.
Record(c) ==
    /\ canonical_events' = [canonical_events EXCEPT ![c.event_id] = c]
    /\ processing_status' = [processing_status EXCEPT ![c.event_id] = "processed"]
    /\ UNCHANGED requires_human_review

\* An unclassified event, or one already observed for its entity.
RecordOnly(c) ==
    /\ c \in ClassifiedEvent => c.event_id \in applied_events[EntityOf(c)]
    /\ Record(c)
    /\ UNCHANGED <<entities, applied_events, projection, stale_event_log>>

\* An event observed for the first time moves its projection.
Move(c, row) ==
    LET n == EntityOf(c) IN
    /\ Record(c)
    /\ entities' = entities \cup {n}
    /\ applied_events' = [applied_events EXCEPT ![n] = @ \cup {c.event_id}]
    /\ projection' = [projection EXCEPT ![n] = row]
    /\ UNCHANGED stale_event_log

ApplyInitial(c) ==
    /\ projection[EntityOf(c)] = NoRow
    /\ Move(c, InitialRow(c))

Apply(c) ==
    LET row == projection[EntityOf(c)] IN
    /\ row # NoRow /\ ~IsStale(row, c) /\ IsAllowed(row, c)
    /\ Move(c, UpdatedRow(row, c))

\* An event observed for the first time that may not move its projection.
Log(c, reason) ==
    LET n == EntityOf(c) IN
    /\ Record(c)
    /\ applied_events' = [applied_events EXCEPT ![n] = @ \cup {c.event_id}]
    /\ stale_event_log' = [stale_event_log EXCEPT ![n] =
                              Append(@, [event_id |-> c.event_id, reason |-> reason])]
    /\ UNCHANGED <<entities, projection>>

SkipStale(c) ==
    LET row == projection[EntityOf(c)] IN
    /\ row # NoRow /\ IsStale(row, c)
    /\ Log(c, "older_than_last_applied")

RejectTransition(c) ==
    LET row == projection[EntityOf(c)] IN
    /\ row # NoRow /\ ~IsStale(row, c) /\ ~IsAllowed(row, c)
    /\ Log(c, "disallowed_transition")

\* An attempt that ends without a canonical event.
Review(e) ==
    /\ requires_human_review' = requires_human_review \cup {e}
    /\ processing_status' = [processing_status EXCEPT ![e] = "review"]
    /\ UNCHANGED <<canonical_events, entities, applied_events, projection, stale_event_log>>

SetStatus(e, s) ==
    /\ processing_status' = [processing_status EXCEPT ![e] = s]
    /\ UNCHANGED <<canonical_events, entities, applied_events, projection,
                   stale_event_log, requires_human_review>>

\* A bug to be caught: the truncation forgets applied_events.
Truncate_KeepsApplied ==
    /\ canonical_events' = [e \in Events |-> NoRow]
    /\ entities' = {}
    /\ UNCHANGED applied_events
    /\ projection' = [n \in Entity |-> NoRow]
    /\ stale_event_log' = [n \in Entity |-> <<>>]
    /\ requires_human_review' = {}
    /\ processing_status' = [e \in Events |-> "queued"]

\* replay --truncate-projections: everything derived is gone, every event
\* is to be processed again.
Truncate ==
    /\ canonical_events' = [e \in Events |-> NoRow]
    /\ entities' = {}
    /\ applied_events' = [n \in Entity |-> {}]
    /\ projection' = [n \in Entity |-> NoRow]
    /\ stale_event_log' = [n \in Entity |-> <<>>]
    /\ requires_human_review' = {}
    /\ processing_status' = [e \in Events |-> "queued"]

Process(c) ==
    \/ RecordOnly(c)
    \/ /\ c \in ClassifiedEvent
       /\ c.event_id \notin applied_events[EntityOf(c)]
       /\ ApplyInitial(c) \/ Apply(c) \/ SkipStale(c) \/ RejectTransition(c)

SerialNext ==
    \/ \E c \in Readings : Process(c)
    \/ \E e \in Events : Review(e) \/ SetStatus(e, "pending_llm") \/ SetStatus(e, "failed")
    \/ Truncate

SerialSpec == SerialInit /\ [][SerialNext]_tables

=============================================================================
