---------------------------- MODULE StateMachine ----------------------------
(***************************************************************************)
(* The pure part of app/domain: the canonical events every extraction path *)
(* produces (canonical.py) and the transition tables and decisions of      *)
(* state_machine.py, with no database in sight.                            *)
(*                                                                         *)
(* Abstracted: a Key stands for the pair (vendor_id, external_id); the     *)
(* columns no guard reads (reference_ids, location, currency, amount,      *)
(* due_at, source, confidence) are left out.                               *)
(***************************************************************************)
EXTENDS Canonical, Integers

CONSTANTS
    Events,      \* event ids: the primary keys of raw_events
    Keys,        \* (vendor_id, external_id) pairs
    Timestamps,  \* the instants an event may carry, already in UTC
    NoRow        \* "no such row": what a SELECT or RETURNING gives as None

ASSUME TimestampsAssumption == Timestamps \subseteq Int

-----------------------------------------------------------------------------
(* canonical.py: the discriminated union *)

CanonicalShipmentEvent ==
    [event_id : Events, classification : {"shipment"}, key : Keys,
     event_type : ShipmentEventType, event_timestamp : Timestamps]

CanonicalInvoiceEvent ==
    [event_id : Events, classification : {"invoice"}, key : Keys,
     event_type : InvoiceEventType, event_timestamp : Timestamps]

CanonicalUnclassifiedEvent ==
    [event_id : Events, classification : {"unclassified"}]

ClassifiedEvent == CanonicalShipmentEvent \cup CanonicalInvoiceEvent

CanonicalEvent == ClassifiedEvent \cup CanonicalUnclassifiedEvent

-----------------------------------------------------------------------------
(* state_machine.py *)

SHIPMENT_TRANSITIONS ==
    [PICKED_UP        |-> {"IN_TRANSIT", "OUT_FOR_DELIVERY", "DELIVERED", "EXCEPTION", "CANCELLED"},
     IN_TRANSIT       |-> {"OUT_FOR_DELIVERY", "DELIVERED", "EXCEPTION", "CANCELLED"},
     OUT_FOR_DELIVERY |-> {"DELIVERED", "EXCEPTION"},
     EXCEPTION        |-> {"IN_TRANSIT", "OUT_FOR_DELIVERY", "DELIVERED", "CANCELLED"},
     DELIVERED        |-> {},
     CANCELLED        |-> {}]

INVOICE_TRANSITIONS ==
    [ISSUED   |-> {"PAID", "VOIDED"},
     PAID     |-> {"REFUNDED"},
     VOIDED   |-> {},
     REFUNDED |-> {}]

\* An entities row, identified by its unique key (vendor_id, entity_type,
\* external_id).
Entity == [entity_type : {"shipment", "invoice"}, key : Keys]

\* A shipments or invoices row.
Row == [state : State, last_applied_event_id : Events,
        last_applied_ts : Timestamps, version : Nat \ {0}]

\* Readings: what extraction (either path) may return for the events.
CONSTANT Readings

ASSUME ReadingsAssumption == Readings \subseteq CanonicalEvent

ASSUME NoRowAssumption == NoRow \notin Row /\ NoRow \notin CanonicalEvent /\ NoRow \notin Events

EntityOf(c) == [entity_type |-> c.classification, key |-> c.key]

TargetState(c) ==
    IF c.classification = "shipment" THEN SHIPMENT_EVENT_TO_STATE[c.event_type]
                                     ELSE INVOICE_EVENT_TO_STATE[c.event_type]

\* A bug to be caught: the timestamp guard dropped.
IsStale_Never(row, c) == FALSE

\* The timestamp guard: strictly older, so an event of the same instant
\* as the last applied one is not stale.
IsStale(row, c) == c.event_timestamp < row.last_applied_ts

\* The transition guard. An invoice accepts its current state again; a
\* shipment does not (no shipment state lists itself).
IsAllowed(row, c) ==
    IF c.classification = "shipment"
    THEN TargetState(c) \in SHIPMENT_TRANSITIONS[row.state]
    ELSE TargetState(c) \in INVOICE_TRANSITIONS[row.state] \cup {row.state}

\* A bug to be caught: versions counted from zero.
InitialRow_VersionZero(c) ==
    [state |-> TargetState(c), last_applied_event_id |-> c.event_id,
     last_applied_ts |-> c.event_timestamp, version |-> 0]

\* The row the INSERT of the first event writes.
InitialRow(c) ==
    [state |-> TargetState(c), last_applied_event_id |-> c.event_id,
     last_applied_ts |-> c.event_timestamp, version |-> 1]

\* The row the UPDATE of a later event writes over `row'.
UpdatedRow(row, c) ==
    [state |-> TargetState(c), last_applied_event_id |-> c.event_id,
     last_applied_ts |-> c.event_timestamp, version |-> row.version + 1]

\* The reasons _log_stale records.
StaleReason == {"older_than_last_applied", "disallowed_transition"}

=============================================================================
