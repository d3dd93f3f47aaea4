------------------------- MODULE Projections_proofs -------------------------
(***************************************************************************)
(* Proofs about the serial specification, for any events, keys, timestamps *)
(* and readings. The inductive invariant SerialInv joins the type, the     *)
(* finiteness of what was observed, and the three table invariants: the    *)
(* accounting of a logged event needs its row, hence Referential.          *)
(***************************************************************************)
EXTENDS Projections, FiniteSetTheorems, TLAPS

\* What was observed for an entity is always a finite set, though Events
\* need not be.
FiniteObserved == \A n \in Entity : IsFiniteSet(applied_events[n])

SerialInv ==
    /\ TablesTypeOK
    /\ FiniteObserved
    /\ Accounting
    /\ Referential
    /\ CanonicalApplied

-----------------------------------------------------------------------------
(* The operators of the state machine are well typed. *)

\* A classified event names an entity, a target state of its table, an event
\* and a timestamp.
LEMMA ClassifiedType ==
    ASSUME NEW c \in ClassifiedEvent
    PROVE  /\ EntityOf(c) \in Entity
           /\ TargetState(c) \in StateOf(EntityOf(c))
           /\ TargetState(c) \in State
           /\ c.event_id \in Events
           /\ c.event_timestamp \in Timestamps
<1>1. CASE c \in CanonicalShipmentEvent
  BY <1>1 DEF CanonicalShipmentEvent, EntityOf, Entity, TargetState, StateOf, State,
     SHIPMENT_EVENT_TO_STATE, ShipmentEventType, ShipmentState
<1>2. CASE c \in CanonicalInvoiceEvent
  BY <1>2 DEF CanonicalInvoiceEvent, EntityOf, Entity, TargetState, StateOf, State,
     INVOICE_EVENT_TO_STATE, InvoiceEventType, InvoiceState
<1> QED  BY <1>1, <1>2 DEF ClassifiedEvent

\* Every canonical event carries an event id.
LEMMA CanonicalType ==
    ASSUME NEW c \in CanonicalEvent
    PROVE  c.event_id \in Events
BY ClassifiedType DEF CanonicalEvent, CanonicalUnclassifiedEvent

\* The INSERT and the UPDATE write well-typed rows; the UPDATE increments the
\* version.
LEMMA RowType ==
    ASSUME NEW c \in ClassifiedEvent
    PROVE  /\ InitialRow(c) \in Row
           /\ InitialRow(c).version = 1
           /\ InitialRow(c).state \in StateOf(EntityOf(c))
           /\ InitialRow(c).last_applied_event_id = c.event_id
           /\ InitialRow(c) # NoRow
           /\ \A r \in Row : /\ UpdatedRow(r, c) \in Row
                             /\ UpdatedRow(r, c).version = r.version + 1
                             /\ UpdatedRow(r, c).state \in StateOf(EntityOf(c))
                             /\ UpdatedRow(r, c).last_applied_event_id = c.event_id
                             /\ UpdatedRow(r, c) # NoRow
BY ClassifiedType, NoRowAssumption DEF InitialRow, UpdatedRow, Row

-----------------------------------------------------------------------------
\* The tables start empty and consistent.
LEMMA SerialInitInv == SerialInit => SerialInv
<1> SUFFICES ASSUME SerialInit PROVE SerialInv
  OBVIOUS
<1> USE DEF SerialInit, TablesInit
<1>1. TablesTypeOK
  BY DEF TablesTypeOK, Status
<1>2. FiniteObserved
  BY FS_EmptySet DEF FiniteObserved
<1>3. Accounting
  BY FS_EmptySet DEF Accounting, Version
<1>4. Referential
  BY DEF Referential
<1>5. CanonicalApplied
  BY NoRowAssumption DEF CanonicalApplied, CanonicalEvent
<1> QED  BY <1>1, <1>2, <1>3, <1>4, <1>5 DEF SerialInv

-----------------------------------------------------------------------------
(* Each kind of step preserves the invariant. *)

\* A step that writes `row' as the version after the current one keeps the
\* books: one event more observed, one version more.
LEMMA MovePreserves ==
    ASSUME SerialInv, NEW c \in Readings, c \in ClassifiedEvent,
           c.event_id \notin applied_events[EntityOf(c)],
           NEW row \in Row, row # NoRow,
           row.version = Version(EntityOf(c)) + 1,
           row.last_applied_event_id = c.event_id,
           row.state \in StateOf(EntityOf(c)),
           Move(c, row)
    PROVE  SerialInv'
<1> DEFINE n == EntityOf(c)
<1> USE DEF SerialInv
<1>0. /\ n \in Entity /\ c.event_id \in Events /\ c \in CanonicalEvent
  BY ClassifiedType DEF CanonicalEvent
<1> HIDE DEF n
<1>m. /\ canonical_events' = [canonical_events EXCEPT ![c.event_id] = c]
      /\ processing_status' = [processing_status EXCEPT ![c.event_id] = "processed"]
      /\ requires_human_review' = requires_human_review
      /\ entities' = entities \cup {n}
      /\ applied_events' = [applied_events EXCEPT ![n] = applied_events[n] \cup {c.event_id}]
      /\ projection' = [projection EXCEPT ![n] = row]
      /\ stale_event_log' = stale_event_log
  BY DEF Move, Record, n
<1>1. TablesTypeOK'
  BY <1>0, <1>m DEF TablesTypeOK, Status, n
<1>2. FiniteObserved'
  BY <1>0, <1>m, FS_AddElement DEF FiniteObserved, TablesTypeOK
<1>3. Accounting'
  <2> SUFFICES ASSUME NEW m \in Entity
               PROVE  (Version(m) + Len(stale_event_log[m]) = Cardinality(applied_events[m]))'
    BY DEF Accounting
  <2>1. CASE m = n
    <3>1. Cardinality(applied_events'[n]) = Cardinality(applied_events[n]) + 1
      BY <1>0, <1>m, FS_AddElement DEF FiniteObserved, TablesTypeOK, n
    <3>2. Version(n)' = Version(n) + 1
      BY <1>0, <1>m DEF Version, TablesTypeOK, n
    <3>3. Version(n) \in Nat /\ Len(stale_event_log[n]) \in Nat
      BY <1>0 DEF Version, TablesTypeOK, Row
    <3>4. Version(n) + Len(stale_event_log[n]) = Cardinality(applied_events[n])
      BY <1>0 DEF Accounting
    <3> QED  BY <2>1, <3>1, <3>2, <3>3, <3>4, <1>m
  <2>2. CASE m # n
    BY <2>2, <1>0, <1>m DEF Accounting, Version, TablesTypeOK
  <2> QED  BY <2>1, <2>2
<1>4. Referential'
  BY <1>0, <1>m DEF Referential, TablesTypeOK, n
<1>5. CanonicalApplied'
  BY <1>0, <1>m, NoRowAssumption DEF CanonicalApplied, TablesTypeOK, n
<1> QED  BY <1>1, <1>2, <1>3, <1>4, <1>5

\* A logged event keeps the books: one event more observed, one log entry more.
LEMMA LogPreserves ==
    ASSUME SerialInv, NEW c \in Readings, c \in ClassifiedEvent,
           c.event_id \notin applied_events[EntityOf(c)],
           projection[EntityOf(c)] # NoRow,
           NEW reason \in StaleReason, Log(c, reason)
    PROVE  SerialInv'
<1> DEFINE n == EntityOf(c)
           entry == [event_id |-> c.event_id, reason |-> reason]
<1> USE DEF SerialInv
<1>0. /\ n \in Entity /\ c.event_id \in Events /\ c \in CanonicalEvent
      /\ projection[n] # NoRow /\ n \in entities
  BY ClassifiedType DEF CanonicalEvent, Referential
<1>e. entry \in LogEntry /\ entry.event_id = c.event_id
  BY <1>0 DEF LogEntry
<1>m. /\ canonical_events' = [canonical_events EXCEPT ![c.event_id] = c]
      /\ processing_status' = [processing_status EXCEPT ![c.event_id] = "processed"]
      /\ requires_human_review' = requires_human_review
      /\ entities' = entities /\ projection' = projection
      /\ applied_events' = [applied_events EXCEPT ![n] = applied_events[n] \cup {c.event_id}]
      /\ stale_event_log' = [stale_event_log EXCEPT ![n] = Append(stale_event_log[n], entry)]
  BY DEF Log, Record
<1> HIDE DEF n, entry
<1>l. /\ stale_event_log[n] \in Seq(LogEntry)
      /\ Append(stale_event_log[n], entry) \in Seq(LogEntry)
      /\ Len(Append(stale_event_log[n], entry)) = Len(stale_event_log[n]) + 1
      /\ \A i \in 1..Len(stale_event_log[n]) + 1 :
            Append(stale_event_log[n], entry)[i] =
               IF i = Len(stale_event_log[n]) + 1 THEN entry ELSE stale_event_log[n][i]
  BY <1>0, <1>e DEF TablesTypeOK
<1>1. TablesTypeOK'
  BY <1>0, <1>m, <1>l DEF TablesTypeOK, Status
<1>2. FiniteObserved'
  BY <1>0, <1>m, FS_AddElement DEF FiniteObserved, TablesTypeOK
<1>3. Accounting'
  <2> SUFFICES ASSUME NEW m \in Entity
               PROVE  (Version(m) + Len(stale_event_log[m]) = Cardinality(applied_events[m]))'
    BY DEF Accounting
  <2>1. CASE m = n
    <3>1. Cardinality(applied_events'[n]) = Cardinality(applied_events[n]) + 1
      BY <1>0, <1>m, FS_AddElement DEF FiniteObserved, TablesTypeOK, n
    <3>2. Version(n)' = Version(n)
      BY <1>m DEF Version
    <3>3. Version(n) \in Nat /\ Len(stale_event_log[n]) \in Nat
      BY <1>0 DEF Version, TablesTypeOK, Row
    <3>4. Version(n) + Len(stale_event_log[n]) = Cardinality(applied_events[n])
      BY <1>0 DEF Accounting
    <3>5. Len(stale_event_log'[n]) = Len(stale_event_log[n]) + 1
      BY <1>0, <1>m, <1>l DEF TablesTypeOK
    <3> QED  BY <2>1, <3>1, <3>2, <3>3, <3>4, <3>5
  <2>2. CASE m # n
    BY <2>2, <1>0, <1>m DEF Accounting, Version, TablesTypeOK
  <2> QED  BY <2>1, <2>2
<1>4. Referential'
  <2> SUFFICES ASSUME NEW m \in Entity
               PROVE  /\ m \in entities' <=> projection'[m] # NoRow
                      /\ m \in entities' <=> applied_events'[m] # {}
                      /\ projection'[m] # NoRow =>
                            projection'[m].last_applied_event_id \in applied_events'[m]
                      /\ \A i \in 1..Len(stale_event_log'[m]) :
                            stale_event_log'[m][i].event_id \in applied_events'[m]
    BY DEF Referential
  <2>1. CASE m = n
    BY <2>1, <1>0, <1>e, <1>m, <1>l DEF Referential, TablesTypeOK
  <2>2. CASE m # n
    BY <2>2, <1>0, <1>m DEF Referential, TablesTypeOK
  <2> QED  BY <2>1, <2>2
<1>5. CanonicalApplied'
  BY <1>0, <1>m, NoRowAssumption DEF CanonicalApplied, TablesTypeOK, n
<1> QED  BY <1>1, <1>2, <1>3, <1>4, <1>5

\* Recording a reading that moves nothing, and changing a status, touch no
\* projection.
LEMMA RecordPreserves ==
    ASSUME SerialInv, NEW c \in Readings, RecordOnly(c)
    PROVE  SerialInv'
<1> USE DEF SerialInv
<1>0. c \in CanonicalEvent /\ c.event_id \in Events
  BY ReadingsAssumption, CanonicalType
<1> USE DEF RecordOnly, Record
<1>1. TablesTypeOK'
  BY <1>0 DEF TablesTypeOK, Status
<1>2. FiniteObserved' /\ Accounting' /\ Referential'
  BY DEF FiniteObserved, Accounting, Referential, Version
<1>3. CanonicalApplied'
  BY <1>0, NoRowAssumption DEF CanonicalApplied, TablesTypeOK
<1> QED  BY <1>1, <1>2, <1>3

\* The same of an attempt that ends without a canonical event.
LEMMA StatusPreserves ==
    ASSUME SerialInv, NEW e \in Events,
           Review(e) \/ SetStatus(e, "pending_llm") \/ SetStatus(e, "failed")
    PROVE  SerialInv'
<1> USE DEF SerialInv, Review, SetStatus
<1>1. TablesTypeOK'
  BY DEF TablesTypeOK, Status
<1>2. FiniteObserved' /\ Accounting' /\ Referential'
  BY DEF FiniteObserved, Accounting, Referential, Version
<1>3. CanonicalApplied'
  BY DEF CanonicalApplied, TablesTypeOK
<1> QED  BY <1>1, <1>2, <1>3

\* Truncation goes back to the initial state.
LEMMA TruncatePreserves == Truncate => SerialInv'
<1> SUFFICES ASSUME Truncate PROVE SerialInv'
  OBVIOUS
<1> USE DEF Truncate
<1>1. TablesTypeOK'
  BY DEF TablesTypeOK, Status
<1>2. FiniteObserved'
  BY FS_EmptySet DEF FiniteObserved
<1>3. Accounting'
  BY FS_EmptySet DEF Accounting, Version
<1>4. Referential'
  BY DEF Referential
<1>5. CanonicalApplied'
  BY NoRowAssumption DEF CanonicalApplied, CanonicalEvent
<1> QED  BY <1>1, <1>2, <1>3, <1>4, <1>5 DEF SerialInv

-----------------------------------------------------------------------------
\* Every step of the serial specification preserves the invariant.
LEMMA SerialStep == SerialInv /\ [SerialNext]_tables => SerialInv'
<1> SUFFICES ASSUME SerialInv, [SerialNext]_tables PROVE SerialInv'
  OBVIOUS
<1>1. ASSUME NEW c \in Readings, Process(c) PROVE SerialInv'
  <2>1. CASE RecordOnly(c)
    BY <2>1, RecordPreserves
  <2>2. CASE /\ c \in ClassifiedEvent
             /\ c.event_id \notin applied_events[EntityOf(c)]
             /\ ApplyInitial(c) \/ Apply(c) \/ SkipStale(c) \/ RejectTransition(c)
    <3> DEFINE r == projection[EntityOf(c)]
    <3>0. EntityOf(c) \in Entity /\ r \in Row \cup {NoRow}
      BY <2>2, ClassifiedType DEF SerialInv, TablesTypeOK
    <3>1. CASE ApplyInitial(c)
      BY <2>2, <3>1, RowType, MovePreserves DEF ApplyInitial, Version
    <3>2. CASE Apply(c)
      BY <2>2, <3>0, <3>2, RowType, MovePreserves DEF Apply, Version
    <3>3. CASE SkipStale(c)
      BY <2>2, <3>3, LogPreserves DEF SkipStale, StaleReason
    <3>4. CASE RejectTransition(c)
      BY <2>2, <3>4, LogPreserves DEF RejectTransition, StaleReason
    <3> QED  BY <2>2, <3>1, <3>2, <3>3, <3>4
  <2> QED  BY <1>1, <2>1, <2>2 DEF Process
<1>2. ASSUME NEW e \in Events,
             Review(e) \/ SetStatus(e, "pending_llm") \/ SetStatus(e, "failed")
      PROVE SerialInv'
  BY <1>2, StatusPreserves
<1>3. CASE Truncate
  BY <1>3, TruncatePreserves
<1>4. CASE UNCHANGED tables
  BY <1>4 DEF tables, SerialInv, TablesTypeOK, FiniteObserved, Accounting, Version,
     Referential, CanonicalApplied
<1> QED  BY <1>1, <1>2, <1>3, <1>4 DEF SerialNext

\* An accepted event moves its row forward.
LEMMA SerialForward ==
    ASSUME SerialInv, [SerialNext]_tables, NEW n \in Entity,
           projection[n] # NoRow, projection'[n] # projection[n]
    PROVE  projection' = [m \in Entity |-> NoRow] \/ MovesForward(n)
<1>1. ASSUME NEW c \in Readings, c \in ClassifiedEvent,
             c.event_id \notin applied_events[EntityOf(c)], Apply(c)
      PROVE  MovesForward(n)
  <2> DEFINE r == projection[n]
  <2>1. n = EntityOf(c)
    BY <1>1, ClassifiedType DEF Apply, Move, SerialInv, TablesTypeOK
  <2>2. /\ r \in Row /\ r.state \in StateOf(n) /\ r.version \in Nat
        /\ r.last_applied_ts \in Int /\ c.event_timestamp \in Int
    BY <1>1, ClassifiedType, TimestampsAssumption DEF SerialInv, TablesTypeOK, Row
  <2>3. /\ projection'[n] = UpdatedRow(r, c)
        /\ applied_events'[n] = applied_events[n] \cup {c.event_id}
        /\ ~IsStale(r, c) /\ IsAllowed(r, c)
    BY <1>1, <2>1, ClassifiedType DEF Apply, Move, SerialInv, TablesTypeOK
  <2>4. c.event_timestamp >= r.last_applied_ts
    BY <2>2, <2>3 DEF IsStale
  <2>5. ASSUME TargetState(c) # r.state
        PROVE  /\ r.state \notin TerminalState
               /\ \/ r.state \in ShipmentState /\ TargetState(c) \in SHIPMENT_TRANSITIONS[r.state]
                  \/ r.state \in InvoiceState /\ TargetState(c) \in INVOICE_TRANSITIONS[r.state]
    <3>1. CASE c \in CanonicalShipmentEvent
      <4>1. r.state \in ShipmentState /\ TargetState(c) \in SHIPMENT_TRANSITIONS[r.state]
        BY <3>1, <2>1, <2>2, <2>3
           DEF CanonicalShipmentEvent, EntityOf, StateOf, IsAllowed
      <4> QED
        BY <4>1 DEF ShipmentState, SHIPMENT_TRANSITIONS, TerminalState
    <3>2. CASE c \in CanonicalInvoiceEvent
      <4>1. r.state \in InvoiceState /\ TargetState(c) \in INVOICE_TRANSITIONS[r.state]
        BY <3>2, <2>1, <2>2, <2>3, <2>5
           DEF CanonicalInvoiceEvent, EntityOf, StateOf, IsAllowed
      <4> QED
        BY <4>1 DEF InvoiceState, INVOICE_TRANSITIONS, TerminalState
    <3> QED  BY <1>1, <3>1, <3>2 DEF ClassifiedEvent
  <2>6. /\ UpdatedRow(r, c).state = TargetState(c)
        /\ UpdatedRow(r, c).version = r.version + 1
        /\ UpdatedRow(r, c).last_applied_ts = c.event_timestamp
        /\ UpdatedRow(r, c).last_applied_event_id = c.event_id
    BY DEF UpdatedRow
  <2> QED
    BY <1>1, <2>1, <2>3, <2>4, <2>5, <2>6 DEF MovesForward
<1>2. ASSUME NEW c \in Readings, c \in ClassifiedEvent, ApplyInitial(c) PROVE FALSE
  BY <1>2, ClassifiedType DEF ApplyInitial, Move, SerialInv, TablesTypeOK
<1>3. ASSUME NEW c \in Readings, RecordOnly(c) \/ SkipStale(c) \/ RejectTransition(c) PROVE FALSE
  BY <1>3 DEF RecordOnly, SkipStale, RejectTransition, Log
<1>4. ASSUME NEW e \in Events,
             Review(e) \/ SetStatus(e, "pending_llm") \/ SetStatus(e, "failed") PROVE FALSE
  BY <1>4 DEF Review, SetStatus
<1>5. CASE Truncate
  BY <1>5 DEF Truncate
<1>6. CASE UNCHANGED tables
  BY <1>6 DEF tables
<1> QED  BY <1>1, <1>2, <1>3, <1>4, <1>5, <1>6 DEF SerialNext, Process

-----------------------------------------------------------------------------
\* The serial specification keeps all table invariants.
THEOREM SerialInvariant == SerialSpec => []SerialInv
BY SerialInitInv, SerialStep, PTL DEF SerialSpec

\* The serial specification never moves a projection backward.
THEOREM SerialNeverBackward == SerialSpec => NeverBackward
<1>1. SerialInv /\ [SerialNext]_tables =>
        [\A n \in Entity : projection[n] # NoRow /\ projection'[n] # projection[n] =>
             \/ projection' = [m \in Entity |-> NoRow]
             \/ MovesForward(n)]_tables
  BY SerialForward
<1> QED  BY <1>1, SerialInvariant, PTL DEF SerialSpec, NeverBackward

=============================================================================
