------------------------------ MODULE Service ------------------------------
(***************************************************************************)
(* The whole of the worker: what the attempts of Pipeline extract is what  *)
(* the closing transaction applies to the projections. The transactions of *)
(* the attempts are one step each: ApplyEvent shows that they take effect  *)
(* at one instant. A replay is a truncation and then attempts like all     *)
(* others; the registry, the cache and raw_events.vendor_id survive it.    *)
(*                                                                         *)
(* Bounded: how many events are finalized before no attempt begins         *)
(* (MaxFinalized), and the truncations: one, of tables that are not empty. *)
(***************************************************************************)
EXTENDS Pipeline

CONSTANTS
    Readings,      \* the canonical events that the payloads explain
    MaxFinalized   \* how many transactions of _finalize there are when the last attempt begins

VARIABLES
    entities, applied_events, projection, stale_event_log,
    requires_human_review, processing_status,
    finalized,   \* the canonical events finalized since the last truncation, in order
    before       \* what the truncation wiped: [finalized, projections], or NoRow

derived == <<entities, applied_events, projection, stale_event_log,
             requires_human_review, processing_status>>
history == <<finalized, before>>
serviceVars == <<vars, derived, history>>

-----------------------------------------------------------------------------
(* What may be said of an event. *)

\* The canonical event the closing transaction gets from normalize, which strips
\* its texts and takes its instant to UTC: here both are so already.
Identified(e, r) ==
    IF r.classification = "unclassified"
    THEN [event_id |-> e, classification |-> "unclassified"]
    ELSE [event_id |-> e, classification |-> r.classification, key |-> <<r.vendor_id, r.ext_id>>,
          event_type |-> r.event_type, event_timestamp |-> r.event_timestamp]

\* The vendors an event may be given to: the one that sent it, or else any the
\* model may name.
VendorsOf(e) ==
    IF GivenVendor(e) # "unknown" THEN {GivenVendor(e)}
    ELSE {"unknown"} \cup {a.vendor_id : a \in Answers[e]}

\* The schemas learned from events of the same shape.
ShapeLessons(e) ==
    {l \in Lessons : ShapeOf[l.event_id] = ShapeOf[e]}

\* What the word for the event type may mean; an unclassified event needs none.
MeaningsIn(doc) ==
    IF doc.classification = "unclassified"
    THEN {[classification |-> "unclassified", canonical_state |-> NoRow]} ELSE Meanings

\* What the model may answer for the event's own payload.
ByModel(e, v) == {BuildCanonical([a EXCEPT !.vendor_id = v]) : a \in Answers[e]}

\* What a schema of the event's own shape may read in its payload.
BySchema(e, v) ==
    UNION {{Extract(l.schema_doc, payload[e], v, m) : m \in MeaningsIn(l.schema_doc)} :
             l \in ShapeLessons(e)}

Explanations(e) == (UNION {ByModel(e, v) \cup BySchema(e, v) : v \in VendorsOf(e)}) \ {NoRow}

Explained == UNION {{Identified(e, r) : r \in Explanations(e)} : e \in Events}

\* An instance writes them out; they are computed once, to check that.
ASSUME ReadingsAssumption == Readings = Explained

\* The rows of canonical_events as the transactions see them.
CanonicalRows ==
    [e \in Events |-> IF canonical_events[e] = NoRow THEN NoRow
                                                     ELSE Identified(e, canonical_events[e])]

P == INSTANCE Projections WITH
       Keys <- Vendor \X Ids, Timestamps <- Int,
       canonical_events <- CanonicalRows

ASSUME TablesAssumption == NoRow \notin P!Row /\ NoRow \notin P!CanonicalEvent

-----------------------------------------------------------------------------
\* What tests/test_replay.py takes a snapshot of, and the log.
projections ==
    [entities |-> entities, applied_events |-> applied_events,
     projection |-> projection, stale_event_log |-> stale_event_log]

ProjectionTables ==
    [entities : SUBSET P!Entity, applied_events : [P!Entity -> SUBSET Events],
     projection : [P!Entity -> P!Row \cup {NoRow}],
     stale_event_log : [P!Entity -> Seq(P!LogEntry)]]

ServiceInit ==
    /\ Init
    /\ entities = {}
    /\ applied_events = [n \in P!Entity |-> {}]
    /\ projection = [n \in P!Entity |-> NoRow]
    /\ stale_event_log = [n \in P!Entity |-> <<>>]
    /\ requires_human_review = {}
    /\ processing_status = [e \in Events |-> "queued"]
    /\ finalized = <<>>
    /\ before = NoRow

Finalized == Len(finalized) + IF before = NoRow THEN 0 ELSE Len(before.finalized)

Begin(w, e) ==
    /\ Finalized < MaxFinalized
    /\ StartEvent(w, e)
    /\ UNCHANGED <<derived, history>>

Continue(w) ==
    /\ Work(w)
    /\ UNCHANGED <<derived, history>>

\* The transaction of _finalize: apply_event and the status.
Close(w) ==
    /\ Finalize(w)
    /\ P!Process(Identified(event[w], Override(w)))
    /\ finalized' = Append(finalized, Identified(event[w], Override(w)))
    /\ UNCHANGED before

MarkEvent(w) ==
    /\ Mark(w)
    /\ \/ pc[w] = "mark_review" /\ P!Review(event[w])
       \/ pc[w] = "mark_pending_llm" /\ P!SetStatus(event[w], "pending_llm")
    /\ UNCHANGED history

\* process_webhook marks the event failed, unless the worker has died.
Fail(w) ==
    /\ Raise(w)
    /\ P!SetStatus(event[w], "failed") \/ UNCHANGED derived
    /\ UNCHANGED history

\* replay --truncate-projections, before it lets the attempts begin.
Replay ==
    /\ before = NoRow /\ finalized # <<>>
    /\ canonical_events' = [e \in Events |-> NoRow]
    /\ P!Truncate
    /\ finalized' = <<>>
    /\ before' = [finalized |-> finalized, projections |-> projections]
    /\ UNCHANGED <<registry, vendor_id_column, llm_cache, attempt, llm_type_writes>>

PeopleDecide ==
    /\ Decide
    /\ UNCHANGED <<derived, history>>

ServiceNext ==
    \/ \E w \in Workers, e \in Events : Begin(w, e)
    \/ \E w \in Workers : Continue(w) \/ Close(w) \/ MarkEvent(w) \/ Fail(w)
    \/ Replay
    \/ PeopleDecide

ServiceSpec == ServiceInit /\ [][ServiceNext]_serviceVars

-----------------------------------------------------------------------------
ServiceTypeOK ==
    /\ TypeOK
    /\ P!TablesTypeOK
    /\ finalized \in Seq(Readings)
    /\ before \in [finalized : Seq(Readings), projections : ProjectionTables] \cup {NoRow}

\* Whatever the workers learn, share and race for, the projections are those of
\* some serial processing of canonical events that the events' own payloads
\* explain: an attempt applies what the model may answer for its payload or what
\* a schema learned from the same shape reads there, for the vendor that sent it,
\* never what belongs to another event, shape or vendor.
ProjectionsExplained == P!SerialSpec

\* The entities of the vendor that the explanations name.
IdentitiesOf(e) ==
    {<<r.classification, r.ext_id>> : r \in {s \in Explanations(e) : s.classification # "unclassified"}}

\* The events of a known vendor whose explanations agree on the entity.
Unambiguous == {e \in Events : GivenVendor(e) # "unknown" /\ \A i, j \in IdentitiesOf(e) : i = j}

\* Such an event is observed for that entity alone, however often it is
\* processed, by whichever path, with whatever schema, and whomever the model
\* takes for the vendor: the vendor of raw_events, the key of the cache and the
\* override never disagree.
OneEntity ==
    \A e \in Unambiguous :
        \A m, n \in P!Entity : e \in applied_events[m] /\ e \in applied_events[n] => m = n

\* The contract of event sourcing that replay.py rests on: the projections are
\* determined by the canonical events finalized since the last truncation, in their
\* order, and by nothing else. Nothing survives a truncation that apply_event reads,
\* and neither what was learned meanwhile nor the attempts that the truncation
\* found half done leave a trace in them.
SameEventsSameProjections ==
    before # NoRow /\ finalized = before.finalized => projections = before.projections

EventsOf(log) == [i \in DOMAIN log |-> log[i].event_id]

\* What tests/test_replay.py says: a replay of the same events in the same order
\* yields identical projections. The first event of a shape was read by the
\* model, and is read by the schema it taught when it is replayed, so this does
\* not hold.
ReplayReproduces ==
    before # NoRow /\ EventsOf(finalized) = EventsOf(before.finalized) =>
        projection = before.projections.projection

=============================================================================
