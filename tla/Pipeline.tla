------------------------------ MODULE Pipeline ------------------------------
(***************************************************************************)
(* process_event of app/workers/pipeline.py, run by several workers over   *)
(* one schema registry: Path A reads an event with a learned schema, Path  *)
(* B asks the language model and learns. Each database statement and each  *)
(* call of the model is a step; no transaction spans them.                 *)
(*                                                                         *)
(* The ingested events are given. What the closing transaction and the two *)
(* mark_ statements do beyond canonical_events and raw_events.vendor_id is *)
(* in ApplyEvent, the inside of the model calls in LLMFallback: here the   *)
(* model answers, fails or is out of budget. Nothing in src/ reads         *)
(* success_count and failure_count; they are left out.                     *)
(***************************************************************************)
EXTENDS Registry

CONSTANTS
    Workers,     \* arq job slots
    Flaky        \* the events during whose attempts calls fail, budgets run
                 \* out and workers die

ASSUME FlakyAssumption == Flaky \subseteq Events

ASSUME WorkersAssumption == IsFiniteSet(Workers)

VARIABLES
    vendor_id_column,   \* raw_events.vendor_id
    canonical_events,   \* the canonical event of each raw event
    llm_cache,          \* the answers kept for (vendor hint, payload)
    pc, event,          \* what each worker does next, and to which event
    vendor_id,          \* the vendor it has resolved
    schema_match,       \* the schema_doc the lookup gave it
    mapping,            \* the meaning of the raw event type
    answer,             \* the answer of the model
    canonical,          \* the canonical event to be finalized
    llm_type_writes     \* how often an answer about a raw event type was stored

attempt == <<pc, event, vendor_id, schema_match, mapping, answer, canonical>>
results == <<vendor_id_column, canonical_events>>
vars == <<registry, results, llm_cache, attempt, llm_type_writes>>

Statement == {"idle", "lookup", "lookup_event_type", "classify_event_type", "persist_event_type",
              "classify_extract", "complete", "discover", "discover_event_type",
              "finalize", "mark_pending_llm", "mark_review"}

TypeOK ==
    /\ RegistryTypeOK
    /\ vendor_id_column \in [Events -> Vendor \cup {NoRow}]
    /\ canonical_events \in [Events -> Reading \cup {NoRow}]
    /\ llm_cache \in [Vendor \X Events -> Answer \cup {NoRow}]
    /\ pc \in [Workers -> Statement]
    /\ event \in [Workers -> Events \cup {NoRow}]
    /\ vendor_id \in [Workers -> Vendor]
    /\ schema_match \in [Workers -> SchemaDoc \cup {NoRow}]
    /\ mapping \in [Workers -> Mapping \cup {NoRow}]
    /\ answer \in [Workers -> Answer \cup {NoRow}]
    /\ canonical \in [Workers -> Reading \cup {NoRow}]
    /\ llm_type_writes \in [Vendor \X Values -> Nat]

Init ==
    /\ RegistryInit
    /\ vendor_id_column = vendor_hint
    /\ canonical_events = [e \in Events |-> NoRow]
    /\ llm_cache = [k \in Vendor \X Events |-> NoRow]
    /\ pc = [w \in Workers |-> "idle"]
    /\ event = [w \in Workers |-> NoRow]
    /\ vendor_id = [w \in Workers |-> "unknown"]
    /\ schema_match = [w \in Workers |-> NoRow]
    /\ mapping = [w \in Workers |-> NoRow]
    /\ answer = [w \in Workers |-> NoRow]
    /\ canonical = [w \in Workers |-> NoRow]
    /\ llm_type_writes = [k \in Vendor \X Values |-> 0]

-----------------------------------------------------------------------------
PayloadOf(w) == payload[event[w]]

\* A bug to be caught: any schema of the vendor is taken.
SchemaKey_AnyOfVendor(w) ==
    LET known == {s \in Shapes : vendor_schemas[<<vendor_id[w], s>>] # NoRow} IN
    <<vendor_id[w], IF known = {} THEN ShapeOf[event[w]]
                                  ELSE CHOOSE s \in known : TRUE>>

SchemaKey(w) == <<vendor_id[w], ShapeOf[event[w]]>>
EventTypeKey(w) == <<vendor_id[w], RawEventType(schema_match[w], PayloadOf(w))>>
CacheKey(w) == <<vendor_id[w], event[w]>>

Goto(w, statement) == pc' = [pc EXCEPT ![w] = statement]

\* The attempt is over, and its local variables with it.
End(w) ==
    /\ Goto(w, "idle")
    /\ event' = [event EXCEPT ![w] = NoRow]
    /\ vendor_id' = [vendor_id EXCEPT ![w] = "unknown"]
    /\ schema_match' = [schema_match EXCEPT ![w] = NoRow]
    /\ mapping' = [mapping EXCEPT ![w] = NoRow]
    /\ answer' = [answer EXCEPT ![w] = NoRow]
    /\ canonical' = [canonical EXCEPT ![w] = NoRow]

-----------------------------------------------------------------------------
(* process_event up to the choice of a path. *)

\* SELECT vendor_id, payload FROM raw_events; row["vendor_id"] or _infer_vendor_id
StartEvent(w, e) ==
    /\ pc[w] = "idle"
    /\ Goto(w, "lookup")
    /\ event' = [event EXCEPT ![w] = e]
    /\ vendor_id' = [vendor_id EXCEPT ![w] = IF vendor_id_column[e] = NoRow THEN inferred[e]
                                                                  ELSE vendor_id_column[e]]
    /\ UNCHANGED <<registry, results, llm_cache, schema_match, mapping, answer, canonical,
                   llm_type_writes>>

\* registry.lookup and the first pass of the extraction.
Lookup(w) ==
    LET row == vendor_schemas[SchemaKey(w)]
        doc == IF row = NoRow THEN NoRow
               ELSE IF row.status \in {"provisional", "active"} THEN row.schema_doc ELSE NoRow
        unclassified == doc # NoRow /\ doc.classification = "unclassified" IN
    /\ pc[w] = "lookup"
    /\ schema_match' = [schema_match EXCEPT ![w] = doc]
    /\ canonical' = [canonical EXCEPT ![w] =
         IF unclassified
         THEN Extract(doc, PayloadOf(w), vendor_id[w],
                      [classification |-> "unclassified", canonical_state |-> NoRow])
         ELSE @]
    /\ \/ unclassified /\ Goto(w, "finalize")
       \/ doc # NoRow /\ ~unclassified /\ RawEventType(doc, PayloadOf(w)) # NoRow
          /\ Goto(w, "lookup_event_type")
       \/ doc # NoRow /\ ~unclassified /\ RawEventType(doc, PayloadOf(w)) = NoRow
          /\ Goto(w, "classify_extract")
       \/ doc = NoRow /\ Goto(w, "classify_extract")
    /\ UNCHANGED <<registry, results, llm_cache, event, vendor_id, mapping, answer, llm_type_writes>>

-----------------------------------------------------------------------------
(* Path A *)

\* The second pass of the extraction: it succeeds, or the event goes to Path B.
SecondPass(w, m) ==
    LET c == Extract(schema_match[w], PayloadOf(w), vendor_id[w], m) IN
    /\ canonical' = [canonical EXCEPT ![w] = c]
    /\ mapping' = [mapping EXCEPT ![w] = NoRow]
    /\ Goto(w, IF c = NoRow THEN "classify_extract" ELSE "finalize")

\* A bug to be caught: only what a person has reviewed is taken from the map.
LookupEventType_ReviewedOnly(w) ==
    LET row == vendor_event_type_map[EventTypeKey(w)] IN
    /\ pc[w] = "lookup_event_type"
    /\ IF row # NoRow /\ row.reviewed_by_human
       THEN SecondPass(w, row.mapping)
       ELSE Goto(w, "classify_event_type") /\ UNCHANGED <<canonical, mapping>>
    /\ UNCHANGED <<registry, results, llm_cache, event, vendor_id, schema_match, answer,
                   llm_type_writes>>

LookupEventType(w) ==
    LET row == vendor_event_type_map[EventTypeKey(w)] IN
    /\ pc[w] = "lookup_event_type"
    /\ \/ row # NoRow /\ SecondPass(w, row.mapping)
       \/ row = NoRow /\ Goto(w, "classify_event_type") /\ UNCHANGED <<canonical, mapping>>
    /\ UNCHANGED <<registry, results, llm_cache, event, vendor_id, schema_match, answer,
                   llm_type_writes>>

\* classify_event_type, from the cache or by the model; None means Path B.
ClassifyEventType(w) ==
    /\ pc[w] = "classify_event_type"
    /\ \/ \E m \in TypeAnswers : /\ mapping' = [mapping EXCEPT ![w] = m]
                                 /\ Goto(w, "persist_event_type")
       \/ event[w] \in Flaky /\ Goto(w, "classify_extract") /\ UNCHANGED mapping
    /\ UNCHANGED <<registry, results, llm_cache, event, vendor_id, schema_match, answer, canonical,
                   llm_type_writes>>

\* A bug to be caught: the upsert without its WHERE clause.
PersistEventType_Always(w) ==
    LET k == EventTypeKey(w) IN
    /\ pc[w] = "persist_event_type"
    /\ vendor_event_type_map' = [vendor_event_type_map EXCEPT ![k] =
                                   [mapping |-> mapping[w], reviewed_by_human |-> FALSE]]
    /\ llm_type_writes' = [llm_type_writes EXCEPT ![k] = @ + 1]
    /\ SecondPass(w, mapping[w])
    /\ UNCHANGED <<vendor_schemas, results, llm_cache, event, vendor_id, schema_match, answer>>

\* registry.persist_event_type, an upsert that spares the rows a person has
\* reviewed; this attempt goes on with the model's answer all the same.
PersistEventType(w) ==
    LET k == EventTypeKey(w)
        row == vendor_event_type_map[k]
        writes == row = NoRow \/ ~row.reviewed_by_human IN
    /\ pc[w] = "persist_event_type"
    /\ vendor_event_type_map' =
         IF writes THEN [vendor_event_type_map EXCEPT ![k] =
                           [mapping |-> mapping[w], reviewed_by_human |-> FALSE]]
                   ELSE vendor_event_type_map
    /\ llm_type_writes' = [llm_type_writes EXCEPT ![k] = IF writes THEN @ + 1 ELSE @]
    /\ SecondPass(w, mapping[w])
    /\ UNCHANGED <<vendor_schemas, results, llm_cache, event, vendor_id, schema_match, answer>>

-----------------------------------------------------------------------------
(* Path B *)

\* universal.normalize: a cached answer teaches nothing. One of which no
\* canonical event can be made stays in the cache all the same.
ExtractFromCache(w) ==
    LET c == BuildCanonical(llm_cache[CacheKey(w)]) IN
    /\ pc[w] = "classify_extract"
    /\ llm_cache[CacheKey(w)] # NoRow
    /\ canonical' = [canonical EXCEPT ![w] = c]
    /\ Goto(w, IF c = NoRow THEN "mark_review" ELSE "finalize")
    /\ UNCHANGED <<registry, results, llm_cache, event, vendor_id, schema_match, mapping, answer,
                   llm_type_writes>>

CacheMiss(w) ==
    /\ pc[w] = "classify_extract"
    /\ llm_cache[CacheKey(w)] = NoRow
    /\ Goto(w, "complete")
    /\ UNCHANGED <<registry, results, llm_cache, event, vendor_id, schema_match, mapping, answer,
                   canonical, llm_type_writes>>

\* The model answers, and the first answer for a payload is kept.
ModelAnswers(w, a) ==
    LET c == BuildCanonical(a) IN
    /\ pc[w] = "complete"
    /\ a \in Answers[event[w]]
    /\ llm_cache' = [llm_cache EXCEPT ![CacheKey(w)] = IF @ = NoRow THEN a ELSE @]
    /\ canonical' = [canonical EXCEPT ![w] = c]
    /\ answer' = [answer EXCEPT ![w] = IF c = NoRow THEN NoRow ELSE a]
    /\ Goto(w, IF c = NoRow THEN "mark_review" ELSE "discover")
    /\ UNCHANGED <<registry, results, event, vendor_id, schema_match, mapping, llm_type_writes>>

\* "deferred" when the budget is exhausted, "unsupported" after two invalid answers.
ModelRefuses(w) ==
    /\ event[w] \in Flaky
    /\ pc[w] = "complete"
    /\ Goto(w, "mark_pending_llm") \/ Goto(w, "mark_review")
    /\ UNCHANGED <<registry, results, llm_cache, event, vendor_id, schema_match, mapping, answer,
                   canonical, llm_type_writes>>

-----------------------------------------------------------------------------
(* discover_and_persist: what it raises is swallowed. *)

\* Discovery is over, and the answer with it.
EndDiscovery(w) ==
    /\ Goto(w, "finalize")
    /\ answer' = [answer EXCEPT ![w] = NoRow]

\* Infer, validate and persist: a row that is not provisional stays, and then
\* no id comes back, which raises and ends the discovery.
Discover(w) ==
    LET p == PayloadOf(w)
        doc == InferSchemaDoc(p, answer[w])
        row == vendor_schemas[SchemaKey(w)]
        persists == /\ Teaches(event[w], answer[w])
                    /\ row = NoRow \/ row.status = "provisional" IN
    /\ pc[w] = "discover"
    /\ vendor_schemas' =
         IF persists
         THEN [vendor_schemas EXCEPT ![SchemaKey(w)] =
                 [schema_doc |-> doc, status |-> "provisional", source_event_id |-> event[w]]]
         ELSE vendor_schemas
    /\ IF persists /\ doc.event_type # NoRow
       THEN Goto(w, "discover_event_type") /\ UNCHANGED answer
       ELSE EndDiscovery(w)
    /\ UNCHANGED <<vendor_event_type_map, results, llm_cache, event, vendor_id, schema_match,
                   mapping, canonical, llm_type_writes>>

\* _persist_event_type of the discoverer: ON CONFLICT DO NOTHING.
DiscoverEventType(w) ==
    LET k == <<vendor_id[w], answer[w].raw_event_type>> IN
    /\ pc[w] = "discover_event_type"
    /\ vendor_event_type_map' = [vendor_event_type_map EXCEPT ![k] =
         IF @ = NoRow THEN [mapping |-> MappingOf(answer[w]), reviewed_by_human |-> FALSE] ELSE @]
    /\ EndDiscovery(w)
    /\ UNCHANGED <<vendor_schemas, results, llm_cache, event, vendor_id, schema_match, mapping,
                   canonical, llm_type_writes>>

DiscoveryFails(w) ==
    /\ event[w] \in Flaky
    /\ pc[w] \in {"discover", "discover_event_type"}
    /\ EndDiscovery(w)
    /\ UNCHANGED <<registry, results, llm_cache, event, vendor_id, schema_match, mapping,
                   canonical, llm_type_writes>>

-----------------------------------------------------------------------------
(* The end of an attempt. *)

\* A bug to be caught: the vendor is taken as the extraction named it.
Override_Never(w) == canonical[w]

\* A bug to be caught: the vendor of the URL overrides, also where there is none.
Override_ByHint(w) == [canonical[w] EXCEPT !.vendor_id = vendor_hint[event[w]]]

\* The vendor the pipeline has resolved overrides the one the model named,
\* unless it is unknown.
Override(w) ==
    IF vendor_id[w] # "unknown" THEN [canonical[w] EXCEPT !.vendor_id = vendor_id[w]]
                                ELSE canonical[w]

\* The transaction of _finalize; raw_events keeps a vendor it has.
Finalize(w) ==
    LET c == Override(w) IN
    /\ pc[w] = "finalize"
    /\ canonical_events' = [canonical_events EXCEPT ![event[w]] = c]
    /\ vendor_id_column' = [vendor_id_column EXCEPT ![event[w]] = IF @ = NoRow THEN c.vendor_id
                                                                              ELSE @]
    /\ End(w)
    /\ UNCHANGED <<registry, llm_cache, llm_type_writes>>

\* _mark_pending_llm or _mark_review.
Mark(w) ==
    /\ pc[w] \in {"mark_pending_llm", "mark_review"}
    /\ End(w)
    /\ UNCHANGED <<registry, results, llm_cache, llm_type_writes>>

\* An exception ends the attempt, or the worker dies.
Raise(w) ==
    /\ event[w] \in Flaky
    /\ pc[w] # "idle"
    /\ End(w)
    /\ UNCHANGED <<registry, results, llm_cache, llm_type_writes>>

-----------------------------------------------------------------------------
\* The steps within an attempt.
Work(w) ==
    \/ Lookup(w)
    \/ LookupEventType(w)
    \/ ClassifyEventType(w)
    \/ PersistEventType(w)
    \/ ExtractFromCache(w)
    \/ CacheMiss(w)
    \/ \E e \in Events : \E a \in Answers[e] : ModelAnswers(w, a)
    \/ ModelRefuses(w)
    \/ Discover(w)
    \/ DiscoverEventType(w)
    \/ DiscoveryFails(w)

Step(w) ==
    \/ Work(w)
    \/ Finalize(w)
    \/ Mark(w)
    \/ Raise(w)

Decide == People /\ UNCHANGED <<results, llm_cache, attempt, llm_type_writes>>

Next ==
    \/ \E w \in Workers, e \in Events : StartEvent(w, e)
    \/ \E w \in Workers : Step(w)
    \/ Decide

Spec == Init /\ [][Next]_vars

-----------------------------------------------------------------------------
\* The workers implement the registry: whatever they race for, a schema they
\* store reads the event it comes from as the model did, and what a person has
\* reviewed, activated or deprecated is not overwritten by any of them.
RegistryKept == RegistrySpec

\* The vendor of the URL, or else the one inferred from the payload.
GivenVendor(e) == IF vendor_hint[e] = NoRow THEN inferred[e] ELSE vendor_hint[e]

\* An event of a known vendor belongs to that vendor, whichever path reads it,
\* however often, and whatever the model names: _finalize overrides the model,
\* and raw_events keeps what the next attempt starts from.
KnownVendorKept ==
    \A e \in Events : GivenVendor(e) # "unknown" =>
        /\ canonical_events[e] # NoRow => canonical_events[e].vendor_id = GivenVendor(e)
        /\ vendor_id_column[e] \in {vendor_hint[e], GivenVendor(e)}

\* The answers of the model about a vendor's word for an event type are stored
\* at most once by each worker, however many events carry the word and however
\* often their attempts fail: _classify_and_persist asks only while the map has
\* no row, and the row never goes away.
ClassifiedOnceEach ==
    \A k \in Vendor \X Values : llm_type_writes[k] <= Cardinality(Workers)

\* What pipeline.py says of the vendor override, "to ensure entity identity
\* stability across Path A and Path B": events that came from the same vendor
\* and name the same external id are of one entity. The override leaves out
\* vendor "unknown", so this does not hold.
IdentityStable ==
    \A e, f \in Events :
        /\ canonical_events[e] # NoRow /\ canonical_events[f] # NoRow
        /\ GivenVendor(e) = GivenVendor(f)
        /\ canonical_events[e].classification = canonical_events[f].classification
        /\ canonical_events[e].ext_id = canonical_events[f].ext_id
        /\ canonical_events[e].ext_id # NoRow
        => canonical_events[e].vendor_id = canonical_events[f].vendor_id

=============================================================================
