-------------------------- MODULE Pipeline_proofs --------------------------
(***************************************************************************)
(* Pipeline, for any events, payloads, vendors, answers of the model and   *)
(* workers: PipelineInv is inductive, so the workers keep the promises of  *)
(* the registry and of the vendor override.                                *)
(***************************************************************************)
EXTENDS Pipeline, InductionLemmas, FiniteSetTheorems, WellFoundedInduction, TLAPS

\* A nonempty set of naturals has a least element, which is the one Min chooses.
LEMMA MinOfNaturals ==
    ASSUME NEW S \in SUBSET Nat, S # {}
    PROVE  Min(S) \in S
<1> DEFINE Less == OpToRel(<, Nat)
<1>1. IsWellFoundedOn(Less, Nat)
  BY NatLessThanWellFounded
<1>2. \A x, y \in Nat : <<y, x>> \in Less <=> y < x
  BY Zenon DEF OpToRel
<1> HIDE DEF Less
<1>3. PICK x \in S : \A y \in S : ~(<<y, x>> \in Less)
  BY <1>1, WFMin
<1>4. \A y \in S : ~(y < x)
  BY <1>2, <1>3, Zenon
<1>5. \A y \in S : x <= y
  BY <1>4
<1> QED  BY <1>5 DEF Min

\* The shortest of the paths of some leaves is one of them, or there is none.
LEMMA ShortestFacts ==
    ASSUME NEW found \in SUBSET DOMAIN Addresses
    PROVE  \/ Shortest(found) = NoRow
           \/ Shortest(found) \in Path /\ \E i \in found : Shortest(found) = PathOf(Addresses[i])
<1>1. CASE found = {}
  BY <1>1 DEF Shortest
<1>2. CASE found # {}
  <2>1. DOMAIN Addresses \subseteq Nat
    BY AddressesAssumption
  <2>2. Min(found) \in found
    BY <1>2, <2>1, MinOfNaturals
  <2> QED  BY <1>2, <2>2 DEF Shortest, Path, Address
<1> QED  BY <1>1, <1>2

\* The path of a value is a path.
LEMMA FindValuePathType ==
    ASSUME NEW p, NEW v
    PROVE  FindValuePath(p, v) \in Path \cup {NoRow}
<1>1. Places(p, {v}) \in SUBSET DOMAIN Addresses
  BY DEF Places
<1> QED  BY <1>1, ShortestFacts DEF FindValuePath

\* The path of a timestamp is a path.
LEMMA FindTimestampType ==
    ASSUME NEW p, NEW v
    PROVE  FindTimestamp(p, v) \in Path \cup {NoRow}
<1> DEFINE found == Places(p, {t \in Values : <<t, v>> \in SameDate})
           named == {i \in found : PathOf(Addresses[i]) \in TimePaths}
<1>1. \/ FindTimestamp(p, v) = FindValuePath(p, v)
      \/ FindTimestamp(p, v) = Shortest(named)
      \/ FindTimestamp(p, v) = Shortest(found)
  BY DEF FindTimestamp
<1>2. found \in SUBSET DOMAIN Addresses /\ named \in SUBSET DOMAIN Addresses
  BY DEF Places
<1> HIDE DEF found, named
<1> QED  BY <1>1, <1>2, ShortestFacts, FindValuePathType

\* A payload has leaves at addresses.
LEMMA LeafType ==
    ASSUME NEW e \in Events, NEW l \in DOMAIN payload[e]
    PROVE  /\ l \in Address
           /\ payload[e][l].text \in Values \cup {Blank}
           /\ payload[e][l].truthy => payload[e][l].text \in Values
<1>1. l \in Address /\ payload[e][l] \in Leaf
  BY PayloadAssumption
<1> HIDE DEF Blank
<1> QED  BY <1>1 DEF Leaf

\* What a path resolves to is a value or nothing.
LEMMA ResolveType ==
    ASSUME NEW e \in Events, NEW path
    PROVE  Resolve(payload[e], path) \in Values \cup {NoRow}
<1> DEFINE l == ParsePath(path)
<1>1. Resolve(payload[e], path) =
        IF path # NoRow /\ l \in DOMAIN payload[e] /\ payload[e][l].truthy
        THEN payload[e][l].text ELSE NoRow
  BY DEF Resolve
<1> HIDE DEF l
<1> QED  BY <1>1, LeafType

\* The fields of a canonical event fit it.
LEMMA CanonicalOfType ==
    ASSUME NEW classification \in Classification, NEW v \in Vendor, NEW id \in Ids \cup {NoRow},
           NEW state, NEW timestamp \in Values \cup {NoRow}
    PROVE  LET c == CanonicalOf(classification, v, id, state, timestamp) IN
           c = NoRow \/ (c \in Reading /\ c.vendor_id = v)
<1>1. timestamp # NoRow => instant[timestamp] \in Int \cup {NoRow}
  BY InstantAssumption
<1> QED  BY <1>1 DEF CanonicalOf, Reading, EventTypes, EventType, Classification

\* An extraction gives a canonical event or nothing, and keeps the vendor.
LEMMA ExtractType ==
    ASSUME NEW doc \in SchemaDoc, NEW e \in Events, NEW v \in Vendor, NEW m \in Mapping
    PROVE  LET c == Extract(doc, payload[e], v, m) IN
           c = NoRow \/ (c \in Reading /\ c.vendor_id = v)
<1>1. Resolve(payload[e], doc.event_timestamp) \in Values \cup {NoRow}
  BY ResolveType
<1>2. doc.entity_external_id \in IdSpec \cup {NoRow}
  BY DEF SchemaDoc
<1>3. ResolveId(payload[e], doc.entity_external_id) \in Ids \cup {NoRow}
  <2>1. CASE doc.entity_external_id = NoRow
    BY <2>1 DEF ResolveId
  <2>2. CASE doc.entity_external_id \in IdSpec
    BY <2>2 DEF Ids
  <2> QED  BY <1>2, <2>1, <2>2
<1>4. m.classification \in Classification
  BY DEF Mapping
<1> QED  BY <1>1, <1>3, <1>4, CanonicalOfType DEF Extract

\* A lesson is a schema.
LEMMA InferType ==
    ASSUME NEW e \in Events, NEW a \in Answers[e]
    PROVE  InferSchemaDoc(payload[e], a) \in SchemaDoc \cup {NoRow}
<1>1. a \in Answer
  BY AnswersAssumption
<1>2. FindId(payload[e], a.ext_id) \in IdSpec \cup {NoRow}
  BY DEF IdSpec
<1>3. /\ FindTimestamp(payload[e], a.event_timestamp) \in Path \cup {NoRow}
      /\ FindValuePath(payload[e], a.raw_event_type) \in Path \cup {NoRow}
  BY FindTimestampType, FindValuePathType
<1> QED  BY <1>1, <1>2, <1>3 DEF InferSchemaDoc, SchemaDoc, Answer, Classification

\* An answer makes a canonical event or none.
LEMMA BuildType ==
    ASSUME NEW a \in Answer
    PROVE  BuildCanonical(a) \in Reading \cup {NoRow}
<1>1. /\ a.classification \in Classification /\ a.vendor_id \in Vendor
      /\ a.ext_id \in Ids \cup {NoRow} /\ a.event_timestamp \in Values \cup {NoRow}
  BY DEF Answer
<1> QED  BY <1>1, CanonicalOfType DEF BuildCanonical

\* What a lesson reads as the event type is the model's word for it.
LEMMA WordOfLesson ==
    ASSUME NEW e \in Events, NEW a \in Answers[e],
           InferSchemaDoc(payload[e], a) # NoRow, InferSchemaDoc(payload[e], a).event_type # NoRow
    PROVE  a.raw_event_type \in Values
<1> DEFINE found == Places(payload[e], {a.raw_event_type})
<1>1. InferSchemaDoc(payload[e], a).event_type = FindValuePath(payload[e], a.raw_event_type)
  BY DEF InferSchemaDoc
<1>2. FindValuePath(payload[e], a.raw_event_type) = Shortest(found)
  BY DEF FindValuePath
<1>3. found # {}
  BY <1>1, <1>2 DEF Shortest
<1>4. PICK i \in found : TRUE
  BY <1>3
<1>5. Addresses[i] \in DOMAIN payload[e] /\ payload[e][Addresses[i]].text = a.raw_event_type
  BY <1>4 DEF Places
<1>6. a.raw_event_type \in Values \cup {Blank}
  BY <1>5, LeafType
<1>7. a.raw_event_type \in Values \cup {NoRow}
  BY AnswersAssumption DEF Answer
<1> QED  BY <1>6, <1>7, PayloadAssumption

\* An event that is unclassified has no identity.
LEMMA UnclassifiedType ==
    ASSUME NEW doc, NEW p, NEW v \in Vendor
    PROVE  Extract(doc, p, v, [classification |-> "unclassified", canonical_state |-> NoRow])
             \in Reading
<1>1. Extract(doc, p, v, [classification |-> "unclassified", canonical_state |-> NoRow]) =
        [classification |-> "unclassified", vendor_id |-> v, ext_id |-> NoRow,
         event_type |-> NoRow, event_timestamp |-> NoRow]
  BY DEF Extract, CanonicalOf
<1> QED  BY <1>1 DEF Reading, Classification

\* An answer is one of the schema, and makes a meaning.
LEMMA AnswerTypes ==
    ASSUME NEW e \in Events, NEW a \in Answers[e]
    PROVE  /\ a \in Answer
           /\ MappingOf(a) \in Mapping /\ MappingOf(a) \in Meanings
<1>1. a \in Answer /\ a \in AllAnswers
  BY AnswersAssumption DEF AllAnswers
<1> QED  BY <1>1 DEF Answer, MappingOf, Mapping, Meanings

-----------------------------------------------------------------------------
(* The inductive invariant. *)

\* What an attempt knows about its event at each statement.
AttemptOK(w) ==
    /\ pc[w] # "idle" => event[w] \in Events
    /\ pc[w] # "idle" /\ GivenVendor(event[w]) # "unknown" => vendor_id[w] = GivenVendor(event[w])
    /\ pc[w] \in {"lookup_event_type", "classify_event_type", "persist_event_type"} =>
         schema_match[w] \in SchemaDoc /\ RawEventType(schema_match[w], PayloadOf(w)) \in Values
    /\ pc[w] = "persist_event_type" => mapping[w] \in TypeAnswers
    /\ pc[w] \in {"discover", "discover_event_type"} => answer[w] \in Answers[event[w]]
    /\ pc[w] = "discover_event_type" => answer[w].raw_event_type \in Values
    /\ pc[w] \in {"discover", "discover_event_type", "finalize"} => canonical[w] \in Reading

\* The attempts that may store an answer about the word for an event type.
Asking(k) == {w \in Workers : /\ pc[w] \in {"classify_event_type", "persist_event_type"}
                              /\ EventTypeKey(w) = k}

\* Only attempts that began before the first answer was stored can store one.
WritesBounded(k) ==
    /\ vendor_event_type_map[k] = NoRow => llm_type_writes[k] = 0
    /\ llm_type_writes[k] + Cardinality(Asking(k)) <= Cardinality(Workers)

PipelineInv ==
    /\ TypeOK
    /\ \A w \in Workers : AttemptOK(w)
    /\ KnownVendorKept
    /\ \A k \in Vendor \X Values : WritesBounded(k)

-----------------------------------------------------------------------------
(* Keys and rows. *)

\* A worker with an event has the key of a schema.
LEMMA SchemaKeyType ==
    ASSUME TypeOK, NEW w \in Workers, event[w] \in Events
    PROVE  SchemaKey(w) \in Vendor \X Shapes
BY DEF TypeOK, SchemaKey, PayloadOf, Shapes

\* A worker with an event has the key of an answer.
LEMMA CacheKeyType ==
    ASSUME TypeOK, NEW w \in Workers, event[w] \in Events
    PROVE  CacheKey(w) \in Vendor \X Events
BY DEF TypeOK, CacheKey

\* A worker that reads with a schema has the key of an event type.
LEMMA EventTypeKeyType ==
    ASSUME TypeOK, NEW w \in Workers, AttemptOK(w),
           pc[w] \in {"lookup_event_type", "classify_event_type", "persist_event_type"}
    PROVE  EventTypeKey(w) \in Vendor \X Values
BY DEF TypeOK, AttemptOK, EventTypeKey

\* The second pass gives a canonical event or nothing.
LEMMA SecondPassType ==
    ASSUME TypeOK, NEW w \in Workers, event[w] \in Events, schema_match[w] \in SchemaDoc,
           NEW m \in Mapping, SecondPass(w, m)
    PROVE  /\ canonical' \in [Workers -> Reading \cup {NoRow}]
           /\ pc' \in [Workers -> Statement]
           /\ mapping' \in [Workers -> Mapping \cup {NoRow}]
<1>1. Extract(schema_match[w], PayloadOf(w), vendor_id[w], m) \in Reading \cup {NoRow}
  BY ExtractType DEF TypeOK, PayloadOf
<1> QED  BY <1>1 DEF SecondPass, Goto, TypeOK, Statement

\* At its end an attempt has no event and no data.
LEMMA EndType ==
    ASSUME TypeOK, NEW w \in Workers, End(w)
    PROVE  /\ pc' \in [Workers -> Statement]
           /\ event' \in [Workers -> Events \cup {NoRow}]
           /\ vendor_id' \in [Workers -> Vendor]
           /\ schema_match' \in [Workers -> SchemaDoc \cup {NoRow}]
           /\ mapping' \in [Workers -> Mapping \cup {NoRow}]
           /\ answer' \in [Workers -> Answer \cup {NoRow}]
           /\ canonical' \in [Workers -> Reading \cup {NoRow}]
BY DEF End, Goto, TypeOK, Statement, Vendor

-----------------------------------------------------------------------------
(* Every step keeps the types. *)

LEMMA TypeOKStart ==
    ASSUME TypeOK, NEW w \in Workers, NEW e \in Events, StartEvent(w, e)
    PROVE  TypeOK'
BY VendorAssumption DEF StartEvent, TypeOK, RegistryTypeOK, Goto, Statement, registry, results

LEMMA TypeOKPathA ==
    ASSUME TypeOK, NEW w \in Workers, AttemptOK(w),
           Lookup(w) \/ LookupEventType(w) \/ ClassifyEventType(w) \/ PersistEventType(w)
    PROVE  TypeOK'
<1>1. CASE Lookup(w)
  <2> DEFINE row == vendor_schemas[SchemaKey(w)]
             doc == IF row = NoRow THEN NoRow
                    ELSE IF row.status \in {"provisional", "active"} THEN row.schema_doc ELSE NoRow
             none == [classification |-> "unclassified", canonical_state |-> NoRow]
             c == Extract(doc, PayloadOf(w), vendor_id[w], none)
  <2>1. event[w] \in Events
    BY <1>1 DEF Lookup, AttemptOK
  <2>2. row \in Schema \cup {NoRow}
    BY <2>1, SchemaKeyType DEF TypeOK, RegistryTypeOK
  <2>3. doc \in SchemaDoc \cup {NoRow}
    BY <2>2 DEF Schema
  <2>4. c \in Reading
    BY UnclassifiedType DEF TypeOK
  <2>5. /\ schema_match' = [schema_match EXCEPT ![w] = doc]
        /\ \/ canonical' = [canonical EXCEPT ![w] = c]
           \/ canonical' = [canonical EXCEPT ![w] = canonical[w]]
        /\ \E s \in Statement : pc' = [pc EXCEPT ![w] = s]
        /\ UNCHANGED <<vendor_schemas, vendor_event_type_map, vendor_id_column, canonical_events,
                       llm_cache, event, vendor_id, mapping, answer, llm_type_writes>>
    BY <1>1 DEF Lookup, Goto, Statement, registry, results
  <2> HIDE DEF doc, c
  <2> QED  BY <2>3, <2>4, <2>5 DEF TypeOK, RegistryTypeOK
<1>2. CASE LookupEventType(w)
  <2>1. /\ event[w] \in Events /\ schema_match[w] \in SchemaDoc
        /\ EventTypeKey(w) \in Vendor \X Values
    BY <1>2, EventTypeKeyType DEF LookupEventType, AttemptOK
  <2>2. vendor_event_type_map[EventTypeKey(w)] \in EventTypeRow \cup {NoRow}
    BY <2>1 DEF TypeOK, RegistryTypeOK
  <2>3. CASE vendor_event_type_map[EventTypeKey(w)] # NoRow
    <3>1. vendor_event_type_map[EventTypeKey(w)].mapping \in Mapping
      BY <2>2, <2>3 DEF EventTypeRow
    <3>2. SecondPass(w, vendor_event_type_map[EventTypeKey(w)].mapping)
      BY <1>2, <2>3 DEF LookupEventType
    <3>3. /\ canonical' \in [Workers -> Reading \cup {NoRow}]
          /\ pc' \in [Workers -> Statement]
          /\ mapping' \in [Workers -> Mapping \cup {NoRow}]
      BY <2>1, <3>1, <3>2, SecondPassType
    <3> QED  BY <1>2, <3>3 DEF LookupEventType, TypeOK, RegistryTypeOK, registry, results
  <2>4. CASE vendor_event_type_map[EventTypeKey(w)] = NoRow
    BY <1>2, <2>4 DEF LookupEventType, TypeOK, RegistryTypeOK, registry, results, Goto, Statement
  <2> QED  BY <2>3, <2>4
<1>3. CASE ClassifyEventType(w)
  BY <1>3, AnswersAssumption
     DEF ClassifyEventType, TypeOK, RegistryTypeOK, registry, results, Goto, Statement
<1>4. CASE PersistEventType(w)
  <2>1. /\ event[w] \in Events /\ schema_match[w] \in SchemaDoc
        /\ EventTypeKey(w) \in Vendor \X Values /\ mapping[w] \in Mapping
    BY <1>4, EventTypeKeyType, AnswersAssumption DEF PersistEventType, AttemptOK
  <2>2. [mapping |-> mapping[w], reviewed_by_human |-> FALSE] \in EventTypeRow
    BY <2>1 DEF EventTypeRow
  <2>3. vendor_event_type_map' \in [Vendor \X Values -> EventTypeRow \cup {NoRow}]
    BY <1>4, <2>1, <2>2 DEF PersistEventType, TypeOK, RegistryTypeOK
  <2>4. llm_type_writes' \in [Vendor \X Values -> Nat]
    BY <1>4, <2>1 DEF PersistEventType, TypeOK
  <2>5. /\ canonical' \in [Workers -> Reading \cup {NoRow}]
        /\ pc' \in [Workers -> Statement]
        /\ mapping' \in [Workers -> Mapping \cup {NoRow}]
    BY <1>4, <2>1, SecondPassType DEF PersistEventType
  <2> QED  BY <1>4, <2>3, <2>4, <2>5 DEF PersistEventType, TypeOK, RegistryTypeOK, results
<1> QED  BY <1>1, <1>2, <1>3, <1>4

LEMMA TypeOKPathB ==
    ASSUME TypeOK, NEW w \in Workers, AttemptOK(w),
           \/ ExtractFromCache(w) \/ CacheMiss(w) \/ ModelRefuses(w)
           \/ \E a \in Answer : ModelAnswers(w, a)
           \/ Discover(w) \/ DiscoverEventType(w) \/ DiscoveryFails(w)
    PROVE  TypeOK'
<1>1. pc[w] # "idle" => event[w] \in Events
  BY DEF AttemptOK
<1>2. CASE ExtractFromCache(w)
  <2>1. llm_cache[CacheKey(w)] \in Answer
    BY <1>1, <1>2, CacheKeyType DEF ExtractFromCache, TypeOK
  <2>2. BuildCanonical(llm_cache[CacheKey(w)]) \in Reading \cup {NoRow}
    BY <2>1, BuildType
  <2> QED  BY <1>2, <2>2
      DEF ExtractFromCache, TypeOK, RegistryTypeOK, registry, results, Goto, Statement
<1>3. CASE CacheMiss(w)
  BY <1>3 DEF CacheMiss, TypeOK, RegistryTypeOK, registry, results, Goto, Statement
<1>4. CASE ModelRefuses(w)
  BY <1>4 DEF ModelRefuses, TypeOK, RegistryTypeOK, registry, results, Goto, Statement
<1>5. ASSUME NEW a \in Answer, ModelAnswers(w, a) PROVE TypeOK'
  <2>1. BuildCanonical(a) \in Reading \cup {NoRow}
    BY BuildType
  <2>2. llm_cache' \in [Vendor \X Events -> Answer \cup {NoRow}]
    BY <1>5 DEF ModelAnswers, TypeOK
  <2> QED  BY <1>5, <2>1, <2>2
      DEF ModelAnswers, TypeOK, RegistryTypeOK, registry, results, Goto, Statement
<1>6. CASE Discover(w)
  <2> DEFINE lesson == InferSchemaDoc(PayloadOf(w), answer[w])
             taught == [schema_doc |-> lesson, status |-> "provisional",
                        source_event_id |-> event[w]]
  <2>1. event[w] \in Events /\ answer[w] \in Answers[event[w]]
    BY <1>1, <1>6 DEF Discover, AttemptOK
  <2>2. lesson \in SchemaDoc \cup {NoRow}
    BY <2>1, InferType DEF PayloadOf
  <2>3. lesson # NoRow => taught \in Schema
    BY <2>1, <2>2 DEF Schema
  <2>4. \/ vendor_schemas' = vendor_schemas
        \/ vendor_schemas' = [vendor_schemas EXCEPT ![SchemaKey(w)] = taught] /\ lesson # NoRow
    BY <1>6 DEF Discover, Teaches, PayloadOf
  <2>5. vendor_schemas' \in [Vendor \X Shapes -> Schema \cup {NoRow}]
    BY <2>3, <2>4 DEF TypeOK, RegistryTypeOK
  <2>6. pc' \in [Workers -> Statement] /\ answer' \in [Workers -> Answer \cup {NoRow}]
    BY <1>6 DEF Discover, EndDiscovery, TypeOK, Goto, Statement
  <2> QED  BY <1>6, <2>5, <2>6 DEF Discover, TypeOK, RegistryTypeOK, results
<1>7. CASE DiscoverEventType(w)
  <2> DEFINE k == <<vendor_id[w], answer[w].raw_event_type>>
             taught == [mapping |-> MappingOf(answer[w]), reviewed_by_human |-> FALSE]
  <2>1. event[w] \in Events /\ answer[w] \in Answers[event[w]]
    BY <1>1, <1>7 DEF DiscoverEventType, AttemptOK
  <2>2. taught \in EventTypeRow
    BY <2>1, AnswerTypes DEF EventTypeRow
  <2>3. k \in Vendor \X Values
    BY <1>7 DEF DiscoverEventType, AttemptOK, TypeOK
  <2>4. vendor_event_type_map' =
          [vendor_event_type_map EXCEPT ![k] = IF @ = NoRow THEN taught ELSE @]
    BY <1>7 DEF DiscoverEventType
  <2> HIDE DEF k, taught
  <2>5. vendor_event_type_map' \in [Vendor \X Values -> EventTypeRow \cup {NoRow}]
    BY <2>2, <2>3, <2>4 DEF TypeOK, RegistryTypeOK
  <2> QED  BY <1>7, <2>5
      DEF DiscoverEventType, EndDiscovery, TypeOK, RegistryTypeOK, results, Goto, Statement
<1>8. CASE DiscoveryFails(w)
  BY <1>8
     DEF DiscoveryFails, EndDiscovery, TypeOK, RegistryTypeOK, registry, results, Goto, Statement
<1> QED  BY <1>2, <1>3, <1>4, <1>5, <1>6, <1>7, <1>8

LEMMA TypeOKEnd ==
    ASSUME TypeOK, NEW w \in Workers, AttemptOK(w),
           Finalize(w) \/ Mark(w) \/ Raise(w)
    PROVE  TypeOK'
<1>1. CASE Finalize(w)
  <2>1. event[w] \in Events /\ canonical[w] \in Reading
    BY <1>1 DEF Finalize, AttemptOK
  <2>2. Override(w) \in Reading
    BY <2>1 DEF Override, Reading, TypeOK
  <2>3. Override(w).vendor_id \in Vendor
    BY <2>2 DEF Reading
  <2>4. canonical_events' \in [Events -> Reading \cup {NoRow}]
    BY <1>1, <2>2 DEF Finalize, TypeOK
  <2>5. vendor_id_column' \in [Events -> Vendor \cup {NoRow}]
    BY <1>1, <2>3 DEF Finalize, TypeOK
  <2> QED  BY <1>1, <2>4, <2>5, EndType DEF Finalize, TypeOK, RegistryTypeOK, registry
<1>2. CASE Mark(w)
  BY <1>2, EndType DEF Mark, TypeOK, RegistryTypeOK, registry, results
<1>3. CASE Raise(w)
  BY <1>3, EndType DEF Raise, TypeOK, RegistryTypeOK, registry, results
<1> QED  BY <1>1, <1>2, <1>3

LEMMA TypeOKDecide ==
    ASSUME TypeOK, Decide
    PROVE  TypeOK'
<1>1. RegistryTypeOK'
  <2>1. ASSUME NEW v \in Vendor, NEW t \in Values, NEW m \in TypeAnswers, ReviewEventType(v, t, m)
        PROVE  RegistryTypeOK'
    <3>1. [mapping |-> m, reviewed_by_human |-> TRUE] \in EventTypeRow
      BY AnswersAssumption DEF EventTypeRow
    <3> QED  BY <2>1, <3>1 DEF ReviewEventType, TypeOK, RegistryTypeOK
  <2>2. ASSUME NEW k \in Vendor \X Shapes, NEW status \in {"active", "deprecated"},
               SetSchemaStatus(k, status)
        PROVE  RegistryTypeOK'
    <3>1. vendor_schemas[k] \in Schema
      BY <2>2 DEF SetSchemaStatus, TypeOK, RegistryTypeOK
    <3>2. [vendor_schemas[k] EXCEPT !.status = status] \in Schema
      BY <3>1 DEF Schema
    <3>3. vendor_schemas' = [vendor_schemas EXCEPT ![k] = [vendor_schemas[k] EXCEPT !.status = status]]
      BY <2>2 DEF SetSchemaStatus, TypeOK, RegistryTypeOK
    <3> QED  BY <2>2, <3>2, <3>3 DEF SetSchemaStatus, TypeOK, RegistryTypeOK
  <2> QED  BY <2>1, <2>2 DEF Decide, People
<1> QED  BY <1>1 DEF Decide, TypeOK, results, attempt

-----------------------------------------------------------------------------
(* Every step keeps what the attempts know. *)

\* A worker leaves the attempts of the others alone.
LEMMA OtherAttempts ==
    ASSUME TypeOK, NEW w \in Workers, NEW u \in Workers, u # w,
           Step(w) \/ \E e \in Events : StartEvent(w, e)
    PROVE  /\ pc'[u] = pc[u] /\ event'[u] = event[u] /\ vendor_id'[u] = vendor_id[u]
           /\ schema_match'[u] = schema_match[u] /\ mapping'[u] = mapping[u]
           /\ answer'[u] = answer[u] /\ canonical'[u] = canonical[u]
<1> USE DEF TypeOK, Goto
<1>1. ASSUME NEW e \in Events, StartEvent(w, e)
      PROVE  /\ pc'[u] = pc[u] /\ event'[u] = event[u] /\ vendor_id'[u] = vendor_id[u]
             /\ UNCHANGED <<schema_match, mapping, answer, canonical>>
  BY <1>1 DEF StartEvent
<1>2. CASE Lookup(w)
  BY <1>2 DEF Lookup
<1>3. CASE LookupEventType(w)
  BY <1>3 DEF LookupEventType, SecondPass
<1>4. CASE ClassifyEventType(w)
  BY <1>4 DEF ClassifyEventType
<1>5. CASE PersistEventType(w)
  BY <1>5 DEF PersistEventType, SecondPass
<1>6. CASE ExtractFromCache(w) \/ CacheMiss(w) \/ ModelRefuses(w)
  BY <1>6 DEF ExtractFromCache, CacheMiss, ModelRefuses
<1>7. CASE \E e \in Events : \E a \in Answers[e] : ModelAnswers(w, a)
  BY <1>7 DEF ModelAnswers
<1>8. CASE Discover(w) \/ DiscoverEventType(w) \/ DiscoveryFails(w)
  BY <1>8 DEF Discover, DiscoverEventType, DiscoveryFails, EndDiscovery
<1>9. CASE Finalize(w) \/ Mark(w) \/ Raise(w)
  BY <1>9 DEF Finalize, Mark, Raise, End
<1> QED  BY <1>1, <1>2, <1>3, <1>4, <1>5, <1>6, <1>7, <1>8, <1>9 DEF Step, Work

\* An attempt that reads the vendor of its event knows the vendor given.
LEMMA AttemptStart ==
    ASSUME TypeOK, KnownVendorKept, NEW w \in Workers, NEW e \in Events, StartEvent(w, e)
    PROVE  AttemptOK(w)'
<1>1. pc'[w] = "lookup" /\ event'[w] = e
  BY DEF StartEvent, TypeOK, Goto
<1>2. vendor_id'[w] = IF vendor_id_column[e] = NoRow THEN inferred[e] ELSE vendor_id_column[e]
  BY DEF StartEvent, TypeOK
<1>3. GivenVendor(e) # "unknown" => vendor_id'[w] = GivenVendor(e)
  BY <1>2, VendorAssumption, NoRowAssumption DEF KnownVendorKept, GivenVendor
<1> QED  BY <1>1, <1>3 DEF AttemptOK, GivenVendor

\* The second pass leaves an attempt with a canonical event, or for Path B.
LEMMA AttemptSecondPass ==
    ASSUME TypeOK, NEW w \in Workers, AttemptOK(w), pc[w] # "idle",
           schema_match[w] \in SchemaDoc, NEW m \in Mapping,
           SecondPass(w, m), UNCHANGED <<event, vendor_id>>
    PROVE  AttemptOK(w)'
<1> DEFINE c == Extract(schema_match[w], PayloadOf(w), vendor_id[w], m)
<1>1. event[w] \in Events
  BY DEF AttemptOK
<1>2. c \in Reading \cup {NoRow}
  BY <1>1, ExtractType DEF TypeOK, PayloadOf
<1>3. canonical'[w] = c /\ pc'[w] = IF c = NoRow THEN "classify_extract" ELSE "finalize"
  BY DEF SecondPass, Goto, TypeOK
<1> HIDE DEF c
<1> QED  BY <1>1, <1>2, <1>3 DEF AttemptOK, GivenVendor

LEMMA AttemptPathA ==
    ASSUME TypeOK, NEW w \in Workers, AttemptOK(w),
           Lookup(w) \/ LookupEventType(w) \/ ClassifyEventType(w) \/ PersistEventType(w)
    PROVE  AttemptOK(w)'
<1>1. CASE Lookup(w)
  <2> DEFINE row == vendor_schemas[SchemaKey(w)]
             doc == IF row = NoRow THEN NoRow
                    ELSE IF row.status \in {"provisional", "active"} THEN row.schema_doc ELSE NoRow
             none == [classification |-> "unclassified", canonical_state |-> NoRow]
             unclassified == doc # NoRow /\ doc.classification = "unclassified"
             raw == RawEventType(doc, PayloadOf(w))
             c == Extract(doc, PayloadOf(w), vendor_id[w], none)
  <2>1. event[w] \in Events /\ pc[w] = "lookup"
    BY <1>1 DEF Lookup, AttemptOK
  <2>2. row \in Schema \cup {NoRow}
    BY <2>1, SchemaKeyType DEF TypeOK, RegistryTypeOK
  <2>3. doc \in SchemaDoc \cup {NoRow}
    BY <2>2 DEF Schema
  <2>4. c \in Reading
    BY UnclassifiedType DEF TypeOK
  <2>5. raw \in Values \cup {NoRow}
    BY <2>1, ResolveType DEF RawEventType, PayloadOf
  <2>6. UNCHANGED <<event, vendor_id>> /\ schema_match'[w] = doc
    BY <1>1 DEF Lookup, TypeOK
  <2>7. \/ pc'[w] = "finalize" /\ canonical'[w] = c
        \/ pc'[w] = "lookup_event_type" /\ doc # NoRow /\ raw # NoRow
        \/ pc'[w] = "classify_extract"
    BY <1>1 DEF Lookup, TypeOK, Goto
  <2>8. RawEventType(schema_match[w], PayloadOf(w))' = raw
    BY <2>6 DEF PayloadOf
  <2> HIDE DEF c, doc, raw
  <2> QED  BY <2>1, <2>3, <2>4, <2>5, <2>6, <2>7, <2>8 DEF AttemptOK, GivenVendor
<1>2. CASE LookupEventType(w)
  <2>1. EventTypeKey(w) \in Vendor \X Values
    BY <1>2, EventTypeKeyType DEF LookupEventType
  <2>2. vendor_event_type_map[EventTypeKey(w)] \in EventTypeRow \cup {NoRow}
    BY <2>1 DEF TypeOK, RegistryTypeOK
  <2>3. CASE vendor_event_type_map[EventTypeKey(w)] # NoRow
    <3>1. vendor_event_type_map[EventTypeKey(w)].mapping \in Mapping
      BY <2>2, <2>3 DEF EventTypeRow
    <3> QED  BY <1>2, <2>3, <3>1, AttemptSecondPass DEF LookupEventType, AttemptOK
  <2>4. CASE vendor_event_type_map[EventTypeKey(w)] = NoRow
    <3>1. pc[w] = "lookup_event_type" /\ pc'[w] = "classify_event_type"
      BY <1>2, <2>4 DEF LookupEventType, Goto, TypeOK
    <3> QED  BY <1>2, <3>1 DEF LookupEventType, AttemptOK, GivenVendor, PayloadOf
  <2> QED  BY <2>3, <2>4
<1>3. CASE ClassifyEventType(w)
  <2>1. /\ pc[w] = "classify_event_type"
        /\ \/ pc'[w] = "persist_event_type" /\ mapping'[w] \in TypeAnswers
           \/ pc'[w] = "classify_extract"
    BY <1>3 DEF ClassifyEventType, Goto, TypeOK
  <2> QED  BY <1>3, <2>1 DEF ClassifyEventType, AttemptOK, GivenVendor, PayloadOf
<1>4. CASE PersistEventType(w)
  <2>1. mapping[w] \in Mapping
    BY <1>4, AnswersAssumption DEF PersistEventType, AttemptOK
  <2> QED  BY <1>4, <2>1, AttemptSecondPass DEF PersistEventType, AttemptOK
<1> QED  BY <1>1, <1>2, <1>3, <1>4

LEMMA AttemptPathB ==
    ASSUME TypeOK, NEW w \in Workers, AttemptOK(w),
           \/ ExtractFromCache(w) \/ CacheMiss(w) \/ ModelRefuses(w)
           \/ \E a \in Answer : ModelAnswers(w, a)
           \/ Discover(w) \/ DiscoverEventType(w) \/ DiscoveryFails(w)
    PROVE  AttemptOK(w)'
<1>1. CASE ExtractFromCache(w)
  <2>1. llm_cache[CacheKey(w)] \in Answer
    BY <1>1, CacheKeyType DEF ExtractFromCache, AttemptOK, TypeOK
  <2>2. BuildCanonical(llm_cache[CacheKey(w)]) \in Reading \cup {NoRow}
    BY <2>1, BuildType
  <2>3. \/ pc'[w] = "finalize" /\ canonical'[w] \in Reading
        \/ pc'[w] = "mark_review"
    BY <1>1, <2>2 DEF ExtractFromCache, Goto, TypeOK
  <2> QED  BY <1>1, <2>3 DEF ExtractFromCache, AttemptOK, GivenVendor
<1>2. CASE CacheMiss(w)
  <2>1. pc'[w] = "complete"
    BY <1>2 DEF CacheMiss, Goto, TypeOK
  <2> QED  BY <1>2, <2>1 DEF CacheMiss, AttemptOK, GivenVendor
<1>3. CASE ModelRefuses(w)
  <2>1. pc'[w] \in {"mark_pending_llm", "mark_review"}
    BY <1>3 DEF ModelRefuses, Goto, TypeOK
  <2> QED  BY <1>3, <2>1 DEF ModelRefuses, AttemptOK, GivenVendor
<1>4. ASSUME NEW a \in Answer, ModelAnswers(w, a) PROVE AttemptOK(w)'
  <2>1. /\ a \in Answers[event[w]] /\ UNCHANGED <<event, vendor_id>>
        /\ canonical'[w] = BuildCanonical(a)
        /\ \/ pc'[w] = "mark_review"
           \/ pc'[w] = "discover" /\ answer'[w] = a /\ BuildCanonical(a) # NoRow
    BY <1>4 DEF ModelAnswers, Goto, TypeOK
  <2>2. BuildCanonical(a) \in Reading \cup {NoRow}
    BY BuildType
  <2> QED  BY <1>4, <2>1, <2>2 DEF ModelAnswers, AttemptOK, GivenVendor
<1>5. CASE Discover(w)
  <2> DEFINE doc == InferSchemaDoc(PayloadOf(w), answer[w])
  <2>1. event[w] \in Events /\ answer[w] \in Answers[event[w]] /\ canonical[w] \in Reading
    BY <1>5 DEF Discover, AttemptOK
  <2>2. doc # NoRow /\ doc.event_type # NoRow => answer[w].raw_event_type \in Values
    BY <2>1, WordOfLesson DEF PayloadOf
  <2>3. \/ pc'[w] = "finalize"
        \/ /\ pc'[w] = "discover_event_type" /\ UNCHANGED answer
           /\ doc # NoRow /\ doc.event_type # NoRow
    BY <1>5 DEF Discover, EndDiscovery, Goto, TypeOK, Teaches, PayloadOf
  <2>4. UNCHANGED <<event, vendor_id, canonical>> /\ pc[w] = "discover"
    BY <1>5 DEF Discover
  <2> HIDE DEF doc
  <2> QED  BY <2>1, <2>2, <2>3, <2>4 DEF AttemptOK, GivenVendor
<1>6. CASE DiscoverEventType(w) \/ DiscoveryFails(w)
  <2>1. /\ pc[w] \in {"discover", "discover_event_type"} /\ pc'[w] = "finalize"
        /\ UNCHANGED <<event, vendor_id, canonical>>
    BY <1>6 DEF DiscoverEventType, DiscoveryFails, EndDiscovery, Goto, TypeOK
  <2> QED  BY <2>1 DEF AttemptOK, GivenVendor
<1> QED  BY <1>1, <1>2, <1>3, <1>4, <1>5, <1>6

LEMMA AttemptEnd ==
    ASSUME TypeOK, NEW w \in Workers, AttemptOK(w),
           Finalize(w) \/ Mark(w) \/ Raise(w)
    PROVE  AttemptOK(w)'
<1>1. pc'[w] = "idle"
  BY DEF Finalize, Mark, Raise, End, Goto, TypeOK
<1> QED  BY <1>1 DEF AttemptOK

-----------------------------------------------------------------------------
(* The vendor of an event is kept. *)

LEMMA KnownVendorStep ==
    ASSUME TypeOK, KnownVendorKept, NEW w \in Workers, AttemptOK(w),
           Step(w) \/ \E e \in Events : StartEvent(w, e)
    PROVE  KnownVendorKept'
<1>1. CASE Finalize(w)
  <2>1. event[w] \in Events /\ canonical[w] \in Reading
    BY <1>1 DEF Finalize, AttemptOK
  <2>2. vendor_id[w] # "unknown" => Override(w).vendor_id = vendor_id[w]
    BY <2>1 DEF Override, Reading
  <2>3. GivenVendor(event[w]) # "unknown" => Override(w).vendor_id = GivenVendor(event[w])
    BY <1>1, <2>2 DEF Finalize, AttemptOK
  <2>4. /\ canonical_events' = [canonical_events EXCEPT ![event[w]] = Override(w)]
        /\ vendor_id_column' = [vendor_id_column EXCEPT ![event[w]] =
                                  IF @ = NoRow THEN Override(w).vendor_id ELSE @]
    BY <1>1 DEF Finalize
  <2>5. ASSUME NEW e \in Events, GivenVendor(e) # "unknown"
        PROVE  /\ canonical_events'[e] # NoRow => canonical_events'[e].vendor_id = GivenVendor(e)
               /\ vendor_id_column'[e] \in {vendor_hint[e], GivenVendor(e)}
    <3>1. CASE e = event[w]
      <4>1. /\ canonical_events'[e] = Override(w)
            /\ vendor_id_column'[e] = IF vendor_id_column[e] = NoRow THEN Override(w).vendor_id
                                                                    ELSE vendor_id_column[e]
        BY <2>4, <3>1 DEF TypeOK
      <4>2. Override(w).vendor_id = GivenVendor(e)
        BY <2>3, <2>5, <3>1
      <4> QED  BY <2>5, <4>1, <4>2 DEF KnownVendorKept
    <3>2. CASE e # event[w]
      <4>1. canonical_events'[e] = canonical_events[e] /\ vendor_id_column'[e] = vendor_id_column[e]
        BY <2>4, <3>2 DEF TypeOK
      <4> QED  BY <2>5, <4>1 DEF KnownVendorKept
    <3> QED  BY <3>1, <3>2
  <2> QED  BY <2>5 DEF KnownVendorKept, GivenVendor
<1>2. CASE ~Finalize(w)
  <2>1. UNCHANGED <<canonical_events, vendor_id_column>>
    BY <1>2 DEF Step, Work, StartEvent, Lookup, LookupEventType, ClassifyEventType, PersistEventType,
       ExtractFromCache, CacheMiss, ModelAnswers, ModelRefuses, Discover, DiscoverEventType,
       DiscoveryFails, Mark, Raise, results
  <2> QED  BY <2>1 DEF KnownVendorKept, GivenVendor
<1> QED  BY <1>1, <1>2

-----------------------------------------------------------------------------
(* Answers about an event type are stored once each at most. *)

\* A worker that does not begin to ask leaves no more askers than there were.
LEMMA AskingShrinks ==
    ASSUME TypeOK, NEW w \in Workers, Step(w) \/ \E e \in Events : StartEvent(w, e),
           NEW k, w \notin Asking(k)' \/ w \in Asking(k)
    PROVE  Asking(k)' \subseteq Asking(k)
<1>1. ASSUME NEW u \in Workers, u # w PROVE u \in Asking(k)' <=> u \in Asking(k)
  <2>1. /\ pc'[u] = pc[u] /\ event'[u] = event[u] /\ vendor_id'[u] = vendor_id[u]
        /\ schema_match'[u] = schema_match[u]
    BY <1>1, OtherAttempts
  <2> QED  BY <2>1 DEF Asking, EventTypeKey, PayloadOf
<1> QED  BY <1>1 DEF Asking

\* Fewer askers, no more stored answers and no lost row: the bound is kept.
LEMMA WritesKept ==
    ASSUME TypeOK, NEW k \in Vendor \X Values, WritesBounded(k), Asking(k)' \subseteq Asking(k),
           llm_type_writes'[k] = llm_type_writes[k],
           vendor_event_type_map'[k] = NoRow => vendor_event_type_map[k] = NoRow
    PROVE  WritesBounded(k)'
<1>1. IsFiniteSet(Asking(k)) /\ IsFiniteSet(Asking(k)')
  BY WorkersAssumption, FS_Subset DEF Asking
<1>2. Cardinality(Asking(k)') <= Cardinality(Asking(k))
  BY <1>1, FS_Subset
<1>3. /\ Cardinality(Asking(k)') \in Nat /\ Cardinality(Asking(k)) \in Nat
      /\ Cardinality(Workers) \in Nat /\ llm_type_writes[k] \in Nat
  BY <1>1, WorkersAssumption, FS_CardinalityType DEF TypeOK
<1> QED  BY <1>2, <1>3 DEF WritesBounded

\* The steps that write no event type.
LEMMA QuietStep ==
    ASSUME NEW w \in Workers, Step(w) \/ \E e \in Events : StartEvent(w, e)
    PROVE  /\ ~PersistEventType(w) => UNCHANGED llm_type_writes
           /\ ~PersistEventType(w) /\ ~DiscoverEventType(w) => UNCHANGED vendor_event_type_map
           /\ ~Discover(w) => UNCHANGED vendor_schemas \/ PersistEventType(w) \/ DiscoverEventType(w)
BY DEF Step, Work, StartEvent, Lookup, LookupEventType, ClassifyEventType, PersistEventType,
   ExtractFromCache, CacheMiss, ModelAnswers, ModelRefuses, Discover, DiscoverEventType,
   DiscoveryFails, Finalize, Mark, Raise, registry

\* The only way to begin to ask is to find no row.
LEMMA BeginsToAsk ==
    ASSUME TypeOK, NEW w \in Workers, Step(w) \/ \E e \in Events : StartEvent(w, e),
           NEW k, w \in Asking(k)', w \notin Asking(k)
    PROVE  LookupEventType(w) /\ vendor_event_type_map[k] = NoRow
<1>1. pc'[w] \in {"classify_event_type", "persist_event_type"} /\ EventTypeKey(w)' = k
  BY DEF Asking
<1>2. CASE LookupEventType(w)
  <2>1. CASE vendor_event_type_map[EventTypeKey(w)] = NoRow
    <3>1. EventTypeKey(w)' = EventTypeKey(w)
      BY <1>2 DEF LookupEventType, EventTypeKey, PayloadOf
    <3> QED  BY <1>1, <1>2, <2>1, <3>1
  <2>2. CASE vendor_event_type_map[EventTypeKey(w)] # NoRow
    <3>1. pc'[w] \in {"classify_extract", "finalize"}
      BY <1>2, <2>2 DEF LookupEventType, SecondPass, Goto, TypeOK
    <3> QED  BY <1>1, <3>1
  <2> QED  BY <2>1, <2>2
<1>3. CASE ClassifyEventType(w)
  <2>1. pc[w] = "classify_event_type" /\ EventTypeKey(w)' = EventTypeKey(w)
    BY <1>3 DEF ClassifyEventType, EventTypeKey, PayloadOf
  <2> QED  BY <1>1, <2>1 DEF Asking
<1>4. CASE PersistEventType(w)
  <2>1. pc'[w] \in {"classify_extract", "finalize"}
    BY <1>4 DEF PersistEventType, SecondPass, Goto, TypeOK
  <2> QED  BY <1>1, <2>1
<1>5. CASE Lookup(w) \/ \E e \in Events : StartEvent(w, e)
  <2>1. pc'[w] \notin {"classify_event_type", "persist_event_type"}
    BY <1>5 DEF Lookup, StartEvent, Goto, TypeOK
  <2> QED  BY <1>1, <2>1
<1>6. CASE \/ ExtractFromCache(w) \/ CacheMiss(w) \/ ModelRefuses(w)
           \/ \E e \in Events : \E a \in Answers[e] : ModelAnswers(w, a)
  <2>1. pc'[w] \notin {"classify_event_type", "persist_event_type"}
    BY <1>6 DEF ExtractFromCache, CacheMiss, ModelRefuses, ModelAnswers, Goto, TypeOK
  <2> QED  BY <1>1, <2>1
<1>7. CASE Discover(w) \/ DiscoverEventType(w) \/ DiscoveryFails(w)
  <2>1. pc'[w] \notin {"classify_event_type", "persist_event_type"}
    BY <1>7 DEF Discover, DiscoverEventType, DiscoveryFails, EndDiscovery, Goto, TypeOK
  <2> QED  BY <1>1, <2>1
<1>8. CASE Finalize(w) \/ Mark(w) \/ Raise(w)
  <2>1. pc'[w] \notin {"classify_event_type", "persist_event_type"}
    BY <1>8 DEF Finalize, Mark, Raise, End, Goto, TypeOK
  <2> QED  BY <1>1, <2>1
<1> QED  BY <1>2, <1>3, <1>4, <1>5, <1>6, <1>7, <1>8 DEF Step, Work

LEMMA WritesBoundedStep ==
    ASSUME TypeOK, NEW w \in Workers, AttemptOK(w),
           Step(w) \/ \E e \in Events : StartEvent(w, e),
           NEW k \in Vendor \X Values, WritesBounded(k)
    PROVE  WritesBounded(k)'
<1>0. /\ IsFiniteSet(Asking(k)) /\ IsFiniteSet(Asking(k)')
      /\ Asking(k) \subseteq Workers /\ Asking(k)' \subseteq Workers
  BY WorkersAssumption, FS_Subset DEF Asking
<1>1. CASE w \in Asking(k)' /\ w \notin Asking(k)
  <2>1. LookupEventType(w) /\ vendor_event_type_map[k] = NoRow
    BY <1>1, BeginsToAsk
  <2>2. UNCHANGED <<llm_type_writes, vendor_event_type_map>> /\ llm_type_writes[k] = 0
    BY <2>1 DEF LookupEventType, WritesBounded, registry
  <2>3. Cardinality(Asking(k)') <= Cardinality(Workers)
    BY <1>0, WorkersAssumption, FS_Subset
  <2>4. Cardinality(Asking(k)') \in Nat
    BY <1>0, FS_CardinalityType
  <2> QED  BY <2>2, <2>3, <2>4 DEF WritesBounded
<1>2. CASE PersistEventType(w) /\ EventTypeKey(w) = k
  <2>1. w \in Asking(k)
    BY <1>2 DEF PersistEventType, Asking
  <2>2. w \notin Asking(k)'
    <3>1. pc'[w] \in {"classify_extract", "finalize"}
      BY <1>2 DEF PersistEventType, SecondPass, Goto, TypeOK
    <3> QED  BY <3>1 DEF Asking
  <2>3. Asking(k)' \subseteq Asking(k)
    BY <2>2, AskingShrinks
  <2>4. Cardinality(Asking(k)') <= Cardinality(Asking(k)) - 1
    <3>1. Cardinality(Asking(k) \ {w}) = Cardinality(Asking(k)) - 1
      BY <1>0, <2>1, FS_RemoveElement
    <3>2. Asking(k)' \subseteq Asking(k) \ {w} /\ IsFiniteSet(Asking(k) \ {w})
      BY <1>0, <2>2, <2>3, FS_Subset
    <3> QED  BY <3>1, <3>2, FS_Subset
  <2>5. llm_type_writes'[k] \in {llm_type_writes[k], llm_type_writes[k] + 1}
    BY <1>2 DEF PersistEventType, TypeOK
  <2>6. vendor_event_type_map'[k] # NoRow
    <3> DEFINE row == [mapping |-> mapping[w], reviewed_by_human |-> FALSE]
    <3>1. mapping[w] \in Mapping
      BY <1>2, AnswersAssumption DEF PersistEventType, AttemptOK
    <3>2. row \in EventTypeRow
      BY <3>1 DEF EventTypeRow
    <3>3. \/ vendor_event_type_map'[k] = row
          \/ vendor_event_type_map[k] # NoRow /\ vendor_event_type_map'[k] = vendor_event_type_map[k]
      BY <1>2 DEF PersistEventType, TypeOK, RegistryTypeOK
    <3> HIDE DEF row
    <3> QED  BY <3>2, <3>3, RowAssumption
  <2>7. /\ Cardinality(Asking(k)') \in Nat /\ Cardinality(Asking(k)) \in Nat
        /\ Cardinality(Workers) \in Nat /\ llm_type_writes[k] \in Nat
    BY <1>0, WorkersAssumption, FS_CardinalityType DEF TypeOK
  <2> QED  BY <2>4, <2>5, <2>6, <2>7 DEF WritesBounded
<1>3. CASE ~(PersistEventType(w) /\ EventTypeKey(w) = k) /\ ~(w \in Asking(k)' /\ w \notin Asking(k))
  <2>1. Asking(k)' \subseteq Asking(k)
    BY <1>3, AskingShrinks
  <2>2. llm_type_writes'[k] = llm_type_writes[k]
    <3>1. CASE PersistEventType(w)
      BY <1>3, <3>1 DEF PersistEventType, TypeOK
    <3> QED  BY <3>1, QuietStep
  <2>3. vendor_event_type_map'[k] = NoRow => vendor_event_type_map[k] = NoRow
    <3>1. CASE PersistEventType(w)
      BY <1>3, <3>1 DEF PersistEventType, TypeOK, RegistryTypeOK
    <3>2. CASE DiscoverEventType(w)
      BY <3>2 DEF DiscoverEventType, TypeOK, RegistryTypeOK
    <3> QED  BY <3>1, <3>2, QuietStep
  <2> QED  BY <2>1, <2>2, <2>3, WritesKept
<1> QED  BY <1>1, <1>2, <1>3

LEMMA WritesBoundedDecide ==
    ASSUME TypeOK, Decide, NEW k \in Vendor \X Values, WritesBounded(k)
    PROVE  WritesBounded(k)'
<1>1. Asking(k)' = Asking(k) /\ UNCHANGED llm_type_writes
  BY DEF Decide, attempt, Asking, EventTypeKey, PayloadOf
<1>2. vendor_event_type_map'[k] = NoRow => vendor_event_type_map[k] = NoRow
  <2>1. ASSUME NEW v \in Vendor, NEW t \in Values, NEW m \in TypeAnswers, ReviewEventType(v, t, m)
        PROVE  vendor_event_type_map'[k] = NoRow => vendor_event_type_map[k] = NoRow
    <3> DEFINE row == [mapping |-> m, reviewed_by_human |-> TRUE]
    <3>1. row \in EventTypeRow
      BY AnswersAssumption DEF EventTypeRow
    <3>2. vendor_event_type_map' = [vendor_event_type_map EXCEPT ![<<v, t>>] = row]
      BY <2>1 DEF ReviewEventType
    <3> HIDE DEF row
    <3> QED  BY <3>1, <3>2, RowAssumption DEF TypeOK, RegistryTypeOK
  <2> QED  BY <2>1 DEF Decide, People, SetSchemaStatus
<1> QED  BY <1>1, <1>2, WritesKept

-----------------------------------------------------------------------------
(* PipelineInv is an invariant. *)

LEMMA InitPipelineInv == ASSUME Init PROVE PipelineInv
<1>1. TypeOK
  BY VendorAssumption DEF Init, RegistryInit, TypeOK, RegistryTypeOK, Vendor, Statement
<1>2. \A w \in Workers : AttemptOK(w)
  BY DEF Init, AttemptOK
<1>3. KnownVendorKept
  BY DEF Init, KnownVendorKept
<1>4. ASSUME NEW k \in Vendor \X Values PROVE WritesBounded(k)
  <2>1. Asking(k) = {} /\ llm_type_writes[k] = 0
    BY DEF Init, Asking
  <2>2. Cardinality(Workers) \in Nat
    BY WorkersAssumption, FS_CardinalityType
  <2>3. Cardinality(Asking(k)) = 0
    BY <2>1, FS_EmptySet
  <2> QED  BY <2>1, <2>2, <2>3 DEF WritesBounded
<1> QED  BY <1>1, <1>2, <1>3, <1>4 DEF PipelineInv

LEMMA WorkerPipelineInv ==
    ASSUME PipelineInv, NEW w \in Workers, Step(w) \/ \E e \in Events : StartEvent(w, e)
    PROVE  PipelineInv'
<1>1. TypeOK /\ KnownVendorKept /\ \A u \in Workers : AttemptOK(u)
  BY DEF PipelineInv
<1>2. \A e \in Events : Answers[e] \subseteq Answer
  BY AnswersAssumption
<1>3. TypeOK'
  BY <1>1, <1>2, TypeOKStart, TypeOKPathA, TypeOKPathB, TypeOKEnd DEF Step, Work
<1>4. AttemptOK(w)'
  BY <1>1, <1>2, AttemptStart, AttemptPathA, AttemptPathB, AttemptEnd DEF Step, Work
<1>5. ASSUME NEW u \in Workers PROVE AttemptOK(u)'
  <2>1. CASE u = w
    BY <1>4, <2>1
  <2>2. CASE u # w
    <3>1. /\ pc'[u] = pc[u] /\ event'[u] = event[u] /\ vendor_id'[u] = vendor_id[u]
          /\ schema_match'[u] = schema_match[u] /\ mapping'[u] = mapping[u]
          /\ answer'[u] = answer[u] /\ canonical'[u] = canonical[u]
      BY <1>1, <2>2, OtherAttempts
    <3>2. AttemptOK(u)
      BY <1>1
    <3> QED  BY <3>1, <3>2 DEF AttemptOK, PayloadOf, GivenVendor
  <2> QED  BY <2>1, <2>2
<1>6. KnownVendorKept'
  BY <1>1, KnownVendorStep
<1>7. \A k \in Vendor \X Values : WritesBounded(k)'
  BY <1>1, WritesBoundedStep DEF PipelineInv
<1> QED  BY <1>3, <1>5, <1>6, <1>7 DEF PipelineInv

LEMMA DecidePipelineInv == ASSUME PipelineInv, Decide PROVE PipelineInv'
<1>1. TypeOK'
  BY TypeOKDecide DEF PipelineInv
<1>2. ASSUME NEW w \in Workers PROVE AttemptOK(w)'
  BY DEF PipelineInv, Decide, attempt, AttemptOK, PayloadOf, GivenVendor
<1>3. KnownVendorKept'
  BY DEF PipelineInv, Decide, results, KnownVendorKept, GivenVendor
<1>4. \A k \in Vendor \X Values : WritesBounded(k)'
  BY WritesBoundedDecide DEF PipelineInv
<1> QED  BY <1>1, <1>2, <1>3, <1>4 DEF PipelineInv

LEMMA NextPipelineInv == ASSUME PipelineInv, [Next]_vars PROVE PipelineInv'
<1>1. ASSUME NEW w \in Workers, Step(w) \/ \E e \in Events : StartEvent(w, e) PROVE PipelineInv'
  BY <1>1, WorkerPipelineInv
<1>2. CASE Decide
  BY <1>2, DecidePipelineInv
<1>3. CASE UNCHANGED vars
  BY <1>3 DEF vars, registry, results, attempt, PipelineInv, TypeOK, RegistryTypeOK, AttemptOK,
     PayloadOf, GivenVendor, KnownVendorKept, WritesBounded, Asking, EventTypeKey
<1> QED  BY <1>1, <1>2, <1>3 DEF Next

-----------------------------------------------------------------------------
(* The theorems. *)

THEOREM PipelineInvariant == Spec => []PipelineInv
BY InitPipelineInv, NextPipelineInv, PTL DEF Spec

\* The attempts, the registry, the caches and the results always have their
\* types: what Extract, InferSchemaDoc and BuildCanonical return fits the rows
\* and the local variables they are stored in.
THEOREM TypeCorrect == Spec => []TypeOK
<1>1. PipelineInv => TypeOK
  BY DEF PipelineInv
<1> QED  BY <1>1, PipelineInvariant, PTL

\* An event whose vendor is known by the URL or by inference keeps that vendor
\* in raw_events and in canonical_events, whatever the model answers.
THEOREM VendorIsKept == Spec => []KnownVendorKept
<1>1. PipelineInv => KnownVendorKept
  BY DEF PipelineInv
<1> QED  BY <1>1, PipelineInvariant, PTL

\* Each worker that has stored an answer has stopped asking.
LEMMA WritesAreFew == ASSUME PipelineInv PROVE ClassifiedOnceEach
<1>1. ASSUME NEW k \in Vendor \X Values PROVE llm_type_writes[k] <= Cardinality(Workers)
  <2>1. IsFiniteSet(Asking(k))
    BY WorkersAssumption, FS_Subset DEF Asking
  <2>2. /\ Cardinality(Asking(k)) \in Nat /\ Cardinality(Workers) \in Nat
        /\ llm_type_writes[k] \in Nat
    BY <2>1, WorkersAssumption, FS_CardinalityType DEF PipelineInv, TypeOK
  <2>3. llm_type_writes[k] + Cardinality(Asking(k)) <= Cardinality(Workers)
    BY DEF PipelineInv, WritesBounded
  <2> QED  BY <2>2, <2>3
<1> QED  BY <1>1 DEF ClassifiedOnceEach

\* The model's answers about one event type are stored at most once by each
\* worker, for any finite set of workers.
THEOREM ClassifiedOnce == Spec => []ClassifiedOnceEach
BY WritesAreFew, PipelineInvariant, PTL

-----------------------------------------------------------------------------
(* The workers implement the registry. *)

LEMMA DiscoverLearns ==
    ASSUME TypeOK, NEW w \in Workers, AttemptOK(w), Discover(w)
    PROVE  [RegistryNext]_registry
<1> DEFINE l == Lesson(event[w], answer[w])
<1>1. event[w] \in Events /\ answer[w] \in Answers[event[w]] /\ vendor_id[w] \in Vendor
  BY DEF Discover, AttemptOK, TypeOK
<1>2. CASE UNCHANGED vendor_schemas
  BY <1>2 DEF Discover, registry
<1>3. CASE vendor_schemas' # vendor_schemas
  <2>1. /\ Teaches(event[w], answer[w])
        /\ vendor_schemas[SchemaKey(w)] = NoRow \/ vendor_schemas[SchemaKey(w)].status = "provisional"
        /\ vendor_schemas' = [vendor_schemas EXCEPT ![SchemaKey(w)] =
                                [schema_doc |-> l.schema_doc, status |-> "provisional",
                                 source_event_id |-> l.event_id]]
    BY <1>3 DEF Discover, PayloadOf, Lesson
  <2>2. answer[w] \in {b \in Answers[event[w]] : Teaches(event[w], b)}
    BY <1>1, <2>1
  <2>3. l \in Lessons
    BY <1>1, <2>2 DEF Lessons
  <2>4. LearnSchema(vendor_id[w], l)
    BY <2>1 DEF LearnSchema, SchemaKey, PayloadOf, Discover, Lesson
  <2> QED  BY <1>1, <2>3, <2>4 DEF RegistryNext
<1> QED  BY <1>2, <1>3

LEMMA DiscoverEventTypeLearns ==
    ASSUME TypeOK, NEW w \in Workers, AttemptOK(w), DiscoverEventType(w)
    PROVE  [RegistryNext]_registry
<1> DEFINE k == <<vendor_id[w], answer[w].raw_event_type>>
<1>1. /\ event[w] \in Events /\ answer[w] \in Answers[event[w]] /\ vendor_id[w] \in Vendor
      /\ answer[w].raw_event_type \in Values
  BY DEF DiscoverEventType, AttemptOK, TypeOK
<1>2. MappingOf(answer[w]) \in Meanings
  BY <1>1, AnswerTypes
<1>3. CASE vendor_event_type_map[k] = NoRow
  <2>1. LearnEventType(vendor_id[w], answer[w].raw_event_type, MappingOf(answer[w]))
    BY <1>1, <1>3 DEF DiscoverEventType, LearnEventType, TypeOK, RegistryTypeOK
  <2> QED  BY <1>1, <1>2, <2>1 DEF RegistryNext
<1>4. CASE vendor_event_type_map[k] # NoRow
  <2>1. UNCHANGED registry
    BY <1>1, <1>4 DEF DiscoverEventType, TypeOK, RegistryTypeOK, registry
  <2> QED  BY <2>1
<1> QED  BY <1>3, <1>4

LEMMA PersistEventTypeLearns ==
    ASSUME TypeOK, NEW w \in Workers, AttemptOK(w), PersistEventType(w)
    PROVE  [RegistryNext]_registry
<1>1. /\ EventTypeKey(w) \in Vendor \X Values
      /\ mapping[w] \in Meanings
  BY EventTypeKeyType DEF PersistEventType, AttemptOK, Meanings
<1>2. PICK v \in Vendor, t \in Values : EventTypeKey(w) = <<v, t>>
  BY <1>1
<1>3. CASE UNCHANGED vendor_event_type_map
  BY <1>3 DEF PersistEventType, registry
<1>4. CASE vendor_event_type_map' # vendor_event_type_map
  <2>1. LearnEventType(v, t, mapping[w])
    BY <1>2, <1>4 DEF PersistEventType, LearnEventType
  <2> QED  BY <1>1, <2>1 DEF RegistryNext
<1> QED  BY <1>3, <1>4

\* What the workers and the people write is what the registry allows.
LEMMA NextLearns ==
    ASSUME PipelineInv, [Next]_vars
    PROVE  [RegistryNext]_registry
<1>1. TypeOK /\ \A w \in Workers : AttemptOK(w)
  BY DEF PipelineInv
<1>2. ASSUME NEW w \in Workers, Step(w) \/ \E e \in Events : StartEvent(w, e)
      PROVE  [RegistryNext]_registry
  <2>1. CASE Discover(w)
    BY <1>1, <2>1, DiscoverLearns
  <2>2. CASE DiscoverEventType(w)
    BY <1>1, <2>2, DiscoverEventTypeLearns
  <2>3. CASE PersistEventType(w)
    BY <1>1, <2>3, PersistEventTypeLearns
  <2>4. CASE ~Discover(w) /\ ~DiscoverEventType(w) /\ ~PersistEventType(w)
    <3>1. UNCHANGED registry
      BY <1>2, <2>4, QuietStep DEF registry
    <3> QED  BY <3>1
  <2> QED  BY <2>1, <2>2, <2>3, <2>4
<1>3. CASE Decide
  BY <1>3 DEF Decide, RegistryNext
<1>4. CASE UNCHANGED vars
  BY <1>4 DEF vars, registry
<1> QED  BY <1>2, <1>3, <1>4 DEF Next

\* The workers, whatever they race for, implement the registry: every write of
\* an attempt is a lesson the registry allows, and every other step of theirs
\* leaves the registry as it is.
THEOREM PipelineImplementsRegistry == Spec => RegistryKept
<1>1. Init => RegistryInit
  BY DEF Init
<1>2. PipelineInv /\ [Next]_vars => [RegistryNext]_registry
  BY NextLearns
<1> QED  BY <1>1, <1>2, PipelineInvariant, PTL DEF Spec, RegistryKept, RegistrySpec

-----------------------------------------------------------------------------
(* Split and Join. *)

Texts(S) == Seq(Seq(S)) \ {<<>>}

SplitStep(S, sep) ==
    [x \in Texts(S) \X S |->
       IF x[2] = sep THEN Append(x[1], <<>>) ELSE [x[1] EXCEPT ![Len(x[1])] = Append(@, x[2])]]

\* At a separator another text begins, any other character goes on with the last.
GoesOn(S, sep, parts, t, c) ==
    LET next == SplitStep(S, sep)[<<Append(parts, t), c>>] IN
    /\ Append(parts, t) \in Texts(S)
    /\ c = sep => next = Append(Append(parts, t), <<>>)
    /\ c # sep => next = Append(parts, Append(t, c))

\* That is the step.
LEMMA SplitGoesOn ==
    ASSUME NEW S, NEW sep, NEW parts \in Seq(Seq(S)), NEW t \in Seq(S), NEW c \in S
    PROVE  GoesOn(S, sep, parts, t, c)
<1> DEFINE q == Append(parts, t)
           r == Append(parts, Append(t, c))
           n == Len(parts) + 1
<1>0. Append(t, c) \in Seq(S)
  OBVIOUS
<1>1. /\ q \in Seq(Seq(S)) /\ Len(q) = n /\ q[n] = t
      /\ r \in Seq(Seq(S)) /\ Len(r) = n /\ r[n] = Append(t, c)
      /\ n \in Nat \ {0}
  BY <1>0
<1>2. \A i \in 1..n : i # n => q[i] = parts[i] /\ r[i] = parts[i]
  BY <1>0
<1> HIDE DEF q, r, n
<1>3. q = [i \in 1..n |-> q[i]] /\ r = [i \in 1..n |-> r[i]] /\ n \in 1..n
  BY <1>1
<1>4. [q EXCEPT ![Len(q)] = Append(@, c)] = r
  <2>1. \A i \in 1..n : r[i] = IF i = n THEN Append(q[n], c) ELSE q[i]
    BY <1>1, <1>2
  <2>2. [q EXCEPT ![n] = Append(@, c)] = [i \in 1..n |-> IF i = n THEN Append(q[n], c) ELSE q[i]]
    BY <1>3
  <2> QED  BY <1>1, <1>3, <2>1, <2>2
<1>5. q \in Texts(S)
  BY <1>1 DEF Texts
<1> QED  BY <1>4, <1>5 DEF SplitStep, GoesOn, q, r

\* A list of texts has a last one.
LEMMA TextsEnd ==
    ASSUME NEW S, NEW x \in Texts(S)
    PROVE  \E parts \in Seq(Seq(S)), t \in Seq(S) : x = Append(parts, t)
BY SequenceEmptyOrAppend DEF Texts

LEMMA SplitStepType ==
    ASSUME NEW S, NEW sep
    PROVE  SplitStep(S, sep) \in [Texts(S) \X S -> Texts(S)] /\ <<<<>>>> \in Texts(S)
<1>1. ASSUME NEW x \in Texts(S), NEW c \in S PROVE SplitStep(S, sep)[<<x, c>>] \in Texts(S)
  <2>1. PICK parts \in Seq(Seq(S)), t \in Seq(S) : x = Append(parts, t)
    BY TextsEnd
  <2>2. Append(t, c) \in Seq(S) /\ x \in Seq(Seq(S)) /\ <<>> \in Seq(S)
    BY <2>1
  <2>0. \A u \in Seq(S) : Append(x, u) \in Texts(S) /\ Append(parts, u) \in Texts(S)
    BY <2>2, SplitGoesOn DEF GoesOn
  <2>3. Append(x, <<>>) \in Texts(S) /\ Append(parts, Append(t, c)) \in Texts(S)
    BY <2>0, <2>2
  <2>4. SplitStep(S, sep)[<<x, c>>] \in {Append(x, <<>>), Append(parts, Append(t, c))}
    <3>1. /\ c = sep => SplitStep(S, sep)[<<x, c>>] = Append(x, <<>>)
          /\ c # sep => SplitStep(S, sep)[<<x, c>>] = Append(parts, Append(t, c))
      <4>1. GoesOn(S, sep, parts, t, c)
        BY SplitGoesOn, Zenon
      <4> QED  BY <2>1, <4>1 DEF GoesOn
    <3> QED  BY <3>1
  <2> QED  BY <2>3, <2>4
<1>2. SplitStep(S, sep) = [x \in Texts(S) \X S |-> SplitStep(S, sep)[x]]
  BY DEF SplitStep
<1>4. \A x \in Texts(S) \X S : SplitStep(S, sep)[x] \in Texts(S)
  BY <1>1
<1>3. <<<<>>>> \in Texts(S)
  BY DEF Texts
<1> HIDE DEF SplitStep
<1> QED  BY <1>2, <1>3, <1>4

\* Split is a fold with that step.
LEMMA SplitFolds ==
    ASSUME NEW S, NEW sep, NEW s \in Seq(S)
    PROVE  FoldsTo(s, <<<<>>>>, SplitStep(S, sep), Split(s, sep)) /\ Split(s, sep) \in Texts(S)
<1> DEFINE n == Len(s)
           E(g) == g = [t \in SUBSET DOMAIN s |->
                          IF t = {} THEN <<<<>>>>
                          ELSE IF s[Max(t)] = sep
                               THEN Append(g[t \ {Max(t)}], <<>>)
                               ELSE [g[t \ {Max(t)}] EXCEPT ![Len(g[t \ {Max(t)}])] = Append(@, s[Max(t)])]]
           h == CHOOSE h : E(h)
<1>1. /\ n \in Nat /\ DOMAIN s = 1..n /\ \A i \in 1..n : s[i] \in S
      /\ 1..0 = {} /\ 1..0 \in SUBSET (1..n) /\ n \in 0..n
  OBVIOUS
<1>2. Split(s, sep) = h[DOMAIN s]
  BY DEF Split, Blank, FoldLeft, MapThenFoldSet
<1>3. PICK f \in [SUBSET DOMAIN s -> Texts(S)] : FoldFcn(s, <<<<>>>>, SplitStep(S, sep), f)
  BY SplitStepType, FoldFcnExists
<1> HIDE DEF n
<1>4. E(f)
  <2>1. ASSUME NEW t \in SUBSET DOMAIN s, t # {}
        PROVE  SplitStep(S, sep)[<<f[t \ {Max(t)}], s[Max(t)]>>]
                 = IF s[Max(t)] = sep
                   THEN Append(f[t \ {Max(t)}], <<>>)
                   ELSE [f[t \ {Max(t)}] EXCEPT ![Len(f[t \ {Max(t)}])] = Append(@, s[Max(t)])]
    <3>1. Max(t) \in 1..n
      BY <1>1, <2>1, MaxIndex
    <3>2. f[t \ {Max(t)}] \in Texts(S)
      OBVIOUS
    <3> QED  BY <1>1, <3>1, <3>2 DEF SplitStep
  <2> QED  BY <1>3, <2>1 DEF FoldFcn
<1>5. E(h)
  BY <1>4
<1> HIDE DEF h
<1>6. ASSUME NEW g, E(g), NEW i \in 1..n
      PROVE  g[1..i] = IF s[i] = sep
                       THEN Append(g[1..(i - 1)], <<>>)
                       ELSE [g[1..(i - 1)] EXCEPT ![Len(g[1..(i - 1)])] = Append(@, s[i])]
  <2>1. /\ 1..i \in SUBSET (1..n) /\ 1..i # {}
        /\ Max(1..i) = i /\ (1..i) \ {i} = 1..(i - 1)
    BY <1>1, FirstIndices
  <2> QED  BY <1>1, <1>6, <2>1
<1>7. GoOnAlike(f, h, n)
  <2>1. f[1..0] = <<<<>>>> /\ h[1..0] = <<<<>>>>
    BY <1>1, <1>4, <1>5
  <2>2. ASSUME NEW i \in 1..n, f[1..(i - 1)] = h[1..(i - 1)]
        PROVE  f[1..i] = h[1..i]
    <3> DEFINE u == f[1..(i - 1)]
    <3>0. u = h[1..(i - 1)]
      BY <2>2
    <3>1. f[1..i] = IF s[i] = sep THEN Append(u, <<>>) ELSE [u EXCEPT ![Len(u)] = Append(@, s[i])]
      BY <1>4, <1>6
    <3>2. h[1..i] = IF s[i] = sep THEN Append(u, <<>>) ELSE [u EXCEPT ![Len(u)] = Append(@, s[i])]
      <4> HIDE DEF u
      <4> QED  BY <1>5, <1>6, <3>0
    <3> QED  BY <3>1, <3>2
  <2> QED  BY <2>1, <2>2 DEF GoOnAlike
<1>8. f[DOMAIN s] = h[DOMAIN s]
  BY <1>1, <1>7, IterationsAgree DEF Agree
<1>9. f[DOMAIN s] \in Texts(S)
  OBVIOUS
<1> QED  BY <1>2, <1>3, <1>8, <1>9, FoldFcnFolds

-----------------------------------------------------------------------------
\* The texts with the separator before each of them.
Led(texts, sep) == FoldLeft(LAMBDA t, u : t \o <<sep>> \o u, <<>>, texts)

LeadStep(S, sep) == [x \in Seq(S) \X Seq(S) |-> x[1] \o <<sep>> \o x[2]]

LEMMA LeadStepType ==
    ASSUME NEW S, NEW sep \in S
    PROVE  LeadStep(S, sep) \in [Seq(S) \X Seq(S) -> Seq(S)] /\ <<>> \in Seq(S)
<1>1. \A t, u \in Seq(S) : t \o <<sep>> \o u \in Seq(S)
  OBVIOUS
<1> QED  BY <1>1 DEF LeadStep

LEMMA LedFolds ==
    ASSUME NEW S, NEW sep \in S, NEW s \in Seq(Seq(S))
    PROVE  FoldsTo(s, <<>>, LeadStep(S, sep), Led(s, sep)) /\ Led(s, sep) \in Seq(S)
<1> DEFINE n == Len(s)
           E(g) == g = [t \in SUBSET DOMAIN s |->
                          IF t = {} THEN <<>> ELSE g[t \ {Max(t)}] \o <<sep>> \o s[Max(t)]]
           h == CHOOSE h : E(h)
<1>1. /\ n \in Nat /\ DOMAIN s = 1..n /\ \A i \in 1..n : s[i] \in Seq(S)
      /\ 1..0 = {} /\ 1..0 \in SUBSET (1..n) /\ n \in 0..n
  OBVIOUS
<1>2. Led(s, sep) = h[DOMAIN s]
  BY DEF Led, FoldLeft, MapThenFoldSet
<1>3. PICK f \in [SUBSET DOMAIN s -> Seq(S)] : FoldFcn(s, <<>>, LeadStep(S, sep), f)
  BY LeadStepType, FoldFcnExists
<1> HIDE DEF n
<1>4. E(f)
  <2>1. ASSUME NEW t \in SUBSET DOMAIN s, t # {}
        PROVE  LeadStep(S, sep)[<<f[t \ {Max(t)}], s[Max(t)]>>]
                 = f[t \ {Max(t)}] \o <<sep>> \o s[Max(t)]
    <3>1. Max(t) \in 1..n
      BY <1>1, <2>1, MaxIndex
    <3>2. f[t \ {Max(t)}] \in Seq(S)
      OBVIOUS
    <3> QED  BY <1>1, <3>1, <3>2 DEF LeadStep
  <2> QED  BY <1>3, <2>1 DEF FoldFcn
<1>5. E(h)
  BY <1>4
<1> HIDE DEF h
<1>6. ASSUME NEW g, E(g), NEW i \in 1..n
      PROVE  g[1..i] = g[1..(i - 1)] \o <<sep>> \o s[i]
  <2>1. /\ 1..i \in SUBSET (1..n) /\ 1..i # {}
        /\ Max(1..i) = i /\ (1..i) \ {i} = 1..(i - 1)
    BY <1>1, FirstIndices
  <2> QED  BY <1>1, <1>6, <2>1
<1>7. GoOnAlike(f, h, n)
  <2>1. f[1..0] = <<>> /\ h[1..0] = <<>>
    BY <1>1, <1>4, <1>5
  <2>2. ASSUME NEW i \in 1..n, f[1..(i - 1)] = h[1..(i - 1)]
        PROVE  f[1..i] = h[1..i]
    <3>1. f[1..i] = f[1..(i - 1)] \o <<sep>> \o s[i]
      BY <1>4, <1>6
    <3>2. h[1..i] = h[1..(i - 1)] \o <<sep>> \o s[i]
      BY <1>5, <1>6
    <3> QED  BY <2>2, <3>1, <3>2
  <2> QED  BY <2>1, <2>2 DEF GoOnAlike
<1>8. f[DOMAIN s] = h[DOMAIN s]
  BY <1>1, <1>7, IterationsAgree DEF Agree
<1>9. f[DOMAIN s] \in Seq(S)
  OBVIOUS
<1> QED  BY <1>2, <1>3, <1>8, <1>9, FoldFcnFolds

\* One text more.
LEMMA LedAppend ==
    ASSUME NEW S, NEW sep \in S, NEW s \in Seq(Seq(S)), NEW t \in Seq(S)
    PROVE  Led(Append(s, t), sep) = Led(s, sep) \o <<sep>> \o t
<1>1. Append(s, t) \in Seq(Seq(S))
  OBVIOUS
<1>2. /\ FoldsTo(s, <<>>, LeadStep(S, sep), Led(s, sep))
      /\ FoldsTo(Append(s, t), <<>>, LeadStep(S, sep), Led(Append(s, t), sep))
  BY <1>1, LedFolds
<1>3. Led(Append(s, t), sep) = LeadStep(S, sep)[<<Led(s, sep), t>>]
  <2> DEFINE v == Led(s, sep)
             w == Led(Append(s, t), sep)
             G == LeadStep(S, sep)
             R == Seq(S)
  <2>1. s \in Seq(R) /\ t \in R
    OBVIOUS
  <2> HIDE DEF v, w, G, R
  <2>2. FoldsTo(s, <<>>, G, v) /\ FoldsTo(Append(s, t), <<>>, G, w)
    BY <1>2 DEF v, w, G
  <2>3. w = G[<<v, t>>]
    BY <2>1, <2>2, FoldsToAppend
  <2> QED  BY <2>3 DEF v, w, G
<1>4. Led(s, sep) \in Seq(S)
  BY LedFolds
<1> QED  BY <1>3, <1>4 DEF LeadStep

-----------------------------------------------------------------------------
\* The texts of a split text, led by the separator, are the text.
LEMMA SplitLed ==
    ASSUME NEW S, NEW sep \in S, NEW s \in Seq(S)
    PROVE  Led(Split(s, sep), sep) = <<sep>> \o s
<1> DEFINE T == {u \in Seq(S) : Led(Split(u, sep), sep) = <<sep>> \o u}
<1>1. <<>> \in T
  <2>1. <<>> \in Seq(S) /\ <<>> \in Seq(Seq(S)) /\ <<<<>>>> = Append(<<>>, <<>>)
    OBVIOUS
  <2>2. Split(<<>>, sep) = <<<<>>>>
    BY <2>1, SplitFolds, FoldsToEmpty
  <2>3. Led(<<>>, sep) = <<>>
    BY <2>1, LedFolds, FoldsToEmpty
  <2>4. Led(<<<<>>>>, sep) = <<>> \o <<sep>> \o <<>>
    <3>1. Led(Append(<<>>, <<>>), sep) = Led(<<>>, sep) \o <<sep>> \o <<>>
      BY <2>1, LedAppend, Zenon
    <3> QED  BY <2>1, <2>3, <3>1
  <2>5. <<>> \o <<sep>> \o <<>> = <<sep>> \o <<>>
    OBVIOUS
  <2> QED  BY <2>1, <2>2, <2>4, <2>5
<1>2. ASSUME NEW u \in Seq(S), NEW c \in S, u \in T
      PROVE  Append(u, c) \in T
  <2>1. Append(u, c) \in Seq(S)
    OBVIOUS
  <2>2. /\ FoldsTo(u, <<<<>>>>, SplitStep(S, sep), Split(u, sep))
        /\ FoldsTo(Append(u, c), <<<<>>>>, SplitStep(S, sep), Split(Append(u, c), sep))
    BY <2>1, SplitFolds
  <2>3. Split(Append(u, c), sep) = SplitStep(S, sep)[<<Split(u, sep), c>>]
    <3> DEFINE v == Split(u, sep)
               w == Split(Append(u, c), sep)
               G == SplitStep(S, sep)
               base == <<<<>>>>
    <3> HIDE DEF v, w, G, base
    <3>1. FoldsTo(u, base, G, v) /\ FoldsTo(Append(u, c), base, G, w)
      BY <2>2 DEF v, w, G, base
    <3>2. w = G[<<v, c>>]
      BY <3>1, FoldsToAppend
    <3> QED  BY <3>2 DEF v, w, G
  <2>4. PICK parts \in Seq(Seq(S)), t \in Seq(S) : Split(u, sep) = Append(parts, t)
    <3>1. Split(u, sep) \in Texts(S)
      BY SplitFolds
    <3> QED  BY <3>1, TextsEnd
  <2>5. Append(parts, t) \in Seq(Seq(S)) /\ Append(t, c) \in Seq(S) /\ <<>> \in Seq(S)
    OBVIOUS
  <2>6. Led(Append(parts, t), sep) = <<sep>> \o u
    BY <1>2, <2>4
  <2>9. /\ c = sep => SplitStep(S, sep)[<<Split(u, sep), c>>] = Append(Append(parts, t), <<>>)
        /\ c # sep => SplitStep(S, sep)[<<Split(u, sep), c>>] = Append(parts, Append(t, c))
    <3>1. GoesOn(S, sep, parts, t, c)
      BY SplitGoesOn, Zenon
    <3> QED  BY <2>4, <3>1 DEF GoesOn
  <2>7. CASE c = sep
    <3>1. Split(Append(u, c), sep) = Append(Append(parts, t), <<>>)
      BY <2>3, <2>7, <2>9
    <3>2. Led(Append(Append(parts, t), <<>>), sep) = (<<sep>> \o u) \o <<sep>> \o <<>>
      BY <2>5, <2>6, LedAppend
    <3>3. (<<sep>> \o u) \o <<sep>> \o <<>> = <<sep>> \o Append(u, c)
      <4>1. /\ <<sep>> \in Seq(S) /\ <<sep>> \o u \in Seq(S) /\ <<>> \in Seq(S)
            /\ Append(u, sep) = u \o <<sep>>
        OBVIOUS
      <4>2. (<<sep>> \o u) \o <<sep>> = <<sep>> \o (u \o <<sep>>)
        BY <4>1
      <4>3. ((<<sep>> \o u) \o <<sep>>) \o <<>> = (<<sep>> \o u) \o <<sep>>
        OBVIOUS
      <4> QED  BY <2>7, <4>1, <4>2, <4>3
    <3> QED  BY <2>1, <3>1, <3>2, <3>3
  <2>8. CASE c # sep
    <3>1. Split(Append(u, c), sep) = Append(parts, Append(t, c))
      BY <2>3, <2>8, <2>9
    <3>2. /\ Led(Append(parts, Append(t, c)), sep) = Led(parts, sep) \o <<sep>> \o Append(t, c)
          /\ Led(Append(parts, t), sep) = Led(parts, sep) \o <<sep>> \o t
          /\ Led(parts, sep) \in Seq(S)
      BY <2>5, LedAppend, LedFolds
    <3> DEFINE l == Led(parts, sep)
    <3> HIDE DEF l
    <3>3. l \in Seq(S) => l \o <<sep>> \o Append(t, c) = Append(l \o <<sep>> \o t, c)
      OBVIOUS
    <3>4. Append(<<sep>> \o u, c) = <<sep>> \o Append(u, c)
      OBVIOUS
    <3> QED  BY <2>1, <2>6, <3>1, <3>2, <3>3, <3>4 DEF l
  <2> QED  BY <2>7, <2>8
<1> HIDE DEF T
<1>3. Seq(S) \subseteq T
  BY <1>1, <1>2, SeqSetInduction
<1> QED  BY <1>3 DEF T

\* Splitting loses nothing: joined again, the parts are the text.
LEMMA SplitJoins ==
    ASSUME NEW S, NEW s \in Seq(S), NEW sep
    PROVE  Join(Split(s, sep), sep) = s /\ Split(s, sep) \in Seq(Seq(S))
<1> DEFINE U == S \cup {sep}
<1>1. s \in Seq(U)
  OBVIOUS
<1>2. Led(Split(s, sep), sep) = <<sep>> \o s
  BY <1>1, SplitLed
<1>3. Tail(<<sep>> \o s) = s
  OBVIOUS
<1>4. Split(s, sep) \in Seq(Seq(S))
  BY SplitFolds DEF Texts
<1> QED  BY <1>2, <1>3, <1>4 DEF Join, Led

-----------------------------------------------------------------------------
(* What a schema that was learned reads in the payload it comes from. *)

\* All but the last element of a sequence, and the last, are the sequence.
LEMMA FrontAndLast ==
    ASSUME NEW S, NEW k \in Nat, NEW q \in [1..(k + 1) -> S]
    PROVE  [j \in 1..k |-> q[j]] \o <<q[k + 1]>> = q
OBVIOUS

\* A path that passes only keys of one name, read back, is the address it was made of.
LEMMA PlainPath ==
    ASSUME NEW l \in Seq(Seq(Names)), \A i \in DOMAIN l : Len(l[i]) = 1
    PROVE  ParsePath(PathOf(l)) = l
<1> DEFINE n == Len(l)
           F(f) == f = [i \in 1..n |-> IF i = 1 THEN l[i] ELSE f[i - 1] \o l[i]]
           g == [i \in 1..n |-> [j \in 1..i |-> l[j][1]]]
           h == CHOOSE f : F(f)
<1>1. n \in Nat /\ DOMAIN l = 1..n /\ l = [i \in 1..n |-> l[i]]
  OBVIOUS
<1>2. \A i \in 1..n : l[i] \in Seq(Names) /\ l[i] = <<l[i][1]>>
  OBVIOUS
<1>3. PathOf(l) = IF n = 0 THEN l ELSE h[n]
  BY DEF PathOf, FlattenSeq
<1> HIDE DEF n
<1>4. F(g)
  <2>1. ASSUME NEW i \in 1..n
        PROVE  g[i] = IF i = 1 THEN l[i] ELSE g[i - 1] \o l[i]
    <3>1. CASE i = 1
      <4>1. g[1] = [j \in 1..1 |-> l[j][1]] /\ l[1] = <<l[1][1]>>
        BY <1>2, <3>1
      <4>2. ASSUME NEW f PROVE [j \in 1..1 |-> f[j][1]] = <<f[1][1]>>
        OBVIOUS
      <4>3. [j \in 1..1 |-> l[j][1]] = <<l[1][1]>>
        BY <4>2
      <4> HIDE DEF g
      <4> QED  BY <3>1, <4>1, <4>3
    <3>2. CASE i # 1
      <4>1. i - 1 \in 1..n /\ i - 1 \in Nat /\ (i - 1) + 1 = i
        BY <1>1, <3>2
      <4>2. g[i - 1] = [j \in 1..(i - 1) |-> l[j][1]] /\ g[i] = [j \in 1..i |-> l[j][1]]
        BY <4>1
      <4> DEFINE S == {l[j][1] : j \in 1..n}
                 k == i - 1
      <4>4. g[i] \in [1..i -> S]
        BY <1>1, <4>2
      <4>5. g[i - 1] = [j \in 1..(i - 1) |-> g[i][j]] /\ g[i][i] = l[i][1]
        BY <1>1, <4>1, <4>2
      <4> HIDE DEF g, S
      <4>6. g[i - 1] \o <<g[i][i]>> = g[i]
        <5>1. k \in Nat /\ i = k + 1 /\ g[i] \in [1..(k + 1) -> S]
          BY <4>1, <4>4
        <5>2. [j \in 1..k |-> g[i][j]] \o <<g[i][k + 1]>> = g[i]
          BY <5>1, FrontAndLast
        <5> QED  BY <4>5, <5>1, <5>2
      <4> QED  BY <1>2, <3>2, <4>5, <4>6
    <3> QED  BY <3>1, <3>2
  <2> QED  BY <2>1
<1>5. F(h)
  BY <1>4
<1> HIDE DEF h
<1>6. \A i \in 1..n : h[i] = IF i = 1 THEN l[i] ELSE h[i - 1] \o l[i]
  BY <1>5
<1>7. \A i \in 1..n : g[i] = IF i = 1 THEN l[i] ELSE g[i - 1] \o l[i]
  BY <1>4
<1>8. \A i \in 1..n : h[i] = g[i]
  <2> DEFINE S == {i \in Nat : i \in 1..n => h[i] = g[i]}
  <2> HIDE DEF g
  <2>1. 0 \in S
    BY <1>1
  <2>2. ASSUME NEW i \in S, i \in Nat PROVE i + 1 \in S
    <3>1. SUFFICES ASSUME i + 1 \in 1..n PROVE h[i + 1] = g[i + 1]
      BY <2>2
    <3>2. CASE i = 0
      BY <1>6, <1>7, <3>1, <3>2
    <3>3. CASE i # 0
      <4>1. i \in 1..n /\ (i + 1) - 1 = i /\ i + 1 # 1
        BY <1>1, <2>2, <3>1, <3>3
      <4>2. h[i] = g[i]
        BY <2>2, <4>1
      <4> QED  BY <1>6, <1>7, <3>1, <4>1, <4>2
    <3> QED  BY <3>2, <3>3
  <2> HIDE DEF S
  <2>3. Nat \subseteq S
    BY <2>1, <2>2, NatSetInduction
  <2> QED  BY <1>1, <2>3 DEF S
<1>9. CASE n = 0
  <2>1. l = <<>> /\ PathOf(l) = <<>>
    BY <1>1, <1>3, <1>9
  <2> QED  BY <2>1 DEF ParsePath
<1>10. CASE n # 0
  <2>0. n \in 1..n
    BY <1>1, <1>10
  <2>1. PathOf(l) = [j \in 1..n |-> l[j][1]]
    BY <1>3, <1>8, <1>10, <2>0
  <2>2. ParsePath(PathOf(l)) = [j \in 1..n |-> <<l[j][1]>>]
    BY <2>1 DEF ParsePath
  <2> QED  BY <1>1, <1>2, <2>2
<1> QED  BY <1>9, <1>10

\* So the leaf at a place of a plain payload is read at its path.
LEMMA PlaceIsRead ==
    ASSUME NEW e \in Events, Plain(payload[e]), NEW texts, NEW i \in Places(payload[e], texts)
    PROVE  LET t == payload[e][Addresses[i]].text IN
           /\ t \in texts \cap (Values \cup {Blank})
           /\ Resolve(payload[e], PathOf(Addresses[i])) = IF t = Blank THEN NoRow ELSE t
<1> DEFINE p == payload[e]
           l == Addresses[i]
<1>1. i \in DOMAIN Addresses /\ l \in DOMAIN p /\ p[l].text \in texts
  BY DEF Places
<1>2. l \in Seq(Seq(Names))
  BY <1>1, AddressesAssumption
<1>3. \A j \in DOMAIN l : Len(l[j]) = 1
  BY <1>1 DEF Plain
<1>4. ParsePath(PathOf(l)) = l
  BY <1>2, <1>3, PlainPath
<1>5. PathOf(l) \in Path /\ PathOf(l) # NoRow
  BY <1>1, NoRowAssumption DEF Path, Address
<1>6. p[l].truthy <=> p[l].text # Blank
  BY <1>1, LeafType, PayloadAssumption DEF Plain
<1>7. p[l].text \in Values \cup {Blank}
  BY <1>1, LeafType
<1>8. Resolve(p, PathOf(l)) = IF p[l].truthy THEN p[l].text ELSE NoRow
  BY <1>1, <1>4, <1>5 DEF Resolve
<1> HIDE DEF l, Blank
<1> QED  BY <1>1, <1>6, <1>7, <1>8 DEF l

\* At the path that is found for a value, it is read.
LEMMA FoundIsRead ==
    ASSUME NEW e \in Events, Plain(payload[e]), NEW v, FindValuePath(payload[e], v) # NoRow
    PROVE  /\ v # NoRow
           /\ Resolve(payload[e], FindValuePath(payload[e], v)) = IF v = Blank THEN NoRow ELSE v
<1> DEFINE p == payload[e]
           found == Places(p, {v})
<1>1. FindValuePath(p, v) = Shortest(found) /\ found \in SUBSET DOMAIN Addresses
  BY DEF FindValuePath, Places
<1>2. PICK i \in found : FindValuePath(p, v) = PathOf(Addresses[i])
  <2> HIDE DEF found
  <2> QED  BY <1>1, ShortestFacts
<1>3. /\ p[Addresses[i]].text = v /\ v \in Values \cup {Blank}
      /\ Resolve(p, PathOf(Addresses[i])) = IF v = Blank THEN NoRow ELSE v
  BY PlaceIsRead
<1> HIDE DEF Blank
<1> QED  BY <1>2, <1>3, PayloadAssumption

\* At the path that is found for a timestamp, a time on its date is.
LEMMA FoundTimestampIsRead ==
    ASSUME NEW e \in Events, Plain(payload[e]), NEW v, FindTimestamp(payload[e], v) # NoRow,
           Resolve(payload[e], FindTimestamp(payload[e], v)) # NoRow
    PROVE  LET t == Resolve(payload[e], FindTimestamp(payload[e], v)) IN
           t = v \/ <<t, v>> \in SameDate
<1> DEFINE p == payload[e]
           texts == {t \in Values : <<t, v>> \in SameDate}
           found == Places(p, texts)
           named == {i \in found : PathOf(Addresses[i]) \in TimePaths}
           other == Shortest(IF named # {} THEN named ELSE found)
<1>1. CASE FindValuePath(p, v) # NoRow
  <2>1. FindTimestamp(p, v) = FindValuePath(p, v)
    BY <1>1 DEF FindTimestamp
  <2> QED  BY <1>1, <2>1, FoundIsRead
<1>2. CASE FindValuePath(p, v) = NoRow
  <2>1. FindTimestamp(p, v) = other
    BY <1>2 DEF FindTimestamp
  <2>2. PICK i \in found : other = PathOf(Addresses[i])
    <3>1. named \in SUBSET DOMAIN Addresses /\ found \in SUBSET DOMAIN Addresses /\ named \subseteq found
      BY DEF Places
    <3> HIDE DEF found, named
    <3> QED  BY <2>1, <3>1, ShortestFacts
  <2> HIDE DEF other, Blank
  <2>3. /\ p[Addresses[i]].text \in texts
        /\ Resolve(p, PathOf(Addresses[i])) \in {NoRow, p[Addresses[i]].text}
    <3> HIDE DEF texts
    <3> QED  BY PlaceIsRead
  <2> QED  BY <2>1, <2>2, <2>3
<1> QED  BY <1>1, <1>2

\* The parts of an id, each read where it was found, are joined to the id; only the
\* colons and dashes at its ends are lost.
LEMMA PartsAreRead ==
    ASSUME NEW e \in Events, Plain(payload[e]), NEW id, IsText(id), NEW sep, sep # NoRow, NEW paths,
           paths = [k \in DOMAIN Split(id, sep) |-> FindValuePath(payload[e], Split(id, sep)[k])],
           \A k \in DOMAIN Split(id, sep) : Split(id, sep)[k] # Blank /\ paths[k] # NoRow
    PROVE  ResolveId(payload[e], [sep |-> sep, paths |-> paths])
             \in {NoRow, Strip(Strip(id, ":"), "-")}
<1> DEFINE p == payload[e]
           q == Split(id, sep)
           spec == [sep |-> sep, paths |-> paths]
           parts == [i \in DOMAIN paths |-> Resolve(p, paths[i])]
           texts == [i \in DOMAIN parts |-> IF parts[i] = NoRow THEN Blank ELSE parts[i]]
<1>1. Join(q, sep) = id /\ q = [k \in DOMAIN q |-> q[k]]
  <2>1. Join(q, sep) = id /\ q \in Seq(Seq({id[k] : k \in DOMAIN id}))
    BY SplitJoins DEF IsText
  <2> HIDE DEF q
  <2> QED  BY <2>1
<1>2. ASSUME NEW k \in DOMAIN q PROVE texts[k] = q[k]
  <2>1. k \in DOMAIN paths /\ paths[k] = FindValuePath(p, q[k])
    OBVIOUS
  <2>2. q[k] # Blank /\ paths[k] # NoRow
    OBVIOUS
  <2> HIDE DEF q, Blank
  <2>3. Resolve(p, paths[k]) = q[k] /\ q[k] # NoRow
    BY <2>1, <2>2, FoundIsRead
  <2> QED  BY <2>1, <2>3
<1>3. DOMAIN texts = DOMAIN q
  OBVIOUS
<1>4. texts = q
  <2> HIDE DEF q, Blank
  <2> QED  BY <1>1, <1>2, <1>3
<1>5. ResolveId(p, spec) \in {NoRow, ResolveTemplate(p, spec)}
  BY DEF ResolveId
<1>6. ResolveTemplate(p, spec) \in {NoRow, Strip(Strip(Join(texts, sep), ":"), "-")}
  BY DEF ResolveTemplate
<1> QED  BY <1>1, <1>4, <1>5, <1>6

\* A template composes the id it was inferred from.
LEMMA TemplateIsRead ==
    ASSUME NEW e \in Events, Plain(payload[e]), NEW id, IsText(id), InferTemplate(payload[e], id) # NoRow
    PROVE  ResolveId(payload[e], InferTemplate(payload[e], id))
             \in {NoRow, Strip(Strip(id, ":"), "-")}
<1> DEFINE p == payload[e]
           parts(i) == Split(id, SEPARATORS[i])
           fits == {i \in DOMAIN SEPARATORS :
                      /\ DOMAIN parts(i) \in {1..n : n \in 2..4}
                      /\ \A k \in DOMAIN parts(i) :
                           parts(i)[k] # Blank /\ FindValuePath(p, parts(i)[k]) # NoRow}
           i == Min(fits)
           paths == [k \in DOMAIN parts(i) |-> FindValuePath(p, parts(i)[k])]
<1>1. fits # {} /\ InferTemplate(p, id) = [sep |-> SEPARATORS[i], paths |-> paths]
  BY DEF InferTemplate
<1>2. i \in fits
  <2>1. fits \in SUBSET Nat
    <3>1. DOMAIN SEPARATORS \subseteq Nat
      BY DEF SEPARATORS
    <3> QED  BY <3>1
  <2> HIDE DEF fits
  <2> QED  BY <1>1, <2>1, MinOfNaturals
<1>3. SEPARATORS[i] # NoRow
  BY <1>2, NoRowAssumption
<1>4. \A k \in DOMAIN parts(i) : parts(i)[k] # Blank /\ paths[k] # NoRow
  BY <1>2
<1> HIDE DEF i
<1> QED  BY <1>1, <1>3, <1>4, PartsAreRead

\* A lesson reads the plain event it was learned from as the model did.
LEMMA LessonReads ==
    ASSUME NEW e \in Events, Plain(payload[e]), NEW a \in Answers[e], Teaches(e, a)
    PROVE  ReadsAs(InferSchemaDoc(payload[e], a), payload[e], a)
<1> DEFINE p == payload[e]
           doc == InferSchemaDoc(p, a)
<1>1. doc # NoRow /\ Extract(doc, p, a.vendor_id, MappingOf(a)) # NoRow
  BY DEF Teaches, Validates
<1>2. CASE a.classification = "unclassified"
  BY <1>2 DEF InferSchemaDoc, ReadsAs
<1>3. CASE a.classification # "unclassified"
  <2>1. /\ doc.classification = a.classification
        /\ doc.entity_external_id = FindId(p, a.ext_id) /\ FindId(p, a.ext_id) # NoRow
        /\ doc.event_timestamp = FindTimestamp(p, a.event_timestamp)
        /\ doc.event_timestamp # NoRow
        /\ doc.event_type = FindValuePath(p, a.raw_event_type)
    BY <1>1, <1>3 DEF InferSchemaDoc
  <2>2. /\ ResolveId(p, doc.entity_external_id) # NoRow
        /\ Resolve(p, doc.event_timestamp) # NoRow
    BY <1>1, <1>3 DEF Extract, CanonicalOf, MappingOf
  <2> HIDE DEF doc
  <2>3. ResolveId(p, doc.entity_external_id) \in {a.ext_id, Strip(Strip(a.ext_id, ":"), "-")}
    <3>1. CASE FindValuePath(p, a.ext_id) # NoRow
      <4>1. ResolveId(p, doc.entity_external_id) = Resolve(p, FindValuePath(p, a.ext_id))
        BY <2>1, <3>1 DEF FindId, ResolveId
      <4> QED  BY <2>2, <3>1, <4>1, FoundIsRead
    <3>2. CASE FindValuePath(p, a.ext_id) = NoRow
      <4>1. a.ext_id # NoRow /\ doc.entity_external_id = InferTemplate(p, a.ext_id)
        BY <2>1, <3>2 DEF FindId
      <4> QED  BY <2>1, <2>2, <4>1, TextAssumption, TemplateIsRead
    <3> QED  BY <3>1, <3>2
  <2>4. LET t == Resolve(p, doc.event_timestamp) IN
        t = a.event_timestamp \/ <<t, a.event_timestamp>> \in SameDate
    BY <2>1, <2>2, FoundTimestampIsRead
  <2>5. RawEventType(doc, p) \in {NoRow, a.raw_event_type}
    <3>1. CASE FindValuePath(p, a.raw_event_type) # NoRow
      BY <2>1, <3>1, FoundIsRead DEF RawEventType
    <3>2. CASE FindValuePath(p, a.raw_event_type) = NoRow
      BY <2>1, <3>2 DEF RawEventType, Resolve
    <3> QED  BY <3>1, <3>2
  <2> QED  BY <2>1, <2>3, <2>4, <2>5 DEF ReadsAs, doc
<1> QED  BY <1>2, <1>3

\* What is learned from a lesson reads its source, and people change the status of a
\* schema only.
LEMMA RegistryStepReads ==
    ASSUME RegistryTypeOK, SchemaReadsItsSource, [RegistryNext]_registry
    PROVE  SchemaReadsItsSource'
<1> DEFINE Reads(s, shape) ==
             s # NoRow => /\ s.source_event_id \in Events
                          /\ ShapeOf[s.source_event_id] = shape
                          /\ Plain(payload[s.source_event_id]) =>
                               \E a \in Answers[s.source_event_id] :
                                 ReadsAs(s.schema_doc, payload[s.source_event_id], a)
<1>1. /\ \A k \in Vendor \X Shapes : Reads(vendor_schemas[k], k[2])
      /\ SchemaReadsItsSource' <=> \A k \in Vendor \X Shapes : Reads(vendor_schemas'[k], k[2])
  BY DEF SchemaReadsItsSource
<1> HIDE DEF Reads
<1>2. CASE UNCHANGED vendor_schemas
  BY <1>1, <1>2
<1>3. ASSUME NEW v \in Vendor, NEW l \in Lessons, LearnSchema(v, l)
      PROVE  SchemaReadsItsSource'
  <2>1. PICK e \in Events : \E a \in Answers[e] : Teaches(e, a) /\ l = Lesson(e, a)
    BY DEF Lessons
  <2>2. PICK a \in Answers[e] : Teaches(e, a) /\ l = Lesson(e, a)
    BY <2>1
  <2> DEFINE k == <<v, ShapeOf[e]>>
             row == [schema_doc |-> l.schema_doc, status |-> "provisional", source_event_id |-> e]
  <2>3. vendor_schemas' = [vendor_schemas EXCEPT ![k] = row]
    BY <1>3, <2>2 DEF LearnSchema, Lesson
  <2>4. Reads(row, k[2])
    BY <2>2, LessonReads DEF Reads, Lesson
  <2> HIDE DEF row, k
  <2>5. \A j \in Vendor \X Shapes : vendor_schemas'[j] = IF j = k THEN row ELSE vendor_schemas[j]
    BY <2>3 DEF RegistryTypeOK
  <2> QED  BY <1>1, <2>4, <2>5
<1>4. ASSUME NEW k \in Vendor \X Shapes, NEW status, SetSchemaStatus(k, status)
      PROVE  SchemaReadsItsSource'
  <2>1. vendor_schemas[k] \in Schema /\ vendor_schemas[k] # NoRow
    BY <1>4 DEF SetSchemaStatus, RegistryTypeOK
  <2> DEFINE row == [vendor_schemas[k] EXCEPT !.status = status]
  <2>2. /\ row.schema_doc = vendor_schemas[k].schema_doc
        /\ row.source_event_id = vendor_schemas[k].source_event_id
    BY <2>1 DEF Schema
  <2>3. Reads(row, k[2])
    <3> HIDE DEF row
    <3> QED  BY <1>1, <2>1, <2>2 DEF Reads
  <2> HIDE DEF row
  <2>4. \A j \in Vendor \X Shapes : vendor_schemas'[j] = IF j = k THEN row ELSE vendor_schemas[j]
    BY <1>4 DEF SetSchemaStatus, RegistryTypeOK, row
  <2> QED  BY <1>1, <2>3, <2>4
<1>5. CASE \E v \in Vendor, t \in Values, m \in Meanings : LearnEventType(v, t, m)
  BY <1>2, <1>5 DEF LearnEventType
<1>6. CASE \E v \in Vendor, t \in Values, m \in TypeAnswers : ReviewEventType(v, t, m)
  BY <1>2, <1>6 DEF ReviewEventType
<1> QED  BY <1>2, <1>3, <1>4, <1>5, <1>6 DEF RegistryNext, People, registry

\* A schema, whichever worker stored it and whatever people made of its status,
\* belongs to the shape of the event it was learned from, and reads a plain payload
\* as the model did: what _infer_composite_template and _find_value_path find is what
\* _resolve_entity_id reads back, along paths and for texts of any length. With a dot
\* in a key or a falsy leaf the code does not keep it: see SameExtraction. It is shown
\* of the registry, which the workers implement.
THEOREM SchemasReadTheirSources == Spec => []SchemaReadsItsSource
<1>1. RegistryInit => SchemaReadsItsSource
  BY DEF RegistryInit, SchemaReadsItsSource
<1>2. TypeOK /\ SchemaReadsItsSource /\ [RegistryNext]_registry => SchemaReadsItsSource'
  BY RegistryStepReads DEF TypeOK
<1> QED  BY <1>1, <1>2, TypeCorrect, PipelineImplementsRegistry, PTL DEF RegistryKept, RegistrySpec

=============================================================================
