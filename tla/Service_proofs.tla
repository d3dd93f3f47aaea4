--------------------------- MODULE Service_proofs ---------------------------
(***************************************************************************)
(* Service, for any events, payloads, vendors, answers and workers: every  *)
(* canonical event the workers apply is one that the event's own payload   *)
(* explains. ExplainInv says what the registry, the cache, raw_events and  *)
(* the attempts know; with PipelineInv it is inductive.                    *)
(***************************************************************************)
EXTENDS Service, Pipeline_proofs

\* A schema that was learned from an event of the shape.
LearnedFor(doc, shape) ==
    \E l \in Lessons : doc = l.schema_doc /\ ShapeOf[l.event_id] = shape

RegistryLearned ==
    /\ \A k \in Vendor \X Shapes :
         vendor_schemas[k] # NoRow => LearnedFor(vendor_schemas[k].schema_doc, k[2])
    /\ \A k \in Vendor \X Values :
         vendor_event_type_map[k] # NoRow => vendor_event_type_map[k].mapping \in Meanings

CacheAnswers ==
    \A k \in Vendor \X Events : llm_cache[k] # NoRow => llm_cache[k] \in Answers[k[2]]

VendorColumn ==
    \A e \in Events :
        /\ vendor_id_column[e] # NoRow => vendor_id_column[e] \in VendorsOf(e)
        /\ vendor_hint[e] # NoRow => vendor_id_column[e] # NoRow

AttemptExplained(w) ==
    /\ pc[w] # "idle" => vendor_id[w] \in VendorsOf(event[w])
    /\ pc[w] \in {"lookup_event_type", "classify_event_type", "persist_event_type"} =>
         /\ LearnedFor(schema_match[w], ShapeOf[event[w]])
         /\ schema_match[w].classification # "unclassified"
    /\ pc[w] \in {"discover", "discover_event_type", "finalize"} =>
         Override(w) \in Explanations(event[w])

ExplainInv ==
    /\ RegistryLearned
    /\ CacheAnswers
    /\ VendorColumn
    /\ \A w \in Workers : AttemptExplained(w)

-----------------------------------------------------------------------------
(* Explanations. *)

\* The vendor that sent an event is one it may be given to.
LEMMA GivenVendorType ==
    ASSUME NEW e \in Events
    PROVE  /\ GivenVendor(e) \in Vendor /\ GivenVendor(e) \in VendorsOf(e)
           /\ VendorsOf(e) \subseteq Vendor
<1>1. GivenVendor(e) \in Vendor
  BY VendorAssumption DEF GivenVendor
<1>2. \A a \in Answers[e] : a.vendor_id \in Vendor
  BY AnswersAssumption DEF Answer
<1> QED  BY <1>1, <1>2 DEF VendorsOf, Vendor

\* A lesson is a schema, and what the vendor's words may mean are meanings.
LEMMA LessonType ==
    ASSUME NEW l \in Lessons
    PROVE  l.schema_doc \in SchemaDoc /\ MeaningsIn(l.schema_doc) \subseteq Mapping
<1>1. PICK e \in Events : \E a \in Answers[e] : Teaches(e, a) /\ l = Lesson(e, a)
  BY DEF Lessons
<1>2. l.schema_doc \in SchemaDoc
  BY <1>1, InferType DEF Teaches, Lesson
<1>3. Meanings \subseteq Mapping
  BY AnswersAssumption, AnswerTypes DEF Meanings, AllAnswers
<1> QED  BY <1>2, <1>3 DEF MeaningsIn, Mapping, Classification

\* The model's answer, with any vendor the event may be given to, explains it.
LEMMA AnswerExplains ==
    ASSUME NEW e \in Events, NEW a \in Answers[e], NEW v \in VendorsOf(e), BuildCanonical(a) # NoRow
    PROVE  [BuildCanonical(a) EXCEPT !.vendor_id = v] \in Explanations(e)
<1> DEFINE b == [a EXCEPT !.vendor_id = v]
<1>1. a \in Answer
  BY AnswersAssumption
<1>2. /\ b.classification = a.classification /\ b.ext_id = a.ext_id /\ b.vendor_id = v
      /\ b.event_type = a.event_type /\ b.event_timestamp = a.event_timestamp
  BY <1>1 DEF Answer
<1>3. BuildCanonical(b) = [BuildCanonical(a) EXCEPT !.vendor_id = v]
  <2> HIDE DEF b
  <2> QED  BY <1>2 DEF BuildCanonical, CanonicalOf
<1>4. [BuildCanonical(a) EXCEPT !.vendor_id = v] \in Reading
  BY <1>1, BuildType, GivenVendorType DEF Reading
<1> QED  BY <1>3, <1>4, NoRowAssumption DEF Explanations, ByModel

\* What a schema learned from the shape of an event reads there explains it.
LEMMA ExtractExplains ==
    ASSUME NEW e \in Events, NEW doc, LearnedFor(doc, ShapeOf[e]),
           NEW v \in VendorsOf(e), NEW m \in MeaningsIn(doc),
           Extract(doc, payload[e], v, m) # NoRow
    PROVE  Extract(doc, payload[e], v, m) \in Explanations(e)
<1>1. PICK l \in ShapeLessons(e) : doc = l.schema_doc
  BY DEF LearnedFor, ShapeLessons
<1>2. Extract(doc, payload[e], v, m) \in BySchema(e, v)
  BY <1>1 DEF BySchema
<1> QED  BY <1>2 DEF Explanations

\* An explanation is a canonical event of a vendor the event may be given to.
LEMMA ExplanationFacts ==
    ASSUME NEW e \in Events, NEW r \in Explanations(e)
    PROVE  r \in Reading /\ r.vendor_id \in VendorsOf(e)
<1>1. ASSUME NEW a \in Answers[e], NEW v \in VendorsOf(e), r = BuildCanonical([a EXCEPT !.vendor_id = v])
      PROVE  r \in Reading /\ r.vendor_id \in VendorsOf(e)
  <2>1. [a EXCEPT !.vendor_id = v] \in Answer /\ [a EXCEPT !.vendor_id = v].vendor_id = v
    BY AnswersAssumption, GivenVendorType DEF Answer
  <2>2. r \in Reading
    BY <1>1, <2>1, BuildType DEF Explanations
  <2>3. r.vendor_id = v
    BY <1>1, <2>1, <2>2, NoRowAssumption DEF BuildCanonical, CanonicalOf
  <2> QED  BY <2>2, <2>3
<1>2. ASSUME NEW l \in ShapeLessons(e), NEW v \in VendorsOf(e), NEW m \in MeaningsIn(l.schema_doc),
             r = Extract(l.schema_doc, payload[e], v, m)
      PROVE  r \in Reading /\ r.vendor_id \in VendorsOf(e)
  <2>1. l.schema_doc \in SchemaDoc /\ m \in Mapping
    BY <1>2, LessonType DEF ShapeLessons
  <2>2. v \in Vendor /\ r # NoRow
    BY GivenVendorType DEF Explanations
  <2> QED  BY <1>2, <2>1, <2>2, ExtractType
<1>3. PICK v \in VendorsOf(e) : r \in ByModel(e, v) \/ r \in BySchema(e, v)
  BY DEF Explanations
<1>4. CASE r \in ByModel(e, v)
  BY <1>1, <1>4 DEF ByModel
<1>5. CASE r \in BySchema(e, v)
  BY <1>2, <1>5 DEF BySchema
<1> QED  BY <1>3, <1>4, <1>5

-----------------------------------------------------------------------------
(* The attempts. *)

\* The model's answer is overridden by the vendor of the attempt, if known.
LEMMA OverrideExplains ==
    ASSUME NEW w \in Workers, NEW a \in Answers[event[w]], event[w] \in Events,
           AttemptOK(w), pc[w] # "idle", vendor_id[w] \in VendorsOf(event[w]),
           BuildCanonical(a) # NoRow
    PROVE  (IF vendor_id[w] # "unknown" THEN [BuildCanonical(a) EXCEPT !.vendor_id = vendor_id[w]]
                                        ELSE BuildCanonical(a)) \in Explanations(event[w])
<1> DEFINE e == event[w]
<1>1. a \in Answer
  BY AnswersAssumption
<1>2. BuildCanonical(a) \in Reading /\ BuildCanonical(a).vendor_id = a.vendor_id
  BY <1>1, BuildType DEF BuildCanonical, CanonicalOf
<1>3. CASE vendor_id[w] # "unknown"
  BY <1>3, AnswerExplains
<1>4. CASE vendor_id[w] = "unknown"
  <2>1. GivenVendor(e) = "unknown"
    BY <1>4 DEF AttemptOK
  <2>2. a.vendor_id \in VendorsOf(e)
    BY <2>1 DEF VendorsOf
  <2>3. [BuildCanonical(a) EXCEPT !.vendor_id = a.vendor_id] = BuildCanonical(a)
    BY <1>2 DEF Reading
  <2>4. [BuildCanonical(a) EXCEPT !.vendor_id = a.vendor_id] \in Explanations(e)
    BY <2>2, AnswerExplains
  <2> QED  BY <1>4, <2>3, <2>4
<1> QED  BY <1>3, <1>4

LEMMA StartExplained ==
    ASSUME TypeOK, VendorColumn, NEW w \in Workers, NEW e \in Events, StartEvent(w, e)
    PROVE  AttemptExplained(w)'
<1>1. pc'[w] = "lookup" /\ event'[w] = e
  BY DEF StartEvent, TypeOK, Goto
<1>2. vendor_id'[w] = IF vendor_id_column[e] = NoRow THEN inferred[e] ELSE vendor_id_column[e]
  BY DEF StartEvent, TypeOK
<1>3. vendor_id'[w] \in VendorsOf(e)
  <2>1. CASE vendor_id_column[e] = NoRow
    <3>1. inferred[e] = GivenVendor(e)
      BY <2>1 DEF VendorColumn, GivenVendor
    <3> QED  BY <1>2, <2>1, <3>1, GivenVendorType
  <2>2. CASE vendor_id_column[e] # NoRow
    BY <1>2, <2>2 DEF VendorColumn
  <2> QED  BY <2>1, <2>2
<1> QED  BY <1>1, <1>3 DEF AttemptExplained, VendorsOf, GivenVendor

\* The second pass reads with a schema of the shape, for the attempt's vendor.
LEMMA SecondPassExplained ==
    ASSUME TypeOK, NEW w \in Workers, AttemptOK(w), AttemptExplained(w),
           pc[w] \in {"lookup_event_type", "classify_event_type", "persist_event_type"},
           NEW m \in Meanings, m \in Mapping, SecondPass(w, m), UNCHANGED <<event, vendor_id>>
    PROVE  AttemptExplained(w)'
<1> DEFINE e == event[w]
           c == Extract(schema_match[w], payload[e], vendor_id[w], m)
<1>1. /\ e \in Events /\ schema_match[w] \in SchemaDoc
      /\ vendor_id[w] \in VendorsOf(e) /\ vendor_id[w] \in Vendor
      /\ LearnedFor(schema_match[w], ShapeOf[e])
  BY DEF AttemptOK, AttemptExplained, TypeOK, PayloadOf
<1>2. m \in MeaningsIn(schema_match[w])
  BY DEF AttemptExplained, MeaningsIn
<1>3. c # NoRow => c \in Explanations(e) /\ c \in Reading /\ c.vendor_id = vendor_id[w]
  BY <1>1, <1>2, ExtractExplains, ExtractType
<1>4. /\ canonical'[w] = c /\ pc'[w] = IF c = NoRow THEN "classify_extract" ELSE "finalize"
      /\ event'[w] = e /\ vendor_id'[w] = vendor_id[w]
  BY DEF SecondPass, Goto, TypeOK, PayloadOf
<1> HIDE DEF e, c
<1>5. c # NoRow => Override(w)' = c
  <2>1. c \in Reading => [c EXCEPT !.vendor_id = c.vendor_id] = c
    BY DEF Reading
  <2> QED  BY <1>3, <1>4, <2>1 DEF Override
<1> QED  BY <1>1, <1>3, <1>4, <1>5 DEF AttemptExplained, VendorsOf, GivenVendor

\* With an unclassified schema the first pass is all there is.
LEMMA LookupExplained ==
    ASSUME TypeOK, RegistryLearned, NEW w \in Workers, AttemptOK(w), AttemptExplained(w), Lookup(w)
    PROVE  AttemptExplained(w)'
<1> DEFINE e == event[w]
           row == vendor_schemas[SchemaKey(w)]
           doc == IF row = NoRow THEN NoRow
                  ELSE IF row.status \in {"provisional", "active"} THEN row.schema_doc ELSE NoRow
           none == [classification |-> "unclassified", canonical_state |-> NoRow]
           unclassified == doc # NoRow /\ doc.classification = "unclassified"
           c == Extract(doc, payload[e], vendor_id[w], none)
<1>1. e \in Events /\ vendor_id[w] \in VendorsOf(e) /\ pc[w] = "lookup"
  BY DEF Lookup, AttemptOK, AttemptExplained
<1>2. SchemaKey(w) \in Vendor \X Shapes /\ SchemaKey(w)[2] = ShapeOf[e]
  BY <1>1, SchemaKeyType DEF SchemaKey, PayloadOf
<1>3. doc # NoRow => LearnedFor(doc, ShapeOf[e])
  BY <1>2 DEF RegistryLearned
<1>4. /\ event'[w] = e /\ vendor_id'[w] = vendor_id[w] /\ schema_match'[w] = doc
      /\ \/ pc'[w] = "finalize" /\ canonical'[w] = c /\ unclassified
         \/ pc'[w] = "lookup_event_type" /\ doc # NoRow /\ ~unclassified
         \/ pc'[w] = "classify_extract"
  BY DEF Lookup, Goto, TypeOK, PayloadOf
<1>5. unclassified => none \in MeaningsIn(doc)
  BY DEF MeaningsIn
<1>6. c \in Reading /\ c.vendor_id = vendor_id[w]
  <2>1. c \in Reading
    BY <1>1, UnclassifiedType DEF TypeOK
  <2>2. c.vendor_id = vendor_id[w]
    BY DEF Extract, CanonicalOf
  <2> QED  BY <2>1, <2>2
<1>7. unclassified => c \in Explanations(e)
  BY <1>1, <1>3, <1>5, <1>6, ExtractExplains, NoRowAssumption
<1> HIDE DEF e, c, doc, none
<1>8. canonical'[w] = c => Override(w)' = c
  <2>1. [c EXCEPT !.vendor_id = c.vendor_id] = c
    BY <1>6 DEF Reading
  <2> QED  BY <1>4, <1>6, <2>1 DEF Override
<1> QED  BY <1>1, <1>3, <1>4, <1>7, <1>8 DEF AttemptExplained, VendorsOf, GivenVendor, PayloadOf

LEMMA PathAExplained ==
    ASSUME TypeOK, RegistryLearned, NEW w \in Workers, AttemptOK(w), AttemptExplained(w),
           LookupEventType(w) \/ ClassifyEventType(w) \/ PersistEventType(w)
    PROVE  AttemptExplained(w)'
<1>1. CASE LookupEventType(w)
  <2> DEFINE row == vendor_event_type_map[EventTypeKey(w)]
  <2>1. EventTypeKey(w) \in Vendor \X Values
    BY <1>1, EventTypeKeyType DEF LookupEventType
  <2>2. CASE row # NoRow
    <3>1. row.mapping \in Meanings /\ row.mapping \in Mapping
      BY <2>1, <2>2 DEF RegistryLearned, TypeOK, RegistryTypeOK, EventTypeRow
    <3> QED  BY <1>1, <2>2, <3>1, SecondPassExplained DEF LookupEventType
  <2>3. CASE row = NoRow
    <3>1. /\ pc[w] = "lookup_event_type" /\ pc'[w] = "classify_event_type"
          /\ UNCHANGED <<event, vendor_id, schema_match>>
      BY <1>1, <2>3 DEF LookupEventType, Goto, TypeOK
    <3> QED  BY <3>1 DEF AttemptExplained, PayloadOf, VendorsOf, GivenVendor
  <2> QED  BY <2>2, <2>3
<1>2. CASE ClassifyEventType(w)
  <2>1. /\ pc[w] = "classify_event_type" /\ pc'[w] \in {"persist_event_type", "classify_extract"}
        /\ UNCHANGED <<event, vendor_id, schema_match>>
    BY <1>2 DEF ClassifyEventType, Goto, TypeOK
  <2> QED  BY <2>1 DEF AttemptExplained, PayloadOf, VendorsOf, GivenVendor
<1>3. CASE PersistEventType(w)
  <2>1. pc[w] = "persist_event_type" /\ mapping[w] \in TypeAnswers
    BY <1>3 DEF PersistEventType, AttemptOK
  <2>2. mapping[w] \in Meanings /\ mapping[w] \in Mapping
    BY <2>1, AnswersAssumption DEF Meanings
  <2> QED  BY <1>3, <2>1, <2>2, SecondPassExplained DEF PersistEventType
<1> QED  BY <1>1, <1>2, <1>3

LEMMA PathBExplained ==
    ASSUME TypeOK, CacheAnswers, NEW w \in Workers, AttemptOK(w), AttemptExplained(w),
           \/ ExtractFromCache(w) \/ CacheMiss(w) \/ ModelRefuses(w)
           \/ \E e \in Events : \E a \in Answers[e] : ModelAnswers(w, a)
           \/ Discover(w) \/ DiscoverEventType(w) \/ DiscoveryFails(w)
    PROVE  AttemptExplained(w)'
<1>1. ASSUME NEW a \in Answers[event[w]], event[w] \in Events, pc[w] # "idle",
             UNCHANGED <<event, vendor_id>>,
             \/ pc'[w] = "mark_review"
             \/ /\ pc'[w] \in {"discover", "finalize"}
                /\ BuildCanonical(a) # NoRow /\ canonical'[w] = BuildCanonical(a)
      PROVE  AttemptExplained(w)'
  <2>1. vendor_id[w] \in VendorsOf(event[w])
    BY <1>1 DEF AttemptExplained
  <2>2. CASE pc'[w] = "mark_review"
    BY <1>1, <2>1, <2>2 DEF AttemptExplained, VendorsOf, GivenVendor
  <2>3. CASE pc'[w] # "mark_review"
    <3> DEFINE r == IF vendor_id[w] # "unknown"
                    THEN [BuildCanonical(a) EXCEPT !.vendor_id = vendor_id[w]]
                    ELSE BuildCanonical(a)
    <3>1. r \in Explanations(event[w])
      BY <1>1, <2>1, <2>3, OverrideExplains
    <3>2. Override(w)' = r
      BY <1>1, <2>3 DEF Override
    <3> QED  BY <1>1, <2>1, <2>3, <3>1, <3>2 DEF AttemptExplained, VendorsOf, GivenVendor
  <2> QED  BY <2>2, <2>3
<1>2. CASE ExtractFromCache(w)
  <2>1. event[w] \in Events /\ CacheKey(w) \in Vendor \X Events
    BY <1>2, CacheKeyType DEF ExtractFromCache, AttemptOK
  <2>2. llm_cache[CacheKey(w)] \in Answers[event[w]]
    BY <1>2, <2>1 DEF ExtractFromCache, CacheAnswers, CacheKey
  <2> QED  BY <1>1, <1>2, <2>1, <2>2 DEF ExtractFromCache, Goto, TypeOK
<1>3. CASE CacheMiss(w) \/ ModelRefuses(w)
  <2>1. /\ pc[w] # "idle" /\ pc'[w] \in {"complete", "mark_pending_llm", "mark_review"}
        /\ UNCHANGED <<event, vendor_id>>
    BY <1>3 DEF CacheMiss, ModelRefuses, Goto, TypeOK
  <2> QED  BY <2>1 DEF AttemptExplained, VendorsOf, GivenVendor
<1>4. ASSUME NEW a, ModelAnswers(w, a) PROVE AttemptExplained(w)'
  <2>1. event[w] \in Events /\ a \in Answers[event[w]]
    BY <1>4 DEF ModelAnswers, AttemptOK
  <2> QED  BY <1>1, <1>4, <2>1 DEF ModelAnswers, Goto, TypeOK
<1>5. CASE Discover(w) \/ DiscoverEventType(w) \/ DiscoveryFails(w)
  <2>1. /\ pc[w] \in {"discover", "discover_event_type"}
        /\ pc'[w] \in {"discover_event_type", "finalize"}
        /\ UNCHANGED <<event, vendor_id, canonical>>
    BY <1>5 DEF Discover, DiscoverEventType, DiscoveryFails, EndDiscovery, Goto, TypeOK
  <2>2. Override(w)' = Override(w)
    BY <2>1 DEF Override
  <2> QED  BY <2>1, <2>2 DEF AttemptExplained, VendorsOf, GivenVendor
<1> QED  BY <1>2, <1>3, <1>4, <1>5

-----------------------------------------------------------------------------
(* What the attempts share. *)

\* Every row of the registry is written by a lesson or left by people.
LEMMA RegistryLearnedStep ==
    ASSUME TypeOK, TypeOK', RegistryLearned, [RegistryNext]_registry
    PROVE  RegistryLearned'
<1>1. ASSUME NEW v \in Vendor, NEW l \in Lessons, LearnSchema(v, l) PROVE RegistryLearned'
  <2> DEFINE at == <<v, ShapeOf[l.event_id]>>
             row == [schema_doc |-> l.schema_doc, status |-> "provisional",
                     source_event_id |-> l.event_id]
  <2>1. ASSUME NEW k \in Vendor \X Shapes, vendor_schemas'[k] # NoRow
        PROVE  LearnedFor(vendor_schemas'[k].schema_doc, k[2])
    <3>1. CASE k = at
      BY <1>1, <3>1 DEF LearnSchema, TypeOK, RegistryTypeOK, LearnedFor
    <3>2. CASE k # at
      BY <1>1, <2>1, <3>2 DEF LearnSchema, TypeOK, RegistryTypeOK, RegistryLearned
    <3> QED  BY <3>1, <3>2
  <2> QED  BY <1>1, <2>1 DEF LearnSchema, RegistryLearned, LearnedFor
<1>2. ASSUME NEW v \in Vendor, NEW t \in Values, NEW m \in Meanings,
             LearnEventType(v, t, m) \/ (m \in TypeAnswers /\ ReviewEventType(v, t, m))
      PROVE  RegistryLearned'
  <2>1. PICK reviewed \in BOOLEAN :
          vendor_event_type_map' = [vendor_event_type_map EXCEPT ![<<v, t>>] =
                                      [mapping |-> m, reviewed_by_human |-> reviewed]]
    BY <1>2 DEF LearnEventType, ReviewEventType
  <2>2. ASSUME NEW k \in Vendor \X Values, vendor_event_type_map'[k] # NoRow
        PROVE  vendor_event_type_map'[k].mapping \in Meanings
    BY <2>1, <2>2 DEF TypeOK, RegistryTypeOK, RegistryLearned
  <2>3. UNCHANGED vendor_schemas
    BY <1>2 DEF LearnEventType, ReviewEventType
  <2> QED  BY <2>2, <2>3 DEF RegistryLearned, LearnedFor
<1>3. ASSUME NEW at \in Vendor \X Shapes, NEW status \in {"active", "deprecated"},
             SetSchemaStatus(at, status)
      PROVE  RegistryLearned'
  <2>1. vendor_schemas[at] \in Schema
    BY <1>3 DEF SetSchemaStatus, TypeOK, RegistryTypeOK
  <2>2. vendor_schemas' = [vendor_schemas EXCEPT ![at] = [vendor_schemas[at] EXCEPT !.status = status]]
    BY <1>3 DEF SetSchemaStatus, TypeOK, RegistryTypeOK
  <2>3. [vendor_schemas[at] EXCEPT !.status = status].schema_doc = vendor_schemas[at].schema_doc
    BY <2>1 DEF Schema
  <2>4. ASSUME NEW k \in Vendor \X Shapes, vendor_schemas'[k] # NoRow
        PROVE  LearnedFor(vendor_schemas'[k].schema_doc, k[2])
    <3>1. vendor_schemas[k] # NoRow /\ vendor_schemas'[k].schema_doc = vendor_schemas[k].schema_doc
      BY <1>3, <2>2, <2>3, <2>4 DEF SetSchemaStatus, TypeOK, RegistryTypeOK
    <3> QED  BY <3>1 DEF RegistryLearned
  <2> QED  BY <1>3, <2>4 DEF SetSchemaStatus, RegistryLearned, LearnedFor
<1>4. CASE UNCHANGED registry
  BY <1>4 DEF registry, RegistryLearned, LearnedFor
<1>5. TypeAnswers \subseteq Meanings
  BY DEF Meanings
<1> QED  BY <1>1, <1>2, <1>3, <1>4, <1>5 DEF RegistryNext, People

LEMMA CacheAnswersStep ==
    ASSUME TypeOK, CacheAnswers, NEW w \in Workers, AttemptOK(w),
           Step(w) \/ \E e \in Events : StartEvent(w, e)
    PROVE  CacheAnswers'
<1>1. ASSUME NEW a, ModelAnswers(w, a) PROVE CacheAnswers'
  <2>1. /\ event[w] \in Events /\ a \in Answers[event[w]] /\ CacheKey(w)[2] = event[w]
        /\ llm_cache' = [llm_cache EXCEPT ![CacheKey(w)] = IF @ = NoRow THEN a ELSE @]
    BY <1>1 DEF ModelAnswers, AttemptOK, CacheKey
  <2>2. ASSUME NEW k \in Vendor \X Events, llm_cache'[k] # NoRow
        PROVE  llm_cache'[k] \in Answers[k[2]]
    <3>1. llm_cache'[k] = llm_cache[k] \/ (k = CacheKey(w) /\ llm_cache'[k] = a)
      BY <2>1 DEF TypeOK
    <3> QED  BY <2>1, <2>2, <3>1 DEF CacheAnswers
  <2> QED  BY <2>2 DEF CacheAnswers
<1>2. CASE ~\E e \in Events : \E a \in Answers[e] : ModelAnswers(w, a)
  <2>1. UNCHANGED llm_cache
    BY <1>2 DEF Step, Work, StartEvent, Lookup, LookupEventType, ClassifyEventType,
       PersistEventType, ExtractFromCache, CacheMiss, ModelRefuses, Discover, DiscoverEventType,
       DiscoveryFails, Finalize, Mark, Raise
  <2> QED  BY <2>1 DEF CacheAnswers
<1> QED  BY <1>1, <1>2

LEMMA VendorColumnStep ==
    ASSUME TypeOK, VendorColumn, NEW w \in Workers, AttemptOK(w), AttemptExplained(w),
           Step(w) \/ \E e \in Events : StartEvent(w, e)
    PROVE  VendorColumn'
<1>1. CASE Finalize(w)
  <2>1. event[w] \in Events /\ Override(w) \in Explanations(event[w])
    BY <1>1 DEF Finalize, AttemptOK, AttemptExplained
  <2>2. Override(w).vendor_id \in VendorsOf(event[w]) /\ Override(w).vendor_id # NoRow
    BY <2>1, ExplanationFacts, GivenVendorType, NoRowAssumption
  <2>3. vendor_id_column' = [vendor_id_column EXCEPT ![event[w]] =
                               IF @ = NoRow THEN Override(w).vendor_id ELSE @]
    BY <1>1 DEF Finalize
  <2>4. ASSUME NEW e \in Events
        PROVE  /\ vendor_id_column'[e] # NoRow => vendor_id_column'[e] \in VendorsOf(e)
               /\ vendor_hint[e] # NoRow => vendor_id_column'[e] # NoRow
    BY <2>2, <2>3 DEF VendorColumn, TypeOK
  <2> QED  BY <2>4 DEF VendorColumn, VendorsOf, GivenVendor
<1>2. CASE ~Finalize(w)
  <2>1. UNCHANGED vendor_id_column
    BY <1>2 DEF Step, Work, StartEvent, Lookup, LookupEventType, ClassifyEventType,
       PersistEventType, ExtractFromCache, CacheMiss, ModelAnswers, ModelRefuses, Discover,
       DiscoverEventType, DiscoveryFails, Mark, Raise, results
  <2> QED  BY <2>1 DEF VendorColumn, VendorsOf, GivenVendor
<1> QED  BY <1>1, <1>2

-----------------------------------------------------------------------------
(* ExplainInv is kept. *)

LEMMA InitExplained == ASSUME Init PROVE ExplainInv
<1>1. RegistryLearned /\ CacheAnswers
  BY DEF Init, RegistryInit, RegistryLearned, CacheAnswers
<1>2. VendorColumn
  <2>1. ASSUME NEW e \in Events, vendor_hint[e] # NoRow PROVE vendor_hint[e] \in VendorsOf(e)
    <3>1. vendor_hint[e] = GivenVendor(e)
      BY <2>1 DEF GivenVendor
    <3> QED  BY <3>1, GivenVendorType
  <2> QED  BY <2>1 DEF Init, VendorColumn
<1>3. \A w \in Workers : AttemptExplained(w)
  BY DEF Init, AttemptExplained
<1> QED  BY <1>1, <1>2, <1>3 DEF ExplainInv

LEMMA WorkerExplained ==
    ASSUME PipelineInv, ExplainInv, PipelineInv', NEW w \in Workers,
           Step(w) \/ \E e \in Events : StartEvent(w, e), [RegistryNext]_registry
    PROVE  ExplainInv'
<1>1. /\ TypeOK /\ TypeOK' /\ \A u \in Workers : AttemptOK(u)
      /\ RegistryLearned /\ CacheAnswers /\ VendorColumn
      /\ \A u \in Workers : AttemptExplained(u)
  BY DEF PipelineInv, ExplainInv
<1>2. RegistryLearned' /\ CacheAnswers' /\ VendorColumn'
  BY <1>1, RegistryLearnedStep, CacheAnswersStep, VendorColumnStep
<1>3. AttemptExplained(w)'
  <2>1. CASE Work(w) \/ \E e \in Events : StartEvent(w, e)
    BY <1>1, <2>1, StartExplained, LookupExplained, PathAExplained, PathBExplained DEF Work
  <2>2. CASE Finalize(w) \/ Mark(w) \/ Raise(w)
    <3>1. pc'[w] = "idle"
      BY <1>1, <2>2 DEF Finalize, Mark, Raise, End, Goto, TypeOK
    <3> QED  BY <3>1 DEF AttemptExplained
  <2> QED  BY <2>1, <2>2 DEF Step
<1>4. ASSUME NEW u \in Workers, u # w PROVE AttemptExplained(u)'
  <2>1. /\ pc'[u] = pc[u] /\ event'[u] = event[u] /\ vendor_id'[u] = vendor_id[u]
        /\ schema_match'[u] = schema_match[u] /\ canonical'[u] = canonical[u]
    BY <1>1, <1>4, OtherAttempts
  <2>2. Override(u)' = Override(u)
    BY <2>1 DEF Override
  <2>3. AttemptExplained(u)
    BY <1>1
  <2> QED  BY <2>1, <2>2, <2>3 DEF AttemptExplained, LearnedFor, PayloadOf, VendorsOf, GivenVendor
<1> QED  BY <1>2, <1>3, <1>4 DEF ExplainInv

\* People write meanings too, and nothing else changes.
LEMMA DecideExplained ==
    ASSUME PipelineInv, ExplainInv, PipelineInv', Decide
    PROVE  ExplainInv'
<1>1. RegistryLearned'
  BY RegistryLearnedStep DEF PipelineInv, ExplainInv, Decide, RegistryNext
<1>2. CacheAnswers' /\ VendorColumn'
  BY DEF ExplainInv, Decide, results, CacheAnswers, VendorColumn, VendorsOf, GivenVendor
<1>3. ASSUME NEW w \in Workers PROVE AttemptExplained(w)'
  <2>1. Override(w)' = Override(w) /\ UNCHANGED <<pc, event, vendor_id, schema_match>>
    BY DEF Decide, attempt, Override
  <2>2. AttemptExplained(w)
    BY DEF ExplainInv
  <2> QED  BY <2>1, <2>2 DEF AttemptExplained, LearnedFor, PayloadOf, VendorsOf, GivenVendor
<1> QED  BY <1>1, <1>2, <1>3 DEF ExplainInv

LEMMA NextExplained ==
    ASSUME PipelineInv, ExplainInv, [Next]_vars
    PROVE  PipelineInv' /\ ExplainInv'
<1>1. PipelineInv' /\ [RegistryNext]_registry
  BY NextPipelineInv, NextLearns
<1>2. ASSUME NEW w \in Workers, Step(w) \/ \E e \in Events : StartEvent(w, e) PROVE ExplainInv'
  BY <1>1, <1>2, WorkerExplained
<1>3. CASE Decide
  BY <1>1, <1>3, DecideExplained
<1>4. CASE UNCHANGED vars
  <2>1. UNCHANGED <<vendor_schemas, vendor_event_type_map, llm_cache, vendor_id_column, pc, event,
                    vendor_id, schema_match, canonical>>
    BY <1>4 DEF vars, registry, results, attempt
  <2>2. RegistryLearned' /\ CacheAnswers' /\ VendorColumn'
    BY <2>1 DEF ExplainInv, RegistryLearned, LearnedFor, CacheAnswers, VendorColumn, VendorsOf,
                GivenVendor
  <2>3. ASSUME NEW w \in Workers PROVE AttemptExplained(w)'
    <3>1. AttemptExplained(w) /\ Override(w)' = Override(w)
      BY <2>1 DEF ExplainInv, Override
    <3> QED  BY <2>1, <3>1 DEF AttemptExplained, LearnedFor, PayloadOf, VendorsOf, GivenVendor
  <2> QED  BY <1>1, <2>2, <2>3 DEF ExplainInv
<1> QED  BY <1>1, <1>2, <1>3, <1>4 DEF Next

-----------------------------------------------------------------------------
(* Service. *)

\* A replay takes nothing from what the workers know.
LEMMA ReplayExplained ==
    ASSUME PipelineInv, ExplainInv, Replay
    PROVE  PipelineInv' /\ ExplainInv'
<1>1. /\ UNCHANGED <<vendor_schemas, vendor_event_type_map, vendor_id_column, llm_cache, pc, event,
                     vendor_id, schema_match, mapping, answer, canonical, llm_type_writes>>
      /\ canonical_events' = [e \in Events |-> NoRow]
  BY DEF Replay, registry, attempt
<1>2. TypeOK'
  BY <1>1 DEF PipelineInv, TypeOK, RegistryTypeOK
<1>3. KnownVendorKept'
  BY <1>1 DEF PipelineInv, KnownVendorKept, GivenVendor
<1>4. ASSUME NEW w \in Workers PROVE AttemptOK(w)' /\ AttemptExplained(w)'
  <2>1. AttemptOK(w) /\ AttemptExplained(w) /\ Override(w)' = Override(w)
    BY <1>1 DEF PipelineInv, ExplainInv, Override
  <2> QED  BY <1>1, <2>1
           DEF AttemptOK, AttemptExplained, LearnedFor, PayloadOf, VendorsOf, GivenVendor
<1>5. ASSUME NEW k \in Vendor \X Values PROVE WritesBounded(k)'
  BY <1>1 DEF PipelineInv, WritesBounded, Asking, EventTypeKey, PayloadOf
<1>6. RegistryLearned' /\ CacheAnswers' /\ VendorColumn'
  BY <1>1 DEF ExplainInv, RegistryLearned, LearnedFor, CacheAnswers, VendorColumn, VendorsOf,
              GivenVendor
<1> QED  BY <1>2, <1>3, <1>4, <1>5, <1>6 DEF PipelineInv, ExplainInv

LEMMA ServiceExplained ==
    ASSUME PipelineInv, ExplainInv, [ServiceNext]_serviceVars
    PROVE  PipelineInv' /\ ExplainInv'
<1>1. CASE Replay
  BY <1>1, ReplayExplained
<1>2. CASE ServiceNext /\ ~Replay
  <2>1. Next
    BY <1>2 DEF ServiceNext, Begin, Continue, Close, MarkEvent, Fail, PeopleDecide, Next, Step
  <2> QED  BY <2>1, NextExplained
<1>3. CASE UNCHANGED serviceVars
  <2>1. UNCHANGED vars
    BY <1>3 DEF serviceVars
  <2> QED  BY <2>1, NextExplained
<1> QED  BY <1>1, <1>2, <1>3

THEOREM ServiceInvariant == ServiceSpec => [](PipelineInv /\ ExplainInv)
<1>1. ServiceInit => PipelineInv /\ ExplainInv
  BY InitPipelineInv, InitExplained DEF ServiceInit
<1>2. PipelineInv /\ ExplainInv /\ [ServiceNext]_serviceVars => (PipelineInv /\ ExplainInv)'
  BY ServiceExplained
<1> QED  BY <1>1, <1>2, PTL DEF ServiceSpec

\* What is finalized is explained.
LEMMA CloseExplained ==
    ASSUME PipelineInv, ExplainInv, NEW w \in Workers, Close(w)
    PROVE  /\ event[w] \in Events /\ Override(w) \in Explanations(event[w])
           /\ Identified(event[w], Override(w)) \in Readings
<1>1. event[w] \in Events /\ Override(w) \in Explanations(event[w])
  BY DEF Close, Finalize, PipelineInv, ExplainInv, AttemptOK, AttemptExplained
<1> QED  BY <1>1, ReadingsAssumption DEF Explained

\* A step within an attempt derives nothing.
LEMMA QuietWork ==
    ASSUME NEW w \in Workers, Work(w) \/ \E e \in Events : StartEvent(w, e)
    PROVE  UNCHANGED canonical_events
BY DEF Work, StartEvent, Lookup, LookupEventType, ClassifyEventType, PersistEventType,
   ExtractFromCache, CacheMiss, ModelAnswers, ModelRefuses, Discover, DiscoverEventType,
   DiscoveryFails, results

LEMMA ServiceRefines ==
    ASSUME PipelineInv, ExplainInv, [ServiceNext]_serviceVars
    PROVE  [P!SerialNext]_(P!tables)
<1>1. ASSUME UNCHANGED canonical_events, UNCHANGED derived PROVE UNCHANGED P!tables
  BY <1>1 DEF P!tables, derived, CanonicalRows, Identified
<1>2. ASSUME NEW w \in Workers, Close(w) PROVE P!SerialNext
  BY <1>2, CloseExplained DEF Close, P!SerialNext
<1>3. ASSUME NEW w \in Workers, MarkEvent(w) PROVE P!SerialNext
  <2>1. event[w] \in Events
    BY <1>3 DEF MarkEvent, Mark, PipelineInv, AttemptOK
  <2> QED  BY <1>3, <2>1 DEF MarkEvent, P!SerialNext
<1>4. ASSUME NEW w \in Workers, Fail(w) PROVE [P!SerialNext]_(P!tables)
  <2>1. event[w] \in Events
    BY <1>4 DEF Fail, Raise, PipelineInv, AttemptOK
  <2>2. CASE P!SetStatus(event[w], "failed")
    BY <2>1, <2>2 DEF P!SerialNext
  <2>3. CASE UNCHANGED derived
    BY <1>1, <1>4, <2>3 DEF Fail, Raise, results
  <2> QED  BY <1>4, <2>2, <2>3 DEF Fail
<1>5. CASE Replay
  BY <1>5 DEF Replay, P!SerialNext
<1>6. CASE PeopleDecide
  BY <1>1, <1>6 DEF PeopleDecide, Decide, results
<1>7. ASSUME NEW w \in Workers, Continue(w) \/ \E e \in Events : Begin(w, e) PROVE UNCHANGED P!tables
  BY <1>1, <1>7, QuietWork DEF Continue, Begin
<1>8. CASE UNCHANGED serviceVars
  BY <1>1, <1>8 DEF serviceVars, vars, results
<1> QED  BY <1>2, <1>3, <1>4, <1>5, <1>6, <1>7, <1>8 DEF ServiceNext

\* The composition of the workers, the registry, the cache and the projections
\* implements the serial specification over the canonical events that the events'
\* own payloads explain.
THEOREM OnlyExplainedEventsApplied == ServiceSpec => ProjectionsExplained
<1>1. ServiceInit => P!SerialInit
  BY DEF ServiceInit, Init, P!SerialInit, P!TablesInit, CanonicalRows
<1> QED  BY <1>1, ServiceRefines, ServiceInvariant, PTL
         DEF ServiceSpec, ProjectionsExplained, P!SerialSpec

-----------------------------------------------------------------------------
(* One entity. *)

\* Every observation of an event for an entity is due to an explanation of that
\* event that names the entity.
ObservedExplained ==
    /\ applied_events \in [P!Entity -> SUBSET Events]
    /\ \A n \in P!Entity : \A e \in applied_events[n] :
         \E r \in Explanations(e) :
           r.classification # "unclassified" /\ n = P!EntityOf(Identified(e, r))

\* The closing transaction observes the event it closes, for the entity it
\* names, or nothing.
LEMMA ProcessObserves ==
    ASSUME NEW c, P!Process(c)
    PROVE  \/ UNCHANGED applied_events
           \/ /\ c \in P!ClassifiedEvent
              /\ applied_events' = [applied_events EXCEPT ![P!EntityOf(c)] =
                                      applied_events[P!EntityOf(c)] \cup {c.event_id}]
<1>1. CASE P!RecordOnly(c)
  BY <1>1 DEF P!RecordOnly
<1>2. CASE c \in P!ClassifiedEvent /\ (P!ApplyInitial(c) \/ P!Apply(c))
  BY <1>2 DEF P!ApplyInitial, P!Apply, P!Move
<1>3. CASE c \in P!ClassifiedEvent /\ (P!SkipStale(c) \/ P!RejectTransition(c))
  BY <1>3 DEF P!SkipStale, P!RejectTransition, P!Log
<1> QED  BY <1>1, <1>2, <1>3 DEF P!Process

LEMMA CloseObserves ==
    ASSUME PipelineInv, ExplainInv, ObservedExplained, NEW w \in Workers, Close(w)
    PROVE  ObservedExplained'
<1> DEFINE e == event[w]
           r == Override(w)
           c == Identified(e, r)
           n == P!EntityOf(c)
<1>1. e \in Events /\ r \in Explanations(e) /\ P!Process(c)
  BY CloseExplained DEF Close
<1>2. CASE UNCHANGED applied_events
  BY <1>2 DEF ObservedExplained
<1>3. CASE /\ c \in P!ClassifiedEvent
           /\ applied_events' = [applied_events EXCEPT ![n] = applied_events[n] \cup {c.event_id}]
  <2>1. c.classification \in {"shipment", "invoice"} /\ c.key \in Vendor \X Ids
    BY <1>3 DEF P!ClassifiedEvent, P!CanonicalShipmentEvent, P!CanonicalInvoiceEvent
  <2>2. n \in P!Entity
    BY <2>1 DEF P!EntityOf, P!Entity
  <2>3. c.event_id = e /\ r.classification # "unclassified"
    BY <2>1 DEF Identified
  <2> HIDE DEF e, r, c, n
  <2>4. applied_events' \in [P!Entity -> SUBSET Events]
    BY <1>1, <1>3, <2>2, <2>3 DEF ObservedExplained
  <2>5. ASSUME NEW m \in P!Entity, NEW d \in applied_events'[m]
        PROVE  d \in applied_events[m] \/ (m = n /\ d = e)
    BY <1>3, <2>2, <2>3, <2>5 DEF ObservedExplained
  <2>6. n = P!EntityOf(Identified(e, r))
    BY DEF n, c
  <2> QED  BY <1>1, <2>3, <2>4, <2>5, <2>6 DEF ObservedExplained
<1> QED  BY <1>1, <1>2, <1>3, ProcessObserves

LEMMA ObservedExplainedStep ==
    ASSUME PipelineInv, ExplainInv, ObservedExplained, [ServiceNext]_serviceVars
    PROVE  ObservedExplained'
<1>1. ASSUME NEW w \in Workers, Close(w) PROVE ObservedExplained'
  BY <1>1, CloseObserves
<1>2. CASE Replay
  BY <1>2 DEF Replay, P!Truncate, ObservedExplained
<1>3. ASSUME UNCHANGED applied_events PROVE ObservedExplained'
  BY <1>3 DEF ObservedExplained
<1>4. ASSUME NEW w \in Workers, MarkEvent(w) \/ Fail(w) PROVE UNCHANGED applied_events
  BY <1>4 DEF MarkEvent, Fail, P!Review, P!SetStatus, derived
<1>5. ASSUME NEW w \in Workers, Continue(w) \/ \E e \in Events : Begin(w, e)
      PROVE UNCHANGED applied_events
  BY <1>5 DEF Continue, Begin, derived
<1>6. CASE PeopleDecide \/ UNCHANGED serviceVars
  BY <1>3, <1>6 DEF PeopleDecide, serviceVars, derived
<1> QED  BY <1>1, <1>2, <1>3, <1>4, <1>5, <1>6 DEF ServiceNext

\* Explanations of a known vendor's event that agree on what they call the
\* entity agree on the entity.
LEMMA ObservedForOne == ObservedExplained => OneEntity
<1> SUFFICES ASSUME ObservedExplained, NEW e \in Events, GivenVendor(e) # "unknown",
                    \A i, j \in IdentitiesOf(e) : i = j,
                    NEW m \in P!Entity, NEW n \in P!Entity,
                    e \in applied_events[m], e \in applied_events[n]
             PROVE  m = n
  BY DEF OneEntity, Unambiguous
<1>1. PICK r \in Explanations(e) :
        r.classification # "unclassified" /\ m = P!EntityOf(Identified(e, r))
  BY DEF ObservedExplained
<1>2. PICK s \in Explanations(e) :
        s.classification # "unclassified" /\ n = P!EntityOf(Identified(e, s))
  BY DEF ObservedExplained
<1>3. r.vendor_id = s.vendor_id
  BY ExplanationFacts DEF VendorsOf
<1>4. r.classification = s.classification /\ r.ext_id = s.ext_id
  <2>1. <<r.classification, r.ext_id>> \in IdentitiesOf(e)
    BY <1>1 DEF IdentitiesOf
  <2>2. <<s.classification, s.ext_id>> \in IdentitiesOf(e)
    BY <1>2 DEF IdentitiesOf
  <2>3. <<r.classification, r.ext_id>> = <<s.classification, s.ext_id>>
    BY <2>1, <2>2
  <2> QED  BY <2>3
<1> QED  BY <1>1, <1>2, <1>3, <1>4 DEF P!EntityOf, Identified

\* However often it is processed, by whichever path, with whatever schema and
\* across replays, an event of a known vendor is observed for one entity only.
THEOREM EventObservedForOneEntity == ServiceSpec => []OneEntity
<1>1. ServiceInit => ObservedExplained
  BY DEF ServiceInit, ObservedExplained
<1>2. PipelineInv /\ ExplainInv /\ ObservedExplained /\ [ServiceNext]_serviceVars =>
        ObservedExplained'
  BY ObservedExplainedStep
<1> QED  BY <1>1, <1>2, ObservedForOne, ServiceInvariant, PTL DEF ServiceSpec

-----------------------------------------------------------------------------
(* The invariant of the serial specification, which the composition inherits. *)

Q == INSTANCE Projections_proofs WITH
       Keys <- Vendor \X Ids, Timestamps <- Int,
       canonical_events <- CanonicalRows

LEMMA SameTables ==
    /\ P!ClassifiedEvent = Q!ClassifiedEvent /\ P!CanonicalEvent = Q!CanonicalEvent
    /\ P!Entity = Q!Entity /\ P!Row = Q!Row
    /\ P!SHIPMENT_EVENT_TO_STATE = Q!SHIPMENT_EVENT_TO_STATE
    /\ P!INVOICE_EVENT_TO_STATE = Q!INVOICE_EVENT_TO_STATE
    /\ P!SHIPMENT_TRANSITIONS = Q!SHIPMENT_TRANSITIONS
    /\ P!INVOICE_TRANSITIONS = Q!INVOICE_TRANSITIONS
<1>1. P!ShipmentEventType = Q!ShipmentEventType /\ P!InvoiceEventType = Q!InvoiceEventType
  BY DEF P!ShipmentEventType, Q!ShipmentEventType, P!InvoiceEventType, Q!InvoiceEventType
<1>2. P!ClassifiedEvent = Q!ClassifiedEvent
  BY <1>1 DEF P!ClassifiedEvent, Q!ClassifiedEvent, P!CanonicalShipmentEvent,
              Q!CanonicalShipmentEvent, P!CanonicalInvoiceEvent, Q!CanonicalInvoiceEvent
<1>3. P!CanonicalEvent = Q!CanonicalEvent
  BY <1>2 DEF P!CanonicalEvent, Q!CanonicalEvent, P!CanonicalUnclassifiedEvent,
              Q!CanonicalUnclassifiedEvent
<1>4. /\ P!SHIPMENT_EVENT_TO_STATE = Q!SHIPMENT_EVENT_TO_STATE
      /\ P!INVOICE_EVENT_TO_STATE = Q!INVOICE_EVENT_TO_STATE
  BY <1>1 DEF P!SHIPMENT_EVENT_TO_STATE, Q!SHIPMENT_EVENT_TO_STATE, P!INVOICE_EVENT_TO_STATE,
              Q!INVOICE_EVENT_TO_STATE
<1>5. /\ P!SHIPMENT_TRANSITIONS = Q!SHIPMENT_TRANSITIONS
      /\ P!INVOICE_TRANSITIONS = Q!INVOICE_TRANSITIONS
  BY DEF P!SHIPMENT_TRANSITIONS, Q!SHIPMENT_TRANSITIONS, P!INVOICE_TRANSITIONS,
         Q!INVOICE_TRANSITIONS
<1>6. P!Entity = Q!Entity /\ P!Row = Q!Row
  BY DEF P!Entity, Q!Entity, P!Row, Q!Row, P!State, Q!State, P!ShipmentState, Q!ShipmentState,
         P!InvoiceState, Q!InvoiceState
<1> QED  BY <1>2, <1>3, <1>4, <1>5, <1>6

LEMMA SameProcess ==
    ASSUME NEW c, P!Process(c)
    PROVE  Q!Process(c)
BY SameTables
   DEF P!Process, Q!Process, P!RecordOnly, Q!RecordOnly, P!Record, Q!Record, P!ApplyInitial,
       Q!ApplyInitial, P!Apply, Q!Apply, P!SkipStale, Q!SkipStale, P!RejectTransition,
       Q!RejectTransition, P!Log, Q!Log, P!Move, Q!Move, P!EntityOf, Q!EntityOf, P!IsStale,
       Q!IsStale, P!IsAllowed, Q!IsAllowed, P!InitialRow, Q!InitialRow, P!UpdatedRow,
       Q!UpdatedRow, P!TargetState, Q!TargetState

LEMMA SameNext == [P!SerialNext]_(P!tables) => [Q!SerialNext]_(Q!tables)
BY SameTables, SameProcess
   DEF P!SerialNext, Q!SerialNext, P!Review, Q!Review, P!SetStatus, Q!SetStatus, P!Truncate,
       Q!Truncate, P!tables, Q!tables

LEMMA SameType == Q!TablesTypeOK => P!TablesTypeOK
BY SameTables
   DEF P!TablesTypeOK, Q!TablesTypeOK, P!LogEntry, Q!LogEntry, P!StaleReason, Q!StaleReason,
       P!Status, Q!Status, P!StateOf, Q!StateOf, P!ShipmentState, Q!ShipmentState,
       P!InvoiceState, Q!InvoiceState

\* A classified explanation has what a canonical event requires.
LEMMA ExplanationComplete ==
    ASSUME NEW e \in Events, NEW r \in Explanations(e), r.classification # "unclassified"
    PROVE  /\ r.ext_id # NoRow /\ r.event_timestamp # NoRow
           /\ r.event_type \in EventTypes(r.classification)
<1>1. PICK v \in VendorsOf(e) : r \in ByModel(e, v) \/ r \in BySchema(e, v)
  BY DEF Explanations
<1>2. r # NoRow
  BY DEF Explanations
<1>3. CASE r \in ByModel(e, v)
  BY <1>2, <1>3 DEF ByModel, BuildCanonical, CanonicalOf
<1>4. CASE r \in BySchema(e, v)
  BY <1>2, <1>4 DEF BySchema, Extract, CanonicalOf
<1> QED  BY <1>1, <1>3, <1>4

\* What the workers may apply are canonical events.
LEMMA ExplainedType == Explained \subseteq P!CanonicalEvent
<1> SUFFICES ASSUME NEW e \in Events, NEW r \in Explanations(e)
             PROVE  Identified(e, r) \in P!CanonicalEvent
  BY DEF Explained
<1>1. r \in Reading /\ r.vendor_id \in Vendor
  BY ExplanationFacts, GivenVendorType
<1>2. CASE r.classification = "unclassified"
  BY <1>2 DEF Identified, P!CanonicalEvent, P!CanonicalUnclassifiedEvent
<1>3. CASE r.classification # "unclassified"
  <2>1. /\ r.ext_id \in Ids /\ r.event_timestamp \in Int
        /\ r.event_type \in EventTypes(r.classification)
        /\ r.classification \in {"shipment", "invoice"}
    BY <1>1, <1>3, ExplanationComplete DEF Reading, Classification
  <2>2. P!ShipmentEventType = ShipmentEventType /\ P!InvoiceEventType = InvoiceEventType
    BY DEF P!ShipmentEventType, ShipmentEventType, P!InvoiceEventType, InvoiceEventType
  <2> QED  BY <1>1, <1>3, <2>1, <2>2
           DEF Identified, EventTypes, P!CanonicalEvent, P!ClassifiedEvent,
               P!CanonicalShipmentEvent, P!CanonicalInvoiceEvent
<1> QED  BY <1>2, <1>3

LEMMA SerialAssumptions ==
    Q!TimestampsAssumption /\ Q!ReadingsAssumption /\ Q!NoRowAssumption
BY ExplainedType, ReadingsAssumption, SameTables, TablesAssumption, NoRowAssumption
   DEF Q!TimestampsAssumption, Q!ReadingsAssumption, Q!NoRowAssumption

LEMMA ServiceInitSerial == ServiceInit => Q!SerialInv
<1> SUFFICES ASSUME ServiceInit PROVE Q!SerialInit
  BY SerialAssumptions, Q!SerialInitInv
<1> QED  BY SameTables DEF ServiceInit, Init, Q!SerialInit, Q!TablesInit, CanonicalRows

LEMMA ServiceStepSerial ==
    ASSUME PipelineInv, ExplainInv, Q!SerialInv, [ServiceNext]_serviceVars
    PROVE  Q!SerialInv'
<1>1. [Q!SerialNext]_(Q!tables)
  BY ServiceRefines, SameNext
<1> QED  BY <1>1, SerialAssumptions, Q!SerialStep

\* The history variables.
HistoryTypeOK ==
    /\ finalized \in Seq(Readings)
    /\ before \in [finalized : Seq(Readings), projections : ProjectionTables] \cup {NoRow}

\* What is snapshot has the type of the tables.
LEMMA ProjectionsType == P!TablesTypeOK => projections \in ProjectionTables
BY DEF P!TablesTypeOK, projections, ProjectionTables

LEMMA HistoryStep ==
    ASSUME PipelineInv, ExplainInv, P!TablesTypeOK, HistoryTypeOK, [ServiceNext]_serviceVars
    PROVE  HistoryTypeOK'
<1>1. ASSUME NEW w \in Workers, Close(w) PROVE HistoryTypeOK'
  <2>1. Identified(event[w], Override(w)) \in Readings
    BY <1>1, CloseExplained
  <2> QED  BY <1>1, <2>1 DEF Close, HistoryTypeOK
<1>2. CASE Replay
  BY <1>2, ProjectionsType DEF Replay, HistoryTypeOK
<1>3. ASSUME UNCHANGED history PROVE HistoryTypeOK'
  BY <1>3 DEF HistoryTypeOK, history
<1> QED  BY <1>1, <1>2, <1>3
         DEF ServiceNext, Begin, Continue, MarkEvent, Fail, PeopleDecide, serviceVars

\* Every table and every attempt is well typed, and what was observed is
\* accounted for: each event observed for an entity moved its projection or is in
\* the stale log, exactly once, whatever the workers learn meanwhile.
THEOREM ServiceTypeInvariant == ServiceSpec => [](ServiceTypeOK /\ Q!Accounting)
<1>1. ServiceInit => Q!SerialInv /\ HistoryTypeOK
  BY ServiceInitSerial DEF ServiceInit, HistoryTypeOK
<1>2. Q!SerialInv => P!TablesTypeOK /\ Q!Accounting
  BY SameType DEF Q!SerialInv
<1>3. PipelineInv /\ ExplainInv /\ Q!SerialInv /\ HistoryTypeOK /\ [ServiceNext]_serviceVars =>
        (Q!SerialInv /\ HistoryTypeOK)'
  BY <1>2, ServiceStepSerial, HistoryStep
<1>4. PipelineInv /\ Q!SerialInv /\ HistoryTypeOK => ServiceTypeOK /\ Q!Accounting
  BY <1>2 DEF PipelineInv, ServiceTypeOK, HistoryTypeOK
<1> QED  BY <1>1, <1>3, <1>4, ServiceInvariant, PTL DEF ServiceSpec

\* What was shown of the serial specification holds of the composed worker, while it
\* learns and replays: the tables agree, a canonical row is never ahead of its
\* projection, and no projection moves backward but by a truncation.
THEOREM ServiceKeepsTables ==
    ServiceSpec => [](Q!Referential /\ Q!CanonicalApplied) /\ Q!NeverBackward
<1>1. ServiceInit => Q!SerialInv
  BY ServiceInitSerial
<1>2. PipelineInv /\ ExplainInv /\ Q!SerialInv /\ [ServiceNext]_serviceVars => Q!SerialInv'
  BY ServiceStepSerial
<1>3. PipelineInv /\ ExplainInv /\ Q!SerialInv /\ [ServiceNext]_serviceVars =>
        [\A n \in Q!Entity : projection[n] # NoRow /\ projection'[n] # projection[n] =>
             \/ projection' = [m \in Q!Entity |-> NoRow]
             \/ Q!MovesForward(n)]_(Q!tables)
  BY ServiceRefines, SameNext, SerialAssumptions, Q!SerialForward
<1>4. Q!SerialInv => Q!Referential /\ Q!CanonicalApplied
  BY DEF Q!SerialInv
<1> QED  BY <1>1, <1>2, <1>3, <1>4, ServiceInvariant, PTL DEF ServiceSpec, Q!NeverBackward

\* What was shown of the workers by themselves holds while their transactions move
\* the projections and a replay takes the canonical rows away under them: they
\* implement the registry, a schema reads a plain source as the model did, an event keeps
\* its known vendor, and an event type is classified once by each worker at most.
THEOREM ServiceKeepsPipeline ==
    ServiceSpec => RegistryKept
                   /\ [](SchemaReadsItsSource /\ KnownVendorKept /\ ClassifiedOnceEach)
<1>1. ServiceInit => RegistryInit
  BY DEF ServiceInit, Init
<1>2. PipelineInv /\ [ServiceNext]_serviceVars => [RegistryNext]_registry
  <2> SUFFICES ASSUME PipelineInv, [ServiceNext]_serviceVars
               PROVE  [RegistryNext]_registry
    OBVIOUS
  <2>1. CASE Replay
    BY <2>1 DEF Replay
  <2>2. CASE ServiceNext /\ ~Replay
    <3>1. Next
      BY <2>2 DEF ServiceNext, Begin, Continue, Close, MarkEvent, Fail, PeopleDecide, Next, Step
    <3> QED  BY <3>1, NextLearns
  <2>3. CASE UNCHANGED serviceVars
    BY <2>3 DEF serviceVars, vars
  <2> QED  BY <2>1, <2>2, <2>3
<1>3. PipelineInv => KnownVendorKept /\ ClassifiedOnceEach
  BY WritesAreFew DEF PipelineInv
<1>4. RegistryInit => SchemaReadsItsSource
  BY DEF RegistryInit, SchemaReadsItsSource
<1>5. PipelineInv /\ SchemaReadsItsSource /\ [RegistryNext]_registry => SchemaReadsItsSource'
  BY RegistryStepReads DEF PipelineInv, TypeOK
<1> QED  BY <1>1, <1>2, <1>3, <1>4, <1>5, ServiceInvariant, PTL
            DEF ServiceSpec, RegistryKept, RegistrySpec

-----------------------------------------------------------------------------
(* The projections are a fold of the log. *)

\* What apply_event makes of the projections, given the canonical event.
After(t, c) ==
    LET n == P!EntityOf(c)
        row == t.projection[n]
        observed == [t.applied_events EXCEPT ![n] = @ \cup {c.event_id}]
        moved == IF row = NoRow THEN P!InitialRow(c) ELSE P!UpdatedRow(row, c)
        reason == IF P!IsStale(row, c) THEN "older_than_last_applied" ELSE "disallowed_transition" IN
    IF c \in P!ClassifiedEvent => c.event_id \in t.applied_events[n]
    THEN t
    ELSE IF row = NoRow \/ (~P!IsStale(row, c) /\ P!IsAllowed(row, c))
    THEN [entities |-> t.entities \cup {n}, applied_events |-> observed,
          projection |-> [t.projection EXCEPT ![n] = moved],
          stale_event_log |-> t.stale_event_log]
    ELSE [entities |-> t.entities, applied_events |-> observed, projection |-> t.projection,
          stale_event_log |-> [t.stale_event_log EXCEPT ![n] =
                                 Append(@, [event_id |-> c.event_id, reason |-> reason])]]

AfterStep == [x \in ProjectionTables \X Readings |-> After(x[1], x[2])]

NoProjections ==
    [entities |-> {}, applied_events |-> [n \in P!Entity |-> {}],
     projection |-> [n \in P!Entity |-> NoRow], stale_event_log |-> [n \in P!Entity |-> <<>>]]

\* The tables, and those the truncation wiped, are what the log makes of empty ones.
ProjectionsFolded ==
    /\ FoldsTo(finalized, NoProjections, AfterStep, projections)
    /\ before # NoRow =>
         FoldsTo(before.finalized, NoProjections, AfterStep, before.projections)

\* The transaction is deterministic: whichever of its outcomes occurs is the one
\* that the canonical event and the tables call for.
LEMMA ProcessIsAfter ==
    ASSUME NEW c, P!Process(c)
    PROVE  projections' = After(projections, c)
<1>1. CASE P!RecordOnly(c)
  BY <1>1 DEF P!RecordOnly, After, projections
<1>2. CASE /\ c \in P!ClassifiedEvent /\ c.event_id \notin applied_events[P!EntityOf(c)]
           /\ P!ApplyInitial(c) \/ P!Apply(c)
  BY <1>2 DEF P!ApplyInitial, P!Apply, P!Move, After, projections
<1>3. CASE /\ c \in P!ClassifiedEvent /\ c.event_id \notin applied_events[P!EntityOf(c)]
           /\ P!SkipStale(c) \/ P!RejectTransition(c)
  BY <1>3 DEF P!SkipStale, P!RejectTransition, P!Log, After, projections
<1> QED  BY <1>1, <1>2, <1>3 DEF P!Process

\* Closing an attempt carries the fold on by the event that is logged.
LEMMA CloseFolds ==
    ASSUME PipelineInv, ExplainInv, P!TablesTypeOK, HistoryTypeOK, ProjectionsFolded,
           NEW w \in Workers, Close(w)
    PROVE  ProjectionsFolded'
<1> DEFINE c == Identified(event[w], Override(w))
<1>1. c \in Readings /\ projections \in ProjectionTables /\ finalized \in Seq(Readings)
  BY CloseExplained, ProjectionsType DEF HistoryTypeOK
<1>2. projections' = After(projections, c)
  BY ProcessIsAfter DEF Close
<1>3. finalized' = Append(finalized, c) /\ before' = before
  BY DEF Close
<1> HIDE DEF c
<1>4. AfterStep[<<projections, c>>] = After(projections, c)
  BY <1>1 DEF AfterStep
<1>5. FoldsTo(Append(finalized, c), NoProjections, AfterStep, AfterStep[<<projections, c>>])
  BY <1>1, FoldsOn DEF ProjectionsFolded
<1>6. FoldsTo(finalized, NoProjections, AfterStep, projections)'
  BY <1>2, <1>3, <1>4, <1>5
<1> QED  BY <1>3, <1>6 DEF ProjectionsFolded

LEMMA FoldedStep ==
    ASSUME PipelineInv, ExplainInv, P!TablesTypeOK, HistoryTypeOK, ProjectionsFolded,
           [ServiceNext]_serviceVars
    PROVE  ProjectionsFolded'
<1>1. ASSUME NEW w \in Workers, Close(w) PROVE ProjectionsFolded'
  BY <1>1, CloseFolds
<1>2. CASE Replay
  <2>1. /\ projections' = NoProjections /\ finalized' = <<>>
        /\ before' = [finalized |-> finalized, projections |-> projections]
    BY <1>2 DEF Replay, P!Truncate, projections, NoProjections
  <2> QED  BY <2>1, FoldsFromBase DEF ProjectionsFolded
<1>3. ASSUME UNCHANGED <<history, projections>> PROVE ProjectionsFolded'
  BY <1>3 DEF ProjectionsFolded, history
<1>4. ASSUME NEW w \in Workers, MarkEvent(w) \/ Fail(w) PROVE UNCHANGED <<history, projections>>
  BY <1>4 DEF MarkEvent, Fail, P!Review, P!SetStatus, derived, projections
<1>5. ASSUME NEW w \in Workers, Continue(w) \/ \E e \in Events : Begin(w, e)
      PROVE UNCHANGED <<history, projections>>
  BY <1>5 DEF Continue, Begin, derived, projections
<1>6. CASE PeopleDecide \/ UNCHANGED serviceVars
  BY <1>3, <1>6 DEF PeopleDecide, serviceVars, derived, projections
<1> QED  BY <1>1, <1>2, <1>3, <1>4, <1>5, <1>6 DEF ServiceNext

\* A log has one outcome.
LEMMA FoldedDetermined == HistoryTypeOK /\ ProjectionsFolded => SameEventsSameProjections
BY FoldsToOne DEF HistoryTypeOK, ProjectionsFolded, SameEventsSameProjections

\* A replay that finalizes the same canonical events in the same order rebuilds
\* the same projections, applied_events, entities and stale log, after however many
\* events and whatever the workers have learned, lost or left half done.
THEOREM ReplayIsDeterministic == ServiceSpec => []SameEventsSameProjections
<1>1. ServiceInit => Q!SerialInv /\ HistoryTypeOK /\ ProjectionsFolded
  <2>1. ServiceInit => finalized = <<>> /\ before = NoRow /\ projections = NoProjections
    BY DEF ServiceInit, projections, NoProjections
  <2> QED  BY <2>1, ServiceInitSerial, FoldsFromBase DEF HistoryTypeOK, ProjectionsFolded
<1>2. Q!SerialInv => P!TablesTypeOK
  BY SameType DEF Q!SerialInv
<1>3. PipelineInv /\ ExplainInv /\ Q!SerialInv /\ HistoryTypeOK /\ ProjectionsFolded
        /\ [ServiceNext]_serviceVars => (Q!SerialInv /\ HistoryTypeOK /\ ProjectionsFolded)'
  BY <1>2, ServiceStepSerial, HistoryStep, FoldedStep
<1> QED  BY <1>1, <1>3, FoldedDetermined, ServiceInvariant, PTL DEF ServiceSpec

=============================================================================
