------------------------------ MODULE Registry ------------------------------
(***************************************************************************)
(* What the schema registry (vendor_schemas and vendor_event_type_map)     *)
(* promises while workers learn and people review: what a worker writes    *)
(* explains an event it has seen, and what a person has decided is changed *)
(* by persons only. One step per write; the workers that make them are in  *)
(* Pipeline.                                                               *)
(***************************************************************************)
EXTENDS Extraction

VARIABLES vendor_schemas, vendor_event_type_map

registry == <<vendor_schemas, vendor_event_type_map>>

Schema == [schema_doc : SchemaDoc, status : {"provisional", "active", "deprecated"},
           source_event_id : Events \cup {NoRow}]

EventTypeRow == [mapping : Mapping, reviewed_by_human : BOOLEAN]

ASSUME RowAssumption == NoRow \notin Schema \cup EventTypeRow

RegistryTypeOK ==
    /\ vendor_schemas \in [Vendor \X Shapes -> Schema \cup {NoRow}]
    /\ vendor_event_type_map \in [Vendor \X Values -> EventTypeRow \cup {NoRow}]

RegistryInit ==
    /\ vendor_schemas = [k \in Vendor \X Shapes |-> NoRow]
    /\ vendor_event_type_map = [k \in Vendor \X Values |-> NoRow]

\* The answers from which a schema can be learned: it reads the event's payload
\* as the answer does.
Teaches(e, a) ==
    LET doc == InferSchemaDoc(payload[e], a) IN doc # NoRow /\ Validates(doc, payload[e], a)

AllAnswers == UNION {Answers[e] : e \in Events}

\* What there is to learn.
Lesson(e, a) == [event_id |-> e, schema_doc |-> InferSchemaDoc(payload[e], a)]

Lessons == UNION {{Lesson(e, a) : a \in {b \in Answers[e] : Teaches(e, b)}} : e \in Events}

\* A worker learns how the vendor's payloads of a shape are read.
LearnSchema(v, l) ==
    LET k == <<v, ShapeOf[l.event_id]>> IN
    /\ UNCHANGED vendor_event_type_map
    /\ vendor_schemas[k] = NoRow \/ vendor_schemas[k].status = "provisional"
    /\ vendor_schemas' = [vendor_schemas EXCEPT ![k] =
                            [schema_doc |-> l.schema_doc, status |-> "provisional",
                             source_event_id |-> l.event_id]]

\* What the model may say of an event type, alone or in a whole answer.
Meanings == TypeAnswers \cup {MappingOf(a) : a \in AllAnswers}

\* A worker learns what a vendor's word for an event means.
LearnEventType(v, t, m) ==
    /\ UNCHANGED vendor_schemas
    /\ vendor_event_type_map[<<v, t>>] = NoRow
       \/ ~vendor_event_type_map[<<v, t>>].reviewed_by_human
    /\ vendor_event_type_map' = [vendor_event_type_map EXCEPT ![<<v, t>>] =
                                   [mapping |-> m, reviewed_by_human |-> FALSE]]

-----------------------------------------------------------------------------
(* What people do, by SQL: no code in src/ writes these columns. *)

ReviewEventType(v, t, m) ==
    /\ UNCHANGED vendor_schemas
    /\ vendor_event_type_map[<<v, t>>] # NoRow
    /\ vendor_event_type_map' = [vendor_event_type_map EXCEPT ![<<v, t>>] =
                                   [mapping |-> m, reviewed_by_human |-> TRUE]]

\* A schema is made active as it is, or is deprecated.
SetSchemaStatus(k, status) ==
    /\ UNCHANGED vendor_event_type_map
    /\ vendor_schemas[k] # NoRow
    /\ vendor_schemas' = [vendor_schemas EXCEPT ![k].status = status]

People ==
    \/ \E v \in Vendor, t \in Values, m \in TypeAnswers : ReviewEventType(v, t, m)
    \/ \E k \in Vendor \X Shapes, status \in {"active", "deprecated"} : SetSchemaStatus(k, status)

-----------------------------------------------------------------------------
RegistryNext ==
    \/ \E v \in Vendor, l \in Lessons : LearnSchema(v, l)
    \/ \E v \in Vendor, t \in Values, m \in Meanings : LearnEventType(v, t, m)
    \/ People

RegistrySpec == RegistryInit /\ [][RegistryNext]_registry

-----------------------------------------------------------------------------
\* The schema reads in the payload what the answer says of it.
ReadsAs(doc, p, a) ==
    /\ doc.classification = a.classification
    /\ doc.classification # "unclassified" =>
         /\ ResolveId(p, doc.entity_external_id) \in {a.ext_id, Strip(Strip(a.ext_id, ":"), "-")}
         /\ LET t == Resolve(p, doc.event_timestamp) IN
            t = a.event_timestamp \/ <<t, a.event_timestamp>> \in SameDate
         /\ RawEventType(doc, p) \in {NoRow, a.raw_event_type}

\* Every key is one name, and every leaf that has a text is truthy.
Plain(p) ==
    /\ \A l \in DOMAIN p : \A i \in DOMAIN l : Len(l[i]) = 1
    /\ \A l \in DOMAIN p : p[l].text # Blank => p[l].truthy

\* A schema belongs to the shape of the event it was learned from, and reads that
\* event as the model did if its payload is plain: the very id, though one
\* composed of leaves loses the colons and dashes at its ends, a time on the
\* same date, and no other word for the event. _validate_schema alone lets
\* through any id that contains the model's or is contained in it.
SchemaReadsItsSource ==
    \A k \in Vendor \X Shapes :
        LET s == vendor_schemas[k]
            e == s.source_event_id IN
        s # NoRow => /\ e \in Events /\ ShapeOf[e] = k[2]
                     /\ Plain(payload[e]) =>
                          \E a \in Answers[e] : ReadsAs(s.schema_doc, payload[e], a)

\* What schema_discoverer.py says of its last step: run against the same payload,
\* the schema "produces the same extraction". A path that passes a key with a
\* dot, or leads to a falsy leaf, reads nothing; the rest of a composed id is
\* contained in the id, which is enough for _validate_schema: this does not hold.
SameExtraction ==
    \A k \in Vendor \X Shapes :
        LET s == vendor_schemas[k]
            e == s.source_event_id IN
        s # NoRow /\ s.schema_doc.classification # "unclassified" =>
            \E a \in Answers[e] : ResolveId(payload[e], s.schema_doc.entity_external_id) = a.ext_id

=============================================================================
