----------------------------- MODULE Extraction -----------------------------
(***************************************************************************)
(* The pure part of app/adapters: the shape of a payload, the execution of *)
(* a learned schema on a payload, and the inference of a schema from an    *)
(* answer of the language model.                                           *)
(*                                                                         *)
(* A payload is a function from the addresses of its leaves to the leaves. *)
(* An address is the sequence of the keys that lead to a leaf, and a key   *)
(* the sequence of its names, which are what dots separate: most keys have *)
(* one. The code writes an address down as a path, in which the dots of    *)
(* keys and those between keys look the same, and reads paths back. A text *)
(* is a sequence of words and separators, up to the white space around it. *)
(* Of a canonical event there remain what identifies it, its type and its  *)
(* instant. Left out are the optional fields, lists, the types of leaves   *)
(* in fingerprints, and keys with brackets, braces or empty names.         *)
(***************************************************************************)
EXTENDS Canonical, Integers, SequencesExt

CONSTANTS
    Events,        \* event ids: the primary keys of raw_events
    Vendors,       \* vendor ids other than "unknown"
    Names,         \* keys without dots, and what stands between the dots of keys
    Addresses,     \* the addresses of leaves, in the order of the lengths of their paths
    TimePaths,     \* the paths whose last name is that of a time
    Values,        \* the texts of leaves
    NoRow,         \* None: no such row, no such leaf
    payload,       \* raw_events.payload: the payload of each event
    vendor_hint,   \* the vendor of the webhook URL, or NoRow
    inferred,      \* what _infer_vendor_id makes of each payload
    instant,       \* what parse_timestamp makes of a text, NoRow if it raises
    SameDate,      \* <<text, answer>>: the text shows a time on the answer's date
    Answers,       \* the answers of the JSON schema the model may give for each event
    TypeAnswers    \* the answers it may give for a raw event type

Vendor == Vendors \cup {"unknown"}

Address == {Addresses[i] : i \in DOMAIN Addresses}

\* The path of an address, "$.a.b": its names, with no trace of where keys end.
PathOf(address) == FlattenSeq(address)

Path == {PathOf(l) : l \in Address}

\* _parse_path: each name of a path is taken for a key.
ParsePath(path) == [i \in DOMAIN path |-> <<path[i]>>]

\* The text of a leaf that is there but null or empty.
Blank == <<>>

\* A leaf with its str() and its truth: 0 and False have a text but are falsy.
Leaf == {[text |-> Blank, truthy |-> FALSE]} \cup [text : Values, truthy : BOOLEAN]

Classification == {"shipment", "invoice", "unclassified"}

EventType == ShipmentEventType \cup InvoiceEventType

\* What joins the parts of composite ids, in the order discovery tries them.
SEPARATORS == <<":", "-", "_", "/">>

ASSUME AddressesAssumption == Addresses \in Seq(Seq(Seq(Names)))

ASSUME PayloadAssumption ==
    /\ \A e \in Events : /\ DOMAIN payload[e] \subseteq Address
                         /\ payload[e] \in [DOMAIN payload[e] -> Leaf]
    /\ Blank \notin Values /\ NoRow \notin Values \cup {Blank}

\* Nothing stands below a leaf, and no path of a leaf is read as leading to an object.
ASSUME TreeAssumption ==
    \A e \in Events : \A k, l \in DOMAIN payload[e] :
        ~IsStrictPrefix(k, l) /\ ~IsStrictPrefix(ParsePath(PathOf(k)), l)

ASSUME InstantAssumption == instant \in [Values -> Int \cup {NoRow}]

ASSUME VendorAssumption ==
    vendor_hint \in [Events -> Vendor \cup {NoRow}] /\ inferred \in [Events -> Vendor]

-----------------------------------------------------------------------------
\* The objects on the way to a leaf, and the leaf: their paths, and which they are.
NodesTo == [l \in Address |-> {<<PathOf(SubSeq(l, 1, n)), n = Len(l)>> : n \in 0..Len(l)}]

structural_fingerprint(p) == UNION {NodesTo[l] : l \in DOMAIN p}

ShapeOf == [e \in Events |-> structural_fingerprint(payload[e])]

Shapes == {ShapeOf[e] : e \in Events}

\* _resolve_path, with the falsy values that every caller treats as missing.
Resolve(p, path) ==
    LET l == ParsePath(path) IN
    IF path # NoRow /\ l \in DOMAIN p /\ p[l].truthy THEN p[l].text ELSE NoRow

\* A text without the c's at its ends.
Strip(s, c) ==
    LET kept == {i \in DOMAIN s : s[i] # c} IN
    IF kept = {} THEN Blank ELSE SubSeq(s, Min(kept), Max(kept))

\* The texts with the separator between each two of them.
Join(texts, sep) == Tail(FoldLeft(LAMBDA t, u : t \o <<sep>> \o u, <<>>, texts))

\* _resolve_template: a part that is missing is empty, and its separator goes
\* only if it is a colon or a dash at an end of the id.
ResolveTemplate(p, spec) ==
    LET parts == [i \in DOMAIN spec.paths |-> Resolve(p, spec.paths[i])]
        texts == [i \in DOMAIN parts |-> IF parts[i] = NoRow THEN Blank ELSE parts[i]]
        id == Strip(Strip(Join(texts, spec.sep), ":"), "-") IN
    IF (\A i \in DOMAIN parts : parts[i] = NoRow) \/ id = Blank THEN NoRow ELSE id

\* _resolve_entity_id
ResolveId(p, spec) ==
    IF spec = NoRow THEN NoRow
    ELSE IF spec.sep = NoRow THEN Resolve(p, spec.paths[1])
    ELSE ResolveTemplate(p, spec)

EventTypes(classification) ==
    IF classification = "shipment" THEN ShipmentEventType ELSE InvoiceEventType

\* The canonical event of these fields, or NoRow where the code finds a required
\* one missing, a text that is no timestamp, or a state of the other classification.
CanonicalOf(classification, vendor, id, state, timestamp) ==
    IF classification = "unclassified"
    THEN [classification |-> "unclassified", vendor_id |-> vendor, ext_id |-> NoRow,
          event_type |-> NoRow, event_timestamp |-> NoRow]
    ELSE IF /\ id # NoRow /\ state \in EventTypes(classification)
            /\ timestamp # NoRow /\ instant[timestamp] # NoRow
    THEN [classification |-> classification, vendor_id |-> vendor, ext_id |-> id,
          event_type |-> state, event_timestamp |-> instant[timestamp]]
    ELSE NoRow

\* SchemaDrivenAdapter.extract once the state is known.
Extract(doc, p, vendor, m) ==
    CanonicalOf(m.classification, vendor, ResolveId(p, doc.entity_external_id),
                m.canonical_state, Resolve(p, doc.event_timestamp))

\* The first pass of extract, without a state.
RawEventType(doc, p) == Resolve(p, doc.event_type)

\* The answer of the model as a canonical event. The JSON schema lets answers
\* through of which none can be made.
BuildCanonical(a) ==
    CanonicalOf(a.classification, a.vendor_id, a.ext_id, a.event_type, a.event_timestamp)

-----------------------------------------------------------------------------
(* Schema discovery *)

\* The shortest of the paths that satisfy the condition.
Shortest(found) == IF found = {} THEN NoRow ELSE PathOf(Addresses[Min(found)])

\* Where the payload has leaves whose text is among these.
Places(p, texts) == {i \in DOMAIN Addresses : Addresses[i] \in DOMAIN p /\ p[Addresses[i]].text \in texts}

\* A bug to be caught: a leaf that occurs in the value is taken for it.
FindValuePath_Part(p, v) ==
    Shortest(Places(p, IF v = NoRow THEN {} ELSE SubSeqs(v) \ {Blank}))

\* The path of a leaf whose str() is the value, also of one that reading its path
\* takes for missing.
FindValuePath(p, v) == Shortest(Places(p, {v}))

\* The texts between the separators of a text.
Split(s, sep) ==
    FoldLeft(LAMBDA parts, c : IF c = sep THEN Append(parts, Blank)
                               ELSE [parts EXCEPT ![Len(parts)] = Append(@, c)],
             <<Blank>>, s)

\* The first separator that splits the id into texts of leaves.
InferTemplate(p, id) ==
    LET parts(i) == Split(id, SEPARATORS[i])
        fits == {i \in DOMAIN SEPARATORS :
                   /\ DOMAIN parts(i) \in {1..n : n \in 2..4}
                   /\ \A k \in DOMAIN parts(i) :
                        parts(i)[k] # Blank /\ FindValuePath(p, parts(i)[k]) # NoRow} IN
    IF fits = {} THEN NoRow
    ELSE LET i == Min(fits) IN
         [sep |-> SEPARATORS[i],
          paths |-> [k \in DOMAIN parts(i) |-> FindValuePath(p, parts(i)[k])]]

\* _map_field for the id
FindId(p, id) ==
    LET path == FindValuePath(p, id) IN
    IF path # NoRow THEN [sep |-> NoRow, paths |-> <<path>>]
    ELSE IF id = NoRow THEN NoRow ELSE InferTemplate(p, id)

\* _map_field for the timestamp: the text of the answer, or else any time on
\* its date, best at a path that names a time.
FindTimestamp(p, v) ==
    LET path == FindValuePath(p, v)
        found == Places(p, {t \in Values : <<t, v>> \in SameDate})
        named == {i \in found : PathOf(Addresses[i]) \in TimePaths} IN
    IF path # NoRow THEN path ELSE Shortest(IF named # {} THEN named ELSE found)

\* A schema_doc, or NoRow when the id or the timestamp is not in the payload.
InferSchemaDoc(p, a) ==
    LET id == FindId(p, a.ext_id)
        timestamp == FindTimestamp(p, a.event_timestamp) IN
    IF a.classification = "unclassified"
    THEN [classification |-> "unclassified", entity_external_id |-> NoRow,
          event_timestamp |-> NoRow, event_type |-> NoRow]
    ELSE IF id = NoRow \/ timestamp = NoRow THEN NoRow
    ELSE [classification |-> a.classification, entity_external_id |-> id,
          event_timestamp |-> timestamp, event_type |-> FindValuePath(p, a.raw_event_type)]

MappingOf(a) == [classification |-> a.classification, canonical_state |-> a.event_type]

\* _validate_schema: the schema must extract from its own payload the id the
\* model named, or one that contains it or is contained in it. The timestamp is
\* not compared.
Validates(doc, p, a) ==
    LET c == Extract(doc, p, a.vendor_id, MappingOf(a)) IN
    /\ c # NoRow
    /\ \/ c.classification = "unclassified"
       \/ c.ext_id \in SubSeqs(a.ext_id) \/ a.ext_id \in SubSeqs(c.ext_id)

-----------------------------------------------------------------------------
(* Types *)

\* Where the ids stand that discovery can find: at a path, or composed of two to
\* four.
IdSpec == (UNION {{FindId(payload[e], a.ext_id) : a \in Answers[e]} : e \in Events}) \ {NoRow}

\* The ids the model names and those its schemas read.
Ids == ((UNION {{a.ext_id : a \in Answers[e]} : e \in Events})
        \cup {ResolveId(payload[e], spec) : e \in Events, spec \in IdSpec}) \ {NoRow}

\* What identifies a canonical event and what it says.
Reading == [classification : Classification, vendor_id : Vendor, ext_id : Ids \cup {NoRow},
            event_type : EventType \cup {NoRow}, event_timestamp : Int \cup {NoRow}]

\* The dict classify_extract returns; the last field is raw_milestone or raw_kind.
Answer == [classification : Classification, vendor_id : Vendor, ext_id : Ids \cup {NoRow},
           event_type : EventType \cup {NoRow}, event_timestamp : Values \cup {NoRow},
           raw_event_type : Values \cup {NoRow}]

\* A (classification, canonical_state) pair.
Mapping == [classification : Classification, canonical_state : EventType \cup {NoRow}]

\* Where a schema_doc finds the required fields.
SchemaDoc == [classification : Classification, entity_external_id : IdSpec \cup {NoRow},
              event_timestamp : Path \cup {NoRow}, event_type : Path \cup {NoRow}]

ASSUME AnswersAssumption ==
    Answers \in [Events -> SUBSET Answer] /\ TypeAnswers \subseteq Mapping

\* A text is a sequence.
IsText(s) == s \in Seq({s[i] : i \in DOMAIN s})

ASSUME TextAssumption ==
    \A e \in Events : \A a \in Answers[e] : a.ext_id # NoRow => IsText(a.ext_id)

ASSUME NoRowAssumption ==
    /\ \A i \in DOMAIN SEPARATORS : NoRow # SEPARATORS[i]
    /\ NoRow \notin Reading /\ NoRow \notin Answer /\ NoRow \notin Mapping
    /\ NoRow \notin SchemaDoc /\ NoRow \notin Vendor
    /\ NoRow \notin Path /\ NoRow \notin Events

=============================================================================
