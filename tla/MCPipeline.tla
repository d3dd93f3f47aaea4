----------------------------- MODULE MCPipeline -----------------------------
(***************************************************************************)
(* Small instances of Pipeline for TLC: two events of one shipment and one *)
(* shape. In the first payload the id stands in $.ref; the second leaves   *)
(* $.ref blank, so that the id must be composed of $.bl.mbl and $.bl.hbl:  *)
(* a schema learned from the first event fails on the second, which        *)
(* teaches another one. Or else both leave $.ref blank, and "bl.mbl" is    *)
(* one key of the payload.                                                 *)
(***************************************************************************)
EXTENDS Pipeline, TLC

CONSTANTS e1, e2

MCSymmetry == Permutations(Workers)

\* $.ref, $.time, $.bl.mbl, $.bl.hbl, "$.bl.mbl" with a key "bl.mbl", $.milestone
ref == <<<<"ref">>>>
time == <<<<"time">>>>
bl_mbl == <<<<"bl">>, <<"mbl">>>>
bl_hbl == <<<<"bl">>, <<"hbl">>>>
dotted == <<<<"bl", "mbl">>>>
milestone == <<<<"milestone">>>>

MCNames == {"ref", "time", "bl", "mbl", "hbl", "milestone"}
MCAddresses == <<ref, time, bl_mbl, bl_hbl, dotted, milestone>>
MCTimePaths == {<<"time">>}

mbl == <<"MBL">>
hbl == <<"HBL">>
x == <<"MBL", ":", "HBL">>
t == <<"gate out">>
noon == <<"noon">>

MCValues == {mbl, hbl, x, t, noon}

Text(v) == [text |-> v, truthy |-> v # Blank]

\* The payloads, with the id at ref and its first part at this address.
PayloadWith(id, first) ==
    ref :> Text(id) @@ first :> Text(mbl) @@ bl_hbl :> Text(hbl)
    @@ milestone :> Text(t) @@ time :> Text(noon)

MCPayload == e1 :> PayloadWith(x, bl_mbl) @@ e2 :> PayloadWith(Blank, bl_mbl)

DottedPayload == [e \in {e1, e2} |-> PayloadWith(Blank, dotted)]

MCInstant == [v \in MCValues |-> IF v = noon THEN 12 ELSE NoRow]

MCSameDate == {<<noon, noon>>}

NoHint == e1 :> NoRow @@ e2 :> NoRow

Known == e1 :> "maersk" @@ e2 :> "maersk"

Unknown == e1 :> "unknown" @@ e2 :> "unknown"

Shipment(vendor, raw) ==
    [classification |-> "shipment", vendor_id |-> vendor, ext_id |-> x,
     event_type |-> "shipment.in_transit", event_timestamp |-> noon, raw_event_type |-> raw]

Unclassified ==
    [classification |-> "unclassified", vendor_id |-> "maersk", ext_id |-> NoRow,
     event_type |-> NoRow, event_timestamp |-> NoRow, raw_event_type |-> NoRow]

\* The model may miss the vendor's word for the event, the vendor or the
\* classification.
AnyAnswer == e1 :> {Shipment("unknown", t)} @@ e2 :> {Shipment("maersk", NoRow), Unclassified}

GoodAnswer == e1 :> {Shipment("maersk", t)} @@ e2 :> {Shipment("maersk", t)}

\* Asked about the word alone, the model gives it another meaning.
MCTypeAnswers == {[classification |-> "shipment", canonical_state |-> "shipment.delivered"]}

GoodTypeAnswer == {[classification |-> "shipment", canonical_state |-> "shipment.in_transit"]}

=============================================================================
