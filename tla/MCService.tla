----------------------------- MODULE MCService -----------------------------
(***************************************************************************)
(* Small instances of Service for TLC: two events of one shipment, in two  *)
(* shapes. In the first the id stands in $.ref, and two leaves show a time *)
(* on the date of the event; in the second it is composed of $.ref and     *)
(* $.house, so that a schema of the first shape would read a part of it as *)
(* the id. The model answers with the time in another notation.            *)
(***************************************************************************)
EXTENDS Service, TLC

CONSTANTS e1, e2

MCSymmetry == Permutations(Workers)

at == <<<<"at">>>>
ref == <<<<"ref">>>>
house == <<<<"house">>>>
status == <<<<"status">>>>
gate_out == <<<<"gate_out">>>>

MCNames == {"at", "ref", "house", "status", "gate_out"}
MCAddresses == <<at, ref, house, status, gate_out>>
MCTimePaths == {<<"at">>, <<"gate_out">>}

mbl == <<"MBL">>
hbl == <<"HBL">>
x == <<"MBL", ":", "HBL">>
out == <<"out">>
eight == <<"8 am">>
noon == <<"12 am">>
iso == <<"T12">>

MCValues == {mbl, hbl, x, out, eight, noon, iso}

Text(v) == [text |-> v, truthy |-> TRUE]

MCPayload ==
    e1 :> (ref :> Text(x) @@ status :> Text(out) @@ at :> Text(eight) @@ gate_out :> Text(noon))
    @@ e2 :> (ref :> Text(mbl) @@ house :> Text(hbl) @@ status :> Text(out) @@ at :> Text(noon))

MCInstant ==
    [v \in MCValues |-> IF v = eight THEN 8 ELSE IF v \in {noon, iso} THEN 12 ELSE NoRow]

\* Discovery may take the one time for the other, if it looks at the date only.
MCSameDate == {eight, noon} \X {iso}

SameTime == {<<noon, iso>>}

MCHint == e1 :> NoRow @@ e2 :> "maersk"

MCInferred == e1 :> "maersk" @@ e2 :> "unknown"

Shipment(vendor) ==
    [classification |-> "shipment", vendor_id |-> vendor, ext_id |-> x,
     event_type |-> "shipment.in_transit", event_timestamp |-> iso, raw_event_type |-> out]

\* The model does not recognise the vendor of the first event.
MCAnswers == e1 :> {Shipment("unknown")} @@ e2 :> {Shipment("maersk")}

\* The canonical event of an event, at each of the times it may be read at.
InTransit(e, times) ==
    {[event_id |-> e, classification |-> "shipment", key |-> <<"maersk", x>>,
      event_type |-> "shipment.in_transit", event_timestamp |-> t] : t \in times}

OneReading == InTransit(e1, {12}) \cup InTransit(e2, {12})

\* With the wrong leaf as its time, the first event reads otherwise.
TwoReadings == InTransit(e1, {8, 12}) \cup InTransit(e2, {12})

MCTypeAnswers == {[classification |-> "shipment", canonical_state |-> "shipment.in_transit"]}

=============================================================================
