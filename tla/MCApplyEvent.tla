---------------------------- MODULE MCApplyEvent ----------------------------
(***************************************************************************)
(* Small instances of ApplyEvent for TLC. The readings are chosen so that  *)
(* the events of one entity meet every guard: a first event, a later one,  *)
(* an older one, one of the same instant, a disallowed transition, an      *)
(* invoice that repeats its state, and an event read in two ways.          *)
(***************************************************************************)
EXTENDS ApplyEvent, TLC

CONSTANTS e1, e2, e3, k1, k2

MCSymmetry == Permutations(Workers)

MCTimestamps == 1..3

Shipment(e, k, t, ts) ==
    [event_id |-> e, classification |-> "shipment", key |-> k,
     event_type |-> t, event_timestamp |-> ts]

Invoice(e, k, t, ts) ==
    [event_id |-> e, classification |-> "invoice", key |-> k,
     event_type |-> t, event_timestamp |-> ts]

Unclassified(e) == [event_id |-> e, classification |-> "unclassified"]

\* Three events of one shipment, so that two of them contend for the row the
\* third has made: both follow it, at the same instant, and one order of them
\* is disallowed. When the first comes late it is stale. It may also be read as
\* an event of another shipment, and the last as an unclassified one.
ShipmentReadings ==
    {Shipment(e1, k1, "shipment.in_transit", 2),
     Shipment(e1, k2, "shipment.in_transit", 2),
     Shipment(e2, k1, "shipment.delivered", 3),
     Shipment(e3, k1, "shipment.exception", 3),
     Unclassified(e3)}

\* An invoice issued and issued again at the same instant.
InvoiceReadings ==
    {Invoice(e1, k1, "invoice.issued", 1),
     Invoice(e2, k1, "invoice.issued", 1)}

=============================================================================
