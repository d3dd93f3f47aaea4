----------------------------- MODULE Canonical -----------------------------
(***************************************************************************)
(* The enumerations of app/domain/canonical.py: what every extraction path *)
(* produces and the state machine consumes.                                *)
(***************************************************************************)

ShipmentState == {"PICKED_UP", "IN_TRANSIT", "OUT_FOR_DELIVERY",
                  "DELIVERED", "EXCEPTION", "CANCELLED"}

InvoiceState == {"ISSUED", "PAID", "VOIDED", "REFUNDED"}

State == ShipmentState \cup InvoiceState

ShipmentEventType == {"shipment.picked_up", "shipment.in_transit",
                      "shipment.out_for_delivery", "shipment.delivered",
                      "shipment.exception", "shipment.cancelled"}

InvoiceEventType == {"invoice.issued", "invoice.paid",
                     "invoice.voided", "invoice.refunded"}

SHIPMENT_EVENT_TO_STATE ==
    [t \in ShipmentEventType |->
        CASE t = "shipment.picked_up"        -> "PICKED_UP"
          [] t = "shipment.in_transit"       -> "IN_TRANSIT"
          [] t = "shipment.out_for_delivery" -> "OUT_FOR_DELIVERY"
          [] t = "shipment.delivered"        -> "DELIVERED"
          [] t = "shipment.exception"        -> "EXCEPTION"
          [] t = "shipment.cancelled"        -> "CANCELLED"]

INVOICE_EVENT_TO_STATE ==
    [t \in InvoiceEventType |->
        CASE t = "invoice.issued"   -> "ISSUED"
          [] t = "invoice.paid"     -> "PAID"
          [] t = "invoice.voided"   -> "VOIDED"
          [] t = "invoice.refunded" -> "REFUNDED"]

=============================================================================
