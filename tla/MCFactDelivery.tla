--------------------------- MODULE MCFactDelivery ---------------------------
(* Orders writes a fact for each of two orders, Billing three for one, two *)
(* of them in one transaction; the despatch lacks what its email needs.    *)
EXTENDS FactDelivery

CONSTANTS o1, o2, r1, w1, w2

AllFields ==
  {"orderReference", "retailerCode", "companyCode", "totalAmount", "currency", "orderDate",
   "invoiceReference", "paymentReference", "amount", "valueDate", "source"}

fact(type, fields) == [type |-> type, fields |-> fields]

MCEmits == [s \in Service \X {o1, o2} |->
  CASE s[1] = "orders" -> << <<fact("order.placed", AllFields)>> >>
    [] s = <<"fulfillment", o1>> -> << <<fact("order.despatched", {"orderReference"})>> >>
    [] s = <<"billing", o1>> ->
         << <<fact("invoice.issued", AllFields)>>,
            <<fact("payment.received", AllFields), fact("credit.released", AllFields)>> >>
    [] OTHER -> <<>>]

SagaFacts == {"order.despatched", "payment.received", "credit.released"}

=============================================================================
